------------------------ MODULE ActionSessionProofs ------------------------
(***************************************************************************)
(* Proofs about action sessions, for any number of pages, connections,      *)
(* actions, faults and recoveries: the invariant is inductive, an action is *)
(* applied at most once and in order, and the sessions implement AtMostOnce.*)
(***************************************************************************)
EXTENDS ActionSessionProperties, ProofLemmas, SequenceTheorems, TLAPS

(* The bounds are numbers.                                                 *)
LEMMA Bounds ==
  /\ MaxConn \in Nat \ {0} /\ MaxSeq \in Nat \ {0} /\ OUTBOX_CAPACITY \in Nat \ {0}
  /\ RECOVERY_LOOP_LIMIT \in Nat /\ MaxFaults \in Nat
  /\ FirstPage \in Page /\ Shapes \subseteq {"worker", "server"}
  /\ WorkerKinds \subseteq Kind
  BY ConstantsOK DEF ConstantsOK
-----------------------------------------------------------------------------
(* The messages, and what their fields hold.                               *)
LEMMA MessagesOK ==
  /\ Hello \in Message /\ Bye \in Message
  /\ \A acts \in SUBSET Action : Batch(acts) \in Message
  /\ \A ack \in Acks : Welcome(ack) \in Message
  /\ \A ack \in Acks : \A r \in SUBSET Outcome : Frame(ack, r) \in Message
<1>1. Hello \in Message /\ Bye \in Message
  BY DEF Hello, Bye, Message
<1>2. \A acts \in SUBSET Action : Batch(acts) \in Message
  BY DEF Batch, Message
<1>3. \A ack \in Acks : Welcome(ack) \in Message
  BY DEF Welcome, Message
<1>4. \A ack \in Acks : \A r \in SUBSET Outcome : Frame(ack, r) \in Message
  BY DEF Frame, Message
<1> QED
  BY <1>1, <1>2, <1>3, <1>4

LEMMA MessageTypes ==
  /\ Hello.type = "hello" /\ Bye.type = "bye"
  /\ \A acts : Batch(acts).type = "batch" /\ Batch(acts).acts = acts
  /\ \A ack : Welcome(ack).type = "welcome" /\ Welcome(ack).ack = ack
  /\ \A ack, r : Frame(ack, r).type = "frame"
  BY DEF Hello, Bye, Batch, Welcome, Frame

LEMMA MessageFields ==
  ASSUME NEW m \in Message
  PROVE  /\ m.type = "batch" => m.acts \in SUBSET Action
         /\ m.type = "welcome" => m.ack \in Acks
         /\ m.type = "frame" => m.ack \in Acks /\ m.results \in SUBSET Outcome
<1>1. CASE m \in [type : {"hello", "bye"}]
  BY <1>1
<1>2. CASE m \in [type : {"batch"}, acts : SUBSET Action]
  BY <1>2
<1>3. CASE m \in [type : {"welcome"}, ack : Acks]
  BY <1>3
<1>4. CASE m \in [type : {"frame"}, ack : Acks, results : SUBSET Outcome]
  BY <1>4
<1> QED
  BY <1>1, <1>2, <1>3, <1>4 DEF Message

LEMMA ActionFields ==
  ASSUME NEW a \in Action
  PROVE  a.page \in Page /\ a.seq \in Seqs /\ a.seq \in Nat /\ a.seq \in Acks
         /\ a.kind \in Kind
  BY Bounds DEF Action, Seqs, Acks

LEMMA SaysOK ==
  ASSUME NEW what \in {"done", "refused", "fault", "lost"}, NEW acts \in SUBSET Action
  PROVE  Says(what, acts) \in SUBSET Outcome
  BY ActionFields DEF Says, Outcome

(* A batch has a first action.                                             *)
LEMMA FirstIn ==
  ASSUME NEW acts \in SUBSET Action, acts # {}
  PROVE  First(acts) \in acts
<1> DEFINE T == {a.seq : a \in acts}
<1>1. T \in SUBSET Nat /\ T # {}
  BY ActionFields
<1> HIDE DEF T
<1>2. PICK n \in T : \A k \in T : n <= k
  BY <1>1, NatMin
<1>3. PICK a \in acts : a.seq = n
  BY <1>2 DEF T
<1>4. \A b \in acts : b.seq \in T
  BY DEF T
<1>5. \A b \in acts : a.seq <= b.seq
  BY <1>2, <1>3, <1>4
<1> QED
  BY <1>5 DEF First
-----------------------------------------------------------------------------
(* Sealing appends the records to the log, as one frame of their own.       *)
LEMMA SealedIs ==
  ASSUME log \in Seq(Entry), records \in Seq(Action)
  PROVE  /\ Sealed \in Seq(Entry)
         /\ Len(Sealed) = Len(log) + Len(records)
         /\ \A i \in 1 .. Len(log) : Sealed[i] = log[i]
         /\ \A i \in 1 .. Len(Sealed) : i > Len(log) =>
              /\ i - Len(log) \in 1 .. Len(records)
              /\ Sealed[i] = [act |-> records[i - Len(log)], frame |-> NextFrame(log)]
<1> DEFINE new == [i \in 1 .. Len(records) |->
                     [act |-> records[i], frame |-> NextFrame(log)]]
<1>1. Len(log) \in Nat /\ Len(records) \in Nat
  OBVIOUS
<1>2. NextFrame(log) \in Nat
  <2>1. CASE log = << >>
    BY <2>1 DEF NextFrame
  <2>2. CASE log # << >>
    <3>1. log[Len(log)] \in Entry
      BY <1>1, <2>2
    <3> QED
      BY <2>2, <3>1 DEF NextFrame, Entry
  <2> QED
    BY <2>1, <2>2
<1>3. \A i \in 1 .. Len(records) : new[i] \in Entry
  BY <1>2 DEF Entry
<1>4. new \in Seq(Entry) /\ Len(new) = Len(records)
  BY <1>1, <1>3
<1> HIDE DEF new
<1>5. Sealed = log \o new
  BY DEF Sealed, new
<1>6. Sealed \in Seq(Entry) /\ Len(Sealed) = Len(log) + Len(records)
  <2>1. log \o new \in Seq(Entry) /\ Len(log \o new) = Len(log) + Len(new)
    BY <1>4, ConcatProperties, Zenon
  <2> QED
    BY <1>4, <1>5, <2>1
<1>7. \A i \in 1 .. Len(log) : Sealed[i] = log[i]
  BY <1>1, <1>4, <1>5
<1>8. ASSUME NEW i \in 1 .. Len(Sealed), i > Len(log)
      PROVE  /\ i - Len(log) \in 1 .. Len(records)
             /\ Sealed[i] = [act |-> records[i - Len(log)], frame |-> NextFrame(log)]
  <2>1. i - Len(log) \in 1 .. Len(records)
    BY <1>1, <1>6, <1>8
  <2>2. Sealed[i] = new[i - Len(log)]
    BY <1>1, <1>4, <1>5, <1>6, <1>8
  <2> QED
    BY <2>1, <2>2 DEF new
<1> QED
  BY <1>6, <1>7, <1>8

(* The seq a replay leaves covers everything that has run.                  *)
LEMMA ReplayCovers ==
  ASSUME NEW l \in Seq(Entry), NEW skips, OrderedLog(l, skips)
  PROVE  /\ ReplayedSeq(l, skips) \in Acks
         /\ \A i \in DOMAIN l \ skips : l[i].act.seq <= ReplayedSeq(l, skips)
<1> DEFINE n == Len(l)
           last == {i \in 1 .. n : l[i].frame = l[n].frame}
           run == last \ skips
           top(S) == CHOOSE i \in S : \A j \in S : j <= i
<1>1. n \in Nat /\ DOMAIN l = 1 .. n
  OBVIOUS
<1>2. \A i \in 1 .. n : l[i] \in Entry
  OBVIOUS
<1>3. \A i \in 1 .. n : l[i].act \in Action /\ l[i].frame \in Nat
  BY <1>2 DEF Entry
<1>4. \A i \in 1 .. n : l[i].act.seq \in Acks /\ l[i].act.seq \in Nat
  BY <1>3, ActionFields
<1>5. CASE l = << >>
  <2>1. ReplayedSeq(l, skips) = 0
    BY <1>5 DEF ReplayedSeq
  <2> QED
    BY <1>5, <2>1, Bounds DEF Acks
<1>6. CASE l # << >>
  <2>1. n \in 1 .. n
    BY <1>1, <1>6
  <2>2. n \in last /\ last \in SUBSET (1 .. n)
    BY <2>1
  <2>3. \A S \in SUBSET (1 .. n) : S # {} => top(S) \in S /\ \A j \in S : j <= top(S)
    <3> TAKE S \in SUBSET (1 .. n)
    <3> SUFFICES ASSUME S # {} PROVE top(S) \in S /\ \A j \in S : j <= top(S)
      OBVIOUS
    <3>1. n \in Nat /\ S \in SUBSET (0 .. n)
      BY <1>1
    <3> HIDE DEF n
    <3>2. \E i \in S : \A j \in S : j <= i
      BY <3>1, NatMax
    <3> QED
      BY <3>2
  <2>4. CASE run # {}
    <3>1. ReplayedSeq(l, skips) = l[top(run)].act.seq
      BY <1>6, <2>4 DEF ReplayedSeq
    <3> HIDE DEF top
    <3>2. top(run) \in run /\ \A j \in run : j <= top(run)
      BY <2>2, <2>3, <2>4
    <3>3. ASSUME NEW i \in DOMAIN l \ skips
          PROVE  l[i].act.seq <= l[top(run)].act.seq
      <4>1. CASE i \in run
        <5>1. i <= top(run)
          BY <3>2, <4>1
        <5>2. CASE i = top(run)
          BY <1>1, <1>4, <5>2
        <5>3. CASE i < top(run)
          BY <1>1, <1>4, <3>2, <5>3 DEF OrderedLog
        <5> QED
          BY <1>1, <3>2, <5>1, <5>2, <5>3
      <4>2. CASE i \notin run
        <5>1. l[i].frame # l[n].frame
          BY <1>1, <4>2
        <5>2. l[top(run)].frame = l[n].frame /\ top(run) \in 1 .. n
          BY <3>2
        <5>3. i < top(run)
          BY <1>1, <1>3, <2>1, <5>1, <5>2 DEF OrderedLog
        <5> QED
          BY <1>1, <1>4, <5>2, <5>3 DEF OrderedLog
      <4> QED
        BY <4>1, <4>2
    <3> QED
      BY <1>4, <3>1, <3>2, <3>3
  <2>5. CASE run = {}
    <3>1. ReplayedSeq(l, skips) = l[top(last)].act.seq
      BY <1>6, <2>5 DEF ReplayedSeq
    <3> HIDE DEF top
    <3>2. top(last) = n
      <4>1. top(last) \in last /\ \A j \in last : j <= top(last)
        BY <2>2, <2>3
      <4>2. n <= top(last) /\ top(last) \in 1 .. n
        BY <2>2, <4>1
      <4> QED
        BY <1>1, <4>2
    <3>3. ASSUME NEW i \in DOMAIN l \ skips
          PROVE  l[i].act.seq <= l[n].act.seq
      BY <1>1, <1>4, <2>1, <3>3 DEF OrderedLog
    <3> QED
      BY <1>4, <2>1, <3>1, <3>2, <3>3
  <2> QED
    BY <2>4, <2>5
<1> QED
  BY <1>5, <1>6
-----------------------------------------------------------------------------
(* The initial states.                                                     *)
LEMMA InitInv == Init => IndInv
<1> SUFFICES ASSUME Init PROVE IndInv
  OBVIOUS
<1> USE Bounds DEF Init, BatchesSent
<1>1. ClientTypeOK
  BY DEF ClientTypeOK, Acks
<1>2. HostTypeOK
  BY DEF HostTypeOK, Acks, NoSlot, Idle, Call
<1>3. LinkTypeOK
  BY DEF LinkTypeOK
<1>4. OneSettled /\ UplinkSettled
  BY DEF OneSettled, UplinkSettled, Idle
<1>5. LogOrdered /\ RecordsOrdered /\ FloorHolds
  BY DEF LogOrdered, OrderedLog, RecordsOrdered, FloorHolds
<1>6. FromPages /\ SeedTaken
  BY DEF FromPages, Idle, SeedTaken
<1> QED
  BY <1>1, <1>2, <1>3, <1>4, <1>5, <1>6 DEF IndInv, TypeOK

(* What the host's invariants are about. *)
hostState == << log, skipped, records, lastSeq, slot, busy, mode, st >>

LEMMA HostKept ==
  ASSUME IndInv, UNCHANGED hostState
  PROVE  OneSettled' /\ UplinkSettled' /\ LogOrdered' /\ RecordsOrdered' /\ FloorHolds'
<1> USE DEF IndInv, hostState
<1>1. OneSettled' /\ UplinkSettled'
  BY DEF OneSettled, UplinkSettled
<1>2. LogOrdered' /\ RecordsOrdered'
  BY DEF LogOrdered, OrderedLog, RecordsOrdered
<1>3. FloorHolds'
  BY DEF FloorHolds, Floor, Larger
<1> QED
  BY <1>1, <1>2, <1>3

(* A message more on an uplink. *)
LEMMA AppendUp ==
  ASSUME IndInv, NEW c \in Conn, NEW m \in Message,
         up' = [up EXCEPT ![c] = Append(@, m)],
         sent' = sent,
         m.type = "batch" => m.acts # {} /\ m.acts \subseteq sent
  PROVE  up' \in [Conn -> Seq(Message)] /\ BatchesSent'
<1>1. up \in [Conn -> Seq(Message)]
  BY DEF IndInv, TypeOK, LinkTypeOK
<1>2. Append(up[c], m) \in Seq(Message)
  BY <1>1
<1>3. up' \in [Conn -> Seq(Message)]
  BY <1>1, <1>2
<1>4. ASSUME NEW d \in Conn, NEW i \in DOMAIN up'[d], up'[d][i].type = "batch"
      PROVE  up'[d][i].acts # {} /\ up'[d][i].acts \subseteq sent
  <2>1. CASE d = c /\ i = Len(up[c]) + 1
    <3>1. up'[d][i] = m
      BY <1>1, <2>1
    <3> QED
      BY <1>4, <3>1
  <2>2. CASE ~ (d = c /\ i = Len(up[c]) + 1)
    <3>1. i \in DOMAIN up[d] /\ up'[d][i] = up[d][i]
      BY <1>1, <2>2
    <3> QED
      BY <1>4, <3>1 DEF IndInv, FromPages, BatchesSent
  <2> QED
    BY <2>1, <2>2
<1> QED
  BY <1>3, <1>4 DEF BatchesSent

(* A message less. *)
LEMMA TailUp ==
  ASSUME IndInv, NEW c \in Conn, up[c] # << >>,
         up' = [up EXCEPT ![c] = Tail(@)],
         sent' = sent
  PROVE  /\ up' \in [Conn -> Seq(Message)] /\ BatchesSent'
         /\ Head(up[c]) \in Message
         /\ Head(up[c]).type = "batch" =>
              Head(up[c]).acts # {} /\ Head(up[c]).acts \subseteq sent
<1>1. up \in [Conn -> Seq(Message)]
  BY DEF IndInv, TypeOK, LinkTypeOK
<1>2. Tail(up[c]) \in Seq(Message) /\ Head(up[c]) \in Message /\ 1 \in DOMAIN up[c]
      /\ Head(up[c]) = up[c][1]
  BY <1>1
<1>3. up' \in [Conn -> Seq(Message)]
  BY <1>1, <1>2
<1>4. ASSUME NEW d \in Conn, NEW i \in DOMAIN up'[d], up'[d][i].type = "batch"
      PROVE  up'[d][i].acts # {} /\ up'[d][i].acts \subseteq sent
  <2>1. CASE d = c
    <3>1. i + 1 \in DOMAIN up[d] /\ up'[d][i] = up[d][i + 1]
      BY <1>1, <2>1
    <3> QED
      BY <1>4, <3>1 DEF IndInv, FromPages, BatchesSent
  <2>2. CASE d # c
    <3>1. i \in DOMAIN up[d] /\ up'[d][i] = up[d][i]
      BY <1>1, <2>2
    <3> QED
      BY <1>4, <3>1 DEF IndInv, FromPages, BatchesSent
  <2> QED
    BY <2>1, <2>2
<1> QED
  BY <1>2, <1>3, <1>4 DEF IndInv, FromPages, BatchesSent
-----------------------------------------------------------------------------
(* The page's steps. *)

LEMMA OpenPageInv == ASSUME IndInv, NEW p \in Page, OpenPage(p) PROVE IndInv'
<1> USE DEF IndInv, OpenPage, client, net, sim, disk, ghost
<1>1. TypeOK'
  BY DEF TypeOK, ClientTypeOK, HostTypeOK, LinkTypeOK
<1>2. FromPages' /\ SeedTaken'
  BY DEF FromPages, BatchesSent, SeedTaken, TypeOK, ClientTypeOK
<1> QED
  BY <1>1, <1>2, HostKept DEF hostState

LEMMA DialInv == ASSUME IndInv, NEW p \in Page, Dial(p) PROVE IndInv'
<1> USE DEF IndInv, Dial, client, net, sim, disk, ghost
<1>1. PICK c \in Conn :
        /\ st[c] = "unused"
        /\ link' = [link EXCEPT ![p] = c]
        /\ st' = [st EXCEPT ![c] = "garbage"]
        /\ up' = [up EXCEPT ![c] = << Hello >>]
  OBVIOUS
<1>2. TypeOK'
  <2>1. << Hello >> \in Seq(Message)
    BY MessagesOK
  <2>2. ClientTypeOK'
    BY <1>1 DEF TypeOK, ClientTypeOK
  <2>3. HostTypeOK'
    BY <1>1 DEF TypeOK, HostTypeOK
  <2>4. LinkTypeOK'
    BY <1>1, <2>1 DEF TypeOK, LinkTypeOK
  <2> QED
    BY <2>2, <2>3, <2>4 DEF TypeOK
<1>3. \A d \in Conn : st'[d] = "settled" <=> st[d] = "settled"
  BY <1>1 DEF TypeOK, HostTypeOK
<1>4. OneSettled' /\ SeedTaken'
  BY <1>3 DEF OneSettled, SeedTaken
<1>5. UplinkSettled'
  <2>1. busy.call = "uplink" => busy.conn \in Conn
    BY DEF TypeOK, HostTypeOK, Call
  <2> QED
    BY <1>3, <2>1 DEF UplinkSettled
<1>6. LogOrdered' /\ RecordsOrdered'
  BY DEF LogOrdered, OrderedLog, RecordsOrdered
<1>7. FloorHolds'
  BY <1>3 DEF FloorHolds, Floor, Larger
<1>8. FromPages'
  <2>1. \A d \in Conn : \A i \in DOMAIN up'[d] :
          up'[d][i].type = "batch" => up'[d][i].acts # {} /\ up'[d][i].acts \subseteq sent
    <3> TAKE d \in Conn
    <3>1. CASE d = c
      <4>1. up'[d] = << Hello >>
        BY <1>1, <3>1 DEF TypeOK, LinkTypeOK
      <4> QED
        BY <4>1, MessageTypes
    <3>2. CASE d # c
      <4>1. up'[d] = up[d]
        BY <1>1, <3>2 DEF TypeOK, LinkTypeOK
      <4> QED
        BY <4>1 DEF FromPages, BatchesSent
    <3> QED
      BY <3>1, <3>2
  <2> QED
    BY <2>1 DEF FromPages, BatchesSent
<1> QED
  BY <1>2, <1>4, <1>5, <1>6, <1>7, <1>8

LEMMA DispatchInv ==
  ASSUME IndInv, NEW p \in Page, NEW kind \in Kind, Dispatch(p, kind)
  PROVE  IndInv'
<1> DEFINE a == [page |-> p, seq |-> nextSeq[p], kind |-> kind]
           queued == IF Cardinality(pending[p]) < OUTBOX_CAPACITY THEN {a} ELSE {}
<1>1. a \in Action /\ nextSeq[p] \in Seqs
  <2>1. nextSeq[p] \in 0 .. MaxSeq + 1 /\ nextSeq[p] <= MaxSeq
    BY DEF IndInv, TypeOK, ClientTypeOK, Dispatch
  <2>2. nextSeq[p] # 0
    BY DEF IndInv, SeedTaken, Dispatch
  <2> QED
    BY <2>1, <2>2, Bounds DEF Action, Seqs
<1>2. queued \subseteq {a}
  OBVIOUS
<1>3. /\ outbox' = [outbox EXCEPT ![p] = @ \union queued]
      /\ pending' = [pending EXCEPT ![p] = @ \union queued]
      /\ sent' = sent \union {a}
      /\ nextSeq' = [nextSeq EXCEPT ![p] = @ + 1]
      /\ handed' = [handed EXCEPT ![p] = nextSeq[p]]
      /\ UNCHANGED << phase, ackWord, welcomeAck, told >>
      /\ UNCHANGED << shape, net, queue, recoveries, owed, taken, trapped, faults >>
      /\ UNCHANGED hostState
  BY DEF Dispatch, sim, disk, hostState
<1> HIDE DEF a, queued
<1>4. ClientTypeOK'
  BY <1>1, <1>2, <1>3, Bounds DEF IndInv, TypeOK, ClientTypeOK, Seqs, Acks
<1>5. HostTypeOK' /\ LinkTypeOK'
  BY <1>3 DEF IndInv, TypeOK, HostTypeOK, LinkTypeOK, net, hostState
<1>6. SeedTaken'
  BY <1>3, Bounds DEF IndInv, TypeOK, ClientTypeOK, SeedTaken
<1>7. FromPages'
  BY <1>2, <1>3 DEF IndInv, TypeOK, ClientTypeOK, FromPages, BatchesSent, net, hostState
<1> QED
  BY <1>3, <1>4, <1>5, <1>6, <1>7, HostKept DEF IndInv, TypeOK

LEMMA PollUplinkInv == ASSUME IndInv, NEW p \in Page, PollUplink(p) PROVE IndInv'
<1>1. /\ outbox[p] # {} /\ outbox' = [outbox EXCEPT ![p] = {}]
      /\ UNCHANGED << phase, nextSeq, ackWord, welcomeAck, handed, pending, told, sent >>
      /\ UNCHANGED << shape, link, down, queue, recoveries, owed, taken, trapped, faults >>
      /\ UNCHANGED hostState
  BY DEF PollUplink, sim, disk, ghost, hostState
<1>2. outbox[p] \in SUBSET Action /\ outbox[p] \subseteq sent
  BY DEF IndInv, TypeOK, ClientTypeOK, FromPages
<1>3. up' \in [Conn -> Seq(Message)] /\ BatchesSent'
  <2>1. CASE link[p] # 0 /\ st[link[p]] \notin Gone
    <3>1. link[p] \in Conn /\ Batch(outbox[p]) \in Message
      BY <1>2, <2>1, MessagesOK DEF IndInv, TypeOK, LinkTypeOK
    <3>2. up' = [up EXCEPT ![link[p]] = Append(@, Batch(outbox[p]))]
      BY <2>1 DEF PollUplink
    <3>3. Batch(outbox[p]).acts = outbox[p]
      BY MessageTypes
    <3> QED
      BY <1>1, <1>2, <3>1, <3>2, <3>3, AppendUp
  <2>2. CASE ~ (link[p] # 0 /\ st[link[p]] \notin Gone)
    <3>1. up' = up
      BY <2>2 DEF PollUplink
    <3> QED
      BY <1>1, <3>1 DEF IndInv, TypeOK, LinkTypeOK, FromPages, BatchesSent
  <2> QED
    BY <2>1, <2>2
<1>4. TypeOK'
  BY <1>1, <1>3 DEF IndInv, TypeOK, ClientTypeOK, HostTypeOK, LinkTypeOK, hostState
<1>5. SeedTaken'
  BY <1>1 DEF IndInv, SeedTaken
<1>6. FromPages'
  BY <1>1, <1>3 DEF IndInv, TypeOK, ClientTypeOK, FromPages, hostState
<1> QED
  BY <1>1, <1>4, <1>5, <1>6, HostKept DEF IndInv

LEMMA ReadDownInv == ASSUME IndInv, NEW p \in Page, ReadDown(p) PROVE IndInv'
<1> DEFINE c == link[p]
           m == Head(down[c])
<1>1. /\ c \in Conn /\ down[c] # << >> /\ down' = [down EXCEPT ![c] = Tail(@)]
      /\ UNCHANGED << shape, up, queue, recoveries, sent, owed, taken, trapped, faults >>
      /\ UNCHANGED hostState
  BY DEF IndInv, TypeOK, LinkTypeOK, ReadDown, sim, disk, ghost, hostState
<1>2. down \in [Conn -> Seq(Message)]
  BY DEF IndInv, TypeOK, LinkTypeOK
<1>3. m \in Message /\ Tail(down[c]) \in Seq(Message)
  BY <1>1, <1>2
<1>4. down' \in [Conn -> Seq(Message)]
  BY <1>1, <1>2, <1>3
<1>5. HostTypeOK'
  BY <1>1 DEF IndInv, TypeOK, HostTypeOK, hostState
<1>6. SUFFICES ClientTypeOK' /\ SeedTaken' /\ FromPages' /\ link' \in [Page -> Conn \union {0}]
  BY <1>1, <1>4, <1>5, HostKept DEF IndInv, TypeOK, LinkTypeOK
<1>7. CASE m.type = "welcome" /\ OnWelcome(p, m.ack) /\ UNCHANGED link
  <2>1. m.ack \in Acks
    BY <1>3, <1>7, MessageFields
  <2>2. pending[p] \in SUBSET Action /\ pending[p] \subseteq sent
    BY DEF IndInv, TypeOK, ClientTypeOK, FromPages
  <2> DEFINE acked == Acked(pending[p], m.ack)
             left == Unacked(pending[p], m.ack)
  <2>3. acked \in SUBSET Action /\ left \subseteq pending[p]
    BY <2>2 DEF Acked, Unacked
  <2>4. Says("lost", acked) \in SUBSET Outcome
    BY <2>3, SaysOK
  <2>5. /\ phase' = [phase EXCEPT ![p] = "online"]
        /\ nextSeq' = [nextSeq EXCEPT ![p] = IF @ = 0 THEN m.ack + 1 ELSE @]
        /\ welcomeAck' = [welcomeAck EXCEPT ![p] = m.ack]
        /\ told' = [told EXCEPT ![p] = @ \union Says("lost", acked)]
        /\ pending' = [pending EXCEPT ![p] = left]
        /\ outbox' = [outbox EXCEPT ![p] = left]
        /\ UNCHANGED << ackWord, handed >>
    BY <1>7 DEF OnWelcome, Resend, IndInv, TypeOK, ClientTypeOK
  <2> HIDE DEF c, m, acked, left
  <2>6. ClientTypeOK'
    BY <1>1, <2>1, <2>2, <2>3, <2>4, <2>5, Bounds, SMTT(20) DEF IndInv, TypeOK, ClientTypeOK, Acks
  <2>7. SeedTaken'
    BY <2>1, <2>5, Bounds DEF IndInv, TypeOK, ClientTypeOK, SeedTaken, Acks
  <2>8. FromPages'
    BY <1>1, <2>2, <2>3, <2>5
       DEF IndInv, TypeOK, ClientTypeOK, FromPages, BatchesSent, hostState
  <2> QED
    BY <1>7, <2>6, <2>7, <2>8 DEF IndInv, TypeOK, LinkTypeOK
<1>8. CASE m.type = "frame" /\ OnFrame(p, m.ack, m.results) /\ UNCHANGED link
  <2>1. m.ack \in Acks /\ m.results \in SUBSET Outcome
    BY <1>3, <1>8, MessageFields
  <2>2. /\ told' = [told EXCEPT ![p] = @ \union m.results]
        /\ pending' = [pending EXCEPT ![p] = Unacked(@, m.ack)]
        /\ ackWord' = [ackWord EXCEPT ![p] = m.ack]
        /\ UNCHANGED << phase, nextSeq, welcomeAck, handed, outbox >>
    BY <1>8 DEF OnFrame
  <2>3. Unacked(pending[p], m.ack) \subseteq pending[p]
    BY DEF Unacked
  <2> HIDE DEF c, m
  <2>4. ClientTypeOK'
    BY <1>1, <2>1, <2>2, <2>3 DEF IndInv, TypeOK, ClientTypeOK
  <2>5. SeedTaken'
    BY <2>2 DEF IndInv, SeedTaken
  <2>6. FromPages'
    BY <1>1, <2>2, <2>3 DEF IndInv, TypeOK, ClientTypeOK, FromPages, BatchesSent, hostState
  <2> QED
    BY <1>8, <2>4, <2>5, <2>6 DEF IndInv, TypeOK, LinkTypeOK
<1>9. CASE UNCHANGED << client, link >>
  <2>1. ClientTypeOK' /\ SeedTaken' /\ link' \in [Page -> Conn \union {0}]
    BY <1>1, <1>9 DEF IndInv, TypeOK, ClientTypeOK, LinkTypeOK, SeedTaken, client
  <2> QED
    BY <1>1, <1>9, <2>1 DEF IndInv, FromPages, BatchesSent, client, hostState
<1>10. CASE /\ phase' = [phase EXCEPT ![p] = "stopped"]
            /\ link' = [link EXCEPT ![p] = 0]
            /\ UNCHANGED << nextSeq, ackWord, welcomeAck, handed, outbox, pending, told >>
  <2>1. ClientTypeOK' /\ SeedTaken' /\ link' \in [Page -> Conn \union {0}]
    BY <1>1, <1>10 DEF IndInv, TypeOK, ClientTypeOK, LinkTypeOK, SeedTaken
  <2> QED
    BY <1>1, <1>10, <2>1 DEF IndInv, FromPages, BatchesSent, hostState
<1> QED
  BY <1>7, <1>8, <1>9, <1>10 DEF ReadDown

LEMMA ClientTrapInv == ASSUME IndInv, NEW p \in Page, ClientTrap(p) PROVE IndInv'
<1> DEFINE from == Larger(ackWord[p], welcomeAck[p])
           lost == {a \in sent : a.page = p /\ a.seq > from /\ a.seq <= handed[p]}
<1>1. /\ told' = [told EXCEPT ![p] = @ \union Says("lost", lost)]
      /\ phase' = [phase EXCEPT ![p] = "waiting"]
      /\ ackWord' = [ackWord EXCEPT ![p] = 0]
      /\ welcomeAck' = [welcomeAck EXCEPT ![p] = 0]
      /\ handed' = [handed EXCEPT ![p] = 0]
      /\ outbox' = [outbox EXCEPT ![p] = {}]
      /\ pending' = [pending EXCEPT ![p] = {}]
      /\ faults < MaxFaults /\ faults' = faults + 1
      /\ UNCHANGED << shape, nextSeq, link, down, queue, recoveries, sent, owed, taken, trapped >>
      /\ UNCHANGED hostState
  BY DEF ClientTrap, sim, disk, ghost, hostState
<1>2. Says("lost", lost) \in SUBSET Outcome
  <2>1. lost \in SUBSET Action
    BY DEF IndInv, TypeOK, ClientTypeOK
  <2> QED
    BY <2>1, SaysOK
<1> HIDE DEF from, lost
<1>3. up' \in [Conn -> Seq(Message)] /\ BatchesSent'
  <2>1. CASE link[p] # 0 /\ st[link[p]] \notin Gone
    <3>1. link[p] \in Conn /\ up' = [up EXCEPT ![link[p]] = Append(@, Hello)]
      BY <2>1 DEF IndInv, TypeOK, LinkTypeOK, ClientTrap
    <3> QED
      BY <1>1, <3>1, MessagesOK, MessageTypes, AppendUp
  <2>2. CASE ~ (link[p] # 0 /\ st[link[p]] \notin Gone)
    <3>1. up' = up
      BY <2>2 DEF ClientTrap
    <3> QED
      BY <1>1, <3>1 DEF IndInv, TypeOK, LinkTypeOK, FromPages, BatchesSent
  <2> QED
    BY <2>1, <2>2
<1>4. ClientTypeOK'
  BY <1>1, <1>2, Bounds DEF IndInv, TypeOK, ClientTypeOK, Acks
<1>5. HostTypeOK' /\ LinkTypeOK'
  BY <1>1, <1>3, Bounds DEF IndInv, TypeOK, HostTypeOK, LinkTypeOK, hostState
<1>6. SeedTaken' /\ FromPages'
  BY <1>1, <1>3 DEF IndInv, TypeOK, ClientTypeOK, SeedTaken, FromPages, hostState
<1> QED
  BY <1>1, <1>4, <1>5, <1>6, HostKept DEF IndInv, TypeOK

LEMMA LinkLostInv ==
  ASSUME IndInv, NEW p \in Page, CutLink(p) \/ NoticeClose(p)
  PROVE  IndInv'
<1>1. /\ link' = [link EXCEPT ![p] = 0]
      /\ UNCHANGED << shape, client, up, queue, owed, recoveries, ghost >>
      /\ UNCHANGED hostState
  BY DEF CutLink, NoticeClose, sim, disk, hostState
<1>2. down' \in [Conn -> Seq(Message)] /\ faults' \in 0 .. MaxFaults
  <2>1. CASE CutLink(p)
    BY <2>1, Bounds DEF CutLink, IndInv, TypeOK, LinkTypeOK
  <2>2. CASE NoticeClose(p)
    BY <2>2 DEF NoticeClose, IndInv, TypeOK, LinkTypeOK
  <2> QED
    BY <2>1, <2>2
<1>3. TypeOK'
  BY <1>1, <1>2
     DEF IndInv, TypeOK, ClientTypeOK, HostTypeOK, LinkTypeOK, client, ghost, hostState
<1>4. SeedTaken' /\ FromPages'
  BY <1>1 DEF IndInv, SeedTaken, FromPages, BatchesSent, client, ghost, hostState
<1> QED
  BY <1>1, <1>3, <1>4, HostKept DEF IndInv
-----------------------------------------------------------------------------
(* The host's steps: what the connections deliver. *)

(* The pages' part of the invariant is left alone by the host. *)
LEMMA ClientKept ==
  ASSUME IndInv, UNCHANGED << client, sent >>
  PROVE  ClientTypeOK' /\ SeedTaken' /\ \A p \in Page : (outbox[p] \union pending[p] \subseteq sent)'
  BY DEF IndInv, TypeOK, ClientTypeOK, SeedTaken, FromPages, client

(* A connection that loses its slot and its uplink takes nothing with it.   *)
LEMMA HostCloseInv == ASSUME IndInv, NEW c \in Conn, HostClose(c) PROVE IndInv'
<1>1. /\ mode = "up" /\ busy = Idle /\ busy.call = "none"
      /\ st' = [st EXCEPT ![c] = "closed"]
      /\ slot' = [slot EXCEPT ![c] = NoSlot]
      /\ up' = [up EXCEPT ![c] = << >>]
      /\ faults < MaxFaults /\ faults' = faults + 1
      /\ UNCHANGED << shape, client, link, down, queue, busy, mode, records, lastSeq,
                      log, skipped, recoveries, sent, owed, taken, trapped >>
  BY DEF HostClose, HostFree, Idle, disk, ghost
<1>2. ClientTypeOK' /\ SeedTaken' /\ \A p \in Page : (outbox[p] \union pending[p] \subseteq sent)'
  BY <1>1, ClientKept
<1>3. HostTypeOK' /\ LinkTypeOK'
  <2>1. NoSlot \in [on : BOOLEAN, floor : Acks, first : BOOLEAN, results : SUBSET Outcome]
    BY Bounds DEF NoSlot, Acks
  <2> QED
    BY <1>1, <2>1, Bounds DEF IndInv, TypeOK, HostTypeOK, LinkTypeOK
<1>4. st'[c] # "settled" /\ \A d \in Conn : d # c => st'[d] = st[d] /\ slot'[d] = slot[d]
  BY <1>1 DEF IndInv, TypeOK, HostTypeOK
<1>5. OneSettled' /\ UplinkSettled'
  BY <1>1, <1>4 DEF IndInv, OneSettled, UplinkSettled
<1>6. LogOrdered' /\ RecordsOrdered'
  BY <1>1 DEF IndInv, LogOrdered, OrderedLog, RecordsOrdered
<1>7. FloorHolds'
  BY <1>1, <1>4 DEF IndInv, FloorHolds, Floor, Larger
<1>8. BatchesSent'
  BY <1>1 DEF IndInv, TypeOK, LinkTypeOK, FromPages, BatchesSent
<1> QED
  BY <1>1, <1>2, <1>3, <1>5, <1>6, <1>7, <1>8 DEF IndInv, TypeOK, FromPages

LEMMA ReceiveInv == ASSUME IndInv, NEW c \in Conn, Receive(c) PROVE IndInv'
<1> DEFINE m == Head(up[c])
<1>1. /\ mode = "up" /\ busy = Idle /\ busy.call = "none"
      /\ up[c] # << >> /\ up' = [up EXCEPT ![c] = Tail(@)]
      /\ UNCHANGED << shape, client, link, down, mode, records, lastSeq, log, skipped,
                      recoveries, sent, owed, taken, trapped, faults >>
  BY DEF Receive, HostFree, Idle, disk, ghost
<1>2. /\ up' \in [Conn -> Seq(Message)] /\ BatchesSent'
      /\ m \in Message
      /\ m.type = "batch" => m.acts # {} /\ m.acts \subseteq sent
  BY <1>1, TailUp
<1>3. ClientTypeOK' /\ SeedTaken' /\ \A p \in Page : (outbox[p] \union pending[p] \subseteq sent)'
  BY <1>1, ClientKept
<1>4. LinkTypeOK'
  BY <1>1, <1>2 DEF IndInv, TypeOK, LinkTypeOK
<1>5. LogOrdered' /\ RecordsOrdered'
  BY <1>1 DEF IndInv, LogOrdered, OrderedLog, RecordsOrdered
<1>6. SUFFICES HostTypeOK' /\ OneSettled' /\ UplinkSettled' /\ FloorHolds'
               /\ (busy'.call = "uplink" => busy'.acts \subseteq sent)
  BY <1>1, <1>2, <1>3, <1>4, <1>5 DEF IndInv, TypeOK, FromPages
<1>7. CASE ReceiveHello(c)
  <2>1. NoSlot \in [on : BOOLEAN, floor : Acks, first : BOOLEAN, results : SUBSET Outcome]
    BY Bounds DEF NoSlot, Acks
  <2>2. CASE st[c] \in {"garbage", "settled"}
    <3>1. /\ st' = [st EXCEPT ![c] = "awaiting"]
          /\ slot' = [slot EXCEPT ![c] = IF st[c] = "settled" THEN NoSlot ELSE @]
          /\ queue' = Append(queue, c) /\ UNCHANGED busy
      BY <1>7, <2>2 DEF ReceiveHello
    <3>2. st'[c] # "settled" /\ \A d \in Conn : d # c => st'[d] = st[d] /\ slot'[d] = slot[d]
      BY <3>1 DEF IndInv, TypeOK, HostTypeOK
    <3>3. HostTypeOK'
      BY <1>1, <2>1, <3>1 DEF IndInv, TypeOK, HostTypeOK
    <3>4. OneSettled' /\ UplinkSettled'
      BY <1>1, <3>1, <3>2 DEF IndInv, OneSettled, UplinkSettled
    <3>5. FloorHolds'
      BY <1>1, <3>1, <3>2 DEF IndInv, FloorHolds, Floor, Larger
    <3> QED
      BY <1>1, <3>1, <3>3, <3>4, <3>5
  <2>3. CASE st[c] \notin {"garbage", "settled"}
    <3>1. UNCHANGED << st, slot, queue, busy >>
      BY <1>7, <2>3 DEF ReceiveHello
    <3>2. HostTypeOK'
      BY <1>1, <3>1 DEF IndInv, TypeOK, HostTypeOK
    <3> QED
      BY <1>1, <3>1, <3>2, HostKept DEF hostState
  <2> QED
    BY <2>2, <2>3
<1>8. CASE ReceiveBatch(c)
  <2>1. m.type = "batch" /\ UNCHANGED << st, slot, queue >>
    BY <1>8 DEF ReceiveBatch
  <2>2. m.acts \in SUBSET Action /\ m.acts # {} /\ m.acts \subseteq sent
    BY <1>2, <2>1, MessageFields
  <2>3. CASE st[c] = "settled"
    <3>1. busy' = [call |-> "uplink", conn |-> c, acts |-> m.acts]
      BY <1>8, <2>3 DEF ReceiveBatch
    <3> HIDE DEF m
    <3>2. busy' \in Call
      BY <2>2, <3>1 DEF Call
    <3>3. HostTypeOK'
      BY <1>1, <2>1, <3>2 DEF IndInv, TypeOK, HostTypeOK
    <3>4. OneSettled' /\ UplinkSettled'
      BY <1>1, <2>1, <2>2, <2>3, <3>1 DEF IndInv, OneSettled, UplinkSettled
    <3>5. FloorHolds'
      BY <1>1, <2>1, <3>1 DEF IndInv, FloorHolds, Floor, Larger
    <3> QED
      BY <2>2, <3>1, <3>3, <3>4, <3>5
  <2>4. CASE st[c] # "settled"
    <3>1. UNCHANGED << st, slot, queue, busy >>
      BY <1>8, <2>1, <2>4 DEF ReceiveBatch
    <3>2. HostTypeOK'
      BY <1>1, <3>1 DEF IndInv, TypeOK, HostTypeOK
    <3> QED
      BY <1>1, <3>1, <3>2, HostKept DEF hostState
  <2> QED
    BY <2>3, <2>4
<1> QED
  BY <1>7, <1>8 DEF Receive

LEMMA LogActs ==
  ASSUME IndInv
  PROVE  /\ \A i \in DOMAIN log : log[i] \in Entry /\ log[i].act \in Action
         /\ \A i \in DOMAIN log : log[i].act.seq \in Nat /\ log[i].frame \in Nat
<1>1. log \in Seq(Entry)
  BY DEF IndInv, TypeOK, HostTypeOK
<1>2. \A i \in DOMAIN log : log[i] \in Entry
  BY <1>1
<1> QED
  BY <1>2, ActionFields DEF Entry

SlotType == [on : BOOLEAN, floor : Acks, first : BOOLEAN, results : SUBSET Outcome]

(* The call on_uplink is in: an action of a settled connection's batch.     *)
LEMMA Uplink ==
  ASSUME IndInv, Admitting
  PROVE  /\ busy.conn \in Conn /\ st[busy.conn] = "settled" /\ slot[busy.conn].on
         /\ First(busy.acts) \in Action /\ First(busy.acts) \in sent
         /\ Rest(busy) \in Call
         /\ Rest(busy).call # "tick"
         /\ Rest(busy).call = "uplink" =>
              /\ Rest(busy).conn = busy.conn
              /\ Rest(busy).acts # {} /\ Rest(busy).acts \subseteq busy.acts
         /\ \A d \in Conn : st[d] = "settled" => d = busy.conn
         /\ Floor(busy.conn) \in Acks
<1>1. busy.call = "uplink" /\ mode = "up"
  BY DEF Admitting
<1>2. busy \in [call : {"uplink"}, conn : Conn, acts : SUBSET Action]
  BY <1>1 DEF IndInv, TypeOK, HostTypeOK, Call
<1>3. busy.acts # {} /\ st[busy.conn] = "settled"
  BY <1>1 DEF IndInv, UplinkSettled
<1>4. First(busy.acts) \in busy.acts /\ busy.acts \subseteq sent
  BY <1>1, <1>2, <1>3, FirstIn DEF IndInv, FromPages
<1> DEFINE left == busy.acts \ {First(busy.acts)}
<1>5. /\ Rest(busy) \in Call
      /\ Rest(busy).call # "tick"
      /\ Rest(busy).call = "uplink" =>
           /\ Rest(busy).conn = busy.conn
           /\ Rest(busy).acts # {} /\ Rest(busy).acts \subseteq busy.acts
  <2>1. CASE left = {}
    <3>1. Rest(busy) = Idle
      BY <2>1 DEF Rest
    <3> QED
      BY <3>1 DEF Idle, Call
  <2>2. CASE left # {}
    <3>1. Rest(busy) = [busy EXCEPT !.acts = left]
      BY <2>2 DEF Rest
    <3>2. left \in SUBSET Action /\ left \subseteq busy.acts
      BY <1>2
    <3> HIDE DEF left
    <3>3. Rest(busy) \in [call : {"uplink"}, conn : Conn, acts : SUBSET Action]
          /\ Rest(busy).conn = busy.conn /\ Rest(busy).acts = left
      BY <1>2, <3>1, <3>2
    <3>4. Rest(busy).call = "uplink" /\ Rest(busy) \in Call
      BY <3>3 DEF Call
    <3> QED
      BY <2>2, <3>2, <3>3, <3>4
  <2> QED
    BY <2>1, <2>2
<1>7. Floor(busy.conn) \in Acks
  BY <1>2, Bounds DEF IndInv, TypeOK, HostTypeOK, Floor, Larger, Acks
<1>8. \A d \in Conn : st[d] = "settled" => d = busy.conn
  BY <1>2, <1>3 DEF IndInv, OneSettled
<1>9. slot[busy.conn].on
  BY <1>2, <1>3 DEF IndInv, OneSettled
<1> QED
  BY <1>2, <1>3, <1>4, <1>5, <1>7, <1>8, <1>9

LEMMA OnUplinkInv == ASSUME IndInv, OnUplink PROVE IndInv'
<1>0. Admitting
  BY DEF OnUplink
<1> PICK c \in Conn, a \in Action : c = busy.conn /\ a = First(busy.acts)
  BY <1>0, Uplink
<1>1. /\ Admitting /\ mode = "up" /\ busy.call = "uplink"
      /\ busy' = Rest(busy)
      /\ UNCHANGED << shape, client, link, up, down, st, queue, mode, lastSeq, log, skipped,
                      recoveries, sent, owed, taken, trapped, faults >>
  BY DEF OnUplink, Admitting, net, disk, ghost
<1>2. /\ st[c] = "settled" /\ slot[c].on /\ a \in sent
      /\ busy' \in Call /\ busy'.call # "tick"
      /\ busy'.call = "uplink" =>
           busy'.conn = c /\ busy'.acts # {} /\ busy'.acts \subseteq busy.acts
      /\ \A d \in Conn : st[d] = "settled" => d = c
      /\ Floor(c) \in Acks
  BY <1>1, Uplink
<1>3. a.seq \in Acks /\ a.seq \in Nat
  BY <1>2, ActionFields
<1>4. Duplicate(c, a) \/ Refuse(c, a) \/ Admit(c, a)
  BY DEF OnUplink
<1>5. ClientTypeOK' /\ SeedTaken' /\ \A p \in Page : (outbox[p] \union pending[p] \subseteq sent)'
  BY <1>1, ClientKept
<1>6. LinkTypeOK' /\ BatchesSent'
  BY <1>1 DEF IndInv, TypeOK, LinkTypeOK, FromPages, BatchesSent
<1>7. LogOrdered'
  BY <1>1 DEF IndInv, LogOrdered, OrderedLog
<1>8. UplinkSettled' /\ (busy'.call = "uplink" => busy'.acts \subseteq sent)
  BY <1>1, <1>2 DEF IndInv, UplinkSettled, FromPages
<1>9. SUFFICES /\ slot' \in [Conn -> SlotType] /\ records' \in Seq(Action)
               /\ slot'[c].on /\ RecordsOrdered'
               /\ \A j \in DOMAIN records' :
                    /\ lastSeq < records'[j].seq
                    /\ records'[j].seq <= Floor(c)'
                    /\ records'[j] \in sent
  <2>1. HostTypeOK'
    BY <1>1, <1>2, <1>9 DEF IndInv, TypeOK, HostTypeOK, SlotType
  <2>2. OneSettled'
    BY <1>1, <1>2, <1>9 DEF OneSettled
  <2>3. FloorHolds'
    BY <1>1, <1>2, <1>9 DEF IndInv, FloorHolds, Floor, Larger
  <2>4. FromPages'
    BY <1>1, <1>5, <1>6, <1>8, <1>9 DEF IndInv, FromPages
  <2> QED
    BY <1>5, <1>6, <1>7, <1>8, <1>9, <2>1, <2>2, <2>3, <2>4 DEF IndInv, TypeOK
<1>10. \A j \in DOMAIN records :
         lastSeq < records[j].seq /\ records[j].seq <= Floor(c) /\ records[j] \in sent
         /\ records[j].seq \in Nat
  <2>1. \A j \in DOMAIN records : records[j] \in Action
    BY DEF IndInv, TypeOK, HostTypeOK
  <2> QED
    BY <1>1, <1>2, <2>1, ActionFields DEF IndInv, FloorHolds, FromPages
<1>11. slot \in [Conn -> SlotType] /\ records \in Seq(Action) /\ lastSeq \in Nat
  BY Bounds DEF IndInv, TypeOK, HostTypeOK, SlotType, Acks
<1>12. CASE Duplicate(c, a)
  BY <1>1, <1>2, <1>10, <1>11, <1>12
     DEF Duplicate, IndInv, RecordsOrdered, Floor, Larger
<1>13. CASE Refuse(c, a)
  <2>1. Says("refused", {a}) \in SUBSET Outcome
    BY <1>2, SaysOK
  <2>2. slot' = [slot EXCEPT ![c].results = @ \union Says("refused", {a})] /\ records' = records
    BY <1>13 DEF Refuse
  <2>3. slot' \in [Conn -> SlotType] /\ slot'[c].on /\ slot'[c].floor = slot[c].floor
    <3> DEFINE said == Says("refused", {a})
               new == [slot[c] EXCEPT !.results = slot[c].results \union said]
    <3>1. said \in SUBSET Outcome
      BY <2>1
    <3>2. slot' = [slot EXCEPT ![c] = new]
      BY <2>2
    <3> HIDE DEF said
    <3>3. slot[c] \in SlotType
      BY <1>11
    <3>4. new \in SlotType /\ new.on = slot[c].on /\ new.floor = slot[c].floor
      BY <3>1, <3>3 DEF SlotType
    <3> HIDE DEF new
    <3>5. slot' \in [Conn -> SlotType] /\ slot'[c] = new
      BY <1>11, <3>2, <3>4
    <3> QED
      BY <1>2, <3>4, <3>5
  <2> QED
    BY <1>1, <1>2, <1>10, <1>11, <2>2, <2>3 DEF IndInv, RecordsOrdered, Floor, Larger
<1>14. CASE Admit(c, a)
  <2>1. /\ a.seq > Floor(c) /\ slot' = [slot EXCEPT ![c].floor = a.seq]
        /\ records' = Append(records, a)
    BY <1>14 DEF Admit
  <2>2. slot' \in [Conn -> SlotType] /\ slot'[c].on /\ slot'[c].floor = a.seq
    <3> DEFINE new == [slot[c] EXCEPT !.floor = a.seq]
    <3>1. slot[c] \in SlotType /\ slot[c].on
      BY <1>2, <1>3, <1>11
    <3>2. new \in SlotType /\ new.on /\ new.floor = a.seq
      BY <1>2, <1>3, <1>11, <3>1 DEF SlotType
    <3>3. slot' = [slot EXCEPT ![c] = new]
      BY <2>1
    <3> HIDE DEF new
    <3> QED
      BY <1>2, <1>3, <1>11, <3>2, <3>3
  <2>3. /\ records' \in Seq(Action) /\ Len(records') = Len(records) + 1
        /\ \A j \in 1 .. Len(records) : records'[j] = records[j]
        /\ records'[Len(records) + 1] = a /\ DOMAIN records' = 1 .. Len(records) + 1
    BY <1>2, <1>11, <2>1
  <2>4. lastSeq <= Floor(c) /\ slot[c].floor \in Nat /\ Floor(c) \in Nat
    BY <1>2, <1>11, Bounds DEF Floor, Larger, SlotType, Acks
  <2>5. Floor(c)' = a.seq
    BY <1>1, <1>3, <1>11, <2>1, <2>2, <2>4 DEF Floor, Larger
  <2>6. \A i \in DOMAIN log \ skipped : log[i].act.seq <= lastSeq /\ log[i].act.seq \in Nat
    <3>1. \A i \in DOMAIN log : log[i].act \in Action
      BY LogActs
    <3> QED
      BY <1>1, <3>1, ActionFields DEF IndInv, FloorHolds
  <2>7. RecordsOrdered'
    <3> SUFFICES ASSUME NEW j \in 1 .. Len(records) + 1
                 PROVE  /\ \A i \in 1 .. Len(records) + 1 :
                              i < j => records'[i].seq < records'[j].seq
                        /\ \A i \in DOMAIN log \ skipped : log[i].act.seq < records'[j].seq
      BY <1>1, <2>3 DEF RecordsOrdered
    <3>1. CASE j \in 1 .. Len(records)
      BY <1>11, <2>3, <3>1 DEF IndInv, RecordsOrdered
    <3>2. CASE j = Len(records) + 1
      <4>1. \A i \in 1 .. Len(records) : records'[i].seq < a.seq
        BY <1>3, <1>10, <1>11, <2>1, <2>3, <2>4
      <4>2. \A i \in DOMAIN log \ skipped : log[i].act.seq < a.seq
        BY <1>3, <1>11, <2>1, <2>4, <2>6
      <4>3. ASSUME NEW i \in 1 .. Len(records) + 1, i < j
            PROVE  records'[i].seq < records'[j].seq
        <5>1. i \in 1 .. Len(records)
          BY <1>11, <3>2, <4>3
        <5>2. records'[i] = records[i] /\ records'[j] = a
          BY <2>3, <3>2, <5>1
        <5> QED
          BY <4>1, <5>1, <5>2
      <4>4. records'[j] = a
        BY <2>3, <3>2
      <4> QED
        BY <4>2, <4>3, <4>4
    <3> QED
      BY <1>11, <3>1, <3>2
  <2>8. \A j \in DOMAIN records' :
          lastSeq < records'[j].seq /\ records'[j].seq <= a.seq /\ records'[j] \in sent
    BY <1>2, <1>3, <1>10, <1>11, <2>1, <2>3, <2>4
  <2> QED
    BY <2>2, <2>3, <2>5, <2>7, <2>8
<1> QED
  BY <1>4, <1>12, <1>13, <1>14
-----------------------------------------------------------------------------
(* The host's steps: a trap in G::admit, the tick. *)

(* A trap leaves no admitted record and no call; the log is as it is.       *)
LEMMA AdmitTrapInv == ASSUME IndInv, AdmitTrap PROVE IndInv'
<1> PICK a \in Action : a = First(busy.acts)
  BY Uplink DEF AdmitTrap
<1>1. /\ mode' = "trapped" /\ busy' = Idle /\ records' = << >>
      /\ trapped' = trapped \union {a}
      /\ UNCHANGED << shape, client, link, up, down, st, queue, lastSeq, slot, log,
                      skipped, recoveries, sent, owed, taken, faults >>
  BY DEF AdmitTrap, net, disk
<1>2. ClientTypeOK' /\ SeedTaken' /\ \A p \in Page : (outbox[p] \union pending[p] \subseteq sent)'
  BY <1>1, ClientKept
<1>3. HostTypeOK' /\ LinkTypeOK'
  BY <1>1 DEF IndInv, TypeOK, HostTypeOK, LinkTypeOK, Idle, Call
<1>4. OneSettled' /\ UplinkSettled' /\ LogOrdered'
  BY <1>1 DEF IndInv, OneSettled, UplinkSettled, LogOrdered, OrderedLog, Idle
<1>5. RecordsOrdered' /\ FloorHolds'
  BY <1>1 DEF RecordsOrdered, FloorHolds
<1>6. FromPages'
  BY <1>1, <1>2 DEF IndInv, FromPages, BatchesSent, Idle
<1> QED
  BY <1>2, <1>3, <1>4, <1>5, <1>6 DEF IndInv, TypeOK

LEMMA AttachInv == ASSUME IndInv, Attach PROVE IndInv'
<1> PICK c : c = Head(queue)
  OBVIOUS
<1>1. /\ mode = "up" /\ busy' = [call |-> "tick"] /\ queue # << >> /\ queue' = Tail(queue)
      /\ UNCHANGED << shape, client, link, mode, records, lastSeq, log, skipped,
                      recoveries, sent, taken, trapped, faults >>
  BY DEF Attach, InTick, disk, ghost
<1>2. c \in Conn /\ queue' \in Seq(Conn)
  BY <1>1 DEF IndInv, TypeOK, HostTypeOK
<1>3. ClientTypeOK' /\ SeedTaken' /\ \A p \in Page : (outbox[p] \union pending[p] \subseteq sent)'
  BY <1>1, ClientKept
<1>4. busy' \in Call /\ busy'.call = "tick"
  BY <1>1 DEF Call
<1>5. UplinkSettled' /\ LogOrdered' /\ RecordsOrdered' /\ FloorHolds'
  BY <1>1, <1>4
     DEF IndInv, UplinkSettled, LogOrdered, OrderedLog, RecordsOrdered, FloorHolds
<1>6. SUFFICES /\ st' \in [Conn -> {"unused", "garbage", "awaiting", "settled", "closed"}]
               /\ slot' \in [Conn -> SlotType]
               /\ owed' \in SUBSET Action
               /\ up' \in [Conn -> Seq(Message)] /\ down' \in [Conn -> Seq(Message)]
               /\ OneSettled' /\ BatchesSent'
  <2>1. HostTypeOK' /\ LinkTypeOK'
    BY <1>1, <1>2, <1>4, <1>6 DEF IndInv, TypeOK, HostTypeOK, LinkTypeOK, SlotType
  <2>2. FromPages'
    BY <1>1, <1>3, <1>4, <1>6 DEF IndInv, FromPages
  <2> QED
    BY <1>3, <1>5, <1>6, <2>1, <2>2 DEF IndInv, TypeOK
<1>7. CASE st[c] = "awaiting"
  <2>1. PICK old : old = {d \in Conn \ {c} : slot[d].on}
    OBVIOUS
  <2> PICK said : said = Says("fault", owed)
    OBVIOUS
  <2>2. /\ slot' = [d \in Conn |-> IF d = c THEN FreshSlot(said) ELSE NoSlot]
        /\ owed' = {}
        /\ st' = [d \in Conn |-> IF d = c THEN "settled"
                                 ELSE IF d \in old THEN "closed" ELSE st[d]]
        /\ down' = [d \in Conn |->
                      IF d = c THEN Append(down[d], Welcome(lastSeq))
                      ELSE IF d \in old THEN Append(down[d], Bye) ELSE down[d]]
        /\ up' = [d \in Conn |-> IF d \in old THEN << >> ELSE up[d]]
    BY <1>7, <2>1 DEF Attach
  <2>3. FreshSlot(said) \in SlotType /\ FreshSlot(said).on /\ NoSlot \in SlotType
    <3>1. said \in SUBSET Outcome
      BY SaysOK DEF IndInv, TypeOK, HostTypeOK
    <3> QED
      BY <3>1, Bounds DEF FreshSlot, NoSlot, SlotType, Acks
  <2>4. Welcome(lastSeq) \in Message /\ Bye \in Message
    BY MessagesOK DEF IndInv, TypeOK, HostTypeOK
  <2>5. \A d \in Conn : st'[d] = "settled" => d = c
    BY <2>1, <2>2 DEF IndInv, OneSettled
  <2>6. slot'[c].on
    BY <1>2, <2>2, <2>3
  <2> HIDE DEF FreshSlot, NoSlot
  <2>7. slot' \in [Conn -> SlotType]
    BY <2>2, <2>3
  <2>8. down' \in [Conn -> Seq(Message)]
    <3>1. \A d \in Conn : down'[d] \in Seq(Message)
      BY <2>2, <2>4 DEF IndInv, TypeOK, LinkTypeOK
    <3> QED
      BY <2>2, <3>1
  <2>9. up' \in [Conn -> Seq(Message)] /\ BatchesSent'
    <3>1. up \in [Conn -> Seq(Message)]
      BY DEF IndInv, TypeOK, LinkTypeOK
    <3>2. \A d \in Conn : up'[d] = up[d] \/ up'[d] = << >>
      BY <2>2
    <3>3. up' \in [Conn -> Seq(Message)]
      BY <2>2, <3>1
    <3> QED
      BY <1>1, <3>2, <3>3 DEF IndInv, FromPages, BatchesSent
  <2>10. st' \in [Conn -> {"unused", "garbage", "awaiting", "settled", "closed"}]
    BY <2>2 DEF IndInv, TypeOK, HostTypeOK
  <2> QED
    BY <2>2, <2>5, <2>6, <2>7, <2>8, <2>9, <2>10 DEF OneSettled
<1>8. CASE st[c] # "awaiting"
  <2>1. UNCHANGED << slot, owed, st, down, up >>
    BY <1>8 DEF Attach
  <2> QED
    BY <1>1, <2>1
       DEF IndInv, TypeOK, HostTypeOK, LinkTypeOK, SlotType, OneSettled, FromPages, BatchesSent
<1> QED
  BY <1>7, <1>8

(* A sealed frame keeps the log in order: its records are newer than what   *)
(* has run, and its number is the next one.                                *)
LEMMA SealOrdered ==
  ASSUME IndInv
  PROVE  /\ Sealed \in Seq(Entry) /\ Len(Sealed) \in Nat /\ Len(log) \in Nat
         /\ Len(log) <= Len(Sealed)
         /\ OrderedLog(Sealed, skipped)
         /\ skipped \subseteq 1 .. Len(Sealed)
         /\ \A i \in DOMAIN Sealed : Sealed[i].act \in sent
         /\ \A i \in DOMAIN Sealed :
              \/ i \in DOMAIN log /\ Sealed[i] = log[i]
              \/ \E k \in DOMAIN records : i = Len(log) + k /\ Sealed[i].act = records[k]
<1>1. log \in Seq(Entry) /\ records \in Seq(Action) /\ skipped \subseteq 1 .. Len(log)
  BY DEF IndInv, TypeOK, HostTypeOK
<1>2. /\ Sealed \in Seq(Entry)
      /\ Len(Sealed) = Len(log) + Len(records)
      /\ \A i \in 1 .. Len(log) : Sealed[i] = log[i]
      /\ \A i \in 1 .. Len(Sealed) : i > Len(log) =>
           /\ i - Len(log) \in 1 .. Len(records)
           /\ Sealed[i] = [act |-> records[i - Len(log)], frame |-> NextFrame(log)]
  BY <1>1, SealedIs
<1>3. /\ Len(log) \in Nat /\ Len(records) \in Nat /\ Len(Sealed) \in Nat
      /\ DOMAIN log = 1 .. Len(log) /\ DOMAIN records = 1 .. Len(records)
      /\ DOMAIN Sealed = 1 .. Len(Sealed)
  BY <1>1, <1>2
<1>4. \A i \in 1 .. Len(Sealed) :
        \/ i \in 1 .. Len(log) /\ Sealed[i] = log[i]
        \/ /\ i > Len(log) /\ i - Len(log) \in 1 .. Len(records)
           /\ Sealed[i].act = records[i - Len(log)]
           /\ Sealed[i].frame = NextFrame(log)
  BY <1>2, <1>3
<1>5. \A i \in 1 .. Len(log) : log[i].frame \in Nat /\ log[i].frame < NextFrame(log)
  <2> TAKE i \in 1 .. Len(log)
  <2>1. Len(log) \in 1 .. Len(log) /\ i <= Len(log)
    BY <1>3
  <2>2. log[i].frame <= log[Len(log)].frame
    BY <1>3, <2>1 DEF IndInv, LogOrdered, OrderedLog
  <2>3. log[i].frame \in Nat /\ log[Len(log)].frame \in Nat
    BY <1>3, <2>1, LogActs
  <2>4. NextFrame(log) = log[Len(log)].frame + 1
    BY <1>3, <2>1 DEF NextFrame
  <2> QED
    BY <2>2, <2>3, <2>4
<1>6. NextFrame(log) \in Nat
  <2>1. CASE log = << >>
    BY <2>1 DEF NextFrame
  <2>2. CASE log # << >>
    <3>1. Len(log) \in 1 .. Len(log)
      BY <1>1, <1>3, <2>2
    <3> QED
      BY <1>3, <2>2, <3>1, LogActs DEF NextFrame
  <2> QED
    BY <2>1, <2>2
<1> HIDE DEF Sealed, NextFrame
<1>7. ASSUME NEW i \in 1 .. Len(Sealed), NEW j \in 1 .. Len(Sealed), i <= j
      PROVE  Sealed[i].frame <= Sealed[j].frame
  <2>1. CASE j \in 1 .. Len(log)
    <3>1. i \in 1 .. Len(log)
      BY <1>3, <1>7, <2>1
    <3> QED
      BY <1>2, <1>3, <1>7, <2>1, <3>1 DEF IndInv, LogOrdered, OrderedLog
  <2>2. CASE j > Len(log)
    <3>1. Sealed[j].frame = NextFrame(log)
      BY <1>3, <1>4, <2>2
    <3>2. Sealed[i].frame <= NextFrame(log)
      BY <1>4, <1>5, <1>6
    <3> QED
      BY <3>1, <3>2
  <2> QED
    BY <1>3, <2>1, <2>2
<1>8. ASSUME NEW i \in 1 .. Len(Sealed), NEW j \in 1 .. Len(Sealed), i < j, i \notin skipped
      PROVE  Sealed[i].act.seq < Sealed[j].act.seq
  <2>1. CASE j \in 1 .. Len(log)
    <3>1. i \in 1 .. Len(log)
      BY <1>3, <1>8, <2>1
    <3> QED
      BY <1>2, <1>3, <1>8, <2>1, <3>1 DEF IndInv, LogOrdered, OrderedLog
  <2>2. CASE j > Len(log)
    <3>1. Sealed[j].act = records[j - Len(log)] /\ j - Len(log) \in 1 .. Len(records)
      BY <1>3, <1>4, <2>2
    <3>2. CASE i \in 1 .. Len(log)
      <4>1. Sealed[i] = log[i] /\ i \in DOMAIN log \ skipped
        BY <1>2, <1>3, <1>8, <3>2
      <4> QED
        BY <1>3, <3>1, <4>1 DEF IndInv, RecordsOrdered
    <3>3. CASE i > Len(log)
      <4>1. Sealed[i].act = records[i - Len(log)] /\ i - Len(log) \in 1 .. Len(records)
        BY <1>3, <1>4, <3>3
      <4>2. i - Len(log) < j - Len(log)
        BY <1>3, <1>8
      <4> QED
        BY <1>3, <3>1, <4>1, <4>2 DEF IndInv, RecordsOrdered
    <3> QED
      BY <1>3, <3>2, <3>3
  <2> QED
    BY <1>3, <2>1, <2>2
<1>9. OrderedLog(Sealed, skipped)
  BY <1>3, <1>7, <1>8 DEF OrderedLog
<1>10. ASSUME NEW i \in 1 .. Len(Sealed)
       PROVE  \/ i \in DOMAIN log /\ Sealed[i] = log[i]
              \/ \E k \in DOMAIN records : i = Len(log) + k /\ Sealed[i].act = records[k]
  <2>1. CASE i \in 1 .. Len(log) /\ Sealed[i] = log[i]
    BY <1>3, <2>1
  <2>2. CASE i - Len(log) \in 1 .. Len(records) /\ Sealed[i].act = records[i - Len(log)]
    <3>1. i = Len(log) + (i - Len(log))
      BY <1>3
    <3> QED
      BY <1>3, <2>2, <3>1
  <2> QED
    BY <1>4, <2>1, <2>2
<1>11. \A i \in DOMAIN Sealed : Sealed[i].act \in sent
  BY <1>3, <1>10 DEF IndInv, FromPages
<1>12. skipped \subseteq 1 .. Len(Sealed) /\ Len(log) <= Len(Sealed)
  BY <1>1, <1>2, <1>3
<1> QED
  BY <1>2, <1>3, <1>9, <1>10, <1>11, <1>12

LEMMA EndTickInv == ASSUME IndInv, EndTick PROVE IndInv'
<1> DEFINE ack == IF records = << >> THEN lastSeq ELSE records[Len(records)].seq
           outcomes == Says("done", RecordSet)
           filled == [c \in Conn |->
                        IF slot[c].on THEN [slot[c] EXCEPT !.results = @ \union outcomes]
                        ELSE slot[c]]
<1>1. /\ mode = "up" /\ busy' = Idle /\ log' = Sealed /\ lastSeq' = ack /\ records' = << >>
      /\ UNCHANGED << shape, client, link, up, st, queue, mode, skipped, recoveries,
                      sent, owed, taken, trapped, faults >>
  BY DEF EndTick, InTick, ghost
<1>0. /\ down' = [c \in Conn |->
                    IF Owes(filled[c]) THEN Append(down[c], Frame(ack, filled[c].results))
                    ELSE down[c]]
      /\ slot' = [c \in Conn |->
                    IF Owes(filled[c])
                      THEN [filled[c] EXCEPT !.results = {}, !.first = FALSE]
                      ELSE filled[c]]
  BY DEF EndTick
<1>2. ClientTypeOK' /\ SeedTaken' /\ \A p \in Page : (outbox[p] \union pending[p] \subseteq sent)'
  BY <1>1, ClientKept
<1>3. records \in Seq(Action) /\ RecordSet \in SUBSET Action
  BY DEF IndInv, TypeOK, HostTypeOK, RecordSet
<1>4. outcomes \in SUBSET Outcome
  BY <1>3, SaysOK
<1>5. \A i \in DOMAIN records : records[i].seq \in Acks /\ records[i].seq \in Nat
  BY <1>3, ActionFields
<1>6. ack \in Acks
  <2>1. CASE records = << >>
    BY <2>1 DEF IndInv, TypeOK, HostTypeOK
  <2>2. CASE records # << >>
    <3>1. Len(records) \in DOMAIN records
      BY <1>3, <2>2
    <3> QED
      BY <1>5, <2>2, <3>1
  <2> QED
    BY <2>1, <2>2
<1>7. \A c \in Conn : filled[c] \in SlotType /\ filled[c].on = slot[c].on
  <2> TAKE c \in Conn
  <2>1. slot[c] \in SlotType
    BY DEF IndInv, TypeOK, HostTypeOK, SlotType
  <2>2. [slot[c] EXCEPT !.results = slot[c].results \union outcomes] \in SlotType
        /\ [slot[c] EXCEPT !.results = slot[c].results \union outcomes].on = slot[c].on
    BY <1>4, <2>1 DEF SlotType
  <2> QED
    BY <2>1, <2>2
<1> HIDE DEF ack, outcomes, filled
<1>8. slot' \in [Conn -> SlotType] /\ \A c \in Conn : slot'[c].on = slot[c].on
  <2>1. \A c \in Conn :
          /\ [filled[c] EXCEPT !.results = {}, !.first = FALSE] \in SlotType
          /\ [filled[c] EXCEPT !.results = {}, !.first = FALSE].on = filled[c].on
    BY <1>7 DEF SlotType
  <2>2. \A c \in Conn : slot'[c] \in SlotType /\ slot'[c].on = slot[c].on
    BY <1>0, <1>7, <2>1
  <2> QED
    BY <1>0, <2>2
<1>9. down' \in [Conn -> Seq(Message)]
  <2>1. \A c \in Conn : filled[c].results \in SUBSET Outcome
    BY <1>7 DEF SlotType
  <2>2. \A c \in Conn : Frame(ack, filled[c].results) \in Message
    BY <1>6, <2>1, MessagesOK
  <2>3. \A c \in Conn : down[c] \in Seq(Message)
    BY DEF IndInv, TypeOK, LinkTypeOK
  <2>4. ASSUME NEW c \in Conn
        PROVE  Append(down[c], Frame(ack, filled[c].results)) \in Seq(Message)
    <3> PICK m \in Message : m = Frame(ack, filled[c].results)
      BY <2>2
    <3>1. Append(down[c], m) \in Seq(Message)
      BY <2>3
    <3> QED
      BY <3>1
  <2>5. \A c \in Conn : down'[c] \in Seq(Message)
    BY <1>0, <2>3, <2>4
  <2> QED
    BY <1>0, <2>5
<1>10. /\ log' \in Seq(Entry) /\ OrderedLog(log', skipped) /\ skipped \subseteq 1 .. Len(log')
       /\ \A i \in DOMAIN log' : log'[i].act \in sent
       /\ \A i \in DOMAIN log' :
            \/ i \in DOMAIN log /\ log'[i] = log[i]
            \/ \E k \in DOMAIN records : i = Len(log) + k /\ log'[i].act = records[k]
  BY <1>1, SealOrdered
<1>11. HostTypeOK' /\ LinkTypeOK'
  <2>1. Idle \in Call
    BY DEF Idle, Call
  <2> QED
    BY <1>1, <1>6, <1>8, <1>9, <1>10, <2>1
       DEF IndInv, TypeOK, HostTypeOK, LinkTypeOK, SlotType
<1>12. OneSettled' /\ UplinkSettled' /\ LogOrdered' /\ RecordsOrdered'
  BY <1>1, <1>8, <1>10
     DEF IndInv, OneSettled, UplinkSettled, LogOrdered, OrderedLog, RecordsOrdered, Idle
<1>13. FloorHolds'
  <2>1. ASSUME NEW i \in DOMAIN log' \ skipped
        PROVE  log'[i].act.seq <= ack
    <3>1. CASE i \in DOMAIN log /\ log'[i] = log[i]
      <4>1. log[i].act.seq <= lastSeq
        BY <1>1, <2>1, <3>1 DEF IndInv, FloorHolds
      <4>2. CASE records = << >>
        BY <3>1, <4>1, <4>2 DEF ack
      <4>3. CASE records # << >>
        <5>1. Len(records) \in DOMAIN records
          BY <1>3, <4>3
        <5>2. log[i].act.seq < records[Len(records)].seq
          BY <2>1, <3>1, <5>1 DEF IndInv, RecordsOrdered
        <5>3. log[i].act.seq \in Nat /\ records[Len(records)].seq \in Nat
          BY <1>5, <3>1, <5>1, LogActs
        <5> QED
          BY <3>1, <4>3, <5>2, <5>3 DEF ack
      <4> QED
        BY <4>2, <4>3
    <3>2. ASSUME NEW k \in DOMAIN records, log'[i].act = records[k]
          PROVE  log'[i].act.seq <= ack
      <4>1. Len(records) \in DOMAIN records /\ k <= Len(records) /\ records # << >>
        BY <1>3
      <4>2. k < Len(records) => records[k].seq < records[Len(records)].seq
        BY <4>1 DEF IndInv, RecordsOrdered
      <4>3. records[k].seq <= records[Len(records)].seq
        <5>1. CASE k = Len(records)
          BY <1>5, <5>1
        <5>2. CASE k < Len(records)
          BY <1>5, <4>1, <4>2, <5>2
        <5> QED
          BY <1>3, <4>1, <5>1, <5>2
      <4> QED
        BY <3>2, <4>1, <4>3 DEF ack
    <3> QED
      BY <1>10, <2>1, <3>1, <3>2
  <2>2. DOMAIN records' = {}
    BY <1>1
  <2> QED
    BY <1>1, <2>1, <2>2 DEF FloorHolds
<1>14. FromPages'
  BY <1>1, <1>2, <1>10 DEF IndInv, FromPages, BatchesSent, Idle
<1> QED
  BY <1>2, <1>11, <1>12, <1>13, <1>14 DEF IndInv, TypeOK

LEMMA ApplyTrapInv == ASSUME IndInv, ApplyTrap PROVE IndInv'
<1>1. /\ mode' = "trapped" /\ busy' = Idle /\ log' = Sealed /\ records' = << >>
      /\ trapped' = trapped \union {a \in RecordSet : a.kind = "applyTrap"}
      /\ UNCHANGED << shape, client, link, up, down, st, queue, lastSeq, slot, skipped,
                      recoveries, sent, owed, taken, faults >>
  BY DEF ApplyTrap, net
<1>2. ClientTypeOK' /\ SeedTaken' /\ \A p \in Page : (outbox[p] \union pending[p] \subseteq sent)'
  BY <1>1, ClientKept
<1>3. RecordSet \in SUBSET Action
  BY DEF IndInv, TypeOK, HostTypeOK, RecordSet
<1>4. /\ log' \in Seq(Entry) /\ OrderedLog(log', skipped) /\ skipped \subseteq 1 .. Len(log')
      /\ \A i \in DOMAIN log' : log'[i].act \in sent
  BY <1>1, SealOrdered
<1>5. HostTypeOK' /\ LinkTypeOK'
  <2>1. Idle \in Call /\ << >> \in Seq(Action)
    BY DEF Idle, Call
  <2>2. trapped' \in SUBSET Action
    BY <1>1, <1>3 DEF IndInv, TypeOK, HostTypeOK
  <2> QED
    BY <1>1, <1>4, <2>1, <2>2 DEF IndInv, TypeOK, HostTypeOK, LinkTypeOK
<1>6. OneSettled' /\ UplinkSettled' /\ LogOrdered'
  BY <1>1, <1>4 DEF IndInv, OneSettled, UplinkSettled, LogOrdered, OrderedLog, Idle
<1>7. RecordsOrdered' /\ FloorHolds'
  BY <1>1 DEF RecordsOrdered, FloorHolds
<1>8. FromPages'
  BY <1>1, <1>2, <1>4 DEF IndInv, FromPages, BatchesSent, Idle
<1> QED
  BY <1>2, <1>5, <1>6, <1>7, <1>8 DEF IndInv, TypeOK
-----------------------------------------------------------------------------
(* The host's steps: recovery, the fatal stop, a new process. *)

(* A recovery leaves a world whose floor covers all that ran.               *)
LEMMA RecoverInv == ASSUME IndInv, Recover PROVE IndInv'
<1> PICK skips, seq, faulted, said, open :
      /\ skips = skipped \union Poisoned(log)
      /\ seq = ReplayedSeq(log, skips)
      /\ faulted = {log[i].act : i \in skips}
      /\ said = Says("fault", faulted)
      /\ open = {c \in Conn : st[c] \notin Gone}
  OBVIOUS
<1>1. /\ mode = "trapped" /\ recoveries < RECOVERY_LOOP_LIMIT
      /\ recoveries' = recoveries + 1 /\ mode' = "up" /\ skipped' = skips /\ lastSeq' = seq
      /\ slot' = [c \in Conn |-> IF c \in open THEN FreshSlot(said) ELSE NoSlot]
      /\ owed' = IF open = {} THEN faulted ELSE {}
      /\ down' = [c \in Conn |-> IF c \in open THEN Append(down[c], Welcome(seq)) ELSE down[c]]
      /\ UNCHANGED << shape, client, link, up, st, queue, busy, records, log, sent, taken,
                      trapped, faults >>
  BY DEF Recover, ghost
<1>2. records = << >> /\ busy = Idle
  BY <1>1 DEF IndInv, FloorHolds
<1>3. ClientTypeOK' /\ SeedTaken' /\ \A p \in Page : (outbox[p] \union pending[p] \subseteq sent)'
  BY <1>1, ClientKept
<1>4. log \in Seq(Entry) /\ skips \subseteq 1 .. Len(log) /\ skipped \subseteq skips
  BY DEF IndInv, TypeOK, HostTypeOK, Poisoned
<1>5. OrderedLog(log, skips)
  BY <1>4 DEF IndInv, LogOrdered, OrderedLog
<1>6. seq \in Acks /\ \A i \in DOMAIN log \ skips : log[i].act.seq <= seq
  BY <1>4, <1>5, ReplayCovers
<1>7. faulted \in SUBSET Action /\ said \in SUBSET Outcome
  <2>1. faulted \in SUBSET Action
    BY <1>4, LogActs
  <2> QED
    BY <2>1, SaysOK
<1>8. FreshSlot(said) \in SlotType /\ FreshSlot(said).on /\ NoSlot \in SlotType
  BY <1>7, Bounds DEF FreshSlot, NoSlot, SlotType, Acks
<1>9. Welcome(seq) \in Message
  BY <1>6, MessagesOK
<1> HIDE DEF FreshSlot, NoSlot
<1>10. slot' \in [Conn -> SlotType]
  BY <1>1, <1>8
<1>11. down' \in [Conn -> Seq(Message)]
  <2>1. ASSUME NEW c \in Conn PROVE down'[c] \in Seq(Message)
    <3> PICK m \in Message : m = Welcome(seq)
      BY <1>9
    <3>1. down[c] \in Seq(Message)
      BY DEF IndInv, TypeOK, LinkTypeOK
    <3>2. Append(down[c], m) \in Seq(Message)
      BY <3>1
    <3>3. down'[c] = Append(down[c], m) \/ down'[c] = down[c]
      BY <1>1
    <3> QED
      BY <3>1, <3>2, <3>3
  <2> QED
    BY <1>1, <2>1
<1>12. HostTypeOK'
  <2>1. owed' \in SUBSET Action
    BY <1>1, <1>7
  <2> QED
    BY <1>1, <1>4, <1>6, <1>10, <2>1 DEF IndInv, TypeOK, HostTypeOK, SlotType
<1>13. LinkTypeOK'
  <2>1. recoveries' \in 0 .. RECOVERY_LOOP_LIMIT
    BY <1>1, Bounds DEF IndInv, TypeOK, LinkTypeOK
  <2> QED
    BY <1>1, <1>11, <2>1 DEF IndInv, TypeOK, LinkTypeOK
<1>14. OneSettled' /\ UplinkSettled'
  <2>1. \A c \in Conn : st[c] = "settled" => slot'[c].on
    BY <1>1, <1>8 DEF Gone
  <2> QED
    BY <1>1, <1>2, <2>1 DEF IndInv, OneSettled, UplinkSettled, Idle
<1>15. LogOrdered' /\ RecordsOrdered'
  BY <1>1, <1>2, <1>5 DEF LogOrdered, OrderedLog, RecordsOrdered
<1>16. FloorHolds'
  <2>1. mode' = "up" /\ records' = << >> /\ DOMAIN records' = {}
        /\ log' = log /\ skipped' = skips /\ lastSeq' = seq
    BY <1>1, <1>2
  <2> QED
    BY <1>6, <2>1 DEF FloorHolds
<1>17. FromPages'
  BY <1>1, <1>2, <1>3 DEF IndInv, FromPages, BatchesSent, Idle
<1> QED
  BY <1>3, <1>12, <1>13, <1>14, <1>15, <1>16, <1>17 DEF IndInv, TypeOK

LEMMA GiveUpInv == ASSUME IndInv, GiveUp PROVE IndInv'
<1>1. /\ mode = "trapped" /\ mode' = "fatal"
      /\ UNCHANGED << shape, client, link, up, down, st, queue, busy, records, lastSeq,
                      slot, log, skipped, recoveries, sent, owed, taken, trapped, faults >>
  BY DEF GiveUp, net, sim, disk, ghost
<1>2. ClientTypeOK' /\ SeedTaken' /\ \A p \in Page : (outbox[p] \union pending[p] \subseteq sent)'
  BY <1>1, ClientKept
<1>3. HostTypeOK' /\ LinkTypeOK'
  BY <1>1 DEF IndInv, TypeOK, HostTypeOK, LinkTypeOK
<1>4. OneSettled' /\ UplinkSettled' /\ LogOrdered' /\ RecordsOrdered'
  BY <1>1 DEF IndInv, OneSettled, UplinkSettled, LogOrdered, OrderedLog, RecordsOrdered
<1>5. FloorHolds' /\ FromPages'
  BY <1>1, <1>2 DEF IndInv, FloorHolds, FromPages, BatchesSent
<1> QED
  BY <1>2, <1>3, <1>4, <1>5 DEF IndInv, TypeOK

(* A new process starts from a prefix of the log, and from nothing else.    *)
LEMMA RestartInv == ASSUME IndInv, NEW n \in 0 .. Len(log), Restart(n) PROVE IndInv'
<1>1. /\ mode = "up" /\ faults < MaxFaults /\ faults' = faults + 1
      /\ log' = SubSeq(log, 1, n)
      /\ skipped' = skipped \cap (1 .. n)
      /\ taken' = taken \union {log[i].act : i \in n + 1 .. Len(log)}
      /\ lastSeq' = ReplayedSeq(log', skipped')
      /\ owed' = {log[i].act : i \in skipped'}
      /\ records' = << >> /\ busy' = Idle /\ queue' = << >> /\ recoveries' = 0
      /\ slot' = [c \in Conn |-> NoSlot]
      /\ st' = [c \in Conn |-> IF st[c] \in Gone THEN st[c]
                               ELSE IF shape = "server" THEN "closed" ELSE "garbage"]
      /\ up' = [c \in Conn |-> IF shape = "worker" /\ st[c] \notin Gone
                                 THEN Append(up[c], Hello) ELSE << >>]
      /\ UNCHANGED << shape, client, link, down, mode, sent, trapped >>
  BY DEF Restart
<1>2. ClientTypeOK' /\ SeedTaken' /\ \A p \in Page : (outbox[p] \union pending[p] \subseteq sent)'
  BY <1>1, ClientKept
<1>3. log \in Seq(Entry) /\ Len(log) \in Nat /\ skipped \subseteq 1 .. Len(log)
  BY DEF IndInv, TypeOK, HostTypeOK
<1>4. /\ log' \in Seq(Entry) /\ Len(log') = n /\ DOMAIN log' = 1 .. n
      /\ \A i \in 1 .. n : i \in DOMAIN log /\ log'[i] = log[i]
  BY <1>1, <1>3
<1>5. OrderedLog(log', skipped')
  <2>1. \A i, j \in 1 .. n : i \notin skipped' => i \notin skipped
    BY <1>1
  <2> QED
    BY <1>4, <2>1 DEF IndInv, LogOrdered, OrderedLog
<1>6. lastSeq' \in Acks /\ \A i \in DOMAIN log' \ skipped' : log'[i].act.seq <= lastSeq'
  BY <1>1, <1>4, <1>5, ReplayCovers
<1>7. taken' \in SUBSET Action /\ owed' \in SUBSET Action
  <2>1. \A i \in n + 1 .. Len(log) : i \in DOMAIN log
    BY <1>3
  <2>2. {log[i].act : i \in n + 1 .. Len(log)} \in SUBSET Action
    BY <2>1, LogActs
  <2>3. {log[i].act : i \in skipped'} \in SUBSET Action
    BY <1>1, <1>3, LogActs
  <2> QED
    BY <1>1, <2>2, <2>3 DEF IndInv, TypeOK, HostTypeOK
<1>8. NoSlot \in SlotType /\ Idle \in Call
  BY Bounds DEF NoSlot, SlotType, Acks, Idle, Call
<1>9. st' \in [Conn -> {"unused", "garbage", "awaiting", "settled", "closed"}]
      /\ \A c \in Conn : st'[c] # "settled"
  BY <1>1 DEF IndInv, TypeOK, HostTypeOK, Gone
<1>10. HostTypeOK'
  <2> HIDE DEF NoSlot
  <2>1. slot' \in [Conn -> SlotType]
    BY <1>1, <1>8
  <2>2. skipped' \subseteq 1 .. Len(log')
    BY <1>1, <1>4
  <2>3. shape' = shape /\ mode' = mode /\ records' = << >> /\ busy' = Idle /\ queue' = << >>
        /\ trapped' = trapped
    BY <1>1
  <2> QED
    BY <1>4, <1>6, <1>7, <1>8, <1>9, <2>1, <2>2, <2>3
       DEF IndInv, TypeOK, HostTypeOK, SlotType
<1>11. LinkTypeOK' /\ BatchesSent'
  <2>1. up \in [Conn -> Seq(Message)] /\ Hello \in Message /\ Hello.type # "batch"
    BY MessagesOK DEF IndInv, TypeOK, LinkTypeOK, Hello
  <2>2. \A c \in Conn : up'[c] = Append(up[c], Hello) \/ up'[c] = << >>
    BY <1>1
  <2> HIDE DEF Hello
  <2>3. up' \in [Conn -> Seq(Message)]
    <3>1. ASSUME NEW c \in Conn PROVE up'[c] \in Seq(Message)
      <4> PICK m \in Message : m = Hello
        BY <2>1
      <4>1. up[c] \in Seq(Message) /\ << >> \in Seq(Message)
        BY <2>1
      <4>2. Append(up[c], m) \in Seq(Message)
        BY <4>1
      <4> QED
        BY <2>2, <4>1, <4>2
    <3> QED
      BY <1>1, <3>1
  <2>4. LinkTypeOK'
    BY <1>1, <2>3, Bounds DEF IndInv, TypeOK, LinkTypeOK
  <2>5. ASSUME NEW c \in Conn, NEW i \in DOMAIN up'[c], up'[c][i].type = "batch"
        PROVE  up'[c][i].acts # {} /\ up'[c][i].acts \subseteq sent
    <3>1. up[c] \in Seq(Message) /\ up'[c] = Append(up[c], Hello)
      BY <2>1, <2>2, <2>5
    <3>2. CASE i \in DOMAIN up[c]
      <4>1. up'[c][i] = up[c][i]
        BY <3>1, <3>2
      <4> QED
        BY <2>5, <3>2, <4>1 DEF IndInv, FromPages, BatchesSent
    <3>3. CASE i \notin DOMAIN up[c]
      <4>1. up'[c][i] = Hello
        BY <3>1, <3>3
      <4> QED
        BY <2>1, <2>5, <4>1
    <3> QED
      BY <3>2, <3>3
  <2> QED
    BY <1>1, <2>4, <2>5 DEF BatchesSent
<1>12. OneSettled' /\ UplinkSettled' /\ RecordsOrdered' /\ LogOrdered'
  BY <1>1, <1>5, <1>9 DEF OneSettled, UplinkSettled, RecordsOrdered, LogOrdered, Idle
<1>13. FloorHolds'
  <2>1. mode' = "up" /\ DOMAIN records' = {}
    BY <1>1
  <2> QED
    BY <1>6, <2>1 DEF FloorHolds
<1>14. FromPages'
  BY <1>1, <1>2, <1>4, <1>11 DEF IndInv, FromPages, Idle
<1> QED
  BY <1>2, <1>10, <1>11, <1>12, <1>13, <1>14 DEF IndInv, TypeOK
-----------------------------------------------------------------------------
(* A step that changes nothing. *)
LEMMA StutterInv == ASSUME IndInv, UNCHANGED vars PROVE IndInv'
<1>1. UNCHANGED << shape, client, link, up, down, st, queue, busy, mode, records, lastSeq,
                   slot, log, skipped, recoveries, sent, owed, taken, trapped, faults >>
  BY DEF vars, net, sim, disk, ghost
<1>2. ClientTypeOK' /\ SeedTaken' /\ \A p \in Page : (outbox[p] \union pending[p] \subseteq sent)'
  BY <1>1, ClientKept
<1>3. HostTypeOK' /\ LinkTypeOK'
  BY <1>1 DEF IndInv, TypeOK, HostTypeOK, LinkTypeOK
<1>4. FromPages'
  BY <1>1, <1>2 DEF IndInv, FromPages, BatchesSent
<1> QED
  BY <1>1, <1>2, <1>3, <1>4, HostKept DEF hostState, IndInv, TypeOK

LEMMA ClientStepInv == ASSUME IndInv, NEW p \in Page, ClientStep(p) PROVE IndInv'
<1>1. CASE OpenPage(p)
  BY <1>1, OpenPageInv
<1>2. CASE Dial(p)
  BY <1>2, DialInv
<1>3. CASE PollUplink(p)
  BY <1>3, PollUplinkInv
<1>4. CASE ReadDown(p)
  BY <1>4, ReadDownInv
<1>5. CASE NoticeClose(p) \/ CutLink(p)
  BY <1>5, LinkLostInv
<1>6. CASE ClientTrap(p)
  BY <1>6, ClientTrapInv
<1>7. ASSUME NEW k \in Kinds, Dispatch(p, k) PROVE IndInv'
  <2>1. k \in Kind
    BY Bounds DEF Kinds, Kind
  <2> QED
    BY <1>7, <2>1, DispatchInv
<1> QED
  BY <1>1, <1>2, <1>3, <1>4, <1>5, <1>6, <1>7 DEF ClientStep

LEMMA HostStepInv == ASSUME IndInv, HostStep PROVE IndInv'
<1>1. ASSUME NEW c \in Conn, Receive(c) \/ HostClose(c) PROVE IndInv'
  BY <1>1, ReceiveInv, HostCloseInv
<1>2. CASE OnUplink \/ AdmitTrap
  BY <1>2, OnUplinkInv, AdmitTrapInv
<1>3. CASE Attach \/ EndTick \/ ApplyTrap
  BY <1>3, AttachInv, EndTickInv, ApplyTrapInv
<1>4. CASE Recover \/ GiveUp
  BY <1>4, RecoverInv, GiveUpInv
<1>5. ASSUME NEW n \in 0 .. Len(log), Restart(n) PROVE IndInv'
  BY <1>5, RestartInv
<1> QED
  BY <1>1, <1>2, <1>3, <1>4, <1>5 DEF HostStep

(* The invariant is inductive, and so holds in every reachable state: types,*)
(* the floors of on_uplink and of the Store over the log, and where every   *)
(* action the host holds comes from.                                       *)
THEOREM ActionsInvariant == Spec => []IndInv
<1>1. Init => IndInv
  BY InitInv
<1>2. IndInv /\ [Next]_vars => IndInv'
  BY StutterInv, ClientStepInv, HostStepInv DEF Next
<1> QED
  BY <1>1, <1>2, PTL DEF Spec

(* An action runs at most once and in the order of its number, whatever is  *)
(* resent, replayed, reattached or taken over (on_uplink, sim_replay_push,  *)
(* Store::record_ack).                                                     *)
THEOREM ActionsAppliedOnceInOrder == Spec => []AppliedOnceInOrder
<1>1. IndInv => AppliedOnceInOrder
  BY DEF IndInv, LogOrdered, OrderedLog, AppliedOnceInOrder
<1> QED
  BY <1>1, ActionsInvariant, PTL
-----------------------------------------------------------------------------
(* The sessions implement AtMostOnce. *)

(* A frame that is sealed runs the records of it that do not trap.          *)
LEMMA SealRuns ==
  ASSUME IndInv, IndInv', log' = Sealed, UNCHANGED << sent, skipped >>
  PROVE  Promise!Run
<1>1. /\ DOMAIN log = 1 .. Len(log) /\ Len(log) \in Nat
      /\ DOMAIN log' = 1 .. Len(log') /\ Len(log') \in Nat
      /\ Len(log) <= Len(log')
  <2>1. log \in Seq(Entry) /\ Sealed \in Seq(Entry) /\ Len(log) <= Len(Sealed)
    BY SealOrdered DEF IndInv, TypeOK, HostTypeOK
  <2> QED
    BY <2>1
<1>2. \A i \in DOMAIN log : i \in DOMAIN log' /\ log'[i] = log[i]
  BY <1>1, SealedIs DEF IndInv, TypeOK, HostTypeOK
<1>3. \A i \in DOMAIN log : i \in Poisoned(log)' <=> i \in Poisoned(log)
  BY <1>1, <1>2 DEF Poisoned
<1>4. Ran \subseteq Ran'
  BY <1>2, <1>3 DEF Ran
<1>5. \A e \in Ran' \ Ran : \E i \in DOMAIN log' :
        i > Len(log) /\ i \notin skipped /\ e = << i, log'[i].act >>
  <2> TAKE e \in Ran' \ Ran
  <2>1. PICK i \in DOMAIN log' : i \notin skipped' /\ i \notin Poisoned(log)' /\ e = << i, log'[i].act >>
    BY DEF Ran
  <2>2. i \notin DOMAIN log
    BY <1>2, <1>3, <2>1 DEF Ran
  <2> QED
    BY <1>1, <2>1, <2>2
<1>6. \A e \in Ran : \E i \in DOMAIN log :
        i \notin skipped /\ i \in DOMAIN log' /\ e = << i, log'[i].act >>
  BY <1>2 DEF Ran
<1>7. \A i \in DOMAIN log' : log'[i].act \in sent
  BY DEF IndInv, FromPages
<1>8. \A i, j \in DOMAIN log' : i < j /\ i \notin skipped => log'[i].act.seq < log'[j].act.seq
  BY DEF IndInv, LogOrdered, OrderedLog
<1>9. Ran' \ Ran \subseteq Nat \X sent
  <2> SUFFICES ASSUME NEW e \in Ran' \ Ran PROVE e \in Nat \X sent
    OBVIOUS
  <2>1. PICK i \in DOMAIN log' : i > Len(log) /\ e = << i, log'[i].act >>
    BY <1>5
  <2>2. i \in Nat
    BY <1>1
  <2> QED
    BY <1>7, <2>1, <2>2
<1>10. ASSUME NEW new \in Ran' \ Ran, NEW old \in Ran
       PROVE  old[1] < new[1] /\ old[2].seq < new[2].seq
  <2>1. PICK j \in DOMAIN log' : j > Len(log) /\ new = << j, log'[j].act >>
    BY <1>5
  <2>2. PICK i \in DOMAIN log : i \notin skipped /\ i \in DOMAIN log' /\ old = << i, log'[i].act >>
    BY <1>6
  <2>3. i < j
    BY <1>1, <2>1, <2>2
  <2>4. log'[i].act.seq < log'[j].act.seq
    BY <1>8, <2>2, <2>3
  <2> QED
    BY <2>1, <2>2, <2>3, <2>4
<1>11. ASSUME NEW d \in Ran' \ Ran, NEW e \in Ran' \ Ran, d[1] < e[1]
       PROVE  d[2].seq < e[2].seq
  <2>1. PICK i \in DOMAIN log' : i \notin skipped /\ d = << i, log'[i].act >>
    BY <1>5
  <2>2. PICK j \in DOMAIN log' : e = << j, log'[j].act >>
    BY <1>5
  <2>3. i < j
    BY <1>11, <2>1, <2>2
  <2>4. log'[i].act.seq < log'[j].act.seq
    BY <1>8, <2>1, <2>3
  <2> QED
    BY <2>1, <2>2, <2>4
<1> QED
  BY <1>4, <1>9, <1>10, <1>11 DEF Promise!Run

(* A crash that cuts the log undoes the newest of what ran.                 *)
LEMMA RestartUndoes ==
  ASSUME IndInv, NEW n \in 0 .. Len(log), Restart(n)
  PROVE  Promise!Undo
<1>1. log' = SubSeq(log, 1, n) /\ skipped' = skipped \cap (1 .. n) /\ sent' = sent
  BY DEF Restart
<1>2. /\ DOMAIN log = 1 .. Len(log) /\ Len(log) \in Nat /\ DOMAIN log' = 1 .. n
      /\ \A i \in 1 .. n : i \in DOMAIN log /\ log'[i] = log[i]
      /\ Len(log') = n
  BY <1>1 DEF IndInv, TypeOK, HostTypeOK
<1>3. \A i \in 1 .. n : i \in Poisoned(log)' <=> i \in Poisoned(log)
  BY <1>2 DEF Poisoned
<1>4. Ran' = {<< i, log[i].act >> : i \in {k \in 1 .. n : k \notin skipped /\ k \notin Poisoned(log)}}
  BY <1>1, <1>2, <1>3 DEF Ran
<1>5. Ran' \subseteq Ran
  BY <1>2, <1>4 DEF Ran
<1>6. ASSUME NEW kept \in Ran', NEW lost \in Ran \ Ran' PROVE kept[1] < lost[1]
  <2>1. PICK i \in 1 .. n : kept = << i, log[i].act >>
    BY <1>4
  <2>2. PICK j \in DOMAIN log : j \notin skipped /\ j \notin Poisoned(log) /\ lost = << j, log[j].act >>
    BY DEF Ran
  <2>3. j \notin 1 .. n
    BY <1>4, <2>2
  <2>4. i < j
    BY <1>2, <2>3
  <2> QED
    BY <2>1, <2>2, <2>4
<1> QED
  BY <1>1, <1>5, <1>6 DEF Promise!Undo

(* Each step of the sessions is a step of the promise, or none.             *)
LEMMA StepKeepsPromise ==
  ASSUME IndInv, IndInv', [Next]_vars
  PROVE  [Promise!Next]_<< sent, Ran >>
<1>1. ASSUME UNCHANGED << sent, log, skipped >> PROVE UNCHANGED << sent, Ran >>
  BY <1>1 DEF Ran, Poisoned
<1>2. CASE UNCHANGED vars
  BY <1>1, <1>2 DEF vars, disk, ghost
<1>3. ASSUME NEW p \in Page, ClientStep(p) PROVE [Promise!Next]_<< sent, Ran >>
  <2>1. CASE OpenPage(p) \/ Dial(p) \/ PollUplink(p) \/ ReadDown(p)
    BY <1>1, <2>1 DEF OpenPage, Dial, PollUplink, ReadDown, disk, ghost
  <2>2. CASE NoticeClose(p) \/ ClientTrap(p) \/ CutLink(p)
    BY <1>1, <2>2 DEF NoticeClose, ClientTrap, CutLink, disk, ghost
  <2>3. ASSUME NEW k \in Kinds, Dispatch(p, k) PROVE Promise!Submit
    <3> DEFINE a == [page |-> p, seq |-> nextSeq[p], kind |-> k]
    <3>1. sent' = sent \union {a} /\ UNCHANGED << log, skipped >>
      BY <2>3 DEF Dispatch, disk
    <3>2. a \in Action
      <4>1. sent' \in SUBSET Action
        BY DEF IndInv, TypeOK, ClientTypeOK
      <4> QED
        BY <3>1, <4>1
    <3>3. UNCHANGED Ran
      BY <3>1 DEF Ran, Poisoned
    <3> QED
      BY <3>1, <3>2, <3>3 DEF Promise!Submit
  <2> QED
    BY <1>3, <2>1, <2>2, <2>3 DEF ClientStep, Promise!Next
<1>4. CASE HostStep
  <2>1. ASSUME NEW c \in Conn, Receive(c) \/ HostClose(c) PROVE UNCHANGED << sent, Ran >>
    BY <1>1, <2>1 DEF Receive, HostClose, disk, ghost
  <2>2. CASE OnUplink \/ AdmitTrap \/ Attach \/ GiveUp
    BY <1>1, <2>2 DEF OnUplink, AdmitTrap, Attach, GiveUp, disk, ghost
  <2>3. CASE EndTick \/ ApplyTrap
    <3>1. log' = Sealed /\ UNCHANGED << sent, skipped >>
      BY <2>3 DEF EndTick, ApplyTrap, ghost
    <3> QED
      BY <3>1, SealRuns DEF Promise!Next
  <2>4. CASE Recover
    <3>1. UNCHANGED << log, sent >> /\ skipped' = skipped \union Poisoned(log)
      BY <2>4 DEF Recover, ghost
    <3>2. Ran' = Ran
      BY <3>1 DEF Ran, Poisoned
    <3> QED
      BY <3>1, <3>2
  <2>5. ASSUME NEW n \in 0 .. Len(log), Restart(n) PROVE Promise!Undo
    BY <2>5, RestartUndoes
  <2> QED
    BY <1>4, <2>1, <2>2, <2>3, <2>4, <2>5 DEF HostStep, Promise!Next
<1> QED
  BY <1>2, <1>3, <1>4 DEF Next

(* The pages, their connections and the host implement AtMostOnce.          *)
THEOREM SessionsImplementAtMostOnce == Spec => ImplementsAtMostOnce
<1>1. Init => Promise!Init
  <2>1. ASSUME Init PROVE Ran = {}
    BY <2>1 DEF Init, Ran
  <2> QED
    BY <2>1 DEF Init, Promise!Init
<1>2. IndInv /\ IndInv' /\ [Next]_vars => [Promise!Next]_<< sent, Ran >>
  BY StepKeepsPromise
<1> QED
  BY <1>1, <1>2, ActionsInvariant, PTL DEF Spec, ImplementsAtMostOnce, Promise!Spec
-----------------------------------------------------------------------------
(* What a page is told.  What ran has run, or a crash took it, and what has *)
(* trapped has trapped: an answer that is true stays so.                   *)
Grown ==
  RanActs \union taken \subseteq (RanActs \union taken)' /\ trapped \subseteq trapped'

LEMMA LogKeptGrown ==
  ASSUME UNCHANGED << log, skipped, taken >>, trapped \subseteq trapped'
  PROVE  Grown
  BY DEF Grown, RanActs, Poisoned

LEMMA HoldsKept ==
  ASSUME Grown, NEW o, Holds(o)
  PROVE  Holds(o)'
  BY DEF Grown, Holds

(* Only an outcome that is neither of the two says nothing about the host.  *)
LEMMA SaysHolds ==
  ASSUME NEW what \in {"refused", "lost"}, NEW acts, NEW o \in Says(what, acts)
  PROVE  Holds(o)' /\ o.what = what
  BY DEF Says, Holds

LEMMA FaultsHold ==
  ASSUME NEW acts, \A a \in acts : a \in trapped /\ a.kind = "applyTrap",
         trapped \subseteq trapped', NEW o \in Says("fault", acts)
  PROVE  Holds(o)' /\ o.what = "fault"
  BY DEF Says, Holds

LEMMA ToldKept ==
  ASSUME ToldTrue, Grown,
         \A p \in Page : \A o \in told'[p] : o \in told[p] \/ Holds(o)'
  PROVE  ToldTrue'
  BY HoldsKept DEF ToldTrue

LEMMA ResultsKept ==
  ASSUME ResultsTrue, Grown,
         \A c \in Conn : \A o \in slot'[c].results :
           o \in slot[c].results \/ (Holds(o)' /\ o.what # "done")
  PROVE  ResultsTrue'
  BY HoldsKept DEF ResultsTrue

LEMMA FrameKept == ASSUME Grown, NEW m, FrameTrue(m) PROVE FrameTrue(m)'
<1>1. CASE m.type = "frame"
  <2>1. ASSUME NEW o \in m.results PROVE Holds(o)' /\ (o.what = "done" => o.of.seq <= m.ack)
    BY <1>1, HoldsKept DEF FrameTrue
  <2> QED
    BY <2>1 DEF FrameTrue
<1>2. CASE m.type # "frame"
  BY <1>2 DEF FrameTrue
<1> QED
  BY <1>1, <1>2

(* A downlink is as it was, has lost its head or all it held, or has one    *)
(* message more that is true.                                              *)
LEMMA FramesKept ==
  ASSUME IndInv, FramesTrue, Grown,
         \A c \in Conn :
           \/ down'[c] = down[c] \/ down'[c] = << >>
           \/ down[c] # << >> /\ down'[c] = Tail(down[c])
           \/ \E m \in Message : down'[c] = Append(down[c], m) /\ FrameTrue(m)'
  PROVE  FramesTrue'
<1>1. ASSUME NEW c \in Conn, NEW i \in DOMAIN down'[c], NEW n, n = down'[c][i]
      PROVE  FrameTrue(n)'
  <2>1. down[c] \in Seq(Message)
    BY DEF IndInv, TypeOK, LinkTypeOK
  <2>2. ASSUME NEW k \in DOMAIN down[c], n = down[c][k] PROVE FrameTrue(n)'
    <3>1. FrameTrue(n)
      BY <2>2 DEF FramesTrue
    <3> QED
      BY <3>1, FrameKept
  <2>3. CASE down'[c] = down[c]
    BY <1>1, <2>2, <2>3
  <2>4. CASE down'[c] = << >>
    BY <1>1, <2>4
  <2>5. CASE down[c] # << >> /\ down'[c] = Tail(down[c])
    <3>1. i + 1 \in DOMAIN down[c] /\ n = down[c][i + 1]
      BY <1>1, <2>1, <2>5
    <3> QED
      BY <2>2, <3>1
  <2>6. ASSUME NEW m \in Message, down'[c] = Append(down[c], m), FrameTrue(m)'
        PROVE  FrameTrue(n)'
    <3>1. \/ i \in DOMAIN down[c] /\ n = down[c][i]
          \/ n = m
      BY <1>1, <2>1, <2>6
    <3> QED
      BY <2>2, <2>6, <3>1
  <2> QED
    BY <2>3, <2>4, <2>5, <2>6
<1>2. \A c \in Conn : \A i \in DOMAIN down'[c] : \A n : n = down'[c][i] => FrameTrue(n)'
  BY <1>1
<1> QED
  BY <1>2 DEF FramesTrue, FrameTrue

LEMMA SkippedKept ==
  ASSUME SkippedTrapped, UNCHANGED << log, skipped, owed >>, trapped \subseteq trapped'
  PROVE  SkippedTrapped'
  BY DEF SkippedTrapped, Poisoned

LEMMA NumbersKept ==
  ASSUME NumbersSpent, UNCHANGED << nextSeq, sent, taken >>
  PROVE  NumbersSpent'
  BY DEF NumbersSpent

(* A page is told of nothing more that is done, and has no more pending.    *)
LEMMA PendingKept ==
  ASSUME ConfirmedLeavesPending,
         \A p \in Page : pending'[p] \subseteq pending[p],
         \A p \in Page : \A o \in told'[p] : o \in told[p] \/ o.what # "done"
  PROVE  ConfirmedLeavesPending'
  BY DEF ConfirmedLeavesPending
-----------------------------------------------------------------------------
LEMMA InitAnswers == Init => AnswerInv
  BY DEF Init, AnswerInv, AnswersHold, ToldTrue, ResultsTrue, FramesTrue, SkippedTrapped,
         Poisoned, NumbersSpent, ConfirmedLeavesPending, NoSlot

(* The steps that answer nobody: what a page is told and what waits for it  *)
(* are as they were, but for what a broken link loses.                     *)
LEMMA QuietAnswers ==
  ASSUME IndInv, AnswerInv,
         UNCHANGED << told, nextSeq, sent, taken, log, skipped, owed >>,
         trapped \subseteq trapped',
         \A p \in Page : pending'[p] \subseteq pending[p],
         \A c \in Conn : slot'[c].results \subseteq slot[c].results,
         \A c \in Conn : down'[c] = down[c] \/ down'[c] = << >>
  PROVE  AnswerInv'
<1>1. Grown
  BY LogKeptGrown
<1>2. ToldTrue'
  BY <1>1, ToldKept DEF AnswerInv, AnswersHold
<1>3. ResultsTrue'
  BY <1>1, ResultsKept DEF AnswerInv, AnswersHold
<1>4. FramesTrue'
  BY <1>1, FramesKept DEF AnswerInv, AnswersHold
<1>5. SkippedTrapped' /\ NumbersSpent'
  BY SkippedKept, NumbersKept DEF AnswerInv
<1>6. ConfirmedLeavesPending'
  BY PendingKept DEF AnswerInv
<1> QED
  BY <1>2, <1>3, <1>4, <1>5, <1>6 DEF AnswerInv, AnswersHold

LEMMA QuietClientAnswers ==
  ASSUME IndInv, AnswerInv, NEW p \in Page,
         OpenPage(p) \/ Dial(p) \/ PollUplink(p) \/ NoticeClose(p) \/ CutLink(p)
  PROVE  AnswerInv'
<1>1. /\ UNCHANGED << told, nextSeq, pending, slot >>
      /\ UNCHANGED << sent, taken, trapped, log, skipped, owed >>
  BY DEF OpenPage, Dial, PollUplink, NoticeClose, CutLink, client, sim, disk, ghost
<1>2. \A c \in Conn : down'[c] = down[c] \/ down'[c] = << >>
  <2>1. down' = down \/ down' = [down EXCEPT ![link[p]] = << >>]
    BY DEF OpenPage, Dial, PollUplink, NoticeClose, CutLink, net
  <2> QED
    BY <2>1 DEF IndInv, TypeOK, LinkTypeOK
<1> QED
  BY <1>1, <1>2, QuietAnswers

(* An action gets a number nothing of its page has had: no outcome of an    *)
(* earlier one is about it.                                                *)
LEMMA DispatchAnswers ==
  ASSUME IndInv, AnswerInv, NEW p \in Page, NEW kind, Dispatch(p, kind)
  PROVE  AnswerInv'
<1> DEFINE a == [page |-> p, seq |-> nextSeq[p], kind |-> kind]
           queued == IF Cardinality(pending[p]) < OUTBOX_CAPACITY THEN {a} ELSE {}
<1>1. /\ pending' = [pending EXCEPT ![p] = @ \union queued]
      /\ sent' = sent \union {a}
      /\ nextSeq' = [nextSeq EXCEPT ![p] = @ + 1]
      /\ UNCHANGED << told, down, slot, log, skipped, owed, taken, trapped >>
  BY DEF Dispatch, net, sim, disk
<1>2. nextSeq \in [Page -> Nat] /\ pending \in [Page -> SUBSET Action]
  BY Bounds DEF IndInv, TypeOK, ClientTypeOK
<1>3. a.page = p /\ a.seq = nextSeq[p] /\ queued \subseteq {a}
  OBVIOUS
<1> HIDE DEF a, queued
<1>4. Grown
  BY <1>1, LogKeptGrown
<1>5. ToldTrue' /\ ResultsTrue' /\ FramesTrue'
  BY <1>1, <1>4, ToldKept, ResultsKept, FramesKept DEF AnswerInv, AnswersHold
<1>6. \A b \in sent : b.seq < nextSeq[b.page] /\ b.page \in Page /\ b.seq \in Nat
  BY ActionFields DEF AnswerInv, NumbersSpent, IndInv, TypeOK, ClientTypeOK
<1>7. a \notin sent
  BY <1>2, <1>3, <1>6
<1>8. NumbersSpent'
  <2>1. taken' \subseteq sent'
    BY <1>1 DEF AnswerInv, NumbersSpent
  <2>2. \A b \in sent' : b.seq < nextSeq'[b.page]
    BY <1>1, <1>2, <1>3, <1>6
  <2> QED
    BY <2>1, <2>2 DEF NumbersSpent
<1>9. ConfirmedLeavesPending'
  <2> SUFFICES ASSUME NEW q \in Page, NEW o \in told[q], o.what = "done"
               PROVE  o.of \notin pending'[q]
    BY <1>1 DEF ConfirmedLeavesPending
  <2>1. o.of \notin pending[q]
    BY DEF AnswerInv, ConfirmedLeavesPending
  <2>2. o.of \in sent
    <3>1. o.of \in RanActs \union taken
      BY DEF AnswerInv, AnswersHold, ToldTrue, Holds
    <3>2. RanActs \subseteq sent
      BY DEF RanActs, IndInv, FromPages
    <3> QED
      BY <3>1, <3>2 DEF AnswerInv, NumbersSpent
  <2>3. o.of # a
    BY <1>7, <2>2
  <2> QED
    BY <1>1, <1>2, <1>3, <2>1, <2>3
<1>10. SkippedTrapped'
  BY <1>1, SkippedKept DEF AnswerInv
<1> QED
  BY <1>5, <1>8, <1>9, <1>10 DEF AnswerInv, AnswersHold

(* A frame takes what it confirms out of the page's queue; a Welcome        *)
(* confirms nothing.                                                       *)
LEMMA ReadDownAnswers ==
  ASSUME IndInv, AnswerInv, NEW p \in Page, ReadDown(p)
  PROVE  AnswerInv'
<1> PICK c : c = link[p]
  OBVIOUS
<1> PICK m : m = Head(down[c])
  OBVIOUS
<1>1. /\ c # 0 /\ down[c] # << >> /\ down' = [down EXCEPT ![c] = Tail(@)]
      /\ UNCHANGED << slot, sent, taken, trapped, log, skipped, owed >>
  BY DEF ReadDown, sim, disk, ghost
<1>2. c \in Conn /\ down \in [Conn -> Seq(Message)]
  BY <1>1 DEF IndInv, TypeOK, LinkTypeOK
<1>3. m \in Message /\ FrameTrue(m)
  <2>1. m = down[c][1] /\ 1 \in DOMAIN down[c] /\ m \in Message
    BY <1>1, <1>2
  <2> QED
    BY <1>2, <2>1 DEF AnswerInv, AnswersHold, FramesTrue
<1>4. Grown
  BY <1>1, LogKeptGrown
<1>5. ResultsTrue' /\ FramesTrue' /\ SkippedTrapped'
  <2>1. FramesTrue'
    BY <1>1, <1>2, <1>4, FramesKept DEF AnswerInv, AnswersHold
  <2>2. ResultsTrue' /\ SkippedTrapped'
    BY <1>1, <1>4, ResultsKept, SkippedKept DEF AnswerInv, AnswersHold
  <2> QED
    BY <2>1, <2>2
<1>6. SUFFICES ToldTrue' /\ NumbersSpent' /\ ConfirmedLeavesPending'
  BY <1>5, <1>6 DEF AnswerInv, AnswersHold
<1>7. told \in [Page -> SUBSET Outcome] /\ pending \in [Page -> SUBSET Action]
  BY DEF IndInv, TypeOK, ClientTypeOK
<1>8. CASE m.type = "welcome" /\ OnWelcome(p, m.ack)
  <2> PICK acked : acked = Acked(pending[p], m.ack)
    OBVIOUS
  <2>1. /\ told' = [told EXCEPT ![p] = @ \union Says("lost", acked)]
        /\ pending' = [pending EXCEPT ![p] = Unacked(@, m.ack)]
        /\ nextSeq' = [nextSeq EXCEPT ![p] = IF @ = 0 THEN m.ack + 1 ELSE @]
    BY <1>8 DEF OnWelcome
  <2>2. \A q \in Page : \A o \in told'[q] : o \in told[q] \/ (Holds(o)' /\ o.what = "lost")
    BY <1>7, <2>1, SaysHolds
  <2>3. ToldTrue'
    BY <1>4, <2>2, ToldKept DEF AnswerInv, AnswersHold
  <2>4. ConfirmedLeavesPending'
    <3>1. \A q \in Page : pending'[q] \subseteq pending[q]
      BY <1>7, <2>1 DEF Unacked
    <3>2. \A q \in Page : \A o \in told'[q] : o \in told[q] \/ o.what # "done"
      BY <2>2
    <3> QED
      BY <3>1, <3>2, PendingKept DEF AnswerInv
  <2>5. NumbersSpent'
    <3>1. \A b \in sent : b.seq < nextSeq[b.page] /\ b.page \in Page /\ b.seq \in Nat
      BY ActionFields DEF AnswerInv, NumbersSpent, IndInv, TypeOK, ClientTypeOK
    <3>2. \A b \in sent : nextSeq[b.page] # 0
      BY <3>1
    <3>3. \A b \in sent : nextSeq'[b.page] = nextSeq[b.page]
      BY <2>1, <3>1, <3>2 DEF IndInv, TypeOK, ClientTypeOK
    <3> QED
      BY <1>1, <3>1, <3>3 DEF AnswerInv, NumbersSpent
  <2> QED
    BY <2>3, <2>4, <2>5
<1>9. CASE m.type = "frame" /\ OnFrame(p, m.ack, m.results)
  <2>1. /\ told' = [told EXCEPT ![p] = @ \union m.results]
        /\ pending' = [pending EXCEPT ![p] = Unacked(@, m.ack)]
        /\ nextSeq' = nextSeq
    BY <1>9 DEF OnFrame
  <2>2. \A q \in Page : \A o \in told'[q] : o \in told[q] \/ (q = p /\ o \in m.results)
    BY <1>7, <2>1
  <2>3. \A o \in m.results : Holds(o) /\ (o.what = "done" => o.of.seq <= m.ack)
    BY <1>3, <1>9 DEF FrameTrue
  <2>4. \A o \in m.results : Holds(o)'
    BY <1>4, <2>3, HoldsKept
  <2>5. ToldTrue'
    BY <1>4, <2>2, <2>4, ToldKept DEF AnswerInv, AnswersHold
  <2>6. \A q \in Page : pending'[q] \subseteq pending[q]
    BY <1>7, <2>1 DEF Unacked
  <2>7. ConfirmedLeavesPending'
    <3> SUFFICES ASSUME NEW q \in Page, NEW o \in told'[q], o.what = "done"
                 PROVE  o.of \notin pending'[q]
      BY DEF ConfirmedLeavesPending
    <3>1. CASE o \in told[q]
      BY <2>6, <3>1 DEF AnswerInv, ConfirmedLeavesPending
    <3>2. CASE q = p /\ o \in m.results
      <4>1. o.of.seq <= m.ack
        BY <2>3, <3>2
      <4>2. m.ack \in Nat
        BY <1>3, <1>9, MessageFields, Bounds DEF Acks
      <4>3. ASSUME o.of \in pending'[q] PROVE FALSE
        <5>1. o.of \in pending[q] /\ o.of.seq > m.ack
          BY <1>7, <2>1, <3>2, <4>3 DEF Unacked
        <5>2. o.of.seq \in Nat
          BY <1>7, <5>1, ActionFields
        <5> QED
          BY <4>1, <4>2, <5>1, <5>2
      <4> QED
        BY <4>3
    <3> QED
      BY <2>2, <3>1, <3>2
  <2>8. NumbersSpent'
    BY <1>1, <2>1, NumbersKept DEF AnswerInv
  <2> QED
    BY <2>5, <2>7, <2>8
<1>10. CASE UNCHANGED << nextSeq, pending, told >>
  <2>1. NumbersSpent' /\ ConfirmedLeavesPending'
    BY <1>1, <1>10, NumbersKept, PendingKept DEF AnswerInv
  <2> QED
    BY <1>4, <1>10, <2>1, ToldKept DEF AnswerInv, AnswersHold
<1> QED
  BY <1>8, <1>9, <1>10 DEF ReadDown, client

(* An instance that traps reports what it had not resolved as lost. *)
LEMMA ClientTrapAnswers ==
  ASSUME IndInv, AnswerInv, NEW p \in Page, ClientTrap(p)
  PROVE  AnswerInv'
<1>1. PICK lost : told' = [told EXCEPT ![p] = @ \union Says("lost", lost)]
  BY DEF ClientTrap
<1>2. /\ pending' = [pending EXCEPT ![p] = {}]
      /\ UNCHANGED << nextSeq, down, slot, sent, taken, trapped, log, skipped, owed >>
  BY DEF ClientTrap, sim, disk, ghost
<1>3. \A q \in Page : \A o \in told'[q] : o \in told[q] \/ (Holds(o)' /\ o.what = "lost")
  BY <1>1, SaysHolds DEF IndInv, TypeOK, ClientTypeOK
<1>4. Grown
  BY <1>2, LogKeptGrown
<1>5. ToldTrue' /\ ResultsTrue' /\ FramesTrue'
  BY <1>2, <1>3, <1>4, ToldKept, ResultsKept, FramesKept DEF AnswerInv, AnswersHold
<1>6. SkippedTrapped' /\ NumbersSpent'
  BY <1>2, SkippedKept, NumbersKept DEF AnswerInv
<1>7. ConfirmedLeavesPending'
  <2>1. \A q \in Page : pending'[q] \subseteq pending[q]
    BY <1>2 DEF IndInv, TypeOK, ClientTypeOK
  <2>2. \A q \in Page : \A o \in told'[q] : o \in told[q] \/ o.what # "done"
    BY <1>3
  <2> QED
    BY <2>1, <2>2, PendingKept DEF AnswerInv
<1> QED
  BY <1>5, <1>6, <1>7 DEF AnswerInv, AnswersHold
-----------------------------------------------------------------------------
(* The host's steps: only a tick, a recovery and an attach say anything of   *)
(* what ran or trapped.                                                    *)
LEMMA QuietHostAnswers ==
  ASSUME IndInv, AnswerInv,
         (\E c \in Conn : Receive(c) \/ HostClose(c)) \/ AdmitTrap \/ GiveUp
  PROVE  AnswerInv'
<1>1. /\ UNCHANGED << told, nextSeq, pending, down >>
      /\ UNCHANGED << sent, taken, log, skipped, owed >> /\ trapped \subseteq trapped'
  BY DEF Receive, HostClose, AdmitTrap, GiveUp, client, net, sim, disk, ghost
<1>2. \A c \in Conn : slot'[c].results \subseteq slot[c].results
  <2>1. ASSUME NEW d \in Conn, HostClose(d) \/ Receive(d)
        PROVE  \A c \in Conn : slot'[c].results \subseteq slot[c].results
    <3>1. slot' = slot \/ slot' = [slot EXCEPT ![d] = NoSlot]
          \/ slot' = [slot EXCEPT ![d] = slot[d]]
      BY <2>1 DEF HostClose, Receive, ReceiveHello, ReceiveBatch
    <3>2. NoSlot.results = {}
      BY DEF NoSlot
    <3> QED
      BY <3>1, <3>2 DEF IndInv, TypeOK, HostTypeOK
  <2>2. CASE AdmitTrap \/ GiveUp
    BY <2>2 DEF AdmitTrap, GiveUp, sim
  <2> QED
    BY <2>1, <2>2
<1> QED
  BY <1>1, <1>2, QuietAnswers

LEMMA OnUplinkAnswers ==
  ASSUME IndInv, AnswerInv, OnUplink
  PROVE  AnswerInv'
<1> PICK c, a : c = busy.conn /\ a = First(busy.acts)
  OBVIOUS
<1>1. /\ Duplicate(c, a) \/ Refuse(c, a) \/ Admit(c, a)
      /\ UNCHANGED << told, nextSeq, pending, down >>
      /\ UNCHANGED << sent, taken, trapped, log, skipped, owed >>
  BY DEF OnUplink, client, net, disk, ghost
<1>2. c \in Conn
  BY Uplink DEF OnUplink
<1>3. ASSUME NEW d \in Conn, NEW o \in slot'[d].results
      PROVE  o \in slot[d].results \/ (Holds(o)' /\ o.what # "done")
  <2>1. slot \in [Conn -> SlotType]
    BY DEF IndInv, TypeOK, HostTypeOK, SlotType
  <2>2. CASE Duplicate(c, a)
    BY <1>3, <2>2 DEF Duplicate
  <2>3. CASE Refuse(c, a)
    <3> PICK said : said = Says("refused", {a})
      OBVIOUS
    <3>1. slot' = [slot EXCEPT ![c].results = @ \union said]
      BY <2>3 DEF Refuse
    <3>2. o \in slot[d].results \/ o \in said
      BY <1>2, <1>3, <2>1, <3>1 DEF SlotType
    <3> QED
      BY <3>2, SaysHolds
  <2>4. CASE Admit(c, a)
    <3>1. slot' = [slot EXCEPT ![c].floor = a.seq]
      BY <2>4 DEF Admit
    <3> QED
      BY <1>2, <1>3, <2>1, <3>1 DEF SlotType
  <2> QED
    BY <1>1, <2>2, <2>3, <2>4
<1>4. Grown
  BY <1>1, LogKeptGrown
<1>5. ToldTrue' /\ ResultsTrue'
  BY <1>1, <1>3, <1>4, ToldKept, ResultsKept DEF AnswerInv, AnswersHold
<1>6. FramesTrue'
  BY <1>1, <1>4, FramesKept DEF AnswerInv, AnswersHold
<1>7. SkippedTrapped' /\ NumbersSpent' /\ ConfirmedLeavesPending'
  BY <1>1, SkippedKept, NumbersKept, PendingKept DEF AnswerInv
<1> QED
  BY <1>5, <1>6, <1>7 DEF AnswerInv, AnswersHold

(* Nothing of what a step of the host leaves of the pages changes. *)
LEMMA PagesKept ==
  ASSUME AnswerInv, Grown, UNCHANGED << told, pending >>
  PROVE  ToldTrue' /\ ConfirmedLeavesPending'
  BY ToldKept, PendingKept DEF AnswerInv, AnswersHold

LEMMA AttachAnswers ==
  ASSUME IndInv, AnswerInv, Attach
  PROVE  AnswerInv'
<1> PICK c : c = Head(queue)
  OBVIOUS
<1>1. UNCHANGED << told, nextSeq, pending, sent, taken, trapped, log, skipped >>
  BY DEF Attach, client, disk, ghost
<1>2. Grown
  BY <1>1, LogKeptGrown
<1>3. NumbersSpent' /\ ToldTrue' /\ ConfirmedLeavesPending'
  BY <1>1, <1>2, NumbersKept, PagesKept DEF AnswerInv
<1>4. CASE st[c] = "awaiting"
  <2> PICK old : old = {d \in Conn \ {c} : slot[d].on}
    OBVIOUS
  <2> PICK said : said = Says("fault", owed)
    OBVIOUS
  <2>1. /\ slot' = [d \in Conn |-> IF d = c THEN FreshSlot(said) ELSE NoSlot]
        /\ owed' = {}
        /\ down' = [d \in Conn |->
                      IF d = c THEN Append(down[d], Welcome(lastSeq))
                      ELSE IF d \in old THEN Append(down[d], Bye) ELSE down[d]]
    BY <1>4 DEF Attach
  <2>2. SkippedTrapped'
    BY <1>1, <2>1 DEF AnswerInv, SkippedTrapped, Poisoned
  <2>3. \A o \in said : Holds(o)' /\ o.what # "done"
    <3>1. \A a \in owed : a \in trapped /\ a.kind = "applyTrap"
      BY DEF AnswerInv, SkippedTrapped
    <3>2. trapped \subseteq trapped'
      BY <1>1
    <3> QED
      BY <3>1, <3>2, FaultsHold
  <2>4. FreshSlot(said).results = said /\ NoSlot.results = {}
    BY DEF FreshSlot, NoSlot
  <2> HIDE DEF FreshSlot, NoSlot
  <2>5. \A d \in Conn : \A o \in slot'[d].results : Holds(o)' /\ o.what # "done"
    BY <2>1, <2>3, <2>4
  <2>6. ResultsTrue'
    BY <1>2, <2>5, ResultsKept DEF AnswerInv, AnswersHold
  <2>7. FramesTrue'
    <3>1. Welcome(lastSeq) \in Message /\ Bye \in Message
      BY MessagesOK DEF IndInv, TypeOK, HostTypeOK
    <3>2. PICK w \in Message, b \in Message : w = Welcome(lastSeq) /\ b = Bye
      BY <3>1
    <3>3. w.type # "frame" /\ b.type # "frame"
      BY <3>2, MessageTypes
    <3>4. FrameTrue(w)' /\ FrameTrue(b)'
      BY <3>3 DEF FrameTrue
    <3>5. \A d \in Conn :
            down'[d] = Append(down[d], w) \/ down'[d] = Append(down[d], b) \/ down'[d] = down[d]
      BY <2>1, <3>2
    <3> QED
      BY <1>2, <3>4, <3>5, FramesKept DEF AnswerInv, AnswersHold
  <2> QED
    BY <1>3, <2>2, <2>6, <2>7 DEF AnswerInv, AnswersHold
<1>5. CASE st[c] # "awaiting"
  <2>1. UNCHANGED << slot, owed, down >>
    BY <1>5 DEF Attach
  <2>2. ResultsTrue' /\ FramesTrue'
    BY <1>2, <2>1, ResultsKept, FramesKept DEF AnswerInv, AnswersHold
  <2>3. SkippedTrapped'
    BY <1>1, <2>1, SkippedKept DEF AnswerInv
  <2> QED
    BY <1>3, <2>2, <2>3 DEF AnswerInv, AnswersHold
<1> QED
  BY <1>4, <1>5

(* Sealing keeps the log and adds the records at its end. *)
LEMMA SealGrows ==
  ASSUME IndInv, log' = Sealed, UNCHANGED << skipped, taken >>, trapped \subseteq trapped'
  PROVE  /\ Grown
         /\ \A a \in RecordSet : a.kind # "applyTrap" => a \in RanActs'
         /\ \A i \in Poisoned(log)' : \/ i \in Poisoned(log) /\ log'[i] = log[i]
                                      \/ log'[i].act \in RecordSet
         /\ Poisoned(log) \subseteq Poisoned(log)'
<1>1. /\ log \in Seq(Entry) /\ records \in Seq(Action) /\ skipped \subseteq 1 .. Len(log)
      /\ Len(log) \in Nat /\ Len(records) \in Nat
  BY DEF IndInv, TypeOK, HostTypeOK
<1>2. /\ log' \in Seq(Entry)
      /\ Len(log') = Len(log) + Len(records)
      /\ \A i \in 1 .. Len(log) : log'[i] = log[i]
      /\ \A i \in 1 .. Len(log') : i > Len(log) =>
           /\ i - Len(log) \in 1 .. Len(records)
           /\ log'[i] = [act |-> records[i - Len(log)], frame |-> NextFrame(log)]
  BY <1>1, SealedIs
<1>3. DOMAIN log = 1 .. Len(log) /\ DOMAIN log' = 1 .. Len(log')
  BY <1>1, <1>2
<1>4. \A i \in 1 .. Len(log) : i \in 1 .. Len(log') /\ log'[i] = log[i]
  BY <1>1, <1>2
<1>5. Poisoned(log) \subseteq Poisoned(log)'
  BY <1>4 DEF Poisoned
<1>6. ASSUME NEW i \in Poisoned(log)'
      PROVE  \/ i \in Poisoned(log) /\ log'[i] = log[i]
             \/ log'[i].act \in RecordSet
  <2>1. i \in 1 .. Len(log') /\ log'[i].act.kind = "applyTrap"
    BY DEF Poisoned
  <2>2. CASE i \in 1 .. Len(log)
    BY <1>4, <2>1, <2>2 DEF Poisoned
  <2>3. CASE i > Len(log)
    BY <1>2, <2>1, <2>3, SMTT(20) DEF RecordSet
  <2> QED
    BY <1>1, <1>2, <2>1, <2>2, <2>3
<1>7. RanActs \subseteq RanActs'
  <2> SUFFICES ASSUME NEW a \in RanActs PROVE a \in RanActs'
    OBVIOUS
  <2>1. PICK i \in DOMAIN log \ (skipped \union Poisoned(log)) : a = log[i].act
    BY DEF RanActs
  <2>2. i \in DOMAIN log' \ (skipped \union Poisoned(log))' /\ a = log'[i].act
    BY <1>3, <1>4, <2>1 DEF Poisoned
  <2> QED
    BY <2>2 DEF RanActs
<1>8. ASSUME NEW a \in RecordSet, a.kind # "applyTrap" PROVE a \in RanActs'
  <2>1. PICK k \in 1 .. Len(records) : a = records[k]
    BY DEF RecordSet
  <2> PICK i : i = Len(log) + k
    OBVIOUS
  <2>2. i \in 1 .. Len(log') /\ i > Len(log) /\ i - Len(log) = k
    BY <1>1, <1>2
  <2>3. log'[i].act = a
    BY <1>2, <2>1, <2>2
  <2>4. i \in DOMAIN log' \ (skipped \union Poisoned(log))'
    BY <1>1, <1>3, <1>8, <2>2, <2>3 DEF Poisoned
  <2> QED
    BY <2>3, <2>4 DEF RanActs
<1>9. Grown
  BY <1>7 DEF Grown
<1> QED
  BY <1>5, <1>6, <1>8, <1>9

(* A tick runs its records and sends each result with an ack that covers it.*)
LEMMA EndTickAnswers ==
  ASSUME IndInv, AnswerInv, EndTick
  PROVE  AnswerInv'
<1> DEFINE ack == IF records = << >> THEN lastSeq ELSE records[Len(records)].seq
           outcomes == Says("done", RecordSet)
           filled == [c \in Conn |->
                        IF slot[c].on THEN [slot[c] EXCEPT !.results = @ \union outcomes]
                        ELSE slot[c]]
<1>1. /\ log' = Sealed /\ UNCHANGED << skipped, taken, trapped, owed >>
      /\ UNCHANGED << told, nextSeq, pending, sent >>
      /\ \A a \in RecordSet : a.kind # "applyTrap"
  BY DEF EndTick, client, ghost
<1>2. /\ down' = [c \in Conn |->
                    IF Owes(filled[c]) THEN Append(down[c], Frame(ack, filled[c].results))
                    ELSE down[c]]
      /\ slot' = [c \in Conn |->
                    IF Owes(filled[c])
                      THEN [filled[c] EXCEPT !.results = {}, !.first = FALSE]
                      ELSE filled[c]]
  BY DEF EndTick
<1> HIDE DEF ack, outcomes
<1>3. /\ Grown
      /\ \A a \in RecordSet : a \in RanActs'
      /\ \A i \in Poisoned(log)' : \/ i \in Poisoned(log) /\ log'[i] = log[i]
                                   \/ log'[i].act \in RecordSet
      /\ Poisoned(log) \subseteq Poisoned(log)'
  BY <1>1, SealGrows
<1>4. NumbersSpent' /\ ToldTrue' /\ ConfirmedLeavesPending'
  BY <1>1, <1>3, NumbersKept, PagesKept DEF AnswerInv
<1>5. SkippedTrapped'
  <2>1. ASSUME NEW i \in Poisoned(log)' PROVE log'[i].act \in trapped
    <3>1. log'[i].act.kind = "applyTrap"
      BY DEF Poisoned
    <3>2. i \in Poisoned(log) /\ log'[i] = log[i]
      BY <1>1, <1>3, <3>1
    <3> QED
      BY <3>2 DEF AnswerInv, SkippedTrapped
  <2> QED
    BY <1>1, <1>3, <2>1 DEF AnswerInv, SkippedTrapped
<1>6. records \in Seq(Action) /\ RecordSet \in SUBSET Action /\ lastSeq \in Acks
  BY DEF IndInv, TypeOK, HostTypeOK, RecordSet
<1>7. \A i \in DOMAIN records : records[i].seq \in Acks /\ records[i].seq \in Nat
  BY <1>6, ActionFields
<1>8. ack \in Acks /\ \A a \in RecordSet : a.seq <= ack
  <2>1. CASE records = << >>
    BY <1>6, <2>1 DEF RecordSet, ack
  <2>2. CASE records # << >>
    <3>1. Len(records) \in DOMAIN records /\ ack = records[Len(records)].seq
      BY <1>6, <2>2 DEF ack
    <3>2. ASSUME NEW k \in 1 .. Len(records) PROVE records[k].seq <= ack
      <4>1. CASE k = Len(records)
        BY <1>7, <3>1, <4>1
      <4>2. CASE k < Len(records)
        <5>1. k \in DOMAIN records
          BY <1>6
        <5>2. records[k].seq < records[Len(records)].seq
          BY <3>1, <4>2, <5>1 DEF IndInv, RecordsOrdered
        <5> QED
          BY <1>7, <3>1, <5>1, <5>2
      <4> QED
        BY <1>6, <4>1, <4>2
    <3> QED
      BY <1>7, <3>1, <3>2 DEF RecordSet
  <2> QED
    BY <2>1, <2>2
<1>9. outcomes \in SUBSET Outcome
      /\ \A o \in outcomes : Holds(o)' /\ o.of.seq <= ack /\ o.what = "done"
  <2>1. ASSUME NEW o \in outcomes PROVE Holds(o)' /\ o.of.seq <= ack /\ o.what = "done"
    <3>1. PICK a \in RecordSet : o.what = "done" /\ o.of = a
      BY DEF Says, outcomes
    <3> QED
      BY <1>3, <1>8, <3>1 DEF Holds
  <2> QED
    BY <1>6, <2>1, SaysOK DEF outcomes
<1>10. \A c \in Conn :
         /\ filled[c] \in SlotType /\ filled[c].on = slot[c].on
         /\ \A o \in filled[c].results : o \in slot[c].results \/ (slot[c].on /\ o \in outcomes)
  <2> TAKE c \in Conn
  <2>1. slot[c] \in SlotType
    BY DEF IndInv, TypeOK, HostTypeOK, SlotType
  <2> DEFINE new == [slot[c] EXCEPT !.results = slot[c].results \union outcomes]
  <2>2. new \in SlotType /\ new.on = slot[c].on /\ new.results = slot[c].results \union outcomes
    BY <1>9, <2>1 DEF SlotType
  <2>3. filled[c] = IF slot[c].on THEN new ELSE slot[c]
    OBVIOUS
  <2> QED
    BY <2>1, <2>2, <2>3
<1> HIDE DEF filled
<1>11. \A c \in Conn : \A o \in slot[c].results : Holds(o)' /\ o.what # "done"
  BY <1>3, HoldsKept DEF AnswerInv, AnswersHold, ResultsTrue
<1>12. FramesTrue'
  <2>1. ASSUME NEW c \in Conn
        PROVE  \E m \in Message : m = Frame(ack, filled[c].results) /\ FrameTrue(m)'
    <3>1. Frame(ack, filled[c].results) \in Message
      BY <1>8, <1>10, MessagesOK DEF SlotType
    <3>2. PICK m \in Message : m = Frame(ack, filled[c].results)
      BY <3>1
    <3>3. m.ack = ack /\ m.results = filled[c].results
      BY <3>2 DEF Frame
    <3>4. \A o \in m.results : Holds(o)' /\ (o.what = "done" => o.of.seq <= m.ack)
      BY <1>9, <1>10, <1>11, <3>3
    <3>5. FrameTrue(m)'
      BY <3>4 DEF FrameTrue
    <3> QED
      BY <3>2, <3>5
  <2>2. \A c \in Conn : down'[c] = Append(down[c], Frame(ack, filled[c].results))
                        \/ down'[c] = down[c]
    BY <1>2
  <2>3. \A c \in Conn :
          down'[c] = down[c] \/ \E m \in Message : down'[c] = Append(down[c], m) /\ FrameTrue(m)'
    BY <2>1, <2>2
  <2> QED
    BY <1>3, <2>3, FramesKept DEF AnswerInv, AnswersHold
<1>13. ResultsTrue'
  <2>1. ASSUME NEW c \in Conn, NEW o \in slot'[c].results
        PROVE  Holds(o)' /\ o.what # "done"
    <3>1. CASE Owes(filled[c])
      <4>1. [filled[c] EXCEPT !.results = {}, !.first = FALSE].results = {}
        BY <1>10 DEF SlotType
      <4> QED
        BY <1>2, <2>1, <3>1, <4>1
    <3>2. CASE ~ Owes(filled[c])
      <4>1. slot'[c] = filled[c] /\ ~ slot[c].on
        BY <1>2, <1>10, <2>1, <3>2 DEF Owes
      <4> QED
        BY <1>10, <1>11, <2>1, <4>1
    <3> QED
      BY <3>1, <3>2
  <2> QED
    BY <1>3, <2>1, ResultsKept DEF AnswerInv, AnswersHold
<1> QED
  BY <1>4, <1>5, <1>12, <1>13 DEF AnswerInv, AnswersHold

LEMMA ApplyTrapAnswers ==
  ASSUME IndInv, AnswerInv, ApplyTrap
  PROVE  AnswerInv'
<1>1. /\ log' = Sealed /\ trapped' = trapped \union {a \in RecordSet : a.kind = "applyTrap"}
      /\ UNCHANGED << skipped, taken, owed, told, nextSeq, pending, sent, slot, down >>
  BY DEF ApplyTrap, client, net
<1>2. /\ Grown
      /\ \A i \in Poisoned(log)' : \/ i \in Poisoned(log) /\ log'[i] = log[i]
                                   \/ log'[i].act \in RecordSet
      /\ Poisoned(log) \subseteq Poisoned(log)'
  BY <1>1, SealGrows
<1>3. NumbersSpent' /\ ToldTrue' /\ ConfirmedLeavesPending'
  BY <1>1, <1>2, NumbersKept, PagesKept DEF AnswerInv
<1>4. ResultsTrue' /\ FramesTrue'
  BY <1>1, <1>2, ResultsKept, FramesKept DEF AnswerInv, AnswersHold
<1>5. SkippedTrapped'
  <2>1. ASSUME NEW i \in Poisoned(log)' PROVE log'[i].act \in trapped'
    <3>1. log'[i].act.kind = "applyTrap"
      BY DEF Poisoned
    <3>2. CASE i \in Poisoned(log) /\ log'[i] = log[i]
      BY <1>1, <3>2 DEF AnswerInv, SkippedTrapped
    <3>3. CASE log'[i].act \in RecordSet
      BY <1>1, <3>1, <3>3
    <3> QED
      BY <1>2, <3>2, <3>3
  <2> QED
    BY <1>1, <1>2, <2>1 DEF AnswerInv, SkippedTrapped
<1> QED
  BY <1>3, <1>4, <1>5 DEF AnswerInv, AnswersHold

(* A recovery answers the records that trapped, and no other. *)
LEMMA RecoverAnswers ==
  ASSUME IndInv, AnswerInv, Recover
  PROVE  AnswerInv'
<1> PICK skips, seq, faulted, said, open :
      /\ skips = skipped \union Poisoned(log)
      /\ seq = ReplayedSeq(log, skips)
      /\ faulted = {log[i].act : i \in skips}
      /\ said = Says("fault", faulted)
      /\ open = {c \in Conn : st[c] \notin Gone}
  OBVIOUS
<1>1. /\ skipped' = skips
      /\ slot' = [c \in Conn |-> IF c \in open THEN FreshSlot(said) ELSE NoSlot]
      /\ owed' = IF open = {} THEN faulted ELSE {}
      /\ down' = [c \in Conn |-> IF c \in open THEN Append(down[c], Welcome(seq)) ELSE down[c]]
      /\ UNCHANGED << told, nextSeq, pending, log, sent, taken, trapped >>
  BY DEF Recover, client, ghost
<1>2. skips = Poisoned(log)
  BY DEF AnswerInv, SkippedTrapped
<1>3. \A a \in faulted : a \in trapped /\ a.kind = "applyTrap"
  BY <1>2 DEF AnswerInv, SkippedTrapped, Poisoned
<1>4. Grown
  BY <1>1 DEF Grown, RanActs, Poisoned
<1>5. NumbersSpent' /\ ToldTrue' /\ ConfirmedLeavesPending'
  BY <1>1, <1>4, NumbersKept, PagesKept DEF AnswerInv
<1>6. SkippedTrapped'
  BY <1>1, <1>2, <1>3 DEF AnswerInv, SkippedTrapped, Poisoned
<1>7. \A o \in said : Holds(o)' /\ o.what # "done"
  <2>1. trapped \subseteq trapped'
    BY <1>1
  <2> QED
    BY <1>3, <2>1, FaultsHold
<1>8. FreshSlot(said).results = said /\ NoSlot.results = {}
  BY DEF FreshSlot, NoSlot
<1> HIDE DEF FreshSlot, NoSlot
<1>9. ResultsTrue'
  <2>1. \A c \in Conn : \A o \in slot'[c].results : Holds(o)' /\ o.what # "done"
    BY <1>1, <1>7, <1>8
  <2> QED
    BY <1>4, <2>1, ResultsKept DEF AnswerInv, AnswersHold
<1>10. FramesTrue'
  <2>1. seq \in Acks
    <3>1. log \in Seq(Entry)
      BY DEF IndInv, TypeOK, HostTypeOK
    <3>2. OrderedLog(log, skips)
      BY DEF IndInv, LogOrdered, OrderedLog
    <3> QED
      BY <3>1, <3>2, ReplayCovers
  <2>2. PICK w \in Message : w = Welcome(seq)
    BY <2>1, MessagesOK
  <2>3. w.type # "frame"
    BY <2>2, MessageTypes
  <2>4. FrameTrue(w)'
    BY <2>3 DEF FrameTrue
  <2>5. \A c \in Conn : down'[c] = Append(down[c], w) \/ down'[c] = down[c]
    BY <1>1, <2>2
  <2> QED
    BY <1>4, <2>4, <2>5, FramesKept DEF AnswerInv, AnswersHold
<1> QED
  BY <1>5, <1>6, <1>9, <1>10 DEF AnswerInv, AnswersHold

(* What a new process has lost of the log, a crash took. *)
LEMMA RestartAnswers ==
  ASSUME IndInv, AnswerInv, NEW n \in 0 .. Len(log), Restart(n)
  PROVE  AnswerInv'
<1>1. /\ log' = SubSeq(log, 1, n)
      /\ skipped' = skipped \cap (1 .. n)
      /\ taken' = taken \union {log[i].act : i \in n + 1 .. Len(log)}
      /\ owed' = {log[i].act : i \in skipped'}
      /\ slot' = [c \in Conn |-> NoSlot]
      /\ UNCHANGED << told, nextSeq, pending, down, sent, trapped >>
  BY DEF Restart, client
<1>2. /\ DOMAIN log = 1 .. Len(log) /\ Len(log) \in Nat /\ DOMAIN log' = 1 .. n
      /\ \A i \in 1 .. n : i \in 1 .. Len(log) /\ log'[i] = log[i]
      /\ Len(log') = n
  BY <1>1 DEF IndInv, TypeOK, HostTypeOK
<1>3. \A i \in 1 .. n : i \in Poisoned(log)' <=> i \in Poisoned(log)
  BY <1>2 DEF Poisoned
<1>4. Poisoned(log)' \subseteq Poisoned(log) /\ Poisoned(log)' \subseteq 1 .. n
  BY <1>2, <1>3 DEF Poisoned
<1>5. Grown
  <2>1. ASSUME NEW a \in RanActs PROVE a \in (RanActs \union taken)'
    <3>1. PICK i \in 1 .. Len(log) :
            i \notin skipped /\ i \notin Poisoned(log) /\ a = log[i].act
      BY <1>2 DEF RanActs
    <3>2. CASE i \in 1 .. n
      <4>1. i \in DOMAIN log' \ (skipped \union Poisoned(log))' /\ a = log'[i].act
        BY <1>1, <1>2, <1>3, <3>1, <3>2
      <4> QED
        BY <4>1 DEF RanActs
    <3>3. CASE i \in n + 1 .. Len(log)
      BY <1>1, <3>1, <3>3
    <3> QED
      BY <1>2, <3>1, <3>2, <3>3
  <2> QED
    BY <1>1, <2>1 DEF Grown
<1>6. ToldTrue' /\ ConfirmedLeavesPending'
  BY <1>1, <1>5, PagesKept DEF AnswerInv
<1>7. FramesTrue'
  BY <1>1, <1>5, FramesKept DEF AnswerInv, AnswersHold
<1>8. ResultsTrue'
  <2>1. \A c \in Conn : slot'[c].results = {}
    <3>1. NoSlot.results = {}
      BY DEF NoSlot
    <3> HIDE DEF NoSlot
    <3> QED
      BY <1>1, <3>1
  <2> QED
    BY <1>5, <2>1, ResultsKept DEF AnswerInv, AnswersHold
<1>9. SkippedTrapped'
  <2>1. skipped' \subseteq Poisoned(log)'
    BY <1>1, <1>3 DEF AnswerInv, SkippedTrapped
  <2>2. \A i \in Poisoned(log)' : log'[i].act \in trapped /\ log'[i].act.kind = "applyTrap"
    BY <1>2, <1>4 DEF AnswerInv, SkippedTrapped, Poisoned
  <2>3. \A i \in skipped' : log[i] = log'[i]
    BY <1>1, <1>2
  <2>4. ASSUME NEW a \in owed' PROVE a \in trapped /\ a.kind = "applyTrap"
    <3>1. PICK i \in skipped' : a = log[i].act
      BY <1>1
    <3> QED
      BY <2>1, <2>2, <2>3, <3>1
  <2>5. trapped' = trapped
    BY <1>1
  <2> HIDE DEF Poisoned
  <2> QED
    BY <2>1, <2>2, <2>4, <2>5 DEF SkippedTrapped
<1>10. NumbersSpent'
  <2>1. \A i \in n + 1 .. Len(log) : i \in DOMAIN log
    BY <1>2
  <2>2. taken' \subseteq sent
    BY <1>1, <2>1 DEF AnswerInv, NumbersSpent, IndInv, FromPages
  <2> QED
    BY <1>1, <2>2 DEF AnswerInv, NumbersSpent
<1> QED
  BY <1>6, <1>7, <1>8, <1>9, <1>10 DEF AnswerInv, AnswersHold
-----------------------------------------------------------------------------
LEMMA StepAnswers == ASSUME IndInv, AnswerInv, [Next]_vars PROVE AnswerInv'
<1>1. CASE UNCHANGED vars
  <2>1. UNCHANGED << told, nextSeq, sent, taken, log, skipped, owed, trapped, pending, slot, down >>
    BY <1>1 DEF vars, client, net, sim, disk, ghost
  <2> QED
    BY <2>1, QuietAnswers
<1>2. ASSUME NEW p \in Page, ClientStep(p) PROVE AnswerInv'
  BY <1>2, QuietClientAnswers, ReadDownAnswers, ClientTrapAnswers, DispatchAnswers DEF ClientStep
<1>3. CASE HostStep
  <2>1. CASE (\E c \in Conn : Receive(c) \/ HostClose(c)) \/ AdmitTrap \/ GiveUp
    BY <2>1, QuietHostAnswers
  <2>2. CASE OnUplink \/ Attach
    BY <2>2, OnUplinkAnswers, AttachAnswers
  <2>3. CASE EndTick \/ ApplyTrap
    BY <2>3, EndTickAnswers, ApplyTrapAnswers
  <2>4. CASE Recover
    BY <2>4, RecoverAnswers
  <2>5. ASSUME NEW n \in 0 .. Len(log), Restart(n) PROVE AnswerInv'
    BY <2>5, RestartAnswers
  <2> QED
    BY <1>3, <2>1, <2>2, <2>3, <2>4, <2>5 DEF HostStep
<1> QED
  BY <1>1, <1>2, <1>3 DEF Next

(* What an outcome says is so wherever it is, what is skipped has trapped,   *)
(* and a page uses a number once.                                          *)
THEOREM ActionsAnswered == Spec => []AnswerInv
<1>1. Init => AnswerInv
  BY InitAnswers
<1>2. IndInv /\ AnswerInv /\ [Next]_vars => AnswerInv'
  BY StepAnswers
<1> QED
  BY <1>1, <1>2, ActionsInvariant, PTL DEF Spec

(* onActionResult tells no lie: a Confirmed action has run and is in the     *)
(* world unless a crash took it, and an EngineFault goes to an action that *)
(* trapped and is not in the world (the results of sim_tick, and the skips *)
(* SimHost.recover writes and answers).                                    *)
THEOREM ActionsOutcomeTrue == Spec => []OutcomeTrue
<1>1. AnswerInv => OutcomeTrue
  <2> SUFFICES ASSUME AnswerInv, NEW p \in Page, NEW o \in told[p]
               PROVE  /\ o.what = "done" => o.of \in RanActs \union taken
                      /\ o.what = "fault" => o.of \in trapped \ RanActs
    BY DEF OutcomeTrue
  <2>1. Holds(o)
    BY DEF AnswerInv, AnswersHold, ToldTrue
  <2>2. \A a \in RanActs : a.kind # "applyTrap"
    BY DEF RanActs, Poisoned
  <2> QED
    BY <2>1, <2>2 DEF Holds
<1> QED
  BY <1>1, ActionsAnswered, PTL

(* The frame that confirms an action takes it out of the prediction of its   *)
(* page, and nothing puts it back: the ack of a frame covers its results    *)
(* (sim_build_frame), and dispatch never uses a number again.              *)
THEOREM ActionsConfirmedLeavePending == Spec => []ConfirmedLeavesPending
<1>1. AnswerInv => ConfirmedLeavesPending
  BY DEF AnswerInv
<1> QED
  BY <1>1, ActionsAnswered, PTL
=============================================================================
