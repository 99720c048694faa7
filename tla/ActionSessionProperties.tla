---------------------- MODULE ActionSessionProperties ----------------------
(***************************************************************************)
(* What the client and the host owe a player for an action, and the         *)
(* invariant the proofs of ActionSessionProofs rest on.                     *)
(***************************************************************************)
EXTENDS ActionSession

Acks == 0 .. MaxSeq

Message ==
       [type : {"hello", "bye"}]
  \union [type : {"batch"}, acts : SUBSET Action]
  \union [type : {"welcome"}, ack : Acks]
  \union [type : {"frame"}, ack : Acks, results : SUBSET Outcome]

Call ==
       [call : {"none", "tick"}]
  \union [call : {"uplink"}, conn : Conn, acts : SUBSET Action]

Entry == [act : Action, frame : Nat]

ClientTypeOK ==
  /\ phase \in [Page -> {"unborn", "waiting", "online", "stopped"}]
  /\ nextSeq \in [Page -> 0 .. MaxSeq + 1]
  /\ {ackWord, welcomeAck, handed} \subseteq [Page -> Acks]
  /\ {outbox, pending} \subseteq [Page -> SUBSET Action]
  /\ told \in [Page -> SUBSET Outcome]
  /\ sent \in SUBSET Action

HostTypeOK ==
  /\ shape \in {"worker", "server"}
  /\ st \in [Conn -> {"unused", "garbage", "awaiting", "settled", "closed"}]
  /\ slot \in [Conn -> [on : BOOLEAN, floor : Acks, first : BOOLEAN,
                        results : SUBSET Outcome]]
  /\ queue \in Seq(Conn)
  /\ busy \in Call
  /\ mode \in {"up", "trapped", "fatal"}
  /\ records \in Seq(Action)
  /\ lastSeq \in Acks
  /\ log \in Seq(Entry)
  /\ skipped \subseteq 1 .. Len(log)
  /\ {owed, taken, trapped} \subseteq SUBSET Action

LinkTypeOK ==
  /\ link \in [Page -> Conn \union {0}]
  /\ {up, down} \subseteq [Conn -> Seq(Message)]
  /\ recoveries \in 0 .. RECOVERY_LOOP_LIMIT
  /\ faults \in 0 .. MaxFaults

TypeOK == ClientTypeOK /\ HostTypeOK /\ LinkTypeOK
-----------------------------------------------------------------------------
(* The inductive invariant, part by part. *)

(* A player has one settled connection, and the host has a slot for it. *)
OneSettled ==
  \A c, d \in Conn :
    st[c] = "settled" => slot[c].on /\ (st[d] = "settled" => c = d)

(* on_uplink runs for the settled connection only. *)
UplinkSettled ==
  busy.call = "uplink" => st[busy.conn] = "settled" /\ busy.acts # {}

(* A log in which what is not skipped is older than what comes later. *)
OrderedLog(l, skips) ==
  \A i, j \in DOMAIN l :
    /\ i <= j => l[i].frame <= l[j].frame
    /\ i < j /\ i \notin skips => l[i].act.seq < l[j].act.seq

LogOrdered == OrderedLog(log, skipped)

(* Admitted records are in order, and newer than what ran. *)
RecordsOrdered ==
  \A j \in DOMAIN records :
    /\ \A i \in DOMAIN records : i < j => records[i].seq < records[j].seq
    /\ \A i \in DOMAIN log \ skipped : log[i].act.seq < records[j].seq

(* The two floors of on_uplink between them: the world's covers what ran,    *)
(* the connection's what it has had admitted since.                        *)
FloorHolds ==
  /\ mode = "up" =>
       /\ \A i \in DOMAIN log \ skipped : log[i].act.seq <= lastSeq
       /\ \A j \in DOMAIN records : lastSeq < records[j].seq
  /\ mode = "up" /\ busy.call # "tick" =>
       \A c \in Conn, j \in DOMAIN records :
         st[c] = "settled" => records[j].seq <= Floor(c)
  /\ mode # "up" => records = << >> /\ busy = Idle

(* Nothing reaches the host that no page dispatched. *)
BatchesSent ==
  \A c \in Conn : \A i \in DOMAIN up[c] :
    up[c][i].type = "batch" => up[c][i].acts # {} /\ up[c][i].acts \subseteq sent

FromPages ==
  /\ \A p \in Page : outbox[p] \union pending[p] \subseteq sent
  /\ BatchesSent
  /\ busy.call = "uplink" => busy.acts \subseteq sent
  /\ \A i \in DOMAIN records : records[i] \in sent
  /\ \A i \in DOMAIN log : log[i].act \in sent

(* A page that may dispatch has its first number. *)
SeedTaken == \A p \in Page : phase[p] = "online" => nextSeq[p] # 0

IndInv ==
  /\ TypeOK
  /\ SeedTaken
  /\ OneSettled
  /\ UplinkSettled
  /\ LogOrdered
  /\ RecordsOrdered
  /\ FloorHolds
  /\ FromPages
-----------------------------------------------------------------------------
(* What ran: the log without its skipped positions, nor a record that traps *)
(* whose Skip the recovery has still to write.                             *)
Ran == {<< i, log[i].act >> : i \in DOMAIN log \ (skipped \union Poisoned(log))}

RanActs == {log[i].act : i \in DOMAIN log \ (skipped \union Poisoned(log))}

(* What an outcome says is so, wherever it is: at the host, in a frame on   *)
(* its way, or with the page.                                              *)
Holds(o) ==
  /\ o.what = "done" => o.of \in RanActs \union taken
  /\ o.what = "fault" => o.of \in trapped /\ o.of.kind = "applyTrap"

ToldTrue == \A p \in Page : \A o \in told[p] : Holds(o)

(* A tick sends the results of what it ran at once. *)
ResultsTrue ==
  \A c \in Conn : \A o \in slot[c].results : Holds(o) /\ o.what # "done"

FrameTrue(m) ==
  m.type = "frame" => \A o \in m.results :
    Holds(o) /\ (o.what = "done" => o.of.seq <= m.ack)

FramesTrue == \A c \in Conn : \A i \in DOMAIN down[c] : FrameTrue(down[c][i])

AnswersHold == ToldTrue /\ ResultsTrue /\ FramesTrue

(* What is skipped, or will be, has trapped. *)
SkippedTrapped ==
  /\ skipped \subseteq Poisoned(log)
  /\ \A i \in Poisoned(log) : log[i].act \in trapped
  /\ \A a \in owed : a \in trapped /\ a.kind = "applyTrap"

(* A page uses a number once. *)
NumbersSpent == taken \subseteq sent /\ \A a \in sent : a.seq < nextSeq[a.page]

(* An action runs at most once, and in the order of its number, whatever is *)
(* resent, replayed or taken over by another page: the floors of on_uplink *)
(* and the last_seq of the Store (host/mod.rs, store/mod.rs).              *)
AppliedOnceInOrder ==
  \A i, j \in DOMAIN log \ skipped :
    i < j => log[i].act.seq < log[j].act.seq

(* What onActionResult is told is so: a Confirmed action has run, and is in *)
(* the world unless a crash took it; an EngineFault goes to an action that  *)
(* trapped and has not run.                                                *)
OutcomeTrue ==
  \A p \in Page : \A o \in told[p] :
    /\ o.what = "done" => o.of \in RanActs \union taken
    /\ o.what = "fault" => o.of \in trapped \ RanActs

(* A Confirmed action leaves the prediction with the frame that confirms it *)
(* and does not come back: the results of a tick ride with an ack that      *)
(* covers them, and no later Welcome resends them.                         *)
ConfirmedLeavesPending ==
  \A p \in Page : \A o \in told[p] : o.what = "done" => o.of \notin pending[p]

AnswerInv == AnswersHold /\ SkippedTrapped /\ NumbersSpent /\ ConfirmedLeavesPending

(* Each action a page dispatched is pending or has had an outcome           *)
(* (docs/architecture/client-api.md:23).                                   *)
EveryActionAnswered ==
  \A a \in sent :
    a \in pending[a.page] \/ \E o \in told[a.page] : o.seq = a.seq
-----------------------------------------------------------------------------
(* The thread of a page and the thread of the host run: a message that is    *)
(* there is read, a tick comes, a digest ends.  No fault has to happen.     *)
PageWork(p) == Dial(p) \/ PollUplink(p) \/ ReadDown(p) \/ NoticeClose(p)

HostWork ==
  \/ \E c \in Conn : Receive(c)
  \/ OnUplink \/ AdmitTrap
  \/ Attach \/ EndTick \/ ApplyTrap
  \/ Recover \/ GiveUp

Fairness == WF_vars(HostWork) /\ \A p \in Page : WF_vars(PageWork(p))

FairSpec == Spec /\ Fairness

(* There is nobody left to ask: the player is on another page, the host has *)
(* stopped, or the connections of the model are used up.                   *)
Over(p) ==
  \/ phase[p] = "stopped"
  \/ mode = "fatal"
  \/ link[p] = 0 /\ \A c \in Conn : st[c] # "unused"

(* What a page waits for.  A refused action stays pending until a later one *)
(* is acked (ADR 0064); one whose number the player's other page has used   *)
(* is a duplicate to the host (see EveryActionAnswered).                   *)
Awaited(p) ==
  {a \in pending[p] :
     /\ \A o \in told[p] : o.what = "refused" => o.seq # a.seq
     /\ \A b \in sent : b.seq = a.seq => b.page = p}

(* An action does not stay pending: however often its batch is lost it is    *)
(* sent again, until the host has run or skipped it.                       *)
PendingDrains == []<>(\A p \in Page : Over(p) \/ Awaited(p) = {})

(* A trap in G::admit answers the action (ADR 0065:13). *)
AdmitTrapAnswered ==
  \A p \in Page, n \in Seqs :
    (\E a \in trapped : a.page = p /\ a.seq = n /\ a.kind = "admitTrap")
      ~> (\E o \in told[p] : o.seq = n)

(* The sessions implement the abstract promise. *)
Promise == INSTANCE AtMostOnce WITH ran <- Ran

ImplementsAtMostOnce == Promise!Spec
=============================================================================
