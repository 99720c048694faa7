--------------------------- MODULE ActionSession ---------------------------
(***************************************************************************)
(* One player's actions, from dispatch on a page to the world and back:    *)
(* the client instance (client/core.rs, predict/pending.rs) behind its net *)
(* pump (worker/client-net.ts), a link, and the host (host/mod.rs) under   *)
(* the tick procedure and the handshake of server.ts.                      *)
(*                                                                         *)
(* Two deployments: a "worker" host, one page joined to it by a ring pair, *)
(* which recovers from a trap in the simulation; and a "server", reached   *)
(* by connections that come and go, which a crash may restart.             *)
(*                                                                         *)
(* A client hands out sequence numbers in increasing order, so its outbox, *)
(* its pending queue and a batch are sets here: their order is that of seq.*)
(***************************************************************************)
EXTENDS Integers, Sequences, FiniteSets

CONSTANTS
  Page,                 \* the pages of the player: tabs, or one reloaded
  FirstPage,            \* the one that is open at the start
  MaxConn,              \* bound: connections dialled
  MaxSeq,               \* bound: the actions dispatched
  OUTBOX_CAPACITY,      \* actions unacked at once
  RECOVERY_LOOP_LIMIT,  \* recoveries without enough good ticks in between
  Shapes,               \* the deployments a run looks at
  WorkerKinds,          \* the kinds of action a worker's player dispatches
  MaxFaults             \* bound: links cut, connections closed, client
                        \* instances trapped and host processes lost

Conn == 1 .. MaxConn
Seqs == 1 .. MaxSeq

(* A plain action runs, a limited one may be refused, the others trap: in   *)
(* G::admit or in G::apply.                                                *)
Kind == {"plain", "limited", "admitTrap", "applyTrap"}

ASSUME ConstantsOK ==
  /\ {MaxConn, MaxSeq, OUTBOX_CAPACITY} \subseteq Nat \ {0}
  /\ {RECOVERY_LOOP_LIMIT, MaxFaults} \subseteq Nat
  /\ FirstPage \in Page
  /\ Shapes \subseteq {"worker", "server"}
  /\ WorkerKinds \subseteq Kind

(* done is what G::apply returned, Confirmed or a game's Rejected; refused    *)
(* is a rejection before the log; fault is EngineFault.                    *)
Action  == [page : Page, seq : Seqs, kind : Kind]
Outcome == [seq : Seqs, what : {"done", "refused", "fault", "lost"}, of : Action]

VARIABLES
  shape,       \* the deployment
  phase,       \* page -> unborn, waiting for a Welcome, online, stopped
  nextSeq,     \* page -> the next seq main hands out, 0 before the seed
  ackWord,     \* page -> the clock block's ackSeq: the last frame's ack
  welcomeAck,  \* page -> lastWelcomeAck of the net pump
  handed,      \* page -> lastSeq of the action pump, 0 before the first
  outbox,      \* page -> what the next poll_uplink sends
  pending,     \* page -> PendingQueue
  told,        \* page -> the outcomes onActionResult was called with
  link,        \* page -> its connection, 0 when down
  up, down,    \* conn -> the messages in flight, either way
  st,          \* conn -> where its handshake is
  slot,        \* conn -> the host's ConnSlot
  queue,       \* attachQueue
  busy,        \* the synchronous call the host thread is in
  mode,        \* up, trapped, fatal
  records,     \* pending_records
  lastSeq,     \* Store::last_seq of the player
  owed,        \* pending_fault_acks: skipped actions nobody was told of
  log,         \* the action log: what was logged and the frame it is in
  skipped,     \* the positions of the log that have a Skip record
  recoveries,  \* recoveryCount
  sent,        \* history: every action dispatched
  taken,       \* history: logged actions a crash took
  trapped,     \* history: actions that have trapped the host
  faults       \* the environment's faults so far

client == << phase, nextSeq, ackWord, welcomeAck, handed, outbox, pending, told >>
net    == << link, up, down >>
sim    == << records, lastSeq, slot, owed >>
disk   == << log, skipped >>
ghost  == << sent, taken, trapped >>
vars   == << shape, client, net, st, queue, busy, mode, sim, disk, recoveries,
             ghost, faults >>
-----------------------------------------------------------------------------
Idle == [call |-> "none"]

NoSlot == [on |-> FALSE, floor |-> 0, first |-> FALSE, results |-> {}]

FreshSlot(results) ==
  [on |-> TRUE, floor |-> 0, first |-> TRUE, results |-> results]

Hello        == [type |-> "hello"]
Batch(acts)  == [type |-> "batch", acts |-> acts]
Welcome(ack) == [type |-> "welcome", ack |-> ack]
Frame(ack, results) == [type |-> "frame", ack |-> ack, results |-> results]
Bye          == [type |-> "bye"]

Larger(m, n) == IF m > n THEN m ELSE n

Says(what, acts) == {[seq |-> a.seq, what |-> what, of |-> a] : a \in acts}

(* Nobody can reach these states of a connection again. *)
Gone == {"unused", "closed"}

Init ==
  /\ shape \in Shapes
  /\ phase = [p \in Page |-> IF p = FirstPage THEN "waiting" ELSE "unborn"]
  /\ nextSeq = [p \in Page |-> 0]
  /\ ackWord = [p \in Page |-> 0]
  /\ welcomeAck = [p \in Page |-> 0]
  /\ handed = [p \in Page |-> 0]
  /\ outbox = [p \in Page |-> {}]
  /\ pending = [p \in Page |-> {}]
  /\ told = [p \in Page |-> {}]
  /\ link = [p \in Page |-> 0]
  /\ up = [c \in Conn |-> << >>]
  /\ down = [c \in Conn |-> << >>]
  /\ st = [c \in Conn |-> "unused"]
  /\ slot = [c \in Conn |-> NoSlot]
  /\ queue = << >>
  /\ busy = Idle
  /\ mode = "up"
  /\ records = << >>
  /\ lastSeq = 0
  /\ owed = {}
  /\ log = << >>
  /\ skipped = {}
  /\ recoveries = 0
  /\ sent = {}
  /\ taken = {}
  /\ trapped = {}
  /\ faults = 0
-----------------------------------------------------------------------------
(* The page and its client instance. *)

(* A second tab, or the page reloaded: the same player secret. *)
OpenPage(p) ==
  /\ shape = "server"
  /\ phase[p] = "unborn"
  /\ phase' = [phase EXCEPT ![p] = "waiting"]
  /\ UNCHANGED << shape, nextSeq, ackWord, welcomeAck, handed, outbox, pending,
                  told, net, st, queue, busy, mode, sim, disk, recoveries,
                  ghost, faults >>

(* A link comes up and its first message is client_hello(); what the uplink *)
(* ring still held goes before it, to a connection that takes only a Hello. *)
Dial(p) ==
  /\ phase[p] \in {"waiting", "online"}
  /\ link[p] = 0
  /\ shape = "worker" => st[1] = "unused"
  /\ \E c \in Conn :
       /\ st[c] = "unused"
       /\ \A d \in Conn : d < c => st[d] # "unused"
       /\ link' = [link EXCEPT ![p] = c]
       /\ st' = [st EXCEPT ![c] = "garbage"]
       /\ up' = [up EXCEPT ![c] = << Hello >>]
  /\ UNCHANGED << shape, client, down, queue, busy, mode, sim, disk, recoveries,
                  ghost, faults >>

(* dispatch, and the on_action it leads to: refused before the first        *)
(* Welcome and while too many actions are unacked, and not while a link is *)
(* down or a Hello of a reconnect is unanswered.  An action that finds the  *)
(* pending queue full is dropped, and its number with it.                  *)
Dispatch(p, kind) ==
  LET a == [page |-> p, seq |-> nextSeq[p], kind |-> kind]
      room == Cardinality(pending[p]) < OUTBOX_CAPACITY
      queued == IF room THEN {a} ELSE {}
  IN  /\ phase[p] = "online"
      /\ nextSeq[p] <= MaxSeq
      /\ Cardinality(sent) < MaxSeq
      /\ nextSeq[p] - ackWord[p] <= OUTBOX_CAPACITY
      /\ outbox' = [outbox EXCEPT ![p] = @ \union queued]
      /\ pending' = [pending EXCEPT ![p] = @ \union queued]
      /\ sent' = sent \union {a}
      /\ nextSeq' = [nextSeq EXCEPT ![p] = @ + 1]
      /\ handed' = [handed EXCEPT ![p] = nextSeq[p]]
      /\ UNCHANGED << shape, phase, ackWord, welcomeAck, told, net, st, queue,
                      busy, mode, sim, disk, recoveries, taken, trapped, faults >>

(* poll_uplink: all of the outbox in one batch, and the outbox is empty     *)
(* whether or not anybody is there to receive it.                          *)
PollUplink(p) ==
  /\ phase[p] = "online"
  /\ outbox[p] # {}
  /\ outbox' = [outbox EXCEPT ![p] = {}]
  /\ up' = IF link[p] # 0 /\ st[link[p]] \notin Gone
             THEN [up EXCEPT ![link[p]] = Append(@, Batch(outbox[p]))]
             ELSE up
  /\ UNCHANGED << shape, phase, nextSeq, ackWord, welcomeAck, handed, pending,
                  told, link, down, st, queue, busy, mode, sim, disk, recoveries,
                  ghost, faults >>

(* What an ack covers, and what it leaves; a mutant that leaves its own seq. *)
UnackedInclusive(acts, ack) == {a \in acts : a.seq >= ack}

Acked(acts, ack) == {a \in acts : a.seq <= ack}

Unacked(acts, ack) == {a \in acts : a.seq > ack}

(* resend_after_welcome: what is still pending; a mutant that sends nothing. *)
ResendNothing(acts, ack) == {}

Resend(acts, ack) == Unacked(acts, ack)

(* client_on_welcome: what the host has processed is Lost, the rest is sent *)
(* again.  main takes its seed from the first one only.                    *)
OnWelcome(p, ack) ==
  /\ phase' = [phase EXCEPT ![p] = "online"]
  /\ nextSeq' = [nextSeq EXCEPT ![p] = IF @ = 0 THEN ack + 1 ELSE @]
  /\ welcomeAck' = [welcomeAck EXCEPT ![p] = ack]
  /\ told' = [told EXCEPT ![p] = @ \union Says("lost", Acked(pending[p], ack))]
  /\ pending' = [pending EXCEPT ![p] = Unacked(@, ack)]
  /\ outbox' = [outbox EXCEPT ![p] = Resend(pending[p], ack)]
  /\ UNCHANGED << ackWord, handed >>

(* on_frame: its results are passed on, what it acks is no longer pending.  *)
OnFrame(p, ack, results) ==
  /\ told' = [told EXCEPT ![p] = @ \union results]
  /\ pending' = [pending EXCEPT ![p] = Unacked(@, ack)]
  /\ ackWord' = [ackWord EXCEPT ![p] = ack]
  /\ UNCHANGED << phase, nextSeq, welcomeAck, handed, outbox >>

(* One message of the downlink.  Before a Welcome anything else is dropped; *)
(* a Bye says the player is on another page, and this one stays away.      *)
ReadDown(p) ==
  LET c == link[p]
      m == Head(down[c])
  IN  /\ phase[p] \in {"waiting", "online"}
      /\ c # 0
      /\ down[c] # << >>
      /\ down' = [down EXCEPT ![c] = Tail(@)]
      /\ \/ /\ m.type = "welcome"
            /\ OnWelcome(p, m.ack)
            /\ UNCHANGED link
         \/ /\ m.type = "frame"
            /\ phase[p] = "online"
            /\ OnFrame(p, m.ack, m.results)
            /\ UNCHANGED link
         \/ /\ m.type = "frame"
            /\ phase[p] = "waiting"
            /\ UNCHANGED << client, link >>
         \/ /\ m.type = "bye"
            /\ phase' = [phase EXCEPT ![p] = "stopped"]
            /\ link' = [link EXCEPT ![p] = 0]
            /\ UNCHANGED << nextSeq, ackWord, welcomeAck, handed, outbox, pending,
                            told >>
      /\ UNCHANGED << shape, up, st, queue, busy, mode, sim, disk, recoveries,
                      ghost, faults >>

(* The client instance traps: what it had not resolved is reported Lost, a  *)
(* new instance takes its place and says Hello on the link that is there.  *)
ClientTrap(p) ==
  /\ faults < MaxFaults
  /\ phase[p] \in {"waiting", "online"}
  /\ LET from == Larger(ackWord[p], welcomeAck[p])
         lost == {a \in sent : a.page = p /\ a.seq > from /\ a.seq <= handed[p]}
     IN  told' = [told EXCEPT ![p] = @ \union Says("lost", lost)]
  /\ phase' = [phase EXCEPT ![p] = "waiting"]
  /\ ackWord' = [ackWord EXCEPT ![p] = 0]
  /\ welcomeAck' = [welcomeAck EXCEPT ![p] = 0]
  /\ handed' = [handed EXCEPT ![p] = 0]
  /\ outbox' = [outbox EXCEPT ![p] = {}]
  /\ pending' = [pending EXCEPT ![p] = {}]
  /\ up' = IF link[p] # 0 /\ st[link[p]] \notin Gone
             THEN [up EXCEPT ![link[p]] = Append(@, Hello)]
             ELSE up
  /\ faults' = faults + 1
  /\ UNCHANGED << shape, nextSeq, link, down, st, queue, busy, mode, sim, disk,
                  recoveries, ghost >>

(* The link dies under the page; what the page had sent may still arrive.   *)
CutLink(p) ==
  /\ shape = "server"
  /\ faults < MaxFaults
  /\ link[p] # 0
  /\ link' = [link EXCEPT ![p] = 0]
  /\ down' = [down EXCEPT ![link[p]] = << >>]
  /\ faults' = faults + 1
  /\ UNCHANGED << shape, client, up, st, queue, busy, mode, sim, disk, recoveries,
                  ghost >>

(* The page learns that the host closed its connection, after what was sent *)
(* before the close.                                                       *)
NoticeClose(p) ==
  /\ link[p] # 0
  /\ st[link[p]] = "closed"
  /\ down[link[p]] = << >>
  /\ link' = [link EXCEPT ![p] = 0]
  /\ UNCHANGED << shape, client, up, down, st, queue, busy, mode, sim, disk,
                  recoveries, ghost, faults >>
-----------------------------------------------------------------------------
(* The host: what a connection delivers. *)

HostFree == mode = "up" /\ busy = Idle

(* The close of a connection: the slot goes at once, admitted records stay. *)
HostClose(c) ==
  /\ shape = "server"
  /\ HostFree
  /\ faults < MaxFaults
  /\ st[c] \notin Gone
  /\ st' = [st EXCEPT ![c] = "closed"]
  /\ slot' = [slot EXCEPT ![c] = NoSlot]
  /\ up' = [up EXCEPT ![c] = << >>]
  /\ faults' = faults + 1
  /\ UNCHANGED << shape, client, link, down, queue, busy, mode, records, lastSeq,
                  owed, disk, recoveries, ghost >>

(* A Hello: the first one queues the connection for an attach, one on a      *)
(* settled connection restarts it (reopenOnHello), any other is ignored.    *)
ReceiveHello(c) ==
  /\ Head(up[c]).type = "hello"
  /\ IF st[c] \in {"garbage", "settled"}
       THEN /\ st' = [st EXCEPT ![c] = "awaiting"]
            /\ slot' = [slot EXCEPT ![c] = IF st[c] = "settled" THEN NoSlot ELSE @]
            /\ queue' = Append(queue, c)
       ELSE UNCHANGED << st, slot, queue >>
  /\ UNCHANGED busy

(* A batch: admitted from a settled connection, dropped from any other. *)
ReceiveBatch(c) ==
  /\ Head(up[c]).type = "batch"
  /\ busy' = IF st[c] = "settled"
               THEN [call |-> "uplink", conn |-> c, acts |-> Head(up[c]).acts]
               ELSE busy
  /\ UNCHANGED << st, slot, queue >>

Receive(c) ==
  /\ HostFree
  /\ st[c] \notin Gone
  /\ up[c] # << >>
  /\ up' = [up EXCEPT ![c] = Tail(@)]
  /\ ReceiveHello(c) \/ ReceiveBatch(c)
  /\ UNCHANGED << shape, client, link, down, mode, records, lastSeq, owed, disk,
                  recoveries, ghost, faults >>

(* on_uplink's floor: the highest seq this connection had admitted, or the  *)
(* player's last processed one.  Mutants with one of the two only.         *)
FloorOfSlot(c) == slot[c].floor

FloorOfStore(c) == lastSeq

Floor(c) == Larger(slot[c].floor, lastSeq)

First(acts) == CHOOSE a \in acts : \A b \in acts : a.seq <= b.seq

Rest(call) ==
  LET left == call.acts \ {First(call.acts)} IN
    IF left = {} THEN Idle ELSE [call EXCEPT !.acts = left]

Admitting == mode = "up" /\ busy.call = "uplink"

Duplicate(c, a) ==
  /\ a.seq <= Floor(c)
  /\ UNCHANGED << slot, records >>

(* The rate limit or G::admit says no: not logged, the floor stays. *)
Refuse(c, a) ==
  /\ a.seq > Floor(c)
  /\ a.kind = "limited"
  /\ slot' = [slot EXCEPT ![c].results = @ \union Says("refused", {a})]
  /\ UNCHANGED records

Admit(c, a) ==
  /\ a.seq > Floor(c)
  /\ a.kind # "admitTrap"
  /\ slot' = [slot EXCEPT ![c].floor = a.seq]
  /\ records' = Append(records, a)

(* One action of the batch on_uplink is in. *)
OnUplink ==
  /\ Admitting
  /\ LET c == busy.conn
         a == First(busy.acts)
     IN  Duplicate(c, a) \/ Refuse(c, a) \/ Admit(c, a)
  /\ busy' = Rest(busy)
  /\ UNCHANGED << shape, client, net, st, queue, mode, lastSeq, owed, disk,
                  recoveries, ghost, faults >>

(* G::admit traps: the instance is dead, and its pending records with it.   *)
(* The handler pumpHandshakes installs (server.ts 893-910) does not set     *)
(* inFlightAdmitConn, so the recovery does not know whom to answer.        *)
AdmitTrap ==
  LET a == First(busy.acts) IN
  /\ Admitting
  /\ a.seq > Floor(busy.conn)
  /\ a.kind = "admitTrap"
  /\ mode' = "trapped"
  /\ trapped' = trapped \union {a}
  /\ busy' = Idle
  /\ records' = << >>
  /\ UNCHANGED << shape, client, net, st, queue, lastSeq, slot, owed, disk,
                  recoveries, sent, taken, faults >>
-----------------------------------------------------------------------------
(* The host: one tick. *)

InTick == mode = "up" /\ busy.call \in {"none", "tick"}

(* pumpHandshakes, one entry: the newest connection of a player wins, the   *)
(* one it had is told so and closed.                                       *)
Attach ==
  LET c == Head(queue)
      old == {d \in Conn \ {c} : slot[d].on}
  IN  /\ InTick
      /\ busy' = [call |-> "tick"]
      /\ queue # << >>
      /\ queue' = Tail(queue)
      /\ IF st[c] = "awaiting"
           THEN /\ slot' = [d \in Conn |-> IF d = c THEN FreshSlot(Says("fault", owed))
                                           ELSE NoSlot]
                /\ owed' = {}
                /\ st' = [d \in Conn |-> IF d = c THEN "settled"
                                         ELSE IF d \in old THEN "closed"
                                         ELSE st[d]]
                /\ down' = [d \in Conn |->
                              IF d = c THEN Append(down[d], Welcome(lastSeq))
                              ELSE IF d \in old THEN Append(down[d], Bye)
                              ELSE down[d]]
                /\ up' = [d \in Conn |-> IF d \in old THEN << >> ELSE up[d]]
           ELSE UNCHANGED << slot, owed, st, down, up >>
      /\ UNCHANGED << shape, client, link, mode, records, lastSeq, disk,
                      recoveries, ghost, faults >>

NextFrame(l) == IF l = << >> THEN 1 ELSE l[Len(l)].frame + 1

(* sim_seal_frame and logSink: the pending records become one log frame. *)
Sealed ==
  log \o [i \in 1 .. Len(records) |-> [act |-> records[i], frame |-> NextFrame(log)]]

RecordSet == {records[i] : i \in 1 .. Len(records)}

(* simBuildFrame: results or a first frame owed.  Other frames say nothing  *)
(* about actions and are left out.                                         *)
Owes(s) == s.on /\ (s.first \/ s.results # {})

(* seal, log, sim_tick, then a frame to each connection that is owed one.   *)
EndTick ==
  LET outcomes == Says("done", RecordSet)
      ack == IF records = << >> THEN lastSeq ELSE records[Len(records)].seq
      filled == [c \in Conn |->
                   IF slot[c].on THEN [slot[c] EXCEPT !.results = @ \union outcomes]
                   ELSE slot[c]]
  IN  /\ InTick
      /\ busy' = Idle
      /\ \A a \in RecordSet : a.kind # "applyTrap"
      /\ log' = Sealed
      /\ lastSeq' = ack
      /\ records' = << >>
      /\ down' = [c \in Conn |->
                    IF Owes(filled[c])
                      THEN Append(down[c], Frame(ack, filled[c].results))
                      ELSE down[c]]
      /\ slot' = [c \in Conn |->
                    IF Owes(filled[c])
                      THEN [filled[c] EXCEPT !.results = {}, !.first = FALSE]
                      ELSE filled[c]]
      /\ UNCHANGED << shape, client, link, up, st, queue, mode, owed, skipped,
                      recoveries, ghost, faults >>

(* The frame is logged and then a record of it traps. *)
ApplyTrap ==
  /\ InTick
  /\ \E a \in RecordSet : a.kind = "applyTrap"
  /\ log' = Sealed
  /\ mode' = "trapped"
  /\ trapped' = trapped \union {a \in RecordSet : a.kind = "applyTrap"}
  /\ busy' = Idle
  /\ records' = << >>
  /\ UNCHANGED << shape, client, net, st, queue, lastSeq, slot, owed, skipped,
                  recoveries, sent, taken, faults >>
-----------------------------------------------------------------------------
(* The host: recovery from a trap, and a new process. *)

(* The last seq a replay leaves: sim_replay_push acks the skipped records   *)
(* of a frame first and then steps the others, each of which acks itself.  *)
(* A mutant whose replay acks nothing.                                     *)
ReplayedNothing(l, skips) == 0

ReplayedSeq(l, skips) ==
  LET last == {i \in 1 .. Len(l) : l[i].frame = l[Len(l)].frame}
      run  == last \ skips
      top(S) == CHOOSE i \in S : \A j \in S : j <= i
  IN  IF l = << >> THEN 0
      ELSE IF run # {} THEN l[top(run)].act.seq
      ELSE l[top(last)].act.seq

(* The records that trap when they are replayed; a mutant that takes every   *)
(* record of their frames.                                                 *)
PoisonedFrames(l) ==
  {i \in 1 .. Len(l) : \E j \in 1 .. Len(l) :
     l[j].frame = l[i].frame /\ l[j].act.kind = "applyTrap"}

Poisoned(l) == {i \in 1 .. Len(l) : l[i].act.kind = "applyTrap"}

(* SimHost.recover: replay, a Skip for each record that traps again, the    *)
(* connections reattached with the EngineFaults of the skipped records,    *)
(* and a Welcome to each.                                                  *)
Recover ==
  LET skips  == skipped \union Poisoned(log)
      seq    == ReplayedSeq(log, skips)
      faulted == {log[i].act : i \in skips}
      open   == {c \in Conn : st[c] \notin Gone}
  IN  /\ mode = "trapped"
      /\ recoveries < RECOVERY_LOOP_LIMIT
      /\ recoveries' = recoveries + 1
      /\ mode' = "up"
      /\ skipped' = skips
      /\ lastSeq' = seq
      /\ slot' = [c \in Conn |-> IF c \in open THEN FreshSlot(Says("fault", faulted))
                                ELSE NoSlot]
      /\ owed' = IF open = {} THEN faulted ELSE {}
      /\ down' = [c \in Conn |-> IF c \in open THEN Append(down[c], Welcome(seq))
                                 ELSE down[c]]
      /\ UNCHANGED << shape, client, link, up, st, queue, busy, records, log, ghost, faults >>

(* The loop guard.  The RECOVERY_GOOD_TICKS_RESET ticks that would forgive a *)
(* recovery do not pass in the model: a resend follows its Welcome at once.*)
GiveUp ==
  /\ mode = "trapped"
  /\ recoveries >= RECOVERY_LOOP_LIMIT
  /\ mode' = "fatal"
  /\ UNCHANGED << shape, client, net, st, queue, busy, sim, disk, recoveries,
                  ghost, faults >>

(* A log is cut between frames: replay drops a torn one whole. *)
Boundary(n) == n \in 1 .. Len(log) - 1 => log[n].frame # log[n + 1].frame

(* The process dies and another loads the world.  A server's crash may cut  *)
(* its log past the last sync, and ends its connections; a sim worker's    *)
(* death costs nothing logged, and its page says Hello on the same rings.  *)
Restart(n) ==
  /\ mode = "up"
  /\ faults < MaxFaults
  /\ n \in 0 .. Len(log)
  /\ IF shape = "server" THEN Boundary(n) ELSE n = Len(log)
  /\ log' = SubSeq(log, 1, n)
  /\ skipped' = skipped \cap (1 .. n)
  /\ taken' = taken \union {log[i].act : i \in n + 1 .. Len(log)}
  /\ lastSeq' = ReplayedSeq(log', skipped')
  /\ owed' = {log[i].act : i \in skipped'}
  /\ records' = << >>
  /\ busy' = Idle
  /\ queue' = << >>
  /\ slot' = [c \in Conn |-> NoSlot]
  /\ st' = [c \in Conn |-> IF st[c] \in Gone THEN st[c]
                           ELSE IF shape = "server" THEN "closed" ELSE "garbage"]
  /\ up' = [c \in Conn |-> IF shape = "worker" /\ st[c] \notin Gone
                             THEN Append(up[c], Hello) ELSE << >>]
  /\ recoveries' = 0
  /\ faults' = faults + 1
  /\ UNCHANGED << shape, client, link, down, mode, sent, trapped >>
-----------------------------------------------------------------------------
Kinds == IF shape = "worker" THEN WorkerKinds ELSE {"plain"}

ClientStep(p) ==
  \/ OpenPage(p) \/ Dial(p) \/ PollUplink(p) \/ ReadDown(p) \/ NoticeClose(p)
  \/ ClientTrap(p) \/ CutLink(p)
  \/ \E k \in Kinds : Dispatch(p, k)

HostStep ==
  \/ \E c \in Conn : Receive(c) \/ HostClose(c)
  \/ OnUplink \/ AdmitTrap
  \/ Attach \/ EndTick \/ ApplyTrap
  \/ Recover \/ GiveUp
  \/ \E n \in 0 .. Len(log) : Restart(n)

Next == (\E p \in Page : ClientStep(p)) \/ HostStep

Spec == Init /\ [][Next]_vars
=============================================================================
