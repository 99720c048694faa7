----------------------------- MODULE HostWorker -----------------------------
(***************************************************************************)
(* The host worker of a single-player world and the page that parks it:    *)
(* the blocking loop of worker/shell.ts, the wake word of sab/control.ts,  *)
(* the op queue of worker/sim.ts, and on the page attachHostLifecycle,     *)
(* hostWorkerLock and withHostParked of client.ts.                         *)
(*                                                                         *)
(* A worker blocked in Atomics.wait receives no message, so the page first *)
(* asks it to yield through shared words and then posts.  Each load or     *)
(* store of a shared word is a step of its own; what either thread does    *)
(* between two of them, or between two awaits, is one step.                *)
(***************************************************************************)
EXTENDS Naturals, Sequences

CONSTANTS
  MaxFlip,      \* bound: changes of the page's visibility
  MaxExport,    \* bound: calls of exportWorld
  MaxPush,      \* bound: uplink messages pushed
  MaxTrap,      \* bound: traps of the sim instance
  MaxRename     \* bound: OPFS renames a tick leaves behind

ASSUME BoundsAreNaturals ==
  {MaxFlip, MaxExport, MaxPush, MaxTrap, MaxRename} \subseteq Nat

VARIABLES
  yield,     \* W_YIELD
  parked,    \* W_PARKED
  wake,      \* W_WAKE
  uplink,    \* messages in the uplink ring
  waking,    \* the producer has pushed and not yet woken the worker
  pc,        \* where the worker's thread is
  last,      \* runBlockingLoop's last: the wake word it has seen
  chain,     \* the runAsync jobs in flight, the first one running
  inbox,     \* messages posted to the worker and not yet handled
  ops,       \* makeOpQueue's chain, the first one running
  op,        \* how far the running op is
  sim,       \* SimHost: running, paused; the instance: dead
  outbox,    \* messages posted to the page
  hidden,    \* desiredHidden
  life,      \* attachHostLifecycle's state
  lock,      \* hostWorkerLock's chain, the first job running
  job,       \* how far the running job is
  exported,  \* exportWorld calls answered
  count      \* the bounded events so far

words  == << yield, parked, wake >>
work   == << uplink, waking >>
thread == << pc, last, chain >>
queue  == << ops, op, sim >>
page   == << hidden, life, lock, job, exported >>
vars == << words, work, thread, inbox, queue, outbox, page, count >>
-----------------------------------------------------------------------------
Init ==
  /\ yield = 0
  /\ parked = 0
  /\ wake = 0
  /\ uplink = 0
  /\ waking = FALSE
  /\ pc = "body"
  /\ last = 0
  /\ chain = << >>
  /\ inbox = << >>
  /\ ops = << >>
  /\ op = "none"
  /\ sim = [running |-> TRUE, paused |-> FALSE, dead |-> FALSE]
  /\ outbox = << >>
  /\ hidden = FALSE
  /\ life = "running"
  /\ lock = << >>
  /\ job = "none"
  /\ exported = 0
  /\ count = [flip |-> 0, export |-> 0, push |-> 0, trap |-> 0, rename |-> 0]

Count(what) == count' = [count EXCEPT ![what] = @ + 1]
-----------------------------------------------------------------------------
(* The client worker pushes an uplink message and then wakes the host.     *)
Push ==
  /\ ~waking
  /\ count.push < MaxPush
  /\ uplink' = uplink + 1
  /\ waking' = TRUE
  /\ Count("push")
  /\ UNCHANGED << words, thread, inbox, queue, outbox, page >>

Wakes ==
  /\ waking
  /\ wake' = wake + 1
  /\ waking' = FALSE
  /\ UNCHANGED << yield, parked, uplink, thread, inbox, queue, outbox, page,
                  count >>
-----------------------------------------------------------------------------
(* runBlockingLoop.  A body pass drains the uplink and may run a tick.     *)
Drains == uplink' = 0

BodyPass ==
  /\ pc = "body"
  /\ ~sim.dead
  /\ Drains
  /\ pc' = "check"
  /\ UNCHANGED << words, waking, last, chain, inbox, queue, outbox, page, count >>

(* runAsync, called from inside the pass that `pass` describes: the worker *)
(* reads as parked and leaves the loop when the pass ends.  A second job   *)
(* queues behind the first and leaves nothing.                             *)
RunAsync(pass) ==
  /\ chain' = Append(chain, pass)
  /\ IF chain = << >>
     THEN /\ parked' = 1
          /\ pc' = "event"
     ELSE /\ parked' = parked
          /\ pc' = "check"

(* A tick's snapshot leaves an OPFS rename for the pass to hand on.        *)
BodyPassRenames ==
  /\ pc = "body"
  /\ ~sim.dead
  /\ sim.running
  /\ count.rename < MaxRename
  /\ Drains
  /\ RunAsync([kind |-> "rename"])
  /\ Count("rename")
  /\ UNCHANGED << yield, wake, waking, last, inbox, queue, outbox, page >>

(* A trap, or a call on an instance that trapped before, starts            *)
(* SimHost.recover, which stops the ticks until it has replayed.           *)
BodyPassTraps ==
  /\ pc = "body"
  /\ \/ /\ sim.dead
        /\ UNCHANGED count
     \/ /\ ~sim.dead
        /\ sim.running \/ uplink > 0
        /\ count.trap < MaxTrap
        /\ Count("trap")
  /\ uplink' \in 0 .. uplink
  /\ RunAsync([kind |-> "recover", resumes |-> sim.running])
  /\ sim' = [sim EXCEPT !.dead = TRUE, !.running = FALSE]
  /\ UNCHANGED << yield, wake, waking, last, inbox, ops, op, outbox, page >>

(* W_YIELD is read before every wait. *)
Checks ==
  /\ pc = "check"
  /\ pc' = IF yield = 1 THEN "parking" ELSE "wait"
  /\ UNCHANGED << words, work, last, chain, inbox, queue, outbox, page, count >>

(* The wait ends on a wake word other than the one seen, or on the tick    *)
(* timer, which is armed while the world runs.                             *)
WaitEnds ==
  /\ pc = "wait"
  /\ wake # last
  /\ pc' = "woken"
  /\ UNCHANGED << words, work, last, chain, inbox, queue, outbox, page, count >>

WaitTimesOut ==
  /\ pc = "wait"
  /\ sim.running
  /\ pc' = "woken"
  /\ UNCHANGED << words, work, last, chain, inbox, queue, outbox, page, count >>

Woken ==
  /\ pc = "woken"
  /\ last' = wake
  /\ pc' = "body"
  /\ UNCHANGED << words, work, chain, inbox, queue, outbox, page, count >>

(* The loop returns to the event loop; an op that had entered it ends.     *)
Parks ==
  /\ pc = "parking"
  /\ parked' = 1
  /\ pc' = "event"
  /\ UNCHANGED << yield, wake, work, last, chain, inbox, queue, outbox, page,
                  count >>
-----------------------------------------------------------------------------
(* Re-entry (Shell.resume and the end of a runAsync chain): the wake word  *)
(* is read before the worker publishes that it is available, and a body    *)
(* pass runs before the first wait.  The mutants start with the wait, or   *)
(* never say that the worker left.                                         *)
Observes ==
  /\ pc = "observe"
  /\ last' = wake
  /\ pc' = "unpark"
  /\ UNCHANGED << words, work, chain, inbox, queue, outbox, page, count >>

EntryWithoutDrain == "check"

Entry == "body"

UnparksUnsaid ==
  /\ pc = "unpark"
  /\ pc' = Entry
  /\ UNCHANGED << words, work, last, chain, inbox, queue, outbox, page, count >>

Unparks ==
  /\ pc = "unpark"
  /\ parked' = 0
  /\ pc' = Entry
  /\ UNCHANGED << yield, wake, work, last, chain, inbox, queue, outbox, page,
                  count >>

(* Shell.resume stores W_YIELD and leaves a chain in flight to re-enter    *)
(* the loop by itself.  The mutant does not look.                          *)
ReentryUnguarded == "observe"

Reentry == IF chain # << >> THEN "event" ELSE "observe"

ClearsYield ==
  /\ pc = "resuming"
  /\ yield' = 0
  /\ pc' = Reentry
  /\ UNCHANGED << parked, wake, work, last, chain, inbox, queue, outbox, page,
                  count >>

(* The event loop runs one thing at a time, and a queued op starts before  *)
(* the next message is taken.                                              *)
OpStarts == pc = "event" /\ ops # << >> /\ op = "none"

Idle == pc = "event" /\ ~OpStarts /\ op # "loop"

(* The running job settles; the next one starts, or the loop is entered.   *)
JobSettles ==
  /\ Idle
  /\ chain # << >>
  /\ chain' = Tail(chain)
  /\ sim' = IF Head(chain).kind = "recover"
            THEN [sim EXCEPT !.dead = FALSE,
                             !.running = @ \/ Head(chain).resumes]
            ELSE sim
  /\ pc' = IF Len(chain) = 1 THEN "observe" ELSE "event"
  /\ UNCHANGED << words, work, last, inbox, ops, op, outbox, page, count >>

TakesOp ==
  /\ Idle
  /\ inbox # << >>
  /\ Head(inbox) # "resume"
  /\ inbox' = Tail(inbox)
  /\ ops' = Append(ops, Head(inbox))
  /\ UNCHANGED << words, work, thread, op, sim, outbox, page, count >>

(* A resume whose sender cleared W_YIELD itself yields to a newer park     *)
(* request.                                                                *)
TakesResume ==
  /\ Idle
  /\ inbox # << >>
  /\ Head(inbox) = "resume"
  /\ inbox' = Tail(inbox)
  /\ pc' = IF yield = 1 THEN "event" ELSE "resuming"
  /\ UNCHANGED << words, work, last, chain, queue, outbox, page, count >>
-----------------------------------------------------------------------------
OpEnds ==
  /\ ops' = Tail(ops)
  /\ op' = "none"

Posts(reply) == outbox' = Append(outbox, reply)

(* SimHost.pause up to its first await: ticks stop, and a dirty world is   *)
(* snapshotted.  A call on a dead instance throws.                         *)
PauseThrows == sim.dead
PausedSim == [sim EXCEPT !.running = FALSE, !.paused = TRUE]
ResumedSim == [sim EXCEPT !.running = TRUE, !.paused = FALSE]

PauseStarts ==
  /\ OpStarts
  /\ Head(ops) = "sim-pause"
  /\ ~sim.paused
  /\ ~PauseThrows
  /\ sim' = PausedSim
  /\ op' = "flush"
  /\ UNCHANGED << words, work, thread, inbox, ops, outbox, page, count >>

(* A world already paused flushes nothing and is answered at once. *)
PauseAgain ==
  /\ OpStarts
  /\ Head(ops) = "sim-pause"
  /\ sim.paused
  /\ OpEnds
  /\ Posts("storage")
  /\ UNCHANGED << words, work, thread, inbox, sim, page, count >>

(* The op chain swallows what pause() throws, and nothing is posted.  The  *)
(* snapshot itself may be what traps.                                      *)
PauseFails ==
  /\ OpStarts
  /\ Head(ops) = "sim-pause"
  /\ ~sim.paused
  /\ \/ /\ PauseThrows
        /\ UNCHANGED count
     \/ /\ ~PauseThrows
        /\ count.trap < MaxTrap
        /\ Count("trap")
  /\ sim' = [PausedSim EXCEPT !.dead = TRUE]
  /\ OpEnds
  /\ UNCHANGED << words, work, thread, inbox, outbox, page >>

(* flush() waits out a rename that a pass handed to runAsync. *)
RenameRuns == chain # << >> /\ Head(chain).kind = "rename"

PauseFlushed ==
  /\ Idle
  /\ op = "flush"
  /\ ~RenameRuns
  /\ Posts("storage")
  /\ OpEnds
  /\ UNCHANGED << words, work, thread, inbox, sim, page, count >>

(* sim-resume: the world runs, and Shell.resume re-enters the loop from    *)
(* inside the op, which ends when the loop next returns.                   *)
ResumeStarts ==
  /\ OpStarts
  /\ Head(ops) = "sim-resume"
  /\ sim' = IF sim.running THEN sim ELSE ResumedSim
  /\ op' = "loop"
  /\ pc' = "resuming"
  /\ UNCHANGED << words, work, last, chain, inbox, ops, outbox, page, count >>

LoopReturned ==
  /\ pc = "event"
  /\ op = "loop"
  /\ OpEnds
  /\ UNCHANGED << words, work, thread, inbox, sim, outbox, page, count >>

(* export-world pauses a running world, packs, answers and resumes it.     *)
PausesForExport == sim.running /\ ~sim.paused

ExportStarts ==
  /\ OpStarts
  /\ Head(ops) = "export-world"
  /\ IF PausesForExport
     THEN /\ ~PauseThrows
          /\ sim' = PausedSim
          /\ op' = "export-flush"
     ELSE /\ op' = "pack"
          /\ UNCHANGED sim
  /\ UNCHANGED << words, work, thread, inbox, ops, outbox, page, count >>

ExportFlushed ==
  /\ Idle
  /\ op = "export-flush"
  /\ ~RenameRuns
  /\ op' = "pack-running"
  /\ UNCHANGED << words, work, thread, inbox, ops, sim, outbox, page, count >>

(* A trap in the pause is answered as an error, the world left paused.     *)
ExportFails ==
  /\ OpStarts
  /\ Head(ops) = "export-world"
  /\ PausesForExport
  /\ \/ /\ PauseThrows
        /\ UNCHANGED count
     \/ /\ ~PauseThrows
        /\ count.trap < MaxTrap
        /\ Count("trap")
  /\ sim' = [PausedSim EXCEPT !.dead = TRUE]
  /\ Posts("exported")
  /\ OpEnds
  /\ UNCHANGED << words, work, thread, inbox, page >>

(* A mutant: the world is resumed whether or not it ran before.            *)
ResumesAlways == TRUE

ResumesAfterExport == op = "pack-running"

ExportPacked ==
  /\ Idle
  /\ op \in {"pack", "pack-running"}
  /\ sim' = IF ResumesAfterExport
            THEN ResumedSim
            ELSE sim
  /\ Posts("exported")
  /\ OpEnds
  /\ UNCHANGED << words, work, thread, inbox, page, count >>
-----------------------------------------------------------------------------
(* The page.  Every park, and every message that needs one, is a job of    *)
(* one chain.                                                              *)
JobStarts(kind) == lock # << >> /\ Head(lock) = kind /\ job = "none"

JobEnds ==
  /\ lock' = Tail(lock)
  /\ job' = "none"

PostsTo(message) == inbox' = Append(inbox, message)

Flips ==
  /\ count.flip < MaxFlip
  /\ hidden' = ~hidden
  /\ Count("flip")
  /\ UNCHANGED << words, work, thread, inbox, queue, outbox, life, lock, job,
                  exported >>

(* attachHostLifecycle's pump follows the visibility, one change at a time. *)
LifePauses ==
  /\ hidden
  /\ life = "running"
  /\ life' = "pausing"
  /\ lock' = Append(lock, "pause")
  /\ UNCHANGED << words, work, thread, inbox, queue, outbox, hidden, job,
                  exported, count >>

LifeResumes ==
  /\ ~hidden
  /\ life = "paused"
  /\ life' = "resuming"
  /\ lock' = Append(lock, "resume")
  /\ UNCHANGED << words, work, thread, inbox, queue, outbox, hidden, job,
                  exported, count >>

ExportAsked ==
  /\ count.export < MaxExport
  /\ lock' = Append(lock, "export")
  /\ Count("export")
  /\ UNCHANGED << words, work, thread, inbox, queue, outbox, hidden, life, job,
                  exported >>

(* pauseHostWorker, and withHostParked when the worker is not parked yet.  *)
(* (The mutant asks and does not wake.)                                    *)
AsksToPark ==
  /\ JobStarts("pause") \/ (JobStarts("export") /\ parked = 0)
  /\ yield' = 1
  /\ job' = "asked"
  /\ UNCHANGED << parked, wake, work, thread, inbox, queue, outbox, hidden, life,
                  lock, exported, count >>

WakesHostUnwoken ==
  /\ job = "asked"
  /\ job' = "polling"
  /\ UNCHANGED << words, work, thread, inbox, queue, outbox, hidden, life, lock,
                  exported, count >>

WakesHost ==
  /\ job = "asked"
  /\ wake' = wake + 1
  /\ job' = "polling"
  /\ UNCHANGED << yield, parked, work, thread, inbox, queue, outbox, hidden, life,
                  lock, exported, count >>

(* pollHostParked cannot tell a park from a runAsync, and posts.           *)
SeesParked ==
  /\ job = "polling"
  /\ parked = 1
  /\ PostsTo(IF Head(lock) = "pause" THEN "sim-pause" ELSE "export-world")
  /\ job' = "waiting"
  /\ UNCHANGED << words, work, thread, queue, outbox, hidden, life, lock, exported,
                  count >>

(* withHostParked on a worker that reads as parked leaves W_YIELD alone.   *)
ExportsParked ==
  /\ JobStarts("export")
  /\ parked = 1
  /\ PostsTo("export-world")
  /\ job' = "waiting-kept"
  /\ UNCHANGED << words, work, thread, queue, outbox, hidden, life, lock, exported,
                  count >>

PauseSettled ==
  /\ job = "waiting"
  /\ Head(lock) = "pause"
  /\ outbox # << >>
  /\ Head(outbox) = "storage"
  /\ outbox' = Tail(outbox)
  /\ life' = "paused"
  /\ JobEnds
  /\ UNCHANGED << words, work, thread, inbox, queue, hidden, exported, count >>

(* resumeHostWorker posts and does not wait.                               *)
PostsResume ==
  /\ JobStarts("resume")
  /\ PostsTo("sim-resume")
  /\ life' = "running"
  /\ JobEnds
  /\ UNCHANGED << words, work, thread, queue, outbox, hidden, exported, count >>

ExportSettled ==
  /\ job \in {"waiting", "waiting-kept"}
  /\ Head(lock) = "export"
  /\ outbox # << >>
  /\ Head(outbox) = "exported"
  /\ outbox' = Tail(outbox)
  /\ exported' = exported + 1
  /\ IF job = "waiting"
     THEN /\ yield' = 0
          /\ job' = "releasing"
          /\ UNCHANGED lock
     ELSE /\ JobEnds
          /\ UNCHANGED yield
  /\ UNCHANGED << parked, wake, work, thread, inbox, queue, hidden, life, count >>

Releases ==
  /\ job = "releasing"
  /\ PostsTo("resume")
  /\ JobEnds
  /\ UNCHANGED << words, work, thread, queue, outbox, hidden, life, exported, count >>
-----------------------------------------------------------------------------
Loop ==
  \/ BodyPass \/ BodyPassRenames \/ BodyPassTraps
  \/ Checks \/ WaitEnds \/ Woken \/ Parks
  \/ Observes \/ Unparks \/ ClearsYield
Events ==
  \/ JobSettles \/ TakesOp \/ TakesResume
  \/ PauseStarts \/ PauseAgain \/ PauseFails \/ PauseFlushed
  \/ ResumeStarts \/ LoopReturned
  \/ ExportStarts \/ ExportFlushed \/ ExportFails \/ ExportPacked
Page ==
  \/ LifePauses \/ LifeResumes \/ AsksToPark \/ WakesHost \/ SeesParked
  \/ ExportsParked \/ PauseSettled \/ PostsResume \/ ExportSettled \/ Releases
Environment == Flips \/ ExportAsked \/ Push

Next == Loop \/ Events \/ WaitTimesOut \/ Wakes \/ Page \/ Environment

(* Neither thread stops by itself: the worker's loop and event loop run on, *)
(* and so do the page's promises and the producer's wake.  A settled job   *)
(* and a taken message each get their turn.  Nothing may rest on the tick  *)
(* timer, which TimedSpec also owes.                                       *)
Fairness ==
  /\ WF_vars(Loop)
  /\ WF_vars(Events)
  /\ SF_vars(JobSettles)
  /\ SF_vars(TakesOp \/ TakesResume)
  /\ SF_vars(PauseFlushed \/ ExportFlushed \/ ExportPacked)
  /\ WF_vars(Wakes)
  /\ WF_vars(Page)

Spec == Init /\ [][Next]_vars /\ Fairness

TimedSpec == Spec /\ WF_vars(WaitTimesOut)
-----------------------------------------------------------------------------
Jobs == [kind : {"rename"}] \cup [kind : {"recover"}, resumes : BOOLEAN]
Ops  == {"sim-pause", "sim-resume", "export-world"}

WordsOK ==
  /\ yield \in 0 .. 1 /\ parked \in 0 .. 1 /\ wake \in Nat
  /\ uplink \in 0 .. count.push

ThreadOK ==
  /\ pc \in {"body", "check", "wait", "woken", "parking", "event", "observe",
             "unpark", "resuming"}
  /\ last \in 0 .. wake /\ chain \in Seq(Jobs) /\ Len(chain) <= 1

QueueOK ==
  /\ inbox \in Seq(Ops \cup {"resume"}) /\ ops \in Seq(Ops)
  /\ op \in {"none", "flush", "loop", "export-flush", "pack", "pack-running"}
  /\ op # "none" => ops # << >>
  /\ sim \in [running : BOOLEAN, paused : BOOLEAN, dead : BOOLEAN]

PageOK ==
  /\ outbox \in Seq({"storage", "exported"})
  /\ life \in {"running", "pausing", "paused", "resuming"}
  /\ lock \in Seq({"pause", "resume", "export"})
  /\ job \in {"none", "asked", "polling", "waiting", "waiting-kept", "releasing"}
  /\ job # "none" => lock # << >>
  /\ exported \in Nat

CountOK ==
  /\ count \in [flip : Nat, export : Nat, push : Nat, trap : Nat, rename : Nat]
  /\ count.push <= MaxPush

FlagsOK == waking \in BOOLEAN /\ hidden \in BOOLEAN

TypeOK == FlagsOK /\ WordsOK /\ ThreadOK /\ QueueOK /\ PageOK /\ CountOK

(* W_PARKED = 1 means what its readers take it to mean: the worker is in   *)
(* its event loop, or about to leave it, and never blocked in Atomics.wait *)
(* (shell.ts, "coherence for parkWorkers").                                *)
ParkedMeansReachable ==
  parked = 1 => pc \in {"event", "resuming", "observe", "unpark"}

(* A runAsync job is never starved: while one is in flight the worker is   *)
(* not in its blocking loop, whatever resume arrived meanwhile.            *)
JobNeverStarved ==
  chain # << >> => pc \in {"event", "resuming"}

(* Once the page has been told that the world is paused, and until it      *)
(* posts the resume, the world runs no tick: not after an export, not      *)
(* after a recovery that was under way.                                    *)
PausedWorldIsStill ==
  life = "paused" => ~sim.running

(* The strengthening that makes the three properties above inductive.  What *)
(* may set a world running again is a resume that waits or runs, a pause   *)
(* that an export made, and a recovery of a world that was running.        *)
Has(s, x) == \E i \in DOMAIN s : s[i] = x
Waits(message) == Has(ops, message) \/ Has(inbox, message)
Answered == Has(outbox, "storage")
Restart == [kind |-> "recover", resumes |-> TRUE]

(* The page has at most one pause and one resume in its lock, those that   *)
(* its state says.                                                         *)
OneOfEach ==
  \A i, j \in DOMAIN lock : lock[i] = lock[j] /\ i # j => lock[i] = "export"

LockFollowsLife ==
  /\ OneOfEach
  /\ Has(lock, "pause") => life = "pausing"
  /\ Has(lock, "resume") => life = "resuming"
  /\ job \in {"waiting-kept", "releasing"} => Head(lock) = "export"

(* At most one sim-resume and one sim-pause are on their way to the world,  *)
(* the resume first; and one answer, when neither is.                      *)
InTurn(m, n) ==
  {m, n} \subseteq {"sim-pause", "sim-resume"} =>
    m = "sim-resume" /\ n = "sim-pause"

PauseAsked == life = "pausing" /\ job = "waiting" /\ Head(lock) = "pause"

Ordered ==
  /\ \A i, j \in DOMAIN ops : i < j => InTurn(ops[i], ops[j])
  /\ \A i, j \in DOMAIN inbox : i < j => InTurn(inbox[i], inbox[j])
  /\ \A i \in DOMAIN ops, j \in DOMAIN inbox : InTurn(ops[i], inbox[j])

OneAnswer ==
  \A i, j \in DOMAIN outbox :
    outbox[i] = "storage" /\ outbox[j] = "storage" => i = j

MessagesInTurn ==
  /\ Ordered
  /\ OneAnswer
  /\ Waits("sim-pause") => PauseAsked
  /\ Waits("sim-resume") => life \in {"running", "pausing"}
  /\ Answered => PauseAsked /\ ~Waits("sim-pause") /\ ~Waits("sim-resume")

(* The running op is that of the first message of the queue. *)
OpAgrees ==
  /\ op = "flush" => Head(ops) = "sim-pause"
  /\ op = "loop" => Head(ops) = "sim-resume"
  /\ op \in {"export-flush", "pack", "pack-running"} => Head(ops) = "export-world"

(* From the answer to a pause until the next resume runs, nothing that may *)
(* set the world running is under way.                                     *)
Settled ==
  \/ Answered
  \/ life \in {"paused", "resuming"}
  \/ Waits("sim-resume") /\ op # "loop"

WorldStill == ~sim.running /\ ~Has(chain, Restart)

SettledMeansStill ==
  /\ Settled => WorldStill /\ op \notin {"flush", "export-flush", "pack-running"}
  /\ op \in {"flush", "export-flush", "pack-running"} => WorldStill /\ sim.paused

(* A pause that failed may leave a world that reads as paused and runs; it *)
(* is never answered, so the page asks for nothing more.                   *)
PauseNeverAnswered ==
  PauseAsked /\ ~Waits("sim-pause") /\ ~Waits("sim-resume") /\ ~Answered

PausedOrStuck ==
  /\ sim.paused => WorldStill \/ PauseNeverAnswered
  /\ sim.dead /\ sim.running => ~Has(chain, Restart)
  /\ (\E i \in DOMAIN chain : chain[i].kind = "recover") => sim.dead

HostInv ==
  /\ TypeOK
  /\ ParkedMeansReachable
  /\ JobNeverStarved
  /\ LockFollowsLife
  /\ MessagesInTurn
  /\ OpAgrees
  /\ SettledMeansStill
  /\ PausedOrStuck

(* No wake is lost: what was pushed to the ring is drained, unless the     *)
(* page means the world to be paused.                                      *)
UplinkDrained ==
  uplink > 0 ~> uplink = 0 \/ life # "running"

(* A pause asked for settles.                                              *)
PauseEnds == life = "pausing" ~> life # "pausing"

(* A pause asked of a worker that was in its loop settles, as long as the  *)
(* instance does not trap.                                                 *)
AskedInLoop == job = "asked" /\ Head(lock) = "pause" /\ parked = 0 /\ yield = 1

PauseOfRunningEnds == AskedInLoop ~> (life # "pausing" \/ count.trap > 0)

(* An export asked for is answered.                                        *)
ExportAnswered ==
  \A n \in 1 .. MaxExport : count.export >= n ~> exported >= n
=============================================================================
