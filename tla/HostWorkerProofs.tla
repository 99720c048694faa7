-------------------------- MODULE HostWorkerProofs --------------------------
(***************************************************************************)
(* Proofs about the host worker and the page that parks it, for every      *)
(* number of visibility changes, exports, messages, traps and renames.     *)
(***************************************************************************)
EXTENDS HostWorker, SequenceTheorems, TLAPS

(* What the worker's thread does by itself. *)
LoopInv == TypeOK /\ ParkedMeansReachable /\ JobNeverStarved

(* What the page, its messages and the world agree on. *)
PauseInv ==
  LockFollowsLife /\ MessagesInTurn /\ OpAgrees /\ SettledMeansStill /\ PausedOrStuck
-----------------------------------------------------------------------------
(* Elements of a sequence that one is appended to.                         *)
LEMMA Appended ==
  ASSUME NEW S, NEW s \in Seq(S), NEW e \in S
  PROVE  /\ Append(s, e) \in Seq(S) /\ Append(s, e) # << >>
         /\ Len(Append(s, e)) = Len(s) + 1 /\ Len(s) \in Nat
         /\ DOMAIN s = 1 .. Len(s) /\ DOMAIN Append(s, e) = 1 .. Len(s) + 1
         /\ \A i \in 1 .. Len(s) : Append(s, e)[i] = s[i]
         /\ Append(s, e)[Len(s) + 1] = e
         /\ s # << >> => Head(Append(s, e)) = Head(s)
         /\ s = << >> => Head(Append(s, e)) = e
  BY AppendProperties

(* Elements of a sequence whose first one is taken.                        *)
LEMMA Taken ==
  ASSUME NEW S, NEW s \in Seq(S), s # << >>
  PROVE  /\ Head(s) \in S /\ Head(s) = s[1] /\ Tail(s) \in Seq(S)
         /\ Len(s) \in Nat \ {0} /\ Len(Tail(s)) = Len(s) - 1
         /\ DOMAIN s = 1 .. Len(s) /\ DOMAIN Tail(s) = 1 .. Len(s) - 1
         /\ \A i \in 1 .. Len(s) - 1 : Tail(s)[i] = s[i + 1]
  BY HeadTailProperties

(* A sequence of at most one element, taken.                               *)
LEMMA OneTaken ==
  ASSUME NEW S, NEW s \in Seq(S), s # << >>, Len(s) <= 1
  PROVE  /\ Len(s) = 1 /\ Tail(s) = << >>
         /\ Tail(s) \in Seq(S) /\ Len(Tail(s)) = 0
<1>0. /\ Len(s) \in Nat \ {0} /\ Len(Tail(s)) = Len(s) - 1
      /\ Tail(s) \in Seq(S)
  BY HeadTailProperties
<1>1. Len(s) = 1 /\ Tail(s) \in Seq(S) /\ Len(Tail(s)) = 0
  BY <1>0
<1> QED
  BY <1>1, EmptySeq

(* What is in a sequence after an append.                                  *)
LEMMA HasAppended ==
  ASSUME NEW S, NEW s \in Seq(S), NEW e \in S, NEW x
  PROVE  Has(Append(s, e), x) <=> Has(s, x) \/ e = x
<1>1. \A i \in 1 .. Len(s) + 1 : i \in 1 .. Len(s) \/ i = Len(s) + 1
  BY Appended
<1>2. Len(s) + 1 \in 1 .. Len(s) + 1 /\ \A i \in 1 .. Len(s) : i \in 1 .. Len(s) + 1
  BY Appended
<1> QED
  BY <1>1, <1>2, Appended DEF Has

(* What is in a sequence whose first element is taken.                     *)
LEMMA HasTaken ==
  ASSUME NEW S, NEW s \in Seq(S), s # << >>, NEW x
  PROVE  Has(s, x) <=> Head(s) = x \/ Has(Tail(s), x)
<1>1. \A i \in 1 .. Len(s) : i = 1 \/ (i - 1 \in 1 .. Len(s) - 1 /\ (i - 1) + 1 = i)
  BY Taken
<1>2. 1 \in 1 .. Len(s) /\ \A i \in 1 .. Len(s) - 1 : i + 1 \in 1 .. Len(s)
  BY Taken
<1>3. ASSUME Has(s, x) PROVE Head(s) = x \/ Has(Tail(s), x)
  <2>1. PICK i \in 1 .. Len(s) : s[i] = x
    BY <1>3, Taken DEF Has
  <2>2. CASE i = 1
    BY <2>1, <2>2, Taken
  <2>3. CASE i - 1 \in 1 .. Len(s) - 1 /\ (i - 1) + 1 = i
    <3>1. Tail(s)[i - 1] = x
      BY <2>1, <2>3, Taken
    <3> QED
      BY <3>1, <2>3, Taken DEF Has
  <2> QED
    BY <1>1, <2>2, <2>3
<1>4. Head(s) = x \/ Has(Tail(s), x) => Has(s, x)
  BY <1>2, Taken DEF Has
<1> QED
  BY <1>3, <1>4

(* Nothing is in the empty sequence.                                       *)
LEMMA HasNothing == ASSUME NEW x PROVE ~Has(<< >>, x)
  BY DEF Has
-----------------------------------------------------------------------------
(* The initial state.                                                      *)
LEMMA InitHost == Init => HostInv
<1> SUFFICES ASSUME Init PROVE HostInv
  OBVIOUS
<1> USE DEF Init
<1>1. TypeOK
  <2>0. count.push = 0
    OBVIOUS
  <2>1. WordsOK
    BY <2>0 DEF WordsOK
  <2>6. FlagsOK
    BY DEF FlagsOK
  <2>5. QueueOK
    BY DEF QueueOK
  <2>3. ThreadOK
    BY DEF ThreadOK
  <2>4. PageOK
    <3>1. /\ outbox \in Seq({"storage", "exported"})
          /\ lock \in Seq({"pause", "resume", "export"})
      OBVIOUS
    <3> QED
      BY <3>1 DEF PageOK
  <2>2. CountOK
    BY BoundsAreNaturals DEF CountOK
  <2> QED
    BY <2>1, <2>2, <2>3, <2>4, <2>5, <2>6 DEF TypeOK
<1>2. ParkedMeansReachable /\ JobNeverStarved
  BY DEF ParkedMeansReachable, JobNeverStarved
<1>3. LockFollowsLife /\ MessagesInTurn /\ OpAgrees
  BY DEF LockFollowsLife, OneOfEach, MessagesInTurn, Ordered, OneAnswer, OpAgrees,
         Has, Waits, Answered
<1>4. SettledMeansStill /\ PausedOrStuck
  BY DEF SettledMeansStill, PausedOrStuck, Settled, Answered, Waits, Has
<1> QED
  BY <1>1, <1>2, <1>3, <1>4 DEF HostInv
-----------------------------------------------------------------------------
(* Steps of the worker's loop keep the types, and the worker reads as      *)
(* parked only where a message reaches it.                                 *)
LEMMA LoopStep ==
  ASSUME LoopInv, Loop \/ WaitTimesOut \/ JobSettles
  PROVE  LoopInv'
<1> USE DEF LoopInv, TypeOK, words, work, thread, queue, page
<1>1. CASE BodyPass
  <2> USE <1>1 DEF BodyPass
  <2>1. WordsOK' /\ FlagsOK' /\ CountOK'
    BY DEF WordsOK, FlagsOK, CountOK, Drains
  <2>2. ThreadOK' /\ ParkedMeansReachable' /\ JobNeverStarved'
    BY DEF ThreadOK, ParkedMeansReachable, JobNeverStarved
  <2>3. QueueOK' /\ PageOK'
    BY DEF QueueOK, PageOK
  <2> QED
    BY <2>1, <2>2, <2>3
<1>2. CASE BodyPassRenames
  <2> USE <1>2 DEF BodyPassRenames, RunAsync
  <2>1. WordsOK' /\ FlagsOK' /\ CountOK'
    BY DEF WordsOK, FlagsOK, CountOK, Drains, Count
  <2>2. ThreadOK' /\ ParkedMeansReachable' /\ JobNeverStarved'
    BY Appended DEF ThreadOK, Jobs, ParkedMeansReachable, JobNeverStarved
  <2>3. QueueOK' /\ PageOK'
    BY DEF QueueOK, PageOK
  <2> QED
    BY <2>1, <2>2, <2>3
<1>3. CASE BodyPassTraps
  <2> USE <1>3 DEF BodyPassTraps, RunAsync
  <2>0. /\ count'.push = count.push /\ CountOK' /\ FlagsOK'
    BY DEF CountOK, FlagsOK, Count
  <2>1. WordsOK' /\ FlagsOK' /\ CountOK'
    BY <2>0 DEF WordsOK, CountOK
  <2>2. ThreadOK' /\ ParkedMeansReachable' /\ JobNeverStarved'
    BY Appended DEF ThreadOK, QueueOK, Jobs, ParkedMeansReachable, JobNeverStarved
  <2>3. QueueOK' /\ PageOK'
    BY DEF QueueOK, PageOK
  <2> QED
    BY <2>1, <2>2, <2>3
<1>4. CASE Checks \/ WaitEnds \/ WaitTimesOut \/ Woken \/ Parks
  <2> USE <1>4 DEF Checks, WaitEnds, WaitTimesOut, Woken, Parks
  <2>1. WordsOK' /\ FlagsOK' /\ CountOK'
    BY DEF WordsOK, FlagsOK, CountOK
  <2>2. ThreadOK' /\ ParkedMeansReachable' /\ JobNeverStarved'
    BY DEF ThreadOK, WordsOK, ParkedMeansReachable, JobNeverStarved
  <2>3. QueueOK' /\ PageOK'
    BY DEF QueueOK, PageOK
  <2> QED
    BY <2>1, <2>2, <2>3
<1>5. CASE Observes \/ Unparks \/ ClearsYield
  <2> USE <1>5 DEF Observes, Unparks, ClearsYield, Entry, Reentry
  <2>1. WordsOK' /\ FlagsOK' /\ CountOK'
    BY DEF WordsOK, FlagsOK, CountOK
  <2>2. ThreadOK' /\ ParkedMeansReachable' /\ JobNeverStarved'
    BY DEF ThreadOK, WordsOK, ParkedMeansReachable, JobNeverStarved
  <2>3. QueueOK' /\ PageOK'
    BY DEF QueueOK, PageOK
  <2> QED
    BY <2>1, <2>2, <2>3
<1>6. CASE JobSettles
  <2>1. /\ chain # << >> /\ chain' = Tail(chain) /\ pc = "event"
        /\ pc' = (IF Len(chain) = 1 THEN "observe" ELSE "event")
        /\ yield' = yield /\ parked' = parked /\ wake' = wake /\ last' = last
        /\ uplink' = uplink /\ waking' = waking /\ UNCHANGED page
        /\ inbox' = inbox /\ ops' = ops /\ op' = op /\ outbox' = outbox
        /\ count' = count
    BY <1>6 DEF JobSettles, Idle
  <2>2. chain' = << >> /\ chain' \in Seq(Jobs) /\ Len(chain') = 0 /\ Len(chain) = 1
    BY <2>1, OneTaken DEF ThreadOK
  <2>3. WordsOK' /\ FlagsOK' /\ CountOK'
    BY <2>1 DEF WordsOK, FlagsOK, CountOK
  <2>4. ThreadOK' /\ ParkedMeansReachable' /\ JobNeverStarved'
    <3>1. pc' = "observe"
      BY <2>1, <2>2
    <3>2. last' \in 0 .. wake'
      BY <2>1 DEF ThreadOK
    <3>3. ThreadOK'
      BY <2>2, <3>1, <3>2 DEF ThreadOK
    <3>4. ParkedMeansReachable'
      BY <3>1 DEF ParkedMeansReachable
    <3>5. JobNeverStarved'
      BY <2>2, <3>1 DEF JobNeverStarved
    <3> QED
      BY <3>3, <3>4, <3>5
  <2>5. sim' \in [running : BOOLEAN, paused : BOOLEAN, dead : BOOLEAN]
    BY <1>6 DEF JobSettles, QueueOK, ThreadOK, Jobs
  <2>6. QueueOK' /\ PageOK'
    BY <2>1, <2>5 DEF QueueOK, PageOK
  <2> QED
    BY <2>3, <2>4, <2>6
<1> QED
  BY <1>1, <1>2, <1>3, <1>4, <1>5, <1>6 DEF Loop

(* The three records the world's switches go through.                      *)
LEMMA SimTypes ==
  ASSUME QueueOK
  PROVE  /\ PausedSim \in [running : BOOLEAN, paused : BOOLEAN, dead : BOOLEAN]
         /\ ResumedSim \in [running : BOOLEAN, paused : BOOLEAN, dead : BOOLEAN]
         /\ [PausedSim EXCEPT !.dead = TRUE]
              \in [running : BOOLEAN, paused : BOOLEAN, dead : BOOLEAN]
  BY DEF QueueOK, PausedSim, ResumedSim

(* Steps of the worker's event loop keep the types.                        *)
LEMMA EventStep == ASSUME LoopInv, Events PROVE LoopInv'
<1> USE DEF LoopInv, TypeOK
<1>1. CASE JobSettles
  BY <1>1, LoopStep
<1>2. CASE TakesOp \/ TakesResume
  <2>1. /\ inbox # << >> /\ inbox' = Tail(inbox) /\ op' = op /\ sim' = sim
        /\ \/ ops' = ops
           \/ Head(inbox) # "resume" /\ ops' = Append(ops, Head(inbox))
        /\ pc = "event" /\ pc' \in {"event", "resuming"}
        /\ UNCHANGED << words, work, last, chain, outbox, page, count >>
    BY <1>2 DEF TakesOp, TakesResume, Idle, thread, queue
  <2>2. inbox' \in Seq(Ops \cup {"resume"}) /\ Head(inbox) \in Ops \cup {"resume"}
    BY <2>1, Taken DEF QueueOK
  <2>3. ops' \in Seq(Ops) /\ (op # "none" => ops' # << >>)
    <3>1. ops \in Seq(Ops) /\ (op # "none" => ops # << >>)
      BY DEF QueueOK
    <3>2. CASE Head(inbox) # "resume" /\ ops' = Append(ops, Head(inbox))
      BY <2>2, <3>1, <3>2, Appended
    <3> QED
      BY <2>1, <3>1, <3>2
  <2>4. QueueOK'
    BY <2>1, <2>2, <2>3 DEF QueueOK
  <2>5. WordsOK' /\ ThreadOK' /\ ParkedMeansReachable' /\ JobNeverStarved'
    BY <2>1 DEF words, work, WordsOK, ThreadOK, ParkedMeansReachable,
                JobNeverStarved
  <2>6. FlagsOK' /\ CountOK' /\ PageOK'
    BY <2>1 DEF page, work, FlagsOK, CountOK, PageOK
  <2> QED
    BY <2>4, <2>5, <2>6
<1>3. CASE PauseStarts \/ ExportStarts \/ ExportFlushed \/ ResumeStarts
  <2>1. /\ inbox' = inbox /\ ops' = ops
        /\ ops # << >> \/ op # "none"
        /\ op' \in {"flush", "loop", "export-flush", "pack", "pack-running"}
        /\ sim' \in {sim, PausedSim, ResumedSim}
        /\ pc = "event" /\ pc' \in {"event", "resuming"}
        /\ UNCHANGED << words, work, last, chain, outbox, page, count >>
    BY <1>3 DEF PauseStarts, ExportStarts, ExportFlushed, ResumeStarts, OpStarts,
                Idle, thread
  <2>2. QueueOK'
    <3>1. sim' \in [running : BOOLEAN, paused : BOOLEAN, dead : BOOLEAN]
      BY <2>1, SimTypes DEF QueueOK
    <3>2. ops' # << >> /\ ops' \in Seq(Ops) /\ inbox' \in Seq(Ops \cup {"resume"})
      BY <2>1 DEF QueueOK
    <3>3. op' \in {"none", "flush", "loop", "export-flush", "pack", "pack-running"}
      BY <2>1
    <3> QED
      BY <3>1, <3>2, <3>3 DEF QueueOK
  <2>3. WordsOK' /\ ThreadOK' /\ ParkedMeansReachable' /\ JobNeverStarved'
    BY <2>1 DEF words, work, WordsOK, ThreadOK, ParkedMeansReachable,
                JobNeverStarved
  <2>4. FlagsOK' /\ CountOK' /\ PageOK'
    BY <2>1 DEF page, work, FlagsOK, CountOK, PageOK
  <2> QED
    BY <2>2, <2>3, <2>4
<1>4. CASE \/ PauseAgain \/ PauseFails \/ PauseFlushed
           \/ LoopReturned \/ ExportFails \/ ExportPacked
  <2>1. /\ inbox' = inbox /\ op' = "none" /\ ops' = Tail(ops)
        /\ ops # << >> \/ op # "none"
        /\ sim' \in {sim, ResumedSim, [PausedSim EXCEPT !.dead = TRUE]}
        /\ \/ outbox' = outbox
           \/ \E r \in {"storage", "exported"} : outbox' = Append(outbox, r)
        /\ UNCHANGED << words, work, thread, page >>
    BY <1>4 DEF PauseAgain, PauseFails, PauseFlushed, LoopReturned, ExportFails,
                ExportPacked, OpStarts, OpEnds, Posts
  <2>2. count' = count \/ Count("trap")
    BY <1>4 DEF PauseAgain, PauseFails, PauseFlushed, LoopReturned, ExportFails,
                ExportPacked
  <2>3. CountOK' /\ count'.push = count.push
    BY <2>2 DEF CountOK, Count
  <2>4. ops' \in Seq(Ops)
    BY <2>1, Taken DEF QueueOK
  <2>5. QueueOK'
    BY <2>1, <2>4, SimTypes DEF QueueOK
  <2>6. outbox' \in Seq({"storage", "exported"})
    <3>1. outbox \in Seq({"storage", "exported"})
      BY DEF PageOK
    <3> QED
      BY <3>1, <2>1, Appended
  <2>7. PageOK'
    BY <2>1, <2>6 DEF PageOK, page
  <2>8. FlagsOK'
    BY <2>1 DEF FlagsOK, work, page
  <2>9. WordsOK' /\ ThreadOK' /\ ParkedMeansReachable' /\ JobNeverStarved'
    BY <2>1, <2>3 DEF words, work, thread, WordsOK, ThreadOK,
                      ParkedMeansReachable, JobNeverStarved
  <2> QED
    BY <2>3, <2>5, <2>7, <2>8, <2>9
<1> QED
  BY <1>1, <1>2, <1>3, <1>4 DEF Events

(* Steps of the page and of the producer keep the types.                   *)
LEMMA PageStep ==
  ASSUME LoopInv, Page \/ Environment \/ Wakes \/ UNCHANGED vars
  PROVE  LoopInv'
<1> USE DEF LoopInv, TypeOK
<1>1. CASE Push \/ Wakes \/ Flips \/ UNCHANGED vars
  <2>1. /\ UNCHANGED << yield, parked, thread, inbox, queue, outbox, life, lock,
                        job, exported >>
    BY <1>1 DEF Push, Wakes, Flips, vars, words, page
  <2>2. FlagsOK'
    BY <1>1 DEF Push, Wakes, Flips, vars, work, page, FlagsOK
  <2>3. WordsOK' /\ CountOK' /\ wake \in Nat /\ wake' \in {wake, wake + 1}
    <3>1. CASE Push
      <4>1. /\ uplink' = uplink + 1 /\ UNCHANGED words /\ count.push < MaxPush
            /\ count' = [count EXCEPT !.push = @ + 1]
        BY <3>1 DEF Push, Count
      <4>2. CountOK' /\ count'.push = count.push + 1
        BY <4>1, BoundsAreNaturals DEF CountOK
      <4> QED
        BY <4>1, <4>2 DEF words, WordsOK, CountOK
    <3>2. CASE Wakes \/ Flips \/ UNCHANGED vars
      BY <3>2 DEF Wakes, Flips, vars, words, work, WordsOK, CountOK, Count
    <3> QED
      BY <1>1, <3>1, <3>2
  <2>4. ThreadOK' /\ ParkedMeansReachable' /\ JobNeverStarved'
    BY <2>1, <2>3 DEF thread, WordsOK, ThreadOK, ParkedMeansReachable,
                      JobNeverStarved
  <2>5. QueueOK' /\ PageOK'
    BY <2>1 DEF queue, QueueOK, PageOK
  <2> QED
    BY <2>2, <2>3, <2>4, <2>5
<1>2. CASE LifePauses \/ LifeResumes \/ ExportAsked
  <2>1. /\ \E k \in {"pause", "resume", "export"} : lock' = Append(lock, k)
        /\ life' \in {life, "pausing", "resuming"}
        /\ count' = count \/ Count("export")
        /\ UNCHANGED << words, work, thread, inbox, queue, outbox, hidden, job,
                        exported >>
    BY <1>2 DEF LifePauses, LifeResumes, ExportAsked
  <2>2. lock' \in Seq({"pause", "resume", "export"}) /\ lock' # << >>
    BY <2>1, Appended DEF PageOK
  <2>3. PageOK'
    BY <2>1, <2>2 DEF PageOK
  <2>4. CountOK' /\ count'.push = count.push
    BY <2>1 DEF CountOK, Count
  <2>5. WordsOK' /\ ThreadOK' /\ ParkedMeansReachable' /\ JobNeverStarved'
    BY <2>1, <2>4 DEF words, work, thread, WordsOK, ThreadOK,
                      ParkedMeansReachable, JobNeverStarved
  <2>6. FlagsOK' /\ QueueOK'
    BY <2>1 DEF work, queue, FlagsOK, QueueOK
  <2> QED
    BY <2>3, <2>4, <2>5, <2>6
<1>3. CASE AsksToPark \/ WakesHost
  <2>1. /\ yield' \in {yield, 1} /\ wake' \in {wake, wake + 1}
        /\ job' \in {"asked", "polling"} /\ lock # << >>
        /\ UNCHANGED << parked, work, thread, inbox, queue, outbox, hidden, life,
                        lock, exported, count >>
    BY <1>3 DEF AsksToPark, JobStarts, WakesHost, PageOK
  <2>2. WordsOK' /\ ThreadOK' /\ ParkedMeansReachable' /\ JobNeverStarved'
    BY <2>1 DEF work, thread, WordsOK, ThreadOK, ParkedMeansReachable,
                JobNeverStarved
  <2>3. PageOK' /\ CountOK' /\ QueueOK'
    BY <2>1 DEF PageOK, CountOK, queue, QueueOK
  <2>4. FlagsOK'
    BY <2>1 DEF work, FlagsOK
  <2> QED
    BY <2>2, <2>3, <2>4
<1>4. CASE SeesParked \/ ExportsParked \/ PostsResume \/ Releases
  <2>1. /\ \E m \in Ops \cup {"resume"} : inbox' = Append(inbox, m)
        /\ lock # << >> /\ UNCHANGED << words, work, thread, queue, outbox,
                                        hidden, exported, count >>
        /\ life' \in {life, "running"}
        /\ \/ lock' = lock /\ job' \in {"waiting", "waiting-kept"}
           \/ lock' = Tail(lock) /\ job' = "none"
    BY <1>4 DEF SeesParked, ExportsParked, PostsResume, Releases, PostsTo, JobEnds,
                JobStarts, Ops, PageOK
  <2>2. inbox' \in Seq(Ops \cup {"resume"})
    BY <2>1, Appended DEF QueueOK
  <2>3. lock' \in Seq({"pause", "resume", "export"})
    BY <2>1, Taken DEF PageOK
  <2>4. QueueOK'
    BY <2>1, <2>2 DEF QueueOK, queue
  <2>5. PageOK'
    BY <2>1, <2>3 DEF PageOK
  <2>6. WordsOK' /\ ThreadOK' /\ ParkedMeansReachable' /\ JobNeverStarved'
    BY <2>1 DEF words, work, thread, WordsOK, ThreadOK, ParkedMeansReachable,
                JobNeverStarved
  <2>7. FlagsOK' /\ CountOK'
    BY <2>1 DEF work, FlagsOK, CountOK
  <2> QED
    BY <2>4, <2>5, <2>6, <2>7
<1>5. CASE PauseSettled \/ ExportSettled
  <2>1. /\ outbox # << >> /\ outbox' = Tail(outbox) /\ lock # << >>
        /\ life' \in {life, "paused"} /\ exported' \in {exported, exported + 1}
        /\ \/ lock' = lock /\ job' = "releasing"
           \/ lock' = Tail(lock) /\ job' = "none"
        /\ yield' \in {yield, 0}
        /\ UNCHANGED << parked, wake, work, thread, inbox, queue, hidden, count >>
    BY <1>5 DEF PauseSettled, ExportSettled, JobEnds, PageOK, words
  <2>2. lock' \in Seq({"pause", "resume", "export"})
    BY <2>1, Taken DEF PageOK
  <2>3. outbox' \in Seq({"storage", "exported"})
    BY <2>1, Taken DEF PageOK
  <2>4. PageOK'
    BY <2>1, <2>2, <2>3 DEF PageOK
  <2>5. WordsOK' /\ ThreadOK' /\ ParkedMeansReachable' /\ JobNeverStarved'
    BY <2>1 DEF work, thread, WordsOK, ThreadOK, ParkedMeansReachable,
                JobNeverStarved
  <2>6. FlagsOK' /\ QueueOK' /\ CountOK'
    BY <2>1 DEF work, queue, FlagsOK, QueueOK, CountOK
  <2> QED
    BY <2>4, <2>5, <2>6
<1> QED
  BY <1>1, <1>2, <1>3, <1>4, <1>5 DEF Page, Environment
-----------------------------------------------------------------------------
(* What the page and the world agree on rests on these variables alone.    *)
LEMMA AgreementFrame ==
  ASSUME PauseInv, UNCHANGED << chain, inbox, queue, outbox, life, lock, job >>
  PROVE  PauseInv'
<1> USE DEF PauseInv, queue
<1>1. LockFollowsLife' /\ OpAgrees'
  BY DEF LockFollowsLife, OneOfEach, OpAgrees, Has
<1>2. MessagesInTurn'
  BY DEF MessagesInTurn, Ordered, OneAnswer, Waits, Answered, Has, PauseAsked, InTurn
<1>3. SettledMeansStill' /\ PausedOrStuck'
  BY DEF SettledMeansStill, PausedOrStuck, Settled, WorldStill, Waits, Answered,
         Has, PauseNeverAnswered, PauseAsked
<1> QED
  BY <1>1, <1>2, <1>3

(* A step that leaves the messages and the page alone keeps what they say. *)
LEMMA MessagesFrame ==
  ASSUME PauseInv, UNCHANGED << inbox, ops, op, outbox, life, lock, job >>
  PROVE  /\ LockFollowsLife' /\ MessagesInTurn' /\ OpAgrees'
         /\ Settled' <=> Settled
         /\ PauseNeverAnswered' <=> PauseNeverAnswered
<1> USE DEF PauseInv
<1>1. LockFollowsLife' /\ OpAgrees'
  BY DEF LockFollowsLife, OneOfEach, OpAgrees, Has
<1>2. MessagesInTurn'
  BY DEF MessagesInTurn, Ordered, OneAnswer, Waits, Answered, Has, PauseAsked, InTurn
<1>3. /\ Settled' <=> Settled
      /\ PauseNeverAnswered' <=> PauseNeverAnswered
  BY DEF Settled, Waits, Answered, Has, PauseNeverAnswered, PauseAsked
<1> QED
  BY <1>1, <1>2, <1>3

(* A snapshot's rename, a trap's recovery and the end of either do not set *)
(* a settled world running.                                                *)
LEMMA JobAgreement ==
  ASSUME LoopInv, PauseInv, BodyPassRenames \/ BodyPassTraps \/ JobSettles
  PROVE  PauseInv'
<1>1. UNCHANGED << inbox, ops, op, outbox, life, lock, job >>
  BY DEF BodyPassRenames, BodyPassTraps, JobSettles, queue, page
<1>2. /\ LockFollowsLife' /\ MessagesInTurn' /\ OpAgrees'
      /\ Settled' <=> Settled
      /\ PauseNeverAnswered' <=> PauseNeverAnswered
  BY <1>1, MessagesFrame
<1>3. /\ chain \in Seq(Jobs)
      /\ sim \in [running : BOOLEAN, paused : BOOLEAN, dead : BOOLEAN]
      /\ SettledMeansStill /\ PausedOrStuck
  BY DEF LoopInv, TypeOK, ThreadOK, QueueOK, PauseInv
<1>4. CASE BodyPassRenames
  <2>1. /\ chain = << >> /\ chain' = Append(<< >>, [kind |-> "rename"])
        /\ sim' = sim
    BY <1>4 DEF BodyPassRenames, RunAsync, queue, LoopInv, JobNeverStarved
  <2>2. ~Has(chain', Restart) /\ ~Has(chain, Restart)
    BY <2>1, HasNothing DEF Has, Restart
  <2>3. \A i \in DOMAIN chain' : chain'[i].kind # "recover"
    BY <2>1
  <2> QED
    BY <1>1, <1>2, <1>3, <2>1, <2>2, <2>3
       DEF PauseInv, SettledMeansStill, PausedOrStuck, WorldStill
<1>5. CASE BodyPassTraps
  <2>1. /\ chain = << >>
        /\ chain' = Append(<< >>, [kind |-> "recover", resumes |-> sim.running])
        /\ sim' = [sim EXCEPT !.dead = TRUE, !.running = FALSE]
    BY <1>5 DEF BodyPassTraps, RunAsync, LoopInv, JobNeverStarved
  <2>2. /\ ~sim'.running /\ sim'.dead /\ sim'.paused = sim.paused
    BY <1>3, <2>1
  <2>3. ~sim.running => ~Has(chain', Restart)
    BY <1>3, <2>1 DEF Has, Restart
  <2>4. WorldStill => WorldStill'
    BY <2>2, <2>3 DEF WorldStill
  <2> QED
    BY <1>1, <1>2, <1>3, <2>2, <2>4
       DEF PauseInv, SettledMeansStill, PausedOrStuck
<1>6. CASE JobSettles
  <2>1. /\ chain # << >> /\ chain' = Tail(chain)
        /\ sim' = IF Head(chain).kind = "recover"
                  THEN [sim EXCEPT !.dead = FALSE,
                                   !.running = @ \/ Head(chain).resumes]
                  ELSE sim
    BY <1>6 DEF JobSettles
  <2>2. chain' = << >>
    BY <1>3, <2>1, OneTaken DEF LoopInv, TypeOK, ThreadOK
  <2>3. ~Has(chain', Restart) /\ \A i \in DOMAIN chain' : FALSE
    BY <2>2, HasNothing
  <2>4. /\ sim'.paused = sim.paused
        /\ ~sim.running /\ Head(chain) # Restart => ~sim'.running
    <3>1. Head(chain) \in Jobs
      BY <1>3, <2>1, Taken
    <3>2. CASE Head(chain).kind = "rename"
      BY <1>3, <2>1, <3>2
    <3>3. CASE Head(chain) = [kind |-> "recover", resumes |-> FALSE]
      BY <1>3, <2>1, <3>3
    <3>4. CASE Head(chain) = Restart
      BY <1>3, <2>1, <3>4 DEF Restart
    <3> QED
      BY <3>1, <3>2, <3>3, <3>4 DEF Jobs, Restart
  <2>5. Head(chain) = Restart => Has(chain, Restart)
    BY <1>3, <2>1, HasTaken
  <2>6. WorldStill => WorldStill'
    BY <2>3, <2>4, <2>5 DEF WorldStill
  <2> QED
    BY <1>1, <1>2, <1>3, <2>3, <2>4, <2>6
       DEF PauseInv, SettledMeansStill, PausedOrStuck
<1> QED
  BY <1>4, <1>5, <1>6
-----------------------------------------------------------------------------
(* Taking a message keeps the order of those that are left.                *)
LEMMA OrderAfterTake ==
  ASSUME LoopInv, Ordered, inbox # << >>, inbox' = Tail(inbox),
         ops' = ops \/ (Head(inbox) \in Ops /\ ops' = Append(ops, Head(inbox)))
  PROVE  Ordered'
<1>1. ops \in Seq(Ops) /\ inbox \in Seq(Ops \cup {"resume"})
  BY DEF LoopInv, TypeOK, QueueOK
<1> DEFINE m == Len(ops)
           n == Len(inbox)
<1>2. /\ n \in Nat \ {0} /\ DOMAIN inbox = 1 .. n /\ DOMAIN inbox' = 1 .. n - 1
      /\ \A i \in 1 .. n - 1 : inbox'[i] = inbox[i + 1]
      /\ Head(inbox) = inbox[1]
  BY <1>1, Taken
<1>3. m \in Nat /\ DOMAIN ops = 1 .. m
  BY <1>1
<1> HIDE DEF m, n
<1>4. \A i \in 1 .. n - 1 : i + 1 \in 1 .. n /\ 1 < i + 1
  BY <1>2
<1>5. \A i, j \in 1 .. n - 1 : i < j => InTurn(inbox'[i], inbox'[j])
  BY <1>2, <1>4 DEF Ordered
<1>6. CASE ops' = ops
  BY <1>2, <1>3, <1>4, <1>5, <1>6 DEF Ordered
<1>7. CASE Head(inbox) \in Ops /\ ops' = Append(ops, Head(inbox))
  <2>1. /\ DOMAIN ops' = 1 .. m + 1 /\ ops'[m + 1] = inbox[1]
        /\ \A i \in 1 .. m : ops'[i] = ops[i]
    BY <1>1, <1>2, <1>7, Appended DEF m
  <2>2. ASSUME NEW i \in 1 .. m + 1, NEW j \in 1 .. m + 1, i < j
        PROVE  InTurn(ops'[i], ops'[j])
    <3>1. CASE j = m + 1
      <4>1. i \in 1 .. m /\ 1 \in 1 .. n
        BY <1>2, <1>3, <2>2, <3>1
      <4> QED
        BY <4>1, <3>1, <1>2, <1>3, <2>1 DEF Ordered
    <3>2. CASE j # m + 1
      <4>1. i \in 1 .. m /\ j \in 1 .. m
        BY <1>3, <2>2, <3>2
      <4> QED
        BY <4>1, <1>3, <2>1, <2>2 DEF Ordered
    <3> QED
      BY <3>1, <3>2
  <2>3. ASSUME NEW i \in 1 .. m + 1, NEW j \in 1 .. n - 1
        PROVE  InTurn(ops'[i], inbox'[j])
    <3>1. CASE i = m + 1
      <4>1. 1 \in 1 .. n /\ j + 1 \in 1 .. n /\ 1 < j + 1
        BY <1>2
      <4> QED
        BY <4>1, <3>1, <1>2, <2>1 DEF Ordered
    <3>2. CASE i # m + 1
      <4>1. i \in 1 .. m /\ j + 1 \in 1 .. n
        BY <1>2, <1>3, <3>2
      <4> QED
        BY <4>1, <1>2, <1>3, <2>1 DEF Ordered
    <3> QED
      BY <3>1, <3>2
  <2> QED
    BY <1>2, <1>5, <2>1, <2>2, <2>3 DEF Ordered
<1> QED
  BY <1>6, <1>7

(* The end of the first op keeps the order, and says what no longer waits. *)
LEMMA OrderAfterOp ==
  ASSUME LoopInv, Ordered, ops # << >>, ops' = Tail(ops), inbox' = inbox
  PROVE  /\ Ordered'
         /\ Head(ops) \in Ops
         /\ \A x \in Ops : x # Head(ops) => (Waits(x)' <=> Waits(x))
         /\ Head(ops) \in {"sim-pause", "sim-resume"} => ~Waits("sim-resume")'
         /\ Head(ops) = "sim-pause" => ~Waits("sim-pause")'
<1>1. ops \in Seq(Ops) /\ inbox \in Seq(Ops \cup {"resume"})
  BY DEF LoopInv, TypeOK, QueueOK
<1> DEFINE m == Len(ops)
<1>2. /\ m \in Nat \ {0} /\ DOMAIN ops = 1 .. m /\ DOMAIN ops' = 1 .. m - 1
      /\ \A i \in 1 .. m - 1 : ops'[i] = ops[i + 1]
      /\ Head(ops) = ops[1] /\ Head(ops) \in Ops
  BY <1>1, Taken
<1> HIDE DEF m
<1>3. /\ \A i \in 1 .. m - 1 : i + 1 \in 1 .. m /\ 1 < i + 1
      /\ 1 \in 1 .. m
  BY <1>2
<1>4. Ordered'
  <2>1. \A i, j \in 1 .. m - 1 : i < j => InTurn(ops'[i], ops'[j])
    BY <1>2, <1>3 DEF Ordered
  <2> QED
    BY <1>2, <1>3, <2>1 DEF Ordered
<1>5. \A x \in Ops : x # Head(ops) => (Waits(x)' <=> Waits(x))
  BY <1>1, HasTaken DEF Waits
<1>6. ASSUME NEW x, Waits(x)' PROVE InTurn(Head(ops), x)
  <2>1. CASE Has(Tail(ops), x)
    <3>1. PICK i \in 1 .. m - 1 : ops'[i] = x
      BY <1>2, <2>1 DEF Has
    <3> QED
      BY <3>1, <1>2, <1>3 DEF Ordered
  <2>2. CASE Has(inbox, x)
    BY <1>2, <1>3, <2>2 DEF Has, Ordered
  <2> QED
    BY <1>6, <2>1, <2>2 DEF Waits
<1>7. Head(ops) \in {"sim-pause", "sim-resume"} => ~Waits("sim-resume")'
  BY <1>6 DEF InTurn
<1>8. Head(ops) = "sim-pause" => ~Waits("sim-pause")'
  BY <1>6 DEF InTurn
<1> QED
  BY <1>2, <1>4, <1>5, <1>7, <1>8

(* What the first op of the queue says of the messages behind it.          *)
LEMMA FirstWaits ==
  ASSUME LoopInv, Ordered, ops # << >>
  PROVE  /\ Waits(Head(ops))
         /\ Head(ops) = "sim-pause" => ~Waits("sim-resume")
<1>1. ops \in Seq(Ops) /\ inbox \in Seq(Ops \cup {"resume"})
  BY DEF LoopInv, TypeOK, QueueOK
<1> DEFINE m == Len(ops)
<1>2. m \in Nat \ {0} /\ DOMAIN ops = 1 .. m /\ Head(ops) = ops[1]
  BY <1>1, Taken
<1> HIDE DEF m
<1>3. 1 \in 1 .. m /\ \A i \in 1 .. m : i = 1 \/ 1 < i
  BY <1>2
<1>4. ASSUME Head(ops) = "sim-pause", Waits("sim-resume") PROVE FALSE
  <2>1. CASE Has(ops, "sim-resume")
    <3>1. PICK i \in 1 .. m : ops[i] = "sim-resume"
      BY <1>2, <2>1 DEF Has
    <3>2. 1 < i
      BY <1>2, <1>3, <1>4, <3>1
    <3> QED
      BY <1>2, <1>3, <1>4, <3>1, <3>2 DEF Ordered, InTurn
  <2>2. CASE Has(inbox, "sim-resume")
    BY <1>2, <1>3, <1>4, <2>2 DEF Has, Ordered, InTurn
  <2> QED
    BY <1>4, <2>1, <2>2 DEF Waits
<1> QED
  BY <1>2, <1>3, <1>4 DEF Waits, Has

(* A message that moves to the op queue, or a resume of the loop that is   *)
(* taken, changes nothing that the page and the world agree on.            *)
LEMMA TakeAgreement ==
  ASSUME LoopInv, PauseInv, TakesOp \/ TakesResume
  PROVE  PauseInv'
<1>1. /\ ops \in Seq(Ops) /\ inbox \in Seq(Ops \cup {"resume"})
      /\ op # "none" => ops # << >>
      /\ Ordered
  BY DEF LoopInv, TypeOK, QueueOK, PauseInv, MessagesInTurn
<1>2. /\ inbox # << >> /\ inbox' = Tail(inbox)
      /\ UNCHANGED << chain, op, sim, outbox, life, lock, job >>
  BY DEF TakesOp, TakesResume, thread, queue, page
<1>3. \/ Head(inbox) = "resume" /\ ops' = ops
      \/ Head(inbox) \in Ops /\ ops' = Append(ops, Head(inbox))
  BY <1>1, <1>2, Taken DEF TakesOp, TakesResume, queue
<1>4. Ordered'
  BY <1>1, <1>2, <1>3, OrderAfterTake
<1>5. ASSUME NEW x \in Ops PROVE Waits(x)' <=> Waits(x)
  <2>1. Has(inbox, x) <=> Head(inbox) = x \/ Has(inbox', x)
    BY <1>1, <1>2, HasTaken
  <2>2. CASE Head(inbox) = "resume" /\ ops' = ops
    BY <2>1, <2>2 DEF Waits, Ops
  <2>3. CASE Head(inbox) \in Ops /\ ops' = Append(ops, Head(inbox))
    BY <1>1, <2>1, <2>3, HasAppended DEF Waits
  <2> QED
    BY <1>3, <2>2, <2>3
<1>6. /\ Waits("sim-pause")' <=> Waits("sim-pause")
      /\ Waits("sim-resume")' <=> Waits("sim-resume")
  BY <1>5 DEF Ops
<1>7. op # "none" => Head(ops') = Head(ops)
  BY <1>1, <1>3, Appended
<1>8. LockFollowsLife' /\ OpAgrees'
  BY <1>2, <1>7 DEF PauseInv, LockFollowsLife, OneOfEach, OpAgrees, Has
<1>9. MessagesInTurn'
  BY <1>2, <1>4, <1>6
     DEF PauseInv, MessagesInTurn, OneAnswer, Answered, Has, PauseAsked
<1>10. SettledMeansStill' /\ PausedOrStuck'
  BY <1>2, <1>6
     DEF PauseInv, SettledMeansStill, PausedOrStuck, Settled, WorldStill, Answered,
         Has, PauseNeverAnswered, PauseAsked
<1> QED
  BY <1>8, <1>9, <1>10 DEF PauseInv

(* An op that begins: a pause stops the world, an export may, and a resume *)
(* that nothing has overtaken starts it.                                   *)
LEMMA OpBegins ==
  ASSUME LoopInv, PauseInv,
         PauseStarts \/ ResumeStarts \/ ExportStarts \/ ExportFlushed
  PROVE  PauseInv'
<1>1. /\ UNCHANGED << chain, inbox, ops, outbox, life, lock, job >>
      /\ sim \in [running : BOOLEAN, paused : BOOLEAN, dead : BOOLEAN]
  BY DEF PauseStarts, ResumeStarts, ExportStarts, ExportFlushed, thread, page,
         LoopInv, TypeOK, QueueOK
<1>2. /\ LockFollowsLife' /\ MessagesInTurn'
      /\ Waits("sim-pause")' <=> Waits("sim-pause")
      /\ Waits("sim-resume")' <=> Waits("sim-resume")
      /\ Answered' <=> Answered
      /\ PauseNeverAnswered' <=> PauseNeverAnswered
      /\ Has(chain, Restart)' <=> Has(chain, Restart)
  BY <1>1 DEF PauseInv, LockFollowsLife, OneOfEach, MessagesInTurn, Ordered, OneAnswer,
     Waits, Answered, Has, PauseAsked, PauseNeverAnswered, Restart
<1>3. /\ SettledMeansStill /\ PausedOrStuck /\ OpAgrees /\ MessagesInTurn
  BY DEF PauseInv
<1>4. ~sim.dead => ~Has(chain, Restart)
  BY <1>3 DEF PausedOrStuck, Has, Restart
<1>5. CASE PauseStarts
  <2>1. /\ Head(ops) = "sim-pause" /\ ops # << >> /\ op' = "flush" /\ op = "none"
        /\ ~sim.dead /\ sim' = [sim EXCEPT !.running = FALSE, !.paused = TRUE]
    BY <1>5 DEF PauseStarts, OpStarts, PauseThrows, PausedSim
  <2>2. ~sim'.running /\ sim'.paused /\ ~sim'.dead
    BY <1>1, <2>1
  <2>3. WorldStill'
    BY <1>2, <1>4, <2>1, <2>2 DEF WorldStill
  <2>4. Waits("sim-pause") /\ ~Waits("sim-resume")
    BY <2>1, FirstWaits DEF LoopInv, PauseInv, MessagesInTurn
  <2>5. ~Settled'
    BY <1>1, <1>2, <1>3, <2>4 DEF Settled, MessagesInTurn, PauseAsked
  <2>6. OpAgrees'
    BY <1>1, <2>1 DEF OpAgrees
  <2>7. SettledMeansStill' /\ PausedOrStuck'
    BY <1>1, <1>3, <2>1, <2>2, <2>3, <2>5 DEF SettledMeansStill, PausedOrStuck
  <2> QED
    BY <1>2, <2>6, <2>7 DEF PauseInv
<1>6. CASE ResumeStarts
  <2>1. /\ Head(ops) = "sim-resume" /\ ops # << >> /\ op' = "loop" /\ op = "none"
        /\ sim' = IF sim.running THEN sim
                  ELSE [sim EXCEPT !.running = TRUE, !.paused = FALSE]
    BY <1>6 DEF ResumeStarts, OpStarts, ResumedSim
  <2>2. Waits("sim-resume")
    BY <2>1, FirstWaits DEF LoopInv, PauseInv, MessagesInTurn
  <2>3. ~sim.running /\ ~Has(chain, Restart)
    BY <1>3, <2>1, <2>2 DEF SettledMeansStill, Settled, WorldStill
  <2>4. ~sim'.paused /\ sim'.dead = sim.dead
    BY <1>1, <2>1, <2>3
  <2>5. ~Settled'
    BY <1>1, <1>2, <1>3, <2>1, <2>2 DEF Settled, MessagesInTurn
  <2>6. OpAgrees'
    BY <1>1, <2>1 DEF OpAgrees
  <2>7. SettledMeansStill' /\ PausedOrStuck'
    BY <1>1, <1>2, <1>3, <2>1, <2>3, <2>4, <2>5 DEF SettledMeansStill, PausedOrStuck
  <2> QED
    BY <1>2, <2>6, <2>7 DEF PauseInv
<1>7. CASE ExportStarts
  <2>1. /\ Head(ops) = "export-world" /\ op = "none"
        /\ \/ /\ sim.running /\ ~sim.dead /\ op' = "export-flush"
              /\ sim' = [sim EXCEPT !.running = FALSE, !.paused = TRUE]
           \/ op' = "pack" /\ sim' = sim
    BY <1>7 DEF ExportStarts, PausesForExport, PauseThrows, OpStarts, PausedSim
  <2>2. OpAgrees'
    BY <1>1, <2>1 DEF OpAgrees
  <2>3. Settled' <=> Settled
    BY <1>1, <1>2, <2>1 DEF Settled
  <2>4. CASE op' = "pack" /\ sim' = sim
    <3>1. SettledMeansStill' /\ PausedOrStuck'
      BY <1>1, <1>2, <1>3, <2>3, <2>4 DEF SettledMeansStill, PausedOrStuck, WorldStill
    <3> QED
      BY <1>2, <2>2, <3>1 DEF PauseInv
  <2>5. CASE /\ sim.running /\ ~sim.dead /\ op' = "export-flush"
             /\ sim' = [sim EXCEPT !.running = FALSE, !.paused = TRUE]
    <3>1. ~sim'.running /\ sim'.paused /\ ~sim'.dead
      BY <1>1, <2>5
    <3>2. WorldStill' /\ ~Settled'
      BY <1>2, <1>3, <1>4, <2>3, <2>5, <3>1 DEF WorldStill, SettledMeansStill
    <3>3. SettledMeansStill' /\ PausedOrStuck'
      BY <1>1, <1>3, <2>5, <3>1, <3>2 DEF SettledMeansStill, PausedOrStuck
    <3> QED
      BY <1>2, <2>2, <3>3 DEF PauseInv
  <2> QED
    BY <2>1, <2>4, <2>5
<1>8. CASE ExportFlushed
  <2>1. op = "export-flush" /\ op' = "pack-running" /\ sim' = sim
    BY <1>8 DEF ExportFlushed
  <2>2. OpAgrees'
    BY <1>1, <1>3, <2>1 DEF OpAgrees
  <2>3. Settled' <=> Settled
    BY <1>1, <1>2, <2>1 DEF Settled
  <2>4. SettledMeansStill' /\ PausedOrStuck'
    BY <1>1, <1>2, <1>3, <2>1, <2>3 DEF SettledMeansStill, PausedOrStuck, WorldStill
  <2> QED
    BY <1>2, <2>2, <2>4 DEF PauseInv
<1> QED
  BY <1>5, <1>6, <1>7, <1>8

(* Posting an answer, and what is posted besides. *)
LEMMA AfterPost ==
  ASSUME LoopInv, OneAnswer, NEW r \in {"storage", "exported"},
         outbox' = Append(outbox, r)
  PROVE  /\ r = "storage" => Answered'
         /\ r = "exported" => (Answered' <=> Answered)
         /\ r = "exported" \/ ~Answered => OneAnswer'
<1>1. outbox \in Seq({"storage", "exported"})
  BY DEF LoopInv, TypeOK, PageOK
<1>2. Answered' <=> Answered \/ r = "storage"
  BY <1>1, HasAppended DEF Answered
<1> DEFINE n == Len(outbox)
<1>3. /\ n \in Nat /\ DOMAIN outbox = 1 .. n /\ DOMAIN outbox' = 1 .. n + 1
      /\ \A i \in 1 .. n : outbox'[i] = outbox[i]
      /\ outbox'[n + 1] = r
  BY <1>1, Appended
<1> HIDE DEF n
<1>4. \A i \in 1 .. n + 1 : i \in 1 .. n \/ i = n + 1
  BY <1>3
<1>5. ASSUME r = "exported" PROVE OneAnswer'
  <2>1. outbox'[n + 1] # "storage"
    BY <1>3, <1>5
  <2> QED
    BY <1>3, <1>4, <2>1 DEF OneAnswer
<1>6. ASSUME ~Answered PROVE OneAnswer'
  <2>1. \A i \in 1 .. n : outbox'[i] # "storage"
    BY <1>3, <1>6 DEF Answered, Has
  <2> QED
    BY <1>3, <1>4, <2>1 DEF OneAnswer
<1>7. r = "exported" => (Answered' <=> Answered)
  BY <1>2
<1> QED
  BY <1>2, <1>5, <1>6, <1>7

(* An op that ends: a pause is answered by a world that stays still, or    *)
(* never; nothing else sets a settled world running.                       *)
LEMMA OpFinishes ==
  ASSUME LoopInv, PauseInv,
         PauseAgain \/ PauseFails \/ PauseFlushed \/ LoopReturned
           \/ ExportFails \/ ExportPacked
  PROVE  PauseInv'
<1>1. /\ ops' = Tail(ops) /\ op' = "none"
      /\ UNCHANGED << chain, inbox, life, lock, job >>
      /\ sim \in [running : BOOLEAN, paused : BOOLEAN, dead : BOOLEAN]
  BY DEF PauseAgain, PauseFails, PauseFlushed, LoopReturned, ExportFails,
         ExportPacked, OpEnds, thread, page, LoopInv, TypeOK, QueueOK
<1>2. ops # << >>
  BY DEF PauseAgain, PauseFails, PauseFlushed, LoopReturned, ExportFails,
         ExportPacked, OpStarts, LoopInv, TypeOK, QueueOK
<1>3. /\ SettledMeansStill /\ PausedOrStuck /\ OpAgrees /\ MessagesInTurn
      /\ Ordered /\ OneAnswer
  BY DEF PauseInv, MessagesInTurn
<1>4. /\ Ordered' /\ Head(ops) \in Ops
      /\ \A x \in Ops : x # Head(ops) => (Waits(x)' <=> Waits(x))
      /\ Head(ops) \in {"sim-pause", "sim-resume"} => ~Waits("sim-resume")'
      /\ Head(ops) = "sim-pause" => ~Waits("sim-pause")'
  BY <1>1, <1>2, <1>3, OrderAfterOp
<1>5. Waits(Head(ops)) /\ (Head(ops) = "sim-pause" => ~Waits("sim-resume"))
  BY <1>2, <1>3, FirstWaits
<1>6. /\ LockFollowsLife' /\ OpAgrees'
      /\ PauseAsked' <=> PauseAsked
      /\ Has(chain, Restart)' <=> Has(chain, Restart)
  BY <1>1 DEF PauseInv, LockFollowsLife, OneOfEach, OpAgrees, Has, PauseAsked, Restart
<1>7. ~sim.dead => ~Has(chain, Restart)
  BY <1>3 DEF PausedOrStuck, Has, Restart
<1>8. CASE PauseAgain \/ PauseFlushed
  <2>1. Head(ops) = "sim-pause" /\ outbox' = Append(outbox, "storage") /\ sim' = sim
    BY <1>3, <1>8 DEF PauseAgain, PauseFlushed, Posts, OpAgrees
  <2>2. PauseAsked /\ ~Answered
    BY <1>3, <1>5, <2>1 DEF MessagesInTurn
  <2>3. WorldStill
    BY <1>3, <1>5, <1>8, <2>1
       DEF PauseAgain, PauseFlushed, SettledMeansStill, PausedOrStuck,
           PauseNeverAnswered
  <2>4. Answered' /\ OneAnswer'
    BY <1>3, <2>1, <2>2, AfterPost
  <2>5. ~Waits("sim-pause")' /\ ~Waits("sim-resume")'
    BY <1>4, <2>1
  <2>6. MessagesInTurn'
    BY <1>4, <1>6, <2>2, <2>4, <2>5 DEF MessagesInTurn
  <2>7. SettledMeansStill' /\ PausedOrStuck'
    BY <1>1, <1>3, <1>6, <2>1, <2>3 DEF SettledMeansStill, PausedOrStuck, WorldStill
  <2> QED
    BY <1>6, <2>6, <2>7 DEF PauseInv
<1>9. CASE PauseFails
  <2>1. /\ Head(ops) = "sim-pause" /\ outbox' = outbox
        /\ sim' = [[sim EXCEPT !.running = FALSE, !.paused = TRUE] EXCEPT !.dead = TRUE]
    BY <1>9 DEF PauseFails, PausedSim
  <2>2. ~sim'.running /\ sim'.dead
    BY <1>1, <2>1
  <2>3. PauseAsked /\ ~Answered
    BY <1>3, <1>5, <2>1 DEF MessagesInTurn
  <2>4. /\ ~Waits("sim-pause")' /\ ~Waits("sim-resume")' /\ ~Answered' /\ OneAnswer'
    BY <1>3, <1>4, <2>1, <2>3 DEF Answered, Has, OneAnswer
  <2>5. MessagesInTurn'
    BY <1>4, <2>4 DEF MessagesInTurn
  <2>6. PauseNeverAnswered' /\ ~Settled'
    BY <1>1, <1>6, <2>3, <2>4 DEF PauseNeverAnswered, Settled, PauseAsked
  <2>7. SettledMeansStill' /\ PausedOrStuck'
    BY <1>1, <2>2, <2>6 DEF SettledMeansStill, PausedOrStuck
  <2> QED
    BY <1>6, <2>5, <2>7 DEF PauseInv
<1>10. CASE LoopReturned
  <2>1. op = "loop" /\ Head(ops) = "sim-resume" /\ outbox' = outbox /\ sim' = sim
    BY <1>3, <1>10 DEF LoopReturned, OpAgrees
  <2>2. /\ Answered' <=> Answered
        /\ OneAnswer'
        /\ Waits("sim-pause")' <=> Waits("sim-pause")
        /\ ~Waits("sim-resume")' /\ Waits("sim-resume")
    BY <1>3, <1>4, <1>5, <2>1 DEF Answered, Has, OneAnswer, Ops
  <2>3. MessagesInTurn'
    BY <1>1, <1>3, <1>4, <1>6, <2>2 DEF MessagesInTurn
  <2>4. Settled' => Settled
    BY <1>1, <2>2 DEF Settled
  <2>5. ~PauseNeverAnswered
    BY <2>2 DEF PauseNeverAnswered
  <2>6. SettledMeansStill' /\ PausedOrStuck'
    BY <1>1, <1>3, <1>6, <2>1, <2>4, <2>5
       DEF SettledMeansStill, PausedOrStuck, WorldStill
  <2> QED
    BY <1>6, <2>3, <2>6 DEF PauseInv
<1>11. CASE ExportFails \/ ExportPacked
  <2>1. /\ Head(ops) = "export-world" /\ outbox' = Append(outbox, "exported")
        /\ op # "loop"
    BY <1>3, <1>11 DEF ExportFails, ExportPacked, Posts, OpAgrees, OpStarts
  <2>2. /\ Answered' <=> Answered
        /\ OneAnswer'
        /\ Waits("sim-pause")' <=> Waits("sim-pause")
        /\ Waits("sim-resume")' <=> Waits("sim-resume")
    BY <1>3, <1>4, <2>1, AfterPost DEF Ops
  <2>3. MessagesInTurn'
    BY <1>1, <1>3, <1>4, <1>6, <2>2 DEF MessagesInTurn
  <2>4. /\ Settled' <=> Settled
        /\ PauseNeverAnswered' <=> PauseNeverAnswered
    BY <1>1, <1>6, <2>1, <2>2 DEF Settled, PauseNeverAnswered
  <2>5. CASE sim' = sim
    <3>1. SettledMeansStill' /\ PausedOrStuck'
      BY <1>1, <1>3, <1>6, <2>4, <2>5 DEF SettledMeansStill, PausedOrStuck, WorldStill
    <3> QED
      BY <1>6, <2>3, <3>1 DEF PauseInv
  <2>6. CASE ExportFails
    <3>1. /\ sim.running
          /\ sim' = [[sim EXCEPT !.running = FALSE, !.paused = TRUE] EXCEPT !.dead = TRUE]
      BY <2>6 DEF ExportFails, PausesForExport, PausedSim
    <3>2. ~sim'.running /\ sim'.dead /\ ~Has(chain, Restart)
      BY <1>1, <1>3, <1>7, <3>1 DEF PausedOrStuck
    <3>3. SettledMeansStill' /\ PausedOrStuck'
      BY <1>1, <1>6, <3>2 DEF SettledMeansStill, PausedOrStuck, WorldStill
    <3> QED
      BY <1>6, <2>3, <3>3 DEF PauseInv
  <2>7. CASE ExportPacked /\ op = "pack-running"
    <3>1. sim' = [sim EXCEPT !.running = TRUE, !.paused = FALSE]
      BY <2>7 DEF ExportPacked, ResumesAfterExport, ResumedSim
    <3>2. ~sim'.paused /\ sim'.dead = sim.dead /\ ~Has(chain, Restart) /\ ~Settled
      BY <1>1, <1>3, <2>7, <3>1 DEF SettledMeansStill, WorldStill
    <3>3. SettledMeansStill' /\ PausedOrStuck'
      BY <1>1, <1>3, <1>6, <2>4, <3>2 DEF SettledMeansStill, PausedOrStuck
    <3> QED
      BY <1>6, <2>3, <3>3 DEF PauseInv
  <2> QED
    BY <1>11, <2>5, <2>6, <2>7 DEF ExportPacked, ResumesAfterExport
<1> QED
  BY <1>8, <1>9, <1>10, <1>11
-----------------------------------------------------------------------------
(* Posting a message that may follow every one that waits.                 *)
LEMMA OrderAfterSend ==
  ASSUME LoopInv, Ordered, NEW m \in Ops \cup {"resume"},
         inbox' = Append(inbox, m), ops' = ops,
         \A x : Waits(x) => InTurn(x, m)
  PROVE  Ordered' /\ \A x : Waits(x)' <=> Waits(x) \/ x = m
<1>1. ops \in Seq(Ops) /\ inbox \in Seq(Ops \cup {"resume"})
  BY DEF LoopInv, TypeOK, QueueOK
<1>2. \A x : Waits(x)' <=> Waits(x) \/ x = m
  BY <1>1, HasAppended DEF Waits
<1> DEFINE n == Len(inbox)
<1>3. /\ n \in Nat /\ DOMAIN inbox = 1 .. n /\ DOMAIN inbox' = 1 .. n + 1
      /\ \A i \in 1 .. n : inbox'[i] = inbox[i]
      /\ inbox'[n + 1] = m
  BY <1>1, Appended
<1> HIDE DEF n
<1>4. \A i \in 1 .. n + 1 : i \in 1 .. n \/ i = n + 1
  BY <1>3
<1>5. ASSUME NEW i \in 1 .. n + 1, NEW j \in 1 .. n + 1, i < j
      PROVE  InTurn(inbox'[i], inbox'[j])
  <2>1. i \in 1 .. n
    BY <1>3, <1>5
  <2>2. CASE j = n + 1
    BY <1>3, <2>1, <2>2 DEF Waits, Has
  <2>3. CASE j \in 1 .. n
    BY <1>3, <1>5, <2>1, <2>3 DEF Ordered
  <2> QED
    BY <1>4, <2>2, <2>3
<1>6. ASSUME NEW i \in DOMAIN ops, NEW j \in 1 .. n + 1
      PROVE  InTurn(ops[i], inbox'[j])
  <2>1. CASE j = n + 1
    BY <1>3, <2>1 DEF Waits, Has
  <2>2. CASE j \in 1 .. n
    BY <1>3, <2>2 DEF Ordered
  <2> QED
    BY <1>4, <2>1, <2>2
<1> QED
  BY <1>2, <1>3, <1>5, <1>6 DEF Ordered

(* Taking an answer. *)
LEMMA AfterAnswer ==
  ASSUME LoopInv, OneAnswer, outbox # << >>, outbox' = Tail(outbox)
  PROVE  /\ OneAnswer' /\ (Answered' => Answered)
         /\ Head(outbox) = "storage" => Answered /\ ~Answered'
<1>1. outbox \in Seq({"storage", "exported"})
  BY DEF LoopInv, TypeOK, PageOK
<1> DEFINE n == Len(outbox)
<1>2. /\ n \in Nat \ {0} /\ DOMAIN outbox = 1 .. n /\ DOMAIN outbox' = 1 .. n - 1
      /\ \A i \in 1 .. n - 1 : outbox'[i] = outbox[i + 1]
      /\ Head(outbox) = outbox[1]
  BY <1>1, Taken
<1> HIDE DEF n
<1>3. /\ 1 \in 1 .. n
      /\ \A i \in 1 .. n - 1 : i + 1 \in 1 .. n /\ i + 1 # 1
      /\ \A i, j \in 1 .. n - 1 : i + 1 = j + 1 => i = j
  BY <1>2
<1>4. OneAnswer'
  BY <1>2, <1>3 DEF OneAnswer
<1>5. Answered' => Answered
  BY <1>2, <1>3 DEF Answered, Has
<1>6. Head(outbox) = "storage" => Answered /\ ~Answered'
  BY <1>2, <1>3 DEF OneAnswer, Answered, Has
<1> QED
  BY <1>4, <1>5, <1>6

(* A job that joins the lock. *)
LEMMA AfterJoin ==
  ASSUME LoopInv, OneOfEach, NEW k \in {"pause", "resume", "export"},
         lock' = Append(lock, k), k = "export" \/ ~Has(lock, k)
  PROVE  /\ OneOfEach' /\ \A x : Has(lock, x)' <=> Has(lock, x) \/ x = k
         /\ lock # << >> => Head(lock') = Head(lock)
<1>1. lock \in Seq({"pause", "resume", "export"})
  BY DEF LoopInv, TypeOK, PageOK
<1>2. \A x : Has(lock, x)' <=> Has(lock, x) \/ x = k
  BY <1>1, HasAppended
<1> DEFINE n == Len(lock)
<1>3. /\ n \in Nat /\ DOMAIN lock = 1 .. n /\ DOMAIN lock' = 1 .. n + 1
      /\ \A i \in 1 .. n : lock'[i] = lock[i]
      /\ lock'[n + 1] = k /\ (lock # << >> => Head(lock') = Head(lock))
  BY <1>1, Appended
<1> HIDE DEF n
<1>4. \A i \in 1 .. n + 1 : i \in 1 .. n \/ i = n + 1
  BY <1>3
<1>5. k = "export" \/ \A i \in 1 .. n : lock'[i] # k
  BY <1>3 DEF Has
<1>6. OneOfEach'
  BY <1>3, <1>4, <1>5 DEF OneOfEach
<1> QED
  BY <1>2, <1>3, <1>6

(* A job that leaves the lock. *)
LEMMA AfterLeave ==
  ASSUME LoopInv, OneOfEach, lock # << >>, lock' = Tail(lock)
  PROVE  /\ OneOfEach' /\ \A x : Has(lock, x)' => Has(lock, x)
         /\ Has(lock, Head(lock))
         /\ Head(lock) # "export" => ~Has(lock', Head(lock))
<1>1. lock \in Seq({"pause", "resume", "export"})
  BY DEF LoopInv, TypeOK, PageOK
<1> DEFINE n == Len(lock)
<1>2. /\ n \in Nat \ {0} /\ DOMAIN lock = 1 .. n /\ DOMAIN lock' = 1 .. n - 1
      /\ \A i \in 1 .. n - 1 : lock'[i] = lock[i + 1]
      /\ Head(lock) = lock[1]
  BY <1>1, Taken
<1> HIDE DEF n
<1>3. /\ 1 \in 1 .. n
      /\ \A i \in 1 .. n - 1 : i + 1 \in 1 .. n /\ i + 1 # 1
      /\ \A i, j \in 1 .. n - 1 : i # j => i + 1 # j + 1
  BY <1>2
<1>4. OneOfEach'
  BY <1>2, <1>3 DEF OneOfEach
<1>5. \A x : Has(lock, x)' => Has(lock, x)
  BY <1>2, <1>3 DEF Has
<1>6. Has(lock, Head(lock)) /\ (Head(lock) # "export" => ~Has(lock', Head(lock)))
  BY <1>2, <1>3 DEF OneOfEach, Has
<1> QED
  BY <1>4, <1>5, <1>6

(* The first job of the lock is one of its jobs.                           *)
LEMMA FirstJob ==
  ASSUME LoopInv, lock # << >>
  PROVE  Has(lock, Head(lock))
<1>1. lock \in Seq({"pause", "resume", "export"})
  BY DEF LoopInv, TypeOK, PageOK
<1> QED
  BY <1>1, HasTaken

(* The page follows its visibility, or an export is asked for.             *)
LEMMA JoinAgreement ==
  ASSUME LoopInv, PauseInv, LifePauses \/ LifeResumes \/ ExportAsked
  PROVE  PauseInv'
<1>1. /\ UNCHANGED << chain, inbox, ops, op, sim, outbox, job >>
      /\ job # "none" => lock # << >>
      /\ LockFollowsLife /\ OneOfEach /\ MessagesInTurn /\ Ordered /\ OneAnswer
      /\ OpAgrees /\ SettledMeansStill /\ PausedOrStuck
  BY DEF LifePauses, LifeResumes, ExportAsked, thread, queue, LoopInv, TypeOK,
         PageOK, PauseInv, LockFollowsLife, MessagesInTurn
<1>2. \/ life = "running" /\ life' = "pausing" /\ lock' = Append(lock, "pause")
      \/ life = "paused" /\ life' = "resuming" /\ lock' = Append(lock, "resume")
      \/ life' = life /\ lock' = Append(lock, "export")
  BY DEF LifePauses, LifeResumes, ExportAsked
<1>3. PICK k \in {"pause", "resume", "export"} :
        /\ lock' = Append(lock, k)
        /\ k = "pause" => life = "running" /\ life' = "pausing"
        /\ k = "resume" => life = "paused" /\ life' = "resuming"
        /\ k = "export" => life' = life
  BY <1>2
<1>4. k = "export" \/ ~Has(lock, k)
  BY <1>1, <1>3 DEF LockFollowsLife
<1>5. /\ OneOfEach' /\ \A x : Has(lock, x)' <=> Has(lock, x) \/ x = k
      /\ lock # << >> => Head(lock') = Head(lock)
  BY <1>1, <1>3, <1>4, AfterJoin
<1>6. LockFollowsLife'
  <2>1. Has(lock, "pause")' => life' = "pausing"
    BY <1>1, <1>3, <1>5 DEF LockFollowsLife
  <2>2. Has(lock, "resume")' => life' = "resuming"
    BY <1>1, <1>3, <1>5 DEF LockFollowsLife
  <2> QED
    BY <1>1, <1>5, <2>1, <2>2 DEF LockFollowsLife
<1>7. /\ Waits("sim-pause")' <=> Waits("sim-pause")
      /\ Waits("sim-resume")' <=> Waits("sim-resume")
      /\ Answered' <=> Answered
      /\ Ordered' /\ OneAnswer'
      /\ Has(chain, Restart)' <=> Has(chain, Restart)
  BY <1>1 DEF Waits, Answered, Has, Ordered, OneAnswer, Restart
<1>8. PauseAsked => PauseAsked'
  BY <1>1, <1>3, <1>5 DEF PauseAsked
<1>9. MessagesInTurn'
  BY <1>1, <1>3, <1>7, <1>8 DEF MessagesInTurn
<1>10. Settled' <=> Settled
  BY <1>1, <1>3, <1>7 DEF Settled
<1>11. PauseNeverAnswered => PauseNeverAnswered'
  BY <1>7, <1>8 DEF PauseNeverAnswered
<1>12. SettledMeansStill' /\ PausedOrStuck' /\ OpAgrees'
  BY <1>1, <1>7, <1>10, <1>11
     DEF SettledMeansStill, PausedOrStuck, OpAgrees, WorldStill
<1> QED
  BY <1>6, <1>9, <1>12 DEF PauseInv

(* The page asks the worker to park, and wakes it.                         *)
LEMMA AskAgreement ==
  ASSUME LoopInv, PauseInv, AsksToPark \/ WakesHost
  PROVE  PauseInv'
<1>1. /\ UNCHANGED << chain, inbox, ops, op, sim, outbox, life, lock >>
      /\ job \in {"none", "asked"} /\ job' \in {"asked", "polling"}
      /\ LockFollowsLife /\ MessagesInTurn
      /\ OpAgrees /\ SettledMeansStill /\ PausedOrStuck
  BY DEF AsksToPark, WakesHost, JobStarts, thread, queue, PauseInv
<1>2. ~PauseAsked
  BY <1>1 DEF PauseAsked
<1>3. LockFollowsLife' /\ OpAgrees'
  BY <1>1 DEF LockFollowsLife, OneOfEach, OpAgrees, Has
<1>4. /\ Waits("sim-pause")' <=> Waits("sim-pause")
      /\ Waits("sim-resume")' <=> Waits("sim-resume")
      /\ Answered' <=> Answered
      /\ Ordered' /\ OneAnswer'
      /\ Has(chain, Restart)' <=> Has(chain, Restart)
  BY <1>1 DEF MessagesInTurn, Waits, Answered, Has, Ordered, OneAnswer, Restart
<1>5. MessagesInTurn'
  BY <1>1, <1>2, <1>4 DEF MessagesInTurn
<1>6. (Settled' <=> Settled) /\ ~PauseNeverAnswered
  BY <1>1, <1>2, <1>4 DEF Settled, PauseNeverAnswered
<1>7. SettledMeansStill' /\ PausedOrStuck'
  BY <1>1, <1>4, <1>6 DEF SettledMeansStill, PausedOrStuck, WorldStill
<1> QED
  BY <1>3, <1>5, <1>7 DEF PauseInv

(* The page posts a message: a pause when none waits, a resume to a world  *)
(* that is settled, or one that neither pauses nor resumes the world.      *)
LEMMA SendAgreement ==
  ASSUME LoopInv, PauseInv,
         SeesParked \/ ExportsParked \/ PostsResume \/ Releases
  PROVE  PauseInv'
<1>1. /\ UNCHANGED << chain, ops, op, sim, outbox >>
      /\ lock # << >>
      /\ LockFollowsLife /\ OneOfEach /\ MessagesInTurn /\ Ordered /\ OneAnswer
      /\ OpAgrees /\ SettledMeansStill /\ PausedOrStuck
  BY DEF SeesParked, ExportsParked, PostsResume, Releases, JobStarts, thread,
         queue, LoopInv, TypeOK, PageOK, PauseInv, LockFollowsLife, MessagesInTurn
<1>2. OpAgrees'
  BY <1>1 DEF OpAgrees
<1>3. /\ Answered' <=> Answered
      /\ OneAnswer'
      /\ Has(chain, Restart)' <=> Has(chain, Restart)
  BY <1>1 DEF Answered, Has, OneAnswer, Restart
<1>4. ~PauseAsked
  BY <1>1 DEF SeesParked, ExportsParked, PostsResume, Releases, JobStarts,
              PauseAsked, LockFollowsLife
<1>5. ~Waits("sim-pause") /\ ~Answered /\ ~PauseNeverAnswered
  BY <1>1, <1>4 DEF MessagesInTurn, PauseNeverAnswered
<1>6. CASE SeesParked /\ Head(lock) = "pause"
  <2>1. /\ inbox' = Append(inbox, "sim-pause") /\ job' = "waiting"
        /\ UNCHANGED << life, lock >>
    BY <1>6 DEF SeesParked, PostsTo
  <2>2. \A x : Waits(x) => InTurn(x, "sim-pause")
    BY <1>5 DEF InTurn
  <2>3. Ordered' /\ \A x : Waits(x)' <=> Waits(x) \/ x = "sim-pause"
    BY <1>1, <2>1, <2>2, OrderAfterSend DEF Ops
  <2>4. life = "pausing"
    BY <1>1, <1>6, FirstJob DEF LockFollowsLife
  <2>5. PauseAsked'
    BY <1>6, <2>1, <2>4 DEF PauseAsked
  <2>6. LockFollowsLife'
    BY <1>1, <2>1 DEF LockFollowsLife, OneOfEach, Has
  <2>7. Waits("sim-pause")' /\ (Waits("sim-resume")' <=> Waits("sim-resume"))
    BY <2>3
  <2>8. MessagesInTurn'
    BY <1>1, <1>3, <1>5, <2>1, <2>3, <2>5, <2>7 DEF MessagesInTurn
  <2>9. SettledMeansStill' /\ PausedOrStuck'
    BY <1>1, <1>3, <1>5, <2>1, <2>7
       DEF SettledMeansStill, PausedOrStuck, Settled, WorldStill
  <2> QED
    BY <1>2, <2>6, <2>8, <2>9 DEF PauseInv
<1>7. CASE \/ SeesParked /\ Head(lock) # "pause"
           \/ ExportsParked \/ Releases
  <2>1. PICK m \in {"export-world", "resume"} : inbox' = Append(inbox, m)
    BY <1>7 DEF SeesParked, ExportsParked, Releases, PostsTo
  <2>2. /\ life' = life /\ Head(lock) # "pause"
        /\ \/ lock' = lock /\ job' = "waiting"
           \/ lock' = lock /\ job' = "waiting-kept" /\ Head(lock) = "export"
           \/ lock' = Tail(lock) /\ job' = "none"
    BY <1>1, <1>7 DEF SeesParked, ExportsParked, Releases, JobEnds, JobStarts,
                      LockFollowsLife
  <2>3. LockFollowsLife' /\ ~PauseAsked'
    <3>1. CASE lock' = lock
      BY <1>1, <2>2, <3>1 DEF LockFollowsLife, OneOfEach, Has, PauseAsked
    <3>2. CASE lock' = Tail(lock) /\ job' = "none"
      BY <1>1, <2>2, <3>2, AfterLeave DEF LockFollowsLife, PauseAsked
    <3> QED
      BY <2>2, <3>1, <3>2
  <2>4. \A x : Waits(x) => InTurn(x, m)
    BY DEF InTurn
  <2>5. Ordered' /\ \A x : Waits(x)' <=> Waits(x) \/ x = m
    BY <1>1, <2>1, <2>4, OrderAfterSend DEF Ops
  <2>6. /\ Waits("sim-pause")' <=> Waits("sim-pause")
        /\ Waits("sim-resume")' <=> Waits("sim-resume")
    BY <2>5
  <2>7. MessagesInTurn'
    BY <1>1, <1>3, <1>5, <2>2, <2>5, <2>6 DEF MessagesInTurn
  <2>8. SettledMeansStill' /\ PausedOrStuck'
    BY <1>1, <1>3, <1>5, <2>2, <2>6
       DEF SettledMeansStill, PausedOrStuck, Settled, WorldStill
  <2> QED
    BY <1>2, <2>3, <2>7, <2>8 DEF PauseInv
<1>8. CASE PostsResume
  <2>1. /\ inbox' = Append(inbox, "sim-resume") /\ Head(lock) = "resume"
        /\ life' = "running" /\ job' = "none" /\ lock' = Tail(lock)
    BY <1>8 DEF PostsResume, PostsTo, JobStarts, JobEnds
  <2>2. /\ OneOfEach' /\ \A x : Has(lock, x)' => Has(lock, x)
        /\ Has(lock, "resume") /\ ~Has(lock, "resume")'
    BY <1>1, <2>1, AfterLeave
  <2>3. life = "resuming"
    BY <1>1, <2>2 DEF LockFollowsLife
  <2>4. LockFollowsLife'
    BY <1>1, <2>1, <2>2, <2>3 DEF LockFollowsLife
  <2>5. ~Waits("sim-resume") /\ Settled
    BY <1>1, <2>3 DEF MessagesInTurn, Settled
  <2>6. \A x : Waits(x) => InTurn(x, "sim-resume")
    BY <1>5, <2>5 DEF InTurn
  <2>7. Ordered' /\ \A x : Waits(x)' <=> Waits(x) \/ x = "sim-resume"
    BY <1>1, <2>1, <2>6, OrderAfterSend DEF Ops
  <2>8. MessagesInTurn'
    BY <1>3, <1>5, <2>1, <2>7 DEF MessagesInTurn
  <2>9. SettledMeansStill' /\ PausedOrStuck'
    BY <1>1, <1>3, <1>5, <2>5 DEF SettledMeansStill, PausedOrStuck, WorldStill
  <2> QED
    BY <1>2, <2>4, <2>8, <2>9 DEF PauseInv
<1> QED
  BY <1>6, <1>7, <1>8

(* The page takes an answer.                                               *)
LEMMA AnswerAgreement ==
  ASSUME LoopInv, PauseInv, PauseSettled \/ ExportSettled
  PROVE  PauseInv'
<1>1. /\ UNCHANGED << chain, inbox, ops, op, sim >>
      /\ lock # << >> /\ outbox # << >> /\ outbox' = Tail(outbox)
      /\ LockFollowsLife /\ OneOfEach /\ MessagesInTurn /\ Ordered /\ OneAnswer
      /\ OpAgrees /\ SettledMeansStill /\ PausedOrStuck
  BY DEF PauseSettled, ExportSettled, thread, queue, LoopInv, TypeOK, PageOK,
         PauseInv, LockFollowsLife, MessagesInTurn
<1>2. OpAgrees'
  BY <1>1 DEF OpAgrees
<1>3. /\ Waits("sim-pause")' <=> Waits("sim-pause")
      /\ Waits("sim-resume")' <=> Waits("sim-resume")
      /\ Ordered'
      /\ Has(chain, Restart)' <=> Has(chain, Restart)
  BY <1>1 DEF Waits, Has, Ordered, Restart
<1>4. /\ OneAnswer' /\ (Answered' => Answered)
      /\ Head(outbox) = "storage" => Answered /\ ~Answered'
  BY <1>1, AfterAnswer
<1>5. CASE PauseSettled
  <2>1. /\ Head(lock) = "pause" /\ Head(outbox) = "storage"
        /\ life' = "paused" /\ lock' = Tail(lock) /\ job' = "none"
    BY <1>5 DEF PauseSettled, JobEnds
  <2>2. /\ PauseAsked /\ ~Waits("sim-pause") /\ ~Waits("sim-resume") /\ Settled
        /\ ~PauseNeverAnswered
    BY <1>1, <1>4, <2>1 DEF MessagesInTurn, Settled, PauseNeverAnswered
  <2>3. /\ OneOfEach' /\ \A x : Has(lock, x)' => Has(lock, x)
        /\ ~Has(lock, "pause")'
    BY <1>1, <2>1, AfterLeave
  <2>4. LockFollowsLife'
    BY <1>1, <2>1, <2>2, <2>3 DEF LockFollowsLife, PauseAsked
  <2>5. MessagesInTurn'
    BY <1>3, <1>4, <2>1, <2>2 DEF MessagesInTurn
  <2>6. SettledMeansStill' /\ PausedOrStuck'
    BY <1>1, <1>3, <2>2 DEF SettledMeansStill, PausedOrStuck, WorldStill
  <2> QED
    BY <1>2, <2>4, <2>5, <2>6 DEF PauseInv
<1>6. CASE ExportSettled
  <2>1. /\ Head(lock) = "export" /\ life' = life
        /\ \/ lock' = lock /\ job' = "releasing"
           \/ lock' = Tail(lock) /\ job' = "none"
    BY <1>6 DEF ExportSettled, JobEnds
  <2>2. ~PauseAsked /\ ~Answered /\ ~Waits("sim-pause") /\ ~PauseNeverAnswered
    BY <1>1, <2>1 DEF PauseAsked, MessagesInTurn, PauseNeverAnswered
  <2>3. LockFollowsLife'
    <3>1. CASE lock' = lock
      BY <1>1, <2>1, <3>1 DEF LockFollowsLife, OneOfEach, Has
    <3>2. CASE lock' = Tail(lock) /\ job' = "none"
      BY <1>1, <2>1, <3>2, AfterLeave DEF LockFollowsLife
    <3> QED
      BY <2>1, <3>1, <3>2
  <2>4. MessagesInTurn'
    BY <1>1, <1>3, <1>4, <2>1, <2>2 DEF MessagesInTurn
  <2>5. Settled' => Settled
    BY <1>1, <1>3, <1>4, <2>1 DEF Settled
  <2>6. SettledMeansStill' /\ PausedOrStuck'
    BY <1>1, <1>3, <2>2, <2>5 DEF SettledMeansStill, PausedOrStuck, WorldStill
  <2> QED
    BY <1>2, <2>3, <2>4, <2>6 DEF PauseInv
<1> QED
  BY <1>5, <1>6
-----------------------------------------------------------------------------
(* Every step keeps the invariant.                                         *)
LEMMA NextHost == ASSUME HostInv, [Next]_vars PROVE HostInv'
<1>1. LoopInv /\ PauseInv
  BY DEF HostInv, LoopInv, PauseInv
<1>2. LoopInv'
  BY <1>1, LoopStep, EventStep, PageStep DEF Next
<1>3. PauseInv'
  <2>1. CASE UNCHANGED << chain, inbox, queue, outbox, life, lock, job >>
    BY <1>1, <2>1, AgreementFrame
  <2>2. CASE BodyPassRenames \/ BodyPassTraps \/ JobSettles
    BY <1>1, <2>2, JobAgreement
  <2>3. CASE TakesOp \/ TakesResume
    BY <1>1, <2>3, TakeAgreement
  <2>4. CASE PauseStarts \/ ResumeStarts \/ ExportStarts \/ ExportFlushed
    BY <1>1, <2>4, OpBegins
  <2>5. CASE \/ PauseAgain \/ PauseFails \/ PauseFlushed \/ LoopReturned
             \/ ExportFails \/ ExportPacked
    BY <1>1, <2>5, OpFinishes
  <2>6. CASE LifePauses \/ LifeResumes \/ ExportAsked
    BY <1>1, <2>6, JoinAgreement
  <2>7. CASE AsksToPark \/ WakesHost
    BY <1>1, <2>7, AskAgreement
  <2>8. CASE SeesParked \/ ExportsParked \/ PostsResume \/ Releases
    BY <1>1, <2>8, SendAgreement
  <2>9. CASE PauseSettled \/ ExportSettled
    BY <1>1, <2>9, AnswerAgreement
  <2>10. \/ BodyPass \/ Checks \/ WaitEnds \/ WaitTimesOut \/ Woken \/ Parks
         \/ Observes \/ Unparks \/ ClearsYield \/ Push \/ Wakes \/ Flips
         \/ UNCHANGED vars
         => UNCHANGED << chain, inbox, queue, outbox, life, lock, job >>
    BY DEF BodyPass, Checks, WaitEnds, WaitTimesOut, Woken, Parks, Observes,
           Unparks, ClearsYield, Push, Wakes, Flips, vars, thread, page, queue
  <2> QED
    BY <2>1, <2>2, <2>3, <2>4, <2>5, <2>6, <2>7, <2>8, <2>9, <2>10
       DEF Next, Loop, Events, Page, Environment
<1> QED
  BY <1>2, <1>3 DEF HostInv, LoopInv, PauseInv

(* The invariant holds in every reachable state.                           *)
THEOREM HostInvariant == Spec => []HostInv
<1>1. Init => HostInv
  BY InitHost
<1>2. HostInv /\ [Next]_vars => HostInv'
  BY NextHost
<1> QED
  BY <1>1, <1>2, PTL DEF Spec

(* Type correctness of the worker, its queues and the page. *)
THEOREM HostTypeOK == Spec => []TypeOK
<1>1. HostInv => TypeOK
  BY DEF HostInv
<1> QED
  BY <1>1, HostInvariant, PTL

(* A worker that reads as parked is one that a message reaches (shell.ts,  *)
(* "coherence for parkWorkers").                                           *)
THEOREM HostParkedMeansReachable == Spec => []ParkedMeansReachable
<1>1. HostInv => ParkedMeansReachable
  BY DEF HostInv
<1> QED
  BY <1>1, HostInvariant, PTL

(* No resume re-enters the loop over a runAsync job (Shell.resume).        *)
THEOREM HostJobNeverStarved == Spec => []JobNeverStarved
<1>1. HostInv => JobNeverStarved
  BY DEF HostInv
<1> QED
  BY <1>1, HostInvariant, PTL

(* From the answer to its pause to the page's resume, the world runs no    *)
(* tick, whatever exports, traps and recoveries meet it (pauseHostWorker,  *)
(* makeWorldOpHandler, SimHost.recover).                                   *)
THEOREM HostPausedWorldIsStill == Spec => []PausedWorldIsStill
<1>1. HostInv => PausedWorldIsStill
  BY DEF HostInv, SettledMeansStill, Settled, WorldStill, PausedWorldIsStill
<1> QED
  BY <1>1, HostInvariant, PTL
=============================================================================
