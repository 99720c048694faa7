----------------------- MODULE PersistenceProperties -----------------------
(***************************************************************************)
(* What a world's log, snapshots and recovery owe its players.             *)
(***************************************************************************)
EXTENDS Persistence

(* The state of a live world: between its awaits the process has one. *)
Playing == mode \in {"running", "stopping", "paused"}

Modes == {"running", "trapped", "recovering", "rebinding", "stopping", "paused",
          "off", "healing", "pruning", "failed", "fatal"}

Applied(s) == { s.world[k].id : k \in DOMAIN s.world }

(* Every variable has its type; durable never exceeds what was handed over. *)
TypeOK ==
  /\ mode \in Modes
  /\ nextAction \in 1 .. MaxAction + 1
  /\ \A s \in Segments : 0 <= safe[s] /\ safe[s] <= asked[s]
                         /\ asked[s] <= Len(log[s])
  /\ sim.tick \in Ticks /\ sim.faulted \subseteq Actions
  /\ sim.trap = NoTrap
  /\ host.segment \in Segments /\ host.logOffset \in Nat
  /\ sealedTick \in [Actions -> Ticks]
  /\ excused \subseteq Actions

(* No admitted action is lost: once its frame has been handed to the log,  *)
(* an action is in every live world after it, applied or (when its apply   *)
(* traps) answered with a fault; only an OS crash inside the sync window   *)
(* excuses it.  Whatever mix of crashes, replays, skips, truncations,      *)
(* rolls and prunes came between.                                          *)
NoLoggedActionLost ==
  Playing =>
    \A a \in Actions :
      sealedTick[a] # 0 /\ a \notin excused => a \in Applied(sim) \cup sim.faulted

(* Replay is exact: every action in the world was applied once, in the     *)
(* order and at the tick it was logged for, however many loads rebuilt it. *)
ReplayMatchesLive ==
  \A k \in DOMAIN sim.world :
    /\ sim.world[k].tick = sealedTick[sim.world[k].id]
    /\ k > 1 => sim.world[k - 1].id < sim.world[k].id

(* A Skip frame steps over the record that trapped and no other. *)
OnlyPoisonFaulted == sim.faulted \subseteq Poison /\ Applied(sim) \cap Poison = {}

(* The host owns the log position: what it believes it has appended is     *)
(* what the open segment holds, and all of it parses from the header on.   *)
LogPositionExact ==
  Playing =>
    /\ Len(log[host.segment]) = host.logOffset
    /\ ValidEnd(log[host.segment], HeaderLen) = host.logOffset

(* What crashes, rolls, skips and prunes must leave whole, wherever the    *)
(* log is cut and whichever writes are lost: nothing but the sync window   *)
(* is gone, the replay is exact, only what traps is skipped, and the host  *)
(* resumes at the log's end (persistence.ts, load and truncate;            *)
(* docs/architecture/persistence.md).                                      *)
CrashConsistent ==
  NoLoggedActionLost /\ ReplayMatchesLive /\ OnlyPoisonFaulted /\ LogPositionExact

(* No two sessions welcome connections under one epoch, so a chunk a       *)
(* client kept is never matched against another session's versions.        *)
EpochNeverReused ==
  \A i, j \in DOMAIN welcomed : i < j => welcomed[i] < welcomed[j]

(* Pruning never takes the snapshot a segment of the manifest starts from. *)
BaseSnapshotsKept ==
  Playing =>
    \A i \in DOMAIN host.manifest.segments :
      LET base == host.manifest.segments[i].base
      IN  base # GenesisBase => snaps[base].ok

(* A trap is recovered from: the world runs again or dies on its loop      *)
(* guard, never on a record it keeps tripping over.                        *)
TrapRecovered ==
  mode = "trapped" ~>
    \/ mode \in {"running", "off"}
    \/ mode = "fatal" /\ recovery.skips < MaxSkipIterations
=============================================================================
