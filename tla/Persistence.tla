---------------------------- MODULE Persistence ----------------------------
(***************************************************************************)
(* A world's write-ahead log, its snapshots and its manifest, and the      *)
(* process that keeps them: packages/engine/src/host/persistence.ts and    *)
(* recovery.ts, driven by the tick procedure of server.ts over the sim     *)
(* exports of crates/engine/src/host/mod.rs.                               *)
(*                                                                         *)
(* What the process hands to storage is visible to its own reads at once;  *)
(* it is durable later.  A tab close keeps what was appended and may lose  *)
(* a replace still in flight; an operating-system crash also cuts a log    *)
(* anywhere past its last finished sync.                                   *)
(***************************************************************************)
EXTENDS Integers, Sequences, FiniteSets, FrameLog

CONSTANTS
  MaxAction,          \* bound: the actions admitted are 1 .. MaxAction
  MaxTick,            \* bound: the ticks run
  MaxSegment,         \* bound: the last segment a roll may open
  MaxTabCrash,        \* bound: tab closes, process kills
  MaxOsCrash,         \* bound: operating-system crashes
  MaxExit,            \* bound: clean exits after a pause
  MaxSnapshotTrap,    \* bound: traps inside sim_snapshot_begin
  MaxCorrupt,         \* bound: stored snapshots whose checksum goes bad
  SnapshotEvery,      \* SNAPSHOT_EVERY_TICKS
  SyncEvery,          \* ticksPerSecond: at most one sync a second
  RollAt,             \* SEGMENT_ROLL_BYTES, in cells
  RecoveryLimit,      \* RECOVERY_LOOP_LIMIT
  GoodTicksReset,     \* RECOVERY_GOOD_TICKS_RESET
  MaxSkipIterations,  \* MAX_SKIP_ITERATIONS
  CreateSettled,      \* the world's creation is durable before it starts
  WritesLag,          \* a crash may lose a whole-key write still in flight
  SnapshotOutrunsLog  \* a snapshot may be durable before the log it names

ASSUME BoundsAreNaturals ==
  /\ {MaxAction, MaxTick, MaxSegment, MaxTabCrash, MaxOsCrash, MaxExit,
      MaxSnapshotTrap, MaxCorrupt, SyncEvery, SnapshotEvery, RollAt,
      RecoveryLimit, GoodTicksReset, MaxSkipIterations} \subseteq Nat
  /\ Poison \subseteq 1 .. MaxAction
  /\ {CreateSettled, WritesLag, SnapshotOutrunsLog} \subseteq BOOLEAN

Actions  == 1 .. MaxAction
Ticks    == 0 .. MaxTick
Segments == 0 .. MaxSegment

VARIABLES
  log,          \* segment -> the cells under keys.log(segment)
  safe,         \* segment -> how many of them are durable
  asked,        \* segment -> how many the last sync was asked to cover
  snaps,        \* tick -> the snapshot under keys.snap(tick)
  snapsDur,     \* the same, as a crash would find it
  manifest,     \* keys.manifest
  manifestDur,  \* the same, as a crash would find it
  mode,         \* what the process is doing
  host,         \* the fields of the live Persistence
  sim,          \* the sim instance, with its pending records
  recovery,     \* the loop guard of SimHost.recover, the skips of one call
  nextAction,   \* the next action a client submits
  sealedTick,   \* history: action -> the tick it was logged for, 0 if none
  excused,      \* history: logged actions an OS crash was free to lose
  welcomed,     \* history: the epochs connections were welcomed under
  faults        \* the environment's faults so far

storage == << log, safe, asked, snaps, snapsDur, manifest, manifestDur >>
history == << sealedTick, excused, welcomed >>
vars == << storage, mode, host, sim, recovery, nextAction, history, faults >>
-----------------------------------------------------------------------------
GenesisBase == -1
NoSnap      == [ok |-> FALSE, none |-> TRUE]
NoManifest  == [epoch |-> -1, segments |-> << >>]

FreshManifest ==
  [epoch |-> 0, segments |-> << [index |-> 0, base |-> GenesisBase] >>]

(* What sim_genesis leaves. *)
GenesisSim ==
  [tick |-> 0, lastLogged |-> 0, world |-> << >>, faulted |-> {},
   trap |-> NoTrap, pending |-> << >>, dirty |-> FALSE]

(* The fields a constructor or a rebind gives the live Persistence. *)
HostAt(segment, logOffset, m) ==
  [segment |-> segment, logOffset |-> logOffset, manifest |-> m,
   sinceSnapshot |-> 0, sinceSync |-> 0, appended |-> FALSE]

NoRecovery == [count |-> 0, good |-> 0, skips |-> 0]

(* No process, and storage that has never held the world. *)
Init ==
  /\ log = [s \in Segments |-> << >>]
  /\ safe = [s \in Segments |-> 0]
  /\ asked = safe
  /\ snaps = [t \in Ticks |-> NoSnap]
  /\ snapsDur = snaps
  /\ manifest = NoManifest
  /\ manifestDur = NoManifest
  /\ mode = "off"
  /\ host = HostAt(0, 0, NoManifest)
  /\ sim = GenesisSim
  /\ recovery = NoRecovery
  /\ nextAction = 1
  /\ sealedTick = [a \in Actions |-> 0]
  /\ excused = {}
  /\ welcomed = << >>
  /\ faults = [tab |-> 0, os |-> 0, exit |-> 0, snapshot |-> 0, corrupt |-> 0]
-----------------------------------------------------------------------------
(* Sealing: sim_seal_frame hands the pending records to appendFrame before *)
(* the tick that applies them runs.                                        *)
NextTick == sim.tick + 1
Sealing  == sim.pending # << >>

SealedLog ==
  IF Sealing
  THEN [log EXCEPT ![host.segment] =
          @ \o Frame(NextTick - sim.lastLogged, sim.pending)]
  ELSE log

SealedHost ==
  IF Sealing
  THEN [host EXCEPT !.logOffset = @ + FrameLen, !.appended = TRUE]
  ELSE host

SealedTick ==
  [a \in Actions |->
     IF a \in ToSet(sim.pending) THEN NextTick ELSE sealedTick[a]]

(* A completed sim_tick.  The game may have written to the world by itself *)
(* (put) or not.                                                           *)
TickedSim(put) ==
  [sim EXCEPT !.tick = NextTick,
              !.lastLogged = IF Sealing THEN NextTick ELSE @,
              !.world = @ \o [k \in DOMAIN sim.pending |->
                                [id |-> sim.pending[k], tick |-> NextTick]],
              !.pending = << >>,
              !.dirty = @ \/ put \/ Sealing]

(* rollSegmentIfNeeded: the new segment's header is appended, and only the *)
(* copy of the manifest in memory changes.                                 *)
RollsNow(h) == h.logOffset >= RollAt /\ h.segment < MaxSegment

RolledLog(h, l) ==
  IF RollsNow(h) THEN [l EXCEPT ![h.segment + 1] = @ \o Header] ELSE l

(* A mutant: the new segment keeps the old one's log position.             *)
RolledHostKeepsOffset(h, tick) ==
  IF RollsNow(h)
  THEN [h EXCEPT !.segment = @ + 1,
                 !.manifest.segments =
                    Append(@, [index |-> h.segment + 1, base |-> tick])]
  ELSE h

RolledHost(h, tick) ==
  IF RollsNow(h)
  THEN [h EXCEPT !.segment = @ + 1,
                 !.logOffset = HeaderLen,
                 !.manifest.segments =
                    Append(@, [index |-> h.segment + 1, base |-> tick])]
  ELSE h

(* Opening a segment restarts the tick deltas of its frames.               *)
RolledSim(h, s) == IF RollsNow(h) THEN [s EXCEPT !.lastLogged = s.tick] ELSE s

(* A mutant: the position is that of the frame about to be written.        *)
SnapshotOfNextFrame(s, h) ==
  [ok |-> TRUE, tick |-> s.tick, lastLogged |-> s.lastLogged,
   world |-> s.world, faulted |-> s.faulted,
   segment |-> h.segment, offset |-> h.logOffset + FrameLen]

(* A mutant: a snapshot restarts the deltas of the segment it is taken in. *)
SnapshotOfRestartsDeltas(s, h) ==
  [ok |-> TRUE, tick |-> s.tick, lastLogged |-> s.tick,
   world |-> s.world, faulted |-> s.faulted,
   segment |-> h.segment, offset |-> h.logOffset]

(* What snapshotNow writes: the world at its tick and the log position     *)
(* replay continues from.                                                  *)
SnapshotOf(s, h) ==
  [ok |-> TRUE, tick |-> s.tick, lastLogged |-> s.lastLogged,
   world |-> s.world, faulted |-> s.faulted,
   segment |-> h.segment, offset |-> h.logOffset]

(* The storage calls of snapshotNow, from the host and sim a tick or a     *)
(* pause hands it.                                                         *)
SnapshotNow(s, h, l) ==
  LET rolled == RolledHost(h, s.tick)
      at     == RolledSim(h, s)
  IN  /\ log' = RolledLog(h, l)
      /\ snaps' = [snaps EXCEPT ![s.tick] = SnapshotOf(at, rolled)]
      /\ manifest' = IF RollsNow(h) THEN rolled.manifest ELSE manifest
      /\ sim' = [at EXCEPT !.dirty = FALSE]

(* The counters of afterTick, and its sync of the open segment. *)
SnapshotDue == host.sinceSnapshot + 1 >= SnapshotEvery
SyncDue(h)  == h.appended /\ h.sinceSync + 1 >= SyncEvery

Counted(h) ==
  [h EXCEPT !.sinceSnapshot = IF SnapshotDue THEN 0 ELSE @ + 1,
            !.sinceSync = IF SyncDue(h) THEN 0 ELSE @ + 1,
            !.appended = IF SyncDue(h) THEN FALSE ELSE @]

AskSync(h, l) ==
  asked' = IF SyncDue(h) THEN [asked EXCEPT ![h.segment] = Len(l[h.segment])]
                         ELSE asked

GoodTick ==
  recovery' = [recovery EXCEPT
                 !.good = IF @ < GoodTicksReset THEN @ + 1 ELSE @,
                 !.count = IF recovery.good + 1 >= GoodTicksReset
                           THEN 0 ELSE @]
-----------------------------------------------------------------------------
(* A connection's uplink: the action joins the records of the next tick.   *)
Admit ==
  /\ mode = "running"
  /\ nextAction <= MaxAction
  /\ sim' = [sim EXCEPT !.pending = Append(@, nextAction)]
  /\ nextAction' = nextAction + 1
  /\ UNCHANGED << storage, mode, host, recovery, history, faults >>

TickStarts == mode = "running" /\ sim.tick < MaxTick
Traps == ToSet(sim.pending) \cap Poison # {}

(* The tick traps in the apply of one of its records: the frame is in the  *)
(* log, the instance is garbage.                                           *)
TickTraps ==
  /\ TickStarts
  /\ Traps
  /\ log' = SealedLog
  /\ host' = SealedHost
  /\ sealedTick' = SealedTick
  /\ mode' = "trapped"
  /\ UNCHANGED << safe, asked, snaps, snapsDur, manifest, manifestDur, sim,
                  recovery, nextAction, excused, welcomed, faults >>

(* A tick that takes no snapshot. *)
TickPlain ==
  /\ TickStarts
  /\ ~Traps
  /\ \E put \in BOOLEAN :
       /\ ~(SnapshotDue /\ TickedSim(put).dirty)
       /\ sim' = TickedSim(put)
  /\ log' = SealedLog
  /\ host' = Counted(SealedHost)
  /\ AskSync(SealedHost, SealedLog)
  /\ sealedTick' = SealedTick
  /\ GoodTick
  /\ UNCHANGED << safe, snaps, snapsDur, manifest, manifestDur, mode,
                  nextAction, excused, welcomed, faults >>

(* A tick whose afterTick takes the periodic snapshot, and rolls the       *)
(* segment first when it has grown to its limit.                           *)
TickSnapshots ==
  /\ TickStarts
  /\ ~Traps
  /\ SnapshotDue
  /\ \E put \in BOOLEAN :
       /\ TickedSim(put).dirty
       /\ SnapshotNow(TickedSim(put), SealedHost, SealedLog)
  /\ LET rolled == RolledHost(SealedHost, NextTick)
     IN  /\ host' = Counted(rolled)
         /\ AskSync(rolled, RolledLog(SealedHost, SealedLog))
  /\ sealedTick' = SealedTick
  /\ GoodTick
  /\ UNCHANGED << safe, snapsDur, manifestDur, mode, nextAction, excused,
                  welcomed, faults >>

(* The same tick, when sim_snapshot_begin traps: the roll has happened,    *)
(* the snapshot has not.                                                   *)
TickSnapshotTraps ==
  /\ TickStarts
  /\ ~Traps
  /\ SnapshotDue
  /\ faults.snapshot < MaxSnapshotTrap
  /\ TickedSim(TRUE).dirty
  /\ log' = RolledLog(SealedHost, SealedLog)
  /\ host' = [RolledHost(SealedHost, NextTick) EXCEPT !.sinceSnapshot = 0]
  /\ sealedTick' = SealedTick
  /\ GoodTick
  /\ mode' = "trapped"
  /\ faults' = [faults EXCEPT !.snapshot = @ + 1]
  /\ UNCHANGED << safe, asked, snaps, snapsDur, manifest, manifestDur, sim,
                  nextAction, excused, welcomed >>
-----------------------------------------------------------------------------
(* loadLatest: the newest snapshot that verifies and whose log position    *)
(* its segment still reaches, or genesis and the whole of segment 0; then  *)
(* the segment's tail is replayed onto it.                                 *)
Usable(t) ==
  snaps[t].ok /\ Len(log[snaps[t].segment]) >= snaps[t].offset

UsableTicks == { t \in Ticks : Usable(t) }

PickedBase ==
  IF UsableTicks = {}
  THEN [segment |-> 0, offset |-> HeaderLen, tick |-> 0, sim |-> GenesisSim]
  ELSE LET s == snaps[CHOOSE t \in UsableTicks : \A u \in UsableTicks : u <= t]
       IN  [segment |-> s.segment, offset |-> s.offset, tick |-> s.tick,
            sim |-> [GenesisSim EXCEPT !.tick = s.tick, !.lastLogged = s.lastLogged,
                                       !.world = s.world, !.faulted = s.faulted]]

(* No snapshot to start from, and what segment 0 starts with is no header. *)
Corrupt ==
  /\ UsableTicks = {}
  /\ log[0] # << >>
  /\ log[0][1].kind # "header"

(* How a replay ended: in a trap, or not.  The mutant does not look.       *)
TrapUnseen(done) == NoTrap

TrapOf(done) == done.trap

LoadFrom(base) ==
  { [segment |-> base.segment,
     offset  |-> ValidEnd(log[base.segment], base.offset),
     base    |-> base.tick,
     trap    |-> TrapOf(done),
     sim     |-> [done EXCEPT !.dirty = done.world # base.sim.world \/
                                        done.faulted # base.sim.faulted]] :
      done \in Replay(base.sim, base.segment, log[base.segment], base.offset) }

Loaded == UNION { LoadFrom(base) : base \in {PickedBase} }

(* A mutant: the torn tail stays. *)
TruncateNothing(l) == UNCHANGED << log, safe, asked >>

(* A torn tail is cut off with an awaited replace of the log's key.        *)
TruncateTail(l) ==
  IF l.offset < Len(log[l.segment])
  THEN /\ log' = [log EXCEPT ![l.segment] = SubSeq(@, 1, l.offset)]
       /\ safe' = [safe EXCEPT ![l.segment] = l.offset]
       /\ asked' = [asked EXCEPT ![l.segment] = l.offset]
  ELSE UNCHANGED << log, safe, asked >>

(* healManifest: the manifest gains the segment that was loaded if it ends *)
(* before it.  The replace is awaited.                                     *)
Healed(m, segment, base) ==
  IF m.segments[Len(m.segments)].index < segment
  THEN [m EXCEPT !.segments = Append(@, [index |-> segment, base |-> base])]
  ELSE m

(* A mutant: the new epoch is kept in memory only.                         *)
BumpEpochUnwritten(h) ==
  LET m == [h.manifest EXCEPT !.epoch = @ + 1]
  IN  /\ host' = [h EXCEPT !.manifest = m]
      /\ manifest' = manifest
      /\ welcomed' = Append(welcomed, m.epoch)

(* bumpEpoch: a new epoch in memory, its replace on the way, and the       *)
(* connections of the resumed session welcomed under it.                   *)
BumpEpoch(h) ==
  LET m == [h.manifest EXCEPT !.epoch = @ + 1]
  IN  /\ host' = [h EXCEPT !.manifest = m]
      /\ manifest' = m
      /\ welcomed' = Append(welcomed, m.epoch)

(* Persistence.open over a world that has a manifest, up to the truncated  *)
(* log.  It has no retry around a replay that traps.                       *)
OpenLoad ==
  /\ mode = "off"
  /\ manifest # NoManifest
  /\ \E l \in Loaded :
       IF Corrupt \/ l.trap # NoTrap
       THEN /\ mode' = "failed"
            /\ UNCHANGED << storage, host, sim >>
       ELSE /\ TruncateTail(l)
            /\ sim' = l.sim
            /\ manifest' = Healed(manifest, l.segment, l.base)
            /\ host' = HostAt(l.segment, l.offset, manifest')
            /\ UNCHANGED << snaps, snapsDur, manifestDur >>
            /\ mode' = "healing"
  /\ recovery' = NoRecovery
  /\ UNCHANGED << nextAction, history, faults >>

(* The awaited heal has landed: open goes on to prune. *)
OpenHealed ==
  /\ mode = "healing"
  /\ manifestDur' = manifest
  /\ mode' = "pruning"
  /\ UNCHANGED << log, safe, asked, snaps, snapsDur, manifest, host, sim,
                  recovery, nextAction, history, faults >>

(* Persistence.create over storage that holds no manifest: it appends a    *)
(* header to whatever log 0 holds.                                         *)
OpenCreate ==
  /\ mode = "off"
  /\ manifest = NoManifest
  /\ log' = [log EXCEPT ![0] = @ \o Header]
  /\ manifest' = FreshManifest
  /\ host' = HostAt(0, HeaderLen, FreshManifest)
  /\ sim' = GenesisSim
  /\ recovery' = NoRecovery
  /\ welcomed' = Append(welcomed, 0)
  /\ mode' = "running"
  /\ IF CreateSettled
     THEN /\ safe' = [safe EXCEPT ![0] = Len(log'[0])]
          /\ manifestDur' = FreshManifest
     ELSE UNCHANGED << safe, manifestDur >>
  /\ asked' = safe'
  /\ UNCHANGED << snaps, snapsDur, nextAction, sealedTick, excused, faults >>

(* pruneSnapshots keeps the base snapshot of every segment of the manifest *)
(* and the newest two; the rest go one awaited delete at a time.           *)
Stored == { t \in Ticks : snaps[t] # NoSnap }

NewestTwo == { t \in Stored : Cardinality({ u \in Stored : u > t }) < 2 }

(* A mutant: only the newest two are kept. *)
BaseTicksForgotten == {}

BaseTicks ==
  { host.manifest.segments[i].base : i \in DOMAIN host.manifest.segments }

Prunable == Stored \ (NewestTwo \cup BaseTicks)

PruneOne ==
  /\ mode \in {"pruning", "stopping"}
  /\ Prunable # {}
  /\ LET t == CHOOSE t \in Prunable : \A u \in Prunable : t <= u
     IN  /\ snaps' = [snaps EXCEPT ![t] = NoSnap]
         /\ snapsDur' = [snapsDur EXCEPT ![t] = NoSnap]
  /\ UNCHANGED << log, safe, asked, manifest, manifestDur, mode, host, sim,
                  recovery, nextAction, history, faults >>

(* open is done: a host over an existing world starts a new epoch.         *)
OpenDone ==
  /\ mode = "pruning"
  /\ Prunable = {}
  /\ BumpEpoch(host)
  /\ mode' = "running"
  /\ UNCHANGED << log, safe, asked, snaps, snapsDur, manifestDur, sim, recovery,
                  nextAction, sealedTick, excused, faults >>
-----------------------------------------------------------------------------
(* SimHost.recover: the loop guard, then runPanicRecovery.                 *)
RecoverBegin ==
  /\ mode = "trapped"
  /\ IF recovery.count >= RecoveryLimit
     THEN /\ mode' = "fatal"
          /\ UNCHANGED recovery
     ELSE /\ mode' = "recovering"
          /\ recovery' = [count |-> recovery.count + 1, good |-> 0, skips |-> 0]
  /\ UNCHANGED << storage, host, sim, nextAction, history, faults >>

(* One attempt replays without a trap: the live Persistence is rebound.    *)
RecoverReplays ==
  /\ mode = "recovering"
  /\ recovery.skips < MaxSkipIterations
  /\ ~Corrupt
  /\ \E l \in Loaded :
       /\ l.trap = NoTrap
       /\ TruncateTail(l)
       /\ sim' = l.sim
       /\ LET healed == Healed(host.manifest, l.segment, l.base)
          IN  /\ host' = [host EXCEPT !.segment = l.segment,
                                      !.logOffset = l.offset,
                                      !.manifest = healed]
              /\ manifest' = IF healed # host.manifest THEN healed ELSE manifest
  /\ mode' = "rebinding"
  /\ UNCHANGED << snaps, snapsDur, manifestDur, recovery, nextAction, history,
                  faults >>

(* One attempt traps again in the apply of a record: a Skip frame naming   *)
(* it is appended to its own segment and synced, and recovery restarts.    *)
RecoverSkips ==
  /\ mode = "recovering"
  /\ recovery.skips < MaxSkipIterations
  /\ ~Corrupt
  /\ \E l \in Loaded :
       /\ l.trap # NoTrap
       /\ log' = [log EXCEPT ![l.segment] = @ \o Skip(l.segment, l.trap)]
       /\ safe' = [safe EXCEPT ![l.segment] = Len(log'[l.segment])]
       /\ asked' = [asked EXCEPT ![l.segment] = safe'[l.segment]]
  /\ recovery' = [recovery EXCEPT !.skips = @ + 1]
  /\ UNCHANGED << snaps, snapsDur, manifest, manifestDur, mode, host, sim,
                  nextAction, history, faults >>

RecoverGivesUp ==
  /\ mode = "recovering"
  /\ \/ recovery.skips >= MaxSkipIterations
     \/ Corrupt
  /\ mode' = "fatal"
  /\ UNCHANGED << storage, host, sim, recovery, nextAction, history, faults >>

(* The awaited heal has landed; onRecovered bumps the epoch, ticking goes  *)
(* on.                                                                     *)
RecoverResumes ==
  /\ mode = "rebinding"
  /\ BumpEpoch(host)
  /\ manifestDur' = host.manifest
  /\ mode' = "running"
  /\ UNCHANGED << log, safe, asked, snaps, snapsDur, sim, recovery, nextAction,
                  sealedTick, excused, faults >>
-----------------------------------------------------------------------------
(* SimHost.pause and stop: a snapshot if the world is dirty, then a prune, *)
(* then flush.                                                             *)
Pause ==
  /\ mode = "running"
  /\ IF sim.dirty
     THEN /\ SnapshotNow(sim, host, log)
          /\ host' = RolledHost(host, sim.tick)
     ELSE UNCHANGED << log, snaps, manifest, sim, host >>
  /\ mode' = "stopping"
  /\ UNCHANGED << safe, asked, snapsDur, manifestDur, recovery, nextAction,
                  history, faults >>

PauseFlushes ==
  /\ mode = "stopping"
  /\ Prunable = {}
  /\ safe' = [s \in Segments |-> Len(log[s])]
  /\ asked' = safe'
  /\ snapsDur' = snaps
  /\ manifestDur' = manifest
  /\ mode' = "paused"
  /\ UNCHANGED << log, snaps, manifest, host, sim, recovery, nextAction,
                  history, faults >>

Resume ==
  /\ mode = "paused"
  /\ mode' = "running"
  /\ UNCHANGED << storage, host, sim, recovery, nextAction, history, faults >>

(* What a dead process leaves of its memory. *)
Dead ==
  /\ host' = HostAt(0, 0, NoManifest)
  /\ sim' = GenesisSim
  /\ recovery' = NoRecovery
  /\ mode' = "off"

Exit ==
  /\ mode = "paused"
  /\ faults.exit < MaxExit
  /\ faults' = [faults EXCEPT !.exit = @ + 1]
  /\ Dead
  /\ UNCHANGED << storage, nextAction, history >>
-----------------------------------------------------------------------------
(* Storage catches up: a sync finishes, or an in-flight replace lands.  An *)
(* adapter may order a snapshot after the log bytes it names.  Only an OS  *)
(* crash tells a finished sync from a running one, and only a lagging      *)
(* adapter has replaces in flight.                                         *)
Alive == mode # "off"

SyncDone ==
  /\ Alive
  /\ MaxOsCrash > 0
  /\ \E s \in Segments :
       /\ safe[s] < asked[s]
       /\ safe' = [safe EXCEPT ![s] = asked[s]]
  /\ UNCHANGED << log, asked, snaps, snapsDur, manifest, manifestDur, mode, host,
                  sim, recovery, nextAction, history, faults >>

MayLand(t) ==
  \/ SnapshotOutrunsLog
  \/ ~snaps[t].ok
  \/ safe[snaps[t].segment] >= snaps[t].offset

SnapshotLands ==
  /\ Alive
  /\ WritesLag
  /\ \E t \in Ticks :
       /\ snapsDur[t] # snaps[t]
       /\ MayLand(t)
       /\ snapsDur' = [snapsDur EXCEPT ![t] = snaps[t]]
  /\ UNCHANGED << log, safe, asked, snaps, manifest, manifestDur, mode, host, sim,
                  recovery, nextAction, history, faults >>

ManifestLands ==
  /\ Alive
  /\ WritesLag
  /\ manifestDur # manifest
  /\ manifestDur' = manifest
  /\ UNCHANGED << log, safe, asked, snaps, snapsDur, manifest, mode, host, sim,
                  recovery, nextAction, history, faults >>

(* The whole-key writes a dying process leaves behind: any of those in     *)
(* flight may be lost when writes lag.                                     *)
LoseReplaces ==
  /\ \E lost \in SUBSET { t \in Ticks : snapsDur[t] # snaps[t] } :
       /\ \A t \in Ticks : WritesLag /\ ~MayLand(t) /\ snapsDur[t] # snaps[t]
                           => t \in lost
       /\ ~WritesLag => lost = {}
       /\ snaps' = [t \in Ticks |-> IF t \in lost THEN snapsDur[t] ELSE snaps[t]]
  /\ snapsDur' = snaps'
  /\ manifest' \in {manifest} \cup (IF WritesLag THEN {manifestDur} ELSE {})
  /\ manifestDur' = manifest'

(* The tab closes or the process is killed, at any await.                  *)
TabCrash ==
  /\ Alive
  /\ faults.tab < MaxTabCrash
  /\ faults' = [faults EXCEPT !.tab = @ + 1]
  /\ LoseReplaces
  /\ asked' = safe
  /\ Dead
  /\ UNCHANGED << log, safe, nextAction, history >>

(* The machine goes down: a log keeps its synced cells and any prefix of   *)
(* the rest, cut even in the middle of a frame.                            *)
LoggedIn(cells) ==
  UNION { ToSet(cells[i].ids) :
            i \in { j \in DOMAIN cells : /\ cells[j].kind = "frame"
                                        /\ cells[j].part = FrameLen } }

Unsynced == UNION { LoggedIn(log[s]) \ LoggedIn(SubSeq(log[s], 1, safe[s])) :
                      s \in Segments }

OsCrash ==
  /\ Alive
  /\ faults.os < MaxOsCrash
  /\ faults' = [faults EXCEPT !.os = @ + 1]
  /\ LoseReplaces
  /\ \E kept \in [Segments -> UNION { 0 .. Len(log[s]) : s \in Segments }] :
       /\ \A s \in Segments : safe[s] <= kept[s] /\ kept[s] <= Len(log[s])
       /\ log' = [s \in Segments |-> SubSeq(log[s], 1, kept[s])]
  /\ safe' = [s \in Segments |-> Len(log'[s])]
  /\ asked' = safe'
  /\ excused' = excused \cup Unsynced
  /\ Dead
  /\ UNCHANGED << nextAction, sealedTick, welcomed >>

(* A stored snapshot goes bad while the world is closed. *)
CorruptSnapshot ==
  /\ mode = "off"
  /\ faults.corrupt < MaxCorrupt
  /\ \E t \in Ticks :
       /\ snaps[t].ok
       /\ snaps' = [snaps EXCEPT ![t] = [ok |-> FALSE, none |-> FALSE]]
  /\ snapsDur' = snaps'
  /\ faults' = [faults EXCEPT !.corrupt = @ + 1]
  /\ UNCHANGED << log, safe, asked, manifest, manifestDur, mode, host, sim,
                  recovery, nextAction, history >>
-----------------------------------------------------------------------------
Tick == TickTraps \/ TickPlain \/ TickSnapshots \/ TickSnapshotTraps
Open == OpenCreate \/ OpenLoad \/ OpenHealed \/ PruneOne \/ OpenDone
Recover ==
  \/ RecoverBegin \/ RecoverReplays \/ RecoverSkips
  \/ RecoverGivesUp \/ RecoverResumes
Boundary == Pause \/ PauseFlushes \/ Resume \/ Exit
Environment ==
  \/ SyncDone \/ SnapshotLands \/ ManifestLands
  \/ TabCrash \/ OsCrash \/ CorruptSnapshot

Next == Admit \/ Tick \/ Open \/ Recover \/ Boundary \/ Environment

(* An await of the load or recovery path resolves: nothing but a crash     *)
(* stops it.  Ticks and crashes owe nothing.                               *)
Fairness == WF_vars(Open) /\ WF_vars(Recover)

Spec == Init /\ [][Next]_vars /\ Fairness
=============================================================================
