----------------------------- MODULE Replication -----------------------------
(***************************************************************************)
(* Chunk replication from the host to one client: subscriptions            *)
(* (host/subs.rs), paced enters, collapse and overflow (host/pacing.rs,    *)
(* Host::build_frame), desync hashes (host/hashes.rs, integrity.rs), the   *)
(* resume hint (session/resume.rs) and the replica (client/replica.rs,     *)
(* client/core.rs), across lost connections, host restarts and recoveries  *)
(* from a panic.                                                           *)
(*                                                                         *)
(* A chunk is one tile, 0 when pristine, and the entities whose footprint  *)
(* overlaps it.  An entity is its footprint <<anchor chunk, far chunk>>;   *)
(* its value is 0 before birth, 1 or 2 alive and Gone after: ids are never *)
(* used again.  The clock counts only the ticks in which something         *)
(* changed: versions are compared for equality, and no other tick stamps   *)
(* one.  Tokens, byte prices and distances decide which queued chunk goes  *)
(* out, which chunk collapses and which frame overflows: here each is a    *)
(* choice.                                                                 *)
(***************************************************************************)
EXTENDS Naturals, Sequences, FiniteSets

CONSTANTS
  Chunks,        \* chunk coordinates, natural numbers
  Small, Wide,   \* anchors of entities inside one chunk, and reaching into the next
  MaxChange,     \* bound: tile writes and entity changes
  MaxLook,       \* bound: camera moves
  MaxBreak,      \* bound: connections lost, host restarts and recoveries
  MaxCollapse,   \* bound: collapses
  MaxOverflow,   \* bound: frames that do not fit their buffer
  MaxFlight      \* bound: messages under way to the client

ASSUME ChunksAreNaturals ==
  Chunks \subseteq Nat /\ Small \subseteq Chunks /\ {a + 1 : a \in Wide} \cup Wide \subseteq Chunks

ASSUME ChangesAreBounded == MaxChange \in Nat

VARIABLES
  host,    \* the world: clock, epoch, tiles, entities, chunk_versions
  slot,    \* ConnSlot: camera, subscriptions, pacing state, resume hint
  down,    \* messages to the client, in order
  rep,     \* the client: replica, camera, owed resyncs
  spent    \* how much of each bound is used up

vars == <<host, slot, down, rep, spent>>

Gone == 3
Entities == {<<a, a>> : a \in Small} \cup {<<a, a + 1>> : a \in Wide}
Anchor(e) == e[1]
Foot(e) == {e[1], e[2]}
Over(c) == {e \in Entities : c \in Foot(e)}
Touched(C) == UNION {Foot(e) : e \in UNION {Over(c) : c \in C}}

AliveAsStored(v) == v
Alive(v) == IF v = Gone THEN 0 ELSE v
Content(w, c) == [tile |-> w.tile[c], ents |-> [e \in Over(c) |-> Alive(w.ent[e])]]
Empty(c) == [tile |-> 0, ents |-> [e \in Over(c) |-> 0]]
NoWorld == [tile |-> [c \in Chunks |-> 0], ent |-> [e \in Entities |-> 0]]
Without(f, C) == [c \in DOMAIN f \ C |-> f[c]]

-----------------------------------------------------------------------------
(* The host.                                                               *)

NoHint == [epoch |-> 0, chunks |-> << >>]
NoSlot == [on |-> FALSE, cam |-> {}, subs |-> {}, held |-> {}, collapsed |-> {},
           queue |-> << >>, resume |-> NoHint, tainted |-> {}]
FreshSlot(cam, hint) ==
  [NoSlot EXCEPT !.on = TRUE, !.cam = cam, !.resume = hint]

\* A world that started: no chunk has a version yet.
Started(epoch, clock, w) ==
  [clock |-> clock, epoch |-> epoch, tile |-> w.tile, ent |-> w.ent,
   ver |-> [c \in Chunks |-> 0]]

\* One entry per chunk: a snapshot request upgrades an enter, never the reverse.
Enqueue(q, C, kind) ==
  [c \in DOMAIN q \cup C |->
     IF c \in DOMAIN q /\ (c \notin C \/ kind = "enter") THEN q[c] ELSE kind]

\* What one tick does to the world: tiles T flip, entities take the values of
\* u; every chunk a change is scoped to is stamped with the tick.
Stamped(T, u) == T \cup UNION {Foot(e) : e \in DOMAIN u}
Changed(h, T, u) ==
  LET now == h.clock + 1 IN
  IF Stamped(T, u) = {} THEN h ELSE
  [h EXCEPT !.clock = now,
            !.tile = [c \in Chunks |-> IF c \in T THEN 1 - @[c] ELSE @[c]],
            !.ent = [e \in Entities |-> IF e \in DOMAIN u THEN u[e] ELSE @[e]],
            !.ver = [c \in Chunks |-> IF c \in Stamped(T, u) THEN now ELSE @[c]]]

\* SubscriptionSet::update: the target is subscribed, L (outside the target
\* past ring 3 and the hold time, or evicted over the cap) is let go.
Entered(s) == s.cam \ s.subs
Updated(s, L) == [s EXCEPT !.subs = (@ \ L) \cup s.cam]

\* diff_resume_hint, against the enters of the slot's first frame.
Keeps(h, s, entered) ==
  {c \in entered \cap DOMAIN s.resume.chunks : s.resume.chunks[c] = h.ver[c]}
HintLeaves(s) == DOMAIN s.resume.chunks \ Entered(s)

\* The slot after its leaves, keeps and enters are noted.
Leaving(s, L) == L \cap s.held
Noted(h, s, L) ==
  LET entered == Entered(s)
      keep == Keeps(h, s, entered)
  IN [Updated(s, L) EXCEPT
        !.held = (@ \ L) \cup keep,
        !.collapsed = @ \ L,
        !.tainted = @ \ L,
        !.resume = NoHint,
        !.queue = Enqueue(Without(@, L), entered \ keep, "enter")]

\* The chunks D drained from the queue enter; a snapshot ends a collapse.
Snapshot(h, s, c) == s.queue[c] = "resnap" \/ Content(h, c) # Empty(c)
DrainedStaysCollapsed(s, D) ==
  [s EXCEPT !.held = @ \cup D, !.queue = Without(@, D)]
Drained(s, D) ==
  [s EXCEPT !.held = @ \cup D,
            !.collapsed = @ \ {c \in D : s.queue[c] = "resnap"},
            !.queue = Without(@, D)]

\* Deltas go to chunks held, not entering with this frame, not collapsed; a
\* Gone also to collapsed ones.
Healthy(s, D) == s.held \ (D \cup s.collapsed)
TilesOf(s, D, T) == T \cap Healthy(s, D)
PutsOf(s, D, u) == {e \in DOMAIN u : u[e] # Gone /\ Foot(e) \cap Healthy(s, D) # {}}
GonesOf(s, D, u) == {e \in DOMAIN u : u[e] = Gone /\ Foot(e) \cap (s.held \ D) # {}}

\* A put is tallied under its anchor chunk, held or not.
Tallied(s, D, T, u) == TilesOf(s, D, T) \cup {Anchor(e) : e \in PutsOf(s, D, u)}
Collapsed(s, K) ==
  [s EXCEPT !.collapsed = @ \cup K, !.queue = Enqueue(@, K, "resnap")]

\* Ghost: the chunks something was withheld from since their last snapshot.
Tainted(s, snap) ==
  [s EXCEPT !.tainted = (@ \ snap) \cup s.collapsed \cup Touched(s.collapsed)]

\* The chunks a hash may speak of.
Eligible(s, leaves) == s.held \ (s.collapsed \cup DOMAIN s.queue \cup leaves)

\* A frame that does not fit is lost whole: what it would have entered waits
\* again, and every chunk that missed a delta is owed a snapshot.
OverflowedStaysHeld(before, s, D, stamped) ==
  LET owed == stamped \cap (before.held \ (D \cup before.collapsed))
  IN [s EXCEPT !.collapsed = @ \cup owed, !.queue = Enqueue(@, owed, "resnap")]
Overflowed(before, s, D, stamped) ==
  LET new == D \ before.held
      owed == (D \ new) \cup (stamped \cap (before.held \ (D \cup before.collapsed)))
  IN [s EXCEPT !.held = @ \ new,
               !.collapsed = @ \cup owed,
               !.queue = Enqueue(Enqueue(@, new, "enter"), owed, "resnap")]

Welcome(epoch) == [kind |-> "welcome", epoch |-> epoch]

\* The frame of one tick.  Ghosts: held, what the host holds the client to;
\* truth, the content behind the hash of each eligible chunk; withheld, the
\* chunks a collapse keeps something from.
Frame(h, before, s, D, T, u, K, hashed, keeps, leaves) ==
  LET enter == [c \in D |-> Content(h, c)]
      snap == {c \in D : Snapshot(h, before, c)}
  IN [kind |-> "frame", tick |-> h.clock,
      pristine |-> D \ snap,
      snaps |-> [c \in snap |-> [ver |-> h.ver[c], content |-> enter[c]]],
      leaves |-> leaves,
      tiles |-> [c \in TilesOf(Drained(before, D), D, T) \ K |-> h.tile[c]],
      puts |-> [e \in {e \in PutsOf(Drained(before, D), D, u) : Anchor(e) \notin K} |-> h.ent[e]],
      gones |-> GonesOf(Drained(before, D), D, u),
      hashed |-> hashed,
      keeps |-> keeps,
      held |-> s.held,
      truth |-> [c \in Eligible(s, leaves) |-> Content(h, c)],
      withheld |-> s.tainted]

Says(f) ==
  \/ f.pristine \cup f.leaves \cup f.hashed \cup f.keeps # {}
  \/ DOMAIN f.snaps \cup DOMAIN f.tiles # {}
  \/ DOMAIN f.puts \cup f.gones # {}

-----------------------------------------------------------------------------
(* The client.                                                             *)

\* Replica::apply_leave: an entity stays while any held chunk overlaps it.
LeaveAll(r, C) ==
  LET kept == DOMAIN r.held \ C
      gone == {e \in Entities : Foot(e) \cap C # {} /\ Foot(e) \cap kept = {}}
  IN [r EXCEPT !.held = Without(@, C),
               !.tile = [c \in Chunks |-> IF c \in C THEN 0 ELSE @[c]],
               !.ent = [e \in Entities |-> IF e \in gone THEN 0 ELSE @[e]],
               !.due = @ \ C, !.sent = @ \ C, !.sure = @ \ C]

\* Ghost: the first snapshots over which the replica knows an entity through a
\* chunk that is not sure, that the host does not hold, or that enters pristine:
\* no Gone of it may be due, a first enter drops nothing, and a leave keeps what
\* the enter holds.
Entering(f) == f.pristine \cup DOMAIN f.snaps
Stranded(r, f) ==
  LET good == f.held \cap ((r.sure \ f.pristine) \cup DOMAIN f.snaps) IN
  {c \in DOMAIN f.snaps \ DOMAIN r.held :
     \E e \in Over(c) : r.ent[e] # 0 /\ Foot(e) \cap (DOMAIN r.held \ good) # {}}

\* Replica::bump_version of every held chunk of C.
Bump(r, C, tick) ==
  [r EXCEPT !.held = [c \in DOMAIN @ |-> IF c \in C THEN tick ELSE @[c]]]

\* Pristine enters set version 0 and touch neither tiles nor entities.
EnterPristine(r, C) ==
  [r EXCEPT !.held = [c \in DOMAIN @ \cup C |-> IF c \in C THEN 0 ELSE @[c]],
            !.sure = (@ \ C) \cup {c \in C : Content(r, c) = Empty(c)}]

\* Snapshots put what they name, and drop from a chunk already held what they
\* do not.
Snapshots(r, snaps) ==
  LET C == DOMAIN snaps
      says(e) == {snaps[c].content.ents[e] : c \in C \cap Foot(e)}
      value(e) == IF says(e) \ {0} # {} THEN CHOOSE v \in says(e) : v # 0
                  ELSE IF Foot(e) \cap C \cap DOMAIN r.held # {} THEN 0 ELSE r.ent[e]
  IN [r EXCEPT !.held = [c \in DOMAIN @ \cup C |-> IF c \in C THEN snaps[c].ver ELSE @[c]],
               !.tile = [c \in Chunks |-> IF c \in C THEN snaps[c].content.tile ELSE @[c]],
               !.ent = [e \in Entities |-> value(e)],
               !.due = @ \ C, !.sent = @ \ C, !.sure = @ \cup C]

Tiles(r, tiles, tick) ==
  Bump([r EXCEPT !.tile = [c \in Chunks |-> IF c \in DOMAIN tiles THEN tiles[c] ELSE @[c]]],
       DOMAIN tiles, tick)

EntityOps(r, puts, gones, tick) ==
  LET known == {e \in gones : r.ent[e] # 0} IN
  Bump([r EXCEPT !.ent = [e \in Entities |->
                            IF e \in DOMAIN puts THEN puts[e]
                            ELSE IF e \in gones THEN 0 ELSE @[e]]],
       UNION {Foot(e) : e \in DOMAIN puts \cup known}, tick)

\* check_hashes: a mismatch asks for the chunk, again when the last request is
\* five seconds old (an earlier mismatch is a hash not checked).
Differing(r, f) == {c \in DOMAIN f.truth \cap DOMAIN r.held : Content(r, c) # f.truth[c]}
CheckHashes(r, f) ==
  LET bad == Differing(r, f) \cap f.hashed IN
  [r EXCEPT !.due = @ \cup bad, !.sent = @ \ bad]

\* ClientCore::apply, section by section.
Applied(r, f) ==
  LET r1 == EnterPristine(r, f.pristine)
      r2 == Snapshots(r1, f.snaps)
      r3 == LeaveAll(r2, f.leaves)
      r4 == Tiles(r3, f.tiles, f.tick)
      r5 == EntityOps(r4, f.puts, f.gones, f.tick)
      r6 == [r5 EXCEPT !.sure = (@ \cap f.held) \ (f.withheld \cup Stranded(r, f))]
  IN [CheckHashes(r6, f) EXCEPT
        !.broken = Differing(r6, f) \cap r6.sure,
        !.missing = f.held \ DOMAIN r6.held,
        !.miskept = f.keeps \cap Differing(r6, f),
        !.misentered = Entering(f) \cap Differing(r6, f)]

\* A Welcome of another epoch empties the replica.
Welcomed(r, m) ==
  IF m.epoch = r.epoch THEN r
  ELSE [LeaveAll(r, DOMAIN r.held) EXCEPT !.epoch = m.epoch, !.due = {}, !.sent = {}]

\* The hint of a Hello: the replica's versions, once the camera is known.
Hint(r) == IF r.cam = {} THEN NoHint ELSE [epoch |-> r.epoch, chunks |-> r.held]

-----------------------------------------------------------------------------

Init ==
  /\ host = Started(1, 0, NoWorld)
  /\ slot = NoSlot
  /\ down = << >>
  /\ rep = [epoch |-> 0, held |-> << >>, tile |-> NoWorld.tile, ent |-> NoWorld.ent,
            cam |-> {}, due |-> {}, sent |-> {}, sure |-> {}, broken |-> {}, missing |-> {},
            miskept |-> {}, misentered |-> {}]
  /\ spent = [change |-> 0, look |-> 0, break |-> 0, collapse |-> 0, overflow |-> 0]

\* Hello and attach: the page dials, and the slot starts with its camera; a
\* hint of another epoch is ignored.
ResumeOfAnyEpoch(h, hint) == hint
ResumeOf(h, hint) == IF hint.epoch = h.epoch THEN hint ELSE NoHint
Attach ==
  /\ ~slot.on
  /\ slot' = FreshSlot(rep.cam, ResumeOf(host, Hint(rep)))
  /\ down' = <<Welcome(host.epoch)>>
  /\ UNCHANGED <<host, rep, spent>>

\* The connection is lost with everything on it.
Cut ==
  /\ slot.on
  /\ spent.break < MaxBreak
  /\ spent' = [spent EXCEPT !.break = @ + 1]
  /\ slot' = NoSlot
  /\ down' = << >>
  /\ UNCHANGED <<host, rep>>

\* The host process starts again, over all or over none of what it had.
Restart ==
  /\ spent.break < MaxBreak
  /\ spent' = [spent EXCEPT !.break = @ + 1]
  /\ \/ host' = Started(host.epoch + 1, host.clock, host)
     \/ host' = Started(host.epoch + 1, 0, NoWorld)
  /\ slot' = NoSlot
  /\ down' = << >>
  /\ UNCHANGED rep

\* Host::reattach knows neither a camera nor a hint.
Reattached == FreshSlot({}, NoHint)

\* A panic: a fresh instance replays the log, reattaches the connection and
\* sends a second Welcome under a new epoch.
Recover ==
  /\ spent.break < MaxBreak
  /\ spent' = [spent EXCEPT !.break = @ + 1]
  /\ host' = Started(host.epoch + 1, host.clock, host)
  /\ IF slot.on
     THEN /\ slot' = Reattached
          /\ down' = Append(down, Welcome(host.epoch + 1))
     ELSE UNCHANGED <<slot, down>>
  /\ UNCHANGED rep

\* The player looks elsewhere; the report is sent because it changed.
Look(v) ==
  /\ rep.epoch # 0
  /\ rep.cam # v
  /\ spent.look < MaxLook
  /\ spent' = [spent EXCEPT !.look = @ + 1]
  /\ rep' = [rep EXCEPT !.cam = v]
  /\ slot' = IF slot.on THEN [slot EXCEPT !.cam = v] ELSE slot
  /\ UNCHANGED <<host, down>>

\* poll_uplink sends an owed ResyncChunk, on_resync queues the snapshot.
AskResync(c) ==
  /\ slot.on
  /\ c \in rep.due
  /\ rep' = [rep EXCEPT !.due = @ \ {c}, !.sent = @ \cup {c}]
  /\ slot' = IF c \in slot.held \cup DOMAIN slot.queue
             THEN [slot EXCEPT !.queue = Enqueue(@, {c}, "resnap")] ELSE slot
  /\ UNCHANGED <<host, down, spent>>

Deliver ==
  /\ down # << >>
  /\ down' = Tail(down)
  /\ UNCHANGED <<host, slot, spent>>
  /\ rep' = IF Head(down).kind = "welcome" THEN Welcomed(rep, Head(down))
            ELSE Applied(rep, Head(down))

\* One tick and its frame: T and u change the world, L leaves the
\* subscription, D is drained, K collapses, the frame hashes H.
Sent(frame, overflow) ==
  IF overflow \/ ~Says(frame) THEN down' = down
  ELSE Len(down) < MaxFlight /\ down' = Append(down, frame)

Tick(T, u, L, D, K, H, overflow) ==
  \E h \in {Changed(host, T, u)} : \E noted \in {Noted(h, slot, L)} :
  \E full \in {Tainted(Collapsed(Drained(noted, D), K),
                      {c \in D : ~overflow /\ Snapshot(h, noted, c)})} :
  \E frame \in {Frame(h, noted, full, D, T, u, K, H, Keeps(h, slot, Entered(slot)),
                     Leaving(slot, L) \cup HintLeaves(slot))} :
    /\ UNCHANGED rep
    /\ host' = h
    /\ slot' = IF overflow THEN Overflowed(noted, full, D, Stamped(T, u)) ELSE full
    /\ Sent(frame, overflow)

\* What may change in one tick: at most one tile and one entity.
TileWrites == {{}} \cup {{c} : c \in Chunks}
WritesOf(e) ==
  {[x \in {e} |-> v] : v \in IF host.ent[e] = 0 THEN {1} ELSE (host.ent[e] + 1)..Gone}
EntityWrites == {<< >>} \cup UNION {WritesOf(e) : e \in Entities}

Spend(T, u, K, overflow) ==
  /\ spent' = [spent EXCEPT !.change = @ + Cardinality(T) + Cardinality(DOMAIN u),
                            !.collapse = @ + Cardinality(K),
                            !.overflow = @ + IF overflow THEN 1 ELSE 0]
  /\ spent'.change <= MaxChange
  /\ spent'.collapse <= MaxCollapse
  /\ spent'.overflow <= MaxOverflow

\* Without a connection a tick only changes the world.
LoneTick ==
  \E T \in TileWrites, u \in EntityWrites :
    /\ ~slot.on
    /\ Spend(T, u, {}, FALSE)
    /\ host' = Changed(host, T, u)
    /\ UNCHANGED <<slot, down, rep>>

BusyTick ==
  /\ slot.on
  /\ \E T \in TileWrites, u \in EntityWrites, L \in SUBSET (slot.subs \ slot.cam) :
       LET noted == Noted(Changed(host, T, u), slot, L) IN
       \E D \in SUBSET DOMAIN noted.queue :
         \E K \in SUBSET Tallied(Drained(noted, D), D, T, u), overflow \in BOOLEAN :
           /\ Spend(T, u, K, overflow)
           /\ Tick(T, u, L, D, K, {}, overflow)

\* A quiet tick with the tokens for everything queued, and one whose frame
\* carries the hash of c: a hash is checked after the frame's other sections.
\* One that would find nothing, with no message under way, is left out.
DrainTick ==
  /\ slot.on
  /\ UNCHANGED <<host, rep, spent>>
  /\ Noted(host, slot, {}) # slot \/ slot.queue # << >>
  /\ \E D \in {DOMAIN Noted(host, slot, {}).queue} :
       Tick({}, << >>, {}, D, {}, {}, FALSE)

HashTick(c) ==
  /\ slot.on
  /\ UNCHANGED <<host, slot, rep, spent>>
  /\ Noted(host, slot, {}) = slot
  /\ c \in Eligible(slot, {})
  /\ down = << >> => c \in DOMAIN rep.held /\ Content(rep, c) # Content(host, c)
  /\ Tick({}, << >>, {}, {}, {}, {c}, FALSE)

Next ==
  \/ Attach
  \/ Cut
  \/ Restart
  \/ Recover
  \/ \E v \in SUBSET Chunks \ {{}} : Look(v)
  \/ \E c \in Chunks : AskResync(c)
  \/ Deliver
  \/ LoneTick
  \/ BusyTick
  \/ DrainTick
  \/ \E c \in Chunks : HashTick(c)

\* The page redials, messages arrive, a due resync is polled, the token
\* bucket refills, heartbeats carry hashes round robin.
Fairness ==
  /\ WF_vars(Attach) /\ WF_vars(Deliver) /\ WF_vars(DrainTick)
  /\ \A c \in Chunks : WF_vars(AskResync(c)) /\ WF_vars(HashTick(c))

Spec == Init /\ [][Next]_vars /\ Fairness

-----------------------------------------------------------------------------
(* Properties.                                                             *)

Versions == 0..MaxChange
PartialVersions == UNION {[C -> Versions] : C \in SUBSET Chunks}
TypeOK ==
  /\ host \in [clock : Versions, epoch : Nat, tile : [Chunks -> 0..1],
               ent : [Entities -> 0..Gone], ver : [Chunks -> Versions]]
  /\ slot.cam \subseteq Chunks /\ slot.subs \subseteq Chunks /\ slot.held \subseteq Chunks
  /\ rep.held \in PartialVersions
  /\ rep.ent \in [Entities -> 0..Gone - 1]

\* A chunk whose content reached this replica by a snapshot or into an empty
\* chunk, which the host has held it to ever since, from which no collapse has
\* withheld anything, and which was not entered over an entity known only
\* through a chunk that is not sure, reads as on the host in every frame that
\* could hash it, resumed sessions included.
SureMatches == rep.broken = {}

\* What the host counts as held, deltas included, the client holds.
HostNeverAhead == rep.missing = {}

\* Once the world, the camera and the links are quiet, what a camera the host
\* knows asks for is held on both sides and reads the same: the hashes heal
\* whatever a collapse, an overflow or a resume left wrong.
InSync ==
  /\ slot.on
  /\ slot.cam # {} =>
       /\ slot.cam \subseteq slot.held /\ slot.held \subseteq DOMAIN rep.held
       /\ \A c \in slot.held : Content(rep, c) = Content(host, c)
ViewHeals == <>[]InSync

\* A chunk the host keeps on a resume reads as on the host: "a stale replica
\* version can only cause an over-snapshot, never a wrong keep"
\* (docs/architecture/sync-and-netcode.md:52).  A Gone, or a put that reaches
\* into the chunk, bumps the version of a replica that misses the deltas a
\* collapse or an overflow withheld.
KeepIsRight == rep.miskept = {}

\* A chunk that enters reads as on the host once its frame is applied: it is
\* sent whole, or as pristine ("no overlay, no entities", client/replica.rs:442),
\* and "a first enter has nothing to drop" (client/replica.rs:469).  An entity
\* the replica knows through another held chunk may be gone by then: its Gone
\* was withheld or lost, or is due to neither of two chunks of which one leaves
\* and one enters with the same frame.
EntersRight == rep.misentered = {}

\* After the second Welcome "the very next tick's own subs.update call then
\* reports every chunk the connection's last-known camera still wants"
\* (Host::resync): reattach has dropped that camera, and the client reports
\* only a camera that changed.
ViewComesBack == <>[](slot.on /\ rep.cam # {} => slot.cam # {})
=============================================================================
