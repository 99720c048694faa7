-------------------------- MODULE ReplicationProofs --------------------------
(***************************************************************************)
(* Proofs about chunk replication, for any set of chunks and entities of   *)
(* one and of two chunks, and any number of changes, camera moves, lost    *)
(* connections, restarts, recoveries, collapses, overflows and messages    *)
(* under way.                                                              *)
(***************************************************************************)
EXTENDS Replication, ProofLemmas, SequenceTheorems, FiniteSetTheorems, TLAPS

(***************************************************************************)
(* The shape of the state.                                                 *)
(***************************************************************************)
Values == 0..Gone - 1
Views == SUBSET Chunks
Replicas ==
  [tile : [Chunks -> 0..1], ent : [Entities -> Values], epoch : Nat, cam : Views,
   held : PartialVersions, due : Views, sent : Views, sure : Views, broken : Views,
   missing : Views, miskept : Views, misentered : Views]
Worlds ==
  [clock : Versions, epoch : Nat, tile : [Chunks -> 0..1], ent : [Entities -> 0..Gone],
   ver : [Chunks -> Versions]]
Queues == UNION {[C -> {"enter", "resnap"}] : C \in Views}
Slots ==
  [on : BOOLEAN, cam : Views, subs : Views, held : Views, collapsed : Views,
   queue : Queues, resume : [epoch : Nat, chunks : PartialVersions], tainted : Views]

\* What the snapshots of a frame are, and the frame.
SnapsOK(snaps) ==
  /\ DOMAIN snaps \subseteq Chunks
  /\ \A c \in DOMAIN snaps :
       /\ snaps[c].ver \in Versions /\ snaps[c].content.tile \in 0..1
       /\ \A e \in Over(c) : snaps[c].content.ents[e] \in Values
FrameOK(f) ==
  /\ f.kind = "frame" /\ f.tick \in Versions
  /\ f.pristine \subseteq Chunks /\ f.leaves \subseteq Chunks /\ SnapsOK(f.snaps)
  /\ DOMAIN f.tiles \subseteq Chunks /\ \A c \in DOMAIN f.tiles : f.tiles[c] \in 0..1
  /\ DOMAIN f.puts \subseteq Entities /\ \A e \in DOMAIN f.puts : f.puts[e] \in Values
  /\ f.gones \subseteq Entities /\ f.held \subseteq Chunks

(***************************************************************************)
(* Entities and versions.                                                  *)
(***************************************************************************)
LEMMA EntityFacts ==
  /\ \A e \in Entities : Foot(e) \subseteq Chunks /\ Foot(e) # {} /\ Anchor(e) \in Foot(e)
  /\ \A c : Over(c) \subseteq Entities
  /\ \A c, e : e \in Over(c) <=> e \in Entities /\ c \in Foot(e)
<1>1. ASSUME NEW e \in Entities PROVE Foot(e) \subseteq Chunks
  <2>1. CASE e \in {<<a, a>> : a \in Small}
    BY <2>1, ChunksAreNaturals DEF Foot
  <2>2. CASE e \in {<<a, a + 1>> : a \in Wide}
    BY <2>2, ChunksAreNaturals DEF Foot
  <2> QED
    BY <2>1, <2>2 DEF Entities
<1> QED
  BY <1>1 DEF Foot, Anchor, Over

LEMMA Some ==
  /\ 0 \in Versions /\ Versions \subseteq Nat /\ 0 \in Values /\ Values = 0..2 /\ Gone = 3
  /\ \A C \in Views : [c \in C |-> 0] \in PartialVersions
BY ChangesAreBounded DEF Versions, Values, Gone, PartialVersions, Views

\* A partial function is given by its domain and its values.
LEMMA Partial ==
  ASSUME NEW f \in PartialVersions
  PROVE  DOMAIN f \in Views /\ \A c \in DOMAIN f : f[c] \in Versions
BY DEF PartialVersions, Views

LEMMA Versioned ==
  ASSUME NEW D \in Views, NEW f \in [D -> Versions]
  PROVE  f \in PartialVersions
BY DEF PartialVersions, Views

(***************************************************************************)
(* Section by section, what the client's replica becomes.                  *)
(***************************************************************************)
\* The fields each section gives the replica.
PristineHeld(r, C) == [c \in DOMAIN r.held \cup C |-> IF c \in C THEN 0 ELSE r.held[c]]
PristineSure(r, C) == (r.sure \ C) \cup {c \in C : Content(r, c) = Empty(c)}

\* The value Snapshots gives an entity.
Said(snaps, e) == {snaps[c].content.ents[e] : c \in DOMAIN snaps \cap Foot(e)}
Snapped(r, snaps, e) ==
  IF Said(snaps, e) \ {0} # {} THEN CHOOSE v \in Said(snaps, e) : v # 0
  ELSE IF Foot(e) \cap DOMAIN snaps \cap DOMAIN r.held # {} THEN 0 ELSE r.ent[e]
SnapsEnt(r, snaps) == [e \in Entities |-> Snapped(r, snaps, e)]
SnapsTile(r, snaps) ==
  [c \in Chunks |-> IF c \in DOMAIN snaps THEN snaps[c].content.tile ELSE r.tile[c]]
SnapsHeld(r, snaps) ==
  [c \in DOMAIN r.held \cup DOMAIN snaps |-> IF c \in DOMAIN snaps THEN snaps[c].ver ELSE r.held[c]]

\* What a leave of C drops.
Dropped(r, C) ==
  {e \in Entities : Foot(e) \cap C # {} /\ Foot(e) \cap (DOMAIN r.held \ C) = {}}
LeaveEnt(r, C) == [e \in Entities |-> IF e \in Dropped(r, C) THEN 0 ELSE r.ent[e]]
LeaveTile(r, C) == [c \in Chunks |-> IF c \in C THEN 0 ELSE r.tile[c]]
LeaveHeld(r, C) == [c \in DOMAIN r.held \ C |-> r.held[c]]

BumpHeld(r, C, tick) == [c \in DOMAIN r.held |-> IF c \in C THEN tick ELSE r.held[c]]
TilesTile(r, tiles) == [c \in Chunks |-> IF c \in DOMAIN tiles THEN tiles[c] ELSE r.tile[c]]
OpsEnt(r, puts, gones) ==
  [e \in Entities |-> IF e \in DOMAIN puts THEN puts[e] ELSE IF e \in gones THEN 0 ELSE r.ent[e]]

\* The chunks whose version the entity deltas move.
Moved(r, puts, gones) ==
  UNION {Foot(e) : e \in DOMAIN puts \cup {e \in gones : r.ent[e] # 0}}

LEMMA AfterPristine ==
  ASSUME NEW r \in Replicas, NEW C \in Views
  PROVE  LET a == EnterPristine(r, C) IN
         /\ a \in Replicas
         /\ a.tile = r.tile /\ a.ent = r.ent /\ a.epoch = r.epoch
         /\ a.held = PristineHeld(r, C) /\ a.sure = PristineSure(r, C)
<1> DEFINE H == PristineHeld(r, C)
           S == PristineSure(r, C)
           a == [r EXCEPT !.held = H, !.sure = S]
<1>1. H \in PartialVersions
  <2>1. DOMAIN r.held \in Views /\ \A c \in DOMAIN r.held : r.held[c] \in Versions
    BY Partial DEF Replicas
  <2>2. DOMAIN r.held \cup C \in Views
    BY <2>1 DEF Views
  <2>3. H \in [DOMAIN r.held \cup C -> Versions]
    BY <2>1, Some DEF PristineHeld
  <2> HIDE DEF H
  <2> QED
    BY <2>2, <2>3, Versioned
<1>2. S \in Views
  BY DEF Replicas, Views, PristineSure
<1>3. EnterPristine(r, C) = a
  BY DEF EnterPristine, Replicas, PristineHeld, PristineSure
<1> HIDE DEF H, S
<1>4. /\ a \in Replicas /\ a.tile = r.tile /\ a.ent = r.ent /\ a.epoch = r.epoch
      /\ a.held = H /\ a.sure = S
  BY <1>1, <1>2 DEF Replicas
<1> HIDE DEF a
<1> QED
  BY <1>3, <1>4 DEF H, S

LEMMA AfterSnapshots ==
  ASSUME NEW r \in Replicas, NEW snaps, SnapsOK(snaps)
  PROVE  LET a == Snapshots(r, snaps) IN
         /\ a \in Replicas /\ a.epoch = r.epoch
         /\ a.tile = SnapsTile(r, snaps) /\ a.ent = SnapsEnt(r, snaps)
         /\ a.held = SnapsHeld(r, snaps) /\ a.sure = r.sure \cup DOMAIN snaps
<1> DEFINE C == DOMAIN snaps
           H == SnapsHeld(r, snaps)
           T == SnapsTile(r, snaps)
           V == SnapsEnt(r, snaps)
<1>1. H \in PartialVersions
  <2>1. DOMAIN r.held \in Views /\ \A c \in DOMAIN r.held : r.held[c] \in Versions
    BY Partial DEF Replicas
  <2>2. DOMAIN r.held \cup C \in Views
    BY <2>1 DEF Views, SnapsOK
  <2>3. H \in [DOMAIN r.held \cup C -> Versions]
    BY <2>1 DEF SnapsOK, SnapsHeld
  <2> HIDE DEF H
  <2> QED
    BY <2>2, <2>3, Versioned
<1>2. T \in [Chunks -> 0..1]
  BY DEF Replicas, SnapsOK, SnapsTile
<1>3. V \in [Entities -> Values]
  <2>1. ASSUME NEW e \in Entities PROVE Snapped(r, snaps, e) \in Values
    <3>1. Said(snaps, e) \subseteq Values
      BY EntityFacts DEF Said, SnapsOK
    <3>2. r.ent[e] \in Values /\ 0 \in Values
      BY Some DEF Replicas
    <3>3. Said(snaps, e) \ {0} # {} =>
            (CHOOSE v \in Said(snaps, e) : v # 0) \in Said(snaps, e)
      OBVIOUS
    <3> QED
      BY <3>1, <3>2, <3>3 DEF Snapped
  <2> QED
    BY <2>1 DEF SnapsEnt
<1>4. r.sure \cup C \in Views /\ r.due \ C \in Views /\ r.sent \ C \in Views
  BY DEF Replicas, Views, SnapsOK
<1> DEFINE a == [r EXCEPT !.held = H, !.tile = T, !.ent = V, !.due = r.due \ C,
                          !.sent = r.sent \ C, !.sure = r.sure \cup C]
<1>5. Snapshots(r, snaps) = a
  BY DEF Snapshots, Replicas, SnapsHeld, SnapsTile, SnapsEnt, Snapped, Said
<1> HIDE DEF H, T, V, C
<1>6. /\ a \in Replicas /\ a.epoch = r.epoch /\ a.tile = T /\ a.ent = V
      /\ a.held = H /\ a.sure = r.sure \cup C
  BY <1>1, <1>2, <1>3, <1>4 DEF Replicas
<1> HIDE DEF a
<1> QED
  BY <1>5, <1>6 DEF H, T, V, C

LEMMA AfterLeaves ==
  ASSUME NEW r \in Replicas, NEW C \in Views
  PROVE  LET a == LeaveAll(r, C) IN
         /\ a \in Replicas /\ a.epoch = r.epoch
         /\ a.tile = LeaveTile(r, C) /\ a.ent = LeaveEnt(r, C)
         /\ a.held = LeaveHeld(r, C) /\ a.sure = r.sure \ C
<1> DEFINE H == LeaveHeld(r, C)
           T == LeaveTile(r, C)
           V == LeaveEnt(r, C)
<1>1. H \in PartialVersions
  <2>1. DOMAIN r.held \in Views /\ \A c \in DOMAIN r.held : r.held[c] \in Versions
    BY Partial DEF Replicas
  <2>2. DOMAIN r.held \ C \in Views
    BY <2>1 DEF Views
  <2>3. H \in [DOMAIN r.held \ C -> Versions]
    BY <2>1 DEF LeaveHeld
  <2> HIDE DEF H
  <2> QED
    BY <2>2, <2>3, Versioned
<1>2. T \in [Chunks -> 0..1]
  BY DEF Replicas, LeaveTile
<1>3. V \in [Entities -> Values]
  BY Some DEF Replicas, LeaveEnt
<1>4. r.sure \ C \in Views /\ r.due \ C \in Views /\ r.sent \ C \in Views
  BY DEF Replicas, Views
<1> DEFINE a == [r EXCEPT !.held = H, !.tile = T, !.ent = V, !.due = r.due \ C,
                          !.sent = r.sent \ C, !.sure = r.sure \ C]
<1>5. LeaveAll(r, C) = a
  BY DEF LeaveAll, Replicas, Dropped, Without, LeaveHeld, LeaveTile, LeaveEnt
<1> HIDE DEF H, T, V
<1>6. /\ a \in Replicas /\ a.epoch = r.epoch /\ a.tile = T /\ a.ent = V
      /\ a.held = H /\ a.sure = r.sure \ C
  BY <1>1, <1>2, <1>3, <1>4 DEF Replicas
<1> HIDE DEF a
<1> QED
  BY <1>5, <1>6 DEF H, T, V

LEMMA AfterBump ==
  ASSUME NEW r \in Replicas, NEW C, NEW tick \in Versions
  PROVE  LET a == Bump(r, C, tick) IN
         /\ a \in Replicas /\ a.epoch = r.epoch /\ a.tile = r.tile /\ a.ent = r.ent
         /\ a.held = BumpHeld(r, C, tick) /\ a.sure = r.sure
<1> DEFINE H == BumpHeld(r, C, tick)
           a == [r EXCEPT !.held = H]
<1>1. H \in PartialVersions
  <2>1. DOMAIN r.held \in Views /\ \A c \in DOMAIN r.held : r.held[c] \in Versions
    BY Partial DEF Replicas
  <2>2. H \in [DOMAIN r.held -> Versions]
    BY <2>1 DEF BumpHeld
  <2> HIDE DEF H
  <2> QED
    BY <2>1, <2>2, Versioned
<1>2. Bump(r, C, tick) = a
  BY DEF Bump, Replicas, BumpHeld
<1> HIDE DEF H
<1>3. /\ a \in Replicas /\ a.epoch = r.epoch /\ a.tile = r.tile /\ a.ent = r.ent
      /\ a.held = H /\ a.sure = r.sure
  BY <1>1 DEF Replicas
<1> HIDE DEF a
<1> QED
  BY <1>2, <1>3 DEF H

LEMMA AfterTiles ==
  ASSUME NEW r \in Replicas, NEW tiles, NEW tick \in Versions,
         \A c \in DOMAIN tiles : tiles[c] \in 0..1
  PROVE  LET a == Tiles(r, tiles, tick) IN
         /\ a \in Replicas /\ a.epoch = r.epoch /\ a.ent = r.ent
         /\ a.tile = TilesTile(r, tiles)
         /\ a.held = BumpHeld(r, DOMAIN tiles, tick) /\ a.sure = r.sure
<1> DEFINE T == TilesTile(r, tiles)
           s == [r EXCEPT !.tile = T]
<1>1. T \in [Chunks -> 0..1]
  BY DEF Replicas, TilesTile
<1>2. Tiles(r, tiles, tick) = Bump(s, DOMAIN tiles, tick)
  BY DEF Tiles, Replicas, TilesTile
<1> HIDE DEF T
<1>3. /\ s \in Replicas /\ s.epoch = r.epoch /\ s.ent = r.ent /\ s.tile = T
      /\ s.held = r.held /\ s.sure = r.sure
  BY <1>1 DEF Replicas
<1> HIDE DEF s
<1>4. BumpHeld(s, DOMAIN tiles, tick) = BumpHeld(r, DOMAIN tiles, tick)
  BY <1>3 DEF BumpHeld
<1> QED
  BY <1>2, <1>3, <1>4, AfterBump DEF T

LEMMA AfterEntityOps ==
  ASSUME NEW r \in Replicas, NEW puts, NEW gones, NEW tick \in Versions,
         \A e \in DOMAIN puts : puts[e] \in Values
  PROVE  LET a == EntityOps(r, puts, gones, tick) IN
         /\ a \in Replicas /\ a.epoch = r.epoch /\ a.tile = r.tile
         /\ a.ent = OpsEnt(r, puts, gones)
         /\ a.held = BumpHeld(r, Moved(r, puts, gones), tick) /\ a.sure = r.sure
<1> DEFINE V == OpsEnt(r, puts, gones)
           s == [r EXCEPT !.ent = V]
           M == Moved(r, puts, gones)
<1>1. V \in [Entities -> Values]
  BY Some DEF Replicas, OpsEnt
<1>2. EntityOps(r, puts, gones, tick) = Bump(s, M, tick)
  BY DEF EntityOps, Replicas, Moved, OpsEnt
<1> HIDE DEF V, M
<1>3. /\ s \in Replicas /\ s.epoch = r.epoch /\ s.tile = r.tile /\ s.ent = V
      /\ s.held = r.held /\ s.sure = r.sure
  BY <1>1 DEF Replicas
<1> HIDE DEF s
<1>4. BumpHeld(s, M, tick) = BumpHeld(r, M, tick)
  BY <1>3 DEF BumpHeld
<1> QED
  BY <1>2, <1>3, <1>4, AfterBump DEF V, M

(***************************************************************************)
(* What a frame leaves the replica with.                                   *)
(***************************************************************************)
HeldAfter(r, f) == (DOMAIN r.held \cup f.pristine \cup DOMAIN f.snaps) \ f.leaves
EntBefore(r, f, e) ==
  IF Said(f.snaps, e) \ {0} # {} THEN CHOOSE v \in Said(f.snaps, e) : v # 0
  ELSE IF Foot(e) \cap DOMAIN f.snaps \cap (DOMAIN r.held \cup f.pristine) # {} THEN 0
  ELSE r.ent[e]
EntAfter(r, f, e) ==
  IF e \in DOMAIN f.puts THEN f.puts[e]
  ELSE IF e \in f.gones THEN 0
  ELSE IF Foot(e) \cap f.leaves # {} /\ Foot(e) \cap HeldAfter(r, f) = {} THEN 0
  ELSE EntBefore(r, f, e)
TileAfter(r, f, c) ==
  IF c \in DOMAIN f.tiles THEN f.tiles[c]
  ELSE IF c \in f.leaves THEN 0
  ELSE IF c \in DOMAIN f.snaps THEN f.snaps[c].content.tile ELSE r.tile[c]
EntsAfter(r, f) == [e \in Entities |-> EntAfter(r, f, e)]
TilesAfter(r, f) == [c \in Chunks |-> TileAfter(r, f, c)]
SureBefore(r, f) == (PristineSure(r, f.pristine) \cup DOMAIN f.snaps) \ f.leaves
SureAfter(r, f) == (SureBefore(r, f) \cap f.held) \ (f.withheld \cup Stranded(r, f))

\* Where the version of a chunk comes from.
Sourced(r, f, held) ==
  \A c \in DOMAIN held :
    \/ held[c] \in {0, f.tick}
    \/ c \in DOMAIN f.snaps /\ held[c] = f.snaps[c].ver
    \/ c \in DOMAIN r.held /\ held[c] = r.held[c]

\* The replica after all sections that change what it holds.
Sections(r, f) ==
  LET r1 == EnterPristine(r, f.pristine)
      r2 == Snapshots(r1, f.snaps)
      r3 == LeaveAll(r2, f.leaves)
      r4 == Tiles(r3, f.tiles, f.tick)
  IN EntityOps(r4, f.puts, f.gones, f.tick)

LEMMA FrameFacts ==
  ASSUME NEW f, FrameOK(f)
  PROVE  /\ f.tick \in Versions /\ f.pristine \in Views /\ f.leaves \in Views
         /\ f.held \in Views /\ SnapsOK(f.snaps)
         /\ \A c \in DOMAIN f.tiles : f.tiles[c] \in 0..1
         /\ \A e \in DOMAIN f.puts : f.puts[e] \in Values
BY DEF FrameOK, Views

LEMMA AfterSections ==
  ASSUME NEW r \in Replicas, NEW f, FrameOK(f)
  PROVE  LET p == Sections(r, f) IN
         /\ p \in Replicas /\ p.epoch = r.epoch
         /\ DOMAIN p.held = HeldAfter(r, f) /\ Sourced(r, f, p.held)
         /\ p.tile = TilesAfter(r, f) /\ p.ent = EntsAfter(r, f)
         /\ p.sure = SureBefore(r, f)
<1> DEFINE r1 == EnterPristine(r, f.pristine)
           r2 == Snapshots(r1, f.snaps)
           r3 == LeaveAll(r2, f.leaves)
           r4 == Tiles(r3, f.tiles, f.tick)
           p == EntityOps(r4, f.puts, f.gones, f.tick)
<1> HIDE DEF r1, r2, r3, r4, p
<1>1. /\ r1 \in Replicas /\ r1.tile = r.tile /\ r1.ent = r.ent /\ r1.epoch = r.epoch
      /\ r1.held = PristineHeld(r, f.pristine) /\ r1.sure = PristineSure(r, f.pristine)
  BY FrameFacts, AfterPristine DEF r1
<1>2. /\ r2 \in Replicas /\ r2.epoch = r1.epoch
      /\ r2.tile = SnapsTile(r1, f.snaps) /\ r2.ent = SnapsEnt(r1, f.snaps)
      /\ r2.held = SnapsHeld(r1, f.snaps) /\ r2.sure = r1.sure \cup DOMAIN f.snaps
  BY <1>1, FrameFacts, AfterSnapshots DEF r2
<1>3. /\ r3 \in Replicas /\ r3.epoch = r2.epoch
      /\ r3.tile = LeaveTile(r2, f.leaves) /\ r3.ent = LeaveEnt(r2, f.leaves)
      /\ r3.held = LeaveHeld(r2, f.leaves) /\ r3.sure = r2.sure \ f.leaves
  BY <1>2, FrameFacts, AfterLeaves DEF r3
<1>4. /\ r4 \in Replicas /\ r4.epoch = r3.epoch /\ r4.ent = r3.ent
      /\ r4.tile = TilesTile(r3, f.tiles)
      /\ r4.held = BumpHeld(r3, DOMAIN f.tiles, f.tick) /\ r4.sure = r3.sure
  BY <1>3, FrameFacts, AfterTiles DEF r4
<1>5. /\ p \in Replicas /\ p.epoch = r4.epoch /\ p.tile = r4.tile
      /\ p.ent = OpsEnt(r4, f.puts, f.gones)
      /\ p.held = BumpHeld(r4, Moved(r4, f.puts, f.gones), f.tick) /\ p.sure = r4.sure
  BY <1>4, FrameFacts, AfterEntityOps DEF p
<1>6. p = Sections(r, f)
  BY DEF Sections, r1, r2, r3, r4, p
<1>7. /\ DOMAIN r1.held = DOMAIN r.held \cup f.pristine
      /\ DOMAIN r2.held = DOMAIN r1.held \cup DOMAIN f.snaps
      /\ DOMAIN r3.held = DOMAIN r2.held \ f.leaves
      /\ DOMAIN r4.held = DOMAIN r3.held
      /\ DOMAIN p.held = DOMAIN r4.held
  BY <1>1, <1>2, <1>3, <1>4, <1>5 DEF PristineHeld, SnapsHeld, LeaveHeld, BumpHeld
<1>8. DOMAIN p.held = HeldAfter(r, f)
  BY <1>7 DEF HeldAfter
<1>9. p.sure = SureBefore(r, f)
  BY <1>1, <1>2, <1>3, <1>4, <1>5 DEF SureBefore
<1>10. p.tile = TilesAfter(r, f)
  <2>1. ASSUME NEW c \in Chunks PROVE r4.tile[c] = TileAfter(r, f, c)
    <3>1. r2.tile[c] = IF c \in DOMAIN f.snaps THEN f.snaps[c].content.tile ELSE r.tile[c]
      BY <1>1, <1>2 DEF SnapsTile
    <3>2. r3.tile[c] = IF c \in f.leaves THEN 0 ELSE r2.tile[c]
      BY <1>3 DEF LeaveTile
    <3>3. r4.tile[c] = IF c \in DOMAIN f.tiles THEN f.tiles[c] ELSE r3.tile[c]
      BY <1>4 DEF TilesTile
    <3> QED
      BY <3>1, <3>2, <3>3 DEF TileAfter
  <2>2. r4.tile = [c \in Chunks |-> r4.tile[c]] /\ p.tile = r4.tile
    BY <1>4, <1>5 DEF TilesTile
  <2> QED
    BY <2>1, <2>2 DEF TilesAfter
<1>11. p.ent = EntsAfter(r, f)
  <2>1. ASSUME NEW e \in Entities PROVE p.ent[e] = EntAfter(r, f, e)
    <3>1. r2.ent[e] = Snapped(r1, f.snaps, e)
      BY <1>2 DEF SnapsEnt
    <3>2. Snapped(r1, f.snaps, e) = EntBefore(r, f, e)
      BY <1>1, <1>7 DEF Snapped, EntBefore
    <3>3. e \in Dropped(r2, f.leaves)
            <=> Foot(e) \cap f.leaves # {} /\ Foot(e) \cap HeldAfter(r, f) = {}
      BY <1>7 DEF Dropped, HeldAfter
    <3>4. r4.ent[e] = IF e \in Dropped(r2, f.leaves) THEN 0 ELSE r2.ent[e]
      BY <1>3, <1>4 DEF LeaveEnt
    <3>5. p.ent[e] = IF e \in DOMAIN f.puts THEN f.puts[e]
                     ELSE IF e \in f.gones THEN 0 ELSE r4.ent[e]
      BY <1>5 DEF OpsEnt
    <3> QED
      BY <3>1, <3>2, <3>3, <3>4, <3>5 DEF EntAfter
  <2>2. p.ent = [e \in Entities |-> p.ent[e]]
    BY <1>5 DEF OpsEnt
  <2> QED
    BY <2>1, <2>2 DEF EntsAfter
<1>12. ASSUME NEW c \in DOMAIN p.held
       PROVE  \/ p.held[c] \in {0, f.tick}
              \/ c \in DOMAIN f.snaps /\ p.held[c] = f.snaps[c].ver
              \/ c \in DOMAIN r.held /\ p.held[c] = r.held[c]
  <2>1. c \in DOMAIN r4.held /\ c \in DOMAIN r3.held /\ c \in DOMAIN r2.held
    BY <1>7
  <2>2. p.held[c] = f.tick \/ p.held[c] = r4.held[c]
    BY <2>1, <1>5 DEF BumpHeld
  <2>3. r4.held[c] = f.tick \/ r4.held[c] = r3.held[c]
    BY <2>1, <1>4 DEF BumpHeld
  <2>4. r3.held[c] = r2.held[c]
    BY <2>1, <1>3, <1>7 DEF LeaveHeld
  <2>5. \/ c \in DOMAIN f.snaps /\ r2.held[c] = f.snaps[c].ver
        \/ c \in DOMAIN r1.held /\ r2.held[c] = r1.held[c]
    BY <2>1, <1>2, <1>7 DEF SnapsHeld
  <2>6. c \in DOMAIN r1.held =>
          \/ r1.held[c] = 0
          \/ c \in DOMAIN r.held /\ r1.held[c] = r.held[c]
    BY <1>1, <1>7 DEF PristineHeld
  <2> QED
    BY <2>2, <2>3, <2>4, <2>5, <2>6
<1>13. p.epoch = r.epoch
  BY <1>1, <1>2, <1>3, <1>4, <1>5
<1> QED
  BY <1>5, <1>6, <1>8, <1>9, <1>10, <1>11, <1>12, <1>13 DEF Sourced

LEMMA AfterFrame ==
  ASSUME NEW r \in Replicas, NEW f, FrameOK(f)
  PROVE  LET a == Applied(r, f) IN
         /\ a \in Replicas /\ a.epoch = r.epoch
         /\ DOMAIN a.held = HeldAfter(r, f) /\ Sourced(r, f, a.held)
         /\ a.held = Sections(r, f).held
         /\ a.tile = TilesAfter(r, f) /\ a.ent = EntsAfter(r, f)
         /\ a.sure = SureAfter(r, f)
         /\ a.broken = Differing(a, f) \cap a.sure
         /\ a.missing = f.held \ DOMAIN a.held
<1> DEFINE p == Sections(r, f)
           S == (p.sure \cap f.held) \ (f.withheld \cup Stranded(r, f))
           q == [p EXCEPT !.sure = S]
           bad == Differing(q, f) \cap f.hashed
           a == [q EXCEPT !.due = q.due \cup bad, !.sent = q.sent \ bad,
                          !.broken = Differing(q, f) \cap q.sure,
                          !.missing = f.held \ DOMAIN q.held,
                          !.miskept = f.keeps \cap Differing(q, f),
                          !.misentered = Entering(f) \cap Differing(q, f)]
<1>0. /\ p \in Replicas /\ p.epoch = r.epoch
      /\ DOMAIN p.held = HeldAfter(r, f) /\ Sourced(r, f, p.held)
      /\ p.tile = TilesAfter(r, f) /\ p.ent = EntsAfter(r, f)
      /\ p.sure = SureBefore(r, f)
  BY AfterSections
<1>1. p \in Replicas
  BY <1>0
<1>2. S \in Views
  BY <1>1 DEF Replicas, Views
<1>3. /\ q \in Replicas /\ q.sure = S /\ q.held = p.held /\ q.tile = p.tile
      /\ q.ent = p.ent /\ q.epoch = p.epoch
  BY <1>1, <1>2 DEF Replicas
<1>4. Applied(r, f) = a
  <2>1. Applied(r, f) = [CheckHashes(q, f) EXCEPT
          !.broken = Differing(q, f) \cap q.sure,
          !.missing = f.held \ DOMAIN q.held,
          !.miskept = f.keeps \cap Differing(q, f),
          !.misentered = Entering(f) \cap Differing(q, f)]
    BY <1>1 DEF Applied, Sections, Replicas
  <2>2. CheckHashes(q, f) = [q EXCEPT !.due = q.due \cup bad, !.sent = q.sent \ bad]
    BY <1>3 DEF CheckHashes, Replicas
  <2> HIDE DEF q, bad
  <2> QED
    BY <2>1, <2>2
<1> HIDE DEF p, S, q
<1>5. Differing(q, f) \in Views
  BY <1>3, Partial DEF Differing, Replicas, Views
<1>6. \A d : Differing(d, f) = {c \in DOMAIN f.truth \cap DOMAIN d.held : Content(d, c) # f.truth[c]}
  BY DEF Differing
<1>7. f.held \in Views
  BY FrameFacts
<1> DEFINE Y == Differing(q, f)
<1> HIDE DEF Y
<1>8. /\ q.due \cup bad \in Views /\ q.sent \ bad \in Views /\ Y \cap q.sure \in Views
      /\ f.held \ DOMAIN q.held \in Views /\ f.keeps \cap Y \in Views
      /\ Entering(f) \cap Y \in Views
  BY <1>3, <1>5, <1>7 DEF Replicas, Views, Y
<1>9. /\ a \in Replicas /\ a.sure = S /\ a.held = p.held /\ a.tile = p.tile
      /\ a.ent = p.ent /\ a.epoch = p.epoch
      /\ a.broken = Y \cap q.sure /\ a.missing = f.held \ DOMAIN q.held
  BY <1>3, <1>8 DEF Replicas, Y
<1>10. \A c : Content(a, c) = Content(q, c)
  BY <1>3, <1>9 DEF Content
<1>11. Differing(a, f) = Y
  BY <1>3, <1>6, <1>9, <1>10 DEF Y
<1>12. S = SureAfter(r, f)
  BY <1>0 DEF S, SureAfter
<1>13. a.held = Sections(r, f).held
  BY <1>9 DEF p
<1> HIDE DEF a, Y
<1> QED
  BY <1>0, <1>3, <1>4, <1>9, <1>11, <1>12, <1>13

\* What a Welcome leaves it with: nothing of what it held.
Forgotten(r) ==
  [e \in Entities |-> IF Foot(e) \cap DOMAIN r.held # {} THEN 0 ELSE r.ent[e]]

LEMMA AfterWelcome ==
  ASSUME NEW r \in Replicas, NEW m, m.epoch \in Nat
  PROVE  LET a == Welcomed(r, m) IN
         /\ a \in Replicas /\ a.epoch = m.epoch
         /\ m.epoch = r.epoch => a = r
         /\ m.epoch # r.epoch =>
              /\ DOMAIN a.held = {} /\ a.held = LeaveHeld(r, DOMAIN r.held)
              /\ a.sure = r.sure \ DOMAIN r.held
              /\ a.tile = LeaveTile(r, DOMAIN r.held) /\ a.ent = Forgotten(r)
         /\ a.broken = r.broken /\ a.missing = r.missing
<1> DEFINE C == DOMAIN r.held
           p == LeaveAll(r, C)
           a == [p EXCEPT !.epoch = m.epoch, !.due = {}, !.sent = {}]
<1>1. C \in Views
  BY Partial DEF Replicas
<1> HIDE DEF C
<1>2. /\ p \in Replicas /\ p.tile = LeaveTile(r, C) /\ p.ent = LeaveEnt(r, C)
      /\ p.held = LeaveHeld(r, C) /\ p.sure = r.sure \ C
  BY <1>1, AfterLeaves
<1>3. p.broken = r.broken /\ p.missing = r.missing
  BY DEF LeaveAll, Replicas
<1>4. CASE m.epoch = r.epoch
  BY <1>4 DEF Welcomed
<1>5. CASE m.epoch # r.epoch
  <2>1. Welcomed(r, m) = a
    BY <1>5 DEF Welcomed, C
  <2> HIDE DEF p
  <2>2. /\ a \in Replicas /\ a.epoch = m.epoch /\ a.tile = p.tile /\ a.ent = p.ent
        /\ a.held = p.held /\ a.sure = p.sure /\ a.broken = p.broken /\ a.missing = p.missing
    BY <1>2 DEF Replicas, Views
  <2>3. DOMAIN r.held \ C = {} /\ DOMAIN LeaveHeld(r, C) = {}
    BY DEF LeaveHeld, C
  <2>4. \A e \in Entities : e \in Dropped(r, C) <=> Foot(e) \cap C # {}
    BY <2>3 DEF Dropped
  <2>5. LeaveEnt(r, C) = Forgotten(r)
    BY <2>4 DEF LeaveEnt, Forgotten, C
  <2> HIDE DEF a
  <2>6. C = DOMAIN r.held
    BY DEF C
  <2> QED
    BY <1>2, <1>3, <1>5, <2>1, <2>2, <2>3, <2>5, <2>6
<1> QED
  BY <1>4, <1>5

(***************************************************************************)
(* Two records of a replica that hold the same: what differs is the camera *)
(* and what is owed or found.                                              *)
(***************************************************************************)
Same(r, s) ==
  /\ r.tile = s.tile /\ r.ent = s.ent /\ r.held = s.held /\ r.sure = s.sure
  /\ r.epoch = s.epoch

Received(r, m) == IF m.kind = "welcome" THEN Welcomed(r, m) ELSE Applied(r, m)
MessageOK(m) == (m.kind = "welcome" /\ m.epoch \in Nat) \/ FrameOK(m)

\* The fields of a replica after a section are those of the other's.
LEMMA SameFields ==
  ASSUME NEW r, NEW s, Same(r, s)
  PROVE  /\ \A c : Content(r, c) = Content(s, c)
         /\ \A C : PristineHeld(r, C) = PristineHeld(s, C)
         /\ \A C : PristineSure(r, C) = PristineSure(s, C)
         /\ \A n : SnapsHeld(r, n) = SnapsHeld(s, n) /\ SnapsTile(r, n) = SnapsTile(s, n)
         /\ \A n : SnapsEnt(r, n) = SnapsEnt(s, n)
         /\ \A C : LeaveHeld(r, C) = LeaveHeld(s, C) /\ LeaveTile(r, C) = LeaveTile(s, C)
         /\ \A C : LeaveEnt(r, C) = LeaveEnt(s, C)
         /\ \A C, t : BumpHeld(r, C, t) = BumpHeld(s, C, t)
         /\ \A t : TilesTile(r, t) = TilesTile(s, t)
         /\ \A p, g : OpsEnt(r, p, g) = OpsEnt(s, p, g) /\ Moved(r, p, g) = Moved(s, p, g)
         /\ \A f : Stranded(r, f) = Stranded(s, f) /\ HeldAfter(r, f) = HeldAfter(s, f)
         /\ Forgotten(r) = Forgotten(s)
<1>1. r.tile = s.tile /\ r.ent = s.ent /\ r.held = s.held /\ r.sure = s.sure
  BY DEF Same
<1>2. \A c : Content(r, c) = Content(s, c)
  BY <1>1 DEF Content
<1>3. \A C : PristineHeld(r, C) = PristineHeld(s, C)
  BY <1>1 DEF PristineHeld
<1>4. \A C : PristineSure(r, C) = PristineSure(s, C)
  BY <1>1, <1>2 DEF PristineSure
<1>5. \A n : SnapsHeld(r, n) = SnapsHeld(s, n) /\ SnapsTile(r, n) = SnapsTile(s, n)
  BY <1>1 DEF SnapsHeld, SnapsTile
<1>6. \A n : SnapsEnt(r, n) = SnapsEnt(s, n)
  <2>1. \A n, e : Snapped(r, n, e) = Snapped(s, n, e)
    BY <1>1 DEF Snapped
  <2> QED
    BY <2>1 DEF SnapsEnt
<1>7. \A C : LeaveHeld(r, C) = LeaveHeld(s, C) /\ LeaveTile(r, C) = LeaveTile(s, C)
  BY <1>1 DEF LeaveHeld, LeaveTile
<1>8. \A C : LeaveEnt(r, C) = LeaveEnt(s, C)
  BY <1>1 DEF LeaveEnt, Dropped
<1>9. \A C, t : BumpHeld(r, C, t) = BumpHeld(s, C, t)
  BY <1>1 DEF BumpHeld
<1>10. \A t : TilesTile(r, t) = TilesTile(s, t)
  BY <1>1 DEF TilesTile
<1>11. \A p, g : OpsEnt(r, p, g) = OpsEnt(s, p, g) /\ Moved(r, p, g) = Moved(s, p, g)
  BY <1>1 DEF OpsEnt, Moved
<1>12. \A f : Stranded(r, f) = Stranded(s, f) /\ HeldAfter(r, f) = HeldAfter(s, f)
  BY <1>1 DEF Stranded, HeldAfter
<1>13. Forgotten(r) = Forgotten(s)
  BY <1>1 DEF Forgotten
<1> QED
  BY <1>2, <1>3, <1>4, <1>5, <1>6, <1>7, <1>8, <1>9, <1>10, <1>11, <1>12, <1>13

LEMMA SameSections ==
  ASSUME NEW r \in Replicas, NEW s \in Replicas, Same(r, s), NEW f, FrameOK(f)
  PROVE  Same(Sections(r, f), Sections(s, f))
<1> DEFINE r1 == EnterPristine(r, f.pristine)
           r2 == Snapshots(r1, f.snaps)
           r3 == LeaveAll(r2, f.leaves)
           r4 == Tiles(r3, f.tiles, f.tick)
           r5 == EntityOps(r4, f.puts, f.gones, f.tick)
           s1 == EnterPristine(s, f.pristine)
           s2 == Snapshots(s1, f.snaps)
           s3 == LeaveAll(s2, f.leaves)
           s4 == Tiles(s3, f.tiles, f.tick)
           s5 == EntityOps(s4, f.puts, f.gones, f.tick)
<1> HIDE DEF r1, r2, r3, r4, r5, s1, s2, s3, s4, s5
<1>1. /\ r1 \in Replicas /\ s1 \in Replicas
      /\ r1.tile = r.tile /\ r1.ent = r.ent /\ r1.epoch = r.epoch
      /\ r1.held = PristineHeld(r, f.pristine) /\ r1.sure = PristineSure(r, f.pristine)
      /\ s1.tile = s.tile /\ s1.ent = s.ent /\ s1.epoch = s.epoch
      /\ s1.held = PristineHeld(s, f.pristine) /\ s1.sure = PristineSure(s, f.pristine)
  BY FrameFacts, AfterPristine DEF r1, s1
<1>2. Same(r1, s1)
  BY <1>1, SameFields DEF Same
<1>3. /\ r2 \in Replicas /\ r2.epoch = r1.epoch
      /\ r2.tile = SnapsTile(r1, f.snaps) /\ r2.ent = SnapsEnt(r1, f.snaps)
      /\ r2.held = SnapsHeld(r1, f.snaps) /\ r2.sure = r1.sure \cup DOMAIN f.snaps
  BY <1>1, FrameFacts, AfterSnapshots DEF r2
<1>4. /\ s2 \in Replicas /\ s2.epoch = s1.epoch
      /\ s2.tile = SnapsTile(s1, f.snaps) /\ s2.ent = SnapsEnt(s1, f.snaps)
      /\ s2.held = SnapsHeld(s1, f.snaps) /\ s2.sure = s1.sure \cup DOMAIN f.snaps
  BY <1>1, FrameFacts, AfterSnapshots DEF s2
<1>5. Same(r2, s2)
  BY <1>2, <1>3, <1>4, SameFields DEF Same
<1>6. /\ r3 \in Replicas /\ r3.epoch = r2.epoch
      /\ r3.tile = LeaveTile(r2, f.leaves) /\ r3.ent = LeaveEnt(r2, f.leaves)
      /\ r3.held = LeaveHeld(r2, f.leaves) /\ r3.sure = r2.sure \ f.leaves
  BY <1>3, FrameFacts, AfterLeaves DEF r3
<1>7. /\ s3 \in Replicas /\ s3.epoch = s2.epoch
      /\ s3.tile = LeaveTile(s2, f.leaves) /\ s3.ent = LeaveEnt(s2, f.leaves)
      /\ s3.held = LeaveHeld(s2, f.leaves) /\ s3.sure = s2.sure \ f.leaves
  BY <1>4, FrameFacts, AfterLeaves DEF s3
<1>8. Same(r3, s3)
  BY <1>5, <1>6, <1>7, SameFields DEF Same
<1>9. /\ r4 \in Replicas /\ r4.epoch = r3.epoch /\ r4.ent = r3.ent
      /\ r4.tile = TilesTile(r3, f.tiles)
      /\ r4.held = BumpHeld(r3, DOMAIN f.tiles, f.tick) /\ r4.sure = r3.sure
  BY <1>6, FrameFacts, AfterTiles DEF r4
<1>10. /\ s4 \in Replicas /\ s4.epoch = s3.epoch /\ s4.ent = s3.ent
       /\ s4.tile = TilesTile(s3, f.tiles)
       /\ s4.held = BumpHeld(s3, DOMAIN f.tiles, f.tick) /\ s4.sure = s3.sure
  BY <1>7, FrameFacts, AfterTiles DEF s4
<1>11. Same(r4, s4)
  BY <1>8, <1>9, <1>10, SameFields DEF Same
<1>12. /\ r5.epoch = r4.epoch /\ r5.tile = r4.tile
       /\ r5.ent = OpsEnt(r4, f.puts, f.gones)
       /\ r5.held = BumpHeld(r4, Moved(r4, f.puts, f.gones), f.tick) /\ r5.sure = r4.sure
  BY <1>9, FrameFacts, AfterEntityOps DEF r5
<1>13. /\ s5.epoch = s4.epoch /\ s5.tile = s4.tile
       /\ s5.ent = OpsEnt(s4, f.puts, f.gones)
       /\ s5.held = BumpHeld(s4, Moved(s4, f.puts, f.gones), f.tick) /\ s5.sure = s4.sure
  BY <1>10, FrameFacts, AfterEntityOps DEF s5
<1>14. Same(r5, s5)
  BY <1>11, <1>12, <1>13, SameFields DEF Same
<1>15. r5 = Sections(r, f) /\ s5 = Sections(s, f)
  BY DEF Sections, r1, r2, r3, r4, r5, s1, s2, s3, s4, s5
<1> QED
  BY <1>14, <1>15

\* What both get from the same message is the same.
LEMMA SameReceived ==
  ASSUME NEW r \in Replicas, NEW s \in Replicas, Same(r, s), NEW m, MessageOK(m)
  PROVE  /\ Received(r, m) \in Replicas
         /\ Same(Received(r, m), Received(s, m))
<1> DEFINE a == Received(r, m)
           b == Received(s, m)
<1> HIDE DEF a, b
<1>1. CASE FrameOK(m)
  <2>1. a = Applied(r, m) /\ b = Applied(s, m)
    BY <1>1 DEF Received, FrameOK, a, b
  <2>2. /\ a \in Replicas /\ a.epoch = r.epoch /\ a.held = Sections(r, m).held
        /\ a.tile = TilesAfter(r, m) /\ a.ent = EntsAfter(r, m) /\ a.sure = SureAfter(r, m)
    BY <1>1, <2>1, AfterFrame
  <2>3. /\ b.epoch = s.epoch /\ b.held = Sections(s, m).held
        /\ b.tile = TilesAfter(s, m) /\ b.ent = EntsAfter(s, m) /\ b.sure = SureAfter(s, m)
    BY <1>1, <2>1, AfterFrame
  <2>4. /\ Sections(r, m).tile = TilesAfter(r, m) /\ Sections(r, m).ent = EntsAfter(r, m)
        /\ Sections(r, m).sure = SureBefore(r, m)
    BY <1>1, AfterSections
  <2>5. /\ Sections(s, m).tile = TilesAfter(s, m) /\ Sections(s, m).ent = EntsAfter(s, m)
        /\ Sections(s, m).sure = SureBefore(s, m)
    BY <1>1, AfterSections
  <2>6. Same(Sections(r, m), Sections(s, m))
    BY <1>1, SameSections
  <2>7. SureAfter(r, m) = SureAfter(s, m)
    BY <2>4, <2>5, <2>6, SameFields DEF SureAfter, Same
  <2>8. Same(a, b)
    BY <2>2, <2>3, <2>4, <2>5, <2>6, <2>7 DEF Same
  <2> QED
    BY <2>2, <2>8 DEF a, b
<1>2. CASE m.kind = "welcome" /\ m.epoch \in Nat
  <2>1. a = Welcomed(r, m) /\ b = Welcomed(s, m)
    BY <1>2 DEF Received, a, b
  <2>2. r.epoch = s.epoch /\ r.held = s.held /\ r.sure = s.sure
    BY DEF Same
  <2>3. CASE m.epoch = r.epoch
    <3>1. a = r /\ b = s
      BY <2>1, <2>2, <2>3 DEF Welcomed
    <3> QED
      BY <3>1 DEF a, b
  <2>4. CASE m.epoch # r.epoch
    <3>1. /\ a \in Replicas /\ a.epoch = m.epoch
          /\ a.sure = r.sure \ DOMAIN r.held /\ a.held = LeaveHeld(r, DOMAIN r.held)
          /\ a.tile = LeaveTile(r, DOMAIN r.held) /\ a.ent = Forgotten(r)
      BY <1>2, <2>1, <2>4, AfterWelcome
    <3>2. s.epoch # m.epoch
      BY <2>2, <2>4
    <3>3. /\ b.epoch = m.epoch
          /\ b.sure = s.sure \ DOMAIN s.held /\ b.held = LeaveHeld(s, DOMAIN s.held)
          /\ b.tile = LeaveTile(s, DOMAIN s.held) /\ b.ent = Forgotten(s)
      BY <1>2, <2>1, <3>2, AfterWelcome
    <3>4. Same(a, b)
      BY <2>2, <3>1, <3>3, SameFields DEF Same
    <3> QED
      BY <3>1, <3>4 DEF a, b
  <2> QED
    BY <2>3, <2>4
<1> QED
  BY <1>1, <1>2 DEF MessageOK
(***************************************************************************)
(* What a message, once it has arrived, and the host agree on.             *)
(***************************************************************************)
\* An entity the replica knows overlaps a chunk it holds.
Grounded(r) == \A e \in Entities : r.ent[e] # 0 => Foot(e) \cap DOMAIN r.held # {}

\* A replica of the host's epoch holds no version the host has not reached, and
\* reads a sure chunk at the host's own version as the host does.
ReplicaOK(h, r) ==
  /\ r.sure \subseteq DOMAIN r.held
  /\ Grounded(r)
  /\ r.epoch <= h.epoch
  /\ r.epoch = h.epoch =>
       \A c \in DOMAIN r.held :
         /\ r.held[c] <= h.clock
         /\ c \in r.sure /\ r.held[c] = h.ver[c] => Content(r, c) = Content(h, c)

\* The replica that has received everything sent, against the slot.
Follows(h, s, r) ==
  /\ r.epoch = h.epoch
  /\ s.held \subseteq DOMAIN r.held
  /\ s.resume # NoHint =>
       /\ s.resume.chunks = r.held
       /\ s.held = {} /\ DOMAIN s.queue = {} /\ s.collapsed = {} /\ s.tainted = {} /\ s.subs = {}
  /\ \A c \in (r.sure \cap s.held) \ s.collapsed :
       /\ \A e \in Over(c) : Alive(h.ent[e]) = 0 => r.ent[e] = 0
       /\ c \notin s.tainted => Content(r, c) = Content(h, c)

\* A frame says what it means to the replica it makes.
FrameGood(f, r) ==
  f.kind = "frame" =>
    /\ f.held \subseteq DOMAIN r.held
    /\ \A c \in r.sure \cap DOMAIN f.truth : Content(r, c) = f.truth[c]

LEMMA ContentIs ==
  ASSUME NEW r \in Replicas, NEW h \in Worlds, NEW c
  PROVE  Content(r, c) = Content(h, c) <=>
           r.tile[c] = h.tile[c] /\ \A e \in Over(c) : r.ent[e] = Alive(h.ent[e])
<1>1. \A e \in Over(c) : Alive(r.ent[e]) = r.ent[e]
  BY Some, EntityFacts DEF Replicas, Alive
<1> DEFINE A == [e \in Over(c) |-> Alive(r.ent[e])]
           B == [e \in Over(c) |-> Alive(h.ent[e])]
<1>2. A = B <=> \A e \in Over(c) : r.ent[e] = Alive(h.ent[e])
  <2>1. DOMAIN A = Over(c) /\ \A e \in Over(c) : A[e] = r.ent[e]
    BY <1>1
  <2>2. DOMAIN B = Over(c) /\ \A e \in Over(c) : B[e] = Alive(h.ent[e])
    OBVIOUS
  <2>3. A = [e \in Over(c) |-> A[e]] /\ B = [e \in Over(c) |-> B[e]]
    OBVIOUS
  <2> HIDE DEF A, B
  <2> QED
    BY <2>1, <2>2, <2>3
<1>3. Content(r, c) = [tile |-> r.tile[c], ents |-> A]
  BY DEF Content
<1>4. Content(h, c) = [tile |-> h.tile[c], ents |-> B]
  BY DEF Content
<1> HIDE DEF A, B
<1> QED
  BY <1>2, <1>3, <1>4

LEMMA EmptyIs ==
  ASSUME NEW h, NEW c, Content(h, c) = Empty(c)
  PROVE  h.tile[c] = 0 /\ \A e \in Over(c) : Alive(h.ent[e]) = 0
<1> DEFINE A == [e \in Over(c) |-> 0]
           B == [e \in Over(c) |-> Alive(h.ent[e])]
<1>1. [tile |-> h.tile[c], ents |-> B] = [tile |-> 0, ents |-> A]
  BY DEF Content, Empty
<1>2. \A e \in Over(c) : A[e] = 0 /\ B[e] = Alive(h.ent[e])
  OBVIOUS
<1> HIDE DEF A, B
<1> QED
  BY <1>1, <1>2

(***************************************************************************)
(* What a tick does to the world.                                          *)
(***************************************************************************)
WorldOK(h) ==
  /\ h \in Worlds /\ h.epoch >= 1
  /\ \A c \in Chunks : h.ver[c] <= h.clock

Writes(T, u) ==
  /\ T \subseteq Chunks /\ DOMAIN u \subseteq Entities
  /\ \A e \in DOMAIN u : u[e] \in 1..Gone

WorldStep(h0, h, T, u) ==
  /\ h.epoch = h0.epoch /\ h0.clock <= h.clock
  /\ \A c \in Stamped(T, u) : h.ver[c] = h0.clock + 1
  /\ \A c \in Chunks \ Stamped(T, u) : h.ver[c] = h0.ver[c]
  /\ \A c \in Chunks \ T : h.tile[c] = h0.tile[c]
  /\ \A e \in Entities : h.ent[e] = IF e \in DOMAIN u THEN u[e] ELSE h0.ent[e]

LEMMA StampedFacts ==
  ASSUME NEW T, NEW u, Writes(T, u)
  PROVE  /\ Stamped(T, u) \subseteq Chunks /\ T \subseteq Stamped(T, u)
         /\ \A e \in DOMAIN u : Foot(e) \subseteq Stamped(T, u)
         /\ Stamped(T, u) = {} => T = {} /\ DOMAIN u = {}
<1>1. \A e \in DOMAIN u : Foot(e) \subseteq Chunks /\ Foot(e) # {}
  BY EntityFacts DEF Writes
<1>2. \A e \in DOMAIN u : Foot(e) \subseteq Stamped(T, u)
  BY DEF Stamped
<1>3. Stamped(T, u) \subseteq Chunks /\ T \subseteq Stamped(T, u)
  BY <1>1 DEF Stamped, Writes
<1> QED
  BY <1>1, <1>2, <1>3

LEMMA AfterWrites ==
  ASSUME NEW h0, WorldOK(h0), NEW T, NEW u, Writes(T, u),
         Stamped(T, u) # {} => h0.clock + 1 \in Versions
  PROVE  LET h == Changed(h0, T, u) IN
         /\ WorldOK(h) /\ WorldStep(h0, h, T, u)
         /\ h.clock = IF Stamped(T, u) = {} THEN h0.clock ELSE h0.clock + 1
<1> DEFINE h == Changed(h0, T, u)
<1> HIDE DEF h
<1>0. /\ h0 \in Worlds /\ h0.clock \in Nat /\ h0.clock <= h0.clock
      /\ \A c \in Chunks : h0.ver[c] \in Nat /\ h0.ver[c] <= h0.clock
  <2>1. h0 \in Worlds /\ \A c \in Chunks : h0.ver[c] <= h0.clock
    BY DEF WorldOK
  <2>2. h0.clock \in Versions /\ \A c \in Chunks : h0.ver[c] \in Versions
    BY <2>1 DEF Worlds
  <2>3. h0.clock \in Nat /\ \A c \in Chunks : h0.ver[c] \in Nat
    BY <2>2, Some
  <2> QED
    BY <2>1, <2>3
<1>1. CASE Stamped(T, u) = {}
  <2>1. h = h0
    BY <1>1 DEF Changed, h
  <2>2. WorldStep(h0, h0, T, u)
    BY <1>0, <1>1, StampedFacts DEF WorldStep
  <2> QED
    BY <1>1, <2>1, <2>2 DEF h
<1>2. CASE Stamped(T, u) # {}
  <2> DEFINE now == h0.clock + 1
             tile == [c \in Chunks |-> IF c \in T THEN 1 - h0.tile[c] ELSE h0.tile[c]]
             ent == [e \in Entities |-> IF e \in DOMAIN u THEN u[e] ELSE h0.ent[e]]
             ver == [c \in Chunks |-> IF c \in Stamped(T, u) THEN now ELSE h0.ver[c]]
             w == [h0 EXCEPT !.clock = now, !.tile = tile, !.ent = ent, !.ver = ver]
  <2>1. h = w
    BY <1>0, <1>2 DEF Changed, Worlds, h
  <2>2. now \in Versions /\ h0.clock <= now
    BY <1>0, <1>2
  <2>3. tile \in [Chunks -> 0..1]
    BY <1>0 DEF Worlds
  <2>4. ent \in [Entities -> 0..Gone]
    BY <1>0, Some DEF Worlds, Writes
  <2>5. ver \in [Chunks -> Versions] /\ \A c \in Chunks : ver[c] <= now
    <3>1. \A c \in Chunks : h0.ver[c] \in Versions
      BY <1>0 DEF Worlds
    <3>2. now <= now
      BY <1>0
    <3> HIDE DEF now
    <3>3. \A c \in Chunks : ver[c] \in Versions /\ (ver[c] = now \/ ver[c] = h0.ver[c])
      BY <2>2, <3>1
    <3>4. \A c \in Chunks : h0.ver[c] <= now
      BY <1>0, <2>2, Some
    <3> QED
      BY <3>2, <3>3, <3>4
  <2>6. /\ \A c \in Stamped(T, u) : ver[c] = h0.clock + 1
        /\ \A c \in Chunks \ Stamped(T, u) : ver[c] = h0.ver[c]
        /\ \A c \in Chunks \ T : tile[c] = h0.tile[c]
        /\ \A e \in Entities : ent[e] = IF e \in DOMAIN u THEN u[e] ELSE h0.ent[e]
    BY StampedFacts
  <2> HIDE DEF tile, ent, ver, now
  <2>7. /\ w \in Worlds /\ w.epoch = h0.epoch /\ w.clock = now
        /\ w.tile = tile /\ w.ent = ent /\ w.ver = ver
    BY <1>0, <2>2, <2>3, <2>4, <2>5 DEF Worlds
  <2> HIDE DEF w
  <2>8. WorldOK(h) /\ WorldStep(h0, h, T, u)
    BY <2>1, <2>2, <2>5, <2>6, <2>7 DEF WorldOK, WorldStep
  <2>9. h.clock = h0.clock + 1
    BY <2>1, <2>7 DEF now
  <2> QED
    BY <1>2, <2>8, <2>9 DEF h
<1> QED
  BY <1>1, <1>2 DEF h

\* A tick leaves a replica as right about the world as it was: whatever it
\* changes gets a version no replica holds.
LEMMA ReplicaStays ==
  ASSUME NEW h0, NEW h, WorldOK(h0), WorldOK(h), NEW T, NEW u, Writes(T, u),
         WorldStep(h0, h, T, u), NEW r \in Replicas, ReplicaOK(h0, r)
  PROVE  ReplicaOK(h, r)
<1>1. r.epoch <= h.epoch /\ (r.epoch = h.epoch => r.epoch = h0.epoch)
  BY DEF ReplicaOK, WorldStep
<1>2. ASSUME r.epoch = h.epoch, NEW c \in DOMAIN r.held
      PROVE  /\ r.held[c] <= h.clock
             /\ c \in r.sure /\ r.held[c] = h.ver[c] => Content(r, c) = Content(h, c)
  <2>1. /\ r.held[c] <= h0.clock
        /\ c \in r.sure /\ r.held[c] = h0.ver[c] => Content(r, c) = Content(h0, c)
    BY <1>1, <1>2 DEF ReplicaOK
  <2>2. /\ c \in Chunks /\ r.held[c] \in Nat /\ h0.clock \in Nat /\ h.clock \in Nat
        /\ h0.clock <= h.clock
    BY Partial, Some DEF Replicas, Views, WorldOK, Worlds, WorldStep
  <2>3. ASSUME c \in r.sure, r.held[c] = h.ver[c] PROVE Content(r, c) = Content(h, c)
    <3>1. c \notin Stamped(T, u)
      BY <2>1, <2>2, <2>3 DEF WorldStep
    <3>2. Content(r, c) = Content(h0, c)
      BY <2>1, <2>2, <2>3, <3>1 DEF WorldStep
    <3>3. h.tile[c] = h0.tile[c]
      BY <2>2, <3>1, StampedFacts DEF WorldStep
    <3>4. \A e \in Over(c) : h.ent[e] = h0.ent[e]
      BY <3>1, StampedFacts, EntityFacts DEF WorldStep
    <3>5. Content(h, c) = Content(h0, c)
      BY <3>3, <3>4 DEF Content
    <3> QED
      BY <3>2, <3>5
  <2> QED
    BY <2>1, <2>2, <2>3
<1> QED
  BY <1>1, <1>2 DEF ReplicaOK
(***************************************************************************)
(* What a tick does to the slot.                                           *)
(***************************************************************************)
LEMMA QueueFacts ==
  ASSUME NEW q \in Queues
  PROVE  /\ DOMAIN q \in Views
         /\ \A C : Without(q, C) \in Queues /\ DOMAIN Without(q, C) = DOMAIN q \ C
         /\ \A C \in Views, kind \in {"enter", "resnap"} :
              /\ Enqueue(q, C, kind) \in Queues
              /\ DOMAIN Enqueue(q, C, kind) = DOMAIN q \cup C
<1>1. DOMAIN q \in Views /\ \A c \in DOMAIN q : q[c] \in {"enter", "resnap"}
  BY DEF Queues, Views
<1>2. ASSUME NEW C \in Views, NEW g \in [C -> {"enter", "resnap"}] PROVE g \in Queues
  BY DEF Queues
<1>3. ASSUME NEW C PROVE Without(q, C) \in Queues /\ DOMAIN Without(q, C) = DOMAIN q \ C
  <2>1. DOMAIN q \ C \in Views
    BY <1>1 DEF Views
  <2>2. Without(q, C) \in [DOMAIN q \ C -> {"enter", "resnap"}]
    BY <1>1 DEF Without
  <2> QED
    BY <1>2, <2>1, <2>2
<1>4. ASSUME NEW C \in Views, NEW kind \in {"enter", "resnap"}
      PROVE  /\ Enqueue(q, C, kind) \in Queues
             /\ DOMAIN Enqueue(q, C, kind) = DOMAIN q \cup C
  <2>1. DOMAIN q \cup C \in Views
    BY <1>1 DEF Views
  <2>2. Enqueue(q, C, kind) \in [DOMAIN q \cup C -> {"enter", "resnap"}]
    BY <1>1 DEF Enqueue
  <2> QED
    BY <1>2, <2>1, <2>2
<1> QED
  BY <1>1, <1>3, <1>4

NoteStep(h, s, n, L) ==
  LET keep == Keeps(h, s, Entered(s)) IN
  /\ n \in Slots /\ n.on = s.on /\ n.resume = NoHint
  /\ n.held = (s.held \ L) \cup keep
  /\ n.collapsed = s.collapsed \ L /\ n.tainted = s.tainted \ L
  /\ DOMAIN n.queue = (DOMAIN s.queue \ L) \cup (Entered(s) \ keep)

LEMMA NoHintFacts == NoHint \in [epoch : Nat, chunks : PartialVersions] /\ DOMAIN NoHint.chunks = {}
<1>1. << >> = [c \in {} |-> 0]
  OBVIOUS
<1>2. {} \in Views
  BY DEF Views
<1>3. [c \in {} |-> 0] \in PartialVersions
  BY <1>2, Some
<1> QED
  BY <1>1, <1>3 DEF NoHint

LEMMA AfterNotes ==
  ASSUME NEW h, NEW s \in Slots, NEW L
  PROVE  NoteStep(h, s, Noted(h, s, L), L)
<1> DEFINE E == Entered(s)
           keep == Keeps(h, s, E)
           q == Enqueue(Without(s.queue, L), E \ keep, "enter")
           p == [s EXCEPT !.subs = (s.subs \ L) \cup s.cam]
           n == [p EXCEPT !.held = (s.held \ L) \cup keep, !.collapsed = s.collapsed \ L,
                          !.tainted = s.tainted \ L, !.resume = NoHint, !.queue = q]
<1>1. s.queue \in Queues /\ s.cam \in Views /\ s.subs \in Views /\ s.held \in Views
  BY DEF Slots
<1>2. E \in Views /\ keep \in Views
  BY <1>1 DEF Views, Entered, Keeps
<1>3. q \in Queues /\ DOMAIN q = (DOMAIN s.queue \ L) \cup (E \ keep)
  <2>1. E \ keep \in Views
    BY <1>2 DEF Views
  <2>2. Without(s.queue, L) \in Queues /\ DOMAIN Without(s.queue, L) = DOMAIN s.queue \ L
    BY <1>1, QueueFacts
  <2> QED
    BY <2>1, <2>2, QueueFacts
<1>4. Noted(h, s, L) = n
  <2>1. Updated(s, L) = p
    BY DEF Updated, Slots
  <2>2. /\ p.held = s.held /\ p.collapsed = s.collapsed /\ p.tainted = s.tainted
        /\ p.queue = s.queue /\ p \in Slots
    BY <1>1 DEF Slots, Views
  <2> HIDE DEF p, q, keep
  <2>3. n = [p EXCEPT !.held = (p.held \ L) \cup keep, !.collapsed = p.collapsed \ L,
                      !.tainted = p.tainted \ L, !.resume = NoHint, !.queue = q]
    BY <2>2
  <2> QED
    BY <2>1, <2>2, <2>3 DEF Noted, Slots, E, keep, q
<1>5. /\ (s.held \ L) \cup keep \in Views /\ s.collapsed \ L \in Views
      /\ s.tainted \ L \in Views /\ (s.subs \ L) \cup s.cam \in Views
  BY <1>1, <1>2 DEF Views, Slots
<1> HIDE DEF q, keep, E
<1>6. /\ n \in Slots /\ n.on = s.on /\ n.resume = NoHint
      /\ n.held = (s.held \ L) \cup keep /\ n.collapsed = s.collapsed \ L
      /\ n.tainted = s.tainted \ L /\ n.queue = q
  BY <1>3, <1>5, NoHintFacts DEF Slots
<1> HIDE DEF n
<1> QED
  BY <1>3, <1>4, <1>6 DEF NoteStep, keep, E

DrainStep(n, full, D, K) ==
  /\ full \in Slots /\ full.on = n.on /\ full.resume = n.resume
  /\ full.held = n.held \cup D
  /\ full.collapsed = (n.collapsed \ {c \in D : n.queue[c] = "resnap"}) \cup K
  /\ n.tainted \ D \subseteq full.tainted
  /\ full.collapsed \subseteq full.tainted /\ Touched(full.collapsed) \subseteq full.tainted

LEMMA AfterDrain ==
  ASSUME NEW n \in Slots, NEW D, D \subseteq DOMAIN n.queue, NEW K \in Views,
         NEW snap, snap \subseteq D
  PROVE  DrainStep(n, Tainted(Collapsed(Drained(n, D), K), snap), D, K)
<1> DEFINE R == {c \in D : n.queue[c] = "resnap"}
           q1 == Without(n.queue, D)
           d == [n EXCEPT !.held = n.held \cup D, !.collapsed = n.collapsed \ R, !.queue = q1]
           q2 == Enqueue(q1, K, "resnap")
           C == (n.collapsed \ R) \cup K
           k == [d EXCEPT !.collapsed = C, !.queue = q2]
           M == (n.tainted \ snap) \cup C \cup Touched(C)
           f == [k EXCEPT !.tainted = M]
<1>1. n.queue \in Queues /\ D \in Views /\ n.held \in Views /\ n.collapsed \in Views /\ n.tainted \in Views
  <2>1. n.queue \in Queues
    BY DEF Slots
  <2> QED
    BY <2>1, QueueFacts DEF Slots, Views
<1>2. q1 \in Queues /\ q2 \in Queues
  BY <1>1, QueueFacts
<1>3. C \in Views /\ n.held \cup D \in Views /\ n.collapsed \ R \in Views
  BY <1>1 DEF Views
<1>4. M \in Views
  <2>1. \A B : Touched(B) \subseteq Chunks
    BY EntityFacts DEF Touched
  <2> QED
    BY <1>1, <1>3, <2>1 DEF Views
<1>5. Drained(n, D) = d
  BY DEF Drained, Slots
<1> HIDE DEF R, q1, q2, C, M
<1>6. /\ d \in Slots /\ d.on = n.on /\ d.resume = n.resume /\ d.held = n.held \cup D
      /\ d.collapsed = n.collapsed \ R /\ d.queue = q1 /\ d.tainted = n.tainted
  BY <1>1, <1>2, <1>3 DEF Slots
<1> HIDE DEF d
<1>7. Collapsed(d, K) = k
  BY <1>6 DEF Collapsed, Slots, C, q2
<1>8. /\ k \in Slots /\ k.on = d.on /\ k.resume = d.resume /\ k.held = d.held
      /\ k.collapsed = C /\ k.tainted = d.tainted
  BY <1>2, <1>3, <1>6 DEF Slots
<1> HIDE DEF k
<1>9. Tainted(k, snap) = f
  BY <1>6, <1>8 DEF Tainted, Slots, M
<1>10. /\ f \in Slots /\ f.on = k.on /\ f.resume = k.resume /\ f.held = k.held
       /\ f.collapsed = k.collapsed /\ f.tainted = M
  BY <1>4, <1>8 DEF Slots
<1> HIDE DEF f
<1>11. C = (n.collapsed \ {c \in D : n.queue[c] = "resnap"}) \cup K
  BY DEF C, R
<1>12. n.tainted \ D \subseteq M /\ C \subseteq M /\ Touched(C) \subseteq M
  BY DEF M
<1> QED
  BY <1>5, <1>6, <1>7, <1>8, <1>9, <1>10, <1>11, <1>12 DEF DrainStep

OverflowStep(n, full, D, stamped, o) ==
  /\ o \in Slots /\ o.on = full.on /\ o.resume = full.resume
  /\ o.held = n.held /\ o.tainted = full.tainted
  /\ full.collapsed \subseteq o.collapsed /\ D \cap n.held \subseteq o.collapsed
  /\ stamped \cap (n.held \ (D \cup n.collapsed)) \subseteq o.collapsed

LEMMA AfterOverflow ==
  ASSUME NEW n \in Slots, NEW full \in Slots, NEW D, NEW K, DrainStep(n, full, D, K),
         NEW stamped
  PROVE  OverflowStep(n, full, D, stamped, Overflowed(n, full, D, stamped))
<1> DEFINE new == D \ n.held
           owed == (D \ new) \cup (stamped \cap (n.held \ (D \cup n.collapsed)))
           q == Enqueue(Enqueue(full.queue, new, "enter"), owed, "resnap")
           o == [full EXCEPT !.held = full.held \ new, !.collapsed = full.collapsed \cup owed,
                             !.queue = q]
<1>1. /\ full.queue \in Queues /\ full.held \in Views /\ full.collapsed \in Views
      /\ n.held \in Views /\ full.held = n.held \cup D
  BY DEF Slots, DrainStep
<1>2. new \in Views /\ owed \in Views /\ full.held \ new \in Views /\ full.collapsed \cup owed \in Views
  BY <1>1 DEF Views
<1>3. q \in Queues
  <2>1. Enqueue(full.queue, new, "enter") \in Queues
    BY <1>1, <1>2, QueueFacts
  <2> HIDE DEF new, owed
  <2> QED
    BY <1>2, <2>1, QueueFacts
<1>4. Overflowed(n, full, D, stamped) = o
  BY DEF Overflowed, Slots
<1>5. full.held \ new = n.held
  BY <1>1
<1>6. D \cap n.held \subseteq owed /\ stamped \cap (n.held \ (D \cup n.collapsed)) \subseteq owed
  OBVIOUS
<1> HIDE DEF new, owed, q
<1>7. /\ o \in Slots /\ o.on = full.on /\ o.resume = full.resume /\ o.held = full.held \ new
      /\ o.tainted = full.tainted /\ o.collapsed = full.collapsed \cup owed
  BY <1>2, <1>3 DEF Slots
<1> HIDE DEF o
<1> QED
  BY <1>4, <1>5, <1>6, <1>7 DEF OverflowStep

(***************************************************************************)
(* What the frame of a tick says.                                          *)
(***************************************************************************)
FrameStep(h, n, full, D, T, u, K, leaves, f) ==
  /\ FrameOK(f) /\ f.tick = h.clock /\ f.leaves = leaves
  /\ f.pristine \cup DOMAIN f.snaps = D /\ f.pristine \cap DOMAIN f.snaps = {}
  /\ \A c \in f.pristine : Content(h, c) = Empty(c)
  /\ \A c \in DOMAIN f.snaps : f.snaps[c].ver = h.ver[c] /\ f.snaps[c].content = Content(h, c)
  /\ DOMAIN f.tiles \subseteq T \ D
  /\ T \cap (n.held \ (D \cup full.collapsed)) \subseteq DOMAIN f.tiles
  /\ \A c \in DOMAIN f.tiles : f.tiles[c] = h.tile[c]
  /\ \A e \in DOMAIN f.puts :
       e \in DOMAIN u /\ u[e] # Gone /\ f.puts[e] = h.ent[e] /\ Foot(e) \cap n.held # {}
  /\ \A e \in DOMAIN u :
       u[e] # Gone /\ Foot(e) \cap (n.held \ (D \cup full.collapsed)) # {} /\ Anchor(e) \notin K
         => e \in DOMAIN f.puts
  /\ \A e : e \in f.gones <=> e \in DOMAIN u /\ u[e] = Gone /\ Foot(e) \cap (n.held \ D) # {}
  /\ f.held = full.held /\ f.withheld = full.tainted
  /\ \A c \in DOMAIN f.truth : f.truth[c] = Content(h, c)

LEMMA AfterTick ==
  ASSUME NEW h0, NEW h, WorldOK(h), NEW T, NEW u, Writes(T, u), WorldStep(h0, h, T, u),
         NEW n \in Slots, NEW D, D \subseteq DOMAIN n.queue, NEW K \in Views,
         NEW full \in Slots, DrainStep(n, full, D, K), NEW H, NEW keeps,
         NEW leaves \in Views
  PROVE  FrameStep(h, n, full, D, T, u, K, leaves, Frame(h, n, full, D, T, u, K, H, keeps, leaves))
<1> DEFINE d == Drained(n, D)
           f == Frame(h, n, full, D, T, u, K, H, keeps, leaves)
           snap == {c \in D : Snapshot(h, n, c)}
<1>1. /\ h \in Worlds /\ n.queue \in Queues /\ n.held \in Views /\ D \in Views
  <2>1. n.queue \in Queues
    BY DEF Slots
  <2> QED
    BY <2>1, QueueFacts DEF Slots, Views, WorldOK
<1>2. /\ d.held = n.held \cup D /\ d.collapsed \subseteq full.collapsed
      /\ K \subseteq full.collapsed
  BY DEF Drained, Slots, DrainStep
<1> HIDE DEF d
<1>3. /\ f.kind = "frame" /\ f.tick = h.clock /\ f.pristine = D \ snap
      /\ f.snaps = [c \in snap |-> [ver |-> h.ver[c], content |-> [x \in D |-> Content(h, x)][c]]]
      /\ f.leaves = leaves
      /\ f.tiles = [c \in TilesOf(d, D, T) \ K |-> h.tile[c]]
      /\ f.puts = [e \in {x \in PutsOf(d, D, u) : Anchor(x) \notin K} |-> h.ent[e]]
      /\ f.gones = GonesOf(d, D, u)
      /\ f.held = full.held /\ f.withheld = full.tainted
      /\ f.truth = [c \in Eligible(full, leaves) |-> Content(h, c)]
  BY DEF Frame, d
<1> HIDE DEF f
<1>4. DOMAIN f.snaps = snap
  BY <1>3
<1>5. ASSUME NEW c \in snap
      PROVE  f.snaps[c].ver = h.ver[c] /\ f.snaps[c].content = Content(h, c)
  BY <1>3, <1>5
<1>6. f.pristine \cup snap = D /\ f.pristine \cap snap = {}
  BY <1>3
<1>7. ASSUME NEW c \in f.pristine PROVE Content(h, c) = Empty(c)
  BY <1>3, <1>7 DEF Snapshot
<1>8. DOMAIN f.tiles = TilesOf(d, D, T) \ K /\ \A c \in DOMAIN f.tiles : f.tiles[c] = h.tile[c]
  BY <1>3
<1>9. /\ DOMAIN f.tiles \subseteq T \ D
      /\ T \cap (n.held \ (D \cup full.collapsed)) \subseteq DOMAIN f.tiles
  BY <1>2, <1>8 DEF TilesOf, Healthy
<1>10. /\ DOMAIN f.puts = {x \in PutsOf(d, D, u) : Anchor(x) \notin K}
       /\ \A e \in DOMAIN f.puts : f.puts[e] = h.ent[e]
  BY <1>3
<1>11. \A e : e \in PutsOf(d, D, u)
         <=> e \in DOMAIN u /\ u[e] # Gone /\ Foot(e) \cap ((n.held \cup D) \ (D \cup d.collapsed)) # {}
  BY <1>2 DEF PutsOf, Healthy
<1>12. \A e \in DOMAIN f.puts :
         e \in DOMAIN u /\ u[e] # Gone /\ f.puts[e] = h.ent[e] /\ Foot(e) \cap n.held # {}
  BY <1>10, <1>11
<1>13. \A e \in DOMAIN u :
         u[e] # Gone /\ Foot(e) \cap (n.held \ (D \cup full.collapsed)) # {} /\ Anchor(e) \notin K
           => e \in DOMAIN f.puts
  BY <1>2, <1>10, <1>11
<1>14. \A e : e \in f.gones <=> e \in DOMAIN u /\ u[e] = Gone /\ Foot(e) \cap (n.held \ D) # {}
  BY <1>2, <1>3 DEF GonesOf
<1>15. \A c \in DOMAIN f.truth : f.truth[c] = Content(h, c)
  BY <1>3
<1>16. \A e \in Entities : Alive(h.ent[e]) \in Values
  BY <1>1, Some DEF Worlds, Alive
<1>17. ASSUME NEW c \in snap
       PROVE  /\ f.snaps[c].ver \in Versions /\ f.snaps[c].content.tile \in 0..1
              /\ \A e \in Over(c) : f.snaps[c].content.ents[e] \in Values
  <2>1. c \in Chunks
    BY <1>1 DEF Views
  <2>2. h.ver[c] \in Versions /\ h.tile[c] \in 0..1
    BY <1>1, <2>1 DEF Worlds
  <2>3. Content(h, c).tile = h.tile[c] /\ \A e \in Over(c) : Content(h, c).ents[e] = Alive(h.ent[e])
    BY DEF Content
  <2> QED
    BY <1>5, <1>16, <2>2, <2>3, EntityFacts
<1>18. SnapsOK(f.snaps)
  BY <1>1, <1>4, <1>17 DEF SnapsOK, Views
<1>19. \A e \in DOMAIN f.puts : e \in Entities /\ f.puts[e] \in Values
  <2>1. ASSUME NEW e \in DOMAIN f.puts PROVE e \in Entities /\ h.ent[e] \in Values
    <3>1. e \in DOMAIN u /\ u[e] # Gone /\ e \in Entities /\ u[e] \in 1..Gone
      BY <1>12 DEF Writes
    <3>2. h.ent[e] = u[e]
      BY <3>1 DEF WorldStep
    <3> QED
      BY <3>1, <3>2, Some
  <2> QED
    BY <1>12, <2>1
<1>20. f.gones \subseteq Entities /\ DOMAIN f.tiles \subseteq Chunks
  BY <1>9, <1>14 DEF Writes
<1>21. h.clock \in Versions /\ \A c \in DOMAIN f.tiles : f.tiles[c] \in 0..1
  BY <1>1, <1>8, <1>20 DEF Worlds
<1>22. FrameOK(f)
  <2>1. f.held \subseteq Chunks /\ f.leaves \subseteq Chunks /\ f.pristine \subseteq Chunks
    BY <1>1, <1>3 DEF Slots, Views
  <2> QED
    BY <1>3, <1>18, <1>19, <1>20, <1>21, <2>1 DEF FrameOK
<1> HIDE DEF snap
<1>23. FrameStep(h, n, full, D, T, u, K, leaves, f)
  BY <1>3, <1>4, <1>5, <1>6, <1>7, <1>8, <1>9, <1>12, <1>13, <1>14, <1>15, <1>22 DEF FrameStep
<1> QED
  BY <1>23 DEF f
(***************************************************************************)
(* One tick, with its frame, against a replica that had followed so far.   *)
(***************************************************************************)
Facing(h0, h, T, u, s, r, L, n, D, K, full) ==
  /\ WorldOK(h0) /\ WorldOK(h) /\ Writes(T, u) /\ WorldStep(h0, h, T, u)
  /\ s \in Slots /\ r \in Replicas /\ ReplicaOK(h0, r) /\ Follows(h0, s, r)
  /\ L \subseteq s.subs \ s.cam /\ NoteStep(h, s, n, L)
  /\ D \subseteq DOMAIN n.queue /\ K \in Views /\ DrainStep(n, full, D, K)

LeavesOf(s, L) == Leaving(s, L) \cup HintLeaves(s)

\* What leaves, what is held and what enters are apart, and the replica holds
\* what the slot does.
LEMMA Apart ==
  ASSUME NEW h0, NEW h, NEW T, NEW u, NEW s, NEW r, NEW L, NEW n, NEW D, NEW K, NEW full,
         Facing(h0, h, T, u, s, r, L, n, D, K, full)
  PROVE  /\ D \cap LeavesOf(s, L) = {} /\ n.held \cap LeavesOf(s, L) = {}
         /\ n.held \subseteq DOMAIN r.held
         /\ LeavesOf(s, L) \in Views
<1> DEFINE E == Entered(s)
           keep == Keeps(h, s, E)
           hint == DOMAIN s.resume.chunks
<1>1. /\ s.held \in Views /\ s.cam \in Views /\ hint \in Views
      /\ s.held \subseteq DOMAIN r.held
  <2>1. s.resume.chunks \in PartialVersions
    BY DEF Facing, Slots
  <2> QED
    BY <2>1, Partial DEF Facing, Slots, Follows
<1>2. keep \subseteq E \cap hint
  BY DEF Keeps
<1>3. E = s.cam \ s.subs
  BY DEF Entered
<1>4. /\ n.held = (s.held \ L) \cup keep
      /\ D \subseteq (DOMAIN s.queue \ L) \cup (E \ keep)
      /\ L \subseteq s.subs \ s.cam
  BY DEF Facing, NoteStep
<1>5. LeavesOf(s, L) = (L \cap s.held) \cup (hint \ E)
  BY DEF LeavesOf, Leaving, HintLeaves
<1> HIDE DEF E, keep, hint
<1>6. LeavesOf(s, L) \in Views
  BY <1>1, <1>5 DEF Views
<1>7. CASE s.resume = NoHint
  <2>1. hint = {}
    BY <1>7, NoHintFacts DEF hint
  <2> QED
    BY <1>1, <1>2, <1>3, <1>4, <1>5, <1>6, <2>1
<1>8. CASE s.resume # NoHint
  <2>1. hint = DOMAIN r.held /\ s.held = {} /\ DOMAIN s.queue = {}
    BY <1>8 DEF Facing, Follows, hint
  <2> QED
    BY <1>1, <1>2, <1>3, <1>4, <1>5, <1>6, <2>1
<1> QED
  BY <1>7, <1>8

\* A chunk kept on a resume has not changed since.
LEMMA Kept ==
  ASSUME NEW h0, NEW h, NEW T, NEW u, NEW s, NEW r, NEW L, NEW n, NEW D, NEW K, NEW full,
         Facing(h0, h, T, u, s, r, L, n, D, K, full),
         NEW c \in Keeps(h, s, Entered(s)), c \in r.sure
  PROVE  Content(r, c) = Content(h0, c)
<1>1. c \in DOMAIN s.resume.chunks /\ s.resume.chunks[c] = h.ver[c]
  BY DEF Keeps
<1>2. s.resume # NoHint
  BY <1>1, NoHintFacts
<1>3. s.resume.chunks = r.held /\ r.epoch = h0.epoch
  BY <1>2 DEF Facing, Follows
<1>4. c \in DOMAIN r.held /\ r.held[c] = h.ver[c]
  BY <1>1, <1>3
<1>5. r.held[c] <= h0.clock /\ (r.held[c] = h0.ver[c] => Content(r, c) = Content(h0, c))
  BY <1>3, <1>4 DEF Facing, ReplicaOK
<1>6. c \in Chunks /\ r.held[c] \in Nat /\ h0.clock \in Nat
  BY <1>4, Partial, Some DEF Facing, Replicas, Views, WorldOK, Worlds
<1>7. c \notin Stamped(T, u)
  BY <1>4, <1>5, <1>6 DEF Facing, WorldStep
<1> QED
  BY <1>4, <1>5, <1>6, <1>7 DEF Facing, WorldStep

\* What the replica knew of a chunk the slot still holds, before the tick.
LEMMA Before ==
  ASSUME NEW h0, NEW h, NEW T, NEW u, NEW s, NEW r, NEW L, NEW n, NEW D, NEW K, NEW full,
         Facing(h0, h, T, u, s, r, L, n, D, K, full),
         NEW c \in r.sure \cap n.held, c \notin D, c \notin full.collapsed
  PROVE  /\ c \in Chunks /\ c \notin n.collapsed
         /\ \A e \in Over(c) : Alive(h0.ent[e]) = 0 => r.ent[e] = 0
         /\ c \notin full.tainted => Content(r, c) = Content(h0, c)
<1>1. n.held = (s.held \ L) \cup Keeps(h, s, Entered(s))
  BY DEF Facing, NoteStep
<1>2. c \notin n.collapsed /\ c \in Chunks
  BY DEF Facing, DrainStep, NoteStep, Slots, Views
<1>3. h0 \in Worlds /\ r \in Replicas
  BY DEF Facing, WorldOK
<1>4. CASE c \in Keeps(h, s, Entered(s))
  <2>1. Content(r, c) = Content(h0, c)
    BY <1>4, Kept
  <2>2. \A e \in Over(c) : r.ent[e] = Alive(h0.ent[e])
    BY <1>3, <2>1, ContentIs
  <2> QED
    BY <1>2, <2>1, <2>2
<1>5. CASE c \in s.held /\ c \notin L
  <2>1. c \notin s.collapsed /\ (c \notin full.tainted => c \notin s.tainted)
    BY <1>2, <1>5 DEF Facing, NoteStep, DrainStep
  <2> QED
    BY <1>2, <1>5, <2>1 DEF Facing, Follows
<1> QED
  BY <1>1, <1>4, <1>5

\* A Gone the replica would miss is in the frame.
LEMMA GoneReaches ==
  ASSUME NEW h0, NEW h, NEW T, NEW u, NEW s, NEW r, NEW L, NEW n, NEW D, NEW K, NEW full,
         Facing(h0, h, T, u, s, r, L, n, D, K, full),
         NEW f, FrameStep(h, n, full, D, T, u, K, LeavesOf(s, L), f),
         NEW c \in r.sure \cap n.held, c \notin D, c \notin full.collapsed,
         NEW e \in Over(c), Alive(h.ent[e]) = 0, e \notin f.gones
  PROVE  r.ent[e] = 0
<1>1. Alive(h0.ent[e]) = 0 => r.ent[e] = 0
  BY Before
<1>2. e \in Entities /\ c \in Foot(e)
  BY EntityFacts
<1>3. h.ent[e] = IF e \in DOMAIN u THEN u[e] ELSE h0.ent[e]
  BY <1>2 DEF Facing, WorldStep
<1>4. CASE e \in DOMAIN u
  <2>1. u[e] \in 1..3
    BY <1>4, Some DEF Facing, Writes
  <2>2. u[e] = Gone
    BY <1>3, <1>4, <2>1, Some DEF Alive
  <2>3. e \in f.gones
    BY <1>2, <1>4, <2>2 DEF FrameStep
  <2> QED
    BY <2>3
<1>5. CASE e \notin DOMAIN u
  BY <1>1, <1>3, <1>5
<1> QED
  BY <1>4, <1>5
\* What the frame makes of an entity: what it is on the host, unless the frame
\* says nothing of it.
LEMMA EntityArrives ==
  ASSUME NEW h0, NEW h, NEW T, NEW u, NEW s, NEW r, NEW L, NEW n, NEW D, NEW K, NEW full,
         Facing(h0, h, T, u, s, r, L, n, D, K, full),
         NEW f, FrameStep(h, n, full, D, T, u, K, LeavesOf(s, L), f),
         NEW e \in Entities
  PROVE  /\ e \in DOMAIN f.puts \cup f.gones => EntAfter(r, f, e) = Alive(h.ent[e])
         /\ e \notin DOMAIN f.puts \cup f.gones /\ Foot(e) \cap HeldAfter(r, f) # {}
              => EntAfter(r, f, e) = EntBefore(r, f, e)
         /\ \/ EntBefore(r, f, e) = Alive(h.ent[e])
            \/ /\ EntBefore(r, f, e) = r.ent[e]
               /\ Foot(e) \cap DOMAIN f.snaps \cap (DOMAIN r.held \cup f.pristine) = {}
               /\ Foot(e) \cap DOMAIN f.snaps # {} => Alive(h.ent[e]) = 0
<1>1. e \in DOMAIN f.puts => f.puts[e] = Alive(h.ent[e])
  <2>1. e \in DOMAIN f.puts => e \in DOMAIN u /\ u[e] # Gone /\ f.puts[e] = h.ent[e]
    BY DEF FrameStep
  <2>2. e \in DOMAIN u => h.ent[e] = u[e]
    BY DEF Facing, WorldStep
  <2> QED
    BY <2>1, <2>2 DEF Alive
<1>2. e \in f.gones => Alive(h.ent[e]) = 0
  <2>1. e \in f.gones => e \in DOMAIN u /\ u[e] = Gone
    BY DEF FrameStep
  <2>2. e \in DOMAIN u => h.ent[e] = u[e]
    BY DEF Facing, WorldStep
  <2> QED
    BY <2>1, <2>2 DEF Alive
<1>3. \A c \in DOMAIN f.snaps \cap Foot(e) : f.snaps[c].content.ents[e] = Alive(h.ent[e])
  <2>1. ASSUME NEW c \in DOMAIN f.snaps \cap Foot(e)
        PROVE  f.snaps[c].content.ents[e] = Alive(h.ent[e])
    <3>1. f.snaps[c].content = Content(h, c)
      BY DEF FrameStep
    <3>2. e \in Over(c)
      BY EntityFacts
    <3>3. Content(h, c).ents[e] = Alive(h.ent[e])
      BY <3>2 DEF Content
    <3> QED
      BY <3>1, <3>3
  <2> QED
    BY <2>1
<1>4. \A v \in Said(f.snaps, e) : v = Alive(h.ent[e])
  BY <1>3 DEF Said
<1>5. Foot(e) \cap DOMAIN f.snaps # {} => Alive(h.ent[e]) \in Said(f.snaps, e)
  BY <1>3 DEF Said
<1>6. Said(f.snaps, e) \ {0} # {}
        => (CHOOSE v \in Said(f.snaps, e) : v # 0) \in Said(f.snaps, e)
  OBVIOUS
<1>7. Said(f.snaps, e) \ {0} = {} /\ Foot(e) \cap DOMAIN f.snaps # {} => Alive(h.ent[e]) = 0
  BY <1>5
<1>8. \/ EntBefore(r, f, e) = Alive(h.ent[e])
      \/ /\ EntBefore(r, f, e) = r.ent[e]
         /\ Foot(e) \cap DOMAIN f.snaps \cap (DOMAIN r.held \cup f.pristine) = {}
         /\ Foot(e) \cap DOMAIN f.snaps # {} => Alive(h.ent[e]) = 0
  <2>1. CASE Said(f.snaps, e) \ {0} # {}
    BY <1>4, <1>6, <2>1 DEF EntBefore
  <2>2. CASE Said(f.snaps, e) \ {0} = {}
    BY <1>7, <2>2 DEF EntBefore
  <2> QED
    BY <2>1, <2>2
<1>9. e \in DOMAIN f.puts \cup f.gones => EntAfter(r, f, e) = Alive(h.ent[e])
  BY <1>1, <1>2 DEF EntAfter
<1>10. e \notin DOMAIN f.puts \cup f.gones /\ Foot(e) \cap HeldAfter(r, f) # {}
         => EntAfter(r, f, e) = EntBefore(r, f, e)
  BY DEF EntAfter
<1> QED
  BY <1>8, <1>9, <1>10

\* What the slot holds after the tick the replica holds after the frame.
LEMMA HeldArrives ==
  ASSUME NEW h0, NEW h, NEW T, NEW u, NEW s, NEW r, NEW L, NEW n, NEW D, NEW K, NEW full,
         Facing(h0, h, T, u, s, r, L, n, D, K, full),
         NEW f, FrameStep(h, n, full, D, T, u, K, LeavesOf(s, L), f)
  PROVE  /\ f.held = n.held \cup D /\ f.held \subseteq HeldAfter(r, f)
         /\ f.held \cap f.leaves = {} /\ SureAfter(r, f) \subseteq f.held
<1>1. f.held = n.held \cup D
  BY DEF Facing, DrainStep, FrameStep
<1>2. f.pristine \cup DOMAIN f.snaps = D /\ f.leaves = LeavesOf(s, L)
  BY DEF FrameStep
<1> QED
  BY <1>1, <1>2, Apart DEF HeldAfter, SureAfter

\* A chunk that is sure after the frame reads as on the host.
LEMMA SureArrives ==
  ASSUME NEW h0, NEW h, NEW T, NEW u, NEW s, NEW r, NEW L, NEW n, NEW D, NEW K, NEW full,
         Facing(h0, h, T, u, s, r, L, n, D, K, full),
         NEW f, FrameStep(h, n, full, D, T, u, K, LeavesOf(s, L), f),
         NEW c \in SureAfter(r, f)
  PROVE  /\ TileAfter(r, f, c) = h.tile[c]
         /\ \A e \in Over(c) : EntAfter(r, f, e) = Alive(h.ent[e])
<1>1. /\ c \in f.held /\ c \notin f.leaves /\ c \in HeldAfter(r, f) /\ f.held = n.held \cup D
      /\ c \notin Stranded(r, f) /\ c \notin full.tainted
      /\ c \notin full.collapsed /\ c \notin Touched(full.collapsed) /\ c \notin K
  <2>1. /\ f.held = n.held \cup D /\ f.held \subseteq HeldAfter(r, f)
        /\ f.held \cap f.leaves = {} /\ SureAfter(r, f) \subseteq f.held
    BY HeldArrives
  <2>2. c \notin Stranded(r, f) /\ c \notin f.withheld
    BY DEF SureAfter
  <2>3. f.withheld = full.tainted
    BY DEF FrameStep
  <2>4. /\ full.collapsed \subseteq full.tainted /\ Touched(full.collapsed) \subseteq full.tainted
        /\ K \subseteq full.collapsed
    BY DEF Facing, DrainStep
  <2> QED
    BY <2>1, <2>2, <2>3, <2>4
<1>2. /\ D = f.pristine \cup DOMAIN f.snaps /\ f.pristine \cap DOMAIN f.snaps = {}
      /\ DOMAIN f.tiles \subseteq T \ D
      /\ T \cap (n.held \ (D \cup full.collapsed)) \subseteq DOMAIN f.tiles
      /\ \A x \in DOMAIN f.tiles : f.tiles[x] = h.tile[x]
  BY DEF FrameStep
<1>3. \A e \in Over(c) : e \in Entities /\ c \in Foot(e)
  BY EntityFacts
\* An entity over the chunk of which the frame says nothing directly.
<1>4. ASSUME NEW e \in Over(c), e \notin DOMAIN f.puts \cup f.gones,
             EntBefore(r, f, e) = Alive(h.ent[e])
      PROVE  EntAfter(r, f, e) = Alive(h.ent[e])
  BY <1>1, <1>3, <1>4, EntityArrives
<1>5. (c \in f.pristine /\ Content(r, c) = Empty(c)) \/ c \in DOMAIN f.snaps \/ c \in r.sure \ D
  BY <1>2 DEF SureAfter, SureBefore, PristineSure
<1>6. CASE c \in r.sure \ D
  <2>1. c \in r.sure \cap n.held /\ c \notin D
    BY <1>1, <1>6
  <2>2. c \in Chunks /\ c \notin n.collapsed /\ Content(r, c) = Content(h0, c)
    BY <1>1, <2>1, Before
  <2>3. r.tile[c] = h0.tile[c] /\ \A e \in Over(c) : r.ent[e] = Alive(h0.ent[e])
    BY <2>2, ContentIs DEF Facing, WorldOK
  <2>4. TileAfter(r, f, c) = h.tile[c]
    <3>1. CASE c \in T
      BY <1>1, <1>2, <2>1, <3>1 DEF TileAfter
    <3>2. CASE c \notin T
      BY <1>1, <1>2, <2>1, <2>2, <2>3, <3>2 DEF TileAfter, Facing, WorldStep
    <3> QED
      BY <3>1, <3>2
  <2>5. ASSUME NEW e \in Over(c) PROVE EntAfter(r, f, e) = Alive(h.ent[e])
    <3>1. e \in Entities /\ c \in Foot(e)
      BY <1>3
    <3>2. CASE e \in DOMAIN f.puts \cup f.gones
      BY <3>1, <3>2, EntityArrives
    <3>3. CASE e \in DOMAIN u /\ u[e] = Gone
      BY <2>1, <3>1, <3>2, <3>3 DEF FrameStep
    <3>4. CASE e \in DOMAIN u /\ u[e] # Gone
      <4>1. Anchor(e) \notin K
        <5>1. SUFFICES ASSUME Anchor(e) \in K PROVE FALSE
          OBVIOUS
        <5>2. Anchor(e) \in full.collapsed /\ e \in Over(Anchor(e))
          BY <3>1, <5>1, EntityFacts DEF Facing, DrainStep
        <5>3. c \in Touched(full.collapsed)
          BY <3>1, <5>2 DEF Touched
        <5> QED
          BY <1>1, <5>3
      <4>2. c \in Foot(e) \cap (n.held \ (D \cup full.collapsed))
        BY <1>1, <2>1, <3>1
      <4>3. e \in DOMAIN f.puts
        BY <3>4, <4>1, <4>2 DEF FrameStep
      <4> QED
        BY <3>2, <4>3
    <3>5. CASE e \notin DOMAIN u /\ e \notin DOMAIN f.puts \cup f.gones
      <4>1. h.ent[e] = h0.ent[e]
        BY <3>1, <3>5 DEF Facing, WorldStep
      <4>2. EntBefore(r, f, e) = Alive(h.ent[e])
        BY <2>3, <3>1, <4>1, EntityArrives
      <4> QED
        BY <1>4, <3>5, <4>2
    <3> QED
      BY <3>2, <3>3, <3>4, <3>5
  <2> QED
    BY <2>4, <2>5
<1>7. CASE c \in DOMAIN f.snaps
  <2>1. c \in D /\ c \notin DOMAIN f.tiles
    BY <1>2, <1>7
  <2>2. TileAfter(r, f, c) = h.tile[c]
    <3>1. f.snaps[c].content = Content(h, c)
      BY <1>7 DEF FrameStep
    <3>2. Content(h, c).tile = h.tile[c]
      BY DEF Content
    <3> QED
      BY <1>1, <1>7, <2>1, <3>1, <3>2 DEF TileAfter
  <2>3. ASSUME NEW e \in Over(c) PROVE EntAfter(r, f, e) = Alive(h.ent[e])
    <3>1. e \in Entities /\ c \in Foot(e)
      BY <1>3
    <3>2. CASE e \in DOMAIN f.puts \cup f.gones
      BY <3>1, <3>2, EntityArrives
    <3>3. ASSUME e \notin DOMAIN f.puts \cup f.gones, EntBefore(r, f, e) # Alive(h.ent[e])
          PROVE  FALSE
      <4>1. /\ EntBefore(r, f, e) = r.ent[e] /\ Alive(h.ent[e]) = 0
            /\ Foot(e) \cap DOMAIN f.snaps \cap (DOMAIN r.held \cup f.pristine) = {}
        BY <1>7, <3>1, <3>3, EntityArrives
      <4>2. r.ent[e] # 0
        BY <3>3, <4>1
      <4>3. c \notin DOMAIN r.held
        BY <1>7, <3>1, <4>1
      <4>4. PICK x \in Foot(e) : x \in DOMAIN r.held
        BY <3>1, <4>2 DEF Facing, ReplicaOK, Grounded
      <4>5. x \in f.held /\ (x \in r.sure \ f.pristine \/ x \in DOMAIN f.snaps)
        BY <1>1, <1>7, <4>2, <4>3, <4>4 DEF Stranded
      <4>6. x \notin DOMAIN f.snaps
        BY <4>1, <4>4
      <4>7. x \in r.sure \cap n.held /\ x \notin D
        BY <1>1, <1>2, <4>5, <4>6
      <4>8. e \in Over(x)
        BY <3>1, EntityFacts
      <4>9. x \notin full.collapsed
        BY <1>1, <3>1, <4>8 DEF Touched
      <4>10. r.ent[e] = 0
        BY <3>3, <4>1, <4>7, <4>8, <4>9, GoneReaches
      <4> QED
        BY <4>2, <4>10
    <3> QED
      BY <1>4, <3>2, <3>3
  <2> QED
    BY <2>2, <2>3
<1>8. CASE c \in f.pristine /\ Content(r, c) = Empty(c)
  <2>1. r.tile[c] = 0 /\ \A e \in Over(c) : Alive(r.ent[e]) = 0
    BY <1>8, EmptyIs
  <2>2. h.tile[c] = 0 /\ \A e \in Over(c) : Alive(h.ent[e]) = 0
    <3>1. Content(h, c) = Empty(c)
      BY <1>8 DEF FrameStep
    <3> QED
      BY <3>1, EmptyIs
  <2>3. \A e \in Over(c) : r.ent[e] = 0
    BY <1>3, <2>1, Some DEF Facing, Replicas, Alive
  <2>4. TileAfter(r, f, c) = h.tile[c]
    BY <1>1, <1>2, <1>8, <2>1, <2>2 DEF TileAfter
  <2>5. ASSUME NEW e \in Over(c) PROVE EntAfter(r, f, e) = Alive(h.ent[e])
    <3>1. e \in Entities
      BY <1>3
    <3>2. CASE e \in DOMAIN f.puts \cup f.gones
      BY <3>1, <3>2, EntityArrives
    <3>3. EntBefore(r, f, e) = Alive(h.ent[e])
      BY <2>2, <2>3, <3>1, EntityArrives
    <3> QED
      BY <1>4, <3>2, <3>3
  <2> QED
    BY <2>4, <2>5
<1> QED
  BY <1>5, <1>6, <1>7, <1>8
\* The frame arrives: the replica it makes follows the slot after the tick.
LEMMA FrameArrives ==
  ASSUME NEW h0, NEW h, NEW T, NEW u, NEW s, NEW r, NEW L, NEW n, NEW D, NEW K, NEW full,
         Facing(h0, h, T, u, s, r, L, n, D, K, full),
         NEW f, FrameStep(h, n, full, D, T, u, K, LeavesOf(s, L), f)
  PROVE  /\ Applied(r, f) \in Replicas /\ ReplicaOK(h, Applied(r, f))
         /\ Follows(h, full, Applied(r, f)) /\ FrameGood(f, Applied(r, f))
<1> DEFINE a == Applied(r, f)
<1> HIDE DEF a
<1>1. /\ a \in Replicas /\ a.epoch = r.epoch
      /\ DOMAIN a.held = HeldAfter(r, f) /\ Sourced(r, f, a.held)
      /\ a.tile = TilesAfter(r, f) /\ a.ent = EntsAfter(r, f) /\ a.sure = SureAfter(r, f)
  BY AfterFrame DEF Facing, FrameStep, a
<1>2. /\ f.held = n.held \cup D /\ f.held \subseteq HeldAfter(r, f)
      /\ SureAfter(r, f) \subseteq f.held /\ f.held \in Views
  BY HeldArrives, FrameFacts DEF FrameStep
<1>3. h0 \in Worlds /\ h \in Worlds /\ r \in Replicas
  BY DEF Facing, WorldOK
<1>4. ASSUME NEW c \in a.sure
      PROVE  Content(a, c) = Content(h, c) /\ \A e \in Over(c) : a.ent[e] = Alive(h.ent[e])
  <2>1. c \in Chunks /\ c \in SureAfter(r, f)
    BY <1>1, <1>2, <1>4 DEF Views
  <2>2. TileAfter(r, f, c) = h.tile[c] /\ \A e \in Over(c) : EntAfter(r, f, e) = Alive(h.ent[e])
    BY <2>1, SureArrives
  <2>3. a.tile[c] = h.tile[c]
    BY <1>1, <2>1, <2>2 DEF TilesAfter
  <2>4. \A e \in Over(c) : a.ent[e] = Alive(h.ent[e])
    BY <1>1, <2>2, EntityFacts DEF EntsAfter
  <2> QED
    BY <1>1, <1>3, <2>3, <2>4, ContentIs
<1>5. a.sure \subseteq DOMAIN a.held
  BY <1>1, <1>2
<1>6. Grounded(a)
  <2>1. SUFFICES ASSUME NEW e \in Entities, a.ent[e] # 0, Foot(e) \cap HeldAfter(r, f) = {}
                 PROVE  FALSE
    BY <1>1 DEF Grounded
  <2>2. EntAfter(r, f, e) # 0
    BY <1>1, <2>1 DEF EntsAfter
  <2>3. e \notin DOMAIN f.puts
    BY <1>2, <2>1 DEF FrameStep
  <2>4. e \notin f.gones /\ Foot(e) \cap f.leaves = {} /\ EntBefore(r, f, e) # 0
    BY <2>1, <2>2, <2>3 DEF EntAfter
  <2>5. DOMAIN f.snaps \subseteq HeldAfter(r, f)
    BY <1>2 DEF FrameStep
  <2>6. Foot(e) \cap DOMAIN f.snaps = {}
    BY <2>1, <2>5
  <2>7. EntBefore(r, f, e) = r.ent[e]
    BY <2>6 DEF EntBefore, Said
  <2>8. PICK x \in Foot(e) : x \in DOMAIN r.held
    BY <2>4, <2>7 DEF Facing, ReplicaOK, Grounded
  <2> QED
    BY <2>1, <2>4, <2>8 DEF HeldAfter
<1>7. a.epoch = h.epoch /\ r.epoch = h0.epoch /\ h0.epoch = h.epoch
  BY <1>1 DEF Facing, Follows, WorldStep
<1>8. ASSUME NEW c \in DOMAIN a.held PROVE a.held[c] <= h.clock
  <2>1. h.clock \in Nat /\ h0.clock \in Nat /\ h0.clock <= h.clock
    BY <1>3, Some DEF Worlds, Facing, WorldStep
  <2>2. CASE a.held[c] \in {0, f.tick}
    BY <2>1, <2>2 DEF FrameStep
  <2>3. CASE c \in DOMAIN f.snaps /\ a.held[c] = f.snaps[c].ver
    <3>1. c \in Chunks
      BY <1>2, <2>3 DEF FrameStep, Views
    <3> QED
      BY <2>3, <3>1 DEF FrameStep, Facing, WorldOK
  <2>4. CASE c \in DOMAIN r.held /\ a.held[c] = r.held[c]
    <3>1. r.held[c] <= h0.clock /\ r.held[c] \in Nat
      BY <1>3, <1>7, <2>4, Partial, Some DEF Facing, ReplicaOK, Replicas
    <3> QED
      BY <2>1, <2>4, <3>1
  <2> QED
    BY <1>1, <1>8, <2>2, <2>3, <2>4 DEF Sourced
<1>9. h.epoch <= h.epoch
  BY <1>3 DEF Worlds
<1>10. ReplicaOK(h, a)
  BY <1>4, <1>5, <1>6, <1>7, <1>8, <1>9 DEF ReplicaOK
<1>11. full.resume = NoHint
  BY DEF Facing, NoteStep, DrainStep
<1>12. full.held = f.held
  BY DEF FrameStep
<1>13. Follows(h, full, a)
  BY <1>1, <1>2, <1>4, <1>7, <1>11, <1>12 DEF Follows
<1>14. FrameGood(f, a)
  BY <1>1, <1>2, <1>4 DEF FrameGood, FrameStep
<1> QED
  BY <1>1, <1>10, <1>13, <1>14 DEF a

\* A frame with nothing to say is not sent: the replica follows all the same.
LEMMA FrameSilent ==
  ASSUME NEW h0, NEW h, NEW T, NEW u, NEW s, NEW r, NEW L, NEW n, NEW D, NEW K, NEW full,
         Facing(h0, h, T, u, s, r, L, n, D, K, full),
         NEW f, FrameStep(h, n, full, D, T, u, K, LeavesOf(s, L), f), ~Says(f)
  PROVE  Follows(h, full, r)
<1>1. /\ f.pristine = {} /\ f.leaves = {} /\ DOMAIN f.snaps = {} /\ DOMAIN f.tiles = {}
      /\ DOMAIN f.puts = {} /\ f.gones = {}
  BY DEF Says
<1>2. D = {}
  BY <1>1 DEF FrameStep
<1>3. full.held = n.held /\ full.resume = NoHint /\ f.held = full.held
  BY <1>2 DEF Facing, DrainStep, NoteStep, FrameStep
<1>4. n.held \subseteq DOMAIN r.held
  BY Apart
<1>5. r.epoch = h.epoch
  BY DEF Facing, Follows, WorldStep
<1>6. ASSUME NEW c \in (r.sure \cap full.held) \ full.collapsed,
             NEW e \in Over(c), Alive(h.ent[e]) = 0
      PROVE  r.ent[e] = 0
  <2>1. c \in r.sure \cap n.held /\ c \notin D /\ c \notin full.collapsed /\ e \notin f.gones
    BY <1>1, <1>2, <1>3, <1>6
  <2> QED
    BY <1>6, <2>1, GoneReaches
<1>7. ASSUME NEW c \in (r.sure \cap full.held) \ full.collapsed, c \notin full.tainted
      PROVE  Content(r, c) = Content(h, c)
  <2>1. Stranded(r, f) = {}
    BY <1>1 DEF Stranded
  <2>2. c \in SureAfter(r, f)
    BY <1>1, <1>3, <1>7, <2>1 DEF SureAfter, SureBefore, PristineSure, FrameStep
  <2>3. TileAfter(r, f, c) = h.tile[c] /\ \A e \in Over(c) : EntAfter(r, f, e) = Alive(h.ent[e])
    BY <2>2, SureArrives
  <2>4. TileAfter(r, f, c) = r.tile[c]
    BY <1>1 DEF TileAfter
  <2>5. \A e : EntBefore(r, f, e) = r.ent[e]
    BY <1>1 DEF EntBefore, Said
  <2>6. \A e : EntAfter(r, f, e) = r.ent[e]
    BY <1>1, <2>5 DEF EntAfter
  <2>7. r.tile[c] = h.tile[c] /\ \A e \in Over(c) : r.ent[e] = Alive(h.ent[e])
    BY <2>3, <2>4, <2>6
  <2>8. r \in Replicas /\ h \in Worlds
    BY DEF Facing, WorldOK
  <2> QED
    BY <2>7, <2>8, ContentIs
<1> QED
  BY <1>3, <1>4, <1>5, <1>6, <1>7 DEF Follows

\* A frame that does not fit is lost: every chunk it would have told of is owed
\* a snapshot, and the replica follows what is left.
LEMMA FrameLost ==
  ASSUME NEW h0, NEW h, NEW T, NEW u, NEW s, NEW r, NEW L, NEW n, NEW D, NEW K, NEW full,
         Facing(h0, h, T, u, s, r, L, n, D, K, full),
         NEW o, OverflowStep(n, full, D, Stamped(T, u), o)
  PROVE  Follows(h, o, r)
<1>1. o.held = n.held /\ o.resume = NoHint /\ o.tainted = full.tainted
  BY DEF OverflowStep, Facing, DrainStep, NoteStep
<1>2. n.held \subseteq DOMAIN r.held
  BY Apart
<1>3. r.epoch = h.epoch
  BY DEF Facing, Follows, WorldStep
<1>4. ASSUME NEW c \in (r.sure \cap o.held) \ o.collapsed
      PROVE  /\ \A e \in Over(c) : Alive(h.ent[e]) = 0 => r.ent[e] = 0
             /\ c \notin o.tainted => Content(r, c) = Content(h, c)
  <2>1. c \in r.sure \cap n.held /\ c \notin D /\ c \notin full.collapsed
    BY <1>1, <1>4 DEF OverflowStep
  <2>2. /\ c \in Chunks /\ c \notin n.collapsed
        /\ \A e \in Over(c) : Alive(h0.ent[e]) = 0 => r.ent[e] = 0
        /\ c \notin full.tainted => Content(r, c) = Content(h0, c)
    BY <2>1, Before
  <2>3. c \notin Stamped(T, u)
    BY <1>4, <2>1, <2>2 DEF OverflowStep
  <2>4. h.tile[c] = h0.tile[c] /\ \A e \in Over(c) : h.ent[e] = h0.ent[e]
    <3>1. Writes(T, u) /\ WorldStep(h0, h, T, u)
      BY DEF Facing
    <3>2. c \notin T /\ \A e \in Over(c) : e \in Entities /\ e \notin DOMAIN u
      BY <2>3, <3>1, StampedFacts, EntityFacts
    <3> QED
      BY <2>2, <3>1, <3>2 DEF WorldStep
  <2>5. Content(h, c) = Content(h0, c)
    BY <2>4 DEF Content
  <2> QED
    BY <1>1, <2>2, <2>4, <2>5
<1> QED
  BY <1>1, <1>2, <1>3, <1>4 DEF Follows
(***************************************************************************)
(* The replica that will be, message by message.                           *)
(***************************************************************************)
\* R[i] is what the replica r0 holds once i of the messages ms have arrived.
Track(h, R, r0, ms) ==
  /\ R \in [0..Len(ms) -> Replicas] /\ Same(R[0], r0)
  /\ \A i \in 1..Len(ms) :
       MessageOK(ms[i]) /\ Same(R[i], Received(R[i - 1], ms[i])) /\ FrameGood(ms[i], R[i])
  /\ \A i \in 0..Len(ms) : ReplicaOK(h, R[i])

LEMMA TrackAppend ==
  ASSUME NEW h, NEW r0, NEW S, NEW ms \in Seq(S), NEW R, Track(h, R, r0, ms),
         NEW m, MessageOK(m), NEW a \in Replicas, Same(a, Received(R[Len(ms)], m)),
         FrameGood(m, a), ReplicaOK(h, a)
  PROVE  \E Q : Track(h, Q, r0, Append(ms, m)) /\ Q[Len(Append(ms, m))] = a
<1> DEFINE N == Len(ms)
           M == Append(ms, m)
           Q == [i \in 0..N + 1 |-> IF i <= N THEN R[i] ELSE a]
<1>1. /\ N \in Nat /\ Len(M) = N + 1 /\ M[N + 1] = m
      /\ \A i \in 1..N : M[i] = ms[i]
  OBVIOUS
<1>2. /\ R \in [0..N -> Replicas] /\ Same(R[0], r0)
      /\ \A i \in 1..N : MessageOK(ms[i]) /\ Same(R[i], Received(R[i - 1], ms[i]))
                           /\ FrameGood(ms[i], R[i])
      /\ \A i \in 0..N : ReplicaOK(h, R[i])
  BY DEF Track
<1>3. Same(a, Received(R[N], m))
  OBVIOUS
<1> HIDE DEF N, M
<1>4. /\ \A i \in 0..N : Q[i] = R[i]
      /\ Q[N + 1] = a
  BY <1>1
<1>5. Q \in [0..N + 1 -> Replicas]
  BY <1>1, <1>2
<1> HIDE DEF Q
<1>6. ASSUME NEW i \in 1..N + 1
      PROVE  MessageOK(M[i]) /\ Same(Q[i], Received(Q[i - 1], M[i])) /\ FrameGood(M[i], Q[i])
  <2>1. CASE i \in 1..N
    <3>1. Q[i] = R[i] /\ Q[i - 1] = R[i - 1] /\ M[i] = ms[i]
      BY <1>1, <1>4, <2>1
    <3> QED
      BY <1>2, <2>1, <3>1
  <2>2. CASE i = N + 1
    <3>1. Q[i] = a /\ Q[i - 1] = R[N] /\ M[i] = m
      BY <1>1, <1>4, <2>2
    <3> QED
      BY <1>3, <3>1
  <2> QED
    BY <1>1, <2>1, <2>2
<1>7. \A i \in 0..N + 1 : ReplicaOK(h, Q[i])
  <2>1. ASSUME NEW i \in 0..N + 1 PROVE ReplicaOK(h, Q[i])
    <3>1. i \in 0..N \/ i = N + 1
      BY <1>1
    <3> QED
      BY <1>2, <1>4, <3>1
  <2> QED
    BY <2>1
<1>8. Same(Q[0], r0)
  BY <1>1, <1>2, <1>4
<1>9. Track(h, Q, r0, M) /\ Q[Len(M)] = a
  BY <1>1, <1>4, <1>5, <1>6, <1>7, <1>8 DEF Track
<1> QED
  BY <1>9 DEF M

LEMMA TrackTail ==
  ASSUME NEW h, NEW r0 \in Replicas, NEW S, NEW ms \in Seq(S), ms # << >>, NEW R,
         Track(h, R, r0, ms)
  PROVE  /\ Received(r0, Head(ms)) \in Replicas
         /\ MessageOK(Head(ms)) /\ FrameGood(Head(ms), Received(r0, Head(ms)))
         /\ \E Q : /\ Track(h, Q, Received(r0, Head(ms)), Tail(ms))
                   /\ Q[Len(Tail(ms))] = R[Len(ms)]
<1> DEFINE N == Len(ms)
           M == Tail(ms)
           b == Received(r0, Head(ms))
           Q == [i \in 0..N - 1 |-> R[i + 1]]
<1>1. /\ N \in Nat /\ N >= 1 /\ Len(M) = N - 1 /\ Head(ms) = ms[1]
      /\ \A i \in 1..N - 1 : M[i] = ms[i + 1]
  OBVIOUS
<1>2. /\ R \in [0..N -> Replicas] /\ Same(R[0], r0)
      /\ \A i \in 1..N : MessageOK(ms[i]) /\ Same(R[i], Received(R[i - 1], ms[i]))
                           /\ FrameGood(ms[i], R[i])
      /\ \A i \in 0..N : ReplicaOK(h, R[i])
  BY DEF Track
<1> HIDE DEF N, M
<1>3. /\ MessageOK(ms[1]) /\ Same(R[1], Received(R[0], ms[1])) /\ FrameGood(ms[1], R[1])
      /\ R[0] \in Replicas
  <2>1. 1 \in 1..N /\ 0 \in 0..N /\ 1 - 1 = 0
    BY <1>1
  <2> QED
    BY <1>2, <2>1
<1>4. b \in Replicas /\ Same(Received(R[0], ms[1]), b)
  <2>1. Same(r0, R[0])
    BY <1>2 DEF Same
  <2>2. b \in Replicas /\ Same(b, Received(R[0], ms[1]))
    BY <1>1, <1>3, <2>1, SameReceived
  <2> QED
    BY <2>2 DEF Same
<1>5. Same(R[1], b)
  BY <1>3, <1>4 DEF Same
<1>6. FrameGood(ms[1], b)
  <2>1. \A c : Content(R[1], c) = Content(b, c)
    BY <1>5, SameFields
  <2> QED
    BY <1>3, <1>5, <2>1 DEF FrameGood, Same
<1>7. \A i \in 0..N - 1 : Q[i] = R[i + 1]
  OBVIOUS
<1>8. Q \in [0..N - 1 -> Replicas]
  <2>1. \A i \in 0..N - 1 : i + 1 \in 0..N
    BY <1>1
  <2> QED
    BY <1>2, <2>1
<1> HIDE DEF Q, b
<1>9. ASSUME NEW i \in 1..N - 1
      PROVE  MessageOK(M[i]) /\ Same(Q[i], Received(Q[i - 1], M[i])) /\ FrameGood(M[i], Q[i])
  <2>1. i + 1 \in 1..N /\ Q[i] = R[i + 1] /\ Q[i - 1] = R[i] /\ M[i] = ms[i + 1] /\ (i + 1) - 1 = i
    BY <1>1, <1>7
  <2> QED
    BY <1>2, <2>1
<1>10. ASSUME NEW i \in 0..N - 1 PROVE ReplicaOK(h, Q[i])
  <2>1. i + 1 \in 0..N /\ Q[i] = R[i + 1]
    BY <1>1, <1>7
  <2> QED
    BY <1>2, <2>1
<1>11. Q[0] = R[1] /\ Q[N - 1] = R[N]
  BY <1>1, <1>7
<1>12. Track(h, Q, b, M) /\ Q[Len(M)] = R[N]
  BY <1>1, <1>5, <1>8, <1>9, <1>10, <1>11 DEF Track
<1> QED
  BY <1>1, <1>3, <1>4, <1>6, <1>12 DEF M, N, b

\* A world every replica is right about when it was about the one before.
LEMMA TrackWorld ==
  ASSUME NEW h0, NEW h, \A r \in Replicas : ReplicaOK(h0, r) => ReplicaOK(h, r),
         NEW r0, NEW ms, NEW R, Track(h0, R, r0, ms)
  PROVE  Track(h, R, r0, ms)
BY DEF Track

LEMMA TrackSame ==
  ASSUME NEW h, NEW r0, NEW r1, Same(r0, r1), NEW ms, NEW R, Track(h, R, r0, ms)
  PROVE  Track(h, R, r1, ms)
<1>1. Same(R[0], r1)
  BY DEF Track, Same
<1> QED
  BY <1>1 DEF Track

LEMMA TrackNone ==
  ASSUME NEW h, NEW r0 \in Replicas, ReplicaOK(h, r0)
  PROVE  Track(h, [i \in {0} |-> r0], r0, << >>)
<1>1. Len(<< >>) = 0 /\ 0..0 = {0} /\ 1..0 = {}
  OBVIOUS
<1>2. Same(r0, r0)
  BY DEF Same
<1> QED
  BY <1>1, <1>2 DEF Track

LEMMA TrackOne ==
  ASSUME NEW h, NEW r0 \in Replicas, ReplicaOK(h, r0),
         NEW m, MessageOK(m), NEW a \in Replicas, Same(a, Received(r0, m)),
         FrameGood(m, a), ReplicaOK(h, a)
  PROVE  \E Q : Track(h, Q, r0, <<m>>) /\ Q[Len(<<m>>)] = a
<1>1. PICK S, ms : ms = << >> /\ ms \in Seq(S)
  BY << >> \in Seq({})
<1>2. PICK Z : Track(h, Z, r0, ms) /\ Z[Len(ms)] = r0
  <2> DEFINE Z == [i \in {0} |-> r0]
  <2>1. Track(h, Z, r0, << >>)
    BY TrackNone
  <2>2. Z[Len(<< >>)] = r0
    OBVIOUS
  <2> HIDE DEF Z
  <2> QED
    BY <1>1, <2>1, <2>2
<1>3. \E Q : Track(h, Q, r0, Append(ms, m)) /\ Q[Len(Append(ms, m))] = a
  <2>1. ms \in Seq(S)
    BY <1>1
  <2>2. Same(a, Received(Z[Len(ms)], m))
    BY <1>2
  <2> QED
    BY <1>2, <2>1, <2>2, TrackAppend
<1>4. Append(ms, m) = <<m>>
  BY <1>1
<1> QED
  BY <1>3, <1>4

LEMMA TrackFirst ==
  ASSUME NEW h, NEW r0, NEW S, NEW ms \in Seq(S), NEW R, Track(h, R, r0, ms), r0 \in Replicas
  PROVE  ReplicaOK(h, r0) /\ R[Len(ms)] \in Replicas /\ ReplicaOK(h, R[Len(ms)])
<1>1. Len(ms) \in Nat /\ 0 \in 0..Len(ms) /\ Len(ms) \in 0..Len(ms)
  OBVIOUS
<1>2. ReplicaOK(h, R[0]) /\ Same(R[0], r0)
  BY <1>1 DEF Track
<1>3. \A c : Content(R[0], c) = Content(r0, c)
  BY <1>2, SameFields
<1>4. ReplicaOK(h, r0)
  BY <1>2, <1>3 DEF ReplicaOK, Grounded, Same
<1> QED
  BY <1>1, <1>4 DEF Track
(***************************************************************************)
(* The invariant: the replica that will have received everything under way *)
(* follows the slot.                                                       *)
(***************************************************************************)
Shape ==
  /\ WorldOK(host) /\ host.clock <= spent.change
  /\ "change" \in DOMAIN spent /\ spent.change \in Versions
  /\ slot \in Slots /\ rep \in Replicas
  /\ \E S : down \in Seq(S)
  /\ ~slot.on => down = << >>
Sound == rep.broken = {} /\ rep.missing = {}
Behind ==
  \E R : Track(host, R, rep, down) /\ (slot.on => Follows(host, slot, R[Len(down)]))
IInv == Shape /\ Sound /\ Behind

\* What the bound on changes is charged for the writes of a tick.
Charge(T, u) == Cardinality(T) + Cardinality(DOMAIN u)

LEMMA WritesFacts ==
  ASSUME host \in Worlds, NEW T \in TileWrites, NEW u \in EntityWrites
  PROVE  /\ Writes(T, u) /\ Cardinality(T) \in Nat /\ Cardinality(DOMAIN u) \in Nat
         /\ Stamped(T, u) # {} => Charge(T, u) >= 1
<1>1. T \subseteq Chunks /\ Cardinality(T) \in Nat /\ (T # {} => Cardinality(T) >= 1)
  <2>1. CASE T = {}
    BY <2>1, FS_EmptySet
  <2>2. ASSUME NEW c \in Chunks, T = {c} PROVE T \subseteq Chunks /\ Cardinality(T) = 1
    BY <2>2, FS_Singleton
  <2> QED
    BY <2>1, <2>2 DEF TileWrites
<1>2. /\ DOMAIN u \subseteq Entities /\ \A e \in DOMAIN u : u[e] \in 1..Gone
      /\ Cardinality(DOMAIN u) \in Nat /\ (DOMAIN u # {} => Cardinality(DOMAIN u) >= 1)
  <2>1. CASE u = << >>
    <3>1. DOMAIN u = {}
      BY <2>1
    <3> QED
      BY <3>1, FS_EmptySet
  <2>2. CASE u # << >>
    <3>1. PICK e \in Entities : u \in WritesOf(e)
      BY <2>2 DEF EntityWrites
    <3>2. PICK v \in (IF host.ent[e] = 0 THEN {1} ELSE (host.ent[e] + 1)..Gone) : u = [x \in {e} |-> v]
      BY <3>1 DEF WritesOf
    <3>3. host.ent[e] \in 0..3
      BY Some DEF Worlds
    <3>4. v \in 1..3
      BY <3>2, <3>3, Some
    <3>5. DOMAIN u = {e} /\ u[e] = v
      BY <3>2
    <3>6. Cardinality({e}) = 1
      BY FS_Singleton
    <3> QED
      BY <3>4, <3>5, <3>6, Some
  <2> QED
    BY <2>1, <2>2
<1>3. Writes(T, u)
  BY <1>1, <1>2 DEF Writes
<1>4. Stamped(T, u) # {} => T # {} \/ DOMAIN u # {}
  BY DEF Stamped
<1> QED
  BY <1>1, <1>2, <1>3, <1>4 DEF Charge

LEMMA NoWrites == Writes({}, << >>) /\ Stamped({}, << >>) = {}
<1>1. DOMAIN << >> = {}
  OBVIOUS
<1> QED
  BY <1>1 DEF Writes, Stamped

\* What collapses is a chunk.
LEMMA TalliedFacts ==
  ASSUME NEW d, NEW D, NEW T, NEW u, Writes(T, u), NEW K, K \subseteq Tallied(d, D, T, u)
  PROVE  K \in Views
<1>1. TilesOf(d, D, T) \subseteq Chunks
  BY DEF TilesOf, Writes
<1>2. \A e \in PutsOf(d, D, u) : Anchor(e) \in Chunks
  BY EntityFacts DEF PutsOf, Writes
<1> QED
  BY <1>1, <1>2 DEF Tallied, Views

\* The steps in which only the world changes, or nothing that counts.
LEMMA WorldKeeps ==
  ASSUME NEW T, NEW u, Writes(T, u), IInv,
         Stamped(T, u) # {} => host.clock + 1 \in Versions,
         host' = Changed(host, T, u)
  PROVE  /\ WorldOK(host') /\ WorldStep(host, host', T, u)
         /\ host'.clock = IF Stamped(T, u) = {} THEN host.clock ELSE host.clock + 1
         /\ \A r \in Replicas : ReplicaOK(host, r) => ReplicaOK(host', r)
<1>1. WorldOK(host)
  BY DEF IInv, Shape
<1>2. /\ WorldOK(host') /\ WorldStep(host, host', T, u)
      /\ host'.clock = IF Stamped(T, u) = {} THEN host.clock ELSE host.clock + 1
  BY <1>1, AfterWrites
<1> QED
  BY <1>1, <1>2, ReplicaStays

LEMMA TickKeeps ==
  ASSUME IInv, slot.on, NEW T, NEW u, Writes(T, u), NEW L, L \subseteq slot.subs \ slot.cam,
         NEW D, D \subseteq DOMAIN Noted(Changed(host, T, u), slot, L).queue,
         NEW K \in Views, NEW H, NEW overflow \in BOOLEAN,
         Tick(T, u, L, D, K, H, overflow),
         "change" \in DOMAIN spent', spent'.change \in Versions,
         host.clock <= spent'.change,
         Stamped(T, u) # {} => host.clock + 1 <= spent'.change
  PROVE  IInv'
<1> DEFINE h == Changed(host, T, u)
           n == Noted(h, slot, L)
           snap == {c \in D : ~overflow /\ Snapshot(h, n, c)}
           full == Tainted(Collapsed(Drained(n, D), K), snap)
           o == Overflowed(n, full, D, Stamped(T, u))
           f == Frame(h, n, full, D, T, u, K, H, Keeps(h, slot, Entered(slot)), LeavesOf(slot, L))
<1>1. /\ rep' = rep /\ host' = h /\ slot' = (IF overflow THEN o ELSE full)
      /\ Sent(f, overflow)
  <2>1. /\ rep' = rep /\ host' = h
        /\ \E noted \in {n} : \E fl \in {Tainted(Collapsed(Drained(noted, D), K),
                                                 {c \in D : ~overflow /\ Snapshot(h, noted, c)})} :
           \E frame \in {Frame(h, noted, fl, D, T, u, K, H, Keeps(h, slot, Entered(slot)),
                               Leaving(slot, L) \cup HintLeaves(slot))} :
             /\ slot' = IF overflow THEN Overflowed(noted, fl, D, Stamped(T, u)) ELSE fl
             /\ Sent(frame, overflow)
    BY DEF Tick
  <2> QED
    BY <2>1 DEF LeavesOf
<1>2. PICK R : Track(host, R, rep, down) /\ Follows(host, slot, R[Len(down)])
  BY DEF IInv, Behind
<1>3. PICK S : down \in Seq(S)
  BY DEF IInv, Shape
<1>4. rep \in Replicas /\ slot \in Slots /\ WorldOK(host) /\ slot.on \in BOOLEAN
  BY DEF IInv, Shape, Slots
<1> DEFINE r == R[Len(down)]
<1>5. r \in Replicas /\ ReplicaOK(host, r) /\ Follows(host, slot, r)
  BY <1>2, <1>3, <1>4, TrackFirst
<1>6. Stamped(T, u) # {} => host.clock + 1 \in Versions
  <2>1. host.clock \in Nat /\ MaxChange \in Nat /\ spent'.change \in 0..MaxChange
    BY <1>4, Some, ChangesAreBounded DEF WorldOK, Worlds, Versions
  <2> QED
    BY <2>1 DEF Versions
<1>7. /\ WorldOK(h) /\ WorldStep(host, h, T, u)
      /\ h.clock = IF Stamped(T, u) = {} THEN host.clock ELSE host.clock + 1
      /\ \A x \in Replicas : ReplicaOK(host, x) => ReplicaOK(h, x)
  <2>1. host' = Changed(host, T, u)
    BY <1>1
  <2>2. /\ WorldOK(host') /\ WorldStep(host, host', T, u)
        /\ host'.clock = IF Stamped(T, u) = {} THEN host.clock ELSE host.clock + 1
        /\ \A x \in Replicas : ReplicaOK(host, x) => ReplicaOK(host', x)
    BY <1>6, <2>1, WorldKeeps
  <2>3. h = host'
    BY <2>1
  <2> HIDE DEF h
  <2> QED
    BY <2>2, <2>3
<1> HIDE DEF h, r
<1>8. NoteStep(h, slot, n, L) /\ n \in Slots /\ D \subseteq DOMAIN n.queue
  <2>1. NoteStep(h, slot, n, L)
    BY <1>4, AfterNotes
  <2>2. n \in Slots
    BY <2>1 DEF NoteStep
  <2>3. D \subseteq DOMAIN n.queue
    BY DEF h
  <2> QED
    BY <2>1, <2>2, <2>3
<1> HIDE DEF n
<1>9. DrainStep(n, full, D, K) /\ full \in Slots
  BY <1>8, AfterDrain DEF DrainStep
<1> HIDE DEF full
<1>10. Facing(host, h, T, u, slot, r, L, n, D, K, full)
  BY <1>4, <1>5, <1>7, <1>8, <1>9 DEF Facing
<1>11. LeavesOf(slot, L) \in Views
  BY <1>10, Apart
<1>12. FrameStep(h, n, full, D, T, u, K, LeavesOf(slot, L), f)
  BY <1>7, <1>8, <1>9, <1>11, AfterTick
<1>13. OverflowStep(n, full, D, Stamped(T, u), o) /\ o \in Slots
  BY <1>8, <1>9, AfterOverflow DEF OverflowStep
<1> HIDE DEF f, o
<1>14. full.on = slot.on /\ o.on = slot.on
  BY <1>8, <1>9, <1>13 DEF NoteStep, DrainStep, OverflowStep
<1>15. Track(h, R, rep, down)
  BY <1>2, <1>7, TrackWorld
<1>16. slot' \in Slots /\ slot'.on
  BY <1>1, <1>9, <1>13, <1>14
<1>17. h.clock <= spent'.change
  BY <1>7
<1>18. Sound'
  BY <1>1 DEF IInv, Sound
<1>19. CASE overflow
  <2>1. down' = down /\ slot' = o
    BY <1>1, <1>19 DEF Sent
  <2>2. Follows(h, o, r)
    BY <1>10, <1>13, FrameLost
  <2>3. Behind'
    BY <1>1, <1>15, <2>1, <2>2 DEF Behind, r
  <2>4. Shape'
    BY <1>1, <1>3, <1>4, <1>7, <1>16, <1>17, <2>1 DEF Shape
  <2> QED
    BY <1>18, <2>3, <2>4 DEF IInv
<1>20. CASE ~overflow /\ ~Says(f)
  <2>1. down' = down /\ slot' = full
    BY <1>1, <1>20 DEF Sent
  <2>2. Follows(h, full, r)
    BY <1>10, <1>12, <1>20, FrameSilent
  <2>3. Behind'
    BY <1>1, <1>15, <2>1, <2>2 DEF Behind, r
  <2>4. Shape'
    BY <1>1, <1>3, <1>4, <1>7, <1>16, <1>17, <2>1 DEF Shape
  <2> QED
    BY <1>18, <2>3, <2>4 DEF IInv
<1>21. CASE ~overflow /\ Says(f)
  <2> DEFINE a == Applied(r, f)
  <2>1. down' = Append(down, f) /\ slot' = full
    BY <1>1, <1>21 DEF Sent
  <2>2. a \in Replicas /\ ReplicaOK(h, a) /\ Follows(h, full, a) /\ FrameGood(f, a)
    BY <1>10, <1>12, FrameArrives
  <2>3. MessageOK(f) /\ Same(a, Received(r, f))
    BY <1>12 DEF FrameStep, FrameOK, MessageOK, Received, Same
  <2> HIDE DEF a
  <2>4. \E Q : Track(h, Q, rep, Append(down, f)) /\ Q[Len(Append(down, f))] = a
    BY <1>3, <1>15, <2>2, <2>3, TrackAppend DEF r
  <2>5. Behind'
    BY <1>1, <2>1, <2>2, <2>4 DEF Behind
  <2>6. \E Z : down' \in Seq(Z)
    <3>1. Append(down, f) \in Seq(S \cup {f})
      BY <1>3
    <3> QED
      BY <2>1, <3>1
  <2>7. Shape'
    BY <1>1, <1>4, <1>7, <1>16, <1>17, <2>6 DEF Shape
  <2> QED
    BY <1>18, <2>5, <2>7 DEF IInv
<1> QED
  BY <1>19, <1>20, <1>21
(***************************************************************************)
(* Starting, and starting again.                                           *)
(***************************************************************************)
LEMMA SlotFacts ==
  /\ NoSlot \in Slots /\ ~NoSlot.on
  /\ \A cam \in Views, hint \in [epoch : Nat, chunks : PartialVersions] :
       LET s == FreshSlot(cam, hint) IN
       /\ s \in Slots /\ s.on /\ s.held = {} /\ s.resume = hint
       /\ s.collapsed = {} /\ s.tainted = {} /\ s.subs = {} /\ DOMAIN s.queue = {}
<1>1. DOMAIN << >> = {} /\ << >> \in [{} -> {"enter", "resnap"}] /\ {} \in Views
  BY DEF Views
<1>2. << >> \in Queues
  BY <1>1 DEF Queues
<1>3. NoSlot \in Slots
  BY <1>1, <1>2, NoHintFacts DEF NoSlot, Slots
<1>4. /\ ~NoSlot.on /\ NoSlot.held = {} /\ NoSlot.collapsed = {} /\ NoSlot.tainted = {}
      /\ NoSlot.subs = {} /\ NoSlot.queue = << >>
  BY DEF NoSlot
<1>5. ASSUME NEW cam \in Views, NEW hint \in [epoch : Nat, chunks : PartialVersions]
      PROVE  LET s == FreshSlot(cam, hint) IN
             /\ s \in Slots /\ s.on /\ s.held = {} /\ s.resume = hint
             /\ s.collapsed = {} /\ s.tainted = {} /\ s.subs = {} /\ DOMAIN s.queue = {}
  BY <1>1, <1>3, <1>4 DEF FreshSlot, Slots
<1> QED
  BY <1>3, <1>4, <1>5

LEMMA AfterStart ==
  ASSUME WorldOK(host), NEW w,
         w = Started(host.epoch + 1, host.clock, host) \/ w = Started(host.epoch + 1, 0, NoWorld)
  PROVE  /\ WorldOK(w) /\ w.clock <= host.clock /\ w.epoch = host.epoch + 1
         /\ \A r \in Replicas : ReplicaOK(host, r) => ReplicaOK(w, r) /\ r.epoch # w.epoch
<1>1. /\ host \in Worlds /\ host.clock \in Versions /\ host.clock \in Nat /\ host.epoch \in Nat
      /\ host.epoch >= 1 /\ 0 \in Versions
  BY Some DEF WorldOK, Worlds
<1>2. [c \in Chunks |-> 0] \in [Chunks -> Versions] /\ [c \in Chunks |-> 0] \in [Chunks -> 0..1]
  BY <1>1
<1>3. [e \in Entities |-> 0] \in [Entities -> 0..Gone]
  BY Some
<1>4. /\ w \in Worlds /\ w.epoch = host.epoch + 1 /\ w.clock <= host.clock /\ w.clock \in Nat
      /\ w.ver = [c \in Chunks |-> 0]
  <2>1. CASE w = Started(host.epoch + 1, host.clock, host)
    BY <1>1, <1>2, <2>1 DEF Started, Worlds
  <2>2. CASE w = Started(host.epoch + 1, 0, NoWorld)
    BY <1>1, <1>2, <1>3, <2>2 DEF Started, Worlds, NoWorld
  <2> QED
    BY <2>1, <2>2
<1>5. WorldOK(w)
  BY <1>1, <1>4 DEF WorldOK
<1>6. ASSUME NEW r \in Replicas, ReplicaOK(host, r) PROVE ReplicaOK(w, r) /\ r.epoch # w.epoch
  <2>1. r.epoch \in Nat /\ r.epoch <= host.epoch
    BY <1>6 DEF Replicas, ReplicaOK
  <2>2. r.epoch <= w.epoch /\ r.epoch # w.epoch
    BY <1>1, <1>4, <2>1
  <2> QED
    BY <1>6, <2>2 DEF ReplicaOK
<1> QED
  BY <1>4, <1>5, <1>6

\* A Welcome makes a replica of the host's epoch.
LEMMA WelcomeArrives ==
  ASSUME NEW h, h.epoch \in Nat, NEW r \in Replicas, ReplicaOK(h, r)
  PROVE  LET m == Welcome(h.epoch)
             a == Received(r, m)
         IN
         /\ MessageOK(m) /\ FrameGood(m, a) /\ a \in Replicas /\ ReplicaOK(h, a)
         /\ a.epoch = h.epoch /\ (r.epoch = h.epoch => a = r)
<1> DEFINE m == Welcome(h.epoch)
           a == Received(r, m)
<1>1. m.kind = "welcome" /\ m.epoch = h.epoch
  BY DEF Welcome
<1> HIDE DEF m
<1>2. a = Welcomed(r, m)
  BY <1>1 DEF Received
<1> HIDE DEF a
<1>3. /\ a \in Replicas /\ a.epoch = h.epoch /\ (r.epoch = h.epoch => a = r)
      /\ r.epoch # h.epoch =>
           /\ DOMAIN a.held = {} /\ a.sure = r.sure \ DOMAIN r.held /\ a.ent = Forgotten(r)
  BY <1>1, <1>2, AfterWelcome
<1>4. ReplicaOK(h, a)
  <2>1. CASE r.epoch = h.epoch
    BY <1>3, <2>1
  <2>2. CASE r.epoch # h.epoch
    <3>1. DOMAIN a.held = {} /\ a.sure = {}
      BY <1>3, <2>2 DEF ReplicaOK
    <3>2. Grounded(a)
      BY <1>3, <2>2 DEF Grounded, Forgotten, ReplicaOK
    <3>3. a.epoch <= h.epoch
      BY <1>3
    <3> QED
      BY <3>1, <3>2, <3>3 DEF ReplicaOK
  <2> QED
    BY <2>1, <2>2
<1>5. MessageOK(m) /\ FrameGood(m, a)
  BY <1>1 DEF MessageOK, FrameGood
<1> QED
  BY <1>3, <1>4, <1>5 DEF a, m

LEMMA InitInvariant == Init => IInv
<1> SUFFICES ASSUME Init PROVE IInv
  OBVIOUS
<1>1. /\ 0 \in Versions /\ 0 \in Values /\ DOMAIN << >> = {} /\ {} \in Views
      /\ << >> \in PartialVersions
  BY Some, NoHintFacts DEF NoHint, Views
<1>2. WorldOK(host) /\ host.clock = 0 /\ host.epoch = 1
  BY <1>1, Some DEF Init, Started, NoWorld, WorldOK, Worlds
<1>3. /\ rep \in Replicas /\ rep.epoch = 0 /\ rep.sure = {} /\ rep.broken = {}
      /\ rep.missing = {} /\ \A e \in Entities : rep.ent[e] = 0
  BY <1>1 DEF Init, Replicas, NoWorld
<1>4. slot \in Slots /\ ~slot.on /\ down = << >> /\ "change" \in DOMAIN spent /\ spent.change = 0
  BY SlotFacts DEF Init
<1>5. down \in Seq({})
  BY <1>4
<1>6. Shape /\ Sound
  BY <1>1, <1>2, <1>3, <1>4, <1>5 DEF Shape, Sound
<1>7. ReplicaOK(host, rep)
  BY <1>2, <1>3 DEF ReplicaOK, Grounded
<1>8. Behind
  BY <1>3, <1>4, <1>7, TrackNone DEF Behind
<1> QED
  BY <1>6, <1>8 DEF IInv
(***************************************************************************)
(* Every step keeps it.                                                    *)
(***************************************************************************)
LEMMA AttachKeeps == IInv /\ Attach => IInv'
<1> SUFFICES ASSUME IInv, Attach PROVE IInv'
  OBVIOUS
<1> DEFINE m == Welcome(host.epoch)
           hint == ResumeOf(host, Hint(rep))
           a == Received(rep, m)
<1>1. /\ WorldOK(host) /\ rep \in Replicas /\ down = << >> /\ host.epoch \in Nat /\ host.epoch >= 1
  BY DEF IInv, Shape, Attach, WorldOK, Worlds
<1>2. PICK R : Track(host, R, rep, down)
  BY DEF IInv, Behind
<1>3. << >> \in Seq({}) /\ Append(<< >>, m) = <<m>> /\ Len(<<m>>) = 1 /\ <<m>> \in Seq({m})
  OBVIOUS
<1>4. ReplicaOK(host, rep)
  BY <1>1, <1>2, <1>3, TrackFirst
<1>5. /\ MessageOK(m) /\ FrameGood(m, a) /\ a \in Replicas /\ ReplicaOK(host, a)
      /\ a.epoch = host.epoch /\ (rep.epoch = host.epoch => a = rep)
  BY <1>1, <1>4, WelcomeArrives
<1>6. /\ hint \in [epoch : Nat, chunks : PartialVersions]
      /\ hint # NoHint => rep.epoch = host.epoch /\ hint.chunks = rep.held
  <2> DEFINE full == [epoch |-> rep.epoch, chunks |-> rep.held]
  <2>1. hint = NoHint \/ (hint = full /\ rep.epoch = host.epoch)
    <3>1. Hint(rep) = NoHint \/ Hint(rep) = full
      BY DEF Hint
    <3>2. full.epoch = rep.epoch
      OBVIOUS
    <3> HIDE DEF full
    <3> QED
      BY <3>1, <3>2 DEF ResumeOf
  <2>2. rep.epoch \in Nat /\ rep.held \in PartialVersions
    BY <1>1 DEF Replicas
  <2>3. full \in [epoch : Nat, chunks : PartialVersions] /\ full.chunks = rep.held
    BY <2>2
  <2> HIDE DEF full, hint
  <2> QED
    BY <2>1, <2>3, NoHintFacts
<1>7. /\ slot' \in Slots /\ slot'.on /\ slot'.held = {} /\ slot'.resume = hint
      /\ slot'.collapsed = {} /\ slot'.tainted = {} /\ slot'.subs = {} /\ DOMAIN slot'.queue = {}
  <2>1. rep.cam \in Views /\ slot' = FreshSlot(rep.cam, hint)
    BY <1>1 DEF Replicas, Attach
  <2> HIDE DEF hint
  <2> QED
    BY <1>6, <2>1, SlotFacts
<1>8. host' = host /\ rep' = rep /\ spent' = spent /\ down' = <<m>>
  BY DEF Attach
<1> HIDE DEF m, hint, a
<1>9. Follows(host, slot', a)
  BY <1>5, <1>6, <1>7 DEF Follows
<1>10. \E Q : Track(host, Q, rep, <<m>>) /\ Q[Len(<<m>>)] = a
  <2>1. Same(a, Received(rep, m))
    BY DEF Same, a
  <2> QED
    BY <1>1, <1>4, <1>5, <2>1, TrackOne
<1>11. Behind'
  BY <1>8, <1>9, <1>10 DEF Behind
<1>12. \E S : down' \in Seq(S)
  BY <1>3, <1>8
<1>13. Shape'
  BY <1>7, <1>8, <1>12 DEF IInv, Shape
<1>14. Sound'
  BY <1>8 DEF IInv, Sound
<1> QED
  BY <1>11, <1>13, <1>14 DEF IInv

\* The connection gone, and the host perhaps another.
LEMMA Unlinked ==
  ASSUME IInv, slot' = NoSlot, down' = << >>, rep' = rep,
         "change" \in DOMAIN spent', spent'.change = spent.change,
         WorldOK(host'), host'.clock <= host.clock,
         \A r \in Replicas : ReplicaOK(host, r) => ReplicaOK(host', r)
  PROVE  IInv'
<1>1. rep \in Replicas /\ \E R : Track(host, R, rep, down)
  BY DEF IInv, Shape, Behind
<1>2. \E S : down \in Seq(S)
  BY DEF IInv, Shape
<1>3. ReplicaOK(host', rep)
  BY <1>1, <1>2, TrackFirst
<1>4. Behind'
  BY <1>1, <1>3, SlotFacts, TrackNone DEF Behind
<1>5. host'.clock <= spent'.change
  <2>1. host.clock \in Nat /\ host'.clock \in Nat /\ spent.change \in Nat
    BY Some DEF IInv, Shape, WorldOK, Worlds
  <2> QED
    BY <2>1 DEF IInv, Shape
<1>6. << >> \in Seq({})
  OBVIOUS
<1>7. Shape' /\ Sound'
  BY <1>5, <1>6, SlotFacts DEF IInv, Shape, Sound
<1> QED
  BY <1>4, <1>7 DEF IInv

LEMMA CutKeeps == IInv /\ Cut => IInv'
<1> SUFFICES ASSUME IInv, Cut PROVE IInv'
  OBVIOUS
<1>1. /\ slot' = NoSlot /\ down' = << >> /\ rep' = rep /\ host' = host
      /\ "change" \in DOMAIN spent' /\ spent'.change = spent.change
  BY DEF Cut, IInv, Shape
<1>2. WorldOK(host) /\ host.clock <= host.clock
  <2>1. WorldOK(host)
    BY DEF IInv, Shape
  <2>2. host.clock \in Nat
    BY <2>1, Some DEF WorldOK, Worlds
  <2> QED
    BY <2>1, <2>2
<1> QED
  BY <1>1, <1>2, Unlinked

LEMMA RestartKeeps == IInv /\ Restart => IInv'
<1> SUFFICES ASSUME IInv, Restart PROVE IInv'
  OBVIOUS
<1>1. /\ slot' = NoSlot /\ down' = << >> /\ rep' = rep
      /\ "change" \in DOMAIN spent' /\ spent'.change = spent.change
      /\ host' = Started(host.epoch + 1, host.clock, host) \/ host' = Started(host.epoch + 1, 0, NoWorld)
  BY DEF Restart, IInv, Shape
<1>2. /\ WorldOK(host') /\ host'.clock <= host.clock
      /\ \A r \in Replicas : ReplicaOK(host, r) => ReplicaOK(host', r)
  BY <1>1, AfterStart DEF IInv, Shape
<1> QED
  BY <1>1, <1>2, Unlinked

LEMMA RecoverKeeps == IInv /\ Recover => IInv'
<1> SUFFICES ASSUME IInv, Recover PROVE IInv'
  OBVIOUS
<1>1. /\ rep' = rep /\ "change" \in DOMAIN spent' /\ spent'.change = spent.change
      /\ host' = Started(host.epoch + 1, host.clock, host)
  BY DEF Recover, IInv, Shape
<1>2. /\ WorldOK(host') /\ host'.clock <= host.clock /\ host'.epoch = host.epoch + 1
      /\ \A r \in Replicas : ReplicaOK(host, r) => ReplicaOK(host', r) /\ r.epoch # host'.epoch
  BY <1>1, AfterStart DEF IInv, Shape
<1>3. host'.clock <= spent'.change
  <2>1. host.clock \in Nat /\ host'.clock \in Nat /\ spent.change \in Nat
    BY <1>2, Some DEF IInv, Shape, WorldOK, Worlds
  <2> QED
    BY <1>1, <1>2, <2>1 DEF IInv, Shape
<1>4. PICK R : Track(host, R, rep, down)
  BY DEF IInv, Behind
<1>5. PICK S : down \in Seq(S)
  BY DEF IInv, Shape
<1>6. Track(host', R, rep, down)
  BY <1>2, <1>4, TrackWorld
<1>7. rep \in Replicas /\ slot \in Slots
  BY DEF IInv, Shape
<1>8. CASE slot.on
  <2> DEFINE m == Welcome(host'.epoch)
             r == R[Len(down)]
             a == Received(r, m)
  <2>1. slot' = FreshSlot({}, NoHint) /\ down' = Append(down, m)
    BY <1>2, <1>8 DEF Recover, Reattached
  <2>2. r \in Replicas /\ ReplicaOK(host', r)
    BY <1>5, <1>6, <1>7, TrackFirst
  <2>3. host'.epoch \in Nat
    BY <1>2 DEF WorldOK, Worlds
  <2> HIDE DEF r
  <2>4. /\ MessageOK(m) /\ FrameGood(m, a) /\ a \in Replicas /\ ReplicaOK(host', a)
        /\ a.epoch = host'.epoch
    BY <2>2, <2>3, WelcomeArrives
  <2>5. /\ slot' \in Slots /\ slot'.on /\ slot'.held = {} /\ slot'.resume = NoHint
    <3>1. {} \in Views
      BY DEF Views
    <3> QED
      BY <2>1, <3>1, SlotFacts, NoHintFacts
  <2>6. Same(a, Received(r, m))
    BY DEF Same
  <2> HIDE DEF m, a
  <2>7. \E Q : Track(host', Q, rep, Append(down, m)) /\ Q[Len(Append(down, m))] = a
    BY <1>5, <1>6, <2>4, <2>6, TrackAppend DEF r
  <2>8. Follows(host', slot', a)
    BY <2>4, <2>5 DEF Follows
  <2>9. Behind'
    BY <1>1, <2>1, <2>7, <2>8 DEF Behind
  <2>10. Append(down, m) \in Seq(S \cup {m})
    BY <1>5
  <2>11. Shape' /\ Sound'
    BY <1>1, <1>2, <1>3, <2>1, <2>5, <2>10 DEF IInv, Shape, Sound
  <2> QED
    BY <2>9, <2>11 DEF IInv
<1>9. CASE ~slot.on
  <2>1. slot' = slot /\ down' = down
    BY <1>9 DEF Recover
  <2>2. Behind'
    BY <1>1, <1>6, <1>9, <2>1 DEF Behind
  <2>3. Shape' /\ Sound'
    BY <1>1, <1>2, <1>3, <2>1 DEF IInv, Shape, Sound
  <2> QED
    BY <2>2, <2>3 DEF IInv
<1> QED
  BY <1>7, <1>8, <1>9 DEF Slots

\* The client's own steps leave what it holds as it is, and the slot as far as
\* the replica follows it.
LEMMA ClientKeeps ==
  ASSUME IInv, host' = host, down' = down, spent'.change = spent.change,
         "change" \in DOMAIN spent',
         rep' \in Replicas, Same(rep, rep'), rep'.broken = rep.broken, rep'.missing = rep.missing,
         slot' \in Slots, slot'.on = slot.on, slot'.held = slot.held,
         slot'.collapsed = slot.collapsed, slot'.tainted = slot.tainted,
         slot'.resume = slot.resume, slot'.subs = slot.subs,
         slot.on /\ slot.resume # NoHint => DOMAIN slot'.queue = DOMAIN slot.queue
  PROVE  IInv'
<1>1. PICK R : Track(host, R, rep, down) /\ (slot.on => Follows(host, slot, R[Len(down)]))
  BY DEF IInv, Behind
<1>2. Track(host', R, rep', down')
  BY <1>1, TrackSame
<1>3. slot'.on => Follows(host', slot', R[Len(down)])
  BY <1>1 DEF Follows
<1>4. Behind'
  BY <1>2, <1>3 DEF Behind
<1>5. Shape' /\ Sound'
  BY DEF IInv, Shape, Sound
<1> QED
  BY <1>4, <1>5 DEF IInv

LEMMA LookKeeps ==
  ASSUME IInv, NEW v \in SUBSET Chunks, Look(v)
  PROVE  IInv'
<1>1. /\ host' = host /\ down' = down /\ "change" \in DOMAIN spent' /\ spent'.change = spent.change
      /\ rep' = [rep EXCEPT !.cam = v]
      /\ slot' = IF slot.on THEN [slot EXCEPT !.cam = v] ELSE slot
  BY DEF Look, IInv, Shape
<1>2. rep \in Replicas /\ slot \in Slots /\ v \in Views
  BY DEF IInv, Shape, Views
<1>3. /\ rep' \in Replicas /\ Same(rep, rep') /\ rep'.broken = rep.broken
      /\ rep'.missing = rep.missing
  BY <1>1, <1>2 DEF Replicas, Same
<1>4. /\ slot' \in Slots /\ slot'.on = slot.on /\ slot'.held = slot.held
      /\ slot'.collapsed = slot.collapsed /\ slot'.tainted = slot.tainted
      /\ slot'.resume = slot.resume /\ slot'.subs = slot.subs /\ slot'.queue = slot.queue
  BY <1>1, <1>2 DEF Slots
<1> QED
  BY <1>1, <1>3, <1>4, ClientKeeps

LEMMA AskResyncKeeps ==
  ASSUME IInv, NEW c \in Chunks, AskResync(c)
  PROVE  IInv'
<1> DEFINE q == Enqueue(slot.queue, {c}, "resnap")
           known == c \in slot.held \cup DOMAIN slot.queue
<1>1. /\ host' = host /\ down' = down /\ spent' = spent /\ slot.on
      /\ rep' = [rep EXCEPT !.due = @ \ {c}, !.sent = @ \cup {c}]
      /\ slot' = IF known THEN [slot EXCEPT !.queue = q] ELSE slot
  BY DEF AskResync
<1>2. rep \in Replicas /\ slot \in Slots /\ {c} \in Views
  BY DEF IInv, Shape, Views
<1>3. /\ rep' \in Replicas /\ Same(rep, rep') /\ rep'.broken = rep.broken
      /\ rep'.missing = rep.missing
  <2>1. rep.due \ {c} \in Views /\ rep.sent \cup {c} \in Views
    BY <1>2 DEF Replicas, Views
  <2> QED
    BY <1>1, <1>2, <2>1 DEF Replicas, Same
<1>4. q \in Queues
  <2>1. slot.queue \in Queues
    BY <1>2 DEF Slots
  <2> QED
    BY <1>2, <2>1, QueueFacts
<1> HIDE DEF q
<1>5. /\ slot' \in Slots /\ slot'.on = slot.on /\ slot'.held = slot.held
      /\ slot'.collapsed = slot.collapsed /\ slot'.tainted = slot.tainted
      /\ slot'.resume = slot.resume /\ slot'.subs = slot.subs
      /\ ~known => slot'.queue = slot.queue
  BY <1>1, <1>2, <1>4 DEF Slots
<1>6. slot.resume # NoHint => ~known
  BY <1>1 DEF IInv, Behind, Follows
<1>7. "change" \in DOMAIN spent' /\ spent'.change = spent.change
  BY <1>1 DEF IInv, Shape
<1> HIDE DEF known
<1> QED
  BY <1>1, <1>3, <1>5, <1>6, <1>7, ClientKeeps

LEMMA DeliverKeeps == IInv /\ Deliver => IInv'
<1> SUFFICES ASSUME IInv, Deliver PROVE IInv'
  OBVIOUS
<1> DEFINE m == Head(down)
           b == Received(rep, m)
<1>1. /\ down # << >> /\ down' = Tail(down) /\ host' = host /\ slot' = slot /\ spent' = spent
      /\ rep' = b
  BY DEF Deliver, Received
<1>2. PICK R : Track(host, R, rep, down) /\ (slot.on => Follows(host, slot, R[Len(down)]))
  BY DEF IInv, Behind
<1>3. PICK S : down \in Seq(S)
  BY DEF IInv, Shape
<1>4. rep \in Replicas
  BY DEF IInv, Shape
<1>5. /\ b \in Replicas /\ MessageOK(m) /\ FrameGood(m, b)
      /\ \E Q : Track(host, Q, b, Tail(down)) /\ Q[Len(Tail(down))] = R[Len(down)]
  BY <1>1, <1>2, <1>3, <1>4, TrackTail
<1>6. b.broken = {} /\ b.missing = {}
  <2>1. CASE FrameOK(m)
    <3>1. m.kind = "frame" /\ b = Applied(rep, m)
      BY <2>1 DEF FrameOK, Received
    <3>2. b.broken = Differing(b, m) \cap b.sure /\ b.missing = m.held \ DOMAIN b.held
      BY <1>4, <2>1, <3>1, AfterFrame
    <3> HIDE DEF b, m
    <3>3. /\ m.held \subseteq DOMAIN b.held
          /\ \A c \in b.sure \cap DOMAIN m.truth : Content(b, c) = m.truth[c]
      BY <1>5, <3>1 DEF FrameGood
    <3> QED
      BY <3>2, <3>3 DEF Differing
  <2>2. CASE m.kind = "welcome" /\ m.epoch \in Nat
    <3>1. b = Welcomed(rep, m)
      BY <2>2 DEF Received
    <3>2. b.broken = rep.broken /\ b.missing = rep.missing
      BY <1>4, <2>2, <3>1, AfterWelcome
    <3> QED
      BY <3>2 DEF IInv, Sound
  <2> QED
    BY <1>5, <2>1, <2>2 DEF MessageOK
<1> HIDE DEF b, m
<1>7. Behind'
  BY <1>1, <1>2, <1>5 DEF Behind
<1>8. Tail(down) \in Seq(S)
  BY <1>1, <1>3
<1>9. Shape' /\ Sound'
  BY <1>1, <1>5, <1>6, <1>8 DEF IInv, Shape, Sound
<1> QED
  BY <1>7, <1>9 DEF IInv

(***************************************************************************)
(* Ticks.                                                                  *)
(***************************************************************************)
LEMMA SpendFacts ==
  ASSUME IInv, NEW T \in TileWrites, NEW u \in EntityWrites, NEW K, NEW overflow,
         Spend(T, u, K, overflow)
  PROVE  /\ Writes(T, u) /\ "change" \in DOMAIN spent' /\ spent'.change \in Versions
         /\ host.clock <= spent'.change
         /\ Stamped(T, u) # {} => host.clock + 1 <= spent'.change /\ host.clock + 1 \in Versions
<1>1. /\ host \in Worlds /\ host.clock <= spent.change /\ "change" \in DOMAIN spent
      /\ spent.change \in Versions
  BY DEF IInv, Shape, WorldOK
<1>2. /\ Writes(T, u) /\ Cardinality(T) \in Nat /\ Cardinality(DOMAIN u) \in Nat
      /\ Stamped(T, u) # {} => Charge(T, u) >= 1
  BY <1>1, WritesFacts
<1>3. host.clock \in Nat /\ spent.change \in Nat /\ MaxChange \in Nat
  BY <1>1, ChangesAreBounded DEF Worlds, Versions
<1>4. /\ "change" \in DOMAIN spent' /\ spent'.change <= MaxChange
      /\ spent'.change = spent.change + Cardinality(T) + Cardinality(DOMAIN u)
  BY <1>1 DEF Spend
<1>5. spent'.change = spent.change + Charge(T, u) /\ Charge(T, u) \in Nat
  BY <1>2, <1>3, <1>4 DEF Charge
<1> QED
  BY <1>1, <1>2, <1>3, <1>4, <1>5 DEF Versions

LEMMA LoneTickKeeps == IInv /\ LoneTick => IInv'
<1> SUFFICES ASSUME IInv, NEW T \in TileWrites, NEW u \in EntityWrites, ~slot.on,
                    Spend(T, u, {}, FALSE), host' = Changed(host, T, u),
                    slot' = slot, down' = down, rep' = rep
             PROVE  IInv'
  BY DEF LoneTick
<1>1. /\ Writes(T, u) /\ "change" \in DOMAIN spent' /\ spent'.change \in Versions
      /\ host.clock <= spent'.change
      /\ Stamped(T, u) # {} => host.clock + 1 <= spent'.change /\ host.clock + 1 \in Versions
  BY SpendFacts
<1>2. /\ WorldOK(host')
      /\ host'.clock = IF Stamped(T, u) = {} THEN host.clock ELSE host.clock + 1
      /\ \A r \in Replicas : ReplicaOK(host, r) => ReplicaOK(host', r)
  BY <1>1, WorldKeeps
<1>3. PICK R : Track(host, R, rep, down)
  BY DEF IInv, Behind
<1>4. Track(host', R, rep, down)
  BY <1>2, <1>3, TrackWorld
<1>5. Behind'
  BY <1>4 DEF Behind
<1>6. host'.clock <= spent'.change
  BY <1>1, <1>2
<1>7. Shape' /\ Sound'
  BY <1>1, <1>2, <1>6 DEF IInv, Shape, Sound
<1> QED
  BY <1>5, <1>7 DEF IInv

LEMMA BusyTickKeeps == IInv /\ BusyTick => IInv'
<1> SUFFICES ASSUME IInv, slot.on, NEW T \in TileWrites, NEW u \in EntityWrites,
                    NEW L \in SUBSET (slot.subs \ slot.cam),
                    NEW D \in SUBSET DOMAIN Noted(Changed(host, T, u), slot, L).queue,
                    NEW K \in SUBSET Tallied(Drained(Noted(Changed(host, T, u), slot, L), D), D, T, u),
                    NEW overflow \in BOOLEAN,
                    Spend(T, u, K, overflow), Tick(T, u, L, D, K, {}, overflow)
             PROVE  IInv'
  BY DEF BusyTick
<1>1. /\ Writes(T, u) /\ "change" \in DOMAIN spent' /\ spent'.change \in Versions
      /\ host.clock <= spent'.change
      /\ Stamped(T, u) # {} => host.clock + 1 <= spent'.change
  BY SpendFacts
<1>2. K \in Views
  BY <1>1, TalliedFacts
<1> QED
  BY <1>1, <1>2, TickKeeps

\* A tick in which nothing changes.
LEMMA QuietTickKeeps ==
  ASSUME IInv, slot.on, spent' = spent, NEW H,
         NEW D, D \subseteq DOMAIN Noted(host, slot, {}).queue,
         Tick({}, << >>, {}, D, {}, H, FALSE)
  PROVE  IInv'
<1>1. Writes({}, << >>) /\ Stamped({}, << >>) = {}
  BY NoWrites
<1>2. Changed(host, {}, << >>) = host
  BY <1>1 DEF Changed
<1>3. D \subseteq DOMAIN Noted(Changed(host, {}, << >>), slot, {}).queue
  BY <1>2
<1>4. "change" \in DOMAIN spent' /\ spent'.change \in Versions /\ host.clock <= spent'.change
  BY DEF IInv, Shape
<1>5. {} \in Views /\ {} \subseteq slot.subs \ slot.cam /\ FALSE \in BOOLEAN
  BY DEF Views
<1> QED
  BY <1>1, <1>3, <1>4, <1>5, TickKeeps

LEMMA DrainTickKeeps == IInv /\ DrainTick => IInv'
BY QuietTickKeeps DEF DrainTick

LEMMA HashTickKeeps ==
  ASSUME IInv, NEW c \in Chunks, HashTick(c)
  PROVE  IInv'
<1>1. slot.on /\ spent' = spent /\ Tick({}, << >>, {}, {}, {}, {c}, FALSE)
  BY DEF HashTick
<1>2. {} \subseteq DOMAIN Noted(host, slot, {}).queue
  OBVIOUS
<1> QED
  BY <1>1, <1>2, QuietTickKeeps

LEMMA StepInvariant == IInv /\ [Next]_vars => IInv'
<1>1. ASSUME IInv, UNCHANGED vars PROVE IInv'
  BY <1>1 DEF vars, IInv, Shape, Sound, Behind
<1>2. ASSUME IInv, Next PROVE IInv'
  <2>1. CASE Attach
    BY <1>2, <2>1, AttachKeeps
  <2>2. CASE Cut
    BY <1>2, <2>2, CutKeeps
  <2>3. CASE Restart
    BY <1>2, <2>3, RestartKeeps
  <2>4. CASE Recover
    BY <1>2, <2>4, RecoverKeeps
  <2>5. ASSUME NEW v \in SUBSET Chunks \ {{}}, Look(v) PROVE IInv'
    BY <1>2, <2>5, LookKeeps
  <2>6. ASSUME NEW c \in Chunks, AskResync(c) PROVE IInv'
    BY <1>2, <2>6, AskResyncKeeps
  <2>7. CASE Deliver
    BY <1>2, <2>7, DeliverKeeps
  <2>8. CASE LoneTick
    BY <1>2, <2>8, LoneTickKeeps
  <2>9. CASE BusyTick
    BY <1>2, <2>9, BusyTickKeeps
  <2>10. CASE DrainTick
    BY <1>2, <2>10, DrainTickKeeps
  <2>11. ASSUME NEW c \in Chunks, HashTick(c) PROVE IInv'
    BY <1>2, <2>11, HashTickKeeps
  <2> QED
    BY <1>2, <2>1, <2>2, <2>3, <2>4, <2>5, <2>6, <2>7, <2>8, <2>9, <2>10, <2>11 DEF Next
<1> QED
  BY <1>1, <1>2

(* Whatever is under way, the replica that will have received it all is one *)
(* the slot follows: the invariant everything here rests on.                *)
THEOREM ReplicationInvariant == Spec => []IInv
<1>1. Init => IInv
  BY InitInvariant
<1>2. IInv /\ [Next]_vars => IInv'
  BY StepInvariant
<1> QED
  BY <1>1, <1>2, PTL DEF Spec

(* The world, the slot and the replica keep their types, and a version on   *)
(* either side is a tick the world has counted.                             *)
THEOREM ReplicationTypeOK == Spec => []TypeOK
<1>1. IInv => TypeOK
  <2> SUFFICES ASSUME IInv PROVE TypeOK
    OBVIOUS
  <2>1. host \in Worlds /\ slot \in Slots /\ rep \in Replicas
    BY DEF IInv, Shape, WorldOK
  <2>2. host \in [clock : Versions, epoch : Nat, tile : [Chunks -> 0..1],
                  ent : [Entities -> 0..Gone], ver : [Chunks -> Versions]]
    BY <2>1 DEF Worlds
  <2>3. slot.cam \subseteq Chunks /\ slot.subs \subseteq Chunks /\ slot.held \subseteq Chunks
    BY <2>1 DEF Slots, Views
  <2>4. rep.held \in PartialVersions /\ rep.ent \in [Entities -> 0..Gone - 1]
    BY <2>1 DEF Replicas, Values
  <2> QED
    BY <2>2, <2>3, <2>4 DEF TypeOK
<1> QED
  BY <1>1, ReplicationInvariant, PTL

(* A chunk the host counts as held, and so sends deltas and hashes of, is   *)
(* held by the client when the frame arrives, collapses, overflows, resumes *)
(* and recoveries included (host/pacing.rs, Host::build_frame,              *)
(* ClientCore::apply).                                                      *)
THEOREM ReplicationHostNeverAhead == Spec => []HostNeverAhead
<1>1. IInv => HostNeverAhead
  BY DEF IInv, Sound, HostNeverAhead
<1> QED
  BY <1>1, ReplicationInvariant, PTL

(* A chunk the replica received by a snapshot, or pristine into an empty    *)
(* one, from which nothing has been withheld since and which was not        *)
(* entered over an entity known only through a chunk that is not sure,      *)
(* reads as on the host in every frame that could hash it (host/hashes.rs,  *)
(* client/replica.rs).                                                      *)
THEOREM ReplicationSureMatches == Spec => []SureMatches
<1>1. IInv => SureMatches
  BY DEF IInv, Sound, SureMatches
<1> QED
  BY <1>1, ReplicationInvariant, PTL
=============================================================================
