------------------------------ MODULE FrameLog ------------------------------
(***************************************************************************)
(* The bytes of one log segment and what a reader makes of them: the       *)
(* encoding of persist/frame.rs and the scan and apply passes of           *)
(* host/mod.rs (the sim_replay_scan and sim_replay exports).               *)
(*                                                                         *)
(* A segment is a sequence of cells.  A segment header is one cell; a      *)
(* frame is two, so that a crash can cut it in half and a reader that      *)
(* starts at a wrong offset can land in the middle of one.  An offset is a *)
(* number of cells, as a log offset in the code is a number of bytes.      *)
(***************************************************************************)
EXTENDS Naturals, Sequences, FiniteSets, SequencesExt

CONSTANT Poison     \* the actions whose apply traps, in every run of them

HeaderLen == 1
FrameLen  == 2

(* The cell of a segment header. *)
Header == << [kind |-> "header"] >>

(* A frame of admitted actions, logged `delta` ticks after the one before. *)
Frame(delta, ids) ==
  [part \in 1 .. FrameLen |->
     [kind |-> "frame", part |-> part, delta |-> delta, ids |-> ids]]

(* The administrative frame (delta 0) that tells replay to step over a     *)
(* record: offset and index name it inside segment.                        *)
Skip(segment, at) ==
  [part \in 1 .. FrameLen |->
     [kind |-> "skip", part |-> part, segment |-> segment, at |-> at]]

(* A whole frame, its checksum intact, starts after the first `offset`     *)
(* cells.                                                                  *)
FrameAt(cells, offset) ==
  /\ offset + FrameLen <= Len(cells)
  /\ \A part \in 1 .. FrameLen :
       LET cell == cells[offset + part]
       IN  /\ cell.kind # "header"
           /\ cell.part = part
           /\ cell = [cells[offset + 1] EXCEPT !.part = part]

(* How many frames a reader decodes from offset on before the first torn   *)
(* one, and where the last of them ends (sim_replay_valid_end).            *)
FrameCount(cells, offset) ==
  CHOOSE n \in 0 .. Len(cells) :
    /\ \A i \in 0 .. n - 1 : FrameAt(cells, offset + i * FrameLen)
    /\ ~FrameAt(cells, offset + n * FrameLen)

ValidEnd(cells, offset) == offset + FrameCount(cells, offset) * FrameLen

FrameNo(cells, offset, i) == cells[offset + (i - 1) * FrameLen + 1]

(* Mutants of the scan: it honours no Skip, or skips the whole frame.      *)
SkipTargetsUnscanned(segment, cells, offset) == {}

SkipTargetsByFrame(segment, cells, offset) ==
  { << o, i >> : o \in { FrameNo(cells, offset, j).at[1] :
                          j \in { k \in 1 .. FrameCount(cells, offset) :
                                   FrameNo(cells, offset, k).kind = "skip" } },
                i \in 1 .. Cardinality(Poison) + 2 }

(* The first pass: the records that some Skip frame of this segment names. *)
SkipTargets(segment, cells, offset) ==
  { FrameNo(cells, offset, i).at :
      i \in { j \in 1 .. FrameCount(cells, offset) :
                /\ FrameNo(cells, offset, j).kind = "skip"
                /\ FrameNo(cells, offset, j).segment = segment } }

(* The second pass.  The sim carries the tick it has completed, the tick   *)
(* of the last logged frame (what the next delta counts from), the actions *)
(* applied with their ticks, and the actions acknowledged as an            *)
(* EngineFault without being applied.                                      *)
NoTrap == << >>

(* The tick a frame was logged for; the idle ticks before it run first.    *)
FrameTick(sim, frame) == sim.lastLogged + frame.delta

(* The ids of a frame that no Skip names, in their order. *)
Kept(ids, offset, skipped) ==
  LET upTo[i \in 0 .. Len(ids)] ==
        IF i = 0 THEN << >>
        ELSE IF << offset, i >> \in skipped THEN upTo[i - 1]
        ELSE Append(upTo[i - 1], ids[i])
  IN  upTo[Len(ids)]

ApplyFrame(sim, frame, offset, skipped) ==
  LET frameTick == FrameTick(sim, frame)
      now == IF frameTick > sim.tick THEN frameTick ELSE sim.tick + 1
      named == { i \in DOMAIN frame.ids : << offset, i >> \in skipped }
      kept == Kept(frame.ids, offset, skipped)
      trapping == { i \in DOMAIN frame.ids \ named : frame.ids[i] \in Poison }
  IN  IF trapping # {}
      THEN [sim EXCEPT !.trap =
              << offset, CHOOSE i \in trapping : \A j \in trapping : i <= j >>]
      ELSE [sim EXCEPT
              !.tick = now,
              !.lastLogged = frameTick,
              !.world = @ \o [k \in DOMAIN kept |-> [id |-> kept[k], tick |-> now]],
              !.faulted = @ \cup { frame.ids[i] : i \in named }]

ReplayFrame(sim, frame, offset, skipped) ==
  IF sim.trap # NoTrap \/ frame.kind = "skip"
  THEN sim
  ELSE ApplyFrame(sim, frame, offset, skipped)

(* The sims a replay of base through the cells past offset may leave: the  *)
(* apply pass is deterministic, so there is exactly one.                   *)
Replay(base, segment, cells, offset) ==
  LET skipped == SkipTargets(segment, cells, offset)
      after[i \in 0 .. FrameCount(cells, offset)] ==
        IF i = 0
        THEN {base}
        ELSE { ReplayFrame(sim, FrameNo(cells, offset, i),
                           offset + (i - 1) * FrameLen, skipped) :
                 sim \in after[i - 1] }
  IN  after[FrameCount(cells, offset)]
=============================================================================
