------------------------------ MODULE Transport ------------------------------
(***************************************************************************)
(* The transport store (crates/engine/src/transport): lines as runs of     *)
(* equal items packed Spacing apart (line.rs), the tick that moves only    *)
(* the runs whose gaps change (advance.rs), the item primitives            *)
(* (items.rs), line surgery (surgery.rs), the calls of the game (mod.rs)   *)
(* and the canonical bytes a snapshot holds (codec.rs).                    *)
(*                                                                         *)
(* A line's list of nodes is the sequence runs; its jam cursor is an index *)
(* into it, Len(runs) + 1 for "all packed" and 0 for unknown.  Slots, node *)
(* arenas, segments, the forecast tracker and the bookkeeping of touched   *)
(* lines are left out.  A call that is refused changes nothing and is not  *)
(* taken.                                                                  *)
(***************************************************************************)
EXTENDS LineGraph

CONSTANTS
  MaxLines, MaxItems, \* the caps of the world
  CutPasses,          \* CUT_PASSES
  CountMax,           \* the most items a run counts (u16::MAX in the code)
  Wrap,               \* sunk is a count modulo this (a u64 in the code)
  Kinds,              \* item kinds, positive numbers
  MaxLen,             \* MAX_LEN
  Patience,           \* ticks within which each input of a draining fork is served
  Layouts,            \* bound: the line graphs a run starts from, by name
  MaxPuts,            \* bound: items the game inserts
  MaxEdits            \* bound: every other call of the game

VARIABLES
  lines,      \* records by line id
  nextId,     \* the id the next line gets
  items,      \* items on every line together
  order,      \* the update order, as last computed
  graphDirty, \* the outputs changed since
  given,      \* items given to the lines and not taken back, modulo Wrap (history)
  calls       \* the game's calls so far, by kind

vars == <<lines, nextId, items, order, graphDirty, given, calls>>

None == -1000   \* no leader
NoCap == -1     \* NO_CAP
Half == Spacing \div 2
Larger(a, b) == IF a > b THEN a ELSE b
Smaller(a, b) == IF a < b THEN a ELSE b
Within(x, lo, hi) == Larger(Smaller(x, hi), lo)
Distance(a, b) == Larger(a - b, b - a)

-----------------------------------------------------------------------------
(* Runs.                                                                   *)

Run(item, count, gap) == [item |-> item, count |-> count, gap |-> gap]
Size(r) == Larger(r.count, 1)

\* The position of each run's first item, and of its last.
Firsts(runs) ==
  LET f[i \in DOMAIN runs] ==
        IF i = 1 THEN runs[1].gap ELSE f[i - 1] + Spacing * Size(runs[i - 1]) + runs[i].gap
  IN f
LastAt(runs, i) == Firsts(runs)[i] + Spacing * (Size(runs[i]) - 1)

RunItems(r, first) ==
  [k \in 1 .. Size(r) |-> [item |-> r.item, pos |-> first + Spacing * (k - 1)]]
ItemsIn(runs) == FlattenSeq([i \in DOMAIN runs |-> RunItems(runs[i], Firsts(runs)[i])])
CountOf(runs) == FoldLeft(LAMBDA n, r : n + Size(r), 0, runs)
TotalOf(ls) == FoldFunctionOnSet(+, 0, [l \in DOMAIN ls |-> CountOf(ls[l].runs)], DOMAIN ls)

HasNegativeGap(runs) == \E i \in 2 .. Len(runs) : runs[i].gap < 0
Joinable(r, s) == r.item = s.item /\ r.count + s.count <= CountMax

NewLine(len, speed) ==
  [len |-> len, speed |-> speed, out |-> DeadEnd, fork |-> {}, runs |-> << >>, count |-> 0,
   tailPos |-> 0, jam |-> 0, squashed |-> FALSE, advanced |-> FALSE, freshRuns |-> 0,
   cap |-> NoCap, sunk |-> 0, sched |-> NoSched]

PopFront(rec) ==
  [rec EXCEPT !.runs = Tail(@),
              !.jam = IF @ = 0 \/ Len(rec.runs) = 1 THEN 0 ELSE Larger(@ - 1, 2)]
RemoveRun(rec, i) ==
  [rec EXCEPT !.runs = RemoveAt(@, i), !.jam = IF @ > i THEN @ - 1 ELSE @]
InsertRun(rec, i, r) == [rec EXCEPT !.runs = InsertAt(@, i, r), !.jam = 0]

-----------------------------------------------------------------------------
(* Items onto a line.                                                      *)

\* The runs before pos: those that end before it.
Before(rec, pos) == Cardinality({i \in DOMAIN rec.runs : LastAt(rec.runs, i) < pos})

\* The gap an item at pos would have behind run i, and the one it would leave
\* to the run after that.
GapBehind(runs, i, pos) == IF i = 0 THEN pos ELSE pos - LastAt(runs, i) - Spacing
GapLeft(runs, i, pos) == Firsts(runs)[i + 1] - pos - Spacing

\* locate finds pos between two runs, Spacing clear of both.
RoomAt(rec, pos) ==
  LET i == Before(rec, pos)
  IN /\ i > 0 => GapBehind(rec.runs, i, pos) >= 0
     /\ i < Len(rec.runs) => GapLeft(rec.runs, i, pos) >= 0

\* An item behind run i: gap is its own, left that of the run after it.
InsertedBehind(rec, i, pos, item, gap, left) ==
  LET new == Run(item, 1, gap)
      atBack == i = Len(rec.runs)
      joinsPrev == gap = 0 /\ i > 0 /\ Joinable(rec.runs[i], new)
      joinsNext == ~atBack /\ left = 0 /\ Joinable(rec.runs[i + 1], new)
      base == [rec EXCEPT !.count = @ + 1, !.tailPos = IF atBack THEN pos ELSE @, !.jam = 0]
      spaced == IF atBack THEN base ELSE [base EXCEPT !.runs[i + 1].gap = left]
      grown == [spaced EXCEPT !.runs[i].count = @ + 1]
  IN CASE joinsPrev /\ joinsNext /\ rec.runs[i].count + 1 + rec.runs[i + 1].count <= CountMax ->
            RemoveRun([grown EXCEPT !.runs[i].count = @ + rec.runs[i + 1].count], i + 1)
       [] joinsPrev -> grown
       [] ~joinsPrev /\ joinsNext -> [spaced EXCEPT !.runs[i + 1].count = @ + 1,
                                                    !.runs[i + 1].gap = gap]
       [] OTHER -> InsertRun(spaced, i + 1, new)

InsertedAt(rec, pos, item) ==
  LET i == Before(rec, pos)
  IN InsertedBehind(rec, i, pos, item, GapBehind(rec.runs, i, pos), GapLeft(rec.runs, i, pos))

\* remove_at: of each run near pos its nearest item; of those the nearest,
\* the front one on a tie.
NearestOf(rec, i, pos) ==
  LET f == Firsts(rec.runs)[i]
  IN IF pos <= f THEN 0
     ELSE Smaller((pos - f + Half - 1) \div Spacing, rec.runs[i].count - 1)
AwayFrom(rec, i, pos) ==
  Distance(Firsts(rec.runs)[i] + Spacing * NearestOf(rec, i, pos), pos)
NearRuns(rec, pos) == {i \in DOMAIN rec.runs : AwayFrom(rec, i, pos) <= Half}
BestRun(rec, pos) ==
  Min({i \in NearRuns(rec, pos) : \A j \in NearRuns(rec, pos) :
         AwayFrom(rec, i, pos) <= AwayFrom(rec, j, pos)})

\* Without the item k behind the first of run i; what follows keeps its place.
RemovedFrom(rec, i, k) ==
  LET r == rec.runs[i]
      last == i = Len(rec.runs)
      base == [rec EXCEPT !.count = @ - 1, !.jam = 0]
      widened == IF last THEN base
                 ELSE [base EXCEPT !.runs[i + 1].gap = @ + Spacing + (IF r.count = 1 THEN r.gap ELSE 0)]
  IN CASE r.count = 1 /\ i = 1 -> PopFront(widened)
       [] r.count = 1 /\ i > 1 ->
            RemoveRun([widened EXCEPT !.tailPos = IF last THEN LastAt(rec.runs, i - 1) ELSE @], i)
       [] r.count > 1 /\ k = 0 ->
            [base EXCEPT !.runs[i].count = @ - 1, !.runs[i].gap = @ + Spacing]
       [] r.count > 1 /\ k = r.count - 1 ->
            [widened EXCEPT !.runs[i].count = @ - 1,
                            !.tailPos = IF last THEN @ - Spacing ELSE @]
       [] OTHER -> InsertRun([base EXCEPT !.runs[i].count = k], i + 1,
                             Run(r.item, r.count - k - 1, Spacing))
RemovedAt(rec, pos) ==
  LET i == BestRun(rec, pos) IN RemovedFrom(rec, i, NearestOf(rec, i, pos))

BackPos(rec) ==
  IF rec.count = 0 THEN rec.len - rec.speed
  ELSE Larger(rec.len - rec.speed, rec.tailPos + Spacing)

-----------------------------------------------------------------------------
(* The world inside one advance: w.line, w.items, w.changed, and w.moved,  *)
(* how far the item that crosses has come in this tick.                    *)

\* note_cut_landing: how far what landed on t before it advanced may go on.
NoteCutLanding(rec, moved) ==
  LET left == Larger(rec.speed - moved, 0)
  IN [rec EXCEPT !.cap = IF @ \in {NoCap, left} THEN left ELSE 0]

\* land: an item goes behind the rearmost.
LandedBack(rec, item, pos, fresh, moved) ==
  LET gap == IF rec.count = 0 THEN pos ELSE pos - rec.tailPos - Spacing
      b == Len(rec.runs)
      joins == /\ rec.count > 0 /\ gap = 0 /\ (~fresh \/ rec.freshRuns > 0)
               /\ Joinable(rec.runs[b], Run(item, 1, 0))
      placed == IF joins THEN [rec EXCEPT !.runs[b].count = @ + 1]
                ELSE [rec EXCEPT !.runs = Append(@, Run(item, 1, gap)),
                                 !.freshRuns = IF fresh THEN @ + 1 ELSE @]
      noted == [placed EXCEPT !.squashed = @ \/ (rec.count > 0 /\ gap < 0),
                              !.tailPos = pos, !.count = @ + 1]
  IN IF fresh THEN NoteCutLanding(noted, moved) ELSE noted

\* land_fresh_at: a side-load onto a line that has not advanced, behind run i;
\* among the runs that have landed so it joins them, elsewhere it is a run of
\* count 0.
LandedFreshBehind(rec, i, item, moved, gap, left) ==
  LET c == i + 1
      blockStart == Len(rec.runs) - rec.freshRuns + 1
      inBlock == c >= blockStart
      new == Run(item, 1, gap)
      joinsNext == left = 0 /\ Joinable(rec.runs[c], new)
      joinsPrev == c > blockStart /\ gap = 0 /\ Joinable(rec.runs[i], new)
      spaced == [rec EXCEPT !.runs[c].gap = left, !.jam = 0]
      grown == [spaced EXCEPT !.runs[i].count = @ + 1]
      placed ==
        CASE ~inBlock -> InsertRun(spaced, c, Run(item, 0, gap))
          [] inBlock /\ joinsPrev /\ joinsNext
             /\ rec.runs[i].count + 1 + rec.runs[c].count <= CountMax ->
               [RemoveRun([grown EXCEPT !.runs[i].count = @ + rec.runs[c].count], c)
                  EXCEPT !.freshRuns = @ - 1]
          [] inBlock /\ joinsPrev -> grown
          [] inBlock /\ ~joinsPrev /\ joinsNext ->
               [spaced EXCEPT !.runs[c].count = @ + 1, !.runs[c].gap = gap]
          [] OTHER -> [InsertRun(spaced, c, new) EXCEPT !.freshRuns = @ + 1]
  IN [NoteCutLanding(placed, moved) EXCEPT !.count = @ + 1]

LandedFreshAt(rec, pos, item, moved) ==
  LET i == Before(rec, pos)
  IN IF i = Len(rec.runs) THEN LandedBack(rec, item, pos, TRUE, moved)
     ELSE LandedFreshBehind(rec, i, item, moved, GapBehind(rec.runs, i, pos),
                            GapLeft(rec.runs, i, pos))

\* merge_land, where there is room.
MergePos(rec, at, over) == Within(at - over, 0, rec.len - 1)
MergeLanded(rec, pos, item, moved) ==
  IF rec.advanced THEN InsertedAt(rec, pos, item) ELSE LandedFreshAt(rec, pos, item, moved)

HandOffPos(rec, over) ==
  IF rec.count > 0 THEN Larger(rec.len - over, rec.tailPos + Spacing) ELSE rec.len - over
HasRoom(rec, over) == HandOffPos(rec, over) < rec.len

Preferred(rec) == IF "toggle" \in rec.fork THEN rec.out.b ELSE rec.out.a
Other(rec) == IF "toggle" \in rec.fork THEN rec.out.a ELSE rec.out.b

LeavesRoom(w, rec, over) ==
  LET p == w.line[Preferred(rec)]
      o == w.line[Other(rec)]
      RoomBehind(t) == HandOffPos(t, over) + Spacing < t.len
  IN CASE HasRoom(p, over) /\ HasRoom(o, over) -> TRUE
       [] HasRoom(p, over) /\ ~HasRoom(o, over) -> RoomBehind(p)
       [] ~HasRoom(p, over) /\ HasRoom(o, over) -> RoomBehind(o)
       [] OTHER -> FALSE

PartnerDue(rec) ==
  /\ rec.runs # << >> /\ rec.runs[1].count # 0 /\ rec.freshRuns < Len(rec.runs)
  /\ rec.runs[1].gap < rec.speed

\* fork_land: to the preferred target, which flips the toggle, or the other.
ForkTarget(w, rec, over) ==
  IF HasRoom(w.line[Preferred(rec)], over) THEN Preferred(rec)
  ELSE IF HasRoom(w.line[Other(rec)], over) THEN Other(rec) ELSE 0
Flipped(bits) == IF "toggle" \in bits THEN bits \ {"toggle"} ELSE bits \cup {"toggle"}

ForkLanded(w, l, t, over, item, moved) ==
  LET pos == HandOffPos(w.line[t], over)
      come == moved - (pos - (w.line[t].len - over))
      v == [w EXCEPT !.line[t] = LandedBack(@, item, pos, ~@.advanced, come)]
  IN IF t = Preferred(w.line[l]) THEN [v EXCEPT !.line[l].fork = Flipped(@)] ELSE v

\* What a delivery of l does to the turn it shares with its partner p.
Delivered(w, l, p, pending, ahead) ==
  LET toggle == w.line[l].fork \cap {"toggle"}
      v == CASE ahead -> [w EXCEPT !.line[l].fork = @ \cup {"ahead"}]
             [] ~ahead /\ ~pending /\ "ahead" \in w.line[p].fork ->
                  [w EXCEPT !.line[p].fork = @ \ {"ahead"}]
             [] OTHER -> [w EXCEPT !.line[l].fork = @ \cup {"yield"},
                                   !.line[p].fork = @ \ {"yield"}]
  IN [v EXCEPT !.line[p].fork = (@ \ {"toggle"}) \cup toggle]

\* Whether an item was taken, and the world then.
Accepted(w) == [taken |-> TRUE, w |-> w]
Refused(w) == [taken |-> FALSE, w |-> w]

\* l hands the item to target t, if there is one.
ForkDelivered(w, l, t, over, item, moved, pending, ahead) ==
  LET p == w.line[l].out.partner
      v == ForkLanded(w, l, t, over, item, moved)
  IN IF t = 0 THEN Refused(w)
     ELSE Accepted(IF p = 0 THEN v ELSE Delivered(v, l, p, pending, ahead))

\* Mutant: a fork input that owes the turn goes first all the same.
ForkCrossGreedy(w, l, over, item, moved) ==
  LET p == w.line[l].out.partner
  IN ForkDelivered(w, l, ForkTarget(w, w.line[l], over), over, item, moved,
                   p # 0 /\ ~w.line[p].advanced, FALSE)

\* fork_cross.
ForkCross(w, l, over, item, moved) ==
  LET rec == w.line[l]
      p == rec.out.partner
      pending == p # 0 /\ ~w.line[p].advanced
      owes == pending /\ "yield" \in rec.fork /\ PartnerDue(w.line[p])
  IN IF owes /\ ~LeavesRoom(w, rec, over) THEN Refused(w)
     ELSE ForkDelivered(w, l, ForkTarget(w, rec, over), over, item, moved, pending, owes)

\* The front item of l, past the front by over, goes where the output says.
Cross(w, l, over, item, moved) ==
  LET out == w.line[l].out
  IN CASE out.kind = "sink" ->
            Accepted([w EXCEPT !.line[l].sunk = (@ + 1) % Wrap, !.items = @ - 1])
       [] out.kind = "next" ->
            Accepted([w EXCEPT !.line[out.to] =
                        LandedBack(@, item, @.len - over, ~@.advanced, moved)])
       [] out.kind = "merge" ->
            LET t == w.line[out.to]
                pos == MergePos(t, out.at, over)
            IN IF RoomAt(t, pos)
               THEN Accepted([w EXCEPT !.line[out.to] = MergeLanded(@, pos, item, moved)])
               ELSE Refused(w)
       [] out.kind = "fork" -> ForkCross(w, l, over, item, moved)

-----------------------------------------------------------------------------
(* advance_line.                                                           *)

\* Mutant: the front item's place goes with it.
FrontGoneShort(rec, pos) ==
  LET h == rec.runs[1]
      fewer == [rec EXCEPT !.count = @ - 1]
  IN CASE h.count > 1 -> [fewer EXCEPT !.runs[1].count = @ - 1]
       [] h.count = 1 /\ Len(rec.runs) = 1 -> PopFront(fewer)
       [] OTHER -> PopFront(fewer)

\* Line l without its front item, which was at pos.
FrontGone(rec, pos) ==
  LET h == rec.runs[1]
      fewer == [rec EXCEPT !.count = @ - 1]
  IN CASE h.count > 1 -> [fewer EXCEPT !.runs[1].count = @ - 1, !.runs[1].gap = pos + Spacing]
       [] h.count = 1 /\ Len(rec.runs) = 1 -> PopFront(fewer)
       [] OTHER -> [PopFront(fewer) EXCEPT !.runs[1].gap = pos + Spacing + rec.runs[2].gap]

RECURSIVE FrontItems(_, _, _, _, _)

\* The front run landed across a cut in this tick: c.fresh is the number of
\* runs that did, c.cap their limit.
FrontFresh(rec, c) == rec.runs[1].count = 0 \/ (c.fresh > 0 /\ Len(rec.runs) = c.fresh)

\* Where the front item comes to be.
FrontStep(rec, leader, c) ==
  LET pos == rec.runs[1].gap
      bound == leader + Spacing
  IN IF pos < bound THEN pos
     ELSE IF FrontFresh(rec, c) THEN Larger(Larger(pos - c.cap, bound), 0)
     ELSE Larger(pos - rec.speed, bound)

FrontStays(w, l, rests, crossed) ==
  LET h == w.line[l].runs[1]
  IN [w |-> [w EXCEPT !.line[l].runs[1] = Run(h.item, Size(h), rests)],
      ended |-> FALSE, d0 |-> h.gap - rests, crossed |-> crossed]

\* The front item at p < 0 was offered: it goes on, or waits at the front.
FrontOffered(w, l, p, c, went, crossed) ==
  IF ~went.taken THEN FrontStays(w, l, 0, crossed)
  ELSE FrontItems([went.w EXCEPT !.line[l] = FrontGone(@, w.line[l].runs[1].gap)], l,
                  IF w.line[l].out.kind \in {"sink", "next"} THEN p ELSE None, c, TRUE)

FrontMoves(w, l, p, c, crossed) ==
  LET h == w.line[l].runs[1]
  IN IF p >= 0 \/ FrontFresh(w.line[l], c) THEN FrontStays(w, l, Larger(p, 0), crossed)
     ELSE FrontOffered(w, l, p, c, Cross(w, l, -p, h.item, h.gap - p), crossed)

\* Mutant: a line that handed its last item over reports no change.
FrontItemsQuiet(w, l, leader, c, crossed) ==
  IF w.line[l].runs = << >> THEN [w |-> w, ended |-> TRUE]
  ELSE FrontMoves(w, l, FrontStep(w.line[l], leader, c), c, crossed)

\* The front items, one at a time while they cross; d0 is how far the first
\* one that stays has moved, crossed whether any went.
FrontItems(w, l, leader, c, crossed) ==
  IF w.line[l].runs = << >> THEN [w |-> [w EXCEPT !.changed = TRUE], ended |-> TRUE]
  ELSE FrontMoves(w, l, FrontStep(w.line[l], leader, c), c, crossed)

RECURSIVE Walk(_, _, _)
\* The runs behind the front one, from index i on.  s.d is how far the run
\* ahead moved, s.lim the limit now, s.inBlock whether it is the landed
\* block's, s.negative whether a squashed pair is left.
Walk(rec, i, s) ==
  LET r == rec.runs[i]
      enters == s.fresh > 0 /\ ~s.inBlock /\ i = Len(rec.runs) - s.fresh + 1
      lim == IF enters THEN s.cap ELSE s.lim
      inBlock == s.inBlock \/ enters
      mid == r.count = 0
      runLim == IF mid THEN s.cap ELSE lim
      full == ~mid /\ s.d = runLim
      noneLeft == /\ \A j \in i .. Len(rec.runs) : rec.runs[j].count # 0
                  /\ s.fresh = 0 \/ inBlock
      g == r.gap + s.d
      d == Larger(Smaller(g, runLim), 0)
      gap == g - d
      moved == [s EXCEPT !.d = d, !.lim = lim, !.inBlock = inBlock,
                         !.negative = @ \/ gap < 0]
      walked == [rec EXCEPT !.runs[i].gap = gap, !.runs[i].count = Size(r)]
      prev == rec.runs[i - 1]
  IN CASE i > Len(rec.runs) -> [rec |-> rec, s |-> s]
       [] i <= Len(rec.runs) /\ full /\ ~rec.squashed /\ noneLeft ->
            [rec |-> rec, s |-> [s EXCEPT !.d = lim]]
       [] i <= Len(rec.runs) /\ full /\ (rec.squashed \/ ~noneLeft) /\ r.gap >= 0 ->
            Walk(rec, i + 1, [s EXCEPT !.lim = lim, !.inBlock = inBlock])
       [] OTHER ->
            IF gap = 0 /\ Joinable(prev, walked.runs[i])
            THEN Walk(RemoveRun([walked EXCEPT !.runs[i - 1].count = @ + Size(r)], i), i,
                      [moved EXCEPT !.merged = TRUE])
            ELSE IF gap = 0 /\ s.tracking /\ rec.jam = i
            THEN Walk([walked EXCEPT !.jam = i + 1], i + 1, moved)
            ELSE Walk(walked, i + 1, moved)

\* A stopped line resumes at its jam cursor, which is set when unknown.
Walked(rec, d0, c) ==
  LET tracking == d0 = 0
      aimed == IF tracking /\ rec.jam = 0 THEN [rec EXCEPT !.jam = 2] ELSE rec
      inBlock == c.fresh > 0 /\ Len(rec.runs) = c.fresh
  IN Walk(aimed, IF tracking THEN aimed.jam ELSE 2,
          [d |-> d0, lim |-> IF inBlock THEN c.cap ELSE rec.speed, inBlock |-> inBlock,
           fresh |-> c.fresh, cap |-> c.cap, tracking |-> tracking,
           negative |-> FALSE, merged |-> FALSE])

\* The rearmost item a line's feeder follows, in the feeder's coordinates.
TargetLeader(rec) == IF rec.count > 0 THEN rec.tailPos - rec.len ELSE None

FrontLeader(w, out, cutLeader) ==
  CASE out.kind = "deadEnd" -> -Spacing
    [] out.kind = "next" -> IF cutLeader.found THEN cutLeader.lead
                            ELSE TargetLeader(w.line[out.to])
    [] OTHER -> None

\* The world once the runs behind the front one were walked to res.
RunsBehind(v, l, crossed, res, d0) ==
  [v EXCEPT !.line[l] = [res.rec EXCEPT !.tailPos = @ - res.s.d,
                                        !.squashed = @ /\ res.s.negative],
            !.changed = @ \/ crossed \/ d0 > 0 \/ res.s.d > 0 \/ res.s.merged]

BehindFront(front, l, c) ==
  IF front.ended THEN front.w
  ELSE RunsBehind(front.w, l, front.crossed, Walked(front.w.line[l], front.d0, c), front.d0)

AdvanceLine(w, l, cutLeader) ==
  LET rec == w.line[l]
      c == [fresh |-> rec.freshRuns, cap |-> rec.cap]
      opened == [w EXCEPT !.line[l] = [rec EXCEPT !.advanced = TRUE, !.freshRuns = 0,
                                                  !.cap = NoCap, !.fork = @ \ {"ahead"}]]
  IN IF rec.runs = << >> THEN opened
     ELSE BehindFront(FrontItems(opened, l, FrontLeader(w, rec.out, cutLeader), c, FALSE), l, c)

-----------------------------------------------------------------------------
(* The cut of a cycle: the target as it will be once it has advanced.      *)

DryLeader(rec, leader) ==
  LET pos == rec.runs[1].gap
      p == IF pos < leader + Spacing THEN pos
           ELSE Larger(pos - rec.speed, leader + Spacing)
      d == FoldLeft(LAMBDA x, r : IF x = rec.speed /\ ~rec.squashed THEN x
                                  ELSE Within(r.gap + x, 0, rec.speed),
                    pos - p, Tail(rec.runs))
  IN IF rec.runs = << >> \/ rec.tailPos - d < 0 THEN None ELSE rec.tailPos - d - rec.len

RECURSIVE DryPasses(_, _, _, _)
DryPasses(w, cycle, lead, passes) ==
  LET next == FoldLeft(LAMBDA ld, l : DryLeader(w.line[l], ld), lead, cycle)
  IN IF next = lead THEN [found |-> TRUE, lead |-> lead]
     ELSE IF passes = 1 THEN [found |-> FALSE]
     ELSE DryPasses(w, cycle, next, passes - 1)

RECURSIVE CycleLength(_, _, _, _)
\* The lines from x along plain hand-offs to l, l counted; 0 if they do not
\* lead there.
CycleLength(w, x, l, n) ==
  IF x = l THEN n
  ELSE IF w.line[x].out.kind # "next" \/ n > Cardinality(DOMAIN w.line) THEN 0
  ELSE CycleLength(w, w.line[x].out.to, l, n + 1)

CutLeader(w, ord, i) ==
  LET l == ord[i]
      out == w.line[l].out
      n == CycleLength(w, out.to, l, 1)
      contiguous == /\ n > 0 /\ i + n - 1 <= Len(ord)
                    /\ \A j \in i + 1 .. i + n - 1 : Links(w.line[ord[j]].out) = <<ord[j - 1]>>
  IN IF out.kind # "next" THEN [found |-> FALSE]
     ELSE IF w.line[out.to].advanced \/ w.line[out.to].count = 0 \/ ~contiguous
     THEN [found |-> FALSE]
     ELSE DryPasses(w, SubSeq(ord, i, i + n - 1), None, CutPasses)

-----------------------------------------------------------------------------
(* advance: schedules first, then every line in the update order.          *)

ScheduleStep(w, l) ==
  LET rec == w.line[l]
      outcome == CASE ~Due(rec.sched) -> "idle"
                   [] Due(rec.sched) /\ w.items >= MaxItems -> "full"
                   [] Due(rec.sched) /\ w.items < MaxItems /\ BackPos(rec) > rec.len - 1 -> "noRoom"
                   [] OTHER -> "ok"
      stepped == Stepped(rec.sched, outcome)
      landed == LandedBack(rec, rec.sched.next, BackPos(rec), FALSE, 0)
  IN IF outcome = "ok"
     THEN [w EXCEPT !.line[l] = [landed EXCEPT !.sched = stepped],
                    !.items = @ + 1, !.spawned = @ + 1, !.changed = TRUE]
     ELSE [w EXCEPT !.line[l].sched = stepped, !.changed = @ \/ stepped # rec.sched]

Scheduled(ls) == SetToSortSeq({l \in DOMAIN ls : ls[l].sched # NoSched}, <)

Rested(w) == [w EXCEPT !.line = [l \in DOMAIN @ |-> [@[l] EXCEPT !.advanced = FALSE]]]

Advanced(ls, total, ord) ==
  LET w == [line |-> ls, items |-> total, changed |-> FALSE, spawned |-> 0]
  IN Rested(FoldLeft(LAMBDA v, i : AdvanceLine(v, ord[i], CutLeader(v, ord, i)),
                     FoldLeft(ScheduleStep, w, Scheduled(ls)), [i \in DOMAIN ord |-> i]))

FreshOrder == IF graphDirty THEN UpdateOrder(lines) ELSE order

Advance ==
  /\ UNCHANGED <<nextId, calls>>
  /\ \E ord \in {FreshOrder} : \E w \in {Advanced(lines, items, ord)} :
       /\ lines' = w.line
       /\ items' = w.items
       /\ order' = ord
       /\ graphDirty' = FALSE
       /\ given' = (given + w.spawned) % Wrap

-----------------------------------------------------------------------------
(* The calls of the game's tick rule.                                      *)

Calls(kind, bound) == calls[kind] < bound /\ calls' = [calls EXCEPT ![kind] = @ + 1]

InsertBack(l, item) ==
  /\ Calls("put", MaxPuts)
  /\ lines[l].sched = NoSched /\ items < MaxItems /\ BackPos(lines[l]) < lines[l].len
  /\ lines' = [lines EXCEPT ![l] = LandedBack(@, item, BackPos(@), FALSE, 0)]
  /\ items' = items + 1 /\ given' = (given + 1) % Wrap
  /\ UNCHANGED <<nextId, order, graphDirty>>

InsertAtPos(l, pos, item) ==
  /\ Calls("put", MaxPuts)
  /\ items < MaxItems /\ pos < lines[l].len /\ RoomAt(lines[l], pos)
  /\ lines' = [lines EXCEPT ![l] = InsertedAt(@, pos, item)]
  /\ items' = items + 1 /\ given' = (given + 1) % Wrap
  /\ UNCHANGED <<nextId, order, graphDirty>>

Taken(l, pos) ==
  /\ Calls("edit", MaxEdits)
  /\ lines' = [lines EXCEPT ![l] = RemovedAt(@, pos)]
  /\ items' = items - 1 /\ given' = (given - 1) % Wrap
  /\ UNCHANGED <<nextId, order, graphDirty>>

RemoveAtPos(l, pos) == NearRuns(lines[l], pos) # {} /\ Taken(l, pos)
TakeFront(l) == lines[l].runs # << >> /\ Taken(l, lines[l].runs[1].gap)

Unjammed(line, ls) == [l \in DOMAIN line |-> IF ls[l].out = line[l].out THEN line[l]
                                             ELSE [line[l] EXCEPT !.jam = 0]]

SetOut(l, out) ==
  /\ Calls("edit", MaxEdits)
  /\ OutputAllowed(lines, l, out)
  /\ lines' = [WithOutput(lines, l, out) EXCEPT ![l].jam = 0]
  /\ graphDirty' = TRUE
  /\ UNCHANGED <<nextId, items, order, given>>

SetSpeed(l, speed) ==
  /\ Calls("edit", MaxEdits)
  /\ SpeedAllowed(lines, l, speed)
  /\ lines' = [lines EXCEPT ![l].speed = speed]
  /\ UNCHANGED <<nextId, items, order, graphDirty, given>>

SetSpawner(l, sched) ==
  /\ Calls("edit", MaxEdits)
  /\ lines' = [lines EXCEPT ![l].sched = sched]
  /\ UNCHANGED <<nextId, items, order, graphDirty, given>>

Create(len, speed) ==
  /\ Calls("edit", MaxEdits)
  /\ Cardinality(DOMAIN lines) < MaxLines /\ speed \in 1 .. len - 1
  /\ lines' = lines @@ (nextId :> NewLine(len, speed))
  /\ nextId' = nextId + 1 /\ graphDirty' = TRUE
  /\ UNCHANGED <<items, order, given>>

-----------------------------------------------------------------------------
(* Line surgery.                                                           *)

\* Redirects reset the cursor of each line whose output they change.
Redirects(ls, from, to) == Unjammed(RedirectFeeders(ls, from, to), ls)
MergePoints(ls, l, at2(_), fell(_)) == Unjammed(MoveMergePoints(ls, l, at2, fell), ls)
Keeps(at) == FALSE

Destroy(l) ==
  /\ Calls("edit", MaxEdits)
  /\ lines' = Redirects(Restrict(lines, DOMAIN lines \ {l}), l, Gone)
  /\ items' = items - lines[l].count
  /\ given' = (given - lines[l].count - lines[l].sunk) % Wrap
  /\ graphDirty' = TRUE
  /\ UNCHANGED <<nextId, order>>

\* Mutant: joined lines are not searched for a squashed pair.
RefilledUnsearched(rec, runs, tailPos) ==
  [rec EXCEPT !.runs = runs, !.count = CountOf(runs), !.tailPos = tailPos, !.jam = 0]

Refilled(rec, runs, tailPos) ==
  [rec EXCEPT !.runs = runs, !.count = CountOf(runs), !.tailPos = tailPos,
              !.squashed = HasNegativeGap(runs), !.jam = 0]

\* A line cut at position at behind the item keep - 1 of run i, whose first
\* is at f: its front and its back part.
CutBehind(rec, at, i, f, keep) ==
  LET runs == rec.runs
      firstBack == f + Spacing * keep
      kept == IF keep = 0 THEN << >> ELSE <<[runs[i] EXCEPT !.count = keep]>>
      tailPos == IF keep > 0 THEN firstBack - Spacing
                 ELSE IF i > 1 THEN LastAt(runs, i - 1) ELSE rec.tailPos
  IN <<Refilled(rec, SubSeq(runs, 1, i - 1) \o kept, tailPos),
       Refilled(NewLine(rec.len - at, rec.speed),
                <<Run(runs[i].item, runs[i].count - keep, firstBack - at)>>
                \o SubSeq(runs, i + 1, Len(runs)), rec.tailPos - at)>>

\* The parts of a line cut at position at.
CutAt(rec, at, i, f) ==
  CutBehind(rec, at, i, f, IF f >= at THEN 0 ELSE (at - f + Spacing - 1) \div Spacing)
Cut(rec, at) ==
  IF rec.count = 0 \/ rec.tailPos < at
  THEN <<[rec EXCEPT !.jam = 0], NewLine(rec.len - at, rec.speed)>>
  ELSE LET i == Min({n \in DOMAIN rec.runs : LastAt(rec.runs, n) >= at})
       IN CutAt(rec, at, i, Firsts(rec.runs)[i])

Parted(l, at, halves) ==
  [lines EXCEPT ![l] = [halves[1] EXCEPT !.len = at, !.sched = NoSched]]
  @@ (nextId :> [halves[2] EXCEPT !.sched = lines[l].sched])

Split(l, at) ==
  /\ Calls("edit", MaxEdits)
  /\ at > lines[l].speed /\ LenOk(lines, l, lines[l].len - at)
  /\ Cardinality(DOMAIN lines) < MaxLines
  /\ lines' = [Redirects(Parted(l, at, Cut(lines[l], at)), l, SplitOff(nextId, at))
                  EXCEPT ![nextId].out = NextTo(l)]
  /\ nextId' = nextId + 1 /\ graphDirty' = TRUE
  /\ UNCHANGED <<items, order, given>>

\* Two lines' runs, one behind the other; a packed pair of one kind merges.
JoinedRuns(f, b) ==
  LET first == b.runs[1].gap + f.len
      gap == IF f.runs = << >> THEN first ELSE first - f.tailPos - Spacing
      t == Len(f.runs)
  IN IF b.runs = << >> THEN f.runs
     ELSE IF f.runs # << >> /\ gap = 0 /\ Joinable(f.runs[t], b.runs[1])
     THEN [f.runs EXCEPT ![t].count = @ + b.runs[1].count] \o Tail(b.runs)
     ELSE f.runs \o [b.runs EXCEPT ![1].gap = gap]

Join(f, b) ==
  LET runs == JoinedRuns(lines[f], lines[b])
      tail == IF lines[b].runs = << >> THEN lines[f].tailPos ELSE lines[b].tailPos + lines[f].len
      joined == [Refilled(lines[f], runs, tail) EXCEPT !.len = @ + lines[b].len,
                                                       !.sched = lines[b].sched]
      rest == Restrict([lines EXCEPT ![f] = joined], DOMAIN lines \ {b})
  IN /\ Calls("edit", MaxEdits)
     /\ lines[b].out = NextTo(f) /\ b \notin ToSet(Links(lines[f].out))
     /\ lines[f].sched = NoSched /\ lines[f].len + lines[b].len <= MaxLen
     /\ lines' = Redirects(rest, b, JoinedTo(f, lines[f].len))
     /\ given' = (given - lines[b].sunk) % Wrap
     /\ graphDirty' = TRUE
     /\ UNCHANGED <<nextId, items, order>>

\* Positions from the front: only the front run's gap moves.
Shifted(rec, by) ==
  IF rec.runs = << >> THEN rec
  ELSE [rec EXCEPT !.runs[1].gap = @ + by, !.tailPos = @ + by]
Lengthened(rec, by) == [rec EXCEPT !.len = @ + by, !.jam = 0]

ExtendFront(l, by) ==
  /\ Calls("edit", MaxEdits)
  /\ lines[l].len + by <= MaxLen
  /\ lines' = MergePoints([lines EXCEPT ![l] = Lengthened(Shifted(@, by), by)], l,
                          LAMBDA at : at + by, Keeps)
  /\ UNCHANGED <<nextId, items, order, graphDirty, given>>

ExtendBack(l, by) ==
  /\ Calls("edit", MaxEdits)
  /\ lines[l].len + by <= MaxLen
  /\ lines' = [lines EXCEPT ![l] = Lengthened(@, by)]
  /\ UNCHANGED <<nextId, items, order, graphDirty, given>>

FellOff(ls, l, by) == \E s \in DOMAIN ls : ls[s].out.kind = "merge" /\ ls[s].out.to = l /\ ls[s].out.at < by

ShrinkFront(l, by) ==
  /\ Calls("edit", MaxEdits)
  /\ LenOk(lines, l, lines[l].len - by)
  /\ lines[l].runs # << >> => lines[l].runs[1].gap >= by
  /\ lines' = MergePoints([lines EXCEPT ![l] = Lengthened(Shifted(@, -by), -by)], l,
                          LAMBDA at : at - by, LAMBDA at : at < by)
  /\ graphDirty' = (graphDirty \/ FellOff(lines, l, by))
  /\ UNCHANGED <<nextId, items, order, given>>

ShrinkBack(l, by) ==
  /\ Calls("edit", MaxEdits)
  /\ LenOk(lines, l, lines[l].len - by)
  /\ lines[l].runs # << >> => lines[l].tailPos <= lines[l].len - by - 1
  /\ lines' = [lines EXCEPT ![l] = Lengthened(@, -by)]
  /\ UNCHANGED <<nextId, items, order, graphDirty, given>>

\* Mutant: no gap is ever told from a packed pair.
AppendedPacked(rec, it) ==
  LET b == Len(rec.runs)
      placed == IF rec.runs = << >> THEN [rec EXCEPT !.runs = <<Run(it.item, 1, it.pos)>>]
                ELSE IF Joinable(rec.runs[b], Run(it.item, 1, 0))
                THEN [rec EXCEPT !.runs[b].count = @ + 1]
                ELSE [rec EXCEPT !.runs = Append(@, Run(it.item, 1, 0))]
  IN [placed EXCEPT !.count = @ + 1, !.tailPos = it.pos]

\* append_item, for each item at its scaled position.
Appended(rec, it) ==
  LET gap == it.pos - rec.tailPos - Spacing
      b == Len(rec.runs)
      placed == IF rec.runs = << >> THEN [rec EXCEPT !.runs = <<Run(it.item, 1, it.pos)>>]
                ELSE IF gap = 0 /\ Joinable(rec.runs[b], Run(it.item, 1, 0))
                THEN [rec EXCEPT !.runs[b].count = @ + 1]
                ELSE [rec EXCEPT !.runs = Append(@, Run(it.item, 1, gap)),
                                 !.squashed = @ \/ gap < 0]
  IN [placed EXCEPT !.count = @ + 1, !.tailPos = it.pos]

Rescale(l, len) ==
  LET rec == lines[l]
      Scaled(pos) == (pos * len) \div rec.len
      old == ItemsIn(rec.runs)
      scaled == [i \in DOMAIN old |-> [old[i] EXCEPT !.pos = Scaled(@)]]
      emptied == [rec EXCEPT !.runs = << >>, !.count = 0, !.squashed = FALSE, !.jam = 0, !.len = len]
  IN /\ Calls("edit", MaxEdits)
     /\ LenOk(lines, l, len)
     /\ \A i \in 2 .. Len(scaled) : scaled[i].pos > scaled[i - 1].pos
     /\ lines' = MergePoints([lines EXCEPT ![l] = FoldLeft(Appended, emptied, scaled)], l,
                             Scaled, Keeps)
     /\ UNCHANGED <<nextId, items, order, graphDirty, given>>

-----------------------------------------------------------------------------
(* The canonical bytes: a later run is written by its distance from the    *)
(* item ahead.                                                             *)

Dist(runs, i) == IF i = 1 THEN runs[1].gap ELSE runs[i].gap + Spacing

Written(rec) ==
  [len |-> rec.len, speed |-> rec.speed, out |-> rec.out,
   fork |-> rec.fork \cap {"toggle", "yield"}, sunk |-> rec.sunk, jam |-> rec.jam,
   sched |-> rec.sched,
   runs |-> [i \in DOMAIN rec.runs |-> [item |-> rec.runs[i].item, count |-> rec.runs[i].count,
                                        dist |-> Dist(rec.runs, i)]]]
WriteCanonical(ls) == [l \in DOMAIN ls |-> Written(ls[l])]

\* Mutant: decode forgets that a line holds a squashed pair, and its cursor.
ReadLineBare(rec) ==
  LET runs == [i \in DOMAIN rec.runs |->
                 Run(rec.runs[i].item, rec.runs[i].count,
                     IF i = 1 THEN rec.runs[1].dist ELSE rec.runs[i].dist - Spacing)]
  IN [NewLine(rec.len, rec.speed) EXCEPT
        !.out = rec.out, !.fork = rec.fork, !.sunk = rec.sunk, !.sched = rec.sched,
        !.runs = runs, !.count = CountOf(runs),
        !.tailPos = IF runs = << >> THEN 0 ELSE LastAt(runs, Len(runs))]

ReadLine(rec) ==
  LET runs == [i \in DOMAIN rec.runs |->
                 Run(rec.runs[i].item, rec.runs[i].count,
                     IF i = 1 THEN rec.runs[1].dist ELSE rec.runs[i].dist - Spacing)]
  IN [NewLine(rec.len, rec.speed) EXCEPT
        !.out = rec.out, !.fork = rec.fork, !.sunk = rec.sunk, !.sched = rec.sched,
        !.runs = runs, !.count = CountOf(runs), !.jam = rec.jam,
        !.tailPos = IF runs = << >> THEN 0 ELSE LastAt(runs, Len(runs)),
        !.squashed = HasNegativeGap(runs)]
ReadCanonical(bytes) == [l \in DOMAIN bytes |-> ReadLine(bytes[l])]

\* What decode accepts of one line.
LineDecodes(bytes, l) ==
  LET rec == bytes[l]
      runs == ReadLine(rec).runs
      p == PartnerOf(rec.out)
  IN /\ rec.speed \in 1 .. rec.len - 1
     /\ \A i \in DOMAIN runs : runs[i].count > 0 /\ LastAt(runs, i) <= rec.len - 1
     /\ \A i \in 2 .. Len(runs) : rec.runs[i].dist > 0
     /\ rec.jam # 0 => /\ runs # << >> /\ rec.jam \in 2 .. Len(runs) + 1
                       /\ \A i \in 2 .. rec.jam - 1 : runs[i].gap = 0
     /\ \A t \in ToSet(Links(rec.out)) : t \in DOMAIN bytes \ {l}
     /\ \A t \in BoundTargets(rec.out) : bytes[t].len >= rec.speed
     /\ rec.out.kind = "fork" => rec.out.a # rec.out.b
     /\ p # 0 => /\ p \in DOMAIN bytes \ {l}
                 /\ bytes[p].out = [rec.out EXCEPT !.partner = l]
                 /\ "yield" \notin rec.fork \cap bytes[p].fork
                 /\ "toggle" \in rec.fork <=> "toggle" \in bytes[p].fork

\* The world is saved and loaded again.
Restore ==
  /\ lines' = ReadCanonical(WriteCanonical(lines))
  /\ items' = TotalOf(lines)
  /\ order' = << >> /\ graphDirty' = TRUE
  /\ UNCHANGED <<nextId, given, calls>>

-----------------------------------------------------------------------------
(* Where a run starts: a few lines, and which calls the game makes.        *)

Line(len, speed, out) == [NewLine(len, speed) EXCEPT !.out = out]
Spawning(rec, kind) == [rec EXCEPT !.sched = [NoSched EXCEPT !.period = Credit, !.next = kind]]
Spawner == [NoSched EXCEPT !.period = Credit + 1, !.kinds = Cardinality(Kinds), !.next = 1]

Layout(name) ==
  CASE name = "loop" -> <<Line(4, 2, NextTo(2)), Line(3, 2, NextTo(1))>>
    [] name = "uneven" -> <<Line(4, 3, NextTo(2)), Line(3, 1, NextTo(1))>>
    [] name = "sideLoop" -> <<Line(4, 2, NextTo(2)), Line(3, 2, NextTo(1)), Line(3, 2, MergeTo(1, 3))>>
    [] name = "mergeLoop" -> <<Line(4, 2, MergeTo(2, 2)), Line(5, 3, NextTo(1))>>
    [] name = "forkLoop" -> <<Line(4, 2, ForkTo(2, 3, 0)), Line(3, 1, NextTo(1)), Line(2, 1, DeadEnd)>>
    [] name = "pair" -> <<Spawning(Line(3, 2, ForkTo(3, 4, 2)), 1),
                          Spawning(Line(3, 2, ForkTo(3, 4, 1)), 2),
                          Line(4, 2, Sink), Line(2, 1, DeadEnd)>>
    [] name = "slowPair" -> <<Spawning(Line(3, 2, ForkTo(3, 4, 2)), 1),
                              Spawning(Line(2, 1, ForkTo(3, 4, 1)), 2),
                              Line(3, 1, Sink), Line(2, 1, DeadEnd)>>
    [] name = "chain" -> <<Line(4, 2, Sink), Line(3, 1, NextTo(1)), Line(2, 1, MergeTo(1, 2))>>

ItemCall(l) ==
  \/ \E kind \in Kinds : \/ InsertBack(l, kind)
                        \/ \E pos \in 0 .. lines[l].len - 1 : InsertAtPos(l, pos, kind)
  \/ TakeFront(l)
  \/ \E pos \in 0 .. lines[l].len - 1 : RemoveAtPos(l, pos)

Resize(l) ==
  \E n \in 1 .. MaxLen : \/ ExtendFront(l, n) \/ ExtendBack(l, n)
                        \/ ShrinkFront(l, n) \/ ShrinkBack(l, n) \/ Rescale(l, n)

Outputs ==
  {DeadEnd, Sink} \cup {NextTo(t) : t \in DOMAIN lines}
  \cup {MergeTo(t, at) : t \in DOMAIN lines, at \in {0, 2}}
  \cup {ForkTo(a, b, p) : a \in DOMAIN lines, b \in DOMAIN lines, p \in DOMAIN lines \cup {0}}

LineCall(l) ==
  \/ \E out \in Outputs : SetOut(l, out)
  \/ \E n \in 1 .. MaxLen : SetSpeed(l, n) \/ Split(l, n)
  \/ SetSpawner(l, NoSched) \/ SetSpawner(l, Spawner)
  \/ Destroy(l)
  \/ \E b \in DOMAIN lines : Join(l, b)

\* A spawner counts as one of the puts.
Init ==
  /\ \E name \in Layouts : lines = Layout(name)
  /\ nextId = Cardinality(DOMAIN lines) + 1
  /\ items = 0 /\ order = << >> /\ graphDirty = TRUE /\ given = 0
  /\ calls = [put |-> Len(Scheduled(lines)), edit |-> 0]

Next ==
  \/ Advance
  \/ \E l \in DOMAIN lines : ItemCall(l) \/ Resize(l) \/ LineCall(l)
  \/ Create(MaxLen, 1)
  \/ Restore

Spec == Init /\ [][Next]_vars

-----------------------------------------------------------------------------
(* Properties.                                                             *)

AsBelt(rec) ==
  [len |-> rec.len, speed |-> rec.speed, out |-> rec.out,
   fork |-> rec.fork \cap {"toggle", "yield"}, sunk |-> rec.sunk, sched |-> rec.sched,
   items |-> [i \in DOMAIN ItemsIn(rec.runs) |->
                [kind |-> ItemsIn(rec.runs)[i].item, pos |-> ItemsIn(rec.runs)[i].pos,
                 fresh |-> FALSE]]]

\* (@@ << >> adds nothing; it makes TLC evaluate the function before EXCEPT.)
Belts == INSTANCE Belt WITH line <- [l \in DOMAIN lines |-> AsBelt(lines[l])] @@ << >>,
                            Scheds <- {NoSched, Spawner}

\* Walking only the runs whose gaps change, from the jam cursor or up to the
\* first run at full speed, moves every item as advance.rs's rule moves it
\* one by one; each call of the game does to the runs what it does to the
\* items; a save and load does nothing at all.
ImplementsBelt == Belts!Spec

\* No item is lost, made or counted twice: what was given to the lines is on
\* them or in their sinks.
SunkOf(ls) == FoldFunctionOnSet(+, 0, [l \in DOMAIN ls |-> ls[l].sunk], DOMAIN ls)
ItemsConserved == (items + SunkOf(lines)) % Wrap = given

\* What is cached of a line (advance.rs, check_line): its count and tail are
\* those of its runs, no landing across a cut is left unwalked, and a squashed
\* pair is flagged (the early exit would pass an unflagged one over).
CachesTrue(rec) ==
  /\ rec.count = CountOf(rec.runs) /\ rec.freshRuns = 0 /\ rec.cap = NoCap
  /\ rec.runs # << >> => rec.tailPos = LastAt(rec.runs, Len(rec.runs))
  /\ HasNegativeGap(rec.runs) => rec.squashed

StoreSound ==
  /\ items = TotalOf(lines) /\ ItemsConserved
  /\ \A l \in DOMAIN lines : CachesTrue(lines[l])

\* Every world the game can reach decodes again (decode refuses it otherwise
\* and the snapshot is lost).
AlwaysDecodes == \A l \in DOMAIN lines : LineDecodes(WriteCanonical(lines), l)

\* A world that was saved and loaded ticks to the same bytes as the one that
\* was not (the reason the jam cursor is written, codec.rs).
Ticked(ls) == WriteCanonical(Advanced(ls, TotalOf(ls), UpdateOrder(ls)).line)
RestoredTicksAlike == Ticked(ReadCanonical(WriteCanonical(lines))) = Ticked(lines)

\* A tick that moved, landed, took or spawned an item, or stepped a schedule,
\* says so: advance's result is all that makes a world where only belts move
\* dirty, and a world that is not dirty is not snapshotted (authority.rs).
\* (A tick may set a jam cursor, which is a cache, and say nothing.)
ChangedIsTrue ==
  \A w \in {Advanced(lines, items, FreshOrder)} :
    (\E l \in DOMAIN lines : AsBelt(w.line[l]) # AsBelt(lines[l])) => w.changed

\* Two fork inputs that name each other take turns: while both hold items and
\* their fork drains, Patience ticks do not pass without an item of each
\* coming out of it, whatever the speeds and the update order (advance.rs, the
\* input turn; the two lines of a pair here carry one kind each).
InTicks(n) ==
  LET f[k \in 0 .. n] == IF k = 0 THEN lines ELSE Advanced(f[k - 1], TotalOf(f[k - 1]), FreshOrder).line
  IN f
Drains(l) == /\ PartnerOf(lines[l].out) # 0 /\ lines[l].sched # NoSched
             /\ lines[lines[l].out.a].out = Sink
CameOut(l, ls) == \E i \in DOMAIN ls[lines[l].out.a].runs :
                    ls[lines[l].out.a].runs[i].item = lines[l].sched.next
PairServed ==
  \A l \in {x \in DOMAIN lines : Drains(x)} :
    \E f \in {InTicks(Patience)} : \E k \in 1 .. Patience : CameOut(l, f[k])
==============================================================================
