-------------------------------- MODULE Belt --------------------------------
(***************************************************************************)
(* What transport lines promise the game (docs/decisions/0076, the module  *)
(* comment of transport/advance.rs): a line is its items, front to back,   *)
(* each with its position, and a tick moves them one by one.  Nothing is   *)
(* remembered of one tick in the next but positions, fork bits, counts and *)
(* schedules.  Transport shows that the run store implements this.         *)
(***************************************************************************)
EXTENDS LineGraph

CONSTANTS
  MaxLines,    \* max_lines
  MaxItems,    \* max_items
  CutPasses,   \* CUT_PASSES
  Wrap,        \* sunk counts modulo this (a u64 in the code)
  Kinds,       \* item kinds, positive numbers
  MaxLen,      \* MAX_LEN
  Scheds       \* bound: the schedules set_spawner is called with

VARIABLES
  line,     \* by line id
  nextId    \* the id the next line gets

beltVars == <<line, nextId>>

None == -1000
Larger(a, b) == IF a > b THEN a ELSE b
Smaller(a, b) == IF a < b THEN a ELSE b
Distance(a, b) == Larger(a - b, b - a)

Empty(rec) == rec.items = << >>
TailOf(rec) == Last(rec.items).pos
Total(ls) == FoldFunctionOnSet(+, 0, [l \in DOMAIN ls |-> Len(ls[l].items)], DOMAIN ls)
Resting(kind, pos) == [kind |-> kind, pos |-> pos, fresh |-> FALSE]

-----------------------------------------------------------------------------
(* A tick.  w.line are the lines, w.done those that have advanced, w.cap   *)
(* how far the items that landed on a line before it advanced may still    *)
(* move, and w.ahead the forks that delivered while they owed the turn.    *)

\* Where an item with that leader and limit comes to be.
Step(pos, lim, leader) ==
  IF pos < leader + Spacing THEN pos ELSE Larger(pos - lim, leader + Spacing)

\* An item that moved so far in this tick becomes the at-th of line t.
Landed(w, t, at, kind, pos, moved) ==
  LET early == t \notin w.done
      left == Larger(w.line[t].speed - moved, 0)
  IN [w EXCEPT !.line[t].items = InsertAt(@, at, [kind |-> kind, pos |-> pos, fresh |-> early]),
               !.cap = IF ~early THEN @
                       ELSE (t :> IF t \in DOMAIN @ /\ @[t] # left THEN 0 ELSE left) @@ @]

Behind(rec) == Len(rec.items) + 1
PlaceOf(rec, pos) == Cardinality({i \in DOMAIN rec.items : rec.items[i].pos < pos}) + 1

MergePos(rec, at, over) == Smaller(Larger(at - over, 0), rec.len - 1)
Clear(rec, pos) == \A i \in DOMAIN rec.items : Distance(rec.items[i].pos, pos) >= Spacing

HandOffPos(rec, over) ==
  IF Empty(rec) THEN rec.len - over ELSE Larger(rec.len - over, TailOf(rec) + Spacing)
HasRoom(rec, over) == HandOffPos(rec, over) < rec.len

\* The targets of line l's fork, the preferred one first.
Preference(rec) ==
  IF "toggle" \in rec.fork THEN <<rec.out.b, rec.out.a>> ELSE <<rec.out.a, rec.out.b>>

PartnerDue(rec) == ~Empty(rec) /\ ~rec.items[1].fresh /\ rec.items[1].pos < rec.speed

\* One of the targets would still take an item after this one.
LeavesRoom(w, l, over) ==
  LET rec == w.line[l]
      open == {i \in {1, 2} : HasRoom(w.line[Preference(rec)[i]], over)}
  IN IF open = {} THEN FALSE
     ELSE open = {1, 2} \/
          LET t == w.line[Preference(rec)[Min(open)]]
          IN HandOffPos(t, over) + Spacing < t.len

\* The turn two partners share, after l delivered.
TurnTaken(w, l, p, pending, onCredit) ==
  LET shared == w.line[l].fork \cap {"toggle"}
      v == CASE onCredit -> [w EXCEPT !.ahead = @ \cup {l}]
             [] ~onCredit /\ ~pending /\ p \in w.ahead -> [w EXCEPT !.ahead = @ \ {p}]
             [] OTHER -> [w EXCEPT !.line[l].fork = @ \cup {"yield"},
                                   !.line[p].fork = @ \ {"yield"}]
  IN [v EXCEPT !.line[p].fork = (@ \ {"toggle"}) \cup shared]

\* The world after line l tried to hand an item over at its fork, or w.
ForkCross(w, l, kind, over, moved) ==
  LET rec == w.line[l]
      p == rec.out.partner
      pending == p # 0 /\ p \notin w.done
      owes == pending /\ "yield" \in rec.fork /\ PartnerDue(w.line[p])
      onCredit == owes /\ LeavesRoom(w, l, over)
      open == {i \in {1, 2} : HasRoom(w.line[Preference(rec)[i]], over)}
      side == Min(open)
      t == Preference(rec)[side]
      pos == HandOffPos(w.line[t], over)
      v == Landed(w, t, Behind(w.line[t]), kind, pos, moved - (pos - (w.line[t].len - over)))
      u == IF side = 1 /\ "toggle" \in rec.fork THEN [v EXCEPT !.line[l].fork = @ \ {"toggle"}]
           ELSE IF side = 1 THEN [v EXCEPT !.line[l].fork = @ \cup {"toggle"}]
           ELSE v
  IN IF (owes /\ ~onCredit) \/ open = {} THEN w
     ELSE IF p = 0 THEN u ELSE TurnTaken(u, l, p, pending, onCredit)

\* One item of line l crosses its front, by over positions past it.
Cross(w, l, kind, over, moved) ==
  LET rec == w.line[l]
      out == rec.out
  IN CASE out.kind = "sink" -> [w EXCEPT !.line[l].sunk = (@ + 1) % Wrap]
       [] out.kind = "next" ->
            LET t == w.line[out.to]
            IN Landed(w, out.to, Behind(t), kind, t.len - over, moved)
       [] out.kind = "merge" ->
            LET t == w.line[out.to]
                pos == MergePos(t, out.at, over)
            IN IF Clear(t, pos) THEN Landed(w, out.to, PlaceOf(t, pos), kind, pos, moved) ELSE w
       [] out.kind = "fork" -> ForkCross(w, l, kind, over, moved)

RECURSIVE Walk(_, _, _, _)
\* The items left of line l, front to back; kept are those that stay on it.
Walk(w, l, todo, s) ==
  IF todo = << >> THEN [w EXCEPT !.line[l].items = s.kept]
  ELSE LET it == Head(todo)
           rec == w.line[l]
           p == Step(it.pos, IF it.fresh THEN w.cap[l] ELSE rec.speed, s.leader)
           q == IF it.fresh THEN Larger(p, 0) ELSE p
           crossed == IF q < 0 THEN Cross(w, l, it.kind, -q, it.pos - q) ELSE w
           stays == q >= 0 \/ (crossed = w /\ rec.out.kind \in {"merge", "fork"})
           rests == Larger(q, 0)
       IN IF stays
          THEN Walk(w, l, Tail(todo), [s EXCEPT !.kept = Append(@, Resting(it.kind, rests)),
                                                !.leader = rests])
          ELSE Walk(crossed, l, Tail(todo),
                    [s EXCEPT !.leader = IF rec.out.kind \in {"merge", "fork"} THEN None
                                         ELSE q])

\* What the front item of a line follows.
TargetLeader(rec) == IF Empty(rec) THEN None ELSE TailOf(rec) - rec.len

\* The leader a line's feeder would see once the line advanced.
DryLeader(rec, leader) ==
  LET ends == FoldLeft(LAMBDA lead, it : Step(it.pos, rec.speed, lead), leader, rec.items)
  IN IF Empty(rec) \/ ends < 0 THEN None ELSE ends - rec.len

RECURSIVE FixedLeader(_, _, _, _)
FixedLeader(w, cycle, lead, passes) ==
  LET next == FoldLeft(LAMBDA ld, l : DryLeader(w.line[l], ld), lead, cycle)
  IN IF next = lead THEN [found |-> TRUE, lead |-> lead]
     ELSE IF passes = 1 THEN [found |-> FALSE]
     ELSE FixedLeader(w, cycle, next, passes - 1)

\* The cycles of plain hand-offs are advanced from their first line, whose
\* target has not moved: order[i .. i + n - 1], if that is such a cycle.
CycleFrom(w, order, i) ==
  LET Closes(n) ==
        /\ \A j \in i .. i + n - 1 : w.line[order[j]].out.kind = "next"
        /\ \A j \in i + 1 .. i + n - 1 : w.line[order[j]].out.to = order[j - 1]
        /\ w.line[order[i]].out.to = order[i + n - 1]
      sizes == {n \in 2 .. Len(order) - i + 1 : Closes(n)}
  IN IF sizes = {} THEN << >> ELSE SubSeq(order, i, i + Min(sizes) - 1)

FrontLeader(w, order, i) ==
  LET out == w.line[order[i]].out
  IN CASE out.kind = "deadEnd" -> -Spacing
       [] out.kind = "next" ->
            LET t == w.line[out.to]
                cycle == CycleFrom(w, order, i)
                fixed == FixedLeader(w, cycle, None, CutPasses)
            IN IF out.to \in w.done \/ Empty(t) \/ cycle = << >> THEN TargetLeader(t)
               ELSE IF fixed.found THEN fixed.lead ELSE TargetLeader(t)
       [] OTHER -> None

AdvanceLine(w, order, i) ==
  LET l == order[i]
      s == [kept |-> << >>, leader |-> FrontLeader(w, order, i)]
  IN Walk([w EXCEPT !.done = @ \cup {l}, !.ahead = @ \ {l}],
          l, w.line[l].items, s)

BackPos(rec) ==
  IF Empty(rec) THEN rec.len - rec.speed
  ELSE Larger(rec.len - rec.speed, TailOf(rec) + Spacing)

ScheduleStep(ls, l) ==
  LET s == ls[l].sched
      outcome == CASE ~Due(s) -> "idle"
                   [] Due(s) /\ Total(ls) >= MaxItems -> "full"
                   [] Due(s) /\ Total(ls) < MaxItems /\ BackPos(ls[l]) >= ls[l].len -> "noRoom"
                   [] OTHER -> "ok"
      put == IF outcome = "ok" THEN <<Resting(s.next, BackPos(ls[l]))>> ELSE << >>
  IN [ls EXCEPT ![l].sched = Stepped(s, outcome), ![l].items = @ \o put]

Ticked(ls) ==
  LET spawning == SetToSortSeq({l \in DOMAIN ls : ls[l].sched # NoSched}, <)
      order == UpdateOrder(ls)
      w == [line |-> FoldLeft(ScheduleStep, ls, spawning), done |-> {}, ahead |-> {},
            cap |-> << >>]
  IN FoldLeft(LAMBDA v, i : AdvanceLine(v, order, i), w, [i \in DOMAIN order |-> i]).line

-----------------------------------------------------------------------------
(* The calls a game may make, all of them on the items alone.              *)

Tick == UNCHANGED nextId /\ line' = Ticked(line)

Put(l, kind, pos) ==
  line' = [line EXCEPT ![l].items = InsertAt(@, PlaceOf(line[l], pos), Resting(kind, pos))]

InsertBack(l, kind) ==
  /\ Total(line) < MaxItems /\ line[l].sched = NoSched /\ BackPos(line[l]) < line[l].len
  /\ Put(l, kind, BackPos(line[l]))
  /\ UNCHANGED nextId

InsertAtPos(l, pos, kind) ==
  /\ Total(line) < MaxItems /\ pos < line[l].len /\ Clear(line[l], pos)
  /\ Put(l, kind, pos)
  /\ UNCHANGED nextId

\* The nearest item within half a spacing, the front one of two as near.
RemoveAtPos(l, pos) ==
  LET items == line[l].items
      near == {i \in DOMAIN items : Distance(items[i].pos, pos) <= Spacing \div 2}
      nearest == {i \in near : \A j \in near :
                    Distance(items[i].pos, pos) <= Distance(items[j].pos, pos)}
  IN /\ near # {}
     /\ line' = [line EXCEPT ![l].items = RemoveAt(@, Min(nearest))]
     /\ UNCHANGED nextId

TakeFront(l) ==
  /\ ~Empty(line[l])
  /\ line' = [line EXCEPT ![l].items = Tail(@)]
  /\ UNCHANGED nextId

SetOut(l, out) ==
  OutputAllowed(line, l, out) /\ line' = WithOutput(line, l, out) /\ UNCHANGED nextId

SetSpeed(l, speed) ==
  SpeedAllowed(line, l, speed) /\ line' = [line EXCEPT ![l].speed = speed] /\ UNCHANGED nextId

SetSpawner(l, sched) ==
  line' = [line EXCEPT ![l].sched = sched] /\ UNCHANGED nextId

NewLine(len, speed) ==
  [len |-> len, speed |-> speed, out |-> DeadEnd, fork |-> {}, sunk |-> 0, sched |-> NoSched,
   items |-> << >>]

Create(len, speed) ==
  /\ Cardinality(DOMAIN line) < MaxLines /\ speed \in 1 .. len - 1
  /\ line' = line @@ (nextId :> NewLine(len, speed))
  /\ nextId' = nextId + 1

Destroy(l) ==
  /\ line' = RedirectFeeders(Restrict(line, DOMAIN line \ {l}), l, Gone)
  /\ UNCHANGED nextId

ShiftedBy(items, by) == [i \in DOMAIN items |-> [items[i] EXCEPT !.pos = @ + by]]

Split(l, at) ==
  LET rec == line[l]
      front == SelectSeq(rec.items, LAMBDA it : it.pos < at)
      back == ShiftedBy(SelectSeq(rec.items, LAMBDA it : it.pos >= at), -at)
      parts == [line EXCEPT ![l].len = at, ![l].items = front, ![l].sched = NoSched]
               @@ (nextId :> [NewLine(rec.len - at, rec.speed) EXCEPT
                                !.items = back, !.sched = rec.sched])
  IN /\ rec.speed < at /\ LenOk(line, l, rec.len - at) /\ Cardinality(DOMAIN line) < MaxLines
     /\ line' = [RedirectFeeders(parts, l, SplitOff(nextId, at)) EXCEPT ![nextId].out = NextTo(l)]
     /\ nextId' = nextId + 1

Join(f, b) ==
  LET joined == [line EXCEPT ![f].len = @ + line[b].len,
                             ![f].items = @ \o ShiftedBy(line[b].items, line[f].len),
                             ![f].sched = line[b].sched]
  IN /\ line[b].out = NextTo(f) /\ b \notin ToSet(Links(line[f].out)) /\ line[f].sched = NoSched
     /\ line[f].len + line[b].len <= MaxLen
     /\ line' = RedirectFeeders(Restrict(joined, DOMAIN line \ {b}), b, JoinedTo(f, line[f].len))
     /\ UNCHANGED nextId

Keeps(at) == FALSE

ExtendFront(l, by) ==
  /\ line[l].len + by <= MaxLen
  /\ line' = [MoveMergePoints(line, l, LAMBDA at : at + by, Keeps) EXCEPT
                ![l].len = @ + by, ![l].items = ShiftedBy(@, by)]
  /\ UNCHANGED nextId

ExtendBack(l, by) ==
  /\ line[l].len + by <= MaxLen
  /\ line' = [line EXCEPT ![l].len = @ + by]
  /\ UNCHANGED nextId

ShrinkFront(l, by) ==
  /\ LenOk(line, l, line[l].len - by)
  /\ ~Empty(line[l]) => line[l].items[1].pos >= by
  /\ line' = [MoveMergePoints(line, l, LAMBDA at : at - by, LAMBDA at : at < by) EXCEPT
                ![l].len = @ - by, ![l].items = ShiftedBy(@, -by)]
  /\ UNCHANGED nextId

ShrinkBack(l, by) ==
  /\ LenOk(line, l, line[l].len - by)
  /\ ~Empty(line[l]) => TailOf(line[l]) < line[l].len - by
  /\ line' = [line EXCEPT ![l].len = @ - by]
  /\ UNCHANGED nextId

Rescale(l, len) ==
  LET rec == line[l]
      Scaled(pos) == (pos * len) \div rec.len
      items == [i \in DOMAIN rec.items |-> [rec.items[i] EXCEPT !.pos = Scaled(@)]]
  IN /\ LenOk(line, l, len)
     /\ \A i \in 2 .. Len(items) : items[i].pos > items[i - 1].pos
     /\ line' = [MoveMergePoints(line, l, Scaled, Keeps) EXCEPT ![l].len = len, ![l].items = items]
     /\ UNCHANGED nextId

Outputs(ls) ==
  {DeadEnd, Sink} \cup {NextTo(t) : t \in DOMAIN ls}
  \cup {MergeTo(t, at) : t \in DOMAIN ls, at \in 0 .. MaxLen}
  \cup {ForkTo(a, b, p) : a \in DOMAIN ls, b \in DOMAIN ls, p \in DOMAIN ls \cup {0}}

ItemCall(l) ==
  \/ \E kind \in Kinds : InsertBack(l, kind) \/ \E pos \in 0 .. MaxLen : InsertAtPos(l, pos, kind)
  \/ TakeFront(l) \/ \E pos \in 0 .. MaxLen : RemoveAtPos(l, pos)

Resize(l) ==
  \E n \in 1 .. MaxLen : \/ ExtendFront(l, n) \/ ExtendBack(l, n)
                        \/ ShrinkFront(l, n) \/ ShrinkBack(l, n) \/ Rescale(l, n)

LineCall(l) ==
  \/ \E out \in Outputs(line) : SetOut(l, out)
  \/ \E n \in 1 .. MaxLen : SetSpeed(l, n) \/ Split(l, n)
  \/ \E sched \in Scheds : SetSpawner(l, sched)
  \/ Destroy(l) \/ \E b \in DOMAIN line : Join(l, b)

\* The lines of a world that is yet to tick.
Fresh(ls) == \A l \in DOMAIN ls : ls[l].items = << >> /\ ls[l].sunk = 0

Init == Fresh(line)

Next ==
  \/ Tick
  \/ \E l \in DOMAIN line : ItemCall(l) \/ Resize(l) \/ LineCall(l)
  \/ \E len, speed \in 1 .. MaxLen : Create(len, speed)

Spec == Init /\ [][Next]_beltVars
==============================================================================
