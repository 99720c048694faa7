------------------------------ MODULE LineGraph ------------------------------
(***************************************************************************)
(* What the transport lines of crates/engine/src/transport feed, and in    *)
(* which order they advance: outputs (mod.rs), the update order            *)
(* (order.rs), the redirects of line surgery (surgery.rs) and a line's     *)
(* spawner schedule (forecast.rs).  A line is any record with the fields   *)
(* len, speed, out, fork, sunk and sched; a line id is a positive number,  *)
(* 0 is none.  Transport and Belt hold items on such lines, each in its    *)
(* own form.                                                               *)
(***************************************************************************)
EXTENDS Integers, Sequences, FiniteSets, SequencesExt, FiniteSetsExt

CONSTANTS
  Spacing,   \* SPACING: the least distance between two items of a line
  Credit     \* what a tick adds to a schedule's acc (256 in the code)

ASSUME SpacingIsEven == Spacing \in Nat /\ Spacing > 0 /\ Spacing % 2 = 0

-----------------------------------------------------------------------------
(* Outputs.  A fork's bits are a subset of {"toggle", "yield", "ahead"}.   *)

DeadEnd == [kind |-> "deadEnd"]
Sink == [kind |-> "sink"]
NextTo(t) == [kind |-> "next", to |-> t]
MergeTo(t, at) == [kind |-> "merge", to |-> t, at |-> at]
ForkTo(a, b, partner) == [kind |-> "fork", a |-> a, b |-> b, partner |-> partner]

\* The lines an output names, a fork's a before its b.
Links(out) == CASE out.kind \in {"next", "merge"} -> <<out.to>>
                [] out.kind = "fork" -> <<out.a, out.b>>
                [] OTHER -> << >>

\* The targets that have to be as long as the feeder's step.
BoundTargets(out) == CASE out.kind = "next" -> {out.to}
                       [] out.kind = "fork" -> {out.a, out.b}
                       [] OTHER -> {}

PartnerOf(out) == IF out.kind = "fork" THEN out.partner ELSE 0

FeedersFit(line, l, len) ==
  \A s \in DOMAIN line : l \in BoundTargets(line[s].out) => line[s].speed <= len

LenOk(line, l, len) == line[l].speed < len /\ FeedersFit(line, l, len)

-----------------------------------------------------------------------------
(* The update order: strongly connected components, those fed first; a     *)
(* cycle from its lowest id, then against its links.                       *)

RECURSIVE Visit(_, _, _)
\* The lines reached from v among s.todo, each appended once it is done with.
Visit(line, v, s) ==
  LET below == FoldLeft(LAMBDA t, x : IF x \in t.todo THEN Visit(line, x, t) ELSE t,
                        [s EXCEPT !.todo = @ \ {v}], Links(line[v].out))
  IN [below EXCEPT !.done = Append(@, v)]

Reach(line, v) == DOMAIN line \ Visit(line, v, [todo |-> DOMAIN line, done |-> << >>]).todo
Component(line, v) == {x \in Reach(line, v) : v \in Reach(line, x)}

EmitComponent(line, C) ==
  LET lowest == Min(C)
  IN <<lowest>> \o Front(Visit(line, lowest, [todo |-> C, done |-> << >>]).done)

UpdateOrder(line) ==
  LET post == FoldLeft(LAMBDA s, v : IF v \in s.todo THEN Visit(line, v, s) ELSE s,
                       [todo |-> DOMAIN line, done |-> << >>],
                       SetToSortSeq(DOMAIN line, <)).done
      IsRoot(i) == \A j \in i + 1 .. Len(post) : post[j] \notin Component(line, post[i])
  IN FlattenSeq([i \in DOMAIN post |->
                   IF IsRoot(i) THEN EmitComponent(line, Component(line, post[i]))
                   ELSE << >>])

-----------------------------------------------------------------------------
(* Redirects: what an output that names the line becomes.                  *)

Gone == [kind |-> "gone"]
SplitOff(back, at) == [kind |-> "split", id |-> back, at |-> at]
JoinedTo(front, offset) == [kind |-> "join", id |-> front, offset |-> offset]

RetargetFork(out, from, to) ==
  LET other == IF out.a = from THEN out.b ELSE out.a
  IN IF to = Gone \/ to.id = other THEN NextTo(other)
     ELSE IF out.a = from THEN [out EXCEPT !.a = to.id]
     ELSE [out EXCEPT !.b = to.id]

Retarget(out, from, to) ==
  CASE out.kind = "next" /\ out.to = from ->
         IF to = Gone THEN DeadEnd ELSE NextTo(to.id)
    [] out.kind = "merge" /\ out.to = from ->
         (CASE to.kind = "gone" -> DeadEnd
            [] to.kind = "split" -> IF out.at >= to.at THEN MergeTo(to.id, out.at - to.at)
                                    ELSE out
            [] to.kind = "join" -> MergeTo(to.id, out.at + to.offset))
    [] out.kind = "fork" /\ from \in {out.a, out.b} -> RetargetFork(out, from, to)
    [] OTHER -> out

\* A partner that went away leaves a lone fork; a split one keeps its id.
WithoutPartner(out, from, to) ==
  IF to.kind # "split" /\ PartnerOf(out) = from THEN [out EXCEPT !.partner = 0] ELSE out

\* A line whose output changed under it: a lone fork owes no turn.
Redirected(rec, out) ==
  [rec EXCEPT !.out = out,
              !.fork = IF out.kind # "fork" THEN {}
                       ELSE IF out.partner = 0 THEN @ \cap {"toggle"} ELSE @]

RedirectFeeders(line, from, to) ==
  [s \in DOMAIN line |->
     LET out == WithoutPartner(Retarget(line[s].out, from, to), from, to)
     IN IF out = line[s].out THEN line[s] ELSE Redirected(line[s], out)]

\* Entry points of merges follow the positions of their target: fell(at) is
\* one that is no longer on it.
MoveMergePoints(line, target, at2(_), fell(_)) ==
  [s \in DOMAIN line |->
     LET out == line[s].out
     IN IF out.kind # "merge" \/ out.to # target THEN line[s]
        ELSE IF fell(out.at) THEN [line[s] EXCEPT !.out = DeadEnd]
        ELSE [line[s] EXCEPT !.out.at = at2(out.at)]]

-----------------------------------------------------------------------------
(* set_out.                                                                *)

OutputAllowed(line, l, out) ==
  /\ out # line[l].out
  /\ \A i \in DOMAIN Links(out) : Links(out)[i] \in DOMAIN line \ {l}
  /\ \A t \in BoundTargets(out) : line[t].len >= line[l].speed
  /\ out.kind = "fork" =>
       /\ out.a # out.b /\ out.partner # l
       /\ out.partner # 0 =>
            /\ out.partner \in DOMAIN line
            /\ LET p == line[out.partner].out
               IN p.kind = "fork" /\ p.a = out.a /\ p.b = out.b /\ p.partner \in {0, l}

Unpaired(line, p) ==
  IF p = 0 THEN line
  ELSE [line EXCEPT ![p].out.partner = 0, ![p].fork = @ \cap {"toggle"}]

\* Mutant: a replaced fork's partner goes on naming it.
WithOutputPaired(line, l, out) ==
  LET p == PartnerOf(out)
      linked == IF p = 0 THEN line
                ELSE [line EXCEPT ![p].out.partner = l, ![p].fork = @ \cap {"toggle"}]
  IN [linked EXCEPT ![l].out = out,
                    ![l].fork = IF p = 0 THEN {} ELSE linked[p].fork \cap {"toggle"}]

WithOutput(line, l, out) ==
  LET loose == Unpaired(line, PartnerOf(line[l].out))
      p == PartnerOf(out)
      linked == IF p = 0 THEN loose
                ELSE [loose EXCEPT ![p].out.partner = l, ![p].fork = @ \cap {"toggle"}]
  IN [linked EXCEPT ![l].out = out,
                    ![l].fork = IF p = 0 THEN {} ELSE linked[p].fork \cap {"toggle"}]

SpeedAllowed(line, l, speed) ==
  /\ speed \in 1 .. line[l].len - 1
  /\ \A t \in BoundTargets(line[l].out) : line[t].len >= speed

-----------------------------------------------------------------------------
(* A spawner's schedule.  A period of 0 stands for none.                   *)

NoSched == [period |-> 0, acc |-> 0, kinds |-> 0, next |-> 0, paused |-> FALSE]

NextKind(s) == IF s.kinds = 0 THEN s.next ELSE (s.next % s.kinds) + 1

Due(s) == s.acc + Credit >= s.period

\* The schedule after a step: "idle" when it was not due, else what its one
\* insert met.
Stepped(s, outcome) ==
  CASE outcome = "idle" -> [s EXCEPT !.acc = @ + Credit]
    [] outcome = "ok" -> [s EXCEPT !.acc = @ + Credit - s.period, !.next = NextKind(s),
                                   !.paused = FALSE]
    [] outcome = "noRoom" -> s
    [] outcome = "full" -> [s EXCEPT !.paused = TRUE]
==============================================================================
