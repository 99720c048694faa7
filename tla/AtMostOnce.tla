----------------------------- MODULE AtMostOnce -----------------------------
(***************************************************************************)
(* What an engine promises of the actions of a player (ADR 0004): each one  *)
(* runs at most once, in the order of the numbers it was given, and one     *)
(* that has run is undone only by a crash, which takes the newest first.    *)
(***************************************************************************)
EXTENDS Integers

CONSTANT Action   \* records with a field seq

VARIABLES
  sent,   \* the actions dispatched
  ran     \* pairs << place, action >>: the history of the world

Init == sent = {} /\ ran = {}

Submit == \E a \in Action : sent' = sent \union {a} /\ UNCHANGED ran

(* A tick runs actions: after all that ran, in the order of seq. *)
Run ==
  /\ UNCHANGED sent
  /\ ran \subseteq ran'
  /\ ran' \ ran \subseteq Nat \X sent
  /\ \A new \in ran' \ ran, old \in ran :
       old[1] < new[1] /\ old[2].seq < new[2].seq
  /\ \A d, e \in ran' \ ran : d[1] < e[1] => d[2].seq < e[2].seq

(* A crash: what is kept comes before what is lost. *)
Undo ==
  /\ UNCHANGED sent
  /\ ran' \subseteq ran
  /\ \A kept \in ran', lost \in ran \ ran' : kept[1] < lost[1]

Next == Submit \/ Run \/ Undo

Spec == Init /\ [][Next]_<< sent, ran >>
=============================================================================
