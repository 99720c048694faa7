-------------------------------- MODULE Fifo --------------------------------
(***************************************************************************)
(* What a ring promises to the two workers that share it (ADR 0015         *)
(* section 2): the messages the producer's push accepted come out of the   *)
(* consumer's pop one at a time, whole, each once and in order.            *)
(***************************************************************************)
EXTENDS Naturals, Sequences

CONSTANT Message

VARIABLES
  offered,  \* the messages accepted, in order
  taken     \* the messages handed to the consumer, in order

vars == << offered, taken >>

Init == offered = << >> /\ taken = << >>

Push ==
  /\ \E m \in Message : offered' = Append(offered, m)
  /\ UNCHANGED taken

Pop ==
  /\ Len(taken) < Len(offered)
  /\ taken' = Append(taken, offered[Len(taken) + 1])
  /\ UNCHANGED offered

Next == Push \/ Pop

Spec == Init /\ [][Next]_vars
=============================================================================
