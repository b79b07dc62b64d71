------------------------------ MODULE SendFifo ------------------------------
(***************************************************************************)
(* What a send queue promises its consumer: the work queue elements of     *)
(* accepted requests are executed once each, in the order they were        *)
(* posted.  Elements are numbered in posting order, modulo R.              *)
(***************************************************************************)
EXTENDS Integers, Sequences

CONSTANTS
  R,            \* range of the element numbers
  MaxPost       \* most elements handed over at once

VARIABLES
  q,            \* handed to the device and not executed
  num           \* number of the next element

Elements(n) == [k \in 1..n |-> (num + k - 1) % R]

Init == q = <<>> /\ num = 0

Post(n) == q' = q \o Elements(n) /\ num' = (num + n) % R

Execute == q # <<>> /\ q' = Tail(q) /\ UNCHANGED num

Next == Execute \/ \E n \in 1..MaxPost : Post(n)

Spec == Init /\ [][Next]_<<q, num>>
=============================================================================
