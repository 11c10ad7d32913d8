--------------------------- MODULE MCRetainedBytes ---------------------------
(* An instance of RetainedBytes for TLC: two blocks no size class serves,    *)
(* retired by one writer, and a budget one of them exhausts.                 *)
EXTENDS RetainedBytes

CONSTANTS r1, w1, b1, b2

OneStripe == [w \in Writers |-> 0]
UnitBytes == [b \in Blocks |-> 1]
==============================================================================
