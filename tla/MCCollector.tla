---------------------------- MODULE MCCollector ------------------------------
(* Instances of Collector for TLC. *)
EXTENDS Collector, TLC

CONSTANTS r1, r2, w1, w2, b1, b2, b3

OneStripe == [w \in Writers |-> 0]
TwoStripes == [w \in Writers |-> IF w = w1 THEN 0 ELSE 1]
UnitBytes == [b \in Blocks |-> 1]
MixedBytes == [b \in Blocks |-> IF b = b1 THEN 1 ELSE 2]
==============================================================================
