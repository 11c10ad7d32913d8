---------------------------- MODULE MCSharedTree -----------------------------
(* Instances of SharedTree for TLC. *)
EXTENDS SharedTree, TLC

CONSTANTS t1, t2, t3, k1, k2, k3

(* Once the slots are taken, every thread hashes onto slot 0. *)
OneToken == [t \in Threads |-> 0]

(* Two children: k1 and k2 share one. *)
TwoDigits == [k \in Keys |-> IF k = k3 THEN 1 ELSE 0]

(* The threads have one token, and k1 and k2 one digit. *)
Symmetry == Permutations(Threads) \cup Permutations({k1, k2})
==============================================================================
