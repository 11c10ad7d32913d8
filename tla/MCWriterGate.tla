---------------------------- MODULE MCWriterGate -----------------------------
(* Instances of WriterGate for TLC. *)
EXTENDS WriterGate, TLC

CONSTANTS t1, t2, t3, t4

(* Every thread hashes onto slot 0 once the table is full. *)
OneToken == [t \in Threads |-> 0]

Symmetry == Permutations(Threads)
==============================================================================
