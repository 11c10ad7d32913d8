-------------------------- MODULE MCOptimisticWalk ---------------------------
(* Instances of OptimisticWalk for TLC. *)
EXTENDS OptimisticWalk

CONSTANTS rd, w1, w2, n1, n2, n3, n4, b1, b2, b3, b4

(* Keys are two decimal digits. *)
Tens == [k \in Keys |-> k \div 10]
Ones == [k \in Keys |-> k % 10]

Tree(S, split, wide) == [keys |-> S, split |-> split, wide |-> wide]

(* Every terminal and both forms of branch, each with and without room. *)
Trees ==
  {Tree(S, {}, wide) : S \in {{11, 31}, {11, 12, 31}, {11, 12, 13, 31}, {11, 12, 13, 14, 31}},
                       wide \in BOOLEAN}
  \cup {Tree(S, {1}, wide) : S \in {{12, 31}, {11, 13, 31}, {11, 12, 13, 31}}, wide \in BOOLEAN}

(* A full leaf, below a top branch with and without room. *)
FullLeaf == {Tree({11, 12, 13, 14, 31}, {}, wide) : wide \in BOOLEAN}

(* The reader and one writer, any keys. *)
Pair(w) == [t \in Threads |-> IF t \in {rd, w} THEN Keys ELSE {}]

(* Everyone; the lookup is of a key no call touches, or of one that splits the leaf. *)
Race(k) == [t \in Threads |-> IF t = rd THEN {k} ELSE {11, 15, 21}]

Case(x, calls_) == [keys |-> x.keys, split |-> x.split, wide |-> x.wide, calls |-> calls_]

FormsAndRaces == {Case(x, Pair(w)) : x \in Trees, w \in {w1, w2}}
                 \cup {Case(x, Race(12)) : x \in FullLeaf}
                 \cup {Case(x, Race(15)) : x \in {y \in FullLeaf : ~y.wide}}

(* Leaves of one, two and four keys. *)
Classes124 == [n \in 1 .. LeafMax |-> IF n <= 2 THEN n ELSE 4]

(* The two writers run the same code. *)
Twins == Permutations({w1, w2})
==============================================================================
