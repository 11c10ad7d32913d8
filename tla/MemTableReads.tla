---------------------------- MODULE MemTableReads ----------------------------
(* Proofs about the chain of blocks and about the readers that walk it. *)
EXTENDS MemTableProofs

(* Induction up to a bound. *)
LEMMA Induct ==
  ASSUME NEW T, NEW N \in Nat, 0 \in T, \A n \in 0 .. N - 1 : n \in T => n + 1 \in T
  PROVE  \A n \in 0 .. N : n \in T
<1> DEFINE Bad == {n \in 0 .. N : n \notin T}
<1>1. Bad = {}
  <2> SUFFICES ASSUME Bad # {} PROVE FALSE
    OBVIOUS
  <2>1. PICK n \in Bad : \A k \in Bad : n <= k
    <3>1. Bad \subseteq Nat
      OBVIOUS
    <3> HIDE DEF Bad
    <3> QED BY <3>1, LeastElement
  <2>2. n - 1 \in 0 .. N - 1 /\ n \notin T /\ n \in Nat
    BY <2>1
  <2>3. n - 1 \in T
    BY <2>1, <2>2
  <2>4. (n - 1) + 1 \in T
    BY <2>2, <2>3
  <2> QED BY <2>2, <2>4
<1>2. QED
  BY <1>1

(* The iteration of a function is defined. *)
LEMMA IterationDefined ==
  ASSUME NEW R, NEW a \in R, NEW g \in [R -> R], NEW N \in Nat
  PROVE  \E f \in [0 .. N -> R] : f = [n \in 0 .. N |-> IF n = 0 THEN a ELSE g[f[n - 1]]]
<1> DEFINE Good(f, n) == \A k \in 0 .. n : f[k] = IF k = 0 THEN a ELSE g[f[k - 1]]
           T == {n \in 0 .. N : \E f \in [0 .. N -> R] : Good(f, n)}
<1>1. 0 \in T
  <2> DEFINE h == [k \in 0 .. N |-> a]
  <2>1. h \in [0 .. N -> R] /\ h[0] = a
    OBVIOUS
  <2> HIDE DEF h
  <2>2. Good(h, 0)
    BY <2>1
  <2> QED BY <2>1, <2>2
<1>2. ASSUME NEW n \in 0 .. N - 1, n \in T PROVE n + 1 \in T
  <2>1. PICK f \in [0 .. N -> R] : Good(f, n)
    BY <1>2
  <2> DEFINE h == [f EXCEPT ![n + 1] = g[f[n]]]
  <2>2. h \in [0 .. N -> R] /\ h[n + 1] = g[f[n]] /\ \A k \in 0 .. n : h[k] = f[k]
    OBVIOUS
  <2> HIDE DEF h
  <2>3. Good(h, n + 1)
    <3> SUFFICES ASSUME NEW k \in 0 .. n + 1 PROVE h[k] = IF k = 0 THEN a ELSE g[h[k - 1]]
      OBVIOUS
    <3>1. CASE k = n + 1
      BY <2>2, <3>1
    <3>2. CASE k \in 0 .. n
      BY <2>1, <2>2, <3>2
    <3> QED BY <3>1, <3>2
  <2> QED BY <2>2, <2>3
<1>3. N \in T
  <2> HIDE DEF T
  <2> QED BY <1>1, <1>2, Induct
<1>4. PICK f \in [0 .. N -> R] : Good(f, N)
  BY <1>3
<1>5. f = [n \in 0 .. N |-> IF n = 0 THEN a ELSE g[f[n - 1]]]
  BY <1>4
<1>6. QED
  BY <1>5

------------------------------------------------------------------------------
(* The chain. *)

Follow(s) == LET b == next[s[Len(s)]] IN IF b = Null THEN s ELSE Append(s, b)

(* A walk from the head along next_leaf, each block beginning after the last. *)
Walked(s) ==
  /\ s \in Seq(Linked) /\ Len(s) >= 1 /\ s[1] = HeadBlock
  /\ \A i \in 1 .. Len(s) - 1 : next[s[i]] = s[i + 1]
  /\ \A i, j \in 1 .. Len(s) : i < j => low(s[i]) < low(s[j])

LEMMA ChainIsWalk ==
  ASSUME TableInv
  PROVE  \E f : /\ f[0] = <<HeadBlock>> /\ Chain = f[Cardinality(Blocks)]
                /\ \A n \in 1 .. Cardinality(Blocks) : f[n] = Follow(f[n - 1])
                /\ Cardinality(Blocks) \in Nat
<1> DEFINE N == Cardinality(Blocks)
           R == Seq(Blocks) \ {<< >>}
           g == [s \in R |-> Follow(s)]
           a == <<HeadBlock>>
           Walk[n \in 0 .. N] ==
             IF n = 0 THEN <<HeadBlock>>
             ELSE LET s == Walk[n - 1]  b == next[s[Len(s)]] IN IF b = Null THEN s ELSE Append(s, b)
<1>1. N \in Nat /\ HeadBlock \in Blocks
  <2>1. Cardinality(Entries) \in Nat
    BY Sizes
  <2>2. IsFiniteSet(Blocks)
    BY <2>1, FS_Interval DEF Blocks
  <2> QED BY <2>1, <2>2, FS_CardinalityType DEF Blocks, HeadBlock
<1>2. a \in R
  BY <1>1
<1>3. g \in [R -> R]
  <2> SUFFICES ASSUME NEW s \in R PROVE Follow(s) \in R
    OBVIOUS
  <2>1. s \in Seq(Blocks) /\ Len(s) \in 1 .. Len(s) /\ s[Len(s)] \in Blocks
    OBVIOUS
  <2>2. next[s[Len(s)]] \in Blocks \cup {Null}
    BY <2>1 DEF TableInv, TableTypes
  <2> QED BY <2>1, <2>2 DEF Follow
<1>4. PICK f \in [0 .. N -> R] : f = [n \in 0 .. N |-> IF n = 0 THEN a ELSE g[f[n - 1]]]
  <2> HIDE DEF N, R, g, a, Walk
  <2> QED BY <1>1, <1>2, <1>3, IterationDefined, SMTT(30)
<1>5. \A n \in 1 .. N : f[n - 1] \in R /\ g[f[n - 1]] = Follow(f[n - 1])
  BY <1>1
<1>6. f = [n \in 0 .. N |-> IF n = 0 THEN <<HeadBlock>>
            ELSE LET s == f[n - 1]  b == next[s[Len(s)]] IN IF b = Null THEN s ELSE Append(s, b)]
  <2> HIDE DEF R, g, N, Walk
  <2>1. ASSUME NEW n \in 0 .. N
        PROVE  (IF n = 0 THEN a ELSE g[f[n - 1]])
               = IF n = 0 THEN <<HeadBlock>>
                 ELSE LET s == f[n - 1]  b == next[s[Len(s)]] IN IF b = Null THEN s ELSE Append(s, b)
    <3>1. CASE n = 0
      BY <3>1
    <3>2. CASE n # 0
      <4>1. n \in 1 .. N
        BY <1>1, <3>2
      <4>2. g[f[n - 1]] = Follow(f[n - 1])
        BY <1>5, <4>1, ZenonT(30)
      <4> HIDE DEF a
      <4> QED BY <3>2, <4>2, Zenon DEF Follow
    <3> QED BY <3>1, <3>2
  <2> HIDE DEF a
  <2> QED BY <1>4, <2>1
<1>7. Walk = [n \in 0 .. N |-> IF n = 0 THEN <<HeadBlock>>
            ELSE LET s == Walk[n - 1]  b == next[s[Len(s)]] IN IF b = Null THEN s ELSE Append(s, b)]
  <2> HIDE DEF R, g, N
  <2> QED BY <1>6
<1>8. Chain = Walk[N]
  BY DEF Chain
<1> HIDE DEF Walk
<1>9. QED
  <2> HIDE DEF R, g, N
  <2>1. Walk[0] = <<HeadBlock>>
    <3>1. 0 \in 0 .. N
      BY <1>1
    <3> QED BY <1>7, <3>1
  <2>2. ASSUME NEW n \in 1 .. N PROVE Walk[n] = Follow(Walk[n - 1])
    <3>1. n \in 0 .. N /\ n # 0
      BY <1>1
    <3>2. Walk[n] = IF n = 0 THEN <<HeadBlock>>
            ELSE LET s == Walk[n - 1]  b == next[s[Len(s)]] IN IF b = Null THEN s ELSE Append(s, b)
      BY <1>7, <3>1, Zenon
    <3> HIDE DEF a
    <3> QED BY <3>1, <3>2 DEF Follow
  <2> QED BY <1>1, <1>8, <2>1, <2>2 DEF N

(* The chain is the blocks that are linked, in the order in which they begin. *)
LEMMA ChainWalked ==
  ASSUME TableInv
  PROVE  Walked(Chain) /\ next[Chain[Len(Chain)]] = Null
<1> DEFINE N == Cardinality(Blocks)
<1>1. PICK f : /\ f[0] = <<HeadBlock>> /\ Chain = f[N]
               /\ \A n \in 1 .. N : f[n] = Follow(f[n - 1])
               /\ N \in Nat
  BY ChainIsWalk
<1> HIDE DEF N
<1> DEFINE Ends(s, n) == next[s[Len(s)]] = Null \/ Len(s) = n + 1
           T == {n \in 0 .. N : Walked(f[n]) /\ Ends(f[n], n)}
<1>2. HeadBlock \in Linked /\ \A c \in Linked : low(c) \in Nat
  <2>1. used \in Nat /\ used >= 1 /\ Linked \subseteq 1 .. used /\ \A c \in 1 .. used : low(c) \in Nat
    BY Facts
  <2>2. used - 1 >= 1 \/ wpc \notin {"splitcount", "null", "linkback", "link"}
    <3>1. Splitting => ins.b < used /\ ins.b \in 1 .. used
      BY DEF TableInv, Inserting, Splitting
    <3> QED BY <2>1, <3>1 DEF Splitting
  <2> QED BY <2>1, <2>2 DEF Linked, HeadBlock
<1>3. 0 \in T
  <2>1. Walked(<<HeadBlock>>)
    BY <1>2 DEF Walked
  <2> QED BY <1>1, <2>1
<1>4. ASSUME NEW n \in 0 .. N - 1, n \in T PROVE n + 1 \in T
  <2>1. PICK s : s = f[n]
    OBVIOUS
  <2>2. Walked(s) /\ Ends(s, n) /\ n \in Nat /\ n + 1 \in 0 .. N /\ n + 1 \in 1 .. N
    BY <1>1, <1>4, <2>1
  <2>3. f[n + 1] = Follow(s)
    BY <1>1, <2>1, <2>2
  <2>4. s \in Seq(Linked) /\ Len(s) \in Nat /\ Len(s) >= 1 /\ s[Len(s)] \in Linked
    BY <2>2 DEF Walked
  <2>5. CASE next[s[Len(s)]] = Null
    BY <2>2, <2>3, <2>5 DEF Follow
  <2>6. CASE next[s[Len(s)]] # Null
    <3>1. PICK b, last : b = next[s[Len(s)]] /\ last = s[Len(s)]
      OBVIOUS
    <3>2. b \in Linked /\ low(last) < low(b) /\ low(b) \in Nat /\ low(last) \in Nat
      BY <1>2, <2>4, <2>6, <3>1 DEF TableInv, NextOrder
    <3>3. Len(s) = n + 1
      BY <2>2, <2>6
    <3>4. PICK t : t = Append(s, b)
      OBVIOUS
    <3>5. /\ t \in Seq(Linked) /\ Len(t) = Len(s) + 1 /\ t[Len(s) + 1] = b
          /\ \A i \in 1 .. Len(s) : t[i] = s[i]
      BY <2>4, <3>2, <3>4
    <3>6. \A i \in 1 .. Len(t) - 1 : next[t[i]] = t[i + 1]
      <4> SUFFICES ASSUME NEW i \in 1 .. Len(s) PROVE next[t[i]] = t[i + 1]
        BY <2>4, <3>5
      <4>1. CASE i = Len(s)
        BY <3>1, <3>5, <4>1
      <4>2. CASE i # Len(s)
        <5>1. i \in 1 .. Len(s) - 1 /\ i + 1 \in 1 .. Len(s)
          BY <2>4, <4>2
        <5> QED BY <2>2, <3>5, <5>1 DEF Walked
      <4> QED BY <4>1, <4>2
    <3>7. ASSUME NEW i \in 1 .. Len(t), NEW j \in 1 .. Len(t), i < j PROVE low(t[i]) < low(t[j])
      <4>1. i \in 1 .. Len(s) /\ t[i] = s[i] /\ s[i] \in Linked /\ low(s[i]) \in Nat
        BY <1>2, <2>4, <3>5, <3>7, SMTT(30)
      <4>2. CASE j = Len(s) + 1
        <5>1. i = Len(s) \/ low(s[i]) < low(last)
          BY <2>2, <2>4, <3>1, <4>1 DEF Walked
        <5>2. low(s[i]) <= low(last)
          BY <3>1, <3>2, <4>1, <5>1
        <5> QED BY <3>2, <3>5, <4>1, <4>2, <5>2
      <4>3. CASE j # Len(s) + 1
        <5>1. j \in 1 .. Len(s)
          BY <2>4, <3>5, <4>3
        <5> QED BY <2>2, <3>5, <3>7, <4>1, <5>1 DEF Walked
      <4> QED BY <4>2, <4>3
    <3>8. Walked(t)
      <4>1. t[1] = HeadBlock
        BY <2>2, <2>4, <3>5 DEF Walked
      <4> QED BY <2>4, <3>5, <3>6, <3>7, <4>1 DEF Walked
    <3>9. f[n + 1] = t
      BY <2>3, <2>6, <3>1, <3>4 DEF Follow
    <3> QED BY <2>2, <3>3, <3>5, <3>8, <3>9
  <2> QED BY <2>5, <2>6
<1>5. N \in T
  <2> HIDE DEF T
  <2> QED BY <1>1, <1>3, <1>4, Induct
<1>6. Walked(Chain) /\ Ends(Chain, N)
  BY <1>1, <1>5
<1>7. Len(Chain) # N + 1
  <2> SUFFICES ASSUME Len(Chain) = N + 1 PROVE FALSE
    OBVIOUS
  <2>1. /\ IsFiniteSet(1 .. N + 1) /\ Cardinality(1 .. N + 1) = N + 1
        /\ IsFiniteSet(Blocks) /\ Cardinality(Blocks) = N
    BY <1>1, Sizes, FS_Interval DEF N, Blocks
  <2>2. Chain \in [1 .. N + 1 -> Blocks]
    <3>1. Linked \subseteq Blocks
      BY Facts
    <3> QED BY <1>6, <3>1 DEF Walked
  <2>3. PICK x, y \in 1 .. N + 1 : x # y /\ Chain[x] = Chain[y]
    <3>1. Cardinality(Blocks) < Cardinality(1 .. N + 1)
      BY <1>1, <2>1
    <3> DEFINE S == 1 .. N + 1
    <3> HIDE DEF S
    <3> QED BY <2>1, <2>2, <3>1, FS_PigeonHole DEF S
  <2>4. low(Chain[x]) < low(Chain[y]) \/ low(Chain[y]) < low(Chain[x])
    BY <1>1, <1>6, <2>3 DEF Walked
  <2>5. low(Chain[x]) \in Nat
    BY <1>2, <1>6, <2>3 DEF Walked
  <2> QED BY <2>3, <2>4, <2>5
<1>8. QED
  BY <1>6, <1>7

LEMMA ChainCovers ==
  ASSUME TableInv
  PROVE  /\ Chain \in Seq(Linked) /\ Len(Chain) >= 1 /\ DOMAIN Chain = 1 .. Len(Chain)
         /\ \A b \in Linked : \E i \in 1 .. Len(Chain) : Chain[i] = b
<1> DEFINE c == Chain
<1>1. Walked(c) /\ next[c[Len(c)]] = Null
  BY ChainWalked
<1> HIDE DEF c
<1>2. /\ c \in Seq(Linked) /\ Len(c) \in Nat /\ Len(c) >= 1 /\ DOMAIN c = 1 .. Len(c)
      /\ \A i \in 1 .. Len(c) : c[i] \in Linked
  BY <1>1 DEF Walked
<1>3. \A b \in Linked : low(b) \in Nat /\ b \in 1 .. used
  BY Facts
<1>4. ASSUME NEW b \in Linked PROVE \E i \in 1 .. Len(c) : c[i] = b
  <2> DEFINE T == {i \in 1 .. Len(c) : low(c[i]) <= low(b)}
  <2>1. 1 \in T
    BY <1>1, <1>2, <1>3 DEF Walked, low
  <2>2. PICK i \in T : \A j \in T : j <= i
    <3>1. T \subseteq Nat /\ T # {} /\ \A j \in T : j <= Len(c)
      BY <1>2, <2>1
    <3> HIDE DEF T
    <3> QED BY <1>2, <3>1, GreatestElement
  <2>3. i \in 1 .. Len(c) /\ low(c[i]) <= low(b) /\ c[i] \in Linked
    BY <1>2, <2>2
  <2>4. low(b) <= low(c[i])
    <3>1. CASE i = Len(c)
      BY <1>1, <2>3, <3>1 DEF TableInv, NextOrder
    <3>2. CASE i # Len(c)
      <4>1. /\ next[c[i]] = c[i + 1] /\ i + 1 \in 1 .. Len(c) /\ i + 1 \notin T
            /\ c[i + 1] \in Linked /\ c[i + 1] # Null
        <5>1. i \in 1 .. Len(c) - 1 /\ i + 1 \in 1 .. Len(c) /\ ~ (i + 1 <= i)
          <6>1. i \in 1 .. Len(c) /\ Len(c) \in Nat
            BY <1>2, <2>3
          <6> HIDE DEF T
          <6> QED BY <3>2, <6>1
        <5>2. next[c[i]] = c[i + 1] /\ c[i + 1] \in Linked
          BY <1>1, <1>2, <5>1 DEF Walked
        <5>3. c[i + 1] # Null
          BY <1>3, <5>2 DEF Null
        <5>4. i + 1 \notin T
          BY <2>2, <5>1
        <5> QED BY <5>1, <5>2, <5>3, <5>4
      <4>2. low(b) <= low(c[i]) \/ low(c[i + 1]) <= low(b)
        BY <2>3, <4>1 DEF TableInv, NextOrder
      <4> QED BY <4>1, <4>2
    <3> QED BY <3>1, <3>2
  <2>5. c[i] = b
    BY <1>3, <2>3, <2>4 DEF TableInv, Distinct
  <2> QED BY <2>3, <2>5
<1>5. QED
  BY <1>2, <1>4 DEF c

(* What every walk of the chain, and of the trie into it, relies on. *)
LEMMA ChainIsOrdered ==
  ASSUME TableInv, Unused, wpc = "idle" PROVE ChainExact
<1> DEFINE c == Chain
<1>1. /\ Walked(c) /\ next[c[Len(c)]] = Null
      /\ c \in Seq(Linked) /\ Len(c) >= 1 /\ DOMAIN c = 1 .. Len(c)
      /\ \A b \in Linked : \E i \in 1 .. Len(c) : c[i] = b
  BY ChainWalked, ChainCovers
<1> HIDE DEF c
<1>2. Linked = 1 .. used /\ Joined = 1 .. used /\ \A b : Owned(b) = 0 .. count[b] - 1
  BY DEF Linked, Joined, Owned
<1>3. /\ Len(c) \in Nat /\ used \in Nat /\ used >= 1 /\ 1 .. used \subseteq Blocks
      /\ \A i \in 1 .. Len(c) : c[i] \in 1 .. used
      /\ \A b \in 1 .. used : /\ low(b) \in Nat /\ count[b] \in Nat
                              /\ b # HeadBlock => low(b) = entries[b][0] /\ low(b) > 0 /\ count[b] > 0
                              /\ \A j \in Owned(b) : entries[b][j] \in Nat
  <2>1. \A i \in 1 .. Len(c) : c[i] \in 1 .. used
    <3>1. \A i \in 1 .. Len(c) : c[i] \in Linked
      BY <1>1
    <3> QED BY <1>2, <3>1
  <2>2. Len(c) \in Nat
    BY <1>1
  <2> QED BY <2>1, <2>2, Facts
<1>4. UNION {Held(c[i]) : i \in DOMAIN c} = visible
  <2>1. ASSUME NEW i \in DOMAIN c, NEW e \in Held(c[i]) PROVE e \in visible
    <3>1. PICK j \in Owned(c[i]) : e = entries[c[i]][j]
      BY <1>2, <2>1 DEF Held
    <3> QED BY <1>1, <1>3, <3>1 DEF TableInv, Contents
  <2>2. ASSUME NEW e \in visible PROVE \E i \in DOMAIN c : e \in Held(c[i])
    <3>1. PICK b \in 1 .. used : \E j \in Owned(b) : entries[b][j] = e
      BY DEF TableInv, Contents
    <3>2. PICK i \in DOMAIN c : c[i] = b
      BY <1>1, <1>2, <3>1
    <3> QED BY <1>2, <3>1, <3>2 DEF Held
  <2> QED BY <2>1, <2>2
<1>5. ASSUME NEW i \in DOMAIN c, NEW j \in DOMAIN c, i < j,
             NEW d \in Held(c[i]), NEW e \in Held(c[j])
      PROVE  d < e
  <2>1. /\ c[i] \in 1 .. used /\ c[j] \in 1 .. used
        /\ low(c[i]) \in Nat /\ low(c[j]) \in Nat /\ low(c[i]) < low(c[j])
    BY <1>1, <1>3, <1>5 DEF Walked
  <2>2. PICK k \in Owned(c[i]) : d = entries[c[i]][k]
    BY <1>2, <1>5 DEF Held
  <2>3. PICK m \in Owned(c[j]) : e = entries[c[j]][m]
    BY <1>2, <1>5 DEF Held
  <2>4. d < low(c[j]) /\ d \in Nat /\ e \in Nat
    BY <1>3, <2>1, <2>2, <2>3 DEF TableInv, Ordered
  <2>5. c[j] # HeadBlock /\ low(c[j]) = entries[c[j]][0]
    BY <1>3, <2>1 DEF low
  <2>6. 0 \in Owned(c[j]) /\ (m = 0 \/ 0 < m)
    <3>1. Owned(c[j]) = 0 .. count[c[j]] - 1 /\ count[c[j]] \in Nat /\ count[c[j]] > 0
      BY <1>2, <1>3, <2>1, <2>5
    <3> QED BY <2>3, <3>1
  <2>7. low(c[j]) <= e
    BY <1>3, <2>1, <2>3, <2>5, <2>6 DEF TableInv, Sorted
  <2> QED BY <2>1, <2>4, <2>7
<1>6. ASSUME NEW b \in Blocks, NEW i \in 1 .. count[b] - 1 PROVE entries[b][i - 1] < entries[b][i]
  <2>1. b \in 1 .. used
    <3>1. count[b] # 0
      BY <1>6
    <3> QED BY <1>3, <3>1, Sizes DEF Unused, Blocks
  <2>2. i - 1 \in Owned(b) /\ i \in Owned(b) /\ i - 1 < i
    BY <1>2, <1>3, <2>1
  <2> QED BY <2>1, <2>2 DEF TableInv, Sorted
<1>7. ASSUME NEW i \in 2 .. Len(c) PROVE count[c[i]] > 0 /\ prev[c[i]] = c[i - 1]
  <2>1. PICK x, y, p : x = c[i - 1] /\ y = c[i] /\ p = prev[c[i]]
    OBVIOUS
  <2>2. i - 1 \in 1 .. Len(c) - 1 /\ i - 1 \in 1 .. Len(c) /\ i \in 1 .. Len(c) /\ i - 1 < i /\ (i - 1) + 1 = i
    BY <1>3
  <2>3. x \in 1 .. used /\ y \in 1 .. used /\ low(x) < low(y) /\ next[x] = y
    BY <1>1, <1>3, <2>1, <2>2 DEF Walked
  <2>4. y # HeadBlock /\ y # Null
    BY <1>3, <2>3 DEF low, Null
  <2>5. /\ p \in 1 .. used /\ low(p) < low(y)
        /\ low(x) <= low(p) \/ low(y) <= low(x)
    BY <1>2, <2>1, <2>3, <2>4 DEF TableInv, PrevOrder
  <2>6. low(p) <= low(x) \/ low(y) <= low(p)
    BY <1>2, <2>3, <2>4, <2>5 DEF TableInv, NextOrder
  <2>7. low(p) = low(x)
    BY <1>3, <2>3, <2>5, <2>6
  <2>8. p = x
    BY <2>3, <2>5, <2>7 DEF TableInv, Distinct
  <2> QED BY <1>3, <2>1, <2>3, <2>4, <2>8
<1>8. prev[HeadBlock] = Null /\ tail = c[Len(c)]
  <2>1. PICK z : z = c[Len(c)]
    OBVIOUS
  <2>2. z \in 1 .. used /\ next[z] = Null
    BY <1>1, <1>3, <2>1
  <2>3. tail \in 1 .. used /\ low(z) <= low(tail) /\ prev[HeadBlock] = Null
    BY <1>2, <2>2 DEF TableInv, PrevOrder
  <2>4. low(tail) <= low(z)
    BY <1>2, <2>2, <2>3 DEF TableInv, NextOrder
  <2>5. low(tail) = low(z)
    BY <1>3, <2>2, <2>3, <2>4
  <2>6. tail = z
    BY <2>2, <2>3, <2>5 DEF TableInv, Distinct
  <2> QED BY <2>1, <2>3, <2>6
<1>9. QED
  BY <1>4, <1>5, <1>6, <1>7, <1>8 DEF ChainExact, c

LEMMA TrieIsLinked ==
  ASSUME TableInv PROVE TrieReaches
<1> SUFFICES ASSUME NEW p \in Prefixes, trie[p] # Null
             PROVE  /\ \E i \in DOMAIN Chain : Chain[i] = trie[p]
                    /\ trie[p] # HeadBlock => min_key(trie[p]) # Null /\ prev[trie[p]] # Null
  BY DEF TrieReaches
<1>1. trie[p] \in Linked
  BY DEF TableInv, TrieLinked
<1>2. \E i \in DOMAIN Chain : Chain[i] = trie[p]
  BY <1>1, ChainCovers
<1>3. ASSUME trie[p] # HeadBlock PROVE min_key(trie[p]) # Null /\ prev[trie[p]] # Null
  <2>1. trie[p] \in 1 .. used /\ used \in Nat /\ Linked \subseteq Joined
    <3>1. Linked \subseteq Joined
      BY Facts DEF Linked, Joined
    <3> QED BY <1>1, <3>1, Facts
  <2>2. min_key(trie[p]) # Null
    BY <1>3, <2>1, MinIsLow DEF TableInv, Null
  <2>3. prev[trie[p]] \in Joined
    BY <1>1, <1>3, <2>1 DEF TableInv, PrevOrder
  <2> QED BY <2>1, <2>2, <2>3, Facts DEF Null
<1>4. QED
  BY <1>2, <1>3

(* With mutex_ free, the chain spells the inserted entries in order, whatever
   inserts and splits have been: none is lost, repeated or out of place, and
   prev_leaf and tail_ are next_leaf read backwards. *)
THEOREM ChainSpellsEntries == Spec => []ChainExact
<1>1. TableInv /\ Unused => ChainExact
  BY ChainIsOrdered DEF ChainExact
<1>2. QED
  BY <1>1, TableInvariant, UnusedAlways, PTL

(* Between any two stores of a split the trie names only blocks that a walk from
   the head meets and that a walk back can leave. *)
THEOREM TrieNamesTheChain == Spec => []TrieReaches
BY TrieIsLinked, TableInvariant, PTL

------------------------------------------------------------------------------
(* What a step of the writer leaves a reader: blocks stay linked and begin where
   they began, versions only grow, and a block changes only under an odd version. *)

LEMMA BlocksOnlyGrow ==
  ASSUME TableInv, [Next]_vars
  PROVE  /\ Joined \subseteq Joined' /\ Linked \subseteq Linked'
         /\ visible \subseteq visible' /\ used' \in Nat /\ used <= used'
<1> USE DEF blocks, chain, reader, table, writer
<1>1. TableInv' /\ used \in Nat /\ used' \in Nat
  <2>1. TableInv'
    BY TableNext
  <2>2. used \in Blocks /\ used' \in Blocks
    BY <2>1 DEF TableInv, TableTypes
  <2> QED BY <2>1, <2>2, Sizes DEF Blocks
<1>2. CASE UNCHANGED <<used, wpc, visible>>
  BY <1>1, <1>2 DEF Joined, Linked
<1>3. CASE \E e \in Entries : InsertBegin(e)
  BY <1>1, <1>3 DEF InsertBegin, Joined, Linked
<1>4. CASE InsertOpen \/ InsertShift \/ InsertStore \/ InsertCount \/ InsertClose \/ InsertMap
  BY <1>1, <1>4 DEF InsertOpen, InsertShift, InsertStore, InsertCount, InsertClose, InsertMap,
       SplitIfFull, Goto, Joined, Linked
<1>5. CASE SplitOpen
  BY <1>1, <1>5 DEF SplitOpen, Joined, Linked
<1>6. CASE SplitCount \/ SplitNull \/ SplitLinkBack \/ SplitLink \/ SplitMap \/ SplitClose
  BY <1>1, <1>6 DEF SplitCount, SplitNull, SplitLinkBack, SplitLink, SplitMap, SplitClose, Goto, Joined, Linked
<1>7. CASE (\E r \in Readers : Call(r)) \/ UNCHANGED vars
  BY <1>2, <1>7, ReadersLookOnly DEF vars
<1>8. QED
  BY <1>3, <1>4, <1>5, <1>6, <1>7 DEF Next, Write

LEMMA BlocksStand ==
  ASSUME TableInv, [Next]_vars, NEW c \in 1 .. used
  PROVE  /\ low(c)' = low(c) /\ version[c] \in Nat /\ version'[c] \in Nat /\ version[c] <= version'[c]
         /\ version'[c] = version[c] /\ version[c] % 2 = 0
              => entries'[c] = entries[c] /\ count'[c] = count[c]
<1> USE DEF blocks, chain, reader, table, writer
<1>0. /\ c \in Blocks /\ used \in Nat /\ version \in [Blocks -> Nat] /\ count \in [Blocks -> Slots]
      /\ entries \in [Blocks -> [Slots -> Entries \cup {Null}]] /\ version[c] \in Nat /\ 0 \in Slots
      /\ version[c] % 2 = 0 => ~ (Modifying /\ c = ins.b)
  <2>1. version[c] % 2 = 0 => ~ (Modifying /\ c = ins.b)
    BY Facts DEF TableInv, Parity
  <2>2. c \in Blocks /\ used \in Nat /\ 0 \in Slots
    BY Facts DEF Slots
  <2>3. /\ version \in [Blocks -> Nat] /\ count \in [Blocks -> Slots]
        /\ entries \in [Blocks -> [Slots -> Entries \cup {Null}]]
    BY DEF TableInv, TableTypes
  <2> QED BY <2>1, <2>2, <2>3
<1>1. CASE UNCHANGED <<version, entries, count>>
  BY <1>0, <1>1 DEF low
<1>2. CASE \E e \in Entries : InsertBegin(e)
  BY <1>1, <1>2 DEF InsertBegin
<1>3. CASE Bump(ins.b) /\ UNCHANGED <<entries, count>>
  BY <1>0, <1>3 DEF Bump, low
<1>4. CASE InsertOpen \/ InsertClose \/ SplitClose
  BY <1>3, <1>4 DEF InsertOpen, InsertClose, SplitClose
<1>5. CASE InsertMap \/ SplitLinkBack \/ SplitLink \/ SplitMap
  BY <1>1, <1>5 DEF InsertMap, SplitLinkBack, SplitLink, SplitMap
<1>6. CASE InsertShift
  <2>1. /\ Modifying /\ ins.i # 0 /\ UNCHANGED <<version, count>>
        /\ entries' = [entries EXCEPT ![ins.b][ins.i] = entries[ins.b][ins.i - 1]]
    BY <1>6, WriterFacts DEF InsertShift, Store, Modifying
  <2> QED BY <1>0, <2>1 DEF low
<1>7. CASE InsertStore
  <2>1. /\ Modifying /\ UNCHANGED <<version, count>> /\ (ins.b # HeadBlock => ins.left # 0)
        /\ entries' = [entries EXCEPT ![ins.b][ins.left] = ins.e]
    BY <1>7 DEF InsertStore, Store, Modifying, TableInv, Inserting
  <2> QED BY <1>0, <2>1 DEF low
<1>8. CASE InsertCount \/ SplitCount
  <2>1. /\ Modifying /\ UNCHANGED <<version, entries>> /\ \A d \in Blocks : d # ins.b => count'[d] = count[d]
    BY <1>0, <1>8 DEF InsertCount, SplitCount, SetCount, Modifying, Splitting
  <2> QED BY <1>0, <2>1 DEF low
<1>9. CASE SplitOpen
  <2>1. /\ Bump(ins.b) /\ c # used + 1 /\ entries'[c] = entries[c] /\ count'[c] = count[c]
    BY <1>0, <1>9 DEF SplitOpen, SetCount
  <2> QED BY <1>0, <2>1 DEF Bump, low
<1>10. CASE SplitNull
  <2>1. /\ Modifying /\ UNCHANGED <<version, count>> /\ (ins.b # HeadBlock => ins.i # 0)
        /\ entries' = [entries EXCEPT ![ins.b][ins.i] = Null]
    <3>1. wpc = "null" /\ wpc # "idle"
      BY <1>10 DEF SplitNull
    <3>2. ins.b \in 1 .. used /\ ins.i >= count[ins.b] /\ count[ins.b] \in Nat /\ ins.i \in Nat
      BY <3>1, WriterFacts DEF TableInv, Inserting
    <3>3. ins.b # HeadBlock => count[ins.b] > 0
      BY <3>2, Facts
    <3> QED BY <1>10, <3>1, <3>2, <3>3 DEF SplitNull, Store, Modifying, Splitting
  <2> QED BY <1>0, <2>1 DEF low
<1>11. CASE (\E r \in Readers : Call(r)) \/ UNCHANGED vars
  BY <1>1, <1>11, ReadersLookOnly DEF vars
<1>12. QED
  BY <1>2, <1>4, <1>5, <1>6, <1>7, <1>8, <1>9, <1>10, <1>11 DEF Next, Write

------------------------------------------------------------------------------
(* The invariant of a reader: its step, its local variables and its iterator,
   against the table as it is. *)

Readings ==
  [torn : BOOLEAN, slot : Int, list : Seq(Entries \cup {Null}), at : Entries \cup {Null}]
Locals ==
  [op : Ops \cup {"none"}, key : Entries \cup {Null}, since : SUBSET Entries,
   from : Entries \cup {Null}, target : Entries \cup {Null},
   goal : {"none", "get", "contains", "seek", "first", "last"},
   stage : {"none", "user", "valid", "key", "step"},
   blk : Blocks \cup {Null}, nxt : Blocks \cup {Null}, v : Nat, n : Slots,
   got : Readings, out : Seq(Entries), found : BOOLEAN, stopped : BOOLEAN]
Positions == [leaf : Blocks, slot : Slots, ver : Nat, anchor : Entries]

(* The steps at which a call has no search under way, those of the leaf walk, and
   those of the brackets; the searches for a key. *)
Quiet == {"idle", "done", "reval", "tail", "count", "step", "stepcheck"}
Walking == {"locate", "mapped", "back", "stepback", "forward", "compare"}
Looking == {"open", "read", "check", "hop"}
Searches == {"get", "contains", "seek"}

Control(pc, l, p) ==
  /\ pc \in Quiet \cup Walking \cup Looking \cup {"max", "maxkey"}
  /\ l \in Locals /\ (p = NoPosition \/ p \in Positions)
  /\ l.got.torn \/ l.got.list \in Seq(Entries)
  /\ pc \in Quiet => l.goal = "none"
  /\ pc \in Walking => l.goal \in Searches
  /\ pc \in Looking => l.goal \in Searches \cup {"first", "last"}
  /\ pc \in {"max", "maxkey"} => l.goal = "contains"
  /\ l.goal \in Searches => l.target \in Entries
  /\ pc \in {"count", "step", "stepcheck"} => p # NoPosition /\ l.stage = "step"
  /\ pc = "count" => ~ Backward(l)
  /\ l.stage = "step" => l.op \in StepOps \cup {"seekprev"}
  /\ l.stage \in {"valid", "key"} => l.op = "seekprev"

(* A reader is at a block that is linked, at least backwards. *)
Located(pc, l, p) ==
  /\ l.since \subseteq visible
  /\ pc \in Looking \cup {"back", "stepback", "forward", "compare", "max", "maxkey"} =>
       l.blk \in Joined
  /\ pc = "stepback" => l.blk # HeadBlock
  /\ pc = "compare" => l.nxt \in Joined
  /\ p # NoPosition => p.leaf \in Joined /\ p.anchor \in visible

Holds(b, s, e) == s \in 0 .. count[b] - 1 /\ entries[b][s] = e

(* While the version is the one read first, what a bracket has read is still so. *)
Bracketed(pc, l) ==
  LET b == l.blk  at == l.got.at IN
  pc \in {"read", "check"} =>
    /\ l.v <= version[b] /\ l.v % 2 = 0
    /\ version[b] = l.v => l.n = count[b]
    /\ pc = "check" /\ version[b] = l.v /\ at # Null => Holds(b, l.got.slot, at)
    /\ pc = "check" /\ version[b] = l.v /\ l.goal = "seek" =>
         /\ at # Null => l.target <= at
         /\ \A i \in 0 .. count[b] - 1 :
              l.target <= entries[b][i] => at # Null /\ at <= entries[b][i]

Positioned(pc, l, p) ==
  p # NoPosition =>
    /\ p.ver <= version[p.leaf] /\ p.ver % 2 = 0
    /\ version[p.leaf] = p.ver =>
         /\ Holds(p.leaf, p.slot, p.anchor)
         /\ pc \in {"step", "stepcheck"} /\ ~ Backward(l) => l.n = count[p.leaf]
         /\ pc = "stepcheck" /\ l.got.at # Null => Holds(p.leaf, l.got.slot, l.got.at)

(* A re-seek looks for the anchor, whenever that was inserted; a seek for all that
   was there when it was called. *)
Reseeks(l) == l.goal = "seek" /\ (l.stage # "user" \/ l.op = "valid")
Wanted(l) == {e \in l.since \cup (IF Reseeks(l) THEN {l.target} ELSE {}) : l.target <= e}

(* Nothing that a seek wants is before the block it is at; when it leaves a block,
   all that it wants is after it. *)
Approaching(pc, l) ==
  /\ Reseeks(l) => l.target \in visible
  /\ pc \in {"forward", "compare"} => low(l.blk) <= l.target
  /\ pc \in {"open", "read", "check"} /\ l.goal = "seek" =>
       \A e \in Wanted(l) : low(l.blk) <= e
  /\ pc = "hop" /\ l.goal = "seek" =>
       \A e \in Wanted(l) : \E c \in Linked : low(l.blk) < low(c) /\ low(c) <= e

Consistent(pc, l, p) ==
  Control(pc, l, p) /\ Located(pc, l, p) /\ Bracketed(pc, l) /\ Positioned(pc, l, p) /\ Approaching(pc, l)

ReaderInv ==
  /\ rpc = [r \in Readers |-> rpc[r]] /\ loc = [r \in Readers |-> loc[r]]
  /\ pos = [r \in Readers |-> pos[r]]
  /\ \A r \in Readers : Consistent(rpc[r], loc[r], pos[r])

LEMMA NoLocalsTyped == NoLocals \in Locals /\ NoLocals.got \in Readings
<1>1. 0 \in Slots
  BY Sizes DEF Slots
<1>2. Nothing \in Readings
  BY DEF Readings, Nothing, Null
<1>3. QED
  BY <1>1, <1>2 DEF NoLocals, Locals, Null

LEMMA ReaderInit == Init => ReaderInv
<1> SUFFICES ASSUME Init PROVE ReaderInv
  OBVIOUS
<1>1. /\ rpc = [r \in Readers |-> rpc[r]] /\ loc = [r \in Readers |-> loc[r]]
      /\ pos = [r \in Readers |-> pos[r]]
  BY DEF Init
<1>2. Control("idle", NoLocals, NoPosition)
  <2>1. Nothing.list \in Seq(Entries)
    BY DEF Nothing
  <2> QED BY <2>1, NoLocalsTyped DEF Control, Quiet, Walking, Looking, Searches, NoLocals
<1>3. Located("idle", NoLocals, NoPosition) /\ Bracketed("idle", NoLocals)
      /\ Positioned("idle", NoLocals, NoPosition) /\ Approaching("idle", NoLocals)
  BY DEF Located, Bracketed, Positioned, Approaching, Reseeks, NoLocals, Looking
<1>4. QED
  BY <1>1, <1>2, <1>3 DEF ReaderInv, Consistent, Init

(* A step of the table, the readers' included, keeps what a reader at rest knows. *)
LEMMA ConsistentStays ==
  ASSUME TableInv, [Next]_vars, NEW pc, NEW l, NEW p, Consistent(pc, l, p)
  PROVE  Consistent(pc, l, p)'
<1>1. /\ Joined \subseteq Joined' /\ Linked \subseteq Linked' /\ visible \subseteq visible'
      /\ Joined \subseteq 1 .. used /\ Linked \subseteq 1 .. used
  BY BlocksOnlyGrow, Facts
<1>2. \A c \in 1 .. used :
        /\ low(c)' = low(c) /\ version[c] \in Nat /\ version'[c] \in Nat /\ version[c] <= version'[c]
        /\ version'[c] = version[c] /\ version[c] % 2 = 0
             => entries'[c] = entries[c] /\ count'[c] = count[c]
  BY BlocksStand
<1>3. Control(pc, l, p)'
  BY DEF Consistent, Control, Backward
<1>4. Located(pc, l, p)'
  BY <1>1 DEF Consistent, Located
<1>5. Bracketed(pc, l)'
  <2> SUFFICES ASSUME pc \in {"read", "check"} PROVE Bracketed(pc, l)'
    BY DEF Bracketed
  <2>1. l.blk \in 1 .. used /\ l.v \in Nat
    BY <1>1 DEF Consistent, Located, Looking, Control, Locals
  <2>2. l.v <= version[l.blk] /\ l.v % 2 = 0
    BY DEF Consistent, Bracketed
  <2>3. /\ l.v <= version'[l.blk]
        /\ version'[l.blk] = l.v => version[l.blk] = l.v /\ version'[l.blk] = version[l.blk]
    BY <1>2, <2>1, <2>2
  <2>4. version'[l.blk] = l.v => entries'[l.blk] = entries[l.blk] /\ count'[l.blk] = count[l.blk]
    BY <1>2, <2>1, <2>2, <2>3
  <2> QED BY <2>2, <2>3, <2>4 DEF Consistent, Bracketed, Holds
<1>6. Positioned(pc, l, p)'
  <2> SUFFICES ASSUME p # NoPosition PROVE Positioned(pc, l, p)'
    BY DEF Positioned
  <2>1. p.leaf \in 1 .. used /\ p.ver \in Nat
    BY <1>1 DEF Consistent, Located, Control, Positions
  <2>2. p.ver <= version[p.leaf] /\ p.ver % 2 = 0
    BY DEF Consistent, Positioned
  <2>3. /\ p.ver <= version'[p.leaf]
        /\ version'[p.leaf] = p.ver => version[p.leaf] = p.ver /\ version'[p.leaf] = version[p.leaf]
    BY <1>2, <2>1, <2>2
  <2>4. version'[p.leaf] = p.ver => entries'[p.leaf] = entries[p.leaf] /\ count'[p.leaf] = count[p.leaf]
    BY <1>2, <2>1, <2>2, <2>3
  <2> QED BY <2>2, <2>3, <2>4 DEF Consistent, Positioned, Holds, Backward
<1>7. Approaching(pc, l)'
  <2>1. Reseeks(l) => l.target \in visible'
    BY <1>1 DEF Consistent, Approaching
  <2>2. pc \in {"forward", "compare", "open", "read", "check", "hop"} => low(l.blk)' = low(l.blk)
    BY <1>1, <1>2 DEF Consistent, Located, Looking
  <2>3. pc = "hop" /\ l.goal = "seek" =>
          \A e \in Wanted(l) : \E c \in Linked' : low(l.blk)' < low(c)' /\ low(c)' <= e
    <3> SUFFICES ASSUME pc = "hop", l.goal = "seek", NEW e \in Wanted(l)
                 PROVE  \E c \in Linked' : low(l.blk)' < low(c)' /\ low(c)' <= e
      OBVIOUS
    <3>1. PICK c \in Linked : low(l.blk) < low(c) /\ low(c) <= e
      BY DEF Consistent, Approaching
    <3>2. low(c)' = low(c) /\ c \in Linked'
      BY <1>1, <1>2
    <3> QED BY <2>2, <3>1, <3>2
  <2>4. Wanted(l)' = Wanted(l) /\ (Reseeks(l)' <=> Reseeks(l))
    BY DEF Wanted, Reseeks
  <2> QED BY <2>1, <2>2, <2>3, <2>4 DEF Consistent, Approaching
<1>8. QED
  BY <1>3, <1>4, <1>5, <1>6, <1>7 DEF Consistent

(* The step that a reader takes: to pc, with the local variables l, its iterator at p. *)
Moves(r, pc, l, p) ==
  /\ rpc' = [rpc EXCEPT ![r] = pc] /\ loc' = [loc EXCEPT ![r] = l]
  /\ pos' = [pos EXCEPT ![r] = p]

LEMMA ReaderMoves ==
  ASSUME TableInv, ReaderInv, [Next]_vars, NEW r \in Readers, NEW pc, NEW l, NEW p,
         Moves(r, pc, l, p), Consistent(pc, l, p)
  PROVE  ReaderInv'
<1>1. /\ rpc' = [q \in Readers |-> rpc'[q]] /\ loc' = [q \in Readers |-> loc'[q]]
      /\ pos' = [q \in Readers |-> pos'[q]]
      /\ rpc'[r] = pc /\ loc'[r] = l /\ pos'[r] = p
      /\ \A q \in Readers : q # r => rpc'[q] = rpc[q] /\ loc'[q] = loc[q] /\ pos'[q] = pos[q]
  <2>1. rpc' = [q \in Readers |-> rpc'[q]] /\ rpc'[r] = pc /\ \A q \in Readers : q # r => rpc'[q] = rpc[q]
    BY DEF ReaderInv, Moves
  <2>2. loc' = [q \in Readers |-> loc'[q]] /\ loc'[r] = l /\ \A q \in Readers : q # r => loc'[q] = loc[q]
    BY DEF ReaderInv, Moves
  <2>3. pos' = [q \in Readers |-> pos'[q]] /\ pos'[r] = p /\ \A q \in Readers : q # r => pos'[q] = pos[q]
    BY DEF ReaderInv, Moves
  <2> QED BY <2>1, <2>2, <2>3
<1>2. ASSUME NEW q \in Readers PROVE Consistent(rpc[q], loc[q], pos[q])'
  <2>1. PICK c, m, o : c = rpc'[q] /\ m = loc'[q] /\ o = pos'[q]
    OBVIOUS
  <2>2. Consistent(c, m, o)
    BY <1>1, <2>1 DEF ReaderInv
  <2>3. Consistent(c, m, o)'
    BY <2>2, ConsistentStays
  <2> QED BY <2>1, <2>3
<1>3. QED
  BY <1>1, <1>2 DEF ReaderInv

(* An iterator's position, whatever its reader does. *)
Standing(p) ==
  \/ p = NoPosition
  \/ /\ p \in Positions /\ p.leaf \in Joined /\ p.anchor \in visible
     /\ p.ver <= version[p.leaf] /\ p.ver % 2 = 0
     /\ version[p.leaf] = p.ver => Holds(p.leaf, p.slot, p.anchor)

LEMMA PositionStands ==
  ASSUME NEW pc, NEW l, NEW p, Consistent(pc, l, p) PROVE Standing(p)
BY DEF Consistent, Control, Located, Positioned, Standing

(* The local variables of a call that has no search under way. *)
Restful(l) ==
  /\ l \in Locals /\ l.goal = "none" /\ l.got.list \in Seq(Entries) /\ l.since \subseteq visible
  /\ l.stage = "step" => l.op \in StepOps \cup {"seekprev"}
  /\ l.stage \in {"valid", "key"} => l.op = "seekprev"

LEMMA Resting ==
  ASSUME NEW pc \in {"idle", "done", "reval", "tail", "count", "step"}, NEW l, NEW p,
         Restful(l), Standing(p),
         pc \in {"count", "step"} => p # NoPosition /\ l.stage = "step",
         pc = "count" => ~ Backward(l), pc = "step" => Backward(l)
  PROVE  Consistent(pc, l, p)
<1> USE DEF Restful
<1>1. Control(pc, l, p)
  BY DEF Control, Quiet, Walking, Looking, Searches, Standing
<1>2. Located(pc, l, p)
  BY DEF Located, Looking, Standing
<1>3. Bracketed(pc, l) /\ Approaching(pc, l)
  BY DEF Bracketed, Approaching, Reseeks
<1>4. Positioned(pc, l, p)
  BY DEF Positioned, Standing
<1>5. QED
  BY <1>1, <1>2, <1>3, <1>4 DEF Consistent

LEMMA AskedFields ==
  ASSUME NEW l \in Locals
  PROVE  /\ Asked(l) \in Locals /\ Asked(l).op = l.op /\ Asked(l).since = l.since
         /\ Asked(l).goal = "none" /\ Asked(l).stage = l.stage /\ Asked(l).got = Nothing
         /\ Asked(l).key = l.key /\ Asked(l).out = l.out /\ Asked(l).from = l.from
         /\ ~ Asked(l).found /\ ~ Asked(l).stopped
<1>1. /\ l.op \in Ops \cup {"none"} /\ l.key \in Entries \cup {Null} /\ l.since \in SUBSET Entries
      /\ l.from \in Entries \cup {Null} /\ l.stage \in {"none", "user", "valid", "key", "step"}
      /\ l.out \in Seq(Entries)
  BY DEF Locals
<1>2. NoLocals \in Locals
  BY NoLocalsTyped
<1>3. Asked(l) \in Locals
  <2>1. PICK a : a = [[NoLocals EXCEPT !.op = l.op] EXCEPT !.key = l.key]
    OBVIOUS
  <2>2. PICK b, d : d = [a EXCEPT !.since = l.since] /\ b = [d EXCEPT !.from = l.from]
    OBVIOUS
  <2>3. a \in Locals
    BY <1>1, <1>2, <2>1 DEF Locals
  <2>4. b \in Locals
    <3>1. d \in Locals
      BY <1>1, <2>2, <2>3 DEF Locals
    <3> QED BY <1>1, <2>2, <3>1 DEF Locals
  <2>5. [[b EXCEPT !.stage = l.stage] EXCEPT !.out = l.out] \in Locals
    <3>1. PICK c : c = [b EXCEPT !.stage = l.stage]
      OBVIOUS
    <3>2. c \in Locals
      BY <1>1, <2>4, <3>1 DEF Locals
    <3>3. [c EXCEPT !.out = l.out] \in Locals
      BY <1>1, <3>2 DEF Locals
    <3> QED BY <3>1, <3>3
  <2> QED BY <2>1, <2>2, <2>5 DEF Asked
<1>4. QED
  BY <1>3, NoLocalsTyped DEF Asked, NoLocals

LEMMA AskedRests ==
  ASSUME NEW l \in Locals, l.since \subseteq visible, NEW s \in {"none", "user", "valid", "key", "step"},
         s = "step" => l.op \in StepOps \cup {"seekprev"}, s \in {"valid", "key"} => l.op = "seekprev"
  PROVE  LET m == [Asked(l) EXCEPT !.stage = s] IN
         Restful(m) /\ m.stage = s /\ m.op = l.op
<1> DEFINE m == [Asked(l) EXCEPT !.stage = s]
<1>1. m \in Locals /\ m.op = l.op /\ m.since = l.since /\ m.goal = "none" /\ m.stage = s /\ m.got = Nothing
  BY AskedFields DEF Locals
<1>2. Nothing.list \in Seq(Entries)
  BY DEF Nothing
<1> HIDE DEF m
<1>3. QED
  BY <1>1, <1>2 DEF Restful, m

(* The end of a call. *)
LEMMA DoneRests ==
  ASSUME NEW r \in Readers, ReaderInv, NEW l \in Locals, l.since \subseteq visible, NEW p, Standing(p),
         Done(r, l), pos' = [pos EXCEPT ![r] = p]
  PROVE  \E pc, m : Moves(r, pc, m, p) /\ Consistent(pc, m, p)
<1> DEFINE m == [Asked(l) EXCEPT !.stage = "none", !.found = l.found, !.stopped = l.stopped]
<1>1. Moves(r, "done", m, p)
  BY DEF Done, Run, Moves
<1>2. m \in Locals /\ m.since = l.since /\ m.goal = "none" /\ m.stage = "none" /\ m.got = Nothing
  <2>1. l.found \in BOOLEAN /\ l.stopped \in BOOLEAN
    BY DEF Locals
  <2>2. PICK a : a = [Asked(l) EXCEPT !.stage = "none"]
    OBVIOUS
  <2>7. Asked(l) \in Locals /\ Asked(l).since = l.since /\ Asked(l).goal = "none" /\ Asked(l).got = Nothing
    BY AskedFields
  <2>3. a \in Locals /\ a.since = l.since /\ a.goal = "none" /\ a.got = Nothing /\ a.stage = "none"
    BY <2>2, <2>7 DEF Locals
  <2>4. PICK b : b = [a EXCEPT !.found = l.found]
    OBVIOUS
  <2>5. b \in Locals /\ b.since = l.since /\ b.goal = "none" /\ b.got = Nothing /\ b.stage = "none"
    BY <2>1, <2>3, <2>4 DEF Locals
  <2>6. m = [b EXCEPT !.stopped = l.stopped]
    BY <2>2, <2>4
  <2> HIDE DEF m
  <2> QED BY <2>1, <2>5, <2>6 DEF Locals
<1>3. Nothing.list \in Seq(Entries)
  BY DEF Nothing
<1> HIDE DEF m
<1>4. Restful(m)
  BY <1>2, <1>3 DEF Restful
<1>5. Consistent("done", m, p)
  BY <1>4, Resting
<1>6. QED
  BY <1>1, <1>5

LEMMA ResumeRests ==
  ASSUME NEW r \in Readers, ReaderInv, NEW l \in Locals, l.since \subseteq visible, NEW p, Standing(p),
         l.stage = "step" => l.op \in StepOps \cup {"seekprev"},
         l.stage \in {"valid", "key"} => l.op = "seekprev",
         Resume(r, l, p), pos' = [pos EXCEPT ![r] = p]
  PROVE  \E pc, m : Moves(r, pc, m, p) /\ Consistent(pc, m, p)
<1> DEFINE At(stage) == [Asked(l) EXCEPT !.stage = stage]
           Goal == \E pc, m : Moves(r, pc, m, p) /\ Consistent(pc, m, p)
<1> SUFFICES Goal
  OBVIOUS
<1>1. ASSUME NEW pc \in {"reval", "tail"}, NEW s \in {"valid", "key", "step"}, l.op = "seekprev", Run(r, pc, At(s))
      PROVE  Goal
  <2>1. Restful(At(s))
    BY <1>1, AskedRests
  <2>2. Consistent(pc, At(s), p)
    <3> HIDE DEF At
    <3> QED BY <2>1, Resting
  <2>3. Moves(r, pc, At(s), p)
    BY <1>1 DEF Run, Moves
  <2> HIDE DEF At
  <2> QED BY <2>2, <2>3
<1>2. ASSUME l.stage = "step", p # NoPosition, Run(r, IF Backward(l) THEN "step" ELSE "count", At("step"))
      PROVE  Goal
  <2> DEFINE pc == IF Backward(l) THEN "step" ELSE "count"
  <2>1. Restful(At("step")) /\ At("step").stage = "step" /\ At("step").op = l.op
    BY <1>2, AskedRests
  <2>2. Moves(r, pc, At("step"), p)
    BY <1>2 DEF Run, Moves
  <2> HIDE DEF At
  <2>3. Consistent(pc, At("step"), p)
    BY <1>2, <2>1, Resting DEF Backward
  <2> HIDE DEF pc
  <2> QED BY <2>2, <2>3
<1>3. ASSUME Done(r, l) PROVE Goal
  BY <1>3, DoneRests
<1> HIDE DEF Goal
<1>4. CASE l.stage = "user" /\ l.op = "seekprev"
  <2>1. Run(r, "reval", At("valid"))
    BY <1>4 DEF Resume
  <2> QED BY <1>1, <1>4, <2>1
<1>5. CASE l.stage = "valid"
  <2>1. IF p = NoPosition THEN Run(r, "tail", At("valid")) ELSE Run(r, "reval", At("key"))
    BY <1>5 DEF Resume
  <2> QED BY <1>1, <1>5, <2>1
<1>6. CASE l.stage = "key"
  <2>1. IF p.anchor = l.key THEN Done(r, l) ELSE Run(r, "reval", At("step"))
    BY <1>6 DEF Resume
  <2> QED BY <1>1, <1>3, <1>6, <2>1
<1>7. CASE l.stage = "step" /\ p # NoPosition
  <2>1. Run(r, IF Backward(l) THEN "step" ELSE "count", At("step"))
    BY <1>7 DEF Resume
  <2> QED BY <1>2, <1>7, <2>1
<1>8. CASE ~ (l.stage = "user" /\ l.op = "seekprev") /\ l.stage \notin {"valid", "key"}
           /\ ~ (l.stage = "step" /\ p # NoPosition)
  <2>1. Done(r, l)
    BY <1>8 DEF Resume
  <2> QED BY <1>3, <2>1
<1>9. QED
  BY <1>4, <1>5, <1>6, <1>7, <1>8

(* The local variables of a call, whatever step it is at. *)
Callful(l) ==
  /\ l \in Locals /\ l.since \subseteq visible
  /\ l.got.torn \/ l.got.list \in Seq(Entries)
  /\ l.goal \in Searches => l.target \in Entries
  /\ l.stage = "step" => l.op \in StepOps \cup {"seekprev"}
  /\ l.stage \in {"valid", "key"} => l.op = "seekprev"
  /\ Reseeks(l) => l.target \in visible

LEMMA CallOf ==
  ASSUME NEW pc, NEW l, NEW p, Consistent(pc, l, p) PROVE Callful(l) /\ Standing(p)
<1>1. Callful(l)
  BY DEF Consistent, Control, Located, Approaching, Callful
<1>2. QED
  BY <1>1, PositionStands

(* A step outside a bracket. *)
LEMMA Going ==
  ASSUME NEW pc \in Walking \cup {"open", "hop", "max", "maxkey"}, NEW l, NEW p, Callful(l), Standing(p),
         pc \in Walking => l.goal \in Searches,
         pc \in {"open", "hop"} => l.goal \in Searches \cup {"first", "last"},
         pc \in {"max", "maxkey"} => l.goal = "contains",
         pc \notin {"locate", "mapped"} => l.blk \in Joined,
         pc = "stepback" => l.blk # HeadBlock,
         pc = "compare" => l.nxt \in Joined,
         pc \in {"forward", "compare"} => low(l.blk) <= l.target,
         pc = "open" /\ l.goal = "seek" => \A e \in Wanted(l) : low(l.blk) <= e,
         pc = "hop" /\ l.goal = "seek" =>
           \A e \in Wanted(l) : \E c \in Linked : low(l.blk) < low(c) /\ low(c) <= e
  PROVE  Consistent(pc, l, p)
<1>1. Control(pc, l, p)
  BY DEF Control, Callful, Standing, Quiet, Walking, Looking
<1>2. Located(pc, l, p)
  BY DEF Located, Callful, Standing, Walking, Looking
<1>3. Bracketed(pc, l) /\ Positioned(pc, l, p)
  BY DEF Bracketed, Positioned, Standing, Walking
<1>4. Approaching(pc, l)
  BY DEF Approaching, Callful, Walking
<1>5. QED
  BY <1>1, <1>2, <1>3, <1>4 DEF Consistent

LEMMA RunMoves ==
  ASSUME ReaderInv, NEW r \in Readers, NEW pc, NEW l, Run(r, pc, l), UNCHANGED pos
  PROVE  Moves(r, pc, l, pos[r])
<1>1. pos' = [pos EXCEPT ![r] = pos[r]]
  BY DEF ReaderInv
<1>2. QED
  BY <1>1 DEF Run, Moves

(* What a call was asked does not change when its reader moves on. *)
Same(m, l) ==
  /\ m.op = l.op /\ m.key = l.key /\ m.since = l.since /\ m.from = l.from
  /\ m.target = l.target /\ m.goal = l.goal /\ m.stage = l.stage /\ m.out = l.out
  /\ m.found = l.found /\ m.stopped = l.stopped

LEMMA SetBlk ==
  ASSUME NEW l, Callful(l), NEW b \in Blocks
  PROVE  LET m == [l EXCEPT !.blk = b] IN
         Callful(m) /\ Same(m, l) /\ m.blk = b /\ m.nxt = l.nxt /\ m.v = l.v /\ m.n = l.n /\ m.got = l.got
<1> DEFINE m == [l EXCEPT !.blk = b]
<1>1. m \in Locals /\ Same(m, l) /\ m.blk = b /\ m.nxt = l.nxt /\ m.v = l.v /\ m.n = l.n /\ m.got = l.got
  BY DEF Callful, Locals, Same
<1> HIDE DEF m
<1>2. Callful(m)
  BY <1>1 DEF Callful, Same, Reseeks
<1>3. QED
  BY <1>1, <1>2 DEF m

LEMMA SetNxt ==
  ASSUME NEW l, Callful(l), NEW b \in Blocks \cup {Null}
  PROVE  LET m == [l EXCEPT !.nxt = b] IN
         Callful(m) /\ Same(m, l) /\ m.nxt = b /\ m.blk = l.blk /\ m.v = l.v /\ m.n = l.n /\ m.got = l.got
<1> DEFINE m == [l EXCEPT !.nxt = b]
<1>1. m \in Locals /\ Same(m, l) /\ m.nxt = b /\ m.blk = l.blk /\ m.v = l.v /\ m.n = l.n /\ m.got = l.got
  BY DEF Callful, Locals, Same
<1> HIDE DEF m
<1>2. Callful(m)
  BY <1>1 DEF Callful, Same, Reseeks
<1>3. QED
  BY <1>1, <1>2 DEF m

LEMMA SetV ==
  ASSUME NEW l, Callful(l), NEW v \in Nat
  PROVE  LET m == [l EXCEPT !.v = v] IN
         Callful(m) /\ Same(m, l) /\ m.v = v /\ m.blk = l.blk /\ m.n = l.n /\ m.got = l.got
<1> DEFINE m == [l EXCEPT !.v = v]
<1>1. m \in Locals /\ Same(m, l) /\ m.v = v /\ m.blk = l.blk /\ m.n = l.n /\ m.got = l.got
  BY DEF Callful, Locals, Same
<1> HIDE DEF m
<1>2. Callful(m)
  BY <1>1 DEF Callful, Same, Reseeks
<1>3. QED
  BY <1>1, <1>2 DEF m

LEMMA SetN ==
  ASSUME NEW l, Callful(l), NEW n \in Slots
  PROVE  LET m == [l EXCEPT !.n = n] IN
         Callful(m) /\ Same(m, l) /\ m.n = n /\ m.blk = l.blk /\ m.v = l.v /\ m.got = l.got
<1> DEFINE m == [l EXCEPT !.n = n]
<1>1. m \in Locals /\ Same(m, l) /\ m.n = n /\ m.blk = l.blk /\ m.v = l.v /\ m.got = l.got
  BY DEF Callful, Locals, Same
<1> HIDE DEF m
<1>2. Callful(m)
  BY <1>1 DEF Callful, Same, Reseeks
<1>3. QED
  BY <1>1, <1>2 DEF m

LEMMA SetGot ==
  ASSUME NEW l, Callful(l), NEW g \in Readings, g.torn \/ g.list \in Seq(Entries)
  PROVE  LET m == [l EXCEPT !.got = g] IN
         Callful(m) /\ Same(m, l) /\ m.got = g /\ m.blk = l.blk /\ m.v = l.v /\ m.n = l.n
<1> DEFINE m == [l EXCEPT !.got = g]
<1>1. m \in Locals /\ Same(m, l) /\ m.got = g /\ m.blk = l.blk /\ m.v = l.v /\ m.n = l.n
  BY DEF Callful, Locals, Same
<1> HIDE DEF m
<1>2. Callful(m)
  BY <1>1 DEF Callful, Same, Reseeks
<1>3. QED
  BY <1>1, <1>2 DEF m

LEMMA SetOut ==
  ASSUME NEW l, Callful(l), NEW s \in Seq(Entries)
  PROVE  LET m == [l EXCEPT !.out = s] IN
         /\ Callful(m) /\ m.out = s /\ m.op = l.op /\ m.goal = l.goal /\ m.stage = l.stage
         /\ m.since = l.since /\ m.blk = l.blk /\ m.got = l.got
<1> DEFINE m == [l EXCEPT !.out = s]
<1>1. m \in Locals /\ m.out = s /\ m.op = l.op /\ m.goal = l.goal /\ m.stage = l.stage /\ m.target = l.target
      /\ m.since = l.since /\ m.blk = l.blk /\ m.got = l.got
  BY DEF Callful, Locals
<1> HIDE DEF m
<1>2. Callful(m)
  BY <1>1 DEF Callful, Reseeks
<1>3. QED
  BY <1>1, <1>2 DEF m

LEMMA CloseKeeps ==
  ASSUME NEW l, Callful(l)
  PROVE  Callful(Close(l)) /\ Same(Close(l), l) /\ Close(l).blk = l.blk /\ Close(l).got = Nothing
<1>0. 0 \in Slots /\ Nothing \in Readings /\ Nothing.list \in Seq(Entries)
  BY NoLocalsTyped, Sizes DEF Slots, NoLocals, Nothing
<1>1. PICK a : a = [l EXCEPT !.v = 0]
  OBVIOUS
<1>2. PICK b : b = [a EXCEPT !.n = 0]
  OBVIOUS
<1>3. Callful(a) /\ Same(a, l) /\ a.blk = l.blk
  BY <1>1, SetV
<1>4. Callful(b) /\ Same(b, l) /\ b.blk = l.blk
  BY <1>0, <1>2, <1>3, SetN DEF Same
<1>5. PICK c : c = [b EXCEPT !.got = Nothing]
  OBVIOUS
<1>6. Callful(c) /\ Same(c, l) /\ c.blk = l.blk /\ c.got = Nothing
  BY <1>0, <1>4, <1>5, SetGot DEF Same
<1>7. Close(l) = c
  BY <1>1, <1>2, <1>5 DEF Close
<1>8. QED
  BY <1>6, <1>7

------------------------------------------------------------------------------
(* The readers' steps, one lemma for a few actions each. *)

Goes(r) == \E pc, l, p : Moves(r, pc, l, p) /\ Consistent(pc, l, p)

LEMMA JoinedFacts ==
  ASSUME TableInv
  PROVE  /\ Joined \subseteq 1 .. used /\ Linked \subseteq Joined /\ Joined \subseteq Blocks /\ HeadBlock \in Linked
         /\ Null \notin Joined
         /\ \A b \in Joined : /\ low(b) \in Nat /\ version[b] \in Nat /\ count[b] \in Slots
                              /\ next[b] # Null => next[b] \in Linked
                              /\ b # HeadBlock => prev[b] \in Joined /\ min_key(b) = low(b) /\ low(b) > 0
<1>1. /\ used \in Nat /\ used >= 1 /\ Linked \subseteq 1 .. used /\ Joined \subseteq 1 .. used
      /\ 1 .. used \subseteq Blocks /\ \A c \in 1 .. used : low(c) \in Nat
  BY Facts
<1>2. used - 1 >= 1 \/ wpc \notin {"splitcount", "null", "linkback", "link"}
  <2>1. Splitting => ins.b < used /\ ins.b \in 1 .. used
    BY DEF TableInv, Inserting, Splitting
  <2> QED BY <1>1, <2>1 DEF Splitting
<1>3. HeadBlock \in Linked /\ Linked \subseteq Joined
  BY <1>1, <1>2 DEF Linked, Joined, HeadBlock
<1>4. Null \notin Joined
  BY <1>1 DEF Null
<1>5. ASSUME NEW b \in Joined, next[b] # Null PROVE next[b] \in Linked
  <2>1. CASE b \in Linked
    BY <1>5, <2>1 DEF TableInv, NextOrder
  <2>2. CASE b \notin Linked
    <3>1. wpc = "link" /\ b = used
      BY <1>1, <2>2 DEF Linked, Joined
    <3>2. ins.new = used /\ next[ins.new] = next[ins.b]
      BY <3>1 DEF TableInv, Inserting, Splitting
    <3>3. ins.b \in Linked
      BY <3>1, AfterSplit
    <3> QED BY <1>5, <3>1, <3>2, <3>3 DEF TableInv, NextOrder
  <2> QED BY <2>1, <2>2
<1>6. ASSUME NEW b \in Joined, b # HeadBlock PROVE prev[b] \in Joined /\ min_key(b) = low(b) /\ low(b) > 0
  <2>1. prev[b] \in Joined
    BY <1>6 DEF TableInv, PrevOrder
  <2>2. min_key(b) = low(b) /\ low(b) > 0
    BY <1>1, <1>6, MinIsLow DEF TableInv
  <2> QED BY <2>1, <2>2
<1>7. \A b \in Joined : version[b] \in Nat /\ count[b] \in Slots
  BY <1>1 DEF TableInv, TableTypes
<1>8. QED
  BY <1>1, <1>3, <1>4, <1>5, <1>6, <1>7

(* A reader that begins at or before its target has what it wants ahead of it. *)
LEMMA BeginsBefore ==
  ASSUME NEW l, Callful(l), l.goal = "seek", NEW k \in Nat, k <= l.target
  PROVE  \A e \in Wanted(l) : k <= e
<1>1. l.target \in Nat /\ \A e \in Wanted(l) : e \in Nat /\ l.target <= e
  BY Sizes DEF Callful, Searches, Wanted, Locals
<1>2. QED
  BY <1>1

LEMMA LocateGoes ==
  ASSUME TableInv, ReaderInv, NEW r \in Readers,
         LocateFull(r) \/ LocateTrie(r) \/ LocateTail(r) \/ LocateMapped(r)
  PROVE  Goes(r)
<1>1. PICK l, p : l = loc[r] /\ p = pos[r]
  OBVIOUS
<1>2. Consistent(rpc[r], l, p) /\ rpc[r] \in {"locate", "mapped"}
  BY <1>1 DEF ReaderInv, LocateFull, LocateTrie, LocateTail, LocateMapped
<1>3. Callful(l) /\ Standing(p) /\ l.goal \in Searches /\ l.target \in Entries /\ l.target \in Nat
  <2>1. l.goal \in Searches
    BY <1>2 DEF Consistent, Control, Walking
  <2> QED BY <1>2, <2>1, CallOf, Sizes DEF Callful
<1>4. ASSUME NEW b \in Joined, low(b) <= l.target, Run(r, "open", [l EXCEPT !.blk = b]), UNCHANGED pos
      PROVE  Goes(r)
  <2>1. PICK m : m = [l EXCEPT !.blk = b]
    OBVIOUS
  <2>2. Callful(m) /\ Same(m, l) /\ m.blk = b
    BY <1>3, <2>1, JoinedFacts, SetBlk
  <2>3. m.goal = "seek" => \A e \in Wanted(m) : low(b) <= e
    BY <1>3, <1>4, <2>2, JoinedFacts, BeginsBefore DEF Same
  <2>4. Consistent("open", m, p)
    BY <1>3, <2>2, <2>3, Going DEF Same, Walking
  <2>5. Moves(r, "open", m, p)
    BY <1>1, <1>4, <2>1, RunMoves
  <2> QED BY <2>4, <2>5 DEF Goes
<1>5. ASSUME Run(r, "back", [l EXCEPT !.blk = TrieCandidate(l.target)]), UNCHANGED pos PROVE Goes(r)
  <2>1. PICK m, b : b = TrieCandidate(l.target) /\ m = [l EXCEPT !.blk = b]
    OBVIOUS
  <2>2. b \in Joined /\ b \in Blocks
    BY <1>3, <2>1, CandidateLinked, JoinedFacts DEF TableInv
  <2>3. Callful(m) /\ Same(m, l) /\ m.blk = b
    BY <1>3, <2>1, <2>2, SetBlk
  <2>4. Consistent("back", m, p)
    BY <1>3, <2>2, <2>3, Going DEF Same, Walking
  <2>5. Moves(r, "back", m, p)
    BY <1>1, <1>5, <2>1, RunMoves
  <2> QED BY <2>4, <2>5 DEF Goes
<1>6. HeadBlock \in Joined /\ low(HeadBlock) <= l.target
  BY <1>3, JoinedFacts DEF low
<1>7. CASE LocateFull(r)
  <2>1. FindLeafBlock(l.target, TRUE) \in 1 .. used /\ Covers(FindLeafBlock(l.target, TRUE), l.target)
    BY <1>3, <1>7, FindLeafBlockCovers DEF LocateFull
  <2>2. Joined = 1 .. used
    BY <1>7 DEF LocateFull, Joined
  <2> QED BY <1>1, <1>4, <1>7, <2>1, <2>2 DEF LocateFull, Covers
<1>8. CASE LocateTrie(r)
  BY <1>1, <1>4, <1>5, <1>6, <1>8 DEF LocateTrie
<1>9. CASE LocateTail(r)
  <2>1. CASE tail = HeadBlock
    BY <1>1, <1>4, <1>6, <1>9, <2>1 DEF LocateTail
  <2>2. CASE tail # HeadBlock
    <3>1. Consistent("mapped", l, p)
      BY <1>3, Going DEF Walking
    <3>2. Moves(r, "mapped", l, p)
      BY <1>1, <1>9, <2>2, RunMoves DEF LocateTail
    <3> QED BY <3>1, <3>2 DEF Goes
  <2> QED BY <2>1, <2>2
<1>10. CASE LocateMapped(r)
  BY <1>1, <1>5, <1>10 DEF LocateMapped
<1>11. QED
  BY <1>7, <1>8, <1>9, <1>10

LEMMA SettleGoes ==
  ASSUME TableInv, ReaderInv, NEW r \in Readers,
         SettleBack(r) \/ StepBack(r) \/ SettleNext(r) \/ SettleForward(r)
  PROVE  Goes(r)
<1>1. PICK l, p : l = loc[r] /\ p = pos[r]
  OBVIOUS
<1>2. Consistent(rpc[r], l, p) /\ rpc[r] \in {"back", "stepback", "forward", "compare"}
  BY <1>1 DEF ReaderInv, SettleBack, StepBack, SettleNext, SettleForward
<1>3. /\ Callful(l) /\ Standing(p) /\ l.goal \in Searches /\ l.target \in Nat
      /\ l.blk \in Joined /\ low(l.blk) \in Nat
      /\ rpc[r] = "stepback" => l.blk # HeadBlock
      /\ rpc[r] = "compare" => l.nxt \in Joined
      /\ rpc[r] \in {"forward", "compare"} => low(l.blk) <= l.target
  <2>1. l.goal \in Searches
    BY <1>2 DEF Consistent, Control, Walking
  <2>2. Callful(l) /\ Standing(p) /\ l.target \in Nat
    BY <1>2, <2>1, CallOf, Sizes DEF Callful
  <2>3. /\ l.blk \in Joined /\ (rpc[r] = "stepback" => l.blk # HeadBlock)
        /\ rpc[r] = "compare" => l.nxt \in Joined
    BY <1>2 DEF Consistent, Located, Looking
  <2>4. rpc[r] \in {"forward", "compare"} => low(l.blk) <= l.target
    BY <1>2 DEF Consistent, Approaching
  <2> QED BY <2>1, <2>2, <2>3, <2>4, JoinedFacts
<1>4. CASE SettleBack(r)
  <2>1. CASE prev[l.blk] # Null /\ min_key(l.blk) # Null /\ min_key(l.blk) > l.target
    <3>1. l.blk # HeadBlock
      BY <2>1 DEF TableInv, PrevOrder
    <3>2. Consistent("stepback", l, p)
      BY <1>3, <3>1, Going DEF Walking
    <3>3. Moves(r, "stepback", l, p)
      BY <1>1, <1>4, <2>1, RunMoves DEF SettleBack
    <3> QED BY <3>2, <3>3 DEF Goes
  <2>2. CASE ~ (prev[l.blk] # Null /\ min_key(l.blk) # Null /\ min_key(l.blk) > l.target)
    <3>1. low(l.blk) <= l.target
      <4>1. CASE l.blk = HeadBlock
        BY <1>3, <4>1 DEF low
      <4>2. CASE l.blk # HeadBlock
        <5>1. prev[l.blk] # Null /\ min_key(l.blk) = low(l.blk) /\ low(l.blk) # Null
          BY <1>3, <4>2, JoinedFacts DEF Null
        <5> QED BY <1>3, <2>2, <5>1
      <4> QED BY <4>1, <4>2
    <3>2. Consistent("forward", l, p)
      BY <1>3, <3>1, Going DEF Walking
    <3>3. Moves(r, "forward", l, p)
      BY <1>1, <1>4, <2>2, RunMoves DEF SettleBack
    <3> QED BY <3>2, <3>3 DEF Goes
  <2> QED BY <2>1, <2>2
<1>5. CASE StepBack(r)
  <2>1. PICK m, b : b = prev[l.blk] /\ m = [l EXCEPT !.blk = b]
    OBVIOUS
  <2>2. b \in Joined /\ b \in Blocks
    BY <1>3, <1>5, <2>1, JoinedFacts DEF StepBack
  <2>3. Callful(m) /\ Same(m, l) /\ m.blk = b
    BY <1>3, <2>1, <2>2, SetBlk
  <2>4. Consistent("back", m, p)
    BY <1>3, <2>2, <2>3, Going DEF Same, Walking
  <2>5. Moves(r, "back", m, p)
    BY <1>1, <1>5, <2>1, RunMoves DEF StepBack
  <2> QED BY <2>4, <2>5 DEF Goes
<1>6. CASE SettleNext(r)
  <2>0. rpc[r] = "forward"
    BY <1>6 DEF SettleNext
  <2>1. CASE next[l.blk] = Null
    <3>1. l.goal = "seek" => \A e \in Wanted(l) : low(l.blk) <= e
      BY <1>3, <2>0, BeginsBefore
    <3>2. Consistent("open", l, p)
      BY <1>3, <3>1, Going DEF Walking
    <3>3. Moves(r, "open", l, p)
      BY <1>1, <1>6, <2>1, RunMoves DEF SettleNext
    <3> QED BY <3>2, <3>3 DEF Goes
  <2>2. CASE next[l.blk] # Null
    <3>1. PICK m, b : b = next[l.blk] /\ m = [l EXCEPT !.nxt = b]
      OBVIOUS
    <3>2. b \in Joined /\ b \in Blocks
      BY <1>3, <2>2, <3>1, JoinedFacts
    <3>3. Callful(m) /\ Same(m, l) /\ m.nxt = b /\ m.blk = l.blk
      BY <1>3, <3>1, <3>2, SetNxt
    <3>4. Consistent("compare", m, p)
      BY <1>3, <2>0, <3>2, <3>3, Going DEF Same, Walking
    <3>5. Moves(r, "compare", m, p)
      BY <1>1, <1>6, <2>2, <3>1, RunMoves DEF SettleNext
    <3> QED BY <3>4, <3>5 DEF Goes
  <2> QED BY <2>1, <2>2
<1>7. CASE SettleForward(r)
  <2>0. rpc[r] = "compare" /\ l.nxt \in Joined /\ l.nxt \in Blocks /\ low(l.nxt) \in Nat
    BY <1>3, <1>7, JoinedFacts DEF SettleForward
  <2>1. CASE min_key(l.nxt) <= l.target
    <3>1. low(l.nxt) <= l.target
      <4>1. CASE l.nxt = HeadBlock
        BY <1>3, <4>1 DEF low
      <4>2. CASE l.nxt # HeadBlock
        BY <2>0, <2>1, <4>2, JoinedFacts
      <4> QED BY <4>1, <4>2
    <3>2. PICK m, o, b : b = l.nxt /\ o = [l EXCEPT !.blk = b] /\ m = [o EXCEPT !.nxt = Null]
      OBVIOUS
    <3>3. Callful(o) /\ Same(o, l) /\ o.blk = b
      BY <1>3, <2>0, <3>2, SetBlk
    <3>4. Callful(m) /\ Same(m, o) /\ m.blk = b
      <4>1. m = [o EXCEPT !.nxt = Null] /\ Null \in Blocks \cup {Null}
        BY <3>2
      <4>2. Callful(m) /\ Same(m, o) /\ m.blk = o.blk
        BY <3>3, <4>1, SetNxt
      <4> QED BY <3>3, <4>2
    <3>5. Consistent("forward", m, p)
      BY <1>3, <2>0, <3>1, <3>2, <3>3, <3>4, Going DEF Same, Walking
    <3>6. Moves(r, "forward", m, p)
      <4>1. m = [l EXCEPT !.blk = l.nxt, !.nxt = Null]
        BY <3>2
      <4>2. Run(r, "forward", m) /\ UNCHANGED pos
        BY <1>1, <1>7, <2>1, <4>1 DEF SettleForward
      <4> QED BY <1>1, <4>2, RunMoves
    <3> QED BY <3>5, <3>6 DEF Goes
  <2>2. CASE ~ (min_key(l.nxt) <= l.target)
    <3>1. PICK m : m = [l EXCEPT !.nxt = Null]
      OBVIOUS
    <3>2. Callful(m) /\ Same(m, l) /\ m.blk = l.blk
      BY <1>3, <3>1, SetNxt
    <3>3. m.goal = "seek" => \A e \in Wanted(m) : low(m.blk) <= e
      BY <1>3, <2>0, <3>2, BeginsBefore DEF Same
    <3>4. Consistent("open", m, p)
      BY <1>3, <3>2, <3>3, Going DEF Same, Walking
    <3>5. Moves(r, "open", m, p)
      BY <1>1, <1>7, <2>2, <3>1, RunMoves DEF SettleForward
    <3> QED BY <3>4, <3>5 DEF Goes
  <2> QED BY <2>1, <2>2
<1>8. QED
  BY <1>4, <1>5, <1>6, <1>7

LEMMA SetGoal ==
  ASSUME NEW l, Callful(l), NEW g \in Searches \cup {"first", "last"},
         g \in Searches => l.target \in Entries,
         g = "seek" /\ (l.stage # "user" \/ l.op = "valid") => l.target \in visible
  PROVE  LET m == [l EXCEPT !.goal = g] IN
         /\ Callful(m) /\ m.goal = g /\ m.blk = l.blk /\ m.op = l.op /\ m.stage = l.stage
         /\ m.target = l.target /\ m.got = l.got /\ m.since = l.since
<1> DEFINE m == [l EXCEPT !.goal = g]
<1>1. /\ m \in Locals /\ m.goal = g /\ m.blk = l.blk /\ m.op = l.op /\ m.stage = l.stage
      /\ m.target = l.target /\ m.got = l.got /\ m.since = l.since
  BY DEF Callful, Locals, Searches
<1> HIDE DEF m
<1>2. Callful(m)
  BY <1>1 DEF Callful, Reseeks
<1>3. QED
  BY <1>1, <1>2 DEF m

LEMMA EmptyCall == Callful(NoLocals) /\ Restful(NoLocals)
<1>1. /\ NoLocals \in Locals /\ NoLocals.since = {} /\ NoLocals.got.list = << >> /\ NoLocals.goal = "none"
      /\ NoLocals.stage = "none"
  BY NoLocalsTyped DEF NoLocals, Nothing
<1>2. QED
  BY <1>1 DEF Callful, Restful, Reseeks, Searches

LEMMA BeginGoes ==
  ASSUME TableInv, ReaderInv, NEW r \in Readers, NEW op \in Ops, NEW key \in Entries \cup {Null},
         Begin(r, op, key)
  PROVE  Goes(r)
<1> DEFINE s == IF op \in StepOps THEN "step" ELSE "user"
           l == [NoLocals EXCEPT !.op = op, !.key = key, !.target = key,
                                 !.since = visible, !.from = pos[r].anchor, !.stage = s]
<1>1. PICK p : p = pos[r]
  OBVIOUS
<1>2. Consistent(rpc[r], loc[r], p)
  BY <1>1 DEF ReaderInv
<1>3. Standing(p) /\ visible \in SUBSET Entries /\ p.anchor \in Entries \cup {Null}
  <2>1. Standing(p) /\ visible \in SUBSET Entries
    BY <1>2, PositionStands DEF TableInv, TableTypes
  <2>2. p = NoPosition \/ p \in Positions
    BY <2>1 DEF Standing
  <2> QED BY <2>1, <2>2 DEF NoPosition, Positions, Null
<1>4. /\ l \in Locals /\ l.op = op /\ l.target = key /\ l.since = visible /\ l.stage = s
      /\ l.goal = "none" /\ l.got = Nothing
  <2>1. PICK a : a = [NoLocals EXCEPT !.op = op]
    OBVIOUS
  <2>2. PICK b : b = [a EXCEPT !.key = key]
    OBVIOUS
  <2>3. PICK c : c = [b EXCEPT !.target = key]
    OBVIOUS
  <2>4. PICK d : d = [c EXCEPT !.since = visible]
    OBVIOUS
  <2>5. PICK e : e = [d EXCEPT !.from = p.anchor]
    OBVIOUS
  <2>6. a \in Locals /\ a.op = op /\ a.goal = "none" /\ a.got = Nothing
    BY <2>1, NoLocalsTyped DEF Locals, NoLocals
  <2>7. b \in Locals /\ b.op = op /\ b.goal = "none" /\ b.got = Nothing
    BY <2>2, <2>6 DEF Locals
  <2>8. c \in Locals /\ c.op = op /\ c.goal = "none" /\ c.got = Nothing /\ c.target = key
    BY <2>3, <2>7 DEF Locals
  <2>9. d \in Locals /\ d.op = op /\ d.goal = "none" /\ d.got = Nothing /\ d.target = key /\ d.since = visible
    BY <1>3, <2>4, <2>8 DEF Locals
  <2>10. e \in Locals /\ e.op = op /\ e.goal = "none" /\ e.got = Nothing /\ e.target = key /\ e.since = visible
    BY <1>3, <2>5, <2>9 DEF Locals
  <2>11. l = [e EXCEPT !.stage = s]
    BY <1>1, <2>1, <2>2, <2>3, <2>4, <2>5
  <2>12. s \in {"none", "user", "valid", "key", "step"}
    OBVIOUS
  <2> HIDE DEF l, s
  <2> QED BY <2>10, <2>11, <2>12 DEF Locals
<1>5. (s = "step" => op \in StepOps) /\ s \notin {"valid", "key"} /\ Nothing.list \in Seq(Entries)
  BY DEF Nothing
<1>6. s = "user" \/ op \in StepOps
  OBVIOUS
<1>7. /\ key # Null <=> op \in KeyOps
      /\ CASE op \in {"get", "contains"} -> Run(r, "locate", [l EXCEPT !.goal = op])
           [] op \in {"seek", "seekprev"} -> Run(r, "locate", [l EXCEPT !.goal = "seek"])
           [] op = "first" -> Run(r, "open", [l EXCEPT !.goal = "first", !.blk = HeadBlock])
           [] op = "last" -> Run(r, "tail", l)
           [] OTHER -> Run(r, "reval", l)
      /\ UNCHANGED pos
  BY DEF Begin
<1> HIDE DEF l, s
<1>8. Callful(l) /\ Restful(l)
  BY <1>4, <1>5 DEF Callful, Restful, Reseeks, Searches
<1>9. ASSUME NEW g \in Searches, g = "seek" => op \in {"seek", "seekprev"}, op \in KeyOps,
             Run(r, "locate", [l EXCEPT !.goal = g])
      PROVE  Goes(r)
  <2>1. PICK m : m = [l EXCEPT !.goal = g]
    OBVIOUS
  <2>2. op \notin StepOps /\ op # "valid" /\ key \in Entries
    BY <1>7, <1>9 DEF KeyOps, StepOps
  <2>3. Callful(m) /\ m.goal = g
    BY <1>4, <1>6, <1>8, <2>1, <2>2, SetGoal
  <2>4. Consistent("locate", m, p)
    BY <1>3, <2>3, Going DEF Walking
  <2>5. Moves(r, "locate", m, p)
    BY <1>1, <1>7, <1>9, <2>1, RunMoves
  <2> QED BY <2>4, <2>5 DEF Goes
<1>10. CASE op \in {"get", "contains"}
  <2>1. Run(r, "locate", [l EXCEPT !.goal = op])
    BY <1>7, <1>10
  <2> QED BY <1>9, <1>10, <2>1 DEF Searches, KeyOps
<1>11. CASE op \in {"seek", "seekprev"}
  <2>1. Run(r, "locate", [l EXCEPT !.goal = "seek"])
    BY <1>7, <1>11
  <2> QED BY <1>9, <1>11, <2>1 DEF Searches, KeyOps
<1>12. CASE op = "first"
  <2>1. Run(r, "open", [l EXCEPT !.goal = "first", !.blk = HeadBlock])
    BY <1>7, <1>12
  <2>2. PICK m, o : o = [l EXCEPT !.goal = "first"] /\ m = [o EXCEPT !.blk = HeadBlock]
    OBVIOUS
  <2>3. Callful(o) /\ o.goal = "first"
    <3>1. "first" \in Searches \cup {"first", "last"} /\ "first" \notin Searches
      BY DEF Searches
    <3>2. o = [l EXCEPT !.goal = "first"]
      BY <2>2
    <3> QED BY <1>8, <3>1, <3>2, SetGoal
  <2>4. HeadBlock \in Joined /\ HeadBlock \in Blocks
    BY JoinedFacts
  <2>5. Callful(m) /\ Same(m, o) /\ m.blk = HeadBlock
    <3>1. m = [o EXCEPT !.blk = HeadBlock]
      BY <2>2
    <3> QED BY <2>3, <2>4, <3>1, SetBlk
  <2>6. Consistent("open", m, p)
    BY <1>3, <2>3, <2>4, <2>5, Going DEF Same, Walking, Searches
  <2>7. Run(r, "open", m)
    BY <2>1, <2>2
  <2>8. Moves(r, "open", m, p)
    BY <1>1, <1>7, <2>7, RunMoves
  <2> QED BY <2>6, <2>8 DEF Goes
<1>13. CASE op \notin {"get", "contains", "seek", "seekprev", "first"}
  <2>1. PICK pc \in {"tail", "reval"} : Run(r, pc, l)
    BY <1>7, <1>13
  <2>2. Consistent(pc, l, p)
    BY <1>3, <1>8, <2>1, Resting
  <2>3. Moves(r, pc, l, p)
    BY <1>1, <1>7, <2>1, RunMoves
  <2> QED BY <2>2, <2>3 DEF Goes
<1>14. QED
  BY <1>10, <1>11, <1>12, <1>13

LEMMA OutsideGoes ==
  ASSUME TableInv, ReaderInv, NEW r \in Readers,
         Leave(r) \/ GetIterator(r) \/ LoadTail(r) \/ Revalidate(r)
  PROVE  Goes(r)
<1>1. PICK l, p : l = loc[r] /\ p = pos[r]
  OBVIOUS
<1>2. Consistent(rpc[r], l, p)
  BY <1>1 DEF ReaderInv
<1>3. Callful(l) /\ Standing(p)
  BY <1>2, CallOf
<1>4. CASE Leave(r)
  <2>1. Consistent("idle", NoLocals, p)
    BY <1>3, EmptyCall, Resting
  <2>2. Moves(r, "idle", NoLocals, p)
    BY <1>1, <1>4, RunMoves DEF Leave
  <2> QED BY <2>1, <2>2 DEF Goes
<1>5. CASE GetIterator(r)
  <2>1. rpc[r] = "idle" /\ Place(r, NoPosition) /\ UNCHANGED <<rpc, loc>>
    BY <1>5 DEF GetIterator
  <2>2. Consistent("idle", l, NoPosition)
    BY <1>2, <2>1 DEF Consistent, Control, Located, Looking, Bracketed, Positioned, Approaching
  <2>3. Moves(r, "idle", l, NoPosition)
    BY <1>1, <2>1 DEF Moves, Place, ReaderInv
  <2> QED BY <2>2, <2>3 DEF Goes
<1>6. CASE LoadTail(r)
  <2>1. PICK m, o : o = [l EXCEPT !.goal = "last"] /\ m = [o EXCEPT !.blk = tail]
    OBVIOUS
  <2>2. Callful(o) /\ o.goal = "last"
    <3>1. "last" \in Searches \cup {"first", "last"} /\ "last" \notin Searches
      BY DEF Searches
    <3>2. o = [l EXCEPT !.goal = "last"]
      BY <2>1
    <3> QED BY <1>3, <3>1, <3>2, SetGoal
  <2>3. tail \in Joined /\ tail \in Blocks
    BY DEF TableInv, PrevOrder, TableTypes
  <2>4. Callful(m) /\ Same(m, o) /\ m.blk = tail
    <3>1. m = [o EXCEPT !.blk = tail]
      BY <2>1
    <3> QED BY <2>2, <2>3, <3>1, SetBlk
  <2>5. Consistent("open", m, p)
    BY <1>3, <2>2, <2>3, <2>4, Going DEF Same, Walking, Searches
  <2>6. Run(r, "open", m) /\ UNCHANGED pos
    BY <1>1, <1>6, <2>1 DEF LoadTail
  <2>7. Moves(r, "open", m, p)
    BY <1>1, <2>6, RunMoves
  <2> QED BY <2>5, <2>7 DEF Goes
<1>7. CASE Revalidate(r)
  <2>1. CASE p = NoPosition \/ version[p.leaf] = p.ver
    <3>1. Resume(r, l, p) /\ pos' = [pos EXCEPT ![r] = p]
      BY <1>1, <1>7, <2>1 DEF Revalidate, ReaderInv
    <3>2. /\ l \in Locals /\ l.since \subseteq visible
          /\ l.stage = "step" => l.op \in StepOps \cup {"seekprev"}
          /\ l.stage \in {"valid", "key"} => l.op = "seekprev"
      BY <1>3 DEF Callful
    <3> QED BY <1>3, <3>1, <3>2, ResumeRests DEF Goes
  <2>2. CASE ~ (p = NoPosition \/ version[p.leaf] = p.ver)
    <3>1. p.anchor \in Entries /\ p.anchor \in visible
      BY <1>3, <2>2 DEF Standing, Positions
    <3>2. PICK o : o = [l EXCEPT !.target = p.anchor]
      OBVIOUS
    <3>3. Callful(o) /\ o.target = p.anchor
      <4>1. /\ o \in Locals /\ o.target = p.anchor /\ o.since = l.since /\ o.got = l.got
            /\ o.stage = l.stage /\ o.op = l.op
        BY <1>3, <3>1, <3>2 DEF Callful, Locals
      <4> QED BY <1>3, <3>1, <4>1 DEF Callful
    <3>4. PICK m : m = [o EXCEPT !.goal = "seek"]
      OBVIOUS
    <3>5. Callful(m) /\ m.goal = "seek"
      <4>1. "seek" \in Searches \cup {"first", "last"}
        BY DEF Searches
      <4> QED BY <3>1, <3>3, <3>4, <4>1, SetGoal
    <3>6. Consistent("locate", m, p)
      BY <1>3, <3>5, Going DEF Walking, Searches
    <3>7. Run(r, "locate", m) /\ UNCHANGED pos
      BY <1>1, <1>7, <2>2, <3>2, <3>4 DEF Revalidate
    <3>8. Moves(r, "locate", m, p)
      BY <1>1, <3>7, RunMoves
    <3> QED BY <3>6, <3>8 DEF Goes
  <2> QED BY <2>1, <2>2
<1>8. QED
  BY <1>4, <1>5, <1>6, <1>7

------------------------------------------------------------------------------
(* The brackets: what is read in them. *)

LEMMA LowIsLeast ==
  ASSUME TableInv, NEW b \in 1 .. used, NEW j \in Owned(b)
  PROVE  low(b) <= entries[b][j]
<1>1. /\ entries[b][j] \in Nat /\ low(b) \in Nat /\ count[b] \in Nat
      /\ b # HeadBlock => low(b) = entries[b][0] /\ count[b] > 0
  BY Facts
<1>2. CASE b = HeadBlock
  BY <1>1, <1>2 DEF low
<1>3. CASE b # HeadBlock
  <2>1. 0 \in Owned(b)
    <3>1. CASE b = ins.b /\ wpc = "shift"
      <4>1. ins.left > 0 /\ ins.i >= ins.left
        BY <1>3, <3>1 DEF TableInv, Inserting
      <4>2. ins.i # 0
        BY <3>1, <4>1, WriterFacts
      <4> QED BY <1>1, <3>1, <4>2 DEF Owned
    <3>2. CASE b = ins.b /\ wpc = "splitcount"
      <4>1. ins.i > 0 /\ ins.i \in Nat
        BY <1>3, <3>2, WriterFacts DEF TableInv, Inserting
      <4> QED BY <1>1, <3>2, <4>1 DEF Owned
    <3>3. CASE b = ins.b /\ wpc = "count"
      BY <1>1, <3>3 DEF Owned
    <3>4. CASE ~ (b = ins.b /\ wpc \in {"shift", "count", "splitcount"})
      <4>1. Owned(b) = 0 .. count[b] - 1
        BY <3>4 DEF Owned
      <4> QED BY <1>1, <1>3, <4>1
    <3> QED BY <3>1, <3>2, <3>3, <3>4
  <2>2. j \in Nat
    <3>1. Owned(b) \subseteq Nat
      BY DEF Owned
    <3> QED BY <3>1
  <2>3. j = 0 \/ 0 < j
    BY <2>2
  <2>4. entries[b][0] = entries[b][j] \/ entries[b][0] < entries[b][j]
    BY <2>1, <2>3 DEF TableInv, Sorted
  <2> QED BY <1>1, <1>3, <2>4
<1>4. QED
  BY <1>2, <1>3

(* No entry is in two blocks. *)
LEMMA OwnedOnce ==
  ASSUME TableInv, NEW b \in 1 .. used, NEW c \in 1 .. used, NEW i \in Owned(b), NEW j \in Owned(c),
         low(b) < low(c)
  PROVE  entries[b][i] < entries[c][j]
<1>1. entries[b][i] < low(c)
  BY DEF TableInv, Ordered
<1>2. low(c) <= entries[c][j]
  BY LowIsLeast
<1>3. entries[b][i] \in Nat /\ entries[c][j] \in Nat /\ low(c) \in Nat
  BY Facts
<1>4. QED
  BY <1>1, <1>2, <1>3

(* A block whose version is even holds inserted entries, in order. *)
LEMMA StableBlock ==
  ASSUME TableInv, NEW b \in 1 .. used, version[b] % 2 = 0
  PROVE  /\ Owned(b) = 0 .. count[b] - 1 /\ count[b] \in Nat /\ count[b] \in Slots
         /\ \A i \in 0 .. count[b] - 1 :
              /\ entries[b][i] \in Entries /\ entries[b][i] \in Nat \ {0} /\ entries[b][i] \in visible
              /\ \A j \in 0 .. count[b] - 1 : i < j => entries[b][i] < entries[b][j]
<1>1. ~ (Modifying /\ b = ins.b)
  BY Facts DEF TableInv, Parity
<1>2. Owned(b) = 0 .. count[b] - 1
  BY <1>1 DEF Owned, Modifying, Splitting
<1>3. count[b] \in Nat /\ count[b] \in Slots
  BY Facts DEF TableInv, TableTypes
<1>4. ASSUME NEW i \in Owned(b) PROVE entries[b][i] \in visible
  <2> SUFFICES ASSUME wpc \in {"count", "close"}, entries[b][i] = ins.e PROVE FALSE
    BY DEF TableInv, Contents
  <2>1. b # ins.b /\ ins.b \in 1 .. used /\ wpc # "idle"
    BY <1>1 DEF Modifying, TableInv, Inserting
  <2>2. ins.left \in Owned(ins.b) /\ entries[ins.b][ins.left] = ins.e
    <3>1. /\ ins.left \in 0 .. count[ins.b] /\ (wpc = "close" => ins.left < count[ins.b])
          /\ entries[ins.b][ins.left] = ins.e /\ count[ins.b] \in Nat
      BY <2>1, WriterFacts DEF TableInv, Inserting
    <3> QED BY <3>1 DEF Owned
  <2>3. low(b) \in Nat /\ low(ins.b) \in Nat /\ low(b) # low(ins.b) /\ ins.e \in Nat
    BY <2>1, Facts, WriterFacts DEF TableInv, Distinct
  <2>4. CASE low(b) < low(ins.b)
    <3>1. entries[b][i] < entries[ins.b][ins.left]
      BY <2>1, <2>2, <2>4, OwnedOnce
    <3> QED BY <2>2, <2>3, <3>1
  <2>5. CASE low(ins.b) < low(b)
    <3>1. entries[ins.b][ins.left] < entries[b][i]
      BY <2>1, <2>2, <2>5, OwnedOnce
    <3> QED BY <2>2, <2>3, <3>1
  <2> QED BY <2>3, <2>4, <2>5
<1>5. \A i \in Owned(b) : entries[b][i] \in Entries /\ \A j \in Owned(b) : i < j => entries[b][i] < entries[b][j]
  BY DEF TableInv, Sorted
<1>6. \A i \in Owned(b) : entries[b][i] \in Nat \ {0}
  BY <1>5, Sizes
<1>7. QED
  BY <1>2, <1>3, <1>4, <1>5, <1>6

LEMMA EntryAtReads ==
  ASSUME TableInv, NEW b \in Blocks, NEW s \in Int, NEW n \in Slots
  PROVE  /\ EntryAt(b, s, n) \in Readings /\ EntryAt(b, s, n).list = << >> /\ EntryAt(b, s, n).slot = s
         /\ EntryAt(b, s, n).at = IF s \in 0 .. n - 1 THEN entries[b][s] ELSE Null
         /\ s \in 0 .. n - 1 => s \in Slots
<1>1. s \in 0 .. n - 1 => s \in Slots /\ entries[b][s] \in Entries \cup {Null}
  <2>1. s \in 0 .. n - 1 => s \in Slots
    BY Sizes DEF Slots
  <2> QED BY <2>1 DEF TableInv, TableTypes
<1>2. PICK at, torn : /\ at = (IF s \in 0 .. n - 1 THEN entries[b][s] ELSE Null)
                      /\ torn = (s \in 0 .. n - 1 /\ entries[b][s] = Null)
  OBVIOUS
<1>3. at \in Entries \cup {Null} /\ torn \in BOOLEAN
  BY <1>1, <1>2
<1>4. PICK c, d : c = [Nothing EXCEPT !.slot = s] /\ d = [c EXCEPT !.at = at]
  OBVIOUS
<1>5. c \in Readings /\ c.list = << >> /\ c.slot = s
  BY <1>4, NoLocalsTyped DEF NoLocals, Nothing, Readings
<1>6. d \in Readings /\ d.list = << >> /\ d.slot = s /\ d.at = at
  BY <1>3, <1>4, <1>5 DEF Readings
<1>7. EntryAt(b, s, n) = [d EXCEPT !.torn = torn]
  BY <1>2, <1>4 DEF EntryAt
<1>8. QED
  BY <1>1, <1>2, <1>3, <1>6, <1>7 DEF Readings

(* The entry that a reading names is in the slot that it names. *)
Exact(g, b, n) == g.at # Null => g.slot \in 0 .. n - 1 /\ entries[b][g.slot] = g.at

LEMMA SoughtReads ==
  ASSUME TableInv, NEW b \in Blocks, NEW n \in Slots, NEW k
  PROVE  /\ Sought(b, n, k) \in Readings /\ Sought(b, n, k).list \in Seq(Entries) /\ Exact(Sought(b, n, k), b, n)
         /\ Sought(b, n, k).list = << >>
         /\ LET s == BinarySearch(b, n, k, FALSE) IN
            Sought(b, n, k).at = IF s \in 0 .. n - 1 THEN entries[b][s] ELSE Null
<1>1. PICK s : s = BinarySearch(b, n, k, FALSE)
  OBVIOUS
<1>2. n \in Nat /\ s \in Int
  <2>1. n \in Nat
    BY Sizes DEF Slots
  <2>2. s \in 0 .. n \cup {-1}
    BY <1>1, BinarySearchType, Sizes
  <2> QED BY <2>1, <2>2
<1>3. PICK x : x = EntryAt(b, s, n)
  OBVIOUS
<1>4. x \in Readings /\ x.list = << >> /\ x.slot = s /\ x.at = IF s \in 0 .. n - 1 THEN entries[b][s] ELSE Null
  BY <1>2, <1>3, EntryAtReads
<1>5. PICK torn : torn = (x.torn \/ s = -1)
  OBVIOUS
<1>6. torn \in BOOLEAN
  BY <1>5
<1>7. Sought(b, n, k) = [x EXCEPT !.torn = torn]
  BY <1>1, <1>3, <1>4, <1>5 DEF Sought, Readings
<1>8. /\ Sought(b, n, k) \in Readings /\ Sought(b, n, k).list = << >> /\ Sought(b, n, k).slot = s
      /\ Sought(b, n, k).at = x.at
  BY <1>4, <1>6, <1>7 DEF Readings
<1>9. << >> \in Seq(Entries)
  OBVIOUS
<1>10. QED
  BY <1>1, <1>4, <1>8, <1>9 DEF Exact

LEMMA MatchesReads ==
  ASSUME TableInv, NEW l, Callful(l), l.blk \in Blocks
  PROVE  /\ Matches(l) \in Readings /\ (Matches(l).torn \/ Matches(l).list \in Seq(Entries))
         /\ Exact(Matches(l), l.blk, l.n)
<1>1. PICK e, s, n : e = entries[l.blk] /\ s = FirstMatch(l) /\ n = l.n
  OBVIOUS
<1>2. n \in Slots /\ n \in Nat /\ s \in 0 .. n \cup {-1}
  <2>1. n \in Slots /\ n \in Nat
    BY <1>1, Sizes DEF Callful, Locals, Slots
  <2> QED BY <1>1, <2>1, BinarySearchType, Sizes DEF FirstMatch
<1> DEFINE ends == {i \in s .. n - 1 : e[i] = Null \/ UserOf[e[i]] # UserOf[l.key]}
<1>3. PICK end : end = IF ends = {} THEN n ELSE CHOOSE i \in ends : \A j \in ends : i <= j
  OBVIOUS
<1>4. CASE s = -1
  <2>1. Matches(l) = [Nothing EXCEPT !.torn = TRUE]
    BY <1>1, <1>4 DEF Matches
  <2> QED BY <2>1, NoLocalsTyped DEF NoLocals, Nothing, Readings, Exact
<1>5. CASE s # -1
  <2>1. s \in Nat /\ s <= n
    BY <1>2, <1>5
  <2>2. end \in s .. n /\ \A i \in s .. end - 1 : i \notin ends
    <3>1. CASE ends = {}
      BY <1>2, <1>3, <2>1, <3>1
    <3>2. CASE ends # {}
      <4>1. ends \subseteq Nat
        BY <2>1
      <4>2. \E i \in ends : \A j \in ends : i <= j
        <5> HIDE DEF ends
        <5> QED BY <3>2, <4>1, LeastElement
      <4>3. end \in ends /\ \A j \in ends : end <= j
        BY <1>3, <3>2, <4>2
      <4> QED BY <1>2, <2>1, <4>1, <4>3
    <3> QED BY <3>1, <3>2
  <2>3. PICK x : x = EntryAt(l.blk, end, n)
    OBVIOUS
  <2>4. /\ x \in Readings /\ x.slot = end
        /\ x.at = IF end \in 0 .. n - 1 THEN entries[l.blk][end] ELSE Null
    BY <1>2, <2>1, <2>2, <2>3, EntryAtReads
  <2>5. PICK list : list = [i \in 1 .. end - s |-> e[s + i - 1]]
    OBVIOUS
  <2>6. list \in Seq(Entries)
    <3>1. ASSUME NEW i \in 1 .. end - s PROVE e[s + i - 1] \in Entries
      <4>0. end \in s .. n
        BY <2>2
      <4>1. s + i - 1 \in s .. end - 1 /\ s + i - 1 \in s .. n - 1
        <5> HIDE DEF ends
        <5> QED BY <1>2, <2>1, <4>0
      <4>2. s + i - 1 \in Slots
        <5> HIDE DEF ends
        <5> QED BY <1>2, <2>1, <4>1, Sizes DEF Slots
      <4>3. e[s + i - 1] # Null
        BY <2>2, <4>1
      <4>4. e[s + i - 1] \in Entries \cup {Null}
        <5> HIDE DEF ends
        <5> QED BY <1>1, <4>2 DEF TableInv, TableTypes
      <4> QED BY <4>3, <4>4
    <3>2. end - s \in Nat
      <4>1. end \in s .. n
        BY <2>2
      <4> HIDE DEF ends
      <4> QED BY <1>2, <2>1, <4>1
    <3>3. list \in [1 .. end - s -> Entries]
      <4> HIDE DEF ends
      <4> QED BY <2>5, <3>1
    <3> HIDE DEF ends
    <3> QED BY <3>2, <3>3
  <2>7. list \in Seq(Entries \cup {Null})
    <3>1. Seq(Entries) \subseteq Seq(Entries \cup {Null})
      BY SMTT(20)
    <3> HIDE DEF ends
    <3> QED BY <2>6, <3>1
  <2>8. Matches(l) = [x EXCEPT !.list = list]
    BY <1>1, <1>3, <1>5, <2>3, <2>5 DEF Matches
  <2> HIDE DEF ends
  <2> QED BY <1>1, <2>4, <2>6, <2>7, <2>8 DEF Readings, Exact
<1>6. QED
  BY <1>4, <1>5

LEMMA BracketReads ==
  ASSUME TableInv, NEW l, Callful(l), l.blk \in Blocks, l.goal \in Searches \cup {"first", "last"}
  PROVE  /\ Bracket(l) \in Readings /\ (Bracket(l).torn \/ Bracket(l).list \in Seq(Entries))
         /\ Exact(Bracket(l), l.blk, l.n)
<1>1. l.n \in Slots /\ l.n \in Nat
  BY Sizes DEF Callful, Locals, Slots
<1>2. CASE l.goal = "get"
  <2>1. Bracket(l) = Matches(l)
    BY <1>2 DEF Bracket
  <2> QED BY <2>1, MatchesReads
<1>3. CASE l.goal \in {"contains", "seek"}
  <2>1. Bracket(l) = Sought(l.blk, l.n, l.target)
    BY <1>3, Zenon DEF Bracket
  <2>2. PICK g : g = Sought(l.blk, l.n, l.target)
    OBVIOUS
  <2>3. g \in Readings /\ g.list \in Seq(Entries) /\ Exact(g, l.blk, l.n)
    BY <1>1, <2>2, SoughtReads
  <2> QED BY <2>1, <2>2, <2>3
<1>4. ASSUME NEW s \in {0, l.n - 1}, Bracket(l) = EntryAt(l.blk, s, l.n)
      PROVE  /\ Bracket(l) \in Readings /\ (Bracket(l).torn \/ Bracket(l).list \in Seq(Entries))
             /\ Exact(Bracket(l), l.blk, l.n)
  <2>1. s \in Int
    BY <1>1
  <2>2. << >> \in Seq(Entries)
    OBVIOUS
  <2>3. /\ Bracket(l) \in Readings /\ Bracket(l).list = << >> /\ Bracket(l).slot = s
        /\ Bracket(l).at = IF s \in 0 .. l.n - 1 THEN entries[l.blk][s] ELSE Null
    BY <1>1, <1>4, <2>1, EntryAtReads
  <2> QED BY <2>2, <2>3 DEF Exact
<1>5. CASE l.goal = "first"
  <2>1. Bracket(l) = EntryAt(l.blk, 0, l.n)
    BY <1>5 DEF Bracket
  <2> QED BY <1>4, <2>1
<1>6. CASE l.goal = "last"
  <2>1. Bracket(l) = EntryAt(l.blk, l.n - 1, l.n)
    BY <1>6 DEF Bracket
  <2> QED BY <1>4, <2>1
<1>7. QED
  BY <1>2, <1>3, <1>5, <1>6 DEF Searches

(* In a block whose version is even, a seek's bracket finds the first entry from
   the target on. *)
LEMMA SeekFinds ==
  ASSUME TableInv, NEW b \in 1 .. used, version[b] % 2 = 0, NEW k \in Nat, NEW at,
         at = Sought(b, count[b], k).at
  PROVE  /\ at # Null => k <= at
         /\ \A i \in 0 .. count[b] - 1 : k <= entries[b][i] => at # Null /\ at <= entries[b][i]
<1>1. PICK n, s : n = count[b] /\ s = BinarySearch(b, n, k, FALSE)
  OBVIOUS
<1>2. /\ n \in Nat /\ n \in Slots /\ b \in Blocks
      /\ \A i \in 0 .. n - 1 : /\ entries[b][i] \in Nat \ {0}
                               /\ \A j \in 0 .. n - 1 : i < j => entries[b][i] < entries[b][j]
  BY <1>1, StableBlock, Facts
<1>3. /\ s \in 0 .. n
      /\ \A i \in 0 .. s - 1 : ~ Above(entries[b][i], k, FALSE)
      /\ \A i \in s .. n - 1 : Above(entries[b][i], k, FALSE)
  BY <1>1, <1>2, BinarySearchFinds, Sizes
<1>4. at = IF s \in 0 .. n - 1 THEN entries[b][s] ELSE Null
  BY <1>1, <1>2, SoughtReads
<1>5. at # Null => k <= at
  <2> SUFFICES ASSUME at # Null PROVE k <= at
    OBVIOUS
  <2>1. s \in s .. n - 1 /\ s \in 0 .. n - 1 /\ at = entries[b][s]
    BY <1>2, <1>3, <1>4
  <2> QED BY <1>2, <1>3, <2>1 DEF Above
<1>6. ASSUME NEW i \in 0 .. n - 1, k <= entries[b][i] PROVE at # Null /\ at <= entries[b][i]
  <2>1. i \notin 0 .. s - 1
    BY <1>2, <1>3, <1>6 DEF Above
  <2>2. s \in 0 .. n - 1 /\ (i = s \/ s < i) /\ entries[b][s] \in Nat \ {0} /\ entries[b][i] \in Nat
    BY <1>2, <1>3, <2>1
  <2>3. at = entries[b][s]
    BY <1>4, <2>2
  <2>4. entries[b][s] = entries[b][i] \/ entries[b][s] < entries[b][i]
    BY <1>2, <2>2
  <2> QED BY <2>2, <2>3, <2>4 DEF Null
<1>7. QED
  BY <1>1, <1>5, <1>6

(* A step inside a bracket. *)
LEMMA Bracing ==
  ASSUME NEW pc \in {"read", "check"}, NEW l, NEW p, Callful(l), Standing(p),
         l.goal \in Searches \cup {"first", "last"}, l.blk \in Joined, Bracketed(pc, l),
         l.goal = "seek" => \A e \in Wanted(l) : low(l.blk) <= e
  PROVE  Consistent(pc, l, p)
<1>1. Control(pc, l, p)
  BY DEF Control, Callful, Standing, Quiet, Walking, Looking
<1>2. Located(pc, l, p)
  BY DEF Located, Callful, Standing, Walking, Looking
<1>3. Positioned(pc, l, p)
  BY DEF Positioned, Standing
<1>4. Approaching(pc, l)
  BY DEF Approaching, Callful
<1>5. QED
  BY <1>1, <1>2, <1>3, <1>4 DEF Consistent

(* What a reader in a bracket, or about to open one, or about to leave its block, has. *)
LEMMA LookingFacts ==
  ASSUME TableInv, ReaderInv, NEW r \in Readers, NEW l, NEW p, l = loc[r], p = pos[r],
         rpc[r] \in Looking \cup {"max", "maxkey"}
  PROVE  /\ Callful(l) /\ Standing(p) /\ l.goal \in Searches \cup {"first", "last"}
         /\ l.blk \in Joined /\ l.blk \in Blocks /\ l.blk \in 1 .. used /\ low(l.blk) \in Nat
         /\ l.n \in Slots /\ l.v \in Nat
         /\ Bracketed(rpc[r], l)
         /\ rpc[r] \in {"max", "maxkey"} => l.goal = "contains"
         /\ rpc[r] \in {"open", "read", "check"} /\ l.goal = "seek" =>
              \A e \in Wanted(l) : low(l.blk) <= e
         /\ rpc[r] = "hop" /\ l.goal = "seek" =>
              \A e \in Wanted(l) : \E c \in Linked : low(l.blk) < low(c) /\ low(c) <= e
<1>1. Consistent(rpc[r], l, p)
  BY DEF ReaderInv
<1>2. Callful(l) /\ Standing(p)
  BY <1>1, CallOf
<1>3. l.goal \in Searches \cup {"first", "last"}
  BY <1>1 DEF Consistent, Control, Searches
<1>4. rpc[r] \in {"max", "maxkey"} => l.goal = "contains"
  BY <1>1 DEF Consistent, Control
<1>5. l.blk \in Joined
  BY <1>1 DEF Consistent, Located
<1>6. Bracketed(rpc[r], l) /\ Approaching(rpc[r], l)
  BY <1>1 DEF Consistent
<1>7. l.blk \in Blocks /\ l.blk \in 1 .. used /\ low(l.blk) \in Nat
  BY <1>5, JoinedFacts
<1>8. l.n \in Slots /\ l.v \in Nat
  BY <1>2 DEF Callful, Locals
<1>9. QED
  BY <1>2, <1>3, <1>4, <1>5, <1>6, <1>7, <1>8 DEF Approaching

LEMMA OpenGoes ==
  ASSUME TableInv, ReaderInv, NEW r \in Readers, Open(r) \/ CheckFailed(r)
  PROVE  Goes(r)
<1>1. PICK l, p : l = loc[r] /\ p = pos[r]
  OBVIOUS
<1>2. rpc[r] \in Looking /\ (Open(r) => rpc[r] = "open") /\ (CheckFailed(r) => rpc[r] = "check")
  BY DEF Open, CheckFailed, Looking
<1>3. /\ Callful(l) /\ Standing(p) /\ l.goal \in Searches \cup {"first", "last"}
      /\ l.blk \in Joined /\ l.blk \in Blocks
      /\ l.goal = "seek" => \A e \in Wanted(l) : low(l.blk) <= e
  BY <1>1, <1>2, LookingFacts
<1>4. CASE Open(r)
  <2>1. PICK b : b = l.blk
    OBVIOUS
  <2>2. PICK o, m : o = [l EXCEPT !.v = version[b]] /\ m = [o EXCEPT !.n = count[b]]
    OBVIOUS
  <2>3. o = [l EXCEPT !.v = version[b]] /\ m = [o EXCEPT !.n = count[b]]
    BY <2>2
  <2>4. version[b] \in Nat /\ count[b] \in Slots
    BY <1>3, <2>1, JoinedFacts
  <2>5. Callful(o) /\ Same(o, l) /\ o.v = version[b] /\ o.blk = b
    BY <1>3, <2>1, <2>3, <2>4, SetV
  <2>6. Callful(m) /\ Same(m, o) /\ m.v = version[b] /\ m.n = count[b] /\ m.blk = b
    <3>1. PICK n : n = count[b]
      OBVIOUS
    <3>2. m = [o EXCEPT !.n = n]
      BY <2>3, <3>1
    <3>3. n \in Slots
      BY <2>4, <3>1
    <3>4. Callful(m) /\ Same(m, o) /\ m.v = o.v /\ m.n = n /\ m.blk = o.blk
      BY <2>5, <3>2, <3>3, SetN
    <3> QED BY <2>5, <3>1, <3>4
  <2>7. Bracketed("read", m)
    BY <1>1, <1>4, <2>1, <2>4, <2>6 DEF Bracketed, Open
  <2>8. m.goal = l.goal /\ Wanted(m) = Wanted(l)
    BY <2>5, <2>6 DEF Same, Wanted, Reseeks
  <2>9. Consistent("read", m, p)
    BY <1>3, <2>1, <2>6, <2>7, <2>8, Bracing
  <2>10. Run(r, "read", m) /\ UNCHANGED pos
    BY <1>1, <1>4, <2>1, <2>2 DEF Open
  <2>11. Moves(r, "read", m, p)
    BY <1>1, <2>10, RunMoves
  <2> QED BY <2>9, <2>11 DEF Goes
<1>5. CASE CheckFailed(r)
  <2>1. PICK m : m = Close(l)
    OBVIOUS
  <2>2. Callful(m) /\ Same(m, l) /\ m.blk = l.blk
    BY <1>3, <2>1, CloseKeeps
  <2>3. m.goal = l.goal /\ Wanted(m) = Wanted(l)
    BY <2>2 DEF Same, Wanted, Reseeks
  <2>4. Consistent("open", m, p)
    BY <1>3, <2>2, <2>3, Going DEF Walking
  <2>5. Run(r, "open", m) /\ UNCHANGED pos
    BY <1>1, <1>5, <2>1 DEF CheckFailed
  <2>6. Moves(r, "open", m, p)
    BY <1>1, <2>5, RunMoves
  <2> QED BY <2>4, <2>6 DEF Goes
<1>6. QED
  BY <1>4, <1>5

LEMMA ReadGoes ==
  ASSUME TableInv, ReaderInv, NEW r \in Readers, Read(r)
  PROVE  Goes(r)
<1>1. PICK l, p : l = loc[r] /\ p = pos[r]
  OBVIOUS
<1>2. rpc[r] \in Looking /\ rpc[r] = "read"
  BY DEF Read, Looking
<1>3. /\ Callful(l) /\ Standing(p) /\ l.goal \in Searches \cup {"first", "last"}
      /\ l.blk \in Joined /\ l.blk \in Blocks /\ l.blk \in 1 .. used
      /\ l.goal = "seek" => \A e \in Wanted(l) : low(l.blk) <= e
      /\ Bracketed("read", l)
  BY <1>1, <1>2, LookingFacts
<1>4. PICK g, m : g = Bracket(l) /\ m = [l EXCEPT !.got = g]
  OBVIOUS
<1>5. g \in Readings /\ (g.torn \/ g.list \in Seq(Entries)) /\ Exact(g, l.blk, l.n)
  BY <1>3, <1>4, BracketReads
<1>6. Callful(m) /\ Same(m, l) /\ m.got = g /\ m.blk = l.blk /\ m.v = l.v /\ m.n = l.n
  <2>1. m = [l EXCEPT !.got = g]
    BY <1>4
  <2> QED BY <1>3, <1>5, <2>1, SetGot
<1>7. l.v <= version[l.blk] /\ l.v % 2 = 0 /\ (version[l.blk] = l.v => l.n = count[l.blk])
  BY <1>3 DEF Bracketed
<1>8. version[l.blk] = l.v /\ g.at # Null => Holds(l.blk, g.slot, g.at)
  BY <1>5, <1>7 DEF Exact, Holds
<1>9. version[l.blk] = l.v /\ l.goal = "seek" =>
        /\ g.at # Null => l.target <= g.at
        /\ \A i \in 0 .. count[l.blk] - 1 :
             l.target <= entries[l.blk][i] => g.at # Null /\ g.at <= entries[l.blk][i]
  <2> SUFFICES ASSUME version[l.blk] = l.v, l.goal = "seek"
               PROVE  /\ g.at # Null => l.target <= g.at
                      /\ \A i \in 0 .. count[l.blk] - 1 :
                           l.target <= entries[l.blk][i] => g.at # Null /\ g.at <= entries[l.blk][i]
    OBVIOUS
  <2>1. version[l.blk] % 2 = 0 /\ l.n = count[l.blk]
    BY <1>7
  <2>2. l.target \in Nat
    BY <1>3, Sizes DEF Callful, Searches
  <2>3. g.at = Sought(l.blk, count[l.blk], l.target).at
    BY <1>4, <2>1 DEF Bracket
  <2> QED BY <1>3, <2>1, <2>2, <2>3, SeekFinds
<1>10. Bracketed("check", m)
  BY <1>6, <1>7, <1>8, <1>9 DEF Bracketed, Same
<1>11. m.goal = l.goal /\ Wanted(m) = Wanted(l)
  BY <1>6 DEF Same, Wanted, Reseeks
<1>12. Consistent("check", m, p)
  BY <1>3, <1>6, <1>10, <1>11, Bracing
<1>13. Run(r, "check", m) /\ UNCHANGED pos
  BY <1>1, <1>4 DEF Read
<1>14. Moves(r, "check", m, p)
  BY <1>1, <1>13, RunMoves
<1>15. QED
  BY <1>12, <1>14 DEF Goes

(* Contains: found in the bracket; or the last key, read after it, is greater; or on. *)
LEMMA ContainsGoes ==
  ASSUME TableInv, ReaderInv, NEW r \in Readers, CheckContains(r) \/ MaxCount(r) \/ MaxKey(r)
  PROVE  Goes(r)
<1>1. PICK l, p : l = loc[r] /\ p = pos[r]
  OBVIOUS
<1>2. rpc[r] \in Looking \cup {"max", "maxkey"} /\ (rpc[r] \in {"max", "maxkey"} \/ l.goal = "contains")
  BY <1>1 DEF CheckContains, MaxCount, MaxKey, Looking
<1>3. Callful(l) /\ Standing(p) /\ l.blk \in Joined /\ l.goal = "contains"
  BY <1>1, <1>2, LookingFacts
<1>4. ASSUME NEW pc \in {"hop", "max", "maxkey"}, NEW m, Callful(m), m.goal = "contains", m.blk = l.blk,
             Run(r, pc, m), UNCHANGED pos
      PROVE  Goes(r)
  <2>1. Consistent(pc, m, p)
    BY <1>3, <1>4, Going DEF Walking, Searches
  <2>2. Moves(r, pc, m, p)
    BY <1>1, <1>4, RunMoves
  <2> QED BY <2>1, <2>2 DEF Goes
<1>5. ASSUME NEW m \in Locals, m.since = l.since, Done(r, m), UNCHANGED pos
      PROVE  Goes(r)
  <2>1. m.since \subseteq visible /\ pos' = [pos EXCEPT ![r] = p]
    BY <1>1, <1>3, <1>5 DEF Callful, ReaderInv
  <2> QED BY <1>3, <1>5, <2>1, DoneRests DEF Goes
<1>6. Callful(Close(l)) /\ Close(l).goal = "contains" /\ Close(l).blk = l.blk
  BY <1>3, CloseKeeps DEF Same
<1>7. CASE CheckContains(r)
  <2>1. CASE l.got.at = l.key
    <3>1. PICK m : m = [l EXCEPT !.found = TRUE]
      OBVIOUS
    <3>2. m \in Locals /\ m.since = l.since
      BY <1>3, <3>1 DEF Callful, Locals
    <3>3. Done(r, m) /\ UNCHANGED pos
      BY <1>1, <1>7, <2>1, <3>1 DEF CheckContains
    <3> QED BY <1>5, <3>2, <3>3
  <2>2. CASE l.got.at # l.key
    <3>1. Run(r, "max", Close(l)) /\ UNCHANGED pos
      BY <1>1, <1>7, <2>2 DEF CheckContains
    <3> QED BY <1>4, <1>6, <3>1
  <2> QED BY <2>1, <2>2
<1>8. CASE MaxCount(r)
  <2>1. PICK n, m : n = count[l.blk] /\ m = [l EXCEPT !.n = n]
    OBVIOUS
  <2>2. m = [l EXCEPT !.n = n] /\ n \in Slots
    BY <1>3, <2>1, JoinedFacts
  <2>3. Callful(m) /\ m.goal = "contains" /\ m.blk = l.blk
    BY <1>3, <2>2, SetN DEF Same
  <2>4. Run(r, IF n = 0 THEN "hop" ELSE "maxkey", m) /\ UNCHANGED pos
    BY <1>1, <1>8, <2>1 DEF MaxCount
  <2> QED BY <1>4, <2>3, <2>4
<1>9. CASE MaxKey(r)
  <2>1. (Done(r, l) \/ Run(r, "hop", Close(l))) /\ UNCHANGED pos
    BY <1>1, <1>9 DEF MaxKey
  <2>2. l \in Locals
    BY <1>3 DEF Callful
  <2> QED BY <1>4, <1>5, <1>6, <2>1, <2>2
<1>10. QED
  BY <1>7, <1>8, <1>9

------------------------------------------------------------------------------
(* The chain, as a reader walks it. *)

(* next_leaf skips no block, not for a reader at the block that a split is linking. *)
LEMMA NextIsNext ==
  ASSUME TableInv, NEW b \in Joined, NEW c \in Linked, low(b) < low(c)
  PROVE  next[b] # Null /\ next[b] \in Linked /\ low(next[b]) <= low(c)
<1>1. /\ low(b) \in Nat /\ low(c) \in Nat /\ (next[b] # Null => next[b] \in Linked)
      /\ Linked \subseteq Joined
  BY JoinedFacts
<1>2. CASE b \in Linked
  <2>1. IF next[b] = Null THEN low(c) <= low(b) ELSE low(c) <= low(b) \/ low(next[b]) <= low(c)
    BY <1>2 DEF TableInv, NextOrder
  <2> QED BY <1>1, <2>1
<1>3. CASE b \notin Linked
  <2>1. wpc = "link" /\ b = used
    BY <1>3, Facts DEF Linked, Joined
  <2>2. Splitting /\ next[used] = next[ins.b]
    BY <2>1 DEF Splitting, TableInv, Inserting
  <2>3. low(ins.b) < low(used) /\ low(ins.b) \in Nat
    BY <2>2, SplitFacts, Facts
  <2>4. IF next[ins.b] = Null THEN low(c) <= low(ins.b)
                              ELSE low(c) <= low(ins.b) \/ low(next[ins.b]) <= low(c)
    BY <2>1, AfterSplit
  <2>5. ~ (low(c) <= low(ins.b))
    BY <1>1, <2>1, <2>3
  <2> QED BY <1>1, <2>1, <2>2, <2>4, <2>5
<1>4. QED
  BY <1>2, <1>3

(* When a block is stable and has no entry from the target on, all that the seek
   wants is in blocks that begin after it and that next_leaf reaches; what a split
   has carried to a block that is not linked yet is behind the block it came from. *)
LEMMA SeekLeaves ==
  ASSUME TableInv, NEW b \in Joined, version[b] % 2 = 0, NEW k \in Nat,
         \A i \in 0 .. count[b] - 1 : ~ (k <= entries[b][i]),
         NEW e \in visible, k <= e, low(b) <= e
  PROVE  \E c \in Linked : low(b) < low(c) /\ low(c) <= e
<1>1. b \in 1 .. used /\ low(b) \in Nat /\ Joined \subseteq 1 .. used /\ b \in Blocks
  BY JoinedFacts
<1>0. PICK c \in 1 .. used : \E j \in Owned(c) : entries[c][j] = e
  BY DEF TableInv, Contents
<1>2. PICK j \in Owned(c) : entries[c][j] = e
  BY <1>0
<1>3. c # b
  BY <1>1, <1>2, StableBlock
<1>4. low(c) <= e /\ low(c) \in Nat /\ e \in Nat
  BY <1>2, LowIsLeast, Facts
<1>5. low(b) < low(c)
  <2>1. low(b) # low(c)
    BY <1>1, <1>3 DEF TableInv, Distinct
  <2>2. ~ (low(c) < low(b))
    <3> SUFFICES ASSUME low(c) < low(b) PROVE FALSE
      OBVIOUS
    <3>1. entries[c][j] < low(b)
      BY <1>1 DEF TableInv, Ordered
    <3> QED BY <1>1, <1>2, <1>4, <3>1
  <2> QED BY <1>1, <1>4, <2>1, <2>2
<1>6. CASE c \in Linked
  BY <1>4, <1>5, <1>6
<1>7. CASE c \notin Linked
  <2>1. Splitting /\ c = used /\ Linked = 1 .. used - 1
    BY <1>7, Facts DEF Linked, Splitting
  <2>2. ins.b \in 1 .. used - 1 /\ ins.b \in Blocks /\ low(ins.b) < low(used) /\ low(ins.b) \in Nat
    BY <2>1, SplitFacts, Facts
  <2>3. low(b) <= low(ins.b) \/ low(used) <= low(b)
    BY <1>1, <2>1, SplitFacts
  <2>4. b # ins.b
    BY <1>1, <2>1 DEF TableInv, Parity, Modifying
  <2>5. low(b) # low(ins.b)
    BY <1>1, <2>2, <2>4, Facts DEF TableInv, Distinct
  <2>6. low(b) < low(ins.b) /\ low(ins.b) <= e
    BY <1>1, <1>4, <1>5, <2>1, <2>2, <2>3, <2>5
  <2> QED BY <2>1, <2>2, <2>6
<1>8. QED
  BY <1>6, <1>7

(* The place where a validated bracket puts an iterator. *)
LEMMA LandingStands ==
  ASSUME TableInv, NEW l, Callful(l), l.blk \in Joined, Bracketed("check", l), Validated(l), l.got.at # Null
  PROVE  Standing(Landing(l))
<1>1. PICK b, s, e : b = l.blk /\ s = l.got.slot /\ e = l.got.at
  OBVIOUS
<1>2. b \in 1 .. used /\ b \in Blocks /\ version[b] = l.v /\ l.v % 2 = 0 /\ l.v \in Nat
  <2>1. l.v \in Nat
    BY DEF Callful, Locals
  <2> QED BY <1>1, <2>1, JoinedFacts DEF Bracketed, Validated
<1>3. Holds(b, s, e) /\ e # Null
  BY <1>1, <1>2 DEF Bracketed
<1>4. s \in 0 .. count[b] - 1 /\ entries[b][s] = e
  BY <1>3 DEF Holds
<1>5. e \in Entries /\ e \in visible /\ count[b] \in Slots
  BY <1>2, <1>4, StableBlock
<1>6. s \in Slots
  BY <1>4, <1>5, Sizes DEF Slots
<1>7. PICK p : p = Landing(l)
  OBVIOUS
<1>8. p \in Positions /\ p.leaf = b /\ p.slot = s /\ p.ver = l.v /\ p.anchor = e
  BY <1>1, <1>2, <1>5, <1>6, <1>7 DEF Landing, Positions
<1>9. Standing(p)
  BY <1>1, <1>2, <1>3, <1>5, <1>8 DEF Standing
<1>10. QED
  BY <1>7, <1>9

LEMMA NextRoundRests ==
  ASSUME NEW r \in Readers, ReaderInv, NEW l, Callful(l), NEW p, Standing(p),
         NextRound(r, l), pos' = [pos EXCEPT ![r] = p]
  PROVE  Goes(r)
<1>1. l \in Locals /\ l.since \subseteq visible
  BY DEF Callful
<1>2. CASE Done(r, l)
  BY <1>1, <1>2, DoneRests DEF Goes
<1>3. CASE Run(r, "reval", Asked(l))
  <2>1. PICK m : m = Asked(l)
    OBVIOUS
  <2>2. /\ m \in Locals /\ m.op = l.op /\ m.since = l.since /\ m.goal = "none" /\ m.stage = l.stage
        /\ m.got = Nothing
    BY <1>1, <2>1, AskedFields
  <2>3. Nothing.list \in Seq(Entries)
    BY DEF Nothing
  <2>4. Restful(m)
    BY <2>2, <2>3 DEF Restful, Callful
  <2>5. Consistent("reval", m, p)
    BY <2>4, Resting
  <2>6. Moves(r, "reval", m, p)
    BY <1>3, <2>1 DEF Run, Moves
  <2> QED BY <2>5, <2>6 DEF Goes
<1>4. QED
  BY <1>2, <1>3 DEF NextRound

LEMMA CheckGetGoes ==
  ASSUME TableInv, ReaderInv, NEW r \in Readers, CheckGet(r)
  PROVE  Goes(r)
<1>1. PICK l, p : l = loc[r] /\ p = pos[r]
  OBVIOUS
<1>2. rpc[r] \in Looking /\ l.goal = "get" /\ Validated(l)
  BY <1>1 DEF CheckGet, Looking
<1>3. Callful(l) /\ Standing(p) /\ l.blk \in Joined
  BY <1>1, <1>2, LookingFacts
<1>4. PICK g, c : g = l.got.list /\ c = Close(l)
  OBVIOUS
<1>5. g \in Seq(Entries) /\ l.out \in Seq(Entries)
  BY <1>2, <1>3, <1>4 DEF Callful, Validated, Locals
<1>6. Callful(c) /\ Same(c, l) /\ c.blk = l.blk
  BY <1>3, <1>4, CloseKeeps
<1>7. PICK a, m : a = l.out \o g /\ m = [c EXCEPT !.out = a]
  OBVIOUS
<1>8. a \in Seq(Entries) /\ m = [c EXCEPT !.out = a]
  BY <1>5, <1>7
<1>9. Callful(m) /\ m.goal = "get" /\ m.since = l.since /\ m.blk = l.blk
  BY <1>2, <1>6, <1>8, SetOut DEF Same
<1>10. m = [c EXCEPT !.out = @ \o g]
  <2>1. c.out = l.out
    BY <1>6 DEF Same
  <2> QED BY <1>7, <2>1
<1>11. UNCHANGED pos /\ pos' = [pos EXCEPT ![r] = p]
  BY <1>1 DEF CheckGet, ReaderInv
<1>12. CASE Run(r, "hop", m)
  <2>1. Consistent("hop", m, p)
    BY <1>3, <1>9, Going DEF Walking, Searches
  <2>2. Moves(r, "hop", m, p)
    BY <1>1, <1>11, <1>12, RunMoves
  <2> QED BY <2>1, <2>2 DEF Goes
<1>13. ASSUME NEW n \in Locals, n.since = l.since, Done(r, n) PROVE Goes(r)
  <2>1. n.since \subseteq visible
    BY <1>3, <1>13 DEF Callful
  <2> QED BY <1>3, <1>11, <1>13, <2>1, DoneRests DEF Goes
<1>14. CASE Done(r, m)
  <2>1. m \in Locals
    BY <1>9 DEF Callful
  <2> QED BY <1>9, <1>13, <1>14, <2>1
<1>15. ASSUME NEW i \in DOMAIN g, Done(r, [l EXCEPT !.out = @ \o SubSeq(g, 1, i), !.stopped = TRUE])
       PROVE  Goes(r)
  <2>1. PICK f : f = l.out \o SubSeq(g, 1, i)
    OBVIOUS
  <2>2. f \in Seq(Entries)
    <3>1. i \in 1 .. Len(g) /\ Len(g) \in Nat
      BY <1>5
    <3>2. SubSeq(g, 1, i) \in Seq(Entries)
      BY <1>5, <3>1
    <3> QED BY <1>5, <2>1, <3>2
  <2>3. PICK o : o = [l EXCEPT !.out = f]
    OBVIOUS
  <2>4. PICK n : n = [o EXCEPT !.stopped = TRUE]
    OBVIOUS
  <2>5. Callful(o) /\ o.since = l.since
    BY <1>3, <2>2, <2>3, SetOut
  <2>6. o \in Locals
    BY <2>5 DEF Callful
  <2>7. n \in Locals /\ n.since = l.since
    BY <2>4, <2>5, <2>6 DEF Locals
  <2>8. n = [l EXCEPT !.out = @ \o SubSeq(g, 1, i), !.stopped = TRUE]
    BY <2>1, <2>3, <2>4
  <2> QED BY <1>13, <1>15, <2>7, <2>8
<1>16. \/ Run(r, "hop", m) \/ Done(r, m)
       \/ \E i \in DOMAIN g : Done(r, [l EXCEPT !.out = @ \o SubSeq(g, 1, i), !.stopped = TRUE])
  <2>1. PICK all : all = [Close(l) EXCEPT !.out = @ \o l.got.list]
    OBVIOUS
  <2>2. \/ Run(r, "hop", all) \/ Done(r, all)
        \/ \E i \in DOMAIN l.got.list :
             Done(r, [l EXCEPT !.out = @ \o SubSeq(l.got.list, 1, i), !.stopped = TRUE])
    BY <1>1, <2>1 DEF CheckGet
  <2>3. all = m
    BY <1>4, <1>10, <2>1
  <2> QED BY <1>4, <2>2, <2>3
<1>17. QED
  BY <1>12, <1>14, <1>15, <1>16

(* Seek and PositionAtEdge: the iterator is put where the bracket found an entry,
   or the reader moves on to the next block. *)
LEMMA CheckLandGoes ==
  ASSUME TableInv, ReaderInv, NEW r \in Readers, CheckSeek(r) \/ CheckEdge(r)
  PROVE  Goes(r)
<1>1. PICK l, p : l = loc[r] /\ p = pos[r]
  OBVIOUS
<1>2. /\ rpc[r] \in Looking /\ rpc[r] = "check" /\ Validated(l)
      /\ (CheckSeek(r) => l.goal = "seek") /\ (CheckEdge(r) => l.goal \in {"first", "last"})
  BY <1>1 DEF CheckSeek, CheckEdge, Looking
<1>3. /\ Callful(l) /\ Standing(p) /\ l.goal \in Searches \cup {"first", "last"} /\ l.blk \in Joined
      /\ Bracketed("check", l)
      /\ l.goal = "seek" => \A e \in Wanted(l) : low(l.blk) <= e
  BY <1>1, <1>2, LookingFacts
<1>4. CASE l.got.at # Null
  <2>1. PICK q : q = Landing(l)
    OBVIOUS
  <2>2. Standing(q)
    BY <1>2, <1>3, <1>4, <2>1, LandingStands
  <2>3. CASE CheckSeek(r)
    <3>1. Resume(r, l, q) /\ pos' = [pos EXCEPT ![r] = q]
      BY <1>1, <1>4, <2>1, <2>3 DEF CheckSeek, Place
    <3>2. /\ l \in Locals /\ l.since \subseteq visible
          /\ l.stage = "step" => l.op \in StepOps \cup {"seekprev"}
          /\ l.stage \in {"valid", "key"} => l.op = "seekprev"
      BY <1>3 DEF Callful
    <3> QED BY <2>2, <3>1, <3>2, ResumeRests DEF Goes
  <2>4. CASE CheckEdge(r)
    <3>1. NextRound(r, l) /\ pos' = [pos EXCEPT ![r] = q]
      BY <1>1, <1>4, <2>1, <2>4 DEF CheckEdge, Place
    <3> QED BY <1>3, <2>2, <3>1, NextRoundRests
  <2> QED BY <2>3, <2>4
<1>5. CASE l.got.at = Null
  <2>1. PICK m : m = Close(l)
    OBVIOUS
  <2>2. Callful(m) /\ Same(m, l) /\ m.blk = l.blk
    BY <1>3, <2>1, CloseKeeps
  <2>3. m.goal = l.goal /\ Wanted(m) = Wanted(l)
    BY <2>2 DEF Same, Wanted, Reseeks
  <2>4. Run(r, "hop", m) /\ UNCHANGED pos
    BY <1>1, <1>5, <2>1 DEF CheckSeek, CheckEdge
  <2>5. ASSUME l.goal = "seek", NEW e \in Wanted(l)
        PROVE  \E c \in Linked : low(l.blk) < low(c) /\ low(c) <= e
    <3>1. e \in visible /\ l.target <= e /\ low(l.blk) <= e
      BY <1>3, <2>5 DEF Wanted, Callful
    <3>2. l.target \in Nat
      BY <1>3, <2>5, Sizes DEF Callful, Searches
    <3>3. version[l.blk] % 2 = 0 /\ \A i \in 0 .. count[l.blk] - 1 : ~ (l.target <= entries[l.blk][i])
      BY <1>2, <1>3, <1>5, <2>5 DEF Bracketed, Validated
    <3> QED BY <1>3, <3>1, <3>2, <3>3, SeekLeaves
  <2>6. Consistent("hop", m, p)
    BY <1>3, <2>2, <2>3, <2>5, Going DEF Walking
  <2>7. Moves(r, "hop", m, p)
    BY <1>1, <2>4, RunMoves
  <2> QED BY <2>6, <2>7 DEF Goes
<1>6. QED
  BY <1>4, <1>5

LEMMA HopGoes ==
  ASSUME TableInv, ReaderInv, NEW r \in Readers, Hop(r)
  PROVE  Goes(r)
<1>1. PICK l, p : l = loc[r] /\ p = pos[r]
  OBVIOUS
<1>2. rpc[r] \in Looking /\ rpc[r] = "hop"
  BY DEF Hop, Looking
<1>3. /\ Callful(l) /\ Standing(p) /\ l.goal \in Searches \cup {"first", "last"} /\ l.blk \in Joined
      /\ l.goal = "seek" => \A e \in Wanted(l) : \E c \in Linked : low(l.blk) < low(c) /\ low(c) <= e
  BY <1>1, <1>2, LookingFacts
<1>4. PICK b : b = IF l.goal = "last" THEN prev[l.blk] ELSE next[l.blk]
  OBVIOUS
<1>5. /\ l \in Locals /\ l.since \subseteq visible
      /\ l.stage = "step" => l.op \in StepOps \cup {"seekprev"}
      /\ l.stage \in {"valid", "key"} => l.op = "seekprev"
  BY <1>3 DEF Callful
<1>6. Standing(NoPosition)
  BY DEF Standing
<1>7. CASE b # Null /\ Run(r, "open", [l EXCEPT !.blk = b]) /\ UNCHANGED pos
  <2>1. b \in Joined /\ b \in Blocks
    <3>1. CASE l.goal = "last"
      <4>1. l.blk # HeadBlock
        BY <1>4, <1>7, <3>1 DEF TableInv, PrevOrder
      <4> QED BY <1>3, <1>4, <3>1, <4>1, JoinedFacts
    <3>2. CASE l.goal # "last"
      BY <1>3, <1>4, <1>7, <3>2, JoinedFacts
    <3> QED BY <3>1, <3>2
  <2>2. PICK m : m = [l EXCEPT !.blk = b]
    OBVIOUS
  <2>3. Callful(m) /\ Same(m, l) /\ m.blk = b
    BY <1>3, <2>1, <2>2, SetBlk
  <2>4. m.goal = l.goal /\ Wanted(m) = Wanted(l)
    BY <2>3 DEF Same, Wanted, Reseeks
  <2>5. ASSUME l.goal = "seek", NEW e \in Wanted(l) PROVE low(b) <= e
    <3>1. PICK c \in Linked : low(l.blk) < low(c) /\ low(c) <= e
      BY <1>3, <2>5
    <3>2. low(b) <= low(c)
      BY <1>3, <1>4, <2>5, <3>1, NextIsNext
    <3>3. low(b) \in Nat /\ low(c) \in Nat /\ e \in Nat
      <4>1. e \in Entries
        BY <1>3, <2>5 DEF Wanted, Callful, Locals, Searches
      <4> QED BY <2>1, <4>1, JoinedFacts, Sizes
    <3> QED BY <3>1, <3>2, <3>3
  <2>6. Consistent("open", m, p)
    BY <1>3, <2>1, <2>3, <2>4, <2>5, Going DEF Walking
  <2>7. Moves(r, "open", m, p)
    BY <1>1, <1>7, <2>2, RunMoves
  <2> QED BY <2>6, <2>7 DEF Goes
<1>8. CASE Done(r, l) /\ UNCHANGED pos
  <2>1. pos' = [pos EXCEPT ![r] = p]
    BY <1>1, <1>8 DEF ReaderInv
  <2> QED BY <1>3, <1>5, <1>8, <2>1, DoneRests DEF Goes
<1>9. CASE Place(r, NoPosition) /\ Resume(r, l, NoPosition)
  BY <1>5, <1>6, <1>9, ResumeRests DEF Goes, Place
<1>10. CASE Place(r, NoPosition) /\ Done(r, l)
  BY <1>5, <1>6, <1>10, DoneRests DEF Goes, Place
<1>11. QED
  BY <1>1, <1>4, <1>7, <1>8, <1>9, <1>10 DEF Hop

------------------------------------------------------------------------------
(* Next, Prev and ScanBatch. *)

LEMMA Stepping ==
  ASSUME NEW pc \in {"step", "stepcheck"}, NEW l, NEW p, Callful(l), Standing(p), p # NoPosition,
         l.goal = "none", l.stage = "step",
         version[p.leaf] = p.ver /\ ~ Backward(l) => l.n = count[p.leaf],
         pc = "stepcheck" /\ version[p.leaf] = p.ver /\ l.got.at # Null =>
           Holds(p.leaf, l.got.slot, l.got.at)
  PROVE  Consistent(pc, l, p)
<1>1. Control(pc, l, p)
  BY DEF Control, Callful, Standing, Quiet, Walking, Looking, Searches
<1>2. Located(pc, l, p)
  BY DEF Located, Callful, Standing, Walking, Looking
<1>3. Positioned(pc, l, p)
  BY DEF Positioned, Standing
<1>4. Bracketed(pc, l) /\ Approaching(pc, l)
  BY DEF Approaching, Bracketed, Reseeks
<1>5. QED
  BY <1>1, <1>2, <1>3, <1>4 DEF Consistent

LEMMA StepFacts ==
  ASSUME TableInv, ReaderInv, NEW r \in Readers, NEW l, NEW p, l = loc[r], p = pos[r],
         rpc[r] \in {"count", "step", "stepcheck"}
  PROVE  /\ Callful(l) /\ Standing(p) /\ p # NoPosition /\ p \in Positions /\ p.leaf \in Joined
         /\ p.leaf \in Blocks /\ p.leaf \in 1 .. used
         /\ l.goal = "none" /\ l.stage = "step" /\ l.n \in Slots
         /\ (rpc[r] = "count" => ~ Backward(l))
         /\ version[p.leaf] = p.ver /\ ~ Backward(l) /\ rpc[r] # "count" => l.n = count[p.leaf]
         /\ rpc[r] = "stepcheck" /\ version[p.leaf] = p.ver /\ l.got.at # Null =>
              Holds(p.leaf, l.got.slot, l.got.at)
<1>1. Consistent(rpc[r], l, p)
  BY DEF ReaderInv
<1>2. Callful(l) /\ Standing(p)
  BY <1>1, CallOf
<1>3. p # NoPosition /\ l.goal = "none" /\ l.stage = "step" /\ (rpc[r] = "count" => ~ Backward(l))
  BY <1>1 DEF Consistent, Control, Quiet
<1>4. p \in Positions /\ p.leaf \in Joined
  BY <1>2, <1>3 DEF Standing
<1>5. p.leaf \in Blocks /\ p.leaf \in 1 .. used
  BY <1>4, JoinedFacts
<1>6. l.n \in Slots
  BY <1>2 DEF Callful, Locals
<1>7. Positioned(rpc[r], l, p)
  BY <1>1 DEF Consistent
<1>8. QED
  BY <1>2, <1>3, <1>4, <1>5, <1>6, <1>7 DEF Positioned

(* How many entries of the block a chunk takes. *)
Taken(l, p) ==
  LET room == Batch - Len(l.out)
  IN IF p.slot >= l.n THEN 0 ELSE IF l.n - p.slot < room THEN l.n - p.slot ELSE room

LEMMA ChunkReads ==
  ASSUME TableInv, NEW l, Callful(l), NEW p \in Positions, p.leaf \in Blocks
  PROVE  /\ Chunk(l, p) \in Readings /\ (Chunk(l, p).torn \/ Chunk(l, p).list \in Seq(Entries))
         /\ Exact(Chunk(l, p), p.leaf, l.n)
         /\ Chunk(l, p).list = [i \in 1 .. Taken(l, p) |-> entries[p.leaf][p.slot + i - 1]]
         /\ Chunk(l, p).at = IF p.slot + Taken(l, p) \in 0 .. l.n - 1
                             THEN entries[p.leaf][p.slot + Taken(l, p)] ELSE Null
<1>1. PICK b, s, n : b = p.leaf /\ s = p.slot /\ n = l.n
  OBVIOUS
<1>2. n \in Slots /\ n \in Nat /\ n <= Cardinality(Entries) /\ s \in Nat /\ b \in Blocks
  <2>1. l.n \in Slots /\ p.slot \in Slots
    BY DEF Callful, Locals, Positions
  <2> QED BY <1>1, <2>1, Sizes DEF Slots
<1>3. PICK room : room = Batch - Len(l.out)
  OBVIOUS
<1>4. room \in Int
  <2>1. l.out \in Seq(Entries) /\ Batch \in Nat
    BY MemTableAssumption DEF Callful, Locals
  <2> QED BY <1>3, <2>1
<1>5. PICK take : take = IF s >= n THEN 0 ELSE IF n - s < room THEN n - s ELSE room
  OBVIOUS
<1>6. take \in Int /\ (take > 0 => s + take <= n)
  BY <1>2, <1>4, <1>5
<1>7. PICK list : list = [i \in 1 .. take |-> entries[b][s + i - 1]]
  OBVIOUS
<1>8. PICK x : x = EntryAt(b, s + take, n)
  OBVIOUS
<1>9. /\ x \in Readings /\ x.slot = s + take
      /\ x.at = IF s + take \in 0 .. n - 1 THEN entries[b][s + take] ELSE Null
  <2>1. s + take \in Int
    BY <1>2, <1>6
  <2> QED BY <1>2, <1>8, <2>1, EntryAtReads
<1>10. \A i \in 1 .. take : entries[b][s + i - 1] \in Entries \cup {Null}
  <2> SUFFICES ASSUME NEW i \in 1 .. take PROVE entries[b][s + i - 1] \in Entries \cup {Null}
    OBVIOUS
  <2>1. s + i - 1 \in Slots
    BY <1>2, <1>6, Sizes DEF Slots
  <2> QED BY <1>2, <2>1 DEF TableInv, TableTypes
<1>11. PICK k : k \in Nat /\ 1 .. k = 1 .. take
  <2>1. CASE take \in Nat
    BY <2>1
  <2>2. CASE take \notin Nat
    <3>1. 1 .. take = 1 .. 0
      BY <1>6, <2>2
    <3> QED BY <3>1
  <2> QED BY <2>1, <2>2
<1>12. list \in Seq(Entries \cup {Null})
  <2>1. list \in [1 .. k -> Entries \cup {Null}]
    BY <1>7, <1>10, <1>11
  <2> QED BY <1>11, <2>1
<1>13. PICK torn : torn = (x.torn \/ \E i \in 1 .. take : list[i] = Null)
  OBVIOUS
<1>14. torn \in BOOLEAN
  BY <1>13
<1>15. torn \/ list \in Seq(Entries)
  <2> SUFFICES ASSUME ~ torn PROVE list \in Seq(Entries)
    OBVIOUS
  <2>1. \A i \in 1 .. take : entries[b][s + i - 1] \in Entries
    BY <1>7, <1>10, <1>13
  <2>2. list \in [1 .. k -> Entries]
    BY <1>7, <1>11, <2>1
  <2> QED BY <1>11, <2>2
<1>16. PICK y : y = [x EXCEPT !.list = list]
  OBVIOUS
<1>17. y \in Readings /\ y.list = list /\ y.slot = x.slot /\ y.at = x.at /\ y.torn = x.torn
  BY <1>9, <1>12, <1>16 DEF Readings
<1>18. Chunk(l, p) = [y EXCEPT !.torn = torn]
  <2>1. Chunk(l, p) = [x EXCEPT !.list = list, !.torn = @ \/ \E i \in 1 .. take : list[i] = Null]
    BY <1>1, <1>3, <1>5, <1>7, <1>8 DEF Chunk
  <2>2. [x EXCEPT !.list = list, !.torn = @ \/ \E i \in 1 .. take : list[i] = Null]
          = [y EXCEPT !.torn = torn]
    BY <1>9, <1>13, <1>16 DEF Readings
  <2> QED BY <2>1, <2>2
<1>19. /\ Chunk(l, p) \in Readings /\ Chunk(l, p).list = list /\ Chunk(l, p).slot = s + take
       /\ Chunk(l, p).at = x.at /\ Chunk(l, p).torn = torn
  BY <1>9, <1>14, <1>17, <1>18 DEF Readings
<1>20. take = Taken(l, p)
  BY <1>1, <1>3, <1>5 DEF Taken
<1>21. QED
  BY <1>1, <1>7, <1>9, <1>15, <1>19, <1>20 DEF Exact

LEMMA StepReadGoes ==
  ASSUME TableInv, ReaderInv, NEW r \in Readers, StepCount(r) \/ StepRead(r)
  PROVE  Goes(r)
<1>1. PICK l, p : l = loc[r] /\ p = pos[r]
  OBVIOUS
<1>2. rpc[r] \in {"count", "step", "stepcheck"}
      /\ (StepCount(r) => rpc[r] = "count") /\ (StepRead(r) => rpc[r] = "step")
  BY DEF StepCount, StepRead
<1>3. /\ Callful(l) /\ Standing(p) /\ p # NoPosition /\ p \in Positions /\ p.leaf \in Joined
      /\ p.leaf \in Blocks /\ p.leaf \in 1 .. used
      /\ l.goal = "none" /\ l.stage = "step" /\ l.n \in Slots
      /\ (rpc[r] = "count" => ~ Backward(l))
      /\ version[p.leaf] = p.ver /\ ~ Backward(l) /\ rpc[r] # "count" => l.n = count[p.leaf]
  BY <1>1, <1>2, StepFacts
<1>4. CASE StepCount(r)
  <2>1. PICK n, m : n = count[p.leaf] /\ m = [l EXCEPT !.n = n]
    OBVIOUS
  <2>2. n = count[p.leaf] /\ m = [l EXCEPT !.n = n]
    BY <2>1
  <2>3. n \in Slots
    BY <1>3, <2>2, JoinedFacts
  <2>4. Callful(m) /\ Same(m, l) /\ m.n = n
    BY <1>3, <2>2, <2>3, SetN
  <2>5. Consistent("step", m, p)
    BY <1>3, <2>2, <2>4, Stepping DEF Same
  <2>6. Run(r, "step", m) /\ UNCHANGED pos
    BY <1>1, <1>4, <2>1 DEF StepCount
  <2>7. Moves(r, "step", m, p)
    BY <1>1, <2>6, RunMoves
  <2> QED BY <2>5, <2>7 DEF Goes
<1>5. CASE StepRead(r)
  <2>1. l.op \in {"next", "scan"} \/ Backward(l)
    BY <1>3 DEF Callful, StepOps, Backward
  <2>2. PICK g : g = CASE l.op = "next" -> EntryAt(p.leaf, p.slot + 1, l.n)
                       [] l.op = "scan" -> Chunk(l, p)
                       [] Backward(l) -> EntryAt(p.leaf, p.slot - 1, p.slot)
    OBVIOUS
  <2>3. p.slot \in Slots /\ p.slot \in Nat
    BY <1>3, Sizes DEF Positions, Slots
  <2>4. << >> \in Seq(Entries)
    OBVIOUS
  <2>5. /\ g \in Readings /\ (g.torn \/ g.list \in Seq(Entries))
        /\ version[p.leaf] = p.ver /\ g.at # Null => Holds(p.leaf, g.slot, g.at)
    <3>1. CASE l.op = "next"
      <4>1. g = EntryAt(p.leaf, p.slot + 1, l.n)
        BY <2>2, <3>1 DEF Backward
      <4>2. p.slot + 1 \in Int
        BY <2>3
      <4>3. /\ g \in Readings /\ g.list = << >> /\ g.slot = p.slot + 1
            /\ g.at = IF p.slot + 1 \in 0 .. l.n - 1 THEN entries[p.leaf][p.slot + 1] ELSE Null
        BY <1>3, <4>1, <4>2, EntryAtReads
      <4>4. version[p.leaf] = p.ver => l.n = count[p.leaf]
        BY <1>2, <1>3, <1>5, <3>1 DEF Backward
      <4> QED BY <2>4, <4>3, <4>4 DEF Holds
    <3>2. CASE l.op = "scan"
      <4>1. g = Chunk(l, p)
        BY <2>2, <3>2 DEF Backward
      <4>2. g \in Readings /\ (g.torn \/ g.list \in Seq(Entries)) /\ Exact(g, p.leaf, l.n)
        BY <1>3, <4>1, ChunkReads
      <4>3. version[p.leaf] = p.ver => l.n = count[p.leaf]
        BY <1>2, <1>3, <1>5, <3>2 DEF Backward
      <4> QED BY <4>2, <4>3 DEF Holds, Exact
    <3>3. CASE Backward(l)
      <4>1. g = EntryAt(p.leaf, p.slot - 1, p.slot)
        BY <2>2, <3>3 DEF Backward
      <4>2. p.slot - 1 \in Int
        BY <2>3
      <4>3. /\ g \in Readings /\ g.list = << >> /\ g.slot = p.slot - 1
            /\ g.at = IF p.slot - 1 \in 0 .. p.slot - 1 THEN entries[p.leaf][p.slot - 1] ELSE Null
        BY <1>3, <2>3, <4>1, <4>2, EntryAtReads
      <4>4. version[p.leaf] = p.ver => p.slot \in 0 .. count[p.leaf] - 1 /\ count[p.leaf] \in Nat
        BY <1>3, Facts DEF Standing, Holds
      <4>5. version[p.leaf] = p.ver /\ g.at # Null => p.slot - 1 \in 0 .. count[p.leaf] - 1
        BY <2>3, <4>3, <4>4
      <4> QED BY <2>4, <4>3, <4>5 DEF Holds
    <3> QED BY <2>1, <3>1, <3>2, <3>3
  <2>6. PICK m : m = [l EXCEPT !.got = g]
    OBVIOUS
  <2>7. Callful(m) /\ Same(m, l) /\ m.got = g /\ m.n = l.n
    BY <1>3, <2>5, <2>6, SetGot
  <2>8. Consistent("stepcheck", m, p)
    <3>1. Backward(m) <=> Backward(l)
      BY <2>7 DEF Same, Backward
    <3>2. m.goal = "none" /\ m.stage = "step"
      BY <1>3, <2>7 DEF Same
    <3>3. version[p.leaf] = p.ver /\ ~ Backward(m) => m.n = count[p.leaf]
      BY <1>2, <1>3, <1>5, <2>7, <3>1
    <3> QED BY <1>3, <2>5, <2>7, <3>2, <3>3, Stepping
  <2>9. Run(r, "stepcheck", m) /\ UNCHANGED pos
    BY <1>1, <1>5, <2>2, <2>6 DEF StepRead
  <2>10. Moves(r, "stepcheck", m, p)
    BY <1>1, <2>9, RunMoves
  <2> QED BY <2>8, <2>10 DEF Goes
<1>6. QED
  BY <1>4, <1>5

LEMMA StepCheckGoes ==
  ASSUME TableInv, ReaderInv, NEW r \in Readers, StepCheck(r)
  PROVE  Goes(r)
<1>1. PICK l, p, g : l = loc[r] /\ p = pos[r] /\ g = l.got
  OBVIOUS
<1>2. rpc[r] \in {"count", "step", "stepcheck"} /\ rpc[r] = "stepcheck"
  BY DEF StepCheck
<1>3. /\ Callful(l) /\ Standing(p) /\ p # NoPosition /\ p \in Positions /\ p.leaf \in Joined
      /\ p.leaf \in Blocks /\ p.leaf \in 1 .. used
      /\ l.goal = "none" /\ l.stage = "step"
      /\ version[p.leaf] = p.ver /\ g.at # Null => Holds(p.leaf, g.slot, g.at)
  BY <1>1, <1>2, StepFacts
<1>4. PICK c : c = Close(l)
  OBVIOUS
<1>5. Callful(c) /\ Same(c, l) /\ c.got = Nothing
  BY <1>3, <1>4, CloseKeeps
<1>6. CASE Run(r, "reval", Close(l)) /\ UNCHANGED pos
  <2>1. Nothing.list \in Seq(Entries)
    BY DEF Nothing
  <2>2. Restful(c)
    BY <1>3, <1>5, <2>1 DEF Restful, Callful, Same
  <2>3. Consistent("reval", c, p)
    BY <1>3, <2>2, Resting
  <2>4. Moves(r, "reval", c, p)
    BY <1>1, <1>4, <1>6, RunMoves
  <2> QED BY <2>3, <2>4 DEF Goes
<1>7. ASSUME ~ g.torn
      PROVE  \E o : /\ o = [Close(l) EXCEPT !.out = @ \o g.list] /\ Callful(o)
                    /\ o.op = l.op /\ o.stage = "step" /\ o.goal = "none"
  <2>1. g.list \in Seq(Entries) /\ l.out \in Seq(Entries)
    BY <1>1, <1>3, <1>7 DEF Callful, Locals
  <2>2. PICK a, o : a = l.out \o g.list /\ o = [c EXCEPT !.out = a]
    OBVIOUS
  <2>3. a \in Seq(Entries) /\ o = [c EXCEPT !.out = a]
    BY <2>1, <2>2
  <2>4. Callful(o) /\ o.op = l.op /\ o.stage = "step" /\ o.goal = "none"
    BY <1>3, <1>5, <2>3, SetOut DEF Same
  <2>5. o = [Close(l) EXCEPT !.out = @ \o g.list]
    <3>1. c.out = l.out
      BY <1>5 DEF Same
    <3> QED BY <1>4, <2>2, <3>1
  <2> QED BY <2>4, <2>5
<1>8. ASSUME ~ g.torn, version[p.leaf] = p.ver, g.at # Null,
             Place(r, [p EXCEPT !.slot = g.slot, !.anchor = g.at]),
             NextRound(r, [Close(l) EXCEPT !.out = @ \o g.list])
      PROVE  Goes(r)
  <2>1. PICK o : o = [Close(l) EXCEPT !.out = @ \o g.list] /\ Callful(o)
    BY <1>7, <1>8
  <2>2. PICK q : q = [p EXCEPT !.slot = g.slot, !.anchor = g.at]
    OBVIOUS
  <2>3. Holds(p.leaf, g.slot, g.at) /\ version[p.leaf] % 2 = 0 /\ p.ver \in Nat
    BY <1>3, <1>8 DEF Standing, Positions
  <2>4. g.slot \in 0 .. count[p.leaf] - 1 /\ entries[p.leaf][g.slot] = g.at
    BY <2>3 DEF Holds
  <2>5. g.at \in Entries /\ g.at \in visible /\ count[p.leaf] \in Slots
    BY <1>3, <2>3, <2>4, StableBlock
  <2>6. g.slot \in Slots
    BY <2>4, <2>5, Sizes DEF Slots
  <2>7. q \in Positions /\ q.leaf = p.leaf /\ q.slot = g.slot /\ q.ver = p.ver /\ q.anchor = g.at
    BY <1>3, <2>2, <2>5, <2>6 DEF Positions
  <2>8. Standing(q)
    BY <1>3, <2>3, <2>5, <2>7 DEF Standing
  <2>9. NextRound(r, o) /\ pos' = [pos EXCEPT ![r] = q]
    BY <1>8, <2>1, <2>2 DEF Place
  <2> QED BY <2>1, <2>8, <2>9, NextRoundRests
<1>9. ASSUME ~ g.torn, UNCHANGED pos,
             Run(r, "hop", [[Close(l) EXCEPT !.out = @ \o g.list]
                              EXCEPT !.blk = p.leaf, !.goal = IF Backward(l) THEN "last" ELSE "first"])
      PROVE  Goes(r)
  <2>1. PICK o : o = [Close(l) EXCEPT !.out = @ \o g.list] /\ Callful(o)
    BY <1>7, <1>9
  <2>2. PICK d, e : d = [o EXCEPT !.blk = p.leaf] /\ e = IF Backward(l) THEN "last" ELSE "first"
    OBVIOUS
  <2>3. Callful(d) /\ d.blk = p.leaf
    <3>1. d = [o EXCEPT !.blk = p.leaf] /\ Callful(o)
      BY <2>1, <2>2
    <3> QED BY <1>3, <3>1, SetBlk
  <2>4. PICK m : m = [d EXCEPT !.goal = e]
    OBVIOUS
  <2>5. e \in {"first", "last"} /\ e \in Searches \cup {"first", "last"} /\ e \notin Searches /\ e # "seek"
    BY <2>2 DEF Searches
  <2>6. Callful(m) /\ m.goal = e /\ m.blk = p.leaf
    BY <2>3, <2>4, <2>5, SetGoal
  <2>7. Consistent("hop", m, p)
    BY <1>3, <2>5, <2>6, Going DEF Walking, Searches
  <2>8. Run(r, "hop", m)
    BY <1>9, <2>1, <2>2, <2>4
  <2>9. Moves(r, "hop", m, p)
    BY <1>1, <1>9, <2>8, RunMoves
  <2> QED BY <2>7, <2>9 DEF Goes
<1>10. QED
  BY <1>1, <1>6, <1>8, <1>9 DEF StepCheck

LEMMA CallGoes ==
  ASSUME TableInv, ReaderInv, NEW r \in Readers, Call(r) PROVE Goes(r)
<1>1. CASE \E op \in Ops, key \in Entries \cup {Null} : Begin(r, op, key)
  BY <1>1, BeginGoes
<1>2. CASE Leave(r) \/ GetIterator(r) \/ LoadTail(r) \/ Revalidate(r)
  BY <1>2, OutsideGoes
<1>3. CASE LocateFull(r) \/ LocateTrie(r) \/ LocateTail(r) \/ LocateMapped(r)
  BY <1>3, LocateGoes
<1>4. CASE SettleBack(r) \/ StepBack(r) \/ SettleNext(r) \/ SettleForward(r)
  BY <1>4, SettleGoes
<1>5. CASE Open(r) \/ CheckFailed(r)
  BY <1>5, OpenGoes
<1>6. CASE Read(r)
  BY <1>6, ReadGoes
<1>7. CASE CheckContains(r) \/ MaxCount(r) \/ MaxKey(r)
  BY <1>7, ContainsGoes
<1>8. CASE CheckGet(r)
  BY <1>8, CheckGetGoes
<1>9. CASE CheckSeek(r) \/ CheckEdge(r)
  BY <1>9, CheckLandGoes
<1>10. CASE Hop(r)
  BY <1>10, HopGoes
<1>11. CASE StepCount(r) \/ StepRead(r)
  BY <1>11, StepReadGoes
<1>12. CASE StepCheck(r)
  BY <1>12, StepCheckGoes
<1>13. QED
  BY <1>1, <1>2, <1>3, <1>4, <1>5, <1>6, <1>7, <1>8, <1>9, <1>10, <1>11, <1>12 DEF Call

(* A step of the writer leaves the readers where they are. *)
LEMMA WriterLeavesReaders ==
  ASSUME Write PROVE UNCHANGED reader
<1>1. CASE \E e \in Entries : InsertBegin(e)
  BY <1>1 DEF InsertBegin
<1>2. QED
  BY <1>1 DEF Write, InsertOpen, InsertShift, InsertStore, InsertCount, InsertClose, InsertMap,
       SplitOpen, SplitCount, SplitNull, SplitLinkBack, SplitLink, SplitMap, SplitClose

LEMMA ReaderNext ==
  ASSUME TableInv, ReaderInv, [Next]_vars PROVE ReaderInv'
<1>1. CASE \E r \in Readers : Call(r)
  <2>1. PICK r \in Readers : Call(r)
    BY <1>1
  <2>2. PICK pc, l, p : Moves(r, pc, l, p) /\ Consistent(pc, l, p)
    BY <2>1, CallGoes DEF Goes
  <2> QED BY <2>2, ReaderMoves
<1>2. CASE UNCHANGED reader
  <2>1. UNCHANGED <<rpc, loc, pos>>
    BY <1>2 DEF reader
  <2>2. ASSUME NEW q \in Readers PROVE Consistent(rpc[q], loc[q], pos[q])'
    <3>1. PICK c, m, o : c = rpc[q] /\ m = loc[q] /\ o = pos[q]
      OBVIOUS
    <3>2. Consistent(c, m, o)
      BY <3>1 DEF ReaderInv
    <3>3. Consistent(c, m, o)'
      BY <3>2, ConsistentStays
    <3>4. c = rpc'[q] /\ m = loc'[q] /\ o = pos'[q]
      BY <2>1, <3>1
    <3> QED BY <3>3, <3>4
  <2> QED BY <2>1, <2>2 DEF ReaderInv
<1>3. QED
  BY <1>1, <1>2, WriterLeavesReaders DEF Next, vars

(* A reader's step, variables and iterator stay consistent with the table, while
   the writer shifts and splits the blocks it is in: the invariant of every call. *)
THEOREM ReaderInvariant == Spec => []ReaderInv
<1>1. Init => ReaderInv
  BY ReaderInit
<1>2. TableInv /\ ReaderInv /\ [Next]_vars => ReaderInv'
  BY ReaderNext
<1>3. QED
  BY <1>1, <1>2, TableInvariant, PTL DEF Spec

------------------------------------------------------------------------------
(* What the invariant says of the readers. *)

(* Blocks, slots, versions and every local variable of a call stay within their
   ranges, for any number of readers, entries and blocks. *)
THEOREM MemTableTypes == Spec => []TypeOK
<1>1. ASSUME TableInv, ReaderInv PROVE TypeOK
  <2>1. /\ ins.b \in Blocks \cup {Null} /\ ins.new \in Blocks \cup {Null}
        /\ ins.left \in Slots /\ ins.i \in Slots
    <3>1. ins \in InsertRecords
      BY <1>1 DEF TableInv, TableTypes
    <3> QED BY <3>1 DEF InsertRecords
  <2>2. ASSUME NEW r \in Readers, NEW l, NEW p, l = loc[r], p = pos[r]
        PROVE  /\ l.blk \in Blocks \cup {Null} /\ l.nxt \in Blocks \cup {Null} /\ l.n \in Slots
               /\ l.got.at \in Entries \cup {Null}
               /\ \A i \in DOMAIN l.out : l.out[i] \in Entries
               /\ p = NoPosition \/ (p.leaf \in Blocks /\ p.slot \in Slots /\ p.anchor \in Entries)
    <3>1. Control(rpc[r], l, p)
      BY <1>1, <2>2 DEF ReaderInv, Consistent
    <3>2. l \in Locals /\ (p = NoPosition \/ p \in Positions)
      BY <3>1 DEF Control
    <3>3. /\ l.blk \in Blocks \cup {Null} /\ l.nxt \in Blocks \cup {Null} /\ l.n \in Slots
          /\ l.got \in Readings /\ l.out \in Seq(Entries)
      BY <3>2 DEF Locals
    <3>4. l.got.at \in Entries \cup {Null}
      BY <3>3 DEF Readings
    <3>5. \A i \in DOMAIN l.out : l.out[i] \in Entries
      BY <3>3
    <3>6. p = NoPosition \/ (p.leaf \in Blocks /\ p.slot \in Slots /\ p.anchor \in Entries)
      BY <3>2 DEF Positions
    <3> QED BY <3>3, <3>4, <3>5, <3>6
  <2>3. TableTypes
    BY <1>1 DEF TableInv
  <2> QED BY <2>1, <2>2, <2>3 DEF TypeOK, TableTypes
<1>2. QED
  BY <1>1, TableInvariant, ReaderInvariant, PTL

(* Whatever the writer has shifted and split since, an iterator whose version still
   matches stands at a slot in use that holds its anchor. *)
THEOREM PositionsAnchored == Spec => []Anchored
<1>1. ASSUME TableInv, ReaderInv PROVE Anchored
  <2> SUFFICES ASSUME NEW r \in Readers, NEW p, p = pos[r], p # NoPosition, version[p.leaf] = p.ver
               PROVE  p.slot < count[p.leaf] /\ entries[p.leaf][p.slot] = p.anchor
    BY DEF Anchored
  <2>1. Standing(p)
    BY <1>1, PositionStands DEF ReaderInv
  <2>2. p.leaf \in Joined /\ Holds(p.leaf, p.slot, p.anchor)
    BY <2>1 DEF Standing
  <2>3. count[p.leaf] \in Nat
    BY <1>1, <2>2, Facts
  <2> QED BY <2>2, <2>3 DEF Holds
<1>2. QED
  BY <1>1, TableInvariant, ReaderInvariant, PTL

(* What is in the slots in use of a block, in the middle of a shift or of a split
   too, comes before every block that begins after it and can be reached. *)
LEMMA HeldBelow ==
  ASSUME TableInv, NEW b \in Linked, NEW c \in Joined, low(b) < low(c), NEW e \in Held(b)
  PROVE  e < low(c)
<1>1. PICK i \in 0 .. count[b] - 1 : e = entries[b][i]
  BY DEF Held
<1>2. b \in 1 .. used /\ c \in 1 .. used /\ count[b] \in Nat /\ low(b) \in Nat /\ low(c) \in Nat
  BY JoinedFacts, Facts
<1>3. \A j \in Owned(b) : entries[b][j] < low(c)
  BY <1>2 DEF TableInv, Ordered
<1>4. CASE b = ins.b /\ wpc = "shift"
  <2>1. /\ Owned(b) = (0 .. count[b]) \ {ins.i} /\ ins.i \in Nat
        /\ ins.i < count[b] => entries[b][ins.i] = entries[b][ins.i + 1]
    BY <1>4, WriterFacts DEF Owned, TableInv, Inserting
  <2>2. CASE i = ins.i
    <3>1. ins.i < count[b] /\ ins.i + 1 \in Owned(b)
      BY <1>1, <1>2, <2>1, <2>2
    <3> QED BY <1>1, <1>3, <2>1, <2>2, <3>1
  <2>3. CASE i # ins.i
    <3>1. i \in Owned(b)
      BY <1>1, <1>2, <2>1, <2>3
    <3> QED BY <1>1, <1>3, <3>1
  <2> QED BY <2>2, <2>3
<1>5. CASE b = ins.b /\ wpc = "splitcount"
  <2>1. PICK new : new = used
    OBVIOUS
  <2>2. /\ ins.i + count[new] = count[b] /\ ins.i \in Nat /\ Owned(b) = 0 .. ins.i - 1
        /\ \A j \in 0 .. count[new] - 1 : entries[b][ins.i + j] = entries[new][j]
        /\ \A d \in 1 .. used : low(d) <= low(b) \/ low(new) <= low(d)
    <3>1. ins.new = used /\ ins.i \in Nat
      BY <1>5, WriterFacts DEF TableInv, Inserting, Splitting
    <3>2. Inserting /\ Splitting
      BY <1>5 DEF TableInv, Splitting
    <3>3. Owned(b) = 0 .. ins.i - 1
      BY <1>5 DEF Owned
    <3>4. \A d \in 1 .. used : low(d) <= low(b) \/ low(new) <= low(d)
      BY <1>5, <2>1, <3>1, <3>2 DEF Inserting
    <3>5. /\ ins.i + count[new] = count[b]
          /\ \A j \in 0 .. count[new] - 1 : entries[b][ins.i + j] = entries[new][j]
      BY <1>5, <2>1, <3>1, <3>2 DEF Inserting
    <3> QED BY <3>1, <3>3, <3>4, <3>5
  <2>3. new \in 1 .. used /\ count[new] \in Nat /\ low(new) \in Nat /\ c # new /\ new # b
    <3>1. used \in 1 .. used
      BY Facts
    <3>2. Joined = 1 .. used - 1 /\ Linked = 1 .. used - 1
      BY <1>5 DEF Joined, Linked
    <3> QED BY <2>1, <3>1, <3>2, Facts
  <2>4. low(new) < low(c)
    <3>1. low(new) # low(c)
      BY <1>2, <2>3 DEF TableInv, Distinct
    <3>2. low(c) <= low(b) \/ low(new) <= low(c)
      BY <1>2, <2>2
    <3> QED BY <1>2, <2>3, <3>1, <3>2
  <2>5. CASE i < ins.i
    <3>1. i \in Owned(b)
      BY <1>1, <2>2, <2>5
    <3> QED BY <1>1, <1>3, <3>1
  <2>6. CASE ~ (i < ins.i)
    <3>1. PICK j : j = i - ins.i
      OBVIOUS
    <3>2. j \in 0 .. count[new] - 1 /\ ins.i + j = i
      <4>1. ins.i + count[new] = count[b] /\ ins.i \in Nat /\ count[new] \in Nat /\ count[b] \in Nat
        BY <1>2, <2>2, <2>3
      <4> QED BY <2>6, <3>1, <4>1
    <3>3. entries[new][j] = e
      BY <1>1, <2>2, <3>2
    <3>4. Owned(new) = 0 .. count[new] - 1
      BY <1>5, <2>3 DEF Owned
    <3>5. entries[new][j] < low(c)
      BY <1>2, <2>3, <2>4, <3>2, <3>4 DEF TableInv, Ordered
    <3> QED BY <3>3, <3>5
  <2> QED BY <1>1, <2>2, <2>5, <2>6
<1>6. CASE ~ (b = ins.b /\ wpc \in {"shift", "splitcount"})
  <2>1. i \in Owned(b)
    BY <1>1, <1>2, <1>6 DEF Owned
  <2> QED BY <1>1, <1>3, <2>1
<1>7. QED
  BY <1>4, <1>5, <1>6

(* A seek never passes its target, however the blocks are split while it walks: no
   block before the one it looks in holds what was there from the target on. *)
THEOREM SeekPassesNothing == Spec => []NoneBehind
<1>1. ASSUME TableInv, ReaderInv PROVE NoneBehind
  <2>1. PICK c : c = Chain
    OBVIOUS
  <2> SUFFICES ASSUME NEW r \in Readers, rpc[r] \in {"open", "read", "check"}, NEW l, l = loc[r],
                      l.goal = "seek", NEW i \in DOMAIN c, NEW j \in DOMAIN c, c[j] = l.blk, i < j,
                      NEW e \in Held(c[i]) \cap l.since
               PROVE  e < l.target
    BY <2>1 DEF NoneBehind
  <2>2. Walked(c) /\ DOMAIN c = 1 .. Len(c)
    BY <1>1, <2>1, ChainWalked, ChainCovers
  <2>3. c[i] \in Linked /\ low(c[i]) < low(c[j])
    BY <2>2 DEF Walked
  <2>4. PICK p : p = pos[r]
    OBVIOUS
  <2>5. Callful(l) /\ l.blk \in Joined /\ low(l.blk) \in Nat /\ \A d \in Wanted(l) : low(l.blk) <= d
    BY <1>1, <2>4, LookingFacts DEF Looking
  <2>6. e < low(l.blk)
    BY <1>1, <2>3, <2>5, HeldBelow
  <2>7. e \in Nat /\ l.target \in Nat
    BY <2>5, Sizes DEF Callful, Locals, Searches
  <2>8. l.target <= e => e \in Wanted(l)
    BY DEF Wanted
  <2> QED BY <2>5, <2>6, <2>7, <2>8
<1>2. QED
  BY <1>1, TableInvariant, ReaderInvariant, PTL

------------------------------------------------------------------------------
(* The re-seek. *)

(* A bracket that finds an entry from the target on finds the target, when the
   target is an inserted entry and the block begins at or before it. *)
LEMMA SeekLandsOn ==
  ASSUME TableInv, NEW b \in 1 .. used, version[b] % 2 = 0, NEW k \in visible, low(b) <= k,
         NEW at, NEW s, Holds(b, s, at), k <= at,
         \A i \in 0 .. count[b] - 1 : k <= entries[b][i] => at <= entries[b][i]
  PROVE  at = k
<1>1. PICK c \in 1 .. used : \E j \in Owned(c) : entries[c][j] = k
  BY DEF TableInv, Contents
<1>2. PICK j \in Owned(c) : entries[c][j] = k
  BY <1>1
<1>3. s \in 0 .. count[b] - 1 /\ entries[b][s] = at
  BY DEF Holds
<1>4. Owned(b) = 0 .. count[b] - 1 /\ at \in Nat
  BY <1>3, StableBlock
<1>5. low(b) \in Nat /\ low(c) \in Nat /\ k \in Nat /\ low(c) <= k
  BY <1>2, LowIsLeast, Facts
<1>6. CASE c = b
  <2>1. at <= k
    BY <1>2, <1>4, <1>5, <1>6
  <2> QED BY <1>4, <1>5, <2>1
<1>7. CASE c # b
  <2>1. low(c) # low(b)
    BY <1>7 DEF TableInv, Distinct
  <2>2. ~ (low(c) < low(b))
    <3> SUFFICES ASSUME low(c) < low(b) PROVE FALSE
      OBVIOUS
    <3>1. entries[c][j] < low(b)
      BY DEF TableInv, Ordered
    <3> QED BY <1>2, <1>5, <3>1
  <2>3. ~ (low(b) < low(c))
    <3> SUFFICES ASSUME low(b) < low(c) PROVE FALSE
      OBVIOUS
    <3>1. entries[b][s] < low(c)
      BY <1>3, <1>4 DEF TableInv, Ordered
    <3> QED BY <1>3, <1>4, <1>5, <3>1
  <2> QED BY <1>5, <2>1, <2>2, <2>3
<1>8. QED
  BY <1>6, <1>7

(* The steps that may move an iterator. *)
LEMMA OnlyLandings ==
  ASSUME NEW r \in Readers, Call(r)
  PROVE  UNCHANGED pos \/ GetIterator(r) \/ CheckSeek(r) \/ CheckEdge(r) \/ Hop(r) \/ StepCheck(r)
<1>1. CASE \E op \in Ops, key \in Entries \cup {Null} : Begin(r, op, key)
  BY <1>1 DEF Begin
<1>2. QED
  BY <1>1 DEF Call, LoadTail, Revalidate, LocateFull, LocateTrie, LocateTail, LocateMapped, SettleBack,
       StepBack, SettleNext, SettleForward, Open, Read, CheckFailed, CheckContains, CheckGet,
       MaxCount, MaxKey, StepCount, StepRead, Leave

LEMMA ReseekStands ==
  ASSUME TableInv, ReaderInv, [Next]_vars, NEW r \in Readers,
         Reseeks(loc[r]), loc[r].target = pos[r].anchor
  PROVE  pos'[r].anchor = pos[r].anchor
<1>1. CASE UNCHANGED pos
  BY <1>1
<1>2. ASSUME NEW q \in Readers, q # r, Call(q) PROVE pos'[r].anchor = pos[r].anchor
  <2>1. PICK pc, l, p : Moves(q, pc, l, p)
    BY <1>2, CallGoes DEF Goes
  <2>2. pos'[r] = pos[r]
    BY <1>2, <2>1 DEF Moves, ReaderInv
  <2> QED BY <2>2
<1>3. CASE Call(r)
  <2>1. PICK l, p, pc : l = loc[r] /\ p = pos[r] /\ pc = rpc[r]
    OBVIOUS
  <2>2. l.goal = "seek" /\ l.target = p.anchor /\ Reseeks(l)
    BY <2>1 DEF Reseeks
  <2>3. Control(pc, l, p) /\ Approaching(pc, l)
    BY <2>1 DEF ReaderInv, Consistent
  <2>4. pc \notin Quiet /\ l.target \in visible /\ l.target \in Entries
    BY <2>2, <2>3 DEF Control, Approaching, Searches
  <2>5. l.target \in Nat /\ l.target \in Wanted(l)
    BY <2>2, <2>4, Sizes DEF Wanted
  <2>6. CASE GetIterator(r) \/ StepCheck(r)
    BY <2>1, <2>4, <2>6 DEF GetIterator, StepCheck, Quiet
  <2>7. CASE CheckEdge(r)
    BY <2>1, <2>2, <2>7 DEF CheckEdge
  <2>8. CASE CheckSeek(r)
    <3>1. pc = "check" /\ Validated(l) /\ pc \in Looking
      BY <2>1, <2>8 DEF CheckSeek, Looking
    <3>2. /\ Bracketed("check", l) /\ l.blk \in 1 .. used /\ low(l.blk) <= l.target
          /\ l.blk \in Joined
      BY <2>1, <2>2, <2>5, <3>1, LookingFacts
    <3>3. CASE l.got.at = Null
      BY <1>1, <2>1, <2>8, <3>3 DEF CheckSeek
    <3>4. CASE l.got.at # Null
      <4>1. /\ version[l.blk] % 2 = 0 /\ Holds(l.blk, l.got.slot, l.got.at) /\ l.target <= l.got.at
            /\ \A i \in 0 .. count[l.blk] - 1 :
                 l.target <= entries[l.blk][i] => l.got.at <= entries[l.blk][i]
        BY <2>2, <3>1, <3>2, <3>4 DEF Bracketed, Validated
      <4>2. l.got.at = l.target
        BY <2>4, <3>2, <4>1, SeekLandsOn
      <4>3. pos' = [pos EXCEPT ![r] = Landing(l)]
        BY <2>1, <2>8, <3>4 DEF CheckSeek, Place
      <4>4. pos'[r] = Landing(l)
        BY <4>3 DEF ReaderInv
      <4> QED BY <2>1, <2>2, <4>2, <4>4 DEF Landing
    <3> QED BY <3>3, <3>4
  <2>9. CASE Hop(r)
    <3>1. pc = "hop" /\ pc \in Looking
      BY <2>1, <2>9 DEF Hop, Looking
    <3>2. /\ l.blk \in Joined
          /\ \E c \in Linked : low(l.blk) < low(c) /\ low(c) <= l.target
      BY <2>1, <2>2, <2>5, <3>1, LookingFacts
    <3>3. next[l.blk] # Null
      BY <3>2, NextIsNext
    <3> QED BY <1>1, <2>1, <2>2, <2>9, <3>3 DEF Hop
  <2> QED BY <1>1, <1>3, <2>6, <2>7, <2>8, <2>9, OnlyLandings
<1>4. CASE UNCHANGED reader
  BY <1>1, <1>4 DEF reader
<1>5. QED
  BY <1>2, <1>3, <1>4, WriterLeavesReaders DEF Next, vars

(* RevalidatePosition's re-seek lands on the anchor, wherever shifts and splits have
   carried it: it neither moves nor ends the cursor. *)
THEOREM ReseekFindsAnchor == Spec => ReseekExact
<1>1. TableInv /\ ReaderInv /\ [Next]_vars
      => [\A r \in Readers :
            loc[r].goal = "seek" /\ loc[r].target = pos[r].anchor /\ loc[r].stage # "user"
              => pos'[r].anchor = pos[r].anchor]_vars
  BY ReseekStands DEF Reseeks
<1>2. QED
  BY <1>1, TableInvariant, ReaderInvariant, PTL DEF Spec, ReseekExact
==============================================================================
