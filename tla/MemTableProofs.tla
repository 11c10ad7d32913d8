--------------------------- MODULE MemTableProofs ----------------------------
(* The table of the memtable under its writer: what BinarySearch and the leaf     *)
(* walk return, and the invariant of blocks, chain and trie between any two       *)
(* stores of an insert and of a split.                                            *)
EXTENDS MemTable, FiniteSetTheorems, WellFoundedInduction, TLAPS

(* A non-empty set of naturals has a least element. *)
LEMMA LeastElement ==
  ASSUME NEW T, T \subseteq Nat, T # {}
  PROVE  \E n \in T : \A m \in T : n <= m
<1>1. PICK n \in T : \A m \in T : ~ (<<m, n>> \in OpToRel(<, Nat))
  BY WFMin, NatLessThanWellFounded
<1>2. \A m \in T : ~ (m < n)
  BY <1>1 DEF OpToRel
<1>3. QED
  BY <1>2

(* A non-empty set of naturals below a bound has a greatest element. *)
LEMMA GreatestElement ==
  ASSUME NEW T, T \subseteq Nat, T # {}, NEW M \in Nat, \A n \in T : n <= M
  PROVE  \E n \in T : \A m \in T : m <= n
<1> DEFINE D == {M - n : n \in T}
<1>1. D \subseteq Nat /\ D # {}
  <2>1. \A n \in T : M - n \in Nat
    OBVIOUS
  <2>2. PICK n \in T : TRUE
    OBVIOUS
  <2>3. M - n \in D
    BY <2>2
  <2> QED BY <2>1, <2>3
<1>2. PICK d \in D : \A m \in D : d <= m
  <2> HIDE DEF D
  <2> QED BY <1>1, LeastElement
<1>3. PICK n \in T : d = M - n
  BY <1>2
<1>4. QED
  <2>1. \A m \in T : M - n <= M - m
    BY <1>2, <1>3
  <2>2. \A m \in T : m <= n
    BY <2>1
  <2> QED BY <2>2

(* A finite set of naturals is bounded. *)
LEMMA FiniteBounded ==
  ASSUME NEW E, IsFiniteSet(E), E \subseteq Nat
  PROVE  \E M \in Nat : \A e \in E : e <= M
<1> DEFINE Bounded(X) == \E M \in Nat : \A e \in X : e <= M
           Bad == {n \in Nat : \E X \in SUBSET Nat : IsFiniteSet(X) /\ Cardinality(X) = n /\ ~ Bounded(X)}
<1>1. Bad = {}
  <2> SUFFICES ASSUME Bad # {} PROVE FALSE
    OBVIOUS
  <2>1. PICK n \in Bad : \A k \in Bad : n <= k
    <3> HIDE DEF Bad
    <3>1. Bad \subseteq Nat
      BY DEF Bad
    <3> QED BY <3>1, LeastElement
  <2>2. PICK X \in SUBSET Nat : IsFiniteSet(X) /\ Cardinality(X) = n /\ ~ Bounded(X)
    BY <2>1
  <2>3. PICK x \in X : TRUE
    <3>1. Bounded({})
      OBVIOUS
    <3> QED BY <2>2, <3>1
  <2> DEFINE Y == X \ {x}
  <2>4. IsFiniteSet(Y) /\ Cardinality(Y) = n - 1 /\ n - 1 \in Nat /\ Y \in SUBSET Nat
    BY <2>2, <2>3, FS_RemoveElement, FS_CardinalityType, FS_EmptySet
  <2>5. Bounded(Y)
    <3>1. n - 1 \notin Bad
      BY <2>1, <2>4
    <3> QED BY <3>1, <2>4
  <2>6. PICK M \in Nat : \A e \in Y : e <= M
    BY <2>5
  <2>7. x \in Nat
    BY <2>2, <2>3
  <2>8. CASE x <= M
    <3>1. \A e \in X : e <= M
      BY <2>6, <2>8
    <3> QED BY <3>1, <2>2
  <2>9. CASE M < x
    <3>1. \A e \in X : e <= x
      BY <2>6, <2>9, <2>7, <2>2
    <3> QED BY <3>1, <2>2, <2>7
  <2> QED BY <2>7, <2>8, <2>9
<1> HIDE DEF Bad
<1>2. Cardinality(E) \notin Bad /\ Cardinality(E) \in Nat
  BY <1>1, FS_CardinalityType
<1>3. QED
  BY <1>2 DEF Bad

(* A loop over the states S, with a measure that falls at every turn. *)
Falls(S, R, stop, out, step, m, M) ==
  /\ R # {} /\ out \in [S -> R] /\ step \in [S -> S] /\ m \in [S -> Nat]
  /\ M \in Nat /\ \A c \in S : m[c] <= M
  /\ \A c \in S : c \notin stop => m[step[c]] < m[c]

(* The loop started in T stays there until it stops, with an outcome in Q. *)
Yields(S, stop, out, step, m, T, Q) ==
  /\ T \subseteq S /\ \A c \in T : m[c] \in Nat
  /\ \A c \in T : c \notin stop => step[c] \in T /\ m[step[c]] < m[c]
  /\ \A c \in T : c \in stop => out[c] \in Q

(* A loop whose measure falls at every turn defines a function: the value at the
   state where the loop stops. *)
LEMMA LoopDefined ==
  ASSUME NEW S, NEW R, NEW stop, NEW out, NEW step, NEW m, NEW M, Falls(S, R, stop, out, step, m, M)
  PROVE  \E f \in [S -> R] : f = [c \in S |-> IF c \in stop THEN out[c] ELSE f[step[c]]]
<1> USE DEF Falls
<1> DEFINE Good(n, f) == \A c \in S : m[c] < n => f[c] = IF c \in stop THEN out[c] ELSE f[step[c]]
           Defined(n) == \E f \in [S -> R] : Good(n, f)
           Bad == {n \in Nat : ~ Defined(n)}
<1>1. Bad = {}
  <2> SUFFICES ASSUME Bad # {} PROVE FALSE
    OBVIOUS
  <2>1. PICK n \in Bad : \A k \in Bad : n <= k
    <3> HIDE DEF Bad
    <3>1. Bad \subseteq Nat
      BY DEF Bad
    <3> QED BY <3>1, LeastElement
  <2>2. n # 0
    <3>1. PICK x \in R : TRUE
      OBVIOUS
    <3>2. Good(0, [c \in S |-> x])
      OBVIOUS
    <3> QED BY <3>2
  <2>3. n \in Nat /\ n - 1 \in Nat /\ n - 1 \notin Bad
    BY <2>1, <2>2
  <2>4. PICK f \in [S -> R] : Good(n - 1, f)
    BY <2>3
  <2> DEFINE g == [c \in S |-> IF m[c] < n - 1 THEN f[c]
                               ELSE IF c \in stop THEN out[c] ELSE f[step[c]]]
  <2>5. g \in [S -> R]
    OBVIOUS
  <2>6. Good(n, g)
    <3> SUFFICES ASSUME NEW c \in S, m[c] < n
                 PROVE  g[c] = IF c \in stop THEN out[c] ELSE g[step[c]]
      OBVIOUS
    <3>1. CASE c \in stop
      BY <2>4, <2>3, <3>1
    <3>2. CASE c \notin stop
      <4>1. m[step[c]] < n - 1 /\ step[c] \in S
        BY <3>2, <2>3
      <4>2. g[step[c]] = f[step[c]]
        BY <4>1
      <4>3. g[c] = f[step[c]]
        BY <2>4, <2>3, <3>2
      <4> QED BY <4>2, <4>3, <3>2
    <3> QED BY <3>1, <3>2
  <2>7. n \notin Bad
    BY <2>5, <2>6
  <2> QED BY <2>7, <2>1
<1>2. PICK f \in [S -> R] : Good(M + 1, f)
  <2>1. Defined(M + 1)
    <3> HIDE DEF Defined
    <3> QED BY <1>1
  <2> QED BY <2>1
<1>3. f = [c \in S |-> IF c \in stop THEN out[c] ELSE f[step[c]]]
  BY <1>2
<1> QED BY <1>3

(* What holds of every stop that a loop can reach from T holds of its value. *)
LEMMA LoopResult ==
  ASSUME NEW S, NEW stop, NEW out, NEW step, NEW f,
         f = [c \in S |-> IF c \in stop THEN out[c] ELSE f[step[c]]],
         NEW m, NEW T, NEW Q, Yields(S, stop, out, step, m, T, Q)
  PROVE  \A c \in T : f[c] \in Q
<1> USE DEF Yields
<1> DEFINE Bad == {n \in Nat : \E c \in T : m[c] = n /\ f[c] \notin Q}
<1>1. Bad = {}
  <2> SUFFICES ASSUME Bad # {} PROVE FALSE
    OBVIOUS
  <2>1. PICK n \in Bad : \A k \in Bad : n <= k
    <3> HIDE DEF Bad
    <3>1. Bad \subseteq Nat
      BY DEF Bad
    <3> QED BY <3>1, LeastElement
  <2>2. PICK c \in T : m[c] = n /\ f[c] \notin Q
    BY <2>1
  <2>3. f[c] = IF c \in stop THEN out[c] ELSE f[step[c]]
    BY <2>2
  <2>4. c \notin stop
    BY <2>2, <2>3
  <2>5. step[c] \in T /\ m[step[c]] < n /\ f[step[c]] \notin Q
    BY <2>2, <2>3, <2>4
  <2>6. m[step[c]] \in Bad
    BY <2>5
  <2> QED BY <2>1, <2>5, <2>6
<1>2. QED
  BY <1>1

------------------------------------------------------------------------------


Middle(w) == w[1] + (w[2] - w[1]) \div 2
Above(x, k, strict) == x > k \/ (x = k /\ ~ strict)

(* The binary search as a loop over the bounds it has narrowed to: a set of bounds
   that the loop does not leave, and what its stops say. *)
LEMMA BinarySearchLoop ==
  ASSUME NEW b, NEW n \in Slots, NEW k, NEW strict,
         Cardinality(Entries) \in Nat,
         NEW T, T \subseteq Slots \X Slots, <<0, n>> \in T, NEW Q,
         \A w \in T : w[1] >= w[2] => w[1] \in Q,
         \A w \in T : w[1] < w[2] /\ entries[b][Middle(w)] = Null => -1 \in Q,
         \A w \in T : w[1] < w[2] /\ entries[b][Middle(w)] # Null =>
           IF Above(entries[b][Middle(w)], k, strict)
           THEN <<w[1], Middle(w)>> \in T ELSE <<Middle(w) + 1, w[2]>> \in T
  PROVE  BinarySearch(b, n, k, strict) \in Q
<1> DEFINE S == Slots \X Slots
           e(w) == entries[b][Middle(w)]
           stop == {w \in S : w[1] >= w[2] \/ e(w) = Null}
           out == [w \in S |-> IF w[1] >= w[2] THEN w[1] ELSE -1]
           step == [w \in S |-> IF w \in stop THEN w
                                ELSE IF Above(e(w), k, strict) THEN <<w[1], Middle(w)>>
                                                               ELSE <<Middle(w) + 1, w[2]>>]
           m == [w \in S |-> IF w[1] >= w[2] THEN 0 ELSE w[2] - w[1]]
           Go[w \in Slots \X Slots] ==
             LET l == w[1]  r == w[2]  mid == l + (r - l) \div 2  e_1 == entries[b][mid] IN
             IF l >= r THEN l
             ELSE IF e_1 = Null THEN -1
             ELSE IF e_1 > k \/ (e_1 = k /\ ~ strict) THEN Go[<<l, mid>>] ELSE Go[<<mid + 1, r>>]
<1>1. \A w \in S : w[1] \in Nat /\ w[2] \in Nat /\ w[1] <= Cardinality(Entries) /\ w[2] <= Cardinality(Entries)
  BY DEF Slots
<1>2. \A w \in S : w[1] < w[2] => /\ Middle(w) \in w[1] .. w[2] - 1
                                  /\ Middle(w) \in Slots /\ Middle(w) + 1 \in Slots
  BY <1>1 DEF Middle, Slots
<1>3. step \in [S -> S]
  <2> SUFFICES ASSUME NEW w \in S PROVE step[w] \in S
    OBVIOUS
  <2>1. CASE w \in stop
    BY <2>1
  <2>2. CASE w \notin stop
    <3>1. w[1] < w[2] /\ w[1] \in Slots /\ w[2] \in Slots
      BY <2>2, <1>1
    <3>2. Middle(w) \in Slots /\ Middle(w) + 1 \in Slots
      BY <3>1, <1>2
    <3>3. <<w[1], Middle(w)>> \in S /\ <<Middle(w) + 1, w[2]>> \in S
      BY <3>1, <3>2
    <3> QED BY <2>2, <3>3
  <2> QED BY <2>1, <2>2
<1>4. out \in [S -> Int] /\ m \in [S -> Nat] /\ \A w \in S : m[w] <= Cardinality(Entries)
  BY <1>1
<1>5. \A w \in S : w \notin stop => m[step[w]] < m[w]
  <2> SUFFICES ASSUME NEW w \in S, w \notin stop PROVE m[step[w]] < m[w]
    OBVIOUS
  <2>1. w[1] < w[2] /\ w[1] \in Nat /\ w[2] \in Nat
    BY <1>1
  <2>2. Middle(w) \in w[1] .. w[2] - 1
    BY <2>1, <1>2
  <2>3. step[w] = <<w[1], Middle(w)>> \/ step[w] = <<Middle(w) + 1, w[2]>>
    OBVIOUS
  <2>4. step[w] \in S
    BY <1>3
  <2> HIDE DEF step, stop
  <2>5. m[w] = w[2] - w[1]
    BY <2>1
  <2>6. m[step[w]] = IF step[w][1] >= step[w][2] THEN 0 ELSE step[w][2] - step[w][1]
    BY <2>4
  <2> HIDE DEF m, S
  <2> QED BY <2>1, <2>2, <2>3, <2>5, <2>6
<1>6. \E f \in [S -> Int] : f = [w \in S |-> IF w \in stop THEN out[w] ELSE f[step[w]]]
  <2> HIDE DEF S, stop, out, step, m
  <2>1. Falls(S, Int, stop, out, step, m, Cardinality(Entries))
    BY <1>3, <1>4, <1>5 DEF Falls
  <2> QED BY <2>1, LoopDefined
<1>7. PICK f \in [S -> Int] : f = [w \in S |-> IF w \in stop THEN out[w] ELSE f[step[w]]]
  BY <1>6
<1> DEFINE Body(g, w) ==
             LET l == w[1]  r == w[2]  mid == l + (r - l) \div 2  e_1 == entries[b][mid] IN
             IF l >= r THEN l
             ELSE IF e_1 = Null THEN -1
             ELSE IF e_1 > k \/ (e_1 = k /\ ~ strict) THEN g[<<l, mid>>] ELSE g[<<mid + 1, r>>]
<1>8. ASSUME NEW g, NEW w \in S
      PROVE  Body(g, w) = IF w \in stop THEN out[w] ELSE g[step[w]]
  <2>1. CASE w[1] >= w[2]
    BY <2>1
  <2>2. CASE ~ (w[1] >= w[2]) /\ e(w) = Null
    BY <2>2 DEF Middle
  <2>3. CASE ~ (w[1] >= w[2]) /\ e(w) # Null
    <3>1. step[w] = IF Above(e(w), k, strict) THEN <<w[1], Middle(w)>> ELSE <<Middle(w) + 1, w[2]>>
      BY <2>3
    <3>2. w \notin stop
      BY <2>3
    <3> HIDE DEF step, stop
    <3> QED BY <2>3, <3>1, <3>2 DEF Middle, Above
  <2> QED BY <2>1, <2>2, <2>3
<1>9. f = [w \in S |-> Body(f, w)]
  <2>1. \A w \in S : f[w] = Body(f, w)
    <3> SUFFICES ASSUME NEW w \in S PROVE f[w] = Body(f, w)
      OBVIOUS
    <3> HIDE DEF stop, out, step, Body, S
    <3>1. Body(f, w) = IF w \in stop THEN out[w] ELSE f[step[w]]
      BY <1>8
    <3>2. f[w] = IF w \in stop THEN out[w] ELSE f[step[w]]
      BY <1>7, SMTT(30)
    <3> QED BY <3>1, <3>2
  <2> HIDE DEF Body, S
  <2> QED BY <2>1
<1>10. Go = [w \in S |-> Body(Go, w)]
  BY <1>9
<1>11. BinarySearch(b, n, k, strict) = Go[<<0, n>>]
  BY DEF BinarySearch
<1> HIDE DEF Go
<1>12. Go = [w \in S |-> IF w \in stop THEN out[w] ELSE Go[step[w]]]
  <2> HIDE DEF stop, out, step, Body, S
  <2> QED BY <1>10, <1>8
<1>13. \A w \in T : w \notin stop => step[w] \in T /\ m[step[w]] < m[w]
  <2> SUFFICES ASSUME NEW w \in T, w \notin stop PROVE step[w] \in T
    BY <1>5
  <2>1. w \in S /\ w[1] < w[2] /\ e(w) # Null
    BY <1>1
  <2>2. step[w] = IF Above(e(w), k, strict) THEN <<w[1], Middle(w)>> ELSE <<Middle(w) + 1, w[2]>>
    BY <2>1
  <2> HIDE DEF step, stop
  <2> QED BY <2>1, <2>2
<1>14. \A w \in T : w \in stop => out[w] \in Q
  <2> SUFFICES ASSUME NEW w \in T, w \in stop PROVE out[w] \in Q
    OBVIOUS
  <2>1. CASE w[1] >= w[2]
    BY <2>1
  <2>2. CASE ~ (w[1] >= w[2])
    <3>1. w[1] < w[2] /\ e(w) = Null
      BY <2>2, <1>1
    <3> QED BY <3>1, <2>2
  <2> QED BY <2>1, <2>2
<1>15. \A w \in T : Go[w] \in Q
  <2>1. T \subseteq S /\ \A w \in T : m[w] \in Nat
    BY <1>4
  <2> HIDE DEF S, stop, out, step, m
  <2>2. Yields(S, stop, out, step, m, T, Q)
    BY <2>1, <1>13, <1>14 DEF Yields
  <2> QED BY <2>2, <1>12, LoopResult
<1>16. QED
  BY <1>11, <1>15

(* The search answers a slot in or just past the ones in use, or -1, whatever the
   slots hold: the bracket that reads may be torn. *)
LEMMA BinarySearchType ==
  ASSUME NEW b, NEW n \in Slots, NEW k, NEW strict, Cardinality(Entries) \in Nat
  PROVE  BinarySearch(b, n, k, strict) \in 0 .. n \cup {-1}
<1> DEFINE T == {w \in Slots \X Slots : w[1] <= w[2] /\ w[2] <= n}
<1>1. T \subseteq Slots \X Slots /\ <<0, n>> \in T
  BY DEF Slots
<1>2. \A w \in T : w[1] \in Nat /\ w[2] \in Nat /\ w[1] <= w[2] /\ w[2] <= n /\ n \in Nat
  BY DEF Slots
<1>3. \A w \in T : w[1] \in 0 .. n
  BY <1>2
<1>4. \A w \in T : w[1] < w[2] => <<w[1], Middle(w)>> \in T /\ <<Middle(w) + 1, w[2]>> \in T
  <2> SUFFICES ASSUME NEW w \in T, w[1] < w[2]
               PROVE  <<w[1], Middle(w)>> \in T /\ <<Middle(w) + 1, w[2]>> \in T
    OBVIOUS
  <2>1. Middle(w) \in w[1] .. w[2] - 1
    BY <1>2 DEF Middle
  <2>2. w[1] \in Slots /\ w[2] \in Slots /\ Middle(w) \in Slots /\ Middle(w) + 1 \in Slots
    BY <2>1, <1>2 DEF Slots
  <2> QED BY <1>2, <2>1, <2>2
<1> DEFINE Q == 0 .. n \cup {-1}
<1>5. -1 \in Q /\ \A w \in T : w[1] \in Q
  BY <1>3
<1>6. \A w \in T : w[1] < w[2] /\ entries[b][Middle(w)] # Null =>
        IF Above(entries[b][Middle(w)], k, strict)
        THEN <<w[1], Middle(w)>> \in T ELSE <<Middle(w) + 1, w[2]>> \in T
  BY <1>4
<1>7. BinarySearch(b, n, k, strict) \in Q
  <2> HIDE DEF T, Q
  <2> QED BY <1>1, <1>5, <1>6, BinarySearchLoop
<1>8. QED
  BY <1>7

(* On slots that hold ascending entries it answers the first that is at the key or
   past it (with strict, past it). *)
LEMMA BinarySearchFinds ==
  ASSUME NEW b, NEW n \in Slots, NEW k \in Nat, NEW strict, Cardinality(Entries) \in Nat,
         \A i \in 0 .. n - 1 : entries[b][i] \in Nat \ {0},
         \A i, j \in 0 .. n - 1 : i < j => entries[b][i] < entries[b][j]
  PROVE  LET s == BinarySearch(b, n, k, strict) IN
         /\ s \in 0 .. n
         /\ \A i \in 0 .. s - 1 : ~ Above(entries[b][i], k, strict)
         /\ \A i \in s .. n - 1 : Above(entries[b][i], k, strict)
<1> DEFINE Low(l) == \A i \in 0 .. l - 1 : ~ Above(entries[b][i], k, strict)
           High(r) == \A i \in r .. n - 1 : Above(entries[b][i], k, strict)
           T == {w \in Slots \X Slots : w[1] <= w[2] /\ w[2] <= n /\ Low(w[1]) /\ High(w[2])}
           Q == {s \in 0 .. n : Low(s) /\ High(s)}
<1>0. n \in Nat
  BY DEF Slots
<1>1. T \subseteq Slots \X Slots /\ <<0, n>> \in T
  BY <1>0 DEF Slots
<1>2. \A w \in T : w[1] \in Nat /\ w[2] \in Nat /\ w[1] <= w[2] /\ w[2] <= n /\ Low(w[1]) /\ High(w[2])
  BY DEF Slots
<1>3. \A w \in T : w[1] >= w[2] => w[1] \in Q
  <2> HIDE DEF Low, High
  <2> SUFFICES ASSUME NEW w \in T, w[1] >= w[2] PROVE w[1] \in Q
    OBVIOUS
  <2>1. w[1] = w[2]
    BY <1>2
  <2> QED BY <2>1, <1>2, <1>0
<1>4. ASSUME NEW w \in T, w[1] < w[2]
      PROVE  /\ Middle(w) \in w[1] .. w[2] - 1 /\ Middle(w) \in 0 .. n - 1
             /\ w[1] \in Slots /\ w[2] \in Slots /\ Middle(w) \in Slots /\ Middle(w) + 1 \in Slots
  <2>1. Middle(w) \in w[1] .. w[2] - 1
    BY <1>2, <1>4 DEF Middle
  <2> QED BY <2>1, <1>2, <1>0 DEF Slots
<1>5. ASSUME NEW w \in T, w[1] < w[2], entries[b][Middle(w)] # Null
      PROVE  IF Above(entries[b][Middle(w)], k, strict)
             THEN <<w[1], Middle(w)>> \in T ELSE <<Middle(w) + 1, w[2]>> \in T
  <2> DEFINE mid == Middle(w)
  <2>1. mid \in w[1] .. w[2] - 1 /\ mid \in 0 .. n - 1 /\ w[1] \in Slots /\ w[2] \in Slots
        /\ mid \in Slots /\ mid + 1 \in Slots
    BY <1>4, <1>5
  <2>2. /\ w[1] \in Nat /\ w[2] \in Nat /\ w[1] <= w[2] /\ w[2] <= n /\ Low(w[1]) /\ High(w[2])
    BY <1>2
  <2> HIDE DEF mid
  <2>3. CASE Above(entries[b][mid], k, strict)
    <3>1. High(mid)
      <4> SUFFICES ASSUME NEW i \in mid .. n - 1 PROVE Above(entries[b][i], k, strict)
        OBVIOUS
      <4>1. i \in 0 .. n - 1 /\ entries[b][mid] <= entries[b][i] /\ entries[b][mid] \in Nat /\ entries[b][i] \in Nat
        BY <2>1, <1>0
      <4> QED BY <2>3, <4>1 DEF Above
    <3> HIDE DEF Low, High
    <3>2. <<w[1], mid>> \in T
      BY <3>1, <2>1, <2>2, <1>0
    <3> QED BY <2>3, <3>2 DEF mid
  <2>4. CASE ~ Above(entries[b][mid], k, strict)
    <3>1. Low(mid + 1)
      <4> SUFFICES ASSUME NEW i \in 0 .. mid PROVE ~ Above(entries[b][i], k, strict)
        BY <2>1
      <4>1. i \in 0 .. n - 1 /\ entries[b][i] <= entries[b][mid] /\ entries[b][mid] \in Nat /\ entries[b][i] \in Nat
        BY <2>1, <1>0
      <4> QED BY <2>4, <4>1 DEF Above
    <3> HIDE DEF Low, High
    <3>2. <<mid + 1, w[2]>> \in T
      BY <3>1, <2>1, <2>2, <1>0
    <3> QED BY <2>4, <3>2 DEF mid
  <2> QED BY <2>3, <2>4 DEF mid
<1>6. \A w \in T : w[1] < w[2] => entries[b][Middle(w)] # Null
  BY <1>4 DEF Null
<1>7. BinarySearch(b, n, k, strict) \in Q
  <2> HIDE DEF T, Q
  <2> QED BY <1>1, <1>3, <1>5, <1>6, BinarySearchLoop
<1>8. QED
  BY <1>7

------------------------------------------------------------------------------
(* The invariant of the table, at every step of the writer. *)

(* The steps of SplitLeafBlock between the version's two increments; with those of
   Insert, the steps during which the version of the block is odd. *)
Splitting == wpc \in {"splitcount", "null", "linkback", "link", "splitmap", "splitclose"}
Modifying == Splitting \/ wpc \in {"shift", "count", "close"}

(* The blocks that next_leaf reaches, and those that prev_leaf and tail_ reach: a
   split links the new block, the last one allocated, backwards first. *)
Linked == 1 .. (IF wpc \in {"splitcount", "null", "linkback", "link"} THEN used - 1 ELSE used)
Joined == 1 .. (IF wpc \in {"splitcount", "null", "linkback"} THEN used - 1 ELSE used)

(* Where a block begins: the head below every key, another at its first entry. *)
low(b) == IF b = HeadBlock THEN 0 ELSE entries[b][0]

(* The slots whose entries are the block's own while the writer is at work on it. *)
Owned(b) ==
  IF b = ins.b /\ wpc = "shift" THEN (0 .. count[b]) \ {ins.i}
  ELSE IF b = ins.b /\ wpc = "count" THEN 0 .. count[b]
  ELSE IF b = ins.b /\ wpc = "splitcount" THEN 0 .. ins.i - 1
  ELSE 0 .. count[b] - 1

WriterSteps == {"idle", "open", "shift", "count", "close", "map", "split", "splitcount",
                "null", "linkback", "link", "splitmap", "splitclose"}

InsertRecords ==
  [e : Entries \cup {Null}, b : Blocks \cup {Null}, left : Slots, i : Slots,
   new : Blocks \cup {Null}]

TableTypes ==
  /\ <<scope, cap>> \in Shapes
  /\ version \in [Blocks -> Nat] /\ count \in [Blocks -> Slots]
  /\ entries \in [Blocks -> [Slots -> Entries \cup {Null}]]
  /\ prev \in [Blocks -> Blocks \cup {Null}] /\ next \in [Blocks -> Blocks \cup {Null}]
  /\ tail \in Blocks /\ used \in Blocks
  /\ trie \in [Prefixes -> Blocks \cup {Null}]
  /\ visible \subseteq Entries
  /\ wpc \in WriterSteps
  /\ ins \in InsertRecords

Sorted ==
  \A b \in 1 .. used : \A j \in Owned(b) :
    /\ entries[b][j] \in Entries
    /\ \A k \in Owned(b) : j < k => entries[b][j] < entries[b][k]

NonEmpty == \A b \in 2 .. used : count[b] > 0 /\ entries[b][0] \in Entries

Distinct == \A b, c \in 1 .. used : low(b) = low(c) => b = c

(* A block's entries come before the block that begins next. *)
Ordered ==
  \A b, c \in 1 .. used : low(b) < low(c) => \A j \in Owned(b) : entries[b][j] < low(c)

(* The blocks own the inserted entries and the one being inserted, no other. *)
Contents ==
  /\ \A b \in 1 .. used : \A j \in Owned(b) :
       entries[b][j] \in visible \/ (wpc \in {"count", "close"} /\ entries[b][j] = ins.e)
  /\ \A e \in visible : \E b \in 1 .. used : \E j \in Owned(b) : entries[b][j] = e

(* next_leaf is the block that begins next; prev_leaf the one that begins before. *)
NextOrder ==
  \A b \in Linked :
    IF next[b] = Null THEN \A c \in Linked : low(c) <= low(b)
    ELSE /\ next[b] \in Linked /\ low(b) < low(next[b])
         /\ \A c \in Linked : low(c) <= low(b) \/ low(next[b]) <= low(c)

PrevOrder ==
  /\ prev[HeadBlock] = Null
  /\ tail \in Joined /\ \A c \in Joined : low(c) <= low(tail)
  /\ \A b \in Joined \ {HeadBlock} :
       /\ prev[b] \in Joined /\ low(prev[b]) < low(b)
       /\ \A c \in Joined : low(c) <= low(prev[b]) \/ low(b) <= low(c)

Unlinked == \A b \in Blocks : b > used => prev[b] = Null /\ next[b] = Null

TrieLinked == \A p \in Prefixes : trie[p] # Null => trie[p] \in Linked

Parity == \A b \in Blocks : version[b] % 2 = (IF Modifying /\ b = ins.b THEN 1 ELSE 0)

(* Where the writer is: the entry's place among the block's, the slot that the
   shift has emptied, the halves of a split. *)
Inserting ==
  LET b == ins.b  e == ins.e  new == ins.new IN
  /\ wpc # "idle" => b \in 1 .. used /\ e \in Entries
  /\ wpc \in {"open", "shift", "count", "close"} =>
       e \notin visible /\ ins.left \in 0 .. count[b] /\ (b # HeadBlock => ins.left > 0)
  /\ wpc \in {"open", "shift"} =>
       /\ low(b) < e /\ \A c \in 1 .. used : low(b) < low(c) => e < low(c)
       /\ \A j \in Owned(b) : IF j < ins.left THEN entries[b][j] < e ELSE e < entries[b][j]
  /\ wpc = "shift" =>
       /\ ins.i \in ins.left .. count[b]
       /\ ins.i < count[b] => entries[b][ins.i] = entries[b][ins.i + 1]
  /\ wpc = "count" => entries[b][ins.left] = e
  /\ wpc = "close" => ins.left < count[b] /\ entries[b][ins.left] = e
  /\ wpc \in {"open", "shift", "count"} => count[b] < Cardinality(Entries)
  /\ wpc = "map" => b = HeadBlock
  /\ wpc \in {"close", "map", "split"} => count[b] > (IF b = HeadBlock THEN 0 ELSE 1)
  /\ Splitting => /\ new = used /\ b < used /\ low(b) < low(new)
                  /\ \A c \in 1 .. used : low(c) <= low(b) \/ low(new) <= low(c)
  /\ wpc = "splitcount" =>
       /\ ins.i + count[new] = count[b] /\ (b # HeadBlock => ins.i > 0)
       /\ \A j \in 0 .. count[new] - 1 : entries[b][ins.i + j] = entries[new][j]
  /\ wpc = "null" => /\ ins.i \in count[b] .. count[b] + count[new] - 1
                     /\ count[b] + count[new] <= Cardinality(Entries)
  /\ wpc = "link" => next[new] = next[b]

TableInv ==
  /\ TableTypes /\ Sorted /\ NonEmpty /\ Distinct /\ Ordered /\ Contents
  /\ NextOrder /\ PrevOrder /\ Unlinked /\ TrieLinked /\ Parity /\ Inserting

------------------------------------------------------------------------------
(* Lemmas about the operators on the table. *)

LEMMA Sizes ==
  /\ Cardinality(Entries) \in Nat
  /\ \A e \in Entries : e \in Nat /\ e > 0
  /\ \E M \in Nat : \A e \in Entries : e <= M
<1>1. IsFiniteSet(Entries) /\ Entries \subseteq Nat \ {0}
  BY MemTableAssumption
<1>2. Cardinality(Entries) \in Nat
  BY <1>1, FS_CardinalityType
<1>3. \E M \in Nat : \A e \in Entries : e <= M
  BY <1>1, FiniteBounded
<1>4. QED
  BY <1>1, <1>2, <1>3

(* The first key of a block is where the block begins, but for the head. *)
LEMMA MinIsLow ==
  ASSUME TableTypes, NonEmpty
  PROVE  /\ 1 .. used \subseteq Blocks /\ HeadBlock \in 1 .. used /\ low(HeadBlock) = 0
         /\ used \in Nat /\ used <= Cardinality(Entries) + 1
         /\ \A c \in 1 .. used : /\ low(c) \in Nat
                                 /\ c # HeadBlock => min_key(c) = low(c) /\ low(c) \in Entries /\ low(c) > 0
         /\ min_key(HeadBlock) \in Entries \cup {Null}
<1>1. used \in Nat /\ used >= 1 /\ used <= Cardinality(Entries) + 1 /\ HeadBlock \in 1 .. used /\ 1 .. used \subseteq Blocks
  BY Sizes DEF TableTypes, Blocks, HeadBlock
<1>2. ASSUME NEW c \in 1 .. used, c # HeadBlock
      PROVE  min_key(c) = low(c) /\ low(c) \in Entries /\ low(c) > 0
  <2>1. c \in 2 .. used
    BY <1>1, <1>2 DEF HeadBlock
  <2> QED BY <2>1, <1>2, Sizes DEF NonEmpty, low, min_key
<1>3. low(HeadBlock) = 0
  BY DEF low
<1>4. min_key(HeadBlock) \in Entries \cup {Null}
  <2>1. HeadBlock \in Blocks /\ 0 \in Slots
    BY <1>1, Sizes DEF Slots
  <2> QED BY <2>1 DEF TableTypes, min_key
<1>5. \A c \in 1 .. used : low(c) \in Nat
  BY <1>2, <1>3, Sizes
<1>6. QED
  BY <1>1, <1>2, <1>3, <1>4, <1>5

(* The trie answers a block of the chain. *)
LEMMA CandidateLinked ==
  ASSUME TableTypes, NonEmpty, TrieLinked, Inserting, NEW k \in Entries
  PROVE  TrieCandidate(k) \in Linked
<1> DEFINE below == {p \in Prefixes : p <= PrefixOf[k] /\ trie[p] # Null}
<1>1. CASE below = {}
  <2>1. HeadBlock \in Linked
    BY MinIsLow DEF Linked, Inserting, Splitting, HeadBlock
  <2> QED BY <1>1, <2>1 DEF TrieCandidate
<1>2. CASE below # {}
  <2>1. Prefixes \subseteq Nat /\ PrefixOf[k] \in Nat
    BY MemTableAssumption DEF Prefixes
  <2>2. below \subseteq Nat /\ \A n \in below : n <= PrefixOf[k]
    BY <2>1
  <2> HIDE DEF below
  <2>3. \E p \in below : \A q \in below : q <= p
    BY <1>2, <2>1, <2>2, GreatestElement
  <2>4. (CHOOSE p \in below : \A q \in below : q <= p) \in below
    BY <2>3
  <2> DEFINE p == CHOOSE p \in below : \A q \in below : q <= p
  <2>5. TrieCandidate(k) = trie[p]
    BY <1>2 DEF TrieCandidate, below
  <2>6. p \in Prefixes /\ trie[p] # Null
    BY <2>4 DEF below
  <2> QED BY <2>5, <2>6 DEF TrieLinked
<1>3. QED
  BY <1>1, <1>2

(* The block the leaf walk settles on: the last that does not begin after the key. *)
Covers(c, k) == low(c) <= k /\ \A d \in 1 .. used : low(d) <= low(c) \/ k < low(d)

(* With mutex_ held both walks end, and on the block that covers the key. *)
LEMMA SettleCovers ==
  ASSUME TableTypes, NonEmpty, Distinct, NextOrder, PrevOrder, Unlinked, wpc = "idle",
         NEW k \in Entries, NEW b \in 1 .. used, NEW passEmpty
  PROVE  Settle(b, k, passEmpty) \in 1 .. used /\ Covers(Settle(b, k, passEmpty), k)
<1> DEFINE Back[c \in Blocks] ==
             IF prev[c] # Null /\ min_key(c) # Null /\ min_key(c) > k THEN Back[prev[c]] ELSE c
           Forward[c \in Blocks] ==
             LET d == next[c] IN
             IF d # Null /\ (IF min_key(d) = Null THEN passEmpty ELSE min_key(d) <= k)
             THEN Forward[d] ELSE c
<1>1. PICK M \in Nat : \A e \in Entries : e <= M
  BY Sizes
<1>2. /\ 1 .. used \subseteq Blocks /\ HeadBlock \in 1 .. used /\ low(HeadBlock) = 0
      /\ used \in Nat
      /\ \A c \in 1 .. used : /\ low(c) \in Nat
                              /\ c # HeadBlock => min_key(c) = low(c) /\ low(c) \in Entries /\ low(c) > 0
  BY MinIsLow
<1>3. Linked = 1 .. used /\ Joined = 1 .. used /\ k \in Nat /\ k > 0
  BY Sizes DEF Linked, Joined
<1>4. \A c \in 1 .. used : low(c) <= M
  BY <1>1, <1>2
<1>5. Blocks \subseteq Nat /\ \A c \in Blocks : c \in 1 .. used \/ c > used
  BY <1>2, Sizes DEF Blocks
<1> DEFINE id == [c \in Blocks |-> c]
           stopB == {c \in Blocks : ~ (prev[c] # Null /\ min_key(c) # Null /\ min_key(c) > k)}
           stepB == [c \in Blocks |-> IF c \in stopB THEN c ELSE prev[c]]
           measB == [c \in Blocks |-> IF c > used THEN 0 ELSE low(c)]
<1>6. ASSUME NEW c \in Blocks, c \notin stopB
      PROVE  /\ c \in 1 .. used /\ c # HeadBlock /\ stepB[c] = prev[c]
             /\ prev[c] \in 1 .. used /\ low(prev[c]) < low(c)
  <2>1. c \in 1 .. used /\ c # HeadBlock
    BY <1>5, <1>6 DEF Unlinked, PrevOrder
  <2> QED BY <2>1, <1>3, <1>6 DEF PrevOrder
<1>7. Back = [c \in Blocks |-> IF c \in stopB THEN id[c] ELSE Back[stepB[c]]]
  <2>1. stepB \in [Blocks -> Blocks]
    BY <1>6, <1>2
  <2>2. measB \in [Blocks -> Nat] /\ \A c \in Blocks : measB[c] <= M
    BY <1>2, <1>4, <1>5
  <2>3. \A c \in Blocks : c \notin stopB => measB[stepB[c]] < measB[c]
    BY <1>6, <1>2
  <2>4. Falls(Blocks, Blocks, stopB, id, stepB, measB, M)
    <3>1. Blocks # {} /\ id \in [Blocks -> Blocks]
      BY <1>2
    <3> HIDE DEF stopB, id, stepB, measB
    <3> QED BY <2>1, <2>2, <2>3, <3>1 DEF Falls
  <2>5. PICK f \in [Blocks -> Blocks] : f = [c \in Blocks |-> IF c \in stopB THEN id[c] ELSE f[stepB[c]]]
    <3> HIDE DEF stopB, id, stepB, measB
    <3> QED BY <2>4, LoopDefined
  <2>6. f = [c \in Blocks |-> IF prev[c] # Null /\ min_key(c) # Null /\ min_key(c) > k
                               THEN f[prev[c]] ELSE c]
    BY <2>5
  <2>7. Back = [c \in Blocks |-> IF prev[c] # Null /\ min_key(c) # Null /\ min_key(c) > k
                                 THEN Back[prev[c]] ELSE c]
    BY <2>6
  <2> HIDE DEF Back
  <2> QED BY <2>7
<1> DEFINE T == {c \in 1 .. used : low(c) <= k}
<1>8. Back[b] \in T
  <2>1. \A c \in 1 .. used : measB[c] \in Nat
    BY <1>2
  <2>2. \A c \in 1 .. used : c \notin stopB => stepB[c] \in 1 .. used /\ measB[stepB[c]] < measB[c]
    BY <1>2, <1>6
  <2>3. \A c \in 1 .. used : c \in stopB => id[c] \in T
    <3> SUFFICES ASSUME NEW c \in 1 .. used, c \in stopB PROVE c \in T
      BY <1>2
    <3>1. CASE c = HeadBlock
      BY <3>1, <1>2, <1>3
    <3>2. CASE c # HeadBlock
      <4>1. prev[c] # Null
        BY <3>2, <1>3, <1>2 DEF PrevOrder, Null
      <4>2. min_key(c) = low(c) /\ min_key(c) # Null
        BY <3>2, <1>2 DEF Null
      <4> QED BY <4>1, <4>2, <1>2, <1>3
    <3> QED BY <3>1, <3>2
  <2>4. Yields(Blocks, stopB, id, stepB, measB, 1 .. used, T)
    <3> HIDE DEF stopB, id, stepB, measB, T
    <3> QED BY <2>1, <2>2, <2>3, <1>2 DEF Yields
  <2> HIDE DEF stopB, id, stepB, measB, T, Back, Forward
  <2> DEFINE U == 1 .. used
  <2>5. Yields(Blocks, stopB, id, stepB, measB, U, T)
    BY <2>4
  <2> HIDE DEF U
  <2>6. \A c \in U : Back[c] \in T
    BY <1>7, <2>5, LoopResult
  <2> QED BY <2>6 DEF U
<1> DEFINE Goes(c) == next[c] # Null /\ (IF min_key(next[c]) = Null THEN passEmpty ELSE min_key(next[c]) <= k)
           stopF == {c \in Blocks : ~ Goes(c)}
           stepF == [c \in Blocks |-> IF c \in stopF THEN c ELSE next[c]]
           measF == [c \in Blocks |-> IF c > used THEN 0 ELSE M - low(c)]
<1>9. ASSUME NEW c \in Blocks, c \notin stopF
      PROVE  /\ c \in 1 .. used /\ stepF[c] = next[c]
             /\ next[c] \in 1 .. used /\ low(c) < low(next[c]) /\ low(next[c]) <= k
  <2>1. c \in 1 .. used /\ next[c] # Null
    BY <1>5, <1>9 DEF Unlinked
  <2>2. next[c] \in 1 .. used /\ low(c) < low(next[c])
    BY <2>1, <1>3 DEF NextOrder
  <2>3. next[c] # HeadBlock
    BY <2>1, <2>2, <1>2
  <2>4. min_key(next[c]) = low(next[c]) /\ min_key(next[c]) # Null
    BY <2>2, <2>3, <1>2 DEF Null
  <2> QED BY <2>1, <2>2, <2>4, <1>9
<1>10. Forward = [c \in Blocks |-> IF c \in stopF THEN id[c] ELSE Forward[stepF[c]]]
  <2>1. stepF \in [Blocks -> Blocks]
    BY <1>9, <1>2
  <2>2. measF \in [Blocks -> Nat] /\ \A c \in Blocks : measF[c] <= M
    BY <1>2, <1>4, <1>5
  <2>3. \A c \in Blocks : c \notin stopF => measF[stepF[c]] < measF[c]
    BY <1>9, <1>2
  <2>4. Falls(Blocks, Blocks, stopF, id, stepF, measF, M)
    <3>1. Blocks # {} /\ id \in [Blocks -> Blocks]
      BY <1>2
    <3> HIDE DEF stopF, id, stepF, measF
    <3> QED BY <2>1, <2>2, <2>3, <3>1 DEF Falls
  <2>5. PICK f \in [Blocks -> Blocks] : f = [c \in Blocks |-> IF c \in stopF THEN id[c] ELSE f[stepF[c]]]
    <3> HIDE DEF stopF, id, stepF, measF
    <3> QED BY <2>4, LoopDefined
  <2>6. f = [c \in Blocks |->
               LET d == next[c] IN
               IF d # Null /\ (IF min_key(d) = Null THEN passEmpty ELSE min_key(d) <= k)
               THEN f[d] ELSE c]
    BY <2>5
  <2>7. Forward = [c \in Blocks |->
               LET d == next[c] IN
               IF d # Null /\ (IF min_key(d) = Null THEN passEmpty ELSE min_key(d) <= k)
               THEN Forward[d] ELSE c]
    BY <2>6
  <2> HIDE DEF Forward
  <2> QED BY <2>7
<1> DEFINE Q == {c \in 1 .. used : Covers(c, k)}
<1>11. Forward[Back[b]] \in Q
  <2>1. \A c \in T : measF[c] \in Nat
    BY <1>2, <1>4
  <2>2. \A c \in T : c \notin stopF => stepF[c] \in T /\ measF[stepF[c]] < measF[c]
    BY <1>2, <1>9
  <2>3. \A c \in T : c \in stopF => id[c] \in Q
    <3> SUFFICES ASSUME NEW c \in 1 .. used, low(c) <= k, c \in stopF,
                        NEW d \in 1 .. used
                 PROVE  low(d) <= low(c) \/ k < low(d)
      BY <1>2 DEF Covers
    <3>1. CASE next[c] = Null
      BY <3>1, <1>3 DEF NextOrder
    <3>2. CASE next[c] # Null
      <4>1. /\ next[c] \in 1 .. used /\ low(c) < low(next[c])
            /\ low(d) <= low(c) \/ low(next[c]) <= low(d)
        BY <3>2, <1>3 DEF NextOrder
      <4>2. next[c] # HeadBlock
        BY <4>1, <1>2
      <4>3. min_key(next[c]) = low(next[c]) /\ min_key(next[c]) # Null
        BY <4>1, <4>2, <1>2 DEF Null
      <4>4. k < low(next[c])
        BY <3>2, <4>1, <4>3, <1>2, <1>3
      <4> QED BY <4>1, <4>4, <1>2, <1>3
    <3> QED BY <3>1, <3>2
  <2>4. Yields(Blocks, stopF, id, stepF, measF, T, Q)
    <3>1. T \subseteq Blocks
      BY <1>2
    <3> HIDE DEF stopF, id, stepF, measF, T, Q
    <3> QED BY <2>1, <2>2, <2>3, <3>1 DEF Yields
  <2> HIDE DEF stopF, id, stepF, measF, T, Q, Back, Forward
  <2>5. \A c \in T : Forward[c] \in Q
    BY <1>10, <2>4, LoopResult
  <2> QED BY <1>8, <2>5
<1>12. Settle(b, k, passEmpty) = Forward[Back[b]]
  BY DEF Settle
<1>13. QED
  <2> HIDE DEF Forward, Back
  <2> QED BY <1>11, <1>12

(* The block an insert or a seek under mutex_ is directed to. *)
LEMMA FindLeafBlockCovers ==
  ASSUME TableInv, wpc = "idle", NEW k \in Entries, NEW passEmpty
  PROVE  FindLeafBlock(k, passEmpty) \in 1 .. used /\ Covers(FindLeafBlock(k, passEmpty), k)
<1> USE DEF TableInv
<1>1. CASE tail = HeadBlock
  <2>1. HeadBlock \in 1 .. used /\ low(HeadBlock) = 0 /\ k \in Nat
    BY MinIsLow, Sizes
  <2>2. \A d \in 1 .. used : low(d) <= low(HeadBlock)
    BY <1>1 DEF PrevOrder, Joined
  <2> QED BY <1>1, <2>1, <2>2 DEF FindLeafBlock, Covers
<1>2. CASE tail # HeadBlock
  <2>1. TrieCandidate(k) \in 1 .. used
    BY CandidateLinked DEF Linked
  <2> QED BY <1>2, <2>1, SettleCovers DEF FindLeafBlock
<1>3. QED
  BY <1>1, <1>2

(* An interval that a function maps one to one into a finite set is no longer than
   the set. *)
LEMMA Fits ==
  ASSUME NEW m \in Int, NEW n \in Int, NEW T, IsFiniteSet(T), NEW f \in [m .. n -> T],
         \A i, j \in m .. n : i < j => f[i] # f[j]
  PROVE  n - m + 1 <= Cardinality(T)
<1>1. IsFiniteSet(m .. n) /\ Cardinality(m .. n) = IF m > n THEN 0 ELSE n - m + 1
  BY FS_Interval
<1>2. Cardinality(T) \in Nat
  BY FS_CardinalityType
<1>3. ~ (Cardinality(T) < Cardinality(m .. n))
  <2> SUFFICES ASSUME Cardinality(T) < Cardinality(m .. n) PROVE FALSE
    OBVIOUS
  <2>1. PICK x, y \in m .. n : x # y /\ f[x] = f[y]
    BY <1>1, FS_PigeonHole
  <2>2. x < y \/ y < x
    BY <2>1
  <2> QED BY <2>1, <2>2
<1>4. QED
  BY <1>1, <1>2, <1>3

(* A block has room for an entry that is not in the table. *)
LEMMA Room ==
  ASSUME TableInv, wpc = "idle", NEW e \in Entries, e \notin visible, NEW b \in 1 .. used
  PROVE  count[b] < Cardinality(Entries)
<1> DEFINE E == Entries \ {e}
           f == [j \in 0 .. count[b] - 1 |-> entries[b][j]]
<1>1. IsFiniteSet(E) /\ Cardinality(E) = Cardinality(Entries) - 1
  BY MemTableAssumption, FS_RemoveElement
<1>2. Owned(b) = 0 .. count[b] - 1 /\ count[b] \in Nat
  <2>1. Owned(b) = 0 .. count[b] - 1
    BY DEF Owned
  <2>2. b \in Blocks
    BY MinIsLow DEF TableInv
  <2>3. count[b] \in Slots
    BY <2>2 DEF TableInv, TableTypes
  <2> QED BY <2>1, <2>3, Sizes DEF Slots
<1>3. f \in [0 .. count[b] - 1 -> E]
  <2> SUFFICES ASSUME NEW j \in 0 .. count[b] - 1 PROVE entries[b][j] \in E
    OBVIOUS
  <2>1. entries[b][j] \in Entries
    BY <1>2 DEF TableInv, Sorted
  <2>2. entries[b][j] \in visible
    BY <1>2 DEF TableInv, Contents
  <2> QED BY <2>1, <2>2
<1>4. \A i, j \in 0 .. count[b] - 1 : i < j => f[i] # f[j]
  <2> SUFFICES ASSUME NEW i \in 0 .. count[b] - 1, NEW j \in 0 .. count[b] - 1, i < j
               PROVE  entries[b][i] # entries[b][j]
    OBVIOUS
  <2>1. entries[b][i] \in Nat /\ entries[b][i] < entries[b][j]
    BY <1>2, Sizes DEF TableInv, Sorted
  <2> QED BY <2>1
<1>5. (count[b] - 1) - 0 + 1 <= Cardinality(E)
  <2> HIDE DEF E, f
  <2> QED BY <1>1, <1>2, <1>3, <1>4, Fits, SMTT(20)
<1>6. QED
  BY <1>1, <1>2, <1>5, Sizes

(* There is a block left for a split: every block but the head begins at an entry
   of its own, and the new one would as well. *)
LEMMA BlockLeft ==
  ASSUME TableInv, wpc = "split"
  PROVE  used + 1 \in Blocks
<1> DEFINE b == ins.b
           mid == count[b] \div 2
           f == [c \in 2 .. used + 1 |-> IF c = used + 1 THEN entries[b][mid] ELSE low(c)]
<1>1. /\ used \in Nat /\ used >= 1 /\ b \in 1 .. used
      /\ \A c \in 1 .. used : low(c) \in Nat /\ (c # HeadBlock => low(c) \in Entries)
  BY MinIsLow DEF TableInv, Inserting, HeadBlock
<1>2. count[b] \in Nat /\ count[b] > (IF b = HeadBlock THEN 0 ELSE 1) /\ Owned(b) = 0 .. count[b] - 1
  <2>1. count[b] \in Slots
    <3>1. b \in Blocks
      BY <1>1, MinIsLow DEF TableInv
    <3> QED BY <3>1 DEF TableInv, TableTypes
  <2>2. count[b] > (IF b = HeadBlock THEN 0 ELSE 1)
    BY DEF TableInv, Inserting
  <2>3. Owned(b) = 0 .. count[b] - 1
    BY DEF Owned
  <2> QED BY <2>1, <2>2, <2>3, Sizes DEF Slots
<1>3. mid \in Owned(b) /\ (b # HeadBlock => mid > 0 /\ 0 \in Owned(b))
  BY <1>2
<1>4. entries[b][mid] \in Entries
  BY <1>1, <1>3 DEF TableInv, Sorted
<1>5. f \in [2 .. used + 1 -> Entries]
  BY <1>1, <1>4 DEF HeadBlock
<1>6. ASSUME NEW c \in 2 .. used PROVE low(c) # entries[b][mid]
  <2>1. low(c) \in Nat /\ low(b) \in Nat /\ entries[b][mid] \in Nat /\ c \in 1 .. used
    BY <1>1, <1>4, Sizes
  <2>2. CASE low(b) < low(c)
    BY <1>1, <1>3, <2>1, <2>2 DEF TableInv, Ordered
  <2>3. CASE low(c) <= low(b)
    <3>1. b # HeadBlock
      BY <1>1, <2>1, <2>3, Sizes DEF low, HeadBlock
    <3>2. low(b) < entries[b][mid]
      BY <1>1, <1>3, <3>1 DEF TableInv, Sorted, low
    <3> QED BY <2>1, <2>3, <3>2
  <2> QED BY <2>1, <2>2, <2>3
<1>7. \A i, j \in 2 .. used + 1 : i < j => f[i] # f[j]
  <2> SUFFICES ASSUME NEW i \in 2 .. used + 1, NEW j \in 2 .. used + 1, i < j PROVE f[i] # f[j]
    OBVIOUS
  <2>1. i \in 2 .. used /\ f[i] = low(i)
    BY <1>1
  <2>2. CASE j = used + 1
    BY <2>1, <2>2, <1>6
  <2>3. CASE j # used + 1
    <3>1. j \in 1 .. used /\ i \in 1 .. used /\ f[j] = low(j)
      BY <1>1, <2>1, <2>3
    <3> QED BY <2>1, <3>1 DEF TableInv, Distinct
  <2> QED BY <2>2, <2>3
<1>8. (used + 1) - 2 + 1 <= Cardinality(Entries)
  <2> HIDE DEF f
  <2>1. used + 1 \in Int /\ IsFiniteSet(Entries)
    BY <1>1, MemTableAssumption
  <2> QED BY <2>1, <1>5, <1>7, Fits
<1>9. QED
  BY <1>1, <1>8, Sizes DEF Blocks

(* The steps of a reader leave the table alone. *)
LEMMA ReadersLookOnly ==
  ASSUME NEW r \in Readers, Call(r)
  PROVE  UNCHANGED table
<1>1. ASSUME NEW pc, NEW l, Run(r, pc, l) PROVE UNCHANGED table
  BY <1>1 DEF Run
<1>2. ASSUME NEW l, NEW p, Resume(r, l, p) PROVE UNCHANGED table
  BY <1>1, <1>2 DEF Resume, Done
<1>3. ASSUME NEW l, NextRound(r, l) PROVE UNCHANGED table
  BY <1>1, <1>3 DEF NextRound, Done
<1>4. ASSUME NEW l, Done(r, l) PROVE UNCHANGED table
  BY <1>1, <1>4 DEF Done
<1>5. ASSUME NEW op, NEW key, Begin(r, op, key) PROVE UNCHANGED table
  BY <1>1, <1>5 DEF Begin
<1>6. CASE GetIterator(r) \/ LoadTail(r) \/ Leave(r) \/ LocateFull(r) \/ LocateTrie(r)
           \/ LocateTail(r) \/ LocateMapped(r) \/ SettleBack(r) \/ StepBack(r) \/ SettleNext(r)
           \/ SettleForward(r) \/ Open(r) \/ Read(r) \/ CheckFailed(r) \/ MaxCount(r) \/ StepCount(r)
           \/ StepRead(r)
  BY <1>1, <1>6 DEF GetIterator, LoadTail, Leave, LocateFull, LocateTrie, LocateTail, LocateMapped,
       SettleBack, StepBack, SettleNext, SettleForward, Open, Read, CheckFailed, MaxCount, StepCount, StepRead
<1>7. CASE Revalidate(r) \/ CheckSeek(r) \/ Hop(r)
  <2>1. CASE Revalidate(r)
    BY <1>1, <1>2, <2>1 DEF Revalidate
  <2>2. CASE CheckSeek(r)
    BY <1>1, <1>2, <2>2 DEF CheckSeek
  <2>3. CASE Hop(r)
    BY <1>1, <1>2, <1>4, <2>3, SMTT(20) DEF Hop
  <2> QED BY <1>7, <2>1, <2>2, <2>3
<1>8. CASE CheckContains(r) \/ CheckGet(r) \/ MaxKey(r)
  BY <1>1, <1>4, <1>8 DEF CheckContains, CheckGet, MaxKey
<1>9. CASE CheckEdge(r) \/ StepCheck(r)
  BY <1>1, <1>3, <1>9 DEF CheckEdge, StepCheck
<1>10. QED
  BY <1>5, <1>6, <1>7, <1>8, <1>9 DEF Call

------------------------------------------------------------------------------
(* The table's invariant holds at the start and at every step. *)

LEMMA TableInit == Init => TableInv
<1> SUFFICES ASSUME Init PROVE TableInv
  OBVIOUS
<1>1. Cardinality(Entries) \in Nat
  BY Sizes
<1>2. 0 \in Slots /\ HeadBlock \in Blocks /\ 1 .. used = {HeadBlock} /\ 2 .. used = {}
  BY <1>1 DEF Init, Slots, Blocks, HeadBlock
<1>3. \A b : Owned(b) = 0 .. count[b] - 1
  BY DEF Init, Owned
<1>4. Owned(HeadBlock) = {}
  BY <1>2, <1>3 DEF Init
<1>5. TableTypes
  <2>1. <<scope, cap>> \in Shapes
    <3>1. PICK shape \in Shapes : scope = shape[1] /\ cap = shape[2]
      BY DEF Init
    <3>2. shape = <<shape[1], shape[2]>>
      BY MemTableAssumption
    <3> QED BY <3>1, <3>2
  <2>2. ins \in InsertRecords
    BY <1>2 DEF Init, NoInsert, InsertRecords
  <2>3. wpc \in WriterSteps /\ visible \subseteq Entries /\ tail \in Blocks /\ used \in Blocks
    BY <1>2 DEF Init, WriterSteps, HeadBlock
  <2>4. version \in [Blocks -> Nat] /\ count \in [Blocks -> Slots]
    BY <1>2 DEF Init
  <2>5. /\ entries \in [Blocks -> [Slots -> Entries \cup {Null}]]
        /\ prev \in [Blocks -> Blocks \cup {Null}] /\ next \in [Blocks -> Blocks \cup {Null}]
        /\ trie \in [Prefixes -> Blocks \cup {Null}]
    BY DEF Init
  <2> QED BY <2>1, <2>2, <2>3, <2>4, <2>5 DEF TableTypes
<1>6. Sorted /\ NonEmpty /\ Distinct /\ Ordered /\ Contents
  BY <1>2, <1>4 DEF Init, Sorted, NonEmpty, Distinct, Ordered, Contents
<1>7. Linked = {HeadBlock} /\ Joined = {HeadBlock} /\ low(HeadBlock) = 0
  BY <1>2 DEF Init, Linked, Joined, low
<1>8. NextOrder /\ PrevOrder /\ Unlinked /\ TrieLinked
  BY <1>2, <1>7 DEF Init, NextOrder, PrevOrder, Unlinked, TrieLinked
<1>9. Parity
  BY DEF Init, Parity, Modifying, Splitting
<1>10. Inserting
  BY DEF Init, Inserting, Splitting
<1>11. QED
  BY <1>5, <1>6, <1>8, <1>9, <1>10 DEF TableInv

(* What the steps below use of the invariant. *)
LEMMA Facts ==
  ASSUME TableInv
  PROVE  /\ Cardinality(Entries) \in Nat /\ used \in Nat /\ used >= 1
         /\ used <= Cardinality(Entries) + 1 /\ 1 .. used \subseteq Blocks
         /\ Linked \subseteq 1 .. used /\ Joined \subseteq 1 .. used
         /\ \A c \in 1 .. used : /\ count[c] \in Nat /\ count[c] <= Cardinality(Entries)
                                 /\ low(c) \in Nat
                                 /\ c # HeadBlock => low(c) = entries[c][0] /\ low(c) > 0 /\ count[c] > 0
                                 /\ \A j \in Owned(c) : entries[c][j] \in Nat
<1>1. /\ Cardinality(Entries) \in Nat /\ used \in Nat /\ used >= 1
      /\ used <= Cardinality(Entries) + 1 /\ 1 .. used \subseteq Blocks
  BY MinIsLow, Sizes DEF TableInv, HeadBlock
<1>2. Linked \subseteq 1 .. used /\ Joined \subseteq 1 .. used
  BY <1>1 DEF Linked, Joined
<1>3. ASSUME NEW c \in 1 .. used
      PROVE  /\ count[c] \in Nat /\ count[c] <= Cardinality(Entries) /\ low(c) \in Nat
             /\ c # HeadBlock => low(c) = entries[c][0] /\ low(c) > 0 /\ count[c] > 0
             /\ \A j \in Owned(c) : entries[c][j] \in Nat
  <2>1. count[c] \in Slots
    BY <1>1 DEF TableInv, TableTypes
  <2>2. count[c] \in Nat /\ count[c] <= Cardinality(Entries)
    BY <1>1, <2>1 DEF Slots
  <2>3. low(c) \in Nat
    BY MinIsLow DEF TableInv
  <2>4. c # HeadBlock => low(c) = entries[c][0] /\ low(c) > 0 /\ count[c] > 0
    <3> SUFFICES ASSUME c # HeadBlock PROVE low(c) = entries[c][0] /\ low(c) > 0 /\ count[c] > 0
      OBVIOUS
    <3>1. c \in 2 .. used
      BY <1>1 DEF HeadBlock
    <3> QED BY <3>1, MinIsLow DEF TableInv, NonEmpty, low
  <2>5. \A j \in Owned(c) : entries[c][j] \in Nat
    BY Sizes DEF TableInv, Sorted
  <2> QED BY <2>2, <2>3, <2>4, <2>5
<1>4. QED
  BY <1>1, <1>2, <1>3

(* A step that leaves the blocks their entries keeps the order. *)
LEMMA KeepsOrder ==
  ASSUME TableInv, used' = used,
         \A c \in 1 .. used : low(c)' = low(c) /\ Owned(c)' = Owned(c),
         \A c \in 1 .. used : \A j \in Owned(c) : entries'[c][j] = entries[c][j]
  PROVE  Sorted' /\ Distinct' /\ Ordered'
BY DEF TableInv, Sorted, Distinct, Ordered

LEMMA KeepsChain ==
  ASSUME TableInv, UNCHANGED <<next, prev, tail>>, Linked' = Linked, Joined' = Joined,
         \A c \in 1 .. used : low(c)' = low(c)
  PROVE  NextOrder' /\ PrevOrder'
<1>1. Linked \subseteq 1 .. used /\ Joined \subseteq 1 .. used
  BY Facts
<1>2. NextOrder'
  BY <1>1 DEF TableInv, NextOrder
<1>3. PrevOrder'
  BY <1>1 DEF TableInv, PrevOrder
<1>4. QED
  BY <1>2, <1>3

LEMMA KeepsLinks ==
  ASSUME TableInv, UNCHANGED <<next, prev, tail, used>>, Linked' = Linked, Joined' = Joined,
         \A c \in 1 .. used : low(c)' = low(c)
  PROVE  NextOrder' /\ PrevOrder' /\ Unlinked'
<1>1. NextOrder' /\ PrevOrder'
  BY KeepsChain
<1>2. Unlinked'
  BY DEF TableInv, Unlinked
<1>3. QED
  BY <1>1, <1>2

LEMMA TableStutters ==
  ASSUME TableInv, UNCHANGED table PROVE TableInv'
<1> USE DEF table, blocks, chain, writer
<1>1. Linked' = Linked /\ Joined' = Joined /\ \A c : low(c)' = low(c) /\ Owned(c)' = Owned(c)
  BY DEF Linked, Joined, low, Owned
<1>2. Sorted' /\ Distinct' /\ Ordered'
  BY <1>1, KeepsOrder
<1>3. NextOrder' /\ PrevOrder' /\ Unlinked'
  BY <1>1, KeepsLinks
<1>4. TableTypes' /\ NonEmpty'
  BY DEF TableInv, TableTypes, NonEmpty
<1>5. Contents'
  BY <1>1 DEF TableInv, Contents
<1>6. TrieLinked' /\ Parity'
  BY <1>1 DEF TableInv, TrieLinked, Parity, Modifying, Splitting
<1>7. Inserting'
  BY <1>1 DEF TableInv, Inserting, Splitting
<1>8. QED
  BY <1>2, <1>3, <1>4, <1>5, <1>6, <1>7 DEF TableInv

LEMMA InsertBeginKeeps ==
  ASSUME TableInv, NEW e \in Entries, InsertBegin(e) PROVE TableInv'
<1> DEFINE b == FindLeafBlock(e, FALSE)
           s == BinarySearch(b, count[b], e, FALSE)
<1> USE DEF blocks, chain, reader
<1>0. /\ wpc = "idle" /\ wpc' = "open" /\ e \notin visible
      /\ ins' = [NoInsert EXCEPT !.e = e, !.b = b, !.left = s]
      /\ UNCHANGED <<scope, cap, version, count, entries, prev, next, tail, used, trie, visible>>
  BY DEF InsertBegin
<1>1. b \in 1 .. used /\ Covers(b, e) /\ b \in Blocks
  BY <1>0, FindLeafBlockCovers, Facts
<1>2. Cardinality(Entries) \in Nat /\ count[b] \in Nat /\ count[b] < Cardinality(Entries) /\ count[b] \in Slots
  <2> HIDE DEF b
  <2>1. count[b] < Cardinality(Entries)
    BY <1>0, <1>1, Room
  <2>2. Cardinality(Entries) \in Nat /\ count[b] \in Nat
    BY <1>1, Facts
  <2> QED BY <2>1, <2>2 DEF Slots
<1> HIDE DEF b
<1>3. \A c : Owned(c) = 0 .. count[c] - 1 /\ Owned(c)' = Owned(c)
  BY <1>0 DEF Owned
<1>4. \A j \in 0 .. count[b] - 1 : entries[b][j] \in Nat \ {0} /\ entries[b][j] # e
  <2> SUFFICES ASSUME NEW j \in 0 .. count[b] - 1
               PROVE  entries[b][j] \in Nat \ {0} /\ entries[b][j] # e
    OBVIOUS
  <2>1. j \in Owned(b)
    BY <1>3
  <2>2. entries[b][j] \in visible
    BY <1>0, <1>1, <2>1 DEF TableInv, Contents
  <2>3. entries[b][j] \in Entries
    BY <1>1, <2>1 DEF TableInv, Sorted
  <2> QED BY <1>0, <2>2, <2>3, Sizes
<1>5. \A i, j \in 0 .. count[b] - 1 : i < j => entries[b][i] < entries[b][j]
  BY <1>1, <1>3 DEF TableInv, Sorted
<1>6. /\ s \in 0 .. count[b]
      /\ \A i \in 0 .. s - 1 : ~ Above(entries[b][i], e, FALSE)
      /\ \A i \in s .. count[b] - 1 : Above(entries[b][i], e, FALSE)
  BY <1>2, <1>4, <1>5, Sizes, BinarySearchFinds
<1> HIDE DEF s
<1>7. e \in Nat /\ e > 0 /\ s \in Slots
  BY <1>2, <1>6, Sizes DEF Slots
<1>8. TableTypes'
  <2>1. ins' \in InsertRecords
    <3>1. 0 \in Slots
      BY <1>2 DEF Slots
    <3> QED BY <1>0, <1>1, <1>7, <3>1 DEF NoInsert, InsertRecords
  <2> QED BY <1>0, <2>1 DEF TableInv, TableTypes, WriterSteps
<1>9. Linked' = Linked /\ Joined' = Joined /\ (\A c : low(c)' = low(c))
  BY <1>0 DEF Linked, Joined, low
<1>10. Sorted' /\ Distinct' /\ Ordered'
  BY <1>0, <1>3, <1>9, KeepsOrder
<1>11. NextOrder' /\ PrevOrder' /\ Unlinked'
  BY <1>0, <1>9, KeepsLinks
<1>12. NonEmpty' /\ TrieLinked'
  BY <1>0, <1>9 DEF TableInv, NonEmpty, TrieLinked
<1>13. Contents'
  BY <1>0, <1>3 DEF TableInv, Contents
<1>14. Parity'
  BY <1>0 DEF TableInv, Parity, Modifying, Splitting
<1>15. Inserting'
  <2>1. ins'.b = b /\ ins'.e = e /\ ins'.left = s
    BY <1>0 DEF NoInsert
  <2>2. low(b) < e /\ (b # HeadBlock => s > 0)
    <3>1. CASE b = HeadBlock
      BY <3>1, <1>7 DEF low
    <3>2. CASE b # HeadBlock
      <4>1. low(b) = entries[b][0] /\ count[b] > 0 /\ low(b) \in Nat
        BY <1>1, <3>2, Facts
      <4>2. low(b) <= e /\ low(b) # e
        BY <1>1, <1>2, <1>4, <4>1 DEF Covers
      <4>3. low(b) < e
        BY <4>1, <4>2, <1>7
      <4>4. s # 0
        <5> SUFFICES ASSUME s = 0 PROVE FALSE
          OBVIOUS
        <5>1. 0 \in s .. count[b] - 1
          BY <4>1, <1>2
        <5>2. Above(entries[b][0], e, FALSE)
          BY <1>6, <5>1
        <5> QED BY <5>2, <4>1, <4>3, <1>7 DEF Above
      <4> QED BY <4>3, <4>4, <1>6, <1>2
    <3> QED BY <3>1, <3>2
  <2>3. \A c \in 1 .. used : low(b) < low(c) => e < low(c)
    BY <1>1, Facts DEF Covers
  <2>4. \A j \in 0 .. count[b] - 1 : IF j < s THEN entries[b][j] < e ELSE e < entries[b][j]
    <3> SUFFICES ASSUME NEW j \in 0 .. count[b] - 1
                 PROVE  IF j < s THEN entries[b][j] < e ELSE e < entries[b][j]
      OBVIOUS
    <3>1. entries[b][j] \in Nat /\ entries[b][j] # e
      BY <1>4
    <3>2. CASE j < s
      <4>1. j \in 0 .. s - 1
        BY <3>2, <1>6, <1>2
      <4>2. ~ Above(entries[b][j], e, FALSE)
        BY <4>1, <1>6
      <4> QED BY <3>1, <3>2, <4>2, <1>7 DEF Above
    <3>3. CASE ~ (j < s)
      <4>1. j \in s .. count[b] - 1
        BY <3>3, <1>6, <1>2
      <4>2. Above(entries[b][j], e, FALSE)
        BY <4>1, <1>6
      <4> QED BY <3>1, <3>3, <4>2, <1>7 DEF Above
    <3> QED BY <3>2, <3>3
  <2> QED BY <1>0, <1>1, <1>2, <1>3, <1>6, <1>9, <2>1, <2>2, <2>3, <2>4 DEF Inserting, Splitting
<1>16. QED
  BY <1>8, <1>10, <1>11, <1>12, <1>13, <1>14, <1>15 DEF TableInv

LEMMA WriterFacts ==
  ASSUME TableInv, wpc # "idle"
  PROVE  /\ ins.b \in 1 .. used /\ ins.b \in Blocks /\ ins.e \in Entries /\ ins.e \in Nat
         /\ ins.left \in Nat /\ ins.i \in Nat /\ ins.i \in Slots
         /\ count[ins.b] \in Nat /\ count[ins.b] <= Cardinality(Entries) /\ Cardinality(Entries) \in Nat
         /\ version[ins.b] \in Nat
<1>1. ins.b \in 1 .. used /\ ins.e \in Entries
  BY DEF TableInv, Inserting
<1>2. ins.b \in Blocks /\ count[ins.b] \in Nat /\ count[ins.b] <= Cardinality(Entries) /\ Cardinality(Entries) \in Nat
  BY <1>1, Facts
<1>3. ins.left \in Slots /\ ins.i \in Slots /\ version[ins.b] \in Nat
  BY <1>2 DEF TableInv, TableTypes, InsertRecords
<1>4. ins.left \in Nat /\ ins.i \in Nat
  BY <1>2, <1>3 DEF Slots
<1>5. ins.e \in Nat
  BY <1>1, Sizes
<1>6. QED
  BY <1>1, <1>2, <1>3, <1>4, <1>5

(* An increment opens the version of the block at work, or closes it. *)
LEMMA BumpParity ==
  ASSUME TableInv, wpc # "idle", Bump(ins.b),
         Modifying' => ~ Modifying /\ ins'.b = ins.b,
         ~ Modifying' => Modifying
  PROVE  Parity' /\ version' \in [Blocks -> Nat]
<1>1. ins.b \in Blocks /\ version \in [Blocks -> Nat]
  BY WriterFacts DEF TableInv, TableTypes
<1>2. version' = [version EXCEPT ![ins.b] = version[ins.b] + 1]
  BY DEF Bump
<1>3. version' \in [Blocks -> Nat]
  BY <1>1, <1>2
<1>4. ASSUME NEW c \in Blocks
      PROVE  version'[c] % 2 = (IF Modifying' /\ c = ins'.b THEN 1 ELSE 0)
  <2>1. version[c] \in Nat /\ version[c] % 2 = (IF Modifying /\ c = ins.b THEN 1 ELSE 0)
    BY <1>1, <1>4 DEF TableInv, Parity
  <2>2. CASE c = ins.b
    <3>1. version'[c] = version[c] + 1
      BY <1>1, <1>2, <2>2
    <3>2. version'[c] % 2 = (IF Modifying THEN 0 ELSE 1)
      BY <2>1, <2>2, <3>1
    <3> QED BY <2>2, <3>2
  <2>3. CASE c # ins.b
    <3>1. version'[c] = version[c]
      BY <1>1, <1>2, <2>3
    <3> QED BY <2>1, <2>3, <3>1
  <2> QED BY <2>2, <2>3
<1>5. QED
  BY <1>3, <1>4 DEF Parity

LEMMA InsertOpenKeeps ==
  ASSUME TableInv, InsertOpen PROVE TableInv'
<1> USE DEF blocks, chain, reader
<1>0. /\ wpc = "open" /\ wpc' = "shift" /\ Bump(ins.b)
      /\ ins' = [ins EXCEPT !.i = count[ins.b]]
      /\ UNCHANGED <<scope, cap, count, entries, prev, next, tail, used, trie, visible>>
  BY DEF InsertOpen
<1>1. ins.b \in 1 .. used /\ ins.b \in Blocks /\ count[ins.b] \in Nat /\ count[ins.b] \in Slots
  BY <1>0, WriterFacts DEF Slots
<1>2. ins'.b = ins.b /\ ins'.e = ins.e /\ ins'.left = ins.left /\ ins'.i = count[ins.b]
      /\ ins' \in InsertRecords
  BY <1>0, <1>1 DEF TableInv, TableTypes, InsertRecords
<1>3. \A c : Owned(c)' = Owned(c)
  <2>1. (0 .. count[ins.b]) \ {count[ins.b]} = 0 .. count[ins.b] - 1
    BY <1>1
  <2> QED BY <1>0, <1>2, <2>1 DEF Owned
<1>4. Parity' /\ version' \in [Blocks -> Nat]
  BY <1>0, <1>2, BumpParity DEF Modifying, Splitting
<1>5. TableTypes'
  BY <1>0, <1>2, <1>4 DEF TableInv, TableTypes, WriterSteps
<1>6. Linked' = Linked /\ Joined' = Joined /\ (\A c : low(c)' = low(c))
  BY <1>0 DEF Linked, Joined, low
<1>7. Sorted' /\ Distinct' /\ Ordered'
  BY <1>0, <1>3, <1>6, KeepsOrder
<1>8. NextOrder' /\ PrevOrder' /\ Unlinked'
  BY <1>0, <1>6, KeepsLinks
<1>9. NonEmpty' /\ TrieLinked'
  BY <1>0, <1>6 DEF TableInv, NonEmpty, TrieLinked
<1>10. Contents'
  BY <1>0, <1>3 DEF TableInv, Contents
<1>11. Inserting'
  BY <1>0, <1>1, <1>2, <1>3, <1>6 DEF TableInv, Inserting, Splitting
<1>12. QED
  BY <1>4, <1>5, <1>7, <1>8, <1>9, <1>10, <1>11 DEF TableInv

(* The shift copies one entry a slot up: the slots owned move round the gap. *)
LEMMA InsertShiftKeeps ==
  ASSUME TableInv, InsertShift PROVE TableInv'
<1>a. PICK b, i : b = ins.b /\ i = ins.i
  OBVIOUS
<1> DEFINE From(j) == IF j = i THEN i - 1 ELSE j
<1> USE DEF blocks, chain, reader
<1>0. /\ wpc = "shift" /\ wpc' = wpc /\ i > ins.left
      /\ entries' = [entries EXCEPT ![b][i] = entries[b][i - 1]]
      /\ ins' = [ins EXCEPT !.i = i - 1]
      /\ UNCHANGED <<scope, cap, version, count, prev, next, tail, used, trie, visible>>
  BY <1>a DEF InsertShift, Store
<1>1. /\ b \in 1 .. used /\ b \in Blocks /\ count[b] \in Nat /\ ins.left \in Nat /\ i \in Nat /\ i \in Slots
      /\ i \in ins.left .. count[b] /\ i - 1 \in Slots /\ i - 1 \in Nat /\ (b # HeadBlock => i > 1)
  <2>1. b \in 1 .. used /\ b \in Blocks /\ count[b] \in Nat /\ ins.left \in Nat /\ i \in Nat /\ i \in Slots
        /\ Cardinality(Entries) \in Nat
    BY <1>0, <1>a, WriterFacts
  <2>2. i \in ins.left .. count[b] /\ (b # HeadBlock => ins.left > 0)
    BY <1>0, <1>a DEF TableInv, Inserting
  <2> QED BY <1>0, <2>1, <2>2 DEF Slots
<1>2. ins'.b = b /\ ins'.e = ins.e /\ ins'.left = ins.left /\ ins'.i = i - 1
      /\ ins' \in InsertRecords
  BY <1>0, <1>1, <1>a DEF TableInv, TableTypes, InsertRecords
<1>3. entries \in [Blocks -> [Slots -> Entries \cup {Null}]] /\ entries' \in [Blocks -> [Slots -> Entries \cup {Null}]]
  <2>1. entries \in [Blocks -> [Slots -> Entries \cup {Null}]]
    BY DEF TableInv, TableTypes
  <2>2. entries[b][i - 1] \in Entries \cup {Null}
    BY <1>1, <2>1
  <2> QED BY <1>0, <1>1, <2>1, <2>2
<1>4. /\ \A c \in Blocks : c # b => entries'[c] = entries[c]
      /\ \A j \in Slots : entries'[b][j] = entries[b][From(j)]
  BY <1>0, <1>1, <1>3
<1>5. \A c \in 1 .. used : low(c)' = low(c)
  <2> SUFFICES ASSUME NEW c \in 1 .. used PROVE low(c)' = low(c)
    OBVIOUS
  <2>1. c \in Blocks /\ 0 \in Slots
    BY Facts DEF Slots
  <2>2. CASE c = HeadBlock
    BY <2>2 DEF low
  <2>3. CASE c # HeadBlock /\ c # b
    BY <1>4, <2>1, <2>3 DEF low
  <2>4. CASE c # HeadBlock /\ c = b
    BY <1>1, <1>4, <2>1, <2>4 DEF low
  <2> QED BY <2>2, <2>3, <2>4
<1>6. \A c : c # b => Owned(c)' = Owned(c)
  BY <1>0, <1>2, <1>a DEF Owned
<1>7. Owned(b) = (0 .. count[b]) \ {i} /\ Owned(b)' = (0 .. count[b]) \ {i - 1}
  BY <1>0, <1>2, <1>a DEF Owned
<1>8. \A j \in Owned(b)' : /\ j \in Slots /\ From(j) \in Owned(b) /\ entries'[b][j] = entries[b][From(j)]
                           /\ \A k \in Owned(b)' : j < k => From(j) < From(k)
  <2>1. \A j \in Owned(b)' : j \in Slots /\ From(j) \in Owned(b) /\ \A k \in Owned(b)' : j < k => From(j) < From(k)
    <3>1. count[b] <= Cardinality(Entries) /\ Cardinality(Entries) \in Nat
      BY <1>0, <1>a, WriterFacts
    <3> SUFFICES ASSUME NEW j \in (0 .. count[b]) \ {i - 1}
                 PROVE  /\ j \in Slots /\ From(j) \in (0 .. count[b]) \ {i}
                        /\ \A k \in (0 .. count[b]) \ {i - 1} : j < k => From(j) < From(k)
      BY <1>7
    <3>2. j \in Nat /\ j <= count[b] /\ j # i - 1 /\ j \in Slots
      BY <1>1, <3>1 DEF Slots
    <3>3. From(j) \in (0 .. count[b]) \ {i}
      BY <1>1, <3>2
    <3>4. ASSUME NEW k \in (0 .. count[b]) \ {i - 1}, j < k PROVE From(j) < From(k)
      BY <1>1, <3>2, <3>4
    <3> QED BY <3>2, <3>3, <3>4
  <2> HIDE DEF From
  <2> QED BY <2>1, <1>4
<1>9. \A j \in Owned(b) : \E k \in Owned(b)' : entries'[b][k] = entries[b][j]
  <2> SUFFICES ASSUME NEW j \in Owned(b) PROVE \E k \in Owned(b)' : entries'[b][k] = entries[b][j]
    OBVIOUS
  <2>1. CASE j = i - 1
    <3>1. i \in Owned(b)' /\ From(i) = j
      BY <1>1, <1>7, <2>1
    <3> QED BY <1>8, <3>1
  <2>2. CASE j # i - 1
    <3>1. j \in Owned(b)' /\ From(j) = j
      BY <1>1, <1>7, <2>2
    <3> QED BY <1>8, <3>1
  <2> QED BY <2>1, <2>2
<1> HIDE DEF From
<1>10. \A c \in 1 .. used : c # b => entries'[c] = entries[c]
  BY <1>4, Facts
<1>11. Sorted'
  <2> SUFFICES ASSUME NEW c \in 1 .. used, NEW j \in Owned(c)'
               PROVE  entries'[c][j] \in Entries /\ \A k \in Owned(c)' : j < k => entries'[c][j] < entries'[c][k]
    BY <1>0 DEF Sorted
  <2>1. CASE c = b
    BY <1>1, <1>8, <2>1 DEF TableInv, Sorted
  <2>2. CASE c # b
    BY <1>6, <1>10, <2>2 DEF TableInv, Sorted
  <2> QED BY <2>1, <2>2
<1>12. Ordered'
  <2> SUFFICES ASSUME NEW c \in 1 .. used, NEW d \in 1 .. used, low(c) < low(d), NEW j \in Owned(c)'
               PROVE  entries'[c][j] < low(d)
    BY <1>0, <1>5 DEF Ordered
  <2>1. CASE c = b
    BY <1>8, <2>1 DEF TableInv, Ordered
  <2>2. CASE c # b
    BY <1>6, <1>10, <2>2 DEF TableInv, Ordered
  <2> QED BY <2>1, <2>2
<1>13. Distinct'
  BY <1>0, <1>5 DEF TableInv, Distinct
<1>14. Contents'
  <2>1. ASSUME NEW c \in 1 .. used, NEW j \in Owned(c)' PROVE entries'[c][j] \in visible
    <3>1. CASE c = b
      BY <1>0, <1>8, <3>1 DEF TableInv, Contents
    <3>2. CASE c # b
      BY <1>0, <1>6, <1>10, <3>2 DEF TableInv, Contents
    <3> QED BY <3>1, <3>2
  <2>2. ASSUME NEW x \in visible PROVE \E c \in 1 .. used : \E j \in Owned(c)' : entries'[c][j] = x
    <3>1. PICK c \in 1 .. used : \E j \in Owned(c) : entries[c][j] = x
      BY DEF TableInv, Contents
    <3>2. PICK j \in Owned(c) : entries[c][j] = x
      BY <3>1
    <3>3. CASE c = b
      BY <1>9, <3>2, <3>3
    <3>4. CASE c # b
      BY <1>6, <1>10, <3>2, <3>4
    <3> QED BY <3>3, <3>4
  <2> QED BY <1>0, <2>1, <2>2 DEF Contents
<1>15. TableTypes'
  BY <1>0, <1>2, <1>3 DEF TableInv, TableTypes
<1>16. NextOrder' /\ PrevOrder' /\ Unlinked'
  BY <1>0, <1>5, KeepsLinks DEF Linked, Joined
<1>17. NonEmpty'
  <2> SUFFICES ASSUME NEW c \in 2 .. used PROVE count[c] > 0 /\ entries'[c][0] \in Entries
    BY <1>0 DEF NonEmpty
  <2>1. c \in 1 .. used /\ c # HeadBlock
    BY Facts DEF HeadBlock
  <2>2. entries'[c][0] = entries[c][0]
    BY <1>5, <2>1 DEF low
  <2> QED BY <2>2 DEF TableInv, NonEmpty
<1>18. TrieLinked' /\ Parity'
  BY <1>0, <1>2, <1>a DEF TableInv, TrieLinked, Parity, Modifying, Splitting, Linked
<1>19. Inserting'
  <2>1. \A c \in 1 .. used : low(b)' < low(c)' => ins.e < low(c)'
    BY <1>0, <1>1, <1>5, <1>a DEF TableInv, Inserting
  <2>2. \A j \in Owned(b)' : IF j < ins.left THEN entries'[b][j] < ins.e ELSE ins.e < entries'[b][j]
    <3> SUFFICES ASSUME NEW j \in Owned(b)'
                 PROVE  IF j < ins.left THEN entries'[b][j] < ins.e ELSE ins.e < entries'[b][j]
      OBVIOUS
    <3>1. entries'[b][j] = entries[b][From(j)] /\ From(j) \in Owned(b) /\ j \in Slots
      BY <1>8
    <3>2. From(j) < ins.left <=> j < ins.left
      BY <1>0, <1>1 DEF From
    <3> QED BY <1>0, <1>a, <3>1, <3>2 DEF TableInv, Inserting
  <2>3. i - 1 \in ins.left .. count[b] /\ entries'[b][i - 1] = entries'[b][(i - 1) + 1]
    <3>1. entries'[b][i - 1] = entries[b][i - 1] /\ entries'[b][i] = entries[b][i - 1]
      BY <1>1, <1>4 DEF From
    <3> QED BY <1>0, <1>1, <3>1
  <2>4. low(b)' < ins.e
    BY <1>0, <1>1, <1>5, <1>a DEF TableInv, Inserting
  <2>5. /\ ins.e \in Entries /\ ins.e \notin visible /\ ins.left \in 0 .. count[b] /\ (b # HeadBlock => ins.left > 0)
        /\ count[b] < Cardinality(Entries)
    BY <1>0, <1>a DEF TableInv, Inserting
  <2> QED BY <1>0, <1>1, <1>2, <2>1, <2>2, <2>3, <2>4, <2>5 DEF Inserting, Splitting
<1>20. QED
  BY <1>11, <1>12, <1>13, <1>14, <1>15, <1>16, <1>17, <1>18, <1>19 DEF TableInv

LEMMA InsertStoreKeeps ==
  ASSUME TableInv, InsertStore PROVE TableInv'
<1>a. PICK b, left, x : b = ins.b /\ left = ins.left /\ x = ins.e
  OBVIOUS
<1> USE DEF blocks, chain, reader
<1>0. /\ wpc = "shift" /\ wpc' = "count" /\ ins.i = left /\ ins' = ins
      /\ entries' = [entries EXCEPT ![b][left] = x]
      /\ UNCHANGED <<scope, cap, version, count, prev, next, tail, used, trie, visible>>
  BY <1>a DEF InsertStore, Store, Goto
<1>1. /\ b \in 1 .. used /\ b \in Blocks /\ count[b] \in Nat /\ left \in Nat /\ left \in Slots
      /\ left <= count[b] /\ (b # HeadBlock => left > 0) /\ x \in Entries /\ x \in Nat
  <2>1. /\ b \in 1 .. used /\ b \in Blocks /\ count[b] \in Nat /\ left \in Nat /\ left \in Slots
        /\ x \in Entries /\ x \in Nat
    BY <1>0, <1>a, WriterFacts
  <2>2. ins.left \in 0 .. count[b] /\ (b # HeadBlock => left > 0)
    BY <1>0, <1>a DEF TableInv, Inserting
  <2> QED BY <1>a, <2>1, <2>2
<1>2. entries \in [Blocks -> [Slots -> Entries \cup {Null}]] /\ entries' \in [Blocks -> [Slots -> Entries \cup {Null}]]
  <2>1. entries \in [Blocks -> [Slots -> Entries \cup {Null}]]
    BY DEF TableInv, TableTypes
  <2> QED BY <1>0, <1>1, <2>1
<1>3. /\ \A c \in Blocks : c # b => entries'[c] = entries[c]
      /\ \A j \in Slots : entries'[b][j] = IF j = left THEN x ELSE entries[b][j]
  BY <1>0, <1>1, <1>2
<1>4. \A c \in 1 .. used : c # b => entries'[c] = entries[c]
  BY <1>3, Facts
<1>5. \A c \in 1 .. used : low(c)' = low(c)
  <2> SUFFICES ASSUME NEW c \in 1 .. used PROVE low(c)' = low(c)
    OBVIOUS
  <2>1. 0 \in Slots
    BY Facts DEF Slots
  <2>2. CASE c = HeadBlock
    BY <2>2 DEF low
  <2>3. CASE c # HeadBlock /\ c # b
    BY <1>4, <2>3 DEF low
  <2>4. CASE c # HeadBlock /\ c = b
    BY <1>1, <1>3, <2>1, <2>4 DEF low
  <2> QED BY <2>2, <2>3, <2>4
<1>6. \A c : c # b => Owned(c)' = Owned(c)
  BY <1>0, <1>a DEF Owned
<1>7. Owned(b) = (0 .. count[b]) \ {left} /\ Owned(b)' = 0 .. count[b]
  BY <1>0, <1>a DEF Owned
<1>8. \A j \in Owned(b)' : j \in Slots /\ j \in Nat /\ (j = left \/ j \in Owned(b))
  <2>1. count[b] <= Cardinality(Entries) /\ Cardinality(Entries) \in Nat
    BY <1>0, <1>a, WriterFacts
  <2> QED BY <1>1, <1>7, <2>1 DEF Slots
<1>9. \A j \in Owned(b)' : entries'[b][j] = IF j = left THEN x ELSE entries[b][j]
  BY <1>3, <1>8
<1>10. \A j \in Owned(b) : IF j < left THEN entries[b][j] < x ELSE x < entries[b][j]
  BY <1>0, <1>a DEF TableInv, Inserting
<1>11. Sorted'
  <2> SUFFICES ASSUME NEW c \in 1 .. used, NEW j \in Owned(c)'
               PROVE  entries'[c][j] \in Entries /\ \A k \in Owned(c)' : j < k => entries'[c][j] < entries'[c][k]
    BY <1>0 DEF Sorted
  <2>1. CASE c # b
    BY <1>4, <1>6, <2>1 DEF TableInv, Sorted
  <2>2. CASE c = b
    <3>1. entries'[b][j] \in Entries
      BY <1>1, <1>8, <1>9, <2>2 DEF TableInv, Sorted
    <3>2. ASSUME NEW k \in Owned(b)', j < k PROVE entries'[b][j] < entries'[b][k]
      <4>1. CASE j = left
        <5>1. k \in Owned(b) /\ ~ (k < left) /\ k # left
          BY <1>1, <1>8, <2>2, <3>2, <4>1
        <5> QED BY <1>9, <1>10, <2>2, <4>1, <5>1
      <4>2. CASE k = left
        <5>1. j \in Owned(b) /\ j < left /\ j # left
          BY <1>1, <1>8, <2>2, <3>2, <4>2
        <5> QED BY <1>9, <1>10, <2>2, <4>2, <5>1
      <4>3. CASE j # left /\ k # left
        <5>1. j \in Owned(b) /\ k \in Owned(b)
          BY <1>8, <2>2, <4>3
        <5>2. entries[b][j] < entries[b][k]
          BY <1>1, <3>2, <5>1 DEF TableInv, Sorted
        <5> QED BY <1>9, <2>2, <4>3, <5>2
      <4> QED BY <4>1, <4>2, <4>3
    <3> QED BY <2>2, <3>1, <3>2
  <2> QED BY <2>1, <2>2
<1>12. Ordered'
  <2> SUFFICES ASSUME NEW c \in 1 .. used, NEW d \in 1 .. used, low(c) < low(d), NEW j \in Owned(c)'
               PROVE  entries'[c][j] < low(d)
    BY <1>0, <1>5 DEF Ordered
  <2>1. CASE c # b
    BY <1>4, <1>6, <2>1 DEF TableInv, Ordered
  <2>2. CASE c = b /\ j = left
    <3>1. x < low(d)
      BY <1>0, <1>a, <2>2 DEF TableInv, Inserting
    <3> QED BY <1>9, <2>2, <3>1
  <2>3. CASE c = b /\ j # left
    <3>1. j \in Owned(b) /\ entries'[b][j] = entries[b][j]
      BY <1>8, <1>9, <2>3
    <3> QED BY <2>3, <3>1 DEF TableInv, Ordered
  <2> QED BY <2>1, <2>2, <2>3
<1>13. Distinct'
  BY <1>0, <1>5 DEF TableInv, Distinct
<1>14. Contents'
  <2>1. ASSUME NEW c \in 1 .. used, NEW j \in Owned(c)' PROVE entries'[c][j] \in visible \/ entries'[c][j] = x
    <3>1. CASE c = b
      BY <1>0, <1>8, <1>9, <3>1 DEF TableInv, Contents
    <3>2. CASE c # b
      BY <1>0, <1>4, <1>6, <3>2 DEF TableInv, Contents
    <3> QED BY <3>1, <3>2
  <2>2. ASSUME NEW v \in visible PROVE \E c \in 1 .. used : \E j \in Owned(c)' : entries'[c][j] = v
    <3>1. PICK c \in 1 .. used : \E j \in Owned(c) : entries[c][j] = v
      BY DEF TableInv, Contents
    <3>2. PICK j \in Owned(c) : entries[c][j] = v
      BY <3>1
    <3>3. CASE c = b
      <4>1. j \in Owned(b)' /\ j # left
        BY <1>7, <3>3
      <4> QED BY <1>9, <3>2, <3>3, <4>1
    <3>4. CASE c # b
      BY <1>4, <1>6, <3>2, <3>4
    <3> QED BY <3>3, <3>4
  <2> QED BY <1>0, <1>a, <2>1, <2>2 DEF Contents
<1>15. TableTypes'
  BY <1>0, <1>2 DEF TableInv, TableTypes, WriterSteps
<1>16. NextOrder' /\ PrevOrder' /\ Unlinked'
  BY <1>0, <1>5, KeepsLinks DEF Linked, Joined
<1>17. NonEmpty'
  <2> SUFFICES ASSUME NEW c \in 2 .. used PROVE count[c] > 0 /\ entries'[c][0] \in Entries
    BY <1>0 DEF NonEmpty
  <2>1. c \in 1 .. used /\ c # HeadBlock
    BY Facts DEF HeadBlock
  <2>2. entries'[c][0] = entries[c][0]
    BY <1>5, <2>1 DEF low
  <2> QED BY <2>2 DEF TableInv, NonEmpty
<1>18. TrieLinked' /\ Parity'
  BY <1>0 DEF TableInv, TrieLinked, Parity, Modifying, Splitting, Linked
<1>19. Inserting'
  <2>1. /\ x \notin visible /\ count[b] < Cardinality(Entries)
    BY <1>0, <1>a DEF TableInv, Inserting
  <2>2. entries'[b][left] = x
    BY <1>1, <1>3
  <2> QED BY <1>0, <1>1, <1>a, <2>1, <2>2 DEF Inserting, Splitting
<1>20. QED
  BY <1>11, <1>12, <1>13, <1>14, <1>15, <1>16, <1>17, <1>18, <1>19 DEF TableInv

LEMMA InsertCountKeeps ==
  ASSUME TableInv, InsertCount PROVE TableInv'
<1>a. PICK b : b = ins.b
  OBVIOUS
<1> USE DEF blocks, chain, reader
<1>0. /\ wpc = "count" /\ wpc' = "close" /\ ins' = ins
      /\ count' = [count EXCEPT ![b] = count[b] + 1]
      /\ UNCHANGED <<scope, cap, version, entries, prev, next, tail, used, trie, visible>>
  BY <1>a DEF InsertCount, SetCount, Goto
<1>1. /\ b \in 1 .. used /\ b \in Blocks /\ count[b] \in Nat /\ count[b] < Cardinality(Entries)
      /\ ins.left \in 0 .. count[b] /\ (b # HeadBlock => ins.left > 0)
      /\ Cardinality(Entries) \in Nat /\ ins.e \in Entries /\ ins.e \notin visible
      /\ entries[b][ins.left] = ins.e
  <2>1. b \in 1 .. used /\ b \in Blocks /\ count[b] \in Nat /\ Cardinality(Entries) \in Nat /\ ins.e \in Entries
    BY <1>0, <1>a, WriterFacts
  <2>2. /\ count[b] < Cardinality(Entries) /\ ins.left \in 0 .. count[b] /\ (b # HeadBlock => ins.left > 0)
        /\ ins.e \notin visible /\ entries[b][ins.left] = ins.e
    BY <1>0, <1>a DEF TableInv, Inserting
  <2> QED BY <2>1, <2>2
<1>2. count' \in [Blocks -> Slots] /\ count'[b] = count[b] + 1 /\ \A c \in Blocks : c # b => count'[c] = count[c]
  <2>1. count \in [Blocks -> Slots] /\ count[b] + 1 \in Slots
    BY <1>1 DEF TableInv, TableTypes, Slots
  <2> QED BY <1>0, <1>1, <2>1
<1>3. \A c \in 1 .. used : Owned(c)' = Owned(c)
  <2> SUFFICES ASSUME NEW c \in 1 .. used PROVE Owned(c)' = Owned(c)
    OBVIOUS
  <2>1. CASE c = b
    <3>1. Owned(b) = 0 .. count[b] /\ Owned(b)' = 0 .. (count[b] + 1) - 1
      BY <1>0, <1>2, <1>a DEF Owned
    <3>2. (count[b] + 1) - 1 = count[b]
      BY <1>1
    <3> QED BY <2>1, <3>1, <3>2
  <2>2. CASE c # b
    <3>1. count'[c] = count[c]
      BY <1>2, <2>2, Facts
    <3> QED BY <1>0, <1>a, <2>2, <3>1 DEF Owned
  <2> QED BY <2>1, <2>2
<1>4. TableTypes'
  BY <1>0, <1>2 DEF TableInv, TableTypes, WriterSteps
<1>5. Linked' = Linked /\ Joined' = Joined /\ (\A c : low(c)' = low(c))
  BY <1>0 DEF Linked, Joined, low
<1>6. Sorted' /\ Distinct' /\ Ordered'
  BY <1>0, <1>3, <1>5, KeepsOrder
<1>7. NextOrder' /\ PrevOrder' /\ Unlinked'
  BY <1>0, <1>5, KeepsLinks
<1>8. NonEmpty'
  <2> SUFFICES ASSUME NEW c \in 2 .. used PROVE count'[c] > 0 /\ entries[c][0] \in Entries
    BY <1>0 DEF NonEmpty
  <2>1. c \in 1 .. used /\ c \in Blocks /\ count[c] > 0 /\ entries[c][0] \in Entries
    BY Facts DEF TableInv, NonEmpty
  <2> QED BY <1>1, <1>2, <2>1
<1>9. TrieLinked' /\ Parity'
  BY <1>0, <1>5 DEF TableInv, TrieLinked, Parity, Modifying, Splitting
<1>10. Contents'
  BY <1>0, <1>3 DEF TableInv, Contents
<1>11. Inserting'
  BY <1>0, <1>1, <1>2, <1>a DEF Inserting, Splitting
<1>12. QED
  BY <1>4, <1>6, <1>7, <1>8, <1>9, <1>10, <1>11 DEF TableInv

LEMMA NoInsertTyped == NoInsert \in InsertRecords
BY Sizes DEF NoInsert, InsertRecords, Slots

LEMMA InsertCloseKeeps ==
  ASSUME TableInv, InsertClose PROVE TableInv'
<1>a. PICK b, x : b = ins.b /\ x = ins.e
  OBVIOUS
<1> USE DEF blocks, chain, reader
<1>0. /\ wpc = "close" /\ wpc' \in {"map", "split", "idle"} /\ Bump(ins.b)
      /\ ins' = IF wpc' = "idle" THEN NoInsert ELSE ins
      /\ wpc' = "map" => ins.left = 0
      /\ visible' = visible \cup {x}
      /\ UNCHANGED <<scope, cap, count, entries, prev, next, tail, used, trie>>
  BY <1>a DEF InsertClose, SplitIfFull, Goto
<1>1. /\ b \in 1 .. used /\ b \in Blocks /\ count[b] \in Nat /\ x \in Entries /\ ins.left \in Nat
      /\ ins.left < count[b] /\ (b # HeadBlock => ins.left > 0) /\ entries[b][ins.left] = x
      /\ count[b] > (IF b = HeadBlock THEN 0 ELSE 1)
  <2>1. b \in 1 .. used /\ b \in Blocks /\ count[b] \in Nat /\ x \in Entries /\ ins.left \in Nat
    BY <1>0, <1>a, WriterFacts
  <2>2. /\ ins.left < count[b] /\ (b # HeadBlock => ins.left > 0) /\ entries[b][ins.left] = x
        /\ count[b] > (IF b = HeadBlock THEN 0 ELSE 1)
    BY <1>0, <1>a DEF TableInv, Inserting
  <2> QED BY <2>1, <2>2
<1>2. \A c : Owned(c) = 0 .. count[c] - 1 /\ Owned(c)' = Owned(c)
  BY <1>0 DEF Owned
<1>3. Parity' /\ version' \in [Blocks -> Nat]
  BY <1>0, BumpParity DEF Modifying, Splitting
<1>4. TableTypes'
  <2>1. ins' \in InsertRecords
    BY <1>0, NoInsertTyped DEF TableInv, TableTypes
  <2> QED BY <1>0, <1>1, <1>3, <2>1 DEF TableInv, TableTypes, WriterSteps
<1>5. Linked' = Linked /\ Joined' = Joined /\ (\A c : low(c)' = low(c))
  BY <1>0 DEF Linked, Joined, low
<1>6. Sorted' /\ Distinct' /\ Ordered'
  BY <1>0, <1>2, <1>5, KeepsOrder
<1>7. NextOrder' /\ PrevOrder' /\ Unlinked'
  BY <1>0, <1>5, KeepsLinks
<1>8. NonEmpty' /\ TrieLinked'
  BY <1>0, <1>5 DEF TableInv, NonEmpty, TrieLinked
<1>9. Contents'
  <2>1. ASSUME NEW c \in 1 .. used, NEW j \in Owned(c) PROVE entries[c][j] \in visible'
    BY <1>0, <1>a DEF TableInv, Contents
  <2>2. ASSUME NEW v \in visible' PROVE \E c \in 1 .. used : \E j \in Owned(c) : entries[c][j] = v
    <3>1. CASE v \in visible
      BY <3>1 DEF TableInv, Contents
    <3>2. CASE v = x
      <4>1. ins.left \in Owned(b)
        BY <1>1, <1>2
      <4> QED BY <1>1, <3>2, <4>1
    <3> QED BY <1>0, <3>1, <3>2
  <2> QED BY <1>0, <1>2, <2>1, <2>2 DEF Contents
<1>10. Inserting'
  BY <1>0, <1>1, <1>a DEF Inserting, Splitting
<1>11. QED
  BY <1>3, <1>4, <1>6, <1>7, <1>8, <1>9, <1>10 DEF TableInv

LEMMA InsertMapKeeps ==
  ASSUME TableInv, InsertMap PROVE TableInv'
<1>a. PICK b, x : b = ins.b /\ x = ins.e
  OBVIOUS
<1> USE DEF blocks, chain, reader
<1>0. /\ wpc = "map" /\ wpc' \in {"split", "idle"}
      /\ ins' = IF wpc' = "idle" THEN NoInsert ELSE ins
      /\ trie' = [trie EXCEPT ![PrefixOf[x]] = b]
      /\ UNCHANGED <<scope, cap, version, count, entries, prev, next, tail, used, visible>>
  BY <1>a DEF InsertMap, SplitIfFull, Goto
<1>1. b \in 1 .. used /\ b \in Blocks /\ x \in Entries /\ count[b] > (IF b = HeadBlock THEN 0 ELSE 1)
  <2>1. b \in 1 .. used /\ b \in Blocks /\ x \in Entries
    BY <1>0, <1>a, WriterFacts
  <2>2. count[b] > (IF b = HeadBlock THEN 0 ELSE 1)
    BY <1>0, <1>a DEF TableInv, Inserting
  <2> QED BY <2>1, <2>2
<1>2. \A c : Owned(c) = 0 .. count[c] - 1 /\ Owned(c)' = Owned(c)
  BY <1>0 DEF Owned
<1>3. TableTypes'
  <2>1. ins' \in InsertRecords
    BY <1>0, NoInsertTyped DEF TableInv, TableTypes
  <2>2. trie' \in [Prefixes -> Blocks \cup {Null}]
    BY <1>0, <1>1 DEF TableInv, TableTypes
  <2> QED BY <1>0, <2>1, <2>2 DEF TableInv, TableTypes, WriterSteps
<1>4. Linked' = Linked /\ Joined' = Joined /\ Linked = 1 .. used /\ (\A c : low(c)' = low(c))
  BY <1>0 DEF Linked, Joined, low
<1>5. Sorted' /\ Distinct' /\ Ordered'
  BY <1>0, <1>2, <1>4, KeepsOrder
<1>6. NextOrder' /\ PrevOrder' /\ Unlinked'
  BY <1>0, <1>4, KeepsLinks
<1>7. NonEmpty' /\ Parity'
  BY <1>0 DEF TableInv, NonEmpty, Parity, Modifying, Splitting
<1>8. TrieLinked'
  BY <1>0, <1>1, <1>4 DEF TableInv, TableTypes, TrieLinked
<1>9. Contents'
  BY <1>0, <1>2 DEF TableInv, Contents
<1>10. Inserting'
  BY <1>0, <1>1, <1>a DEF Inserting, Splitting
<1>11. QED
  BY <1>3, <1>5, <1>6, <1>7, <1>8, <1>9, <1>10 DEF TableInv

(* The block at work has not been split yet: its upper half becomes the new
   block's entries, between its lower half and the block after it. *)
LEMMA SplitOpenKeeps ==
  ASSUME TableInv, SplitOpen PROVE TableInv'
<1>a. PICK b, new, n, mid : b = ins.b /\ new = used + 1 /\ n = count[ins.b] /\ mid = n \div 2
  OBVIOUS
<1> DEFINE moved == n - mid
<1> USE DEF blocks, chain, reader
<1>0. /\ wpc = "split" /\ wpc' = "splitcount" /\ Bump(ins.b) /\ used' = new
      /\ entries' = [entries EXCEPT ![new] =
                       [i \in Slots |-> IF i < moved THEN entries[b][mid + i] ELSE Null]]
      /\ count' = [count EXCEPT ![new] = moved]
      /\ ins' = [ins EXCEPT !.new = new, !.i = mid]
      /\ UNCHANGED <<scope, cap, prev, next, tail, trie, visible>>
  BY <1>a DEF SplitOpen, SetCount
<1>1. /\ b \in 1 .. used /\ b \in Blocks /\ n \in Nat /\ n = count[b] /\ n <= Cardinality(Entries) /\ Cardinality(Entries) \in Nat
      /\ n > (IF b = HeadBlock THEN 0 ELSE 1)
  <2>1. b \in 1 .. used /\ b \in Blocks /\ n \in Nat /\ n <= Cardinality(Entries) /\ Cardinality(Entries) \in Nat
    BY <1>0, <1>a, WriterFacts
  <2>2. n > (IF b = HeadBlock THEN 0 ELSE 1)
    BY <1>0, <1>a DEF TableInv, Inserting
  <2> QED BY <1>a, <2>1, <2>2
<1>2. /\ mid \in Nat /\ mid < n /\ (b # HeadBlock => mid > 0) /\ mid \in Slots
      /\ moved \in Nat /\ moved > 0 /\ moved + mid = n /\ moved \in Slots
  <2>1. n >= 1 /\ (b # HeadBlock => n >= 2)
    BY <1>1
  <2>2. mid \in Nat /\ mid < n /\ (n >= 2 => mid > 0)
    BY <1>1, <1>a, <2>1
  <2> QED BY <1>1, <2>1, <2>2 DEF Slots
<1>3. new \in Blocks /\ new \in Nat /\ new > used /\ used \in Nat /\ used >= 1 /\ new # b /\ 1 .. new = 1 .. used \cup {new} /\ new # HeadBlock
      /\ 1 .. used \subseteq Blocks
  <2>1. new \in Blocks
    BY <1>0, <1>a, BlockLeft
  <2>2. used \in Nat /\ used >= 1 /\ 1 .. used \subseteq Blocks
    BY Facts
  <2> QED BY <1>1, <1>a, <2>1, <2>2 DEF HeadBlock
<1>4. /\ ins'.b = b /\ ins'.e = ins.e /\ ins'.new = new /\ ins'.i = mid /\ ins' \in InsertRecords
  BY <1>0, <1>2, <1>3, <1>a DEF TableInv, TableTypes, InsertRecords
<1>5. count' \in [Blocks -> Slots] /\ count'[new] = moved /\ \A c \in Blocks : c # new => count'[c] = count[c]
  <2>1. count \in [Blocks -> Slots]
    BY DEF TableInv, TableTypes
  <2> QED BY <1>0, <1>2, <1>3, <2>1
<1>6. /\ entries' \in [Blocks -> [Slots -> Entries \cup {Null}]]
      /\ \A c \in Blocks : c # new => entries'[c] = entries[c]
      /\ \A j \in 0 .. moved - 1 : entries'[new][j] = entries[b][mid + j]
  <2> DEFINE half == [i \in Slots |-> IF i < moved THEN entries[b][mid + i] ELSE Null]
  <2>1. entries \in [Blocks -> [Slots -> Entries \cup {Null}]]
    BY DEF TableInv, TableTypes
  <2>2. half \in [Slots -> Entries \cup {Null}]
    <3> SUFFICES ASSUME NEW i \in Slots, i < moved PROVE entries[b][mid + i] \in Entries \cup {Null}
      OBVIOUS
    <3>1. mid + i \in Slots
      BY <1>1, <1>2 DEF Slots
    <3> QED BY <1>1, <2>1, <3>1
  <2>3. \A j \in 0 .. moved - 1 : j \in Slots /\ half[j] = entries[b][mid + j]
    BY <1>1, <1>2 DEF Slots
  <2>4. entries' = [entries EXCEPT ![new] = half]
    BY <1>0
  <2> HIDE DEF half
  <2> QED BY <1>3, <2>1, <2>2, <2>3, <2>4
<1> HIDE DEF moved
<1>7. \A c \in 1 .. used : c # new /\ c \in Blocks /\ entries'[c] = entries[c] /\ count'[c] = count[c] /\ low(c)' = low(c)
  <2> SUFFICES ASSUME NEW c \in 1 .. used
               PROVE  c # new /\ c \in Blocks /\ entries'[c] = entries[c] /\ count'[c] = count[c] /\ low(c)' = low(c)
    OBVIOUS
  <2>1. c # new /\ c \in Blocks
    BY <1>3
  <2> QED BY <1>5, <1>6, <2>1 DEF low
<1>8. /\ Owned(b) = 0 .. n - 1 /\ Owned(b)' = 0 .. mid - 1 /\ Owned(new)' = 0 .. moved - 1
      /\ \A c \in 1 .. used : c # b => Owned(c)' = Owned(c)
  <2>1. Owned(b) = 0 .. n - 1 /\ Owned(b)' = 0 .. mid - 1
    BY <1>0, <1>1, <1>4 DEF Owned
  <2>2. Owned(new)' = 0 .. moved - 1
    BY <1>0, <1>3, <1>4, <1>5 DEF Owned
  <2>3. \A c \in 1 .. used : c # b => Owned(c)' = Owned(c)
    BY <1>0, <1>4, <1>7 DEF Owned
  <2> QED BY <2>1, <2>2, <2>3
<1>9. \A j \in Owned(b)' : j \in Owned(b) /\ j < mid
  BY <1>1, <1>2, <1>8
<1>10. \A j \in Owned(new)' : mid + j \in Owned(b) /\ entries'[new][j] = entries[b][mid + j] /\ j \in Nat
  BY <1>1, <1>2, <1>6, <1>8, SMTT(20)
<1>11. /\ low(new)' = entries[b][mid] /\ mid \in Owned(b) /\ entries[b][mid] \in Entries
       /\ low(b) < entries[b][mid] /\ entries[b][mid] \in Nat /\ low(b) \in Nat
  <2>1. low(new)' = entries'[new][0]
    BY <1>3 DEF low
  <2>2. 0 \in Owned(new)' /\ mid \in Owned(b) /\ 0 \in Owned(b)
    BY <1>1, <1>2, <1>8
  <2>3. mid + 0 = mid
    BY <1>2
  <2>4. low(new)' = entries[b][mid]
    BY <1>10, <2>1, <2>2, <2>3
  <2>5. entries[b][mid] \in Entries /\ entries[b][mid] \in Nat /\ entries[b][mid] > 0
    BY <1>1, <2>2, Sizes DEF TableInv, Sorted
  <2>6. low(b) < entries[b][mid]
    <3>1. CASE b = HeadBlock
      BY <2>5, <3>1 DEF low
    <3>2. CASE b # HeadBlock
      BY <1>1, <1>2, <2>2, <3>2 DEF TableInv, Sorted, low
    <3> QED BY <3>1, <3>2
  <2>7. low(b) \in Nat
    BY <1>1, Facts
  <2> QED BY <2>2, <2>4, <2>5, <2>6, <2>7
<1>12. \A c \in 1 .. used : /\ low(c) \in Nat /\ low(c) # low(new)'
                            /\ low(c) <= low(b) => low(c) < low(new)'
                            /\ ~ (low(c) <= low(b)) => low(new)' < low(c)
  <2> SUFFICES ASSUME NEW c \in 1 .. used
               PROVE  /\ low(c) \in Nat /\ low(c) # low(new)'
                      /\ low(c) <= low(b) => low(c) < low(new)'
                      /\ ~ (low(c) <= low(b)) => low(new)' < low(c)
    OBVIOUS
  <2>1. low(c) \in Nat
    BY Facts
  <2>2. CASE low(c) <= low(b)
    BY <1>11, <2>1, <2>2
  <2>3. CASE ~ (low(c) <= low(b))
    <3>1. low(b) < low(c)
      BY <1>11, <2>1, <2>3
    <3>2. entries[b][mid] < low(c)
      BY <1>1, <1>11, <3>1 DEF TableInv, Ordered
    <3> QED BY <1>11, <2>1, <2>3, <3>2
  <2> QED BY <2>2, <2>3
<1>13. TableTypes'
  <2>1. version' \in [Blocks -> Nat]
    BY <1>0, <1>4, <1>a, BumpParity DEF Modifying, Splitting
  <2> QED BY <1>0, <1>3, <1>4, <1>5, <1>6, <2>1 DEF TableInv, TableTypes, WriterSteps
<1>14. Sorted'
  <2> SUFFICES ASSUME NEW c \in 1 .. used \cup {new}, NEW j \in Owned(c)'
               PROVE  entries'[c][j] \in Entries /\ \A k \in Owned(c)' : j < k => entries'[c][j] < entries'[c][k]
    BY <1>0, <1>3 DEF Sorted
  <2>1. CASE c = new
    <3>1. entries'[new][j] \in Entries
      BY <1>1, <1>10, <2>1 DEF TableInv, Sorted
    <3>2. ASSUME NEW k \in Owned(new)', j < k PROVE entries'[new][j] < entries'[new][k]
      <4>1. mid + j < mid + k /\ mid + j \in Owned(b) /\ mid + k \in Owned(b)
        BY <1>2, <1>10, <2>1, <3>2
      <4>2. entries[b][mid + j] < entries[b][mid + k]
        BY <1>1, <4>1 DEF TableInv, Sorted
      <4> QED BY <1>10, <2>1, <4>2
    <3> QED BY <2>1, <3>1, <3>2
  <2>2. CASE c \in 1 .. used /\ c = b
    BY <1>7, <1>9, <2>2 DEF TableInv, Sorted
  <2>3. CASE c \in 1 .. used /\ c # b
    BY <1>7, <1>8, <2>3 DEF TableInv, Sorted
  <2> QED BY <2>1, <2>2, <2>3
<1>15. NonEmpty'
  <2> SUFFICES ASSUME NEW c \in 2 .. new PROVE count'[c] > 0 /\ entries'[c][0] \in Entries
    BY <1>0 DEF NonEmpty
  <2>1. CASE c = new
    BY <1>2, <1>3, <1>5, <1>11, <2>1 DEF low
  <2>2. CASE c # new
    <3>1. c \in 2 .. used /\ c \in 1 .. used
      BY <1>3, <1>a, <2>2
    <3> QED BY <1>7, <3>1 DEF TableInv, NonEmpty
  <2> QED BY <2>1, <2>2
<1>16. Distinct'
  <2> SUFFICES ASSUME NEW c \in 1 .. used \cup {new}, NEW d \in 1 .. used \cup {new}, low(c)' = low(d)'
               PROVE  c = d
    BY <1>0, <1>3 DEF Distinct
  <2>1. CASE c \in 1 .. used /\ d \in 1 .. used
    BY <1>7, <2>1 DEF TableInv, Distinct
  <2> QED BY <1>7, <1>12, <2>1
<1>17. Ordered'
  <2> SUFFICES ASSUME NEW c \in 1 .. used \cup {new}, NEW d \in 1 .. used \cup {new},
                      low(c)' < low(d)', NEW j \in Owned(c)'
               PROVE  entries'[c][j] < low(d)'
    BY <1>0, <1>3 DEF Ordered
  <2>1. CASE c = new /\ d = new
    BY <1>11, <2>1
  <2>2. CASE c = new /\ d \in 1 .. used
    <3>1. low(b) < low(d)
      BY <1>7, <1>11, <1>12, <2>2
    <3> QED BY <1>1, <1>7, <1>10, <2>2, <3>1 DEF TableInv, Ordered
  <2>3. CASE c \in 1 .. used /\ d \in 1 .. used
    <3>1. j \in Owned(c) /\ entries'[c][j] = entries[c][j] /\ low(c) < low(d)
      BY <1>7, <1>8, <1>9, <2>3
    <3> QED BY <1>7, <2>3, <3>1 DEF TableInv, Ordered
  <2>4. CASE c \in 1 .. used /\ d = new /\ c = b
    <3>1. j \in Owned(b) /\ j < mid /\ entries'[b][j] = entries[b][j]
      BY <1>7, <1>9, <2>4
    <3>2. entries[b][j] < entries[b][mid]
      BY <1>1, <1>11, <3>1 DEF TableInv, Sorted
    <3> QED BY <1>11, <2>4, <3>1, <3>2
  <2>5. CASE c \in 1 .. used /\ d = new /\ c # b
    <3>1. low(c) < low(b)
      <4>1. low(c) <= low(b) /\ low(c) \in Nat /\ low(b) \in Nat
        BY <1>7, <1>11, <1>12, <2>5
      <4>2. low(c) # low(b)
        BY <1>1, <2>5 DEF TableInv, Distinct
      <4> QED BY <4>1, <4>2
    <3>2. entries[c][j] < low(b) /\ entries'[c][j] = entries[c][j] /\ entries[c][j] \in Nat
      BY <1>1, <1>7, <1>8, <2>5, <3>1, Facts DEF TableInv, Ordered
    <3> QED BY <1>11, <2>5, <3>2
  <2> QED BY <2>1, <2>2, <2>3, <2>4, <2>5
<1>18. Contents'
  <2>1. ASSUME NEW c \in 1 .. used \cup {new}, NEW j \in Owned(c)' PROVE entries'[c][j] \in visible
    <3>1. CASE c = new
      BY <1>0, <1>1, <1>10, <3>1 DEF TableInv, Contents
    <3>2. CASE c \in 1 .. used
      <4>1. j \in Owned(c) /\ entries'[c][j] = entries[c][j]
        BY <1>7, <1>8, <1>9, <3>2
      <4> QED BY <1>0, <3>2, <4>1 DEF TableInv, Contents
    <3> QED BY <3>1, <3>2
  <2>2. ASSUME NEW v \in visible PROVE \E c \in 1 .. used \cup {new} : \E j \in Owned(c)' : entries'[c][j] = v
    <3>1. PICK c \in 1 .. used : \E j \in Owned(c) : entries[c][j] = v
      BY DEF TableInv, Contents
    <3>2. PICK j \in Owned(c) : entries[c][j] = v
      BY <3>1
    <3>3. CASE c # b
      BY <1>7, <1>8, <3>2, <3>3
    <3>4. CASE c = b /\ j < mid
      <4>1. j \in Owned(b)' /\ entries'[b][j] = v
        BY <1>1, <1>2, <1>7, <1>8, <3>2, <3>4
      <4> QED BY <1>1, <4>1
    <3>5. CASE c = b /\ ~ (j < mid)
      <4>1. j - mid \in Owned(new)' /\ mid + (j - mid) = j
        BY <1>1, <1>2, <1>8, <3>2, <3>5
      <4>2. entries'[new][j - mid] = v
        BY <1>10, <3>2, <3>5, <4>1
      <4> QED BY <4>1, <4>2
    <3> QED BY <3>3, <3>4, <3>5
  <2>3. (1 .. used)' = 1 .. used \cup {new} /\ visible' = visible
    BY <1>0, <1>3
  <2> QED BY <2>1, <2>2, <2>3 DEF Contents
<1>19. Linked = 1 .. used /\ Joined = 1 .. used /\ Linked' = 1 .. used /\ Joined' = 1 .. used
  <2>1. new - 1 = used
    BY <1>3, <1>a
  <2> QED BY <1>0, <2>1 DEF Linked, Joined
<1>20. NextOrder' /\ PrevOrder'
  <2>1. UNCHANGED <<next, prev, tail>> /\ Linked' = Linked /\ Joined' = Joined
    BY <1>0, <1>19
  <2>2. \A c \in 1 .. used : low(c)' = low(c)
    BY <1>7
  <2> QED BY <2>1, <2>2, KeepsChain
<1>22. Unlinked' /\ TrieLinked'
  <2>1. \A c \in Blocks : c > new => c > used
    BY <1>3, Sizes DEF Blocks
  <2> QED BY <1>0, <1>19, <2>1 DEF TableInv, Unlinked, TrieLinked
<1>23. Parity'
  BY <1>0, <1>4, <1>a, BumpParity DEF Modifying, Splitting
<1>24. Inserting'
  <2>1. ins'.e \in Entries
    BY <1>0, <1>4 DEF TableInv, Inserting
  <2>2. \A c \in 1 .. used \cup {new} : low(c)' <= low(b)' \/ low(new)' <= low(c)'
    BY <1>1, <1>7, <1>11, <1>12
  <2>3. low(b)' < low(new)' /\ b < new /\ b \in 1 .. new
    BY <1>1, <1>3, <1>7, <1>11
  <2>4. /\ mid + count'[new] = count'[b] /\ (b # HeadBlock => mid > 0)
        /\ \A j \in 0 .. count'[new] - 1 : entries'[b][mid + j] = entries'[new][j]
    BY <1>1, <1>2, <1>5, <1>6, <1>7, <1>8, <1>10
  <2> QED BY <1>0, <1>3, <1>4, <2>1, <2>2, <2>3, <2>4 DEF Inserting, Splitting
<1>25. QED
  BY <1>13, <1>14, <1>15, <1>16, <1>17, <1>18, <1>20, <1>22, <1>23, <1>24 DEF TableInv

(* What holds of the two halves until the version is even again. *)
LEMMA SplitFacts ==
  ASSUME TableInv, Splitting
  PROVE  /\ ins.b \in 1 .. used - 1 /\ ins.b \in Blocks /\ ins.new = used /\ used \in Blocks /\ ins.b # used
         /\ used # HeadBlock /\ low(ins.b) < low(used) /\ count[used] > 0
         /\ 1 .. used = 1 .. used - 1 \cup {used}
         /\ \A c \in 1 .. used : /\ low(c) \in Nat
                                 /\ low(c) <= low(ins.b) \/ low(used) <= low(c)
                                 /\ low(c) = low(used) => c = used
<1>1. wpc # "idle"
  BY DEF Splitting
<1>2. ins.b \in 1 .. used /\ ins.b \in Blocks /\ used \in Nat /\ used >= 1
  BY <1>1, WriterFacts, Facts
<1>3. /\ ins.new = used /\ ins.b < used /\ low(ins.b) < low(ins.new)
      /\ \A c \in 1 .. used : low(c) <= low(ins.b) \/ low(ins.new) <= low(c)
  BY DEF TableInv, Inserting
<1>4. used \in 1 .. used /\ used # HeadBlock /\ used \in Blocks /\ ins.b \in 1 .. used - 1 /\ ins.b # used
      /\ 1 .. used = 1 .. used - 1 \cup {used}
  BY <1>2, <1>3 DEF HeadBlock, TableInv, TableTypes
<1>5. count[used] > 0 /\ \A c \in 1 .. used : low(c) \in Nat
  BY <1>4, Facts
<1>6. \A c \in 1 .. used : low(c) = low(used) => c = used
  BY <1>4 DEF TableInv, Distinct
<1>7. QED
  BY <1>2, <1>3, <1>4, <1>5, <1>6

LEMMA SplitCountKeeps ==
  ASSUME TableInv, SplitCount PROVE TableInv'
<1>a. PICK b, i : b = ins.b /\ i = ins.i
  OBVIOUS
<1> USE DEF blocks, chain, reader
<1>0. /\ wpc = "splitcount" /\ wpc' = "null" /\ ins' = ins
      /\ count' = [count EXCEPT ![b] = i]
      /\ UNCHANGED <<scope, cap, version, entries, prev, next, tail, used, trie, visible>>
  BY <1>a DEF SplitCount, SetCount, Goto
<1>1. /\ b \in 1 .. used /\ b \in Blocks /\ b # used /\ ins.new = used /\ used \in Blocks
      /\ i \in Nat /\ i \in Slots /\ count[b] \in Nat /\ count[b] <= Cardinality(Entries) /\ Cardinality(Entries) \in Nat
      /\ count[used] \in Nat /\ count[used] > 0 /\ i + count[used] = count[b] /\ (b # HeadBlock => i > 0)
  <2>1. b \in 1 .. used /\ b \in Blocks /\ i \in Nat /\ i \in Slots /\ count[b] \in Nat
        /\ count[b] <= Cardinality(Entries) /\ Cardinality(Entries) \in Nat
    BY <1>0, <1>a, WriterFacts
  <2>2. b # used /\ ins.new = used /\ used \in Blocks /\ count[used] > 0
    BY <1>0, <1>a, SplitFacts DEF Splitting
  <2>3. i + count[used] = count[b] /\ (b # HeadBlock => i > 0)
    BY <1>0, <1>a, <2>2 DEF TableInv, Inserting
  <2>4. count[used] \in Nat
    BY Facts
  <2> QED BY <2>1, <2>2, <2>3, <2>4
<1>2. count' \in [Blocks -> Slots] /\ count'[b] = i /\ \A c \in Blocks : c # b => count'[c] = count[c]
  <2>1. count \in [Blocks -> Slots]
    BY DEF TableInv, TableTypes
  <2> QED BY <1>0, <1>1, <2>1
<1>3. \A c \in 1 .. used : Owned(c)' = Owned(c)
  <2> SUFFICES ASSUME NEW c \in 1 .. used PROVE Owned(c)' = Owned(c)
    OBVIOUS
  <2>1. CASE c = b
    BY <1>0, <1>2, <1>a, <2>1 DEF Owned
  <2>2. CASE c # b
    <3>1. count'[c] = count[c]
      BY <1>2, <2>2, Facts
    <3> QED BY <1>0, <1>a, <2>2, <3>1 DEF Owned
  <2> QED BY <2>1, <2>2
<1>4. TableTypes'
  BY <1>0, <1>2 DEF TableInv, TableTypes, WriterSteps
<1>5. Linked' = Linked /\ Joined' = Joined /\ (\A c : low(c)' = low(c))
  BY <1>0 DEF Linked, Joined, low
<1>6. Sorted' /\ Distinct' /\ Ordered'
  BY <1>0, <1>3, <1>5, KeepsOrder
<1>7. NextOrder' /\ PrevOrder' /\ Unlinked'
  BY <1>0, <1>5, KeepsLinks
<1>8. NonEmpty'
  <2> SUFFICES ASSUME NEW c \in 2 .. used PROVE count'[c] > 0 /\ entries[c][0] \in Entries
    BY <1>0 DEF NonEmpty
  <2>1. c \in 1 .. used /\ c \in Blocks /\ c # HeadBlock /\ count[c] > 0 /\ entries[c][0] \in Entries
    BY Facts DEF TableInv, NonEmpty, HeadBlock
  <2> QED BY <1>1, <1>2, <2>1
<1>9. TrieLinked' /\ Parity'
  BY <1>0, <1>5 DEF TableInv, TrieLinked, Parity, Modifying, Splitting
<1>10. Contents'
  BY <1>0, <1>3 DEF TableInv, Contents
<1>11. Inserting'
  <2>1. i \in count'[b] .. count'[b] + count'[used] - 1 /\ count'[b] + count'[used] <= Cardinality(Entries)
    BY <1>1, <1>2
  <2>2. /\ ins.e \in Entries /\ b < used /\ low(b) < low(used)
        /\ \A c \in 1 .. used : low(c) <= low(b) \/ low(used) <= low(c)
    BY <1>0, <1>1, <1>a DEF TableInv, Inserting, Splitting
  <2> QED BY <1>0, <1>1, <1>5, <1>a, <2>1, <2>2 DEF Inserting, Splitting
<1>12. QED
  BY <1>4, <1>6, <1>7, <1>8, <1>9, <1>10, <1>11 DEF TableInv

LEMMA SplitNullKeeps ==
  ASSUME TableInv, SplitNull PROVE TableInv'
<1>a. PICK b, i : b = ins.b /\ i = ins.i
  OBVIOUS
<1> USE DEF blocks, chain, reader
<1>0. /\ wpc = "null" /\ wpc' \in {"null", "linkback"}
      /\ entries' = [entries EXCEPT ![b][i] = Null]
      /\ wpc' = "linkback" => ins' = ins
      /\ wpc' = "null" => i # count[b] + count[ins.new] - 1 /\ ins' = [ins EXCEPT !.i = i + 1]
      /\ UNCHANGED <<scope, cap, version, count, prev, next, tail, used, trie, visible>>
  BY <1>a DEF SplitNull, Store, Goto
<1>1. /\ b \in 1 .. used /\ b \in Blocks /\ b # used /\ ins.new = used /\ used \in Blocks
      /\ i \in Nat /\ i \in Slots /\ count[b] \in Nat /\ Cardinality(Entries) \in Nat /\ count[used] \in Nat
      /\ i \in count[b] .. count[b] + count[used] - 1 /\ count[b] + count[used] <= Cardinality(Entries)
      /\ (b # HeadBlock => count[b] > 0)
  <2>1. b \in 1 .. used /\ b \in Blocks /\ i \in Nat /\ i \in Slots /\ count[b] \in Nat
        /\ Cardinality(Entries) \in Nat
    BY <1>0, <1>a, WriterFacts
  <2>2. b # used /\ ins.new = used /\ used \in Blocks
    BY <1>0, <1>a, SplitFacts DEF Splitting
  <2>3. i \in count[b] .. count[b] + count[used] - 1 /\ count[b] + count[used] <= Cardinality(Entries)
    BY <1>0, <1>a, <2>2 DEF TableInv, Inserting
  <2>4. count[used] \in Nat /\ (b # HeadBlock => count[b] > 0)
    BY <2>1, Facts
  <2> QED BY <2>1, <2>2, <2>3, <2>4
<1>2. /\ ins'.b = b /\ ins'.e = ins.e /\ ins'.new = used /\ ins' \in InsertRecords
      /\ wpc' = "null" => ins'.i = i + 1 /\ i + 1 \in count[b] .. count[b] + count[used] - 1
  <2>1. wpc' = "null" => i + 1 \in count[b] .. count[b] + count[used] - 1 /\ i + 1 \in Slots
    BY <1>0, <1>1 DEF Slots
  <2> QED BY <1>0, <1>1, <1>a, <2>1 DEF TableInv, TableTypes, InsertRecords
<1>3. /\ entries' \in [Blocks -> [Slots -> Entries \cup {Null}]]
      /\ \A c \in Blocks : c # b => entries'[c] = entries[c]
      /\ \A j \in Slots : j # i => entries'[b][j] = entries[b][j]
  <2>1. entries \in [Blocks -> [Slots -> Entries \cup {Null}]]
    BY DEF TableInv, TableTypes
  <2> QED BY <1>0, <1>1, <2>1
<1>4. \A c : Owned(c) = 0 .. count[c] - 1 /\ Owned(c)' = Owned(c)
  BY <1>0 DEF Owned
<1>5. \A c \in 1 .. used : \A j \in Owned(c) : entries'[c][j] = entries[c][j]
  <2> SUFFICES ASSUME NEW c \in 1 .. used, NEW j \in Owned(c) PROVE entries'[c][j] = entries[c][j]
    OBVIOUS
  <2>1. CASE c # b
    BY <1>3, <2>1, Facts
  <2>2. CASE c = b
    <3>1. j \in Slots /\ j # i
      BY <1>1, <1>4, <2>2 DEF Slots
    <3> QED BY <1>3, <2>2, <3>1
  <2> QED BY <2>1, <2>2
<1>6. \A c \in 1 .. used : low(c)' = low(c)
  <2> SUFFICES ASSUME NEW c \in 1 .. used PROVE low(c)' = low(c)
    OBVIOUS
  <2>1. CASE c = HeadBlock
    BY <2>1 DEF low
  <2>2. CASE c # HeadBlock
    <3>1. count[c] > 0 /\ count[c] \in Nat
      BY <2>2, Facts
    <3>2. 0 \in Owned(c)
      BY <1>4, <3>1
    <3> QED BY <1>5, <2>2, <3>2 DEF low
  <2> QED BY <2>1, <2>2
<1>7. TableTypes'
  BY <1>0, <1>2, <1>3 DEF TableInv, TableTypes, WriterSteps
<1>8. Linked' = Linked /\ Joined' = Joined
  BY <1>0 DEF Linked, Joined
<1>9. Sorted' /\ Distinct' /\ Ordered'
  BY <1>0, <1>4, <1>5, <1>6, KeepsOrder
<1>10. NextOrder' /\ PrevOrder' /\ Unlinked'
  BY <1>0, <1>6, <1>8, KeepsLinks
<1>11. NonEmpty'
  <2> SUFFICES ASSUME NEW c \in 2 .. used PROVE count[c] > 0 /\ entries'[c][0] \in Entries
    BY <1>0 DEF NonEmpty
  <2>1. c \in 1 .. used /\ c # HeadBlock
    BY Facts DEF HeadBlock
  <2>2. entries'[c][0] = entries[c][0]
    BY <1>6, <2>1 DEF low
  <2> QED BY <2>2 DEF TableInv, NonEmpty
<1>12. TrieLinked' /\ Parity'
  BY <1>0, <1>2, <1>8, <1>a DEF TableInv, TrieLinked, Parity, Modifying, Splitting
<1>13. Contents'
  BY <1>0, <1>4, <1>5 DEF TableInv, Contents
<1>14. Inserting'
  <2>1. /\ ins.e \in Entries /\ b < used /\ low(b) < low(used)
        /\ \A c \in 1 .. used : low(c) <= low(b) \/ low(used) <= low(c)
    BY <1>0, <1>1, <1>a DEF TableInv, Inserting, Splitting
  <2>2. used \in 1 .. used
    BY Facts
  <2>3. low(b)' < low(used)' /\ \A c \in 1 .. used : low(c)' <= low(b)' \/ low(used)' <= low(c)'
    BY <1>0, <1>1, <1>6, <2>1, <2>2
  <2> QED BY <1>0, <1>1, <1>2, <2>1, <2>3 DEF Inserting, Splitting
<1>15. QED
  BY <1>7, <1>9, <1>10, <1>11, <1>12, <1>13, <1>14 DEF TableInv

(* The block after the one being split begins after the new one. *)
LEMMA AfterSplit ==
  ASSUME TableInv, wpc \in {"linkback", "link"}
  PROVE  LET old == next[ins.b] IN
         /\ Linked = 1 .. used - 1 /\ ins.b \in Linked
         /\ old # Null => old \in Linked /\ old # HeadBlock /\ low(used) < low(old)
         /\ \A d \in Linked : IF old = Null THEN low(d) <= low(ins.b)
                                            ELSE low(d) <= low(ins.b) \/ low(old) <= low(d)
<1> DEFINE old == next[ins.b]
<1>1. /\ ins.b \in 1 .. used - 1 /\ low(ins.b) < low(used) /\ 1 .. used = 1 .. used - 1 \cup {used}
      /\ \A c \in 1 .. used : /\ low(c) \in Nat
                              /\ low(c) <= low(ins.b) \/ low(used) <= low(c)
                              /\ low(c) = low(used) => c = used
  BY SplitFacts DEF Splitting
<1>2. Linked = 1 .. used - 1 /\ ins.b \in Linked
  BY <1>1 DEF Linked
<1>3. \A d \in Linked : IF old = Null THEN low(d) <= low(ins.b)
                                      ELSE low(d) <= low(ins.b) \/ low(old) <= low(d)
  BY <1>2 DEF TableInv, NextOrder
<1>4. ASSUME old # Null PROVE old \in Linked /\ old # HeadBlock /\ low(used) < low(old)
  <2>1. old \in Linked /\ low(ins.b) < low(old)
    BY <1>2, <1>4 DEF TableInv, NextOrder
  <2>2. low(old) \in Nat /\ low(ins.b) \in Nat /\ low(used) \in Nat /\ old # used
        /\ old \in 1 .. used /\ used \in Nat
    BY <1>1, <1>2, <2>1, Facts
  <2>3. low(used) <= low(old) /\ low(used) # low(old)
    BY <1>1, <2>1, <2>2
  <2>4. old # HeadBlock
    BY <2>1, <2>2 DEF low
  <2> QED BY <2>1, <2>2, <2>3, <2>4
<1>5. QED
  BY <1>2, <1>3, <1>4

LEMMA SplitLinkBackKeeps ==
  ASSUME TableInv, SplitLinkBack PROVE TableInv'
<1>a. PICK b, new, old : b = ins.b /\ new = used /\ old = next[ins.b]
  OBVIOUS
<1> USE DEF blocks, chain, reader
<1>1. /\ wpc = "linkback" /\ b \in 1 .. used - 1 /\ b \in Blocks /\ ins.new = new /\ new \in Blocks /\ b # new
      /\ new # HeadBlock /\ low(b) < low(new) /\ 1 .. used = 1 .. used - 1 \cup {new}
      /\ \A c \in 1 .. used : /\ low(c) \in Nat
                              /\ low(c) <= low(b) \/ low(new) <= low(c)
                              /\ low(c) = low(new) => c = new
  <2>1. wpc = "linkback"
    BY DEF SplitLinkBack
  <2> QED BY <1>a, <2>1, SplitFacts DEF Splitting
<1>0. /\ wpc' = "link" /\ ins' = ins
      /\ next' = [next EXCEPT ![new] = old]
      /\ prev' = [c \in Blocks |-> IF c = new THEN b ELSE IF c = old THEN new ELSE prev[c]]
      /\ tail' = IF old = Null THEN new ELSE tail
      /\ UNCHANGED <<scope, cap, version, count, entries, used, trie, visible>>
  BY <1>1, <1>a DEF SplitLinkBack, BackLinks, Goto
<1>2. /\ Linked = 1 .. used - 1 /\ Linked' = Linked /\ Joined = Linked /\ Joined' = 1 .. used
      /\ Joined' = Linked \cup {new} /\ 1 .. used \subseteq Blocks /\ used \in Nat
  <2>1. Linked = 1 .. used - 1 /\ Linked' = Linked /\ Joined = Linked /\ Joined' = 1 .. used
    BY <1>0, <1>1 DEF Linked, Joined
  <2> QED BY <1>1, <2>1, Facts
<1>3. /\ b \in Linked
      /\ old # Null => old \in Linked /\ old # HeadBlock /\ low(new) < low(old)
      /\ \A d \in Linked : IF old = Null THEN low(d) <= low(b) ELSE low(d) <= low(b) \/ low(old) <= low(d)
  BY <1>1, <1>a, AfterSplit
<1>4. \A c : low(c)' = low(c) /\ Owned(c)' = Owned(c)
  BY <1>0, <1>1 DEF low, Owned
<1>5. new \notin Linked /\ new \in Nat /\ used = new /\ HeadBlock \in Linked
  BY <1>1, <1>2, <1>a DEF HeadBlock
<1>6. TableTypes'
  <2>1. old \in Blocks \cup {Null}
    BY <1>2, <1>3
  <2> QED BY <1>0, <1>1, <2>1 DEF TableInv, TableTypes, WriterSteps
<1>7. Sorted' /\ Distinct' /\ Ordered'
  BY <1>0, <1>4, KeepsOrder
<1>8. NextOrder'
  <2>1. \A c \in Linked : next'[c] = next[c]
    BY <1>0, <1>2, <1>5 DEF TableInv, TableTypes
  <2> QED BY <1>2, <1>4, <2>1 DEF TableInv, NextOrder
<1>9. PrevOrder'
  <2> DEFINE Follows(c, p) == /\ p \in Joined' /\ low(p) < low(c)
                              /\ \A d \in Joined' : low(d) <= low(p) \/ low(c) <= low(d)
  <2>1. prev'[HeadBlock] = Null
    BY <1>0, <1>1, <1>2, <1>3, <1>5 DEF TableInv, PrevOrder, Null
  <2>2. tail' \in Joined' /\ \A c \in Joined' : low(c) <= low(tail')
    <3>1. CASE old = Null
      <4>1. ASSUME NEW c \in Joined' PROVE low(c) <= low(new)
        <5>1. low(c) \in Nat /\ low(b) \in Nat /\ low(new) \in Nat /\ low(b) < low(new)
          BY <1>1, <1>2, <1>3, <4>1
        <5>2. c = new \/ low(c) <= low(b)
          BY <1>2, <1>3, <3>1, <4>1
        <5> QED BY <5>1, <5>2
      <4> QED BY <1>0, <1>2, <3>1, <4>1
    <3>2. CASE old # Null
      <4>1. tail \in Linked /\ \A c \in Linked : low(c) <= low(tail)
        BY <1>2 DEF TableInv, PrevOrder
      <4>2. low(new) <= low(tail)
        <5>1. low(old) <= low(tail) /\ low(new) < low(old) /\ old \in 1 .. used /\ tail \in 1 .. used /\ new \in 1 .. used
          BY <1>1, <1>2, <1>3, <3>2, <4>1
        <5> QED BY <1>1, <5>1
      <4> QED BY <1>0, <1>2, <3>2, <4>1, <4>2
    <3> QED BY <3>1, <3>2
  <2>3. ASSUME NEW c \in Joined', c # HeadBlock PROVE Follows(c, prev'[c])
    <3>0. c \in Blocks /\ prev'[c] = IF c = new THEN b ELSE IF c = old THEN new ELSE prev[c]
      BY <1>0, <1>2
    <3>1. CASE c = new
      BY <1>1, <1>2, <1>3, <3>0, <3>1
    <3>2. CASE c # new /\ c = old
      <4>1. old # Null
        BY <1>2, <3>2, <2>3 DEF Null
      <4>2. prev'[c] = new /\ new \in Joined' /\ low(new) < low(c)
        BY <1>2, <1>3, <3>0, <3>2, <4>1
      <4>3. ASSUME NEW d \in Joined' PROVE low(d) <= low(new) \/ low(c) <= low(d)
        <5>1. CASE d = new
          BY <1>1, <1>2, <5>1
        <5>2. CASE d \in Linked
          <6>1. low(d) <= low(b) \/ low(c) <= low(d)
            BY <1>3, <3>2, <4>1, <5>2
          <6>2. low(d) \in Nat /\ low(b) \in Nat /\ low(new) \in Nat
            BY <1>1, <1>2, <1>3, <5>2
          <6> QED BY <1>1, <6>1, <6>2
        <5> QED BY <1>2, <5>1, <5>2
      <4> QED BY <4>2, <4>3
    <3>3. CASE c # new /\ c # old
      <4>1. c \in Linked /\ prev'[c] = prev[c]
        BY <1>2, <3>0, <3>3
      <4>2. /\ prev[c] \in Linked /\ low(prev[c]) < low(c)
            /\ \A d \in Linked : low(d) <= low(prev[c]) \/ low(c) <= low(d)
        BY <1>2, <2>3, <4>1 DEF TableInv, PrevOrder
      <4>3. low(new) <= low(prev[c]) \/ low(c) <= low(new)
        <5> SUFFICES ASSUME ~ (low(new) <= low(prev[c])), ~ (low(c) <= low(new)) PROVE FALSE
          OBVIOUS
        <5>1. /\ low(prev[c]) \in Nat /\ low(c) \in Nat /\ low(new) \in Nat /\ low(b) \in Nat
              /\ prev[c] \in 1 .. used /\ c \in 1 .. used
          BY <1>1, <1>2, <1>3, <4>1, <4>2
        <5>2. low(prev[c]) <= low(b)
          BY <1>1, <5>1
        <5>3. low(b) <= low(prev[c])
          BY <1>1, <1>3, <4>2, <5>1
        <5>4. low(prev[c]) = low(b)
          BY <5>1, <5>2, <5>3
        <5>5. old # Null /\ low(old) <= low(c)
          BY <1>3, <4>1, <4>2, <5>1, <5>4
        <5>6. old \in Linked /\ low(old) \in Nat /\ low(new) < low(old) /\ old \in 1 .. used
          BY <1>1, <1>2, <1>3, <5>5
        <5>7. low(c) <= low(old)
          BY <1>1, <4>2, <5>1, <5>4, <5>6
        <5>8. low(c) = low(old)
          BY <5>1, <5>5, <5>6, <5>7
        <5> QED BY <3>3, <5>1, <5>6, <5>8 DEF TableInv, Distinct
      <4> QED BY <1>2, <4>1, <4>2, <4>3
    <3> QED BY <3>1, <3>2, <3>3
  <2>4. \A p : low(p)' = low(p)
    BY <1>4
  <2> QED BY <1>4, <2>1, <2>2, <2>3 DEF PrevOrder
<1>10. Unlinked'
  <2> SUFFICES ASSUME NEW c \in Blocks, c > used PROVE prev'[c] = Null /\ next'[c] = Null
    BY <1>0 DEF Unlinked
  <2>1. c # new /\ c # old
    BY <1>2, <1>3, <1>5 DEF Null
  <2>2. prev[c] = Null /\ next[c] = Null
    BY DEF TableInv, Unlinked
  <2> QED BY <1>0, <2>1, <2>2 DEF TableInv, TableTypes
<1>11. NonEmpty' /\ TrieLinked' /\ Parity'
  BY <1>0, <1>1, <1>2 DEF TableInv, NonEmpty, TrieLinked, Parity, Modifying, Splitting
<1>12. Contents'
  BY <1>0, <1>1, <1>4 DEF TableInv, Contents
<1>13. Inserting'
  <2>1. /\ ins.e \in Entries /\ b < new /\ b \in 1 .. used
    BY <1>1, <1>a DEF TableInv, Inserting, Splitting
  <2>2. next'[new] = old /\ next'[b] = old
    BY <1>0, <1>1, <1>a DEF TableInv, TableTypes
  <2> QED BY <1>0, <1>1, <1>4, <1>5, <1>a, <2>1, <2>2 DEF Inserting, Splitting
<1>14. QED
  BY <1>6, <1>7, <1>8, <1>9, <1>10, <1>11, <1>12, <1>13 DEF TableInv

LEMMA SplitLinkKeeps ==
  ASSUME TableInv, SplitLink PROVE TableInv'
<1>a. PICK b, new, old : b = ins.b /\ new = used /\ old = next[ins.b]
  OBVIOUS
<1> USE DEF blocks, chain, reader
<1>1. /\ wpc = "link" /\ b \in 1 .. used - 1 /\ b \in Blocks /\ ins.new = new /\ new \in Blocks /\ b # new
      /\ new # HeadBlock /\ low(b) < low(new) /\ 1 .. used = 1 .. used - 1 \cup {new}
      /\ \A c \in 1 .. used : /\ low(c) \in Nat
                              /\ low(c) <= low(b) \/ low(new) <= low(c)
                              /\ low(c) = low(new) => c = new
  <2>1. wpc = "link"
    BY DEF SplitLink
  <2> QED BY <1>a, <2>1, SplitFacts DEF Splitting
<1>0. /\ wpc' = "splitmap" /\ ins' = ins /\ next' = [next EXCEPT ![b] = new]
      /\ UNCHANGED <<scope, cap, version, count, entries, prev, tail, used, trie, visible>>
  BY <1>1, <1>a DEF SplitLink, Goto
<1>2. /\ Linked = 1 .. used - 1 /\ Linked' = 1 .. used /\ Joined = 1 .. used /\ Joined' = Joined
      /\ Linked' = Linked \cup {new} /\ 1 .. used \subseteq Blocks /\ used \in Nat /\ new \notin Linked
  <2>1. Linked = 1 .. used - 1 /\ Linked' = 1 .. used /\ Joined = 1 .. used /\ Joined' = Joined
    BY <1>0, <1>1 DEF Linked, Joined
  <2> QED BY <1>1, <1>a, <2>1, Facts
<1>3. /\ b \in Linked
      /\ old # Null => old \in Linked /\ old # HeadBlock /\ low(new) < low(old)
      /\ \A d \in Linked : IF old = Null THEN low(d) <= low(b) ELSE low(d) <= low(b) \/ low(old) <= low(d)
  BY <1>1, <1>a, AfterSplit
<1>4. \A c : low(c)' = low(c) /\ Owned(c)' = Owned(c)
  BY <1>0, <1>1 DEF low, Owned
<1>5. TableTypes'
  BY <1>0, <1>1 DEF TableInv, TableTypes, WriterSteps
<1>6. Sorted' /\ Distinct' /\ Ordered'
  BY <1>0, <1>4, KeepsOrder
<1>7. next[new] = old /\ \A c \in Blocks : next'[c] = IF c = b THEN new ELSE next[c]
  <2>1. next[new] = old
    BY <1>1, <1>a DEF TableInv, Inserting
  <2> QED BY <1>0, <1>1, <2>1 DEF TableInv, TableTypes
<1>8. NextOrder'
  <2> SUFFICES ASSUME NEW c \in Linked'
               PROVE  IF next'[c] = Null THEN \A d \in Linked' : low(d) <= low(c)
                      ELSE /\ next'[c] \in Linked' /\ low(c) < low(next'[c])
                           /\ \A d \in Linked' : low(d) <= low(c) \/ low(next'[c]) <= low(d)
    <3>1. \A p : low(p)' = low(p)
      BY <1>4
    <3> QED BY <3>1, <1>4 DEF NextOrder
  <2>1. CASE c = b
    <3>1. next'[c] = new /\ new # Null
      BY <1>1, <1>2, <1>7, <2>1 DEF Null, Blocks
    <3> QED BY <1>1, <1>2, <2>1, <3>1
  <2>2. CASE c = new
    <3>1. next'[c] = old
      BY <1>1, <1>7, <2>2
    <3>2. CASE old = Null
      BY <1>1, <1>2, <1>3, <2>2, <3>1, <3>2
    <3>3. CASE old # Null
      <4>1. ASSUME NEW d \in Linked' PROVE low(d) <= low(new) \/ low(old) <= low(d)
        <5>1. CASE d = new
          BY <1>1, <1>2, <5>1
        <5>2. CASE d \in Linked
          <6>1. low(d) <= low(b) \/ low(old) <= low(d)
            BY <1>3, <3>3, <5>2
          <6>2. low(d) \in Nat /\ low(b) \in Nat /\ low(new) \in Nat
            BY <1>1, <1>2, <1>3, <5>2
          <6> QED BY <1>1, <6>1, <6>2
        <5> QED BY <1>2, <5>1, <5>2
      <4> QED BY <1>2, <1>3, <2>2, <3>1, <3>3, <4>1
    <3> QED BY <3>2, <3>3
  <2>3. CASE c # b /\ c # new
    <3>1. c \in Linked /\ next'[c] = next[c] /\ c \in 1 .. used /\ low(c) \in Nat /\ low(b) \in Nat /\ low(new) \in Nat
      BY <1>1, <1>2, <1>3, <1>7, <2>3
    <3>2. low(c) # low(b)
      BY <1>2, <1>3, <2>3, <3>1 DEF TableInv, Distinct
    <3>3. CASE next[c] = Null
      <4>1. \A d \in Linked : low(d) <= low(c)
        BY <3>1, <3>3 DEF TableInv, NextOrder
      <4>2. low(new) <= low(c)
        BY <1>1, <1>3, <3>1, <3>2, <4>1
      <4> QED BY <1>2, <3>1, <3>3, <4>1, <4>2
    <3>4. CASE next[c] # Null
      <4>1. /\ next[c] \in Linked /\ low(c) < low(next[c])
            /\ \A d \in Linked : low(d) <= low(c) \/ low(next[c]) <= low(d)
        BY <3>1, <3>4 DEF TableInv, NextOrder
      <4>2. low(next[c]) \in Nat
        BY <1>1, <1>2, <4>1
      <4>3. low(new) <= low(c) \/ low(next[c]) <= low(new)
        <5>1. low(b) <= low(c) \/ low(next[c]) <= low(b)
          BY <1>3, <4>1
        <5>2. low(c) <= low(b) \/ low(new) <= low(c)
          BY <1>1, <3>1
        <5> QED BY <1>1, <3>1, <3>2, <4>2, <5>1, <5>2
      <4> QED BY <1>2, <3>1, <3>4, <4>1, <4>3
    <3> QED BY <3>3, <3>4
  <2> QED BY <2>1, <2>2, <2>3
<1>9. PrevOrder'
  <2>1. \A p : low(p)' = low(p)
    BY <1>4
  <2>2. /\ prev'[HeadBlock] = Null /\ tail' \in Joined' /\ \A c \in Joined' : low(c) <= low(tail)
    BY <1>0, <1>2 DEF TableInv, PrevOrder
  <2>3. \A c \in Joined' \ {HeadBlock} : prev'[c] \in Joined' /\ low(prev[c]) < low(c)
       /\ \A d \in Joined' : low(d) <= low(prev[c]) \/ low(c) <= low(d)
    BY <1>0, <1>2 DEF TableInv, PrevOrder
  <2> QED BY <1>0, <1>4, <2>2, <2>3 DEF PrevOrder
<1>10. Unlinked'
  <2> SUFFICES ASSUME NEW c \in Blocks, c > used PROVE prev'[c] = Null /\ next'[c] = Null
    BY <1>0 DEF Unlinked
  <2>1. c # b
    BY <1>1, <1>2
  <2> QED BY <1>0, <1>7, <2>1 DEF TableInv, Unlinked
<1>11. NonEmpty' /\ TrieLinked' /\ Parity'
  BY <1>0, <1>1, <1>2 DEF TableInv, NonEmpty, TrieLinked, Parity, Modifying, Splitting
<1>12. Contents'
  BY <1>0, <1>1, <1>4 DEF TableInv, Contents
<1>13. Inserting'
  <2>1. /\ ins.e \in Entries /\ b < new /\ b \in 1 .. used
    BY <1>1, <1>a DEF TableInv, Inserting, Splitting
  <2> QED BY <1>0, <1>1, <1>4, <1>a, <2>1 DEF Inserting, Splitting
<1>14. QED
  BY <1>5, <1>6, <1>8, <1>9, <1>10, <1>11, <1>12, <1>13 DEF TableInv

LEMMA SplitMapKeeps ==
  ASSUME TableInv, SplitMap PROVE TableInv'
<1>a. PICK b, new : b = ins.b /\ new = used
  OBVIOUS
<1> USE DEF blocks, chain, reader
<1>1. /\ wpc = "splitmap" /\ b \in 1 .. used - 1 /\ ins.new = new /\ new \in Blocks /\ new \in 1 .. used
      /\ count[new] > 0 /\ low(b) < low(new) /\ b < used /\ b \in 1 .. used
      /\ \A c \in 1 .. used : low(c) <= low(b) \/ low(new) <= low(c)
  <2>1. wpc = "splitmap"
    BY DEF SplitMap
  <2>2. Splitting /\ used \in Nat
    BY <2>1, Facts DEF Splitting
  <2> QED BY <1>a, <2>1, <2>2, SplitFacts
<1>0. /\ wpc' = "splitclose" /\ ins' = ins
      /\ trie' = [trie EXCEPT ![PrefixOf[min_key(new)]] = new]
      /\ UNCHANGED <<scope, cap, version, count, entries, prev, next, tail, used, visible>>
  BY <1>1, <1>a DEF SplitMap, Goto
<1>2. TableTypes'
  <2>1. trie' \in [Prefixes -> Blocks \cup {Null}]
    BY <1>0, <1>1 DEF TableInv, TableTypes
  <2> QED BY <1>0, <2>1 DEF TableInv, TableTypes, WriterSteps
<1>3. /\ Linked' = Linked /\ Joined' = Joined /\ Linked = 1 .. used
      /\ \A c : low(c)' = low(c) /\ Owned(c)' = Owned(c)
  BY <1>0, <1>1 DEF Linked, Joined, low, Owned
<1>4. Sorted' /\ Distinct' /\ Ordered'
  BY <1>0, <1>3, KeepsOrder
<1>5. NextOrder' /\ PrevOrder' /\ Unlinked'
  BY <1>0, <1>3, KeepsLinks
<1>6. NonEmpty' /\ Parity'
  BY <1>0, <1>1 DEF TableInv, NonEmpty, Parity, Modifying, Splitting
<1>7. TrieLinked'
  BY <1>0, <1>1, <1>3 DEF TableInv, TableTypes, TrieLinked
<1>8. Contents'
  BY <1>0, <1>1, <1>3 DEF TableInv, Contents
<1>9. Inserting'
  <2>1. ins.e \in Entries
    BY <1>1 DEF TableInv, Inserting
  <2> QED BY <1>0, <1>1, <1>3, <1>a, <2>1 DEF Inserting, Splitting
<1>10. QED
  BY <1>2, <1>4, <1>5, <1>6, <1>7, <1>8, <1>9 DEF TableInv

LEMMA SplitCloseKeeps ==
  ASSUME TableInv, SplitClose PROVE TableInv'
<1> USE DEF blocks, chain, reader
<1>0. /\ wpc = "splitclose" /\ wpc' = "idle" /\ ins' = NoInsert /\ Bump(ins.b)
      /\ UNCHANGED <<scope, cap, count, entries, prev, next, tail, used, trie, visible>>
  BY DEF SplitClose, Goto
<1>1. Parity' /\ version' \in [Blocks -> Nat]
  BY <1>0, BumpParity DEF Modifying, Splitting
<1>2. TableTypes'
  BY <1>0, <1>1, NoInsertTyped DEF TableInv, TableTypes, WriterSteps
<1>3. /\ Linked' = Linked /\ Joined' = Joined
      /\ \A c : low(c)' = low(c) /\ Owned(c)' = Owned(c)
  BY <1>0 DEF Linked, Joined, low, Owned
<1>4. Sorted' /\ Distinct' /\ Ordered'
  BY <1>0, <1>3, KeepsOrder
<1>5. NextOrder' /\ PrevOrder' /\ Unlinked'
  BY <1>0, <1>3, KeepsLinks
<1>6. NonEmpty' /\ TrieLinked'
  BY <1>0, <1>3 DEF TableInv, NonEmpty, TrieLinked
<1>7. Contents'
  BY <1>0, <1>3 DEF TableInv, Contents
<1>8. Inserting'
  BY <1>0 DEF Inserting, Splitting
<1>9. QED
  BY <1>1, <1>2, <1>4, <1>5, <1>6, <1>7, <1>8 DEF TableInv

LEMMA TableNext ==
  ASSUME TableInv, [Next]_vars PROVE TableInv'
<1>1. CASE UNCHANGED vars
  BY <1>1, TableStutters DEF vars
<1>2. CASE \E r \in Readers : Call(r)
  BY <1>2, ReadersLookOnly, TableStutters
<1>3. CASE \E e \in Entries : InsertBegin(e)
  BY <1>3, InsertBeginKeeps
<1>4. CASE InsertOpen \/ InsertShift \/ InsertStore \/ InsertCount
  BY <1>4, InsertOpenKeeps, InsertShiftKeeps, InsertStoreKeeps, InsertCountKeeps
<1>5. CASE InsertClose \/ InsertMap
  BY <1>5, InsertCloseKeeps, InsertMapKeeps
<1>6. CASE SplitOpen \/ SplitCount \/ SplitNull
  BY <1>6, SplitOpenKeeps, SplitCountKeeps, SplitNullKeeps
<1>7. CASE SplitLinkBack \/ SplitLink \/ SplitMap \/ SplitClose
  BY <1>7, SplitLinkBackKeeps, SplitLinkKeeps, SplitMapKeeps, SplitCloseKeeps
<1>8. QED
  BY <1>1, <1>2, <1>3, <1>4, <1>5, <1>6, <1>7 DEF Next, Write

(* Every state of the memtable satisfies the invariant. *)
THEOREM TableInvariant == Spec => []TableInv
<1>1. Init => TableInv
  BY TableInit
<1>2. TableInv /\ [Next]_vars => TableInv'
  BY TableNext
<1>3. QED
  BY <1>1, <1>2, PTL DEF Spec

------------------------------------------------------------------------------
(* What the invariant is for. *)

(* A block that is not allocated yet is empty. *)
Unused == \A b \in Blocks : b > used => count[b] = 0

LEMMA UnusedNext ==
  ASSUME TableInv, Unused, [Next]_vars PROVE Unused'
<1> USE DEF blocks, chain, reader, table, writer
<1>0. /\ used \in Nat /\ count \in [Blocks -> Slots]
      /\ wpc # "idle" => ins.b \in 1 .. used
  BY Facts DEF TableInv, TableTypes, Inserting
<1>1. CASE UNCHANGED <<count, used>>
  BY <1>1 DEF Unused
<1>2. CASE InsertCount \/ SplitCount
  <2>1. /\ used' = used /\ ins.b \in 1 .. used
        /\ \A c \in Blocks : c # ins.b => count'[c] = count[c]
    BY <1>0, <1>2 DEF InsertCount, SplitCount, SetCount
  <2> QED BY <1>0, <2>1 DEF Unused
<1>3. CASE SplitOpen
  <2>1. used' = used + 1 /\ \A c \in Blocks : c # used + 1 => count'[c] = count[c]
    BY <1>0, <1>3 DEF SplitOpen, SetCount
  <2> QED BY <1>0, <2>1, Sizes DEF Unused, Blocks
<1>4. CASE \E e \in Entries : InsertBegin(e)
  BY <1>1, <1>4 DEF InsertBegin
<1>5. CASE InsertOpen \/ InsertShift \/ InsertStore \/ InsertClose \/ InsertMap
  BY <1>1, <1>5 DEF InsertOpen, InsertShift, InsertStore, InsertClose, InsertMap
<1>6. CASE SplitNull \/ SplitLinkBack \/ SplitLink \/ SplitMap \/ SplitClose
  BY <1>1, <1>6 DEF SplitNull, SplitLinkBack, SplitLink, SplitMap, SplitClose
<1>7. CASE (\E r \in Readers : Call(r)) \/ UNCHANGED vars
  BY <1>1, <1>7, ReadersLookOnly DEF vars
<1>8. QED
  BY <1>2, <1>3, <1>4, <1>5, <1>6, <1>7 DEF Next, Write

LEMMA UnusedAlways == Spec => []Unused
<1>1. Init => Unused
  BY DEF Init, Unused
<1>2. TableInv /\ Unused /\ [Next]_vars => Unused'
  BY UnusedNext
<1>3. QED
  BY <1>1, <1>2, TableInvariant, PTL DEF Spec

(* The stores into a block's first slot: an insert's, when the entry comes before
   all the head's, and those of a split into a block it has just allocated. *)
LEMMA FirstKeyFalls ==
  ASSUME TableInv, Unused, [Next]_vars, NEW b \in Blocks, min_key(b) # Null
  PROVE  min_key(b)' <= min_key(b)
<1> USE DEF blocks, chain, reader, table, writer
<1>0. /\ count[b] > 0 /\ min_key(b) = entries[b][0] /\ min_key(b) \in Nat
      /\ b \in 1 .. used /\ used \in Nat /\ count[b] \in Nat
      /\ count \in [Blocks -> Slots] /\ entries \in [Blocks -> [Slots -> Entries \cup {Null}]]
      /\ 0 \in Slots /\ 1 \in Slots
  <2>1. count[b] > 0 /\ min_key(b) = entries[b][0]
    BY DEF min_key
  <2>2. /\ used \in Nat /\ Cardinality(Entries) \in Nat /\ used <= Cardinality(Entries) + 1
        /\ count \in [Blocks -> Slots] /\ entries \in [Blocks -> [Slots -> Entries \cup {Null}]]
    BY Facts DEF TableInv, TableTypes
  <2>3. count[b] \in Slots /\ count[b] \in Nat
    BY <2>2 DEF Slots
  <2>4. 0 \in Slots /\ 1 \in Slots
    BY <2>1, <2>2, <2>3 DEF Slots
  <2>5. entries[b][0] \in Nat
    BY <2>2, <2>4, Sizes DEF Null
  <2>6. b \in 1 .. used
    BY <2>1, <2>2 DEF Unused, Blocks
  <2> QED BY <2>1, <2>2, <2>3, <2>4, <2>5, <2>6
<1>1. CASE entries'[b][0] = entries[b][0]
  BY <1>0, <1>1 DEF min_key, Null
<1>2. CASE InsertShift
  <2>1. ins.i # 0 /\ ins.i \in Slots
    BY <1>2, WriterFacts DEF InsertShift
  <2>2. entries'[b][0] = entries[b][0]
    BY <1>0, <1>2, <2>1 DEF InsertShift, Store
  <2> QED BY <1>1, <2>2
<1>3. CASE InsertStore
  <2>1. /\ wpc = "shift" /\ ins.i = ins.left /\ ins.left \in Slots /\ ins.e \in Nat /\ ins.b \in Blocks
        /\ entries' = [entries EXCEPT ![ins.b][ins.left] = ins.e]
    BY <1>3, WriterFacts DEF InsertStore, Store
  <2>2. CASE ins.b = b /\ ins.left = 0
    <3>1. entries'[b][0] = ins.e
      BY <1>0, <2>1, <2>2
    <3>2. entries[b][0] = entries[b][1]
      BY <1>0, <2>1, <2>2 DEF TableInv, Inserting
    <3>3. 1 \in Owned(b)
      BY <1>0, <2>1, <2>2 DEF Owned
    <3>4. ins.e < entries[b][1]
      BY <2>1, <2>2, <3>3 DEF TableInv, Inserting
    <3> QED BY <1>0, <2>1, <3>1, <3>2, <3>4 DEF min_key, Null
  <2>3. CASE ~ (ins.b = b /\ ins.left = 0)
    BY <1>0, <1>1, <2>1, <2>3
  <2> QED BY <2>2, <2>3
<1>4. CASE SplitOpen
  BY <1>0, <1>1, <1>4 DEF SplitOpen
<1>5. CASE SplitNull
  <2>1. /\ ins.b = b => ins.i # 0
        /\ entries' = [entries EXCEPT ![ins.b][ins.i] = Null]
    BY <1>0, <1>5 DEF SplitNull, Store, TableInv, Inserting
  <2> QED BY <1>0, <1>1, <2>1
<1>6. CASE \E e \in Entries : InsertBegin(e)
  BY <1>1, <1>6 DEF InsertBegin
<1>7. CASE InsertOpen \/ InsertCount \/ InsertClose \/ InsertMap
  BY <1>1, <1>7 DEF InsertOpen, InsertCount, InsertClose, InsertMap
<1>8. CASE SplitCount \/ SplitLinkBack \/ SplitLink \/ SplitMap \/ SplitClose
  BY <1>1, <1>8 DEF SplitCount, SplitLinkBack, SplitLink, SplitMap, SplitClose
<1>9. CASE (\E r \in Readers : Call(r)) \/ UNCHANGED vars
  BY <1>1, <1>9, ReadersLookOnly DEF vars
<1>10. QED
  BY <1>2, <1>3, <1>4, <1>5, <1>6, <1>7, <1>8, <1>9 DEF Next, Write

(* A block's first key never becomes greater: what SettleSeekCandidate, which reads
   it without the mutex, relies on when it settles on a block. *)
THEOREM FirstKeysOnlyFall == Spec => MinNeverRises
<1>1. TableInv /\ Unused /\ [Next]_vars
      => [\A b \in Blocks : min_key(b) # Null => min_key(b)' <= min_key(b)]_vars
  BY FirstKeyFalls
<1>2. QED
  BY <1>1, TableInvariant, UnusedAlways, PTL DEF Spec, MinNeverRises
==============================================================================
