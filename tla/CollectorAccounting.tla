------------------------- MODULE CollectorAccounting -------------------------
(***************************************************************************)
(* Proofs about the byte counters and the budget of Collector, from the    *)
(* invariant of CollectorProofs.                                           *)
(***************************************************************************)
EXTENDS CollectorProofs, FiniteSetTheorems

------------------------------------------------------------------------------
(* Sizes of sets of blocks. *)

\* The bytes of a set of blocks are finitely many.
LEMMA BytesFinite == ASSUME NEW S \in SUBSET Blocks PROVE IsFiniteSet(BytesOf(S))
<1>1. IsFiniteSet(S)
  BY CollectorAssumption, FS_Subset
<1> DEFINE One(b) == {b} \X (1 .. Bytes[b])
           f == [b \in S |-> One(b)]
           R == {One(b) : b \in S}
<1>2. f \in Surjection(S, R)
  BY DEF Surjection
<1>3. IsFiniteSet(R)
  BY <1>1, <1>2, FS_Surjection
<1>4. ASSUME NEW b \in S PROVE IsFiniteSet(One(b))
  <2>1. Bytes[b] \in Int /\ 1 \in Int
    BY CollectorAssumption
  <2> QED BY <2>1, FS_Interval, FS_Singleton, FS_Product
<1>5. \A T \in R : IsFiniteSet(T)
  BY <1>4
<1>6. IsFiniteSet(UNION R)
  BY <1>3, <1>5, FS_UNION
<1> QED BY <1>6 DEF BytesOf

\* A size is a natural number, and that of the empty set is zero.
LEMMA SumType == ASSUME NEW S \in SUBSET Blocks PROVE SumBytes(S) \in Nat
  BY BytesFinite, FS_CardinalityType DEF SumBytes

LEMMA SumEmpty == SumBytes({}) = 0
<1>1. BytesOf({}) = {}
  BY DEF BytesOf
<1> QED BY <1>1, FS_EmptySet DEF SumBytes

\* The size of one block is its bytes.
LEMMA SumOne == ASSUME NEW b \in Blocks PROVE SumBytes({b}) = Bytes[b]
<1>1. BytesOf({b}) = {b} \X (1 .. Bytes[b])
  BY DEF BytesOf
<1>2. Bytes[b] \in Nat \ {0}
  BY CollectorAssumption
<1> DEFINE n == Bytes[b]
<1>3. IsFiniteSet(1 .. n) /\ Cardinality(1 .. n) = n
  <2>1. n \in Nat \ {0} /\ n \in Int /\ 1 \in Int
    BY <1>2
  <2> HIDE DEF n
  <2>2. /\ IsFiniteSet(1 .. n)
        /\ Cardinality(1 .. n) = IF 1 > n THEN 0 ELSE n - 1 + 1
    BY <2>1, FS_Interval
  <2> QED BY <2>1, <2>2
<1>4. IsFiniteSet({b}) /\ Cardinality({b}) = 1
  BY FS_Singleton
<1>5. Cardinality({b} \X (1 .. Bytes[b])) = 1 * Bytes[b]
  <2>1. Cardinality({b} \X (1 .. n)) = Cardinality({b}) * Cardinality(1 .. n)
    BY <1>3, <1>4, FS_Product, Zenon
  <2> QED BY <1>3, <1>4, <2>1, Zenon
<1>6. SumBytes({b}) = 1 * Bytes[b]
  BY <1>1, <1>5, Zenon DEF SumBytes
<1> QED BY <1>2, <1>6

\* Sizes of disjoint sets add up.
LEMMA SumAdd ==
  ASSUME NEW S \in SUBSET Blocks, NEW T \in SUBSET Blocks, S \cap T = {}
  PROVE  SumBytes(S \cup T) = SumBytes(S) + SumBytes(T)
<1>1. IsFiniteSet(BytesOf(S)) /\ IsFiniteSet(BytesOf(T))
  BY BytesFinite
<1>2. BytesOf(S \cup T) = BytesOf(S) \cup BytesOf(T)
  BY DEF BytesOf
<1>3. BytesOf(S) \cap BytesOf(T) = {}
  BY DEF BytesOf
<1>4. Cardinality(BytesOf(S) \cap BytesOf(T)) = 0
  BY <1>3, FS_EmptySet
<1>5. Cardinality(BytesOf(S)) \in Nat /\ Cardinality(BytesOf(T)) \in Nat
  BY <1>1, FS_CardinalityType
<1>6. SumBytes(S \cup T) = Cardinality(BytesOf(S) \cup BytesOf(T))
  BY <1>2, Zenon DEF SumBytes
<1>7. Cardinality(BytesOf(S) \cup BytesOf(T))
        = Cardinality(BytesOf(S)) + Cardinality(BytesOf(T)) - Cardinality(BytesOf(S) \cap BytesOf(T))
  BY <1>1, FS_Union
<1> QED BY <1>4, <1>5, <1>6, <1>7 DEF SumBytes

\* A larger set is no smaller in bytes.
LEMMA SumMonotone ==
  ASSUME NEW T \in SUBSET Blocks, NEW S \in SUBSET T
  PROVE  SumBytes(S) <= SumBytes(T)
<1>1. BytesOf(S) \subseteq BytesOf(T)
  BY DEF BytesOf
<1> QED BY <1>1, BytesFinite, FS_Subset DEF SumBytes

\* Every block has a byte.
LEMMA SumZero == ASSUME NEW S \in SUBSET Blocks, SumBytes(S) = 0 PROVE S = {}
<1>1. SUFFICES ASSUME NEW b \in S PROVE FALSE
  OBVIOUS
<1>2. SumBytes({b}) <= SumBytes(S)
  BY SumMonotone
<1>3. SumBytes({b}) = Bytes[b] /\ Bytes[b] \in Nat \ {0}
  BY SumOne, CollectorAssumption
<1> QED BY <1>2, <1>3

\* One block less, and one block more.
LEMMA SumRemove ==
  ASSUME NEW S \in SUBSET Blocks, NEW b \in S
  PROVE  SumBytes(S) = SumBytes(S \ {b}) + Bytes[b]
<1>1. S = (S \ {b}) \cup {b} /\ (S \ {b}) \cap {b} = {}
  OBVIOUS
<1>2. SumBytes((S \ {b}) \cup {b}) = SumBytes(S \ {b}) + SumBytes({b})
  BY SumAdd
<1> QED BY <1>1, <1>2, SumOne

LEMMA SumInsert ==
  ASSUME NEW S \in SUBSET Blocks, NEW b \in Blocks, b \notin S
  PROVE  SumBytes(S \cup {b}) = SumBytes(S) + Bytes[b]
<1>1. S \cap {b} = {}
  OBVIOUS
<1> QED BY <1>1, SumAdd, SumOne

LEMMA SumInsertBound ==
  ASSUME NEW S \in SUBSET Blocks, NEW b \in Blocks
  PROVE  SumBytes(S \cup {b}) <= SumBytes(S) + Bytes[b]
<1>1. SumBytes(S) \in Nat /\ Bytes[b] \in Nat
  BY SumType, CollectorAssumption
<1>2. CASE b \in S
  <2>1. S \cup {b} = S
    BY <1>2
  <2>2. SumBytes(S \cup {b}) = SumBytes(S)
    BY <2>1, Zenon
  <2> QED BY <1>1, <2>2
<1>3. CASE b \notin S
  BY <1>1, <1>3, SumInsert
<1> QED BY <1>2, <1>3

------------------------------------------------------------------------------
(* The inductive invariant. *)

\* The counters are integers; that none is negative is AccountingExact.
CountersType ==
  /\ retained \in [Stripes -> Int] /\ carriedBytes \in Int
  /\ wfreed \in [Writers -> Nat] /\ wdone \in [Writers -> Nat]

\* What a call has freed so far is covered by what it has charged, and what
\* it has charged is within the budget or a single block.  The plain loop
\* charges nothing before its end, but whatever it may still free fits.
WithinBudget(pc, freed, taken, done, raw) ==
  /\ pc \notin Advancing => freed = 0 /\ raw = {}
  /\ pc = "plain" =>
       /\ freed + SumBytes(taken) + done <= Budget
       /\ SumBytes(raw) <= freed + done
  /\ pc # "plain" =>
       /\ SumBytes(raw) <= freed
       /\ freed <= Budget \/ Cardinality(raw) = 1

BudgetInv ==
  \A w \in Writers : WithinBudget(wpc[w], wfreed[w], wtaken[w], wdone[w], wraw[w])

\* After the drop no writer runs.
GoneInv == ~alive => (\A w \in Writers : wpc[w] = "idle") /\ NothingOutlives

BooksInv == CountersType /\ StripesExact /\ CarryExact /\ BudgetInv /\ GoneInv

\* Only an advancer settles, and there is one.
LEMMA OneSettles ==
  ASSUME ControlInv, NEW w \in Writers, NEW s \in Stripes, wpc[w] \in Advancing, ~Settling(w, s)
  PROVE  \A v \in Writers : ~Settling(v, s)
  BY DEF Settling, ControlInv, Advancing, Draining

LEMMA SettledExact ==
  ASSUME ControlInv, StripesExact, NEW w \in Writers, NEW s \in Stripes, Settling(w, s)
  PROVE  retained[s] = SumBytes(Queued(s)) + SumBytes(wtaken[w]) + wdone[w]
<1>1. \A v \in Writers : Settling(v, s) => v = w
  BY DEF Settling, ControlInv, Advancing, Draining
<1> QED BY <1>1 DEF StripesExact

LEMMA UnsettledExact ==
  ASSUME StripesExact, NEW s \in Stripes, \A w \in Writers : ~Settling(w, s)
  PROVE  retained[s] = SumBytes(Queued(s))
  BY DEF StripesExact

LEMMA CarriedExact ==
  ASSUME ControlInv, CarryExact, NEW w \in Writers, wpc[w] = "carry"
  PROVE  carriedBytes = SumBytes(carry) + wfreed[w]
<1>1. \A v \in Writers : wpc[v] = "carry" => v = w
  BY DEF ControlInv, Advancing
<1> QED BY <1>1 DEF CarryExact

\* A stripe's garbage is a set of blocks.
LEMMA QueuedType == ASSUME TypeOK, NEW s \in Stripes PROVE Queued(s) \in SUBSET Blocks
  BY DEF TypeOK, Queued

\* A stripe whose bins a step leaves alone keeps its garbage.
LEMMA QueuedSame ==
  ASSUME NEW s \in Stripes, \A i \in Bins : bins'[i][s] = bins[i][s]
  PROVE  Queued(s)' = Queued(s)
  BY DEF Queued

\* A step that leaves the bins, the counts and what a settling writer still
\* owes alone keeps every stripe's count exact.
LEMMA StripesFrame ==
  ASSUME StripesExact, UNCHANGED <<bins, retained>>,
         \A w \in Writers, s \in Stripes : Settling(w, s)' <=> Settling(w, s),
         \A w \in Writers, s \in Stripes :
           Settling(w, s) => wtaken'[w] = wtaken[w] /\ wdone'[w] = wdone[w]
  PROVE  StripesExact'
<1> SUFFICES ASSUME NEW s \in Stripes
             PROVE  \/ /\ \A w \in Writers : ~Settling(w, s)'
                       /\ retained'[s] = SumBytes(Queued(s)')
                    \/ \E w \in Writers :
                         /\ Settling(w, s)'
                         /\ retained'[s] = SumBytes(Queued(s)') + SumBytes(wtaken'[w]) + wdone'[w]
  BY DEF StripesExact
<1>1. Queued(s)' = Queued(s)
  BY QueuedSame
<1>2. SumBytes(Queued(s)') = SumBytes(Queued(s))
  BY <1>1, Zenon
<1>3. CASE \A w \in Writers : ~Settling(w, s)
  BY <1>2, <1>3, UnsettledExact
<1>4. ASSUME NEW w \in Writers, Settling(w, s),
             retained[s] = SumBytes(Queued(s)) + SumBytes(wtaken[w]) + wdone[w]
      PROVE  retained'[s] = SumBytes(Queued(s)') + SumBytes(wtaken'[w]) + wdone'[w]
  <2>1. SumBytes(wtaken'[w]) = SumBytes(wtaken[w])
    BY <1>4, Zenon
  <2> QED BY <1>2, <1>4, <2>1
<1> QED BY <1>3, <1>4 DEF StripesExact

\* The same for the carry list's count.
LEMMA CarryFrame ==
  ASSUME CarryExact, UNCHANGED <<carry, carriedBytes>>,
         \A w \in Writers : wpc'[w] = "carry" <=> wpc[w] = "carry",
         \A w \in Writers : wpc[w] = "carry" => wfreed'[w] = wfreed[w]
  PROVE  CarryExact'
<1>1. SumBytes(carry') = SumBytes(carry)
  BY Zenon
<1> QED BY <1>1 DEF CarryExact

\* A step of the advancer w that concerns one stripe s keeps every stripe's
\* count exact if it keeps that of s.
LEMMA StripesMove ==
  ASSUME ControlInv, StripesExact, NEW w \in Writers, wpc[w] \in Advancing, NEW s \in Stripes,
         \A t \in Stripes : t # s =>
           /\ ~Settling(w, t) /\ ~Settling(w, t)'
           /\ retained'[t] = retained[t]
           /\ \A i \in Bins : bins'[i][t] = bins[i][t],
         \A v \in Writers : v # w => wpc'[v] = wpc[v],
         \/ /\ Settling(w, s)'
            /\ retained'[s] = SumBytes(Queued(s)') + SumBytes(wtaken'[w]) + wdone'[w]
         \/ ~Settling(w, s)' /\ retained'[s] = SumBytes(Queued(s)')
  PROVE  StripesExact'
<1>1. \A v \in Writers, t \in Stripes : v # w => ~Settling(v, t)'
  BY DEF Settling, ControlInv, Advancing, Draining
<1>2. ASSUME NEW t \in Stripes, t # s
      PROVE  (\A v \in Writers : ~Settling(v, t)') /\ retained'[t] = SumBytes(Queued(t)')
  <2>1. retained[t] = SumBytes(Queued(t))
    BY <1>2, OneSettles, UnsettledExact
  <2>2. Queued(t)' = Queued(t)
    BY <1>2, QueuedSame
  <2>3. SumBytes(Queued(t)') = SumBytes(Queued(t))
    BY <2>2, Zenon
  <2> QED BY <1>1, <1>2, <2>1, <2>3
<1>3. CASE Settling(w, s)'
  BY <1>2, <1>3 DEF StripesExact
<1>4. CASE ~Settling(w, s)'
  <2>1. \A v \in Writers : ~Settling(v, s)'
    BY <1>1, <1>4
  <2> QED BY <1>2, <1>4, <2>1 DEF StripesExact
<1> QED BY <1>3, <1>4

\* Every stripe's count stays exact.
LEMMA StripesStep ==
  TypeOK /\ ControlInv /\ NotTwice /\ CountersType /\ StripesExact /\ [Next]_vars => StripesExact'
<1> SUFFICES ASSUME TypeOK, ControlInv, NotTwice, CountersType, StripesExact, [Next]_vars
             PROVE  StripesExact'
  OBVIOUS
<1> USE DEF vars, globalVars, memVars, readerVars, advVars
<1>1. ASSUME NEW r \in Readers, ReaderNext(r) PROVE StripesExact'
  <2>1. UNCHANGED <<bins, retained, wpc, wstripe, wtaken, wdone>>
    BY <1>1 DEF ReaderNext, Register, Deregister, Pin, PinLoad, PinStore, PinRetry, PinDone, Unpin
  <2> QED BY <2>1, StripesFrame DEF Settling
<1>2. ASSUME NEW w \in Writers,
             \/ AllocPop(w) \/ AllocSystem(w) \/ Publish(w) \/ RecycleUnpublished(w)
             \/ Unlink(w) \/ RetireFence(w) \/ RetireLoad(w) \/ AdvLock(w)
      PROVE  StripesExact'
  <2>1. /\ UNCHANGED <<bins, retained, wstripe, wtaken, wdone>>
        /\ wpc[w] \in {"idle"} \cup Busy /\ wpc'[w] \in {"idle", "carry"} \cup Busy
        /\ \A v \in Writers : v # w => wpc'[v] = wpc[v]
    BY <1>2 DEF AllocPop, AllocSystem, Publish, RecycleUnpublished, Unlink, RetireFence, RetireLoad,
         AdvLock, TypeOK, Busy
  <2>2. \A v \in Writers, s \in Stripes : Settling(v, s)' <=> Settling(v, s)
    BY <2>1 DEF Settling, Busy
  <2> QED BY <2>1, <2>2, StripesFrame
<1>3. ASSUME NEW w \in Writers, RetirePush(w) PROVE StripesExact'
  <2> DEFINE s == StripeOf[w]
             b == wblk[w]
  <2>1. s \in Stripes /\ wep[w] % BINS \in Bins /\ b \in Blocks /\ Bytes[b] \in Nat
    BY <1>3, StripeType, ModBins, CollectorAssumption DEF RetirePush, TypeOK, ControlInv, Busy
  <2>2. /\ UNCHANGED <<wstripe, wtaken, wdone>>
        /\ wpc[w] = "loaded" /\ wpc'[w] = "idle"
        /\ \A v \in Writers : v # w => wpc'[v] = wpc[v]
        /\ retained'[s] = retained[s] + Bytes[b]
        /\ \A t \in Stripes : t # s => retained'[t] = retained[t]
        /\ \A i \in Bins, t \in Stripes :
             bins'[i][t] = IF i = wep[w] % BINS /\ t = s THEN bins[i][t] \cup {b} ELSE bins[i][t]
    BY <1>3, <2>1 DEF RetirePush, TypeOK, CountersType
  <2>3. \A v \in Writers, t \in Stripes : Settling(v, t)' <=> Settling(v, t)
    BY <2>2 DEF Settling
  <2>4. Queued(s)' = Queued(s) \cup {b}
    <3> HIDE DEF s, b
    <3>1. /\ \A x : x \in Queued(s)' <=> \E i \in Bins : x \in bins'[i][s]
          /\ \A x : x \in Queued(s) <=> \E i \in Bins : x \in bins[i][s]
      BY DEF Queued
    <3>2. PICK k \in Bins : k = wep[w] % BINS
      BY <2>1
    <3>3. \A i \in Bins : bins'[i][s] = IF i = k THEN bins[i][s] \cup {b} ELSE bins[i][s]
      BY <2>1, <2>2, <3>2
    <3>4. \A x : x \in Queued(s)' <=> x \in Queued(s) \/ x = b
      BY <3>1, <3>3
    <3> QED BY <3>4
  <2>5. b \notin Queued(s)
    BY <2>1 DEF Queued, NotTwice
  <2>6. SumBytes(Queued(s)') = SumBytes(Queued(s)) + Bytes[b]
    <3>1. SumBytes(Queued(s)') = SumBytes(Queued(s) \cup {b})
      BY <2>4, Zenon
    <3> HIDE DEF s, b
    <3> QED BY <3>1, <2>1, <2>5, SumInsert, QueuedType
  <2>7. ASSUME NEW t \in Stripes, t # s PROVE SumBytes(Queued(t)') = SumBytes(Queued(t))
    <3>1. Queued(t)' = Queued(t)
      BY <2>2, <2>7, QueuedSame
    <3> QED BY <3>1, Zenon
  <2>8. SumBytes(Queued(s)) \in Nat
    BY <2>1, QueuedType, SumType
  <2>9. \A v \in Writers : SumBytes(wtaken[v]) \in Nat /\ wdone[v] \in Nat
    BY SumType DEF TypeOK, CountersType
  <2>10. ASSUME NEW t \in Stripes
         PROVE  \/ /\ \A v \in Writers : ~Settling(v, t)'
                   /\ retained'[t] = SumBytes(Queued(t)')
                \/ \E v \in Writers :
                     /\ Settling(v, t)'
                     /\ retained'[t] = SumBytes(Queued(t)') + SumBytes(wtaken'[v]) + wdone'[v]
    <3> HIDE DEF s, b
    <3>1. \A v \in Writers : SumBytes(wtaken'[v]) = SumBytes(wtaken[v]) /\ wdone'[v] = wdone[v]
      BY <2>2, Zenon
    <3>2. CASE \A v \in Writers : ~Settling(v, t)
      <4>1. retained[t] = SumBytes(Queued(t))
        BY <3>2, UnsettledExact
      <4> QED BY <2>1, <2>2, <2>3, <2>6, <2>7, <3>2, <4>1
    <3>3. ASSUME NEW v \in Writers, Settling(v, t)
          PROVE  retained'[t] = SumBytes(Queued(t)') + SumBytes(wtaken'[v]) + wdone'[v]
      <4>1. retained[t] = SumBytes(Queued(t)) + SumBytes(wtaken[v]) + wdone[v]
        BY <3>3, SettledExact
      <4>2. CASE t = s
        BY <2>1, <2>2, <2>6, <2>8, <2>9, <3>1, <4>1, <4>2
      <4>3. CASE t # s
        BY <2>2, <2>7, <3>1, <4>1, <4>3
      <4> QED BY <4>2, <4>3
    <3> QED BY <2>3, <3>2, <3>3
  <2> QED BY <2>10 DEF StripesExact
<1>4. ASSUME NEW w \in Writers,
             \/ AdvFreeCarried(w) \/ AdvBeginScan(w) \/ AdvScan(w) \/ AdvBlocked(w)
             \/ AdvScanned(w) \/ AdvCas(w) \/ AdvSkip(w) \/ AdvReturn(w)
      PROVE  StripesExact'
  <2>1. /\ UNCHANGED <<bins, retained, wtaken>>
        /\ wpc[w] \in {"carry", "scan", "cas", "drain"}
        /\ wpc'[w] \in {"carry", "scan", "cas", "drain", "idle"}
        /\ \A v \in Writers : v # w => wpc'[v] = wpc[v] /\ wstripe'[v] = wstripe[v] /\ wdone'[v] = wdone[v]
    BY <1>4 DEF AdvFreeCarried, AdvBeginScan, AdvScan, AdvBlocked, AdvScanned, AdvCas, AdvSkip,
         AdvReturn, Release, TypeOK, CountersType
  <2>2. \A v \in Writers, s \in Stripes : ~Settling(v, s) /\ ~Settling(v, s)'
    BY <2>1 DEF Settling, ControlInv, Advancing, Draining
  <2> QED BY <2>1, <2>2, StripesFrame
<1>5. ASSUME NEW w \in Writers, AdvTake(w) PROVE StripesExact'
  <2>1. PICK s \in Stripes, i \in Bins, T \in SUBSET Blocks :
          s = wstripe[w] /\ i = StaleBin(w) /\ T = bins[i][s]
    BY <1>5, LoopStripe, StaleType DEF AdvTake, TypeOK
  <2>2. /\ UNCHANGED <<retained, wstripe>>
        /\ wpc[w] = "drain" /\ wpc'[w] \in {"plain", "budgeted"}
        /\ \A v \in Writers : v # w => wpc'[v] = wpc[v]
        /\ wtaken'[w] = T /\ wdone'[w] = 0
        /\ \A j \in Bins, t \in Stripes : bins'[j][t] = IF j = i /\ t = s THEN {} ELSE bins[j][t]
    BY <1>5, <2>1 DEF AdvTake, TypeOK, CountersType
  <2>3. wpc[w] \in Advancing
    BY <2>2 DEF Advancing, Draining
  <2>4. \A t \in Stripes : t # s =>
          /\ ~Settling(w, t) /\ ~Settling(w, t)'
          /\ retained'[t] = retained[t]
          /\ \A j \in Bins : bins'[j][t] = bins[j][t]
    BY <2>1, <2>2 DEF Settling
  <2>5. Queued(s) = Queued(s)' \cup T
    BY <2>1, <2>2 DEF Queued
  <2>6. Queued(s)' \cap T = {}
    BY <2>1, <2>2 DEF Queued, NotTwice
  <2>7. retained[s] = SumBytes(Queued(s))
    <3>1. ~Settling(w, s)
      BY <2>1, <2>2 DEF Settling
    <3> QED BY <2>1, <2>3, <3>1, OneSettles, UnsettledExact
  <2>8. Queued(s)' \in SUBSET Blocks /\ T \in SUBSET Blocks
    BY <2>1, <2>5, QueuedType
  <2>9. SumBytes(Queued(s)) = SumBytes(Queued(s)') + SumBytes(T)
    <3>1. SumBytes(Queued(s)) = SumBytes(Queued(s)' \cup T)
      BY <2>5, Zenon
    <3> QED BY <3>1, <2>6, <2>8, SumAdd
  <2>10. SumBytes(wtaken'[w]) = SumBytes(T)
    BY <2>2, Zenon
  <2>11. SumBytes(Queued(s)') \in Nat /\ SumBytes(T) \in Nat
    BY <2>8, SumType
  <2>12. Settling(w, s)'
    BY <2>1, <2>2 DEF Settling
  <2>13. retained'[s] = SumBytes(Queued(s)') + SumBytes(wtaken'[w]) + wdone'[w]
    BY <2>2, <2>7, <2>9, <2>10, <2>11
  <2> QED BY <2>1, <2>2, <2>3, <2>4, <2>12, <2>13, StripesMove
<1>6. ASSUME NEW w \in Writers, AdvReclaim(w) \/ AdvFreeRaw(w) PROVE StripesExact'
  <2>0. PICK s : s = wstripe[w]
    OBVIOUS
  <2>1. PICK b \in wtaken[w] : /\ wtaken' = [wtaken EXCEPT ![w] = @ \ {b}]
                               /\ wdone' = [wdone EXCEPT ![w] = @ + Bytes[b]]
    BY <1>6 DEF AdvReclaim, AdvFreeRaw
  <2>2. UNCHANGED <<bins, retained, wstripe, wpc>> /\ wpc[w] \in {"plain", "budgeted"}
    BY <1>6 DEF AdvReclaim, AdvFreeRaw
  <2>3. s \in Stripes /\ Settling(w, s) /\ Settling(w, s)' /\ wpc[w] \in Advancing
    BY <2>0, <2>2 DEF ControlInv, Settling, Draining, Advancing
  <2>4. \A t \in Stripes : t # s =>
          /\ ~Settling(w, t) /\ ~Settling(w, t)'
          /\ retained'[t] = retained[t]
          /\ \A j \in Bins : bins'[j][t] = bins[j][t]
    BY <2>0, <2>2 DEF Settling
  <2>5. wtaken'[w] = wtaken[w] \ {b} /\ wdone'[w] = wdone[w] + Bytes[b]
    BY <2>1 DEF TypeOK, CountersType
  <2>6. SumBytes(wtaken'[w]) = SumBytes(wtaken[w] \ {b})
    BY <2>5, Zenon
  <2>7. SumBytes(wtaken[w]) = SumBytes(wtaken[w] \ {b}) + Bytes[b]
    BY SumRemove DEF TypeOK
  <2>8. SumBytes(wtaken[w] \ {b}) \in Nat /\ Bytes[b] \in Nat /\ wdone[w] \in Nat
    BY SumType, CollectorAssumption DEF TypeOK, CountersType
  <2>9. Queued(s)' = Queued(s)
    BY <2>2, <2>3, QueuedSame
  <2>10. SumBytes(Queued(s)') = SumBytes(Queued(s))
    BY <2>9, Zenon
  <2>11. SumBytes(Queued(s)) \in Nat
    BY <2>3, QueuedType, SumType
  <2>12. retained[s] = SumBytes(Queued(s)) + SumBytes(wtaken[w]) + wdone[w]
    BY <2>3, SettledExact
  <2>13. retained'[s] = SumBytes(Queued(s)') + SumBytes(wtaken'[w]) + wdone'[w]
    BY <2>2, <2>5, <2>6, <2>7, <2>8, <2>10, <2>11, <2>12
  <2> QED BY <2>2, <2>3, <2>4, <2>13, StripesMove
<1>7. ASSUME NEW w \in Writers, AdvCarryTail(w) PROVE StripesExact'
  <2>0. PICK s : s = wstripe[w]
    OBVIOUS
  <2>1. /\ UNCHANGED <<bins, retained, wstripe>>
        /\ wpc[w] = "budgeted" /\ wpc'[w] = "subtract"
        /\ \A v \in Writers : v # w => wpc'[v] = wpc[v]
        /\ wtaken'[w] = {} /\ wdone'[w] = wdone[w] + SumBytes(wtaken[w])
    BY <1>7 DEF AdvCarryTail, TypeOK, CountersType
  <2>2. s \in Stripes /\ Settling(w, s) /\ Settling(w, s)' /\ wpc[w] \in Advancing
    BY <2>0, <2>1 DEF ControlInv, Settling, Draining, Advancing
  <2>3. \A t \in Stripes : t # s =>
          /\ ~Settling(w, t) /\ ~Settling(w, t)'
          /\ retained'[t] = retained[t]
          /\ \A j \in Bins : bins'[j][t] = bins[j][t]
    BY <2>0, <2>1 DEF Settling
  <2>4. SumBytes(wtaken'[w]) = 0
    <3>1. SumBytes(wtaken'[w]) = SumBytes({})
      BY <2>1, Zenon
    <3> QED BY <3>1, SumEmpty
  <2>5. SumBytes(wtaken[w]) \in Nat /\ wdone[w] \in Nat
    BY SumType DEF TypeOK, CountersType
  <2>6. Queued(s)' = Queued(s)
    BY <2>1, <2>2, QueuedSame
  <2>7. SumBytes(Queued(s)') = SumBytes(Queued(s))
    BY <2>6, Zenon
  <2>8. SumBytes(Queued(s)) \in Nat
    BY <2>2, QueuedType, SumType
  <2>9. retained[s] = SumBytes(Queued(s)) + SumBytes(wtaken[w]) + wdone[w]
    BY <2>2, SettledExact
  <2>10. retained'[s] = SumBytes(Queued(s)') + SumBytes(wtaken'[w]) + wdone'[w]
    BY <2>1, <2>4, <2>5, <2>7, <2>8, <2>9
  <2> QED BY <2>1, <2>2, <2>3, <2>10, StripesMove
<1>8. ASSUME NEW w \in Writers, AdvSubtract(w) PROVE StripesExact'
  <2>0. PICK s : s = wstripe[w]
    OBVIOUS
  <2>1. wpc[w] \in {"plain", "budgeted", "subtract"} /\ wtaken[w] = {}
    BY <1>8 DEF AdvSubtract, ControlInv
  <2>2. s \in Stripes /\ Settling(w, s) /\ wpc[w] \in Advancing
    BY <2>0, <2>1 DEF ControlInv, Settling, Draining, Advancing
  <2>3. /\ UNCHANGED bins
        /\ wpc'[w] = "drain"
        /\ \A v \in Writers : v # w => wpc'[v] = wpc[v]
        /\ \A t \in Stripes : retained'[t] = IF t = s THEN retained[t] - wdone[w] ELSE retained[t]
    BY <1>8, <2>0, <2>2 DEF AdvSubtract, TypeOK, CountersType
  <2>4. ~Settling(w, s)'
    BY <2>0, <2>3 DEF Settling
  <2>5. \A t \in Stripes : t # s =>
          /\ ~Settling(w, t) /\ ~Settling(w, t)'
          /\ retained'[t] = retained[t]
          /\ \A j \in Bins : bins'[j][t] = bins[j][t]
    BY <2>0, <2>3 DEF Settling
  <2>6. SumBytes(wtaken[w]) = 0
    <3>1. SumBytes(wtaken[w]) = SumBytes({})
      BY <2>1, Zenon
    <3> QED BY <3>1, SumEmpty
  <2>7. Queued(s)' = Queued(s)
    BY <2>2, <2>3, QueuedSame
  <2>8. SumBytes(Queued(s)') = SumBytes(Queued(s))
    BY <2>7, Zenon
  <2>9. SumBytes(Queued(s)) \in Nat /\ wdone[w] \in Nat
    BY <2>2, QueuedType, SumType DEF CountersType
  <2>10. retained[s] = SumBytes(Queued(s)) + SumBytes(wtaken[w]) + wdone[w]
    BY <2>2, SettledExact
  <2>11. retained'[s] = SumBytes(Queued(s)')
    BY <2>2, <2>3, <2>6, <2>8, <2>9, <2>10
  <2> QED BY <2>2, <2>3, <2>4, <2>5, <2>11, StripesMove
<1>9. ASSUME NEW s \in Stripes, ReleaseFreeList(s) PROVE StripesExact'
  <2>1. UNCHANGED <<bins, retained, wpc, wstripe, wtaken, wdone>>
    BY <1>9 DEF ReleaseFreeList
  <2> QED BY <2>1, StripesFrame DEF Settling
<1>10. ASSUME Drop PROVE StripesExact'
  <2>1. \A w \in Writers : wpc[w] = "idle" /\ wpc'[w] = "idle"
    BY <1>10 DEF Drop
  <2>2. \A w \in Writers, s \in Stripes : ~Settling(w, s) /\ ~Settling(w, s)'
    BY <2>1 DEF Settling
  <2>3. ASSUME NEW s \in Stripes PROVE retained'[s] = SumBytes(Queued(s)')
    <3>1. retained'[s] = retained[s] - SumBytes(Queued(s))
      BY <1>10 DEF Drop
    <3>2. retained[s] = SumBytes(Queued(s))
      BY <2>2, UnsettledExact
    <3>3. Queued(s)' = {}
      BY <1>10 DEF Drop, Queued
    <3>4. SumBytes(Queued(s)') = SumBytes({})
      BY <3>3, Zenon
    <3>5. SumBytes(Queued(s)) \in Nat
      BY QueuedType, SumType
    <3> QED BY <3>1, <3>2, <3>4, <3>5, SumEmpty
  <2> QED BY <2>2, <2>3 DEF StripesExact
<1>11. ASSUME UNCHANGED vars PROVE StripesExact'
  <2>1. UNCHANGED <<bins, retained, wpc, wstripe, wtaken, wdone>>
    BY <1>11
  <2> QED BY <2>1, StripesFrame DEF Settling
<1>12. QED
  BY <1>1, <1>2, <1>3, <1>4, <1>5, <1>6, <1>7, <1>8, <1>9, <1>10, <1>11
     DEF Next, Mutate, Retire, TryAdvance, Drain, Terminated

\* The counters keep their types.
LEMMA CountersStep ==
  TypeOK /\ ControlInv /\ CountersType /\ [Next]_vars => CountersType'
<1> SUFFICES ASSUME TypeOK, ControlInv, CountersType, [Next]_vars PROVE CountersType'
  OBVIOUS
<1> USE DEF vars, globalVars, memVars, readerVars, advVars
<1>1. ASSUME NEW r \in Readers, ReaderNext(r) PROVE CountersType'
  BY <1>1 DEF CountersType, ReaderNext, Register, Deregister, Pin, PinLoad, PinStore, PinRetry,
       PinDone, Unpin
<1>2. ASSUME NEW w \in Writers,
             \/ AllocPop(w) \/ AllocSystem(w) \/ Publish(w) \/ RecycleUnpublished(w)
             \/ Unlink(w) \/ RetireFence(w) \/ RetireLoad(w) \/ AdvLock(w)
             \/ AdvScan(w) \/ AdvScanned(w) \/ AdvCas(w) \/ AdvSkip(w)
      PROVE  CountersType'
  BY <1>2 DEF CountersType, AllocPop, AllocSystem, Publish, RecycleUnpublished, Unlink,
       RetireFence, RetireLoad, AdvLock, AdvScan, AdvScanned, AdvCas, AdvSkip
<1>3. ASSUME NEW w \in Writers, RetirePush(w) PROVE CountersType'
  <2>1. StripeOf[w] \in Stripes /\ Bytes[wblk[w]] \in Nat
    BY <1>3, StripeType, CollectorAssumption DEF RetirePush, TypeOK, ControlInv, Busy
  <2> QED BY <1>3, <2>1 DEF RetirePush, CountersType
<1>4. ASSUME NEW w \in Writers, AdvFreeCarried(w) PROVE CountersType'
  <2>1. \A b \in carry : Bytes[b] \in Nat
    BY CollectorAssumption DEF TypeOK
  <2> QED BY <1>4, <2>1 DEF AdvFreeCarried, CountersType
<1>5. ASSUME NEW w \in Writers, AdvBeginScan(w) PROVE CountersType'
  BY <1>5 DEF AdvBeginScan, CountersType
<1>6. ASSUME NEW w \in Writers, AdvBlocked(w) \/ AdvReturn(w) PROVE CountersType'
  BY <1>6 DEF AdvBlocked, AdvReturn, Release, CountersType
<1>7. ASSUME NEW w \in Writers, AdvTake(w) PROVE CountersType'
  BY <1>7 DEF AdvTake, CountersType
<1>8. ASSUME NEW w \in Writers, AdvReclaim(w) \/ AdvFreeRaw(w) PROVE CountersType'
  <2>1. \A b \in wtaken[w] : Bytes[b] \in Nat
    BY CollectorAssumption DEF TypeOK
  <2> QED BY <1>8, <2>1 DEF AdvReclaim, AdvFreeRaw, CountersType
<1>9. ASSUME NEW w \in Writers, AdvCarryTail(w) PROVE CountersType'
  <2>1. SumBytes(wtaken[w]) \in Nat /\ SumBytes(wtaken[w] \ Classed) \in Nat
    BY SumType DEF TypeOK
  <2> QED BY <1>9, <2>1 DEF AdvCarryTail, CountersType
<1>10. ASSUME NEW w \in Writers, AdvSubtract(w) PROVE CountersType'
  <2>1. wstripe[w] \in Stripes
    BY <1>10 DEF AdvSubtract, ControlInv, Draining
  <2> QED BY <1>10, <2>1 DEF AdvSubtract, CountersType
<1>11. ASSUME NEW s \in Stripes, ReleaseFreeList(s) PROVE CountersType'
  BY <1>11 DEF ReleaseFreeList, CountersType
<1>12. ASSUME Drop PROVE CountersType'
  <2>1. SumBytes(carry) \in Nat
    BY SumType DEF TypeOK
  <2>2. \A s \in Stripes : SumBytes(Queued(s)) \in Nat
    BY QueuedType, SumType
  <2>3. retained' \in [Stripes -> Int]
    BY <1>12, <2>2 DEF Drop, CountersType
  <2> QED BY <1>12, <2>1, <2>3 DEF Drop, CountersType
<1>13. ASSUME UNCHANGED vars PROVE CountersType'
  BY <1>13 DEF CountersType
<1>14. QED
  BY <1>1, <1>2, <1>3, <1>4, <1>5, <1>6, <1>7, <1>8, <1>9, <1>10, <1>11, <1>12, <1>13
     DEF Next, Mutate, Retire, TryAdvance, Drain, Terminated

\* The carry list's count stays exact.
LEMMA CarryStep ==
  TypeOK /\ ControlInv /\ NotTwice /\ CountersType /\ BudgetInv /\ CarryExact /\ [Next]_vars => CarryExact'
<1> SUFFICES ASSUME TypeOK, ControlInv, NotTwice, CountersType, BudgetInv, CarryExact, [Next]_vars
             PROVE  CarryExact'
  OBVIOUS
<1> USE DEF vars, globalVars, memVars, readerVars, advVars
<1>1. ASSUME NEW r \in Readers, ReaderNext(r) PROVE CarryExact'
  <2>1. UNCHANGED <<carry, carriedBytes, wpc, wfreed>>
    BY <1>1 DEF ReaderNext, Register, Deregister, Pin, PinLoad, PinStore, PinRetry, PinDone, Unpin
  <2> QED BY <2>1, CarryFrame
<1>2. ASSUME NEW w \in Writers,
             \/ AllocPop(w) \/ AllocSystem(w) \/ Publish(w) \/ RecycleUnpublished(w)
             \/ Unlink(w) \/ RetireFence(w) \/ RetireLoad(w) \/ RetirePush(w)
      PROVE  CarryExact'
  <2>1. /\ UNCHANGED <<carry, carriedBytes, wfreed>>
        /\ wpc[w] \in {"idle"} \cup Busy /\ wpc'[w] \in {"idle"} \cup Busy
        /\ \A v \in Writers : v # w => wpc'[v] = wpc[v]
    BY <1>2 DEF AllocPop, AllocSystem, Publish, RecycleUnpublished, Unlink, RetireFence, RetireLoad,
         RetirePush, TypeOK, Busy
  <2>2. \A v \in Writers : wpc'[v] = "carry" <=> wpc[v] = "carry"
    BY <2>1 DEF Busy
  <2> QED BY <2>1, <2>2, CarryFrame
<1>3. ASSUME NEW w \in Writers, AdvLock(w) PROVE CarryExact'
  <2>1. UNCHANGED <<carry, carriedBytes, wfreed>> /\ wpc[w] = "idle" /\ wpc'[w] = "carry"
    BY <1>3 DEF AdvLock, TypeOK
  <2>2. \A v \in Writers : wpc[v] # "carry"
    BY <1>3 DEF AdvLock, ControlInv, Advancing
  <2>3. wfreed[w] = 0
    BY <2>1 DEF BudgetInv, WithinBudget, Advancing, Draining
  <2>4. SumBytes(carry) \in Nat /\ SumBytes(carry') = SumBytes(carry)
    BY <2>1, SumType DEF TypeOK
  <2> QED BY <2>1, <2>2, <2>3, <2>4 DEF CarryExact
<1>4. ASSUME NEW w \in Writers, AdvFreeCarried(w) PROVE CarryExact'
  <2>1. PICK b \in carry : carry' = carry \ {b} /\ wfreed' = [wfreed EXCEPT ![w] = @ + Bytes[b]]
    BY <1>4 DEF AdvFreeCarried
  <2>2. wpc[w] = "carry" /\ UNCHANGED <<wpc, carriedBytes>> /\ wfreed'[w] = wfreed[w] + Bytes[b]
    BY <1>4, <2>1 DEF AdvFreeCarried, CountersType
  <2>3. carriedBytes = SumBytes(carry) + wfreed[w]
    BY <2>2, CarriedExact
  <2>4. SumBytes(carry) = SumBytes(carry \ {b}) + Bytes[b]
    BY SumRemove DEF TypeOK
  <2>5. SumBytes(carry') = SumBytes(carry \ {b})
    BY <2>1, Zenon
  <2>6. SumBytes(carry \ {b}) \in Nat /\ Bytes[b] \in Nat /\ wfreed[w] \in Nat
    BY SumType, CollectorAssumption DEF TypeOK, CountersType
  <2> QED BY <2>2, <2>3, <2>4, <2>5, <2>6 DEF CarryExact
<1>5. ASSUME NEW w \in Writers, AdvBeginScan(w) PROVE CarryExact'
  <2>1. /\ wpc[w] = "carry" /\ wpc'[w] = "scan" /\ carry' = carry
        /\ \A v \in Writers : v # w => wpc'[v] = wpc[v]
        /\ carriedBytes' = carriedBytes - wfreed[w]
    BY <1>5 DEF AdvBeginScan, TypeOK
  <2>2. \A v \in Writers : wpc'[v] # "carry"
    BY <2>1 DEF ControlInv, Advancing
  <2>3. carriedBytes = SumBytes(carry) + wfreed[w]
    BY <2>1, CarriedExact
  <2>4. SumBytes(carry) \in Nat /\ SumBytes(carry') = SumBytes(carry) /\ wfreed[w] \in Nat
    BY <2>1, SumType DEF TypeOK, CountersType
  <2> QED BY <2>1, <2>2, <2>3, <2>4 DEF CarryExact
<1>6. ASSUME NEW w \in Writers,
             \/ AdvScan(w) \/ AdvBlocked(w) \/ AdvScanned(w) \/ AdvCas(w) \/ AdvSkip(w)
             \/ AdvTake(w) \/ AdvReclaim(w) \/ AdvFreeRaw(w) \/ AdvSubtract(w) \/ AdvReturn(w)
      PROVE  CarryExact'
  <2>1. /\ UNCHANGED <<carry, carriedBytes>>
        /\ wpc[w] # "carry" /\ wpc'[w] # "carry"
        /\ \A v \in Writers : v # w => wpc'[v] = wpc[v] /\ wfreed'[v] = wfreed[v]
    BY <1>6 DEF AdvScan, AdvBlocked, AdvScanned, AdvCas, AdvSkip, AdvTake, AdvReclaim, AdvFreeRaw,
         AdvSubtract, AdvReturn, Release, TypeOK, CountersType
  <2>2. \A v \in Writers : wpc'[v] = "carry" <=> wpc[v] = "carry"
    BY <2>1
  <2> QED BY <2>1, <2>2, CarryFrame
<1>7. ASSUME NEW w \in Writers, AdvCarryTail(w) PROVE CarryExact'
  <2>1. PICK rest \in SUBSET Blocks : rest = wtaken[w] \ Classed
    BY DEF TypeOK
  <2>2. /\ carry' = carry \cup rest /\ carriedBytes' = carriedBytes + SumBytes(rest)
        /\ wpc[w] = "budgeted" /\ wpc'[w] = "subtract"
        /\ \A v \in Writers : v # w => wpc'[v] = wpc[v]
    BY <1>7, <2>1 DEF AdvCarryTail, TypeOK
  <2>3. \A v \in Writers : wpc[v] # "carry" /\ wpc'[v] # "carry"
    BY <2>2 DEF ControlInv, Advancing, Draining
  <2>4. carriedBytes = SumBytes(carry)
    BY <2>3 DEF CarryExact
  <2>5. carry \in SUBSET Blocks /\ carry \cap rest = {}
    BY <2>1 DEF TypeOK, NotTwice
  <2>6. SumBytes(carry') = SumBytes(carry \cup rest)
    BY <2>2, Zenon
  <2>7. SumBytes(carry \cup rest) = SumBytes(carry) + SumBytes(rest)
    BY <2>5, SumAdd
  <2> QED BY <2>2, <2>3, <2>4, <2>6, <2>7 DEF CarryExact
<1>8. ASSUME NEW s \in Stripes, ReleaseFreeList(s) PROVE CarryExact'
  <2>1. UNCHANGED <<carry, carriedBytes, wpc, wfreed>>
    BY <1>8 DEF ReleaseFreeList
  <2> QED BY <2>1, CarryFrame
<1>9. ASSUME Drop PROVE CarryExact'
  <2>1. /\ \A w \in Writers : wpc[w] # "carry" /\ wpc'[w] # "carry"
        /\ carry' = {} /\ carriedBytes' = carriedBytes - SumBytes(carry)
    BY <1>9 DEF Drop
  <2>2. carriedBytes = SumBytes(carry) /\ SumBytes(carry) \in Nat
    BY <2>1, SumType DEF CarryExact, TypeOK
  <2>3. SumBytes(carry') = SumBytes({})
    BY <2>1, Zenon
  <2> QED BY <2>1, <2>2, <2>3, SumEmpty DEF CarryExact
<1>10. ASSUME UNCHANGED vars PROVE CarryExact'
  <2>1. UNCHANGED <<carry, carriedBytes, wpc, wfreed>>
    BY <1>10
  <2> QED BY <2>1, CarryFrame
<1>11. QED
  BY <1>1, <1>2, <1>3, <1>4, <1>5, <1>6, <1>7, <1>8, <1>9, <1>10
     DEF Next, Mutate, Retire, TryAdvance, Drain, Terminated

\* A step that leaves the locals of every writer but w alone.
LEMMA BudgetFrame ==
  ASSUME BudgetInv, NEW w \in Writers,
         \A v \in Writers : v # w =>
           /\ wpc'[v] = wpc[v] /\ wfreed'[v] = wfreed[v] /\ wtaken'[v] = wtaken[v]
           /\ wdone'[v] = wdone[v] /\ wraw'[v] = wraw[v],
         WithinBudget(wpc'[w], wfreed'[w], wtaken'[w], wdone'[w], wraw'[w])
  PROVE  BudgetInv'
<1>1. ASSUME NEW v \in Writers, v # w
      PROVE  WithinBudget(wpc'[v], wfreed'[v], wtaken'[v], wdone'[v], wraw'[v])
  <2>1. WithinBudget(wpc[v], wfreed[v], wtaken[v], wdone[v], wraw[v])
    BY DEF BudgetInv
  <2> QED BY <1>1, <2>1, Zenon
<1> QED BY <1>1 DEF BudgetInv

\* Freeing a block within the budget, or the first one, keeps to the budget.
LEMMA FreeWithin ==
  ASSUME NEW freed \in Nat, NEW raw \in SUBSET Blocks, NEW b \in Blocks,
         SumBytes(raw) <= freed, freed = 0 \/ freed + Bytes[b] <= Budget
  PROVE  /\ SumBytes(raw \cup {b}) <= freed + Bytes[b]
         /\ freed + Bytes[b] <= Budget \/ Cardinality(raw \cup {b}) = 1
<1>1. Bytes[b] \in Nat /\ Budget \in Nat /\ SumBytes(raw) \in Nat /\ SumBytes(raw \cup {b}) \in Nat
  BY SumType, CollectorAssumption
<1>2. SumBytes(raw \cup {b}) <= freed + Bytes[b]
  BY <1>1, SumInsertBound
<1>3. CASE freed + Bytes[b] <= Budget
  BY <1>2, <1>3
<1>4. CASE freed = 0
  <2>1. SumBytes(raw) = 0
    BY <1>1, <1>4
  <2>2. raw = {}
    BY <2>1, SumZero
  <2>3. raw \cup {b} = {b}
    BY <2>2
  <2>4. Cardinality(raw \cup {b}) = Cardinality({b})
    BY <2>3, Zenon
  <2> QED BY <1>2, <2>4, FS_Singleton
<1> QED BY <1>3, <1>4

\* Every call keeps to its budget.
LEMMA BudgetStep ==
  TypeOK /\ ControlInv /\ CountersType /\ StripesExact /\ BudgetInv /\ [Next]_vars => BudgetInv'
<1> SUFFICES ASSUME TypeOK, ControlInv, CountersType, StripesExact, BudgetInv, [Next]_vars
             PROVE  BudgetInv'
  OBVIOUS
<1> USE DEF vars, globalVars, memVars, readerVars, advVars
<1>0. ASSUME UNCHANGED <<wpc, wfreed, wtaken, wdone, wraw>> PROVE BudgetInv'
  BY <1>0 DEF BudgetInv
<1>1. ASSUME NEW r \in Readers, ReaderNext(r) PROVE BudgetInv'
  <2>1. UNCHANGED <<wpc, wfreed, wtaken, wdone, wraw>>
    BY <1>1 DEF ReaderNext, Register, Deregister, Pin, PinLoad, PinStore, PinRetry, PinDone, Unpin
  <2> QED BY <1>0, <2>1
<1>2. ASSUME NEW w \in Writers,
             \/ AllocPop(w) \/ AllocSystem(w) \/ Publish(w) \/ RecycleUnpublished(w)
             \/ Unlink(w) \/ RetireFence(w) \/ RetireLoad(w) \/ RetirePush(w) \/ AdvLock(w)
      PROVE  BudgetInv'
  <2>1. /\ UNCHANGED <<wfreed, wtaken, wdone, wraw>>
        /\ wpc[w] \in {"idle"} \cup Busy /\ wpc'[w] \in {"idle", "carry"} \cup Busy
        /\ \A v \in Writers : v # w => wpc'[v] = wpc[v]
    BY <1>2 DEF AllocPop, AllocSystem, Publish, RecycleUnpublished, Unlink, RetireFence, RetireLoad,
         RetirePush, AdvLock, TypeOK, Busy
  <2>2. wfreed[w] = 0 /\ wraw[w] = {}
    BY <2>1 DEF BudgetInv, WithinBudget, Advancing, Draining, Busy
  <2>3. SumBytes(wraw[w]) = 0
    <3>1. SumBytes(wraw[w]) = SumBytes({})
      BY <2>2, Zenon
    <3> QED BY <3>1, SumEmpty
  <2>4. WithinBudget(wpc'[w], wfreed[w], wtaken[w], wdone[w], wraw[w])
    BY <2>1, <2>2, <2>3, CollectorAssumption DEF WithinBudget, Busy
  <2> QED BY <2>1, <2>4, BudgetFrame
<1>3. ASSUME NEW w \in Writers, AdvFreeCarried(w) PROVE BudgetInv'
  <2>1. PICK b \in carry : /\ Fits(w, b)
                           /\ wfreed' = [wfreed EXCEPT ![w] = @ + Bytes[b]]
                           /\ wraw' = [wraw EXCEPT ![w] = @ \cup {b}]
    BY <1>3 DEF AdvFreeCarried
  <2>2. /\ wpc[w] = "carry" /\ UNCHANGED <<wpc, wtaken, wdone>>
        /\ wfreed'[w] = wfreed[w] + Bytes[b] /\ wraw'[w] = wraw[w] \cup {b}
        /\ \A v \in Writers : v # w => wfreed'[v] = wfreed[v] /\ wraw'[v] = wraw[v]
    BY <1>3, <2>1 DEF AdvFreeCarried, CountersType, TypeOK
  <2>3. wfreed[w] \in Nat /\ wraw[w] \in SUBSET Blocks /\ b \in Blocks
    BY DEF TypeOK, CountersType
  <2>4. SumBytes(wraw[w]) <= wfreed[w]
    BY <2>2 DEF BudgetInv, WithinBudget
  <2>5. /\ SumBytes(wraw[w] \cup {b}) <= wfreed[w] + Bytes[b]
        /\ wfreed[w] + Bytes[b] <= Budget \/ Cardinality(wraw[w] \cup {b}) = 1
    BY <2>1, <2>3, <2>4, FreeWithin DEF Fits
  <2>6. WithinBudget("carry", wfreed[w] + Bytes[b], wtaken[w], wdone[w], wraw[w] \cup {b})
    BY <2>5 DEF WithinBudget, Advancing
  <2>7. WithinBudget(wpc'[w], wfreed'[w], wtaken'[w], wdone'[w], wraw'[w])
    BY <2>2, <2>6, Zenon
  <2> QED BY <2>2, <2>7, BudgetFrame
<1>4. ASSUME NEW w \in Writers,
             AdvBeginScan(w) \/ AdvScan(w) \/ AdvScanned(w) \/ AdvCas(w) \/ AdvSkip(w)
      PROVE  BudgetInv'
  <2>1. /\ UNCHANGED <<wfreed, wtaken, wdone, wraw>>
        /\ wpc[w] \in {"carry", "scan", "cas", "drain"} /\ wpc'[w] \in {"scan", "cas", "drain"}
        /\ \A v \in Writers : v # w => wpc'[v] = wpc[v]
    BY <1>4 DEF AdvBeginScan, AdvScan, AdvScanned, AdvCas, AdvSkip, TypeOK
  <2>2. WithinBudget(wpc'[w], wfreed[w], wtaken[w], wdone[w], wraw[w])
    BY <2>1 DEF BudgetInv, WithinBudget, Advancing, Draining
  <2> QED BY <2>1, <2>2, BudgetFrame
<1>5. ASSUME NEW w \in Writers, AdvBlocked(w) \/ AdvReturn(w) PROVE BudgetInv'
  <2>1. /\ UNCHANGED wtaken
        /\ wpc'[w] = "idle" /\ wfreed'[w] = 0 /\ wraw'[w] = {}
        /\ \A v \in Writers : v # w =>
             /\ wpc'[v] = wpc[v] /\ wfreed'[v] = wfreed[v]
             /\ wdone'[v] = wdone[v] /\ wraw'[v] = wraw[v]
    BY <1>5 DEF AdvBlocked, AdvReturn, Release, TypeOK, CountersType
  <2>2. WithinBudget("idle", 0, wtaken'[w], wdone'[w], {})
    BY SumEmpty, CollectorAssumption DEF WithinBudget
  <2>3. WithinBudget(wpc'[w], wfreed'[w], wtaken'[w], wdone'[w], wraw'[w])
    BY <2>1, <2>2, Zenon
  <2> QED BY <2>1, <2>3, BudgetFrame
<1>6. ASSUME NEW w \in Writers, AdvTake(w) PROVE BudgetInv'
  <2>1. PICK s \in Stripes, i \in Bins, T \in SUBSET Blocks :
          s = wstripe[w] /\ i = StaleBin(w) /\ T = bins[i][s]
    BY <1>6, LoopStripe, StaleType DEF AdvTake, TypeOK
  <2>2. /\ UNCHANGED <<wfreed, wraw>>
        /\ wpc[w] = "drain" /\ wtaken'[w] = T /\ wdone'[w] = 0
        /\ wpc'[w] = IF wfreed[w] + retained[s] > Budget THEN "budgeted" ELSE "plain"
        /\ \A v \in Writers : v # w =>
             wpc'[v] = wpc[v] /\ wtaken'[v] = wtaken[v] /\ wdone'[v] = wdone[v]
    BY <1>6, <2>1 DEF AdvTake, TypeOK, CountersType
  <2>3. retained[s] = SumBytes(Queued(s))
    <3>1. ~Settling(w, s) /\ wpc[w] \in Advancing
      BY <2>2 DEF Settling, Advancing, Draining
    <3> QED BY <3>1, OneSettles, UnsettledExact
  <2>4. T \subseteq Queued(s)
    BY <2>1 DEF Queued
  <2>5. SumBytes(T) <= retained[s]
    BY <2>3, <2>4, QueuedType, SumMonotone
  <2>6. /\ SumBytes(T) \in Nat /\ SumBytes(wraw[w]) \in Nat
        /\ retained[s] \in Int /\ wfreed[w] \in Nat /\ Budget \in Nat
    BY SumType, CollectorAssumption DEF TypeOK, CountersType
  <2>7. /\ SumBytes(wraw[w]) <= wfreed[w]
        /\ wfreed[w] <= Budget \/ Cardinality(wraw[w]) = 1
    BY <2>2 DEF BudgetInv, WithinBudget
  <2>8. WithinBudget(wpc'[w], wfreed[w], T, 0, wraw[w])
    BY <2>2, <2>5, <2>6, <2>7 DEF WithinBudget, Advancing, Draining
  <2>9. WithinBudget(wpc'[w], wfreed'[w], wtaken'[w], wdone'[w], wraw'[w])
    BY <2>2, <2>8, Zenon
  <2> QED BY <2>2, <2>9, BudgetFrame
<1>7. ASSUME NEW w \in Writers, AdvReclaim(w) PROVE BudgetInv'
  <2>1. PICK b \in wtaken[w] : /\ wtaken' = [wtaken EXCEPT ![w] = @ \ {b}]
                               /\ wdone' = [wdone EXCEPT ![w] = @ + Bytes[b]]
    BY <1>7 DEF AdvReclaim
  <2>2. /\ wpc[w] \in {"plain", "budgeted"} /\ UNCHANGED <<wpc, wfreed, wraw>>
        /\ wtaken'[w] = wtaken[w] \ {b} /\ wdone'[w] = wdone[w] + Bytes[b]
        /\ \A v \in Writers : v # w => wtaken'[v] = wtaken[v] /\ wdone'[v] = wdone[v]
    BY <1>7, <2>1 DEF AdvReclaim, TypeOK, CountersType
  <2>3. SumBytes(wtaken[w]) = SumBytes(wtaken[w] \ {b}) + Bytes[b]
    BY SumRemove DEF TypeOK
  <2>4. /\ SumBytes(wtaken[w] \ {b}) \in Nat /\ Bytes[b] \in Nat /\ wdone[w] \in Nat
        /\ wfreed[w] \in Nat /\ Budget \in Nat /\ SumBytes(wraw[w]) \in Nat
    BY SumType, CollectorAssumption DEF TypeOK, CountersType
  <2>5. WithinBudget(wpc[w], wfreed[w], wtaken[w], wdone[w], wraw[w])
    BY DEF BudgetInv
  <2>6. WithinBudget(wpc[w], wfreed[w], wtaken[w] \ {b}, wdone[w] + Bytes[b], wraw[w])
    BY <2>2, <2>3, <2>4, <2>5 DEF WithinBudget
  <2>7. WithinBudget(wpc'[w], wfreed'[w], wtaken'[w], wdone'[w], wraw'[w])
    BY <2>2, <2>6, Zenon
  <2> QED BY <2>2, <2>7, BudgetFrame
<1>8. ASSUME NEW w \in Writers, AdvFreeRaw(w) PROVE BudgetInv'
  <2>1. PICK b \in wtaken[w] :
          /\ wpc[w] = "budgeted" => Fits(w, b)
          /\ wtaken' = [wtaken EXCEPT ![w] = @ \ {b}]
          /\ wdone' = [wdone EXCEPT ![w] = @ + Bytes[b]]
          /\ wfreed' = [wfreed EXCEPT ![w] = IF wpc[w] = "budgeted" THEN @ + Bytes[b] ELSE @]
          /\ wraw' = [wraw EXCEPT ![w] = @ \cup {b}]
    BY <1>8 DEF AdvFreeRaw
  <2>2. /\ wpc[w] \in {"plain", "budgeted"} /\ UNCHANGED wpc
        /\ wtaken'[w] = wtaken[w] \ {b} /\ wdone'[w] = wdone[w] + Bytes[b]
        /\ wraw'[w] = wraw[w] \cup {b}
        /\ wfreed'[w] = IF wpc[w] = "budgeted" THEN wfreed[w] + Bytes[b] ELSE wfreed[w]
        /\ \A v \in Writers : v # w =>
             /\ wtaken'[v] = wtaken[v] /\ wdone'[v] = wdone[v]
             /\ wfreed'[v] = wfreed[v] /\ wraw'[v] = wraw[v]
    BY <1>8, <2>1 DEF AdvFreeRaw, TypeOK, CountersType
  <2>3. /\ wfreed[w] \in Nat /\ wdone[w] \in Nat /\ wraw[w] \in SUBSET Blocks
        /\ wtaken[w] \in SUBSET Blocks /\ b \in Blocks /\ Bytes[b] \in Nat /\ Budget \in Nat
    BY CollectorAssumption DEF TypeOK, CountersType
  <2>4. WithinBudget(wpc[w], wfreed[w], wtaken[w], wdone[w], wraw[w])
    BY DEF BudgetInv
  <2>5. CASE wpc[w] = "budgeted"
    <3>1. SumBytes(wraw[w]) <= wfreed[w]
      BY <2>4, <2>5 DEF WithinBudget
    <3>2. /\ SumBytes(wraw[w] \cup {b}) <= wfreed[w] + Bytes[b]
          /\ wfreed[w] + Bytes[b] <= Budget \/ Cardinality(wraw[w] \cup {b}) = 1
      BY <2>1, <2>3, <2>5, <3>1, FreeWithin DEF Fits
    <3>3. WithinBudget("budgeted", wfreed[w] + Bytes[b], wtaken'[w], wdone'[w], wraw[w] \cup {b})
      BY <3>2 DEF WithinBudget, Advancing, Draining
    <3>4. wpc'[w] = "budgeted" /\ wfreed'[w] = wfreed[w] + Bytes[b] /\ wraw'[w] = wraw[w] \cup {b}
      BY <2>2, <2>5
    <3>5. WithinBudget(wpc'[w], wfreed'[w], wtaken'[w], wdone'[w], wraw'[w])
      BY <3>3, <3>4, Zenon
    <3> QED BY <2>2, <3>5, BudgetFrame
  <2>6. CASE wpc[w] = "plain"
    <3>1. SumBytes(wtaken[w]) = SumBytes(wtaken[w] \ {b}) + Bytes[b]
      BY <2>3, SumRemove
    <3>2. SumBytes(wraw[w] \cup {b}) <= SumBytes(wraw[w]) + Bytes[b]
      BY <2>3, SumInsertBound
    <3>3. /\ SumBytes(wtaken[w] \ {b}) \in Nat
          /\ SumBytes(wraw[w]) \in Nat /\ SumBytes(wraw[w] \cup {b}) \in Nat
      BY <2>3, SumType
    <3>4. WithinBudget("plain", wfreed[w], wtaken[w] \ {b}, wdone[w] + Bytes[b], wraw[w] \cup {b})
      BY <2>3, <2>4, <2>6, <3>1, <3>2, <3>3 DEF WithinBudget, Advancing, Draining
    <3>5. /\ wpc'[w] = "plain" /\ wfreed'[w] = wfreed[w] /\ wraw'[w] = wraw[w] \cup {b}
          /\ wtaken'[w] = wtaken[w] \ {b} /\ wdone'[w] = wdone[w] + Bytes[b]
      BY <2>2, <2>6
    <3>6. WithinBudget(wpc'[w], wfreed'[w], wtaken'[w], wdone'[w], wraw'[w])
      BY <3>4, <3>5, Zenon
    <3> QED BY <2>2, <3>6, BudgetFrame
  <2> QED BY <2>2, <2>5, <2>6
<1>9. ASSUME NEW w \in Writers, AdvCarryTail(w) PROVE BudgetInv'
  <2>1. /\ UNCHANGED <<wfreed, wraw>> /\ wpc[w] = "budgeted" /\ wpc'[w] = "subtract"
        /\ \A v \in Writers : v # w =>
             wpc'[v] = wpc[v] /\ wtaken'[v] = wtaken[v] /\ wdone'[v] = wdone[v]
    BY <1>9 DEF AdvCarryTail, TypeOK, CountersType
  <2>2. WithinBudget("subtract", wfreed[w], wtaken'[w], wdone'[w], wraw[w])
    BY <2>1 DEF BudgetInv, WithinBudget, Advancing, Draining
  <2>3. WithinBudget(wpc'[w], wfreed'[w], wtaken'[w], wdone'[w], wraw'[w])
    BY <2>1, <2>2, Zenon
  <2> QED BY <2>1, <2>3, BudgetFrame
<1>10. ASSUME NEW w \in Writers, AdvSubtract(w) PROVE BudgetInv'
  <2>1. /\ UNCHANGED <<wtaken, wdone, wraw>>
        /\ wpc[w] \in {"plain", "budgeted", "subtract"} /\ wpc'[w] = "drain"
        /\ wfreed'[w] = IF wpc[w] = "plain" THEN wfreed[w] + wdone[w] ELSE wfreed[w]
        /\ \A v \in Writers : v # w => wpc'[v] = wpc[v] /\ wfreed'[v] = wfreed[v]
    BY <1>10 DEF AdvSubtract, TypeOK, CountersType
  <2>2. /\ wfreed[w] \in Nat /\ wdone[w] \in Nat /\ Budget \in Nat
        /\ SumBytes(wtaken[w]) \in Nat /\ SumBytes(wraw[w]) \in Nat
    BY SumType, CollectorAssumption DEF TypeOK, CountersType
  <2>3. WithinBudget(wpc[w], wfreed[w], wtaken[w], wdone[w], wraw[w])
    BY DEF BudgetInv
  <2>4. WithinBudget("drain", wfreed'[w], wtaken[w], wdone[w], wraw[w])
    BY <2>1, <2>2, <2>3 DEF WithinBudget, Advancing, Draining
  <2>5. WithinBudget(wpc'[w], wfreed'[w], wtaken'[w], wdone'[w], wraw'[w])
    BY <2>1, <2>4, Zenon
  <2> QED BY <2>1, <2>5, BudgetFrame
<1>11. ASSUME NEW s \in Stripes, ReleaseFreeList(s) PROVE BudgetInv'
  BY <1>0, <1>11 DEF ReleaseFreeList
<1>12. ASSUME Drop PROVE BudgetInv'
  BY <1>0, <1>12 DEF Drop
<1>13. ASSUME UNCHANGED vars PROVE BudgetInv'
  BY <1>0, <1>13
<1>14. QED
  BY <1>1, <1>2, <1>3, <1>4, <1>5, <1>6, <1>7, <1>8, <1>9, <1>10, <1>11, <1>12, <1>13
     DEF Next, Mutate, Retire, TryAdvance, Drain, Terminated

\* After the drop nothing of the tree is left and nothing moves.
LEMMA GoneStep ==
  TypeOK /\ ControlInv /\ NotLost /\ CountersType /\ StripesExact /\ CarryExact /\ GoneInv
    /\ [Next]_vars => GoneInv'
<1> SUFFICES ASSUME TypeOK, ControlInv, NotLost, CountersType, StripesExact, CarryExact, GoneInv,
                    [Next]_vars
             PROVE  GoneInv'
  OBVIOUS
<1> USE DEF vars, globalVars, memVars, readerVars, advVars
<1>1. ASSUME UNCHANGED <<alive, wpc, sys, carriedBytes, retained>> PROVE GoneInv'
  BY <1>1 DEF GoneInv, NothingOutlives
<1>2. ASSUME NEW r \in Readers, ReaderNext(r) PROVE GoneInv'
  <2>1. UNCHANGED <<alive, wpc, sys, carriedBytes, retained>>
    BY <1>2 DEF ReaderNext, Register, Deregister, Pin, PinLoad, PinStore, PinRetry, PinDone, Unpin
  <2> QED BY <1>1, <2>1
<1>3. ASSUME NEW w \in Writers, Mutate(w) \/ TryAdvance(w) PROVE GoneInv'
  <2>1. alive \/ wpc[w] # "idle"
    BY <1>3 DEF Mutate, AllocPop, AllocSystem, Publish, RecycleUnpublished, Unlink, Retire,
         RetireFence, RetireLoad, RetirePush, TryAdvance, AdvLock, AdvFreeCarried, AdvBeginScan,
         AdvScan, AdvBlocked, AdvScanned, AdvCas, Drain, AdvSkip, AdvTake, AdvReclaim, AdvFreeRaw,
         AdvCarryTail, AdvSubtract, AdvReturn
  <2>2. alive
    BY <2>1 DEF GoneInv
  <2>3. alive' = alive
    BY <1>3 DEF Mutate, AllocPop, AllocSystem, Publish, RecycleUnpublished, Unlink, Retire,
         RetireFence, RetireLoad, RetirePush, TryAdvance, AdvLock, AdvFreeCarried, AdvBeginScan,
         AdvScan, AdvBlocked, AdvScanned, AdvCas, Drain, AdvSkip, AdvTake, AdvReclaim, AdvFreeRaw,
         AdvCarryTail, AdvSubtract, AdvReturn
  <2> QED BY <2>2, <2>3 DEF GoneInv
<1>4. ASSUME NEW s \in Stripes, ReleaseFreeList(s) PROVE GoneInv'
  BY <1>4 DEF ReleaseFreeList, GoneInv
<1>5. ASSUME Drop PROVE GoneInv'
  <2>1. \A w \in Writers : /\ wpc[w] = "idle" /\ wpc'[w] = "idle"
                            /\ wtaken[w] = {} /\ wblk[w] \notin Blocks
    BY <1>5, CollectorAssumption DEF Drop, ControlInv, Busy
  <2>2. sys' = sys \cup live \cup carry \cup AllFree \cup AllQueued
    BY <1>5 DEF Drop
  <2>3. Blocks \subseteq sys'
    <3>1. \A s \in Stripes : freelist[s] \subseteq AllFree
      BY DEF AllFree
    <3>2. \A i \in Bins, s \in Stripes : bins[i][s] \subseteq AllQueued
      BY DEF AllQueued
    <3> QED BY <2>1, <2>2, <3>1, <3>2 DEF NotLost
  <2>4. sys' \subseteq Blocks
    <3>1. AllFree \subseteq Blocks
      BY DEF TypeOK, AllFree
    <3>2. AllQueued \subseteq Blocks
      BY DEF TypeOK, AllQueued
    <3> QED BY <2>2, <3>1, <3>2 DEF TypeOK
  <2>5. carriedBytes' = 0
    <3>1. carriedBytes = SumBytes(carry) /\ SumBytes(carry) \in Nat
      BY <2>1, SumType DEF CarryExact, TypeOK
    <3> QED BY <1>5, <3>1 DEF Drop
  <2>6. ASSUME NEW s \in Stripes PROVE retained'[s] = 0
    <3>1. retained[s] = SumBytes(Queued(s)) /\ SumBytes(Queued(s)) \in Nat
      BY <2>1, UnsettledExact, QueuedType, SumType DEF Settling
    <3>2. retained'[s] = retained[s] - SumBytes(Queued(s))
      BY <1>5 DEF Drop
    <3> QED BY <3>1, <3>2
  <2> QED BY <2>1, <2>3, <2>4, <2>5, <2>6 DEF GoneInv, NothingOutlives
<1>6. ASSUME UNCHANGED vars PROVE GoneInv'
  BY <1>1, <1>6
<1>7. QED
  BY <1>2, <1>3, <1>4, <1>5, <1>6 DEF Next, Terminated

\* The initial states have nothing retired and nothing counted.
LEMMA BooksInit == Init => BooksInv
<1> SUFFICES ASSUME Init PROVE BooksInv
  OBVIOUS
<1>1. CountersType
  BY DEF Init, CountersType
<1>2. \A w \in Writers, s \in Stripes : ~Settling(w, s)
  BY DEF Init, Settling
<1>3. ASSUME NEW s \in Stripes PROVE retained[s] = SumBytes(Queued(s))
  <2>1. Queued(s) = {}
    BY DEF Init, Queued
  <2>2. SumBytes(Queued(s)) = SumBytes({})
    BY <2>1, Zenon
  <2> QED BY <2>2, SumEmpty DEF Init
<1>4. StripesExact
  BY <1>2, <1>3 DEF StripesExact
<1>5. CarryExact
  BY SumEmpty DEF Init, CarryExact
<1>6. \A w \in Writers : /\ wpc[w] = "idle" /\ wfreed[w] = 0 /\ wraw[w] = {}
                         /\ SumBytes(wraw[w]) = 0
  BY SumEmpty DEF Init
<1>7. BudgetInv
  BY <1>6, CollectorAssumption DEF BudgetInv, WithinBudget
<1>8. GoneInv
  BY DEF Init, GoneInv
<1>9. QED
  BY <1>1, <1>4, <1>5, <1>7, <1>8 DEF BooksInv

\* Every step preserves the books.
LEMMA BooksStep == IInv /\ BooksInv /\ [Next]_vars => BooksInv'
  BY CountersStep, StripesStep, CarryStep, BudgetStep, GoneStep DEF IInv, OneOwner, BooksInv

\* The books are right in every reachable state.
LEMMA BooksAlways == Spec => []BooksInv
  BY Invariance, BooksInit, BooksStep, PTL DEF Spec

\* The byte counters of every stripe and of the carry list equal the bytes
\* waiting there, up to what the one advancer has yet to settle: fetch_sub
\* never wraps and nothing is counted twice or forgotten.
THEOREM CountersExact == Spec => []AccountingExact
<1>1. BooksInv => AccountingExact
  BY DEF BooksInv, AccountingExact
<1>2. QED
  BY <1>1, BooksAlways, PTL

\* One try_advance frees at most Budget bytes of unclassed blocks past the
\* first, carried blocks, plain and budgeted loops taken together.
THEOREM FreesWithinBudget == Spec => []BudgetRespected
<1>1. IInv /\ BooksInv => BudgetRespected
  <2> SUFFICES ASSUME IInv, BooksInv, NEW w \in Writers
               PROVE  SumBytes(wraw[w]) <= Budget \/ Cardinality(wraw[w]) = 1
    BY DEF BudgetRespected
  <2>1. WithinBudget(wpc[w], wfreed[w], wtaken[w], wdone[w], wraw[w])
    BY DEF BooksInv, BudgetInv
  <2>2. /\ SumBytes(wraw[w]) \in Nat /\ SumBytes(wtaken[w]) \in Nat
        /\ wfreed[w] \in Nat /\ wdone[w] \in Nat /\ Budget \in Nat
    BY SumType, CollectorAssumption DEF IInv, TypeOK, BooksInv, CountersType
  <2> QED BY <2>1, <2>2 DEF WithinBudget
<1>2. QED
  BY <1>1, Invariance, BooksAlways, PTL

\* Once the tree is dropped every block is back with the system allocator and
\* every counter is zero.
THEOREM DropReturnsAll == Spec => []NothingOutlives
<1>1. BooksInv => NothingOutlives
  BY DEF BooksInv, GoneInv, NothingOutlives
<1>2. QED
  BY <1>1, BooksAlways, PTL
==============================================================================
