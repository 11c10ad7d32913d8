-------------------------- MODULE SharedTreeProofs ---------------------------
(* The shared tree implements the writer gate, so what is proved of the gate  *)
(* holds of every mutation, serialised section and read.  Its populations are *)
(* exact: an invariant of the counter, the engine's stored populations, the   *)
(* published root and the tree word, and the proof that every step keeps it.  *)
EXTENDS SharedTree, TLAPS, FiniteSetTheorems

(* The gate starts as the tree's initial state has it. *)
LEMMA InitGate == Init => G!Init
  BY DEF Init

(* A call enters the gate's protocol or leaves the gate alone. *)
LEMMA CallGate ==
  ASSUME NEW t \in Threads, Call(t)
  PROVE  G!Next \/ UNCHANGED gate
  <1>1. CASE G!StartWriter(t)  BY <1>1 DEF G!Next
  <1>2. CASE G!StartSerial(t)  BY <1>2 DEF G!Next
  <1>3. CASE UNCHANGED gate    BY <1>3
  <1> QED  BY <1>1, <1>2, <1>3 DEF Call

(* Each step of AtGate is a step of the gate. *)
LEMMA AtGateGate ==
  ASSUME NEW t \in Threads, AtGate(t)
  PROVE  G!Next
  BY DEF AtGate, G!Next, G!Progress

(* Each step of a running operation is one step of the gate or none. *)
LEMMA WorkGate ==
  ASSUME NEW t \in Threads, Work(t)
  PROVE  G!Next \/ UNCHANGED gate
  <1>1. CASE AtGate(t)
    BY <1>1, AtGateGate
  <1>2. CASE TryFallback(t) \/ OlcFallback(t) \/ OlcDone(t)
    BY <1>2 DEF TryFallback, OlcFallback, OlcDone, G!Next, G!Progress
  <1>3. CASE CoverUnwind(t) \/ ViewUnwind(t)
    BY <1>3 DEF CoverUnwind, ViewUnwind, G!Next, G!Progress
  <1>4. CASE ReadRetry(t)
    BY <1>4 DEF ReadRetry, G!Next
  <1>5. CASE TryDescend(t) \/ OlcRetry(t) \/ OlcNothing(t) \/ OlcApply(t)
             \/ OlcMark(t) \/ PopAdd(t)
    BY <1>5 DEF TryDescend, OlcRetry, OlcNothing, OlcApply, OlcMark, PopAdd
  <1>6. CASE CoverBegin(t) \/ CoverApply(t) \/ CoverPublish(t) \/ CoverCount(t)
    BY <1>6 DEF CoverBegin, CoverApply, CoverPublish, CoverCount
  <1>7. CASE FlushBase(t) \/ FlushShard(t) \/ FlushDone(t)
    BY <1>7 DEF FlushBase, FlushShard, FlushDone
  <1>8. CASE LockedFold(t) \/ RefreshBegin(t) \/ RefreshEnd(t) \/ ViewReturn(t)
    BY <1>8 DEF LockedFold, RefreshBegin, RefreshEnd, ViewReturn
  <1>9. CASE ReadSample(t) \/ ReadLoad(t) \/ ReadAnswer(t) \/ ReadLocked(t) \/ ReadReturn(t)
    BY <1>9 DEF ReadSample, ReadLoad, ReadAnswer, ReadLocked, ReadReturn
  <1>10. CASE SumBase(t) \/ SumShard(t) \/ SumDone(t)
    BY <1>10 DEF SumBase, SumShard, SumDone
  <1> QED  BY <1>1, <1>2, <1>3, <1>4, <1>5, <1>6, <1>7, <1>8, <1>9, <1>10 DEF Work

(* A step of the tree is a step of the gate or a stutter of it. *)
LEMMA StepGate == [Next]_vars => [G!Next]_(G!gvars)
  <1> SUFFICES ASSUME [Next]_vars PROVE G!Next \/ UNCHANGED gate
    BY DEF gate, G!gvars
  <1>1. CASE UNCHANGED vars  BY <1>1 DEF vars
  <1>2. CASE Finished        BY <1>2 DEF Finished, vars
  <1>3. ASSUME NEW t \in Threads, Call(t) PROVE G!Next \/ UNCHANGED gate
    BY <1>3, CallGate
  <1>4. ASSUME NEW t \in Threads, Evict(t) PROVE G!Next \/ UNCHANGED gate
    BY <1>4 DEF Evict, G!Next
  <1>5. ASSUME NEW t \in Threads, Work(t) PROVE G!Next \/ UNCHANGED gate
    BY <1>5, WorkGate
  <1> QED  BY <1>1, <1>2, <1>3, <1>4, <1>5 DEF Next

(* For any threads, keys and slots, the mutations, serialised sections and
   reads of Shared<T> follow the gate's protocol: a guard is dropped before its
   thread closes the gate, and the guards of a section drop in order, unwinding
   included (sync.rs insert, remove, write_root_covered_with, with_locked). *)
THEOREM TreeImplementsGate == Spec => GateSpec
  BY InitGate, StepGate, PTL DEF Spec, GateSpec, G!Spec

------------------------------------------------------------------------------
(* The gate's theorems, for the tree's variables. *)
W == INSTANCE WriterGateProofs

(* The gate's types and exclusion, and the slot of an admitted writer. *)
GateKeeps ==
  /\ G!TypeOK /\ G!Exclusion
  /\ \A t \in Threads : gpc[t] = "in" => slot[t] \in allocated

(* They hold in every behaviour of the tree. *)
LEMMA GateInvariance == Spec => []GateKeeps
  <1>1. /\ NumSlots \in Nat \ {0} /\ Token \in [Threads -> W!Slots]
        /\ W!IsFiniteSet(Threads) /\ NoThread \notin Threads /\ NoSlot \notin W!Slots
    BY GateAssumption DEF W!Slots, W!IsFiniteSet, IsFiniteSet
  <1>2. W!Spec => []W!IInv
    BY <1>1, W!Invariance
  <1>3. W!IInv => GateKeeps
    <2>1. W!IInv => W!Exclusion
      BY <1>1, W!InvSafe
    <2>2. W!Exclusion => G!Exclusion
      BY DEF W!Exclusion, G!Exclusion
    <2>3. W!IInv => G!TypeOK
      BY DEF W!IInv, W!TypeOK, G!TypeOK, W!Slots, G!Slots, W!Protocol, G!Protocol
    <2>4. W!IInv => \A t \in Threads : gpc[t] = "in" => slot[t] \in allocated
      BY DEF W!IInv, W!SlotInv
    <2> QED  BY <2>1, <2>2, <2>3, <2>4 DEF GateKeeps
  <1>4. Init => W!Init
    BY InitGate DEF G!Init, W!Init, G!Slots, W!Slots
  <1>5. G!Next => W!Next
    BY DEF G!StartWriter, W!StartWriter, G!StartSerial, W!StartSerial,
           G!ForgetSlot, W!ForgetSlot, G!AllocateSlot, W!AllocateSlot,
           G!CheckGate, W!CheckGate, G!Announce, W!Announce, G!Admit,
           W!Admit, G!BackOut, W!BackOut, G!ExitDone, W!ExitDone,
           G!ExitFallback, W!ExitFallback, G!LockFallback, W!LockFallback,
           G!MeetPoison, W!MeetPoison, G!CloseGate, W!CloseGate, G!LoadMask,
           W!LoadMask, G!Drain, W!Drain, G!LockWrite, W!LockWrite,
           G!UnlockWrite, W!UnlockWrite, G!OpenGate, W!OpenGate,
           G!UnlockFallback, W!UnlockFallback, G!Unwind, W!Unwind,
           G!UnwindOpen, W!UnwindOpen, G!UnwindRelease, W!UnwindRelease,
           G!Leave, W!Leave, G!Goto, W!Goto, G!FreeSlots, W!FreeSlots,
           G!Slots, W!Slots, G!Progress, W!Progress, G!Next, W!Next
  <1>6. [Next]_vars => [W!Next]_(W!gvars)
    BY <1>5, StepGate DEF G!gvars, W!gvars
  <1> QED  BY <1>2, <1>3, <1>4, <1>6, PTL DEF Spec, W!Spec

------------------------------------------------------------------------------
(* Where the operation stands fixes where its thread stands in the gate. *)
Outside == {"rest", "sample", "load", "validate", "sum", "adding", "answer"}
Waiting == {"check", "announce", "recheck", "serial", "close", "mask", "drain"}
Leaving == {"excl", "open", "release", "unwindOpen", "unwindRelease"}

LinkInv ==
  /\ pc \in [Threads -> Places] /\ after \in [Threads -> Places]
  /\ gpc \in [Threads -> G!Protocol]
  /\ \A t \in Threads :
       /\ pc[t] \in Outside => gpc[t] = "idle"
       /\ pc[t] = "gate" => gpc[t] \in Waiting
       /\ pc[t] \in Optimistic => gpc[t] = "in"
       /\ pc[t] \in Section => gpc[t] = "excl"
       /\ pc[t] = "leave" => gpc[t] \in Leaving
       /\ pc[t] \in {"flush", "shards"} => after[t] \in {"publish", "leave", "refresh", "view"}

(* At rest, every thread is idle in the gate. *)
LEMMA InitLink == Init => LinkInv
  BY DEF Init, G!Init, LinkInv, Places, G!Protocol, Outside, Optimistic, Section

(* The gate's own steps keep the link: each starts from one position of the
   protocol, which the operation's position allows. *)
LEMMA AtGateLink ==
  ASSUME LinkInv, NEW t \in Threads, AtGate(t)
  PROVE  LinkInv'
  <1> USE DEF LinkInv, Places, G!Protocol, G!Goto, Outside, Waiting, Leaving, Optimistic, Section
  <1>1. CASE /\ pc[t] = "gate" /\ UNCHANGED <<pc, op, after, loc>>
             /\ \/ G!AllocateSlot(t) \/ G!CheckGate(t) \/ G!Announce(t) \/ G!BackOut(t)
                \/ G!LockFallback(t) \/ G!CloseGate(t) \/ G!LoadMask(t) \/ G!Drain(t)
    BY <1>1 DEF G!AllocateSlot, G!CheckGate, G!Announce, G!BackOut, G!LockFallback,
                G!CloseGate, G!LoadMask, G!Drain
  <1>2. CASE At(t, "gate", "try") /\ G!Admit(t) /\ UNCHANGED <<op, after, loc>>
    BY <1>2 DEF At, G!Admit
  <1>3. CASE At(t, "gate", "body") /\ G!LockWrite(t) /\ UNCHANGED <<op, after, loc>>
    BY <1>3 DEF At, G!LockWrite
  <1>4. CASE Finish(t, "gate") /\ G!MeetPoison(t)
    BY <1>4 DEF Finish, At, G!MeetPoison
  <1>5. CASE /\ pc[t] = "leave" /\ UNCHANGED <<pc, op, after, loc>>
             /\ G!UnlockWrite(t) \/ G!OpenGate(t) \/ G!UnwindOpen(t)
    BY <1>5 DEF G!UnlockWrite, G!OpenGate, G!UnwindOpen
  <1>6. CASE Finish(t, "leave") /\ (G!UnlockFallback(t) \/ G!UnwindRelease(t))
    BY <1>6 DEF Finish, At, G!UnlockFallback, G!UnwindRelease
  <1> QED  BY <1>1, <1>2, <1>3, <1>4, <1>5, <1>6 DEF AtGate

(* Every step keeps the link, one case per action. *)
LEMMA NextLink == LinkInv /\ [Next]_vars => LinkInv'
  <1> SUFFICES ASSUME LinkInv, [Next]_vars PROVE LinkInv'
    OBVIOUS
  <1> USE DEF LinkInv, Places, G!Protocol, Outside, Waiting, Leaving, Optimistic, Section
  <1>1. CASE UNCHANGED vars
    BY <1>1 DEF vars, gate
  <1>2. CASE Finished
    BY <1>2 DEF Finished, vars, gate
  <1>3. ASSUME NEW t \in Threads, AtGate(t) PROVE LinkInv'
    BY <1>3, AtGateLink
  <1>4. ASSUME NEW t \in Threads, Call(t) PROVE LinkInv'
    BY <1>4 DEF Call, At, G!StartWriter, G!StartSerial, G!Goto, gate
  <1>5. ASSUME NEW t \in Threads, Evict(t) PROVE LinkInv'
    BY <1>5 DEF Evict, G!ForgetSlot
  <1>6. ASSUME NEW t \in Threads, TryFallback(t) PROVE LinkInv'
    BY <1>6 DEF TryFallback, At, G!ExitFallback, G!Goto
  <1>7. ASSUME NEW t \in Threads, TryDescend(t) PROVE LinkInv'
    BY <1>7 DEF TryDescend, At, gate
  <1>8. ASSUME NEW t \in Threads, OlcRetry(t) PROVE LinkInv'
    BY <1>8 DEF OlcRetry, Descend, At, gate
  <1>9. ASSUME NEW t \in Threads, OlcFallback(t) PROVE LinkInv'
    BY <1>9 DEF OlcFallback, Descend, At, G!ExitFallback, G!Goto
  <1>10. ASSUME NEW t \in Threads, OlcNothing(t) PROVE LinkInv'
    BY <1>10 DEF OlcNothing, Descend, At, gate
  <1>11. ASSUME NEW t \in Threads, OlcApply(t) PROVE LinkInv'
    BY <1>11 DEF OlcApply, Descend, At, gate
  <1>12. ASSUME NEW t \in Threads, OlcMark(t) PROVE LinkInv'
    BY <1>12 DEF OlcMark, At, gate
  <1>13. ASSUME NEW t \in Threads, PopAdd(t) PROVE LinkInv'
    BY <1>13 DEF PopAdd, At, gate
  <1>14. ASSUME NEW t \in Threads, OlcDone(t) PROVE LinkInv'
    BY <1>14 DEF OlcDone, Finish, At, G!ExitDone, G!Goto
  <1>15. ASSUME NEW t \in Threads, CoverBegin(t) PROVE LinkInv'
    BY <1>15 DEF CoverBegin, At, gate
  <1>16. ASSUME NEW t \in Threads, CoverApply(t) PROVE LinkInv'
    BY <1>16 DEF CoverApply, FlushTo, At, gate
  <1>17. ASSUME NEW t \in Threads, CoverUnwind(t) PROVE LinkInv'
    BY <1>17 DEF CoverUnwind, At, G!Unwind, G!Goto
  <1>18. ASSUME NEW t \in Threads, CoverPublish(t) PROVE LinkInv'
    BY <1>18 DEF CoverPublish, At, gate
  <1>19. ASSUME NEW t \in Threads, CoverCount(t) PROVE LinkInv'
    BY <1>19 DEF CoverCount, FlushTo, At, gate
  <1>20. ASSUME NEW t \in Threads, FlushBase(t) PROVE LinkInv'
    BY <1>20 DEF FlushBase, At, gate
  <1>21. ASSUME NEW t \in Threads, FlushShard(t) PROVE LinkInv'
    BY <1>21 DEF FlushShard, gate
  <1>22. ASSUME NEW t \in Threads, FlushDone(t) PROVE LinkInv'
    BY <1>22 DEF FlushDone, At, gate
  <1>23. ASSUME NEW t \in Threads, LockedFold(t) PROVE LinkInv'
    BY <1>23 DEF LockedFold, FlushTo, At, gate
  <1>24. ASSUME NEW t \in Threads, RefreshBegin(t) PROVE LinkInv'
    BY <1>24 DEF RefreshBegin, At, gate
  <1>25. ASSUME NEW t \in Threads, RefreshEnd(t) PROVE LinkInv'
    BY <1>25 DEF RefreshEnd, At, gate
  <1>26. ASSUME NEW t \in Threads, ViewReturn(t) PROVE LinkInv'
    BY <1>26 DEF ViewReturn, At, gate
  <1>27. ASSUME NEW t \in Threads, ViewUnwind(t) PROVE LinkInv'
    BY <1>27 DEF ViewUnwind, At, G!Unwind, G!Goto
  <1>28. ASSUME NEW t \in Threads, ReadSample(t) PROVE LinkInv'
    BY <1>28 DEF ReadSample, At, gate
  <1>29. ASSUME NEW t \in Threads, ReadLoad(t) PROVE LinkInv'
    BY <1>29 DEF ReadLoad, At, gate
  <1>30. ASSUME NEW t \in Threads, ReadAnswer(t) PROVE LinkInv'
    BY <1>30 DEF ReadAnswer, At, gate
  <1>31. ASSUME NEW t \in Threads, ReadRetry(t) PROVE LinkInv'
    BY <1>31 DEF ReadRetry, At, G!StartSerial, G!Goto, gate
  <1>32. ASSUME NEW t \in Threads, SumBase(t) PROVE LinkInv'
    BY <1>32 DEF SumBase, At, gate
  <1>33. ASSUME NEW t \in Threads, SumShard(t) PROVE LinkInv'
    BY <1>33 DEF SumShard, gate
  <1>34. ASSUME NEW t \in Threads, SumDone(t) PROVE LinkInv'
    BY <1>34 DEF SumDone, At, gate
  <1>35. ASSUME NEW t \in Threads, ReadLocked(t) PROVE LinkInv'
    BY <1>35 DEF ReadLocked, At, gate
  <1>36. ASSUME NEW t \in Threads, ReadReturn(t) PROVE LinkInv'
    BY <1>36 DEF ReadReturn, Finish, At, gate
  <1> QED
    BY <1>1, <1>2, <1>3, <1>4, <1>5, <1>6, <1>7, <1>8, <1>9, <1>10, <1>11,
       <1>12, <1>13, <1>14, <1>15, <1>16, <1>17, <1>18, <1>19, <1>20, <1>21,
       <1>22, <1>23, <1>24, <1>25, <1>26, <1>27, <1>28, <1>29, <1>30, <1>31,
       <1>32, <1>33, <1>34, <1>35, <1>36
    DEF Next, Work

(* The link holds in every reachable state. *)
LEMMA LinkInvariance == Spec => []LinkInv
  BY InitLink, NextLink, PTL DEF Spec

(* For any threads, keys and slots, a serialised section has the tree to itself:
   no optimistic writer admitted earlier is still inside, and none is admitted
   until the gate reopens (sync.rs write_root_covered_with, read_locked,
   with_locked).  The link carries the gate's exclusion to the operations. *)
THEOREM SectionIsAlone == Spec => []SectionAlone
  <1>1. LinkInv /\ GateKeeps => SectionAlone
    BY DEF LinkInv, GateKeeps, G!Exclusion, SectionAlone
  <1> QED  BY <1>1, LinkInvariance, GateInvariance, PTL

------------------------------------------------------------------------------
(* Sums. *)

(* The units of finitely many integers are finitely many. *)
LEMMA UnitsFinite ==
  ASSUME NEW S, IsFiniteSet(S), NEW f, \A x \in S : f[x] \in Int
  PROVE  IsFiniteSet(Units(f, S))
  <1> DEFINE One(x) == {x} \X (1 .. f[x])
             g == [x \in S |-> One(x)]
             R == {One(x) : x \in S}
  <1>1. g \in Surjection(S, R)
    BY DEF Surjection
  <1>2. IsFiniteSet(R)
    BY <1>1, FS_Surjection
  <1>3. ASSUME NEW x \in S PROVE IsFiniteSet(One(x))
    <2>1. f[x] \in Int /\ 1 \in Int
      OBVIOUS
    <2> QED  BY <2>1, FS_Interval, FS_Singleton, FS_Product
  <1>4. \A T \in R : IsFiniteSet(T)
    BY <1>3
  <1>5. IsFiniteSet(UNION R)
    BY <1>2, <1>4, FS_UNION
  <1> QED  BY <1>5 DEF Units

(* One entry has as many units as it is positive. *)
LEMMA UnitsOne ==
  ASSUME NEW f, NEW x, f[x] \in Int
  PROVE  Cardinality(Units(f, {x})) = IF f[x] > 0 THEN f[x] ELSE 0
  <1>1. Units(f, {x}) = {x} \X (1 .. f[x])
    BY DEF Units
  <1>2. IsFiniteSet(1 .. f[x]) /\ Cardinality(1 .. f[x]) = IF f[x] > 0 THEN f[x] ELSE 0
    <2>1. /\ IsFiniteSet(1 .. f[x])
          /\ Cardinality(1 .. f[x]) = IF 1 > f[x] THEN 0 ELSE f[x] - 1 + 1
      BY FS_Interval
    <2> QED  BY <2>1
  <1>3. IsFiniteSet({x}) /\ Cardinality({x}) = 1
    BY FS_Singleton
  <1>4. Cardinality({x} \X (1 .. f[x])) = 1 * Cardinality(1 .. f[x])
    BY <1>2, <1>3, FS_Product
  <1>5. Cardinality(Units(f, {x})) = 1 * Cardinality(1 .. f[x])
    BY <1>1, <1>4, Zenon
  <1> QED  BY <1>2, <1>5

(* The units of disjoint sets add up. *)
LEMMA UnitsAdd ==
  ASSUME NEW S, IsFiniteSet(S), NEW T, IsFiniteSet(T), S \cap T = {},
         NEW f, \A x \in S \cup T : f[x] \in Int
  PROVE  /\ Cardinality(Units(f, S)) \in Nat /\ Cardinality(Units(f, T)) \in Nat
         /\ Cardinality(Units(f, S \cup T)) = Cardinality(Units(f, S)) + Cardinality(Units(f, T))
  <1>1. IsFiniteSet(Units(f, S)) /\ IsFiniteSet(Units(f, T))
    BY UnitsFinite
  <1>2. Units(f, S \cup T) = Units(f, S) \cup Units(f, T)
    BY DEF Units
  <1>3. Units(f, S) \cap Units(f, T) = {}
    BY DEF Units
  <1>4. Cardinality(Units(f, S) \cap Units(f, T)) = 0
    BY <1>3, FS_EmptySet
  <1>5. Cardinality(Units(f, S)) \in Nat /\ Cardinality(Units(f, T)) \in Nat
    BY <1>1, FS_CardinalityType
  <1>6. Cardinality(Units(f, S \cup T)) = Cardinality(Units(f, S) \cup Units(f, T))
    BY <1>2, Zenon
  <1>7. Cardinality(Units(f, S) \cup Units(f, T))
          = Cardinality(Units(f, S)) + Cardinality(Units(f, T))
            - Cardinality(Units(f, S) \cap Units(f, T))
    BY <1>1, FS_Union
  <1> QED  BY <1>4, <1>5, <1>6, <1>7

(* The units depend on the entries summed alone. *)
LEMMA UnitsSame ==
  ASSUME NEW S, NEW f, NEW g, \A x \in S : f[x] = g[x]
  PROVE  Units(f, S) = Units(g, S)
  BY DEF Units

(* A sum depends on the entries summed alone. *)
LEMMA TotalSame ==
  ASSUME NEW S, NEW f, NEW g, \A x \in S : f[x] = g[x]
  PROVE  Total(f, S) = Total(g, S)
  <1> DEFINE nf == [x \in S |-> -f[x]]
             ng == [x \in S |-> -g[x]]
  <1>1. Units(f, S) = Units(g, S)
    BY UnitsSame
  <1>2. Units(nf, S) = Units(ng, S)
    <2>1. \A x \in S : nf[x] = ng[x]
      OBVIOUS
    <2> HIDE DEF nf, ng
    <2> QED  BY <2>1, UnitsSame
  <1> QED  BY <1>1, <1>2, Zenon DEF Total

LEMMA TotalType ==
  ASSUME NEW S, IsFiniteSet(S), NEW f, \A x \in S : f[x] \in Int
  PROVE  Total(f, S) \in Int
  <1> DEFINE nf == [x \in S |-> -f[x]]
  <1>1. \A x \in S : nf[x] \in Int
    OBVIOUS
  <1> HIDE DEF nf
  <1>2. IsFiniteSet(Units(f, S)) /\ IsFiniteSet(Units(nf, S))
    BY <1>1, UnitsFinite
  <1>3. Cardinality(Units(f, S)) \in Nat /\ Cardinality(Units(nf, S)) \in Nat
    BY <1>2, FS_CardinalityType
  <1> QED  BY <1>3 DEF Total, nf

(* A sum of natural numbers is one. *)
LEMMA TotalNat ==
  ASSUME NEW S, IsFiniteSet(S), NEW f, \A x \in S : f[x] \in Nat
  PROVE  Total(f, S) \in Nat
  <1> DEFINE nf == [x \in S |-> -f[x]]
  <1>1. \A x \in S : 1 .. nf[x] = {}
    OBVIOUS
  <1>2. Total(f, S) = Cardinality(Units(f, S)) - Cardinality(Units(nf, S))
    BY DEF Total
  <1> HIDE DEF nf
  <1>3. Units(nf, S) = {}
    BY <1>1 DEF Units
  <1>4. Cardinality(Units(nf, S)) = 0
    BY <1>3, FS_EmptySet
  <1>5. IsFiniteSet(Units(f, S))
    BY UnitsFinite
  <1> QED  BY <1>2, <1>4, <1>5, FS_CardinalityType

LEMMA TotalAdd ==
  ASSUME NEW S, IsFiniteSet(S), NEW T, IsFiniteSet(T), S \cap T = {},
         NEW f, \A x \in S \cup T : f[x] \in Int
  PROVE  Total(f, S \cup T) = Total(f, S) + Total(f, T)
  <1> DEFINE nf == [x \in S \cup T |-> -f[x]]
             ns == [x \in S |-> -f[x]]
             nt == [x \in T |-> -f[x]]
  <1>1. \A x \in S \cup T : nf[x] \in Int
    OBVIOUS
  <1>2. (\A x \in S : nf[x] = ns[x]) /\ (\A x \in T : nf[x] = nt[x])
    OBVIOUS
  <1>3. /\ Total(f, S \cup T) = Cardinality(Units(f, S \cup T)) - Cardinality(Units(nf, S \cup T))
        /\ Total(f, S) = Cardinality(Units(f, S)) - Cardinality(Units(ns, S))
        /\ Total(f, T) = Cardinality(Units(f, T)) - Cardinality(Units(nt, T))
    BY DEF Total
  <1> HIDE DEF nf, ns, nt
  <1>4. Units(nf, S) = Units(ns, S) /\ Units(nf, T) = Units(nt, T)
    BY <1>2, UnitsSame
  <1>5. /\ Cardinality(Units(f, S)) \in Nat /\ Cardinality(Units(f, T)) \in Nat
        /\ Cardinality(Units(f, S \cup T)) = Cardinality(Units(f, S)) + Cardinality(Units(f, T))
    BY UnitsAdd
  <1>6. /\ Cardinality(Units(nf, S)) \in Nat /\ Cardinality(Units(nf, T)) \in Nat
        /\ Cardinality(Units(nf, S \cup T)) = Cardinality(Units(nf, S)) + Cardinality(Units(nf, T))
    BY <1>1, UnitsAdd
  <1>7. /\ Cardinality(Units(nf, S)) = Cardinality(Units(ns, S))
        /\ Cardinality(Units(nf, T)) = Cardinality(Units(nt, T))
    BY <1>4, Zenon
  <1> QED  BY <1>3, <1>5, <1>6, <1>7

LEMMA TotalOne ==
  ASSUME NEW f, NEW x, f[x] \in Int
  PROVE  Total(f, {x}) = f[x]
  <1> DEFINE nf == [y \in {x} |-> -f[y]]
  <1>1. nf[x] = -f[x] /\ nf[x] \in Int
    OBVIOUS
  <1>2. Total(f, {x}) = Cardinality(Units(f, {x})) - Cardinality(Units(nf, {x}))
    BY DEF Total
  <1> HIDE DEF nf
  <1>3. Cardinality(Units(f, {x})) = IF f[x] > 0 THEN f[x] ELSE 0
    BY UnitsOne
  <1>4. Cardinality(Units(nf, {x})) = IF nf[x] > 0 THEN nf[x] ELSE 0
    BY <1>1, UnitsOne
  <1> QED  BY <1>1, <1>2, <1>3, <1>4

LEMMA TotalZero ==
  ASSUME NEW S, NEW f, \A x \in S : f[x] = 0
  PROVE  Total(f, S) = 0
  <1> DEFINE nf == [x \in S |-> -f[x]]
  <1>1. Units(f, S) = {}
    BY DEF Units
  <1>2. Units(nf, S) = {}
    <2>1. \A x \in S : nf[x] = 0
      OBVIOUS
    <2> HIDE DEF nf
    <2> QED  BY <2>1 DEF Units
  <1>3. Total(f, S) = Cardinality(Units(f, S)) - Cardinality(Units(nf, S))
    BY DEF Total
  <1> HIDE DEF nf
  <1>4. Cardinality(Units(f, S)) = 0 /\ Cardinality(Units(nf, S)) = 0
    BY <1>1, <1>2, FS_EmptySet
  <1> QED  BY <1>3, <1>4

(* One entry apart from the rest. *)
LEMMA TotalRemove ==
  ASSUME NEW S, IsFiniteSet(S), NEW f, \A x \in S : f[x] \in Int, NEW x \in S
  PROVE  Total(f, S) = Total(f, S \ {x}) + f[x] /\ Total(f, S \ {x}) \in Int
  <1>1. IsFiniteSet(S \ {x}) /\ IsFiniteSet({x})
    BY FS_RemoveElement, FS_Singleton
  <1>2. S = (S \ {x}) \cup {x} /\ (S \ {x}) \cap {x} = {}
    OBVIOUS
  <1>3. Total(f, (S \ {x}) \cup {x}) = Total(f, S \ {x}) + Total(f, {x})
    BY <1>1, TotalAdd
  <1>4. Total(f, S) = Total(f, (S \ {x}) \cup {x})
    BY <1>2, Zenon
  <1>5. Total(f, S \ {x}) \in Int
    BY <1>1, TotalType
  <1> QED  BY <1>3, <1>4, <1>5, TotalOne

(* A step that moves one entry moves the sum by as much. *)
LEMMA TotalUpdate ==
  ASSUME NEW S, IsFiniteSet(S), NEW f \in [S -> Int], NEW g \in [S -> Int], NEW x \in S,
         \A y \in S \ {x} : g[y] = f[y]
  PROVE  Total(g, S) = Total(f, S) + (g[x] - f[x])
  <1>1. Total(f, S) = Total(f, S \ {x}) + f[x] /\ Total(f, S \ {x}) \in Int
    BY TotalRemove
  <1>2. Total(g, S) = Total(g, S \ {x}) + g[x]
    BY TotalRemove
  <1>3. Total(g, S \ {x}) = Total(f, S \ {x})
    BY TotalSame
  <1> QED  BY <1>1, <1>2, <1>3

(* A sum with one entry that may be nonzero. *)
LEMMA TotalSingle ==
  ASSUME NEW S, IsFiniteSet(S), NEW f, NEW x \in S, f[x] \in Int,
         \A y \in S \ {x} : f[y] = 0
  PROVE  Total(f, S) = f[x]
  <1>1. \A y \in S : f[y] \in Int
    OBVIOUS
  <1>2. Total(f, S) = Total(f, S \ {x}) + f[x]
    BY <1>1, TotalRemove
  <1>3. Total(f, S \ {x}) = 0
    BY TotalZero
  <1> QED  BY <1>2, <1>3

(* Zero entries may be left out. *)
LEMMA TotalSubset ==
  ASSUME NEW S, IsFiniteSet(S), NEW T \in SUBSET S, NEW f, \A x \in S : f[x] \in Int,
         \A x \in S \ T : f[x] = 0
  PROVE  Total(f, S) = Total(f, T)
  <1>1. IsFiniteSet(T) /\ IsFiniteSet(S \ T)
    BY FS_Subset
  <1>2. S = T \cup (S \ T) /\ T \cap (S \ T) = {}
    OBVIOUS
  <1>3. Total(f, T \cup (S \ T)) = Total(f, T) + Total(f, S \ T)
    BY <1>1, <1>2, TotalAdd
  <1>4. Total(f, S) = Total(f, T \cup (S \ T))
    BY <1>2, Zenon
  <1>5. Total(f, S \ T) = 0 /\ Total(f, T) \in Int
    BY <1>1, TotalZero, TotalType
  <1> QED  BY <1>3, <1>4, <1>5

------------------------------------------------------------------------------
(* Counts of keys. *)

Child(d, S) == {k \in S : DigitOf[k] = d}

(* The keys, and those of a child, are finitely many. *)
LEMMA KeysFinite ==
  ASSUME NEW K \in SUBSET Keys
  PROVE  /\ IsFiniteSet(K) /\ Cardinality(K) \in Nat
         /\ \A d : IsFiniteSet(Child(d, K)) /\ Count(d, K) \in Nat
         /\ \A d : Count(d, K) = Cardinality(Child(d, K))
  <1>1. IsFiniteSet(K)
    BY TreeAssumption, FS_Subset
  <1>2. ASSUME NEW d PROVE IsFiniteSet(Child(d, K))
    BY <1>1, FS_Subset DEF Child
  <1>3. \A d : Count(d, K) = Cardinality(Child(d, K))
    BY DEF Count, Child
  <1> QED  BY <1>1, <1>2, <1>3, FS_CardinalityType

(* The children's counts are natural numbers and sum to the population: the
   units of the counts are the keys, one child after the other. *)
LEMMA CountsTotal ==
  ASSUME NEW K \in SUBSET Keys
  PROVE  Counts(K) \in [Digits -> Nat] /\ Total(Counts(K), Digits) = Cardinality(K)
  <1> DEFINE c == Counts(K)
             nc == [d \in Digits |-> -c[d]]
             B == [d \in Digits |-> CHOOSE b : b \in Bijection(1 .. c[d], Child(d, K))]
             h == [p \in Units(c, Digits) |-> B[p[1]][p[2]]]
  <1>1. \A d \in Digits : c[d] = Count(d, K) /\ c[d] = Cardinality(Child(d, K)) /\ c[d] \in Nat
    BY KeysFinite DEF Counts
  <1>2. ASSUME NEW d \in Digits PROVE B[d] \in Bijection(1 .. c[d], Child(d, K))
    <2>1. ExistsBijection(1 .. Cardinality(Child(d, K)), Child(d, K))
      BY KeysFinite, FS_CardinalityType
    <2>2. \E b : b \in Bijection(1 .. c[d], Child(d, K))
      BY <1>1, <2>1 DEF ExistsBijection
    <2> QED  BY <2>2
  <1>3. c \in [Digits -> Nat]
    BY <1>1 DEF Counts
  <1>4. \A p : p \in Units(c, Digits) <=> \E d \in Digits, i \in Nat : i \in 1 .. c[d] /\ p = <<d, i>>
    BY DEF Units
  <1> HIDE DEF c, B
  <1>5. h \in [Units(c, Digits) -> K]
    <2> SUFFICES ASSUME NEW p \in Units(c, Digits) PROVE B[p[1]][p[2]] \in K
      OBVIOUS
    <2>1. PICK d \in Digits, i \in Nat : i \in 1 .. c[d] /\ p = <<d, i>>
      BY <1>4
    <2>2. B[d] \in Bijection(1 .. c[d], Child(d, K))
      BY <1>2
    <2> QED  BY <2>1, <2>2 DEF Bijection, Injection, Child
  <1>6. ASSUME NEW p \in Units(c, Digits), NEW q \in Units(c, Digits), h[p] = h[q]
        PROVE  p = q
    <2>1. PICK d \in Digits, i \in Nat : i \in 1 .. c[d] /\ p = <<d, i>>
      BY <1>4
    <2>2. PICK e \in Digits, j \in Nat : j \in 1 .. c[e] /\ q = <<e, j>>
      BY <1>4
    <2>3. B[d] \in Bijection(1 .. c[d], Child(d, K)) /\ B[e] \in Bijection(1 .. c[e], Child(e, K))
      BY <1>2
    <2>4. B[d][i] \in Child(d, K) /\ B[e][j] \in Child(e, K)
      BY <2>1, <2>2, <2>3 DEF Bijection, Injection
    <2>5. B[d][i] = B[e][j]
      BY <1>6, <2>1, <2>2
    <2>6. d = e
      BY <2>4, <2>5 DEF Child
    <2>7. i = j
      BY <2>1, <2>2, <2>3, <2>5, <2>6 DEF Bijection, Injection, IsInjective
    <2> QED  BY <2>1, <2>2, <2>6, <2>7
  <1>7. ASSUME NEW k \in K PROVE \E p \in Units(c, Digits) : h[p] = k
    <2>1. PICK d \in Digits : k \in Child(d, K)
      BY TreeAssumption DEF Child
    <2>2. B[d] \in Bijection(1 .. c[d], Child(d, K))
      BY <1>2, <2>1
    <2>3. PICK i \in 1 .. c[d] : B[d][i] = k
      BY <2>1, <2>2 DEF Bijection, Surjection
    <2>4. <<d, i>> \in Units(c, Digits)
      BY <1>4, <2>1
    <2> QED  BY <2>3, <2>4
  <1>8. h \in Bijection(Units(c, Digits), K)
    BY <1>5, <1>6, <1>7 DEF Bijection, Injection, IsInjective, Surjection
  <1>9. Cardinality(Units(c, Digits)) = Cardinality(K)
    <2>1. IsFiniteSet(Units(c, Digits))
      BY <1>3, UnitsFinite, TreeAssumption
    <2> QED  BY <1>8, <2>1, FS_Bijection DEF ExistsBijection
  <1>10. Cardinality(Units(nc, Digits)) = 0
    <2>1. \A d \in Digits : 1 .. nc[d] = {}
      BY <1>3
    <2> HIDE DEF nc
    <2>2. Units(nc, Digits) = {}
      BY <2>1 DEF Units
    <2> QED  BY <2>2, FS_EmptySet
  <1>11. Total(c, Digits) = Cardinality(Units(c, Digits)) - Cardinality(Units(nc, Digits))
    BY DEF Total
  <1>12. Total(c, Digits) = Cardinality(K)
    BY <1>9, <1>10, <1>11, KeysFinite
  <1> QED  BY <1>3, <1>12 DEF c

(* A key more, and a key less. *)
LEMMA KeyAdded ==
  ASSUME NEW K \in SUBSET Keys, NEW k \in Keys, k \notin K
  PROVE  /\ Cardinality(K \cup {k}) = Cardinality(K) + 1
         /\ Count(DigitOf[k], K \cup {k}) = Count(DigitOf[k], K) + 1
         /\ \A d : d # DigitOf[k] => Count(d, K \cup {k}) = Count(d, K)
  <1>1. Cardinality(K \cup {k}) = Cardinality(K) + 1
    BY KeysFinite, FS_AddElement
  <1>2. Count(DigitOf[k], K \cup {k}) = Count(DigitOf[k], K) + 1
    <2>1. {j \in K \cup {k} : DigitOf[j] = DigitOf[k]} = Child(DigitOf[k], K) \cup {k}
      BY DEF Child
    <2>2. Count(DigitOf[k], K \cup {k}) = Cardinality(Child(DigitOf[k], K) \cup {k})
      BY <2>1, Zenon DEF Count
    <2>3. k \notin Child(DigitOf[k], K)
      BY DEF Child
    <2>4. /\ IsFiniteSet(Child(DigitOf[k], K))
          /\ Count(DigitOf[k], K) = Cardinality(Child(DigitOf[k], K))
      BY KeysFinite
    <2>5. Cardinality(Child(DigitOf[k], K) \cup {k}) = Cardinality(Child(DigitOf[k], K)) + 1
      BY <2>3, <2>4, FS_AddElement
    <2> QED  BY <2>2, <2>4, <2>5
  <1>3. ASSUME NEW d, d # DigitOf[k] PROVE Count(d, K \cup {k}) = Count(d, K)
    <2>1. {j \in K \cup {k} : DigitOf[j] = d} = {j \in K : DigitOf[j] = d}
      BY <1>3
    <2> QED  BY <2>1, Zenon DEF Count
  <1> QED  BY <1>1, <1>2, <1>3

LEMMA KeyRemoved ==
  ASSUME NEW K \in SUBSET Keys, NEW k \in K
  PROVE  /\ Cardinality(K \ {k}) = Cardinality(K) - 1
         /\ Count(DigitOf[k], K \ {k}) = Count(DigitOf[k], K) - 1
         /\ \A d : d # DigitOf[k] => Count(d, K \ {k}) = Count(d, K)
  <1>1. K \ {k} \in SUBSET Keys /\ k \in Keys /\ k \notin K \ {k} /\ K = (K \ {k}) \cup {k}
    OBVIOUS
  <1> DEFINE L == K \ {k}
  <1>2. /\ Cardinality(L \cup {k}) = Cardinality(L) + 1
        /\ Count(DigitOf[k], L \cup {k}) = Count(DigitOf[k], L) + 1
        /\ \A d : d # DigitOf[k] => Count(d, L \cup {k}) = Count(d, L)
    BY <1>1, KeyAdded
  <1>3. /\ Cardinality(L \cup {k}) = Cardinality(K)
        /\ \A d : Count(d, L \cup {k}) = Count(d, K)
    BY <1>1, Zenon
  <1>4. Cardinality(L) \in Nat /\ \A d : Count(d, L) \in Nat
    BY <1>1, KeysFinite
  <1>5. Cardinality(K \ {k}) = Cardinality(K) - 1
    BY <1>2, <1>3, <1>4
  <1>6. Count(DigitOf[k], K \ {k}) = Count(DigitOf[k], K) - 1
    <2>1. /\ Count(DigitOf[k], L \cup {k}) = Count(DigitOf[k], K)
          /\ Count(DigitOf[k], L) \in Nat
      BY <1>3, <1>4
    <2> QED  BY <1>2, <2>1
  <1>7. \A d : d # DigitOf[k] => Count(d, K \ {k}) = Count(d, K)
    BY <1>2, <1>3, Zenon
  <1> QED  BY <1>5, <1>6, <1>7

LEMMA NoKeys == Cardinality({}) = 0 /\ \A d : Count(d, {}) = 0
  <1>1. \A d : {k \in {} : DigitOf[k] = d} = {}
    OBVIOUS
  <1> QED  BY <1>1, FS_EmptySet DEF Count

(* The larger of two integers. *)
LEMMA MaxPair ==
  ASSUME NEW a \in Int, NEW b \in Int
  PROVE  Max({a, b}) = IF a >= b THEN a ELSE b
  <1>1. \E x \in {a, b} : \A y \in {a, b} : x >= y
    OBVIOUS
  <1>2. Max({a, b}) \in {a, b} /\ \A y \in {a, b} : Max({a, b}) >= y
    BY <1>1 DEF Max
  <1> QED  BY <1>2

------------------------------------------------------------------------------
(* The inductive invariant. *)

(* Where a thread stands, a flush seen as the position it leads to. *)
Flushing == {"flush", "shards"}
Stage(t) == IF pc[t] \in Flushing THEN after[t] ELSE pc[t]
Open == {"apply", "publish", "republish"}

(* What the proof needs of the gate. *)
GateFacts == GateKeeps /\ LinkInv /\ SectionAlone

(* A position fixes the kind of operation. *)
OpFits(t) ==
  /\ pc[t] \in Optimistic \/ gpc[t] \in {"check", "announce", "recheck"} => InOp(t, Writes)
  /\ Stage(t) \in {"apply", "publish", "count"} => InOp(t, Covered)
  /\ pc[t] \in Flushing => ~InOp(t, Reads)
  /\ Stage(t) \in {"refresh", "republish", "view"} => InOp(t, {"locked"})
  /\ pc[t] \in Outside \ {"rest"} => InOp(t, Reads)
  /\ pc[t] \in {"sum", "adding"} => InOp(t, {"len"})
  /\ pc[t] = "rest" <=> op[t] = Idle
OpInv == \A t \in Threads : OpFits(t)

(* A change is on its way to the counter only at these positions. *)
PendInv ==
  \A t \in Threads :
    pend[t] # 0 => pc[t] \in {"mark", "add", "publish", "count", "flush", "shards"}

(* Only a slot the table has allocated has been counted on. *)
ZeroInv == \A s \in Slots \ allocated : shard[s] = 0

(* A flush sets the counter to the number of keys; the one of clear() runs on
   the emptied root leaf. *)
FlushInv ==
  \A t \in Threads :
    /\ pc[t] \in Flushing => loc[t].goal = Cardinality(keys)
    /\ pc[t] = "shards" => base = loc[t].goal /\ \A s \in Slots \ loc[t].rest : shard[s] = 0
    /\ pc[t] \in Flushing /\ after[t] = "publish" => keys = {} /\ root = "leaf"

(* The closure starts on a true tree_pop, with the population before it. *)
ApplyInv ==
  \A t \in Threads :
    pc[t] = "apply" =>
      loc[t].pop = EnginePop /\ (InOp(t, Exact) /\ root = "tree" => treePop = Cardinality(keys))

(* The engine's populations differ by what the counter is to be told. *)
CountInv ==
  \A t \in Threads :
    pc[t] \in {"publish", "count"} =>
      /\ EnginePop > 0 \/ loc[t].pop = 0 => pend[t] = EnginePop - loc[t].pop
      /\ EnginePop = 0 /\ loc[t].pop > 0 => keys = {}

(* The published root is the engine's, except while a section changes it. *)
PubInv == (\A t \in Threads : Stage(t) # "publish") => pub = Snapshot

(* A child whose digit is neither marked nor about to be stores its count. *)
DirtyInv ==
  root = "tree" =>
    \A d \in Digits \ dirty :
      \/ subPop[d] = Count(d, keys)
      \/ \E t \in Threads : pc[t] = "mark" /\ DigitOf[op[t].key] = d

(* After the fold, every stored population is exact. *)
ViewInv ==
  \A t \in Threads :
    Stage(t) \in {"refresh", "republish", "view"} /\ root = "tree" =>
      treePop = Cardinality(keys) /\ subPop = Counts(keys)

(* The tree word is odd where a section changes the root, and even elsewhere
   until a panic poisons the write mutex. *)
ParityInv ==
  /\ \A t \in Threads : Stage(t) \in Open => word % 2 = 1
  /\ (\A t \in Threads : Stage(t) \notin Open) /\ "write" \notin poisoned => word % 2 = 0
  /\ \A t \in Threads : gpc[t] = "excl" => "write" \notin poisoned

(* A reader's sampled word, and what a population read that nothing overlaps has
   in hand. *)
SnapFits(t) ==
  pc[t] \in {"load", "validate"} => loc[t].snap % 2 = 0 /\ loc[t].snap <= word
Calm(t) == InOp(t, {"len"}) /\ overlap[t] = {}
HandFits(t) ==
  Calm(t) =>
    /\ \A u \in Threads : pend[u] = 0 /\ pc[u] # "shards"
    /\ pc[t] = "validate" /\ word = loc[t].snap /\ loc[t].view.kind # "tree" =>
         loc[t].view.pop = Cardinality(keys)
    /\ pc[t] = "adding" => loc[t].pop + Total(shard, loc[t].rest) = Cardinality(keys)
    /\ pc[t] \in {"answer", "leave"} => loc[t].pop = Cardinality(keys)
ReadInv == \A t \in Threads : SnapFits(t) /\ HandFits(t)

PopInv ==
  /\ TypeOK /\ OpInv /\ PendInv /\ ZeroInv /\ PopulationExact /\ FlushInv
  /\ ApplyInv /\ CountInv /\ PubInv /\ DirtyInv /\ ViewInv /\ ParityInv /\ ReadInv

------------------------------------------------------------------------------
(* What every step leaves alone. *)

Step(t) == (Call(t) \/ Evict(t) \/ Work(t)) /\ Watch

(* A step of t moves no other thread. *)
Others(t) ==
  \A u \in Threads \ {t} :
    /\ pc'[u] = pc[u] /\ after'[u] = after[u] /\ op'[u] = op[u] /\ loc'[u] = loc[u]
    /\ pend'[u] = pend[u] /\ gpc'[u] = gpc[u]

LEMMA OthersStay ==
  ASSUME GateFacts, TypeOK, NEW t \in Threads, Call(t) \/ Evict(t) \/ Work(t)
  PROVE  Others(t)
  <1> USE DEF Others
  <1> /\ pc \in [Threads -> Places] /\ after \in [Threads -> Places]
      /\ gpc \in [Threads -> G!Protocol]
    BY DEF GateFacts, LinkInv
  <1> op \in [Threads -> Calls \cup {Idle}] /\ loc \in [Threads -> Locals] /\ pend \in [Threads -> Int]
    BY DEF TypeOK
  <1>1. CASE Call(t)
    BY <1>1 DEF Call, At, G!StartWriter, G!StartSerial, G!Goto, gate
  <1>2. CASE Evict(t)
    BY <1>2 DEF Evict, G!ForgetSlot
  <1>3. CASE AtGate(t)
    <2>1. CASE /\ pc[t] = "gate" /\ UNCHANGED <<pc, op, after, loc>>
               /\ \/ G!AllocateSlot(t) \/ G!CheckGate(t) \/ G!Announce(t) \/ G!BackOut(t)
                  \/ G!LockFallback(t) \/ G!CloseGate(t) \/ G!LoadMask(t) \/ G!Drain(t)
      BY <1>3, <2>1 DEF AtGate, G!AllocateSlot, G!CheckGate, G!Announce, G!BackOut,
           G!LockFallback, G!CloseGate, G!LoadMask, G!Drain, G!Goto
    <2>2. CASE At(t, "gate", "try") /\ G!Admit(t) /\ UNCHANGED <<op, after, loc>>
      BY <1>3, <2>2 DEF AtGate, At, G!Admit, G!Goto
    <2>3. CASE At(t, "gate", "body") /\ G!LockWrite(t) /\ UNCHANGED <<op, after, loc>>
      BY <1>3, <2>3 DEF AtGate, At, G!LockWrite, G!Goto
    <2>4. CASE Finish(t, "gate") /\ G!MeetPoison(t)
      BY <1>3, <2>4 DEF AtGate, Finish, At, G!MeetPoison, G!Goto
    <2>5. CASE /\ pc[t] = "leave" /\ UNCHANGED <<pc, op, after, loc>>
               /\ G!UnlockWrite(t) \/ G!OpenGate(t) \/ G!UnwindOpen(t)
      BY <1>3, <2>5 DEF AtGate, G!UnlockWrite, G!OpenGate, G!UnwindOpen, G!Goto
    <2>6. CASE Finish(t, "leave") /\ (G!UnlockFallback(t) \/ G!UnwindRelease(t))
      BY <1>3, <2>6 DEF AtGate, Finish, At, G!UnlockFallback, G!UnwindRelease, G!Goto
    <2> QED  BY <1>3, <2>1, <2>2, <2>3, <2>4, <2>5, <2>6 DEF AtGate
  <1>4. CASE TryFallback(t) \/ TryDescend(t) \/ OlcRetry(t) \/ OlcFallback(t) \/ OlcNothing(t)
    BY <1>4 DEF TryFallback, TryDescend, OlcRetry, OlcFallback, OlcNothing, Descend, At,
                G!ExitFallback, G!Goto, gate
  <1>5. CASE OlcApply(t) \/ OlcMark(t) \/ PopAdd(t)
    BY <1>5 DEF OlcApply, OlcStore, OlcMark, PopAdd, Descend, At, gate
  <1>6. CASE OlcDone(t) \/ ReadReturn(t)
    BY <1>6 DEF OlcDone, ReadReturn, Finish, At, G!ExitDone, G!Goto, gate
  <1>7. CASE CoverBegin(t) \/ CoverPublish(t) \/ CoverUnwind(t)
    BY <1>7 DEF CoverBegin, CoverPublish, CoverUnwind, At, G!Unwind, G!Goto, gate
  <1>8. CASE CoverApply(t) \/ CoverCount(t)
    BY <1>8 DEF CoverApply, CoverCount, FlushTo, At, gate
  <1>9. CASE FlushBase(t) \/ FlushShard(t) \/ FlushDone(t)
    BY <1>9 DEF FlushBase, FlushShard, FlushDone, At, gate
  <1>10. CASE LockedFold(t)
    BY <1>10 DEF LockedFold, FlushTo, At, gate
  <1>11. CASE RefreshBegin(t) \/ RefreshEnd(t) \/ ViewReturn(t) \/ ViewUnwind(t)
    BY <1>11 DEF RefreshBegin, RefreshEnd, ViewReturn, ViewUnwind, At, G!Unwind, G!Goto, gate
  <1>12. CASE ReadSample(t) \/ ReadLoad(t) \/ ReadAnswer(t) \/ ReadRetry(t) \/ ReadLocked(t)
    BY <1>12 DEF ReadSample, ReadLoad, ReadAnswer, ReadRetry, ReadLocked, At,
                 G!StartSerial, G!Goto, gate
  <1>13. CASE SumBase(t) \/ SumShard(t) \/ SumDone(t)
    BY <1>13 DEF SumBase, SumShard, SumDone, At, gate
  <1> QED
    BY <1>1, <1>2, <1>3, <1>4, <1>5, <1>6, <1>7, <1>8, <1>9, <1>10, <1>11, <1>12, <1>13
    DEF Work

(* The steps that change neither the contents nor a count of them. *)
Passing(t) ==
  \/ Call(t) \/ Evict(t) \/ AtGate(t)
  \/ TryFallback(t) \/ TryDescend(t) \/ OlcRetry(t) \/ OlcFallback(t) \/ OlcNothing(t) \/ OlcDone(t)
  \/ CoverUnwind(t) \/ ViewReturn(t) \/ ViewUnwind(t)
  \/ ReadSample(t) \/ ReadLoad(t) \/ ReadAnswer(t) \/ ReadRetry(t)
  \/ SumBase(t) \/ SumShard(t) \/ SumDone(t) \/ ReadLocked(t) \/ ReadReturn(t)

Busy == {"mark", "add", "publish", "count", "flush", "shards", "refresh", "republish"}

LEMMA PassingFrame ==
  ASSUME GateFacts, NEW t \in Threads, Passing(t)
  PROVE  /\ UNCHANGED <<keys, root, treePop, subPop, pub, word, base, shard, dirty, pend>>
         /\ allocated \subseteq allocated'
         /\ pc[t] \notin Busy /\ pc'[t] \notin Busy \cup {"apply", "view"}
  <1> USE DEF engine, head, counter, gate, Busy
  <1> pc \in [Threads -> Places]
    BY DEF GateFacts, LinkInv
  <1>1. CASE Call(t)
    BY <1>1 DEF Call, At, G!StartWriter, G!StartSerial
  <1>2. CASE Evict(t)
    BY <1>2 DEF Evict, G!ForgetSlot
  <1>3. CASE AtGate(t)
    <2>1. CASE /\ pc[t] = "gate" /\ UNCHANGED <<pc, op, after, loc>>
               /\ \/ G!AllocateSlot(t) \/ G!CheckGate(t) \/ G!Announce(t) \/ G!BackOut(t)
                  \/ G!LockFallback(t) \/ G!CloseGate(t) \/ G!LoadMask(t) \/ G!Drain(t)
      BY <1>3, <2>1 DEF AtGate, G!AllocateSlot, G!CheckGate, G!Announce, G!BackOut,
           G!LockFallback, G!CloseGate, G!LoadMask, G!Drain
    <2>2. CASE At(t, "gate", "try") /\ G!Admit(t) /\ UNCHANGED <<op, after, loc>>
      BY <1>3, <2>2 DEF AtGate, At, G!Admit
    <2>3. CASE At(t, "gate", "body") /\ G!LockWrite(t) /\ UNCHANGED <<op, after, loc>>
      BY <1>3, <2>3 DEF AtGate, At, G!LockWrite
    <2>4. CASE Finish(t, "gate") /\ G!MeetPoison(t)
      BY <1>3, <2>4 DEF AtGate, Finish, At, G!MeetPoison
    <2>5. CASE /\ pc[t] = "leave" /\ UNCHANGED <<pc, op, after, loc>>
               /\ G!UnlockWrite(t) \/ G!OpenGate(t) \/ G!UnwindOpen(t)
      BY <1>3, <2>5 DEF AtGate, G!UnlockWrite, G!OpenGate, G!UnwindOpen
    <2>6. CASE Finish(t, "leave") /\ (G!UnlockFallback(t) \/ G!UnwindRelease(t))
      BY <1>3, <2>6 DEF AtGate, Finish, At, G!UnlockFallback, G!UnwindRelease
    <2> QED  BY <1>3, <2>1, <2>2, <2>3, <2>4, <2>5, <2>6 DEF AtGate
  <1>4. CASE TryFallback(t) \/ TryDescend(t) \/ OlcRetry(t) \/ OlcFallback(t) \/ OlcNothing(t)
    BY <1>4 DEF TryFallback, TryDescend, OlcRetry, OlcFallback, OlcNothing, Descend, At,
                G!ExitFallback
  <1>5. CASE OlcDone(t) \/ ReadReturn(t)
    BY <1>5 DEF OlcDone, ReadReturn, Finish, At, G!ExitDone
  <1>6. CASE CoverUnwind(t) \/ ViewReturn(t) \/ ViewUnwind(t)
    BY <1>6 DEF CoverUnwind, ViewReturn, ViewUnwind, At, G!Unwind
  <1>7. CASE ReadSample(t) \/ ReadLoad(t) \/ ReadAnswer(t) \/ ReadRetry(t) \/ ReadLocked(t)
    BY <1>7 DEF ReadSample, ReadLoad, ReadAnswer, ReadRetry, ReadLocked, At, G!StartSerial
  <1>8. CASE SumBase(t) \/ SumShard(t) \/ SumDone(t)
    BY <1>8 DEF SumBase, SumShard, SumDone, At
  <1> QED  BY <1>1, <1>2, <1>3, <1>4, <1>5, <1>6, <1>7, <1>8 DEF Passing

(* The other steps leave the gate alone. *)
Counting(t) ==
  \/ OlcApply(t) \/ OlcMark(t) \/ PopAdd(t)
  \/ CoverBegin(t) \/ CoverApply(t) \/ CoverPublish(t) \/ CoverCount(t)
  \/ FlushBase(t) \/ FlushShard(t) \/ FlushDone(t)
  \/ LockedFold(t) \/ RefreshBegin(t) \/ RefreshEnd(t)

LEMMA CountingFrame ==
  ASSUME NEW t \in Threads, Counting(t)
  PROVE  UNCHANGED gate /\ UNCHANGED <<op, calls>>
  BY DEF Counting, OlcApply, OlcMark, PopAdd, CoverBegin, CoverApply, CoverPublish, CoverCount,
         FlushBase, FlushShard, FlushDone, LockedFold, RefreshBegin, RefreshEnd

LEMMA StepKinds ==
  ASSUME NEW t \in Threads, Step(t)
  PROVE  Passing(t) \/ Counting(t)
  BY DEF Step, Work, Passing, Counting

------------------------------------------------------------------------------
(* Types. *)

LEMMA SlotsFinite == IsFiniteSet(Slots) /\ Slots \subseteq Int /\ \A S \in SUBSET Slots : IsFiniteSet(S)
  <1>1. Slots = 0 .. NumSlots - 1 /\ NumSlots \in Nat
    BY GateAssumption DEF Slots, G!Slots
  <1>2. IsFiniteSet(Slots)
    BY <1>1, FS_Interval
  <1>3. ASSUME NEW S \in SUBSET Slots PROVE IsFiniteSet(S)
    BY <1>2, FS_Subset
  <1>4. Slots \subseteq Int
    BY <1>1
  <1> QED  BY <1>2, <1>3, <1>4

LEMMA LoadType ==
  ASSUME base \in Int, shard \in [Slots -> Int], NEW S \in SUBSET Slots
  PROVE  /\ Total(shard, S) \in Int
         /\ LoadPop(S) = IF base + Total(shard, S) >= 0 THEN base + Total(shard, S) ELSE 0
         /\ LoadPop(S) \in Nat
  <1>1. Total(shard, S) \in Int
    BY SlotsFinite, TotalType
  <1>2. base + Total(shard, S) \in Int /\ 0 \in Int
    BY <1>1
  <1>3. LoadPop(S) = IF base + Total(shard, S) >= 0 THEN base + Total(shard, S) ELSE 0
    BY <1>2, MaxPair DEF LoadPop
  <1> QED  BY <1>1, <1>2, <1>3

(* A keyed operation has a key. *)
LEMMA KeyOf ==
  ASSUME TypeOK, NEW t \in Threads, InOp(t, Keyed)
  PROVE  op[t].key \in Keys /\ DigitOf[op[t].key] \in Digits
  <1>1. op[t] \in Calls \cup {Idle}
    BY DEF TypeOK
  <1>2. op[t] \in [name : Ops \cap Keyed, key : Keys]
    BY <1>1 DEF Calls, Idle, InOp, Keyed, Unkeyed
  <1>3. op[t].key \in Keys
    BY <1>2
  <1> QED  BY <1>3, TreeAssumption

LEMMA EnginePopType ==
  ASSUME TypeOK
  PROVE  Cardinality(keys) \in Nat /\ EnginePop \in Nat
  BY KeysFinite DEF TypeOK, EnginePop

LEMMA CallsType == ASSUME NEW o \in Calls PROVE o.name \in Ops /\ o.name # "none"
  BY TreeAssumption DEF Calls, Keyed, Unkeyed

(* What remains of the types: the engine and the counter, and the threads. *)
EngineType ==
  /\ keys \subseteq Keys /\ root \in {"leaf", "tree"}
  /\ treePop \in Nat /\ subPop \in [Digits -> Nat]
  /\ pub \in Roots /\ word \in Nat
  /\ base \in Int /\ shard \in [Slots -> Int]
  /\ dirty \subseteq Digits /\ pend \in [Threads -> Int]
ThreadType ==
  /\ op \in [Threads -> Calls \cup {Idle}] /\ loc \in [Threads -> Locals]
  /\ calls \in 0 .. MaxCalls

LEMMA PassingTypes ==
  ASSUME TypeOK, GateFacts, NEW t \in Threads, Passing(t)
  PROVE  ThreadType'
  <1> USE DEF ThreadType, Locals
  <1>0. /\ op \in [Threads -> Calls \cup {Idle}] /\ loc \in [Threads -> Locals]
        /\ calls \in 0 .. MaxCalls /\ MaxCalls \in Nat /\ MaxRetries \in Nat \ {0}
        /\ word \in Nat /\ pub \in Roots /\ base \in Int /\ shard \in [Slots -> Int]
    BY TreeAssumption DEF TypeOK
  <1>1. CASE Call(t)
    BY <1>0, <1>1 DEF Call
  <1>2. CASE Evict(t) \/ TryFallback(t) \/ OlcRetry(t) \/ OlcFallback(t) \/ OlcNothing(t)
             \/ CoverUnwind(t) \/ ViewReturn(t) \/ ViewUnwind(t)
    BY <1>0, <1>2 DEF Evict, TryFallback, OlcRetry, OlcFallback, OlcNothing,
                      CoverUnwind, ViewReturn, ViewUnwind
  <1>3. Fresh \in Locals
    BY <1>0 DEF Fresh, Roots
  <1>4. CASE AtGate(t) \/ OlcDone(t) \/ ReadReturn(t)
    BY <1>0, <1>3, <1>4 DEF AtGate, OlcDone, ReadReturn, Finish
  <1>5. CASE TryDescend(t)
    BY <1>0, <1>5 DEF TryDescend
  <1>6. CASE ReadSample(t) \/ ReadLoad(t)
    BY <1>0, <1>6 DEF ReadSample, ReadLoad
  <1>7. CASE ReadAnswer(t)
    <2>1. loc[t].view.pop \in Int
      BY <1>0 DEF Roots
    <2>2. op' = op /\ calls' = calls
      BY <1>7 DEF ReadAnswer
    <2>3. loc' = loc \/ loc' = [loc EXCEPT ![t].pop = loc[t].view.pop]
      BY <1>7 DEF ReadAnswer
    <2> QED  BY <1>0, <2>1, <2>2, <2>3
  <1>8. CASE ReadRetry(t)
    BY <1>0, <1>8 DEF ReadRetry
  <1>9. CASE SumBase(t)
    BY <1>0, <1>9 DEF SumBase
  <1>12. CASE SumShard(t)
    <2>1. PICK s \in loc[t].rest :
            loc' = [loc EXCEPT ![t].pop = @ + shard[s], ![t].rest = @ \ {s}]
      BY <1>12 DEF SumShard
    <2>2. loc[t].pop + shard[s] \in Int /\ loc[t].rest \ {s} \in SUBSET Slots
      BY <1>0
    <2> QED  BY <1>0, <1>12, <2>1, <2>2 DEF SumShard
  <1>10. CASE SumDone(t)
    <2>1. Max({loc[t].pop, 0}) \in Int
      BY <1>0, MaxPair
    <2> QED  BY <1>0, <1>10, <2>1 DEF SumDone
  <1>11. CASE ReadLocked(t)
    <2>1. LoadPop(Slots) \in Nat /\ Cardinality(keys) \in Nat
      BY <1>0, LoadType, EnginePopType
    <2> QED  BY <1>0, <1>11, <2>1 DEF ReadLocked
  <1> QED
    BY <1>1, <1>2, <1>4, <1>5, <1>6, <1>7, <1>8, <1>9, <1>10, <1>11,
       <1>12 DEF Passing

LEMMA PassingEngine ==
  ASSUME TypeOK, GateFacts, NEW t \in Threads, Passing(t)
  PROVE  EngineType'
  BY PassingFrame DEF EngineType, TypeOK

(* What the engine's insertion does to the contents and to the populations. *)
LEMMA InsertEffect ==
  ASSUME TypeOK, NEW k \in Keys, EngineInsert(k)
  PROVE  /\ keys' = keys \cup {k} /\ root' \in {"leaf", "tree"}
         /\ treePop' \in Nat /\ subPop' \in [Digits -> Nat]
         /\ EnginePop' - EnginePop = Cardinality(keys') - Cardinality(keys)
         /\ EnginePop' >= EnginePop
         /\ \A d \in Digits :
              root' = "tree" /\ (root = "tree" => subPop[d] = Count(d, keys)) =>
                subPop'[d] = Count(d, keys')
  <1>0. /\ keys \in SUBSET Keys /\ root \in {"leaf", "tree"}
        /\ treePop \in Nat /\ subPop \in [Digits -> Nat]
        /\ Cardinality(keys) \in Nat /\ DigitOf[k] \in Digits
    BY EnginePopType, TreeAssumption DEF TypeOK
  <1>1. CASE k \in keys
    <2>1. UNCHANGED engine /\ keys \cup {k} = keys
      BY <1>1 DEF EngineInsert
    <2> QED  BY <1>0, <2>1 DEF engine, EnginePop
  <1>2. CASE k \notin keys
    <2>0. keys' = keys \cup {k}
      BY <1>2 DEF EngineInsert
    <2>1. /\ Cardinality(keys') = Cardinality(keys) + 1
          /\ Count(DigitOf[k], keys') = Count(DigitOf[k], keys) + 1
          /\ \A d : d # DigitOf[k] => Count(d, keys') = Count(d, keys)
      <3>1. /\ Cardinality(keys \cup {k}) = Cardinality(keys) + 1
            /\ Count(DigitOf[k], keys \cup {k}) = Count(DigitOf[k], keys) + 1
            /\ \A d : d # DigitOf[k] => Count(d, keys \cup {k}) = Count(d, keys)
        BY <1>0, <1>2, KeyAdded
      <3> QED  BY <2>0, <3>1, Zenon
    <2>2. CASE root = "leaf" /\ Cardinality(keys) < LeafCap
      <3>1. UNCHANGED <<root, treePop, subPop>>
        BY <1>0, <1>2, <2>2, TreeAssumption DEF EngineInsert
      <3> QED  BY <1>0, <2>0, <2>1, <2>2, <3>1 DEF EnginePop
    <2>3. CASE root = "leaf" /\ Cardinality(keys) >= LeafCap
      <3>1. root' = "tree" /\ treePop' = Cardinality(keys) + 1 /\ subPop' = Counts(keys')
        BY <1>0, <1>2, <2>3, TreeAssumption DEF EngineInsert
      <3>2. Counts(keys') \in [Digits -> Nat] /\ \A d \in Digits : Counts(keys')[d] = Count(d, keys')
        <4>1. keys' \in SUBSET Keys
          BY <1>0, <2>0
        <4>2. Counts(keys') \in [Digits -> Nat]
          BY <4>1, CountsTotal
        <4> QED  BY <4>2 DEF Counts
      <3>3. subPop' \in [Digits -> Nat] /\ \A d \in Digits : subPop'[d] = Count(d, keys')
        BY <3>1, <3>2, Zenon
      <3> QED  BY <1>0, <2>0, <2>1, <2>3, <3>1, <3>3 DEF EnginePop
    <2>4. CASE root = "tree"
      <3>1. /\ root' = "tree" /\ treePop' = treePop + 1
            /\ subPop' = [subPop EXCEPT ![DigitOf[k]] = @ + 1]
        BY <1>2, <2>4 DEF EngineInsert
      <3>2. EnginePop = treePop /\ EnginePop' = treePop'
        BY <2>4, <3>1 DEF EnginePop
      <3>3. subPop' \in [Digits -> Nat]
        BY <1>0, <3>1
      <3>4. ASSUME NEW d \in Digits, subPop[d] = Count(d, keys) PROVE subPop'[d] = Count(d, keys')
        BY <1>0, <2>1, <3>1, <3>4
      <3> QED  BY <1>0, <2>0, <2>1, <2>4, <3>1, <3>2, <3>3, <3>4
    <2> QED  BY <1>0, <2>2, <2>3, <2>4, TreeAssumption
  <1> QED  BY <1>1, <1>2

(* The same of its removal, when tree_pop is the true population. *)
LEMMA RemoveEffect ==
  ASSUME TypeOK, NEW k \in Keys, EngineRemove(k), root = "tree" => treePop = Cardinality(keys)
  PROVE  /\ keys' = keys \ {k} /\ root' \in {"leaf", "tree"}
         /\ treePop' \in Nat /\ subPop' \in [Digits -> Nat]
         /\ EnginePop = Cardinality(keys) /\ EnginePop' = Cardinality(keys')
         /\ \A d \in Digits :
              root' = "tree" /\ (root = "tree" => subPop[d] = Count(d, keys)) =>
                subPop'[d] = Count(d, keys')
  <1>0. /\ keys \in SUBSET Keys /\ root \in {"leaf", "tree"}
        /\ treePop \in Nat /\ subPop \in [Digits -> Nat]
        /\ Cardinality(keys) \in Nat /\ DigitOf[k] \in Digits /\ LeafCap \in Nat
    BY EnginePopType, TreeAssumption DEF TypeOK
  <1>1. CASE k \notin keys
    <2>1. UNCHANGED engine /\ keys \ {k} = keys
      BY <1>1 DEF EngineRemove
    <2> QED  BY <1>0, <2>1 DEF engine, EnginePop
  <1>2. CASE k \in keys
    <2>0. keys' = keys \ {k}
      BY <1>2 DEF EngineRemove
    <2>1. /\ Cardinality(keys') = Cardinality(keys) - 1 /\ Cardinality(keys') \in Nat
          /\ Count(DigitOf[k], keys') = Count(DigitOf[k], keys) - 1
          /\ Count(DigitOf[k], keys') \in Nat
          /\ \A d : d # DigitOf[k] => Count(d, keys') = Count(d, keys)
      <3>1. /\ Cardinality(keys \ {k}) = Cardinality(keys) - 1
            /\ Count(DigitOf[k], keys \ {k}) = Count(DigitOf[k], keys) - 1
            /\ \A d : d # DigitOf[k] => Count(d, keys \ {k}) = Count(d, keys)
        BY <1>0, <1>2, KeyRemoved
      <3>2. Cardinality(keys \ {k}) \in Nat /\ Count(DigitOf[k], keys \ {k}) \in Nat
        BY <1>0, KeysFinite
      <3> QED  BY <2>0, <3>1, <3>2, Zenon
    <2>2. CASE root = "leaf"
      <3>1. UNCHANGED <<root, treePop, subPop>>
        BY <1>2, <2>2 DEF EngineRemove
      <3> QED  BY <1>0, <2>0, <2>1, <2>2, <3>1 DEF EnginePop
    <2>3. CASE root = "tree" /\ treePop' < LeafCap
      <3>1. root' = "leaf" /\ subPop' = NoChildren /\ treePop' = treePop - 1
        BY <1>0, <1>2, <2>3 DEF EngineRemove
      <3>2. NoChildren \in [Digits -> Nat]
        BY CountsTotal DEF NoChildren
      <3> QED  BY <1>0, <2>0, <2>1, <2>3, <3>1, <3>2 DEF EnginePop
    <2>4. CASE root = "tree" /\ ~(treePop' < LeafCap)
      <3> DEFINE d0 == DigitOf[k]
                 low == IF Count(d0, keys') = 0 THEN 0 ELSE Max({subPop[d0] - 1, 1})
      <3>1. root' = "tree" /\ treePop' = treePop - 1 /\ subPop' = [subPop EXCEPT ![d0] = low]
        BY <1>2, <2>4 DEF EngineRemove
      <3>2. Max({subPop[d0] - 1, 1}) = IF subPop[d0] - 1 >= 1 THEN subPop[d0] - 1 ELSE 1
        BY <1>0, MaxPair
      <3>3. low \in Nat
        BY <1>0, <3>2
      <3>4. subPop' \in [Digits -> Nat]
        BY <1>0, <3>1, <3>3
      <3>5. ASSUME NEW d \in Digits, subPop[d] = Count(d, keys) PROVE subPop'[d] = Count(d, keys')
        <4>1. CASE d = d0
          <5>1. subPop'[d] = low
            BY <1>0, <3>1, <4>1
          <5>2. low = Count(d0, keys')
            BY <1>0, <2>1, <3>2, <3>5, <4>1
          <5> QED  BY <4>1, <5>1, <5>2
        <4>2. CASE d # d0
          BY <1>0, <2>1, <3>1, <3>5, <4>2
        <4> QED  BY <4>1, <4>2
      <3>6. EnginePop = treePop /\ EnginePop' = treePop'
        BY <2>4, <3>1 DEF EnginePop
      <3> QED  BY <1>0, <2>0, <2>1, <2>4, <3>1, <3>4, <3>5, <3>6
    <2> QED  BY <1>0, <2>2, <2>3, <2>4
  <1> QED  BY <1>1, <1>2

------------------------------------------------------------------------------
(* The kinds of operation. *)

LEMMA OpStep ==
  ASSUME TypeOK, OpInv, GateFacts, GateFacts', NEW t \in Threads, Step(t)
  PROVE  OpInv'
  <1> USE DEF Optimistic, Section, Outside, Waiting, Leaving, Flushing, Writes, Reads, Exact,
              Covered, InOp, Stage
  <1>0. /\ pc \in [Threads -> Places] /\ after \in [Threads -> Places]
        /\ gpc \in [Threads -> G!Protocol] /\ op \in [Threads -> Calls \cup {Idle}]
    BY DEF GateFacts, LinkInv, TypeOK
  <1>1. Others(t)
    BY OthersStay DEF Step
  <1>2. /\ OpFits(t)
        /\ pc[t] \in Outside => gpc[t] = "idle"
        /\ pc[t] = "gate" => gpc[t] \in Waiting
        /\ pc[t] \in Optimistic => gpc[t] = "in"
        /\ pc[t] \in Section => gpc[t] = "excl"
        /\ pc[t] = "leave" => gpc[t] \in Leaving
        /\ pc[t] \in Flushing => after[t] \in {"publish", "leave", "refresh", "view"}
    BY DEF OpInv, GateFacts, LinkInv
  <1>3. ASSUME NEW u \in Threads \ {t} PROVE OpFits(u)'
    <2>1. OpFits(u)
      BY DEF OpInv
    <2> QED  BY <1>1, <2>1 DEF Others, OpFits
  <1> SUFFICES OpFits(t)'
    BY <1>3, Zenon DEF OpInv
  <1>4. CASE Call(t)
    <2>1. PICK o \in Calls :
            /\ op' = [op EXCEPT ![t] = o]
            /\ \/ o.name \in Writes /\ At(t, "rest", "gate") /\ G!StartWriter(t)
               \/ o.name \notin Reads /\ At(t, "rest", "gate") /\ G!StartSerial(t)
               \/ o.name \in Reads /\ At(t, "rest", "sample") /\ UNCHANGED gate
      BY <1>4 DEF Call
    <2>2. o # Idle
      BY CallsType DEF Idle
    <2> QED  BY <1>0, <1>2, <2>1, <2>2
             DEF OpFits, At, G!StartWriter, G!StartSerial, G!Goto, gate
  <1>5. CASE Evict(t)
    BY <1>2, <1>5 DEF OpFits, Evict, G!ForgetSlot
  <1>6. CASE AtGate(t)
    <2>1. CASE /\ pc[t] = "gate" /\ UNCHANGED <<pc, op, after, loc>>
               /\ \/ G!AllocateSlot(t) \/ G!CheckGate(t) \/ G!Announce(t) \/ G!BackOut(t)
                  \/ G!LockFallback(t) \/ G!CloseGate(t) \/ G!LoadMask(t) \/ G!Drain(t)
      BY <1>0, <1>2, <2>1
         DEF OpFits, G!AllocateSlot, G!CheckGate, G!Announce, G!BackOut,
             G!LockFallback, G!CloseGate, G!LoadMask, G!Drain, G!Goto
    <2>2. CASE At(t, "gate", "try") /\ G!Admit(t) /\ UNCHANGED <<op, after, loc>>
      BY <1>0, <1>2, <2>2 DEF OpFits, At, G!Admit, G!Goto
    <2>3. CASE At(t, "gate", "body") /\ G!LockWrite(t) /\ UNCHANGED <<op, after, loc>>
      BY <1>0, <1>2, <2>3 DEF OpFits, At, G!LockWrite, G!Goto
    <2>4. CASE Finish(t, "gate") /\ G!MeetPoison(t)
      BY <1>0, <2>4 DEF OpFits, Finish, At, G!MeetPoison, G!Goto
    <2>5. CASE /\ pc[t] = "leave" /\ UNCHANGED <<pc, op, after, loc>>
               /\ G!UnlockWrite(t) \/ G!OpenGate(t) \/ G!UnwindOpen(t)
      BY <1>0, <1>2, <2>5 DEF OpFits, G!UnlockWrite, G!OpenGate, G!UnwindOpen, G!Goto
    <2>6. CASE Finish(t, "leave") /\ (G!UnlockFallback(t) \/ G!UnwindRelease(t))
      BY <1>0, <2>6 DEF OpFits, Finish, At, G!UnlockFallback, G!UnwindRelease, G!Goto
    <2> QED  BY <1>6, <2>1, <2>2, <2>3, <2>4, <2>5, <2>6 DEF AtGate
  <1>7. CASE TryFallback(t) \/ TryDescend(t) \/ OlcRetry(t) \/ OlcFallback(t) \/ OlcNothing(t)
    BY <1>0, <1>2, <1>7
       DEF OpFits, TryFallback, TryDescend, OlcRetry, OlcFallback, OlcNothing, Descend, At,
           G!ExitFallback, G!Goto, gate
  <1>8. CASE OlcApply(t) \/ OlcMark(t) \/ PopAdd(t)
    BY <1>0, <1>2, <1>8 DEF OpFits, OlcApply, OlcMark, PopAdd, Descend, At, gate
  <1>9. CASE OlcDone(t) \/ ReadReturn(t)
    BY <1>0, <1>2, <1>9 DEF OpFits, OlcDone, ReadReturn, Finish, At, G!ExitDone, G!Goto, gate
  <1>10. CASE CoverBegin(t) \/ CoverPublish(t) \/ CoverUnwind(t)
    BY <1>0, <1>2, <1>10
       DEF OpFits, CoverBegin, CoverPublish, CoverUnwind, At, G!Unwind, G!Goto, gate
  <1>11. CASE CoverApply(t) \/ CoverCount(t)
    BY <1>0, <1>2, <1>11 DEF OpFits, CoverApply, CoverCount, FlushTo, At, gate
  <1>12. CASE FlushBase(t) \/ FlushShard(t) \/ FlushDone(t)
    BY <1>0, <1>2, <1>12 DEF OpFits, FlushBase, FlushShard, FlushDone, At, gate
  <1>13. CASE LockedFold(t)
    BY <1>0, <1>2, <1>13 DEF OpFits, LockedFold, FlushTo, At, gate
  <1>14. CASE RefreshBegin(t) \/ RefreshEnd(t) \/ ViewReturn(t) \/ ViewUnwind(t)
    BY <1>0, <1>2, <1>14
       DEF OpFits, RefreshBegin, RefreshEnd, ViewReturn, ViewUnwind, At, G!Unwind, G!Goto, gate
  <1>15. CASE ReadSample(t) \/ ReadLoad(t) \/ ReadAnswer(t) \/ ReadRetry(t) \/ ReadLocked(t)
    BY <1>0, <1>2, <1>15
       DEF OpFits, ReadSample, ReadLoad, ReadAnswer, ReadRetry, ReadLocked, At,
           G!StartSerial, G!Goto, gate
  <1>16. CASE SumBase(t) \/ SumShard(t) \/ SumDone(t)
    BY <1>0, <1>2, <1>16 DEF OpFits, SumBase, SumShard, SumDone, At, gate
  <1> QED
    BY <1>4, <1>5, <1>6, <1>7, <1>8, <1>9, <1>10, <1>11, <1>12, <1>13, <1>14, <1>15, <1>16
    DEF Step, Work

------------------------------------------------------------------------------
(* The steps that change the contents or a count of them. *)

(* Their thread is admitted or has the section to itself. *)
LEMMA Solo ==
  ASSUME GateFacts, NEW t \in Threads, Counting(t)
  PROVE  /\ pc[t] \in Section \cup Optimistic
         /\ \A u \in Threads \ {t} :
              pc[u] \notin Section /\ (pc[t] \in Section => pc[u] \notin Optimistic)
  <1>1. pc[t] \in Section \cup Optimistic
    BY DEF Counting, OlcApply, Descend, OlcMark, PopAdd, CoverBegin, CoverApply, CoverPublish,
           CoverCount, FlushBase, FlushShard, FlushDone, LockedFold, RefreshBegin, RefreshEnd,
           FlushTo, At, Section, Optimistic
  <1>2. SectionAlone
    BY DEF GateFacts
  <1>3. Section \cap Optimistic = {}
    BY DEF Section, Optimistic
  <1> QED  BY <1>1, <1>2, <1>3 DEF SectionAlone

(* In a section, every change but the section's own has been counted. *)
LEMMA SoloPend ==
  ASSUME GateFacts, PendInv, NEW t \in Threads, pc[t] \in Section
  PROVE  \A u \in Threads \ {t} : pend[u] = 0
  BY DEF GateFacts, SectionAlone, PendInv, Section, Optimistic

LEMMA CountingTypes ==
  ASSUME TypeOK, OpInv, ApplyInv, GateFacts, NEW t \in Threads, Counting(t)
  PROVE  EngineType' /\ ThreadType'
  <1> USE DEF EngineType, ThreadType
  <1>0. EngineType /\ ThreadType /\ MaxRetries \in Nat
    BY TreeAssumption DEF TypeOK
  <1>1. OpFits(t) /\ (pc[t] = "apply" => ApplyInv!(t)!2)
    BY DEF OpInv, ApplyInv
  <1>2. Cardinality(keys) \in Nat /\ EnginePop \in Nat /\ keys \in SUBSET Keys
    BY <1>0, EnginePopType
  <1>3. CASE OlcApply(t)
    <2>1. InOp(t, Writes)
      BY <1>1, <1>3 DEF OpFits, OlcApply, Descend, At, Optimistic
    <2>2. op[t].key \in Keys /\ DigitOf[op[t].key] \in Digits
      BY <2>1, KeyOf DEF Writes, Keyed, InOp
    <2>3. keys' \in SUBSET Keys
      BY <1>0, <1>3, <2>2 DEF OlcApply, OlcStore, Wanted
    <2>4. Cardinality(keys') \in Nat /\ Count(DigitOf[op[t].key], keys') \in Nat
      BY <2>3, KeysFinite
    <2> QED  BY <1>0, <1>2, <1>3, <2>2, <2>3, <2>4 DEF OlcApply, OlcStore, head, counter
  <1>4. CASE OlcMark(t)
    <2>1. InOp(t, Writes)
      BY <1>1, <1>4 DEF OpFits, OlcMark, At, Optimistic
    <2>2. DigitOf[op[t].key] \in Digits
      BY <2>1, KeyOf DEF Writes, Keyed, InOp
    <2> QED  BY <1>0, <1>4, <2>2 DEF OlcMark, engine, head, counter
  <1>5. CASE PopAdd(t)
    <2>1. slot[t] \in Slots
      BY <1>5 DEF PopAdd, At, GateFacts, GateKeeps, LinkInv, Optimistic, G!TypeOK, Slots
    <2> QED  BY <1>0, <1>5, <2>1 DEF PopAdd, engine, head
  <1>6. CASE CoverBegin(t)
    <2>1. allocated \in SUBSET Slots
      BY DEF GateFacts, GateKeeps, G!TypeOK, Slots
    <2>2. LoadPop(allocated) \in Nat
      BY <1>0, <2>1, LoadType
    <2>3. treePop' \in Nat
      BY <1>0, <1>6, <2>2 DEF CoverBegin
    <2> QED  BY <1>0, <1>2, <1>6, <2>3 DEF CoverBegin, Locals, counter
  <1>7. CASE CoverApply(t)
    <2>1. CASE InOp(t, {"insert", "exclusive"}) /\ EngineInsert(op[t].key) /\ UNCHANGED <<after, loc>>
      <3>1. op[t].key \in Keys
        BY <2>1, KeyOf DEF Keyed, InOp
      <3>2. /\ keys' = keys \cup {op[t].key} /\ root' \in {"leaf", "tree"}
            /\ treePop' \in Nat /\ subPop' \in [Digits -> Nat]
        BY <2>1, <3>1, InsertEffect
      <3>3. keys' \in SUBSET Keys
        BY <1>2, <3>1, <3>2
      <3>4. Cardinality(keys') \in Nat
        BY <3>3, KeysFinite
      <3> QED  BY <1>0, <1>2, <1>7, <2>1, <3>2, <3>3, <3>4 DEF CoverApply, head, counter
    <2>2. CASE InOp(t, {"remove", "exclusive"}) /\ EngineRemove(op[t].key) /\ UNCHANGED <<after, loc>>
      <3>1. op[t].key \in Keys
        BY <2>2, KeyOf DEF Keyed, InOp
      <3>2. root = "tree" => treePop = Cardinality(keys)
        BY <1>1, <1>7, <2>2 DEF CoverApply, At, FlushTo, InOp, Exact
      <3>3. /\ keys' = keys \ {op[t].key} /\ root' \in {"leaf", "tree"}
            /\ treePop' \in Nat /\ subPop' \in [Digits -> Nat]
        BY <2>2, <3>1, <3>2, RemoveEffect
      <3>4. keys' \in SUBSET Keys
        BY <1>2, <3>3
      <3>5. Cardinality(keys') \in Nat
        BY <3>4, KeysFinite
      <3> QED  BY <1>0, <1>2, <1>7, <2>2, <3>3, <3>4, <3>5 DEF CoverApply, head, counter
    <2>3. CASE EngineClear /\ FlushTo(t, "apply", 0, "publish")
      <3>1. keys' = {} /\ Cardinality(keys') \in Nat /\ NoChildren \in [Digits -> Nat]
        BY <2>3, NoKeys, CountsTotal DEF EngineClear, NoChildren
      <3> QED  BY <1>0, <1>2, <1>7, <2>3, <3>1
               DEF CoverApply, EngineClear, FlushTo, Locals, head, counter
    <2> QED  BY <1>7, <2>1, <2>2, <2>3 DEF CoverApply
  <1>8. CASE CoverPublish(t) \/ RefreshEnd(t)
    <2>1. Snapshot \in Roots
      BY <1>0, <1>2 DEF Snapshot, Roots
    <2> QED  BY <1>0, <1>8, <2>1 DEF CoverPublish, RefreshEnd, engine, counter
  <1>9. CASE CoverCount(t)
    <2>1. loc[t].pop \in Int
      BY <1>0 DEF Locals
    <2> QED  BY <1>0, <1>2, <1>9, <2>1 DEF CoverCount, FlushTo, Locals, engine, head
  <1>10. CASE FlushBase(t)
    BY <1>0, <1>10 DEF FlushBase, Locals, engine, head
  <1>11. CASE FlushShard(t)
    <2>1. PICK s \in loc[t].rest :
            shard' = [shard EXCEPT ![s] = 0] /\ loc' = [loc EXCEPT ![t].rest = @ \ {s}]
      BY <1>11 DEF FlushShard
    <2>2. loc[t].rest \ {s} \in SUBSET Slots
      BY <1>0 DEF Locals
    <2> QED  BY <1>0, <1>11, <2>1, <2>2 DEF FlushShard, Locals, engine, head
  <1>12. CASE FlushDone(t) \/ RefreshBegin(t)
    BY <1>0, <1>12 DEF FlushDone, RefreshBegin, engine, head, counter
  <1>13. CASE LockedFold(t)
    <2>1. LoadPop(Slots) \in Nat
      BY <1>0, LoadType
    <2>2. Folded \in [Digits -> Nat]
      BY <1>0, <1>2, KeysFinite DEF Folded
    <2>3. Total(Folded, Digits) \in Nat
      <3>1. \A d \in Digits : Folded[d] \in Nat
        BY <2>2
      <3> QED  BY <3>1, TotalNat, TreeAssumption
    <2> QED  BY <1>0, <1>13, <2>1, <2>2, <2>3 DEF LockedFold, FlushTo, Locals, head, counter
  <1> QED
    BY <1>3, <1>4, <1>5, <1>6, <1>7, <1>8, <1>9, <1>10, <1>11, <1>12, <1>13 DEF Counting

(* The history records what it may. *)
LEMMA WatchTypes ==
  ASSUME TypeOK, Watch
  PROVE  overlap' \in [Threads -> SUBSET {"change", "flush"}]
  BY DEF TypeOK, Watch

(* Types are kept. *)
LEMMA TypeStep ==
  ASSUME TypeOK, OpInv, ApplyInv, GateFacts, GateFacts', NEW t \in Threads, Step(t)
  PROVE  TypeOK'
  <1>1. EngineType' /\ ThreadType'
    BY StepKinds, PassingTypes, PassingEngine, CountingTypes
  <1>2. G!TypeOK' /\ pc' \in [Threads -> Places] /\ after' \in [Threads -> Places]
    BY DEF GateFacts, GateKeeps, LinkInv
  <1>3. overlap' \in [Threads -> SUBSET {"change", "flush"}]
    BY WatchTypes DEF Step
  <1> QED  BY <1>1, <1>2, <1>3 DEF TypeOK, EngineType, ThreadType

------------------------------------------------------------------------------
(* The parts of the invariant, one lemma each. *)

LEMMA PendStep ==
  ASSUME TypeOK, OpInv, PendInv, GateFacts, NEW t \in Threads, Step(t)
  PROVE  PendInv'
  <1>1. Others(t)
    BY OthersStay DEF Step
  <1>2. ASSUME NEW u \in Threads \ {t}, pend'[u] # 0
        PROVE  pc'[u] \in {"mark", "add", "publish", "count", "flush", "shards"}
    BY <1>1, <1>2 DEF Others, PendInv
  <1>3. ASSUME pend'[t] # 0
        PROVE  pc'[t] \in {"mark", "add", "publish", "count", "flush", "shards"}
    <2>0. pc \in [Threads -> Places] /\ pend \in [Threads -> Int]
      BY DEF GateFacts, LinkInv, TypeOK
    <2>1. CASE Passing(t)
      BY <1>3, <2>1, PassingFrame DEF PendInv, Busy
    <2>2. CASE OlcApply(t) \/ CoverApply(t) \/ OlcMark(t) \/ CoverPublish(t) \/ CoverCount(t)
      BY <1>3, <2>0, <2>2
         DEF OlcApply, Descend, CoverApply, OlcMark, CoverPublish, CoverCount, FlushTo, At
    <2>3. CASE PopAdd(t) \/ FlushBase(t) \/ FlushShard(t) \/ FlushDone(t)
      BY <1>3, <2>0, <2>3 DEF PopAdd, FlushBase, FlushShard, FlushDone, At
    <2>4. CASE CoverBegin(t) \/ LockedFold(t) \/ RefreshBegin(t) \/ RefreshEnd(t)
      BY <1>3, <2>0, <2>4
         DEF PendInv, CoverBegin, LockedFold, RefreshBegin, RefreshEnd, FlushTo, At
    <2> QED  BY <2>1, <2>2, <2>3, <2>4, StepKinds DEF Counting
  <1> QED  BY <1>2, <1>3 DEF PendInv

LEMMA ZeroStep ==
  ASSUME TypeOK, ZeroInv, GateFacts, NEW t \in Threads, Step(t)
  PROVE  ZeroInv'
  <1>0. shard \in [Slots -> Int]
    BY DEF TypeOK
  <1>1. CASE Passing(t)
    BY <1>1, PassingFrame DEF ZeroInv
  <1>2. CASE PopAdd(t)
    <2>1. slot[t] \in allocated
      BY <1>2 DEF PopAdd, At, GateFacts, GateKeeps, LinkInv, Optimistic
    <2> QED  BY <1>0, <1>2, <2>1 DEF ZeroInv, PopAdd, gate
  <1>3. CASE FlushShard(t)
    BY <1>0, <1>3 DEF ZeroInv, FlushShard, gate
  <1>4. CASE Counting(t) /\ ~PopAdd(t) /\ ~FlushShard(t)
    BY <1>4 DEF ZeroInv, Counting, OlcApply, OlcMark, CoverBegin, CoverApply, CoverPublish, CoverCount,
                FlushBase, FlushDone, LockedFold, RefreshBegin, RefreshEnd, gate, counter
  <1> QED  BY <1>1, <1>2, <1>3, <1>4, StepKinds

(* The changes on their way, when the step of one thread moves its own. *)
LEMMA PendMoves ==
  ASSUME pend \in [Threads -> Int], pend' \in [Threads -> Int], NEW t \in Threads,
         \A u \in Threads \ {t} : pend'[u] = pend[u]
  PROVE  /\ Total(pend, Threads) \in Int
         /\ Total(pend', Threads) = Total(pend, Threads) + (pend'[t] - pend[t])
  <1>1. IsFiniteSet(Threads)
    BY GateAssumption
  <1>2. Total(pend, Threads) \in Int
    BY <1>1, TotalType
  <1>3. Total(pend', Threads) = Total(pend, Threads) + (pend'[t] - pend[t])
    BY <1>1, TotalUpdate
  <1> QED  BY <1>2, <1>3

LEMMA PopulationStep ==
  ASSUME TypeOK, TypeOK', PendInv, FlushInv, CountInv, PopulationExact, GateFacts, GateFacts',
         NEW t \in Threads, Step(t)
  PROVE  PopulationExact'
  <1>0. /\ pc \in [Threads -> Places] /\ pend \in [Threads -> Int] /\ pend' \in [Threads -> Int]
        /\ base \in Int /\ shard \in [Slots -> Int] /\ shard' \in [Slots -> Int]
        /\ Cardinality(keys) \in Nat
    BY EnginePopType DEF TypeOK
  <1>1. Others(t)
    BY OthersStay DEF Step
  <1>2. /\ Total(pend, Threads) \in Int
        /\ Total(pend', Threads) = Total(pend, Threads) + (pend'[t] - pend[t])
    BY <1>0, <1>1, PendMoves DEF Others
  <1>3. Total(shard, Slots) \in Int
    BY <1>0, LoadType
  <1>4. SUFFICES ASSUME \A u \in Threads : pc'[u] # "shards"
                 PROVE  base' + Total(shard', Slots) = Cardinality(keys') - Total(pend', Threads)
    BY DEF PopulationExact
  <1>5. ASSUME pc[t] # "shards"
        PROVE  base + Total(shard, Slots) = Cardinality(keys) - Total(pend, Threads)
    BY <1>1, <1>4, <1>5 DEF PopulationExact, Others
  <1>6. CASE Passing(t)
    <2>1. UNCHANGED <<keys, base, shard, pend>> /\ pc[t] # "shards"
      BY <1>6, PassingFrame DEF Busy
    <2> QED  BY <1>5, <2>1
  <1>7. CASE OlcMark(t) \/ CoverBegin(t) \/ CoverPublish(t) \/ LockedFold(t)
             \/ RefreshBegin(t) \/ RefreshEnd(t)
    <2>1. UNCHANGED <<keys, base, shard, pend>> /\ pc[t] # "shards"
      BY <1>7 DEF OlcMark, CoverBegin, CoverPublish, LockedFold, RefreshBegin, RefreshEnd,
                  FlushTo, At, engine, counter
    <2> QED  BY <1>5, <2>1
  <1>8. CASE OlcApply(t) \/ CoverApply(t)
    <2>1. /\ UNCHANGED <<base, shard>> /\ pc[t] \in {"olc", "apply"}
          /\ pend'[t] = Cardinality(keys') - Cardinality(keys)
      BY <1>0, <1>8 DEF OlcApply, OlcStore, CoverApply, Descend, FlushTo, At, counter
    <2>2. pend[t] = 0
      BY <2>1 DEF PendInv
    <2>3. Cardinality(keys') \in Nat
      <3>1. keys' \in SUBSET Keys
        BY DEF TypeOK
      <3> QED  BY <3>1, KeysFinite
    <2> QED  BY <1>0, <1>2, <1>3, <1>5, <2>1, <2>2, <2>3
  <1>9. CASE PopAdd(t)
    <2>1. /\ UNCHANGED <<keys, base>> /\ pc[t] = "add" /\ pend'[t] = 0
          /\ shard' = [shard EXCEPT ![slot[t]] = @ + pend[t]]
      BY <1>0, <1>9 DEF PopAdd, At, engine
    <2>2. PICK s \in Slots : s = slot[t]
      BY <2>1 DEF GateFacts, GateKeeps, LinkInv, Optimistic, G!TypeOK, Slots
    <2>3. Total(shard', Slots) = Total(shard, Slots) + pend[t]
      <3>1. (\A r \in Slots \ {s} : shard'[r] = shard[r]) /\ shard'[s] - shard[s] = pend[t]
        BY <1>0, <2>1, <2>2
      <3>2. Total(shard', Slots) = Total(shard, Slots) + (shard'[s] - shard[s])
        <4>1. IsFiniteSet(Slots) /\ shard \in [Slots -> Int] /\ shard' \in [Slots -> Int]
          BY <1>0, SlotsFinite
        <4>2. \A r \in Slots \ {s} : shard'[r] = shard[r]
          BY <3>1
        <4> QED  BY <4>1, <4>2, TotalUpdate
      <3> QED  BY <3>1, <3>2
    <2> QED  BY <1>0, <1>2, <1>3, <1>5, <2>1, <2>3
  <1>10. CASE CoverCount(t)
    <2>1. UNCHANGED <<keys, shard>> /\ pc[t] = "count"
      BY <1>10 DEF CoverCount, FlushTo, At, engine
    <2>2. CASE UNCHANGED <<base, pend>>
      BY <1>5, <2>1, <2>2
    <2>3. CASE /\ EnginePop > 0 \/ loc[t].pop = 0
               /\ base' = base + (EnginePop - loc[t].pop) /\ pend'[t] = 0
      <3>1. pend[t] = EnginePop - loc[t].pop
        BY <2>1, <2>3 DEF CountInv
      <3> QED  BY <1>0, <1>2, <1>3, <1>5, <2>1, <2>3, <3>1
    <2> QED  BY <1>0, <1>10, <2>2, <2>3 DEF CoverCount
  <1>11. CASE FlushBase(t) \/ FlushShard(t)
    BY <1>0, <1>4, <1>11 DEF FlushBase, FlushShard, At
  <1>12. CASE FlushDone(t)
    <2>1. /\ UNCHANGED <<keys, base, shard>> /\ pc[t] = "shards" /\ loc[t].rest = {}
          /\ pend'[t] = 0
      BY <1>0, <1>12 DEF FlushDone, At, engine, counter
    <2>2. base = Cardinality(keys) /\ \A s \in Slots : shard[s] = 0
      BY <2>1 DEF FlushInv, Flushing
    <2>3. \A u \in Threads : pend'[u] = 0
      BY <1>1, <2>1, SoloPend DEF Others, Section
    <2>4. Total(shard, Slots) = 0
      BY <2>2, TotalZero
    <2>5. Total(pend', Threads) = 0
      BY <2>3, TotalZero
    <2> QED  BY <1>0, <2>1, <2>2, <2>4, <2>5
  <1> QED
    BY <1>6, <1>7, <1>8, <1>9, <1>10, <1>11, <1>12, StepKinds DEF Counting

(* At the start of a section the counter holds the number of keys, and so do
   the allocated shards alone. *)
LEMMA SectionLoads ==
  ASSUME TypeOK, PendInv, ZeroInv, PopulationExact, GateFacts, NEW t \in Threads, pc[t] = "body"
  PROVE  LoadPop(Slots) = Cardinality(keys) /\ LoadPop(allocated) = Cardinality(keys)
  <1>0. /\ base \in Int /\ shard \in [Slots -> Int] /\ Cardinality(keys) \in Nat
        /\ allocated \in SUBSET Slots
    BY EnginePopType DEF TypeOK, GateFacts, GateKeeps, G!TypeOK, Slots
  <1>1. \A u \in Threads : pend[u] = 0
    BY SoloPend DEF PendInv, Section
  <1>2. Total(pend, Threads) = 0
    BY <1>1, TotalZero
  <1>3. \A u \in Threads : pc[u] # "shards"
    BY DEF GateFacts, SectionAlone, Section
  <1>4. Total(shard, Slots) \in Int /\ Total(shard, allocated) \in Int
    BY <1>0, LoadType
  <1>5. base + Total(shard, Slots) = Cardinality(keys)
    BY <1>0, <1>2, <1>3, <1>4 DEF PopulationExact
  <1>6. Total(shard, Slots) = Total(shard, allocated)
    <2>1. (\A s \in Slots : shard[s] \in Int) /\ (\A s \in Slots \ allocated : shard[s] = 0)
      BY <1>0 DEF ZeroInv
    <2> QED  BY <1>0, <2>1, SlotsFinite, TotalSubset
  <1>7. /\ LoadPop(Slots) = IF base + Total(shard, Slots) >= 0 THEN base + Total(shard, Slots) ELSE 0
        /\ LoadPop(allocated) = IF base + Total(shard, allocated) >= 0
                                THEN base + Total(shard, allocated) ELSE 0
    BY <1>0, LoadType
  <1> QED  BY <1>0, <1>4, <1>5, <1>6, <1>7

(* In a section of a tree, every child whose digit is not marked is exact, so
   the fold makes all of them exact. *)
LEMMA SectionChildren ==
  ASSUME DirtyInv, GateFacts, NEW t \in Threads, pc[t] \in Section, root = "tree"
  PROVE  \A d \in Digits \ dirty : subPop[d] = Count(d, keys)
  <1>1. \A u \in Threads : pc[u] # "mark"
    BY DEF GateFacts, SectionAlone, Section, Optimistic
  <1> QED  BY <1>1 DEF DirtyInv

LEMMA FoldExact ==
  ASSUME TypeOK, DirtyInv, GateFacts, NEW t \in Threads, pc[t] \in Section, root = "tree"
  PROVE  Folded = Counts(keys) /\ Total(Folded, Digits) = Cardinality(keys)
  <1>1. Folded = Counts(keys)
    BY SectionChildren DEF Folded, Counts
  <1>2. Total(Counts(keys), Digits) = Cardinality(keys)
    BY CountsTotal DEF TypeOK
  <1> QED  BY <1>1, <1>2

(* What the fold of a locked read leaves. *)
LEMMA FoldEffect ==
  ASSUME TypeOK, PendInv, ZeroInv, PopulationExact, DirtyInv, GateFacts, NEW t \in Threads,
         LockedFold(t)
  PROVE  /\ UNCHANGED <<keys, root, pub, word, base, shard, pend, op>> /\ dirty' = {}
         /\ pc[t] = "body"
         /\ root = "tree" => treePop' = Cardinality(keys) /\ subPop' = Counts(keys)
         /\ \/ pc'[t] = "view"
            \/ /\ pc'[t] = "flush" /\ after'[t] \in {"refresh", "view"}
               /\ loc'[t].goal = Cardinality(keys)
  <1>0. /\ pc \in [Threads -> Places] /\ after \in [Threads -> Places] /\ loc \in [Threads -> Locals]
        /\ subPop \in [Digits -> Nat]
    BY DEF GateFacts, LinkInv, TypeOK
  <1>1. /\ UNCHANGED <<keys, root, pub, word, base, shard, pend, op>> /\ dirty' = {}
        /\ pc[t] = "body"
    BY DEF LockedFold, FlushTo, At, head, counter
  <1>2. LoadPop(Slots) = Cardinality(keys)
    BY <1>1, SectionLoads
  <1>3. CASE dirty # {} /\ root = "tree"
    <2>1. Folded = Counts(keys) /\ Total(Folded, Digits) = Cardinality(keys)
      BY <1>1, <1>3, FoldExact DEF Section
    <2>2. subPop' = Folded /\ treePop' = Total(Folded, Digits) /\ FlushTo(t, "body", treePop', "refresh")
      BY <1>3 DEF LockedFold
    <2>3. treePop' = Cardinality(keys) /\ subPop' = Counts(keys)
      BY <2>1, <2>2, Zenon
    <2> QED  BY <1>0, <1>1, <2>2, <2>3 DEF FlushTo, At, Locals
  <1>4. CASE dirty # {} /\ root # "tree"
    BY <1>0, <1>1, <1>4 DEF LockedFold, At
  <1>5. CASE dirty = {}
    <2>1. treePop' = LoadPop(Slots) /\ subPop' = subPop /\ FlushTo(t, "body", treePop', "view")
      BY <1>5 DEF LockedFold
    <2>2. root = "tree" => subPop' = Counts(keys)
      <3>1. root = "tree" => \A d \in Digits : subPop[d] = Count(d, keys)
        BY <1>1, <1>5, SectionChildren DEF Section
      <3> QED  BY <1>0, <2>1, <3>1 DEF Counts
    <2> QED  BY <1>0, <1>1, <1>2, <2>1, <2>2 DEF FlushTo, At, Locals
  <1> QED  BY <1>3, <1>4, <1>5

LEMMA FlushStep ==
  ASSUME TypeOK, PendInv, ZeroInv, PopulationExact, FlushInv, CountInv, DirtyInv, GateFacts,
         NEW t \in Threads, Step(t)
  PROVE  FlushInv'
  <1>0. /\ pc \in [Threads -> Places] /\ after \in [Threads -> Places] /\ loc \in [Threads -> Locals]
        /\ shard \in [Slots -> Int]
    BY DEF GateFacts, LinkInv, TypeOK
  <1>1. Others(t)
    BY OthersStay DEF Step
  <1> USE DEF Flushing
  <1>2. CASE Passing(t)
    BY <1>1, <1>2, PassingFrame DEF FlushInv, Others, Busy
  <1>3. ASSUME Counting(t), NEW u \in Threads \ {t} PROVE pc'[u] \notin Flushing
    BY <1>1, <1>3, Solo DEF Others, Section
  <1>4. ASSUME Counting(t), pc'[t] \notin Flushing PROVE FlushInv'
    BY <1>3, <1>4 DEF FlushInv
  <1>5. CASE OlcApply(t) \/ OlcMark(t) \/ PopAdd(t)
    BY <1>0, <1>4, <1>5 DEF Counting, OlcApply, OlcMark, PopAdd, Descend, At
  <1>6. CASE CoverBegin(t) \/ CoverPublish(t) \/ RefreshBegin(t) \/ RefreshEnd(t)
    BY <1>0, <1>4, <1>6 DEF Counting, CoverBegin, CoverPublish, RefreshBegin, RefreshEnd, At
  <1>7. CASE CoverApply(t)
    <2>1. CASE EngineClear /\ FlushTo(t, "apply", 0, "publish")
      <3>1. /\ pc'[t] = "flush" /\ after'[t] = "publish" /\ loc'[t].goal = 0
            /\ keys' = {} /\ root' = "leaf" /\ Cardinality(keys') = 0
        BY <1>0, <2>1, NoKeys DEF EngineClear, FlushTo, At, Locals
      <3> QED  BY <1>3, <1>7, <3>1 DEF FlushInv, Counting
    <2>2. CASE At(t, "apply", "publish")
      BY <1>0, <1>4, <1>7, <2>2 DEF Counting, At
    <2> QED  BY <1>7, <2>1, <2>2 DEF CoverApply
  <1>8. CASE CoverCount(t)
    <2>1. CASE EnginePop = 0 /\ loc[t].pop > 0 /\ FlushTo(t, "count", 0, "leave")
      <3>1. /\ pc[t] = "count" /\ pc'[t] = "flush" /\ after'[t] = "leave" /\ loc'[t].goal = 0
            /\ keys' = keys
        BY <1>0, <1>8, <2>1 DEF CoverCount, FlushTo, At, Locals, engine
      <3>2. keys = {}
        BY <2>1, <3>1 DEF CountInv
      <3>3. Cardinality(keys') = 0
        BY <3>1, <3>2, NoKeys
      <3> QED  BY <1>3, <1>8, <3>1, <3>3 DEF FlushInv, Counting
    <2>2. CASE At(t, "count", "leave")
      BY <1>0, <1>4, <1>8, <2>2 DEF Counting, At
    <2> QED  BY <1>8, <2>1, <2>2 DEF CoverCount
  <1>9. CASE FlushBase(t)
    <2>1. /\ pc[t] = "flush" /\ pc'[t] = "shards" /\ UNCHANGED <<keys, root, after>>
          /\ base' = loc[t].goal /\ loc'[t].goal = loc[t].goal /\ loc'[t].rest = Slots
      BY <1>0, <1>9 DEF FlushBase, At, Locals, engine
    <2> QED  BY <1>3, <1>9, <2>1 DEF FlushInv, Counting
  <1>10. CASE FlushShard(t)
    <2>1. PICK s \in loc[t].rest :
            shard' = [shard EXCEPT ![s] = 0] /\ loc' = [loc EXCEPT ![t].rest = @ \ {s}]
      BY <1>10 DEF FlushShard
    <2>2. /\ pc[t] = "shards" /\ pc'[t] = "shards" /\ UNCHANGED <<keys, root, after, base>>
          /\ loc'[t].goal = loc[t].goal /\ loc'[t].rest = loc[t].rest \ {s}
          /\ loc[t].rest \subseteq Slots
      BY <1>0, <1>10, <2>1 DEF FlushShard, Locals, engine
    <2>3. /\ loc[t].goal = Cardinality(keys) /\ base = loc[t].goal
          /\ \A r \in Slots \ loc[t].rest : shard[r] = 0
          /\ after[t] = "publish" => keys = {} /\ root = "leaf"
      BY <2>2 DEF FlushInv
    <2>4. \A r \in Slots \ loc'[t].rest : shard'[r] = 0
      BY <1>0, <2>1, <2>2, <2>3
    <2> QED  BY <1>3, <1>10, <2>2, <2>3, <2>4 DEF FlushInv, Counting
  <1>11. CASE FlushDone(t)
    <2>1. pc'[t] = after[t] /\ pc[t] = "shards"
      BY <1>0, <1>11 DEF FlushDone, At
    <2>2. after[t] \in {"publish", "leave", "refresh", "view"}
      BY <2>1 DEF GateFacts, LinkInv
    <2> QED  BY <1>4, <1>11, <2>1, <2>2 DEF Counting
  <1>12. CASE LockedFold(t)
    <2>1. CASE pc'[t] = "view"
      BY <1>4, <1>12, <2>1 DEF Counting
    <2>2. CASE /\ pc'[t] = "flush" /\ after'[t] \in {"refresh", "view"}
               /\ loc'[t].goal = Cardinality(keys)
      <3>1. keys' = keys
        BY <1>12 DEF LockedFold
      <3> QED  BY <1>3, <1>12, <2>2, <3>1 DEF FlushInv, Counting
    <2> QED  BY <1>12, <2>1, <2>2, FoldEffect
  <1> QED
    BY <1>2, <1>5, <1>6, <1>7, <1>8, <1>9, <1>10, <1>11, <1>12, StepKinds DEF Counting

(* Where a flush leads is where it was to lead. *)
LEMMA FlushLeads ==
  ASSUME GateFacts, NEW t \in Threads, FlushDone(t)
  PROVE  /\ pc[t] = "shards" /\ pc'[t] = after[t] /\ UNCHANGED <<engine, pub, word, base, shard, dirty>>
         /\ after[t] \in {"publish", "leave", "refresh", "view"}
  BY DEF FlushDone, At, GateFacts, LinkInv, head, counter

LEMMA ApplyStep ==
  ASSUME TypeOK, PendInv, ZeroInv, PopulationExact, ApplyInv, GateFacts,
         NEW t \in Threads, Step(t)
  PROVE  ApplyInv'
  <1>0. /\ pc \in [Threads -> Places] /\ loc \in [Threads -> Locals]
    BY DEF GateFacts, LinkInv, TypeOK
  <1>1. Others(t)
    BY OthersStay DEF Step
  <1>2. CASE Passing(t)
    BY <1>1, <1>2, PassingFrame DEF ApplyInv, Others, EnginePop, InOp
  <1>3. ASSUME Counting(t), NEW u \in Threads \ {t} PROVE pc'[u] # "apply"
    BY <1>1, <1>3, Solo DEF Others, Section
  <1>4. ASSUME Counting(t), pc'[t] # "apply" PROVE ApplyInv'
    BY <1>3, <1>4 DEF ApplyInv
  <1>5. CASE CoverBegin(t)
    <2>1. LoadPop(allocated) = Cardinality(keys)
      BY <1>5, SectionLoads DEF CoverBegin, At
    <2>2. /\ keys' = keys /\ root' = root /\ op' = op
          /\ treePop' = IF InOp(t, Exact) THEN LoadPop(allocated) ELSE treePop
          /\ loc'[t].pop = IF root = "tree" THEN treePop' ELSE Cardinality(keys)
      BY <1>0, <1>5 DEF CoverBegin, Locals
    <2>3. loc'[t].pop = EnginePop'
      BY <2>2 DEF EnginePop
    <2>4. InOp(t, Exact)' => treePop' = Cardinality(keys')
      BY <2>1, <2>2 DEF InOp
    <2> QED  BY <1>3, <1>5, <2>3, <2>4 DEF ApplyInv, Counting
  <1>6. CASE OlcApply(t) \/ OlcMark(t) \/ PopAdd(t) \/ CoverPublish(t) \/ RefreshBegin(t) \/ RefreshEnd(t)
    BY <1>0, <1>4, <1>6
       DEF Counting, OlcApply, OlcMark, PopAdd, CoverPublish, RefreshBegin, RefreshEnd, Descend, At
  <1>7. CASE CoverApply(t) \/ CoverCount(t) \/ LockedFold(t)
    BY <1>0, <1>4, <1>7 DEF Counting, CoverApply, CoverCount, LockedFold, FlushTo, At
  <1>8. CASE FlushBase(t) \/ FlushShard(t)
    BY <1>0, <1>4, <1>8 DEF Counting, FlushBase, FlushShard, At
  <1>9. CASE FlushDone(t)
    BY <1>4, <1>9, FlushLeads DEF Counting
  <1> QED  BY <1>2, <1>5, <1>6, <1>7, <1>8, <1>9, StepKinds DEF Counting

LEMMA CountStep ==
  ASSUME TypeOK, TypeOK', PendInv, FlushInv, ApplyInv, CountInv, GateFacts,
         NEW t \in Threads, Step(t)
  PROVE  CountInv'
  <1>0. /\ pc \in [Threads -> Places] /\ loc \in [Threads -> Locals] /\ pend \in [Threads -> Int]
    BY DEF GateFacts, LinkInv, TypeOK
  <1>1. Others(t)
    BY OthersStay DEF Step
  <1>2. CASE Passing(t)
    BY <1>1, <1>2, PassingFrame DEF CountInv, Others, EnginePop, Busy
  <1>3. ASSUME Counting(t), NEW u \in Threads \ {t} PROVE pc'[u] \notin {"publish", "count"}
    BY <1>1, <1>3, Solo DEF Others, Section
  <1>4. ASSUME Counting(t), pc'[t] \notin {"publish", "count"} PROVE CountInv'
    BY <1>3, <1>4 DEF CountInv
  <1>5. CASE CoverApply(t)
    <2>1. /\ pc[t] = "apply" /\ pend'[t] = Cardinality(keys') - Cardinality(keys) /\ op' = op
      BY <1>0, <1>5 DEF CoverApply, FlushTo, At
    <2>2. /\ loc[t].pop = EnginePop
          /\ InOp(t, Exact) /\ root = "tree" => treePop = Cardinality(keys)
      BY <2>1 DEF ApplyInv
    <2>3. Cardinality(keys) \in Nat /\ EnginePop \in Nat
      BY EnginePopType
    <2>4. Cardinality(keys') \in Nat /\ EnginePop' \in Nat /\ IsFiniteSet(keys')
      <3>1. keys' \in SUBSET Keys /\ treePop' \in Nat
        BY DEF TypeOK
      <3>2. Cardinality(keys') \in Nat /\ IsFiniteSet(keys')
        BY <3>1, KeysFinite
      <3> QED  BY <3>1, <3>2 DEF EnginePop
    <2>5. CASE InOp(t, {"insert", "exclusive"}) /\ EngineInsert(op[t].key) /\ UNCHANGED <<after, loc>>
      <3>1. op[t].key \in Keys
        BY <2>5, KeyOf DEF Keyed, InOp
      <3>2. EnginePop' - EnginePop = Cardinality(keys') - Cardinality(keys) /\ EnginePop' >= EnginePop
        BY <2>5, <3>1, InsertEffect
      <3> QED  BY <1>3, <1>5, <2>1, <2>2, <2>3, <2>4, <2>5, <3>2 DEF CountInv, Counting
    <2>6. CASE InOp(t, {"remove", "exclusive"}) /\ EngineRemove(op[t].key) /\ UNCHANGED <<after, loc>>
      <3>1. op[t].key \in Keys
        BY <2>6, KeyOf DEF Keyed, InOp
      <3>2. root = "tree" => treePop = Cardinality(keys)
        BY <2>2, <2>6 DEF InOp, Exact
      <3>3. EnginePop = Cardinality(keys) /\ EnginePop' = Cardinality(keys')
        BY <2>6, <3>1, <3>2, RemoveEffect
      <3>4. Cardinality(keys') = 0 => keys' = {}
        BY <2>4, FS_EmptySet
      <3> QED  BY <1>3, <1>5, <2>1, <2>2, <2>3, <2>4, <2>6, <3>3, <3>4 DEF CountInv, Counting
    <2>7. CASE FlushTo(t, "apply", 0, "publish")
      BY <1>0, <1>4, <1>5, <2>7 DEF Counting, FlushTo, At
    <2> QED  BY <1>5, <2>5, <2>6, <2>7 DEF CoverApply
  <1>6. CASE CoverPublish(t)
    <2>1. pc[t] = "publish" /\ pc'[t] = "count" /\ UNCHANGED <<keys, root, treePop, loc, pend>>
      BY <1>0, <1>6 DEF CoverPublish, At, engine
    <2> QED  BY <1>3, <1>6, <2>1 DEF CountInv, Counting, EnginePop
  <1>7. CASE FlushDone(t)
    <2>1. /\ pc[t] = "shards" /\ pc'[t] = after[t] /\ UNCHANGED <<engine, loc>> /\ pend'[t] = 0
          /\ after[t] \in {"publish", "leave", "refresh", "view"}
      BY <1>0, <1>7, FlushLeads DEF FlushDone
    <2>2. CASE after[t] = "publish"
      <3>1. keys = {} /\ root = "leaf"
        BY <2>1, <2>2 DEF FlushInv, Flushing
      <3>2. EnginePop' = 0 /\ keys' = {}
        BY <2>1, <3>1, NoKeys DEF engine, EnginePop
      <3>3. loc'[t].pop \in Int
        BY <1>0, <2>1 DEF Locals
      <3> QED  BY <1>3, <1>7, <2>1, <3>2, <3>3 DEF CountInv, Counting
    <2>3. CASE after[t] # "publish"
      BY <1>4, <1>7, <2>1, <2>3 DEF Counting
    <2> QED  BY <2>2, <2>3
  <1>8. CASE OlcApply(t) \/ OlcMark(t) \/ PopAdd(t) \/ CoverBegin(t) \/ RefreshBegin(t) \/ RefreshEnd(t)
    BY <1>0, <1>4, <1>8
       DEF Counting, OlcApply, OlcMark, PopAdd, CoverBegin, RefreshBegin, RefreshEnd, Descend, At
  <1>9. CASE CoverCount(t) \/ LockedFold(t) \/ FlushBase(t) \/ FlushShard(t)
    BY <1>0, <1>4, <1>9 DEF Counting, CoverCount, LockedFold, FlushBase, FlushShard, FlushTo, At
  <1> QED  BY <1>2, <1>5, <1>6, <1>7, <1>8, <1>9, StepKinds DEF Counting

(* The stage of a thread that does not move, and of one that passes. *)
LEMMA StageStays ==
  ASSUME NEW t \in Threads, Others(t), NEW u \in Threads \ {t}
  PROVE  Stage(u)' = Stage(u)
  BY DEF Others, Stage

LEMMA StagePasses ==
  ASSUME GateFacts, NEW t \in Threads, Passing(t)
  PROVE  Stage(t) = pc[t] /\ Stage(t)' = pc'[t]
  BY PassingFrame DEF Stage, Busy, Flushing

(* No other thread is at a stage of a section during a counting step. *)
LEMMA StageSolo ==
  ASSUME GateFacts, NEW t \in Threads, Counting(t), NEW u \in Threads \ {t}
  PROVE  Stage(u) = pc[u] /\ Stage(u) \notin Section
  BY Solo DEF Stage, Flushing, Section

(* Every counting step but these leaves the published root and the engine's
   contents alone. *)
LEMMA PubStep ==
  ASSUME TypeOK, PubInv, GateFacts, GateFacts', NEW t \in Threads, Step(t)
  PROVE  PubInv'
  <1>0. pc \in [Threads -> Places] /\ after \in [Threads -> Places]
    BY DEF GateFacts, LinkInv
  <1>1. Others(t)
    BY OthersStay DEF Step
  <1>2. SUFFICES ASSUME \A u \in Threads : Stage(u)' # "publish" PROVE (pub = Snapshot)'
    BY Zenon DEF PubInv
  <1>3. ASSUME Stage(t) # "publish" PROVE pub = Snapshot
    <2>1. \A u \in Threads : Stage(u) # "publish"
      BY <1>1, <1>2, <1>3, StageStays
    <2> QED  BY <2>1 DEF PubInv
  <1>4. CASE Passing(t)
    <2>1. Stage(t) # "publish"
      BY <1>4, StagePasses, PassingFrame DEF Busy
    <2> QED  BY <1>3, <1>4, <2>1, PassingFrame DEF Snapshot
  <1>5. CASE OlcApply(t)
    <2>1. /\ pc[t] = "olc" /\ pub.kind = "tree" /\ UNCHANGED <<root, pub>>
      BY <1>5 DEF OlcApply, OlcStore, Descend, At, head
    <2>2. pub = Snapshot
      BY <1>3, <2>1 DEF Stage, Flushing
    <2>3. root = "tree"
      BY <2>1, <2>2 DEF Snapshot
    <2> QED  BY <2>1, <2>2, <2>3 DEF Snapshot
  <1>6. CASE OlcMark(t) \/ PopAdd(t) \/ CoverBegin(t) \/ CoverCount(t) \/ RefreshBegin(t) \/ LockedFold(t)
    <2>1. UNCHANGED <<keys, root, pub>> /\ pc[t] \in {"mark", "add", "body", "count", "refresh"}
      BY <1>6 DEF OlcMark, PopAdd, CoverBegin, CoverCount, RefreshBegin, LockedFold, FlushTo, At,
                  engine, head
    <2> QED  BY <1>3, <2>1 DEF Snapshot, Stage, Flushing
  <1>7. CASE CoverApply(t)
    <2>1. Stage(t)' = "publish"
      BY <1>0, <1>7 DEF CoverApply, FlushTo, At, Stage, Flushing
    <2> QED  BY <1>2, <2>1
  <1>8. CASE CoverPublish(t) \/ RefreshEnd(t)
    BY <1>8 DEF CoverPublish, RefreshEnd, engine, Snapshot
  <1>9. CASE FlushBase(t) \/ FlushShard(t) \/ FlushDone(t)
    <2>1. UNCHANGED <<keys, root, pub>> /\ Stage(t)' = Stage(t)
      <3>1. CASE FlushBase(t) \/ FlushShard(t)
        BY <1>0, <3>1 DEF FlushBase, FlushShard, At, Stage, Flushing, engine, head
      <3>2. CASE FlushDone(t)
        BY <3>2, FlushLeads DEF Stage, Flushing, engine
      <3> QED  BY <1>9, <3>1, <3>2
    <2> QED  BY <1>2, <1>3, <2>1 DEF Snapshot
  <1> QED  BY <1>4, <1>5, <1>6, <1>7, <1>8, <1>9, StepKinds DEF Counting

LEMMA DirtyStep ==
  ASSUME TypeOK, OpInv, PendInv, ZeroInv, PopulationExact, ApplyInv, PubInv, DirtyInv, GateFacts,
         NEW t \in Threads, Step(t)
  PROVE  DirtyInv'
  <1>0. /\ pc \in [Threads -> Places] /\ subPop \in [Digits -> Nat] /\ keys \in SUBSET Keys
        /\ dirty \subseteq Digits
    BY DEF GateFacts, LinkInv, TypeOK
  <1>1. Others(t)
    BY OthersStay DEF Step
  <1>2. SUFFICES ASSUME root' = "tree", NEW d \in Digits \ dirty'
                 PROVE  \/ subPop'[d] = Count(d, keys')
                        \/ \E u \in Threads : pc'[u] = "mark" /\ DigitOf[op'[u].key] = d
    BY DEF DirtyInv
  <1>3. ASSUME UNCHANGED <<root, subPop, keys, dirty>>, pc[t] # "mark"
        PROVE  \/ subPop'[d] = Count(d, keys')
               \/ \E u \in Threads : pc'[u] = "mark" /\ DigitOf[op'[u].key] = d
    <2>1. \/ subPop[d] = Count(d, keys)
          \/ \E u \in Threads : pc[u] = "mark" /\ DigitOf[op[u].key] = d
      BY <1>2, <1>3 DEF DirtyInv
    <2>2. CASE subPop[d] = Count(d, keys)
      BY <1>3, <2>2
    <2>3. ASSUME NEW u \in Threads, pc[u] = "mark", DigitOf[op[u].key] = d
          PROVE  pc'[u] = "mark" /\ DigitOf[op'[u].key] = d
      BY <1>1, <1>3, <2>3 DEF Others
    <2> QED  BY <2>1, <2>2, <2>3
  <1>4. CASE Passing(t)
    BY <1>3, <1>4, PassingFrame DEF Busy
  <1>5. CASE OlcApply(t)
    <2> DEFINE k == op[t].key
    <2>0. pc[t] = "olc" /\ UNCHANGED <<root, op, dirty>> /\ pc'[t] = "mark" /\ keys' = Wanted(t)
      BY <1>0, <1>5 DEF OlcApply, OlcStore, Descend, At
    <2>1. CASE DigitOf[k] = d
      BY <2>0, <2>1
    <2>2. CASE DigitOf[k] # d
      <3>1. k \in Keys
        BY <2>0, KeyOf DEF OpInv, OpFits, Optimistic, InOp, Writes, Keyed
      <3>2. subPop'[d] = subPop[d]
        BY <1>0, <1>5, <2>2 DEF OlcApply, OlcStore
      <3>3. Count(d, keys') = Count(d, keys)
        <4>1. {j \in keys' : DigitOf[j] = d} = {j \in keys : DigitOf[j] = d}
          BY <2>0, <2>2 DEF Wanted
        <4> QED  BY <4>1, Zenon DEF Count
      <3>4. \/ subPop[d] = Count(d, keys)
            \/ \E u \in Threads : pc[u] = "mark" /\ DigitOf[op[u].key] = d
        BY <1>2, <2>0 DEF DirtyInv
      <3>5. ASSUME NEW u \in Threads, pc[u] = "mark", DigitOf[op[u].key] = d
            PROVE  pc'[u] = "mark" /\ DigitOf[op'[u].key] = d
        BY <1>1, <2>0, <3>5 DEF Others
      <3> QED  BY <3>2, <3>3, <3>4, <3>5
    <2> QED  BY <2>1, <2>2
  <1>6. CASE OlcMark(t)
    <2>0. /\ pc[t] = "mark" /\ UNCHANGED <<root, op, subPop, keys>>
          /\ dirty' = dirty \cup {DigitOf[op[t].key]}
      BY <1>6 DEF OlcMark, At, engine
    <2>1. \/ subPop[d] = Count(d, keys)
          \/ \E u \in Threads : pc[u] = "mark" /\ DigitOf[op[u].key] = d
      BY <1>2, <2>0 DEF DirtyInv
    <2>2. ASSUME NEW u \in Threads, pc[u] = "mark", DigitOf[op[u].key] = d
          PROVE  pc'[u] = "mark" /\ DigitOf[op'[u].key] = d
      <3>1. u # t
        BY <1>2, <2>0, <2>2
      <3> QED  BY <1>1, <2>2, <3>1 DEF Others
    <2> QED  BY <2>0, <2>1, <2>2
  <1>7. CASE CoverApply(t)
    <2>0. pc[t] = "apply" /\ UNCHANGED <<op, dirty>>
      BY <1>7 DEF CoverApply, FlushTo, At
    <2>1. root = "tree" => subPop[d] = Count(d, keys)
      BY <1>2, <2>0, SectionChildren DEF Section
    <2>2. InOp(t, Exact) /\ root = "tree" => treePop = Cardinality(keys)
      BY <2>0 DEF ApplyInv
    <2>3. CASE InOp(t, {"insert", "exclusive"}) /\ EngineInsert(op[t].key)
      <3>1. op[t].key \in Keys
        BY <2>3, KeyOf DEF Keyed, InOp
      <3> QED  BY <1>2, <2>1, <2>3, <3>1, InsertEffect
    <2>4. CASE InOp(t, {"remove", "exclusive"}) /\ EngineRemove(op[t].key)
      <3>1. op[t].key \in Keys
        BY <2>4, KeyOf DEF Keyed, InOp
      <3>2. root = "tree" => treePop = Cardinality(keys)
        BY <2>2, <2>4 DEF InOp, Exact
      <3> QED  BY <1>2, <2>1, <2>4, <3>1, <3>2, RemoveEffect
    <2>5. CASE EngineClear
      BY <1>2, <2>5 DEF EngineClear
    <2> QED  BY <1>7, <2>3, <2>4, <2>5 DEF CoverApply
  <1>8. CASE LockedFold(t)
    <2>1. root = "tree" /\ keys' = keys /\ subPop' = Counts(keys)
      BY <1>2, <1>8, FoldEffect
    <2> QED  BY <2>1 DEF Counts
  <1>9. CASE PopAdd(t) \/ CoverBegin(t) \/ CoverPublish(t) \/ CoverCount(t) \/ RefreshBegin(t) \/ RefreshEnd(t)
    <2>1. UNCHANGED <<root, subPop, keys, dirty>> /\ pc[t] # "mark"
      BY <1>9 DEF PopAdd, CoverBegin, CoverPublish, CoverCount, RefreshBegin, RefreshEnd, FlushTo, At,
                  engine
    <2> QED  BY <1>3, <2>1
  <1>10. CASE FlushBase(t) \/ FlushShard(t) \/ FlushDone(t)
    <2>1. UNCHANGED <<root, subPop, keys, dirty>> /\ pc[t] # "mark"
      BY <1>10 DEF FlushBase, FlushShard, FlushDone, At, engine
    <2> QED  BY <1>3, <2>1
  <1> QED  BY <1>4, <1>5, <1>6, <1>7, <1>8, <1>9, <1>10, StepKinds DEF Counting

LEMMA ViewStep ==
  ASSUME TypeOK, PendInv, ZeroInv, PopulationExact, DirtyInv, ViewInv, GateFacts,
         NEW t \in Threads, Step(t)
  PROVE  ViewInv'
  <1>0. pc \in [Threads -> Places] /\ after \in [Threads -> Places]
    BY DEF GateFacts, LinkInv
  <1>1. Others(t)
    BY OthersStay DEF Step
  <1> DEFINE Seen == {"refresh", "republish", "view"}
  <1>2. CASE Passing(t)
    <2>1. Stage(t)' \notin Seen
      BY <1>2, StagePasses, PassingFrame DEF Busy
    <2>2. \A u \in Threads \ {t} : Stage(u)' = Stage(u)
      BY <1>1, StageStays
    <2>3. UNCHANGED <<keys, root, treePop, subPop>>
      BY <1>2, PassingFrame
    <2> QED  BY <2>1, <2>2, <2>3 DEF ViewInv
  <1>3. ASSUME Counting(t), NEW u \in Threads \ {t} PROVE Stage(u)' \notin Seen
    BY <1>1, <1>3, StageStays, StageSolo DEF Section
  <1>4. ASSUME Counting(t), Stage(t)' \notin Seen PROVE ViewInv'
    BY <1>3, <1>4 DEF ViewInv
  <1>5. ASSUME Counting(t), UNCHANGED engine, Stage(t) \in Seen PROVE ViewInv'
    <2>1. root = "tree" => treePop = Cardinality(keys) /\ subPop = Counts(keys)
      BY <1>5 DEF ViewInv
    <2> QED  BY <1>3, <1>5, <2>1 DEF ViewInv, engine
  <1>6. CASE OlcApply(t) \/ OlcMark(t) \/ PopAdd(t) \/ CoverBegin(t) \/ CoverPublish(t)
    BY <1>0, <1>4, <1>6
       DEF Counting, OlcApply, OlcMark, PopAdd, CoverBegin, CoverPublish, Descend, At, Stage, Flushing
  <1>7. CASE CoverApply(t) \/ CoverCount(t)
    BY <1>0, <1>4, <1>7 DEF Counting, CoverApply, CoverCount, FlushTo, At, Stage, Flushing
  <1>8. CASE RefreshBegin(t) \/ RefreshEnd(t)
    BY <1>5, <1>8 DEF Counting, RefreshBegin, RefreshEnd, At, Stage, Flushing
  <1>9. CASE FlushBase(t) \/ FlushShard(t) \/ FlushDone(t)
    <2>1. UNCHANGED engine /\ Stage(t)' = Stage(t)
      <3>1. CASE FlushBase(t) \/ FlushShard(t)
        BY <1>0, <3>1 DEF FlushBase, FlushShard, At, Stage, Flushing
      <3>2. CASE FlushDone(t)
        BY <3>2, FlushLeads DEF Stage, Flushing
      <3> QED  BY <1>9, <3>1, <3>2
    <2> QED  BY <1>4, <1>5, <1>9, <2>1 DEF Counting
  <1>10. CASE LockedFold(t)
    <2>1. /\ keys' = keys /\ root' = root
          /\ root = "tree" => treePop' = Cardinality(keys) /\ subPop' = Counts(keys)
      BY <1>10, FoldEffect
    <2> QED  BY <1>3, <1>10, <2>1 DEF ViewInv, Counting
  <1> QED  BY <1>2, <1>6, <1>7, <1>8, <1>9, <1>10, StepKinds DEF Counting

(* Only an unwinding section poisons the write mutex, and nothing locks it again. *)
LEMMA PassingPoison ==
  ASSUME TypeOK, GateFacts, NEW t \in Threads, Passing(t),
         \A u \in Threads : gpc[u] = "excl" => "write" \notin poisoned
  PROVE  /\ "write" \in poisoned => "write" \in poisoned'
         /\ pc[t] = "apply" => "write" \in poisoned'
         /\ \A u \in Threads : gpc'[u] = "excl" => "write" \notin poisoned'
  <1>0. pc \in [Threads -> Places] /\ gpc \in [Threads -> G!Protocol]
    BY DEF GateFacts, LinkInv
  <1>1. CASE CoverUnwind(t) \/ ViewUnwind(t)
    <2>1. G!Unwind(t)
      BY <1>1 DEF CoverUnwind, ViewUnwind
    <2>2. \A u \in Threads \ {t} : gpc[u] # "excl"
      BY <2>1 DEF GateFacts, GateKeeps, G!Exclusion, G!Unwind, G!Goto
    <2> QED  BY <1>0, <2>1, <2>2 DEF G!Unwind, G!Goto
  <1>2. CASE AtGate(t)
    <2>0. pc[t] \in {"gate", "leave"}
      BY <1>2 DEF AtGate, At, Finish
    <2>1. CASE \/ G!AllocateSlot(t) \/ G!CheckGate(t) \/ G!Announce(t) \/ G!BackOut(t)
               \/ G!LockFallback(t) \/ G!CloseGate(t) \/ G!LoadMask(t) \/ G!Drain(t) \/ G!Admit(t)
      BY <1>0, <2>0, <2>1 DEF G!AllocateSlot, G!CheckGate, G!Announce, G!BackOut,
           G!LockFallback, G!CloseGate, G!LoadMask, G!Drain, G!Admit, G!Goto
    <2>2. CASE G!LockWrite(t)
      BY <1>0, <2>0, <2>2 DEF G!LockWrite, G!Goto
    <2>3. CASE \/ G!MeetPoison(t) \/ G!UnlockWrite(t) \/ G!OpenGate(t) \/ G!UnwindOpen(t)
               \/ G!UnlockFallback(t) \/ G!UnwindRelease(t)
      BY <1>0, <2>0, <2>3 DEF G!MeetPoison, G!UnlockWrite, G!OpenGate, G!UnwindOpen,
           G!UnlockFallback, G!UnwindRelease, G!Goto
    <2> QED  BY <1>2, <2>1, <2>2, <2>3 DEF AtGate
  <1>3. CASE Passing(t) /\ ~AtGate(t) /\ ~CoverUnwind(t) /\ ~ViewUnwind(t)
    <2>1. /\ poisoned' = poisoned /\ pc[t] # "apply"
          /\ \A u \in Threads : gpc'[u] = "excl" => gpc[u] = "excl"
      <3>1. CASE Call(t) \/ Evict(t) \/ TryFallback(t) \/ OlcFallback(t) \/ OlcDone(t) \/ ReadRetry(t)
        BY <1>0, <3>1 DEF Call, Evict, TryFallback, OlcFallback, OlcDone, ReadRetry, Descend, Finish, At,
             G!StartWriter, G!StartSerial, G!ForgetSlot, G!ExitFallback, G!ExitDone, G!Goto, gate
      <3>2. CASE TryDescend(t) \/ OlcRetry(t) \/ OlcNothing(t) \/ ViewReturn(t)
        BY <3>2 DEF TryDescend, OlcRetry, OlcNothing, ViewReturn, Descend, At, gate
      <3>3. CASE ReadSample(t) \/ ReadLoad(t) \/ ReadAnswer(t) \/ SumBase(t) \/ SumShard(t) \/ SumDone(t)
                 \/ ReadLocked(t) \/ ReadReturn(t)
        BY <3>3 DEF ReadSample, ReadLoad, ReadAnswer, SumBase, SumShard, SumDone, ReadLocked,
             ReadReturn, Finish, At, gate
      <3> QED  BY <1>3, <3>1, <3>2, <3>3 DEF Passing
    <2> QED  BY <2>1
  <1> QED  BY <1>1, <1>2, <1>3

LEMMA ParityStep ==
  ASSUME TypeOK, ParityInv, GateFacts, NEW t \in Threads, Step(t)
  PROVE  ParityInv'
  <1>0. /\ pc \in [Threads -> Places] /\ after \in [Threads -> Places] /\ word \in Nat
    BY DEF GateFacts, LinkInv, TypeOK
  <1>1. Others(t)
    BY OthersStay DEF Step
  <1>2. \A u \in Threads \ {t} : Stage(u)' = Stage(u)
    BY <1>1, StageStays
  <1>3. CASE Passing(t)
    <2>1. word' = word /\ Stage(t)' \notin Open /\ (Stage(t) \in Open => pc[t] = "apply")
      BY <1>3, PassingFrame, StagePasses DEF Busy, Open
    <2>2. /\ "write" \in poisoned => "write" \in poisoned'
          /\ pc[t] = "apply" => "write" \in poisoned'
          /\ \A u \in Threads : gpc'[u] = "excl" => "write" \notin poisoned'
      BY <1>3, PassingPoison DEF ParityInv
    <2> QED  BY <1>2, <2>1, <2>2 DEF ParityInv
  <1>4. CASE Counting(t)
    <2>0. UNCHANGED <<gpc, poisoned>>
      BY <1>4, CountingFrame DEF gate
    <2>1. \A u \in Threads \ {t} : Stage(u) \notin Open /\ Stage(u)' \notin Open
      BY <1>2, <1>4, StageSolo DEF Section, Open
    <2>2. ASSUME word' = word, Stage(t)' \in Open <=> Stage(t) \in Open PROVE ParityInv'
      BY <2>0, <2>1, <2>2 DEF ParityInv
    <2>3. ASSUME word' = word + 1, Stage(t)' \in Open, Stage(t) \notin Open,
                 pc[t] \in Section
          PROVE  ParityInv'
      <3>1. gpc[t] = "excl"
        BY <2>3 DEF GateFacts, LinkInv
      <3>2. word % 2 = 0
        BY <2>1, <2>3, <3>1 DEF ParityInv
      <3>3. word' % 2 = 1
        BY <1>0, <2>3, <3>2
      <3> QED  BY <2>0, <2>1, <2>3, <3>3 DEF ParityInv
    <2>4. ASSUME word' = word + 1, Stage(t)' \notin Open, Stage(t) \in Open PROVE ParityInv'
      <3>1. word % 2 = 1
        BY <2>4 DEF ParityInv
      <3>2. word' % 2 = 0
        BY <1>0, <2>4, <3>1
      <3> QED  BY <2>0, <2>1, <2>4, <3>2 DEF ParityInv
    <2> USE DEF Stage, Flushing, Open
    <2>5. CASE OlcApply(t) \/ OlcMark(t) \/ PopAdd(t)
      BY <1>0, <2>2, <2>5 DEF OlcApply, OlcMark, PopAdd, Descend, At, head
    <2>6. CASE CoverBegin(t) \/ RefreshBegin(t)
      BY <1>0, <2>3, <2>6 DEF CoverBegin, RefreshBegin, At, Section
    <2>7. CASE CoverPublish(t) \/ RefreshEnd(t)
      BY <1>0, <2>4, <2>7 DEF CoverPublish, RefreshEnd, At
    <2>8. CASE CoverApply(t) \/ CoverCount(t) \/ LockedFold(t)
      BY <1>0, <2>2, <2>8 DEF CoverApply, CoverCount, LockedFold, FlushTo, At, head
    <2>9. CASE FlushBase(t) \/ FlushShard(t)
      BY <1>0, <2>2, <2>9 DEF FlushBase, FlushShard, At, head
    <2>10. CASE FlushDone(t)
      BY <2>2, <2>10, FlushLeads DEF FlushDone
    <2> QED  BY <1>4, <2>5, <2>6, <2>7, <2>8, <2>9, <2>10 DEF Counting
  <1> QED  BY <1>3, <1>4, StepKinds

(* The tree word only grows. *)
LEMMA WordGrows ==
  ASSUME TypeOK, GateFacts, NEW t \in Threads, Step(t)
  PROVE  word \in Nat /\ word' \in Nat /\ word <= word'
  <1>0. word \in Nat
    BY DEF TypeOK
  <1>1. CASE Passing(t)
    BY <1>0, <1>1, PassingFrame
  <1>2. CASE Counting(t)
    BY <1>0, <1>2 DEF Counting, OlcApply, OlcMark, PopAdd, CoverBegin, CoverApply, CoverPublish, CoverCount,
         FlushBase, FlushShard, FlushDone, LockedFold, RefreshBegin, RefreshEnd, head
  <1> QED  BY <1>1, <1>2, StepKinds

(* A read takes no counting step. *)
LEMMA CountingKind ==
  ASSUME OpInv, GateFacts, NEW t \in Threads, Counting(t)
  PROVE  ~InOp(t, Reads)
  <1>1. OpFits(t)
    BY DEF OpInv
  <1> USE DEF InOp, Reads, Writes, Exact, Covered, Stage, Flushing, OpFits
  <1>2. CASE OlcApply(t) \/ OlcMark(t) \/ PopAdd(t)
    BY <1>1, <1>2 DEF OlcApply, OlcMark, PopAdd, Descend, At, Optimistic
  <1>3. CASE CoverBegin(t) \/ CoverApply(t) \/ CoverPublish(t) \/ CoverCount(t)
    BY <1>1, <1>3 DEF CoverBegin, CoverApply, CoverPublish, CoverCount, FlushTo, At
  <1>4. CASE FlushBase(t) \/ FlushShard(t) \/ FlushDone(t)
    BY <1>1, <1>4 DEF FlushBase, FlushShard, FlushDone, At
  <1>5. CASE LockedFold(t) \/ RefreshBegin(t) \/ RefreshEnd(t)
    BY <1>1, <1>5 DEF LockedFold, RefreshBegin, RefreshEnd, FlushTo, At
  <1> QED  BY <1>2, <1>3, <1>4, <1>5 DEF Counting

(* A read that is still calm has met no change and no flush in this step. *)
LEMMA CalmStep ==
  ASSUME TypeOK, ReadInv, NEW t \in Threads, Step(t), GateFacts, NEW u \in Threads, Calm(u)'
  PROVE  /\ keys' = keys /\ \A v \in Threads : pend'[v] = 0 /\ pc'[v] # "shards"
         /\ InOp(u, {"len"}) => Calm(u)
         /\ shard' = shard \/ ~InOp(u, {"len"})
  <1>1. /\ op'[u].name = "len" /\ overlap'[u] = {}
        /\ overlap'[u] = IF op'[u].name # "len" THEN {}
                         ELSE overlap[u] \cup {e \in {"change", "flush"} : Meets(e)}
    BY DEF Calm, InOp, Step, Watch
  <1>2. overlap[u] = {} /\ ~Meets("change") /\ ~Meets("flush")
    BY <1>1
  <1>3. Undisturbed /\ \A v \in Threads : pc'[v] # "shards"
    BY <1>2 DEF Meets
  <1>4. InOp(u, {"len"}) => Calm(u)
    BY <1>2 DEF Calm
  <1>5. ASSUME InOp(u, {"len"}) PROVE shard' = shard
    <2>1. \A v \in Threads : pend[v] = 0
      BY <1>4, <1>5 DEF ReadInv, HandFits
    <2>2. shard \in [Slots -> Int] /\ pc \in [Threads -> Places]
      BY DEF TypeOK
    <2>3. CASE Passing(t)
      BY <2>3, PassingFrame
    <2>4. CASE PopAdd(t)
      <3>1. shard' = [shard EXCEPT ![slot[t]] = @ + pend[t]] /\ pend[t] = 0
        BY <2>1, <2>4 DEF PopAdd
      <3>2. slot[t] \in Slots
        BY <2>4 DEF PopAdd, At, GateFacts, GateKeeps, LinkInv, Optimistic, G!TypeOK, Slots
      <3> QED  BY <2>2, <3>1, <3>2
    <2>5. CASE FlushShard(t)
      BY <1>3, <2>5 DEF FlushShard
    <2>6. CASE Counting(t) /\ ~PopAdd(t) /\ ~FlushShard(t)
      BY <2>6 DEF Counting, OlcApply, OlcMark, CoverBegin, CoverApply, CoverPublish, CoverCount,
                  FlushBase, FlushDone, LockedFold, RefreshBegin, RefreshEnd, counter
    <2> QED  BY <2>3, <2>4, <2>5, <2>6, StepKinds
  <1> QED  BY <1>3, <1>4, <1>5 DEF Undisturbed

(* The sampled word. *)
LEMMA SnapStep ==
  ASSUME TypeOK, OpInv, OpInv', ReadInv, GateFacts, NEW t \in Threads, Step(t)
  PROVE  \A u \in Threads : SnapFits(u)'
  <1>0. /\ pc \in [Threads -> Places] /\ loc \in [Threads -> Locals]
    BY DEF TypeOK
  <1>1. Others(t)
    BY OthersStay DEF Step
  <1>2. word \in Nat /\ word' \in Nat /\ word <= word'
    BY WordGrows
  <1>3. \A u \in Threads : loc[u].snap \in Nat /\ SnapFits(u)
    BY <1>0 DEF Locals, ReadInv
  <1>4. ASSUME NEW u \in Threads \ {t} PROVE SnapFits(u)'
    BY <1>1, <1>2, <1>3 DEF Others, SnapFits
  <1>5. CASE Counting(t)
    <2>1. ~InOp(t, Reads)' /\ OpFits(t)'
      BY <1>5, CountingKind, CountingFrame DEF InOp, OpInv
    <2>2. pc'[t] \notin {"load", "validate"}
      BY <2>1 DEF OpFits, Outside
    <2> QED  BY <1>4, <2>2 DEF SnapFits
  <1>6. ASSUME pc'[t] \notin {"load", "validate"} PROVE SnapFits(t)'
    BY <1>6 DEF SnapFits
  <1>7. CASE Passing(t)
    <2>1. CASE ReadSample(t)
      <3>1. loc'[t].snap = word /\ word' = word /\ word % 2 = 0
        BY <1>0, <2>1 DEF ReadSample, Locals, head
      <3> QED  BY <1>2, <1>4, <3>1 DEF SnapFits
    <2>2. CASE ReadLoad(t)
      <3>1. loc'[t].snap = loc[t].snap /\ word' = word /\ pc[t] = "load"
        BY <1>0, <2>2 DEF ReadLoad, At, Locals, head
      <3> QED  BY <1>3, <1>4, <3>1 DEF SnapFits
    <2>3. CASE Call(t) \/ Evict(t) \/ AtGate(t)
      BY <1>0, <1>4, <1>6, <2>3 DEF Call, Evict, AtGate, At, Finish
    <2>4. CASE TryFallback(t) \/ TryDescend(t) \/ OlcRetry(t) \/ OlcFallback(t) \/ OlcNothing(t)
      BY <1>0, <1>4, <1>6, <2>4
         DEF TryFallback, TryDescend, OlcRetry, OlcFallback, OlcNothing, Descend, At
    <2>5. CASE OlcDone(t) \/ CoverUnwind(t) \/ ViewReturn(t) \/ ViewUnwind(t)
      BY <1>0, <1>4, <1>6, <2>5 DEF OlcDone, CoverUnwind, ViewReturn, ViewUnwind, Finish, At
    <2>6. CASE ReadAnswer(t) \/ ReadRetry(t) \/ ReadLocked(t) \/ ReadReturn(t)
      BY <1>0, <1>4, <1>6, <2>6 DEF ReadAnswer, ReadRetry, ReadLocked, ReadReturn, Finish, At
    <2>7. CASE SumBase(t) \/ SumShard(t) \/ SumDone(t)
      BY <1>0, <1>4, <1>6, <2>7 DEF SumBase, SumShard, SumDone, At
    <2> QED  BY <1>7, <2>1, <2>2, <2>3, <2>4, <2>5, <2>6, <2>7 DEF Passing
  <1> QED  BY <1>5, <1>7, StepKinds

(* What the other calm readers have in hand stays good. *)
LEMMA HandStays ==
  ASSUME TypeOK, ReadInv, GateFacts, NEW t \in Threads, Step(t), NEW u \in Threads \ {t}
  PROVE  HandFits(u)'
  <1>0. SUFFICES ASSUME Calm(u)' PROVE HandFits(u)'
    BY DEF HandFits
  <1>1. Others(t)
    BY OthersStay DEF Step
  <1>2. InOp(u, {"len"}) /\ loc'[u] = loc[u] /\ pc'[u] = pc[u]
    BY <1>0, <1>1 DEF Calm, InOp, Others
  <1>3. /\ keys' = keys /\ shard' = shard /\ Calm(u)
        /\ \A v \in Threads : pend'[v] = 0 /\ pc'[v] # "shards"
    BY <1>0, <1>2, CalmStep
  <1>4. HandFits(u) /\ SnapFits(u) /\ loc[u].snap \in Nat
    BY DEF ReadInv, TypeOK, Locals
  <1>5. word \in Nat /\ word' \in Nat /\ word <= word'
    BY WordGrows
  <1>6. pc[u] = "validate" /\ word' = loc[u].snap => word = loc[u].snap
    BY <1>4, <1>5 DEF SnapFits
  <1>7. Total(shard', loc'[u].rest) = Total(shard, loc[u].rest) /\ Cardinality(keys') = Cardinality(keys)
    BY <1>2, <1>3
  <1> QED  BY <1>2, <1>3, <1>4, <1>6, <1>7 DEF HandFits

(* Nor is what the stepping reader takes in hand wrong. *)
LEMMA HandStep ==
  ASSUME TypeOK, OpInv, PendInv, ZeroInv, PopulationExact, PubInv, ParityInv, ReadInv, GateFacts,
         NEW t \in Threads, Step(t)
  PROVE  HandFits(t)'
  <1>0. SUFFICES ASSUME Calm(t)' PROVE HandFits(t)'
    BY DEF HandFits
  <1>1. /\ pc \in [Threads -> Places] /\ loc \in [Threads -> Locals]
        /\ op \in [Threads -> Calls \cup {Idle}] /\ loc[t] \in Locals
        /\ base \in Int /\ shard \in [Slots -> Int] /\ Cardinality(keys) \in Nat
    BY EnginePopType DEF TypeOK
  <1>2. op'[t].name = "len" /\ \A v \in Threads : pend'[v] = 0 /\ pc'[v] # "shards"
    BY <1>0, CalmStep DEF Calm, InOp
  <1>3. CASE Counting(t)
    BY <1>2, <1>3, CountingKind, CountingFrame DEF InOp, Reads
  <1>4. CASE Passing(t)
    <2>1. UNCHANGED <<keys, root, pub, word, base, shard, pend>>
      BY <1>4, PassingFrame
    <2>2. \A v \in Threads : pend[v] = 0
      BY <1>2, <2>1
    <2>3. InOp(t, {"len"}) => HandFits(t) /\ Calm(t)
      BY <1>0, CalmStep DEF ReadInv
    <2>4. ASSUME pc'[t] \notin {"validate", "adding", "answer", "leave"} PROVE HandFits(t)'
      BY <1>2, <2>4 DEF HandFits
    <2>5. ASSUME pc'[t] \in {"answer", "leave"}, loc'[t].pop = Cardinality(keys) PROVE HandFits(t)'
      BY <1>2, <2>1, <2>5 DEF HandFits
    <2>6. OpFits(t)
      BY DEF OpInv
    <2> USE <1>1
    <2>7. CASE Call(t) \/ Evict(t)
      BY <2>4, <2>7 DEF Call, Evict, At
    <2>8. CASE TryFallback(t) \/ TryDescend(t) \/ OlcRetry(t) \/ OlcFallback(t)
      BY <2>4, <2>8 DEF TryFallback, TryDescend, OlcRetry, OlcFallback, Descend, At
    <2>9. CASE OlcNothing(t) \/ ReadSample(t) \/ ReadRetry(t)
      BY <2>4, <2>9 DEF OlcNothing, ReadSample, ReadRetry, Descend, At
    <2>10. CASE OlcDone(t) \/ ReadReturn(t)
      BY <2>4, <2>10 DEF OlcDone, ReadReturn, Finish, At
    <2>11. CASE CoverUnwind(t) \/ ViewReturn(t) \/ ViewUnwind(t)
      BY <1>2, <2>6, <2>11
         DEF CoverUnwind, ViewReturn, ViewUnwind, At, OpFits, Stage, Flushing, InOp, Covered, Exact
    <2>12. CASE AtGate(t)
      <3>1. CASE pc[t] = "leave" /\ UNCHANGED <<pc, op, after, loc>>
        <4>1. InOp(t, {"len"})
          BY <1>2, <3>1 DEF InOp
        <4>2. loc[t].pop = Cardinality(keys)
          BY <2>3, <3>1, <4>1 DEF HandFits
        <4> QED  BY <2>5, <3>1, <4>2
      <3>2. CASE pc[t] = "gate" /\ UNCHANGED <<pc, op, after, loc>>
        BY <2>4, <3>2
      <3>3. CASE At(t, "gate", "try") \/ At(t, "gate", "body") \/ Finish(t, "gate") \/ Finish(t, "leave")
        BY <2>4, <3>3 DEF At, Finish
      <3> QED  BY <2>12, <3>1, <3>2, <3>3 DEF AtGate
    <2>13. CASE ReadLoad(t)
      <3>1. /\ pc[t] = "load" /\ pc'[t] = "validate" /\ loc'[t].view = pub
            /\ loc'[t].snap = loc[t].snap
        BY <2>13 DEF ReadLoad, At, Locals
      <3>2. SnapFits(t)
        BY DEF ReadInv
      <3>3. ASSUME word = loc[t].snap, pub.kind # "tree" PROVE pub.pop = Cardinality(keys)
        <4>1. word % 2 = 0
          BY <3>1, <3>2, <3>3 DEF SnapFits
        <4>2. \A v \in Threads : Stage(v) # "publish"
          BY <4>1 DEF ParityInv, Open
        <4>3. pub = Snapshot
          BY <4>2 DEF PubInv
        <4> QED  BY <3>3, <4>3 DEF Snapshot, TypeOK
      <3> QED  BY <1>2, <2>1, <3>1, <3>3 DEF HandFits
    <2>14. CASE ReadAnswer(t)
      <3>1. InOp(t, {"len"})
        BY <1>2, <2>14 DEF ReadAnswer, InOp
      <3>2. CASE loc[t].view.kind = "tree"
        BY <2>4, <2>14, <3>1, <3>2 DEF ReadAnswer, At, InOp
      <3>3. CASE loc[t].view.kind # "tree"
        <4>1. pc'[t] = "answer" /\ loc'[t].pop = loc[t].view.pop /\ pc[t] = "validate" /\ word = loc[t].snap
          BY <2>14, <3>3 DEF ReadAnswer, At, Locals
        <4>2. loc[t].view.pop = Cardinality(keys)
          BY <2>3, <3>1, <3>3, <4>1 DEF HandFits
        <4> QED  BY <2>5, <4>1, <4>2
      <3> QED  BY <3>2, <3>3
    <2>15. CASE SumBase(t)
      <3>1. pc'[t] = "adding" /\ loc'[t].pop = base /\ loc'[t].rest = Slots /\ UNCHANGED op /\ pc[t] = "sum"
        BY <2>15 DEF SumBase, At, Locals
      <3>2. \A v \in Threads : pc[v] # "shards"
        BY <1>2, <2>3, <3>1 DEF InOp, HandFits
      <3>3. Total(pend, Threads) = 0
        BY <2>2, TotalZero
      <3>4. base + Total(shard, Slots) = Cardinality(keys)
        BY <3>2, <3>3 DEF PopulationExact
      <3>5. loc'[t].pop + Total(shard', loc'[t].rest) = Cardinality(keys')
        BY <2>1, <3>1, <3>4
      <3> QED  BY <1>2, <3>1, <3>5 DEF HandFits
    <2>16. CASE SumShard(t)
      <3>1. PICK s \in loc[t].rest : loc' = [loc EXCEPT ![t].pop = @ + shard[s], ![t].rest = @ \ {s}]
        BY <2>16 DEF SumShard
      <3>2. /\ pc[t] = "adding" /\ pc'[t] = "adding" /\ UNCHANGED op
            /\ loc'[t].pop = loc[t].pop + shard[s] /\ loc'[t].rest = loc[t].rest \ {s}
        BY <2>16, <3>1 DEF SumShard, Locals
      <3>3. loc[t].rest \subseteq Slots /\ loc[t].pop \in Int
        BY DEF Locals
      <3>4. IsFiniteSet(loc[t].rest) /\ \A r \in loc[t].rest : shard[r] \in Int
        BY <3>3, SlotsFinite
      <3>5. /\ Total(shard, loc[t].rest) = Total(shard, loc[t].rest \ {s}) + shard[s]
            /\ Total(shard, loc[t].rest \ {s}) \in Int
        BY <3>4, TotalRemove
      <3>6. loc[t].pop + Total(shard, loc[t].rest) = Cardinality(keys)
        BY <1>2, <2>3, <3>2 DEF InOp, HandFits
      <3>7. loc[t].pop + shard[s] + Total(shard, loc[t].rest \ {s}) = Cardinality(keys)
        BY <3>3, <3>4, <3>5, <3>6
      <3>8. loc'[t].pop + Total(shard', loc'[t].rest) = Cardinality(keys')
        BY <2>1, <3>2, <3>7
      <3> QED  BY <1>2, <3>2, <3>8 DEF HandFits
    <2>17. CASE SumDone(t)
      <3>1. /\ loc[t].rest = {} /\ pc[t] = "adding" /\ pc'[t] = "answer" /\ UNCHANGED op
            /\ loc'[t].pop = Max({loc[t].pop, 0})
        BY <2>17 DEF SumDone, At, Locals
      <3>2. loc[t].pop \in Int /\ 0 \in Int
        BY DEF Locals
      <3>3. Total(shard, loc[t].rest) = 0
        BY <3>1, TotalZero
      <3>4. loc[t].pop = Cardinality(keys)
        <4>1. loc[t].pop + Total(shard, loc[t].rest) = Cardinality(keys)
          BY <1>2, <2>3, <3>1 DEF InOp, HandFits
        <4> QED  BY <3>2, <3>3, <4>1
      <3>5. Max({loc[t].pop, 0}) = loc[t].pop
        BY <3>2, <3>4, MaxPair
      <3> QED  BY <2>5, <3>1, <3>4, <3>5
    <2>18. CASE ReadLocked(t)
      <3>1. /\ pc[t] = "body" /\ pc'[t] = "leave"
            /\ loc'[t].pop = IF root = "tree" THEN LoadPop(Slots) ELSE Cardinality(keys)
        BY <2>18 DEF ReadLocked, At, Locals
      <3>2. LoadPop(Slots) = Cardinality(keys)
        BY <3>1, SectionLoads
      <3> QED  BY <2>5, <3>1, <3>2
    <2> QED  BY <1>4, <2>7, <2>8, <2>9, <2>10, <2>11, <2>12, <2>13, <2>14, <2>15, <2>16, <2>17,
                <2>18 DEF Passing
  <1> QED  BY <1>3, <1>4, StepKinds

------------------------------------------------------------------------------
(* The invariant. *)

LEMMA PopStep ==
  ASSUME PopInv, GateFacts, GateFacts', NEW t \in Threads, Step(t)
  PROVE  PopInv'
  <1>1. TypeOK' /\ OpInv'
    BY TypeStep, OpStep DEF PopInv
  <1>2. PendInv' /\ ZeroInv' /\ PopulationExact' /\ FlushInv'
    BY <1>1, PendStep, ZeroStep, PopulationStep, FlushStep DEF PopInv
  <1>3. ApplyInv' /\ CountInv' /\ PubInv' /\ DirtyInv'
    BY <1>1, ApplyStep, CountStep, PubStep, DirtyStep DEF PopInv
  <1>4. ViewInv' /\ ParityInv'
    BY ViewStep, ParityStep DEF PopInv
  <1>5. ReadInv'
    BY <1>1, SnapStep, HandStays, HandStep DEF PopInv, ReadInv
  <1> QED  BY <1>1, <1>2, <1>3, <1>4, <1>5 DEF PopInv

LEMMA PopStutter ==
  ASSUME PopInv, UNCHANGED vars
  PROVE  PopInv'
  <1> USE DEF vars, gate, engine, head, counter
  <1>1. TypeOK'
    BY DEF PopInv, TypeOK, G!TypeOK
  <1>2. OpInv' /\ PendInv' /\ ZeroInv'
    BY DEF PopInv, OpInv, OpFits, Stage, InOp, PendInv, ZeroInv
  <1>3. PopulationExact' /\ FlushInv'
    BY DEF PopInv, PopulationExact, FlushInv
  <1>4. ApplyInv' /\ CountInv'
    BY DEF PopInv, ApplyInv, CountInv, EnginePop, InOp
  <1>5. PubInv' /\ DirtyInv' /\ ViewInv'
    BY DEF PopInv, PubInv, DirtyInv, ViewInv, Snapshot, Stage
  <1>6. ParityInv' /\ ReadInv'
    BY DEF PopInv, ParityInv, ReadInv, SnapFits, HandFits, Calm, InOp, Stage
  <1> QED  BY <1>1, <1>2, <1>3, <1>4, <1>5, <1>6 DEF PopInv

LEMMA InitPop == Init => PopInv
  <1> SUFFICES ASSUME Init PROVE PopInv
    OBVIOUS
  <1>1. /\ InitialKeys \in SUBSET Keys /\ Cardinality(InitialKeys) \in Nat
        /\ Counts(InitialKeys) \in [Digits -> Nat] /\ NoChildren \in [Digits -> Nat]
        /\ LeafCap \in Nat /\ MaxCalls \in Nat /\ MaxRetries \in Nat
    <2>1. InitialKeys \in SUBSET Keys /\ {} \in SUBSET Keys
      BY TreeAssumption
    <2> QED  BY <2>1, KeysFinite, CountsTotal, TreeAssumption DEF NoChildren
  <1>2. TypeOK
    <2>1. G!TypeOK
      BY GateAssumption DEF Init, G!Init, G!TypeOK, G!Slots, G!Protocol
    <2>2. /\ keys \subseteq Keys /\ root \in {"leaf", "tree"}
          /\ treePop \in Nat /\ subPop \in [Digits -> Nat]
          /\ pub \in Roots /\ word \in Nat
      BY <1>1 DEF Init, Snapshot, Roots
    <2>3. /\ base \in Int /\ shard \in [Slots -> Int] /\ dirty \subseteq Digits
          /\ pc \in [Threads -> Places] /\ after \in [Threads -> Places]
          /\ op \in [Threads -> Calls \cup {Idle}]
          /\ pend \in [Threads -> Int] /\ overlap \in [Threads -> SUBSET {"change", "flush"}]
          /\ calls \in 0 .. MaxCalls
      BY <1>1 DEF Init, Places
    <2>4. loc \in [Threads -> Locals]
      BY <1>1 DEF Init, Fresh, Locals, Roots
    <2> QED  BY <2>1, <2>2, <2>3, <2>4 DEF TypeOK
  <1>3. /\ \A t \in Threads : pc[t] = "rest" /\ op[t] = Idle /\ pend[t] = 0 /\ gpc[t] = "idle"
        /\ \A s \in Slots : shard[s] = 0
        /\ poisoned = {} /\ keys = InitialKeys /\ base = Cardinality(InitialKeys)
    BY DEF Init, G!Init
  <1>4. OpInv /\ PendInv /\ ZeroInv
    BY <1>3 DEF OpInv, OpFits, Stage, Flushing, InOp, Idle, Optimistic, Outside, PendInv, ZeroInv
  <1>5. PopulationExact
    <2>1. Total(shard, Slots) = 0 /\ Total(pend, Threads) = 0
      BY <1>3, TotalZero
    <2> QED  BY <1>1, <1>3, <2>1 DEF PopulationExact
  <1>6. FlushInv /\ ApplyInv /\ CountInv /\ ViewInv
    BY <1>3 DEF FlushInv, ApplyInv, CountInv, ViewInv, Stage, Flushing
  <1>7. PubInv /\ DirtyInv
    BY DEF Init, PubInv, DirtyInv, Counts
  <1>8. ParityInv /\ ReadInv
    BY <1>3 DEF Init, ParityInv, ReadInv, SnapFits, HandFits, Calm, InOp, Idle, Stage, Flushing, Open
  <1> QED  BY <1>2, <1>4, <1>5, <1>6, <1>7, <1>8 DEF PopInv

(* The gate's facts, then the populations, in every reachable state. *)
LEMMA GateFactsHold == Spec => []GateFacts
  BY GateInvariance, LinkInvariance, SectionIsAlone, PTL DEF GateFacts

LEMMA PopInvariance == Spec => []PopInv
  <1>1. PopInv /\ GateFacts /\ GateFacts' /\ [Next]_vars => PopInv'
    <2> SUFFICES ASSUME PopInv, GateFacts, GateFacts', [Next]_vars PROVE PopInv'
      OBVIOUS
    <2>1. CASE UNCHANGED vars
      BY <2>1, PopStutter
    <2>2. CASE Next
      BY <2>1, <2>2, PopStep DEF Next, Step, Finished
    <2> QED  BY <2>1, <2>2
  <1> QED  BY <1>1, InitPop, GateFactsHold, PTL DEF Spec

(* For any threads, keys and slots, every variable of the tree keeps its type:
   a stored population never goes below zero (sync.rs Shared<T>). *)
THEOREM TreeTypes == Spec => []TypeOK
  <1>1. PopInv => TypeOK
    BY DEF PopInv
  <1> QED  BY <1>1, PopInvariance, PTL

(* For any threads, keys and slots, the base and the shards account for every
   key outside a flush: no insertion, removal, fallback, covered write, clear or
   locked read loses or repeats a count (sync.rs ShardedTreePop). *)
THEOREM CounterIsExact == Spec => []PopulationExact
  <1>1. PopInv => PopulationExact
    BY DEF PopInv
  <1> QED  BY <1>1, PopInvariance, PTL

(* For any threads, keys and slots, a serialised removal condenses on the true
   population (sync.rs remove_root_covered). *)
THEOREM CondensesExactly == Spec => []CondenseSeesExact
  <1>1. PopInv => CondenseSeesExact
    BY DEF PopInv, ApplyInv, CondenseSeesExact
  <1> QED  BY <1>1, PopInvariance, PTL

(* For any threads, keys and slots, the closure of a locked read sees exact
   populations at the root and in every child (sync.rs with_locked). *)
THEOREM LockedViewExact == Spec => []ViewExact
  <1>1. PopInv => ViewExact
    BY DEF PopInv, ViewInv, ViewExact, Stage, Flushing, EnginePop
  <1> QED  BY <1>1, PopInvariance, PTL

(* For any threads, keys and slots, a population read that neither a change nor
   a flush of the counter overlaps answers the number of keys (sync.rs
   validated_len, read_locked). *)
THEOREM LenIsSettled == Spec => []LenSettled
  <1>1. PopInv => LenSettled
    BY DEF PopInv, ReadInv, HandFits, Calm, Counted, LenSettled
  <1> QED  BY <1>1, PopInvariance, PTL
==============================================================================
