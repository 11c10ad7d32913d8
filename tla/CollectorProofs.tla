--------------------------- MODULE CollectorProofs ---------------------------
(***************************************************************************)
(* Proofs about Collector, for any number of readers, writers, blocks,     *)
(* stripes and epochs.                                                     *)
(***************************************************************************)
EXTENDS Collector, TLAPS

\* The try-lock admits one advancer, and the epoch moves only at its CAS: the
\* CAS cannot fail, and a whole drain runs in one epoch.  A writer has a block
\* in hand exactly while it allocates or retires one, and has a list taken
\* exactly while it disposes of it.
ControlInv ==
  /\ \A w \in Writers : wpc[w] \in Advancing => advancing
  /\ \A v, w \in Writers : wpc[v] \in Advancing /\ wpc[w] \in Advancing => v = w
  /\ \A w \in Writers : wpc[w] \in {"scan", "cas"} => wep[w] = epoch
  /\ \A w \in Writers : wpc[w] \in Draining => epoch = wep[w] + 1
  /\ \A w \in Writers : wpc[w] \in Draining \ {"drain"} => wstripe[w] \in Stripes
  /\ \A w \in Writers : wpc[w] = "cas" => wtodo[w] = {}
  /\ \A w \in Writers : IF wpc[w] \in Busy THEN wblk[w] \in Blocks ELSE wblk[w] = NoBlock
  /\ \A w \in Writers : wtaken[w] # {} => wpc[w] \in {"plain", "budgeted"}

\* A pinned reader is registered at most one epoch behind, and in the current
\* epoch once an advance under way has read its slot.
PinInv ==
  /\ \A r \in Readers : rpc[r] # "out" => r \in registry
  /\ \A r \in Readers : rpc[r] = "reload" => slot[r] = re[r]
  /\ \A r \in Readers : rpc[r] = "pinned" =>
       /\ slot[r] \in Nat /\ slot[r] <= epoch /\ epoch <= slot[r] + 1
       /\ \A w \in Writers :
            wpc[w] \in {"scan", "cas"} /\ r \notin wtodo[w] => slot[r] = epoch

\* A block a pinned reader may hold was retired, if at all, at or after the
\* reader's epoch: its bin is not the one an advance now takes.
HeldInv ==
  \A r \in Readers : rpc[r] = "pinned" =>
    \A b \in held[r] :
      /\ b \notin sys /\ b \notin carry
      /\ \A s \in Stripes : b \notin freelist[s]
      /\ \A w \in Writers : b \notin wtaken[w]
      /\ \A w \in Writers : wblk[w] = b => wpc[w] # "private"
      /\ \A w \in Writers : wblk[w] = b /\ wpc[w] = "loaded" =>
            slot[r] <= wep[w] /\ wep[w] <= epoch
      /\ \A i \in Bins, s \in Stripes : b \in bins[i][s] =>
            i = slot[r] % BINS \/ i = epoch % BINS

IInv == TypeOK /\ ControlInv /\ PinInv /\ OneOwner /\ HeldInv

\* The bin indices the code computes are bin indices.
LEMMA ModBins == \A n \in Nat : n % BINS \in Bins /\ (n + BINS - 1) % BINS \in Bins
  BY DEF BINS, Bins

\* The bin two epochs back is neither of the two a pinned reader may rely on.
LEMMA StaleDistinct ==
  \A n \in Nat : /\ (n + BINS - 1) % BINS # n % BINS
                 /\ (n + BINS - 1) % BINS # (n + 1) % BINS
  BY DEF BINS

\* The writer's stripe is a stripe.
LEMMA StripeType == \A w \in Writers : StripeOf[w] \in Stripes
  BY CollectorAssumption

\* A stripe index below the loop's end is a stripe.
LEMMA LoopStripe ==
  ASSUME TypeOK, NEW w \in Writers, wstripe[w] < NumStripes
  PROVE  wstripe[w] \in Stripes /\ wstripe[w] + 1 \in 0 .. NumStripes
  <1>1. wstripe[w] \in 0 .. NumStripes
    BY DEF TypeOK
  <1> QED BY <1>1, CollectorAssumption DEF Stripes

\* The bin an advance drains is a bin.
LEMMA StaleType == ASSUME TypeOK, NEW w \in Writers PROVE StaleBin(w) \in Bins
  <1>1. wep[w] \in Nat
    BY DEF TypeOK
  <1> QED BY <1>1, ModBins DEF StaleBin

\* The types are preserved.
LEMMA TypeStep == TypeOK /\ ControlInv /\ [Next]_vars => TypeOK'
<1> SUFFICES ASSUME TypeOK, ControlInv, [Next]_vars PROVE TypeOK'
  OBVIOUS
<1> USE CollectorAssumption DEF vars, globalVars, memVars, readerVars, advVars
<1>1. ASSUME NEW r \in Readers, Register(r) PROVE TypeOK'
  BY <1>1 DEF Register, TypeOK
<1>2. ASSUME NEW r \in Readers, Deregister(r) PROVE TypeOK'
  BY <1>2 DEF Deregister, TypeOK
<1>3. ASSUME NEW r \in Readers, PinLoad(r) PROVE TypeOK'
  BY <1>3 DEF PinLoad, TypeOK
<1>4. ASSUME NEW r \in Readers, PinStore(r) PROVE TypeOK'
  BY <1>4 DEF PinStore, TypeOK
<1>5. ASSUME NEW r \in Readers, PinRetry(r) PROVE TypeOK'
  BY <1>5 DEF PinRetry, TypeOK
<1>6. ASSUME NEW r \in Readers, PinDone(r) PROVE TypeOK'
  BY <1>6 DEF PinDone, TypeOK
<1>7. ASSUME NEW r \in Readers, Unpin(r) PROVE TypeOK'
  BY <1>7 DEF Unpin, TypeOK
<1>8. ASSUME NEW w \in Writers, AllocPop(w) PROVE TypeOK'
  <2>1. StripeOf[w] \in Stripes
    BY StripeType
  <2> QED BY <1>8, <2>1 DEF AllocPop, TypeOK, Busy, Advancing, Draining
<1>9. ASSUME NEW w \in Writers, AllocSystem(w) PROVE TypeOK'
  <2>1. StripeOf[w] \in Stripes
    BY StripeType
  <2> QED BY <1>9, <2>1 DEF AllocSystem, TypeOK, Busy, Advancing, Draining
<1>10. ASSUME NEW w \in Writers, Publish(w) PROVE TypeOK'
  <2>1. wblk[w] \in Blocks
    BY <1>10 DEF Publish, ControlInv, Busy
  <2> QED BY <1>10, <2>1 DEF Publish, TypeOK, Busy, Advancing, Draining
<1>11. ASSUME NEW w \in Writers, RecycleUnpublished(w) PROVE TypeOK'
  <2>1. StripeOf[w] \in Stripes /\ wblk[w] \in Blocks
    BY <1>11, StripeType DEF RecycleUnpublished, ControlInv, Busy
  <2> QED BY <1>11, <2>1 DEF RecycleUnpublished, TypeOK, Busy, Advancing, Draining
<1>12. ASSUME NEW w \in Writers, Unlink(w) PROVE TypeOK'
  BY <1>12 DEF Unlink, TypeOK, Busy, Advancing, Draining
<1>13. ASSUME NEW w \in Writers, RetireFence(w) PROVE TypeOK'
  BY <1>13 DEF RetireFence, TypeOK, Busy, Advancing, Draining
<1>14. ASSUME NEW w \in Writers, RetireLoad(w) PROVE TypeOK'
  BY <1>14 DEF RetireLoad, TypeOK, Busy, Advancing, Draining
<1>15. ASSUME NEW w \in Writers, RetirePush(w) PROVE TypeOK'
  <2>1. StripeOf[w] \in Stripes /\ wep[w] % BINS \in Bins /\ wblk[w] \in Blocks
    BY <1>15, StripeType, ModBins DEF RetirePush, TypeOK, ControlInv, Busy
  <2> QED BY <1>15, <2>1 DEF RetirePush, TypeOK, Busy, Advancing, Draining
<1>16. ASSUME NEW w \in Writers, AdvLock(w) PROVE TypeOK'
  BY <1>16 DEF AdvLock, TypeOK, Busy, Advancing, Draining
<1>17. ASSUME NEW w \in Writers, AdvFreeCarried(w) PROVE TypeOK'
  BY <1>17 DEF AdvFreeCarried, TypeOK, Busy, Advancing, Draining
<1>18. ASSUME NEW w \in Writers, AdvBeginScan(w) PROVE TypeOK'
  BY <1>18 DEF AdvBeginScan, TypeOK, Busy, Advancing, Draining
<1>19. ASSUME NEW w \in Writers, AdvScan(w) PROVE TypeOK'
  BY <1>19 DEF AdvScan, TypeOK, Busy, Advancing, Draining
<1>20. ASSUME NEW w \in Writers, AdvBlocked(w) PROVE TypeOK'
  <2>1. 0 \in 0 .. NumStripes
    BY CollectorAssumption
  <2> QED BY <1>20, <2>1 DEF AdvBlocked, Release, TypeOK, Busy, Advancing, Draining
<1>21. ASSUME NEW w \in Writers, AdvScanned(w) PROVE TypeOK'
  BY <1>21 DEF AdvScanned, TypeOK, Busy, Advancing, Draining
<1>22. ASSUME NEW w \in Writers, AdvCas(w) PROVE TypeOK'
  BY <1>22 DEF AdvCas, TypeOK, Busy, Advancing, Draining
<1>23. ASSUME NEW w \in Writers, AdvSkip(w) PROVE TypeOK'
  <2>1. wstripe[w] \in Stripes /\ StaleBin(w) \in Bins /\ wstripe[w] + 1 \in 0 .. NumStripes
    BY <1>23, LoopStripe, StaleType DEF AdvSkip
  <2> QED BY <1>23, <2>1 DEF AdvSkip, TypeOK, Busy, Advancing, Draining
<1>24. ASSUME NEW w \in Writers, AdvTake(w) PROVE TypeOK'
  <2>1. wstripe[w] \in Stripes /\ StaleBin(w) \in Bins /\ wstripe[w] + 1 \in 0 .. NumStripes
    BY <1>24, LoopStripe, StaleType DEF AdvTake
  <2> QED BY <1>24, <2>1 DEF AdvTake, TypeOK, Busy, Advancing, Draining
<1>25. ASSUME NEW w \in Writers, AdvReclaim(w) PROVE TypeOK'
  <2>1. wstripe[w] \in Stripes
    BY <1>25 DEF AdvReclaim, ControlInv, Draining
  <2> QED BY <1>25, <2>1 DEF AdvReclaim, TypeOK, Busy, Advancing, Draining
<1>26. ASSUME NEW w \in Writers, AdvFreeRaw(w) PROVE TypeOK'
  <2>1. wstripe[w] \in Stripes
    BY <1>26 DEF AdvFreeRaw, ControlInv, Draining
  <2> QED BY <1>26, <2>1 DEF AdvFreeRaw, TypeOK, Busy, Advancing, Draining
<1>27. ASSUME NEW w \in Writers, AdvCarryTail(w) PROVE TypeOK'
  <2>1. wstripe[w] \in Stripes
    BY <1>27 DEF AdvCarryTail, ControlInv, Draining
  <2> QED BY <1>27, <2>1 DEF AdvCarryTail, TypeOK, Busy, Advancing, Draining
<1>28. ASSUME NEW w \in Writers, AdvSubtract(w) PROVE TypeOK'
  <2>1. wstripe[w] \in Stripes
    BY <1>28 DEF AdvSubtract, ControlInv, Draining
  <2>2. wstripe[w] + 1 \in 0 .. NumStripes
    BY <2>1, CollectorAssumption DEF Stripes
  <2> QED BY <1>28, <2>1, <2>2 DEF AdvSubtract, TypeOK, Busy, Advancing, Draining
<1>29. ASSUME NEW w \in Writers, AdvReturn(w) PROVE TypeOK'
  <2>1. 0 \in 0 .. NumStripes
    BY CollectorAssumption
  <2> QED BY <1>29, <2>1 DEF AdvReturn, Release, TypeOK, Busy, Advancing, Draining
<1>30. ASSUME NEW s \in Stripes, ReleaseFreeList(s) PROVE TypeOK'
  BY <1>30 DEF ReleaseFreeList, TypeOK
<1>31. ASSUME Drop PROVE TypeOK'
  <2>1. AllFree \subseteq Blocks
    BY DEF TypeOK, AllFree
  <2>2. AllQueued \subseteq Blocks
    BY DEF TypeOK, AllQueued
  <2>3. bins' \in [Bins -> [Stripes -> SUBSET Blocks]] /\ freelist' \in [Stripes -> SUBSET Blocks]
    BY <1>31 DEF Drop
  <2>4. sys' \subseteq Blocks /\ live' \subseteq Blocks /\ carry' \subseteq Blocks
    BY <1>31, <2>1, <2>2 DEF Drop, TypeOK
  <2> QED BY <1>31, <2>3, <2>4 DEF Drop, TypeOK
<1>32. ASSUME UNCHANGED vars PROVE TypeOK'
  BY <1>32 DEF TypeOK
<1>33. QED
  BY <1>1, <1>2, <1>3, <1>4, <1>5, <1>6, <1>7, <1>8, <1>9, <1>10, <1>11, <1>12, <1>13,
       <1>14, <1>15, <1>16, <1>17, <1>18, <1>19, <1>20, <1>21, <1>22, <1>23, <1>24,
       <1>25, <1>26, <1>27, <1>28, <1>29, <1>30, <1>31, <1>32 DEF Next, ReaderNext,
       Pin, Mutate, Retire, TryAdvance, Drain, Terminated

\* The try-lock keeps the advancers apart; the other conjuncts follow each
\* thread's program counter.
LEMMA ControlStep == TypeOK /\ ControlInv /\ [Next]_vars => ControlInv'
<1> SUFFICES ASSUME TypeOK, ControlInv, [Next]_vars PROVE ControlInv'
  OBVIOUS
<1> USE CollectorAssumption DEF vars, globalVars, memVars, readerVars, advVars
<1>1. ASSUME NEW r \in Readers, Register(r) PROVE ControlInv'
  BY <1>1 DEF Register, ControlInv, TypeOK
<1>2. ASSUME NEW r \in Readers, Deregister(r) PROVE ControlInv'
  BY <1>2 DEF Deregister, ControlInv, TypeOK
<1>3. ASSUME NEW r \in Readers, PinLoad(r) PROVE ControlInv'
  BY <1>3 DEF PinLoad, ControlInv, TypeOK
<1>4. ASSUME NEW r \in Readers, PinStore(r) PROVE ControlInv'
  BY <1>4 DEF PinStore, ControlInv, TypeOK
<1>5. ASSUME NEW r \in Readers, PinRetry(r) PROVE ControlInv'
  BY <1>5 DEF PinRetry, ControlInv, TypeOK
<1>6. ASSUME NEW r \in Readers, PinDone(r) PROVE ControlInv'
  BY <1>6 DEF PinDone, ControlInv, TypeOK
<1>7. ASSUME NEW r \in Readers, Unpin(r) PROVE ControlInv'
  BY <1>7 DEF Unpin, ControlInv, TypeOK
<1>8. ASSUME NEW w \in Writers, AllocPop(w) PROVE ControlInv'
  BY <1>8 DEF AllocPop, ControlInv, TypeOK, Busy, Advancing, Draining
<1>9. ASSUME NEW w \in Writers, AllocSystem(w) PROVE ControlInv'
  BY <1>9 DEF AllocSystem, ControlInv, TypeOK, Busy, Advancing, Draining
<1>10. ASSUME NEW w \in Writers, Publish(w) PROVE ControlInv'
  BY <1>10 DEF Publish, ControlInv, TypeOK, Busy, Advancing, Draining
<1>11. ASSUME NEW w \in Writers, RecycleUnpublished(w) PROVE ControlInv'
  BY <1>11 DEF RecycleUnpublished, ControlInv, TypeOK, Busy, Advancing, Draining
<1>12. ASSUME NEW w \in Writers, Unlink(w) PROVE ControlInv'
  BY <1>12 DEF Unlink, ControlInv, TypeOK, Busy, Advancing, Draining
<1>13. ASSUME NEW w \in Writers, RetireFence(w) PROVE ControlInv'
  BY <1>13 DEF RetireFence, ControlInv, TypeOK, Busy, Advancing, Draining
<1>14. ASSUME NEW w \in Writers, RetireLoad(w) PROVE ControlInv'
  BY <1>14 DEF RetireLoad, ControlInv, TypeOK, Busy, Advancing, Draining
<1>15. ASSUME NEW w \in Writers, RetirePush(w) PROVE ControlInv'
  BY <1>15 DEF RetirePush, ControlInv, TypeOK, Busy, Advancing, Draining
<1>16. ASSUME NEW w \in Writers, AdvLock(w) PROVE ControlInv'
  BY <1>16 DEF AdvLock, ControlInv, TypeOK, Busy, Advancing, Draining
<1>17. ASSUME NEW w \in Writers, AdvFreeCarried(w) PROVE ControlInv'
  BY <1>17 DEF AdvFreeCarried, ControlInv, TypeOK, Busy, Advancing, Draining
<1>18. ASSUME NEW w \in Writers, AdvBeginScan(w) PROVE ControlInv'
  BY <1>18 DEF AdvBeginScan, ControlInv, TypeOK, Busy, Advancing, Draining
<1>19. ASSUME NEW w \in Writers, AdvScan(w) PROVE ControlInv'
  BY <1>19 DEF AdvScan, ControlInv, TypeOK, Busy, Advancing, Draining
<1>20. ASSUME NEW w \in Writers, AdvBlocked(w) PROVE ControlInv'
  BY <1>20 DEF AdvBlocked, ControlInv, TypeOK, Busy, Advancing, Draining, Release
<1>21. ASSUME NEW w \in Writers, AdvScanned(w) PROVE ControlInv'
  BY <1>21 DEF AdvScanned, ControlInv, TypeOK, Busy, Advancing, Draining
<1>22. ASSUME NEW w \in Writers, AdvCas(w) PROVE ControlInv'
  BY <1>22 DEF AdvCas, ControlInv, TypeOK, Busy, Advancing, Draining
<1>23. ASSUME NEW w \in Writers, AdvSkip(w) PROVE ControlInv'
  BY <1>23 DEF AdvSkip, ControlInv, TypeOK, Busy, Advancing, Draining
<1>24. ASSUME NEW w \in Writers, AdvTake(w) PROVE ControlInv'
  <2>1. wstripe[w] \in Stripes
    BY <1>24, LoopStripe DEF AdvTake
  <2> QED BY <1>24, <2>1 DEF AdvTake, ControlInv, TypeOK, Busy, Advancing, Draining
<1>25. ASSUME NEW w \in Writers, AdvReclaim(w) PROVE ControlInv'
  BY <1>25 DEF AdvReclaim, ControlInv, TypeOK, Busy, Advancing, Draining
<1>26. ASSUME NEW w \in Writers, AdvFreeRaw(w) PROVE ControlInv'
  BY <1>26 DEF AdvFreeRaw, ControlInv, TypeOK, Busy, Advancing, Draining
<1>27. ASSUME NEW w \in Writers, AdvCarryTail(w) PROVE ControlInv'
  BY <1>27 DEF AdvCarryTail, ControlInv, TypeOK, Busy, Advancing, Draining
<1>28. ASSUME NEW w \in Writers, AdvSubtract(w) PROVE ControlInv'
  BY <1>28 DEF AdvSubtract, ControlInv, TypeOK, Busy, Advancing, Draining
<1>29. ASSUME NEW w \in Writers, AdvReturn(w) PROVE ControlInv'
  BY <1>29 DEF AdvReturn, ControlInv, TypeOK, Busy, Advancing, Draining, Release
<1>30. ASSUME NEW s \in Stripes, ReleaseFreeList(s) PROVE ControlInv'
  BY <1>30 DEF ReleaseFreeList, ControlInv, TypeOK
<1>31. ASSUME Drop PROVE ControlInv'
  BY <1>31 DEF Drop, ControlInv, TypeOK
<1>32. ASSUME UNCHANGED vars PROVE ControlInv'
  BY <1>32 DEF ControlInv, TypeOK
<1>33. QED
  BY <1>1, <1>2, <1>3, <1>4, <1>5, <1>6, <1>7, <1>8, <1>9, <1>10, <1>11, <1>12, <1>13,
       <1>14, <1>15, <1>16, <1>17, <1>18, <1>19, <1>20, <1>21, <1>22, <1>23, <1>24,
       <1>25, <1>26, <1>27, <1>28, <1>29, <1>30, <1>31, <1>32 DEF Next, ReaderNext,
       Pin, Mutate, Retire, TryAdvance, Drain, Terminated

\* A pin holds the epoch back: an advance that passes a pinned reader read its
\* slot in the current epoch, or before the pin completed in it.
LEMMA PinStep == TypeOK /\ ControlInv /\ PinInv /\ [Next]_vars => PinInv'
<1> SUFFICES ASSUME TypeOK, ControlInv, PinInv, [Next]_vars PROVE PinInv'
  OBVIOUS
<1> USE DEF vars, globalVars, memVars, readerVars, advVars
<1>1. ASSUME NEW r \in Readers, Register(r) PROVE PinInv'
  BY <1>1 DEF Register, PinInv, ControlInv, TypeOK, INACTIVE
<1>2. ASSUME NEW r \in Readers, Deregister(r) PROVE PinInv'
  BY <1>2 DEF Deregister, PinInv, ControlInv, TypeOK, INACTIVE
<1>3. ASSUME NEW r \in Readers, PinLoad(r) PROVE PinInv'
  BY <1>3 DEF PinLoad, PinInv, ControlInv, TypeOK, INACTIVE
<1>4. ASSUME NEW r \in Readers, PinStore(r) PROVE PinInv'
  BY <1>4 DEF PinStore, PinInv, ControlInv, TypeOK, INACTIVE
<1>5. ASSUME NEW r \in Readers, PinRetry(r) PROVE PinInv'
  BY <1>5 DEF PinRetry, PinInv, ControlInv, TypeOK, INACTIVE
<1>6. ASSUME NEW r \in Readers, PinDone(r) PROVE PinInv'
  BY <1>6 DEF PinDone, PinInv, ControlInv, TypeOK, INACTIVE
<1>7. ASSUME NEW r \in Readers, Unpin(r) PROVE PinInv'
  BY <1>7 DEF Unpin, PinInv, ControlInv, TypeOK, INACTIVE
<1>8. ASSUME NEW w \in Writers, AllocPop(w) PROVE PinInv'
  BY <1>8 DEF AllocPop, PinInv, ControlInv, TypeOK, INACTIVE, Advancing, Draining,
       Caught
<1>9. ASSUME NEW w \in Writers, AllocSystem(w) PROVE PinInv'
  BY <1>9 DEF AllocSystem, PinInv, ControlInv, TypeOK, INACTIVE, Advancing, Draining,
       Caught
<1>10. ASSUME NEW w \in Writers, Publish(w) PROVE PinInv'
  BY <1>10 DEF Publish, PinInv, ControlInv, TypeOK, INACTIVE, Advancing, Draining,
       Caught
<1>11. ASSUME NEW w \in Writers, RecycleUnpublished(w) PROVE PinInv'
  BY <1>11 DEF RecycleUnpublished, PinInv, ControlInv, TypeOK, INACTIVE, Advancing,
       Draining, Caught
<1>12. ASSUME NEW w \in Writers, Unlink(w) PROVE PinInv'
  BY <1>12 DEF Unlink, PinInv, ControlInv, TypeOK, INACTIVE, Advancing, Draining, Caught
<1>13. ASSUME NEW w \in Writers, RetireFence(w) PROVE PinInv'
  BY <1>13 DEF RetireFence, PinInv, ControlInv, TypeOK, INACTIVE, Advancing, Draining,
       Caught
<1>14. ASSUME NEW w \in Writers, RetireLoad(w) PROVE PinInv'
  BY <1>14 DEF RetireLoad, PinInv, ControlInv, TypeOK, INACTIVE, Advancing, Draining,
       Caught
<1>15. ASSUME NEW w \in Writers, RetirePush(w) PROVE PinInv'
  BY <1>15 DEF RetirePush, PinInv, ControlInv, TypeOK, INACTIVE, Advancing, Draining,
       Caught
<1>16. ASSUME NEW w \in Writers, AdvLock(w) PROVE PinInv'
  BY <1>16 DEF AdvLock, PinInv, ControlInv, TypeOK, INACTIVE, Advancing, Draining,
       Caught
<1>17. ASSUME NEW w \in Writers, AdvFreeCarried(w) PROVE PinInv'
  BY <1>17 DEF AdvFreeCarried, PinInv, ControlInv, TypeOK, INACTIVE, Advancing,
       Draining, Caught
<1>18. ASSUME NEW w \in Writers, AdvBeginScan(w) PROVE PinInv'
  BY <1>18 DEF AdvBeginScan, PinInv, ControlInv, TypeOK, INACTIVE, Advancing, Draining,
       Caught
<1>19. ASSUME NEW w \in Writers, AdvScan(w) PROVE PinInv'
  BY <1>19 DEF AdvScan, PinInv, ControlInv, TypeOK, INACTIVE, Advancing, Draining,
       Caught
<1>20. ASSUME NEW w \in Writers, AdvBlocked(w) PROVE PinInv'
  BY <1>20 DEF AdvBlocked, PinInv, ControlInv, TypeOK, INACTIVE, Advancing, Draining,
       Release, Caught
<1>21. ASSUME NEW w \in Writers, AdvScanned(w) PROVE PinInv'
  BY <1>21 DEF AdvScanned, PinInv, ControlInv, TypeOK, INACTIVE, Advancing, Draining,
       Caught
<1>22. ASSUME NEW w \in Writers, AdvCas(w) PROVE PinInv'
  BY <1>22 DEF AdvCas, PinInv, ControlInv, TypeOK, INACTIVE, Advancing, Draining, Caught
<1>23. ASSUME NEW w \in Writers, AdvSkip(w) PROVE PinInv'
  BY <1>23 DEF AdvSkip, PinInv, ControlInv, TypeOK, INACTIVE, Advancing, Draining,
       Caught
<1>24. ASSUME NEW w \in Writers, AdvTake(w) PROVE PinInv'
  BY <1>24 DEF AdvTake, PinInv, ControlInv, TypeOK, INACTIVE, Advancing, Draining,
       Caught
<1>25. ASSUME NEW w \in Writers, AdvReclaim(w) PROVE PinInv'
  BY <1>25 DEF AdvReclaim, PinInv, ControlInv, TypeOK, INACTIVE, Advancing, Draining,
       Caught
<1>26. ASSUME NEW w \in Writers, AdvFreeRaw(w) PROVE PinInv'
  BY <1>26 DEF AdvFreeRaw, PinInv, ControlInv, TypeOK, INACTIVE, Advancing, Draining,
       Caught
<1>27. ASSUME NEW w \in Writers, AdvCarryTail(w) PROVE PinInv'
  BY <1>27 DEF AdvCarryTail, PinInv, ControlInv, TypeOK, INACTIVE, Advancing, Draining,
       Caught
<1>28. ASSUME NEW w \in Writers, AdvSubtract(w) PROVE PinInv'
  BY <1>28 DEF AdvSubtract, PinInv, ControlInv, TypeOK, INACTIVE, Advancing, Draining,
       Caught
<1>29. ASSUME NEW w \in Writers, AdvReturn(w) PROVE PinInv'
  BY <1>29 DEF AdvReturn, PinInv, ControlInv, TypeOK, INACTIVE, Advancing, Draining,
       Release, Caught
<1>30. ASSUME NEW s \in Stripes, ReleaseFreeList(s) PROVE PinInv'
  BY <1>30 DEF ReleaseFreeList, PinInv, ControlInv, TypeOK, INACTIVE
<1>31. ASSUME Drop PROVE PinInv'
  BY <1>31 DEF Drop, PinInv, ControlInv, TypeOK, INACTIVE
<1>32. ASSUME UNCHANGED vars PROVE PinInv'
  BY <1>32 DEF PinInv, ControlInv, TypeOK, INACTIVE
<1>33. QED
  BY <1>1, <1>2, <1>3, <1>4, <1>5, <1>6, <1>7, <1>8, <1>9, <1>10, <1>11, <1>12, <1>13,
       <1>14, <1>15, <1>16, <1>17, <1>18, <1>19, <1>20, <1>21, <1>22, <1>23, <1>24,
       <1>25, <1>26, <1>27, <1>28, <1>29, <1>30, <1>31, <1>32 DEF Next, ReaderNext,
       Pin, Mutate, Retire, TryAdvance, Drain, Terminated

\* No step puts a block in two places: a block enters a list, a hand or the
\* tree in the step that takes it out of where it was.
LEMMA TwiceStep == TypeOK /\ ControlInv /\ NotTwice /\ [Next]_vars => NotTwice'
<1> SUFFICES ASSUME TypeOK, ControlInv, NotTwice, [Next]_vars PROVE NotTwice'
  OBVIOUS
<1> USE CollectorAssumption, StripeType DEF vars, globalVars, memVars, readerVars, advVars
<1>1. ASSUME NEW r \in Readers, Register(r) PROVE NotTwice'
  BY <1>1 DEF Register, NotTwice, ControlInv, TypeOK, Busy, Advancing, Draining
<1>2. ASSUME NEW r \in Readers, Deregister(r) PROVE NotTwice'
  BY <1>2 DEF Deregister, NotTwice, ControlInv, TypeOK, Busy, Advancing, Draining
<1>3. ASSUME NEW r \in Readers, PinLoad(r) PROVE NotTwice'
  BY <1>3 DEF PinLoad, NotTwice, ControlInv, TypeOK, Busy, Advancing, Draining
<1>4. ASSUME NEW r \in Readers, PinStore(r) PROVE NotTwice'
  BY <1>4 DEF PinStore, NotTwice, ControlInv, TypeOK, Busy, Advancing, Draining
<1>5. ASSUME NEW r \in Readers, PinRetry(r) PROVE NotTwice'
  BY <1>5 DEF PinRetry, NotTwice, ControlInv, TypeOK, Busy, Advancing, Draining
<1>6. ASSUME NEW r \in Readers, PinDone(r) PROVE NotTwice'
  BY <1>6 DEF PinDone, NotTwice, ControlInv, TypeOK, Busy, Advancing, Draining
<1>7. ASSUME NEW r \in Readers, Unpin(r) PROVE NotTwice'
  BY <1>7 DEF Unpin, NotTwice, ControlInv, TypeOK, Busy, Advancing, Draining
<1>8. ASSUME NEW w \in Writers, AllocPop(w) PROVE NotTwice'
  BY <1>8 DEF AllocPop, NotTwice, ControlInv, TypeOK, Busy, Advancing, Draining
<1>9. ASSUME NEW w \in Writers, AllocSystem(w) PROVE NotTwice'
  BY <1>9 DEF AllocSystem, NotTwice, ControlInv, TypeOK, Busy, Advancing, Draining
<1>10. ASSUME NEW w \in Writers, Publish(w) PROVE NotTwice'
  BY <1>10 DEF Publish, NotTwice, ControlInv, TypeOK, Busy, Advancing, Draining
<1>11. ASSUME NEW w \in Writers, RecycleUnpublished(w) PROVE NotTwice'
  <2>1. wblk[w] \in Blocks /\ StripeOf[w] \in Stripes
    BY <1>11 DEF RecycleUnpublished, ControlInv, Busy
  <2>2. CASE wblk[w] \in Classed
    <3>1. /\ UNCHANGED <<live, sys, carry, bins, wtaken>>
          /\ \A t \in Stripes : \A b \in freelist'[t] :
               b \in freelist[t] \/ (t = StripeOf[w] /\ b = wblk[w])
          /\ \A v \in Writers : /\ wpc'[v] = IF v = w THEN "idle" ELSE wpc[v]
                               /\ wblk'[v] = IF v = w THEN NoBlock ELSE wblk[v]
      BY <1>11, <2>1, <2>2 DEF RecycleUnpublished, TypeOK
    <3>2. /\ wblk[w] \notin live /\ wblk[w] \notin sys /\ wblk[w] \notin carry
          /\ \A t \in Stripes : wblk[w] \notin freelist[t]
          /\ \A i \in Bins, s \in Stripes : wblk[w] \notin bins[i][s]
          /\ \A v \in Writers : wblk[w] \notin wtaken[v]
          /\ \A v \in Writers : v # w => wblk[v] # wblk[w]
      BY <1>11, <2>1 DEF RecycleUnpublished, NotTwice, Busy
    <3>3. wtaken[w] = {}
      BY <1>11 DEF RecycleUnpublished, ControlInv
    <3>4. /\ sys \subseteq Blocks /\ carry \subseteq Blocks
          /\ \A t \in Stripes : freelist[t] \subseteq Blocks
          /\ \A i \in Bins, s \in Stripes : bins[i][s] \subseteq Blocks
          /\ \A v \in Writers : wtaken[v] \subseteq Blocks
      BY DEF TypeOK
    <3>5. /\ \A s \in Stripes : freelist'[s] \cap (live' \cup sys' \cup carry') = {}
          /\ \A s, t \in Stripes : s # t => freelist'[s] \cap freelist'[t] = {}
      BY <3>1, <3>2 DEF NotTwice
    <3>6. \A i \in Bins, s, t \in Stripes : bins'[i][s] \cap freelist'[t] = {}
      BY <3>1, <3>2 DEF NotTwice
    <3>7. \A v \in Writers :
            /\ \A t \in Stripes : wtaken'[v] \cap freelist'[t] = {}
      BY <3>1, <3>2, <3>3 DEF NotTwice
    <3>8. \A v \in Writers :
            /\ wpc'[v] \in Busy => (wblk'[v] \in live' <=> wpc'[v] = "unlinked")
            /\ wblk'[v] \notin sys' /\ wblk'[v] \notin carry'
            /\ \A t \in Stripes : wblk'[v] \notin freelist'[t]
            /\ \A i \in Bins, s \in Stripes : wblk'[v] \notin bins'[i][s]
            /\ \A u \in Writers : wblk'[v] \notin wtaken'[u]
            /\ \A u \in Writers : u # v /\ wblk'[u] \in Blocks => wblk'[u] # wblk'[v]
      BY <2>1, <3>1, <3>2, <3>4 DEF NotTwice, Busy
    <3> QED BY <3>1, <3>5, <3>6, <3>7, <3>8 DEF NotTwice
  <2>3. CASE wblk[w] \notin Classed
    BY <1>11, <2>1, <2>3 DEF RecycleUnpublished, ControlInv, Busy, NotTwice, TypeOK
  <2> QED BY <2>2, <2>3
<1>12. ASSUME NEW w \in Writers, Unlink(w) PROVE NotTwice'
  BY <1>12 DEF Unlink, NotTwice, ControlInv, TypeOK, Busy, Advancing, Draining
<1>13. ASSUME NEW w \in Writers, RetireFence(w) PROVE NotTwice'
  BY <1>13 DEF RetireFence, NotTwice, ControlInv, TypeOK, Busy, Advancing, Draining
<1>14. ASSUME NEW w \in Writers, RetireLoad(w) PROVE NotTwice'
  BY <1>14 DEF RetireLoad, NotTwice, ControlInv, TypeOK, Busy, Advancing, Draining
<1>15. ASSUME NEW w \in Writers, RetirePush(w) PROVE NotTwice'
  BY <1>15 DEF RetirePush, NotTwice, ControlInv, TypeOK, Busy, Advancing, Draining
<1>16. ASSUME NEW w \in Writers, AdvLock(w) PROVE NotTwice'
  BY <1>16 DEF AdvLock, NotTwice, ControlInv, TypeOK, Busy, Advancing, Draining
<1>17. ASSUME NEW w \in Writers, AdvFreeCarried(w) PROVE NotTwice'
  BY <1>17 DEF AdvFreeCarried, NotTwice, ControlInv, TypeOK, Busy, Advancing, Draining
<1>18. ASSUME NEW w \in Writers, AdvBeginScan(w) PROVE NotTwice'
  BY <1>18 DEF AdvBeginScan, NotTwice, ControlInv, TypeOK, Busy, Advancing, Draining
<1>19. ASSUME NEW w \in Writers, AdvScan(w) PROVE NotTwice'
  BY <1>19 DEF AdvScan, NotTwice, ControlInv, TypeOK, Busy, Advancing, Draining
<1>20. ASSUME NEW w \in Writers, AdvBlocked(w) PROVE NotTwice'
  BY <1>20 DEF AdvBlocked, NotTwice, ControlInv, TypeOK, Busy, Advancing, Draining,
       Release
<1>21. ASSUME NEW w \in Writers, AdvScanned(w) PROVE NotTwice'
  BY <1>21 DEF AdvScanned, NotTwice, ControlInv, TypeOK, Busy, Advancing, Draining
<1>22. ASSUME NEW w \in Writers, AdvCas(w) PROVE NotTwice'
  BY <1>22 DEF AdvCas, NotTwice, ControlInv, TypeOK, Busy, Advancing, Draining
<1>23. ASSUME NEW w \in Writers, AdvSkip(w) PROVE NotTwice'
  BY <1>23 DEF AdvSkip, NotTwice, ControlInv, TypeOK, Busy, Advancing, Draining
<1>24. ASSUME NEW w \in Writers, AdvTake(w) PROVE NotTwice'
  <2>1. wstripe[w] \in Stripes /\ StaleBin(w) \in Bins
    BY <1>24, LoopStripe, StaleType DEF AdvTake
  <2> QED BY <1>24, <2>1 DEF AdvTake, ControlInv, Busy, Advancing, Draining, NotTwice,
       TypeOK
<1>25. ASSUME NEW w \in Writers, AdvReclaim(w) PROVE NotTwice'
  BY <1>25 DEF AdvReclaim, NotTwice, ControlInv, TypeOK, Busy, Advancing, Draining
<1>26. ASSUME NEW w \in Writers, AdvFreeRaw(w) PROVE NotTwice'
  BY <1>26 DEF AdvFreeRaw, NotTwice, ControlInv, TypeOK, Busy, Advancing, Draining
<1>27. ASSUME NEW w \in Writers, AdvCarryTail(w) PROVE NotTwice'
  BY <1>27 DEF AdvCarryTail, NotTwice, ControlInv, TypeOK, Busy, Advancing, Draining
<1>28. ASSUME NEW w \in Writers, AdvSubtract(w) PROVE NotTwice'
  BY <1>28 DEF AdvSubtract, NotTwice, ControlInv, TypeOK, Busy, Advancing, Draining
<1>29. ASSUME NEW w \in Writers, AdvReturn(w) PROVE NotTwice'
  BY <1>29 DEF AdvReturn, NotTwice, ControlInv, TypeOK, Busy, Advancing, Draining,
       Release
<1>30. ASSUME NEW s \in Stripes, ReleaseFreeList(s) PROVE NotTwice'
  BY <1>30 DEF ReleaseFreeList, NotTwice, ControlInv, TypeOK, Busy, Advancing, Draining
<1>31. ASSUME Drop PROVE NotTwice'
  <2>1. \A w \in Writers : wtaken'[w] = {} /\ wpc'[w] = "idle" /\ wblk'[w] = NoBlock
    BY <1>31 DEF Drop, ControlInv, Busy, advVars
  <2>2. AllFree \subseteq Blocks /\ AllQueued \subseteq Blocks
    BY DEF AllFree, AllQueued, TypeOK
  <2>3. sys' \subseteq Blocks
    BY <1>31, <2>2 DEF Drop, TypeOK
  <2>4. /\ live' = {} /\ carry' = {}
        /\ \A s \in Stripes : freelist'[s] = {}
        /\ \A i \in Bins, s \in Stripes : bins'[i][s] = {}
    BY <1>31 DEF Drop
  <2> QED BY <2>1, <2>3, <2>4 DEF NotTwice, Busy
<1>32. ASSUME UNCHANGED vars PROVE NotTwice'
  BY <1>32 DEF NotTwice, ControlInv, TypeOK, Busy, Advancing, Draining
<1>33. QED
  BY <1>1, <1>2, <1>3, <1>4, <1>5, <1>6, <1>7, <1>8, <1>9, <1>10, <1>11, <1>12, <1>13,
       <1>14, <1>15, <1>16, <1>17, <1>18, <1>19, <1>20, <1>21, <1>22, <1>23, <1>24,
       <1>25, <1>26, <1>27, <1>28, <1>29, <1>30, <1>31, <1>32 DEF Next, ReaderNext,
       Pin, Mutate, Retire, TryAdvance, Drain, Terminated

\* What a pinned reader may hold stays out of reach of the collector.  The two
\* steps that matter are RetirePush, whose bin is that of an epoch between the
\* reader's and the current one, and AdvTake, whose bin is of neither.
LEMMA HeldStep == TypeOK /\ ControlInv /\ PinInv /\ NotTwice /\ HeldInv /\ [Next]_vars => HeldInv'
<1> SUFFICES ASSUME TypeOK, ControlInv, PinInv, NotTwice, HeldInv,
     [Next]_vars PROVE HeldInv'
  OBVIOUS
<1> USE CollectorAssumption, StripeType DEF vars, globalVars, memVars, readerVars, advVars
<1>1. ASSUME NEW r \in Readers, Register(r) PROVE HeldInv'
  BY <1>1 DEF Register, HeldInv, PinInv, NotTwice, ControlInv, TypeOK
<1>2. ASSUME NEW r \in Readers, Deregister(r) PROVE HeldInv'
  BY <1>2 DEF Deregister, HeldInv, PinInv, NotTwice, ControlInv, TypeOK
<1>3. ASSUME NEW r \in Readers, PinLoad(r) PROVE HeldInv'
  BY <1>3 DEF PinLoad, HeldInv, PinInv, NotTwice, ControlInv, TypeOK
<1>4. ASSUME NEW r \in Readers, PinStore(r) PROVE HeldInv'
  BY <1>4 DEF PinStore, HeldInv, PinInv, NotTwice, ControlInv, TypeOK
<1>5. ASSUME NEW r \in Readers, PinRetry(r) PROVE HeldInv'
  BY <1>5 DEF PinRetry, HeldInv, PinInv, NotTwice, ControlInv, TypeOK
<1>6. ASSUME NEW r \in Readers, PinDone(r) PROVE HeldInv'
  BY <1>6 DEF PinDone, HeldInv, NotTwice, ControlInv, TypeOK, Busy
<1>7. ASSUME NEW r \in Readers, Unpin(r) PROVE HeldInv'
  BY <1>7 DEF Unpin, HeldInv, PinInv, NotTwice, ControlInv, TypeOK
<1>8. ASSUME NEW w \in Writers, AllocPop(w) PROVE HeldInv'
  BY <1>8 DEF AllocPop, HeldInv, PinInv, NotTwice, ControlInv, TypeOK, Busy, Advancing,
       Draining
<1>9. ASSUME NEW w \in Writers, AllocSystem(w) PROVE HeldInv'
  BY <1>9 DEF AllocSystem, HeldInv, PinInv, NotTwice, ControlInv, TypeOK, Busy,
       Advancing, Draining
<1>10. ASSUME NEW w \in Writers, Publish(w) PROVE HeldInv'
  BY <1>10 DEF Publish, HeldInv, PinInv, NotTwice, ControlInv, TypeOK, Busy, Advancing,
       Draining
<1>11. ASSUME NEW w \in Writers, RecycleUnpublished(w) PROVE HeldInv'
  <2>1. CASE wblk[w] \in Classed
    <3>1. /\ UNCHANGED <<sys, carry, bins, wtaken, wep, epoch, rpc, slot, held>>
          /\ \A t \in Stripes : freelist'[t] \subseteq freelist[t] \cup {wblk[w]}
          /\ \A v \in Writers : /\ wpc'[v] = IF v = w THEN "idle" ELSE wpc[v]
                               /\ wblk'[v] = IF v = w THEN NoBlock ELSE wblk[v]
      BY <1>11, <2>1 DEF RecycleUnpublished, TypeOK
    <3>2. \A r \in Readers : rpc[r] = "pinned" => wblk[w] \notin held[r]
      BY <1>11 DEF RecycleUnpublished, HeldInv
    <3> QED BY <3>1, <3>2 DEF HeldInv
  <2>2. CASE wblk[w] \notin Classed
    BY <1>11, <2>2 DEF RecycleUnpublished, HeldInv, TypeOK
  <2> QED BY <2>1, <2>2
<1>12. ASSUME NEW w \in Writers, Unlink(w) PROVE HeldInv'
  BY <1>12 DEF Unlink, HeldInv, PinInv, NotTwice, ControlInv, TypeOK, Busy, Advancing,
       Draining
<1>13. ASSUME NEW w \in Writers, RetireFence(w) PROVE HeldInv'
  BY <1>13 DEF RetireFence, HeldInv, PinInv, NotTwice, ControlInv, TypeOK, Busy,
       Advancing, Draining
<1>14. ASSUME NEW w \in Writers, RetireLoad(w) PROVE HeldInv'
  BY <1>14 DEF RetireLoad, HeldInv, PinInv, NotTwice, ControlInv, TypeOK, Busy,
       Advancing, Draining
<1>15. ASSUME NEW w \in Writers, RetirePush(w) PROVE HeldInv'
  <2>1. wep[w] % BINS \in Bins /\ StripeOf[w] \in Stripes
    BY ModBins DEF TypeOK
  <2>2. ASSUME NEW r \in Readers, rpc[r] = "pinned", wblk[w] \in held[r]
        PROVE  wep[w] % BINS = slot[r] % BINS \/ wep[w] % BINS = epoch % BINS
    <3>1. /\ slot[r] \in Nat /\ epoch \in Nat /\ wep[w] \in Nat
          /\ slot[r] <= wep[w] /\ wep[w] <= epoch /\ epoch <= slot[r] + 1
      BY <1>15, <2>2 DEF RetirePush, HeldInv, PinInv, TypeOK
    <3>2. wep[w] = slot[r] \/ wep[w] = epoch
      BY <3>1
    <3> QED BY <3>2
  <2>3. \A i \in Bins, s \in Stripes :
          bins'[i][s] = IF i = wep[w] % BINS /\ s = StripeOf[w]
                          THEN bins[i][s] \cup {wblk[w]} ELSE bins[i][s]
    BY <1>15, <2>1 DEF RetirePush, TypeOK
  <2> QED BY <1>15, <2>2, <2>3 DEF RetirePush, HeldInv, TypeOK
<1>16. ASSUME NEW w \in Writers, AdvLock(w) PROVE HeldInv'
  BY <1>16 DEF AdvLock, HeldInv, PinInv, NotTwice, ControlInv, TypeOK, Busy, Advancing,
       Draining
<1>17. ASSUME NEW w \in Writers, AdvFreeCarried(w) PROVE HeldInv'
  BY <1>17 DEF AdvFreeCarried, HeldInv, PinInv, NotTwice, ControlInv, TypeOK, Busy,
       Advancing, Draining
<1>18. ASSUME NEW w \in Writers, AdvBeginScan(w) PROVE HeldInv'
  BY <1>18 DEF AdvBeginScan, HeldInv, PinInv, NotTwice, ControlInv, TypeOK, Busy,
       Advancing, Draining
<1>19. ASSUME NEW w \in Writers, AdvScan(w) PROVE HeldInv'
  BY <1>19 DEF AdvScan, HeldInv, PinInv, NotTwice, ControlInv, TypeOK, Busy, Advancing,
       Draining
<1>20. ASSUME NEW w \in Writers, AdvBlocked(w) PROVE HeldInv'
  BY <1>20 DEF AdvBlocked, HeldInv, PinInv, NotTwice, ControlInv, TypeOK, Busy,
       Advancing, Draining, Release
<1>21. ASSUME NEW w \in Writers, AdvScanned(w) PROVE HeldInv'
  BY <1>21 DEF AdvScanned, HeldInv, PinInv, NotTwice, ControlInv, TypeOK, Busy,
       Advancing, Draining
<1>22. ASSUME NEW w \in Writers, AdvCas(w) PROVE HeldInv'
  BY <1>22 DEF AdvCas, HeldInv, PinInv, NotTwice, ControlInv, TypeOK, Busy, Advancing,
       Draining
<1>23. ASSUME NEW w \in Writers, AdvSkip(w) PROVE HeldInv'
  BY <1>23 DEF AdvSkip, HeldInv, PinInv, NotTwice, ControlInv, TypeOK, Busy, Advancing,
       Draining
<1>24. ASSUME NEW w \in Writers, AdvTake(w) PROVE HeldInv'
  <2>1. wstripe[w] \in Stripes /\ StaleBin(w) \in Bins
    BY <1>24, LoopStripe, StaleType DEF AdvTake
  <2>2. wep[w] \in Nat /\ epoch = wep[w] + 1
    BY <1>24 DEF AdvTake, ControlInv, Draining, TypeOK
  <2>3. ASSUME NEW r \in Readers, rpc[r] = "pinned"
        PROVE  StaleBin(w) # slot[r] % BINS /\ StaleBin(w) # epoch % BINS
    <3>1. slot[r] = wep[w] \/ slot[r] = wep[w] + 1
      BY <2>2, <2>3 DEF PinInv
    <3> QED BY <2>2, <3>1, StaleDistinct DEF StaleBin
  <2>4. ASSUME NEW r \in Readers, rpc[r] = "pinned", NEW b \in held[r]
        PROVE  b \notin bins[StaleBin(w)][wstripe[w]]
    BY <2>1, <2>3, <2>4 DEF HeldInv
  <2> QED BY <1>24, <2>1, <2>4 DEF AdvTake, HeldInv, TypeOK
<1>25. ASSUME NEW w \in Writers, AdvReclaim(w) PROVE HeldInv'
  BY <1>25 DEF AdvReclaim, HeldInv, PinInv, NotTwice, ControlInv, TypeOK, Busy,
       Advancing, Draining
<1>26. ASSUME NEW w \in Writers, AdvFreeRaw(w) PROVE HeldInv'
  BY <1>26 DEF AdvFreeRaw, HeldInv, PinInv, NotTwice, ControlInv, TypeOK, Busy,
       Advancing, Draining
<1>27. ASSUME NEW w \in Writers, AdvCarryTail(w) PROVE HeldInv'
  BY <1>27 DEF AdvCarryTail, HeldInv, PinInv, NotTwice, ControlInv, TypeOK, Busy,
       Advancing, Draining
<1>28. ASSUME NEW w \in Writers, AdvSubtract(w) PROVE HeldInv'
  BY <1>28 DEF AdvSubtract, HeldInv, PinInv, NotTwice, ControlInv, TypeOK, Busy,
       Advancing, Draining
<1>29. ASSUME NEW w \in Writers, AdvReturn(w) PROVE HeldInv'
  BY <1>29 DEF AdvReturn, HeldInv, PinInv, NotTwice, ControlInv, TypeOK, Busy,
       Advancing, Draining, Release
<1>30. ASSUME NEW s \in Stripes, ReleaseFreeList(s) PROVE HeldInv'
  BY <1>30 DEF ReleaseFreeList, HeldInv, PinInv, NotTwice, ControlInv, TypeOK
<1>31. ASSUME Drop PROVE HeldInv'
  BY <1>31 DEF Drop, HeldInv, PinInv, NotTwice, ControlInv, TypeOK
<1>32. ASSUME UNCHANGED vars PROVE HeldInv'
  BY <1>32 DEF HeldInv, PinInv, NotTwice, ControlInv, TypeOK
<1>33. QED
  BY <1>1, <1>2, <1>3, <1>4, <1>5, <1>6, <1>7, <1>8, <1>9, <1>10, <1>11, <1>12, <1>13,
       <1>14, <1>15, <1>16, <1>17, <1>18, <1>19, <1>20, <1>21, <1>22, <1>23, <1>24,
       <1>25, <1>26, <1>27, <1>28, <1>29, <1>30, <1>31, <1>32 DEF Next, ReaderNext,
       Pin, Mutate, Retire, TryAdvance, Drain, Terminated

\* No step loses a block.
LEMMA LostStep == TypeOK /\ ControlInv /\ NotLost /\ [Next]_vars => NotLost'
<1> SUFFICES ASSUME TypeOK, ControlInv, NotLost, [Next]_vars PROVE NotLost'
  OBVIOUS
<1> USE StripeType DEF vars, globalVars, memVars, readerVars, advVars
<1>1. ASSUME NEW r \in Readers, Register(r) PROVE NotLost'
  BY <1>1 DEF Register, NotLost, ControlInv, TypeOK
<1>2. ASSUME NEW r \in Readers, Deregister(r) PROVE NotLost'
  BY <1>2 DEF Deregister, NotLost, ControlInv, TypeOK
<1>3. ASSUME NEW r \in Readers, PinLoad(r) PROVE NotLost'
  BY <1>3 DEF PinLoad, NotLost, ControlInv, TypeOK
<1>4. ASSUME NEW r \in Readers, PinStore(r) PROVE NotLost'
  BY <1>4 DEF PinStore, NotLost, ControlInv, TypeOK
<1>5. ASSUME NEW r \in Readers, PinRetry(r) PROVE NotLost'
  BY <1>5 DEF PinRetry, NotLost, ControlInv, TypeOK
<1>6. ASSUME NEW r \in Readers, PinDone(r) PROVE NotLost'
  BY <1>6 DEF PinDone, NotLost, ControlInv, TypeOK
<1>7. ASSUME NEW r \in Readers, Unpin(r) PROVE NotLost'
  BY <1>7 DEF Unpin, NotLost, ControlInv, TypeOK
<1>8. ASSUME NEW w \in Writers, AllocPop(w) PROVE NotLost'
  <2>1. PICK c \in freelist[StripeOf[w]] :
          /\ freelist' = [freelist EXCEPT ![StripeOf[w]] = @ \ {c}]
          /\ wblk' = [wblk EXCEPT ![w] = c]
    BY <1>8 DEF AllocPop
  <2>2. wblk[w] \notin Blocks
    BY <1>8, CollectorAssumption DEF AllocPop, ControlInv, Busy
  <2>3. /\ wblk'[w] = c
        /\ \A v \in Writers : wblk[v] \in Blocks => wblk'[v] = wblk[v]
        /\ \A t \in Stripes : \A b \in freelist[t] : b \in freelist'[t] \/ b = c
    BY <2>1, <2>2 DEF TypeOK
  <2>4. UNCHANGED <<sys, live, carry, bins, wtaken>>
    BY <1>8 DEF AllocPop, advVars
  <2> QED BY <2>3, <2>4 DEF NotLost
<1>9. ASSUME NEW w \in Writers, AllocSystem(w) PROVE NotLost'
  <2>1. PICK c \in sys : sys' = sys \ {c} /\ wblk' = [wblk EXCEPT ![w] = c]
    BY <1>9 DEF AllocSystem
  <2>2. wblk[w] \notin Blocks
    BY <1>9, CollectorAssumption DEF AllocSystem, ControlInv, Busy
  <2>3. wblk'[w] = c /\ \A v \in Writers : wblk[v] \in Blocks => wblk'[v] = wblk[v]
    BY <2>1, <2>2 DEF TypeOK
  <2>4. UNCHANGED <<freelist, live, carry, bins, wtaken>>
    BY <1>9 DEF AllocSystem, advVars
  <2> QED BY <2>1, <2>3, <2>4 DEF NotLost
<1>10. ASSUME NEW w \in Writers, Publish(w) PROVE NotLost'
  BY <1>10 DEF Publish, NotLost, ControlInv, TypeOK, Busy
<1>11. ASSUME NEW w \in Writers, RecycleUnpublished(w) PROVE NotLost'
  <2>1. wblk[w] \in sys' \/ wblk[w] \in freelist'[StripeOf[w]]
    BY <1>11 DEF RecycleUnpublished, TypeOK
  <2>2. /\ sys \subseteq sys'
        /\ \A t \in Stripes : freelist[t] \subseteq freelist'[t]
        /\ \A v \in Writers : v # w => wblk'[v] = wblk[v]
    BY <1>11 DEF RecycleUnpublished, TypeOK
  <2>3. UNCHANGED <<live, carry, bins, wtaken>>
    BY <1>11 DEF RecycleUnpublished, advVars
  <2> QED BY <2>1, <2>2, <2>3 DEF NotLost
<1>12. ASSUME NEW w \in Writers, Unlink(w) PROVE NotLost'
  <2>1. wblk[w] \notin Blocks
    BY <1>12, CollectorAssumption DEF Unlink, ControlInv, Busy
  <2>2. \A v \in Writers : wblk[v] \in Blocks => wblk'[v] = wblk[v]
    BY <1>12, <2>1 DEF Unlink, TypeOK
  <2>3. UNCHANGED <<sys, freelist, live, carry, bins, wtaken>>
    BY <1>12 DEF Unlink, memVars, advVars
  <2> QED BY <2>2, <2>3 DEF NotLost
<1>13. ASSUME NEW w \in Writers, RetireFence(w) PROVE NotLost'
  BY <1>13 DEF RetireFence, NotLost, ControlInv, TypeOK, Busy
<1>14. ASSUME NEW w \in Writers, RetireLoad(w) PROVE NotLost'
  BY <1>14 DEF RetireLoad, NotLost, ControlInv, TypeOK, Busy
<1>15. ASSUME NEW w \in Writers, RetirePush(w) PROVE NotLost'
  <2>1. wep[w] % BINS \in Bins
    BY ModBins DEF TypeOK
  <2>2. /\ wblk[w] \in bins'[wep[w] % BINS][StripeOf[w]]
        /\ \A i \in Bins, s \in Stripes : bins[i][s] \subseteq bins'[i][s]
        /\ \A v \in Writers : v # w => wblk'[v] = wblk[v]
    BY <1>15, <2>1 DEF RetirePush, TypeOK
  <2>3. UNCHANGED <<sys, live, carry, freelist, wtaken>>
    BY <1>15 DEF RetirePush, advVars
  <2> QED BY <2>1, <2>2, <2>3 DEF NotLost
<1>16. ASSUME NEW w \in Writers, AdvLock(w) PROVE NotLost'
  BY <1>16 DEF AdvLock, NotLost, ControlInv, TypeOK, Busy
<1>17. ASSUME NEW w \in Writers, AdvFreeCarried(w) PROVE NotLost'
  BY <1>17 DEF AdvFreeCarried, NotLost, ControlInv, TypeOK, Busy
<1>18. ASSUME NEW w \in Writers, AdvBeginScan(w) PROVE NotLost'
  BY <1>18 DEF AdvBeginScan, NotLost, ControlInv, TypeOK, Busy
<1>19. ASSUME NEW w \in Writers, AdvScan(w) PROVE NotLost'
  BY <1>19 DEF AdvScan, NotLost, ControlInv, TypeOK, Busy
<1>20. ASSUME NEW w \in Writers, AdvBlocked(w) PROVE NotLost'
  BY <1>20 DEF AdvBlocked, NotLost, ControlInv, TypeOK, Busy, Release
<1>21. ASSUME NEW w \in Writers, AdvScanned(w) PROVE NotLost'
  BY <1>21 DEF AdvScanned, NotLost, ControlInv, TypeOK, Busy
<1>22. ASSUME NEW w \in Writers, AdvCas(w) PROVE NotLost'
  BY <1>22 DEF AdvCas, NotLost, ControlInv, TypeOK, Busy
<1>23. ASSUME NEW w \in Writers, AdvSkip(w) PROVE NotLost'
  BY <1>23 DEF AdvSkip, NotLost, ControlInv, TypeOK, Busy
<1>24. ASSUME NEW w \in Writers, AdvTake(w) PROVE NotLost'
  <2>1. wstripe[w] \in Stripes /\ StaleBin(w) \in Bins
    BY <1>24, LoopStripe, StaleType DEF AdvTake
  <2>2. wtaken[w] = {}
    BY <1>24 DEF AdvTake, ControlInv
  <2>3. /\ \A i \in Bins, s \in Stripes : bins[i][s] \subseteq bins'[i][s] \cup wtaken'[w]
        /\ \A v \in Writers : wtaken[v] \subseteq wtaken'[v]
    BY <1>24, <2>1, <2>2 DEF AdvTake, TypeOK
  <2>4. UNCHANGED <<sys, live, carry, freelist, wblk>>
    BY <1>24 DEF AdvTake
  <2> QED BY <2>3, <2>4 DEF NotLost
<1>25. ASSUME NEW w \in Writers, AdvReclaim(w) PROVE NotLost'
  <2>1. wstripe[w] \in Stripes
    BY <1>25 DEF AdvReclaim, ControlInv, Draining
  <2>2. PICK c \in wtaken[w] : /\ wtaken' = [wtaken EXCEPT ![w] = @ \ {c}]
                               /\ freelist' = [freelist EXCEPT ![wstripe[w]] = @ \cup {c}]
    BY <1>25 DEF AdvReclaim
  <2>3. /\ c \in freelist'[wstripe[w]]
        /\ \A t \in Stripes : freelist[t] \subseteq freelist'[t]
        /\ \A v \in Writers : wtaken[v] \subseteq wtaken'[v] \cup {c}
    BY <2>1, <2>2 DEF TypeOK
  <2>4. UNCHANGED <<sys, live, carry, bins, wblk>>
    BY <1>25 DEF AdvReclaim
  <2> QED BY <2>1, <2>3, <2>4 DEF NotLost
<1>26. ASSUME NEW w \in Writers, AdvFreeRaw(w) PROVE NotLost'
  BY <1>26 DEF AdvFreeRaw, NotLost, ControlInv, TypeOK, Busy
<1>27. ASSUME NEW w \in Writers, AdvCarryTail(w) PROVE NotLost'
  <2>1. wstripe[w] \in Stripes
    BY <1>27 DEF AdvCarryTail, ControlInv, Draining
  <2>2. /\ carry \subseteq carry'
        /\ \A t \in Stripes : freelist[t] \subseteq freelist'[t]
        /\ wtaken[w] \subseteq carry' \cup freelist'[wstripe[w]]
        /\ \A v \in Writers : v # w => wtaken'[v] = wtaken[v]
    BY <1>27, <2>1 DEF AdvCarryTail, TypeOK
  <2>3. UNCHANGED <<sys, live, bins, wblk>>
    BY <1>27 DEF AdvCarryTail
  <2> QED BY <2>1, <2>2, <2>3 DEF NotLost
<1>28. ASSUME NEW w \in Writers, AdvSubtract(w) PROVE NotLost'
  BY <1>28 DEF AdvSubtract, NotLost, ControlInv, TypeOK, Busy
<1>29. ASSUME NEW w \in Writers, AdvReturn(w) PROVE NotLost'
  BY <1>29 DEF AdvReturn, NotLost, ControlInv, TypeOK, Busy, Release
<1>30. ASSUME NEW s \in Stripes, ReleaseFreeList(s) PROVE NotLost'
  BY <1>30 DEF ReleaseFreeList, NotLost, ControlInv, TypeOK
<1>31. ASSUME Drop PROVE NotLost'
  <2>1. AllFree \subseteq sys' /\ AllQueued \subseteq sys' /\ (sys \cup live \cup carry) \subseteq sys'
    BY <1>31 DEF Drop
  <2>2. \A s \in Stripes : freelist[s] \subseteq AllFree
    BY DEF AllFree
  <2>3. \A i \in Bins, s \in Stripes : bins[i][s] \subseteq AllQueued
    BY DEF AllQueued
  <2>4. UNCHANGED <<wtaken, wblk>>
    BY <1>31 DEF Drop, advVars
  <2> QED BY <2>1, <2>2, <2>3, <2>4 DEF NotLost
<1>32. ASSUME UNCHANGED vars PROVE NotLost'
  BY <1>32 DEF NotLost, ControlInv, TypeOK
<1>33. QED
  BY <1>1, <1>2, <1>3, <1>4, <1>5, <1>6, <1>7, <1>8, <1>9, <1>10, <1>11, <1>12, <1>13,
       <1>14, <1>15, <1>16, <1>17, <1>18, <1>19, <1>20, <1>21, <1>22, <1>23, <1>24,
       <1>25, <1>26, <1>27, <1>28, <1>29, <1>30, <1>31, <1>32 DEF Next, ReaderNext,
       Pin, Mutate, Retire, TryAdvance, Drain, Terminated

\* The initial states satisfy the invariant.
LEMMA InitInv == Init => IInv
<1> SUFFICES ASSUME Init PROVE IInv
  OBVIOUS
<1>1. TypeOK
  <2>1. 0 \in 0 .. NumStripes /\ Blocks \ InitialLive \subseteq Blocks /\ InitialLive \subseteq Blocks
    BY CollectorAssumption
  <2> QED BY <2>1 DEF Init, TypeOK
<1>2. ControlInv
  BY DEF Init, ControlInv, Busy, Advancing, Draining
<1>3. PinInv
  BY DEF Init, PinInv
<1>4. NotTwice
  BY CollectorAssumption DEF Init, NotTwice, Busy
<1>5. NotLost
  BY DEF Init, NotLost
<1>6. HeldInv
  BY DEF Init, HeldInv
<1>7. QED
  BY <1>1, <1>2, <1>3, <1>4, <1>5, <1>6 DEF IInv, OneOwner

\* Every step preserves the invariant.
LEMMA NextInv == IInv /\ [Next]_vars => IInv'
  BY TypeStep, ControlStep, PinStep, TwiceStep, LostStep, HeldStep DEF IInv, OneOwner

\* The invariant says that what a pinned reader may hold is not disposed of.
LEMMA InvSafe == IInv => NoUseAfterFree
<1> SUFFICES ASSUME IInv, NEW r \in Readers, rpc[r] = "pinned", NEW b \in held[r], b \in Disposed
             PROVE  FALSE
  BY DEF NoUseAfterFree
<1>1. b \notin AllFree
  BY DEF IInv, HeldInv, AllFree
<1>2. b \notin AllTaken
  BY DEF IInv, HeldInv, AllTaken
<1>3. b \notin AllPrivate
  BY DEF IInv, HeldInv, AllPrivate
<1>4. b \notin sys /\ b \notin carry
  BY DEF IInv, HeldInv
<1>5. QED
  BY <1>1, <1>2, <1>3, <1>4 DEF Disposed

\* The invariant holds in every reachable state.
LEMMA Invariance == Spec => []IInv
  BY InitInv, NextInv, PTL DEF Spec

\* Every variable of the collector keeps its type.
THEOREM TypeCorrect == Spec => []TypeOK
<1>1. IInv => TypeOK
  BY DEF IInv
<1>2. QED
  BY <1>1, Invariance, PTL

\* No block that a pinned reader may still dereference is freed, carried, put
\* on a freelist or handed to a writer again, however long any thread is
\* delayed between two steps of pin, retire and try_advance.
THEOREM MemorySafety == Spec => []NoUseAfterFree
  BY Invariance, InvSafe, PTL

\* No block is ever freed or handed out twice and none is lost, budget and
\* carry list included.
THEOREM BlocksConserved == Spec => []OneOwner
<1>1. IInv => OneOwner
  BY DEF IInv
<1>2. QED
  BY <1>1, Invariance, PTL
==============================================================================
