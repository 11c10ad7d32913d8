------------------------------ MODULE Collector ------------------------------
(***************************************************************************)
(* Epoch-based reclamation of one tree: occ.rs, `Collector`, `Reader` and  *)
(* `Pin`.  Readers pin the current epoch around a walk; writers retire the *)
(* blocks they unlink into one of BINS epoch bins, striped by writer slot; *)
(* any writer may try to advance the epoch, and the one that succeeds      *)
(* disposes of the bin two epochs back: size-class blocks go to a freelist *)
(* for reuse, the others back to the system allocator within a byte budget *)
(* per call, what is over the budget waiting on a carry list.              *)
(*                                                                         *)
(* Every shared access that another thread can interleave with is a step   *)
(* of its own.  A store that the code orders with a SeqCst fence takes     *)
(* effect, for the other threads, at the latest moment the code allows:    *)
(* at that fence.  A mutex-protected section is one step.                  *)
(***************************************************************************)
EXTENDS Naturals, Integers, FiniteSets

CONSTANTS
  Readers,        \* `Reader` handles
  Writers,        \* threads that allocate, retire and advance
  Blocks,         \* addresses of heap blocks
  Classed,        \* the blocks a size class serves (`class_for` is Some)
  Bytes,          \* the size of each block
  NumStripes,     \* stripes in use (`stripe_bound()`)
  StripeOf,       \* `writer_slot() % NUM_EPOCH_STRIPES` of each writer
  Budget,         \* UNCLASSED_FREE_BUDGET
  InitialLive,    \* the blocks of the tree when the model starts
  NoBlock,        \* no block: the null pointer of a writer's local
  MaxEpoch        \* bound: no advance starts from this epoch

BINS == 3
Bins == 0 .. BINS - 1
Stripes == 0 .. NumStripes - 1
INACTIVE == -1    \* usize::MAX in the code: no epoch ever has this value

ASSUME CollectorAssumption ==
  /\ IsFiniteSet(Blocks) /\ Classed \subseteq Blocks
  /\ Bytes \in [Blocks -> Nat \ {0}]
  /\ NumStripes \in Nat \ {0}
  /\ StripeOf \in [Writers -> Stripes]
  /\ Budget \in Nat
  /\ InitialLive \subseteq Blocks
  /\ NoBlock \notin Blocks
  /\ MaxEpoch \in Nat

VARIABLES
  \* the collector
  epoch, advancing, alive, registry,
  bins,           \* bins[i][s]: the garbage list of stripe s of epoch bin i
  retained,       \* retained_bytes per stripe
  carry, carriedBytes,
  freelist,       \* per stripe; one size class
  \* the rest of memory
  sys,            \* blocks the system allocator holds
  live,           \* blocks a walk that starts now can reach
  \* each reader handle
  rpc, re, slot,
  held,           \* blocks reachable at some moment of the reader's pin
  \* each writer
  wpc, wblk, wep, wtodo, wstripe, wtaken, wfreed, wdone,
  wraw            \* unclassed blocks this try_advance has freed

readerVars == <<rpc, re, slot, held>>
memVars == <<bins, retained, carry, carriedBytes, freelist, sys, live>>
advVars == <<wtodo, wstripe, wtaken, wfreed, wdone, wraw>>
globalVars == <<epoch, advancing, alive, registry>>
vars == <<globalVars, memVars, readerVars, wpc, wblk, wep, advVars>>

Busy == {"private", "unlinked", "fenced", "loaded"}
Draining == {"drain", "plain", "budgeted", "subtract"}
Advancing == {"carry", "scan", "cas"} \cup Draining

\* Everything on the garbage bins, on the freelists, taken off a bin by an
\* advance, and allocated but not yet published.
AllQueued == UNION {bins[i][s] : i \in Bins, s \in Stripes}
AllFree == UNION {freelist[s] : s \in Stripes}
AllTaken == UNION {wtaken[w] : w \in Writers}
AllPrivate == {wblk[w] : w \in {v \in Writers : wpc[v] = "private"}}

\* The bytes of the blocks of S, and how many they are.
BytesOf(S) == UNION {{b} \X (1 .. Bytes[b]) : b \in S}
SumBytes(S) == Cardinality(BytesOf(S))

\* The garbage of stripe s, in whichever bin.
Queued(s) == UNION {bins[i][s] : i \in Bins}

Init ==
  /\ epoch = 0 /\ advancing = FALSE /\ alive = TRUE /\ registry = {}
  /\ bins = [i \in Bins |-> [s \in Stripes |-> {}]]
  /\ retained = [s \in Stripes |-> 0]
  /\ carry = {} /\ carriedBytes = 0
  /\ freelist = [s \in Stripes |-> {}]
  /\ live = InitialLive /\ sys = Blocks \ InitialLive
  /\ rpc = [r \in Readers |-> "out"] /\ re = [r \in Readers |-> 0]
  /\ slot = [r \in Readers |-> INACTIVE] /\ held = [r \in Readers |-> {}]
  /\ wpc = [w \in Writers |-> "idle"] /\ wblk = [w \in Writers |-> NoBlock]
  /\ wep = [w \in Writers |-> 0] /\ wtodo = [w \in Writers |-> {}]
  /\ wstripe = [w \in Writers |-> 0] /\ wtaken = [w \in Writers |-> {}]
  /\ wfreed = [w \in Writers |-> 0] /\ wdone = [w \in Writers |-> 0]
  /\ wraw = [w \in Writers |-> {}]

------------------------------------------------------------------------------
(* Readers. *)

\* The reader registry's mutex: the scan of an advance holds it throughout.
RegistryFree == \A w \in Writers : wpc[w] # "scan"

Register(r) ==
  /\ alive /\ rpc[r] = "out" /\ RegistryFree
  /\ rpc' = [rpc EXCEPT ![r] = "idle"]
  /\ slot' = [slot EXCEPT ![r] = INACTIVE]
  /\ registry' = registry \cup {r}
  /\ UNCHANGED <<epoch, advancing, alive, memVars, re, held, wpc, wblk, wep, advVars>>

\* Reader::drop.  A Pin borrows its Reader, so a pinned one is not dropped.
Deregister(r) ==
  /\ rpc[r] = "idle" /\ RegistryFree
  /\ rpc' = [rpc EXCEPT ![r] = "out"]
  /\ registry' = registry \ {r}
  /\ UNCHANGED <<epoch, advancing, alive, memVars, re, slot, held, wpc, wblk, wep, advVars>>

PinLoad(r) ==
  /\ alive /\ rpc[r] = "idle"
  /\ re' = [re EXCEPT ![r] = epoch]
  /\ rpc' = [rpc EXCEPT ![r] = "store"]
  /\ UNCHANGED <<globalVars, memVars, slot, held, wpc, wblk, wep, advVars>>

\* The relaxed store of the slot, visible to every thread at the fence.
PinStore(r) ==
  /\ rpc[r] = "store"
  /\ slot' = [slot EXCEPT ![r] = re[r]]
  /\ rpc' = [rpc EXCEPT ![r] = "reload"]
  /\ UNCHANGED <<globalVars, memVars, re, held, wpc, wblk, wep, advVars>>

\* The epoch moved since the load: store the new one.
PinRetry(r) ==
  /\ rpc[r] = "reload" /\ epoch # re[r]
  /\ re' = [re EXCEPT ![r] = epoch]
  /\ rpc' = [rpc EXCEPT ![r] = "store"]
  /\ UNCHANGED <<globalVars, memVars, slot, held, wpc, wblk, wep, advVars>>

\* Stable: from here the walk may dereference whatever is reachable now, and
\* whatever becomes reachable while the pin lasts (Publish).
PinDone(r) ==
  /\ rpc[r] = "reload" /\ epoch = re[r]
  /\ held' = [held EXCEPT ![r] = live]
  /\ rpc' = [rpc EXCEPT ![r] = "pinned"]
  /\ UNCHANGED <<globalVars, memVars, re, slot, wpc, wblk, wep, advVars>>

\* Mutant: the slot keeps its epoch.
UnpinKeepsSlot(r) ==
  /\ rpc[r] = "pinned"
  /\ held' = [held EXCEPT ![r] = {}]
  /\ re' = [re EXCEPT ![r] = 0]
  /\ rpc' = [rpc EXCEPT ![r] = "idle"]
  /\ UNCHANGED <<globalVars, memVars, slot, wpc, wblk, wep, advVars>>

\* Pin::drop.
Unpin(r) ==
  /\ rpc[r] = "pinned"
  /\ slot' = [slot EXCEPT ![r] = INACTIVE]
  /\ held' = [held EXCEPT ![r] = {}]
  /\ re' = [re EXCEPT ![r] = 0]
  /\ rpc' = [rpc EXCEPT ![r] = "idle"]
  /\ UNCHANGED <<globalVars, memVars, wpc, wblk, wep, advVars>>

------------------------------------------------------------------------------
(* Writers: allocation, publication and retirement of a block. *)

\* alloc_raw of a classed block: the writer's own stripe's freelist first.
AllocPop(w) ==
  /\ alive /\ wpc[w] = "idle"
  /\ \E b \in freelist[StripeOf[w]] :
       /\ freelist' = [freelist EXCEPT ![StripeOf[w]] = @ \ {b}]
       /\ wblk' = [wblk EXCEPT ![w] = b]
  /\ wpc' = [wpc EXCEPT ![w] = "private"]
  /\ UNCHANGED <<globalVars, bins, retained, carry, carriedBytes, sys, live, readerVars, wep, advVars>>

\* The freelist is empty, or no size class serves the block.
AllocSystem(w) ==
  /\ alive /\ wpc[w] = "idle"
  /\ \E b \in sys :
       /\ b \in Classed => freelist[StripeOf[w]] = {}
       /\ sys' = sys \ {b}
       /\ wblk' = [wblk EXCEPT ![w] = b]
  /\ wpc' = [wpc EXCEPT ![w] = "private"]
  /\ UNCHANGED <<globalVars, bins, retained, carry, carriedBytes, freelist, live, readerVars, wep, advVars>>

\* The store that links the block into the tree.
Publish(w) ==
  /\ wpc[w] = "private"
  /\ live' = live \cup {wblk[w]}
  /\ held' = [r \in Readers |->
                IF rpc[r] = "pinned" THEN held[r] \cup {wblk[w]} ELSE held[r]]
  /\ wblk' = [wblk EXCEPT ![w] = NoBlock]
  /\ wpc' = [wpc EXCEPT ![w] = "idle"]
  /\ UNCHANGED <<globalVars, bins, retained, carry, carriedBytes, freelist, sys, rpc, re, slot, wep, advVars>>

\* recycle_unpublished: an optimistic attempt aborted before publication.
RecycleUnpublished(w) ==
  /\ wpc[w] = "private"
  /\ IF wblk[w] \in Classed
       THEN /\ freelist' = [freelist EXCEPT ![StripeOf[w]] = @ \cup {wblk[w]}]
            /\ sys' = sys
       ELSE /\ sys' = sys \cup {wblk[w]}
            /\ freelist' = freelist
  /\ wblk' = [wblk EXCEPT ![w] = NoBlock]
  /\ wpc' = [wpc EXCEPT ![w] = "idle"]
  /\ UNCHANGED <<globalVars, bins, retained, carry, carriedBytes, live, readerVars, wep, advVars>>

\* The store that unlinks a block.  The writer owns the link (node lock), so
\* no other writer unlinks it too; the store may still be in its buffer.
Unlink(w) ==
  /\ alive /\ wpc[w] = "idle"
  /\ \E b \in live :
       /\ \A v \in Writers : wblk[v] # b
       /\ wblk' = [wblk EXCEPT ![w] = b]
  /\ wpc' = [wpc EXCEPT ![w] = "unlinked"]
  /\ UNCHANGED <<globalVars, memVars, readerVars, wep, advVars>>

\* retire: the SeqCst fence makes the unlink visible before the epoch load.
RetireFence(w) ==
  /\ wpc[w] = "unlinked"
  /\ live' = live \ {wblk[w]}
  /\ wpc' = [wpc EXCEPT ![w] = "fenced"]
  /\ UNCHANGED <<globalVars, bins, retained, carry, carriedBytes, freelist, sys, readerVars, wblk, wep, advVars>>

RetireLoad(w) ==
  /\ wpc[w] = "fenced"
  /\ wep' = [wep EXCEPT ![w] = epoch]
  /\ wpc' = [wpc EXCEPT ![w] = "loaded"]
  /\ UNCHANGED <<globalVars, memVars, readerVars, wblk, advVars>>

\* The bin's locked section: count, push, flag.  Any number of advances may
\* have happened since the epoch was loaded.
RetirePush(w) ==
  /\ wpc[w] = "loaded"
  /\ LET s == StripeOf[w] IN
       /\ retained' = [retained EXCEPT ![s] = @ + Bytes[wblk[w]]]
       /\ bins' = [bins EXCEPT ![wep[w] % BINS][s] = @ \cup {wblk[w]}]
  /\ wblk' = [wblk EXCEPT ![w] = NoBlock]
  /\ wep' = [wep EXCEPT ![w] = 0]
  /\ wpc' = [wpc EXCEPT ![w] = "idle"]
  /\ UNCHANGED <<globalVars, carry, carriedBytes, freelist, sys, live, readerVars, advVars>>

\* release_free_lists, called by shrink_to_fit: one stripe's list detached
\* under its lock.
ReleaseFreeList(s) ==
  /\ alive /\ freelist[s] # {}
  /\ sys' = sys \cup freelist[s]
  /\ freelist' = [freelist EXCEPT ![s] = {}]
  /\ UNCHANGED <<globalVars, bins, retained, carry, carriedBytes, live, readerVars, wpc, wblk, wep, advVars>>

------------------------------------------------------------------------------
(* try_advance. *)

\* The try-lock.  A caller that finds it taken returns at once: no step.
AdvLock(w) ==
  /\ alive /\ wpc[w] = "idle" /\ epoch < MaxEpoch
  /\ ~advancing
  /\ advancing' = TRUE
  /\ wpc' = [wpc EXCEPT ![w] = "carry"]
  /\ UNCHANGED <<epoch, alive, registry, memVars, readerVars, wblk, wep, advVars>>

\* The guard's drop: every return of try_advance releases the try-lock, and
\* the call's locals go out of scope.
Release(w) ==
  /\ advancing' = FALSE
  /\ wpc' = [wpc EXCEPT ![w] = "idle"]
  /\ wep' = [wep EXCEPT ![w] = 0]
  /\ wtodo' = [wtodo EXCEPT ![w] = {}]
  /\ wstripe' = [wstripe EXCEPT ![w] = 0]
  /\ wfreed' = [wfreed EXCEPT ![w] = 0]
  /\ wdone' = [wdone EXCEPT ![w] = 0]
  /\ wraw' = [wraw EXCEPT ![w] = {}]

\* Mutant: the budget is applied to each block alone.
FitsAlone(w, b) == wfreed[w] = 0 \/ Bytes[b] <= Budget

Fits(w, b) == wfreed[w] = 0 \/ wfreed[w] + Bytes[b] <= Budget

\* free_carried: one block off the carry list.
AdvFreeCarried(w) ==
  /\ wpc[w] = "carry"
  /\ \E b \in carry :
       /\ Fits(w, b)
       /\ carry' = carry \ {b}
       /\ sys' = sys \cup {b}
       /\ wfreed' = [wfreed EXCEPT ![w] = @ + Bytes[b]]
       /\ wraw' = [wraw EXCEPT ![w] = @ \cup {b}]
  /\ UNCHANGED <<globalVars, bins, retained, carriedBytes, freelist, live, readerVars, wpc, wblk, wep, wtodo, wstripe, wtaken, wdone>>

\* The carry list is empty or its next block is over the budget: settle the
\* count, load the epoch and lock the registry.
AdvBeginScan(w) ==
  /\ wpc[w] = "carry"
  /\ carry = {} \/ \E b \in carry : ~Fits(w, b)
  /\ carriedBytes' = carriedBytes - wfreed[w]
  /\ wep' = [wep EXCEPT ![w] = epoch]
  /\ wtodo' = [wtodo EXCEPT ![w] = registry]
  /\ wpc' = [wpc EXCEPT ![w] = "scan"]
  /\ UNCHANGED <<globalVars, bins, retained, carry, freelist, sys, live, readerVars, wblk, wstripe, wtaken, wfreed, wdone, wraw>>

Caught(w, r) == slot[r] = INACTIVE \/ slot[r] = wep[w]

\* One slot of the scan, in a state that does not hold the epoch back.
AdvScan(w) ==
  /\ wpc[w] = "scan"
  /\ \E r \in wtodo[w] :
       /\ Caught(w, r)
       /\ wtodo' = [wtodo EXCEPT ![w] = @ \ {r}]
  /\ UNCHANGED <<globalVars, memVars, readerVars, wpc, wblk, wep, wstripe, wtaken, wfreed, wdone, wraw>>

\* "a reader still runs in an older epoch": give up.
AdvBlocked(w) ==
  /\ wpc[w] = "scan"
  /\ \E r \in wtodo[w] : ~Caught(w, r)
  /\ Release(w)
  /\ UNCHANGED <<epoch, alive, registry, memVars, readerVars, wblk, wtaken>>

\* Every slot was read: unlock the registry.
AdvScanned(w) ==
  /\ wpc[w] = "scan" /\ wtodo[w] = {}
  /\ wpc' = [wpc EXCEPT ![w] = "cas"]
  /\ UNCHANGED <<globalVars, memVars, readerVars, wblk, wep, advVars>>

\* Mutant: the try-lock is released with the epoch, before the drain.
AdvCasUnlocks(w) ==
  /\ wpc[w] = "cas" /\ epoch = wep[w]
  /\ epoch' = epoch + 1
  /\ advancing' = FALSE
  /\ wstripe' = [wstripe EXCEPT ![w] = 0]
  /\ wpc' = [wpc EXCEPT ![w] = "drain"]
  /\ UNCHANGED <<alive, registry, memVars, readerVars, wblk, wep, wtodo, wtaken, wfreed, wdone, wraw>>

\* The compare-exchange of the epoch, which succeeds when it still reads wep.
AdvCas(w) ==
  /\ wpc[w] = "cas" /\ epoch = wep[w]
  /\ epoch' = epoch + 1
  /\ wstripe' = [wstripe EXCEPT ![w] = 0]
  /\ wpc' = [wpc EXCEPT ![w] = "drain"]
  /\ UNCHANGED <<advancing, alive, registry, memVars, readerVars, wblk, wep, wtodo, wtaken, wfreed, wdone, wraw>>

\* Mutant: the bin of the epoch the advance leaves.
StaleBinYoung(w) == wep[w] % BINS

\* The bin of the epoch before the one the advance leaves.
StaleBin(w) == (wep[w] + BINS - 1) % BINS

\* A stripe whose bin is empty (`nonempty` reads clear) is skipped.
AdvSkip(w) ==
  /\ wpc[w] = "drain" /\ wstripe[w] < NumStripes
  /\ bins[StaleBin(w)][wstripe[w]] = {}
  /\ wstripe' = [wstripe EXCEPT ![w] = @ + 1]
  /\ UNCHANGED <<globalVars, memVars, readerVars, wpc, wblk, wep, wtodo, wtaken, wfreed, wdone, wraw>>

\* Mutant: the list is copied out of the bin instead of taken.
AdvTakeCopies(w) ==
  /\ wpc[w] = "drain" /\ wstripe[w] < NumStripes
  /\ bins[StaleBin(w)][wstripe[w]] # {}
  /\ wtaken' = [wtaken EXCEPT ![w] = bins[StaleBin(w)][wstripe[w]]]
  /\ wdone' = [wdone EXCEPT ![w] = 0]
  /\ wpc' = [wpc EXCEPT ![w] =
               IF wfreed[w] + retained[wstripe[w]] > Budget THEN "budgeted" ELSE "plain"]
  /\ UNCHANGED <<globalVars, memVars, readerVars, wblk, wep, wtodo, wstripe, wfreed, wraw>>

\* PaddedBin::take.
AdvTake(w) ==
  /\ wpc[w] = "drain" /\ wstripe[w] < NumStripes
  /\ bins[StaleBin(w)][wstripe[w]] # {}
  /\ wtaken' = [wtaken EXCEPT ![w] = bins[StaleBin(w)][wstripe[w]]]
  /\ bins' = [bins EXCEPT ![StaleBin(w)][wstripe[w]] = {}]
  /\ wdone' = [wdone EXCEPT ![w] = 0]
  /\ wpc' = [wpc EXCEPT ![w] =
               IF wfreed[w] + retained[wstripe[w]] > Budget THEN "budgeted" ELSE "plain"]
  /\ UNCHANGED <<globalVars, retained, carry, carriedBytes, freelist, sys, live, readerVars, wblk, wep, wtodo, wstripe, wfreed, wraw>>

\* A classed block of the taken bin goes to the stripe's freelist.
AdvReclaim(w) ==
  /\ wpc[w] \in {"plain", "budgeted"}
  /\ \E b \in wtaken[w] \cap Classed :
       /\ wtaken' = [wtaken EXCEPT ![w] = @ \ {b}]
       /\ freelist' = [freelist EXCEPT ![wstripe[w]] = @ \cup {b}]
       /\ wdone' = [wdone EXCEPT ![w] = @ + Bytes[b]]
  /\ UNCHANGED <<globalVars, bins, retained, carry, carriedBytes, sys, live, readerVars, wpc, wblk, wep, wtodo, wstripe, wfreed, wraw>>

\* An unclassed block is freed: always by the plain loop, within the budget
\* by the budgeted one.
AdvFreeRaw(w) ==
  /\ wpc[w] \in {"plain", "budgeted"}
  /\ \E b \in wtaken[w] \ Classed :
       /\ wpc[w] = "budgeted" => Fits(w, b)
       /\ wtaken' = [wtaken EXCEPT ![w] = @ \ {b}]
       /\ sys' = sys \cup {b}
       /\ wdone' = [wdone EXCEPT ![w] = @ + Bytes[b]]
       /\ wfreed' = [wfreed EXCEPT ![w] = IF wpc[w] = "budgeted" THEN @ + Bytes[b] ELSE @]
       /\ wraw' = [wraw EXCEPT ![w] = @ \cup {b}]
  /\ UNCHANGED <<globalVars, bins, retained, carry, carriedBytes, freelist, live, readerVars, wpc, wblk, wep, wtodo, wstripe>>

\* Mutant: what is carried stays in the stripe's count too.
AdvCarryTailCountsTwice(w) ==
  /\ wpc[w] = "budgeted"
  /\ \E b \in wtaken[w] \ Classed : ~Fits(w, b)
  /\ LET rest == wtaken[w] \ Classed IN
       /\ carry' = carry \cup rest
       /\ carriedBytes' = carriedBytes + SumBytes(rest)
  /\ freelist' = [freelist EXCEPT ![wstripe[w]] = @ \cup (wtaken[w] \cap Classed)]
  /\ wdone' = [wdone EXCEPT ![w] = @ + SumBytes(wtaken[w] \cap Classed)]
  /\ wtaken' = [wtaken EXCEPT ![w] = {}]
  /\ wpc' = [wpc EXCEPT ![w] = "subtract"]
  /\ UNCHANGED <<globalVars, bins, retained, sys, live, readerVars, wblk, wep, wtodo, wstripe, wfreed, wraw>>

\* Mutant: the classed rest of a list over the budget is dropped.
AdvCarryTailLeaks(w) ==
  /\ wpc[w] = "budgeted"
  /\ \E b \in wtaken[w] \ Classed : ~Fits(w, b)
  /\ LET rest == wtaken[w] \ Classed IN
       /\ carry' = carry \cup rest
       /\ carriedBytes' = carriedBytes + SumBytes(rest)
  /\ wdone' = [wdone EXCEPT ![w] = @ + SumBytes(wtaken[w])]
  /\ wtaken' = [wtaken EXCEPT ![w] = {}]
  /\ wpc' = [wpc EXCEPT ![w] = "subtract"]
  /\ UNCHANGED <<globalVars, bins, retained, freelist, sys, live, readerVars, wblk, wep, wtodo, wstripe, wfreed, wraw>>

\* carry_tail: the first unclassed block over the budget ends the loop; the
\* classed rest is reclaimed, the unclassed rest carried and counted there
\* before the stripe's share is subtracted.
AdvCarryTail(w) ==
  /\ wpc[w] = "budgeted"
  /\ \E b \in wtaken[w] \ Classed : ~Fits(w, b)
  /\ LET rest == wtaken[w] \ Classed IN
       /\ carry' = carry \cup rest
       /\ carriedBytes' = carriedBytes + SumBytes(rest)
  /\ freelist' = [freelist EXCEPT ![wstripe[w]] = @ \cup (wtaken[w] \cap Classed)]
  /\ wdone' = [wdone EXCEPT ![w] = @ + SumBytes(wtaken[w])]
  /\ wtaken' = [wtaken EXCEPT ![w] = {}]
  /\ wpc' = [wpc EXCEPT ![w] = "subtract"]
  /\ UNCHANGED <<globalVars, bins, retained, sys, live, readerVars, wblk, wep, wtodo, wstripe, wfreed, wraw>>

\* Mutant: the stripe's count is stored as zero, not reduced by what was taken.
AdvSubtractResets(w) ==
  /\ \/ wpc[w] = "subtract"
     \/ wpc[w] \in {"plain", "budgeted"} /\ wtaken[w] = {}
  /\ retained' = [retained EXCEPT ![wstripe[w]] = 0]
  /\ wfreed' = [wfreed EXCEPT ![w] = IF wpc[w] = "plain" THEN @ + wdone[w] ELSE @]
  /\ wstripe' = [wstripe EXCEPT ![w] = @ + 1]
  /\ wpc' = [wpc EXCEPT ![w] = "drain"]
  /\ UNCHANGED <<globalVars, bins, carry, carriedBytes, freelist, sys, live, readerVars, wblk, wep, wtodo, wtaken, wdone, wraw>>

\* Mutant: the stripe loop steps twice after a stripe it drained.
AdvSubtractSkips(w) ==
  /\ \/ wpc[w] = "subtract"
     \/ wpc[w] \in {"plain", "budgeted"} /\ wtaken[w] = {}
  /\ retained' = [retained EXCEPT ![wstripe[w]] = @ - wdone[w]]
  /\ wfreed' = [wfreed EXCEPT ![w] = IF wpc[w] = "plain" THEN @ + wdone[w] ELSE @]
  /\ wstripe' = [wstripe EXCEPT ![w] = @ + 2]
  /\ wpc' = [wpc EXCEPT ![w] = "drain"]
  /\ UNCHANGED <<globalVars, bins, carry, carriedBytes, freelist, sys, live, readerVars, wblk, wep, wtodo, wtaken, wdone, wraw>>

\* The stripe is done: what was taken leaves its count.
AdvSubtract(w) ==
  /\ \/ wpc[w] = "subtract"
     \/ wpc[w] \in {"plain", "budgeted"} /\ wtaken[w] = {}
  /\ retained' = [retained EXCEPT ![wstripe[w]] = @ - wdone[w]]
  /\ wfreed' = [wfreed EXCEPT ![w] = IF wpc[w] = "plain" THEN @ + wdone[w] ELSE @]
  /\ wstripe' = [wstripe EXCEPT ![w] = @ + 1]
  /\ wpc' = [wpc EXCEPT ![w] = "drain"]
  /\ UNCHANGED <<globalVars, bins, carry, carriedBytes, freelist, sys, live, readerVars, wblk, wep, wtodo, wtaken, wdone, wraw>>

AdvReturn(w) ==
  /\ wpc[w] = "drain" /\ wstripe[w] = NumStripes
  /\ Release(w)
  /\ UNCHANGED <<epoch, alive, registry, memVars, readerVars, wblk, wtaken>>

------------------------------------------------------------------------------
\* Mutant: the carry list is not drained.
DropKeepsCarry ==
  /\ alive
  /\ \A r \in Readers : rpc[r] \in {"out", "idle"}
  /\ \A w \in Writers : wpc[w] = "idle"
  /\ alive' = FALSE
  /\ sys' = sys \cup live \cup AllFree \cup AllQueued
  /\ live' = {}
  /\ freelist' = [s \in Stripes |-> {}]
  /\ bins' = [i \in Bins |-> [s \in Stripes |-> {}]]
  /\ retained' = [s \in Stripes |->
                    retained[s] - SumBytes(Queued(s))]
  /\ UNCHANGED <<epoch, advancing, registry, carry, carriedBytes, readerVars, wpc, wblk, wep, advVars>>

\* Shared::drop: the owner has the tree to itself.  The tree's nodes are
\* retired, then drain frees every bin, the carry list and the freelists.
Drop ==
  /\ alive
  /\ \A r \in Readers : rpc[r] \in {"out", "idle"}
  /\ \A w \in Writers : wpc[w] = "idle"
  /\ alive' = FALSE
  /\ sys' = sys \cup live \cup carry \cup AllFree \cup AllQueued
  /\ live' = {} /\ carry' = {} /\ carriedBytes' = carriedBytes - SumBytes(carry)
  /\ freelist' = [s \in Stripes |-> {}]
  /\ bins' = [i \in Bins |-> [s \in Stripes |-> {}]]
  /\ retained' = [s \in Stripes |->
                    retained[s] - SumBytes(Queued(s))]
  /\ UNCHANGED <<epoch, advancing, registry, readerVars, wpc, wblk, wep, advVars>>

\* After the drop, and once every cached handle is gone, nothing runs.
Terminated == ~alive /\ registry = {} /\ UNCHANGED vars

Pin(r) == PinLoad(r) \/ PinStore(r) \/ PinRetry(r) \/ PinDone(r)
ReaderNext(r) == Register(r) \/ Deregister(r) \/ Pin(r) \/ Unpin(r)
Retire(w) == RetireFence(w) \/ RetireLoad(w) \/ RetirePush(w)
Mutate(w) ==
  AllocPop(w) \/ AllocSystem(w) \/ Publish(w) \/ RecycleUnpublished(w) \/ Unlink(w) \/ Retire(w)
Drain(w) ==
  \/ AdvSkip(w) \/ AdvTake(w) \/ AdvReclaim(w) \/ AdvFreeRaw(w)
  \/ AdvCarryTail(w) \/ AdvSubtract(w) \/ AdvReturn(w)
TryAdvance(w) ==
  \/ AdvLock(w) \/ AdvFreeCarried(w) \/ AdvBeginScan(w) \/ AdvScan(w)
  \/ AdvBlocked(w) \/ AdvScanned(w) \/ AdvCas(w) \/ Drain(w)

Next ==
  \/ \E r \in Readers : ReaderNext(r)
  \/ \E w \in Writers : Mutate(w) \/ TryAdvance(w)
  \/ \E s \in Stripes : ReleaseFreeList(s)
  \/ Drop
  \/ Terminated

Spec == Init /\ [][Next]_vars
------------------------------------------------------------------------------
(* Properties. *)

\* The byte counters are AccountingExact's subject.
TypeOK ==
  /\ epoch \in Nat /\ advancing \in BOOLEAN /\ alive \in BOOLEAN
  /\ registry \subseteq Readers
  /\ bins \in [Bins -> [Stripes -> SUBSET Blocks]]
  /\ carry \subseteq Blocks
  /\ freelist \in [Stripes -> SUBSET Blocks]
  /\ sys \subseteq Blocks /\ live \subseteq Blocks
  /\ rpc \in [Readers -> {"out", "idle", "store", "reload", "pinned"}]
  /\ re \in [Readers -> Nat]
  /\ slot \in [Readers -> Nat \cup {INACTIVE}]
  /\ held \in [Readers -> SUBSET Blocks]
  /\ wpc \in [Writers -> {"idle"} \cup Busy \cup Advancing]
  /\ wblk \in [Writers -> Blocks \cup {NoBlock}]
  /\ wep \in [Writers -> Nat]
  /\ wtodo \in [Writers -> SUBSET Readers]
  /\ wstripe \in [Writers -> 0 .. NumStripes]
  /\ wtaken \in [Writers -> SUBSET Blocks]
  /\ wraw \in [Writers -> SUBSET Blocks]

\* The blocks whose grace period the collector considers over, or that have
\* been handed out again: taken from a bin, carried, on a freelist, with the
\* system allocator, or the private block of a writer.
Disposed == sys \cup carry \cup AllFree \cup AllTaken \cup AllPrivate

\* What the collector exists for: no block a pinned reader may dereference is
\* disposed of, whatever the delays of readers, retirers and advancers.
NoUseAfterFree ==
  \A r \in Readers : rpc[r] = "pinned" => held[r] \cap Disposed = {}

\* No block is in two places: two lists, a list and the tree, a list and a
\* writer's hand, two hands.  An unlinked block not yet fenced is in the tree.
NotTwice ==
  /\ live \cap sys = {} /\ live \cap carry = {} /\ sys \cap carry = {}
  /\ \A s \in Stripes : freelist[s] \cap (live \cup sys \cup carry) = {}
  /\ \A s, t \in Stripes : s # t => freelist[s] \cap freelist[t] = {}
  /\ \A i \in Bins, s \in Stripes : bins[i][s] \cap (live \cup sys \cup carry) = {}
  /\ \A i \in Bins, s, t \in Stripes : bins[i][s] \cap freelist[t] = {}
  /\ \A i, j \in Bins, s, t \in Stripes : i # j \/ s # t => bins[i][s] \cap bins[j][t] = {}
  /\ \A w \in Writers :
       /\ wtaken[w] \cap (live \cup sys \cup carry) = {}
       /\ \A t \in Stripes : wtaken[w] \cap freelist[t] = {}
       /\ \A i \in Bins, s \in Stripes : wtaken[w] \cap bins[i][s] = {}
       /\ \A v \in Writers : v # w => wtaken[w] \cap wtaken[v] = {}
  /\ \A w \in Writers :
       /\ wpc[w] \in Busy => (wblk[w] \in live <=> wpc[w] = "unlinked")
       /\ wblk[w] \notin sys /\ wblk[w] \notin carry
       /\ \A t \in Stripes : wblk[w] \notin freelist[t]
       /\ \A i \in Bins, s \in Stripes : wblk[w] \notin bins[i][s]
       /\ \A v \in Writers : wblk[w] \notin wtaken[v]
       /\ \A v \in Writers : v # w /\ wblk[v] \in Blocks => wblk[v] # wblk[w]

\* No block is lost.
NotLost ==
  \A b \in Blocks :
    \/ b \in sys \/ b \in live \/ b \in carry
    \/ \E s \in Stripes : b \in freelist[s]
    \/ \E i \in Bins, s \in Stripes : b \in bins[i][s]
    \/ \E w \in Writers : b \in wtaken[w] \/ wblk[w] = b

\* No block is freed or handed out twice, and none leaks: at every moment
\* exactly one list, allocator or writer has it.
OneOwner == NotTwice /\ NotLost

\* Writer w has taken a list of stripe s and not yet settled its count.
Settling(w, s) == wpc[w] \in {"plain", "budgeted", "subtract"} /\ wstripe[w] = s

\* The byte counters are exact up to what the advancer has yet to settle, so
\* the unsigned fetch_sub never wraps and retained_bytes() returns to zero.
StripesExact ==
  \A s \in Stripes :
    \/ /\ \A w \in Writers : ~Settling(w, s)
       /\ retained[s] = SumBytes(Queued(s))
    \/ \E w \in Writers :
         /\ Settling(w, s)
         /\ retained[s] = SumBytes(Queued(s)) + SumBytes(wtaken[w]) + wdone[w]
CarryExact ==
  \/ /\ \A w \in Writers : wpc[w] # "carry"
     /\ carriedBytes = SumBytes(carry)
  \/ \E w \in Writers :
       wpc[w] = "carry" /\ carriedBytes = SumBytes(carry) + wfreed[w]
AccountingExact == StripesExact /\ CarryExact

\* One try_advance frees at most Budget bytes of unclassed blocks, past the
\* first block it frees.
BudgetRespected ==
  \A w \in Writers : SumBytes(wraw[w]) <= Budget \/ Cardinality(wraw[w]) = 1

\* Once the tree is dropped every block is back with the system and nothing
\* is counted as retained.
NothingOutlives ==
  ~alive => /\ sys = Blocks
            /\ carriedBytes = 0
            /\ \A s \in Stripes : retained[s] = 0

\* Readers finish their walks, and some writer keeps calling try_advance and
\* runs it to its end once it has the try-lock.
Fairness ==
  /\ \A r \in Readers : WF_vars(PinStore(r) \/ PinRetry(r) \/ PinDone(r)) /\ WF_vars(Unpin(r))
  /\ \A w \in Writers : WF_vars(Retire(w)) /\ WF_vars(TryAdvance(w) /\ wpc[w] # "idle")
  /\ SF_vars(\E w \in Writers : AdvLock(w))

FairSpec == Spec /\ Fairness

\* A queued block leaves its bin within three advances (the model's epochs
\* end at MaxEpoch) whatever new readers pin meanwhile, unless the tree is
\* dropped.
Reclaimed ==
  \A b \in Blocks :
    (b \in AllQueued /\ epoch + BINS <= MaxEpoch) ~> b \notin AllQueued
==============================================================================
