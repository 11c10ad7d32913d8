------------------------------ MODULE SharedTree -----------------------------
(* The shared tree of sync.rs (Shared<T>): the mutations, the serialised      *)
(* sections and the population read, composed with the writer gate.  The trie *)
(* is abstracted to its key set, its root state (leaf or tree) and the        *)
(* population each top-level child stores; an optimistic mutation is one      *)
(* store under its node's lock.                                               *)
EXTENDS Integers, FiniteSets, FiniteSetsExt

CONSTANTS Threads, NumSlots, Token, NoThread, NoSlot,    \* as in WriterGate
          Keys, Digits,
          DigitOf,       \* digit(key, 8)
          NoKey,         \* the key of an operation that takes none
          LeafCap,       \* ROOT_LEAF_CAP
          MaxRetries,    \* MAX_RETRIES
          InitialKeys,   \* the map the wrapper is built from
          Ops,           \* the operations the threads call
          MayPanic,      \* those whose caller closure may panic
          MaxCalls       \* bound: calls in a behaviour

Keyed == {"insert", "remove", "exclusive"}
Unkeyed == {"clear", "locked", "len", "get"}

ASSUME TreeAssumption ==
  /\ LeafCap \in Nat \ {0} /\ MaxRetries \in Nat \ {0} /\ MaxCalls \in Nat
  /\ IsFiniteSet(Keys) /\ IsFiniteSet(Digits) /\ NoKey \notin Keys
  /\ InitialKeys \subseteq Keys /\ DigitOf \in [Keys -> Digits]
  /\ Ops \subseteq Keyed \cup Unkeyed /\ MayPanic \subseteq {"locked", "exclusive"}

ASSUME GateAssumption ==
  /\ NumSlots \in Nat \ {0} /\ Token \in [Threads -> 0 .. NumSlots - 1]
  /\ IsFiniteSet(Threads) /\ NoThread \notin Threads /\ NoSlot \notin 0 .. NumSlots - 1

VARIABLES closed, inflight, allocated, slot, gpc, todo, fallback, write, poisoned

G == INSTANCE WriterGate

VARIABLES
  keys, root, treePop, subPop,  \* the engine: contents, Root, tree_pop, the children's pop0
  pub, word,                    \* TreeHead: PublishedRoot and the tree version
  base, shard,                  \* ShardedTreePop
  dirty,                        \* DirtyDigits
  pc, after,                    \* each thread's position, and the one after a flush
  op, loc,                      \* its operation and local variables
  pend,                         \* the part of its change the counter does not hold yet
  overlap,                      \* history: what has overlapped its len()
  calls

gate == <<closed, inflight, allocated, slot, gpc, todo, fallback, write, poisoned>>
engine == <<keys, root, treePop, subPop>>
head == <<pub, word>>
counter == <<base, shard>>
vars == <<gate, engine, head, counter, dirty, pc, after, op, loc, pend, overlap, calls>>

Slots == G!Slots
Idle == [name |-> "none", key |-> NoKey]
Calls == [name : Ops \cap Keyed, key : Keys] \cup [name : Ops \cap Unkeyed, key : {NoKey}]

(* The locals: attempts made, a population, a flush's goal and the shards left,
   the tree word and the root sampled. *)
Fresh == [tries |-> 0, pop |-> 0, goal |-> 0, rest |-> {}, snap |-> 0,
          view |-> [kind |-> "none", pop |-> 0]]

------------------------------------------------------------------------------
(* The engine, from what the wrapper uses of it. *)

Count(d, S) == Cardinality({k \in S : DigitOf[k] = d})
Counts(S) == [d \in Digits |-> Count(d, S)]

(* The sum of f over S, positive and negative parts apart. *)
Units(f, S) == UNION {{x} \X (1 .. f[x]) : x \in S}
Total(f, S) == Cardinality(Units(f, S)) - Cardinality(Units([x \in S |-> -f[x]], S))

(* tree_pop() of the engine: the root leaf's own count, or the tree's field. *)
EnginePop == IF root = "tree" THEN treePop ELSE Cardinality(keys)

(* publish_snapshot: the leaf's population, or the tree's top edge. *)
Snapshot == [kind |-> root, pop |-> IF root = "leaf" THEN Cardinality(keys) ELSE 0]

(* The root leaf takes LeafCap keys and is promoted by the next one; the tree
   counts in tree_pop and along the path. *)
EngineInsert(k) ==
  \/ k \in keys /\ UNCHANGED engine
  \/ /\ k \notin keys /\ keys' = keys \cup {k}
     /\ \/ /\ root = "leaf" /\ Cardinality(keys) < LeafCap
           /\ UNCHANGED <<root, treePop, subPop>>
        \/ /\ root = "leaf" /\ Cardinality(keys) >= LeafCap
           /\ root' = "tree" /\ treePop' = Cardinality(keys) + 1 /\ subPop' = Counts(keys')
        \/ /\ root = "tree" /\ UNCHANGED root
           /\ treePop' = treePop + 1
           /\ subPop' = [subPop EXCEPT ![DigitOf[k]] = @ + 1]

NoChildren == Counts({})

(* A removal condenses the tree to a root leaf when tree_pop, less one, is
   under LeafCap; a child's stored population saturates at one key. *)
EngineRemove(k) ==
  \/ k \notin keys /\ UNCHANGED engine
  \/ /\ k \in keys /\ keys' = keys \ {k}
     /\ \/ root = "leaf" /\ UNCHANGED <<root, treePop, subPop>>
        \/ /\ root = "tree"
           /\ treePop' = treePop - 1
           /\ \/ /\ treePop' < LeafCap
                 /\ root' = "leaf" /\ subPop' = NoChildren
              \/ /\ treePop' >= LeafCap /\ UNCHANGED root
                 /\ subPop' = [subPop EXCEPT ![DigitOf[k]] =
                                 IF Count(DigitOf[k], keys') = 0 THEN 0 ELSE Max({@ - 1, 1})]

EngineClear == keys' = {} /\ root' = "leaf" /\ subPop' = NoChildren /\ UNCHANGED treePop

(* ShardedTreePop::load over the shards of S, clamped at zero. *)
LoadPop(S) == Max({base + Total(shard, S), 0})

------------------------------------------------------------------------------
Init ==
  /\ G!Init
  /\ keys = InitialKeys
  /\ root = IF Cardinality(InitialKeys) > LeafCap THEN "tree" ELSE "leaf"
  /\ subPop = IF root = "tree" THEN Counts(InitialKeys) ELSE NoChildren
  /\ treePop = Cardinality(InitialKeys)
  /\ pub = Snapshot /\ word = 0
  /\ base = Cardinality(InitialKeys) /\ shard = [s \in Slots |-> 0]
  /\ dirty = {}
  /\ pc = [t \in Threads |-> "rest"]
  /\ after = [t \in Threads |-> "rest"]
  /\ op = [t \in Threads |-> Idle]
  /\ loc = [t \in Threads |-> Fresh]
  /\ pend = [t \in Threads |-> 0]
  /\ overlap = [t \in Threads |-> {}]
  /\ calls = 0

At(t, from, to) == pc[t] = from /\ pc' = [pc EXCEPT ![t] = to]
(* Go to a flush of the counter to pop, then to the position next. *)
FlushTo(t, from, pop, next) ==
  /\ At(t, from, "flush")
  /\ after' = [after EXCEPT ![t] = next]
  /\ loc' = [loc EXCEPT ![t].goal = pop]

InOp(t, names) == op[t].name \in names

Writes == {"insert", "remove"}
Reads == {"len", "get"}

(* A mutation starts at the gate when the published root is a tree; everything
   else but a read goes to the serialised section at once. *)
Call(t) ==
  /\ calls < MaxCalls /\ calls' = calls + 1
  /\ \E o \in Calls :
       /\ op' = [op EXCEPT ![t] = o]
       /\ \/ /\ o.name \in Writes /\ pub.kind = "tree"
             /\ At(t, "rest", "gate") /\ G!StartWriter(t)
          \/ /\ o.name \in Writes => pub.kind # "tree"
             /\ o.name \notin Reads
             /\ At(t, "rest", "gate") /\ G!StartSerial(t)
          \/ /\ o.name \in Reads
             /\ At(t, "rest", "sample") /\ UNCHANGED gate
  /\ UNCHANGED <<engine, head, counter, dirty, after, loc, pend>>

(* The operation returns, or its panic leaves it. *)
Finish(t, from) ==
  /\ At(t, from, "rest")
  /\ after' = [after EXCEPT ![t] = "rest"]
  /\ op' = [op EXCEPT ![t] = Idle]
  /\ loc' = [loc EXCEPT ![t] = Fresh]

(* Between calls the thread's slot cache may drop its slot of this tree. *)
Evict(t) ==
  /\ pc[t] = "rest" /\ G!ForgetSlot(t)
  /\ UNCHANGED <<engine, head, counter, dirty, pc, op, after, loc, pend, calls>>

(* The gate's own steps. *)
AtGate(t) ==
  /\ \/ /\ pc[t] = "gate" /\ UNCHANGED <<pc, op, after, loc>>
        /\ \/ G!AllocateSlot(t) \/ G!CheckGate(t) \/ G!Announce(t) \/ G!BackOut(t)
           \/ G!LockFallback(t) \/ G!CloseGate(t) \/ G!LoadMask(t) \/ G!Drain(t)
     \/ At(t, "gate", "try") /\ G!Admit(t) /\ UNCHANGED <<op, after, loc>>
     \/ At(t, "gate", "body") /\ G!LockWrite(t) /\ UNCHANGED <<op, after, loc>>
     \/ Finish(t, "gate") /\ G!MeetPoison(t)
     \/ /\ pc[t] = "leave" /\ UNCHANGED <<pc, op, after, loc>>
        /\ G!UnlockWrite(t) \/ G!OpenGate(t) \/ G!UnwindOpen(t)
     \/ Finish(t, "leave") /\ (G!UnlockFallback(t) \/ G!UnwindRelease(t))
  /\ UNCHANGED <<engine, head, counter, dirty, pend, calls>>

------------------------------------------------------------------------------
(* The optimistic mutation, between admission and the guard's drop. *)

(* The loop head: the gate has closed, or the retries are used up. *)
TryFallback(t) ==
  /\ closed \/ loc[t].tries = MaxRetries
  /\ At(t, "try", "gate") /\ G!ExitFallback(t)
  /\ UNCHANGED <<engine, head, counter, dirty, op, after, loc, pend, calls>>

(* Mutant: the attempts are not bounded. *)
TryDescendUnbounded(t) ==
  /\ ~closed
  /\ At(t, "try", "olc")
  /\ loc' = [loc EXCEPT ![t].tries = @ + 1]
  /\ UNCHANGED <<gate, engine, head, counter, dirty, op, after, pend, calls>>

(* Another attempt. *)
TryDescend(t) ==
  /\ ~closed /\ loc[t].tries < MaxRetries
  /\ At(t, "try", "olc")
  /\ loc' = [loc EXCEPT ![t].tries = @ + 1]
  /\ UNCHANGED <<gate, engine, head, counter, dirty, op, after, pend, calls>>

(* The descent samples the tree word first, and waits until it is even. *)
Descend(t, to) == word % 2 = 0 /\ At(t, "olc", to)

(* A version moved under the descent. *)
OlcRetry(t) ==
  /\ Descend(t, "try")
  /\ UNCHANGED <<gate, engine, head, counter, dirty, op, after, loc, pend, calls>>

(* Mutant: the serialised section is entered with the guard held. *)
OlcFallbackHolding(t) ==
  /\ Descend(t, "gate") /\ gpc' = [gpc EXCEPT ![t] = "serial"]
  /\ UNCHANGED <<closed, inflight, allocated, slot, todo, fallback, write, poisoned>>
  /\ UNCHANGED <<engine, head, counter, dirty, op, after, loc, pend, calls>>

(* The descent met a shape it does not change, or a root that is no tree. *)
OlcFallback(t) ==
  /\ Descend(t, "gate") /\ G!ExitFallback(t)
  /\ UNCHANGED <<engine, head, counter, dirty, op, after, loc, pend, calls>>

(* The key is where the operation wants it. *)
OlcNothing(t) ==
  /\ pub.kind = "tree"
  /\ InOp(t, {"insert"}) <=> op[t].key \in keys
  /\ Descend(t, "out")
  /\ UNCHANGED <<gate, engine, head, counter, dirty, op, after, loc, pend, calls>>

Wanted(t) == IF InOp(t, {"insert"}) THEN keys \cup {op[t].key} ELSE keys \ {op[t].key}

(* One key stored under its node's lock.  A child that had no key, or keeps
   none, is exact; any other child's population is left behind. *)
OlcStore(t) ==
  /\ pub.kind = "tree" /\ Wanted(t) # keys
  /\ keys' = Wanted(t)
  /\ LET d == DigitOf[op[t].key] IN
       subPop' = [subPop EXCEPT ![d] = IF Count(d, keys) = 0 \/ Count(d, keys') = 0
                                       THEN Count(d, keys') ELSE @]
  /\ pend' = [pend EXCEPT ![t] = Cardinality(keys') - Cardinality(keys)]
  /\ UNCHANGED <<root, treePop>>

(* The store, and the node's unlock. *)
OlcApply(t) ==
  /\ OlcStore(t)
  /\ Descend(t, "mark")
  /\ UNCHANGED <<gate, head, counter, dirty, op, after, loc, calls>>

(* Mutant: a removal does not mark its digit. *)
OlcMarkSkips(t) ==
  /\ At(t, "mark", "add")
  /\ dirty' = IF InOp(t, {"remove"}) THEN dirty ELSE dirty \cup {DigitOf[op[t].key]}
  /\ UNCHANGED <<gate, engine, head, counter, op, after, loc, pend, calls>>

(* The digit is marked for the next fold, after the unlock. *)
OlcMark(t) ==
  /\ At(t, "mark", "add")
  /\ dirty' = dirty \cup {DigitOf[op[t].key]}
  /\ UNCHANGED <<gate, engine, head, counter, op, after, loc, pend, calls>>

(* tree_pop.add on the guard's slot. *)
PopAdd(t) ==
  /\ At(t, "add", "out")
  /\ shard' = [shard EXCEPT ![slot[t]] = @ + pend[t]]
  /\ pend' = [pend EXCEPT ![t] = 0]
  /\ UNCHANGED <<gate, engine, head, base, dirty, op, after, loc, calls>>

OlcDone(t) ==
  /\ Finish(t, "out") /\ G!ExitDone(t)
  /\ UNCHANGED <<engine, head, counter, dirty, pend, calls>>

------------------------------------------------------------------------------
(* A covered write: write_root_covered_with, after the write mutex. *)

Exact == {"remove", "clear", "exclusive"}
Covered == {"insert"} \cup Exact

(* Mutant: tree_pop is not re-synced. *)
CoverBeginStale(t) ==
  /\ InOp(t, Covered) /\ At(t, "body", "apply")
  /\ word' = word + 1
  /\ loc' = [loc EXCEPT ![t].pop = EnginePop]
  /\ UNCHANGED <<gate, engine, counter, pub, dirty, op, after, pend, calls>>

(* An exact section re-syncs tree_pop from the allocated shards; then pop_before
   is read and the tree word opened. *)
CoverBegin(t) ==
  /\ InOp(t, Covered) /\ At(t, "body", "apply")
  /\ treePop' = IF InOp(t, Exact) THEN LoadPop(allocated) ELSE treePop
  /\ loc' = [loc EXCEPT ![t].pop = IF root = "tree" THEN treePop' ELSE Cardinality(keys)]
  /\ word' = word + 1
  /\ UNCHANGED <<gate, keys, root, subPop, counter, pub, dirty, op, after, pend, calls>>

(* The closure: one engine operation, or clear with its own flush. *)
CoverApply(t) ==
  /\ \/ /\ InOp(t, {"insert", "exclusive"}) /\ EngineInsert(op[t].key)
        /\ At(t, "apply", "publish") /\ UNCHANGED <<after, loc>>
     \/ /\ InOp(t, {"remove", "exclusive"}) /\ EngineRemove(op[t].key)
        /\ At(t, "apply", "publish") /\ UNCHANGED <<after, loc>>
     \/ /\ InOp(t, {"clear"}) /\ EngineClear
        /\ FlushTo(t, "apply", 0, "publish")
  /\ pend' = [pend EXCEPT ![t] = Cardinality(keys') - Cardinality(keys)]
  /\ UNCHANGED <<gate, head, counter, dirty, op, calls>>

(* The caller's closure panics before its first change: the guards drop, and
   nothing closes the tree word. *)
CoverUnwind(t) ==
  /\ InOp(t, MayPanic) /\ At(t, "apply", "leave") /\ G!Unwind(t)
  /\ UNCHANGED <<engine, head, counter, dirty, op, after, loc, pend, calls>>

(* Mutant: the root is not republished. *)
CoverPublishSkips(t) ==
  /\ At(t, "publish", "count")
  /\ word' = word + 1
  /\ UNCHANGED <<gate, engine, pub, counter, dirty, op, after, loc, pend, calls>>

(* Mutant: the tree word is not closed. *)
CoverPublishOpen(t) ==
  /\ At(t, "publish", "count")
  /\ pub' = Snapshot
  /\ UNCHANGED <<gate, engine, word, counter, dirty, op, after, loc, pend, calls>>

(* The root is republished and the tree word closed. *)
CoverPublish(t) ==
  /\ At(t, "publish", "count")
  /\ pub' = Snapshot /\ word' = word + 1
  /\ UNCHANGED <<gate, engine, counter, dirty, op, after, loc, pend, calls>>

(* Mutant: the base is set to the population, with the shards still counted. *)
CoverCountSets(t) ==
  /\ At(t, "count", "leave")
  /\ base' = EnginePop
  /\ pend' = [pend EXCEPT ![t] = 0]
  /\ UNCHANGED <<gate, engine, head, shard, dirty, op, after, loc, calls>>

(* The change of the engine's population goes to the base, or the counter is
   reset when the section emptied the tree. *)
CoverCount(t) ==
  /\ \/ /\ EnginePop = 0 /\ loc[t].pop > 0
        /\ FlushTo(t, "count", 0, "leave") /\ UNCHANGED <<base, pend>>
     \/ /\ EnginePop > 0 \/ loc[t].pop = 0
        /\ At(t, "count", "leave") /\ UNCHANGED <<after, loc>>
        /\ base' = base + (EnginePop - loc[t].pop)
        /\ pend' = [pend EXCEPT ![t] = 0]
  /\ UNCHANGED <<gate, engine, head, shard, dirty, op, calls>>

(* flush_and_set: the base first, then every shard in order. *)
FlushBase(t) ==
  /\ At(t, "flush", "shards")
  /\ base' = loc[t].goal
  /\ loc' = [loc EXCEPT ![t].rest = Slots]
  /\ UNCHANGED <<gate, engine, head, shard, dirty, op, after, pend, calls>>

FlushShard(t) ==
  /\ pc[t] = "shards"
  /\ \E s \in loc[t].rest :
       /\ \A r \in loc[t].rest : s <= r
       /\ shard' = [shard EXCEPT ![s] = 0]
       /\ loc' = [loc EXCEPT ![t].rest = @ \ {s}]
  /\ UNCHANGED <<gate, engine, head, base, dirty, pc, op, after, pend, calls>>

FlushDone(t) ==
  /\ loc[t].rest = {} /\ At(t, "shards", after[t])
  /\ pend' = [pend EXCEPT ![t] = 0]
  /\ UNCHANGED <<gate, engine, head, counter, dirty, op, after, loc, calls>>

------------------------------------------------------------------------------
(* with_locked: the dirty children are folded, or the counter is, before the
   caller's closure reads the engine. *)

Folded == [d \in Digits |-> IF d \in dirty THEN Count(d, keys) ELSE subPop[d]]

LockedFold(t) ==
  /\ InOp(t, {"locked"})
  /\ dirty' = {}
  /\ \/ /\ dirty # {} /\ root = "tree"
        /\ subPop' = Folded /\ treePop' = Total(Folded, Digits)
        /\ FlushTo(t, "body", treePop', "refresh")
     \/ /\ dirty # {} /\ root # "tree"
        /\ At(t, "body", "view") /\ UNCHANGED <<treePop, subPop, after, loc>>
     \/ /\ dirty = {}
        /\ treePop' = LoadPop(Slots) /\ UNCHANGED subPop
        /\ FlushTo(t, "body", treePop', "view")
  /\ UNCHANGED <<gate, keys, root, head, counter, op, pend, calls>>

(* The fold rewrote the top edge's population bytes: it is republished. *)
RefreshBegin(t) ==
  /\ At(t, "refresh", "republish")
  /\ word' = word + 1
  /\ UNCHANGED <<gate, engine, pub, counter, dirty, op, after, loc, pend, calls>>
RefreshEnd(t) ==
  /\ At(t, "republish", "view")
  /\ pub' = Snapshot /\ word' = word + 1
  /\ UNCHANGED <<gate, engine, counter, dirty, op, after, loc, pend, calls>>

(* The caller's closure returns, or panics. *)
ViewReturn(t) ==
  /\ At(t, "view", "leave")
  /\ UNCHANGED <<gate, engine, head, counter, dirty, op, after, loc, pend, calls>>
ViewUnwind(t) ==
  /\ InOp(t, MayPanic) /\ At(t, "view", "leave") /\ G!Unwind(t)
  /\ UNCHANGED <<engine, head, counter, dirty, op, after, loc, pend, calls>>

------------------------------------------------------------------------------
(* A read validated against the tree word: validated_len, and the same attempt
   loop around a lookup, whose walk is not modelled here. *)

(* SeqVersion::sample waits for an even word. *)
ReadSample(t) ==
  /\ word % 2 = 0
  /\ At(t, "sample", "load")
  /\ loc' = [loc EXCEPT ![t].snap = word]
  /\ UNCHANGED <<gate, engine, head, counter, dirty, op, after, pend, calls>>

ReadLoad(t) ==
  /\ At(t, "load", "validate")
  /\ loc' = [loc EXCEPT ![t].view = pub]
  /\ UNCHANGED <<gate, engine, head, counter, dirty, op, after, pend, calls>>

(* A valid root leaf answers at once; a valid tree is counted by the shards. *)
ReadAnswer(t) ==
  /\ word = loc[t].snap
  /\ \/ /\ InOp(t, {"len"}) /\ loc[t].view.kind = "tree"
        /\ At(t, "validate", "sum") /\ UNCHANGED loc
     \/ /\ InOp(t, {"get"}) \/ loc[t].view.kind # "tree"
        /\ At(t, "validate", "answer")
        /\ loc' = [loc EXCEPT ![t].pop = loc[t].view.pop]
  /\ UNCHANGED <<gate, engine, head, counter, dirty, op, after, pend, calls>>

(* A failed validation is retried, MaxRetries attempts in all, then the read
   takes the serialised section. *)
ReadRetry(t) ==
  /\ word # loc[t].snap
  /\ loc' = [loc EXCEPT ![t].tries = @ + 1]
  /\ \/ loc[t].tries + 1 < MaxRetries /\ At(t, "validate", "sample") /\ UNCHANGED gate
     \/ loc[t].tries + 1 = MaxRetries /\ At(t, "validate", "gate") /\ G!StartSerial(t)
  /\ UNCHANGED <<engine, head, counter, dirty, op, after, pend, calls>>

(* ShardedTreePop::load outside any lock: the base, then shard by shard. *)
SumBase(t) ==
  /\ At(t, "sum", "adding")
  /\ loc' = [loc EXCEPT ![t].pop = base, ![t].rest = Slots]
  /\ UNCHANGED <<gate, engine, head, counter, dirty, op, after, pend, calls>>
SumShard(t) ==
  /\ pc[t] = "adding"
  /\ \E s \in loc[t].rest :
       /\ \A r \in loc[t].rest : s <= r
       /\ loc' = [loc EXCEPT ![t].pop = @ + shard[s], ![t].rest = @ \ {s}]
  /\ UNCHANGED <<gate, engine, head, counter, dirty, pc, op, after, pend, calls>>
SumDone(t) ==
  /\ loc[t].rest = {} /\ At(t, "adding", "answer")
  /\ loc' = [loc EXCEPT ![t].pop = Max({@, 0})]
  /\ UNCHANGED <<gate, engine, head, counter, dirty, op, after, pend, calls>>

(* read_locked: the engine's root decides, and nothing moves the counter. *)
ReadLocked(t) ==
  /\ InOp(t, Reads) /\ At(t, "body", "leave")
  /\ loc' = [loc EXCEPT ![t].pop = IF root = "tree" THEN LoadPop(Slots) ELSE Cardinality(keys)]
  /\ UNCHANGED <<gate, engine, head, counter, dirty, op, after, pend, calls>>

ReadReturn(t) ==
  /\ Finish(t, "answer")
  /\ UNCHANGED <<gate, engine, head, counter, dirty, pend, calls>>

------------------------------------------------------------------------------
Work(t) ==
  \/ AtGate(t)
  \/ TryFallback(t) \/ TryDescend(t)
  \/ OlcRetry(t) \/ OlcFallback(t) \/ OlcNothing(t) \/ OlcApply(t)
  \/ OlcMark(t) \/ PopAdd(t) \/ OlcDone(t)
  \/ CoverBegin(t) \/ CoverApply(t) \/ CoverUnwind(t) \/ CoverPublish(t) \/ CoverCount(t)
  \/ FlushBase(t) \/ FlushShard(t) \/ FlushDone(t)
  \/ LockedFold(t) \/ RefreshBegin(t) \/ RefreshEnd(t) \/ ViewReturn(t) \/ ViewUnwind(t)
  \/ ReadSample(t) \/ ReadLoad(t) \/ ReadAnswer(t) \/ ReadRetry(t)
  \/ SumBase(t) \/ SumShard(t) \/ SumDone(t) \/ ReadLocked(t) \/ ReadReturn(t)

(* No contents change and none is left uncounted. *)
Undisturbed == keys' = keys /\ \A t \in Threads : pend'[t] = 0
Meets(event) ==
  \/ event = "change" /\ ~Undisturbed
  \/ event = "flush" /\ \E t \in Threads : pc'[t] = "shards"
Watch ==
  overlap' = [t \in Threads |->
    IF op'[t].name # "len" THEN {} ELSE overlap[t] \cup {e \in {"change", "flush"} : Meets(e)}]

(* Every call has returned and no more are made. *)
Finished ==
  /\ calls = MaxCalls /\ \A t \in Threads : pc[t] = "rest"
  /\ UNCHANGED vars

Next == (\E t \in Threads : (Call(t) \/ Evict(t) \/ Work(t)) /\ Watch) \/ Finished

Spec == Init /\ [][Next]_vars

(* A running thread is scheduled.  Nothing obliges a thread to make a call; the
   mutexes need not be fair, since MaxCalls bounds the contention. *)
FairSpec == Spec /\ \A t \in Threads : WF_vars(Work(t) /\ Watch)

------------------------------------------------------------------------------
Places == {"rest", "gate", "try", "olc", "mark", "add", "out", "body", "apply", "publish", "count",
           "flush", "shards", "refresh", "republish", "view", "leave", "sample", "load",
           "validate", "sum", "adding", "answer"}
Roots == [kind : {"none", "leaf", "tree"}, pop : Nat]
Locals == [tries : 0 .. MaxRetries, pop : Int, goal : Nat, rest : SUBSET Slots,
           snap : Nat, view : Roots]

(* Every variable has its type: the tree's stored populations never go below
   zero, and a shard may, since a key counted in on one slot can be counted out
   on another (sync.rs ShardedTreePop). *)
TypeOK ==
  /\ G!TypeOK
  /\ keys \subseteq Keys /\ root \in {"leaf", "tree"}
  /\ treePop \in Nat /\ subPop \in [Digits -> Nat]
  /\ pub \in Roots /\ word \in Nat
  /\ base \in Int /\ shard \in [Slots -> Int]
  /\ dirty \subseteq Digits
  /\ pc \in [Threads -> Places] /\ after \in [Threads -> Places]
  /\ op \in [Threads -> Calls \cup {Idle}]
  /\ loc \in [Threads -> Locals]
  /\ pend \in [Threads -> Int]
  /\ overlap \in [Threads -> SUBSET {"change", "flush"}]
  /\ calls \in 0 .. MaxCalls

(* Where a thread has the serialised section to itself, and where it is an
   admitted optimistic writer. *)
Section == {"body", "apply", "publish", "count", "flush", "shards", "refresh", "republish",
            "view"}
Optimistic == {"try", "olc", "mark", "add", "out"}

(* While a thread is in its serialised section, with `&mut` to the engine or in
   the caller's closure, no other thread is in one and no optimistic writer is
   between its admission and the drop of its guard, so none stores a key, marks
   a digit or counts it (sync.rs write_root_covered_with, with_locked). *)
SectionAlone ==
  \A t, u \in Threads :
    pc[t] \in Section /\ u # t => pc[u] \notin Section \cup Optimistic

(* Outside a flush, the base and the shards sum to the keys in the tree, less
   the changes still on their way to the counter: no mutation is lost or
   counted twice across slots shared by threads, fallbacks, covered writes,
   clears and locked reads (sync.rs write_root_covered_with, with_locked). *)
PopulationExact ==
  (\A t \in Threads : pc[t] # "shards") =>
    base + Total(shard, Slots) = Cardinality(keys) - Total(pend, Threads)

(* A serialised removal runs with the tree's true population, from which the
   engine decides to condense and sizes the root leaf it writes every key to
   (sync.rs remove_root_covered, set.rs condense_to_root_leaf). *)
CondenseSeesExact ==
  \A t \in Threads :
    pc[t] = "apply" /\ InOp(t, Exact) /\ root = "tree" => treePop = Cardinality(keys)

(* The closure of a locked read sees exact populations, the root's and those the
   children store, which rank and by_count descend by, whatever optimistic
   writers left behind (sync.rs with_locked, fold_branch_pop0_selective). *)
ViewExact ==
  \A t \in Threads :
    pc[t] = "view" => EnginePop = Cardinality(keys) /\ (root = "tree" => subPop = Counts(keys))

(* A population read that no change of the contents overlaps answers the number
   of keys (sync.rs validated_len, "Number of keys (validated read)"). *)
Counted(t) == InOp(t, {"len"}) /\ pc[t] \in {"answer", "leave"}
LenExact ==
  \A t \in Threads :
    Counted(t) /\ "change" \notin overlap[t] => loc[t].pop = Cardinality(keys)

(* The part of it the code keeps: the answer is exact when no flush of the
   counter overlaps the read either (sync.rs validated_len, read_locked). *)
LenSettled == \A t \in Threads : Counted(t) /\ overlap[t] = {} => loc[t].pop = Cardinality(keys)

(* The mutations, sections and reads of the tree drive the writer gate only
   along its own protocol: in particular no writer enters a serialised section
   with its guard held (sync.rs insert, remove: drop(_guard) first). *)
GateSpec == G!Spec

(* Every mutation and every serialised section ends, after a panic too: it
   returns or meets a poisoned mutex, and never waits at a closed gate for ever
   (tests/test_serialised_section_unwind.rs). *)
WritersReturn ==
  \A t \in Threads : pc[t] # "rest" /\ ~InOp(t, Reads) ~> pc[t] = "rest"

(* Every read ends: an overlapping section makes it retry, and its retries are
   bounded (sync.rs validated_len, MAX_RETRIES). *)
ReadersReturn ==
  \A t \in Threads : pc[t] # "rest" /\ InOp(t, Reads) ~> pc[t] = "rest"
==============================================================================
