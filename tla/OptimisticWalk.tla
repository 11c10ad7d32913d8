---------------------------- MODULE OptimisticWalk ----------------------------
(* The words of a shared set and everybody who touches them: the validated    *)
(* lookup (walk_validated), the optimistic mutations (olc_insert_set,         *)
(* olc_remove_set) and the serialised section (insert_with_path_occ,          *)
(* remove_occ).  Linear branches, linear leaves and immediates; one step is   *)
(* one load or store of a word another thread may touch.                      *)
EXTENDS Integers, FiniteSets, Sequences, SequencesExt

CONSTANTS Threads, Readers,      \* Readers look up, the other threads mutate
          Nodes, Buffers,        \* blocks for branches, and for leaves
          Root, NoBlock, NoThread, NoCall,
          Keys, Hi, Lo,          \* a key's digit in the top branch, and in the one below
          SmallCap, LargeCap,    \* BRANCH_L3_CAP, BRANCH_L7_CAP
          ImmMax,                \* ImmedType::max_count
          LeafMax, CapClass,     \* LEAF_CAP, leaf::cap_class
          OBSOLETE,              \* the flag, above every version of a behaviour
          MaxRetries,            \* MAX_RETRIES
          Scenarios              \* bound: a tree to start from (see Built), and the keys
                                 \* that each thread's one call may name

Blocks == Nodes \cup Buffers

ASSUME WalkAssumption ==
  /\ Readers \subseteq Threads /\ Nodes \cap Buffers = {}
  /\ Root \notin Blocks /\ NoBlock \notin Blocks \cup {Root} /\ NoThread \notin Threads
  /\ Keys \subseteq Nat \ {0} /\ Hi \in [Keys -> Nat \ {0}] /\ Lo \in [Keys -> Nat \ {0}]
  /\ \A j, k \in Keys : (Hi[j] = Hi[k] /\ Lo[j] = Lo[k]) => j = k
  /\ \A j, k \in Keys : Hi[j] < Hi[k] => j < k
  /\ \A j, k \in Keys : (Hi[j] = Hi[k] /\ Lo[j] < Lo[k]) => j < k
  /\ 0 < SmallCap /\ SmallCap < LargeCap /\ 0 < ImmMax /\ ImmMax < LeafMax
  /\ CapClass \in [1 .. LeafMax -> 1 .. LeafMax]
  /\ \A n \in 1 .. LeafMax : n <= CapClass[n]
  /\ OBSOLETE \in Nat /\ OBSOLETE % 2 = 0 /\ MaxRetries \in Nat \ {0}
  /\ \A x \in Scenarios :
       /\ x.calls \in [Threads -> SUBSET Keys]
       /\ x.keys \subseteq Keys /\ x.wide \in BOOLEAN
       /\ x.split \subseteq {Hi[k] : k \in x.keys}
       /\ \A k \in x.keys :
            Hi[k] \in x.split \/ Cardinality({j \in x.keys : Hi[j] = Hi[k]}) <= LeafMax

VARIABLES
  mem,      \* the shared words
  th,       \* each thread's position and local variables
  closed,   \* the thread whose section has the writer gate closed
  calls,    \* the keys each thread may still call with
  keys, call, done, could, ret     \* history: see AtomicSet

InitialContents == {x.keys : x \in Scenarios}

(* The mapping to the abstract set is the identity on the history variables. *)
A == INSTANCE AtomicSet WITH
  keys <- keys, call <- call, done <- done, could <- could, ret <- ret

ghosts == <<keys, call, done, could, ret>>
vars == <<mem, th, closed, calls, ghosts>>

------------------------------------------------------------------------------
(* Edges: word 0 (a payload or a pointer) and the tag with its count. *)

Null == << << >>, <<"null", 0>> >>
Imm(s) == <<s, <<"imm", Len(s)>> >>
Leaf(b, pop) == <<b, <<"leaf", pop>> >>
Branch(b, form) == <<b, <<form, 0>> >>

Tag(e) == e[2][1]
IsBranch(e) == Tag(e) \in {"L3", "L7"}
Cap(e) == IF Tag(e) = "L3" THEN SmallCap ELSE LargeCap
FormFor(n) == IF n <= SmallCap THEN "L3" ELSE "L7"

Less(j, k) == j < k
Sorted(S) == SetToSortSeq(S, Less)
With(s, k) == Sorted(ToSet(s) \cup {k})
Without(s, k) == SelectSeq(s, LAMBDA j : j # k)
Padded(s, n, x) == [i \in 1 .. n |-> IF i <= Len(s) THEN s[i] ELSE x]

BlankNode == [ver |-> 0, num |-> 0, digits |-> Padded(<< >>, LargeCap, 0),
              edges |-> Padded(<< >>, LargeCap, Null)]
BlankLeaf == Padded(<< >>, LeafMax, 0)

(* A branch over the given digits and children. *)
NodeOf(ds, es) == [ver |-> 0, num |-> Len(ds), digits |-> Padded(ds, LargeCap, 0),
                   edges |-> Padded(es, LargeCap, Null)]

(* The branch a full leaf is split into: the cascade of re-inserts, on a
   private edge. *)
SplitNode(S) ==
  LET ks == Sorted(S)
  IN NodeOf([i \in 1 .. Len(ks) |-> Lo[ks[i]]], [i \in 1 .. Len(ks) |-> Imm(<<ks[i]>>)])

Slot(nd, n, d) == SelectInSubSeq(nd.digits, 1, n, LAMBDA x : x = d)
InsertPos(nd, n, d) == 1 + Cardinality({i \in 1 .. n : nd.digits[i] < d})

------------------------------------------------------------------------------
(* Stores.  A mutation under its lock is a sequence of them; Apply is the
   effect of one on the memory. *)

Do(what, at, val) == [do |-> what, at |-> at, val |-> val]

(* Edge::store_at: the tag word, then word 0. *)
StoreEdge(p, e) == <<Do("aux", p, e[2]), Do("ptr", p, e[1])>>

(* linear_insert_at_shared: the edges above move up, highest first, then the
   new edge, the digits, the count. *)
LinearInsert(b, nd, d, e) ==
  LET n == nd.num  pos == InsertPos(nd, n, d)
  IN FlattenSeq([j \in 1 .. n + 1 - pos |-> StoreEdge(<<b, n + 2 - j>>, nd.edges[n + 1 - j])])
     \o StoreEdge(<<b, pos>>, e)
     \o <<Do("digits", b, Padded(InsertAt(SubSeq(nd.digits, 1, n), pos, d), LargeCap, 0)),
          Do("meta", b, n + 1)>>

(* Mutant: the count is not stored. *)
LinearRemoveKeepsCount(b, nd, s) ==
  LET n == nd.num
  IN FlattenSeq([j \in 1 .. n - s |-> StoreEdge(<<b, s + j - 1>>, nd.edges[s + j])])
     \o StoreEdge(<<b, n>>, Null)
     \o <<Do("digits", b, Padded(RemoveAt(SubSeq(nd.digits, 1, n), s), LargeCap, 0))>>

(* linear_remove_at_shared: the edges above move down, lowest first. *)
LinearRemove(b, nd, s) ==
  LET n == nd.num
  IN FlattenSeq([j \in 1 .. n - s |-> StoreEdge(<<b, s + j - 1>>, nd.edges[s + j])])
     \o StoreEdge(<<b, n>>, Null)
     \o <<Do("digits", b, Padded(RemoveAt(SubSeq(nd.digits, 1, n), s), LargeCap, 0)),
          Do("meta", b, n - 1)>>

(* shared_keys::insert_at and remove_at: the words from the first that changes
   on, in ascending order. *)
KeyStores(b, from, ks) ==
  [j \in 1 .. Len(ks) - from + 1 |-> Do("key", <<b, from + j - 1>>, ks[from + j - 1])]
SetInsertAt(b, ks, k) ==
  LET new == With(ks, k) IN KeyStores(b, SelectInSeq(new, LAMBDA j : j = k), new)
SetRemoveAt(b, ks, k) == KeyStores(b, SelectInSeq(ks, LAMBDA j : j = k), Without(ks, k))

Pinned == {t \in Threads : th[t].pin}

Apply(m, o) ==
  LET b == o.at
  IN CASE o.do \in {"begin", "end", "commit"} -> [m EXCEPT !.node[b].ver = @ + 1]
       [] o.do = "obsolete" -> [m EXCEPT !.node[b].ver = OBSOLETE + @ + 1]
       [] o.do = "aux" -> [m EXCEPT !.node[b[1]].edges[b[2]][2] = o.val]
       [] o.do = "ptr" -> [m EXCEPT !.node[b[1]].edges[b[2]][1] = o.val]
       [] o.do = "digits" -> [m EXCEPT !.node[b].digits = o.val]
       [] o.do = "meta" -> [m EXCEPT !.node[b].num = o.val]
       [] o.do = "key" -> [m EXCEPT !.leaf[b[1]][b[2]] = o.val]
       [] o.do = "fill" -> [m EXCEPT !.leaf[b] = Padded(o.val, LeafMax, 0), !.status[b] = "live"]
       [] o.do = "build" -> [m EXCEPT !.node[b] = o.val, !.status[b] = "live"]
       [] o.do = "copy" -> [m EXCEPT !.node[b] = m.node[o.val], !.status[b] = "live"]
       [] o.do = "retire" -> [m EXCEPT !.status[b] = "retired", !.waits[b] = Pinned]
       [] o.do = "word" -> [m EXCEPT !.word = @ + 1]
       [] o.do = "topptr" -> [m EXCEPT !.pub[1] = o.val]
       [] o.do = "topaux" -> [m EXCEPT !.pub[2] = o.val]

(* version_begin ... version_end around stores; the bracket that makes the
   change visible is marked. *)
Bracket(b, s) == <<Do("begin", b, 0)>> \o s \o <<Do("end", b, 0)>>
Commit(b, s) == <<Do("begin", b, 0)>> \o s \o <<Do("commit", b, 0)>>
Retire(b) == <<Do("retire", b, 0)>>

Free == {b \in Blocks : mem.status[b] = "free"}
NewBuffer == CHOOSE b \in Free \cap Buffers : TRUE
NewNode == CHOOSE b \in Free \cap Nodes : TRUE

------------------------------------------------------------------------------
(* A tree of the given contents.  Inserts alone leave a leaf under a digit, and
   the narrow form; removals keep the branch of a digit that was split, and the
   wide form down to SmallCap children. *)

Under(S, d) == {k \in S : Hi[k] = d}
DigitsOf(S) == {Hi[k] : k \in S}

(* A block for each digit, and one for the top branch. *)
Placing(S) == CHOOSE f \in [DigitsOf(S) -> Buffers] : IsInjective(f)
Below(S) == CHOOSE f \in [DigitsOf(S) \cup {0} -> Nodes] : IsInjective(f)

BuiltForm(x, n) == IF n > SmallCap \/ (x.wide /\ n = SmallCap) THEN "L7" ELSE "L3"

ChildEdge(x, d) ==
  LET ks == Sorted(Under(x.keys, d))  n == Len(ks)
  IN CASE d \in x.split -> Branch(Below(x.keys)[d], BuiltForm(x, n))
       [] d \notin x.split /\ n <= ImmMax -> Imm(ks)
       [] d \notin x.split /\ n > ImmMax -> Leaf(Placing(x.keys)[d], n)

Built(x) ==
  LET S == x.keys
      ds == Sorted(DigitsOf(S))
      top == Below(S)[0]
      child(d) == ChildEdge(x, d)
      digit(b) == CHOOSE d \in DigitsOf(S) : child(d)[1] = b
      used == {top} \cup {child(d)[1] : d \in {d \in DigitsOf(S) : Tag(child(d)) # "imm"}}
  IN [word |-> 0,
      pub |-> Branch(top, BuiltForm(x, Len(ds))),
      node |-> [b \in Nodes |->
                  CASE b = top -> NodeOf(ds, [i \in DOMAIN ds |-> child(ds[i])])
                    [] b \in used \ {top} -> SplitNode(Under(S, digit(b)))
                    [] b \notin used -> BlankNode],
      leaf |-> [b \in Buffers |->
                  IF b \in used THEN Padded(Sorted(Under(S, digit(b))), LeafMax, 0) ELSE BlankLeaf],
      status |-> [b \in Blocks |-> IF b \in used THEN "live" ELSE "free"],
      waits |-> [b \in Blocks |-> {}]]

(* The locals: the word that covers the walk and the value sampled from it,
   where the edge was loaded and the copy, the count of a header, the leaf
   entries read, the mutation decided on, the block allocated for it, and the
   stores still to make. *)
Blank == [pc |-> "rest", pin |-> FALSE, admitted |-> FALSE, tries |-> 0,
          cover |-> Root, snap |-> 0, place |-> Root, edge |-> Null, n |-> 0,
          seen |-> << >>, plan |-> "none", buf |-> NoBlock, script |-> << >>]

Init ==
  /\ A!Init
  /\ \E x \in Scenarios : x.keys = keys /\ mem = Built(x) /\ calls = x.calls
  /\ th = [t \in Threads |-> Blank]
  /\ closed = NoThread

------------------------------------------------------------------------------
(* Steps of a thread. *)

Key(t) == call[t].key
Op(t) == call[t].op
At(t, pc) == th[t].pc = pc
Set(t, r) == th' = [th EXCEPT ![t] = r]
Goto(t, pc) == Set(t, [th[t] EXCEPT !.pc = pc])

EdgeAt(p) == IF p = Root THEN mem.pub ELSE mem.node[p[1]].edges[p[2]]

(* The end of a pin: the blocks that waited for this thread no longer do. *)
Unpin(m, t) == [m EXCEPT !.waits = [b \in Blocks |-> @[b] \ {t}]]
(* free_bytes_unpublished, free_subtree_unpublished: no grace period. *)
FreeUnpublished(m, b) ==
  IF b \in Buffers THEN [m EXCEPT !.status[b] = "free", !.leaf[b] = BlankLeaf]
  ELSE IF b \in Nodes THEN [m EXCEPT !.status[b] = "free", !.node[b] = BlankNode]
  ELSE m

(* Cover::ok, node_validate.  A mutation does not validate the tree word: its
   sections wait for the mutations to leave. *)
Valid(t) ==
  LET l == th[t]
  IN IF l.cover = Root THEN t \in Readers => mem.word = l.snap
     ELSE mem.node[l.cover].ver = l.snap

(* Mutant: the block of the failed attempt is not given back. *)
RetryLeaks(t) ==
  /\ Set(t, [Blank EXCEPT !.pc = "try", !.tries = th[t].tries + 1,
                          !.pin = t \notin Readers, !.admitted = t \notin Readers])
  /\ mem' = IF t \in Readers THEN Unpin(mem, t) ELSE mem

(* The attempt failed: a lookup drops its pin, a mutation keeps pin and gate. *)
Retry(t) ==
  /\ Set(t, [Blank EXCEPT !.pc = "try", !.tries = th[t].tries + 1,
                          !.pin = t \notin Readers, !.admitted = t \notin Readers])
  /\ mem' = IF t \in Readers THEN Unpin(mem, t) ELSE FreeUnpublished(mem, th[t].buf)

(* OlcOutcome::Fallback, and the attempts used up. *)
Fallback(t) ==
  /\ Set(t, [Blank EXCEPT !.pc = "close"])
  /\ mem' = Unpin(mem, t)

Answer(t, r) ==
  /\ Set(t, Blank)
  /\ mem' = Unpin(mem, t)
  /\ ret' = [ret EXCEPT ![t] = r]
  /\ call' = [call EXCEPT ![t] = NoCall]
  /\ done' = [done EXCEPT ![t] = FALSE]
  /\ could' = [could EXCEPT ![t] = {}]
  /\ UNCHANGED keys

(* Mutant: the answer is given as read. *)
ValidAnswerBlind(t, r) == Answer(t, r)

(* An answer that follows the last load needs the cover to be as sampled. *)
ValidAnswer(t, r) ==
  \/ Valid(t) /\ Answer(t, r)
  \/ ~ Valid(t) /\ Retry(t) /\ UNCHANGED ghosts

Call(t) ==
  /\ At(t, "rest") /\ calls' = [calls EXCEPT ![t] = {}]
  /\ \E c \in A!Calls :
       c.key \in calls[t] /\ (c.op = "get" <=> t \in Readers) /\ A!Begin(t, c)
  /\ Goto(t, IF t \in Readers THEN "try" ELSE "enter")
  /\ UNCHANGED <<mem, closed>>

(* Mutant: admitted, but not pinned. *)
EnterUnpinned(t) ==
  /\ At(t, "enter") /\ closed = NoThread
  /\ Set(t, [th[t] EXCEPT !.pc = "try", !.admitted = TRUE])
  /\ UNCHANGED <<mem, closed, calls, ghosts>>

(* enter_writer_blocking, then the pin for all the attempts. *)
Enter(t) ==
  /\ At(t, "enter") /\ closed = NoThread
  /\ Set(t, [th[t] EXCEPT !.pc = "try", !.pin = TRUE, !.admitted = TRUE])
  /\ UNCHANGED <<mem, closed, calls, ghosts>>

(* Mutant: the attempt of a lookup is not pinned. *)
TryUnpinned(t) ==
  /\ At(t, "try")
  /\ LET over == th[t].tries = MaxRetries \/ (t \notin Readers /\ closed # NoThread)
     IN \/ over /\ Fallback(t)
        \/ ~ over /\ Goto(t, "sample") /\ UNCHANGED mem
  /\ UNCHANGED <<closed, calls, ghosts>>

(* The head of the attempt loop: a mutation gives up when the gate is closed,
   a lookup pins for each attempt. *)
Try(t) ==
  /\ At(t, "try")
  /\ LET over == th[t].tries = MaxRetries \/ (t \notin Readers /\ closed # NoThread)
     IN \/ over /\ Fallback(t)
        \/ /\ ~ over /\ UNCHANGED mem
           /\ Set(t, [th[t] EXCEPT !.pc = "sample", !.pin = @ \/ t \in Readers])
  /\ UNCHANGED <<closed, calls, ghosts>>

(* SeqVersion::sample, under the pin: waits for an even word. *)
Sample(t) ==
  /\ At(t, "sample") /\ mem.word % 2 = 0
  /\ Set(t, [th[t] EXCEPT !.pc = "ptr", !.snap = mem.word])
  /\ UNCHANGED <<mem, closed, calls, ghosts>>

(* Edge::load_at: word 0, then the tag word. *)
LoadPtr(t) ==
  /\ At(t, "ptr")
  /\ Set(t, [th[t] EXCEPT !.pc = "aux", !.edge[1] = EdgeAt(th[t].place)[1]])
  /\ UNCHANGED <<mem, closed, calls, ghosts>>

LoadAux(t) ==
  /\ At(t, "aux")
  /\ Set(t, [th[t] EXCEPT !.pc = "valid", !.edge[2] = EdgeAt(th[t].place)[2]])
  /\ UNCHANGED <<mem, closed, calls, ghosts>>

(* The edge copy is validated before it is followed. *)
Follow(t) ==
  /\ At(t, "valid")
  /\ \/ ~ Valid(t) /\ Retry(t)
     \/ /\ Valid(t) /\ UNCHANGED mem
        /\ Goto(t, IF IsBranch(th[t].edge) THEN "node"
                   ELSE IF Tag(th[t].edge) = "leaf" THEN "scan" ELSE "decide")
  /\ UNCHANGED <<closed, calls, ghosts>>

(* node_sample: an odd version is a mutation in progress, or a replaced node. *)
SampleNode(t) ==
  /\ At(t, "node")
  /\ LET b == th[t].edge[1] IN
       \/ mem.node[b].ver % 2 = 1 /\ Retry(t)
       \/ /\ mem.node[b].ver % 2 = 0 /\ UNCHANGED mem
          /\ Set(t, [th[t] EXCEPT !.pc = "meta", !.cover = b, !.snap = mem.node[b].ver])
  /\ UNCHANGED <<closed, calls, ghosts>>

(* BranchHeader::load_at: the count, then the digits. *)
LoadMeta(t) ==
  /\ At(t, "meta")
  /\ Set(t, [th[t] EXCEPT !.pc = "digits", !.n = mem.node[th[t].cover].num])
  /\ UNCHANGED <<mem, closed, calls, ghosts>>

DigitHere(t) == IF th[t].place = Root THEN Hi[Key(t)] ELSE Lo[Key(t)]

(* A count past the form's capacity is a torn header. *)
LoadDigits(t) ==
  /\ At(t, "digits")
  /\ LET s == Slot(mem.node[th[t].cover], th[t].n, DigitHere(t)) IN
       IF th[t].n > Cap(th[t].edge) THEN Retry(t)
       ELSE /\ IF s = 0 THEN Goto(t, "absent")
               ELSE Set(t, [th[t] EXCEPT !.pc = "ptr", !.place = <<th[t].cover, s>>, !.n = 0])
            /\ UNCHANGED mem
  /\ UNCHANGED <<closed, calls, ghosts>>

(* No such digit: the key is absent, and an insert needs room for a slot. *)
Absent(t) ==
  /\ At(t, "absent")
  /\ \/ Op(t) # "insert" /\ ValidAnswer(t, FALSE)
     \/ Op(t) = "insert" /\ ~ Valid(t) /\ Retry(t) /\ UNCHANGED ghosts
     \/ /\ Op(t) = "insert" /\ Valid(t) /\ th[t].n < Cap(th[t].edge)
        /\ Set(t, [th[t] EXCEPT !.pc = "lock", !.plan = "slot", !.n = 0])
        /\ UNCHANGED <<mem, ghosts>>
     \/ /\ Op(t) = "insert" /\ Valid(t) /\ th[t].n >= Cap(th[t].edge)
        /\ Fallback(t) /\ UNCHANGED ghosts
  /\ UNCHANGED <<closed, calls>>

(* shared_keys::find, and the mutations' own search: one entry a step. *)
Scan(t) ==
  /\ At(t, "scan")
  /\ LET l == th[t]
         i == Len(l.seen) + 1
         x == mem.leaf[l.edge[1]][i]
         over == x = Key(t) \/ i = l.edge[2][2] \/ (Op(t) = "get" /\ x > Key(t))
     IN Set(t, [l EXCEPT !.seen = Append(@, x), !.pc = IF over THEN "decide" ELSE "scan"])
  /\ UNCHANGED <<mem, closed, calls, ghosts>>

Entries(e) == SubSeq(mem.leaf[e[1]], 1, e[2][2])
Held(t) == IF Tag(th[t].edge) = "imm" THEN th[t].edge[1] ELSE th[t].seen
Found(t) == Contains(Held(t), Key(t))

(* What olc_insert_set does at a terminal that lacks the key. *)
InsertPlan(e) ==
  LET n == e[2][2]
  IN CASE Tag(e) = "imm" /\ n < ImmMax -> "imm"
       [] Tag(e) = "imm" /\ n >= ImmMax -> "new"
       [] Tag(e) = "leaf" /\ n < LeafMax ->
            IF CapClass[n + 1] = CapClass[n] THEN "inplace" ELSE "realloc"
       [] Tag(e) = "leaf" /\ n >= LeafMax -> "split"

(* What olc_remove_set does at a terminal that holds it: the last key of a slot
   of a linear branch is left to a section. *)
RemovePlan(e) ==
  LET n == e[2][2]
  IN CASE n = 1 -> "fallback"
       [] n > 1 /\ Tag(e) = "imm" -> "imm"
       [] n > 1 /\ Tag(e) = "leaf" /\ n - 1 > ImmMax ->
            IF n > 2 /\ CapClass[n - 1] = CapClass[n] THEN "inplace" ELSE "realloc"
       [] n > 1 /\ Tag(e) = "leaf" /\ n - 1 <= ImmMax -> "toimm"

Plan(t) == IF Op(t) = "insert" THEN InsertPlan(th[t].edge) ELSE RemovePlan(th[t].edge)

(* Where a plan continues: the copy of the entries, the allocation, the lock. *)
PlanStep(plan) == CASE plan \in {"split", "toimm"} -> "copy"
                    [] plan \in {"new", "realloc"} -> "alloc"
                    [] plan \in {"imm", "inplace"} -> "lock"

(* The growth and the split of a leaf look at the version once more before they
   allocate. *)
LooksFirst(t) == Op(t) = "insert" /\ Tag(th[t].edge) = "leaf" /\ Plan(t) # "inplace"

Mutates(t) == Op(t) # "get" /\ (Op(t) = "insert" <=> ~ Found(t))

(* The terminal is read: answer, or lock and change. *)
Decide(t) ==
  /\ At(t, "decide")
  /\ \/ ~ Mutates(t) /\ ValidAnswer(t, Op(t) = "get" /\ Found(t))
     \/ Mutates(t) /\ Plan(t) = "fallback" /\ Fallback(t) /\ UNCHANGED ghosts
     \/ Mutates(t) /\ LooksFirst(t) /\ ~ Valid(t) /\ Retry(t) /\ UNCHANGED ghosts
     \/ /\ Mutates(t) /\ Plan(t) # "fallback" /\ (LooksFirst(t) => Valid(t))
        /\ Set(t, [th[t] EXCEPT !.pc = PlanStep(Plan(t)), !.plan = Plan(t), !.seen = << >>])
        /\ UNCHANGED <<mem, ghosts>>
  /\ UNCHANGED <<closed, calls>>

(* keys_vec, and the entries of a leaf that becomes an immediate. *)
Copy(t) ==
  /\ At(t, "copy")
  /\ LET l == th[t]
         i == Len(l.seen) + 1
         next == CASE i < l.edge[2][2] -> "copy"
                   [] i = l.edge[2][2] /\ l.plan = "split" -> "copied"
                   [] i = l.edge[2][2] /\ l.plan = "toimm" -> "lock"
     IN Set(t, [l EXCEPT !.seen = Append(@, mem.leaf[l.edge[1]][i]), !.pc = next])
  /\ UNCHANGED <<mem, closed, calls, ghosts>>

(* The copy is validated, and the branch built from it before the lock. *)
Copied(t) ==
  /\ At(t, "copied")
  /\ \/ ~ Valid(t) /\ Retry(t)
     \/ /\ Valid(t)
        /\ mem' = Apply(mem, Do("build", NewNode, SplitNode(ToSet(With(th[t].seen, Key(t))))))
        /\ Set(t, [th[t] EXCEPT !.pc = "lock", !.buf = NewNode, !.seen = << >>])
  /\ UNCHANGED <<closed, calls, ghosts>>

Alloc(t) ==
  /\ At(t, "alloc")
  /\ mem' = [mem EXCEPT !.status[NewBuffer] = "live"]
  /\ Set(t, [th[t] EXCEPT !.pc = "lock", !.buf = NewBuffer])
  /\ UNCHANGED <<closed, calls, ghosts>>

(* Mutant: version_try_lock, which takes any even version. *)
LockAny(t) ==
  /\ At(t, "lock")
  /\ LET v == mem.node[th[t].cover].ver IN
       \/ v % 2 = 1 /\ Retry(t)
       \/ /\ v % 2 = 0
          /\ mem' = [mem EXCEPT !.node[th[t].cover].ver = @ + 1]
          /\ Set(t, [th[t] EXCEPT !.pc = "recheck", !.snap = v])
  /\ UNCHANGED <<closed, calls, ghosts>>

(* version_try_lock_expect: one exchange, from the version the walk sampled. *)
Lock(t) ==
  /\ At(t, "lock")
  /\ \/ ~ Valid(t) /\ Retry(t)
     \/ /\ Valid(t)
        /\ mem' = [mem EXCEPT !.node[th[t].cover].ver = @ + 1]
        /\ Goto(t, "recheck")
  /\ UNCHANGED <<closed, calls, ghosts>>

(* Under the lock: the edge is still the one walked through, the branch still
   has room. *)
Unchanged(t) ==
  LET l == th[t]
  IN IF l.plan = "slot" THEN mem.node[l.cover].num < Cap(l.edge) ELSE EdgeAt(l.place) = l.edge

(* The stores of the plan; those of a slot are linear_insert_at_shared's. *)
OlcStores(t) ==
  LET l == th[t]  e == l.edge  p == l.place  k == Key(t)  n == e[2][2]
      in == Op(t) = "insert"
      new(s) == IF in THEN With(s, k) ELSE Without(s, k)
      m == IF in THEN n + 1 ELSE n - 1
  IN CASE l.plan = "slot" -> LinearInsert(l.cover, mem.node[l.cover], DigitHere(t), Imm(<<k>>))
       [] l.plan = "imm" -> StoreEdge(p, Imm(new(e[1])))
       [] l.plan = "new" -> <<Do("fill", l.buf, new(e[1]))>> \o StoreEdge(p, Leaf(l.buf, m))
       [] l.plan = "inplace" ->
            (IF in THEN SetInsertAt(e[1], Entries(e), k) ELSE SetRemoveAt(e[1], Entries(e), k))
            \o <<Do("aux", p, <<"leaf", m>>)>>
       [] l.plan = "realloc" ->
            <<Do("fill", l.buf, new(Entries(e)))>> \o StoreEdge(p, Leaf(l.buf, m))
       [] l.plan = "split" -> StoreEdge(p, Branch(l.buf, FormFor(m)))
       [] l.plan = "toimm" -> StoreEdge(p, Imm(new(l.seen)))

(* version_unlock makes the change visible; a replaced leaf is retired after it. *)
OlcScript(t) ==
  OlcStores(t) \o <<Do("commit", th[t].cover, 0)>>
  \o (IF th[t].plan \in {"realloc", "split", "toimm"} THEN Retire(th[t].edge[1]) ELSE << >>)

Recheck(t) ==
  /\ At(t, "recheck")
  /\ IF Unchanged(t)
     THEN /\ Set(t, [th[t] EXCEPT !.pc = "store", !.script = OlcScript(t), !.seen = << >>,
                                  !.buf = NoBlock])
          /\ UNCHANGED mem
     ELSE /\ Set(t, [Blank EXCEPT !.pc = "try", !.tries = th[t].tries + 1,
                                  !.pin = TRUE, !.admitted = TRUE])
          /\ mem' = [FreeUnpublished(mem, th[t].buf) EXCEPT !.node[th[t].cover].ver = th[t].snap]
  /\ UNCHANGED <<closed, calls, ghosts>>

(* One store.  The one that closes the bracket of the change is where the call
   takes effect. *)
Store(t) ==
  /\ At(t, "store") /\ th[t].script # << >>
  /\ LET o == Head(th[t].script) IN
       /\ mem' = Apply(mem, o)
       /\ \/ o.do # "commit" /\ UNCHANGED ghosts
          \/ /\ o.do = "commit"
             /\ keys' = IF Op(t) = "insert" THEN keys \cup {Key(t)} ELSE keys \ {Key(t)}
             /\ done' = [done EXCEPT ![t] = TRUE]
             /\ could' = [u \in Threads |-> IF call[u] = NoCall THEN {}
                                            ELSE could[u] \cup {Key(u) \in keys'}]
             /\ UNCHANGED <<call, ret>>
  /\ Set(t, [th[t] EXCEPT !.script = Tail(@)])
  /\ UNCHANGED <<closed, calls>>

Stored(t) ==
  /\ At(t, "store") /\ th[t].script = << >>
  /\ Answer(t, done[t])
  /\ closed' = IF closed = t THEN NoThread ELSE closed
  /\ UNCHANGED calls

------------------------------------------------------------------------------
(* The serialised section: the engine's insert and remove, alone among the
   mutations, with the tree word odd and the lookups running. *)

(* Mutant: the old node is not retired. *)
ReplaceLeaks(old, new) == <<Do("copy", new, old), Do("obsolete", old, 0)>>

(* Mutant: the old node keeps a version a walk can still validate. *)
ReplaceUnmarked(old, new) == <<Do("copy", new, old)>> \o Retire(old)

(* upgrade_l3_to_l7, downgrade_l7_to_l3: the copy takes the version along; the
   old node is marked and retired before the edge to it is replaced. *)
Replace(old, new) == <<Do("copy", new, old), Do("obsolete", old, 0)>> \o Retire(old)

(* A new digit: a null slot under the node's bracket, filled under another. *)
OpenSlot(b, nd, d, k) ==
  Bracket(b, LinearInsert(b, nd, d, Null))
  \o Commit(b, StoreEdge(<<b, InsertPos(nd, nd.num, d)>>, Imm(<<k>>)))

(* insert_with_path_occ at an immediate or a leaf, covered by branch c. *)
TerminalInsert(c, p, e, k) ==
  LET n == e[2][2]
  IN CASE InsertPlan(e) = "imm" -> Commit(c, StoreEdge(p, Imm(With(e[1], k))))
       [] InsertPlan(e) = "new" ->
            Commit(c, <<Do("fill", NewBuffer, With(e[1], k))>>
                      \o StoreEdge(p, Leaf(NewBuffer, n + 1)))
       [] InsertPlan(e) = "inplace" ->
            Commit(c, SetInsertAt(e[1], Entries(e), k) \o StoreEdge(p, Leaf(e[1], n + 1)))
       [] InsertPlan(e) = "realloc" ->
            <<Do("fill", NewBuffer, With(Entries(e), k))>>
            \o Commit(c, StoreEdge(p, Leaf(NewBuffer, n + 1))) \o Retire(e[1])
       [] InsertPlan(e) = "split" ->
            <<Do("build", NewNode, SplitNode(ToSet(Entries(e)) \cup {k}))>>
            \o Commit(c, StoreEdge(p, Branch(NewNode, FormFor(n + 1)))) \o Retire(e[1])

(* At a branch below the top one: its incoming edge counts the new key too. *)
BranchInsert(c, p, e, k) ==
  LET nd == mem.node[e[1]]
      up == Branch(NewNode, "L7")
  IN IF nd.num < Cap(e)
     THEN OpenSlot(e[1], nd, Lo[k], k) \o Bracket(c, StoreEdge(p, e))
     ELSE Bracket(c, Replace(e[1], NewNode) \o StoreEdge(p, up))
          \o OpenSlot(NewNode, nd, Lo[k], k) \o Bracket(c, StoreEdge(p, up))

(* The key set below an edge of the top branch. *)
TerminalKeys(e) == CASE Tag(e) = "null" -> {}
                     [] Tag(e) = "imm" -> ToSet(e[1])
                     [] Tag(e) = "leaf" -> ToSet(Entries(e))
ChildKeys(e) ==
  IF IsBranch(e)
  THEN UNION {TerminalKeys(mem.node[e[1]].edges[i]) : i \in 1 .. mem.node[e[1]].num}
  ELSE TerminalKeys(e)

EngineInsert(k) ==
  LET b == mem.pub[1]
      nd == mem.node[b]
      s == Slot(nd, nd.num, Hi[k])
      same(ops) == [ops |-> ops, top |-> mem.pub]
  IN CASE s = 0 /\ nd.num < Cap(mem.pub) -> same(OpenSlot(b, nd, Hi[k], k))
       [] s = 0 /\ nd.num >= Cap(mem.pub) ->
            [ops |-> Replace(b, NewNode) \o OpenSlot(NewNode, nd, Hi[k], k),
             top |-> Branch(NewNode, "L7")]
       [] s # 0 /\ k \in ChildKeys(nd.edges[s]) -> same(<< >>)
       [] s # 0 /\ k \notin ChildKeys(nd.edges[s]) ->
            same(IF IsBranch(nd.edges[s]) THEN BranchInsert(b, <<b, s>>, nd.edges[s], k)
                 ELSE TerminalInsert(b, <<b, s>>, nd.edges[s], k))

(* remove_occ at an immediate or a leaf: a leaf stays one down to ImmMax keys. *)
TerminalRemove(c, p, e, k) ==
  LET n == e[2][2]
      put(x) == Commit(c, StoreEdge(p, x))
  IN CASE Tag(e) = "imm" /\ n = 1 -> put(Null)
       [] Tag(e) = "imm" /\ n > 1 -> put(Imm(Without(e[1], k)))
       [] Tag(e) = "leaf" /\ n > ImmMax ->
            IF CapClass[n - 1] = CapClass[n]
            THEN Commit(c, SetRemoveAt(e[1], Entries(e), k) \o StoreEdge(p, Leaf(e[1], n - 1)))
            ELSE <<Do("fill", NewBuffer, Without(Entries(e), k))>>
                 \o put(Leaf(NewBuffer, n - 1)) \o Retire(e[1])
       [] Tag(e) = "leaf" /\ n <= ImmMax /\ n = 1 -> put(Null) \o Retire(e[1])
       [] Tag(e) = "leaf" /\ n <= ImmMax /\ n > 1 ->
            put(Imm(Without(Entries(e), k))) \o Retire(e[1])

(* At a branch below the top one: null the child, close its slot, then the
   incoming edge: freed when empty, shrunk below SmallCap, or counted down. *)
BranchRemove(c, p, e, k) ==
  LET b == e[1]
      nd == mem.node[b]
      s == Slot(nd, nd.num, Lo[k])
      left == nd.num - 1
      tail == CASE left = 0 -> <<Do("obsolete", b, 0)>> \o Retire(b) \o StoreEdge(p, Null)
                [] left > 0 /\ Tag(e) = "L7" /\ left < SmallCap ->
                     Replace(b, NewNode) \o StoreEdge(p, Branch(NewNode, "L3"))
                [] left > 0 /\ (Tag(e) = "L3" \/ left >= SmallCap) -> StoreEdge(p, e)
  IN TerminalRemove(b, <<b, s>>, nd.edges[s], k)
     \o Bracket(b, LinearRemove(b, nd, s)) \o Bracket(c, tail)

EngineRemove(k) ==
  LET b == mem.pub[1]
      nd == mem.node[b]
      s == Slot(nd, nd.num, Hi[k])
      e == nd.edges[s]
      child == IF IsBranch(e) THEN BranchRemove(b, <<b, s>>, e, k)
               ELSE TerminalRemove(b, <<b, s>>, e, k)
      emptied == ChildKeys(e) = {k}
      shrinks == emptied /\ Tag(mem.pub) = "L7" /\ nd.num - 1 < SmallCap
  IN IF s = 0 \/ k \notin ChildKeys(e) THEN [ops |-> << >>, top |-> mem.pub]
     ELSE [ops |-> child \o (IF emptied THEN Bracket(b, LinearRemove(b, nd, s)) ELSE << >>)
                         \o (IF shrinks THEN Replace(b, NewNode) ELSE << >>),
           top |-> IF shrinks THEN Branch(NewNode, "L3") ELSE mem.pub]

TreeKeys ==
  UNION {ChildKeys(mem.node[mem.pub[1]].edges[i]) : i \in 1 .. mem.node[mem.pub[1]].num}

(* write_root_covered_with: the tree word, the engine, the published root, the
   tree word. *)
SectionScript(t) ==
  LET r == IF Op(t) = "insert" THEN EngineInsert(Key(t)) ELSE EngineRemove(Key(t))
  IN <<Do("word", Root, 0)>> \o r.ops
     \o <<Do("topptr", Root, r.top[1]), Do("topaux", Root, r.top[2]), Do("word", Root, 0)>>

(* The section mutex and the gate. *)
Close(t) ==
  /\ At(t, "close") /\ closed = NoThread /\ closed' = t
  /\ Goto(t, "drain")
  /\ UNCHANGED <<mem, calls, ghosts>>

(* No mutation is admitted any more: a lookup that gave up reads, a mutation
   starts its stores. *)
Drain(t) ==
  /\ At(t, "drain") /\ \A u \in Threads : ~ th[u].admitted
  /\ \/ /\ t \in Readers /\ Answer(t, Key(t) \in TreeKeys) /\ closed' = NoThread
     \/ /\ t \notin Readers
        /\ Set(t, [th[t] EXCEPT !.pc = "store", !.script = SectionScript(t)])
        /\ UNCHANGED <<mem, closed, ghosts>>
  /\ UNCHANGED calls

(* The collector, by what it promises: a retired block is reclaimed once every
   thread pinned at its retirement has unpinned. *)
Reclaim(b) ==
  /\ mem.status[b] = "retired" /\ mem.waits[b] = {}
  /\ mem' = FreeUnpublished(mem, b)
  /\ UNCHANGED <<th, closed, calls, ghosts>>

Finished == (\A t \in Threads : At(t, "rest") /\ calls[t] = {}) /\ UNCHANGED vars

Step(t) ==
  \/ Call(t) \/ Enter(t) \/ Try(t) \/ Sample(t) \/ LoadPtr(t) \/ LoadAux(t) \/ Follow(t)
  \/ SampleNode(t) \/ LoadMeta(t) \/ LoadDigits(t) \/ Absent(t) \/ Scan(t) \/ Decide(t)
  \/ Copy(t) \/ Copied(t) \/ Alloc(t) \/ Lock(t) \/ Recheck(t) \/ Store(t) \/ Stored(t)
  \/ Close(t) \/ Drain(t)

Next == (\E t \in Threads : Step(t)) \/ (\E b \in Blocks : Reclaim(b)) \/ Finished

Spec == Init /\ [][Next]_vars

------------------------------------------------------------------------------
(* Properties. *)

(* The calls are those of an atomic set: each changes the contents at one
   moment, and each answer, an unlocked lookup's included, was true at some
   moment of its call. *)
AtomicSetSpec == A!Spec

Mutating(t) == th[t].pc \in {"recheck", "store"}
Quiet == \A t \in Threads : ~ Mutating(t)

Increasing(s) == \A i, j \in DOMAIN s : i < j => s[i] < s[j]
Terminal(e) == CASE Tag(e) = "imm" -> e[1]
                 [] Tag(e) = "leaf" -> Entries(e)
                 [] Tag(e) = "null" -> << >>

Fits(e, d, D) ==
  LET s == Terminal(e) IN s # << >> /\ Increasing(s) /\ \A i \in DOMAIN s : D[s[i]] = d
Digits(nd) == SubSeq(nd.digits, 1, nd.num)

(* Between mutations the words spell the contents: every key is in the slot of
   its digit, in order and once, no slot is empty, no version is odd. *)
TreeSpellsKeys ==
  Quiet =>
    LET top == mem.node[mem.pub[1]] IN
    /\ TreeKeys = keys
    /\ mem.word % 2 = 0 /\ top.ver % 2 = 0 /\ Increasing(Digits(top)) /\ top.num <= Cap(mem.pub)
    /\ \A i \in 1 .. top.num :
         LET e == top.edges[i] IN
         IF IsBranch(e)
         THEN LET nd == mem.node[e[1]] IN
              /\ nd.ver % 2 = 0 /\ Increasing(Digits(nd)) /\ 0 < nd.num /\ nd.num <= Cap(e)
              /\ ChildKeys(e) \subseteq Under(Keys, top.digits[i])
              /\ \A j \in 1 .. nd.num : Fits(nd.edges[j], nd.digits[j], Lo)
         ELSE Fits(e, top.digits[i], Hi)

Pointers(e) == {e[1]} \cap Blocks
TreeBlocks ==
  LET below(b) == UNION {Pointers(mem.node[b].edges[i]) : i \in 1 .. mem.node[b].num}
      top == mem.pub[1]
  IN {top} \cup below(top) \cup UNION {below(b) : b \in below(top) \cap Nodes}

(* Nothing leaks and nothing in use is retired: between mutations the live
   blocks are those of the tree and those a mutation has allocated. *)
BlocksOwned ==
  Quiet => {b \in Blocks : mem.status[b] = "live"} =
             TreeBlocks \cup ({th[t].buf : t \in Threads} \ {NoBlock})

(* Blocks a walk may load from next. *)
References(t) ==
  LET l == th[t]
  IN ({l.cover, l.edge[1]} \cup (IF l.place = Root THEN {} ELSE {l.place[1]})) \cap Blocks

(* No walk holds a pointer to a reclaimed block; the block a section retires
   before it replaces the edge is the case in point. *)
NoDanglingPointer ==
  \A t \in Threads : \A b \in References(t) : mem.status[b] # "free"

(* The version expected by the exchange makes the look at the edge and at the
   count under the lock succeed. *)
LockFindsEdge == \A t \in Threads : At(t, "recheck") => Unchanged(t)
==============================================================================
