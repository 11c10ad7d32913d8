------------------------------- MODULE MemTable -------------------------------
(* The RocksDB memtable: a chain of sorted leaf blocks, each behind a         *)
(* sequence version, and a trie from key prefixes to blocks.  One writer at a *)
(* time, under mutex_; readers take the mutex for as much of the locate phase *)
(* as seek_lock_scope_ says, and nothing after it.  One step is one load or   *)
(* store that the other side may see; memory is sequentially consistent.      *)
EXTENDS Integers, FiniteSets, Sequences

CONSTANTS Entries,            \* the keys, as ranks in the comparator's order
          UserOf, PrefixOf,   \* an entry's user key, and the prefix the trie holds
          Readers, Ops,       \* who reads, and the calls they make
          Shapes,             \* pairs of seek_lock_scope_ and leaf_capacity_
          Batch               \* max_keys of a ScanBatch

Null == 0
HeadBlock == 1
Blocks == 1 .. Cardinality(Entries) + 1
Slots == 0 .. Cardinality(Entries)
Prefixes == {PrefixOf[e] : e \in Entries}
KeyOps == {"get", "contains", "seek", "seekprev"}
StepOps == {"next", "prev", "scan"}

ASSUME MemTableAssumption ==
  /\ Entries \subseteq Nat \ {0} /\ IsFiniteSet(Entries)
  /\ UserOf \in [Entries -> Nat] /\ PrefixOf \in [Entries -> Nat]
  /\ \A d, e \in Entries : d < e => UserOf[d] <= UserOf[e] /\ PrefixOf[d] <= PrefixOf[e]
  /\ \A d, e \in Entries : UserOf[d] = UserOf[e] => PrefixOf[d] = PrefixOf[e]
  /\ Ops \subseteq KeyOps \cup StepOps \cup {"first", "last", "valid"}
  /\ Shapes \subseteq {"full", "trie", "optimistic"} \X (Nat \ {0})
  /\ Batch \in Nat \ {0}

VARIABLES
  scope, cap,                      \* fixed when the memtable is built
  version, count, entries,         \* of each block
  prev, next, tail, used,          \* the chain, and how many blocks are allocated
  trie,
  wpc, ins,                        \* the holder of mutex_ and its local variables
  visible,                         \* history: the entries inserted
  rpc, loc,                        \* each reader's position and local variables
  pos                              \* each reader's iterator

blocks == <<version, count, entries>>
chain == <<prev, next, tail, used>>
writer == <<wpc, ins, visible>>
table == <<scope, cap, blocks, chain, trie, writer>>
reader == <<rpc, loc, pos>>
vars == <<table, reader>>

NoInsert == [e |-> Null, b |-> Null, left |-> 0, i |-> 0, new |-> Null]
NoPosition == [leaf |-> Null, slot |-> -1, ver |-> 0, anchor |-> Null]
Nothing == [torn |-> FALSE, slot |-> -1, list |-> << >>, at |-> Null]

(* A call: what was asked, from where; what it looks for and why (goal, and the
   stage of an iterator call that the search serves); the block it is at; what a
   bracket has read; the answer. *)
NoLocals == [op |-> "none", key |-> Null, since |-> {}, from |-> Null,
             target |-> Null, goal |-> "none", stage |-> "none",
             blk |-> Null, nxt |-> Null, v |-> 0, n |-> 0, got |-> Nothing,
             out |-> << >>, found |-> FALSE, stopped |-> FALSE]

Init ==
  /\ \E shape \in Shapes : scope = shape[1] /\ cap = shape[2]
  /\ version = [b \in Blocks |-> 0] /\ count = [b \in Blocks |-> 0]
  /\ entries = [b \in Blocks |-> [i \in Slots |-> Null]]
  /\ prev = [b \in Blocks |-> Null] /\ next = [b \in Blocks |-> Null]
  /\ tail = HeadBlock /\ used = 1
  /\ trie = [p \in Prefixes |-> Null]
  /\ wpc = "idle" /\ ins = NoInsert /\ visible = {}
  /\ rpc = [r \in Readers |-> "idle"] /\ loc = [r \in Readers |-> NoLocals]
  /\ pos = [r \in Readers |-> NoPosition]

------------------------------------------------------------------------------
min_key(b) == IF count[b] > 0 THEN entries[b][0] ELSE Null

(* The block mapped at the greatest prefix at or before the key's; else the head. *)
TrieCandidate(k) ==
  LET below == {p \in Prefixes : p <= PrefixOf[k] /\ trie[p] # Null}
  IN IF below = {} THEN HeadBlock ELSE trie[CHOOSE p \in below : \A q \in below : q <= p]

(* The leaf walk, with the mutex held: back while the block starts after the
   key, then forward.  A seek passes over an empty block, an insert stops at it. *)
Settle(b, k, passEmpty) ==
  LET Back[c \in Blocks] ==
        IF prev[c] # Null /\ min_key(c) # Null /\ min_key(c) > k THEN Back[prev[c]] ELSE c
      Forward[c \in Blocks] ==
        LET d == next[c] IN
        IF d # Null /\ (IF min_key(d) = Null THEN passEmpty ELSE min_key(d) <= k)
        THEN Forward[d] ELSE c
  IN Forward[Back[b]]

FindLeafBlock(k, passEmpty) ==
  IF tail = HeadBlock THEN HeadBlock ELSE Settle(TrieCandidate(k), k, passEmpty)

(* Mutant: the comparison the other way round. *)
BinarySearchInverted(b, n, k, strict) ==
  LET Go[w \in Slots \X Slots] ==
        LET l == w[1]  r == w[2]  mid == l + (r - l) \div 2  e == entries[b][mid] IN
        IF l >= r THEN l
        ELSE IF e = Null THEN -1
        ELSE IF e < k \/ (e = k /\ ~ strict) THEN Go[<<l, mid>>] ELSE Go[<<mid + 1, r>>]
  IN Go[<<0, n>>]

(* The first of n slots that holds the key or a greater one (with strict, a
   greater one); -1 when a slot it looks at is null. *)
BinarySearch(b, n, k, strict) ==
  LET Go[w \in Slots \X Slots] ==
        LET l == w[1]  r == w[2]  mid == l + (r - l) \div 2  e == entries[b][mid] IN
        IF l >= r THEN l
        ELSE IF e = Null THEN -1
        ELSE IF e > k \/ (e = k /\ ~ strict) THEN Go[<<l, mid>>] ELSE Go[<<mid + 1, r>>]
  IN Go[<<0, n>>]

------------------------------------------------------------------------------
(* Insert.  InsertBegin takes mutex_ and finds the block and the slot. *)

Store(b, i, e) == entries' = [entries EXCEPT ![b][i] = e]
SetCount(b, n) == count' = [count EXCEPT ![b] = n]

(* Mutant: the version is a busy flag, not a counter. *)
BumpToggles(b) == version' = [version EXCEPT ![b] = 1 - @]

Bump(b) == version' = [version EXCEPT ![b] = @ + 1]
Goto(pc) == wpc' = pc /\ ins' = IF pc = "idle" THEN NoInsert ELSE ins

(* Insert's last statement. *)
SplitIfFull == Goto(IF count[ins.b] >= cap THEN "split" ELSE "idle")

InsertBegin(e) ==
  LET b == FindLeafBlock(e, FALSE) IN
  /\ wpc = "idle" /\ e \notin visible
  /\ ins' = [NoInsert EXCEPT !.e = e, !.b = b, !.left = BinarySearch(b, count[b], e, FALSE)]
  /\ wpc' = "open"
  /\ UNCHANGED <<scope, cap, blocks, chain, trie, visible, reader>>

InsertOpen ==
  /\ wpc = "open" /\ Bump(ins.b)
  /\ wpc' = "shift" /\ ins' = [ins EXCEPT !.i = count[ins.b]]
  /\ UNCHANGED <<scope, cap, count, entries, chain, trie, visible, reader>>

InsertShift ==
  /\ wpc = "shift" /\ ins.i > ins.left
  /\ Store(ins.b, ins.i, entries[ins.b][ins.i - 1])
  /\ ins' = [ins EXCEPT !.i = @ - 1]
  /\ UNCHANGED <<scope, cap, version, count, chain, trie, wpc, visible, reader>>

InsertStore ==
  /\ wpc = "shift" /\ ins.i = ins.left
  /\ Store(ins.b, ins.left, ins.e) /\ Goto("count")
  /\ UNCHANGED <<scope, cap, version, count, chain, trie, visible, reader>>

InsertCount ==
  /\ wpc = "count" /\ SetCount(ins.b, count[ins.b] + 1) /\ Goto("close")
  /\ UNCHANGED <<scope, cap, version, entries, chain, trie, visible, reader>>

InsertClose ==
  /\ wpc = "close" /\ Bump(ins.b)
  /\ visible' = visible \cup {ins.e}
  /\ IF ins.left = 0 THEN Goto("map") ELSE SplitIfFull
  /\ UNCHANGED <<scope, cap, count, entries, chain, trie, reader>>

InsertMap ==
  /\ wpc = "map" /\ trie' = [trie EXCEPT ![PrefixOf[ins.e]] = ins.b]
  /\ SplitIfFull
  /\ UNCHANGED <<scope, cap, blocks, chain, visible, reader>>

------------------------------------------------------------------------------
(* SplitLeafBlock: the upper half moves to a new block, nobody else's until it
   is linked. *)

SplitOpen ==
  LET b == ins.b  new == used + 1  mid == count[b] \div 2  moved == count[b] - mid IN
  /\ wpc = "split" /\ Bump(b)
  /\ used' = new
  /\ entries' = [entries EXCEPT ![new] =
                   [i \in Slots |-> IF i < moved THEN entries[b][mid + i] ELSE Null]]
  /\ SetCount(new, moved)
  /\ wpc' = "splitcount" /\ ins' = [ins EXCEPT !.new = new, !.i = mid]
  /\ UNCHANGED <<scope, cap, prev, next, tail, trie, visible, reader>>

SplitCount ==
  /\ wpc = "splitcount" /\ SetCount(ins.b, ins.i) /\ Goto("null")
  /\ UNCHANGED <<scope, cap, version, entries, chain, trie, visible, reader>>

SplitNull ==
  LET last == count[ins.b] + count[ins.new] - 1 IN
  /\ wpc = "null" /\ Store(ins.b, ins.i, Null)
  /\ IF ins.i = last THEN Goto("linkback")
     ELSE ins' = [ins EXCEPT !.i = @ + 1] /\ UNCHANGED wpc
  /\ UNCHANGED <<scope, cap, version, count, chain, trie, visible, reader>>

(* Mutant: the block after the new one keeps its prev_leaf. *)
BackLinksOneWay(b, new, old) == [prev EXCEPT ![new] = b]

BackLinks(b, new, old) ==
  [c \in Blocks |-> IF c = new THEN b ELSE IF c = old THEN new ELSE prev[c]]

(* Mutant: the trie names the new block before the chain does. *)
SplitLinkBackMaps ==
  LET b == ins.b  new == ins.new  old == next[b] IN
  /\ wpc = "linkback" /\ Goto("link")
  /\ next' = [next EXCEPT ![new] = old]
  /\ prev' = BackLinks(b, new, old)
  /\ tail' = IF old = Null THEN new ELSE tail
  /\ trie' = [trie EXCEPT ![PrefixOf[min_key(new)]] = new]
  /\ UNCHANGED <<scope, cap, blocks, used, visible, reader>>

(* The new block's own links, then prev_leaf of the block after it, or tail_. *)
SplitLinkBack ==
  LET b == ins.b  new == ins.new  old == next[b] IN
  /\ wpc = "linkback" /\ Goto("link")
  /\ next' = [next EXCEPT ![new] = old]
  /\ prev' = BackLinks(b, new, old)
  /\ tail' = IF old = Null THEN new ELSE tail
  /\ UNCHANGED <<scope, cap, blocks, used, trie, visible, reader>>

SplitLink ==
  /\ wpc = "link" /\ Goto("splitmap")
  /\ next' = [next EXCEPT ![ins.b] = ins.new]
  /\ UNCHANGED <<scope, cap, blocks, prev, tail, used, trie, visible, reader>>

SplitMap ==
  /\ wpc = "splitmap" /\ Goto("splitclose")
  /\ trie' = [trie EXCEPT ![PrefixOf[min_key(ins.new)]] = ins.new]
  /\ UNCHANGED <<scope, cap, blocks, chain, visible, reader>>

SplitClose ==
  /\ wpc = "splitclose" /\ Bump(ins.b) /\ Goto("idle")
  /\ UNCHANGED <<scope, cap, count, entries, chain, trie, visible, reader>>

Write ==
  \/ \E e \in Entries : InsertBegin(e)
  \/ InsertOpen \/ InsertShift \/ InsertStore \/ InsertCount \/ InsertClose \/ InsertMap
  \/ SplitOpen \/ SplitCount \/ SplitNull \/ SplitLinkBack \/ SplitLink \/ SplitMap \/ SplitClose

------------------------------------------------------------------------------
(* Readers.  A call moves between steps with Run, which stores nothing a reader
   shares, and ends with Done, which keeps what was asked and answered. *)

Run(r, pc, l) ==
  rpc' = [rpc EXCEPT ![r] = pc] /\ loc' = [loc EXCEPT ![r] = l] /\ UNCHANGED table
Place(r, p) == pos' = [pos EXCEPT ![r] = p]

Asked(l) == [NoLocals EXCEPT !.op = l.op, !.key = l.key, !.since = l.since, !.from = l.from,
                             !.stage = l.stage, !.out = l.out]
Done(r, l) == Run(r, "done", [Asked(l) EXCEPT !.stage = "none", !.found = l.found,
                                              !.stopped = l.stopped])

Backward(l) == l.op \in {"prev", "seekprev"}

(* What follows a Seek or a RevalidatePosition that left the iterator at p:
   SeekForPrev asks Valid(), then key(), then steps back. *)
Resume(r, l, p) ==
  LET At(stage) == [Asked(l) EXCEPT !.stage = stage] IN
  CASE l.stage = "user" /\ l.op = "seekprev" -> Run(r, "reval", At("valid"))
    [] l.stage = "valid" -> IF p = NoPosition THEN Run(r, "tail", At("valid"))
                                              ELSE Run(r, "reval", At("key"))
    [] l.stage = "key" -> IF p.anchor = l.key THEN Done(r, l) ELSE Run(r, "reval", At("step"))
    [] l.stage = "step" /\ p # NoPosition ->
         Run(r, IF Backward(l) THEN "step" ELSE "count", At("step"))
    [] OTHER -> Done(r, l)

(* ScanBatch's loop; the other calls have one round. *)
NextRound(r, l) ==
  IF l.op = "scan" /\ Len(l.out) < Batch THEN Run(r, "reval", Asked(l)) ELSE Done(r, l)

(* Next, Prev and ScanBatch need a position.  Nothing that a seek, a Get or a
   Contains does depends on where an iterator was: they are made with a new one. *)
Begin(r, op, key) ==
  LET l == [NoLocals EXCEPT !.op = op, !.key = key, !.target = key,
                            !.since = visible, !.from = pos[r].anchor,
                            !.stage = IF op \in StepOps THEN "step" ELSE "user"]
  IN /\ rpc[r] = "idle" /\ (key # Null <=> op \in KeyOps)
     /\ IF op \in StepOps THEN pos[r] # NoPosition ELSE op = "valid" \/ pos[r] = NoPosition
     /\ CASE op \in {"get", "contains"} -> Run(r, "locate", [l EXCEPT !.goal = op])
          [] op \in {"seek", "seekprev"} -> Run(r, "locate", [l EXCEPT !.goal = "seek"])
          [] op = "first" -> Run(r, "open", [l EXCEPT !.goal = "first", !.blk = HeadBlock])
          [] op = "last" -> Run(r, "tail", l)
          [] OTHER -> Run(r, "reval", l)
     /\ UNCHANGED pos

Leave(r) ==
  /\ rpc[r] = "done" /\ Run(r, "idle", NoLocals) /\ UNCHANGED pos

GetIterator(r) ==
  /\ rpc[r] = "idle" /\ pos[r] # NoPosition
  /\ Place(r, NoPosition) /\ UNCHANGED <<table, rpc, loc>>

(* SeekToLast. *)
LoadTail(r) ==
  /\ rpc[r] = "tail"
  /\ Run(r, "open", [loc[r] EXCEPT !.goal = "last", !.blk = tail]) /\ UNCHANGED pos

(* RevalidatePosition: the version is the anchor's, or the anchor is sought. *)
Revalidate(r) ==
  LET l == loc[r]  p == pos[r] IN
  /\ rpc[r] = "reval"
  /\ IF p = NoPosition \/ version[p.leaf] = p.ver
     THEN Resume(r, l, p)
     ELSE Run(r, "locate", [l EXCEPT !.target = p.anchor, !.goal = "seek"])
  /\ UNCHANGED pos

------------------------------------------------------------------------------
(* FindLeafBlockForSeek.  The mutex is free when no insert is under way. *)

LocateFull(r) ==
  /\ rpc[r] = "locate" /\ scope = "full" /\ wpc = "idle"
  /\ Run(r, "open", [loc[r] EXCEPT !.blk = FindLeafBlock(loc[r].target, TRUE)])
  /\ UNCHANGED pos

LocateTrie(r) ==
  /\ rpc[r] = "locate" /\ scope = "trie" /\ wpc = "idle"
  /\ IF tail = HeadBlock THEN Run(r, "open", [loc[r] EXCEPT !.blk = HeadBlock])
     ELSE Run(r, "back", [loc[r] EXCEPT !.blk = TrieCandidate(loc[r].target)])
  /\ UNCHANGED pos

LocateTail(r) ==
  /\ rpc[r] = "locate" /\ scope = "optimistic"
  /\ IF tail = HeadBlock THEN Run(r, "open", [loc[r] EXCEPT !.blk = HeadBlock])
     ELSE Run(r, "mapped", loc[r])
  /\ UNCHANGED pos

LocateMapped(r) ==
  /\ rpc[r] = "mapped"
  /\ Run(r, "back", [loc[r] EXCEPT !.blk = TrieCandidate(loc[r].target)])
  /\ UNCHANGED pos

(* Mutant: the walk trusts the trie and only goes forward. *)
SettleBackNever(r) == rpc[r] = "back" /\ Run(r, "forward", loc[r]) /\ UNCHANGED pos

(* SettleSeekCandidate, without the mutex. *)
SettleBack(r) ==
  LET l == loc[r]  b == l.blk IN
  /\ rpc[r] = "back"
  /\ Run(r, IF prev[b] # Null /\ min_key(b) # Null /\ min_key(b) > l.target
            THEN "stepback" ELSE "forward", l)
  /\ UNCHANGED pos

StepBack(r) ==
  /\ rpc[r] = "stepback"
  /\ Run(r, "back", [loc[r] EXCEPT !.blk = prev[@]]) /\ UNCHANGED pos

SettleNext(r) ==
  LET l == loc[r]  b == next[l.blk] IN
  /\ rpc[r] = "forward"
  /\ IF b = Null THEN Run(r, "open", l) ELSE Run(r, "compare", [l EXCEPT !.nxt = b])
  /\ UNCHANGED pos

(* An empty block is passed over: Null is below every key. *)
SettleForward(r) ==
  LET l == loc[r]  m == min_key(l.nxt) IN
  /\ rpc[r] = "compare"
  /\ IF m <= l.target THEN Run(r, "forward", [l EXCEPT !.blk = l.nxt, !.nxt = Null])
     ELSE Run(r, "open", [l EXCEPT !.nxt = Null])
  /\ UNCHANGED pos

------------------------------------------------------------------------------
(* A bracket: an even version and the count, then the entries, then the version
   again. *)

Open(r) ==
  LET b == loc[r].blk IN
  /\ rpc[r] = "open" /\ version[b] % 2 = 0
  /\ Run(r, "read", [loc[r] EXCEPT !.v = version[b], !.n = count[b]]) /\ UNCHANGED pos

(* The entry in a slot of the n in use. *)
EntryAt(b, s, n) ==
  LET in == s \in 0 .. n - 1 IN
  [Nothing EXCEPT !.slot = s, !.at = IF in THEN entries[b][s] ELSE Null,
                  !.torn = in /\ entries[b][s] = Null]

(* The search of Seek and Contains for an encoded key; SliceSeek has the branch
   for a slice. *)
Sought(b, n, k) ==
  LET s == BinarySearch(b, n, k, FALSE) IN [EntryAt(b, s, n) EXCEPT !.torn = @ \/ s = -1]

(* Mutant: every block is scanned from the lookup key. *)
FirstMatchAgain(l) == BinarySearch(l.blk, l.n, l.key, FALSE)

(* Get looks from the lookup key on; GetAfterDelivered after the last delivered. *)
FirstMatch(l) ==
  IF l.out = << >> THEN BinarySearch(l.blk, l.n, l.key, FALSE)
                   ELSE BinarySearch(l.blk, l.n, l.out[Len(l.out)], TRUE)

(* The versions of the user key from there; at is the entry that ends them. *)
Matches(l) ==
  LET e == entries[l.blk]  s == FirstMatch(l)
      ends == {i \in s .. l.n - 1 : e[i] = Null \/ UserOf[e[i]] # UserOf[l.key]}
      end == IF ends = {} THEN l.n ELSE CHOOSE i \in ends : \A j \in ends : i <= j
  IN IF s = -1 THEN [Nothing EXCEPT !.torn = TRUE]
     ELSE [EntryAt(l.blk, end, l.n) EXCEPT !.list = [i \in 1 .. end - s |-> e[s + i - 1]]]

Bracket(l) ==
  CASE l.goal = "get" -> Matches(l)
    [] l.goal \in {"contains", "seek"} -> Sought(l.blk, l.n, l.target)
    [] l.goal = "first" -> EntryAt(l.blk, 0, l.n)
    [] l.goal = "last" -> EntryAt(l.blk, l.n - 1, l.n)

Read(r) ==
  /\ rpc[r] = "read"
  /\ Run(r, "check", [loc[r] EXCEPT !.got = Bracket(loc[r])]) /\ UNCHANGED pos

Close(l) == [l EXCEPT !.v = 0, !.n = 0, !.got = Nothing]

(* Mutant: the version is not read again. *)
ValidatedBlind(l) == ~ l.got.torn

Validated(l) == version[l.blk] = l.v /\ ~ l.got.torn

CheckFailed(r) ==
  /\ rpc[r] = "check" /\ ~ Validated(loc[r])
  /\ Run(r, "open", Close(loc[r])) /\ UNCHANGED pos

CheckContains(r) ==
  LET l == loc[r] IN
  /\ rpc[r] = "check" /\ l.goal = "contains" /\ Validated(l)
  /\ IF l.got.at = l.key THEN Done(r, [l EXCEPT !.found = TRUE]) ELSE Run(r, "max", Close(l))
  /\ UNCHANGED pos

(* The callbacks: all the matches, or as many as it takes one to say stop. *)
CheckGet(r) ==
  LET l == loc[r]  m == l.got.list  all == [Close(l) EXCEPT !.out = @ \o m] IN
  /\ rpc[r] = "check" /\ l.goal = "get" /\ Validated(l)
  /\ \/ Run(r, "hop", all) /\ l.got.at = Null
     \/ Done(r, all) /\ l.got.at # Null
     \/ \E i \in DOMAIN m :
          Done(r, [l EXCEPT !.out = @ \o SubSeq(m, 1, i), !.stopped = TRUE])
  /\ UNCHANGED pos

Landing(l) == [leaf |-> l.blk, slot |-> l.got.slot, ver |-> l.v, anchor |-> l.got.at]

CheckSeek(r) ==
  LET l == loc[r] IN
  /\ rpc[r] = "check" /\ l.goal = "seek" /\ Validated(l)
  /\ IF l.got.at # Null THEN Place(r, Landing(l)) /\ Resume(r, l, Landing(l))
     ELSE Run(r, "hop", Close(l)) /\ UNCHANGED pos

(* Mutant: an empty block is positioned on as well. *)
CheckEdgeEmpty(r) ==
  LET l == loc[r] IN
  /\ rpc[r] = "check" /\ l.goal \in {"first", "last"} /\ Validated(l)
  /\ Place(r, Landing(l)) /\ NextRound(r, l)

(* PositionAtEdge. *)
CheckEdge(r) ==
  LET l == loc[r] IN
  /\ rpc[r] = "check" /\ l.goal \in {"first", "last"} /\ Validated(l)
  /\ IF l.got.at # Null THEN Place(r, Landing(l)) /\ NextRound(r, l)
     ELSE Run(r, "hop", Close(l)) /\ UNCHANGED pos

(* Contains leaves when the key is below the block's last, read after the
   bracket. *)
MaxCount(r) ==
  LET n == count[loc[r].blk] IN
  /\ rpc[r] = "max"
  /\ Run(r, IF n = 0 THEN "hop" ELSE "maxkey", [loc[r] EXCEPT !.n = n]) /\ UNCHANGED pos

MaxKey(r) ==
  LET l == loc[r]  m == entries[l.blk][l.n - 1] IN
  /\ rpc[r] = "maxkey"
  /\ IF m # Null /\ l.key < m THEN Done(r, l) ELSE Run(r, "hop", Close(l))
  /\ UNCHANGED pos

(* The neighbour, or the end of the chain. *)
Hop(r) ==
  LET l == loc[r]  b == IF l.goal = "last" THEN prev[l.blk] ELSE next[l.blk] IN
  /\ rpc[r] = "hop"
  /\ \/ b # Null /\ Run(r, "open", [l EXCEPT !.blk = b]) /\ UNCHANGED pos
     \/ b = Null /\ l.goal \in {"get", "contains"} /\ Done(r, l) /\ UNCHANGED pos
     \/ b = Null /\ l.goal = "seek" /\ Place(r, NoPosition) /\ Resume(r, l, NoPosition)
     \/ b = Null /\ l.goal \in {"first", "last"} /\ Place(r, NoPosition) /\ Done(r, l)

------------------------------------------------------------------------------
(* Next, Prev and ScanBatch: the step is read in the bracket that
   RevalidatePosition matched. *)

StepCount(r) ==
  /\ rpc[r] = "count"
  /\ Run(r, "step", [loc[r] EXCEPT !.n = count[pos[r].leaf]]) /\ UNCHANGED pos

(* ScanBatch's chunk, and the entry after it. *)
Chunk(l, p) ==
  LET room == Batch - Len(l.out)
      take == IF p.slot >= l.n THEN 0 ELSE IF l.n - p.slot < room THEN l.n - p.slot ELSE room
      list == [i \in 1 .. take |-> entries[p.leaf][p.slot + i - 1]]
  IN [EntryAt(p.leaf, p.slot + take, l.n) EXCEPT
        !.list = list, !.torn = @ \/ \E i \in 1 .. take : list[i] = Null]

StepRead(r) ==
  LET l == loc[r]  p == pos[r] IN
  /\ rpc[r] = "step"
  /\ Run(r, "stepcheck", [l EXCEPT !.got =
       CASE l.op = "next" -> EntryAt(p.leaf, p.slot + 1, l.n)
         [] l.op = "scan" -> Chunk(l, p)
         [] Backward(l) -> EntryAt(p.leaf, p.slot - 1, p.slot)])
  /\ UNCHANGED pos

StepCheck(r) ==
  LET l == loc[r]  p == pos[r]  got == l.got
      out == [Close(l) EXCEPT !.out = @ \o got.list] IN
  /\ rpc[r] = "stepcheck"
  /\ \/ /\ got.torn \/ version[p.leaf] # p.ver
        /\ Run(r, "reval", Close(l)) /\ UNCHANGED pos
     \/ /\ ~ got.torn /\ version[p.leaf] = p.ver /\ got.at # Null
        /\ Place(r, [p EXCEPT !.slot = got.slot, !.anchor = got.at])
        /\ NextRound(r, out)
     \/ /\ ~ got.torn /\ version[p.leaf] = p.ver /\ got.at = Null
        /\ Run(r, "hop", [out EXCEPT !.blk = p.leaf,
                                     !.goal = IF Backward(l) THEN "last" ELSE "first"])
        /\ UNCHANGED pos

------------------------------------------------------------------------------
Call(r) ==
  \/ \E op \in Ops, key \in Entries \cup {Null} : Begin(r, op, key)
  \/ GetIterator(r) \/ LoadTail(r) \/ Revalidate(r)
  \/ LocateFull(r) \/ LocateTrie(r) \/ LocateTail(r) \/ LocateMapped(r)
  \/ SettleBack(r) \/ StepBack(r) \/ SettleNext(r) \/ SettleForward(r)
  \/ Open(r) \/ Read(r) \/ CheckFailed(r) \/ CheckContains(r) \/ CheckGet(r)
  \/ CheckSeek(r) \/ CheckEdge(r) \/ MaxCount(r) \/ MaxKey(r) \/ Hop(r)
  \/ StepCount(r) \/ StepRead(r) \/ StepCheck(r) \/ Leave(r)

Next == Write \/ \E r \in Readers : Call(r)

Spec == Init /\ [][Next]_vars

------------------------------------------------------------------------------
(* Properties. *)

(* Blocks, slots, versions and every local variable stay within their ranges. *)
TypeOK ==
  /\ <<scope, cap>> \in Shapes
  /\ version \in [Blocks -> Nat] /\ count \in [Blocks -> Slots]
  /\ entries \in [Blocks -> [Slots -> Entries \cup {Null}]]
  /\ prev \in [Blocks -> Blocks \cup {Null}] /\ next \in [Blocks -> Blocks \cup {Null}]
  /\ tail \in Blocks /\ used \in Blocks
  /\ trie \in [Prefixes -> Blocks \cup {Null}]
  /\ visible \subseteq Entries
  /\ ins.b \in Blocks \cup {Null} /\ ins.new \in Blocks \cup {Null}
  /\ ins.left \in Slots /\ ins.i \in Slots
  /\ \A r \in Readers : LET l == loc[r]  p == pos[r] IN
       /\ l.blk \in Blocks \cup {Null} /\ l.nxt \in Blocks \cup {Null} /\ l.n \in Slots
       /\ l.got.at \in Entries \cup {Null}
       /\ \A i \in DOMAIN l.out : l.out[i] \in Entries
       /\ p = NoPosition \/ (p.leaf \in Blocks /\ p.slot \in Slots /\ p.anchor \in Entries)

(* The blocks from the head on, in the order of next_leaf. *)
Chain ==
  LET Walk[n \in 0 .. Cardinality(Blocks)] ==
        IF n = 0 THEN <<HeadBlock>>
        ELSE LET s == Walk[n - 1]  b == next[s[Len(s)]] IN IF b = Null THEN s ELSE Append(s, b)
  IN Walk[Cardinality(Blocks)]

Held(b) == {entries[b][i] : i \in 0 .. count[b] - 1}

(* With mutex_ free the chain spells the entries: they ascend along the blocks
   and within them, none is lost or repeated, only the head may be empty, and
   prev_leaf and tail_ are the chain read backwards. *)
ChainExact ==
  wpc = "idle" =>
    LET c == Chain IN
    /\ UNION {Held(c[i]) : i \in DOMAIN c} = visible
    /\ \A i, j \in DOMAIN c : i < j => \A d \in Held(c[i]), e \in Held(c[j]) : d < e
    /\ \A b \in Blocks : \A i \in 1 .. count[b] - 1 : entries[b][i - 1] < entries[b][i]
    /\ \A i \in 2 .. Len(c) : count[c[i]] > 0 /\ prev[c[i]] = c[i - 1]
    /\ prev[HeadBlock] = Null /\ tail = c[Len(c)]

(* At every step, between the stores of an insert and of a split as well, a block
   the trie names is in the chain and can be walked from: it is the head or has a
   first entry, and its prev_leaf is set (what SettleSeekCandidate relies on). *)
TrieReaches ==
  LET c == Chain IN
  \A p \in Prefixes : trie[p] # Null =>
    /\ \E i \in DOMAIN c : c[i] = trie[p]
    /\ trie[p] # HeadBlock => min_key(trie[p]) # Null /\ prev[trie[p]] # Null

(* A position whose version still matches names its anchor: no shift and no split
   can have touched the slot, so Next, Prev and ScanBatch may step from it. *)
Anchored ==
  \A r \in Readers : LET p == pos[r] IN
    p # NoPosition /\ version[p.leaf] = p.ver =>
      p.slot < count[p.leaf] /\ entries[p.leaf][p.slot] = p.anchor

(* A seek never passes its target: while it looks in a block, no earlier block of
   the chain holds an entry from the target on that was there when it was called. *)
NoneBehind ==
  \A r \in Readers : LET l == loc[r] IN
    rpc[r] \in {"open", "read", "check"} /\ l.goal = "seek" =>
      LET c == Chain IN
      \A i, j \in DOMAIN c : c[j] = l.blk /\ i < j =>
        \A e \in Held(c[i]) \cap l.since : e < l.target

(* Invariant 3 of SettleSeekCandidate: a block's first key never becomes greater,
   whatever a shift or a split stores. *)
MinNeverRises ==
  [][\A b \in Blocks : min_key(b) # Null => min_key(b)' <= min_key(b)]_vars

(* RevalidatePosition's re-seek lands on the anchor itself, in its block or in the
   one a split carried it to: it neither moves nor ends the cursor. *)
ReseekExact ==
  [][\A r \in Readers :
       loc[r].goal = "seek" /\ loc[r].target = pos[r].anchor /\ loc[r].stage # "user"
         => pos'[r].anchor = pos[r].anchor]_vars

(* Every call answers with what OrderedLog promises: no entry present at the call
   is missed, none is delivered twice by a Get, none is made up. *)
L == INSTANCE OrderedLog WITH
  present <- visible,
  call <- [r \in Readers |->
             IF rpc[r] = "idle" THEN [op |-> "none", key |-> 0, from |-> 0, since |-> {}]
             ELSE [op |-> loc[r].op, key |-> loc[r].key, from |-> loc[r].from,
                   since |-> loc[r].since]],
  cursor <- [r \in Readers |->
               IF rpc[r] \in {"idle", "done"} THEN pos[r].anchor ELSE loc[r].from],
  answer <- [r \in Readers |-> [ready |-> rpc[r] = "done",
               list |-> IF rpc[r] = "done" THEN loc[r].out ELSE << >>,
               found |-> rpc[r] = "done" /\ loc[r].found,
               stopped |-> rpc[r] = "done" /\ loc[r].stopped]]
Promise == L!Spec

(* A cursor call lands on the entry it names: Next past the one it was at, Prev on
   the greatest before it, SeekToLast and SeekForPrev on the greatest (at or before
   the key), and a batch gives out ascending entries and stops past them. *)
StepExact ==
  [][\A r \in Readers : rpc[r] # "done" /\ rpc'[r] = "done" =>
       LET l == loc[r]  out == loc'[r].out  at == pos'[r].anchor
           Reaches(S) == \A e \in S : at >= e
       IN /\ l.op = "next" => at = Null \/ at > l.from
          /\ l.op = "scan" => /\ \A i, j \in DOMAIN out : i < j => out[i] < out[j]
                             /\ \A i \in DOMAIN out : at = Null \/ at > out[i]
          /\ l.op = "prev" => Reaches({e \in l.since : e < l.from})
          /\ l.op = "last" => Reaches(l.since)
          /\ l.op = "seekprev" => at <= l.key /\ Reaches({e \in l.since : e <= l.key})]_vars
==============================================================================
