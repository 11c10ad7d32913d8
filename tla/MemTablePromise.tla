------------------------- MODULE MemTablePromise --------------------------
(* Proof that the memtable implements OrderedLog: every call of a reader answers  *)
(* with all that was inserted when it was made, while the writer shifts and       *)
(* splits the blocks it reads.                                                    *)
EXTENDS MemTableReads

------------------------------------------------------------------------------
(* Two more facts of the table. *)

(* A slot past the ones in use is null, but for the one that an insert is about to
   count and those that a split has moved and not cleared yet. *)
Spare ==
  \A b \in 1 .. used : \A j \in Slots :
    j >= count[b] /\ entries[b][j] # Null =>
      /\ b = ins.b
      /\ \/ wpc \in {"shift", "count"} /\ j = count[b] /\ (wpc = "shift" => ins.i < j)
         \/ /\ wpc = "null" /\ j \in ins.i .. count[b] + count[ins.new] - 1
            /\ entries[b][j] = entries[ins.new][j - count[b]]

(* The upper half of a split is larger by one at most. *)
Halved ==
  /\ wpc = "splitcount" => count[ins.new] <= ins.i + 1
  /\ wpc \in {"null", "linkback"} => count[ins.new] <= count[ins.b] + 1

(* The head has an entry and keeps one: what SeekToLast finds in a chain of one. *)
HeadStays ==
  /\ count[HeadBlock] > 0
  /\ ins.b = HeadBlock /\ wpc \in {"close", "map", "split"} => count[HeadBlock] > 1
  /\ ins.b = HeadBlock /\ wpc = "splitcount" => ins.i > 0

------------------------------------------------------------------------------
(* The invariant of a call. *)

(* The entries given out, and those that a call is still to find. *)
Given(l) == {l.out[i] : i \in DOMAIN l.out}
Due(l) ==
  {e \in l.since :
     /\ l.op = "get" => e >= l.key /\ UserOf[e] = UserOf[l.key]
     /\ l.op = "contains" => e = l.key
     /\ l.op = "next" => e > l.from
     /\ l.op = "scan" => e >= l.from
     /\ l.op \in {"get", "scan"} => e \notin Given(l)}

(* What is looked for, and why, is what the call was asked. *)
Serves(pc, l, p) ==
  /\ l.op \in Ops /\ ~ l.found /\ ~ l.stopped
  /\ l.op \in KeyOps => l.key \in Entries
  /\ l.goal \in {"get", "contains"} => l.op = l.goal /\ l.target = l.key
  /\ l.goal = "seek" => IF Reseeks(l) THEN l.target = p.anchor /\ p # NoPosition
                        ELSE l.op \in {"seek", "seekprev"} /\ l.target = l.key
  /\ l.goal = "first" => l.op \in {"first", "next", "scan"}
  /\ l.goal = "last" => l.op \in {"last", "prev", "seekprev"}
  /\ pc = "reval" => l.op \in StepOps \cup {"valid"} \/ (l.op = "seekprev" /\ l.stage # "user")
  /\ pc = "tail" => l.op \in {"last", "seekprev"}
  /\ l.op \in StepOps => l.stage = "step" /\ l.from \in Entries
  /\ l.op \notin StepOps \cup {"seekprev"} => l.stage = "user"

(* The iterator is where the call found it until it moves it past what it has
   given out and no further. *)
Rooted(l, p) ==
  /\ l.op \in {"get", "contains", "next", "prev", "valid"} => p.anchor = l.from
  /\ l.op \in StepOps => p # NoPosition
  /\ l.op \in {"next", "scan"} => \A e \in Due(l) : p.anchor <= e
  /\ l.op \in {"get", "scan"} => Given(l) \subseteq visible
  /\ l.op = "scan" => Len(l.out) <= Batch

(* What is due is in the block or after it; when the block is left, after it, and
   its last key is asked for only when it had one. *)
Ahead(pc, l) ==
  l.goal \in {"get", "contains", "first"} =>
    /\ pc \in {"open", "read", "check"} => \A e \in Due(l) : low(l.blk) <= e
    /\ pc \in {"hop", "max", "maxkey"} =>
         \A e \in Due(l) : \E c \in Linked : low(l.blk) < low(c) /\ low(c) <= e
    /\ pc = "maxkey" => l.n # 0

(* What is due and in the block is in the list read, or no earlier than the entry
   that ends it. *)
Sees(g, e) == (\E i \in DOMAIN g.list : g.list[i] = e) \/ (g.at # Null /\ g.at <= e)
SeesAll(l, b) == \A e \in Due(l) : e \in Held(b) => Sees(l.got, e)

Noted(pc, l) ==
  pc = "check" /\ version[l.blk] = l.v /\ ~ l.got.torn =>
    /\ l.goal \in {"get", "contains", "first"} => SeesAll(l, l.blk)
    /\ l.goal = "contains" => l.got.list = << >> /\ (l.got.at # Null => l.key <= l.got.at)
    /\ l.goal = "first" => l.got.list = << >>
    /\ l.goal = "last" => l.got.list = << >> /\ (l.got.at = Null => count[l.blk] = 0)

StepNoted(pc, l, p) ==
  pc = "stepcheck" /\ version[p.leaf] = p.ver /\ ~ l.got.torn =>
    /\ l.op \in {"next", "scan"} => SeesAll(l, p.leaf)
    /\ l.op = "next" => l.got.list = << >>
    /\ l.op = "scan" => /\ \A i \in DOMAIN l.got.list : l.got.list[i] \in visible
                        /\ Len(l.out) + Len(l.got.list) <= Batch
    /\ l.op = "prev" => (l.got.at # Null => l.got.at < p.anchor)

(* Get: the versions delivered ascend, and the next ones come after them. *)
Rising(s) == \A i, j \in DOMAIN s : i < j => s[i] < s[j]
Follows(s, e) == \A i \in DOMAIN s : s[i] < e
Version(l, e) == e \in visible /\ e >= l.key /\ UserOf[e] = UserOf[l.key]
Delivers(pc, l) ==
  l.op = "get" =>
    /\ pc \in Walking => l.out = << >>
    /\ Rising(l.out) /\ \A i \in DOMAIN l.out : Version(l, l.out[i])
    /\ \A e \in Due(l) : Follows(l.out, e)
    /\ pc = "check" /\ version[l.blk] = l.v /\ ~ l.got.torn =>
         /\ Rising(l.got.list)
         /\ \A i \in DOMAIN l.got.list :
              /\ Version(l, l.got.list[i]) /\ Follows(l.out, l.got.list[i])
              /\ l.got.list[i] \in Held(l.blk)
         /\ l.got.at # Null => l.got.at > l.key /\ UserOf[l.got.at] # UserOf[l.key]

(* Prev: the block begins before one that begins no later than the anchor. *)
Retreats(pc, l) ==
  l.op = "prev" /\ l.goal = "last" =>
    /\ pc \in {"open", "read", "check"} =>
         \E c \in 1 .. used : low(l.blk) < low(c) /\ low(c) <= l.from
    /\ pc = "hop" => low(l.blk) <= l.from

(* SeekToLast: with two entries inserted, the tail has one, and keeps one. *)
Ends(pc, l) ==
  l.op = "last" /\ l.goal = "last" /\ Cardinality(l.since) > 1 =>
    pc # "hop" /\ (l.blk # HeadBlock \/ HeadStays)

Serving(pc, l, p) ==
  pc \notin {"idle", "done"} =>
    /\ Serves(pc, l, p) /\ Rooted(l, p) /\ Ahead(pc, l) /\ Noted(pc, l) /\ StepNoted(pc, l, p)
    /\ Delivers(pc, l) /\ Retreats(pc, l) /\ Ends(pc, l)

ServiceInv == \A r \in Readers : Serving(rpc[r], loc[r], pos[r])
------------------------------------------------------------------------------
(* The table. *)

LEMMA SpareNext ==
  ASSUME TableInv, Spare, [Next]_vars PROVE Spare'
<1>1. CASE UNCHANGED table
  BY <1>1 DEF Spare, table, blocks, chain, writer
<1>2. ASSUME wpc \notin {"shift", "count", "null"}, UNCHANGED <<count, entries, used>> PROVE Spare'
  <2>1. \A b \in 1 .. used : \A j \in Slots : ~ (j >= count[b] /\ entries[b][j] # Null)
    BY <1>2 DEF Spare
  <2> QED BY <1>2, <2>1 DEF Spare
<1>3. CASE \E e \in Entries : InsertBegin(e)
  BY <1>2, <1>3 DEF InsertBegin, blocks, chain
<1>4. CASE InsertOpen \/ InsertClose \/ InsertMap \/ SplitLinkBack \/ SplitLink \/ SplitMap \/ SplitClose
  BY <1>2, <1>4 DEF InsertOpen, InsertClose, InsertMap, SplitLinkBack, SplitLink, SplitMap, SplitClose, blocks, chain
<1>5. CASE InsertShift \/ InsertStore
  <2>1. wpc = "shift" /\ wpc # "idle" /\ wpc # "null"
    BY <1>5 DEF InsertShift, InsertStore
  <2>2. PICK i, x, b : /\ b = ins.b /\ i \in 0 .. count[b] /\ i \in Slots /\ x \in Entries \cup {Null}
                       /\ entries' = [entries EXCEPT ![b][i] = x]
    <3>1. ins.i \in ins.left .. count[ins.b] /\ ins.left \in 0 .. count[ins.b]
      BY <2>1 DEF TableInv, Inserting
    <3>2. ins.i \in 0 .. count[ins.b] /\ ins.left \in 0 .. count[ins.b] /\ ins.i \in Slots /\ ins.left \in Slots
      BY <2>1, <3>1, WriterFacts DEF Slots
    <3>3. CASE InsertShift
      <4>1. ins.i - 1 \in Slots
        BY <3>1, <3>2, <3>3, <2>1, WriterFacts DEF Slots, InsertShift
      <4>2. entries[ins.b][ins.i - 1] \in Entries \cup {Null}
        BY <2>1, <4>1, WriterFacts DEF TableInv, TableTypes
      <4>3. entries' = [entries EXCEPT ![ins.b][ins.i] = entries[ins.b][ins.i - 1]]
        BY <3>3 DEF InsertShift, Store
      <4> QED BY <3>2, <4>2, <4>3
    <3>4. CASE InsertStore
      BY <2>1, <3>2, <3>4, WriterFacts DEF InsertStore, Store
    <3> QED BY <1>5, <3>3, <3>4
  <2>3. /\ UNCHANGED <<count, used>> /\ wpc' \in {"shift", "count"} /\ ins'.b = ins.b
        /\ wpc' = "shift" => ins'.i = ins.i - 1
    <3>1. ins \in InsertRecords
      BY DEF TableInv, TableTypes
    <3> QED BY <1>5, <3>1 DEF InsertShift, InsertStore, Goto, chain, InsertRecords
  <2>8. ins.i \in Int /\ ins.i <= count[ins.b] /\ count[ins.b] \in Nat
    BY <2>1, WriterFacts DEF TableInv, Inserting
  <2>4. SUFFICES ASSUME NEW c \in 1 .. used, NEW j \in Slots, j >= count[c], entries'[c][j] # Null
                 PROVE  c = b /\ j = count[c]
    BY <2>2, <2>3, <2>4, <2>8 DEF Spare
  <2>5. b \in 1 .. used /\ b \in Blocks /\ c \in Blocks /\ count[b] \in Nat /\ j \in Int
    BY <2>1, <2>2, WriterFacts, Facts DEF Slots
  <2>6. CASE c = b /\ j = i
    BY <2>2, <2>4, <2>5, <2>6
  <2>7. CASE ~ (c = b /\ j = i)
    <3>1. entries'[c][j] = entries[c][j]
      BY <2>2, <2>5, <2>7 DEF TableInv, TableTypes
    <3> QED BY <2>1, <2>2, <2>4, <3>1 DEF Spare
  <2> QED BY <2>6, <2>7
<1>6. CASE InsertCount
  <2>1. /\ wpc = "count" /\ wpc # "idle" /\ count' = [count EXCEPT ![ins.b] = count[ins.b] + 1]
        /\ UNCHANGED <<entries, used>> /\ count \in [Blocks -> Slots]
    BY <1>6 DEF InsertCount, SetCount, chain, TableInv, TableTypes
  <2>2. SUFFICES ASSUME NEW c \in 1 .. used, NEW j \in Slots, j >= count'[c], entries[c][j] # Null
                 PROVE  FALSE
    BY <2>1 DEF Spare
  <2>3. c \in Blocks /\ count[c] \in Nat /\ j \in Int /\ ins.b \in Blocks
    BY <2>1, WriterFacts, Facts DEF Slots
  <2>4. count'[c] = IF c = ins.b THEN count[c] + 1 ELSE count[c]
    BY <2>1, <2>3
  <2>5. j >= count[c]
    BY <2>2, <2>3, <2>4
  <2>6. c = ins.b /\ j = count[c]
    BY <2>1, <2>2, <2>5 DEF Spare
  <2> QED BY <2>2, <2>3, <2>4, <2>6
<1>7. CASE SplitOpen
  <2>1. PICK b, new, mid, moved : /\ b = ins.b /\ new = used + 1 /\ mid = count[b] \div 2 /\ moved = count[b] - mid
    OBVIOUS
  <2>2. /\ wpc = "split" /\ wpc # "idle" /\ used' = new
        /\ entries' = [entries EXCEPT ![new] = [i \in Slots |-> IF i < moved THEN entries[b][mid + i] ELSE Null]]
        /\ count' = [count EXCEPT ![new] = moved] /\ entries \in [Blocks -> [Slots -> Entries \cup {Null}]]
        /\ count \in [Blocks -> Slots]
    BY <1>7, <2>1 DEF SplitOpen, SetCount, TableInv, TableTypes
  <2>3. new \in Blocks /\ used \in Nat /\ count[b] \in Nat /\ moved \in Nat
    BY <2>1, <2>2, BlockLeft, WriterFacts, Facts
  <2>4. SUFFICES ASSUME NEW c \in 1 .. new, NEW j \in Slots, j >= count'[c] PROVE entries'[c][j] = Null
    BY <2>2 DEF Spare
  <2>5. CASE c = new
    BY <2>2, <2>3, <2>4, <2>5 DEF Slots
  <2>6. CASE c # new
    <3>1. c \in 1 .. used /\ c \in Blocks
      BY <2>1, <2>3, <2>6, Facts
    <3>2. count'[c] = count[c] /\ entries'[c] = entries[c]
      BY <2>2, <2>6, <3>1
    <3> QED BY <2>2, <2>4, <3>1, <3>2 DEF Spare
  <2> QED BY <2>5, <2>6
<1>8. CASE SplitCount
  <2>1. /\ wpc = "splitcount" /\ wpc # "idle" /\ Splitting /\ count' = [count EXCEPT ![ins.b] = ins.i]
        /\ UNCHANGED <<entries, used, ins>> /\ wpc' = "null" /\ count \in [Blocks -> Slots]
    BY <1>8 DEF SplitCount, SetCount, chain, Goto, Splitting, TableInv, TableTypes
  <2>2. /\ ins.b \in Blocks /\ ins.new \in Blocks /\ ins.new # ins.b /\ ins.i \in Nat
        /\ count[ins.b] \in Nat /\ count[ins.new] \in Nat /\ ins.i + count[ins.new] = count[ins.b]
        /\ \A j \in 0 .. count[ins.new] - 1 : entries[ins.b][ins.i + j] = entries[ins.new][j]
    BY <2>1, SplitFacts, WriterFacts DEF TableInv, Inserting, TableTypes, Slots
  <2>3. SUFFICES ASSUME NEW c \in 1 .. used, NEW j \in Slots, j >= count'[c], entries[c][j] # Null
                 PROVE  /\ c = ins.b /\ j \in ins.i .. count'[c] + count'[ins.new] - 1
                        /\ entries[c][j] = entries[ins.new][j - count'[c]]
    BY <2>1 DEF Spare
  <2>4. c \in Blocks /\ count[c] \in Nat /\ j \in Int /\ j \in Nat
    BY Facts DEF Slots
  <2>5. ~ (j >= count[c])
    BY <2>1, <2>3 DEF Spare
  <2>6. c = ins.b
    BY <2>1, <2>3, <2>4, <2>5
  <2>7. count'[c] = ins.i /\ count'[ins.new] = count[ins.new]
    BY <2>1, <2>2, <2>6
  <2>8. j - ins.i \in 0 .. count[ins.new] - 1 /\ ins.i + (j - ins.i) = j
    BY <2>2, <2>3, <2>4, <2>5, <2>6, <2>7
  <2>9. entries[ins.b][j] = entries[ins.new][j - ins.i]
    BY <2>2, <2>8
  <2> QED BY <2>2, <2>4, <2>6, <2>7, <2>8, <2>9
<1>9. CASE SplitNull
  <2>1. /\ wpc = "null" /\ wpc # "idle" /\ Splitting /\ entries' = [entries EXCEPT ![ins.b][ins.i] = Null]
        /\ UNCHANGED <<count, used>> /\ entries \in [Blocks -> [Slots -> Entries \cup {Null}]]
        /\ ins \in InsertRecords
    BY <1>9 DEF SplitNull, Store, chain, Splitting, TableInv, TableTypes
  <2>2. /\ ins.b \in Blocks /\ ins.new \in Blocks /\ ins.new # ins.b /\ ins.i \in Nat /\ ins.i \in Slots
        /\ count[ins.b] \in Nat /\ count[ins.new] \in Nat
        /\ ins.i \in count[ins.b] .. count[ins.b] + count[ins.new] - 1
    <3>1. ins.b \in Blocks /\ ins.new = used /\ used \in Blocks /\ ins.b # used
      BY <2>1, SplitFacts
    <3>2. ins.i \in Nat /\ ins.i \in Slots /\ count[ins.b] \in Nat
      BY <2>1, WriterFacts
    <3>3. count[used] \in Nat
      BY <3>1, Facts
    <3>4. ins.i \in count[ins.b] .. count[ins.b] + count[ins.new] - 1
      BY <2>1 DEF TableInv, Inserting
    <3> QED BY <3>1, <3>2, <3>3, <3>4
  <2>3. /\ ins.i = count[ins.b] + count[ins.new] - 1 => wpc' = "linkback" /\ ins' = ins
        /\ ins.i # count[ins.b] + count[ins.new] - 1 =>
             wpc' = "null" /\ ins'.b = ins.b /\ ins'.new = ins.new /\ ins'.i = ins.i + 1
    BY <1>9, <2>1, <2>2 DEF SplitNull, Goto, InsertRecords
  <2>4. entries'[ins.new] = entries[ins.new]
    BY <2>1, <2>2
  <2>5. ASSUME NEW c \in 1 .. used, NEW j \in Slots, j >= count[c], entries'[c][j] # Null
        PROVE  /\ c = ins.b /\ j \in ins.i + 1 .. count[c] + count[ins.new] - 1
               /\ entries'[c][j] = entries[ins.new][j - count[c]]
    <3>1. c \in Blocks /\ j \in Int
      BY Facts DEF Slots
    <3>2. ~ (c = ins.b /\ j = ins.i) /\ entries'[c][j] = entries[c][j]
      BY <2>1, <2>2, <2>5, <3>1
    <3>3. /\ c = ins.b /\ j \in ins.i .. count[c] + count[ins.new] - 1
          /\ entries[c][j] = entries[ins.new][j - count[c]]
      BY <2>1, <2>5, <3>2 DEF Spare
    <3> QED BY <2>2, <3>1, <3>2, <3>3
  <2>6. CASE ins.i = count[ins.b] + count[ins.new] - 1
    <3>1. \A c \in 1 .. used : \A j \in Slots : ~ (j >= count[c] /\ entries'[c][j] # Null)
      BY <2>2, <2>5, <2>6
    <3> QED BY <2>1, <3>1 DEF Spare
  <2>7. CASE ins.i # count[ins.b] + count[ins.new] - 1
    BY <2>1, <2>3, <2>4, <2>5, <2>7 DEF Spare
  <2> QED BY <2>6, <2>7
<1>10. QED
  BY <1>1, <1>3, <1>4, <1>5, <1>6, <1>7, <1>8, <1>9, ReadersLookOnly DEF Next, Write, vars

LEMMA HalvedNext ==
  ASSUME TableInv, Halved, [Next]_vars PROVE Halved'
<1>1. CASE UNCHANGED table
  BY <1>1 DEF Halved, table, blocks, chain, writer
<1>2. CASE wpc' \notin {"splitcount", "null", "linkback"}
  BY <1>2 DEF Halved
<1>3. CASE SplitOpen
  <2>1. /\ wpc = "split" /\ wpc' = "splitcount" /\ ins' = [ins EXCEPT !.new = used + 1, !.i = count[ins.b] \div 2]
        /\ count' = [count EXCEPT ![used + 1] = count[ins.b] - count[ins.b] \div 2]
        /\ ins \in InsertRecords /\ count \in [Blocks -> Slots]
    BY <1>3 DEF SplitOpen, SetCount, TableInv, TableTypes
  <2>2. used + 1 \in Blocks /\ count[ins.b] \in Nat
    BY <2>1, BlockLeft, WriterFacts
  <2>3. ins'.new = used + 1 /\ ins'.i = count[ins.b] \div 2
    BY <2>1 DEF InsertRecords
  <2>4. count'[used + 1] = count[ins.b] - count[ins.b] \div 2
    BY <2>1, <2>2
  <2>5. count[ins.b] - count[ins.b] \div 2 <= count[ins.b] \div 2 + 1
    BY <2>2
  <2> QED BY <2>1, <2>3, <2>4, <2>5 DEF Halved
<1>4. CASE SplitCount
  <2>1. /\ wpc = "splitcount" /\ Splitting /\ count' = [count EXCEPT ![ins.b] = ins.i] /\ UNCHANGED ins /\ wpc' = "null"
        /\ count \in [Blocks -> Slots]
    BY <1>4 DEF SplitCount, SetCount, Goto, Splitting, TableInv, TableTypes
  <2>2. ins.b \in Blocks /\ ins.new # ins.b
    BY <2>1, SplitFacts
  <2>3. count'[ins.b] = ins.i /\ count'[ins.new] = count[ins.new]
    BY <2>1, <2>2
  <2> QED BY <2>1, <2>3 DEF Halved
<1>5. CASE SplitNull
  <2>1. wpc = "null" /\ UNCHANGED count /\ ins'.new = ins.new /\ ins'.b = ins.b /\ wpc' \in {"null", "linkback"}
    <3>1. ins \in InsertRecords
      BY DEF TableInv, TableTypes
    <3> QED BY <1>5, <3>1 DEF SplitNull, Goto, InsertRecords
  <2> QED BY <2>1 DEF Halved
<1>6. QED
  BY <1>1, <1>2, <1>3, <1>4, <1>5, ReadersLookOnly DEF Next, Write, vars, InsertBegin, InsertOpen, InsertShift,
    InsertStore, InsertCount, InsertClose, InsertMap, SplitIfFull, SplitLinkBack, SplitLink, SplitMap, SplitClose, Goto,
    TableInv, TableTypes, WriterSteps

LEMMA HeadStaysNext ==
  ASSUME TableInv, HeadStays, [Next]_vars PROVE HeadStays'
<1>1. CASE UNCHANGED table
  BY <1>1 DEF HeadStays, table, blocks, chain, writer
<1>0. count \in [Blocks -> Slots] /\ HeadBlock \in Blocks /\ count[HeadBlock] \in Nat /\ ins \in InsertRecords
  BY Facts DEF TableInv, TableTypes, HeadBlock, Blocks, Slots
<1>2. ASSUME UNCHANGED count, wpc' \notin {"close", "map", "split", "splitcount"} PROVE HeadStays'
  BY <1>2 DEF HeadStays
<1>3. CASE \E e \in Entries : InsertBegin(e)
  BY <1>2, <1>3 DEF InsertBegin, blocks
<1>4. CASE InsertOpen \/ InsertShift \/ InsertStore \/ SplitLinkBack \/ SplitLink \/ SplitMap \/ SplitClose
  BY <1>2, <1>4 DEF InsertOpen, InsertShift, InsertStore, SplitLinkBack, SplitLink, SplitMap, SplitClose, blocks, Goto
<1>5. CASE InsertCount
  <2>1. wpc = "count" /\ wpc' = "close" /\ count' = [count EXCEPT ![ins.b] = count[ins.b] + 1] /\ UNCHANGED ins
    BY <1>5 DEF InsertCount, SetCount, Goto
  <2>2. count'[HeadBlock] = IF ins.b = HeadBlock THEN count[HeadBlock] + 1 ELSE count[HeadBlock]
    BY <1>0, <2>1
  <2> QED BY <1>0, <2>1, <2>2 DEF HeadStays
<1>6. CASE InsertClose \/ InsertMap
  <2>1. UNCHANGED count /\ wpc \in {"close", "map"} /\ (wpc' = "idle" \/ (wpc' \in {"map", "split"} /\ ins' = ins))
    BY <1>6 DEF InsertClose, InsertMap, SplitIfFull, Goto, blocks
  <2> QED BY <1>2, <2>1 DEF HeadStays
<1>7. CASE SplitOpen
  <2>1. /\ wpc = "split" /\ wpc' = "splitcount" /\ ins'.b = ins.b /\ ins'.i = count[ins.b] \div 2
        /\ count' = [count EXCEPT ![used + 1] = count[ins.b] - count[ins.b] \div 2]
    BY <1>0, <1>7 DEF SplitOpen, SetCount, InsertRecords
  <2>2. used + 1 # HeadBlock
    BY Facts DEF HeadBlock
  <2>3. count'[HeadBlock] = count[HeadBlock]
    BY <1>0, <2>1, <2>2
  <2>4. ins.b = HeadBlock => count[ins.b] \div 2 > 0
    BY <1>0, <2>1 DEF HeadStays
  <2> QED BY <2>1, <2>3, <2>4 DEF HeadStays
<1>8. CASE SplitCount
  <2>1. wpc = "splitcount" /\ wpc' = "null" /\ count' = [count EXCEPT ![ins.b] = ins.i]
    BY <1>8 DEF SplitCount, SetCount, Goto
  <2>2. count'[HeadBlock] = IF ins.b = HeadBlock THEN ins.i ELSE count[HeadBlock]
    BY <1>0, <2>1
  <2> QED BY <2>1, <2>2 DEF HeadStays
<1>9. CASE SplitNull
  <2>1. UNCHANGED count /\ wpc' \notin {"close", "map", "split", "splitcount"}
    BY <1>9 DEF SplitNull, Goto
  <2> QED BY <1>2, <2>1
<1>10. QED
  BY <1>1, <1>3, <1>4, <1>5, <1>6, <1>7, <1>8, <1>9, ReadersLookOnly DEF Next, Write, vars

(* An inserted entry that is not before a block, and not in it while it is stable,
   is in a block that begins after it. *)
LEMMA Elsewhere ==
  ASSUME TableInv, NEW b \in 1 .. used, version[b] % 2 = 0, NEW e \in visible, low(b) <= e, e \notin Held(b)
  PROVE  \E c \in 1 .. used : low(b) < low(c) /\ low(c) <= e
<1>1. PICK c \in 1 .. used : \E j \in Owned(c) : entries[c][j] = e
  BY DEF TableInv, Contents
<1>2. PICK j \in Owned(c) : entries[c][j] = e
  BY <1>1
<1>3. c # b
  BY <1>2, StableBlock DEF Held
<1>4. low(c) <= e /\ low(c) \in Nat /\ low(b) \in Nat /\ e \in Nat
  BY <1>2, LowIsLeast, Facts
<1>5. low(b) # low(c)
  BY <1>3 DEF TableInv, Distinct
<1>6. ~ (low(c) < low(b))
  <2> SUFFICES ASSUME low(c) < low(b) PROVE FALSE
    OBVIOUS
  <2>1. entries[c][j] < low(b)
    BY DEF TableInv, Ordered
  <2> QED BY <1>2, <1>4, <2>1
<1>7. QED
  BY <1>4, <1>5, <1>6

(* It comes after all that the block holds. *)
LEMMA AfterAll ==
  ASSUME TableInv, NEW b \in 1 .. used, version[b] % 2 = 0, NEW e \in visible, low(b) <= e, e \notin Held(b),
         NEW x \in Held(b)
  PROVE  x < e
<1>1. PICK c \in 1 .. used : low(b) < low(c) /\ low(c) <= e
  BY Elsewhere
<1>2. PICK i \in 0 .. count[b] - 1 : x = entries[b][i]
  BY DEF Held
<1>3. x < low(c) /\ x \in Nat
  BY <1>1, <1>2, StableBlock DEF TableInv, Ordered
<1>4. low(c) \in Nat /\ e \in Nat
  BY Facts, Sizes DEF TableInv, TableTypes
<1>5. QED
  BY <1>1, <1>3, <1>4

(* And next_leaf leads to it: what a split has carried to a block that is not linked
   yet is behind the block it came from. *)
LEMMA Onward ==
  ASSUME TableInv, NEW b \in Joined, version[b] % 2 = 0, NEW e \in visible, low(b) <= e, e \notin Held(b)
  PROVE  \E c \in Linked : low(b) < low(c) /\ low(c) <= e
<1>1. b \in 1 .. used /\ low(b) \in Nat /\ Joined \subseteq 1 .. used /\ b \in Blocks
  BY JoinedFacts
<1>2. PICK c \in 1 .. used : low(b) < low(c) /\ low(c) <= e
  BY <1>1, Elsewhere
<1>3. low(c) \in Nat /\ e \in Nat
  BY Facts, Sizes DEF TableInv, TableTypes
<1>6. CASE c \in Linked
  BY <1>2, <1>6
<1>7. CASE c \notin Linked
  <2>1. Splitting /\ c = used /\ Linked = 1 .. used - 1
    BY <1>7, Facts DEF Linked, Splitting
  <2>2. ins.b \in 1 .. used - 1 /\ ins.b \in Blocks /\ low(ins.b) < low(used) /\ low(ins.b) \in Nat
    BY <2>1, SplitFacts, Facts
  <2>3. low(b) <= low(ins.b) \/ low(used) <= low(b)
    BY <1>1, <2>1, SplitFacts
  <2>4. b # ins.b
    BY <1>1, <2>1 DEF TableInv, Parity, Modifying
  <2>5. low(b) # low(ins.b)
    BY <1>1, <2>2, <2>4, Facts DEF TableInv, Distinct
  <2>6. low(b) < low(ins.b) /\ low(ins.b) <= e
    BY <1>1, <1>2, <1>3, <2>1, <2>2, <2>3, <2>5
  <2> QED BY <2>1, <2>2, <2>6
<1>8. QED
  BY <1>6, <1>7

(* Whatever a slot holds, owned or not, is before every linked block that begins
   after its own: Contains may read a block's last key outside a bracket. *)
LEMMA SlotsBelow ==
  ASSUME TableInv, Spare, NEW b \in 1 .. used, NEW j \in Slots, entries[b][j] # Null,
         NEW c \in Linked, low(b) < low(c)
  PROVE  entries[b][j] < low(c)
<1>1. /\ c \in 1 .. used /\ low(c) \in Nat /\ low(b) \in Nat /\ count[b] \in Nat /\ j \in Nat /\ b \in Blocks
      /\ entries[b][j] \in Nat
  <2>1. b \in Blocks /\ c \in 1 .. used /\ low(c) \in Nat /\ low(b) \in Nat /\ count[b] \in Nat
    BY Facts
  <2>2. entries[b][j] \in Entries \cup {Null}
    BY <2>1 DEF TableInv, TableTypes
  <2>3. j \in Nat /\ entries[b][j] \in Nat
    BY <2>2, Sizes DEF Slots
  <2> QED BY <2>1, <2>3
<1>2. CASE j \in Owned(b)
  BY <1>1, <1>2 DEF TableInv, Ordered
<1>3. ASSUME wpc \in {"splitcount", "null"}, b = ins.b, NEW i \in 0 .. count[ins.new] - 1,
             entries[b][j] = entries[ins.new][i]
      PROVE  entries[b][j] < low(c)
  <2>1. Splitting /\ c # used
    BY <1>3, Facts DEF Splitting, Linked
  <2>2. low(ins.b) < low(used) /\ ins.new = used /\ low(used) \in Nat /\ used \in 1 .. used /\ used # ins.b
        /\ (low(c) <= low(ins.b) \/ low(used) <= low(c)) /\ (low(c) = low(used) => c = used)
    BY <1>1, <2>1, SplitFacts
  <2>3. low(used) < low(c)
    BY <1>1, <1>3, <2>1, <2>2
  <2>4. i \in Owned(used)
    BY <1>3, <2>2 DEF Owned
  <2> QED BY <1>1, <1>3, <2>2, <2>3, <2>4 DEF TableInv, Ordered
<1>4. CASE j \notin Owned(b) /\ b = ins.b /\ wpc = "shift" /\ j < count[b]
  <2>1. j = ins.i
    BY <1>1, <1>4 DEF Owned
  <2>2. entries[b][j] = entries[b][j + 1]
    BY <1>4, <2>1 DEF TableInv, Inserting
  <2>3. j + 1 \in Owned(b)
    BY <1>1, <1>4, <2>1 DEF Owned
  <2> QED BY <1>1, <2>2, <2>3 DEF TableInv, Ordered
<1>5. CASE j \notin Owned(b) /\ b = ins.b /\ wpc = "shift" /\ j >= count[b]
  <2>1. j = count[b] /\ ins.i < j
    BY <1>5 DEF Spare
  <2> QED BY <1>1, <1>5, <2>1 DEF Owned
<1>6. CASE j \notin Owned(b) /\ b = ins.b /\ wpc = "splitcount" /\ j < count[b]
  <2>1. /\ ins.i + count[ins.new] = count[b] /\ ins.i \in Nat /\ count[ins.new] \in Nat
        /\ \A i \in 0 .. count[ins.new] - 1 : entries[b][ins.i + i] = entries[ins.new][i]
    <3>1. Splitting /\ wpc # "idle"
      BY <1>6 DEF Splitting
    <3> QED BY <1>6, <3>1, SplitFacts, WriterFacts, Facts DEF TableInv, Inserting
  <2>2. j >= ins.i
    BY <1>1, <1>6, <2>1 DEF Owned
  <2>3. j - ins.i \in 0 .. count[ins.new] - 1 /\ ins.i + (j - ins.i) = j
    BY <1>1, <1>6, <2>1, <2>2
  <2>4. entries[b][j] = entries[ins.new][j - ins.i]
    BY <2>1, <2>3
  <2> QED BY <1>3, <1>6, <2>3, <2>4
<1>7. CASE j \notin Owned(b) /\ b = ins.b /\ wpc = "null" /\ j >= count[b]
  <2>1. j \in ins.i .. count[b] + count[ins.new] - 1 /\ entries[b][j] = entries[ins.new][j - count[b]]
    BY <1>7 DEF Spare
  <2>2. ins.i \in count[b] .. count[b] + count[ins.new] - 1 /\ count[ins.new] \in Nat /\ ins.i \in Nat
    <3>1. Splitting /\ wpc # "idle"
      BY <1>7 DEF Splitting
    <3> QED BY <1>7, <3>1, SplitFacts, WriterFacts, Facts DEF TableInv, Inserting
  <2>3. j - count[b] \in 0 .. count[ins.new] - 1
    BY <1>1, <2>1, <2>2
  <2> QED BY <1>3, <1>7, <2>1, <2>3
<1>8. j \in Owned(b) \/ (b = ins.b /\ wpc \in {"shift", "splitcount", "null"})
  <2>1. CASE j < count[b]
    BY <1>1, <2>1 DEF Owned
  <2>2. CASE j >= count[b]
    <3>1. b = ins.b /\ (wpc = "null" \/ (wpc \in {"shift", "count"} /\ j = count[b]))
      BY <2>2 DEF Spare
    <3> QED BY <1>1, <3>1 DEF Owned
  <2> QED BY <1>1, <2>1, <2>2
<1>9. CASE wpc = "splitcount" /\ j >= count[b]
  BY <1>9 DEF Spare
<1>10. CASE wpc = "null" /\ j < count[b]
  BY <1>1, <1>2, <1>10 DEF Owned
<1>11. QED
  BY <1>1, <1>2, <1>4, <1>5, <1>6, <1>7, <1>8, <1>9, <1>10

------------------------------------------------------------------------------
(* What a call has found and has still to find. *)

LEMMA DueTyped ==
  ASSUME NEW l, Callful(l)
  PROVE  /\ Due(l) \subseteq l.since /\ Due(l) \subseteq visible /\ Due(l) \subseteq Nat /\ Due(l) \subseteq Entries
         /\ l.since \subseteq Entries
BY Sizes DEF Callful, Locals, Due

LEMMA SameDue ==
  ASSUME NEW l, NEW m, Same(m, l)
  PROVE  Due(m) = Due(l) /\ Given(m) = Given(l) /\ Reseeks(m) = Reseeks(l)
BY DEF Same, Due, Given, Reseeks

(* In a stable block that holds the entry read, all that is due is in the list or
   from that entry on; when none was read, in the list or further on. *)
LEMMA SeesOn ==
  ASSUME TableInv, NEW l, Callful(l), NEW b \in Joined, version[b] % 2 = 0, SeesAll(l, b),
         \A e \in Due(l) : low(b) <= e, NEW e \in Due(l)
  PROVE  /\ l.got.at # Null /\ l.got.at \in Held(b) => Sees(l.got, e)
         /\ ~ Sees(l.got, e) => \E c \in Linked : low(b) < low(c) /\ low(c) <= e
<1>1. e \in visible /\ e \in Nat /\ b \in 1 .. used
  BY DueTyped, JoinedFacts
<1>2. CASE e \in Held(b)
  BY <1>2 DEF SeesAll
<1>3. CASE e \notin Held(b)
  <2>1. \E c \in Linked : low(b) < low(c) /\ low(c) <= e
    BY <1>1, <1>3, Onward
  <2>2. ASSUME l.got.at # Null, l.got.at \in Held(b) PROVE Sees(l.got, e)
    <3>1. l.got.at < e /\ l.got.at \in Nat
      BY <1>1, <1>3, <2>2, AfterAll, StableBlock DEF Held
    <3> QED BY <1>1, <2>2, <3>1 DEF Sees
  <2> QED BY <2>1, <2>2
<1>4. QED
  BY <1>2, <1>3

(* A step of the table keeps what a reader at rest has noted. *)
LEMMA HeldStays ==
  ASSUME TableInv, [Next]_vars, NEW b \in 1 .. used, NEW v \in Nat, v <= version[b], v % 2 = 0, version'[b] = v
  PROVE  version[b] = v /\ Held(b)' = Held(b) /\ count'[b] = count[b]
<1>1. version[b] \in Nat /\ version'[b] \in Nat /\ version[b] <= version'[b]
  BY BlocksStand
<1>2. version[b] = v
  BY <1>1
<1>3. entries'[b] = entries[b] /\ count'[b] = count[b]
  BY <1>2, BlocksStand
<1>4. QED
  BY <1>2, <1>3 DEF Held

LEMMA ServingStays ==
  ASSUME TableInv, [Next]_vars, NEW pc, NEW l, NEW p, Consistent(pc, l, p), Serving(pc, l, p)
  PROVE  Serving(pc, l, p)'
<1>1. CASE pc \in {"idle", "done"}
  BY <1>1 DEF Serving
<1>2. CASE pc \notin {"idle", "done"}
  <2>1. /\ Serves(pc, l, p) /\ Rooted(l, p) /\ Ahead(pc, l) /\ Noted(pc, l) /\ StepNoted(pc, l, p)
        /\ Delivers(pc, l) /\ Retreats(pc, l) /\ Ends(pc, l)
    BY <1>2 DEF Serving
  <2>2. /\ visible \subseteq visible' /\ Linked \subseteq Linked' /\ used \in Nat /\ used' \in Nat /\ used <= used'
        /\ Linked \subseteq 1 .. used /\ Joined \subseteq 1 .. used
    BY BlocksOnlyGrow, Facts
  <2>3. \A c \in 1 .. used : low(c)' = low(c) /\ c \in 1 .. used'
    BY <2>2, BlocksStand
  <2>4. l.goal \in {"first", "last", "get", "contains"} /\ pc \in Looking \cup {"max", "maxkey"} => l.blk \in 1 .. used
    BY <2>2 DEF Consistent, Located
  <2>5. (Due(l) = Due(l)') /\ (Given(l) = Given(l)') /\ (Reseeks(l) = Reseeks(l)')
    BY DEF Due, Given, Reseeks
  <2>6. Serves(pc, l, p)'
    BY <2>1, <2>5 DEF Serves
  <2>7. Rooted(l, p)'
    BY <2>1, <2>2, <2>5 DEF Rooted
  <2>8. Ahead(pc, l)'
    <3>1. CASE pc \in {"open", "read", "check"} /\ l.goal \in {"get", "contains", "first"}
      BY <2>1, <2>3, <2>4, <2>5, <3>1 DEF Ahead, Looking
    <3>2. CASE pc \in {"hop", "max", "maxkey"} /\ l.goal \in {"get", "contains", "first"}
      <4>1. low(l.blk)' = low(l.blk)
        BY <2>3, <2>4, <3>2 DEF Looking
      <4>2. SUFFICES ASSUME NEW e \in Due(l) PROVE \E c \in Linked' : low(l.blk)' < low(c)' /\ low(c)' <= e
        BY <2>1, <2>5, <3>2 DEF Ahead
      <4>3. PICK c \in Linked : low(l.blk) < low(c) /\ low(c) <= e
        BY <2>1, <3>2 DEF Ahead
      <4>4. low(c)' = low(c) /\ c \in Linked'
        BY <2>2, <2>3
      <4> QED BY <4>1, <4>3, <4>4
    <3> QED BY <3>1, <3>2 DEF Ahead
  <2>9. /\ pc = "check" => l.blk \in 1 .. used /\ l.v \in Nat /\ l.v <= version[l.blk] /\ l.v % 2 = 0
        /\ pc = "stepcheck" => p.leaf \in 1 .. used /\ p.ver \in Nat /\ p.ver <= version[p.leaf] /\ p.ver % 2 = 0
    BY <2>2 DEF Consistent, Control, Located, Bracketed, Positioned, Locals, Positions, Looking
  <2>10. ASSUME pc = "check", version'[l.blk] = l.v
         PROVE  version[l.blk] = l.v /\ Held(l.blk)' = Held(l.blk) /\ count'[l.blk] = count[l.blk]
    BY <2>9, <2>10, HeldStays
  <2>11. ASSUME pc = "stepcheck", version'[p.leaf] = p.ver
         PROVE  version[p.leaf] = p.ver /\ Held(p.leaf)' = Held(p.leaf)
    BY <2>9, <2>11, HeldStays
  <2>12. Noted(pc, l)'
    BY <2>1, <2>5, <2>10 DEF Noted, SeesAll, Sees
  <2>13. StepNoted(pc, l, p)'
    <3> SUFFICES ASSUME pc = "stepcheck", version'[p.leaf] = p.ver, ~ l.got.torn PROVE StepNoted(pc, l, p)'
      BY DEF StepNoted
    <3>1. version[p.leaf] = p.ver /\ Held(p.leaf)' = Held(p.leaf)
      BY <2>11
    <3>2. l.op \in {"next", "scan"} => SeesAll(l, p.leaf)'
      BY <2>1, <2>5, <3>1 DEF StepNoted, SeesAll, Sees
    <3>3. l.op = "scan" => /\ \A i \in DOMAIN l.got.list : l.got.list[i] \in visible'
                           /\ Len(l.out) + Len(l.got.list) <= Batch
      BY <2>1, <2>2, <3>1 DEF StepNoted
    <3> QED BY <2>1, <3>1, <3>2, <3>3 DEF StepNoted
  <2>14. Delivers(pc, l)'
    <3>1. \A e : Version(l, e) => Version(l, e)'
      BY <2>2 DEF Version
    <3>2. ASSUME l.op = "get", pc = "check", version'[l.blk] = l.v, ~ l.got.torn
          PROVE  /\ Rising(l.got.list)
                 /\ \A i \in DOMAIN l.got.list :
                      /\ Version(l, l.got.list[i])' /\ Follows(l.out, l.got.list[i])
                      /\ l.got.list[i] \in Held(l.blk)'
                 /\ l.got.at # Null => l.got.at > l.key /\ UserOf[l.got.at] # UserOf[l.key]
      BY <2>1, <2>10, <3>1, <3>2 DEF Delivers
    <3> QED BY <2>1, <2>5, <3>1, <3>2 DEF Delivers, Rising, Follows
  <2>15. Retreats(pc, l)'
    <3>1. CASE l.op = "prev" /\ l.goal = "last" /\ pc \in {"open", "read", "check"}
      <4>1. PICK c \in 1 .. used : low(l.blk) < low(c) /\ low(c) <= l.from
        BY <2>1, <3>1 DEF Retreats
      <4>2. low(c)' = low(c) /\ c \in 1 .. used' /\ low(l.blk)' = low(l.blk)
        BY <2>3, <2>4, <3>1 DEF Looking
      <4> QED BY <3>1, <4>1, <4>2 DEF Retreats
    <3>2. CASE l.op = "prev" /\ l.goal = "last" /\ pc = "hop"
      <4>1. low(l.blk)' = low(l.blk)
        BY <2>3, <2>4, <3>2 DEF Looking
      <4> QED BY <2>1, <3>2, <4>1 DEF Retreats
    <3> QED BY <3>1, <3>2 DEF Retreats
  <2>16. Ends(pc, l)'
    BY <2>1, HeadStaysNext DEF Ends
  <2> QED BY <2>6, <2>7, <2>8, <2>12, <2>13, <2>14, <2>15, <2>16 DEF Serving
<1>3. QED
  BY <1>1, <1>2

------------------------------------------------------------------------------
(* The readers' steps: each leads on to a step that still serves the call, or ends
   it with the answer that OrderedLog asks for. *)

Asks(m, l) == m.op = l.op /\ m.key = l.key /\ m.since = l.since /\ m.from = l.from

(* The answer of a call whose iterator is left at the entry at. *)
Answered(l, at) ==
  /\ at \in visible \cup {Null}
  /\ l.op \in {"get", "contains", "valid"} => at = l.from
  /\ l.op = "get" => /\ Rising(l.out) /\ \A i \in DOMAIN l.out : Version(l, l.out[i])
                     /\ \A e \in Due(l) : l.stopped /\ l.out # << >> /\ Follows(l.out, e)
  /\ l.op = "contains" => (l.found => l.key \in visible) /\ (l.key \in l.since => l.found)
  /\ l.op = "seek" => /\ at # Null => l.key <= at
                      /\ \A e \in l.since : l.key <= e => at # Null /\ at <= e
  /\ l.op \in {"first", "next", "scan"} => \A e \in Due(l) : at # Null /\ at <= e
  /\ l.op = "scan" => Given(l) \subseteq visible
  /\ l.op = "last" => (Cardinality(l.since) > 1 => at # Null)
  /\ l.op = "prev" => at < l.from

Turns(r) ==
  \E pc, m, p : /\ Moves(r, pc, m, p) /\ Asks(m, loc[r]) /\ pc # "idle"
                /\ IF pc = "done" THEN Answered(m, p.anchor) ELSE Serving(pc, m, p)

(* A reader in a call, and the invariant of that call. *)
Busy(r) ==
  /\ r \in Readers /\ rpc[r] \notin {"idle", "done"} /\ Serving(rpc[r], loc[r], pos[r])

LEMMA BusyParts ==
  ASSUME TableInv, ReaderInv, NEW r, Busy(r), NEW pc, NEW l, NEW p, pc = rpc[r], l = loc[r], p = pos[r]
  PROVE  /\ Consistent(pc, l, p) /\ Callful(l) /\ Standing(p) /\ l \in Locals
         /\ Serves(pc, l, p) /\ Rooted(l, p) /\ Ahead(pc, l) /\ Noted(pc, l) /\ StepNoted(pc, l, p)
         /\ Delivers(pc, l) /\ Retreats(pc, l) /\ Ends(pc, l)
<1>1. Consistent(pc, l, p)
  BY DEF ReaderInv, Busy
<1>2. Callful(l) /\ Standing(p)
  BY <1>1, CallOf
<1>3. QED
  BY <1>1, <1>2 DEF Busy, Serving, Callful

LEMMA TurnTo ==
  ASSUME NEW r, NEW q, NEW m, NEW p, Moves(r, q, m, p), Asks(m, loc[r]), q \notin {"idle", "done"},
         Serving(q, m, p)
  PROVE  Turns(r)
BY DEF Turns

(* A step that changes neither what was asked nor what it looks for. *)
LEMMA Proceeds ==
  ASSUME NEW pc, NEW q, NEW l, NEW m, NEW p, Serving(pc, l, p), pc \notin {"idle", "done"}, Same(m, l),
         q \notin {"idle", "done", "reval", "tail", "check", "stepcheck"}, q \in Walking => pc \in Walking,
         Ahead(q, m), Retreats(q, m), Ends(q, m)
  PROVE  Serving(q, m, p)
<1>1. /\ Serves(pc, l, p) /\ Rooted(l, p) /\ Ahead(pc, l) /\ Delivers(pc, l)
  BY DEF Serving
<1>2. Due(m) = Due(l) /\ Given(m) = Given(l) /\ Reseeks(m) = Reseeks(l)
  BY SameDue
<1>3. Serves(q, m, p)
  BY <1>1, <1>2 DEF Serves, Same
<1>4. Rooted(m, p)
  BY <1>1, <1>2 DEF Rooted, Same
<1>5. Noted(q, m) /\ StepNoted(q, m, p)
  BY DEF Noted, StepNoted
<1>6. Delivers(q, m)
  BY <1>1, <1>2 DEF Delivers, Same, Version
<1>7. QED
  BY <1>3, <1>4, <1>5, <1>6 DEF Serving

LEMMA GoesOn ==
  ASSUME ReaderInv, NEW r, Busy(r), NEW q, NEW m, Run(r, q, m), UNCHANGED pos, Same(m, loc[r]),
         q \notin {"idle", "done", "reval", "tail", "check", "stepcheck"}, q \in Walking => rpc[r] \in Walking,
         Ahead(q, m), Retreats(q, m), Ends(q, m)
  PROVE  Turns(r)
<1>1. Serving(q, m, pos[r])
  BY Proceeds DEF Busy
<1>2. Moves(r, q, m, pos[r])
  BY RunMoves DEF Busy
<1>3. QED
  BY <1>1, <1>2, TurnTo DEF Asks, Same

(* The leaf walk: it ends at a block that begins no later than the key. *)
LEMMA WalksOn ==
  ASSUME TableInv, ReaderInv, NEW r, Busy(r), rpc[r] \in Walking, NEW q \in Walking \cup {"open"}, NEW m,
         Run(r, q, m), UNCHANGED pos, Same(m, loc[r]),
         q = "open" => m.blk \in 1 .. used /\ low(m.blk) <= m.target
  PROVE  Turns(r)
<1>1. PICK l, p : l = loc[r] /\ p = pos[r]
  OBVIOUS
<1>2. /\ Consistent(rpc[r], l, p) /\ Callful(l) /\ Serves(rpc[r], l, p)
  BY <1>1, BusyParts
<1>3. l.goal \in Searches /\ l.target \in Entries
  BY <1>2 DEF Consistent, Control
<1>4. m.goal = l.goal /\ m.target = l.target /\ Due(m) = Due(l)
  BY <1>1, SameDue DEF Same
<1>5. Ahead(q, m)
  <2> SUFFICES ASSUME q = "open", m.goal \in {"get", "contains"}, NEW e \in Due(m) PROVE low(m.blk) <= e
    BY <1>3, <1>4 DEF Ahead, Searches, Walking
  <2>1. l.op = l.goal /\ l.target = l.key /\ l.goal \in {"get", "contains"}
    BY <1>2, <1>4 DEF Serves
  <2>2. e \in Nat /\ l.target \in Nat /\ low(m.blk) \in Nat
    BY <1>2, <1>3, <1>4, DueTyped, Sizes, Facts
  <2>3. l.key <= e
    BY <1>4, <2>1, <2>2 DEF Due
  <2> QED BY <1>4, <2>1, <2>2, <2>3
<1>6. Retreats(q, m) /\ Ends(q, m)
  BY <1>3, <1>4 DEF Retreats, Ends, Searches
<1>7. q \notin {"idle", "done", "reval", "tail", "check", "stepcheck"}
  BY DEF Walking
<1>8. QED
  BY <1>5, <1>6, <1>7, GoesOn

LEMMA LocateTurns ==
  ASSUME TableInv, ReaderInv, NEW r, Busy(r),
         LocateFull(r) \/ LocateTrie(r) \/ LocateTail(r) \/ LocateMapped(r)
  PROVE  Turns(r)
<1>1. PICK l, p : l = loc[r] /\ p = pos[r]
  OBVIOUS
<1>2. Consistent(rpc[r], l, p) /\ Callful(l)
  BY <1>1, BusyParts
<1>3. rpc[r] \in Walking /\ UNCHANGED pos
  BY DEF LocateFull, LocateTrie, LocateTail, LocateMapped, Walking
<1>4. l.target \in Entries /\ l.target \in Nat
  BY <1>2, <1>3, Sizes DEF Consistent, Control
<1>5. ASSUME NEW b \in 1 .. used, NEW q \in Walking \cup {"open"}, Run(r, q, [l EXCEPT !.blk = b]),
             q = "open" => low(b) <= l.target
      PROVE  Turns(r)
  <2>1. PICK m : m = [l EXCEPT !.blk = b]
    OBVIOUS
  <2>2. Same(m, l) /\ m.blk = b
    BY <1>2, <2>1, SetBlk, Facts
  <2>3. m.target = l.target
    BY <2>2 DEF Same
  <2> QED BY <1>1, <1>3, <1>5, <2>1, <2>2, <2>3, WalksOn
<1>6. HeadBlock \in 1 .. used /\ low(HeadBlock) <= l.target
  BY <1>4, Facts DEF HeadBlock, low
<1>7. TrieCandidate(l.target) \in 1 .. used
  BY <1>4, CandidateLinked, Facts DEF TableInv
<1>8. CASE LocateFull(r)
  <2>1. PICK b : b = FindLeafBlock(l.target, TRUE)
    OBVIOUS
  <2>2. b \in 1 .. used /\ low(b) <= l.target
    BY <1>4, <1>8, <2>1, FindLeafBlockCovers DEF LocateFull, Covers
  <2> QED BY <1>1, <1>5, <1>8, <2>1, <2>2 DEF LocateFull
<1>9. CASE LocateTrie(r)
  BY <1>1, <1>5, <1>6, <1>7, <1>9 DEF LocateTrie, Walking
<1>10. CASE LocateTail(r)
  <2>1. CASE tail = HeadBlock
    BY <1>1, <1>5, <1>6, <1>10, <2>1 DEF LocateTail
  <2>2. CASE tail # HeadBlock
    <3>1. Run(r, "mapped", l) /\ "mapped" \in Walking /\ "mapped" # "open"
      BY <1>1, <1>10, <2>2 DEF LocateTail, Walking
    <3>2. Same(l, l)
      BY DEF Same
    <3> QED BY <1>1, <1>3, <3>1, <3>2, WalksOn
  <2> QED BY <2>1, <2>2
<1>11. CASE LocateMapped(r)
  BY <1>1, <1>5, <1>7, <1>11 DEF LocateMapped, Walking
<1>12. QED
  BY <1>8, <1>9, <1>10, <1>11

LEMMA SettleTurns ==
  ASSUME TableInv, ReaderInv, NEW r, Busy(r),
         SettleBack(r) \/ StepBack(r) \/ SettleNext(r) \/ SettleForward(r)
  PROVE  Turns(r)
<1>1. PICK l, p, pc : l = loc[r] /\ p = pos[r] /\ pc = rpc[r]
  OBVIOUS
<1>2. Consistent(pc, l, p) /\ Callful(l) /\ Same(l, l)
  BY <1>1, BusyParts DEF Same
<1>3. pc \in {"back", "stepback", "forward", "compare"} /\ pc \in Walking /\ UNCHANGED pos
  BY <1>1 DEF SettleBack, StepBack, SettleNext, SettleForward, Walking
<1>4. /\ l.blk \in Joined /\ (pc = "stepback" => l.blk # HeadBlock) /\ (pc = "compare" => l.nxt \in Joined)
      /\ (pc \in {"forward", "compare"} => low(l.blk) <= l.target)
      /\ l.blk \in 1 .. used /\ l.blk \in Blocks
  BY <1>2, <1>3, JoinedFacts DEF Consistent, Located, Approaching
<1>5. CASE SettleBack(r)
  <2>1. PICK q \in {"stepback", "forward"} : Run(r, q, l)
    BY <1>1, <1>5 DEF SettleBack
  <2>2. q \in Walking /\ q # "open"
    BY DEF Walking
  <2> QED BY <1>1, <1>2, <1>3, <2>1, <2>2, WalksOn
<1>6. CASE StepBack(r)
  <2>1. PICK m : m = [l EXCEPT !.blk = prev[l.blk]]
    OBVIOUS
  <2>2. prev[l.blk] \in Blocks
    BY <1>1, <1>4, <1>6, JoinedFacts DEF StepBack
  <2>3. Run(r, "back", m) /\ Same(m, l) /\ "back" \in Walking /\ "back" # "open"
    BY <1>1, <1>2, <1>6, <2>1, <2>2, SetBlk DEF StepBack, Walking
  <2> QED BY <1>1, <1>3, <2>3, WalksOn
<1>7. CASE SettleNext(r)
  <2>1. CASE next[l.blk] = Null
    <3>1. Run(r, "open", l) /\ low(l.blk) <= l.target
      BY <1>1, <1>4, <1>7, <2>1 DEF SettleNext
    <3> QED BY <1>1, <1>2, <1>3, <1>4, <3>1, WalksOn
  <2>2. CASE next[l.blk] # Null
    <3>1. PICK m : m = [l EXCEPT !.nxt = next[l.blk]]
      OBVIOUS
    <3>2. next[l.blk] \in Blocks
      BY <1>4, <2>2, JoinedFacts
    <3>3. Run(r, "compare", m) /\ Same(m, l) /\ "compare" \in Walking /\ "compare" # "open"
      BY <1>1, <1>2, <1>7, <2>2, <3>1, <3>2, SetNxt DEF SettleNext, Walking
    <3> QED BY <1>1, <1>3, <3>3, WalksOn
  <2> QED BY <2>1, <2>2
<1>8. CASE SettleForward(r)
  <2>0. pc = "compare" /\ l.nxt \in Joined /\ l.nxt \in Blocks
    BY <1>1, <1>4, <1>8, JoinedFacts DEF SettleForward
  <2>1. CASE min_key(l.nxt) <= l.target
    <3>1. PICK k : k = [l EXCEPT !.blk = l.nxt]
      OBVIOUS
    <3>2. Callful(k) /\ Same(k, l)
      BY <1>2, <2>0, <3>1, SetBlk
    <3>3. PICK m : m = [k EXCEPT !.nxt = Null]
      OBVIOUS
    <3>4. Same(m, k)
      BY <3>2, <3>3, SetNxt
    <3>5. Run(r, "forward", m) /\ "forward" \in Walking /\ "forward" # "open"
      BY <1>1, <1>8, <2>1, <3>1, <3>3 DEF SettleForward, Walking
    <3>6. Same(m, l)
      BY <3>2, <3>4 DEF Same
    <3> QED BY <1>1, <1>3, <3>5, <3>6, WalksOn
  <2>2. CASE ~ (min_key(l.nxt) <= l.target)
    <3>1. PICK m : m = [l EXCEPT !.nxt = Null]
      OBVIOUS
    <3>2. Run(r, "open", m) /\ Same(m, l) /\ m.blk = l.blk
      BY <1>1, <1>2, <1>8, <2>2, <3>1, SetNxt DEF SettleForward
    <3>3. m.blk \in 1 .. used /\ low(m.blk) <= m.target
      BY <1>4, <2>0, <3>2 DEF Same
    <3> QED BY <1>1, <1>3, <3>2, <3>3, WalksOn
  <2> QED BY <2>1, <2>2
<1>9. QED
  BY <1>5, <1>6, <1>7, <1>8

(* The end of a call, and what follows the rounds of one. *)
LEMMA EndFields ==
  ASSUME NEW l \in Locals, NEW m, m = [Asked(l) EXCEPT !.stage = "none", !.found = l.found, !.stopped = l.stopped]
  PROVE  Asks(m, l) /\ m.out = l.out /\ m.found = l.found /\ m.stopped = l.stopped
<1>1. /\ Asked(l) \in Locals /\ Asked(l).op = l.op /\ Asked(l).since = l.since
      /\ Asked(l).key = l.key /\ Asked(l).out = l.out /\ Asked(l).from = l.from
  BY AskedFields
<1>2. PICK k : k = Asked(l)
  OBVIOUS
<1>3. PICK a, b : a = [k EXCEPT !.stage = "none"] /\ b = [a EXCEPT !.found = l.found]
  OBVIOUS
<1>4. l.found \in BOOLEAN /\ l.stopped \in BOOLEAN
  BY DEF Locals
<1>5. a \in Locals /\ a.op = k.op /\ a.since = k.since /\ a.key = k.key /\ a.out = k.out /\ a.from = k.from
  BY <1>1, <1>2, <1>3 DEF Locals
<1>6. b \in Locals /\ b.op = a.op /\ b.since = a.since /\ b.key = a.key /\ b.out = a.out /\ b.from = a.from
      /\ b.found = l.found
  <2>1. PICK f \in BOOLEAN : f = l.found
    BY <1>4
  <2>2. b = [a EXCEPT !.found = f] /\ a \in Locals
    BY <1>3, <1>5, <2>1
  <2>3. b \in Locals /\ b.op = a.op /\ b.since = a.since /\ b.key = a.key /\ b.out = a.out /\ b.from = a.from
    BY <2>2 DEF Locals
  <2>4. b.found = f
    BY <2>2 DEF Locals
  <2> QED BY <2>1, <2>3, <2>4
<1>7. m = [b EXCEPT !.stopped = l.stopped]
  BY <1>2, <1>3
<1>8. m.op = b.op /\ m.since = b.since /\ m.key = b.key /\ m.out = b.out /\ m.from = b.from
      /\ m.found = b.found /\ m.stopped = l.stopped
  BY <1>4, <1>6, <1>7 DEF Locals
<1>9. QED
  BY <1>1, <1>2, <1>5, <1>6, <1>8 DEF Asks

LEMMA DoneTurns ==
  ASSUME NEW r, NEW l \in Locals, Asks(l, loc[r]), NEW p, Done(r, l), pos' = [pos EXCEPT ![r] = p],
         Answered(l, p.anchor)
  PROVE  Turns(r)
<1>1. PICK m : m = [Asked(l) EXCEPT !.stage = "none", !.found = l.found, !.stopped = l.stopped]
  OBVIOUS
<1>2. Asks(m, l) /\ m.out = l.out /\ m.found = l.found /\ m.stopped = l.stopped
  BY <1>1, EndFields
<1>3. Moves(r, "done", m, p)
  BY <1>1 DEF Done, Run, Moves
<1>4. Due(m) = Due(l) /\ Given(m) = Given(l) /\ \A e : Version(m, e) = Version(l, e)
  BY <1>2 DEF Asks, Due, Given, Version
<1>5. Answered(m, p.anchor)
  BY <1>2, <1>4 DEF Asks, Answered
<1>6. Asks(m, loc[r])
  BY <1>2 DEF Asks
<1>7. QED
  BY <1>3, <1>5, <1>6 DEF Turns

LEMMA AskedServes ==
  ASSUME NEW l \in Locals, NEW s \in {"none", "user", "valid", "key", "step"},
         NEW m, m = [Asked(l) EXCEPT !.stage = s],
         NEW pc, NEW q \in {"reval", "tail", "count", "step"}, NEW p0, NEW p, Serves(pc, l, p0), Rooted(l, p),
         l.op \in StepOps \/ (l.op = "seekprev" /\ s # "user"), l.op \in StepOps => s = "step" /\ q # "tail"
  PROVE  Serving(q, m, p) /\ Asks(m, l)
<1>1. /\ Asked(l) \in Locals /\ Asked(l).op = l.op /\ Asked(l).since = l.since /\ Asked(l).goal = "none"
      /\ Asked(l).key = l.key /\ Asked(l).out = l.out /\ Asked(l).from = l.from
  BY AskedFields
<1>2. Asked(l).found = FALSE /\ Asked(l).stopped = FALSE
  BY AskedFields, <1>1 DEF Locals
<1>3. PICK k : k = Asked(l)
  OBVIOUS
<1>4. /\ m.op = k.op /\ m.since = k.since /\ m.goal = k.goal /\ m.key = k.key /\ m.out = k.out /\ m.from = k.from
      /\ m.stage = s
  BY <1>1, <1>3 DEF Locals
<1>5. m.found = FALSE /\ m.stopped = FALSE
  BY <1>1, <1>2, <1>3 DEF Locals
<1>6. Asks(m, l) /\ m.out = l.out /\ m.goal = "none"
  BY <1>1, <1>3, <1>4 DEF Asks
<1>7. Due(m) = Due(l) /\ Given(m) = Given(l)
  BY <1>6 DEF Asks, Due, Given
<1>8. Serves(q, m, p)
  <2>1. l.op \in Ops /\ (l.op \in KeyOps => l.key \in Entries) /\ (l.op \in StepOps => l.from \in Entries)
    BY DEF Serves
  <2> QED BY <1>4, <1>5, <1>6, <2>1 DEF Asks, Serves, StepOps
<1>9. Rooted(m, p)
  BY <1>6, <1>7 DEF Rooted, Asks
<1>10. Ahead(q, m) /\ Retreats(q, m) /\ Ends(q, m) /\ Noted(q, m) /\ StepNoted(q, m, p)
  BY <1>6 DEF Ahead, Retreats, Ends, Noted, StepNoted
<1>11. Delivers(q, m)
  BY <1>6 DEF Delivers, Asks, StepOps
<1>12. QED
  BY <1>6, <1>8, <1>9, <1>10, <1>11 DEF Serving

LEMMA StandsAt ==
  ASSUME NEW p, Standing(p)
  PROVE  /\ p.anchor \in visible \cup {Null}
         /\ p # NoPosition => p.anchor \in visible /\ p.anchor \in Entries /\ p.anchor # Null
BY Sizes DEF Standing, NoPosition, Positions, Null

LEMMA ResumeTurns ==
  ASSUME NEW r, NEW l, Callful(l), Asks(l, loc[r]), NEW pc, NEW p0, Serves(pc, l, p0),
         NEW p, Standing(p), Rooted(l, p), Resume(r, l, p), pos' = [pos EXCEPT ![r] = p],
         l.op \in StepOps \cup {"seek", "seekprev", "valid"}, l.op = "seek" => Answered(l, p.anchor)
  PROVE  Turns(r)
<1>0. l \in Locals /\ p.anchor \in visible \cup {Null}
  BY StandsAt DEF Callful
<1>1. ASSUME NEW q \in {"reval", "tail", "count", "step"}, NEW s \in {"valid", "key", "step"},
             Run(r, q, [Asked(l) EXCEPT !.stage = s]),
             l.op \in StepOps \/ (l.op = "seekprev" /\ s # "user"), l.op \in StepOps => s = "step" /\ q # "tail"
      PROVE  Turns(r)
  <2>1. PICK m : m = [Asked(l) EXCEPT !.stage = s]
    OBVIOUS
  <2>2. Serving(q, m, p) /\ Asks(m, l)
    BY <1>0, <1>1, <2>1, AskedServes
  <2>3. Moves(r, q, m, p)
    BY <1>1, <2>1 DEF Run, Moves
  <2>4. Asks(m, loc[r])
    BY <2>2 DEF Asks
  <2> QED BY <2>2, <2>3, <2>4, TurnTo
<1>2. ASSUME Done(r, l), Answered(l, p.anchor) PROVE Turns(r)
  BY <1>0, <1>2, DoneTurns
<1>3. l.op = "seekprev" => Answered(l, p.anchor)
  BY <1>0 DEF Answered
<1>4. CASE l.stage = "user" /\ l.op = "seekprev"
  <2>1. Run(r, "reval", [Asked(l) EXCEPT !.stage = "valid"])
    BY <1>4 DEF Resume
  <2> QED BY <1>1, <1>4, <2>1 DEF StepOps
<1>5. CASE l.stage = "valid"
  <2>1. IF p = NoPosition THEN Run(r, "tail", [Asked(l) EXCEPT !.stage = "valid"])
                          ELSE Run(r, "reval", [Asked(l) EXCEPT !.stage = "key"])
    BY <1>5 DEF Resume
  <2>2. l.op = "seekprev"
    BY <1>5 DEF Callful
  <2> QED BY <1>1, <2>1, <2>2 DEF StepOps
<1>6. CASE l.stage = "key"
  <2>1. IF p.anchor = l.key THEN Done(r, l) ELSE Run(r, "reval", [Asked(l) EXCEPT !.stage = "step"])
    BY <1>6 DEF Resume
  <2>2. l.op = "seekprev"
    BY <1>6 DEF Callful
  <2> QED BY <1>1, <1>2, <1>3, <2>1, <2>2 DEF StepOps
<1>7. CASE l.stage = "step" /\ p # NoPosition
  <2>1. PICK q \in {"step", "count"} : Run(r, q, [Asked(l) EXCEPT !.stage = "step"])
    BY <1>7 DEF Resume
  <2>2. l.op \in StepOps \/ l.op = "seekprev"
    BY <1>7 DEF Callful
  <2> QED BY <1>1, <2>1, <2>2
<1>8. CASE ~ (l.stage = "user" /\ l.op = "seekprev") /\ l.stage \notin {"valid", "key"}
           /\ ~ (l.stage = "step" /\ p # NoPosition)
  <2>1. Done(r, l)
    BY <1>8 DEF Resume
  <2>2. l.op \in StepOps => p # NoPosition /\ l.stage = "step"
    BY DEF Rooted, Serves
  <2>3. l.op = "valid" => Answered(l, p.anchor)
    BY <1>0 DEF Answered, Rooted
  <2> QED BY <1>2, <1>3, <1>8, <2>1, <2>2, <2>3
<1>9. QED
  BY <1>4, <1>5, <1>6, <1>7, <1>8

LEMMA NextRoundTurns ==
  ASSUME NEW r, NEW l, Callful(l), Asks(l, loc[r]), NEW pc, NEW p0, Serves(pc, l, p0),
         NEW p, Standing(p), NextRound(r, l), pos' = [pos EXCEPT ![r] = p],
         l.op = "scan" => Rooted(l, p), l.op # "scan" => Answered(l, p.anchor)
  PROVE  Turns(r)
<1>0. l \in Locals /\ p.anchor \in visible \cup {Null}
  BY StandsAt DEF Callful
<1>1. CASE l.op = "scan" /\ Len(l.out) < Batch
  <2>1. PICK m : m = [Asked(l) EXCEPT !.stage = "step"]
    OBVIOUS
  <2>2. l.op \in StepOps /\ l.stage = "step"
    BY <1>1 DEF StepOps, Serves
  <2>3. Serving("reval", m, p) /\ Asks(m, l)
    BY <1>0, <1>1, <2>1, <2>2, AskedServes
  <2>4. m = Asked(l)
    <3>1. Asked(l) \in Locals /\ Asked(l).stage = "step"
      BY <1>0, <2>2, AskedFields
    <3> QED BY <2>1, <3>1 DEF Locals
  <2>5. Moves(r, "reval", m, p)
    BY <1>1, <2>4 DEF NextRound, Run, Moves
  <2>6. Asks(m, loc[r])
    BY <2>3 DEF Asks
  <2> QED BY <2>3, <2>5, <2>6, TurnTo
<1>2. CASE ~ (l.op = "scan" /\ Len(l.out) < Batch)
  <2>1. Done(r, l)
    BY <1>2 DEF NextRound
  <2>2. l.op = "scan" => Answered(l, p.anchor)
    <3> SUFFICES ASSUME l.op = "scan" PROVE Answered(l, p.anchor)
      OBVIOUS
    <3>1. p # NoPosition /\ Given(l) \subseteq visible /\ \A e \in Due(l) : p.anchor <= e
      BY DEF Rooted, StepOps
    <3>2. p.anchor # Null
      BY <3>1, StandsAt
    <3> QED BY <1>0, <3>1, <3>2 DEF Answered
  <2> QED BY <1>0, <2>1, <2>2, DoneTurns
<1>3. QED
  BY <1>1, <1>2

(* A chain of one block: its head has one of two inserted entries, and keeps it. *)
LEMMA TwoEntries ==
  ASSUME NEW S, IsFiniteSet(S), S \subseteq Nat, Cardinality(S) > 1
  PROVE  \E e, f \in S : e < f
<1> SUFFICES ASSUME \A e, f \in S : ~ (e < f) PROVE FALSE
  OBVIOUS
<1>1. S # {}
  <2>1. Cardinality({}) = 0
    BY FS_EmptySet
  <2> QED BY <2>1
<1>2. PICK e \in S : TRUE
  BY <1>1
<1>3. S = {e}
  <2>1. \A f \in S : f = e
    <3> TAKE f \in S
    <3>1. ~ (e < f) /\ ~ (f < e) /\ e \in Nat /\ f \in Nat
      OBVIOUS
    <3> QED BY <3>1
  <2> QED BY <2>1
<1>4. Cardinality({e}) = 1
  BY FS_Singleton
<1>5. QED
  BY <1>3, <1>4

LEMMA HeadKeepsOne ==
  ASSUME TableInv, Halved, tail = HeadBlock, NEW S \in SUBSET visible, Cardinality(S) > 1
  PROVE  HeadStays
<1>0. IsFiniteSet(S) /\ S \subseteq Nat
  <2>1. S \subseteq Entries /\ IsFiniteSet(Entries) /\ Entries \subseteq Nat
    BY MemTableAssumption DEF TableInv, TableTypes
  <2> QED BY <2>1, FS_Subset
<1>1. PICK e, f \in S : e < f
  BY <1>0, TwoEntries
<1>2. /\ HeadBlock \in Joined /\ Joined \subseteq 1 .. used /\ used \in Nat /\ used >= 1
      /\ count[HeadBlock] \in Nat /\ HeadBlock \in 1 .. used
  BY JoinedFacts, Facts
<1>3. \A c \in Joined : c = HeadBlock
  <2> SUFFICES ASSUME NEW c \in Joined, c # HeadBlock PROVE FALSE
    OBVIOUS
  <2>1. low(c) <= low(HeadBlock) /\ low(HeadBlock) = 0
    BY DEF TableInv, PrevOrder, low
  <2>2. low(c) \in Nat /\ low(c) > 0
    BY JoinedFacts
  <2> QED BY <2>1, <2>2
<1>4. PICK b, c \in 1 .. used : (\E i \in Owned(b) : entries[b][i] = e) /\ (\E j \in Owned(c) : entries[c][j] = f)
  BY DEF TableInv, Contents
<1>5. PICK i \in Owned(b), j \in Owned(c) : entries[b][i] = e /\ entries[c][j] = f
  BY <1>4
<1>6. CASE wpc \in {"splitcount", "null", "linkback"}
  <2>1. Joined = 1 .. used - 1
    BY <1>6 DEF Joined
  <2>2. used = 2
    <3>1. used - 1 >= 1
      BY <1>2, <2>1 DEF HeadBlock
    <3>2. used - 1 \in Joined
      BY <1>2, <2>1, <3>1
    <3> QED BY <1>2, <1>3, <3>1, <3>2 DEF HeadBlock
  <2>3. Splitting /\ wpc # "idle"
    BY <1>6 DEF Splitting
  <2>4. /\ ins.b = HeadBlock /\ ins.new = 2 /\ count[2] \in Nat /\ count[2] > 0 /\ ins.i \in Nat
        /\ b \in {1, 2} /\ c \in {1, 2} /\ 2 # HeadBlock
    BY <1>2, <2>2, <2>3, SplitFacts, WriterFacts, Facts DEF HeadBlock
  <2>5. CASE wpc = "splitcount"
    <3>1. count[2] <= ins.i + 1 /\ ins.i + count[2] = count[HeadBlock]
      BY <2>4, <2>5 DEF Halved, TableInv, Inserting
    <3>2. Owned(1) = 0 .. ins.i - 1 /\ Owned(2) = 0 .. count[2] - 1
      BY <2>4, <2>5 DEF Owned, HeadBlock
    <3>3. ins.i # 0
      <4> SUFFICES ASSUME ins.i = 0 PROVE FALSE
        OBVIOUS
      <4>1. i = j /\ b = c
        BY <1>5, <2>4, <3>1, <3>2
      <4> QED BY <1>0, <1>1, <1>5, <4>1
    <3> QED BY <1>2, <2>4, <2>5, <3>1, <3>3 DEF HeadStays
  <2>6. CASE wpc \in {"null", "linkback"}
    <3>1. count[2] <= count[HeadBlock] + 1
      BY <2>4, <2>6 DEF Halved
    <3>2. Owned(1) = 0 .. count[1] - 1 /\ Owned(2) = 0 .. count[2] - 1
      BY <2>4, <2>6 DEF Owned
    <3>3. count[HeadBlock] # 0
      <4> SUFFICES ASSUME count[HeadBlock] = 0 PROVE FALSE
        OBVIOUS
      <4>1. i = j /\ b = c
        BY <1>5, <2>4, <3>1, <3>2 DEF HeadBlock
      <4> QED BY <1>0, <1>1, <1>5, <4>1
    <3> QED BY <1>2, <2>6, <3>3 DEF HeadStays
  <2> QED BY <1>6, <2>5, <2>6
<1>7. CASE wpc \notin {"splitcount", "null", "linkback"}
  <2>1. used = 1
    <3>1. used \in Joined
      BY <1>2, <1>7 DEF Joined
    <3> QED BY <1>3, <3>1 DEF HeadBlock
  <2>2. b = HeadBlock /\ c = HeadBlock /\ i # j
    BY <1>0, <1>1, <1>5, <2>1 DEF HeadBlock
  <2>3. wpc # "idle" => ins.b = HeadBlock
    BY <1>2, <2>1, WriterFacts DEF HeadBlock
  <2>4. CASE wpc = "shift"
    <3>1. i \in 0 .. count[HeadBlock] /\ j \in 0 .. count[HeadBlock]
      BY <1>5, <2>2, <2>3, <2>4 DEF Owned
    <3>2. count[HeadBlock] > 0
      BY <1>2, <2>2, <3>1
    <3> QED BY <2>4, <3>2 DEF HeadStays
  <2>5. CASE wpc = "count"
    <3>1. i \in 0 .. count[HeadBlock] /\ j \in 0 .. count[HeadBlock]
      BY <1>5, <2>2, <2>3, <2>5 DEF Owned
    <3>2. count[HeadBlock] > 0
      BY <1>2, <2>2, <3>1
    <3> QED BY <2>5, <3>2 DEF HeadStays
  <2>6. CASE wpc \notin {"shift", "count"}
    <3>1. i \in 0 .. count[HeadBlock] - 1 /\ j \in 0 .. count[HeadBlock] - 1
      BY <1>5, <1>7, <2>2, <2>6 DEF Owned
    <3>2. count[HeadBlock] > 1
      BY <1>2, <2>2, <3>1
    <3> QED BY <1>2, <1>7, <3>2 DEF HeadStays
  <2> QED BY <2>4, <2>5, <2>6
<1>8. QED
  BY <1>6, <1>7

LEMMA LoadTailTurns ==
  ASSUME TableInv, ReaderInv, Halved, NEW r, Busy(r), LoadTail(r)
  PROVE  Turns(r)
<1>1. PICK l, p : l = loc[r] /\ p = pos[r]
  OBVIOUS
<1>2. Callful(l) /\ l \in Locals /\ Serves("tail", l, p) /\ Rooted(l, p)
  <2>1. rpc[r] = "tail"
    BY DEF LoadTail
  <2> QED BY <1>1, <2>1, BusyParts
<1>3. PICK m : m = [l EXCEPT !.goal = "last", !.blk = tail]
  OBVIOUS
<1>4. /\ Asks(m, l) /\ m.out = l.out /\ m.goal = "last" /\ m.blk = tail /\ m.stage = l.stage
  BY <1>2, <1>3 DEF Locals, Asks
<1>5. m.found = l.found /\ m.stopped = l.stopped
  BY <1>2, <1>3 DEF Locals
<1>6. Moves(r, "open", m, p)
  <2>1. Run(r, "open", m) /\ UNCHANGED pos
    BY <1>1, <1>3 DEF LoadTail
  <2> QED BY <1>1, <2>1, RunMoves DEF Busy
<1>7. l.op \in {"last", "seekprev"}
  BY <1>2 DEF Serves
<1>8. Serves("open", m, p)
  BY <1>2, <1>4, <1>5, <1>7 DEF Serves, Asks
<1>9. Rooted(m, p)
  BY <1>4, <1>7 DEF Rooted, Asks, StepOps
<1>10. /\ Ahead("open", m) /\ Noted("open", m) /\ StepNoted("open", m, p)
       /\ Delivers("open", m) /\ Retreats("open", m)
  BY <1>4, <1>7 DEF Ahead, Noted, StepNoted, Delivers, Retreats, Asks
<1>11. Ends("open", m)
  <2> SUFFICES ASSUME Cardinality(m.since) > 1, tail = HeadBlock PROVE HeadStays
    BY <1>4 DEF Ends
  <2>1. m.since \in SUBSET visible
    BY <1>2, <1>4 DEF Callful, Asks
  <2> QED BY <2>1, HeadKeepsOne
<1>12. QED
  BY <1>1, <1>4, <1>6, <1>8, <1>9, <1>10, <1>11, TurnTo DEF Serving

LEMMA RevalidateTurns ==
  ASSUME TableInv, ReaderInv, NEW r, Busy(r), Revalidate(r)
  PROVE  Turns(r)
<1>1. PICK l, p : l = loc[r] /\ p = pos[r]
  OBVIOUS
<1>2. rpc[r] = "reval"
  BY DEF Revalidate
<1>3. Callful(l) /\ Standing(p) /\ l \in Locals /\ Serves("reval", l, p) /\ Rooted(l, p)
  BY <1>1, <1>2, BusyParts
<1>4. l.op \in StepOps \cup {"valid"} \/ (l.op = "seekprev" /\ l.stage # "user")
  BY <1>3 DEF Serves
<1>5. CASE p = NoPosition \/ version[p.leaf] = p.ver
  <2>1. Resume(r, l, p) /\ pos' = [pos EXCEPT ![r] = p]
    BY <1>1, <1>5 DEF Revalidate, ReaderInv
  <2>2. l.op # "seek" /\ l.op \in StepOps \cup {"seek", "seekprev", "valid"}
    BY <1>4 DEF StepOps
  <2> QED BY <1>1, <1>3, <2>1, <2>2, ResumeTurns DEF Asks
<1>6. CASE ~ (p = NoPosition \/ version[p.leaf] = p.ver)
  <2>1. PICK m : m = [l EXCEPT !.target = p.anchor, !.goal = "seek"]
    OBVIOUS
  <2>2. Asks(m, l) /\ m.out = l.out /\ m.goal = "seek" /\ m.target = p.anchor /\ m.stage = l.stage
    BY <1>3, <2>1 DEF Locals, Asks
  <2>3. m.found = l.found /\ m.stopped = l.stopped
    BY <1>3, <2>1 DEF Locals
  <2>4. Moves(r, "locate", m, p)
    <3>1. Run(r, "locate", m) /\ UNCHANGED pos
      BY <1>1, <1>6, <2>1 DEF Revalidate
    <3> QED BY <1>1, <3>1, RunMoves DEF Busy
  <2>5. Reseeks(m)
    <3>1. l.op \in StepOps => l.stage # "user"
      BY <1>3 DEF Serves
    <3> QED BY <1>4, <2>2, <3>1 DEF Reseeks, Asks
  <2>6. Serves("locate", m, p)
    BY <1>3, <1>6, <2>2, <2>3, <2>5 DEF Serves, Asks
  <2>7. Rooted(m, p)
    <3>1. Due(m) = Due(l) /\ Given(m) = Given(l)
      BY <2>2 DEF Asks, Due, Given
    <3> QED BY <1>3, <2>2, <3>1 DEF Rooted, Asks
  <2>8. m.op # "get"
    BY <1>4, <2>2 DEF Asks, StepOps
  <2>9. /\ Ahead("locate", m) /\ Noted("locate", m) /\ StepNoted("locate", m, p)
        /\ Delivers("locate", m) /\ Retreats("locate", m) /\ Ends("locate", m)
    BY <2>2, <2>8 DEF Ahead, Noted, StepNoted, Delivers, Retreats, Ends
  <2> QED BY <1>1, <2>2, <2>4, <2>6, <2>7, <2>9, TurnTo DEF Serving
<1>7. QED
  BY <1>5, <1>6

(* Where a call starts. *)
LEMMA BeginServes ==
  ASSUME TableInv, ReaderInv, NEW r \in Readers, NEW op \in Ops, NEW key \in Entries \cup {Null},
         Begin(r, op, key)
  PROVE  \E q, m : /\ Moves(r, q, m, pos[r]) /\ q \notin {"idle", "done"} /\ Serving(q, m, pos[r])
                   /\ m.op = op /\ m.key = key /\ m.from = pos[r].anchor /\ m.since = visible
<1> DEFINE s == IF op \in StepOps THEN "step" ELSE "user"
           l == [NoLocals EXCEPT !.op = op, !.key = key, !.target = key,
                                 !.since = visible, !.from = pos[r].anchor, !.stage = s]
<1>1. PICK p : p = pos[r]
  OBVIOUS
<1>2. Standing(p) /\ visible \subseteq Entries
  BY <1>1, CallOf DEF ReaderInv, TableInv, TableTypes
<1>3. /\ rpc[r] = "idle" /\ (key # Null <=> op \in KeyOps) /\ UNCHANGED pos
      /\ op \in StepOps => p # NoPosition
      /\ CASE op \in {"get", "contains"} -> Run(r, "locate", [l EXCEPT !.goal = op])
           [] op \in {"seek", "seekprev"} -> Run(r, "locate", [l EXCEPT !.goal = "seek"])
           [] op = "first" -> Run(r, "open", [l EXCEPT !.goal = "first", !.blk = HeadBlock])
           [] op = "last" -> Run(r, "tail", l)
           [] OTHER -> Run(r, "reval", l)
  BY <1>1 DEF Begin
<1>4. /\ l.op = op /\ l.key = key /\ l.target = key /\ l.since = visible /\ l.from = p.anchor
      /\ l.stage = s /\ l.out = << >> /\ l.goal = "none"
  BY <1>1 DEF NoLocals
<1>5. l.found = FALSE /\ l.stopped = FALSE
  BY DEF NoLocals
<1>6. /\ op \in StepOps => s = "step" /\ p.anchor \in Entries
      /\ op \notin StepOps => s = "user"
      /\ op \in KeyOps => key \in Entries
  BY <1>2, <1>3, StandsAt
<1> DEFINE Fields(m, g) ==
             /\ m.op = op /\ m.key = key /\ m.target = key /\ m.since = visible /\ m.from = p.anchor
             /\ m.stage = s /\ m.out = << >> /\ m.goal = g
           Fresh(m) == m.found = FALSE /\ m.stopped = FALSE
<1>7. /\ Fields(l, "none") /\ \A g : Fields([l EXCEPT !.goal = g], g)
      /\ Fields([l EXCEPT !.goal = "first", !.blk = HeadBlock], "first")
      /\ [l EXCEPT !.goal = "first", !.blk = HeadBlock].blk = HeadBlock
  BY <1>1 DEF NoLocals
<1>8. /\ Fresh(l) /\ \A g : Fresh([l EXCEPT !.goal = g])
      /\ Fresh([l EXCEPT !.goal = "first", !.blk = HeadBlock])
  BY DEF NoLocals
<1> HIDE DEF l, s
<1>10. ASSUME NEW q \in {"locate", "open", "tail", "reval"}, NEW m, NEW g, Fields(m, g), Fresh(m), Run(r, q, m),
              \/ q = "locate" /\ op = g /\ g \in {"get", "contains"}
              \/ q = "locate" /\ op \in {"seek", "seekprev"} /\ g = "seek"
              \/ q = "open" /\ op = "first" /\ g = "first" /\ m.blk = HeadBlock
              \/ q = "tail" /\ op = "last" /\ g = "none"
              \/ q = "reval" /\ op \in StepOps \cup {"valid"} /\ g = "none"
       PROVE  Moves(r, q, m, p) /\ Serving(q, m, p) /\ m.op = op /\ m.key = key /\ m.from = p.anchor /\ m.since = visible
  <2>1. /\ m.op = op /\ m.key = key /\ m.target = key /\ m.since = visible /\ m.from = p.anchor
        /\ m.stage = s /\ m.out = << >> /\ m.goal = g
    BY <1>10
  <2>2. m.found = FALSE /\ m.stopped = FALSE
    BY <1>10
  <2>3. Moves(r, q, m, p)
    BY <1>1, <1>3, <1>10, RunMoves
  <2>4. Serves(q, m, p)
    BY <1>6, <1>10, <2>1, <2>2 DEF Serves, Reseeks, KeyOps, StepOps
  <2>5. Due(m) \subseteq Nat /\ Given(m) = {}
    BY <1>2, <2>1, Sizes DEF Due, Given
  <2>6. Rooted(m, p)
    <3>1. op \in {"next", "scan"} => \A e \in Due(m) : p.anchor <= e
      <4> SUFFICES ASSUME op \in {"next", "scan"}, NEW e \in Due(m) PROVE p.anchor <= e
        OBVIOUS
      <4>1. e \in Nat /\ p.anchor \in Nat
        BY <1>6, <2>5, Sizes DEF StepOps
      <4>2. e > p.anchor \/ e >= p.anchor
        BY <2>1 DEF Due
      <4> QED BY <4>1, <4>2
    <3>2. Len(m.out) <= Batch
      BY <2>1, MemTableAssumption
    <3> QED BY <1>3, <2>1, <2>5, <3>1, <3>2 DEF Rooted
  <2>7. Ahead(q, m)
    <3> SUFFICES ASSUME q = "open" PROVE \A e \in Due(m) : low(m.blk) <= e
      BY <1>10 DEF Ahead
    <3>1. m.blk = HeadBlock
      BY <1>10, <2>1
    <3> QED BY <2>5, <3>1 DEF low
  <2>8. Noted(q, m) /\ StepNoted(q, m, p)
    BY DEF Noted, StepNoted
  <2>9. Delivers(q, m)
    BY <2>1 DEF Delivers, Rising, Follows
  <2>10. Retreats(q, m) /\ Ends(q, m)
    BY <1>10, <2>1 DEF Retreats, Ends
  <2> QED BY <2>1, <2>3, <2>4, <2>6, <2>7, <2>8, <2>9, <2>10 DEF Serving
<1>11. PICK q, g, m :
         /\ Run(r, q, m) /\ Fields(m, g) /\ Fresh(m)
         /\ \/ q = "locate" /\ op = g /\ g \in {"get", "contains"}
            \/ q = "locate" /\ op \in {"seek", "seekprev"} /\ g = "seek"
            \/ q = "open" /\ op = "first" /\ g = "first" /\ m.blk = HeadBlock
            \/ q = "tail" /\ op = "last" /\ g = "none"
            \/ q = "reval" /\ op \in StepOps \cup {"valid"} /\ g = "none"
  <2> HIDE DEF Fields, Fresh
  <2>1. CASE op \in {"get", "contains"}
    <3>1. Run(r, "locate", [l EXCEPT !.goal = op])
      BY <1>3, <2>1
    <3> QED BY <1>7, <1>8, <2>1, <3>1
  <2>2. CASE op \in {"seek", "seekprev"}
    <3>1. Run(r, "locate", [l EXCEPT !.goal = "seek"])
      BY <1>3, <2>2
    <3> QED BY <1>7, <1>8, <2>2, <3>1
  <2>3. CASE op = "first"
    <3>1. Run(r, "open", [l EXCEPT !.goal = "first", !.blk = HeadBlock])
      BY <1>3, <2>3
    <3> QED BY <1>7, <1>8, <2>3, <3>1
  <2>4. CASE op = "last"
    <3>1. Run(r, "tail", l)
      BY <1>3, <2>4
    <3> QED BY <1>7, <1>8, <2>4, <3>1
  <2>5. CASE op \in StepOps \cup {"valid"}
    <3>1. Run(r, "reval", l)
      BY <1>3, <2>5 DEF StepOps
    <3> QED BY <1>7, <1>8, <2>5, <3>1
  <2> QED BY <2>1, <2>2, <2>3, <2>4, <2>5, MemTableAssumption DEF KeyOps
<1>12. Moves(r, q, m, p) /\ Serving(q, m, p) /\ m.op = op /\ m.key = key /\ m.from = p.anchor /\ m.since = visible
  BY <1>10, <1>11
<1>13. q \notin {"idle", "done"}
  BY <1>11
<1>14. QED
  BY <1>1, <1>12, <1>13

(* The brackets. *)
LEMMA OpenTurns ==
  ASSUME TableInv, ReaderInv, NEW r, Busy(r), Open(r) \/ CheckFailed(r)
  PROVE  Turns(r)
<1>1. PICK l, p, pc : l = loc[r] /\ p = pos[r] /\ pc = rpc[r]
  OBVIOUS
<1>2. pc \in {"open", "check"} /\ pc \in Looking /\ UNCHANGED pos
  BY <1>1 DEF Open, CheckFailed, Looking
<1>3. Callful(l) /\ Ahead(pc, l) /\ Retreats(pc, l) /\ Ends(pc, l)
  BY <1>1, BusyParts
<1>4. l.blk \in Blocks /\ version[l.blk] \in Nat /\ count[l.blk] \in Slots
  BY <1>1, <1>2, LookingFacts DEF Busy, TableInv, TableTypes
<1>5. PICK q, m : q \in {"open", "read"} /\ Run(r, q, m) /\ Same(m, l) /\ m.blk = l.blk
  <2>1. CASE Open(r)
    <3>1. PICK k : k = [l EXCEPT !.v = version[l.blk]]
      OBVIOUS
    <3>2. Callful(k) /\ Same(k, l) /\ k.blk = l.blk
      BY <1>3, <1>4, <3>1, SetV
    <3>3. PICK m : m = [k EXCEPT !.n = count[l.blk]]
      OBVIOUS
    <3>4. Same(m, k) /\ m.blk = k.blk
      BY <1>4, <3>2, <3>3, SetN
    <3>5. Same(m, l) /\ m.blk = l.blk
      BY <3>2, <3>4 DEF Same
    <3>6. Run(r, "read", m)
      BY <1>1, <2>1, <3>1, <3>3 DEF Open
    <3> QED BY <3>5, <3>6
  <2>2. CASE CheckFailed(r)
    <3>1. Run(r, "open", Close(l))
      BY <1>1, <2>2 DEF CheckFailed
    <3> QED BY <1>3, <3>1, CloseKeeps
  <2> QED BY <2>1, <2>2
<1>6. Due(m) = Due(l) /\ m.goal = l.goal /\ m.op = l.op /\ m.from = l.from /\ m.since = l.since
  BY <1>5, SameDue DEF Same
<1>7. Ahead(q, m) /\ Retreats(q, m) /\ Ends(q, m)
  BY <1>2, <1>3, <1>5, <1>6 DEF Ahead, Retreats, Ends
<1>8. q \notin Walking /\ q \notin {"idle", "done", "reval", "tail", "check", "stepcheck"}
  BY <1>5 DEF Walking
<1>9. QED
  BY <1>1, <1>2, <1>5, <1>7, <1>8, GoesOn

(* The slot that Get looks from, in ascending slots: the first that is from the key
   on and past all that was delivered. *)
LEMMA FirstMatchFinds ==
  ASSUME TableInv, NEW l, Callful(l), NEW b \in 1 .. used, b = l.blk, version[b] % 2 = 0, l.n = count[b],
         l.key \in Entries, Rising(l.out), \A i \in DOMAIN l.out : Version(l, l.out[i])
  PROVE  /\ FirstMatch(l) \in 0 .. count[b]
         /\ \A i \in 0 .. count[b] - 1 :
              i >= FirstMatch(l) <=> entries[b][i] >= l.key /\ Follows(l.out, entries[b][i])
<1>1. PICK n, s : n = count[b] /\ s = FirstMatch(l)
  OBVIOUS
<1>2. /\ n \in Slots /\ n \in Nat /\ Cardinality(Entries) \in Nat
      /\ \A i \in 0 .. n - 1 : entries[b][i] \in Nat \ {0}
      /\ \A i, j \in 0 .. n - 1 : i < j => entries[b][i] < entries[b][j]
  BY <1>1, StableBlock, Sizes
<1>3. l.key \in Nat /\ l.out \in Seq(Entries) /\ Entries \subseteq Nat
  BY Sizes DEF Callful, Locals
<1>4. ASSUME NEW k \in Nat, NEW strict, s = BinarySearch(b, n, k, strict),
             \A x \in Nat : Above(x, k, strict) <=> x >= l.key /\ Follows(l.out, x)
      PROVE  /\ s \in 0 .. n
             /\ \A i \in 0 .. n - 1 : i >= s <=> entries[b][i] >= l.key /\ Follows(l.out, entries[b][i])
  <2>1. /\ s \in 0 .. n
        /\ \A i \in 0 .. s - 1 : ~ Above(entries[b][i], k, strict)
        /\ \A i \in s .. n - 1 : Above(entries[b][i], k, strict)
    BY <1>2, <1>4, BinarySearchFinds
  <2>2. ASSUME NEW i \in 0 .. n - 1 PROVE i >= s <=> Above(entries[b][i], k, strict)
    BY <1>2, <2>1
  <2> QED BY <1>2, <1>4, <2>1, <2>2
<1>5. CASE l.out = << >>
  <2>1. s = BinarySearch(b, n, l.key, FALSE)
    BY <1>1, <1>5 DEF FirstMatch
  <2>2. \A x \in Nat : Above(x, l.key, FALSE) <=> x >= l.key /\ Follows(l.out, x)
    BY <1>3, <1>5 DEF Above, Follows
  <2> QED BY <1>1, <1>3, <1>4, <2>1, <2>2
<1>6. CASE l.out # << >>
  <2>1. PICK k : k = l.out[Len(l.out)]
    OBVIOUS
  <2>2. /\ Len(l.out) \in Nat /\ Len(l.out) >= 1 /\ DOMAIN l.out = 1 .. Len(l.out) /\ Len(l.out) \in DOMAIN l.out
        /\ \A i \in DOMAIN l.out : l.out[i] \in Nat
    <3>1. PICK o \in Seq(Entries) : o = l.out
      BY <1>3
    <3>2. Len(o) \in Nat /\ DOMAIN o = 1 .. Len(o) /\ Len(o) # 0
      BY <1>6, <3>1
    <3>5. \A i \in DOMAIN o : o[i] \in Entries
      BY <3>2
    <3>3. \A i \in DOMAIN o : o[i] \in Nat
      BY <1>3, <3>5
    <3>4. Len(o) >= 1 /\ Len(o) \in DOMAIN o
      BY <3>2
    <3> QED BY <3>1, <3>2, <3>3, <3>4, Zenon
  <2>3. k \in Nat /\ k >= l.key
    BY <2>1, <2>2 DEF Version
  <2>4. s = BinarySearch(b, n, k, TRUE)
    BY <1>1, <1>6, <2>1 DEF FirstMatch
  <2>5. \A i \in DOMAIN l.out : l.out[i] <= k
    BY <2>1, <2>2 DEF Rising
  <2>6. ASSUME NEW x \in Nat PROVE Above(x, k, TRUE) <=> x >= l.key /\ Follows(l.out, x)
    <3>1. Above(x, k, TRUE) <=> x > k
      BY DEF Above
    <3>2. x > k => x >= l.key /\ Follows(l.out, x)
      BY <1>3, <2>2, <2>3, <2>5 DEF Follows
    <3>3. Follows(l.out, x) => x > k
      <4>1. PICK z : z = Len(l.out)
        OBVIOUS
      <4>2. z \in DOMAIN l.out /\ l.out[z] = k
        BY <2>1, <2>2, <4>1
      <4> QED BY <4>2 DEF Follows
    <3> QED BY <3>1, <3>2, <3>3
  <2> QED BY <1>1, <1>4, <2>3, <2>4, <2>6
<1>7. QED
  BY <1>5, <1>6

(* Get's bracket, part by part. *)
EndOf(l, e, s, n) ==
  LET ends == {i \in s .. n - 1 : e[i] = Null \/ UserOf[e[i]] # UserOf[l.key]}
  IN IF ends = {} THEN n ELSE CHOOSE i \in ends : \A j \in ends : i <= j

LEMMA MatchesIs ==
  ASSUME NEW l, NEW e, NEW s, NEW n, NEW end, NEW list, NEW x,
         e = entries[l.blk], s = FirstMatch(l), s # -1, n = l.n,
         end = EndOf(l, e, s, n), list = [i \in 1 .. end - s |-> e[s + i - 1]], x = EntryAt(l.blk, end, n)
  PROVE  Matches(l) = [x EXCEPT !.list = list]
BY DEF Matches, EndOf

(* Get's bracket, in a stable block: the versions of the key past the delivered
   ones, all of them, and an entry of a later key if that ends them. *)
LEMMA MatchesFinds ==
  ASSUME TableInv, NEW l, Callful(l), NEW b \in 1 .. used, b = l.blk, version[b] % 2 = 0, l.n = count[b],
         l.key \in Entries, Rising(l.out), \A i \in DOMAIN l.out : Version(l, l.out[i]),
         NEW g, g = Matches(l)
  PROVE  /\ Rising(g.list)
         /\ \A i \in DOMAIN g.list :
              Version(l, g.list[i]) /\ Follows(l.out, g.list[i]) /\ g.list[i] \in Held(b)
         /\ g.at # Null => g.at > l.key /\ UserOf[g.at] # UserOf[l.key]
         /\ \A e \in Held(b) : Version(l, e) /\ Follows(l.out, e) => \E i \in DOMAIN g.list : g.list[i] = e
<1>0. PICK e, s, n : e = entries[l.blk] /\ s = FirstMatch(l) /\ n = l.n
  OBVIOUS
<1>1. e = entries[b] /\ s = FirstMatch(l) /\ n = count[b]
  BY <1>0
<1>2. /\ n \in Slots /\ n \in Nat /\ s \in 0 .. n /\ b \in Blocks
      /\ \A i \in 0 .. n - 1 : /\ e[i] \in Entries /\ e[i] \in Nat /\ e[i] # Null /\ e[i] \in visible
                               /\ \A j \in 0 .. n - 1 : i < j => e[i] < e[j]
      /\ \A i \in 0 .. n - 1 : i >= s <=> e[i] >= l.key /\ Follows(l.out, e[i])
  BY <1>1, StableBlock, FirstMatchFinds, Facts DEF Null
<1> DEFINE ends == {i \in s .. n - 1 : e[i] = Null \/ UserOf[e[i]] # UserOf[l.key]}
<1>16. PICK end : end = EndOf(l, e, s, n)
  OBVIOUS
<1>3. end = IF ends = {} THEN n ELSE CHOOSE i \in ends : \A j \in ends : i <= j
  BY <1>16 DEF EndOf
<1>4. /\ end \in s .. n /\ (\A i \in s .. end - 1 : UserOf[e[i]] = UserOf[l.key])
      /\ end < n => UserOf[e[end]] # UserOf[l.key]
  <2>1. CASE ends = {}
    BY <1>2, <1>3, <2>1
  <2>2. CASE ends # {}
    <3>1. ends \subseteq Nat
      BY <1>2
    <3>2. \E i \in ends : \A j \in ends : i <= j
      <4> HIDE DEF ends
      <4> QED BY <2>2, <3>1, LeastElement
    <3>3. end \in ends /\ \A j \in ends : end <= j
      BY <1>3, <2>2, <3>2
    <3>4. end \in s .. n - 1 /\ UserOf[e[end]] # UserOf[l.key]
      BY <1>2, <3>3
    <3>5. ASSUME NEW i \in s .. end - 1 PROVE UserOf[e[i]] = UserOf[l.key]
      <4>1. i \in s .. n - 1 /\ i < end /\ i \in Nat /\ end \in Nat
        <5> HIDE DEF ends
        <5> QED BY <1>2, <3>4
      <4>2. i \notin ends
        <5> HIDE DEF ends
        <5> QED BY <3>3, <4>1
      <4> QED BY <4>1, <4>2
    <3> HIDE DEF ends
    <3> QED BY <1>2, <3>4, <3>5
  <2> QED BY <2>1, <2>2
<1>5. PICK x : x = EntryAt(b, end, n)
  OBVIOUS
<1>6. PICK list : list = [i \in 1 .. end - s |-> e[s + i - 1]]
  OBVIOUS
<1>7. g = [x EXCEPT !.list = list]
  <2>1. s # -1
    BY <1>2
  <2>2. x = EntryAt(l.blk, end, n)
    BY <1>5
  <2>3. Matches(l) = [x EXCEPT !.list = list]
    BY <1>0, <1>6, <1>16, <2>1, <2>2, MatchesIs
  <2> QED BY <2>3
<1> HIDE DEF ends
<1>8. x \in Readings /\ x.at = IF end \in 0 .. n - 1 THEN e[end] ELSE Null
  <2>0. end \in s .. n
    BY <1>4
  <2>1. end \in Int
    BY <1>2, <2>0
  <2>2. EntryAt(b, end, n) \in Readings /\ EntryAt(b, end, n).at = IF end \in 0 .. n - 1 THEN entries[b][end] ELSE Null
    <3>1. n \in Slots /\ b \in Blocks
      BY <1>2
    <3> QED BY <2>1, <3>1, EntryAtReads
  <2> QED BY <1>1, <1>5, <2>2
<1>9. g.list = list /\ g.at = x.at
  BY <1>7, <1>8 DEF Readings
<1>10. DOMAIN list = 1 .. end - s /\ \A i \in 1 .. end - s :
         /\ list[i] = e[s + i - 1] /\ s + i - 1 \in 0 .. n - 1 /\ s + i - 1 >= s /\ s + i - 1 \in s .. end - 1
  BY <1>2, <1>4, <1>6
<1>11. Rising(list)
  <2> SUFFICES ASSUME NEW i \in 1 .. end - s, NEW j \in 1 .. end - s, i < j PROVE list[i] < list[j]
    BY <1>10 DEF Rising
  <2>1. s + i - 1 < s + j - 1
    BY <1>2
  <2>2. e[s + i - 1] < e[s + j - 1]
    BY <1>2, <1>10, <2>1
  <2> QED BY <1>10, <2>2
<1>12. ASSUME NEW i \in DOMAIN list
       PROVE  Version(l, list[i]) /\ Follows(l.out, list[i]) /\ list[i] \in Held(b)
  <2>1. PICK j \in 0 .. n - 1 : list[i] = e[j] /\ j >= s /\ j \in s .. end - 1
    BY <1>10
  <2>2. e[j] \in visible /\ e[j] >= l.key /\ Follows(l.out, e[j]) /\ UserOf[e[j]] = UserOf[l.key]
    BY <1>2, <1>4, <2>1
  <2>3. e[j] \in Held(b)
    BY <1>1 DEF Held
  <2> QED BY <2>1, <2>2, <2>3 DEF Version
<1>13. x.at # Null => x.at > l.key /\ UserOf[x.at] # UserOf[l.key]
  <2> SUFFICES ASSUME x.at # Null PROVE x.at > l.key /\ UserOf[x.at] # UserOf[l.key]
    OBVIOUS
  <2>1. end \in 0 .. n - 1 /\ x.at = e[end]
    BY <1>8
  <2>2. end >= s /\ UserOf[e[end]] # UserOf[l.key]
    BY <1>2, <1>4, <2>1
  <2>3. e[end] >= l.key /\ e[end] \in Nat
    BY <1>2, <2>1, <2>2
  <2>4. l.key \in Nat
    BY Sizes
  <2> QED BY <2>1, <2>2, <2>3, <2>4
<1>14. ASSUME NEW y \in Held(b), Version(l, y), Follows(l.out, y) PROVE \E i \in DOMAIN list : list[i] = y
  <2>1. PICK j \in 0 .. n - 1 : y = e[j]
    BY <1>1 DEF Held
  <2>2. j >= s /\ UserOf[e[j]] = UserOf[l.key]
    BY <1>2, <1>14, <2>1 DEF Version
  <2>3. j < end
    <3> SUFFICES ASSUME ~ (j < end) PROVE FALSE
      OBVIOUS
    <3>1. end \in 0 .. n - 1 /\ end >= s /\ UserOf[e[end]] # UserOf[l.key] /\ end <= j
      BY <1>2, <1>4
    <3>2. e[end] >= l.key /\ e[end] \in Entries /\ e[j] \in Entries /\ e[end] \in Nat
      BY <1>2, <3>1
    <3>3. end # j
      BY <2>2, <3>1
    <3>4. e[end] < e[j]
      BY <1>2, <3>1, <3>3
    <3>5. UserOf[e[end]] <= UserOf[e[j]] /\ UserOf[l.key] \in Nat /\ UserOf[e[end]] \in Nat
      BY <3>2, <3>4, MemTableAssumption
    <3>6. l.key < e[end]
      <4>1. l.key # e[end]
        BY <3>1
      <4> QED BY <3>2, <4>1, Sizes
    <3>7. UserOf[l.key] <= UserOf[e[end]]
      BY <3>2, <3>6, MemTableAssumption
    <3> QED BY <2>2, <3>1, <3>5, <3>7
  <2>4. j - s + 1 \in 1 .. end - s /\ s + (j - s + 1) - 1 = j
    BY <1>2, <1>4, <2>2, <2>3
  <2>5. list[j - s + 1] = e[j]
    BY <1>10, <2>4
  <2> QED BY <1>10, <2>1, <2>4, <2>5
<1>15. QED
  BY <1>9, <1>11, <1>12, <1>13, <1>14

LEMMA ReadTurns ==
  ASSUME TableInv, ReaderInv, NEW r, Busy(r), Read(r)
  PROVE  Turns(r)
<1>1. PICK l, p : l = loc[r] /\ p = pos[r]
  OBVIOUS
<1>2. rpc[r] = "read" /\ rpc[r] \in Looking /\ UNCHANGED pos
  BY DEF Read, Looking
<1>3. /\ Callful(l) /\ Serves("read", l, p) /\ Rooted(l, p) /\ Ahead("read", l)
      /\ Delivers("read", l) /\ Retreats("read", l) /\ Ends("read", l)
  BY <1>1, <1>2, BusyParts
<1>4. /\ l.goal \in Searches \cup {"first", "last"} /\ l.blk \in 1 .. used /\ l.blk \in Blocks /\ l.n \in Slots
      /\ Bracketed("read", l)
  BY <1>1, <1>2, LookingFacts DEF Busy
<1>5. PICK g, m, b : g = Bracket(l) /\ m = [l EXCEPT !.got = g] /\ b = l.blk
  OBVIOUS
<1>6. g \in Readings /\ (g.torn \/ g.list \in Seq(Entries))
  BY <1>3, <1>4, <1>5, BracketReads
<1>7. Same(m, l) /\ m.got = g /\ m.blk = b /\ m.v = l.v
  BY <1>3, <1>5, <1>6, SetGot
<1>8. Due(m) = Due(l) /\ Given(m) = Given(l) /\ Reseeks(m) = Reseeks(l)
  BY <1>7, SameDue
<1>9. ASSUME version[b] = l.v
      PROVE  version[b] % 2 = 0 /\ l.n = count[b] /\ l.n \in Nat
             /\ \A i \in 0 .. count[b] - 1 :
                  /\ entries[b][i] \in Nat /\ entries[b][i] # Null
                  /\ \A j \in 0 .. count[b] - 1 : i < j => entries[b][i] < entries[b][j]
  <2>1. version[b] % 2 = 0 /\ l.n = count[b]
    BY <1>4, <1>5, <1>9 DEF Bracketed
  <2> QED BY <1>4, <1>5, <2>1, StableBlock DEF Null
<1>10. ASSUME l.goal = "get", version[b] = l.v
       PROVE  /\ SeesAll(m, b) /\ Rising(g.list)
              /\ \A i \in DOMAIN g.list : Version(l, g.list[i]) /\ Follows(l.out, g.list[i]) /\ g.list[i] \in Held(b)
              /\ g.at # Null => g.at > l.key /\ UserOf[g.at] # UserOf[l.key]
  <2>1. g = Matches(l) /\ l.op = "get" /\ l.key \in Entries
    BY <1>3, <1>5, <1>10 DEF Bracket, Serves, KeyOps
  <2>2. Rising(l.out) /\ (\A i \in DOMAIN l.out : Version(l, l.out[i])) /\ \A e \in Due(l) : Follows(l.out, e)
    BY <1>3, <2>1 DEF Delivers
  <2>3. /\ Rising(g.list)
        /\ \A i \in DOMAIN g.list : Version(l, g.list[i]) /\ Follows(l.out, g.list[i]) /\ g.list[i] \in Held(b)
        /\ g.at # Null => g.at > l.key /\ UserOf[g.at] # UserOf[l.key]
        /\ \A e \in Held(b) : Version(l, e) /\ Follows(l.out, e) => \E i \in DOMAIN g.list : g.list[i] = e
    BY <1>3, <1>4, <1>5, <1>9, <1>10, <2>1, <2>2, MatchesFinds
  <2>4. \A e \in Due(l) : Version(l, e)
    BY <1>3, <2>1, DueTyped DEF Due, Version
  <2> QED BY <1>7, <1>8, <2>2, <2>3, <2>4 DEF SeesAll, Sees
<1>11. ASSUME l.goal = "contains", version[b] = l.v
       PROVE  SeesAll(m, b) /\ g.list = << >> /\ (g.at # Null => l.key <= g.at)
  <2>1. g = Sought(b, l.n, l.target) /\ l.target = l.key /\ l.key \in Entries /\ l.op = "contains"
    <3>1. g = Sought(b, l.n, l.target)
      BY <1>5, <1>11, Zenon DEF Bracket
    <3> QED BY <1>3, <1>11, <3>1 DEF Serves, KeyOps
  <2>2. g.list = << >>
    <3>1. b \in Blocks /\ l.n \in Slots
      BY <1>4, <1>5
    <3>2. Sought(b, l.n, l.target).list = << >>
      BY <3>1, SoughtReads
    <3> QED BY <2>1, <3>2
  <2>3. /\ g.at # Null => l.key <= g.at
        /\ \A i \in 0 .. count[b] - 1 : l.key <= entries[b][i] => g.at # Null /\ g.at <= entries[b][i]
    BY <1>4, <1>5, <1>9, <1>11, <2>1, SeekFinds, Sizes
  <2>4. ASSUME NEW e \in Due(l), e \in Held(b) PROVE g.at # Null /\ g.at <= e
    <3>1. e = l.key /\ e \in Nat
      BY <2>1, Sizes DEF Due
    <3> QED BY <2>3, <2>4, <3>1 DEF Held
  <2> QED BY <1>7, <1>8, <2>2, <2>3, <2>4 DEF SeesAll, Sees
<1>12. ASSUME l.goal = "first", version[b] = l.v PROVE SeesAll(m, b) /\ g.list = << >>
  <2>1. g = EntryAt(b, 0, l.n)
    BY <1>5, <1>12 DEF Bracket
  <2>2. g.list = << >> /\ g.at = IF 0 \in 0 .. l.n - 1 THEN entries[b][0] ELSE Null
    BY <1>4, <1>5, <2>1, EntryAtReads
  <2>3. ASSUME NEW e \in Held(b) PROVE g.at # Null /\ g.at <= e
    <3>1. PICK i \in 0 .. count[b] - 1 : e = entries[b][i]
      BY DEF Held
    <3>2. 0 \in 0 .. count[b] - 1
      BY <1>9, <1>12
    <3>3. g.at = entries[b][0] /\ g.at # Null /\ (i = 0 \/ 0 < i)
      BY <1>9, <1>12, <2>2, <3>2
    <3> QED BY <1>9, <1>12, <3>1, <3>2, <3>3
  <2> QED BY <1>7, <1>8, <2>2, <2>3 DEF SeesAll, Sees
<1>13. ASSUME l.goal = "last", version[b] = l.v PROVE g.list = << >> /\ (g.at = Null => count[b] = 0)
  <2>1. g = EntryAt(b, l.n - 1, l.n) /\ l.n - 1 \in Int
    BY <1>5, <1>9, <1>13 DEF Bracket
  <2>2. g.list = << >> /\ g.at = IF l.n - 1 \in 0 .. l.n - 1 THEN entries[b][l.n - 1] ELSE Null
    BY <1>4, <1>5, <2>1, EntryAtReads
  <2> QED BY <1>9, <1>13, <2>2
<1>14. Noted("check", m)
  BY <1>7, <1>10, <1>11, <1>12, <1>13 DEF Noted, Same
<1>15. Delivers("check", m)
  <2> SUFFICES ASSUME l.op = "get" PROVE Delivers("check", m)
    BY <1>7 DEF Delivers, Same
  <2>1. l.goal = "get"
    BY <1>3, <1>4 DEF Serves, Searches, Reseeks, StepOps
  <2>2. \A e : Version(m, e) = Version(l, e)
    BY <1>7 DEF Version, Same
  <2> QED BY <1>3, <1>7, <1>8, <1>10, <2>1, <2>2 DEF Delivers, Same, Walking
<1>16. Serves("check", m, p)
  BY <1>3, <1>7, <1>8 DEF Serves, Same
<1>17. Rooted(m, p) /\ StepNoted("check", m, p)
  BY <1>3, <1>7, <1>8 DEF Rooted, Same, StepNoted
<1>18. Ahead("check", m) /\ Retreats("check", m) /\ Ends("check", m)
  BY <1>3, <1>5, <1>7, <1>8 DEF Ahead, Retreats, Ends, Same
<1>19. Moves(r, "check", m, p)
  <2>1. Run(r, "check", m)
    BY <1>1, <1>5 DEF Read
  <2> QED BY <1>1, <1>2, <2>1, RunMoves DEF Busy
<1>20. QED
  BY <1>1, <1>7, <1>14, <1>15, <1>16, <1>17, <1>18, <1>19, TurnTo DEF Serving, Asks, Same

(* Contains: the key is in the block read, or it is further on, or it was not there;
   the last key of the block, read outside the bracket, does not mislead. *)
LEMMA ContainsTurns ==
  ASSUME TableInv, ReaderInv, Spare, NEW r, Busy(r), CheckContains(r) \/ MaxCount(r) \/ MaxKey(r)
  PROVE  Turns(r)
<1>1. PICK l, p, pc, b : l = loc[r] /\ p = pos[r] /\ pc = rpc[r] /\ b = l.blk
  OBVIOUS
<1>2. /\ pc \in Looking \cup {"max", "maxkey"} /\ pc \in {"check", "max", "maxkey"} /\ UNCHANGED pos
      /\ pc \in {"max", "maxkey"} \/ l.goal = "contains"
  BY <1>1 DEF CheckContains, MaxCount, MaxKey, Looking
<1>3. /\ Callful(l) /\ Standing(p) /\ l \in Locals /\ Serves(pc, l, p) /\ Rooted(l, p) /\ Ahead(pc, l) /\ Noted(pc, l)
  BY <1>1, BusyParts
<1>4. b \in Joined /\ b \in 1 .. used /\ l.goal = "contains" /\ Bracketed(pc, l) /\ b \in Blocks /\ l.n \in Slots
  BY <1>1, <1>2, LookingFacts DEF Busy
<1>5. l.op = "contains" /\ l.key \in Entries /\ l.key \in Nat /\ p.anchor = l.from /\ ~ l.found
  BY <1>3, <1>4, Sizes DEF Serves, KeyOps, Rooted
<1>6. \A e \in Due(l) : e = l.key
  BY <1>5 DEF Due
<1>7. l.key \in l.since => l.key \in Due(l)
  BY <1>5 DEF Due
<1>8. ASSUME NEW m \in Locals, Asks(m, l), Done(r, m), m.found => l.key \in visible, l.key \in l.since => m.found
      PROVE  Turns(r)
  <2>1. p.anchor \in visible \cup {Null} /\ pos' = [pos EXCEPT ![r] = p]
    BY <1>1, <1>2, <1>3, StandsAt DEF ReaderInv
  <2>2. Answered(m, p.anchor)
    BY <1>5, <1>8, <2>1 DEF Answered, Asks
  <2> QED BY <1>1, <1>8, <2>1, <2>2, DoneTurns
<1>9. ASSUME NEW q \in {"hop", "max", "maxkey"}, NEW m, Run(r, q, m), Same(m, l), m.blk = b, q = "maxkey" => m.n # 0,
             \A e \in Due(l) : \E c \in Linked : low(b) < low(c) /\ low(c) <= e
      PROVE  Turns(r)
  <2>1. Due(m) = Due(l) /\ m.goal = "contains"
    BY <1>4, <1>9, SameDue DEF Same
  <2>2. Ahead(q, m) /\ Retreats(q, m) /\ Ends(q, m)
    BY <1>9, <2>1 DEF Ahead, Retreats, Ends
  <2>3. q \notin Walking /\ q \notin {"idle", "done", "reval", "tail", "check", "stepcheck"}
    BY DEF Walking
  <2> QED BY <1>1, <1>2, <1>9, <2>2, <2>3, GoesOn
<1>10. Same(Close(l), l) /\ Close(l).blk = b
  BY <1>1, <1>3, CloseKeeps
<1>11. CASE CheckContains(r)
  <2>1. pc = "check" /\ Validated(l)
    BY <1>1, <1>11 DEF CheckContains
  <2>2. version[b] = l.v /\ ~ l.got.torn /\ version[b] % 2 = 0
    BY <1>1, <1>4, <2>1 DEF Validated, Bracketed
  <2>3. CASE l.got.at = l.key
    <3>1. PICK m : m = [l EXCEPT !.found = TRUE]
      OBVIOUS
    <3>2. m \in Locals /\ Asks(m, l) /\ m.found
      BY <1>3, <3>1 DEF Locals, Asks
    <3>3. Done(r, m)
      BY <1>1, <1>11, <2>3, <3>1 DEF CheckContains
    <3>4. Holds(b, l.got.slot, l.key)
      BY <1>1, <1>4, <1>5, <2>1, <2>2, <2>3, Sizes DEF Bracketed, Null
    <3>5. l.key \in visible
      BY <1>4, <2>2, <3>4, StableBlock DEF Holds
    <3> QED BY <1>8, <3>2, <3>3, <3>5
  <2>4. CASE l.got.at # l.key
    <3>1. Run(r, "max", Close(l))
      BY <1>1, <1>11, <2>4 DEF CheckContains
    <3>2. SeesAll(l, b) /\ l.got.list = << >> /\ (l.got.at # Null => l.key <= l.got.at)
      BY <1>1, <1>3, <1>4, <2>1, <2>2 DEF Noted
    <3>3. \A e \in Due(l) : low(b) <= e
      BY <1>1, <1>3, <1>4, <2>1 DEF Ahead
    <3>4. l.got.at \in Entries \cup {Null}
      BY <1>3 DEF Locals, Readings
    <3>5. ASSUME NEW e \in Due(l) PROVE ~ Sees(l.got, e)
      <4>1. l.got.at \in Nat
        BY <3>4, Sizes DEF Null
      <4>2. ~ (l.got.at # Null /\ l.got.at <= e)
        BY <1>5, <1>6, <2>4, <3>2, <4>1
      <4> QED BY <3>2, <4>2 DEF Sees
    <3>6. \A e \in Due(l) : \E c \in Linked : low(b) < low(c) /\ low(c) <= e
      BY <1>3, <1>4, <2>2, <3>2, <3>3, <3>5, SeesOn
    <3> QED BY <1>9, <1>10, <3>1, <3>6
  <2> QED BY <2>3, <2>4
<1>12. ASSUME pc \in {"max", "maxkey"} PROVE \A e \in Due(l) : \E c \in Linked : low(b) < low(c) /\ low(c) <= e
  BY <1>1, <1>3, <1>4, <1>12 DEF Ahead
<1>13. CASE MaxCount(r)
  <2>1. PICK n, m : n = count[b] /\ m = [l EXCEPT !.n = n]
    OBVIOUS
  <2>2. n \in Slots /\ m = [l EXCEPT !.n = n]
    BY <1>4, <2>1, JoinedFacts
  <2>3. Same(m, l) /\ m.blk = b /\ m.n = n
    BY <1>1, <1>3, <2>2, SetN
  <2>4. pc = "max" /\ Run(r, IF n = 0 THEN "hop" ELSE "maxkey", m)
    BY <1>1, <1>13, <2>1 DEF MaxCount
  <2> QED BY <1>9, <1>12, <2>3, <2>4
<1>14. CASE MaxKey(r)
  <2>1. PICK k : k = entries[b][l.n - 1]
    OBVIOUS
  <2>2. pc = "maxkey" /\ IF k # Null /\ l.key < k THEN Done(r, l) ELSE Run(r, "hop", Close(l))
    BY <1>1, <1>14, <2>1 DEF MaxKey
  <2>3. CASE k # Null /\ l.key < k
    <3>1. l.n - 1 \in Slots
      <4>1. l.n # 0
        BY <1>3, <1>4, <2>2 DEF Ahead
      <4> QED BY <1>4, <4>1, Sizes DEF Slots
    <3>2. Due(l) = {}
      <4> SUFFICES ASSUME NEW e \in Due(l) PROVE FALSE
        OBVIOUS
      <4>1. PICK c \in Linked : low(b) < low(c) /\ low(c) <= e
        BY <1>12, <2>2
      <4>2. k < low(c)
        BY <1>4, <2>1, <2>3, <3>1, <4>1, SlotsBelow
      <4>3. e = l.key /\ low(c) \in Nat /\ k \in Nat
        <5>1. k \in Entries \cup {Null}
          BY <1>4, <2>1, <3>1 DEF TableInv, TableTypes
        <5> QED BY <1>6, <5>1, JoinedFacts, Sizes DEF Null
      <4> QED BY <1>5, <2>3, <4>1, <4>2, <4>3
    <3>3. Asks(l, l) /\ Done(r, l)
      BY <2>2, <2>3 DEF Asks
    <3> QED BY <1>3, <1>5, <1>7, <1>8, <3>2, <3>3
  <2>4. CASE ~ (k # Null /\ l.key < k)
    BY <1>9, <1>10, <1>12, <2>2, <2>4
  <2> QED BY <2>3, <2>4
<1>15. QED
  BY <1>11, <1>13, <1>14

------------------------------------------------------------------------------
(* What a step gives out, after what was given out before. *)

Appends(a, s, t) == a = s \o t
Gives(m, l, t) == \E a : Appends(a, l.out, t) /\ m = [l EXCEPT !.out = a]

LEMMA SubSeqFields ==
  ASSUME NEW t \in Seq(Entries), NEW n \in DOMAIN t, NEW u, u = SubSeq(t, 1, n)
  PROVE  /\ u \in Seq(Entries) /\ DOMAIN u = 1 .. n /\ n \in Nat /\ n >= 1 /\ DOMAIN u \subseteq DOMAIN t
         /\ \A i \in DOMAIN u : u[i] = t[i]
<1>1. Len(t) \in Nat /\ DOMAIN t = 1 .. Len(t) /\ n \in 1 .. Len(t)
  OBVIOUS
<1>2. u \in Seq(Entries) /\ Len(u) = n
  BY <1>1
<1>3. DOMAIN u = 1 .. n
  BY <1>2
<1>4. \A i \in 1 .. n : u[i] = t[i]
  BY <1>1
<1>5. QED
  BY <1>1, <1>2, <1>3, <1>4

LEMMA Joins ==
  ASSUME NEW s \in Seq(Entries), NEW t \in Seq(Entries), NEW a, Appends(a, s, t)
  PROVE  /\ a \in Seq(Entries) /\ Len(s) \in Nat
         /\ \A i \in DOMAIN a : \/ i \in DOMAIN s /\ a[i] = s[i]
                                \/ i - Len(s) \in DOMAIN t /\ a[i] = t[i - Len(s)] /\ i > Len(s)
         /\ \A i \in DOMAIN s : i \in DOMAIN a /\ a[i] = s[i] /\ i <= Len(s)
         /\ \A j \in DOMAIN t : j + Len(s) \in DOMAIN a /\ a[j + Len(s)] = t[j]
         /\ DOMAIN a \subseteq Nat /\ DOMAIN t \subseteq Nat /\ DOMAIN s \subseteq Nat
<1>1. /\ Len(s) \in Nat /\ Len(t) \in Nat /\ DOMAIN s = 1 .. Len(s) /\ DOMAIN t = 1 .. Len(t)
  OBVIOUS
<1>2. a \in Seq(Entries) /\ Len(a) = Len(s) + Len(t) /\ DOMAIN a = 1 .. Len(s) + Len(t)
  BY <1>1 DEF Appends
<1>3. \A i \in 1 .. Len(s) + Len(t) : a[i] = IF i <= Len(s) THEN s[i] ELSE t[i - Len(s)]
  BY <1>1 DEF Appends
<1>4. ASSUME NEW i \in DOMAIN a
      PROVE  \/ i \in DOMAIN s /\ a[i] = s[i]
             \/ i - Len(s) \in DOMAIN t /\ a[i] = t[i - Len(s)] /\ i > Len(s)
  BY <1>1, <1>2, <1>3
<1>5. ASSUME NEW i \in DOMAIN s PROVE i \in DOMAIN a /\ a[i] = s[i] /\ i <= Len(s)
  BY <1>1, <1>2, <1>3
<1>6. ASSUME NEW j \in DOMAIN t PROVE j + Len(s) \in DOMAIN a /\ a[j + Len(s)] = t[j]
  <2>1. j + Len(s) \in 1 .. Len(s) + Len(t) /\ ~ (j + Len(s) <= Len(s)) /\ (j + Len(s)) - Len(s) = j
    BY <1>1
  <2> QED BY <1>2, <1>3, <2>1
<1>7. DOMAIN a \subseteq Nat /\ DOMAIN t \subseteq Nat /\ DOMAIN s \subseteq Nat
  BY <1>1, <1>2
<1>8. QED
  BY <1>1, <1>2, <1>4, <1>5, <1>6, <1>7

LEMMA RisingJoins ==
  ASSUME NEW s \in Seq(Entries), NEW t \in Seq(Entries), NEW a, Appends(a, s, t), Rising(s), Rising(t),
         \A j \in DOMAIN t : Follows(s, t[j])
  PROVE  Rising(a)
<1>1. SUFFICES ASSUME NEW i \in DOMAIN a, NEW j \in DOMAIN a, i < j PROVE a[i] < a[j]
  BY DEF Rising
<1>2. /\ Len(s) \in Nat /\ i \in Nat /\ j \in Nat
      /\ \/ i \in DOMAIN s /\ a[i] = s[i]
         \/ i - Len(s) \in DOMAIN t /\ a[i] = t[i - Len(s)] /\ i > Len(s)
      /\ \/ j \in DOMAIN s /\ a[j] = s[j] /\ j <= Len(s)
         \/ j - Len(s) \in DOMAIN t /\ a[j] = t[j - Len(s)] /\ j > Len(s)
  <2>1. /\ Len(s) \in Nat /\ DOMAIN a \subseteq Nat
        /\ \A k \in DOMAIN a : \/ k \in DOMAIN s /\ a[k] = s[k]
                               \/ k - Len(s) \in DOMAIN t /\ a[k] = t[k - Len(s)] /\ k > Len(s)
        /\ \A k \in DOMAIN s : k <= Len(s)
    BY Joins
  <2> QED BY <2>1
<1>3. CASE j \in DOMAIN s /\ a[j] = s[j] /\ j <= Len(s)
  BY <1>1, <1>2, <1>3 DEF Rising
<1>4. CASE j - Len(s) \in DOMAIN t /\ a[j] = t[j - Len(s)] /\ i \in DOMAIN s /\ a[i] = s[i]
  BY <1>4 DEF Follows
<1>5. CASE j - Len(s) \in DOMAIN t /\ a[j] = t[j - Len(s)] /\ i - Len(s) \in DOMAIN t /\ a[i] = t[i - Len(s)]
  <2>1. i - Len(s) < j - Len(s)
    BY <1>1, <1>2
  <2> QED BY <1>5, <2>1 DEF Rising
<1>6. QED
  BY <1>2, <1>3, <1>4, <1>5

(* The call with more given out. *)
HasGiven(m, l, t) ==
  /\ Callful(m) /\ Asks(m, l) /\ Appends(m.out, l.out, t) /\ l.out \in Seq(Entries)
  /\ m.goal = l.goal /\ m.target = l.target /\ m.stage = l.stage /\ m.blk = l.blk
  /\ m.found = l.found /\ m.stopped = l.stopped /\ Reseeks(m) = Reseeks(l)
  /\ \A e : e \in Given(m) => e \in Given(l) \/ \E i \in DOMAIN t : t[i] = e
  /\ \A e : e \in Due(m) => e \in Due(l) /\ (l.op \in {"get", "scan"} => ~ \E i \in DOMAIN t : t[i] = e)

LEMMA GivesOut ==
  ASSUME NEW l, Callful(l), NEW t \in Seq(Entries), NEW m, Gives(m, l, t)
  PROVE  HasGiven(m, l, t)
<1>1. l \in Locals /\ l.out \in Seq(Entries)
  BY DEF Callful, Locals
<1>2. PICK a : Appends(a, l.out, t) /\ m = [l EXCEPT !.out = a]
  BY DEF Gives
<1>3. a \in Seq(Entries)
  BY <1>1, <1>2, Joins
<1>4. /\ Callful(m) /\ m.out = a /\ m.op = l.op /\ m.goal = l.goal /\ m.stage = l.stage
      /\ m.since = l.since /\ m.blk = l.blk
  <2>2. LET n == [l EXCEPT !.out = a] IN
        /\ Callful(n) /\ n.out = a /\ n.op = l.op /\ n.goal = l.goal /\ n.stage = l.stage
        /\ n.since = l.since /\ n.blk = l.blk
    BY <1>3, SetOut
  <2> QED BY <1>2, <2>2
<1>5. m.key = l.key /\ m.from = l.from /\ m.target = l.target /\ m.found = l.found /\ m.stopped = l.stopped
  BY <1>1, <1>2 DEF Locals
<1>6. Reseeks(m) = Reseeks(l)
  BY <1>4 DEF Reseeks
<1>7. PICK s \in Seq(Entries) : s = l.out
  BY <1>1
<1>8. /\ \A i \in DOMAIN a : (i \in DOMAIN s /\ a[i] = s[i]) \/ (i - Len(s) \in DOMAIN t /\ a[i] = t[i - Len(s)])
      /\ \A i \in DOMAIN s : i \in DOMAIN a /\ a[i] = s[i]
      /\ \A j \in DOMAIN t : j + Len(s) \in DOMAIN a /\ a[j + Len(s)] = t[j]
  <2>1. Appends(a, s, t)
    BY <1>2, <1>7
  <2> QED BY <2>1, Joins
<1>9. /\ \A e : e \in Given(m) <=> \E i \in DOMAIN a : a[i] = e
      /\ \A e : e \in Given(l) <=> \E i \in DOMAIN s : s[i] = e
  BY <1>4, <1>7 DEF Given
<1>10. ASSUME NEW e PROVE e \in Given(m) => e \in Given(l) \/ \E i \in DOMAIN t : t[i] = e
  BY <1>8, <1>9
<1>11. ASSUME NEW e, e \in Given(l) PROVE e \in Given(m)
  BY <1>8, <1>9, <1>11
<1>12. ASSUME NEW i \in DOMAIN t PROVE t[i] \in Given(m)
  BY <1>8, <1>9
<1>13. ASSUME NEW e \in Due(m) PROVE e \in Due(l) /\ (l.op \in {"get", "scan"} => ~ \E i \in DOMAIN t : t[i] = e)
  BY <1>4, <1>5, <1>11, <1>12 DEF Due
<1>14. QED
  BY <1>1, <1>2, <1>4, <1>5, <1>6, <1>10, <1>13 DEF Asks, HasGiven

(* A bracket of Get that holds: what is due is in the list, or further on when
   nothing ended the list. *)
LEMMA GetSees ==
  ASSUME TableInv, NEW l, Callful(l), NEW b \in Joined, b = l.blk, version[b] = l.v, version[b] % 2 = 0,
         ~ l.got.torn, l.goal = "get", l.op = "get", l.key \in Entries,
         Ahead("check", l), Noted("check", l), Delivers("check", l),
         l.got.at # Null => Holds(b, l.got.slot, l.got.at), NEW e \in Due(l)
  PROVE  \/ \E i \in DOMAIN l.got.list : l.got.list[i] = e
         \/ /\ l.got.at = Null /\ \A i \in DOMAIN l.got.list : l.got.list[i] < e
            /\ \E c \in Linked : low(b) < low(c) /\ low(c) <= e
<1>1. SeesAll(l, b) /\ \A d \in Due(l) : low(b) <= d
  BY DEF Noted, Ahead
<1>2. /\ \A i \in DOMAIN l.got.list : l.got.list[i] \in Held(b)
      /\ l.got.at # Null => l.got.at > l.key /\ UserOf[l.got.at] # UserOf[l.key]
  BY DEF Delivers
<1>3. e \in Entries /\ e \in Nat /\ e \in visible /\ UserOf[e] = UserOf[l.key] /\ b \in 1 .. used /\ l.key \in Nat
  BY DueTyped, JoinedFacts, Sizes DEF Due
<1>4. l.got.at # Null => l.got.at \in Held(b) /\ l.got.at \in Entries /\ l.got.at \in Nat
  BY <1>3, StableBlock DEF Holds, Held
<1>5. ~ (l.got.at # Null /\ l.got.at <= e)
  <2> SUFFICES ASSUME l.got.at # Null, l.got.at <= e PROVE FALSE
    OBVIOUS
  <2>1. PICK x \in Entries : x = l.got.at
    BY <1>4
  <2>2. l.key < x /\ UserOf[x] # UserOf[l.key] /\ x <= e /\ x \in Nat
    BY <1>2, <1>3, <1>4, <2>1
  <2>3. UserOf[l.key] \in Nat /\ UserOf[x] \in Nat /\ UserOf[e] \in Nat
    BY <1>3, MemTableAssumption
  <2>4. UserOf[l.key] <= UserOf[x]
    BY <2>2, MemTableAssumption
  <2>5. UserOf[x] <= UserOf[e]
    <3>1. CASE x = e
      BY <2>3, <3>1
    <3>2. CASE x # e
      BY <1>3, <2>2, <3>2, MemTableAssumption
    <3> QED BY <3>1, <3>2
  <2> QED BY <1>3, <2>2, <2>3, <2>4, <2>5
<1>6. CASE Sees(l.got, e)
  BY <1>5, <1>6 DEF Sees
<1>7. CASE ~ Sees(l.got, e)
  <2>1. \E c \in Linked : low(b) < low(c) /\ low(c) <= e
    BY <1>1, <1>7, SeesOn
  <2>2. l.got.at = Null
    BY <1>1, <1>4, <1>7, SeesOn
  <2>3. e \notin Held(b)
    BY <1>1, <1>7 DEF SeesAll
  <2>4. \A i \in DOMAIN l.got.list : l.got.list[i] < e
    BY <1>1, <1>2, <1>3, <2>3, AfterAll
  <2> QED BY <2>1, <2>2, <2>4
<1>8. QED
  BY <1>6, <1>7

(* What holds of a Get when the first of the list, or all, are given out. *)
GotOut(m, l, t) ==
  /\ Callful(m) /\ Asks(m, l) /\ Appends(m.out, l.out, t) /\ m.goal = "get"
  /\ m.target = l.target /\ m.stage = l.stage /\ ~ m.found /\ ~ m.stopped
  /\ Rising(m.out) /\ \A i \in DOMAIN m.out : Version(m, m.out[i])
  /\ Given(m) \subseteq visible
  /\ \A e \in Due(m) : e \in Due(l) /\ Follows(l.out, e) /\ ~ \E i \in DOMAIN t : t[i] = e

(* Get: the callbacks are given the versions of the key in ascending order, and all
   of them unless one says stop. *)
LEMMA CheckGetTurns ==
  ASSUME TableInv, ReaderInv, NEW r, Busy(r), CheckGet(r)
  PROVE  Turns(r)
<1>1. PICK l, p, b, g : l = loc[r] /\ p = pos[r] /\ b = l.blk /\ g = l.got.list
  OBVIOUS
<1>2. rpc[r] = "check" /\ rpc[r] \in Looking /\ l.goal = "get" /\ Validated(l) /\ UNCHANGED pos
  BY <1>1 DEF CheckGet, Looking
<1>3. /\ Callful(l) /\ Standing(p) /\ l \in Locals /\ Serves("check", l, p) /\ Rooted(l, p)
      /\ Ahead("check", l) /\ Noted("check", l) /\ Delivers("check", l)
  BY <1>1, <1>2, BusyParts
<1>4. b \in Joined /\ Bracketed("check", l)
  BY <1>1, <1>2, LookingFacts DEF Busy
<1>5. l.op = "get" /\ l.key \in Entries /\ p.anchor = l.from /\ ~ l.found /\ ~ l.stopped
  BY <1>2, <1>3 DEF Serves, KeyOps, Rooted
<1>6. /\ version[b] = l.v /\ ~ l.got.torn /\ version[b] % 2 = 0
      /\ l.got.at # Null => Holds(b, l.got.slot, l.got.at)
  BY <1>1, <1>2, <1>4 DEF Validated, Bracketed
<1>7. \A e \in Due(l) : \/ \E i \in DOMAIN g : g[i] = e
                        \/ /\ l.got.at = Null /\ \A i \in DOMAIN g : g[i] < e
                           /\ \E c \in Linked : low(b) < low(c) /\ low(c) <= e
  BY <1>1, <1>2, <1>3, <1>4, <1>5, <1>6, GetSees
<1>8. /\ Rising(l.out) /\ \A i \in DOMAIN l.out : Version(l, l.out[i])
      /\ \A e \in Due(l) : Follows(l.out, e)
      /\ Rising(g) /\ \A i \in DOMAIN g : Version(l, g[i]) /\ Follows(l.out, g[i])
  BY <1>1, <1>5, <1>6, <1>3 DEF Delivers
<1>9. g \in Seq(Entries) /\ l.out \in Seq(Entries)
  BY <1>1, <1>3, <1>6 DEF Callful, Locals
<1>10. pos' = [pos EXCEPT ![r] = p] /\ p.anchor \in visible \cup {Null}
  BY <1>1, <1>2, <1>3, StandsAt DEF ReaderInv
<1>11. ASSUME NEW k, Callful(k), Same(k, l), NEW t \in Seq(Entries), DOMAIN t \subseteq DOMAIN g,
              \A i \in DOMAIN t : t[i] = g[i], NEW m, Gives(m, k, t)
       PROVE  GotOut(m, l, t) /\ m.blk = k.blk
  <2>1. k.out = l.out /\ Due(k) = Due(l) /\ Given(k) = Given(l) /\ k.op = "get" /\ Asks(k, l)
    BY <1>5, <1>11, SameDue DEF Same, Asks
  <2>2. HasGiven(m, k, t)
    BY <1>11, GivesOut
  <2>3. /\ Callful(m) /\ Asks(m, k) /\ Appends(m.out, k.out, t)
        /\ m.goal = k.goal /\ m.target = k.target /\ m.stage = k.stage /\ m.blk = k.blk
        /\ m.found = k.found /\ m.stopped = k.stopped
        /\ \A e : e \in Due(m) => e \in Due(k) /\ (k.op \in {"get", "scan"} => ~ \E i \in DOMAIN t : t[i] = e)
    BY <2>2 DEF HasGiven
  <2>4. PICK s \in Seq(Entries) : s = l.out
    BY <1>9
  <2>5. Appends(m.out, s, t)
    BY <2>1, <2>3, <2>4
  <2>6. Rising(t) /\ \A j \in DOMAIN t : Follows(s, t[j])
    BY <1>8, <1>11, <2>4 DEF Rising
  <2>7. Rising(m.out)
    BY <1>8, <2>4, <2>5, <2>6, RisingJoins
  <2>8. \A i \in DOMAIN m.out : Version(l, m.out[i])
    <3>1. \A i \in DOMAIN m.out : \/ i \in DOMAIN s /\ m.out[i] = s[i]
                                  \/ i - Len(s) \in DOMAIN t /\ m.out[i] = t[i - Len(s)]
      BY <2>5, Joins
    <3>2. \A i \in DOMAIN t : Version(l, t[i])
      BY <1>8, <1>11
    <3> QED BY <1>8, <2>4, <3>1, <3>2
  <2>9. \A e : Version(m, e) <=> Version(l, e)
    BY <2>1, <2>3 DEF Version, Asks
  <2>10. \A e \in Given(m) : e \in visible
    BY <2>8 DEF Given, Version
  <2>11. Asks(m, l) /\ m.goal = "get" /\ m.target = l.target /\ m.stage = l.stage /\ ~ m.found /\ ~ m.stopped
    BY <1>2, <1>5, <1>11, <2>1, <2>3 DEF Asks, Same
  <2> QED BY <1>8, <2>1, <2>3, <2>7, <2>8, <2>9, <2>10, <2>11 DEF GotOut
<1>12. ASSUME NEW m, Callful(m), Asks(m, l), Done(r, m), Rising(m.out), \A i \in DOMAIN m.out : Version(m, m.out[i]),
              \A e \in Due(m) : m.stopped /\ m.out # << >> /\ Follows(m.out, e)
       PROVE  Turns(r)
  <2>1. Answered(m, p.anchor)
    BY <1>5, <1>10, <1>12 DEF Answered, Asks
  <2>2. m \in Locals
    BY <1>12 DEF Callful
  <2> QED BY <1>1, <1>10, <1>12, <2>1, <2>2, DoneTurns
<1>13. PICK c, a, m : c = Close(l) /\ a = l.out \o g /\ m = [c EXCEPT !.out = a]
  OBVIOUS
<1>14. Callful(c) /\ Same(c, l) /\ c.blk = b
  BY <1>1, <1>3, <1>13, CloseKeeps
<1>15. GotOut(m, l, g) /\ m.blk = b
  <2>1. Appends(a, c.out, g) /\ m = [c EXCEPT !.out = a]
    BY <1>13, <1>14 DEF Appends, Same
  <2>2. Gives(m, c, g)
    BY <2>1 DEF Gives
  <2> QED BY <1>9, <1>11, <1>14, <2>2
<1>16. CASE Run(r, "hop", m) /\ l.got.at = Null
  <2>1. Ahead("hop", m)
    BY <1>7, <1>15, <1>16 DEF Ahead, GotOut
  <2>2. ASSUME NEW e \in Due(m) PROVE Follows(m.out, e)
    <3>1. /\ Follows(l.out, e) /\ \A i \in DOMAIN g : g[i] < e
      BY <1>7, <1>15 DEF GotOut
    <3>2. PICK s \in Seq(Entries) : s = l.out
      BY <1>9
    <3>3. \A i \in DOMAIN m.out : \/ i \in DOMAIN s /\ m.out[i] = s[i]
                                  \/ i - Len(s) \in DOMAIN g /\ m.out[i] = g[i - Len(s)]
      <4>1. Appends(m.out, s, g)
        BY <1>15, <3>2 DEF GotOut
      <4> QED BY <1>9, <4>1, Joins
    <3> QED BY <3>1, <3>2, <3>3 DEF Follows
  <2>3. m.op = "get"
    BY <1>5, <1>15 DEF Asks, GotOut
  <2>4. Delivers("hop", m)
    BY <1>15, <2>2 DEF Delivers, Walking, GotOut
  <2>5. Serves("hop", m, p)
    BY <1>2, <1>3, <1>5, <1>15, <2>3 DEF Serves, Asks, StepOps, GotOut
  <2>6. Rooted(m, p)
    BY <1>5, <1>15, <2>3 DEF Rooted, Asks, StepOps, GotOut
  <2>7. Noted("hop", m) /\ StepNoted("hop", m, p) /\ Retreats("hop", m) /\ Ends("hop", m)
    BY <1>15 DEF Noted, StepNoted, Retreats, Ends, GotOut
  <2>8. Serving("hop", m, p)
    BY <2>1, <2>4, <2>5, <2>6, <2>7 DEF Serving
  <2>9. Moves(r, "hop", m, p)
    BY <1>1, <1>2, <1>16, RunMoves DEF Busy
  <2> QED BY <1>1, <1>15, <2>8, <2>9, TurnTo DEF GotOut
<1>17. CASE Done(r, m) /\ l.got.at # Null
  <2>1. Due(m) = {}
    BY <1>7, <1>15, <1>17 DEF GotOut
  <2> QED BY <1>12, <1>15, <1>17, <2>1 DEF GotOut
<1>18. ASSUME NEW i \in DOMAIN g, Done(r, [l EXCEPT !.out = @ \o SubSeq(g, 1, i), !.stopped = TRUE])
       PROVE  Turns(r)
  <2>1. PICK t : t = SubSeq(g, 1, i)
    OBVIOUS
  <2>2. /\ t \in Seq(Entries) /\ DOMAIN t = 1 .. i /\ i \in Nat /\ i >= 1 /\ DOMAIN t \subseteq DOMAIN g
        /\ \A j \in DOMAIN t : t[j] = g[j]
    BY <1>9, <2>1, SubSeqFields
  <2>3. PICK z, o : z = l.out \o t /\ o = [l EXCEPT !.out = z]
    OBVIOUS
  <2>4. GotOut(o, l, t)
    <3>1. Same(l, l) /\ Appends(z, l.out, t) /\ o = [l EXCEPT !.out = z]
      BY <2>3 DEF Same, Appends
    <3>2. Gives(o, l, t)
      BY <3>1 DEF Gives
    <3> QED BY <1>3, <1>11, <2>2, <3>1, <3>2
  <2>5. PICK n : n = [o EXCEPT !.stopped = TRUE]
    OBVIOUS
  <2>6. /\ n \in Locals /\ n.stopped /\ n.out = o.out /\ Asks(n, o)
        /\ n.goal = o.goal /\ n.got = o.got /\ n.target = o.target /\ n.stage = o.stage
    BY <2>4, <2>5 DEF Callful, Locals, Asks, GotOut
  <2>7. Callful(n)
    BY <2>4, <2>6 DEF Callful, Asks, Reseeks, GotOut
  <2>8. n = [l EXCEPT !.out = @ \o SubSeq(g, 1, i), !.stopped = TRUE]
    BY <2>1, <2>3, <2>5
  <2>9. Due(n) = Due(o) /\ \A e : Version(n, e) <=> Version(o, e)
    BY <2>6 DEF Due, Given, Asks, Version
  <2>10. PICK s \in Seq(Entries) : s = l.out
    BY <1>9
  <2>11. /\ \A j \in DOMAIN z : (j \in DOMAIN s /\ z[j] = s[j]) \/ (j - Len(s) \in DOMAIN t /\ z[j] = t[j - Len(s)])
         /\ \A j \in DOMAIN t : j + Len(s) \in DOMAIN z /\ z[j + Len(s)] = t[j]
    <3>1. Appends(z, s, t)
      BY <2>3, <2>10 DEF Appends
    <3> QED BY <2>2, <3>1, Joins
  <2>12. n.out = z
    BY <2>3, <2>4, <2>6 DEF Appends, GotOut
  <2>13. n.out # << >>
    <3>1. 1 \in DOMAIN t
      BY <2>2
    <3>2. 1 + Len(s) \in DOMAIN z
      BY <2>11, <3>1
    <3> QED BY <2>12, <3>2
  <2>14. ASSUME NEW e \in Due(n) PROVE Follows(n.out, e)
    <3>1. e \in Due(l) /\ Follows(l.out, e) /\ ~ \E j \in DOMAIN t : t[j] = e
      BY <2>4, <2>9 DEF GotOut
    <3>2. \A j \in DOMAIN t : t[j] < e
      <4>1. CASE \E k \in DOMAIN g : g[k] = e
        <5>1. PICK k \in DOMAIN g : g[k] = e
          BY <4>1
        <5>2. k \in Nat /\ k > i
          <6>1. k \in 1 .. Len(g) /\ Len(g) \in Nat
            BY <1>9
          <6> QED BY <2>2, <3>1, <5>1, <6>1
        <5>3. \A j \in DOMAIN t : j \in DOMAIN g /\ j < k /\ t[j] = g[j]
          BY <2>2, <5>2
        <5> QED BY <1>8, <5>1, <5>3 DEF Rising
      <4>2. CASE \A k \in DOMAIN g : g[k] < e
        BY <2>2, <4>2
      <4> QED BY <1>7, <3>1, <4>1, <4>2
    <3> QED BY <2>10, <2>11, <2>12, <3>1, <3>2 DEF Follows
  <2>15. Asks(n, l)
    BY <2>4, <2>6 DEF Asks, GotOut
  <2>16. Rising(n.out) /\ \A j \in DOMAIN n.out : Version(n, n.out[j])
    BY <2>4, <2>6, <2>9 DEF GotOut
  <2> QED BY <1>12, <1>18, <2>6, <2>7, <2>8, <2>13, <2>14, <2>15, <2>16
<1>19. \/ Run(r, "hop", m) /\ l.got.at = Null
       \/ Done(r, m) /\ l.got.at # Null
       \/ \E i \in DOMAIN g : Done(r, [l EXCEPT !.out = @ \o SubSeq(g, 1, i), !.stopped = TRUE])
  <2>1. PICK all : all = [Close(l) EXCEPT !.out = @ \o l.got.list]
    OBVIOUS
  <2>4. LET y == [Close(loc[r]) EXCEPT !.out = @ \o loc[r].got.list] IN
        \/ Run(r, "hop", y) /\ loc[r].got.at = Null
        \/ Done(r, y) /\ loc[r].got.at # Null
        \/ \E i \in DOMAIN loc[r].got.list :
             Done(r, [loc[r] EXCEPT !.out = @ \o SubSeq(loc[r].got.list, 1, i), !.stopped = TRUE])
    BY Zenon DEF CheckGet
  <2>2. \/ Run(r, "hop", all) /\ l.got.at = Null
        \/ Done(r, all) /\ l.got.at # Null
        \/ \E i \in DOMAIN l.got.list :
             Done(r, [l EXCEPT !.out = @ \o SubSeq(l.got.list, 1, i), !.stopped = TRUE])
    BY <1>1, <2>1, <2>4, Zenon
  <2>3. all = m
    <3>1. c.out = l.out
      BY <1>14 DEF Same
    <3> QED BY <1>1, <1>13, <2>1, <3>1
  <2> QED BY <1>1, <2>2, <2>3
<1>20. QED
  BY <1>16, <1>17, <1>18, <1>19

------------------------------------------------------------------------------
(* Seek and PositionAtEdge: the iterator lands on an entry, or moves on. *)

LEMMA LandingFields ==
  ASSUME NEW l \in Locals, NEW q, q = Landing(l), l.got.at # Null
  PROVE  q.anchor = l.got.at /\ q # NoPosition
BY DEF Landing, NoPosition

LEMMA CheckSeekTurns ==
  ASSUME TableInv, ReaderInv, NEW r, Busy(r), CheckSeek(r)
  PROVE  Turns(r)
<1>1. PICK l, p, b, at : l = loc[r] /\ p = pos[r] /\ b = l.blk /\ at = l.got.at
  OBVIOUS
<1>2. rpc[r] = "check" /\ rpc[r] \in Looking /\ l.goal = "seek" /\ Validated(l)
  BY <1>1 DEF CheckSeek, Looking
<1>3. Callful(l) /\ Standing(p) /\ l \in Locals /\ Serves("check", l, p) /\ Rooted(l, p)
  BY <1>1, <1>2, BusyParts
<1>4. b \in Joined /\ b \in 1 .. used /\ Bracketed("check", l) /\ \A e \in Wanted(l) : low(b) <= e
  BY <1>1, <1>2, LookingFacts DEF Busy
<1>5. /\ version[b] % 2 = 0 /\ (at # Null => Holds(b, l.got.slot, at) /\ l.target <= at)
      /\ \A i \in 0 .. count[b] - 1 : l.target <= entries[b][i] => at # Null /\ at <= entries[b][i]
  BY <1>1, <1>2, <1>4 DEF Validated, Bracketed
<1>6. CASE at = Null
  <2>1. Run(r, "hop", Close(l)) /\ UNCHANGED pos
    BY <1>1, <1>6 DEF CheckSeek
  <2>2. Same(Close(l), l)
    BY <1>3, CloseKeeps
  <2>3. PICK m : m = Close(l)
    OBVIOUS
  <2>4. m.goal = "seek"
    BY <1>2, <2>2, <2>3 DEF Same
  <2>5. Ahead("hop", m) /\ Retreats("hop", m) /\ Ends("hop", m) /\ "hop" \notin Walking
    BY <2>4 DEF Ahead, Retreats, Ends, Walking
  <2> QED BY <1>1, <2>1, <2>2, <2>3, <2>5, GoesOn
<1>7. CASE at # Null
  <2>1. PICK q : q = Landing(l)
    OBVIOUS
  <2>2. Resume(r, l, q) /\ pos' = [pos EXCEPT ![r] = q]
    BY <1>1, <1>7, <2>1 DEF CheckSeek, Place
  <2>3. Standing(q) /\ q.anchor = at /\ q # NoPosition
    BY <1>1, <1>2, <1>3, <1>4, <1>7, <2>1, LandingStands, LandingFields
  <2>4. IF Reseeks(l) THEN l.target = p.anchor /\ p # NoPosition
                      ELSE l.op \in {"seek", "seekprev"} /\ l.target = l.key
    BY <1>2, <1>3 DEF Serves
  <2>5. Reseeks(l) => l.op \in StepOps \cup {"seekprev", "valid"}
    BY <1>3 DEF Serves, Reseeks
  <2>6. Rooted(l, q)
    <3>1. CASE Reseeks(l)
      <4>1. l.target \in visible /\ l.target \in Nat
        BY <1>2, <1>3, <3>1, Sizes DEF Callful, Searches
      <4>2. low(b) <= l.target
        <5>1. l.target \in Wanted(l)
          BY <3>1, <4>1 DEF Wanted
        <5> QED BY <1>4, <5>1
      <4>3. at = l.target
        BY <1>4, <1>5, <1>7, <4>1, <4>2, SeekLandsOn
      <4> QED BY <1>3, <2>3, <2>4, <3>1, <4>3 DEF Rooted
    <3>2. CASE ~ Reseeks(l)
      BY <2>4, <3>2 DEF Rooted, StepOps
    <3> QED BY <3>1, <3>2
  <2>7. ASSUME l.op = "seek" PROVE Answered(l, q.anchor)
    <3>1. ~ Reseeks(l) /\ l.target = l.key /\ l.key \in Nat
      BY <1>3, <2>4, <2>5, <2>7, Sizes DEF StepOps, Serves, KeyOps
    <3>2. at \in visible /\ at \in Nat
      BY <2>3, StandsAt, Sizes
    <3>3. ASSUME NEW e \in l.since, l.key <= e PROVE at <= e
      <4>1. e \in visible /\ e \in Nat /\ low(b) <= e
        BY <1>3, <1>4, <3>1, <3>3, Sizes DEF Callful, Wanted, Locals
      <4>2. CASE e \in Held(b)
        BY <1>5, <3>1, <3>3, <4>2 DEF Held
      <4>3. CASE e \notin Held(b)
        <5>1. at \in Held(b)
          BY <1>5, <1>7 DEF Held, Holds
        <5>2. at < e
          BY <1>4, <1>5, <4>1, <4>3, <5>1, AfterAll
        <5> QED BY <3>2, <4>1, <5>2
      <4> QED BY <4>2, <4>3
    <3> QED BY <1>5, <1>7, <2>3, <2>7, <3>1, <3>2, <3>3 DEF Answered
  <2>8. l.op \in StepOps \cup {"seek", "seekprev", "valid"}
    BY <2>4, <2>5
  <2> QED BY <1>1, <1>3, <2>2, <2>3, <2>6, <2>7, <2>8, ResumeTurns DEF Asks
<1>8. QED
  BY <1>6, <1>7

LEMMA CheckEdgeTurns ==
  ASSUME TableInv, ReaderInv, NEW r, Busy(r), CheckEdge(r)
  PROVE  Turns(r)
<1>1. PICK l, p, b, at : l = loc[r] /\ p = pos[r] /\ b = l.blk /\ at = l.got.at
  OBVIOUS
<1>2. rpc[r] = "check" /\ rpc[r] \in Looking /\ l.goal \in {"first", "last"} /\ Validated(l)
  BY <1>1 DEF CheckEdge, Looking
<1>3. /\ Callful(l) /\ Standing(p) /\ l \in Locals /\ Serves("check", l, p) /\ Rooted(l, p)
      /\ Ahead("check", l) /\ Noted("check", l) /\ Retreats("check", l) /\ Ends("check", l)
  BY <1>1, <1>2, BusyParts
<1>4. b \in Joined /\ b \in 1 .. used /\ Bracketed("check", l)
  BY <1>1, <1>2, LookingFacts DEF Busy
<1>5. /\ version[b] = l.v /\ ~ l.got.torn /\ version[b] % 2 = 0
      /\ at # Null => Holds(b, l.got.slot, at)
  BY <1>1, <1>2, <1>4 DEF Validated, Bracketed
<1>6. /\ l.goal = "first" => l.op \in {"first", "next", "scan"}
      /\ l.goal = "last" => l.op \in {"last", "prev", "seekprev"}
  BY <1>3 DEF Serves
<1>7. l.goal = "first" => SeesAll(l, b) /\ \A e \in Due(l) : low(b) <= e
  BY <1>1, <1>3, <1>5 DEF Noted, Ahead
<1>8. \A e : Sees(l.got, e) => at # Null /\ at <= e
  <2>1. l.got.list = << >>
    BY <1>1, <1>2, <1>3, <1>5 DEF Noted
  <2> QED BY <1>1, <2>1 DEF Sees
<1>9. CASE at = Null
  <2>1. Run(r, "hop", Close(l)) /\ UNCHANGED pos
    BY <1>1, <1>9 DEF CheckEdge
  <2>2. PICK m : m = Close(l)
    OBVIOUS
  <2>3. Same(m, l) /\ m.blk = b
    BY <1>1, <1>3, <2>2, CloseKeeps
  <2>4. m.goal = l.goal /\ m.op = l.op /\ m.since = l.since /\ m.from = l.from /\ Due(m) = Due(l)
    BY <2>3, SameDue DEF Same
  <2>5. Ahead("hop", m)
    <3> SUFFICES ASSUME l.goal = "first", NEW e \in Due(l)
                 PROVE  \E c \in Linked : low(b) < low(c) /\ low(c) <= e
      BY <1>2, <2>3, <2>4 DEF Ahead
    <3>1. ~ Sees(l.got, e)
      BY <1>8, <1>9
    <3> QED BY <1>3, <1>4, <1>5, <1>7, <3>1, SeesOn
  <2>6. Retreats("hop", m)
    <3> SUFFICES ASSUME l.op = "prev", l.goal = "last" PROVE low(b) <= l.from
      BY <2>3, <2>4 DEF Retreats
    <3>1. PICK c \in 1 .. used : low(b) < low(c) /\ low(c) <= l.from
      BY <1>1, <1>3 DEF Retreats
    <3>2. low(b) \in Nat /\ low(c) \in Nat /\ l.from \in Nat
      BY <1>3, <1>4, Facts, Sizes DEF Serves, StepOps
    <3> QED BY <3>1, <3>2
  <2>7. Ends("hop", m)
    <3> SUFFICES ASSUME l.op = "last", l.goal = "last", Cardinality(l.since) > 1 PROVE FALSE
      BY <2>4 DEF Ends
    <3>1. count[b] = 0
      BY <1>1, <1>3, <1>5, <1>9 DEF Noted
    <3>2. b # HeadBlock \/ HeadStays
      BY <1>1, <1>3 DEF Ends
    <3> QED BY <1>4, <3>1, <3>2, Facts DEF HeadStays
  <2>8. "hop" \notin Walking
    BY DEF Walking
  <2> QED BY <1>1, <2>1, <2>2, <2>3, <2>5, <2>6, <2>7, <2>8, GoesOn
<1>10. CASE at # Null
  <2>1. PICK q : q = Landing(l)
    OBVIOUS
  <2>2. NextRound(r, l) /\ pos' = [pos EXCEPT ![r] = q]
    BY <1>1, <1>10, <2>1 DEF CheckEdge, Place
  <2>3. Standing(q) /\ q.anchor = at /\ q # NoPosition
    BY <1>1, <1>2, <1>3, <1>4, <1>10, <2>1, LandingStands, LandingFields
  <2>4. at \in visible /\ at \in Nat /\ at \in Held(b)
    BY <1>5, <1>10, <2>3, StandsAt, Sizes DEF Holds, Held
  <2>5. l.goal = "first" => \A e \in Due(l) : at <= e
    <3> SUFFICES ASSUME l.goal = "first", NEW e \in Due(l) PROVE Sees(l.got, e)
      BY <1>8
    <3> QED BY <1>1, <1>3, <1>4, <1>5, <1>7, <1>10, <2>4, SeesOn
  <2>6. ASSUME l.op = "prev", l.goal = "last" PROVE at < l.from
    <3>1. PICK c \in 1 .. used : low(b) < low(c) /\ low(c) <= l.from
      BY <1>1, <1>3, <2>6 DEF Retreats
    <3>2. low(c) \in Nat /\ l.from \in Nat
      BY <1>3, <2>6, Facts, Sizes DEF Serves, StepOps
    <3>3. at < low(c)
      <4>1. PICK i \in 0 .. count[b] - 1 : at = entries[b][i]
        BY <2>4 DEF Held
      <4>2. i \in Owned(b)
        BY <1>4, <1>5, StableBlock
      <4> QED BY <1>4, <3>1, <4>1, <4>2 DEF TableInv, Ordered
    <3> QED BY <2>4, <3>1, <3>2, <3>3
  <2>7. l.op # "scan" => Answered(l, q.anchor)
    BY <1>2, <1>6, <1>10, <2>3, <2>4, <2>5, <2>6 DEF Answered
  <2>8. l.op = "scan" => Rooted(l, q)
    BY <1>2, <1>3, <1>6, <2>3, <2>5 DEF Rooted
  <2> QED BY <1>1, <1>3, <2>2, <2>3, <2>7, <2>8, NextRoundTurns DEF Asks
<1>11. QED
  BY <1>9, <1>10

LEMMA HopTurns ==
  ASSUME TableInv, ReaderInv, NEW r, Busy(r), Hop(r)
  PROVE  Turns(r)
<1>1. PICK l, p, b, c : l = loc[r] /\ p = pos[r] /\ b = l.blk /\ c = (IF l.goal = "last" THEN prev[b] ELSE next[b])
  OBVIOUS
<1>2. rpc[r] = "hop" /\ rpc[r] \in Looking
  BY DEF Hop, Looking
<1>3. /\ Callful(l) /\ Standing(p) /\ l \in Locals /\ Serves("hop", l, p) /\ Rooted(l, p)
      /\ Ahead("hop", l) /\ Delivers("hop", l) /\ Retreats("hop", l) /\ Ends("hop", l)
  BY <1>1, <1>2, BusyParts
<1>4. /\ b \in Joined /\ b \in 1 .. used /\ l.goal \in Searches \cup {"first", "last"}
      /\ l.goal = "seek" => \A e \in Wanted(l) : \E d \in Linked : low(b) < low(d) /\ low(d) <= e
  BY <1>1, <1>2, LookingFacts DEF Busy
<1>5. l.goal \in {"get", "contains", "first"} => \A e \in Due(l) : \E d \in Linked : low(b) < low(d) /\ low(d) <= e
  BY <1>1, <1>3 DEF Ahead
<1>6. ASSUME l.goal # "last", NEW e, \E d \in Linked : low(b) < low(d) /\ low(d) <= e
      PROVE  c # Null
  BY <1>1, <1>4, <1>6, NextIsNext
<1>7. l.goal \in {"get", "contains", "first"} /\ c = Null => Due(l) = {}
  BY <1>5, <1>6
<1>8. CASE c # Null /\ Run(r, "open", [l EXCEPT !.blk = c]) /\ UNCHANGED pos
  <2>1. c \in Joined /\ c \in Blocks /\ (l.goal = "last" => b # HeadBlock)
    <3>1. CASE l.goal = "last"
      <4>1. b # HeadBlock
        BY <1>1, <1>8, <3>1 DEF TableInv, PrevOrder
      <4> QED BY <1>1, <1>4, <3>1, <4>1, JoinedFacts
    <3>2. CASE l.goal # "last"
      BY <1>1, <1>4, <1>8, <3>2, JoinedFacts
    <3> QED BY <3>1, <3>2
  <2>2. PICK m : m = [l EXCEPT !.blk = c]
    OBVIOUS
  <2>3. Same(m, l) /\ m.blk = c
    BY <1>3, <2>1, <2>2, SetBlk
  <2>4. m.goal = l.goal /\ m.op = l.op /\ m.since = l.since /\ m.from = l.from /\ Due(m) = Due(l)
    BY <2>3, SameDue DEF Same
  <2>5. Ahead("open", m)
    <3> SUFFICES ASSUME l.goal \in {"get", "contains", "first"}, NEW e \in Due(l) PROVE low(c) <= e
      BY <2>3, <2>4 DEF Ahead
    <3>1. PICK d \in Linked : low(b) < low(d) /\ low(d) <= e
      BY <1>5
    <3>2. low(c) <= low(d)
      BY <1>1, <1>4, <3>1, NextIsNext
    <3>3. low(c) \in Nat /\ low(d) \in Nat /\ e \in Nat
      BY <1>3, <2>1, JoinedFacts, DueTyped
    <3> QED BY <3>1, <3>2, <3>3
  <2>6. Retreats("open", m)
    <3> SUFFICES ASSUME l.op = "prev", l.goal = "last" PROVE low(c) < low(b) /\ low(b) <= l.from
      BY <1>4, <2>3, <2>4 DEF Retreats
    <3>1. low(b) <= l.from
      BY <1>1, <1>3 DEF Retreats
    <3> QED BY <1>1, <1>4, <2>1, <3>1 DEF TableInv, PrevOrder
  <2>7. Ends("open", m)
    BY <1>3, <2>4 DEF Ends
  <2>8. "open" \notin Walking
    BY DEF Walking
  <2> QED BY <1>1, <1>8, <2>2, <2>3, <2>5, <2>6, <2>7, <2>8, GoesOn
<1>9. CASE c = Null /\ l.goal \in {"get", "contains"} /\ Done(r, l) /\ UNCHANGED pos
  <2>1. pos' = [pos EXCEPT ![r] = p] /\ p.anchor \in visible \cup {Null}
    BY <1>1, <1>3, <1>9, StandsAt DEF ReaderInv
  <2>2. Due(l) = {} /\ l.op = l.goal /\ p.anchor = l.from /\ ~ l.found
    BY <1>3, <1>7, <1>9 DEF Serves, Rooted
  <2>3. CASE l.op = "get"
    <3>1. Rising(l.out) /\ \A i \in DOMAIN l.out : Version(l, l.out[i])
      BY <1>3, <2>3 DEF Delivers
    <3>2. Answered(l, p.anchor)
      BY <2>1, <2>2, <2>3, <3>1 DEF Answered
    <3> QED BY <1>1, <1>3, <1>9, <2>1, <3>2, DoneTurns DEF Asks
  <2>4. CASE l.op = "contains"
    <3>1. l.key \notin l.since
      BY <2>2, <2>4 DEF Due
    <3>2. Answered(l, p.anchor)
      BY <2>1, <2>2, <2>4, <3>1 DEF Answered
    <3> QED BY <1>1, <1>3, <1>9, <2>1, <3>2, DoneTurns DEF Asks
  <2> QED BY <1>9, <2>2, <2>3, <2>4
<1>10. PICK q : q = NoPosition
  OBVIOUS
<1>11. Standing(q) /\ q.anchor = Null
  BY <1>10 DEF Standing, NoPosition
<1>12. CASE c = Null /\ l.goal = "seek" /\ Place(r, NoPosition) /\ Resume(r, l, NoPosition)
  <2>1. Wanted(l) = {}
    BY <1>4, <1>6, <1>12
  <2>2. ~ Reseeks(l)
    <3> SUFFICES ASSUME Reseeks(l) PROVE FALSE
      OBVIOUS
    <3>1. l.target \in Nat
      BY <1>3, <1>12, Sizes DEF Callful, Searches
    <3>2. l.target \in Wanted(l)
      BY <3>1 DEF Wanted
    <3> QED BY <2>1, <3>2
  <2>3. l.op \in {"seek", "seekprev"} /\ l.target = l.key
    BY <1>3, <1>12, <2>2 DEF Serves
  <2>4. Rooted(l, q)
    BY <2>3 DEF Rooted, StepOps
  <2>5. l.op = "seek" => Answered(l, q.anchor)
    <3>1. \A e \in l.since : ~ (l.key <= e)
      BY <2>1, <2>3 DEF Wanted
    <3> QED BY <1>11, <3>1 DEF Answered
  <2>6. Resume(r, l, q) /\ pos' = [pos EXCEPT ![r] = q]
    BY <1>10, <1>12 DEF Place
  <2> QED BY <1>1, <1>3, <1>11, <2>3, <2>4, <2>5, <2>6, ResumeTurns DEF Asks
<1>13. CASE c = Null /\ l.goal \in {"first", "last"} /\ Place(r, NoPosition) /\ Done(r, l)
  <2>1. /\ l.goal = "first" => l.op \in {"first", "next", "scan"} /\ Due(l) = {}
        /\ l.goal = "last" => l.op \in {"last", "prev", "seekprev"}
    BY <1>3, <1>7, <1>13 DEF Serves
  <2>2. l.op = "scan" => Given(l) \subseteq visible
    BY <1>3 DEF Rooted
  <2>3. l.op = "prev" => Null < l.from
    BY <1>3, Sizes DEF Serves, StepOps, Null
  <2>4. l.op = "last" => ~ (Cardinality(l.since) > 1)
    BY <1>3, <1>13, <2>1 DEF Ends
  <2>5. Answered(l, q.anchor)
    BY <1>11, <1>13, <2>1, <2>2, <2>3, <2>4 DEF Answered
  <2>6. pos' = [pos EXCEPT ![r] = q]
    BY <1>10, <1>13 DEF Place
  <2> QED BY <1>1, <1>3, <1>13, <2>5, <2>6, DoneTurns DEF Asks
<1>14. QED
  BY <1>1, <1>8, <1>9, <1>12, <1>13 DEF Hop

------------------------------------------------------------------------------
(* Next, Prev and ScanBatch. *)

LEMMA StepCountTurns ==
  ASSUME TableInv, ReaderInv, NEW r, Busy(r), StepCount(r)
  PROVE  Turns(r)
<1>1. PICK l, p : l = loc[r] /\ p = pos[r]
  OBVIOUS
<1>2. rpc[r] = "count" /\ rpc[r] \in {"count", "step", "stepcheck"} /\ UNCHANGED pos
  BY DEF StepCount
<1>3. Callful(l) /\ l.goal = "none" /\ p.leaf \in Joined
  BY <1>1, <1>2, StepFacts DEF Busy
<1>4. PICK n, m : n = count[p.leaf] /\ m = [l EXCEPT !.n = n]
  OBVIOUS
<1>5. n \in Slots
  BY <1>3, <1>4, JoinedFacts
<1>6. Same(m, l)
  BY <1>3, <1>4, <1>5, SetN
<1>7. m.goal = "none"
  BY <1>3, <1>6 DEF Same
<1>8. Ahead("step", m) /\ Retreats("step", m) /\ Ends("step", m)
  BY <1>7 DEF Ahead, Retreats, Ends
<1>9. Run(r, "step", m)
  BY <1>1, <1>4 DEF StepCount
<1>10. "step" \notin Walking
  BY DEF Walking
<1>11. QED
  BY <1>1, <1>2, <1>6, <1>8, <1>9, <1>10, GoesOn

(* A chunk of a stable block is what the block holds from the slot on, as much of it
   as there is room for, and the entry after it. *)
LEMMA ChunkFinds ==
  ASSUME TableInv, NEW l, Callful(l), NEW p \in Positions, NEW b \in 1 .. used, b = p.leaf, b \in Blocks,
         version[b] % 2 = 0, l.n = count[b], Holds(b, p.slot, p.anchor), Len(l.out) <= Batch,
         NEW g, g = Chunk(l, p)
  PROVE  /\ \A i \in DOMAIN g.list : g.list[i] \in visible
         /\ Len(l.out) + Len(g.list) <= Batch
         /\ \A e \in Held(b) : p.anchor <= e => Sees(g, e)
<1>1. PICK s, n, k, x : s = p.slot /\ n = l.n /\ k = Taken(l, p) /\ x = p.anchor
  OBVIOUS
<1>2. /\ g \in Readings /\ g.list = [i \in 1 .. k |-> entries[b][s + i - 1]]
      /\ g.at = IF s + k \in 0 .. n - 1 THEN entries[b][s + k] ELSE Null
  BY <1>1, ChunkReads
<1>3. /\ count[b] = n /\ n \in Nat
      /\ \A i \in 0 .. n - 1 :
           /\ entries[b][i] \in Nat \ {0} /\ entries[b][i] \in visible
           /\ \A j \in 0 .. n - 1 : i < j => entries[b][i] < entries[b][j]
  BY <1>1, StableBlock
<1>4. s \in 0 .. n - 1 /\ entries[b][s] = x
  BY <1>1, <1>3 DEF Holds
<1>5. k \in Nat /\ s + k <= n /\ k <= Batch - Len(l.out) /\ Len(l.out) \in Nat /\ Batch \in Nat
  <2>1. Len(l.out) \in Nat /\ Batch \in Nat
    <3>1. l.out \in Seq(Entries) /\ Batch \in Nat
      BY MemTableAssumption DEF Callful, Locals
    <3> QED BY <3>1
  <2>2. n \in Nat /\ s \in 0 .. n - 1
    BY <1>3, <1>4
  <2>3. PICK room : room = Batch - Len(l.out)
    OBVIOUS
  <2>4. k = IF s >= n THEN 0 ELSE IF n - s < room THEN n - s ELSE room
    BY <1>1, <2>3 DEF Taken
  <2>5. room \in Nat
    BY <2>1, <2>3
  <2>6. k \in Nat /\ s + k <= n /\ k <= room
    BY <2>2, <2>4, <2>5
  <2> QED BY <2>1, <2>3, <2>6
<1>6. DOMAIN g.list = 1 .. k /\ \A i \in 1 .. k : g.list[i] = entries[b][s + i - 1]
  BY <1>2
<1>7. \A i \in 1 .. k : s + i - 1 \in 0 .. n - 1
  BY <1>3, <1>4, <1>5
<1>8. \A i \in DOMAIN g.list : g.list[i] \in visible
  BY <1>3, <1>6, <1>7
<1>9. Len(g.list) = k
  <2>1. g.list \in Seq(Entries \cup {Null})
    BY <1>2 DEF Readings
  <2>2. PICK h : h = Len(g.list)
    OBVIOUS
  <2>3. h \in Nat /\ 1 .. h = 1 .. k
    BY <1>6, <2>1, <2>2
  <2>4. ~ (h < k) /\ ~ (k < h)
    BY <1>5, <2>3
  <2> QED BY <1>5, <2>2, <2>3, <2>4
<1>10. ASSUME NEW e \in Held(b), x <= e PROVE Sees(g, e)
  <2>1. PICK j \in 0 .. n - 1 : entries[b][j] = e
    BY <1>3 DEF Held
  <2>2. s <= j
    <3> SUFFICES ASSUME j < s PROVE FALSE
      BY <1>3, <1>4
    <3>1. entries[b][j] < entries[b][s] /\ entries[b][j] \in Nat /\ entries[b][s] \in Nat
      BY <1>3, <1>4
    <3> QED BY <1>4, <1>10, <2>1, <3>1
  <2>3. CASE j < s + k
    <3>1. (j - s) + 1 \in 1 .. k /\ s + ((j - s) + 1) - 1 = j
      BY <1>3, <1>4, <1>5, <2>2, <2>3
    <3>2. g.list[(j - s) + 1] = e
      BY <1>6, <2>1, <3>1
    <3> QED BY <1>6, <3>1, <3>2 DEF Sees
  <2>4. CASE ~ (j < s + k)
    <3>1. s + k \in 0 .. n - 1 /\ (s + k = j \/ s + k < j)
      BY <1>3, <1>4, <1>5, <2>4
    <3>2. g.at = entries[b][s + k] /\ g.at \in Nat \ {0} /\ (g.at = e \/ g.at < e) /\ e \in Nat
      BY <1>2, <1>3, <2>1, <3>1
    <3> QED BY <3>2 DEF Sees, Null
  <2> QED BY <2>3, <2>4
<1>11. QED
  BY <1>1, <1>5, <1>8, <1>9, <1>10

LEMMA StepReadTurns ==
  ASSUME TableInv, ReaderInv, NEW r, Busy(r), StepRead(r)
  PROVE  Turns(r)
<1>1. PICK l, p, b : l = loc[r] /\ p = pos[r] /\ b = p.leaf
  OBVIOUS
<1>2. rpc[r] = "step" /\ rpc[r] \in {"count", "step", "stepcheck"} /\ rpc[r] # "count" /\ UNCHANGED pos
  BY DEF StepRead
<1>3. /\ Callful(l) /\ Standing(p) /\ p # NoPosition /\ p \in Positions /\ l.goal = "none" /\ l.stage = "step"
      /\ b \in Blocks /\ b \in 1 .. used /\ l.n \in Slots
      /\ version[b] = p.ver /\ ~ Backward(l) => l.n = count[b]
  BY <1>1, <1>2, StepFacts DEF Busy
<1>4. Serves("step", l, p) /\ Rooted(l, p)
  BY <1>1, <1>2, BusyParts
<1>5. l.op \in StepOps \cup {"seekprev"} /\ p.slot \in Slots /\ p.slot \in Nat
  BY <1>3, Sizes DEF Callful, Positions, Slots
<1>6. PICK g : g = CASE l.op = "next" -> EntryAt(p.leaf, p.slot + 1, l.n)
                     [] l.op = "scan" -> Chunk(l, p)
                     [] Backward(l) -> EntryAt(p.leaf, p.slot - 1, p.slot)
  OBVIOUS
<1>7. /\ l.op = "next" => g = EntryAt(b, p.slot + 1, l.n)
      /\ l.op = "scan" => g = Chunk(l, p)
      /\ l.op \in {"prev", "seekprev"} => g = EntryAt(b, p.slot - 1, p.slot)
  BY <1>1, <1>6 DEF Backward
<1>8. /\ l.op = "next" => /\ g \in Readings /\ g.list = << >>
                          /\ g.at = IF p.slot + 1 \in 0 .. l.n - 1 THEN entries[b][p.slot + 1] ELSE Null
      /\ l.op \in {"prev", "seekprev"} =>
           /\ g \in Readings /\ g.list = << >>
           /\ g.at = IF p.slot - 1 \in 0 .. p.slot - 1 THEN entries[b][p.slot - 1] ELSE Null
  <2>1. p.slot + 1 \in Int /\ p.slot - 1 \in Int
    BY <1>5
  <2> QED BY <1>3, <1>5, <1>7, <2>1, EntryAtReads
<1>9. g \in Readings /\ (g.torn \/ g.list \in Seq(Entries))
  <2>1. << >> \in Seq(Entries)
    OBVIOUS
  <2>2. l.op = "scan" => g \in Readings /\ (g.torn \/ g.list \in Seq(Entries))
    <3>1. Chunk(l, p) \in Readings /\ (Chunk(l, p).torn \/ Chunk(l, p).list \in Seq(Entries))
      BY <1>1, <1>3, ChunkReads
    <3> QED BY <1>7, <3>1
  <2>3. l.op \in {"next", "prev", "seekprev", "scan"}
    BY <1>5 DEF StepOps
  <2>4. l.op \in {"next", "prev", "seekprev"} => g \in Readings /\ g.list = << >>
    BY <1>8
  <2> QED BY <2>1, <2>2, <2>3, <2>4
<1>10. PICK m : m = [l EXCEPT !.got = g]
  OBVIOUS
<1>11. Same(m, l) /\ m.got = g
  BY <1>3, <1>9, <1>10, SetGot
<1>12. Due(m) = Due(l) /\ Given(m) = Given(l) /\ Reseeks(m) = Reseeks(l) /\ m.op = l.op /\ m.goal = "none"
       /\ m.out = l.out
  BY <1>3, <1>11, SameDue DEF Same
<1>13. ASSUME version[b] = p.ver
       PROVE  /\ version[b] % 2 = 0 /\ Holds(b, p.slot, p.anchor) /\ count[b] \in Nat
              /\ \A i \in 0 .. count[b] - 1 :
                   /\ entries[b][i] \in Nat \ {0}
                   /\ \A j \in 0 .. count[b] - 1 : i < j => entries[b][i] < entries[b][j]
  <2>1. version[b] % 2 = 0 /\ Holds(b, p.slot, p.anchor)
    BY <1>1, <1>3, <1>13 DEF Standing
  <2> QED BY <1>3, <2>1, StableBlock
<1>14. ASSUME version[b] = p.ver, l.op = "next" PROVE SeesAll(m, b)
  <2>1. SUFFICES ASSUME NEW e \in Due(l), e \in Held(b) PROVE g.at # Null /\ g.at <= e
    BY <1>11, <1>12 DEF SeesAll, Sees
  <2>2. l.n = count[b] /\ p.anchor = l.from /\ l.from < e /\ l.from \in Nat /\ e \in Nat
    BY <1>3, <1>4, <1>14, Sizes, DueTyped DEF Backward, Rooted, Due, Serves, StepOps
  <2>3. PICK j \in 0 .. count[b] - 1 : entries[b][j] = e
    BY <2>1 DEF Held
  <2>4. p.slot \in 0 .. count[b] - 1 /\ entries[b][p.slot] = l.from /\ count[b] \in Nat
    BY <1>13, <1>14, <2>2 DEF Holds
  <2>5. ~ (j < p.slot) /\ j # p.slot
    <3>1. j # p.slot
      BY <2>2, <2>3, <2>4
    <3>2. ASSUME j < p.slot PROVE FALSE
      <4>1. entries[b][j] < entries[b][p.slot]
        BY <1>13, <1>14, <2>4, <3>2
      <4> QED BY <2>2, <2>3, <2>4, <4>1
    <3> QED BY <3>1, <3>2
  <2>6. p.slot + 1 \in 0 .. count[b] - 1 /\ (p.slot + 1 = j \/ p.slot + 1 < j)
    BY <1>5, <2>4, <2>5
  <2>7. g.at = entries[b][p.slot + 1]
    BY <1>8, <1>14, <2>2, <2>6
  <2>8. g.at \in Nat \ {0} /\ (g.at = e \/ g.at < e)
    BY <1>13, <1>14, <2>3, <2>6, <2>7
  <2> QED BY <2>2, <2>8 DEF Null
<1>15. ASSUME version[b] = p.ver, l.op = "scan"
       PROVE  /\ SeesAll(m, b) /\ \A i \in DOMAIN g.list : g.list[i] \in visible
              /\ Len(l.out) + Len(g.list) <= Batch
  <2>1. l.n = count[b] /\ Len(l.out) <= Batch /\ \A e \in Due(l) : p.anchor <= e
    BY <1>3, <1>4, <1>15 DEF Backward, Rooted
  <2>2. version[b] % 2 = 0 /\ Holds(b, p.slot, p.anchor)
    BY <1>13, <1>15
  <2>3. /\ \A i \in DOMAIN g.list : g.list[i] \in visible
        /\ Len(l.out) + Len(g.list) <= Batch
        /\ \A e \in Held(b) : p.anchor <= e => Sees(g, e)
    BY <1>1, <1>3, <1>7, <1>15, <2>1, <2>2, ChunkFinds
  <2>4. SeesAll(m, b)
    BY <1>11, <1>12, <2>1, <2>3 DEF SeesAll
  <2> QED BY <2>3, <2>4
<1>16. ASSUME version[b] = p.ver, l.op = "prev", g.at # Null PROVE g.at < p.anchor
  <2>1. p.slot - 1 \in 0 .. p.slot - 1 /\ g.at = entries[b][p.slot - 1]
    BY <1>8, <1>16
  <2>2. p.slot \in 0 .. count[b] - 1 /\ entries[b][p.slot] = p.anchor
    BY <1>13, <1>16 DEF Holds
  <2>3. p.slot - 1 \in 0 .. count[b] - 1 /\ p.slot - 1 < p.slot
    BY <1>5, <1>13, <1>16, <2>1, <2>2
  <2> QED BY <1>13, <1>16, <2>1, <2>2, <2>3
<1>17. StepNoted("stepcheck", m, p)
  <2>1. l.op = "next" => g.list = << >>
    BY <1>8
  <2> QED BY <1>1, <1>11, <1>12, <1>14, <1>15, <1>16, <2>1 DEF StepNoted
<1>18. Serves("stepcheck", m, p)
  BY <1>4, <1>11, <1>12 DEF Serves, Same
<1>19. Rooted(m, p)
  BY <1>4, <1>11, <1>12 DEF Rooted, Same
<1>20. Ahead("stepcheck", m) /\ Retreats("stepcheck", m) /\ Ends("stepcheck", m) /\ Noted("stepcheck", m)
  BY <1>12 DEF Ahead, Retreats, Ends, Noted
<1>21. Delivers("stepcheck", m)
  BY <1>5, <1>12 DEF Delivers, StepOps
<1>22. Moves(r, "stepcheck", m, p)
  <2>1. Run(r, "stepcheck", m)
    BY <1>1, <1>6, <1>10 DEF StepRead
  <2> QED BY <1>1, <1>2, <2>1, RunMoves DEF Busy
<1>23. Asks(m, loc[r])
  BY <1>1, <1>11 DEF Asks, Same
<1>24. Serving("stepcheck", m, p)
  BY <1>17, <1>18, <1>19, <1>20, <1>21 DEF Serving
<1>25. QED
  BY <1>22, <1>23, <1>24, TurnTo

LEMMA JoinsLength ==
  ASSUME NEW s \in Seq(Entries), NEW t \in Seq(Entries), NEW a, Appends(a, s, t)
  PROVE  Len(a) = Len(s) + Len(t)
BY DEF Appends

(* What holds of a step when its list is given out. *)
SteppedOut(o, l, t) ==
  /\ Callful(o) /\ Asks(o, l) /\ o.goal = "none" /\ o.stage = "step" /\ ~ o.found /\ ~ o.stopped
  /\ \A e \in Due(o) : e \in Due(l) /\ (l.op = "scan" => ~ \E i \in DOMAIN t : t[i] = e)
  /\ l.op = "scan" => Given(o) \subseteq visible /\ Len(o.out) <= Batch

LEMMA StepsOut ==
  ASSUME NEW l, Callful(l), NEW c, Callful(c), Same(c, l), NEW t \in Seq(Entries), NEW o, Gives(o, c, t),
         l.goal = "none", l.stage = "step", ~ l.found, ~ l.stopped, l.op = "scan" => Given(l) \subseteq visible,
         l.op = "scan" => Len(l.out) + Len(t) <= Batch /\ \A i \in DOMAIN t : t[i] \in visible
  PROVE  SteppedOut(o, l, t)
<1>1. Due(c) = Due(l) /\ Given(c) = Given(l) /\ Asks(c, l) /\ c.out = l.out
  BY SameDue DEF Same, Asks
<1>2. HasGiven(o, c, t)
  BY GivesOut
<1>3. /\ Callful(o) /\ Asks(o, c) /\ Appends(o.out, c.out, t) /\ c.out \in Seq(Entries)
      /\ o.goal = c.goal /\ o.stage = c.stage /\ o.found = c.found /\ o.stopped = c.stopped
      /\ \A e : e \in Given(o) => e \in Given(c) \/ \E i \in DOMAIN t : t[i] = e
      /\ \A e : e \in Due(o) => e \in Due(c) /\ (c.op \in {"get", "scan"} => ~ \E i \in DOMAIN t : t[i] = e)
  BY <1>2 DEF HasGiven
<1>4. Asks(o, l) /\ o.goal = "none" /\ o.stage = "step" /\ ~ o.found /\ ~ o.stopped /\ c.op = l.op
  BY <1>1, <1>3 DEF Asks, Same
<1>5. Len(o.out) = Len(l.out) + Len(t)
  <2>1. PICK s \in Seq(Entries) : s = c.out
    BY <1>3
  <2>2. Appends(o.out, s, t)
    BY <1>3, <2>1
  <2>3. Len(o.out) = Len(s) + Len(t)
    BY <2>2, JoinsLength
  <2> QED BY <1>1, <2>1, <2>3
<1>6. l.op = "scan" => Given(o) \subseteq visible
  BY <1>1, <1>3
<1>7. \A e \in Due(o) : e \in Due(l) /\ (l.op = "scan" => ~ \E i \in DOMAIN t : t[i] = e)
  BY <1>1, <1>3, <1>4
<1>8. QED
  BY <1>3, <1>4, <1>5, <1>6, <1>7 DEF SteppedOut

LEMMA StepCheckTurns ==
  ASSUME TableInv, ReaderInv, NEW r, Busy(r), StepCheck(r)
  PROVE  Turns(r)
<1>1. PICK l, p, b, g, t : l = loc[r] /\ p = pos[r] /\ b = p.leaf /\ g = l.got /\ t = g.list
  OBVIOUS
<1>2. rpc[r] = "stepcheck" /\ rpc[r] \in {"count", "step", "stepcheck"}
  BY DEF StepCheck
<1>3. /\ Callful(l) /\ Standing(p) /\ p # NoPosition /\ p \in Positions /\ l.goal = "none" /\ l.stage = "step"
      /\ b \in Joined /\ b \in Blocks /\ b \in 1 .. used
      /\ version[b] = p.ver /\ g.at # Null => Holds(b, g.slot, g.at)
  BY <1>1, <1>2, StepFacts DEF Busy
<1>4. Serves("stepcheck", l, p) /\ Rooted(l, p) /\ StepNoted("stepcheck", l, p)
  BY <1>1, <1>2, BusyParts
<1>5. l.op \in {"next", "scan", "prev", "seekprev"} /\ l.op \in StepOps \cup {"seekprev"} /\ ~ l.found /\ ~ l.stopped
  BY <1>3, <1>4 DEF Callful, StepOps, Serves
<1>6. PICK c : c = Close(l)
  OBVIOUS
<1>7. Callful(c) /\ Same(c, l)
  BY <1>3, <1>6, CloseKeeps
<1>8. CASE Run(r, "reval", Close(l)) /\ UNCHANGED pos
  <2>1. Due(c) = Due(l) /\ Given(c) = Given(l) /\ c.op = l.op /\ c.goal = "none" /\ Asks(c, loc[r])
    BY <1>1, <1>3, <1>7, SameDue DEF Same, Asks
  <2>2. Serves("reval", c, p)
    BY <1>3, <1>4, <1>5, <1>7, <2>1 DEF Serves, Same, Reseeks
  <2>3. Rooted(c, p)
    BY <1>4, <1>7, <2>1 DEF Rooted, Same
  <2>4. /\ Ahead("reval", c) /\ Retreats("reval", c) /\ Ends("reval", c) /\ Noted("reval", c)
        /\ StepNoted("reval", c, p) /\ Delivers("reval", c)
    BY <1>5, <2>1 DEF Ahead, Retreats, Ends, Noted, StepNoted, Delivers
  <2>5. Moves(r, "reval", c, p)
    BY <1>1, <1>6, <1>8, RunMoves DEF Busy
  <2>6. Serving("reval", c, p)
    BY <2>2, <2>3, <2>4 DEF Serving
  <2> QED BY <2>1, <2>5, <2>6, TurnTo
<1>9. ASSUME ~ g.torn, version[b] = p.ver
      PROVE  /\ version[b] % 2 = 0 /\ low(b) <= p.anchor /\ t \in Seq(Entries) /\ low(b) \in Nat /\ p.anchor \in Nat
             /\ l.op \in {"next", "scan"} =>
                  /\ SeesAll(l, b) /\ \A e \in Due(l) : p.anchor <= e /\ low(b) <= e /\ e \in Nat
             /\ l.op = "next" => t = << >>
             /\ l.op = "scan" => Len(l.out) + Len(t) <= Batch /\ \A i \in DOMAIN t : t[i] \in visible
             /\ l.op = "prev" => (g.at # Null => g.at < p.anchor)
  <2>1. version[b] % 2 = 0 /\ Holds(b, p.slot, p.anchor)
    BY <1>1, <1>3, <1>9 DEF Standing
  <2>2. low(b) <= p.anchor
    <3>1. p.slot \in Owned(b) /\ entries[b][p.slot] = p.anchor
      BY <1>3, <2>1, StableBlock DEF Holds
    <3> QED BY <1>3, <3>1, LowIsLeast
  <2>3. low(b) \in Nat /\ p.anchor \in Nat
    BY <1>3, JoinedFacts, StandsAt, Sizes
  <2>4. /\ l.op \in {"next", "scan"} => SeesAll(l, b)
        /\ l.op = "next" => t = << >>
        /\ l.op = "scan" => Len(l.out) + Len(t) <= Batch /\ \A i \in DOMAIN t : t[i] \in visible
        /\ l.op = "prev" => (g.at # Null => g.at < p.anchor)
    BY <1>1, <1>4, <1>9 DEF StepNoted
  <2>5. t \in Seq(Entries)
    BY <1>1, <1>3, <1>9 DEF Callful
  <2>6. ASSUME l.op \in {"next", "scan"}, NEW e \in Due(l) PROVE p.anchor <= e /\ low(b) <= e /\ e \in Nat
    <3>1. p.anchor <= e /\ e \in Nat
      BY <1>3, <1>4, <2>6, DueTyped DEF Rooted
    <3> QED BY <2>2, <2>3, <3>1
  <2> QED BY <2>1, <2>2, <2>3, <2>4, <2>5, <2>6
<1>10. PICK a, o : a = l.out \o t /\ o = [c EXCEPT !.out = a]
  OBVIOUS
<1>11. o = [Close(l) EXCEPT !.out = @ \o g.list]
  BY <1>1, <1>6, <1>7, <1>10 DEF Same
<1>12. ASSUME ~ g.torn, version[b] = p.ver PROVE SteppedOut(o, l, t)
  <2>1. Appends(a, c.out, t) /\ o = [c EXCEPT !.out = a]
    BY <1>7, <1>10 DEF Appends, Same
  <2>2. Gives(o, c, t)
    BY <2>1 DEF Gives
  <2>3. l.op = "scan" => Given(l) \subseteq visible
    BY <1>4 DEF Rooted
  <2>4. t \in Seq(Entries) /\ (l.op = "scan" => Len(l.out) + Len(t) <= Batch /\ \A i \in DOMAIN t : t[i] \in visible)
    BY <1>9, <1>12
  <2> QED BY <1>3, <1>5, <1>7, <2>2, <2>3, <2>4, StepsOut
<1>13. ASSUME ~ g.torn, version[b] = p.ver, l.op \in {"next", "scan"}, NEW e \in Due(o)
       PROVE  Sees(g, e) => g.at # Null /\ g.at <= e
  <2>1. l.op = "scan" => ~ \E i \in DOMAIN t : t[i] = e
    BY <1>12, <1>13 DEF SteppedOut
  <2>2. l.op = "next" => t = << >>
    BY <1>9, <1>13
  <2>3. ~ \E i \in DOMAIN t : t[i] = e
    BY <1>13, <2>1, <2>2
  <2> QED BY <1>1, <2>3 DEF Sees
<1>14. ASSUME ~ g.torn, version[b] = p.ver, g.at # Null,
              Place(r, [p EXCEPT !.slot = g.slot, !.anchor = g.at]), NextRound(r, o)
       PROVE  Turns(r)
  <2>1. PICK q : q = [p EXCEPT !.slot = g.slot, !.anchor = g.at]
    OBVIOUS
  <2>2. Holds(b, g.slot, g.at) /\ version[b] % 2 = 0 /\ p.ver \in Nat
    BY <1>3, <1>9, <1>14 DEF Positions
  <2>3. g.slot \in 0 .. count[b] - 1 /\ entries[b][g.slot] = g.at
    BY <2>2 DEF Holds
  <2>4. g.at \in Entries /\ g.at \in Nat /\ g.at \in visible /\ count[b] \in Slots /\ g.at \in Held(b)
    BY <1>3, <2>2, <2>3, StableBlock DEF Held
  <2>5. g.slot \in Slots
    BY <2>3, <2>4, Sizes DEF Slots
  <2>6. q \in Positions /\ q.leaf = b /\ q.slot = g.slot /\ q.ver = p.ver /\ q.anchor = g.at
    BY <1>1, <1>3, <2>1, <2>4, <2>5 DEF Positions
  <2>7. Standing(q)
    BY <1>1, <1>3, <1>14, <2>2, <2>4, <2>6 DEF Standing
  <2>8. q # NoPosition
    BY <1>3, <2>6, JoinedFacts DEF NoPosition
  <2>9. SteppedOut(o, l, t)
    BY <1>12, <1>14
  <2>10. Callful(o) /\ Asks(o, l) /\ o.op = l.op /\ o.from = l.from
    BY <2>9 DEF SteppedOut, Asks
  <2>11. Serves("stepcheck", o, p)
    <3>1. /\ l.op \in Ops /\ (l.op \in KeyOps => l.key \in Entries) /\ (l.op \in StepOps => l.from \in Entries)
      BY <1>4 DEF Serves
    <3>2. /\ o.op = l.op /\ o.key = l.key /\ o.from = l.from /\ o.goal = "none" /\ o.stage = "step" /\ ~ o.found
          /\ ~ o.stopped
      BY <2>9 DEF SteppedOut, Asks
    <3> QED BY <1>5, <3>1, <3>2 DEF Serves
  <2>12. ASSUME l.op \in {"next", "scan"}, NEW e \in Due(o) PROVE g.at <= e
    <3>1. e \in Due(l)
      BY <2>9 DEF SteppedOut
    <3>2. SeesAll(l, b) /\ \A d \in Due(l) : low(b) <= d
      BY <1>9, <1>14, <2>12
    <3>3. Sees(l.got, e)
      BY <1>1, <1>3, <1>14, <2>2, <2>4, <3>1, <3>2, SeesOn
    <3> QED BY <1>1, <1>13, <1>14, <2>12, <3>3
  <2>13. l.op = "scan" => Rooted(o, q)
    BY <2>6, <2>8, <2>9, <2>10, <2>12 DEF Rooted, SteppedOut
  <2>14. l.op = "prev" => g.at < l.from
    BY <1>4, <1>9, <1>14 DEF Rooted
  <2>15. l.op # "scan" => Answered(o, q.anchor)
    BY <1>5, <1>14, <2>4, <2>6, <2>10, <2>12, <2>14 DEF Answered
  <2>16. pos' = [pos EXCEPT ![r] = q] /\ Asks(o, loc[r])
    BY <1>1, <1>14, <2>1, <2>10 DEF Place
  <2> QED BY <1>14, <2>7, <2>10, <2>11, <2>13, <2>15, <2>16, NextRoundTurns
<1>15. ASSUME ~ g.torn, version[b] = p.ver, g.at = Null, UNCHANGED pos,
              Run(r, "hop", [o EXCEPT !.blk = p.leaf, !.goal = IF Backward(l) THEN "last" ELSE "first"])
       PROVE  Turns(r)
  <2>1. PICK d, h, m : d = [o EXCEPT !.blk = b] /\ h = (IF Backward(l) THEN "last" ELSE "first") /\ m = [d EXCEPT !.goal = h]
    OBVIOUS
  <2>2. SteppedOut(o, l, t)
    BY <1>12, <1>15
  <2>3. Callful(o) /\ Asks(o, l) /\ o.stage = "step" /\ ~ o.found /\ ~ o.stopped
    BY <2>2 DEF SteppedOut
  <2>4. Callful(d) /\ Same(d, o) /\ d.blk = b
    BY <1>3, <2>1, <2>3, SetBlk
  <2>5. h \in Searches \cup {"first", "last"} /\ h \notin Searches /\ h # "seek"
    BY <2>1 DEF Searches
  <2>6. /\ Callful(m) /\ m.goal = h /\ m.blk = b /\ Asks(m, d) /\ m.stage = d.stage /\ m.out = d.out
        /\ m.found = d.found /\ m.stopped = d.stopped
    <3>1. d \in Locals /\ h \in {"first", "last"}
      BY <2>1, <2>4 DEF Callful
    <3>2. /\ m.op = d.op /\ m.key = d.key /\ m.since = d.since /\ m.from = d.from /\ m.stage = d.stage
          /\ m.out = d.out /\ m.found = d.found /\ m.stopped = d.stopped
      BY <2>1, <3>1 DEF Locals
    <3>3. m = [d EXCEPT !.goal = h]
      BY <2>1
    <3>4. Callful(m) /\ m.goal = h /\ m.blk = d.blk
      BY <2>4, <2>5, <3>3, SetGoal
    <3> QED BY <2>4, <3>2, <3>4 DEF Asks
  <2>7. /\ Asks(m, l) /\ Asks(m, o) /\ m.stage = "step" /\ m.out = o.out /\ ~ m.found /\ ~ m.stopped /\ m.op = l.op
    BY <2>3, <2>4, <2>6 DEF Asks, Same
  <2>8. Due(m) = Due(o) /\ Given(m) = Given(o)
    BY <2>7 DEF Asks, Due, Given
  <2>9. \A e \in Due(m) : e \in Due(l)
    BY <2>2, <2>8 DEF SteppedOut
  <2>10. h = "first" => l.op \in {"next", "scan"}
    BY <1>5, <2>1 DEF Backward
  <2>11. h = "last" => l.op \in {"prev", "seekprev"}
    BY <2>1 DEF Backward
  <2>12. Serves("hop", m, p)
    <3>1. /\ l.op \in Ops /\ (l.op \in KeyOps => l.key \in Entries) /\ (l.op \in StepOps => l.from \in Entries)
      BY <1>4 DEF Serves
    <3>2. m.op = l.op /\ m.key = l.key /\ m.from = l.from /\ m.stage = "step" /\ ~ m.found /\ ~ m.stopped
      BY <2>7 DEF Asks
    <3>3. m.goal \in {"first", "last"} /\ m.goal = h
      BY <2>5, <2>6 DEF Searches
    <3> QED BY <1>5, <2>10, <2>11, <3>1, <3>2, <3>3 DEF Serves
  <2>13. Rooted(m, p)
    <3>1. m.op = l.op /\ m.from = l.from /\ m.out = o.out
      BY <2>7 DEF Asks
    <3>2. l.op = "scan" => Given(m) \subseteq visible /\ Len(m.out) <= Batch
      BY <2>2, <2>8, <3>1 DEF SteppedOut
    <3>3. /\ l.op \in {"next", "prev"} => p.anchor = l.from
          /\ l.op \in {"next", "scan"} => \A e \in Due(l) : p.anchor <= e
      BY <1>4 DEF Rooted
    <3> QED BY <1>3, <1>5, <2>9, <3>1, <3>2, <3>3 DEF Rooted
  <2>14. Ahead("hop", m)
    <3> SUFFICES ASSUME h = "first", NEW e \in Due(m) PROVE \E k \in Linked : low(b) < low(k) /\ low(k) <= e
      BY <2>5, <2>6 DEF Ahead, Searches
    <3>1. e \in Due(l) /\ e \in Due(o) /\ l.op \in {"next", "scan"}
      BY <2>8, <2>9, <2>10
    <3>2. ~ Sees(l.got, e)
      BY <1>1, <1>13, <1>15, <3>1
    <3>3. version[b] % 2 = 0 /\ SeesAll(l, b) /\ \A x \in Due(l) : low(b) <= x
      BY <1>9, <1>15, <3>1
    <3> QED BY <1>3, <3>1, <3>2, <3>3, SeesOn
  <2>15. Retreats("hop", m)
    <3> SUFFICES ASSUME l.op = "prev" PROVE low(b) <= l.from
      BY <2>6, <2>7 DEF Retreats, Asks
    <3> QED BY <1>4, <1>9, <1>15 DEF Rooted
  <2>16. Ends("hop", m) /\ Noted("hop", m) /\ StepNoted("hop", m, p) /\ Delivers("hop", m)
    BY <1>5, <2>7 DEF Ends, Noted, StepNoted, Delivers
  <2>17. Serving("hop", m, p)
    BY <2>12, <2>13, <2>14, <2>15, <2>16 DEF Serving
  <2>18. m = [o EXCEPT !.blk = p.leaf, !.goal = IF Backward(l) THEN "last" ELSE "first"]
    BY <1>1, <2>1
  <2>19. Moves(r, "hop", m, p)
    BY <1>1, <1>15, <2>18, RunMoves DEF Busy
  <2>20. Asks(m, loc[r])
    BY <1>1, <2>7
  <2> QED BY <2>17, <2>19, <2>20, TurnTo
<1>16. QED
  BY <1>1, <1>8, <1>11, <1>14, <1>15 DEF StepCheck

------------------------------------------------------------------------------
(* Every call, at every step, serves what was asked. *)

LEMMA CallTurns ==
  ASSUME TableInv, ReaderInv, Spare, Halved, NEW r, Busy(r), Call(r)
  PROVE  Turns(r)
<1>0. rpc[r] \notin {"idle", "done"}
  BY DEF Busy
<1>1. CASE (\E op \in Ops, key \in Entries \cup {Null} : Begin(r, op, key)) \/ GetIterator(r) \/ Leave(r)
  <2>1. ASSUME NEW op, NEW key, Begin(r, op, key) PROVE rpc[r] = "idle"
    BY <2>1 DEF Begin
  <2>2. GetIterator(r) => rpc[r] = "idle"
    BY DEF GetIterator
  <2>3. Leave(r) => rpc[r] = "done"
    BY DEF Leave
  <2>4. rpc[r] = "idle" \/ rpc[r] = "done"
    BY <1>1, <2>1, <2>2, <2>3
  <2> QED BY <1>0, <2>4
<1>2. CASE LoadTail(r) \/ Revalidate(r)
  BY <1>2, LoadTailTurns, RevalidateTurns
<1>3. CASE LocateFull(r) \/ LocateTrie(r) \/ LocateTail(r) \/ LocateMapped(r)
  BY <1>3, LocateTurns
<1>4. CASE SettleBack(r) \/ StepBack(r) \/ SettleNext(r) \/ SettleForward(r)
  BY <1>4, SettleTurns
<1>5. CASE Open(r) \/ CheckFailed(r)
  BY <1>5, OpenTurns
<1>6. CASE Read(r)
  BY <1>6, ReadTurns
<1>7. CASE CheckContains(r) \/ MaxCount(r) \/ MaxKey(r)
  BY <1>7, ContainsTurns
<1>8. CASE CheckGet(r)
  BY <1>8, CheckGetTurns
<1>9. CASE CheckSeek(r)
  BY <1>9, CheckSeekTurns
<1>10. CASE CheckEdge(r)
  BY <1>10, CheckEdgeTurns
<1>11. CASE Hop(r)
  BY <1>11, HopTurns
<1>12. CASE StepCount(r)
  BY <1>12, StepCountTurns
<1>13. CASE StepRead(r)
  BY <1>13, StepReadTurns
<1>14. CASE StepCheck(r)
  BY <1>14, StepCheckTurns
<1>15. QED
  BY <1>1, <1>2, <1>3, <1>4, <1>5, <1>6, <1>7, <1>8, <1>9, <1>10, <1>11, <1>12, <1>13, <1>14 DEF Call

(* The other steps of a reader begin a call, leave one or take a new iterator. *)
LEMMA CallOutside ==
  ASSUME ReaderInv, NEW r \in Readers, rpc[r] \in {"idle", "done"}, Call(r)
  PROVE  \/ \E op \in Ops, key \in Entries \cup {Null} : Begin(r, op, key)
         \/ GetIterator(r) \/ Leave(r)
BY DEF Call, LoadTail, Revalidate, LocateFull, LocateTrie, LocateTail, LocateMapped, SettleBack, StepBack,
   SettleNext, SettleForward, Open, CheckFailed, Read, CheckContains, MaxCount, MaxKey, CheckGet, CheckSeek,
   CheckEdge, Hop, StepCount, StepRead, StepCheck

LEMMA ServingMoves ==
  ASSUME TableInv, ReaderInv, ServiceInv, [Next]_vars, NEW r \in Readers, NEW pc, NEW l, NEW p,
         Moves(r, pc, l, p), Consistent(pc, l, p), Serving(pc, l, p)
  PROVE  ServiceInv'
<1>1. /\ rpc'[r] = pc /\ loc'[r] = l /\ pos'[r] = p
      /\ \A q \in Readers : q # r => rpc'[q] = rpc[q] /\ loc'[q] = loc[q] /\ pos'[q] = pos[q]
  <2>1. rpc'[r] = pc /\ \A q \in Readers : q # r => rpc'[q] = rpc[q]
    BY DEF ReaderInv, Moves
  <2>2. loc'[r] = l /\ \A q \in Readers : q # r => loc'[q] = loc[q]
    BY DEF ReaderInv, Moves
  <2>3. pos'[r] = p /\ \A q \in Readers : q # r => pos'[q] = pos[q]
    BY DEF ReaderInv, Moves
  <2> QED BY <2>1, <2>2, <2>3
<1>2. ASSUME NEW q \in Readers PROVE Serving(rpc[q], loc[q], pos[q])'
  <2>1. PICK c, m, o : c = rpc'[q] /\ m = loc'[q] /\ o = pos'[q]
    OBVIOUS
  <2>2. Consistent(c, m, o) /\ Serving(c, m, o)
    BY <1>1, <2>1 DEF ReaderInv, ServiceInv
  <2>3. Serving(c, m, o)'
    BY <2>2, ServingStays
  <2> QED BY <2>1, <2>3
<1>3. QED
  BY <1>2 DEF ServiceInv

LEMMA ServiceNext ==
  ASSUME TableInv, ReaderInv, Spare, Halved, ServiceInv, [Next]_vars
  PROVE  ServiceInv'
<1>1. ASSUME NEW r \in Readers, Call(r) PROVE ServiceInv'
  <2>1. ASSUME NEW pc, NEW l, NEW p, Moves(r, pc, l, p), Serving(pc, l, p) PROVE ServiceInv'
    <3>1. PICK c, m, o : Moves(r, c, m, o) /\ Consistent(c, m, o)
      BY <1>1, CallGoes DEF Goes
    <3>2. c = pc /\ m = l /\ o = p
      <4>1. rpc'[r] = c /\ rpc'[r] = pc
        BY <2>1, <3>1 DEF Moves, ReaderInv
      <4>2. loc'[r] = m /\ loc'[r] = l
        BY <2>1, <3>1 DEF Moves, ReaderInv
      <4>3. pos'[r] = o /\ pos'[r] = p
        BY <2>1, <3>1 DEF Moves, ReaderInv
      <4> QED BY <4>1, <4>2, <4>3
    <3> QED BY <2>1, <3>1, <3>2, ServingMoves
  <2>2. CASE rpc[r] \notin {"idle", "done"}
    <3>1. Busy(r)
      BY <2>2 DEF Busy, ServiceInv
    <3>2. PICK pc, m, p : Moves(r, pc, m, p) /\ (pc = "done" \/ Serving(pc, m, p))
      BY <1>1, <3>1, CallTurns DEF Turns
    <3>3. Serving(pc, m, p)
      BY <3>2 DEF Serving
    <3> QED BY <2>1, <3>2, <3>3
  <2>3. CASE \E op \in Ops, key \in Entries \cup {Null} : Begin(r, op, key)
    BY <2>1, <2>3, BeginServes
  <2>4. CASE GetIterator(r)
    <3>1. Moves(r, "idle", loc[r], NoPosition)
      BY <2>4 DEF GetIterator, Place, Moves, ReaderInv
    <3>2. Serving("idle", loc[r], NoPosition)
      BY DEF Serving
    <3> QED BY <2>1, <3>1, <3>2
  <2>5. CASE Leave(r)
    <3>1. Moves(r, "idle", NoLocals, pos[r])
      BY <2>5, RunMoves DEF Leave
    <3>2. Serving("idle", NoLocals, pos[r])
      BY DEF Serving
    <3> QED BY <2>1, <3>1, <3>2
  <2> QED BY <1>1, <2>2, <2>3, <2>4, <2>5, CallOutside
<1>2. CASE UNCHANGED reader
  <2>1. UNCHANGED <<rpc, loc, pos>>
    BY <1>2 DEF reader
  <2>2. ASSUME NEW q \in Readers PROVE Serving(rpc[q], loc[q], pos[q])'
    <3>1. PICK c, m, o : c = rpc[q] /\ m = loc[q] /\ o = pos[q]
      OBVIOUS
    <3>2. Consistent(c, m, o) /\ Serving(c, m, o)
      BY <3>1 DEF ReaderInv, ServiceInv
    <3>3. Serving(c, m, o)'
      BY <3>2, ServingStays
    <3>4. c = rpc'[q] /\ m = loc'[q] /\ o = pos'[q]
      BY <2>1, <3>1
    <3> QED BY <3>3, <3>4
  <2> QED BY <2>2 DEF ServiceInv
<1>3. QED
  BY <1>1, <1>2, WriterLeavesReaders DEF Next, vars

(* A call of a reader, at each of its steps and whatever the writer has done since,
   has lost nothing that it has to answer with. *)
THEOREM CallsServed == Spec => [](Spare /\ Halved /\ ServiceInv)
<1>1. Init => Spare /\ Halved /\ ServiceInv
  <2> SUFFICES ASSUME Init PROVE Spare /\ Halved /\ ServiceInv
    OBVIOUS
  <2>1. Halved
    BY DEF Init, Halved
  <2>2. ServiceInv
    BY DEF Init, ServiceInv, Serving
  <2>3. Spare
    <3>1. /\ used = 1 /\ \A b \in Blocks : \A j \in Slots : entries[b][j] = Null
      BY DEF Init
    <3>2. 1 \in Blocks
      BY Sizes DEF Blocks
    <3> QED BY <3>1, <3>2 DEF Spare
  <2> QED BY <2>1, <2>2, <2>3
<1>2. TableInv /\ ReaderInv /\ (Spare /\ Halved /\ ServiceInv) /\ [Next]_vars => (Spare /\ Halved /\ ServiceInv)'
  BY SpareNext, HalvedNext, ServiceNext
<1>3. QED
  BY <1>1, <1>2, TableInvariant, ReaderInvariant, PTL DEF Spec

------------------------------------------------------------------------------
(* OrderedLog's variables, as MemTable maps them. *)

CallView(pc, l) ==
  IF pc = "idle" THEN [op |-> "none", key |-> 0, from |-> 0, since |-> {}]
  ELSE [op |-> l.op, key |-> l.key, from |-> l.from, since |-> l.since]
CursorView(pc, l, p) == IF pc \in {"idle", "done"} THEN p.anchor ELSE l.from
AnswerView(pc, l) ==
  [ready |-> pc = "done", list |-> IF pc = "done" THEN l.out ELSE << >>,
   found |-> pc = "done" /\ l.found, stopped |-> pc = "done" /\ l.stopped]

Calls == [r \in Readers |-> CallView(rpc[r], loc[r])]
Cursors == [r \in Readers |-> CursorView(rpc[r], loc[r], pos[r])]
Answers == [r \in Readers |-> AnswerView(rpc[r], loc[r])]

(* OrderedLog's actions, in these terms. *)
LEMMA LogStutters ==
  ASSUME UNCHANGED <<visible, Calls, Cursors, Answers>> PROVE UNCHANGED L!vars
BY DEF L!vars, Calls, Cursors, Answers, CallView, CursorView, AnswerView

LEMMA LogInserts ==
  ASSUME NEW e, e \notin visible, visible' = visible \cup {e}, UNCHANGED <<Calls, Cursors, Answers>>
  PROVE  L!Insert(e)
BY DEF L!Insert, Calls, Cursors, Answers, CallView, CursorView, AnswerView

LEMMA LogBegins ==
  ASSUME NEW r, NEW op, NEW key, Calls[r] = L!NoCall,
         Calls' = [Calls EXCEPT ![r] = [op |-> op, key |-> key, from |-> Cursors[r], since |-> visible]],
         UNCHANGED <<visible, Cursors, Answers>>
  PROVE  L!Begin(r, op, key)
BY DEF L!Begin, Calls, Cursors, Answers, CallView, CursorView, AnswerView

LEMMA LogLeaves ==
  ASSUME NEW r, Answers[r].ready, Calls' = [Calls EXCEPT ![r] = L!NoCall],
         Answers' = [Answers EXCEPT ![r] = L!NoAnswer], UNCHANGED <<visible, Cursors>>
  PROVE  L!Leave(r)
BY DEF L!Leave, Calls, Cursors, Answers, CallView, CursorView, AnswerView

LEMMA LogDrops ==
  ASSUME NEW r, Calls[r] = L!NoCall, Cursors' = [Cursors EXCEPT ![r] = 0], UNCHANGED <<visible, Calls, Answers>>
  PROVE  L!Drop(r)
BY DEF L!Drop, Calls, Cursors, Answers, CallView, CursorView, AnswerView

LEMMA LogReturns ==
  ASSUME NEW r, NEW c, NEW a, NEW at, c = Calls[r], a = Answers'[r], at = Cursors'[r],
         c # L!NoCall, ~ Answers[r].ready, a.ready,
         CASE c.op = "get"      -> L!GetAnswer(c, a) /\ at = Cursors[r]
           [] c.op = "contains" -> L!ContainsAnswer(c, a) /\ at = Cursors[r]
           [] OTHER             -> L!CursorAnswer(c, a, at),
         \A q \in Readers \ {r} : Answers'[q] = Answers[q] /\ Cursors'[q] = Cursors[q],
         UNCHANGED <<visible, Calls>>
  PROVE  L!Return(r)
BY DEF L!Return, Calls, Cursors, Answers, CallView, CursorView, AnswerView

LEMMA SameCardinality ==
  ASSUME NEW S PROVE L!Cardinality(S) = Cardinality(S)
BY DEF L!Cardinality, Cardinality

(* The answer of a call is one that OrderedLog accepts. *)
LEMMA AnswerAccepted ==
  ASSUME TableInv, NEW m, m \in Locals, m.op \in Ops, NEW at, Answered(m, at), NEW c, NEW a,
         c = CallView("done", m), a = AnswerView("done", m)
  PROVE  CASE c.op = "get"      -> L!GetAnswer(c, a) /\ at = m.from
           [] c.op = "contains" -> L!ContainsAnswer(c, a) /\ at = m.from
           [] OTHER             -> L!CursorAnswer(c, a, at)
<1>1. c.op = m.op /\ c.key = m.key /\ c.from = m.from /\ c.since = m.since
  BY DEF CallView
<1>2. a.list = m.out /\ a.found = m.found /\ a.stopped = m.stopped
  <2>1. m.found \in BOOLEAN /\ m.stopped \in BOOLEAN
    BY DEF Locals
  <2>2. a = [ready |-> TRUE, list |-> m.out, found |-> m.found, stopped |-> m.stopped]
    BY <2>1 DEF AnswerView
  <2> QED BY <2>2
<1>3. L!Listed(a) = Given(m)
  BY <1>2 DEF L!Listed, Given
<1>4. /\ m.since \subseteq Nat /\ m.from \in Nat /\ m.key \in Nat /\ at \in Nat /\ visible \subseteq Nat
      /\ m.out \in Seq(Entries) /\ Entries \subseteq Nat /\ m.since \subseteq Entries
  <2>1. /\ m.since \subseteq Entries /\ m.from \in Entries \cup {0} /\ m.key \in Entries \cup {0}
        /\ m.out \in Seq(Entries)
    BY DEF Locals, Null
  <2>2. visible \subseteq Entries /\ at \in visible \cup {0}
    BY DEF TableInv, TableTypes, Answered, Null
  <2> QED BY <2>1, <2>2, Sizes
<1>5. at \in visible \cup {0}
  BY DEF Answered, Null
<1>6. CASE m.op = "get"
  <2>1. /\ Rising(m.out) /\ \A i \in DOMAIN m.out : Version(m, m.out[i])
        /\ \A e \in Due(m) : m.stopped /\ m.out # << >> /\ Follows(m.out, e)
        /\ at = m.from
    BY <1>6 DEF Answered
  <2>2. L!Ascending(a)
    BY <1>2, <2>1 DEF L!Ascending, Rising
  <2>3. L!Listed(a) \subseteq L!Versions(c.key, visible)
    <3> SUFFICES ASSUME NEW i \in DOMAIN m.out PROVE m.out[i] \in L!Versions(m.key, visible)
      BY <1>1, <1>3 DEF Given
    <3> QED BY <2>1 DEF Version, L!Versions
  <2>4. ASSUME NEW e \in L!Versions(c.key, c.since) \ L!Listed(a) PROVE a.stopped /\ e > a.list[Len(a.list)]
    <3>1. e \in Due(m) /\ e \in Nat
      BY <1>1, <1>3, <1>4, <1>6, <2>4 DEF L!Versions, Due
    <3>2. m.stopped /\ m.out # << >> /\ Follows(m.out, e)
      BY <2>1, <3>1
    <3>3. PICK s \in Seq(Entries) : s = m.out
      BY <1>4
    <3>4. Len(s) \in DOMAIN s /\ s[Len(s)] \in Entries
      BY <3>2, <3>3
    <3>5. s[Len(s)] < e /\ s[Len(s)] \in Nat
      BY <1>4, <3>2, <3>3, <3>4 DEF Follows
    <3> QED BY <1>2, <3>1, <3>2, <3>3, <3>5
  <2>5. L!GetAnswer(c, a)
    BY <2>2, <2>3, <2>4 DEF L!GetAnswer
  <2> QED BY <1>1, <1>6, <2>1, <2>5
<1>7. CASE m.op = "contains"
  <2>1. (m.found => m.key \in visible) /\ (m.key \in m.since => m.found) /\ at = m.from
    BY <1>7 DEF Answered
  <2>2. L!ContainsAnswer(c, a)
    BY <1>1, <1>2, <2>1 DEF L!ContainsAnswer
  <2> QED BY <1>1, <1>7, <2>1, <2>2
<1>8. ASSUME NEW lo \in Nat, NEW S, S \subseteq m.since, \A e \in S : lo <= e => at # Null /\ at <= e
      PROVE  L!Lands(lo, at, S)
  BY <1>4, <1>5, <1>8 DEF L!Lands, Null
<1>9. CASE m.op \notin {"get", "contains"}
  <2>1. m.op \in {"seek", "first", "last", "seekprev", "valid", "next", "prev", "scan"}
    BY <1>9, MemTableAssumption DEF KeyOps, StepOps
  <2>2. m.op = "seek" => L!Lands(c.key, at, c.since) /\ (at # 0 => at >= c.key)
    <3> SUFFICES ASSUME m.op = "seek" PROVE L!Lands(m.key, at, m.since) /\ (at # 0 => at >= m.key)
      BY <1>1
    <3>1. (at # Null => m.key <= at) /\ \A e \in m.since : m.key <= e => at # Null /\ at <= e
      BY DEF Answered
    <3>2. L!Lands(m.key, at, m.since)
      BY <1>4, <1>8, <3>1
    <3> QED BY <1>4, <3>1, <3>2 DEF Null
  <2>3. m.op = "first" => L!Lands(1, at, c.since)
    <3> SUFFICES ASSUME m.op = "first" PROVE L!Lands(1, at, m.since)
      BY <1>1
    <3>1. \A e \in m.since : at # Null /\ at <= e
      BY DEF Answered, Due
    <3> QED BY <1>8, <3>1
  <2>4. m.op = "next" => L!Lands(c.from + 1, at, c.since)
    <3> SUFFICES ASSUME m.op = "next" PROVE L!Lands(m.from + 1, at, m.since)
      BY <1>1
    <3>1. \A e \in m.since : e > m.from => at # Null /\ at <= e
      BY DEF Answered, Due
    <3>2. \A e \in m.since : m.from + 1 <= e => at # Null /\ at <= e
      BY <1>4, <3>1
    <3> QED BY <1>4, <1>8, <3>2
  <2>5. m.op = "scan" => L!Listed(a) \subseteq visible /\ L!Lands(c.from, at, c.since \ L!Listed(a))
    <3> SUFFICES ASSUME m.op = "scan" PROVE Given(m) \subseteq visible /\ L!Lands(m.from, at, m.since \ Given(m))
      BY <1>1, <1>3
    <3>1. Given(m) \subseteq visible
      BY DEF Answered
    <3>2. \A e \in m.since \ Given(m) : e >= m.from => at # Null /\ at <= e
      BY DEF Answered, Due
    <3>3. \A e \in m.since \ Given(m) : m.from <= e => at # Null /\ at <= e
      BY <1>4, <3>2
    <3> QED BY <1>4, <1>8, <3>1, <3>3
  <2>6. /\ m.op = "last" => (Cardinality(c.since) > 1 => at # 0)
        /\ m.op = "valid" => at = c.from
        /\ m.op = "prev" => at < c.from
    BY <1>1 DEF Answered, Null
  <2>7. L!CursorAnswer(c, a, at)
    <3>1. CASE m.op = "seek"
      BY <1>1, <2>2, <3>1 DEF L!CursorAnswer
    <3>2. CASE m.op = "first"
      BY <1>1, <2>3, <3>2 DEF L!CursorAnswer
    <3>3. CASE m.op = "last"
      BY <1>1, <1>5, <2>6, <3>3, SameCardinality DEF L!CursorAnswer
    <3>4. CASE m.op = "seekprev"
      BY <1>1, <1>5, <3>4 DEF L!CursorAnswer
    <3>5. CASE m.op = "valid"
      BY <1>1, <2>6, <3>5 DEF L!CursorAnswer
    <3>6. CASE m.op = "next"
      BY <1>1, <2>4, <3>6 DEF L!CursorAnswer
    <3>7. CASE m.op = "prev"
      BY <1>1, <1>5, <2>6, <3>7 DEF L!CursorAnswer
    <3>8. CASE m.op = "scan"
      BY <1>1, <2>5, <3>8 DEF L!CursorAnswer
    <3> QED BY <2>1, <3>1, <3>2, <3>3, <3>4, <3>5, <3>6, <3>7, <3>8
  <2> QED BY <1>1, <1>9, <2>7
<1>10. QED
  BY <1>6, <1>7, <1>9

(* What OrderedLog sees of a reader's step. *)
LEMMA ViewMoves ==
  ASSUME ReaderInv, NEW r \in Readers, NEW pc, NEW l, NEW p, Moves(r, pc, l, p)
  PROVE  /\ Calls' = [Calls EXCEPT ![r] = CallView(pc, l)]
         /\ Cursors' = [Cursors EXCEPT ![r] = CursorView(pc, l, p)]
         /\ Answers' = [Answers EXCEPT ![r] = AnswerView(pc, l)]
         /\ rpc'[r] = pc /\ loc'[r] = l /\ pos'[r] = p
         /\ \A q \in Readers : q # r => rpc'[q] = rpc[q] /\ loc'[q] = loc[q] /\ pos'[q] = pos[q]
<1>1. rpc'[r] = pc /\ \A q \in Readers : q # r => rpc'[q] = rpc[q]
  BY DEF ReaderInv, Moves
<1>2. loc'[r] = l /\ \A q \in Readers : q # r => loc'[q] = loc[q]
  BY DEF ReaderInv, Moves
<1>3. pos'[r] = p /\ \A q \in Readers : q # r => pos'[q] = pos[q]
  BY DEF ReaderInv, Moves
<1>4. Calls' = [Calls EXCEPT ![r] = CallView(pc, l)]
  <2>1. \A q \in Readers : CallView(rpc'[q], loc'[q]) = IF q = r THEN CallView(pc, l) ELSE CallView(rpc[q], loc[q])
    BY <1>1, <1>2
  <2> QED BY <2>1 DEF Calls
<1>5. Cursors' = [Cursors EXCEPT ![r] = CursorView(pc, l, p)]
  <2>1. \A q \in Readers : CursorView(rpc'[q], loc'[q], pos'[q]) =
                             IF q = r THEN CursorView(pc, l, p) ELSE CursorView(rpc[q], loc[q], pos[q])
    BY <1>1, <1>2, <1>3
  <2> QED BY <2>1 DEF Cursors
<1>6. Answers' = [Answers EXCEPT ![r] = AnswerView(pc, l)]
  <2>1. \A q \in Readers : AnswerView(rpc'[q], loc'[q]) = IF q = r THEN AnswerView(pc, l) ELSE AnswerView(rpc[q], loc[q])
    BY <1>1, <1>2
  <2> QED BY <2>1 DEF Answers
<1>7. QED
  BY <1>1, <1>2, <1>3, <1>4, <1>5, <1>6

(* Nothing changes for it when the reader's part stays what it was. *)
LEMMA ViewStays ==
  ASSUME NEW r \in Readers, NEW c, NEW p, NEW a, UNCHANGED visible,
         Calls' = [Calls EXCEPT ![r] = c], Cursors' = [Cursors EXCEPT ![r] = p], Answers' = [Answers EXCEPT ![r] = a]
  PROVE  /\ c = Calls[r] => UNCHANGED Calls
         /\ p = Cursors[r] => UNCHANGED Cursors
         /\ a = Answers[r] => UNCHANGED Answers
<1>1. /\ Calls = [q \in Readers |-> Calls[q]] /\ Cursors = [q \in Readers |-> Cursors[q]]
      /\ Answers = [q \in Readers |-> Answers[q]]
  BY DEF Calls, Cursors, Answers
<1>2. QED
  BY <1>1

LEMMA AnswerPending ==
  ASSUME NEW pc, NEW l, pc # "done" PROVE AnswerView(pc, l) = L!NoAnswer
BY DEF AnswerView, L!NoAnswer

LEMMA LogMoves ==
  ASSUME NEW r \in Readers, L!Return(r) \/ L!Leave(r) \/ L!Drop(r)
  PROVE  L!Next
BY DEF L!Next

(* A step of a call is no step of OrderedLog's until it ends the call: that step is
   its Return. *)
LEMMA TurnRefines ==
  ASSUME TableInv, ReaderInv, ReaderInv', NEW r \in Readers, Busy(r), Turns(r), UNCHANGED visible
  PROVE  L!Next \/ UNCHANGED L!vars
<1>1. PICK pc, m, p : /\ Moves(r, pc, m, p) /\ Asks(m, loc[r]) /\ pc # "idle"
                      /\ IF pc = "done" THEN Answered(m, p.anchor) ELSE Serving(pc, m, p)
  BY DEF Turns
<1>2. PICK l : l = loc[r]
  OBVIOUS
<1>3. /\ Calls' = [Calls EXCEPT ![r] = CallView(pc, m)]
      /\ Cursors' = [Cursors EXCEPT ![r] = CursorView(pc, m, p)]
      /\ Answers' = [Answers EXCEPT ![r] = AnswerView(pc, m)]
      /\ loc'[r] = m
  BY <1>1, ViewMoves
<1>4. rpc[r] \notin {"idle", "done"} /\ l.op \in Ops
  BY <1>2 DEF Busy, Serving, Serves
<1>5. m.op = l.op /\ m.key = l.key /\ m.since = l.since /\ m.from = l.from
  BY <1>1, <1>2 DEF Asks
<1>6. /\ Calls[r] = CallView(rpc[r], l) /\ Cursors[r] = CursorView(rpc[r], l, pos[r])
      /\ Answers[r] = AnswerView(rpc[r], l)
  BY <1>2 DEF Calls, Cursors, Answers
<1>7. /\ CallView(pc, m) = Calls[r] /\ Cursors[r] = m.from /\ Answers[r] = L!NoAnswer
      /\ CallView(pc, m) = CallView("done", m)
  <2>1. CallView(pc, m) = CallView(rpc[r], l) /\ CallView(pc, m) = CallView("done", m)
    BY <1>1, <1>4, <1>5 DEF CallView
  <2>2. CursorView(rpc[r], l, pos[r]) = m.from
    BY <1>4, <1>5 DEF CursorView
  <2> QED BY <1>4, <1>6, <2>1, <2>2, AnswerPending
<1>8. UNCHANGED Calls
  BY <1>3, <1>7, ViewStays
<1>9. CASE pc # "done"
  <2>1. CursorView(pc, m, p) = m.from
    BY <1>1, <1>9 DEF CursorView
  <2>2. AnswerView(pc, m) = L!NoAnswer
    BY <1>9, AnswerPending
  <2>3. UNCHANGED Cursors /\ UNCHANGED Answers
    BY <1>3, <1>7, <2>1, <2>2, ViewStays
  <2> QED BY <1>8, <2>3, LogStutters
<1>10. CASE pc = "done"
  <2>1. PICK c, a, at : c = CallView("done", m) /\ a = AnswerView("done", m) /\ at = p.anchor
    OBVIOUS
  <2>2. Answered(m, at)
    BY <1>1, <1>10, <2>1
  <2>3. m \in Locals
    <3>1. Control(rpc[r], loc[r], pos[r])'
      BY DEF ReaderInv, Consistent
    <3>2. loc'[r] \in Locals
      BY <3>1 DEF Control
    <3> QED BY <1>3, <3>2
  <2>4. (CASE c.op = "get"      -> L!GetAnswer(c, a) /\ at = m.from
           [] c.op = "contains" -> L!ContainsAnswer(c, a) /\ at = m.from
           [] OTHER             -> L!CursorAnswer(c, a, at))
    BY <1>4, <1>5, <2>1, <2>2, <2>3, AnswerAccepted
  <2>5. /\ c = Calls[r] /\ a = Answers'[r] /\ at = Cursors'[r]
        /\ \A q \in Readers \ {r} : Answers'[q] = Answers[q] /\ Cursors'[q] = Cursors[q]
    <3>1. c = Calls[r]
      BY <1>7, <2>1
    <3>2. Answers'[r] = AnswerView("done", m) /\ \A q \in Readers \ {r} : Answers'[q] = Answers[q]
      BY <1>3, <1>10 DEF Answers
    <3>3. Cursors'[r] = CursorView("done", m, p) /\ \A q \in Readers \ {r} : Cursors'[q] = Cursors[q]
      BY <1>3, <1>10 DEF Cursors
    <3>4. CursorView("done", m, p) = at
      BY <2>1 DEF CursorView
    <3> QED BY <2>1, <3>1, <3>2, <3>3, <3>4
  <2>6. c # L!NoCall
    <3>1. c.op = l.op
      BY <1>5, <2>1 DEF CallView
    <3>2. l.op # "none"
      BY <1>4, MemTableAssumption DEF KeyOps, StepOps
    <3> QED BY <3>1, <3>2 DEF L!NoCall
  <2>7. ~ Answers[r].ready
    BY <1>7 DEF L!NoAnswer
  <2>8. a.ready
    <3>1. a.ready = TRUE
      BY <2>1 DEF AnswerView
    <3> QED BY <3>1
  <2>9. (CASE c.op = "get"      -> L!GetAnswer(c, a) /\ at = Cursors[r]
           [] c.op = "contains" -> L!ContainsAnswer(c, a) /\ at = Cursors[r]
           [] OTHER             -> L!CursorAnswer(c, a, at))
    BY <1>7, <2>4
  <2>10. L!Return(r)
    BY <1>8, <2>5, <2>6, <2>7, <2>8, <2>9, LogReturns
  <2> QED BY <2>10, LogMoves
<1>11. QED
  BY <1>9, <1>10

LEMMA OutsideRefines ==
  ASSUME TableInv, ReaderInv, NEW r \in Readers, UNCHANGED visible,
         \/ \E op \in Ops, key \in Entries \cup {Null} : Begin(r, op, key)
         \/ GetIterator(r) \/ Leave(r)
  PROVE  L!Next
<1>1. PICK l, p : l = loc[r] /\ p = pos[r]
  OBVIOUS
<1>2. /\ Calls[r] = CallView(rpc[r], l) /\ Cursors[r] = CursorView(rpc[r], l, p)
      /\ Answers[r] = AnswerView(rpc[r], l)
  BY <1>1 DEF Calls, Cursors, Answers
<1>3. rpc[r] = "idle" => Calls[r] = L!NoCall /\ Cursors[r] = p.anchor /\ Answers[r] = L!NoAnswer
  <2> SUFFICES ASSUME rpc[r] = "idle" PROVE Calls[r] = L!NoCall /\ Cursors[r] = p.anchor /\ Answers[r] = L!NoAnswer
    OBVIOUS
  <2>1. CallView(rpc[r], l) = L!NoCall
    BY DEF CallView, L!NoCall
  <2>2. CursorView(rpc[r], l, p) = p.anchor
    BY DEF CursorView
  <2>3. AnswerView(rpc[r], l) = L!NoAnswer
    BY AnswerPending
  <2> QED BY <1>2, <2>1, <2>2, <2>3
<1>4. ASSUME NEW op \in Ops, NEW key \in Entries \cup {Null}, Begin(r, op, key) PROVE L!Next
  <2>1. PICK q, m : /\ Moves(r, q, m, p) /\ q \notin {"idle", "done"}
                    /\ m.op = op /\ m.key = key /\ m.from = p.anchor /\ m.since = visible
    <3>1. PICK q, m : /\ Moves(r, q, m, pos[r]) /\ q \notin {"idle", "done"}
                      /\ m.op = op /\ m.key = key /\ m.from = pos[r].anchor /\ m.since = visible
      BY <1>4, BeginServes
    <3> QED BY <1>1, <3>1
  <2>2. /\ Calls' = [Calls EXCEPT ![r] = CallView(q, m)]
        /\ Cursors' = [Cursors EXCEPT ![r] = CursorView(q, m, p)]
        /\ Answers' = [Answers EXCEPT ![r] = AnswerView(q, m)]
    <3>1. Moves(r, q, m, p)
      BY <2>1, Zenon
    <3> QED BY <3>1, ViewMoves
  <2>3. Calls[r] = L!NoCall /\ Cursors[r] = p.anchor /\ Answers[r] = L!NoAnswer
    <3>1. rpc[r] = "idle"
      BY <1>4, Zenon DEF Begin
    <3> QED BY <1>3, <3>1, Zenon
  <2>4. CallView(q, m) = [op |-> op, key |-> key, from |-> Cursors[r], since |-> visible]
    BY <2>1, <2>3 DEF CallView
  <2>5. CursorView(q, m, p) = Cursors[r]
    BY <2>1, <2>3 DEF CursorView
  <2>6. AnswerView(q, m) = Answers[r]
    BY <2>1, <2>3, AnswerPending
  <2>7. UNCHANGED Cursors /\ UNCHANGED Answers
    BY <2>2, <2>5, <2>6, ViewStays
  <2>8. L!Begin(r, op, key)
    BY <2>2, <2>3, <2>4, <2>7, LogBegins
  <2> QED BY <2>8 DEF L!Next, Null
<1>5. CASE GetIterator(r)
  <2>1. Moves(r, "idle", l, NoPosition) /\ rpc[r] = "idle"
    BY <1>1, <1>5 DEF GetIterator, Place, Moves, ReaderInv
  <2>2. /\ Calls' = [Calls EXCEPT ![r] = CallView("idle", l)]
        /\ Cursors' = [Cursors EXCEPT ![r] = CursorView("idle", l, NoPosition)]
        /\ Answers' = [Answers EXCEPT ![r] = AnswerView("idle", l)]
    BY <2>1, ViewMoves
  <2>3. CursorView("idle", l, NoPosition) = 0
    BY DEF CursorView, NoPosition, Null
  <2>4. UNCHANGED Calls /\ UNCHANGED Answers
    BY <1>2, <2>1, <2>2, ViewStays
  <2>5. L!Drop(r)
    BY <1>3, <2>1, <2>2, <2>3, <2>4, LogDrops
  <2> QED BY <2>5, LogMoves
<1>6. CASE Leave(r)
  <2>1. Moves(r, "idle", NoLocals, p) /\ rpc[r] = "done"
    BY <1>1, <1>6, RunMoves DEF Leave
  <2>2. /\ Calls' = [Calls EXCEPT ![r] = CallView("idle", NoLocals)]
        /\ Cursors' = [Cursors EXCEPT ![r] = CursorView("idle", NoLocals, p)]
        /\ Answers' = [Answers EXCEPT ![r] = AnswerView("idle", NoLocals)]
    BY <2>1, ViewMoves
  <2>3. CallView("idle", NoLocals) = L!NoCall
    BY DEF CallView, L!NoCall
  <2>4. CursorView("idle", NoLocals, p) = Cursors[r]
    BY <1>2, <2>1 DEF CursorView
  <2>5. AnswerView("idle", NoLocals) = L!NoAnswer
    BY AnswerPending
  <2>6. UNCHANGED Cursors
    BY <2>2, <2>4, ViewStays
  <2>7. Answers[r].ready
    <3>1. AnswerView("done", l).ready = TRUE
      BY DEF AnswerView
    <3> QED BY <1>2, <2>1, <3>1
  <2>8. L!Leave(r)
    BY <2>2, <2>3, <2>5, <2>6, <2>7, LogLeaves
  <2> QED BY <2>8, LogMoves
<1>7. QED
  BY <1>4, <1>5, <1>6

(* The writer's part of it is one step, the close of the bracket in which the entry
   was stored. *)
LEMMA WriteRefines ==
  ASSUME TableInv, Write
  PROVE  L!Next \/ UNCHANGED L!vars
<1>1. UNCHANGED <<rpc, loc, pos>>
  BY WriterLeavesReaders DEF reader
<1>2. UNCHANGED <<Calls, Cursors, Answers>>
  BY <1>1 DEF Calls, Cursors, Answers
<1>3. CASE InsertClose
  <2>1. wpc = "close" /\ visible' = visible \cup {ins.e}
    BY <1>3 DEF InsertClose
  <2>2. ins.e \in Entries /\ ins.e \notin visible
    BY <2>1 DEF TableInv, Inserting
  <2>3. L!Insert(ins.e)
    BY <1>2, <2>1, <2>2, LogInserts
  <2> QED BY <2>2, <2>3 DEF L!Next
<1>4. CASE UNCHANGED visible
  BY <1>2, <1>4, LogStutters
<1>5. CASE \E e \in Entries : InsertBegin(e)
  BY <1>4, <1>5 DEF InsertBegin
<1>6. QED
  BY <1>3, <1>4, <1>5 DEF Write, InsertOpen, InsertShift, InsertStore, InsertCount, InsertMap,
       SplitOpen, SplitCount, SplitNull, SplitLinkBack, SplitLink, SplitMap, SplitClose

LEMMA LogInit ==
  ASSUME Init PROVE L!Init
<1>1. visible = {} /\ rpc = [r \in Readers |-> "idle"] /\ pos = [r \in Readers |-> NoPosition]
  BY DEF Init
<1>2. Calls = [r \in Readers |-> L!NoCall]
  BY <1>1 DEF Calls, CallView, L!NoCall
<1>3. Cursors = [r \in Readers |-> 0]
  BY <1>1 DEF Cursors, CursorView, NoPosition, Null
<1>4. Answers = [r \in Readers |-> L!NoAnswer]
  <2>1. \A r \in Readers : AnswerView(rpc[r], loc[r]) = L!NoAnswer
    BY <1>1, AnswerPending
  <2> QED BY <2>1 DEF Answers
<1>5. QED
  BY <1>1, <1>2, <1>3, <1>4 DEF L!Init, Calls, Cursors, Answers, CallView, CursorView, AnswerView

(* The memtable keeps OrderedLog's promise, for any entries, readers, capacity and
   seek_lock_scope_: while inserts shift and split the blocks under it, a Get delivers
   every version of its key that was there when it was called, once and in order; a
   Contains misses no such entry; a seek, a step forward and a batch pass none over;
   and nothing is answered that was not inserted. *)
THEOREM MemTableKeepsPromise == Spec => Promise
<1>1. Init => L!Init
  BY LogInit
<1>2. TableInv /\ ReaderInv /\ (Spare /\ Halved /\ ServiceInv) /\ [Next]_vars => [L!Next]_(L!vars)
  <2> SUFFICES ASSUME TableInv, ReaderInv, Spare, Halved, ServiceInv, [Next]_vars
               PROVE  L!Next \/ UNCHANGED L!vars
    OBVIOUS
  <2>1. CASE Write
    BY <2>1, WriteRefines
  <2>2. ASSUME NEW r \in Readers, Call(r) PROVE L!Next \/ UNCHANGED L!vars
    <3>1. UNCHANGED visible
      BY <2>2, ReadersLookOnly DEF table, writer
    <3>2. CASE rpc[r] \in {"idle", "done"}
      BY <2>2, <3>1, <3>2, CallOutside, OutsideRefines
    <3>3. CASE rpc[r] \notin {"idle", "done"}
      <4>1. Busy(r)
        BY <3>3 DEF Busy, ServiceInv
      <4>2. Turns(r)
        BY <2>2, <4>1, CallTurns
      <4>3. ReaderInv'
        BY ReaderNext
      <4> QED BY <3>1, <4>1, <4>2, <4>3, TurnRefines
    <3> QED BY <3>2, <3>3
  <2>3. CASE UNCHANGED vars
    <3>1. UNCHANGED <<visible, rpc, loc, pos>>
      BY <2>3 DEF vars, table, reader, writer
    <3>2. UNCHANGED <<Calls, Cursors, Answers>>
      BY <3>1 DEF Calls, Cursors, Answers
    <3> QED BY <3>1, <3>2, LogStutters
  <2> QED BY <2>1, <2>2, <2>3 DEF Next
<1>3. QED
  BY <1>1, <1>2, TableInvariant, ReaderInvariant, CallsServed, PTL DEF Spec, Promise, L!Spec
==============================================================================
