------------------------------ MODULE SliceSeek ------------------------------
(* A Seek that is given the key as a slice and no memtable_key, beside the    *)
(* inserts of MemTable.  Its comparisons have the slice on the left, so each  *)
(* has its own branch in the code.  The call is made with no insert under way *)
(* and is one step.                                                           *)
EXTENDS MemTable

(* SettleSeekCandidate for a slice: forward only to a block that starts before
   the key. *)
SettleSlice(b, k) ==
  LET Back[c \in Blocks] ==
        IF prev[c] # Null /\ min_key(c) # Null /\ k < min_key(c) THEN Back[prev[c]] ELSE c
      Forward[c \in Blocks] ==
        LET d == next[c] IN IF d # Null /\ k > min_key(d) THEN Forward[d] ELSE c
  IN Forward[Back[b]]

FindLeafBlockForSlice(k) ==
  IF tail = HeadBlock THEN HeadBlock ELSE SettleSlice(TrieCandidate(k), k)

(* The slot the search ends at: cmp is of the slice with the entry, and to the
   left is where it is at least zero. *)
SearchSlice(b, k) ==
  LET Go[w \in Slots \X Slots] ==
        LET l == w[1]  r == w[2]  mid == l + (r - l) \div 2 IN
        IF l >= r THEN l
        ELSE IF k >= entries[b][mid] THEN Go[<<l, mid>>] ELSE Go[<<mid + 1, r>>]
  IN Go[<<0, count[b]>>]

(* The position in the first block from b on where the search ends before the
   end of the block. *)
LandSlice(b, k) ==
  LET Land[c \in Blocks] ==
        LET s == SearchSlice(c, k) IN
        IF s < count[c]
        THEN [leaf |-> c, slot |-> s, ver |-> version[c], anchor |-> entries[c][s]]
        ELSE IF next[c] = Null THEN NoPosition ELSE Land[next[c]]
  IN Land[b]

SeekSlice(r, k) ==
  /\ rpc[r] = "idle" /\ pos[r] = NoPosition /\ wpc = "idle"
  /\ Place(r, LandSlice(FindLeafBlockForSlice(k), k))
  /\ Run(r, "done", [NoLocals EXCEPT !.op = "seek", !.key = k, !.since = visible])

SliceNext == Next \/ \E r \in Readers, k \in Entries : SeekSlice(r, k)

SliceSpec == Init /\ [][SliceNext]_vars

(* A seek by slice lands on the first entry at or after the key, or nowhere when
   there is none: the range scan of the README starts with one, and prints the
   entries from it on. *)
SliceSeekExact ==
  \A r \in Readers : LET l == loc[r]  from == {e \in l.since : e >= l.key} IN
    rpc[r] = "done" /\ l.op = "seek" =>
      IF from = {} THEN pos[r] = NoPosition
      ELSE pos[r].anchor \in from /\ \A e \in from : pos[r].anchor <= e
==============================================================================
