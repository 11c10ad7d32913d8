----------------------------- MODULE OrderedLog ------------------------------
(* What a memtable promises its readers.  Entries are inserted once and never *)
(* removed.  A read is no snapshot: it answers with every entry that was      *)
(* present when it was called, and perhaps with some inserted meanwhile.      *)
EXTENDS Integers, FiniteSets, Sequences

CONSTANTS Entries, UserOf, Readers, Ops

VARIABLES
  present,   \* the entries inserted
  call,      \* each reader's call, with what was present when it was made
  cursor,    \* the entry each reader's iterator is at; 0 when at none
  answer     \* the answer of a call that is about to return

vars == <<present, call, cursor, answer>>

NoCall == [op |-> "none", key |-> 0, from |-> 0, since |-> {}]
NoAnswer == [ready |-> FALSE, list |-> <<>>, found |-> FALSE, stopped |-> FALSE]

Init ==
  /\ present = {}
  /\ call = [r \in Readers |-> NoCall]
  /\ cursor = [r \in Readers |-> 0]
  /\ answer = [r \in Readers |-> NoAnswer]

Insert(e) ==
  /\ e \notin present
  /\ present' = present \cup {e}
  /\ UNCHANGED <<call, cursor, answer>>

Begin(r, op, key) ==
  /\ call[r] = NoCall
  /\ call' = [call EXCEPT ![r] = [op |-> op, key |-> key, from |-> cursor[r], since |-> present]]
  /\ UNCHANGED <<present, cursor, answer>>

------------------------------------------------------------------------------
Listed(a) == {a.list[i] : i \in DOMAIN a.list}
Ascending(a) == \A i, j \in DOMAIN a.list : i < j => a.list[i] < a.list[j]

(* The versions of the key's user key, from the key on. *)
Versions(key, S) == {e \in S : e >= key /\ UserOf[e] = UserOf[key]}

GetAnswer(c, a) ==
  /\ Ascending(a) /\ Listed(a) \subseteq Versions(c.key, present)
  /\ \A e \in Versions(c.key, c.since) \ Listed(a) : a.stopped /\ e > a.list[Len(a.list)]

ContainsAnswer(c, a) ==
  (a.found => c.key \in present) /\ (c.key \in c.since => a.found)

(* The cursor lands at an entry, or at none; either way no entry from lo on that
   was present when the call was made is passed over. *)
Lands(lo, at, since) ==
  /\ at \in present \cup {0}
  /\ \A e \in since : e >= lo => at # 0 /\ at <= e

(* A step forward, or a batch, passes over no entry, but may land where it was.
   Prev, SeekToLast and SeekForPrev promise less still; and while a memtable of
   capacity 1 moves its only entry out of the head, SeekToLast may find none. *)
CursorAnswer(c, a, at) ==
  CASE c.op = "seek"     -> Lands(c.key, at, c.since) /\ (at # 0 => at >= c.key)
    [] c.op = "first"    -> Lands(1, at, c.since)
    [] c.op = "last"     -> at \in present \cup {0} /\ (Cardinality(c.since) > 1 => at # 0)
    [] c.op = "seekprev" -> at \in present \cup {0}
    [] c.op = "valid"    -> at = c.from
    [] c.op = "next"     -> Lands(c.from + 1, at, c.since)
    [] c.op = "prev"     -> at \in present \cup {0} /\ at < c.from
    [] c.op = "scan"     -> Listed(a) \subseteq present /\ Lands(c.from, at, c.since \ Listed(a))

Return(r) ==
  LET c == call[r]  a == answer'[r]  at == cursor'[r] IN
  /\ c # NoCall /\ ~ answer[r].ready
  /\ a.ready
  /\ CASE c.op = "get"      -> GetAnswer(c, a) /\ at = cursor[r]
       [] c.op = "contains" -> ContainsAnswer(c, a) /\ at = cursor[r]
       [] OTHER             -> CursorAnswer(c, a, at)
  /\ \A q \in Readers \ {r} : answer'[q] = answer[q] /\ cursor'[q] = cursor[q]
  /\ UNCHANGED <<present, call>>

Leave(r) ==
  /\ answer[r].ready
  /\ call' = [call EXCEPT ![r] = NoCall]
  /\ answer' = [answer EXCEPT ![r] = NoAnswer]
  /\ UNCHANGED <<present, cursor>>

(* A new iterator. *)
Drop(r) ==
  /\ call[r] = NoCall
  /\ cursor' = [cursor EXCEPT ![r] = 0]
  /\ UNCHANGED <<present, call, answer>>

Next ==
  \/ \E e \in Entries : Insert(e)
  \/ \E r \in Readers : \/ \E op \in Ops, key \in Entries \cup {0} : Begin(r, op, key)
                        \/ Return(r) \/ Leave(r) \/ Drop(r)

Spec == Init /\ [][Next]_vars
==============================================================================
