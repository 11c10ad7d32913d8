----------------------------- MODULE MCMemTable ------------------------------
(* Instances of MemTable for TLC. *)
EXTENDS SliceSeek

CONSTANT rd

(* The entries after the first are versions of one user key; each user key has a
   prefix of its own. *)
Users == [e \in Entries |-> IF e = 1 THEN 1 ELSE 2]

(* Every scope with splits; the widest at every capacity, 1 too, where a split
   empties the head. *)
AllScopes == {<<"full", 2>>, <<"trie", 2>>, <<"trie", 3>>,
              <<"optimistic", 1>>, <<"optimistic", 2>>, <<"optimistic", 3>>}

DefaultScope == {<<"full", 2>>}
==============================================================================
