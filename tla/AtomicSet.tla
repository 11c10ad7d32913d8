------------------------------ MODULE AtomicSet ------------------------------
(* What the shared set promises its callers: a call takes effect at one       *)
(* moment between its start and its return, and a call that changes nothing   *)
(* answers what was true at one such moment.                                  *)
EXTENDS FiniteSets

CONSTANTS Threads, Keys, InitialContents, NoCall

VARIABLES
  keys,    \* the contents
  call,    \* what each thread is calling
  done,    \* whether its call has changed the contents
  could,   \* whether its key was in the set, at each moment of the call so far
  ret      \* the answer of its last call

vars == <<keys, call, done, could, ret>>

Ops == {"get", "insert", "remove"}
Calls == [op : Ops, key : Keys]

Init ==
  /\ keys \in InitialContents
  /\ call = [t \in Threads |-> NoCall]
  /\ done = [t \in Threads |-> FALSE]
  /\ could = [t \in Threads |-> {}]
  /\ ret = [t \in Threads |-> FALSE]

Begin(t, c) ==
  /\ call[t] = NoCall
  /\ call' = [call EXCEPT ![t] = c]
  /\ could' = [could EXCEPT ![t] = {c.key \in keys}]
  /\ UNCHANGED <<keys, done, ret>>

(* The call's one change: an absent key goes in, or a present one out. *)
Change(t) ==
  /\ call[t] # NoCall /\ ~ done[t]
  /\ LET c == call[t] IN
       \/ c.op = "insert" /\ c.key \notin keys /\ keys' = keys \cup {c.key}
       \/ c.op = "remove" /\ c.key \in keys /\ keys' = keys \ {c.key}
  /\ done' = [done EXCEPT ![t] = TRUE]
  /\ could' = [u \in Threads |-> IF call[u] = NoCall THEN {}
                                 ELSE could[u] \cup {call[u].key \in keys'}]
  /\ UNCHANGED <<call, ret>>

(* insert: true if the key was absent; remove and get: true if present. *)
Answers(t) ==
  CASE done[t] -> {TRUE}
    [] ~ done[t] /\ call[t].op = "get" -> could[t]
    [] ~ done[t] /\ call[t].op = "insert" -> {FALSE : p \in could[t] \cap {TRUE}}
    [] ~ done[t] /\ call[t].op = "remove" -> {FALSE : p \in could[t] \cap {FALSE}}

Return(t) ==
  /\ call[t] # NoCall
  /\ \E r \in Answers(t) : ret' = [ret EXCEPT ![t] = r]
  /\ call' = [call EXCEPT ![t] = NoCall]
  /\ done' = [done EXCEPT ![t] = FALSE]
  /\ could' = [could EXCEPT ![t] = {}]
  /\ UNCHANGED keys

Next == \E t \in Threads : (\E c \in Calls : Begin(t, c)) \/ Change(t) \/ Return(t)

Spec == Init /\ [][Next]_vars
==============================================================================
