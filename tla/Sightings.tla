------------------------------ MODULE Sightings ------------------------------
(* What a device tracker promises: it remembers when each device was last     *)
(* seen, for at most Capacity devices of different hashes, and forgets those  *)
(* of the cutoff's second and before when it is told to.                      *)
EXTENDS Integers, FiniteSets

CONSTANTS Macs, HashOf, Capacity, Times, Sec, Wrap, None

VARIABLES
  seen,   \* when each device was last seen, on a clock that never turns back
  call    \* the last call: its arguments and what it returned

vars == <<seen, call>>

Tracked == {m \in Macs : seen[m] # None}
Returns(op, m, t, r) == call' = [op |-> op, mac |-> m, time |-> t, result |-> r]

(* The time is handed back as it was given, on the clock that wraps. *)
LastSeen(m) == IF seen[m] = None THEN None ELSE seen[m] % Wrap

NoCall == [op |-> "none", mac |-> None, time |-> None, result |-> None]
Init == seen = [m \in Macs |-> None] /\ call = NoCall

Record(m, t) ==
  IF \E n \in Tracked \ {m} : HashOf[n] = HashOf[m]
  THEN Returns("record", m, t, "ERR_COLLISION") /\ UNCHANGED seen
  ELSE IF m \notin Tracked /\ Cardinality(Tracked) = Capacity
  THEN Returns("record", m, t, "ERR_NOMEM") /\ UNCHANGED seen
  ELSE Returns("record", m, t, "OK") /\ seen' = [seen EXCEPT ![m] = t]

Get(m) == Returns("get", m, None, LastSeen(m)) /\ UNCHANGED seen

Remove(m) ==
  Returns("remove", m, None, LastSeen(m)) /\ seen' = [seen EXCEPT ![m] = None]

(* By the second: a device seen later than the cutoff, but in its second, goes
   too.  The header says by the millisecond; see ExpiresStale of BleTracker. *)
Expire(t) ==
  LET stale == {m \in Tracked : seen[m] \div Sec <= t \div Sec} IN
  /\ Returns("expire", None, t, Cardinality(stale))
  /\ seen' = [m \in Macs |-> IF m \in stale THEN None ELSE seen[m]]

Count == Returns("count", None, None, Cardinality(Tracked)) /\ UNCHANGED seen

(* The call says which of these the step is. *)
Next ==
  \/ call'.op = "record" /\ call'.mac \in Macs /\ call'.time \in Times
     /\ Record(call'.mac, call'.time)
  \/ call'.op = "get" /\ call'.mac \in Macs /\ Get(call'.mac)
  \/ call'.op = "remove" /\ call'.mac \in Macs /\ Remove(call'.mac)
  \/ call'.op = "expire" /\ call'.time \in Times /\ Expire(call'.time)
  \/ call'.op = "count" /\ Count

Spec == Init /\ [][Next]_vars
==============================================================================
