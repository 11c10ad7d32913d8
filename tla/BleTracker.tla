------------------------------ MODULE BleTracker -----------------------------
(* The registry of BLE devices of the ESP-IDF component: a slab of records, a *)
(* map from the hash of a device's address to its slot, and a map ordered by  *)
(* the second of its last sighting, relative to an epoch that moves.  Callers *)
(* hand in a millisecond clock that wraps; the tracker unwraps it.  Every     *)
(* operation runs under the tracker's lock, so each is one step.              *)
EXTENDS Integers, FiniteSets, Sequences, SequencesExt

CONSTANTS
  Macs, HashOf,          \* addresses, and their 32-bit hashes
  Capacity,              \* max_capacity
  Sec, Wrap,             \* clock ticks in a second, and in a turn of the clock
  RelMax,                \* the greatest relative second a key holds
  RebaseSpan, KeepSpan,  \* seconds: the epoch moves at the first, leaving the second
  SecTurn,               \* seconds in a turn of the 32-bit second
  Late, Ttl,             \* ticks by which a sighting, and a cutoff, may lag the clock
  Start, MaxTime,        \* the clock at creation, and the bound of the runs
  MaxSlips,              \* bound: times handed in from before a turn already heard
  None

Hashes == {HashOf[m] : m \in Macs}
Slots == 0 .. Capacity - 1
Times == 0 .. MaxTime
NoCall == [op |-> "none", mac |-> None, time |-> None, result |-> None]

ASSUME TrackerAssumption ==
  /\ IsFiniteSet(Macs) /\ HashOf \in [Macs -> Nat]
  /\ Capacity \in Nat \ {0} /\ Sec \in Nat \ {0} /\ Wrap \in Nat \ {0}
  /\ KeepSpan \in Nat /\ RebaseSpan \in Nat /\ RelMax \in Nat
  /\ KeepSpan < RebaseSpan /\ RebaseSpan <= RelMax /\ KeepSpan * Sec < Wrap \div 2
  /\ SecTurn \in Nat \ {0}
  /\ Late \in Nat /\ Ttl \in Nat /\ Late < Wrap \div 2 /\ Ttl < Wrap \div 2
  /\ MaxTime \in Nat /\ MaxSlips \in Nat /\ Start \subseteq 0 .. Wrap - 1 /\ Start \subseteq Times
  /\ None \notin Macs \cup Nat

(* The latest time the tracker may take one for, within the bounds. *)
LastTime == MaxTime + Wrap * MaxSlips

(* The envelope of the theorems, which the code does not enforce: no sighting and
   no cutoff lags by more than the epoch leaves behind, and the second fits its
   32 bits. *)
Envelope ==
  /\ Late <= KeepSpan * Sec /\ Ttl <= KeepSpan * Sec
  /\ LastTime \div Sec < SecTurn

VARIABLES
  by_mac, by_time,       \* hash -> slot; the keys of the time map
  entries,               \* the slab
  mono_last_seen_sec, active, free_indices, count,
  last_raw_ms, mono_offset_ms, base_epoch_sec,
  now, heard,            \* the caller's clock; the last time the tracker unwrapped
  slips,                 \* history: times heard from before a turn already heard
  at, taken,             \* history: when each slot's device was last seen, and the
                         \*   time the tracker took that for
  call                   \* history: the last call, its time as the tracker took it,
                         \*   and what it returned

clock == <<last_raw_ms, mono_offset_ms, heard, slips>>
slab == <<entries, mono_last_seen_sec, active, free_indices, count, at, taken>>
vars == <<by_mac, by_time, slab, clock, base_epoch_sec, now, call>>

Init ==
  /\ by_mac = [h \in Hashes |-> None] /\ by_time = {}
  /\ entries = [i \in Slots |-> [mac |-> None, last_seen_ms |-> 0]]
  /\ mono_last_seen_sec = [i \in Slots |-> 0] /\ active = {}
  /\ free_indices = [i \in 1 .. Capacity |-> Capacity - i] /\ count = 0
  /\ last_raw_ms = 0 /\ mono_offset_ms = 0 /\ base_epoch_sec = 0
  /\ now \in Start /\ heard = None /\ slips = 0
  /\ at = [i \in Slots |-> None] /\ taken = at /\ call = NoCall

------------------------------------------------------------------------------
(* The clock.  A caller hands in a time t as t % Wrap. *)

(* Mutant: any step back of the clock is a turn. *)
OffsetEager(raw) ==
  IF raw < last_raw_ms THEN mono_offset_ms + Wrap ELSE mono_offset_ms

(* The offset after unwrap_mono_ms: a step back by more than half a turn is a
   turn. *)
Offset(raw) ==
  IF (count > 0 \/ last_raw_ms > 0) /\ raw < last_raw_ms /\ last_raw_ms - raw > Wrap \div 2
  THEN mono_offset_ms + Wrap ELSE mono_offset_ms

(* A time from before a turn already heard is a slip: its raw value is greater
   than the last one, so the tracker takes it for one of the turn to come, and
   counts that turn when it hears the next time of this one. *)
SlipsWith(t) ==
  IF heard # None /\ t \div Wrap < heard \div Wrap THEN slips + 1 ELSE slips

Taken(t) == t + Wrap * SlipsWith(t)

unwrap_mono_ms(t) ==
  /\ last_raw_ms' = t % Wrap /\ mono_offset_ms' = Offset(t % Wrap)
  /\ heard' = t /\ slips' = SlipsWith(t) /\ SlipsWith(t) <= MaxSlips

(* The second it is kept under, cast to 32 bits. *)
mono_sec(t) == ((Offset(t % Wrap) + (t % Wrap)) \div Sec) % SecTurn

(* A time that may be handed in now. *)
Given(t, lag) == now - lag <= t /\ t <= now

(* The clock goes on; half a turn never passes unheard. *)
Tick ==
  /\ now < MaxTime
  /\ IF heard = None THEN now + 1 < Wrap ELSE now + 1 - heard < Wrap \div 2
  /\ now' = now + 1
  /\ UNCHANGED <<by_mac, by_time, slab, clock, base_epoch_sec, call>>

------------------------------------------------------------------------------
(* The time map. *)

(* The relative second, the oldest for one before the epoch. *)
rel_sec(sec, base) ==
  IF sec < base THEN 0 ELSE IF sec - base > RelMax THEN RelMax ELSE sec - base

make_time_key(sec, base, i) == rel_sec(sec, base) * Capacity + i
SlotOf(key) == key % Capacity

(* The key a slot was given when it was last seen, as the code recomputes it. *)
TimeKey(i, base) == make_time_key(mono_last_seen_sec[i], base, i)

Lowered(sec) == IF sec < base_epoch_sec THEN sec ELSE base_epoch_sec

(* Mutant: the epoch never moves. *)
RebaseNever(sec) == FALSE

RebaseNeeded(sec) == sec - Lowered(sec) >= RebaseSpan

(* The epoch, and the time map, after rebase_epoch_if_needed. *)
Rebased(sec) == IF RebaseNeeded(sec) THEN sec - KeepSpan ELSE Lowered(sec)

(* Mutant: the keys stay as they were made. *)
RebuiltNot(sec) == by_time

Rebuilt(sec) ==
  IF RebaseNeeded(sec) THEN {TimeKey(i, Rebased(sec)) : i \in active} ELSE by_time

------------------------------------------------------------------------------
(* The operations. *)

Returns(op, m, t, r) == call' = [op |-> op, mac |-> m, time |-> t, result |-> r]

(* What every expanse_ble_tracker_record does first. *)
Hear(t) ==
  /\ Given(t, Late) /\ unwrap_mono_ms(t)
  /\ base_epoch_sec' = Rebased(mono_sec(t))
  /\ UNCHANGED now

(* Writes the slot's record and its key; old is the key it had. *)
Write(i, m, t, old) ==
  LET sec == mono_sec(t) IN
  /\ entries' = [entries EXCEPT ![i] = [mac |-> m, last_seen_ms |-> t % Wrap]]
  /\ mono_last_seen_sec' = [mono_last_seen_sec EXCEPT ![i] = sec]
  /\ at' = [at EXCEPT ![i] = t] /\ taken' = [taken EXCEPT ![i] = Taken(t)]
  /\ by_time' = (Rebuilt(sec) \ old) \cup {make_time_key(sec, Rebased(sec), i)}
  /\ Returns("record", m, Taken(t), "OK")

RecordCollides(m, t) ==
  LET i == by_mac[HashOf[m]] IN
  /\ Hear(t) /\ i # None /\ entries[i].mac # m
  /\ by_time' = Rebuilt(mono_sec(t)) /\ Returns("record", m, Taken(t), "ERR_COLLISION")
  /\ UNCHANGED <<by_mac, slab>>

RecordResighting(m, t) ==
  LET i == by_mac[HashOf[m]] IN
  /\ Hear(t) /\ i # None /\ entries[i].mac = m
  /\ Write(i, m, t, {TimeKey(i, Rebased(mono_sec(t)))})
  /\ UNCHANGED <<by_mac, active, free_indices, count>>

RecordNoRoom(m, t) ==
  /\ Hear(t) /\ by_mac[HashOf[m]] = None /\ free_indices = <<>>
  /\ by_time' = Rebuilt(mono_sec(t)) /\ Returns("record", m, Taken(t), "ERR_NOMEM")
  /\ UNCHANGED <<by_mac, slab>>

RecordNew(m, t) ==
  /\ Hear(t) /\ by_mac[HashOf[m]] = None /\ free_indices # <<>>
  /\ LET i == Last(free_indices) IN
     /\ Write(i, m, t, {})
     /\ active' = active \cup {i}
     /\ by_mac' = [by_mac EXCEPT ![HashOf[m]] = i]
  /\ free_indices' = Front(free_indices) /\ count' = count + 1

(* The hash is mapped, the slot is in use, and the address is the one asked for. *)
Found(m) ==
  LET i == by_mac[HashOf[m]] IN i # None /\ i \in active /\ entries[i].mac = m

Get(m) ==
  /\ Returns("get", m, None,
             IF Found(m) THEN entries[by_mac[HashOf[m]]].last_seen_ms ELSE None)
  /\ UNCHANGED <<by_mac, by_time, slab, clock, base_epoch_sec, now>>

RemoveFound(m) ==
  LET i == by_mac[HashOf[m]] IN
  /\ Found(m)
  /\ Returns("remove", m, None, entries[i].last_seen_ms)
  /\ by_mac' = [by_mac EXCEPT ![HashOf[m]] = None]
  /\ by_time' = by_time \ {TimeKey(i, base_epoch_sec)}
  /\ active' = active \ {i} /\ free_indices' = Append(free_indices, i) /\ count' = count - 1
  /\ at' = [at EXCEPT ![i] = None] /\ taken' = [taken EXCEPT ![i] = None]
  /\ UNCHANGED <<entries, mono_last_seen_sec, clock, base_epoch_sec, now>>

RemoveMisses(m) ==
  /\ ~ Found(m) /\ Returns("remove", m, None, None)
  /\ UNCHANGED <<by_mac, by_time, slab, clock, base_epoch_sec, now>>

(* Mutant: a slot of the cutoff's own second stays, but for the first. *)
max_time_key_first(sec) == rel_sec(sec, base_epoch_sec) * Capacity

(* The last key of the cutoff's second. *)
max_time_key(sec) == rel_sec(sec, base_epoch_sec) * Capacity + (Capacity - 1)

(* The slots of the keys up to the cutoff's, in the order of the keys, each
   released by expire_slot. *)
ExpireStale(t) ==
  LET keys == {k \in by_time : k <= max_time_key(mono_sec(t))}
      stale == {SlotOf(k) : k \in keys}
      evicted == Cardinality(keys) IN
  /\ count > 0 /\ Given(t, Ttl) /\ unwrap_mono_ms(t)
  /\ by_time' = by_time \ keys
  /\ by_mac' = [h \in Hashes |-> IF \E i \in stale : HashOf[entries[i].mac] = h
                                 THEN None ELSE by_mac[h]]
  /\ active' = active \ stale
  /\ \E order \in [1 .. evicted -> keys] :
       /\ \A p, q \in 1 .. evicted : p < q => order[p] < order[q]
       /\ free_indices' = free_indices \o [n \in 1 .. evicted |-> SlotOf(order[n])]
  /\ count' = count - evicted
  /\ Returns("expire", None, Taken(t), evicted)
  /\ at' = [i \in Slots |-> IF i \in stale THEN None ELSE at[i]]
  /\ taken' = [i \in Slots |-> IF i \in stale THEN None ELSE taken[i]]
  /\ UNCHANGED <<entries, mono_last_seen_sec, base_epoch_sec, now>>

ExpireNothing(t) ==
  /\ count = 0 /\ Given(t, Ttl) /\ Returns("expire", None, t + Wrap * slips, 0)
  /\ UNCHANGED <<by_mac, by_time, slab, clock, base_epoch_sec, now>>

Count ==
  /\ Returns("count", None, None, count)
  /\ UNCHANGED <<by_mac, by_time, slab, clock, base_epoch_sec, now>>

Record(m, t) ==
  RecordCollides(m, t) \/ RecordResighting(m, t) \/ RecordNoRoom(m, t) \/ RecordNew(m, t)

Next ==
  \/ \E m \in Macs : Get(m) \/ RemoveFound(m) \/ RemoveMisses(m) \/ \E t \in Times : Record(m, t)
  \/ \E t \in Times : ExpireStale(t) \/ ExpireNothing(t)
  \/ Count \/ Tick

Spec == Init /\ [][Next]_vars

------------------------------------------------------------------------------
(* The two maps, the slab, the free list and the count tell one story: a hash is
   mapped to the slot in use whose device has it, each slot in use has exactly
   one key, the one the code would recompute to remove it, every other slot is
   on the free list once, and count is the number in use.  Each operation
   updates them one after the other, and recomputes the key from an epoch that
   may have moved since the key was made. *)
IndexesAgree ==
  /\ \A h \in Hashes, i \in Slots : by_mac[h] = i <=> i \in active /\ HashOf[entries[i].mac] = h
  /\ by_time = {TimeKey(i, base_epoch_sec) : i \in active}
  /\ Len(free_indices) = Capacity - Cardinality(active)
  /\ {free_indices[n] : n \in DOMAIN free_indices} = Slots \ active
  /\ count = Cardinality(active)

(* unwrap_mono_ms turns the caller's clock into one that is ahead of it by exactly
   one turn for every slip: every slot in use has the second of its last sighting
   on that clock, in whatever order sightings and cutoffs came, from both sides of
   a turn too.  No turn is missed, and none is counted but for a time from before
   a turn already heard, which the code cannot tell from one of the turn to come. *)
ClockExact == \A i \in active : mono_last_seen_sec[i] = taken[i] \div Sec

(* No key in use is at the limit of the 19-bit field, where sightings of
   different seconds would get the same key and be evicted together. *)
KeysUnsaturated == \A k \in by_time : k \div Capacity < RelMax

seen == [m \in Macs |-> IF \E i \in active : entries[i].mac = m
                        THEN taken[CHOOSE i \in active : entries[i].mac = m] ELSE None]

S == INSTANCE Sightings WITH Times <- 0 .. LastTime, seen <- seen, call <- call

(* The tracker is the registry Sightings describes, on the clock of ClockExact: a
   sighting is refused exactly for a hash taken by another device or a full slab,
   get and remove answer for the device asked for with the time it was last given,
   and expire_stale evicts the devices of the second of the cutoff and of those
   before, all of them and no other, and returns how many.  So a slip is the only
   way in which it departs, within the envelope, from the caller's clock, and it
   departs by a whole turn: a cutoff that slips evicts everyone. *)
Registry == S!Spec

------------------------------------------------------------------------------
(* What the documentation says, and the code does not keep. *)

(* expire_stale evicts, by the caller's clock, "all entries whose last_seen_ms <=
   cutoff_ms", those and no other: the devices seen since the cutoff stay, on
   whichever side of a turn of the clock the two are. *)
ExpiresStale ==
  [][now' = now /\ call'.op = "expire" => active \ active' = {i \in active : at[i] <= heard'}]_vars

(* expanse_ble_tracker_count "returns the current count of active tracked
   devices". *)
CountsActive == count = Cardinality(active)
==============================================================================
