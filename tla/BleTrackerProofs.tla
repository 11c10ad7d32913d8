-------------------------- MODULE BleTrackerProofs ---------------------------
(* The tracker's indexes agree, its clock is the caller's but for a turn for  *)
(* every slip, and its keys stay below their limit, for every capacity, clock *)
(* and epoch; and it is the registry of Sightings on that clock.              *)
EXTENDS BleTracker, FiniteSetTheorems, SequenceTheorems, TLAPS

(* The types of the tracker's state and of the history beside it. *)
Types ==
  /\ by_mac \in [Hashes -> Slots \cup {None}]
  /\ entries \in [Slots -> [mac : Macs \cup {None}, last_seen_ms : Nat]]
  /\ mono_last_seen_sec \in [Slots -> Nat]
  /\ active \subseteq Slots /\ free_indices \in Seq(Slots) /\ count \in Nat
  /\ last_raw_ms \in Nat /\ mono_offset_ms \in Nat /\ base_epoch_sec \in Nat
  /\ now \in Times /\ heard \in Nat \cup {None} /\ slips \in 0 .. MaxSlips
  /\ taken \in [Slots -> Nat \cup {None}]

(* The unwrapped clock is the last time heard, split at the turn, and a turn for
   every slip; half a turn has not passed since. *)
ClockInv ==
  /\ heard = None => last_raw_ms = 0 /\ mono_offset_ms = 0 /\ now < Wrap /\ slips = 0
  /\ heard # None => /\ last_raw_ms = heard % Wrap
                     /\ mono_offset_ms + last_raw_ms = heard + Wrap * slips
                     /\ heard <= now /\ now - heard < Wrap \div 2

(* The epoch has moved only to where it leaves KeepSpan seconds behind. *)
EpochInv == base_epoch_sec = 0 \/ base_epoch_sec + KeepSpan <= (now + Wrap * slips) \div Sec

(* What a slot in use holds. *)
SlotInv ==
  \A i \in active :
    /\ entries[i].mac \in Macs /\ taken[i] \in Nat
    /\ mono_last_seen_sec[i] = taken[i] \div Sec
    /\ entries[i].last_seen_ms = taken[i] % Wrap
    /\ mono_last_seen_sec[i] - base_epoch_sec < RebaseSpan

(* No slot is on the free list twice. *)
FreeOnce ==
  \A p, q \in DOMAIN free_indices : free_indices[p] = free_indices[q] => p = q

(* A hash is mapped to the slot in use whose device has it. *)
HashesAgree ==
  \A h \in Hashes, i \in Slots : by_mac[h] = i <=> i \in active /\ HashOf[entries[i].mac] = h

(* The time map has the keys of the slots in use. *)
KeysAgree == by_time = {TimeKey(i, base_epoch_sec) : i \in active}

(* The free list has the other slots, and the count is right. *)
FreeAgree ==
  /\ Len(free_indices) = Capacity - Cardinality(active)
  /\ {free_indices[n] : n \in DOMAIN free_indices} = Slots \ active
  /\ count = Cardinality(active)

IInv ==
  /\ Types /\ ClockInv /\ EpochInv /\ SlotInv /\ FreeOnce
  /\ HashesAgree /\ KeysAgree /\ FreeAgree

------------------------------------------------------------------------------
(* Arithmetic. *)

(* A number is a multiple of c and a rest in just one way. *)
LEMMA QuotientRest ==
  ASSUME NEW c \in Nat \ {0}, NEW r \in Nat, NEW i \in 0 .. c - 1
  PROVE  (r * c + i) % c = i /\ (r * c + i) \div c = r /\ r * c + i \in Nat
<1> DEFINE k == r * c + i
<1>1. k \in Nat
  OBVIOUS
<1>2. k \div c \in Int /\ k % c \in 0 .. c - 1 /\ k = c * (k \div c) + (k % c)
  BY <1>1
<1> QED
  BY <1>1, <1>2

(* Division brings back the number. *)
LEMMA DivMod ==
  ASSUME NEW c \in Nat \ {0}, NEW n \in Nat
  PROVE  /\ n \div c \in Nat /\ n % c \in 0 .. c - 1
         /\ n = (n \div c) * c + (n % c)
<1> DEFINE d == n \div c
           m == n % c
<1>1. d \in Int /\ m \in 0 .. c - 1 /\ n = c * d + m
  OBVIOUS
<1> HIDE DEF d, m
<1>2. d >= 0
  BY <1>1
<1>3. c * d = d * c
  BY <1>1
<1>4. d \in Nat /\ m \in 0 .. c - 1 /\ n = d * c + m
  BY <1>1, <1>2, <1>3
<1> QED
  BY <1>4 DEF d, m

(* Multiplication by c keeps the order. *)
LEMMA TimesMonotone ==
  ASSUME NEW c \in Nat \ {0}, NEW a \in Int, NEW b \in Int, a <= b
  PROVE  a * c <= b * c
<1>1. (b - a) * c >= 0
  OBVIOUS
<1>2. (b - a) * c = b * c - a * c
  OBVIOUS
<1>3. a * c \in Int /\ b * c \in Int
  OBVIOUS
<1> QED
  BY <1>1, <1>2, <1>3

(* Division is the adjoint of multiplication. *)
LEMMA DivAdjoint ==
  ASSUME NEW c \in Nat \ {0}, NEW q \in Int, NEW n \in Nat
  PROVE  q <= n \div c <=> q * c <= n
<1> DEFINE d == n \div c
<1>1. d \in Nat /\ n % c \in 0 .. c - 1 /\ n = d * c + (n % c)
  BY DivMod
<1>2. CASE q <= d
  <2>1. q * c <= d * c
    BY <1>1, <1>2, TimesMonotone
  <2> QED
    BY <1>1, <1>2, <2>1
<1>3. CASE d + 1 <= q
  <2>1. (d + 1) * c <= q * c
    BY <1>1, <1>3, TimesMonotone
  <2>2. (d + 1) * c = d * c + c
    BY <1>1
  <2> QED
    BY <1>1, <1>3, <2>1, <2>2
<1> QED
  BY <1>1, <1>2, <1>3

LEMMA DivType ==
  ASSUME NEW c \in Nat \ {0}, NEW n \in Nat
  PROVE  n \div c \in Nat /\ n % c \in Nat
<1>1. n \div c \in Nat /\ n % c \in 0 .. c - 1
  BY DivMod
<1> QED
  BY <1>1

LEMMA DivMonotone ==
  ASSUME NEW c \in Nat \ {0}, NEW m \in Nat, NEW n \in Nat, m <= n
  PROVE  m \div c <= n \div c
<1>1. m \div c \in Nat /\ (m \div c) * c <= m
  BY DivMod, DivAdjoint
<1> QED
  BY <1>1, DivAdjoint

------------------------------------------------------------------------------
(* The clock. *)

(* Whole turns apart. *)
LEMMA Turns ==
  ASSUME NEW w \in Nat \ {0}, NEW p \in Nat, NEW q \in Nat, p >= q
  PROVE  /\ p * w \in Nat /\ q * w \in Nat
         /\ p * w = q * w \/ p * w = q * w + w \/ p * w >= q * w + 2 * w
<1>1. p * w \in Nat /\ q * w \in Nat
  OBVIOUS
<1>2. CASE p = q
  BY <1>1, <1>2
<1>3. CASE p = q + 1
  BY <1>1, <1>3
<1>4. CASE p >= q + 2
  <2>1. (q + 2) * w <= p * w
    BY <1>4, TimesMonotone
  <2>2. (q + 2) * w = q * w + 2 * w
    OBVIOUS
  <2> QED
    BY <1>1, <2>1, <2>2
<1> QED
  BY <1>2, <1>3, <1>4

(* Whole turns more leave the raw time as it is. *)
LEMMA SameRaw ==
  ASSUME NEW w \in Nat \ {0}, NEW t \in Nat, NEW k \in Nat
  PROVE  (t + w * k) % w = t % w
<1> DEFINE q == t \div w
           r == t % w
<1>1. q \in Nat /\ r \in 0 .. w - 1 /\ t = q * w + r
  BY DivMod
<1> HIDE DEF q, r
<1>2. t + w * k = (q + k) * w + r
  BY <1>1
<1>3. q + k \in Nat
  BY <1>1
<1>4. ((q + k) * w + r) % w = r
  BY <1>1, <1>3, QuotientRest
<1> QED
  BY <1>2, <1>4 DEF r

(* A time is taken for itself, and a turn for every slip. *)
LEMMA TakenParts ==
  ASSUME Types, NEW t \in Nat
  PROVE  /\ slips \in Nat /\ SlipsWith(t) \in Nat /\ slips <= SlipsWith(t)
         /\ Wrap * slips \in Nat /\ Wrap * SlipsWith(t) \in Nat
         /\ Wrap * slips <= Wrap * SlipsWith(t)
         /\ Taken(t) \in Nat /\ Taken(t) = t + Wrap * SlipsWith(t) /\ Taken(t) % Wrap = t % Wrap
<1>1. Wrap \in Nat \ {0} /\ slips \in Nat
  BY TrackerAssumption DEF Types
<1>2. SlipsWith(t) \in Nat /\ slips <= SlipsWith(t)
  BY <1>1 DEF SlipsWith
<1> DEFINE k == SlipsWith(t)
<1>3. k \in Nat /\ slips <= k
  BY <1>2
<1>4. Taken(t) = t + Wrap * k
  BY DEF Taken
<1> HIDE DEF k
<1>5. slips * Wrap <= k * Wrap
  BY <1>1, <1>3, TimesMonotone
<1>6. Wrap * slips = slips * Wrap /\ Wrap * k = k * Wrap /\ Wrap * slips \in Nat /\ Wrap * k \in Nat
  BY <1>1, <1>3
<1>7. (t + Wrap * k) % Wrap = t % Wrap
  BY <1>1, <1>3, SameRaw
<1>8. t + Wrap * k \in Nat
  BY <1>6
<1>9. Wrap * slips <= Wrap * k
  BY <1>5, <1>6
<1> QED
  BY <1>1, <1>3, <1>4, <1>6, <1>7, <1>8, <1>9 DEF k

(* A time that lags by less than half a turn is unwrapped to what it is taken for,
   from whichever side of a turn it comes. *)
LEMMA Unwrapped ==
  ASSUME Types, ClockInv, NEW t \in Nat, NEW lag \in Nat, lag < Wrap \div 2, Given(t, lag)
  PROVE  /\ Offset(t % Wrap) + (t % Wrap) = Taken(t)
         /\ Offset(t % Wrap) \in Nat /\ t % Wrap \in Nat
<1> DEFINE raw == t % Wrap
           turn == t \div Wrap
           turned == turn * Wrap
           half == Wrap \div 2
           slipped == Wrap * slips
<1>1. Wrap \in Nat \ {0} /\ Sec \in Nat \ {0} /\ None \notin Nat
  BY TrackerAssumption
<1>2. raw \in 0 .. Wrap - 1 /\ turn \in Nat /\ t = turned + raw
  BY <1>1, DivMod
<1>3. turned \in Nat /\ slipped \in Nat /\ slips \in Nat
  BY <1>1, <1>2, TakenParts
<1>4. half \in Nat /\ 2 * half <= Wrap /\ lag < half
  BY <1>1
<1>5. now \in Nat /\ last_raw_ms \in Nat /\ mono_offset_ms \in Nat /\ now - lag <= t /\ t <= now
  BY TrackerAssumption DEF Types, Times, Given
<1>6. Offset(raw) + raw = Taken(t)
  <2>1. CASE heard = None
    <3>1. last_raw_ms = 0 /\ mono_offset_ms = 0 /\ now < Wrap /\ slips = 0
      BY <2>1 DEF ClockInv
    <3>2. turned = 0
      <4>1. turned = 0 \/ turned >= Wrap
        BY <1>1, <1>2, Turns, 0 * Wrap = 0
      <4> HIDE DEF turned, raw, half
      <4> QED
        BY <1>1, <1>2, <1>3, <1>5, <3>1, <4>1
    <3>3. Taken(t) = t
      <4>1. Taken(t) = t + Wrap * 0
        BY <2>1, <3>1 DEF Taken, SlipsWith
      <4> QED
        BY <1>1, <4>1
    <3> HIDE DEF turned, raw, half
    <3> QED
      BY <1>2, <3>1, <3>2, <3>3 DEF Offset
  <2>2. CASE heard # None
    <3> DEFINE h == heard \div Wrap
               heardTurned == h * Wrap
    <3>1. /\ heard \in Nat /\ last_raw_ms = heard % Wrap
          /\ mono_offset_ms + last_raw_ms = heard + slipped
          /\ heard <= now /\ now - heard < half
      BY <2>2 DEF Types, ClockInv
    <3>2. last_raw_ms \in 0 .. Wrap - 1 /\ h \in Nat /\ heard = heardTurned + last_raw_ms
      BY <1>1, <3>1, DivMod
    <3>3. heardTurned \in Nat
      BY <1>1, <3>2
    <3>4. mono_offset_ms = heardTurned + slipped
      <4> HIDE DEF heardTurned, slipped, h
      <4> QED
        BY <1>3, <1>5, <3>1, <3>2, <3>3
    <3>5. CASE turn >= h
      <4>1. turned = heardTurned \/ turned = heardTurned + Wrap \/ turned >= heardTurned + 2 * Wrap
        BY <1>1, <1>2, <3>2, <3>5, Turns
      <4>2. Taken(t) = t + slipped
        <5>1. ~ (turn < h)
          BY <1>2, <3>2, <3>5
        <5> QED
          BY <5>1 DEF Taken, SlipsWith
      <4> HIDE DEF turned, heardTurned, raw, half, turn, h, slipped
      <4>3. ~ turned >= heardTurned + 2 * Wrap
        BY <1>1, <1>2, <1>3, <1>4, <1>5, <3>1, <3>2, <3>3
      <4>4. CASE turned = heardTurned
        <5>1. ~ (raw < last_raw_ms /\ last_raw_ms - raw > half)
          BY <1>1, <1>2, <1>3, <1>4, <1>5, <3>1, <3>2, <3>3, <4>4
        <5>2. Offset(raw) = mono_offset_ms
          BY <5>1 DEF Offset, half
        <5> QED
          BY <1>2, <1>3, <3>3, <3>4, <4>2, <4>4, <5>2
      <4>5. CASE turned = heardTurned + Wrap
        <5>1. raw < last_raw_ms /\ last_raw_ms - raw > half
          BY <1>1, <1>2, <1>3, <1>4, <1>5, <3>1, <3>2, <3>3, <4>5
        <5>2. last_raw_ms > 0
          BY <1>2, <3>2, <5>1
        <5>3. Offset(raw) = mono_offset_ms + Wrap
          BY <5>1, <5>2 DEF Offset, half
        <5> QED
          BY <1>1, <1>2, <1>3, <3>3, <3>4, <4>2, <4>5, <5>3
      <4> QED
        BY <4>1, <4>3, <4>4, <4>5
    <3>6. CASE turn < h
      <4>1. heardTurned = turned \/ heardTurned = turned + Wrap \/ heardTurned >= turned + 2 * Wrap
        <5>1. h >= turn
          BY <1>2, <3>2, <3>6
        <5> QED
          BY <1>1, <1>2, <3>2, <5>1, Turns
      <4>2. turned # heardTurned
        <5>1. (turn + 1) * Wrap <= h * Wrap
          <6>1. turn + 1 <= h
            BY <1>2, <3>2, <3>6
          <6> QED
            BY <1>1, <1>2, <3>2, <6>1, TimesMonotone
        <5>2. (turn + 1) * Wrap = turn * Wrap + Wrap
          BY <1>1, <1>2
        <5> QED
          BY <1>1, <1>3, <3>3, <5>1, <5>2
      <4>3. Taken(t) = t + slipped + Wrap
        <5>1. Taken(t) = t + Wrap * (slips + 1)
          BY <2>2, <3>6 DEF Taken, SlipsWith
        <5>2. Wrap * (slips + 1) = slipped + Wrap
          BY <1>1, <1>3
        <5> HIDE DEF slipped
        <5> QED
          BY <1>1, <1>3, <5>1, <5>2
      <4> HIDE DEF turned, heardTurned, raw, half, turn, h, slipped
      <4>4. heardTurned = turned + Wrap
        BY <1>1, <1>2, <1>3, <1>4, <1>5, <3>1, <3>2, <3>3, <4>1, <4>2
      <4>5. ~ (raw < last_raw_ms)
        BY <1>1, <1>2, <1>3, <1>4, <1>5, <3>1, <3>2, <3>3, <4>4
      <4>6. Offset(raw) = mono_offset_ms
        BY <4>5 DEF Offset
      <4> QED
        BY <1>1, <1>2, <1>3, <3>3, <3>4, <4>3, <4>4, <4>6
    <3> QED
      BY <1>2, <3>2, <3>5, <3>6
  <2> QED
    BY <2>1, <2>2
<1>7. Offset(raw) \in Nat
  BY <1>1, <1>5 DEF Offset
<1>8. raw \in Nat
  BY <1>2
<1> QED
  BY <1>6, <1>7, <1>8

(* The cast to 32 bits loses nothing within the envelope. *)
LEMMA SecondKept ==
  ASSUME Envelope, Types, ClockInv, NEW t \in Nat, NEW lag \in Nat, lag < Wrap \div 2, Given(t, lag),
         SlipsWith(t) <= MaxSlips
  PROVE  mono_sec(t) = Taken(t) \div Sec /\ Taken(t) \div Sec \in Nat /\ Taken(t) \in 0 .. LastTime
<1>1. /\ Wrap \in Nat \ {0} /\ Sec \in Nat \ {0} /\ SecTurn \in Nat \ {0}
      /\ MaxSlips \in Nat /\ MaxTime \in Nat /\ t <= now /\ now \in Nat /\ now <= MaxTime
  BY TrackerAssumption DEF Types, Times, Given
<1>2. /\ Taken(t) \in Nat /\ Taken(t) = t + Wrap * SlipsWith(t) /\ SlipsWith(t) \in Nat
      /\ Wrap * SlipsWith(t) \in Nat
  BY TakenParts
<1> DEFINE k == SlipsWith(t)
           u == Taken(t)
<1>3. k \in Nat /\ k <= MaxSlips /\ u \in Nat /\ u = t + Wrap * k /\ Wrap * k \in Nat
  BY <1>2
<1>4. Offset(t % Wrap) + (t % Wrap) = u
  BY Unwrapped
<1>5. mono_sec(t) = (u \div Sec) % SecTurn
  BY <1>4 DEF mono_sec
<1> HIDE DEF k, u
<1>6. k * Wrap <= MaxSlips * Wrap
  BY <1>1, <1>3, TimesMonotone
<1>7. k * Wrap = Wrap * k /\ MaxSlips * Wrap = Wrap * MaxSlips /\ Wrap * MaxSlips \in Nat
  BY <1>1, <1>3
<1>8. u <= LastTime /\ LastTime \in Nat
  BY <1>1, <1>3, <1>6, <1>7 DEF LastTime
<1>9. u \div Sec <= LastTime \div Sec
  BY <1>1, <1>3, <1>8, DivMonotone
<1>10. u \div Sec \in Nat /\ LastTime \div Sec \in Nat /\ LastTime \div Sec < SecTurn
  BY <1>1, <1>3, <1>8, DivType DEF Envelope
<1> DEFINE s == u \div Sec
<1>11. s \in Nat /\ s < SecTurn
  BY <1>1, <1>9, <1>10
<1> HIDE DEF s
<1>12. s % SecTurn = s
  BY <1>1, <1>11
<1> QED
  BY <1>3, <1>5, <1>8, <1>11, <1>12 DEF u, s

(* No time within the envelope is before the epoch. *)
LEMMA AfterEpoch ==
  ASSUME Types, EpochInv, NEW t \in Nat, NEW lag \in Nat, lag <= KeepSpan * Sec, Given(t, lag)
  PROVE  base_epoch_sec <= Taken(t) \div Sec
<1> DEFINE slipped == Wrap * slips
           u == Taken(t)
<1>1. Sec \in Nat \ {0} /\ KeepSpan \in Nat /\ base_epoch_sec \in Nat /\ now \in Nat
      /\ now - lag <= t
  BY TrackerAssumption DEF Types, Times, Given
<1>2. u \in Nat /\ slipped \in Nat /\ t + slipped <= u
  BY TakenParts
<1> HIDE DEF slipped, u
<1>3. CASE base_epoch_sec = 0
  <2>1. u \div Sec \in Nat
    BY <1>1, <1>2, DivType
  <2> QED
    BY <1>3, <2>1 DEF u
<1>4. CASE base_epoch_sec + KeepSpan <= (now + slipped) \div Sec
  <2>1. (base_epoch_sec + KeepSpan) * Sec <= now + slipped
    <3>1. now + slipped \in Nat /\ base_epoch_sec + KeepSpan \in Int
      BY <1>1, <1>2
    <3> QED
      BY <1>1, <1>4, <3>1, DivAdjoint
  <2>2. (base_epoch_sec + KeepSpan) * Sec = base_epoch_sec * Sec + KeepSpan * Sec
    BY <1>1
  <2>3. base_epoch_sec * Sec \in Nat /\ KeepSpan * Sec \in Nat
    BY <1>1
  <2>4. base_epoch_sec * Sec <= u
    BY <1>1, <1>2, <2>1, <2>2, <2>3
  <2> QED
    BY <1>1, <1>2, <2>4, DivAdjoint DEF u
<1> QED
  BY <1>3, <1>4 DEF EpochInv, slipped

(* The clock goes forward, and so does its second. *)
LEMMA LaterSecond ==
  ASSUME NEW n \in Nat, NEW m \in Nat, n <= m, NEW j \in Nat, NEW k \in Nat, j <= k
  PROVE  /\ (n + Wrap * j) \div Sec \in Nat /\ (m + Wrap * k) \div Sec \in Nat
         /\ (n + Wrap * j) \div Sec <= (m + Wrap * k) \div Sec
<1> DEFINE x == n + Wrap * j
           y == m + Wrap * k
<1>1. Wrap \in Nat \ {0} /\ Sec \in Nat \ {0}
  BY TrackerAssumption
<1>2. j * Wrap <= k * Wrap
  BY <1>1, TimesMonotone
<1>3. j * Wrap = Wrap * j /\ k * Wrap = Wrap * k /\ Wrap * j \in Nat /\ Wrap * k \in Nat
  BY <1>1
<1>4. x \in Nat /\ y \in Nat /\ x <= y
  BY <1>2, <1>3
<1> HIDE DEF x, y
<1>5. x \div Sec \in Nat /\ y \div Sec \in Nat /\ x \div Sec <= y \div Sec
  BY <1>1, <1>4, DivMonotone, DivType
<1> QED
  BY <1>5 DEF x, y

(* The clock's slips, and its going on, leave the epoch behind. *)
LEMMA EpochKept ==
  ASSUME Types, EpochInv, base_epoch_sec' = base_epoch_sec,
         now' \in Nat, now <= now', slips' \in Nat, slips <= slips'
  PROVE  EpochInv'
<1>1. KeepSpan \in Nat /\ base_epoch_sec \in Nat /\ now \in Nat /\ slips \in Nat
  BY TrackerAssumption DEF Types, Times
<1> DEFINE x == (now + Wrap * slips) \div Sec
           y == (now' + Wrap * slips') \div Sec
<1>2. x \in Nat /\ y \in Nat /\ x <= y
  BY <1>1, LaterSecond
<1>3. base_epoch_sec = 0 \/ base_epoch_sec + KeepSpan <= x
  BY DEF EpochInv
<1> HIDE DEF x, y
<1>4. base_epoch_sec' = 0 \/ base_epoch_sec' + KeepSpan <= y
  BY <1>1, <1>2, <1>3
<1> QED
  BY <1>4 DEF EpochInv, y

------------------------------------------------------------------------------
(* The keys of the time map. *)

(* A key tells its slot and its relative second. *)
LEMMA KeyParts ==
  ASSUME NEW sec \in Nat, NEW base \in Nat, NEW i \in Slots
  PROVE  /\ rel_sec(sec, base) \in Nat
         /\ make_time_key(sec, base, i) \in Nat
         /\ SlotOf(make_time_key(sec, base, i)) = i
         /\ make_time_key(sec, base, i) \div Capacity = rel_sec(sec, base)
<1>1. Capacity \in Nat \ {0} /\ RelMax \in Nat /\ i \in 0 .. Capacity - 1
  BY TrackerAssumption DEF Slots
<1>2. rel_sec(sec, base) \in Nat
  BY <1>1 DEF rel_sec
<1> QED
  BY <1>1, <1>2, QuotientRest DEF make_time_key, SlotOf

(* A key is up to the last one of a second just when its second is. *)
LEMMA KeyOrder ==
  ASSUME NEW sec \in Nat, NEW base \in Nat, NEW i \in Slots, NEW cut \in Nat
  PROVE  make_time_key(sec, base, i) <= cut * Capacity + (Capacity - 1) <=> rel_sec(sec, base) <= cut
<1> DEFINE r == rel_sec(sec, base)
<1>1. Capacity \in Nat \ {0} /\ i \in 0 .. Capacity - 1 /\ r \in Nat
  BY KeyParts, TrackerAssumption DEF Slots
<1> HIDE DEF r
<1>2. cut * Capacity \in Nat /\ r * Capacity \in Nat
  BY <1>1
<1>3. CASE r <= cut
  <2>1. r * Capacity <= cut * Capacity
    BY <1>1, <1>3, TimesMonotone
  <2>2. r * Capacity + i <= cut * Capacity + (Capacity - 1)
    BY <1>1, <1>2, <2>1
  <2> QED
    BY <1>3, <2>2 DEF make_time_key, r
<1>4. CASE cut + 1 <= r
  <2>1. (cut + 1) * Capacity <= r * Capacity
    BY <1>1, <1>4, TimesMonotone
  <2>2. (cut + 1) * Capacity = cut * Capacity + Capacity
    BY <1>1
  <2>3. ~ (r * Capacity + i <= cut * Capacity + (Capacity - 1))
    BY <1>1, <1>2, <2>1, <2>2
  <2>4. ~ (r <= cut)
    BY <1>1, <1>4
  <2> QED
    BY <2>3, <2>4 DEF make_time_key, r
<1> QED
  BY <1>1, <1>3, <1>4

(* A time heard: it is unwrapped to what it is taken for, the epoch moves only
   forward and never past it, and the time map has the keys of the new epoch. *)
LEMMA Hearing ==
  ASSUME IInv, Envelope, NEW t \in Nat, Hear(t)
  PROVE  /\ mono_sec(t) \in Nat /\ mono_sec(t) = Taken(t) \div Sec
         /\ Taken(t) \in 0 .. LastTime /\ Taken(t) % Wrap = t % Wrap /\ slips' \in 0 .. MaxSlips
         /\ last_raw_ms' \in Nat /\ mono_offset_ms' \in Nat /\ heard' \in Nat
         /\ base_epoch_sec' \in Nat /\ now' = now
         /\ ClockInv' /\ EpochInv'
         /\ base_epoch_sec' = Rebased(mono_sec(t))
         /\ base_epoch_sec <= base_epoch_sec' /\ base_epoch_sec' <= mono_sec(t)
         /\ mono_sec(t) - base_epoch_sec' < RebaseSpan
         /\ Rebuilt(mono_sec(t)) = {TimeKey(i, base_epoch_sec') : i \in active}
<1> DEFINE sec == mono_sec(t)
           u == Taken(t)
           slipped == Wrap * slips
           slipped2 == Wrap * SlipsWith(t)
<1>1. /\ Types /\ ClockInv /\ EpochInv /\ Given(t, Late) /\ now' = now /\ unwrap_mono_ms(t)
      /\ base_epoch_sec' = Rebased(sec)
  BY DEF IInv, Hear
<1>2. /\ Sec \in Nat \ {0} /\ Wrap \in Nat \ {0} /\ KeepSpan \in Nat /\ RebaseSpan \in Nat
      /\ KeepSpan < RebaseSpan /\ Late \in Nat /\ None \notin Nat /\ MaxSlips \in Nat
      /\ now \in Nat /\ base_epoch_sec \in Nat /\ now - Late <= t /\ t <= now
      /\ Late <= KeepSpan * Sec /\ Late < Wrap \div 2
  BY <1>1, TrackerAssumption DEF Types, Times, Given, Envelope
<1>3. /\ last_raw_ms' = t % Wrap /\ mono_offset_ms' = Offset(t % Wrap) /\ heard' = t
      /\ slips' = SlipsWith(t) /\ SlipsWith(t) <= MaxSlips
  BY <1>1 DEF unwrap_mono_ms
<1>4. /\ Offset(t % Wrap) + (t % Wrap) = u /\ Offset(t % Wrap) \in Nat /\ t % Wrap \in Nat
      /\ sec = u \div Sec /\ u \in 0 .. LastTime /\ sec \in Nat
  <2>1. Types /\ ClockInv /\ Given(t, Late) /\ Late \in Nat /\ Late < Wrap \div 2
    BY <1>1, <1>2
  <2>2. /\ Offset(t % Wrap) + (t % Wrap) = u /\ Offset(t % Wrap) \in Nat /\ t % Wrap \in Nat
    BY <2>1, Unwrapped
  <2>3. sec = u \div Sec /\ u \div Sec \in Nat /\ u \in 0 .. LastTime
    BY <1>3, <2>1, SecondKept
  <2> QED
    BY <2>2, <2>3
<1>5. /\ u \in Nat /\ u % Wrap = t % Wrap /\ SlipsWith(t) \in Nat /\ u = t + slipped2
      /\ slipped \in Nat /\ slipped2 \in Nat /\ slipped <= slipped2
  BY <1>1, TakenParts
<1>6. /\ sec <= (now + slipped2) \div Sec /\ (now + slipped2) \div Sec \in Nat
      /\ (now + slipped) \div Sec <= (now + slipped2) \div Sec /\ (now + slipped) \div Sec \in Nat
  <2>1. slips \in Nat /\ SlipsWith(t) \in Nat /\ slips <= SlipsWith(t)
    BY <1>1, TakenParts
  <2>2. /\ (now + slipped2) \div Sec \in Nat /\ (now + slipped) \div Sec \in Nat
        /\ (now + slipped) \div Sec <= (now + slipped2) \div Sec
    BY <1>2, <2>1, LaterSecond
  <2>3. (t + slipped2) \div Sec <= (now + slipped2) \div Sec
    BY <1>2, <2>1, LaterSecond
  <2> QED
    BY <1>4, <1>5, <2>2, <2>3
<1>7. base_epoch_sec <= sec
  <2>1. Types /\ EpochInv /\ Given(t, Late) /\ Late \in Nat /\ Late <= KeepSpan * Sec
    BY <1>1, <1>2
  <2>2. base_epoch_sec <= u \div Sec
    BY <2>1, AfterEpoch
  <2> QED
    BY <1>4, <2>2
<1>8. ClockInv'
  <2>1. mono_offset_ms' + last_raw_ms' = heard' + Wrap * slips'
    BY <1>3, <1>4, <1>5
  <2>2. heard' # None /\ last_raw_ms' = heard' % Wrap /\ heard' <= now' /\ now' - heard' < Wrap \div 2
    <3>1. Wrap \div 2 \in Nat
      BY <1>2
    <3> QED
      BY <1>1, <1>2, <1>3, <3>1
  <2> QED
    BY <2>1, <2>2 DEF ClockInv
<1>9. base_epoch_sec = 0 \/ base_epoch_sec + KeepSpan <= (now + slipped) \div Sec
  BY <1>1 DEF EpochInv
<1>10. (base_epoch_sec' = 0 \/ base_epoch_sec' + KeepSpan <= (now + slipped2) \div Sec) => EpochInv'
  BY <1>1, <1>3 DEF EpochInv
<1>11. slips' \in 0 .. MaxSlips
  BY <1>2, <1>3, <1>5
<1>12. last_raw_ms' \in Nat /\ mono_offset_ms' \in Nat /\ heard' \in Nat
  BY <1>3, <1>4
<1> HIDE DEF sec, u, slipped, slipped2
<1>13. Lowered(sec) = base_epoch_sec
  BY <1>2, <1>4, <1>7 DEF Lowered
<1>14. /\ base_epoch_sec' \in Nat
       /\ base_epoch_sec' = 0 \/ base_epoch_sec' + KeepSpan <= (now + slipped2) \div Sec
       /\ base_epoch_sec <= base_epoch_sec' /\ base_epoch_sec' <= sec
       /\ sec - base_epoch_sec' < RebaseSpan
  BY <1>1, <1>2, <1>4, <1>6, <1>7, <1>9, <1>13 DEF Rebased, RebaseNeeded
<1>15. Rebuilt(sec) = {TimeKey(i, base_epoch_sec') : i \in active}
  BY <1>1, <1>13 DEF Rebuilt, Rebased, IInv, KeysAgree
<1> QED
  BY <1>1, <1>4, <1>5, <1>8, <1>10, <1>11, <1>12, <1>14, <1>15 DEF sec, u

(* A slot's record and key are written together. *)
LEMMA Written ==
  ASSUME IInv, Envelope, NEW m \in Macs, NEW t \in Nat, NEW i \in Slots, NEW old,
         Hear(t), Write(i, m, t, old), active' = active \cup {i},
         old = {TimeKey(i, base_epoch_sec')} \/ (i \notin active /\ old = {})
  PROVE  /\ SlotInv'
         /\ by_time' = {TimeKey(j, base_epoch_sec)' : j \in active'}
         /\ entries' \in [Slots -> [mac : Macs \cup {None}, last_seen_ms : Nat]]
         /\ entries' = [entries EXCEPT ![i] = [mac |-> m, last_seen_ms |-> t % Wrap]]
         /\ mono_last_seen_sec' \in [Slots -> Nat]
         /\ taken' \in [Slots -> Nat \cup {None}] /\ taken' = [taken EXCEPT ![i] = Taken(t)]
<1> DEFINE sec == mono_sec(t)
           base == base_epoch_sec'
           u == Taken(t)
<1>1. /\ sec \in Nat /\ sec = u \div Sec /\ base \in Nat /\ base_epoch_sec <= base
      /\ u % Wrap = t % Wrap
      /\ base = Rebased(sec) /\ sec - base < RebaseSpan
      /\ Rebuilt(sec) = {TimeKey(j, base) : j \in active}
  BY Hearing
<1>2. /\ Types /\ SlotInv /\ t % Wrap \in Nat /\ RebaseSpan \in Nat /\ u \in Nat
  BY TrackerAssumption, DivType, TakenParts DEF IInv
<1> HIDE DEF sec, base, u
<1>3. /\ entries' = [entries EXCEPT ![i] = [mac |-> m, last_seen_ms |-> t % Wrap]]
      /\ mono_last_seen_sec' = [mono_last_seen_sec EXCEPT ![i] = sec]
      /\ taken' = [taken EXCEPT ![i] = u]
      /\ by_time' = (Rebuilt(sec) \ old) \cup {make_time_key(sec, base, i)}
  BY <1>1 DEF Write, sec, u
<1>4. /\ entries' \in [Slots -> [mac : Macs \cup {None}, last_seen_ms : Nat]]
      /\ mono_last_seen_sec' \in [Slots -> Nat]
      /\ taken' \in [Slots -> Nat \cup {None}]
  BY <1>1, <1>2, <1>3 DEF Types
<1>5. SlotInv'
  <2> SUFFICES ASSUME NEW j \in active'
               PROVE  /\ entries'[j].mac \in Macs /\ taken'[j] \in Nat
                      /\ mono_last_seen_sec'[j] = taken'[j] \div Sec
                      /\ entries'[j].last_seen_ms = taken'[j] % Wrap
                      /\ mono_last_seen_sec'[j] - base < RebaseSpan
    BY DEF SlotInv, base
  <2>1. CASE j = i
    BY <1>1, <1>2, <1>3, <2>1 DEF Types
  <2>2. CASE j # i
    <3>1. j \in active /\ j \in Slots
      BY <1>2, <2>2 DEF Types
    <3>2. /\ entries'[j] = entries[j] /\ taken'[j] = taken[j]
          /\ mono_last_seen_sec'[j] = mono_last_seen_sec[j]
      BY <1>2, <1>3, <2>2, <3>1 DEF Types
    <3>3. mono_last_seen_sec[j] \in Nat /\ base_epoch_sec \in Nat
          /\ mono_last_seen_sec[j] - base_epoch_sec < RebaseSpan
      BY <1>2, <3>1 DEF Types, SlotInv
    <3>4. mono_last_seen_sec[j] - base < RebaseSpan
      BY <1>1, <1>2, <3>3
    <3> QED
      BY <1>2, <3>1, <3>2, <3>4 DEF SlotInv
  <2> QED
    BY <2>1, <2>2
<1>6. by_time' = {TimeKey(j, base_epoch_sec)' : j \in active'}
  <2> DEFINE K(j) == make_time_key(mono_last_seen_sec'[j], base, j)
  <2>1. \A j \in active : j \in Slots /\ mono_last_seen_sec[j] \in Nat
    BY <1>2 DEF Types
  <2>2. \A j \in active : SlotOf(TimeKey(j, base)) = j
    BY <1>1, <2>1, KeyParts DEF TimeKey
  <2>3. \A j \in active \ {i} : K(j) = TimeKey(j, base)
    BY <1>2, <1>3, <2>1 DEF TimeKey, Types
  <2>4. K(i) = make_time_key(sec, base, i)
    BY <1>2, <1>3 DEF Types
  <2>5. Rebuilt(sec) \ old \subseteq {TimeKey(j, base) : j \in active \ {i}}
    BY <1>1 DEF base
  <2>6. {TimeKey(j, base) : j \in active \ {i}} \subseteq Rebuilt(sec) \ old
    <3>1. CASE i \notin active /\ old = {}
      BY <1>1, <3>1
    <3>2. CASE old = {TimeKey(i, base)} /\ i \in active
      BY <1>1, <2>2, <3>2
    <3>3. CASE old = {TimeKey(i, base)} /\ i \notin active
      <4>1. mono_last_seen_sec[i] \in Nat
        BY <1>2 DEF Types
      <4>2. SlotOf(TimeKey(i, base)) = i
        BY <1>1, <4>1, KeyParts DEF TimeKey
      <4> QED
        BY <1>1, <2>2, <3>3, <4>2
    <3> QED
      BY <3>1, <3>2, <3>3 DEF base
  <2> HIDE DEF K
  <2>7. by_time' = {K(j) : j \in active \cup {i}}
    BY <1>3, <2>3, <2>4, <2>5, <2>6
  <2> QED
    BY <2>7 DEF K, TimeKey, base
<1> QED
  BY <1>3, <1>4, <1>5, <1>6 DEF u

------------------------------------------------------------------------------
(* The indexes. *)

LEMMA ActiveFinite ==
  ASSUME Types
  PROVE  IsFiniteSet(Slots) /\ IsFiniteSet(active) /\ Cardinality(active) \in Nat
<1>1. IsFiniteSet(Slots)
  BY FS_Interval, TrackerAssumption DEF Slots
<1>2. IsFiniteSet(active)
  BY <1>1, FS_Subset DEF Types
<1> QED
  BY <1>1, <1>2, FS_CardinalityType

LEMMA InitIInv == Init => IInv
<1> SUFFICES ASSUME Init PROVE IInv
  OBVIOUS
<1> USE DEF Init
<1>1. /\ Capacity \in Nat \ {0} /\ Wrap \in Nat \ {0} /\ None \notin Nat
      /\ Slots = 0 .. Capacity - 1 /\ \A n \in Start : n \in 0 .. Wrap - 1
  BY TrackerAssumption DEF Slots
<1>2. free_indices \in [1 .. Capacity -> Slots] /\ \A n \in 1 .. Capacity : free_indices[n] = Capacity - n
  BY <1>1
<1>3. free_indices \in Seq(Slots) /\ Len(free_indices) = Capacity /\ DOMAIN free_indices = 1 .. Capacity
  BY <1>1, <1>2
<1>4. Types
  <2>1. now \in Times /\ slips \in 0 .. MaxSlips
    BY TrackerAssumption
  <2>2. /\ by_mac \in [Hashes -> Slots \cup {None}] /\ mono_last_seen_sec \in [Slots -> Nat]
        /\ entries \in [Slots -> [mac : Macs \cup {None}, last_seen_ms : Nat]]
        /\ taken \in [Slots -> Nat \cup {None}] /\ heard \in Nat \cup {None}
    OBVIOUS
  <2> QED
    BY <1>3, <2>1, <2>2 DEF Types
<1>5. ClockInv /\ EpochInv /\ SlotInv
  BY <1>1 DEF ClockInv, EpochInv, SlotInv
<1>6. FreeOnce
  BY <1>1, <1>2, <1>3 DEF FreeOnce
<1>7. HashesAgree
  BY <1>1 DEF HashesAgree, Slots
<1>8. KeysAgree
  BY DEF KeysAgree
<1>9. {free_indices[n] : n \in DOMAIN free_indices} = Slots
  <2>1. ASSUME NEW i \in Slots PROVE \E n \in 1 .. Capacity : free_indices[n] = i
    <3>1. Capacity - i \in 1 .. Capacity /\ free_indices[Capacity - i] = i
      BY <1>1, <1>2, <2>1
    <3> QED
      BY <3>1
  <2> QED
    BY <1>2, <1>3, <2>1
<1>10. FreeAgree
  BY <1>1, <1>3, <1>9, FS_EmptySet DEF FreeAgree
<1> QED
  BY <1>4, <1>5, <1>6, <1>7, <1>8, <1>10 DEF IInv

(* The steps that leave the tracker alone, and the clock's own. *)
LEMMA StepQuiet ==
  ASSUME IInv, UNCHANGED <<by_mac, by_time, slab, clock, base_epoch_sec, now>>
  PROVE  IInv'
<1>1. Types'
  BY DEF IInv, Types, slab, clock
<1>2. ClockInv' /\ EpochInv'
  BY DEF IInv, ClockInv, EpochInv, clock
<1>3. SlotInv' /\ HashesAgree'
  BY DEF IInv, SlotInv, HashesAgree, slab
<1>4. KeysAgree'
  BY DEF IInv, KeysAgree, TimeKey, slab
<1>5. FreeOnce' /\ FreeAgree'
  BY DEF IInv, FreeOnce, FreeAgree, slab
<1> QED
  BY <1>1, <1>2, <1>3, <1>4, <1>5 DEF IInv

LEMMA StepTick == ASSUME IInv, Tick PROVE IInv'
<1>1. /\ Types /\ ClockInv /\ EpochInv /\ SlotInv /\ FreeOnce
      /\ HashesAgree /\ KeysAgree /\ FreeAgree
      /\ UNCHANGED <<by_mac, by_time, slab, clock, base_epoch_sec>>
      /\ now \in Nat /\ now' = now + 1 /\ now' \in Times /\ now' \in Nat
      /\ slips' = slips /\ slips \in Nat /\ Sec \in Nat \ {0} /\ Wrap \in Nat \ {0}
      /\ None \notin Nat /\ KeepSpan \in Nat /\ base_epoch_sec \in Nat
      /\ IF heard = None THEN now + 1 < Wrap ELSE now + 1 - heard < Wrap \div 2
  BY TrackerAssumption DEF IInv, Tick, Types, Times, clock
<1>2. Types' /\ FreeOnce' /\ FreeAgree'
  <2>2. Types'
    BY <1>1 DEF Types, slab, clock
  <2>3. FreeOnce'
    BY <1>1 DEF FreeOnce, slab
  <2>4. FreeAgree'
    BY <1>1 DEF FreeAgree, slab
  <2> QED
    BY <2>2, <2>3, <2>4
<1>3. SlotInv' /\ HashesAgree' /\ KeysAgree'
  BY <1>1 DEF SlotInv, HashesAgree, KeysAgree, TimeKey, slab
<1>4. ClockInv'
  BY <1>1 DEF ClockInv, Types, clock
<1>5. EpochInv'
  BY <1>1, EpochKept
<1> QED
  BY <1>2, <1>3, <1>4, <1>5 DEF IInv

(* A sighting that is refused still moves the clock and the epoch. *)
LEMMA StepRefused ==
  ASSUME IInv, Envelope, NEW t \in Nat, Hear(t),
         by_time' = Rebuilt(mono_sec(t)), UNCHANGED <<by_mac, slab>>
  PROVE  IInv'
<1>1. Types /\ SlotInv /\ FreeOnce /\ HashesAgree /\ FreeAgree
  BY DEF IInv
<1>2. /\ last_raw_ms' \in Nat /\ mono_offset_ms' \in Nat /\ heard' \in Nat
      /\ slips' \in 0 .. MaxSlips /\ base_epoch_sec' \in Nat /\ now' = now /\ ClockInv' /\ EpochInv'
      /\ base_epoch_sec <= base_epoch_sec'
      /\ by_time' = {TimeKey(i, base_epoch_sec') : i \in active}
  BY Hearing
<1>3. Types'
  BY <1>1, <1>2 DEF Types, slab
<1>4. SlotInv'
  <2> SUFFICES ASSUME NEW i \in active'
               PROVE  /\ entries'[i].mac \in Macs /\ taken'[i] \in Nat
                      /\ mono_last_seen_sec'[i] = taken'[i] \div Sec
                      /\ entries'[i].last_seen_ms = taken'[i] % Wrap
                      /\ mono_last_seen_sec'[i] - base_epoch_sec' < RebaseSpan
    BY DEF SlotInv
  <2>1. /\ i \in active /\ entries' = entries /\ taken' = taken
        /\ mono_last_seen_sec' = mono_last_seen_sec /\ i \in Slots
    BY <1>1 DEF slab, Types
  <2>2. /\ entries[i].mac \in Macs /\ taken[i] \in Nat
        /\ mono_last_seen_sec[i] = taken[i] \div Sec
        /\ entries[i].last_seen_ms = taken[i] % Wrap
        /\ mono_last_seen_sec[i] - base_epoch_sec < RebaseSpan
    BY <1>1, <2>1 DEF SlotInv
  <2>3. mono_last_seen_sec[i] \in Nat /\ base_epoch_sec \in Nat /\ RebaseSpan \in Nat
    BY <1>1, <2>1, TrackerAssumption DEF Types
  <2>4. mono_last_seen_sec[i] - base_epoch_sec' < RebaseSpan
    BY <1>2, <2>2, <2>3
  <2> QED
    BY <2>1, <2>2, <2>4
<1>5. FreeOnce' /\ HashesAgree' /\ FreeAgree'
  BY <1>1 DEF FreeOnce, HashesAgree, FreeAgree, slab
<1>6. KeysAgree'
  BY <1>2 DEF KeysAgree, TimeKey, slab
<1> QED
  BY <1>2, <1>3, <1>4, <1>5, <1>6 DEF IInv

LEMMA StepResighting ==
  ASSUME IInv, Envelope, NEW m \in Macs, NEW t \in Nat, RecordResighting(m, t)
  PROVE  IInv'
<1> DEFINE i == by_mac[HashOf[m]]
<1>1. Types /\ SlotInv /\ FreeOnce /\ HashesAgree /\ FreeAgree
  BY DEF IInv
<1>2. HashOf[m] \in Hashes
  BY DEF Hashes
<1>3. /\ Hear(t) /\ i # None /\ entries[i].mac = m
      /\ Write(i, m, t, {TimeKey(i, Rebased(mono_sec(t)))})
      /\ UNCHANGED <<by_mac, active, free_indices, count>>
  BY DEF RecordResighting
<1>4. i \in Slots /\ i \in active
  BY <1>1, <1>2, <1>3 DEF Types, HashesAgree
<1> HIDE DEF i
<1>5. /\ last_raw_ms' \in Nat /\ mono_offset_ms' \in Nat /\ heard' \in Nat
      /\ slips' \in 0 .. MaxSlips /\ base_epoch_sec' \in Nat /\ now' = now /\ ClockInv' /\ EpochInv'
      /\ base_epoch_sec' = Rebased(mono_sec(t))
  BY <1>3, Hearing
<1>6. active' = active \cup {i}
  BY <1>3, <1>4
<1>7. Write(i, m, t, {TimeKey(i, base_epoch_sec')})
  BY <1>3, <1>5
<1>8. /\ SlotInv'
      /\ by_time' = {TimeKey(j, base_epoch_sec)' : j \in active'}
      /\ entries' \in [Slots -> [mac : Macs \cup {None}, last_seen_ms : Nat]]
      /\ entries' = [entries EXCEPT ![i] = [mac |-> m, last_seen_ms |-> t % Wrap]]
      /\ mono_last_seen_sec' \in [Slots -> Nat]
      /\ taken' \in [Slots -> Nat \cup {None}]
  BY <1>3, <1>4, <1>6, <1>7, Written
<1>9. Types'
  BY <1>1, <1>3, <1>5, <1>8 DEF Types
<1>10. FreeOnce' /\ FreeAgree'
  BY <1>1, <1>3 DEF FreeOnce, FreeAgree
<1>11. HashesAgree'
  <2>1. \A j \in Slots : entries'[j].mac = entries[j].mac
    BY <1>1, <1>3, <1>4, <1>8 DEF Types
  <2> QED
    BY <1>1, <1>3, <2>1 DEF HashesAgree
<1>12. KeysAgree'
  BY <1>8 DEF KeysAgree
<1> QED
  BY <1>5, <1>8, <1>9, <1>10, <1>11, <1>12 DEF IInv

LEMMA StepNew ==
  ASSUME IInv, Envelope, NEW m \in Macs, NEW t \in Nat, RecordNew(m, t)
  PROVE  IInv'
<1> DEFINE i == Last(free_indices)
           n == Len(free_indices)
<1>1. Types /\ SlotInv /\ FreeOnce /\ HashesAgree /\ FreeAgree
  BY DEF IInv
<1>2. HashOf[m] \in Hashes /\ None \notin Slots
  BY TrackerAssumption DEF Hashes, Slots
<1>3. /\ Hear(t) /\ by_mac[HashOf[m]] = None /\ free_indices # <<>>
      /\ Write(i, m, t, {}) /\ active' = active \cup {i}
      /\ by_mac' = [by_mac EXCEPT ![HashOf[m]] = i]
      /\ free_indices' = SubSeq(free_indices, 1, n - 1) /\ count' = count + 1
  BY DEF RecordNew, Front
<1>4. n \in Nat \ {0} /\ DOMAIN free_indices = 1 .. n /\ i = free_indices[n]
  BY <1>1, <1>3, EmptySeq, LenProperties DEF Types, Last
<1>n. n \in Nat \ {0}
  BY <1>4
<1>5. i \in Slots \ active
  BY <1>1, <1>4 DEF FreeAgree
<1> HIDE DEF i
<1>6. /\ last_raw_ms' \in Nat /\ mono_offset_ms' \in Nat /\ heard' \in Nat
      /\ slips' \in 0 .. MaxSlips /\ base_epoch_sec' \in Nat /\ now' = now /\ ClockInv' /\ EpochInv'
  BY <1>3, Hearing
<1>7. /\ SlotInv'
      /\ by_time' = {TimeKey(j, base_epoch_sec)' : j \in active'}
      /\ entries' \in [Slots -> [mac : Macs \cup {None}, last_seen_ms : Nat]]
      /\ entries' = [entries EXCEPT ![i] = [mac |-> m, last_seen_ms |-> t % Wrap]]
      /\ mono_last_seen_sec' \in [Slots -> Nat]
      /\ taken' \in [Slots -> Nat \cup {None}]
  BY <1>3, <1>5, Written
<1>8. /\ free_indices' \in Seq(Slots) /\ Len(free_indices') = n - 1
      /\ DOMAIN free_indices' = 1 .. n - 1
      /\ \A p \in 1 .. n - 1 : free_indices'[p] = free_indices[p]
  <2>1. free_indices \in Seq(Slots) /\ \A p \in 1 .. n - 1 : free_indices[p] \in Slots
    BY <1>1, <1>4, ElementOfSeq DEF Types
  <2>2. /\ free_indices' \in Seq(Slots) /\ Len(free_indices') = n - 1
        /\ \A p \in 1 .. n - 1 : free_indices'[p] = free_indices[p]
    <3>1. /\ SubSeq(free_indices, 1, n - 1) \in Seq(Slots)
          /\ Len(SubSeq(free_indices, 1, n - 1)) = IF 1 <= n - 1 THEN n - 1 - 1 + 1 ELSE 0
          /\ \A p \in 1 .. n - 1 - 1 + 1 :
               SubSeq(free_indices, 1, n - 1)[p] = free_indices[1 + p - 1]
      <4>1. 1 \in Int /\ n - 1 \in Int
        BY <1>4
      <4> HIDE DEF n
      <4> QED
        BY <2>1, <4>1, SubSeqProperties
    <3>2. \A p \in 1 .. n - 1 : p \in 1 .. n - 1 - 1 + 1 /\ 1 + p - 1 = p
      BY <1>4
    <3> QED
      BY <1>3, <1>4, <3>1, <3>2
  <2> QED
    BY <2>2, LenProperties
<1>9. Types'
  <2>1. by_mac' \in [Hashes -> Slots \cup {None}]
    BY <1>1, <1>3, <1>5 DEF Types
  <2>2. active' \subseteq Slots /\ count' \in Nat
    BY <1>1, <1>3, <1>5 DEF Types
  <2> QED
    BY <1>1, <1>6, <1>7, <1>8, <2>1, <2>2 DEF Types
<1>10. FreeOnce'
  <2>1. \A p \in 1 .. n - 1 : p \in DOMAIN free_indices /\ free_indices'[p] = free_indices[p]
    BY <1>4, <1>8
  <2>2. DOMAIN free_indices' = 1 .. n - 1
    BY <1>8
  <2> QED
    BY <1>1, <2>1, <2>2 DEF FreeOnce
<1>11. FreeAgree'
  <2>1. {free_indices'[p] : p \in 1 .. n - 1} = (Slots \ active) \ {i}
    <3>1. {free_indices[p] : p \in 1 .. n} = Slots \ active
      BY <1>1, <1>4 DEF FreeAgree
    <3>2. \A p \in 1 .. n - 1 : free_indices[p] # i
      <4>1. \A p, q \in 1 .. n : free_indices[p] = free_indices[q] => p = q
        BY <1>1, <1>4 DEF FreeOnce
      <4> HIDE DEF n
      <4>2. n \in 1 .. n /\ \A p \in 1 .. n - 1 : p \in 1 .. n /\ p # n
        BY <1>n
      <4> QED
        BY <1>4, <4>1, <4>2
    <3>3. \A p \in 1 .. n : p \in 1 .. n - 1 \/ p = n
      BY <1>n
    <3>4. \A p \in 1 .. n - 1 : p \in 1 .. n
      BY <1>n
    <3>5. {free_indices'[p] : p \in 1 .. n - 1} = {free_indices[p] : p \in 1 .. n - 1}
      BY <1>8
    <3> QED
      BY <1>4, <3>1, <3>2, <3>3, <3>4, <3>5
  <2>2. Cardinality(active') = Cardinality(active) + 1
    BY <1>1, <1>3, <1>5, ActiveFinite, FS_AddElement
  <2>3. Cardinality(active) \in Nat /\ Capacity \in Nat
    BY <1>1, ActiveFinite, TrackerAssumption
  <2>4. Len(free_indices') = Capacity - Cardinality(active') /\ count' = Cardinality(active')
    BY <1>1, <1>3, <1>4, <1>8, <2>2, <2>3 DEF FreeAgree
  <2>5. {free_indices'[p] : p \in DOMAIN free_indices'} = Slots \ active'
    <3>1. DOMAIN free_indices' = 1 .. n - 1
      BY <1>8
    <3>2. (Slots \ active) \ {i} = Slots \ active'
      BY <1>3
    <3> QED
      BY <2>1, <3>1, <3>2
  <2> QED
    BY <2>4, <2>5, Zenon DEF FreeAgree
<1>12. HashesAgree'
  <2> SUFFICES ASSUME NEW h \in Hashes, NEW j \in Slots
               PROVE  by_mac'[h] = j <=> j \in active' /\ HashOf[entries'[j].mac] = h
    BY DEF HashesAgree
  <2>1. by_mac[h] = j <=> j \in active /\ HashOf[entries[j].mac] = h
    BY <1>1 DEF HashesAgree
  <2>2. by_mac'[h] = IF h = HashOf[m] THEN i ELSE by_mac[h]
    BY <1>1, <1>2, <1>3 DEF Types
  <2>3. CASE j = i
    <3>1. entries'[j].mac = m
      BY <1>1, <1>7, <2>3 DEF Types
    <3> QED
      BY <1>3, <1>5, <2>1, <2>2, <2>3, <3>1
  <2>4. CASE j # i
    <3>1. entries'[j] = entries[j]
      BY <1>1, <1>7, <2>4 DEF Types
    <3> QED
      BY <1>2, <1>3, <2>1, <2>2, <2>4, <3>1
  <2> QED
    BY <2>3, <2>4
<1>13. KeysAgree'
  BY <1>7 DEF KeysAgree
<1> QED
  BY <1>6, <1>7, <1>9, <1>10, <1>11, <1>12, <1>13 DEF IInv

LEMMA StepRemove ==
  ASSUME IInv, NEW m \in Macs, RemoveFound(m)
  PROVE  IInv'
<1> DEFINE i == by_mac[HashOf[m]]
           n == Len(free_indices)
<1>1. Types /\ ClockInv /\ EpochInv /\ SlotInv /\ FreeOnce /\ HashesAgree /\ KeysAgree /\ FreeAgree
  BY DEF IInv
<1>2. HashOf[m] \in Hashes /\ None \notin Slots
  BY TrackerAssumption DEF Hashes, Slots
<1>3. /\ i # None /\ i \in active /\ entries[i].mac = m
      /\ by_mac' = [by_mac EXCEPT ![HashOf[m]] = None]
      /\ by_time' = by_time \ {TimeKey(i, base_epoch_sec)}
      /\ active' = active \ {i} /\ free_indices' = Append(free_indices, i) /\ count' = count - 1
      /\ taken' = [taken EXCEPT ![i] = None]
      /\ UNCHANGED <<entries, mono_last_seen_sec, clock, base_epoch_sec, now>>
  BY DEF RemoveFound, Found
<1>4. i \in Slots
  BY <1>1, <1>3 DEF Types
<1> HIDE DEF i
<1>5. n \in Nat /\ DOMAIN free_indices = 1 .. n
  BY <1>1, LenProperties DEF Types
<1>6. /\ free_indices' \in Seq(Slots) /\ Len(free_indices') = n + 1
      /\ DOMAIN free_indices' = 1 .. n + 1
      /\ free_indices'[n + 1] = i
      /\ \A p \in 1 .. n : free_indices'[p] = free_indices[p]
  BY <1>1, <1>3, <1>4, AppendProperties, LenProperties DEF Types
<1>7. Cardinality(active') = Cardinality(active) - 1 /\ Cardinality(active) \in Nat
      /\ Cardinality(active') \in Nat /\ Capacity \in Nat
  BY <1>1, <1>3, ActiveFinite, FS_RemoveElement, FS_CardinalityType, TrackerAssumption
<1>8. Types'
  <2>1. count' \in Nat
    BY <1>1, <1>3, <1>7 DEF FreeAgree
  <2>2. by_mac' \in [Hashes -> Slots \cup {None}] /\ taken' \in [Slots -> Nat \cup {None}]
    BY <1>1, <1>3 DEF Types
  <2> QED
    BY <1>1, <1>3, <1>6, <2>1, <2>2 DEF Types, clock
<1>9. ClockInv' /\ EpochInv'
  BY <1>1, <1>3 DEF ClockInv, EpochInv, clock
<1>10. SlotInv'
  <2>1. \A j \in active' : j \in active /\ taken'[j] = taken[j]
    BY <1>1, <1>3 DEF Types
  <2> QED
    BY <1>1, <1>3, <2>1 DEF SlotInv
<1>11. \A p \in 1 .. n : free_indices[p] \in Slots \ active
  BY <1>1, <1>5 DEF FreeAgree
<1>12. FreeOnce'
  <2>1. \A p \in 1 .. n + 1 : p \in 1 .. n \/ p = n + 1
    BY <1>5
  <2>2. \A p \in 1 .. n : free_indices[p] # i
    BY <1>3, <1>11
  <2> QED
    BY <1>1, <1>5, <1>6, <2>1, <2>2 DEF FreeOnce
<1>13. FreeAgree'
  <2>1. {free_indices'[p] : p \in 1 .. n + 1} = (Slots \ active) \cup {i}
    <3>1. {free_indices[p] : p \in 1 .. n} = Slots \ active
      BY <1>1, <1>5 DEF FreeAgree
    <3>2. \A p \in 1 .. n + 1 : p \in 1 .. n \/ p = n + 1
      BY <1>5
    <3>3. n + 1 \in 1 .. n + 1 /\ \A p \in 1 .. n : p \in 1 .. n + 1
      BY <1>5
    <3> QED
      BY <1>6, <3>1, <3>2, <3>3
  <2>2. Len(free_indices') = Capacity - Cardinality(active') /\ count' = Cardinality(active')
    BY <1>1, <1>3, <1>6, <1>7 DEF FreeAgree
  <2>3. {free_indices'[p] : p \in DOMAIN free_indices'} = Slots \ active'
    BY <1>3, <1>4, <1>6, <2>1
  <2> QED
    BY <2>2, <2>3 DEF FreeAgree
<1>14. HashesAgree'
  <2> SUFFICES ASSUME NEW h \in Hashes, NEW j \in Slots
               PROVE  by_mac'[h] = j <=> j \in active' /\ HashOf[entries'[j].mac] = h
    BY DEF HashesAgree
  <2>1. by_mac[h] = j <=> j \in active /\ HashOf[entries[j].mac] = h
    BY <1>1 DEF HashesAgree
  <2>2. by_mac'[h] = IF h = HashOf[m] THEN None ELSE by_mac[h]
    BY <1>1, <1>2, <1>3 DEF Types
  <2>3. by_mac[HashOf[m]] = i /\ entries' = entries /\ active' = active \ {i}
    BY <1>3 DEF i
  <2> QED
    BY <1>2, <1>3, <2>1, <2>2, <2>3
<1>15. KeysAgree'
  <2>1. \A j \in active : SlotOf(TimeKey(j, base_epoch_sec)) = j
    <3>1. \A j \in active : j \in Slots /\ mono_last_seen_sec[j] \in Nat /\ base_epoch_sec \in Nat
      BY <1>1 DEF Types
    <3> QED
      BY <3>1, KeyParts DEF TimeKey
  <2>2. by_time' = {TimeKey(j, base_epoch_sec) : j \in active \ {i}}
    BY <1>1, <1>3, <2>1 DEF KeysAgree
  <2> QED
    BY <1>3, <2>2 DEF KeysAgree, TimeKey
<1> QED
  BY <1>8, <1>9, <1>10, <1>12, <1>13, <1>14, <1>15 DEF IInv

------------------------------------------------------------------------------
(* Expiry. *)

(* The keys expire_stale takes out, and the slots it releases. *)
ExpiredKeys(t) == {k \in by_time : k <= max_time_key(mono_sec(t))}
ExpiredSlots(t) == {SlotOf(k) : k \in ExpiredKeys(t)}

(* They are those of the devices last seen in the cutoff's second or before. *)
LEMMA Expired ==
  ASSUME IInv, Envelope, NEW t \in Nat, Given(t, Ttl), SlipsWith(t) <= MaxSlips
  PROVE  /\ ExpiredSlots(t) = {i \in active : taken[i] \div Sec <= Taken(t) \div Sec}
         /\ ExpiredKeys(t) = {TimeKey(i, base_epoch_sec) : i \in ExpiredSlots(t)}
         /\ \A i \in active : SlotOf(TimeKey(i, base_epoch_sec)) = i
         /\ IsFiniteSet(ExpiredKeys(t)) /\ IsFiniteSet(ExpiredSlots(t))
         /\ Cardinality(ExpiredKeys(t)) = Cardinality(ExpiredSlots(t))
         /\ Offset(t % Wrap) + (t % Wrap) = Taken(t) /\ Taken(t) \in 0 .. LastTime
         /\ Offset(t % Wrap) \in Nat /\ t % Wrap \in Nat /\ Ttl < Wrap \div 2
<1> DEFINE base == base_epoch_sec
           keys == ExpiredKeys(t)
           stale == ExpiredSlots(t)
           K(i) == TimeKey(i, base)
<1>1. Types /\ ClockInv /\ EpochInv /\ SlotInv /\ KeysAgree
  BY DEF IInv
<1>2. /\ Sec \in Nat \ {0} /\ Wrap \in Nat \ {0} /\ KeepSpan \in Nat /\ Ttl \in Nat
      /\ RebaseSpan \in Nat /\ RelMax \in Nat /\ RebaseSpan <= RelMax /\ base \in Nat
  BY <1>1, TrackerAssumption DEF Types
<1>3. Ttl <= KeepSpan * Sec /\ Ttl < Wrap \div 2
  BY TrackerAssumption DEF Envelope
<1>4. /\ Offset(t % Wrap) + (t % Wrap) = Taken(t) /\ Offset(t % Wrap) \in Nat
      /\ t % Wrap \in Nat /\ mono_sec(t) = Taken(t) \div Sec /\ Taken(t) \in 0 .. LastTime
      /\ Taken(t) \div Sec \in Nat
  BY <1>1, <1>2, <1>3, Unwrapped, SecondKept
<1>5. base <= Taken(t) \div Sec
  BY <1>1, <1>2, <1>3, AfterEpoch
<1> DEFINE sec == Taken(t) \div Sec
<1>6. \A i \in active :
        /\ i \in Slots /\ mono_last_seen_sec[i] \in Nat
        /\ mono_last_seen_sec[i] = taken[i] \div Sec /\ mono_last_seen_sec[i] - base < RebaseSpan
  BY <1>1 DEF Types, SlotInv
<1> HIDE DEF sec, base
<1>7. \A i \in active : SlotOf(K(i)) = i
  BY <1>2, <1>6, KeyParts DEF TimeKey
<1>8. \A i \in active : K(i) <= max_time_key(mono_sec(t)) <=> mono_last_seen_sec[i] <= sec
  <2> SUFFICES ASSUME NEW i \in active
               PROVE  K(i) <= max_time_key(sec) <=> mono_last_seen_sec[i] <= sec
    BY <1>4 DEF sec
  <2>1. sec \in Nat /\ base <= sec
    BY <1>4, <1>5 DEF sec
  <2>2. rel_sec(sec, base) \in Nat
    BY <1>2, <2>1 DEF rel_sec
  <2>3. K(i) <= max_time_key(sec) <=> rel_sec(mono_last_seen_sec[i], base) <= rel_sec(sec, base)
    BY <1>2, <1>6, <2>2, KeyOrder DEF max_time_key, TimeKey, base
  <2>4. rel_sec(mono_last_seen_sec[i], base) <= rel_sec(sec, base) <=> mono_last_seen_sec[i] <= sec
    BY <1>2, <1>6, <2>1 DEF rel_sec
  <2> QED
    BY <2>3, <2>4
<1>9. by_time = {K(i) : i \in active}
  BY <1>1 DEF KeysAgree, base
<1> HIDE DEF K
<1>10. keys = {K(i) : i \in {j \in active : mono_last_seen_sec[j] <= sec}}
  BY <1>8, <1>9 DEF ExpiredKeys
<1>11. stale = {j \in active : mono_last_seen_sec[j] <= sec}
  BY <1>7, <1>10 DEF ExpiredSlots
<1>12. stale = {i \in active : taken[i] \div Sec <= Taken(t) \div Sec}
  BY <1>6, <1>11 DEF sec
<1>13. keys = {K(i) : i \in stale}
  BY <1>10, <1>11
<1>14. IsFiniteSet(stale)
  <2>1. stale \in SUBSET active
    BY <1>11
  <2> QED
    BY <1>1, <2>1, ActiveFinite, FS_Subset
<1>15. ExistsBijection(stale, keys)
  <2> DEFINE f == [i \in stale |-> K(i)]
  <2>1. f \in [stale -> keys]
    BY <1>13
  <2>2. \A i, j \in stale : f[i] = f[j] => i = j
    BY <1>7, <1>11
  <2>3. \A k \in keys : \E i \in stale : f[i] = k
    BY <1>13
  <2>4. f \in Bijection(stale, keys)
    BY <2>1, <2>2, <2>3 DEF Bijection, Injection, Surjection, IsInjective
  <2> QED
    BY <2>4 DEF ExistsBijection
<1>16. IsFiniteSet(keys) /\ Cardinality(keys) = Cardinality(stale)
  BY <1>14, <1>15, FS_Bijection
<1> QED
  BY <1>3, <1>4, <1>7, <1>12, <1>13, <1>14, <1>16 DEF K, base

LEMMA StepExpire ==
  ASSUME IInv, Envelope, NEW t \in Nat, ExpireStale(t)
  PROVE  IInv'
<1> DEFINE keys == ExpiredKeys(t)
           stale == ExpiredSlots(t)
           evicted == Cardinality(keys)
           n == Len(free_indices)
<1>1. Types /\ ClockInv /\ EpochInv /\ SlotInv /\ FreeOnce /\ HashesAgree /\ KeysAgree /\ FreeAgree
  BY DEF IInv
<1>2. /\ Given(t, Ttl) /\ unwrap_mono_ms(t) /\ SlipsWith(t) <= MaxSlips
      /\ by_time' = by_time \ keys
      /\ by_mac' = [h \in Hashes |-> IF \E i \in stale : HashOf[entries[i].mac] = h
                                     THEN None ELSE by_mac[h]]
      /\ active' = active \ stale
      /\ \E order \in [1 .. evicted -> keys] :
           /\ \A p, q \in 1 .. evicted : p < q => order[p] < order[q]
           /\ free_indices' = free_indices \o [p \in 1 .. evicted |-> SlotOf(order[p])]
      /\ count' = count - evicted
      /\ taken' = [i \in Slots |-> IF i \in stale THEN None ELSE taken[i]]
      /\ UNCHANGED <<entries, mono_last_seen_sec, base_epoch_sec, now>>
  BY DEF ExpireStale, ExpiredKeys, ExpiredSlots, unwrap_mono_ms
<1>3. /\ stale = {i \in active : taken[i] \div Sec <= Taken(t) \div Sec}
      /\ keys = {TimeKey(i, base_epoch_sec) : i \in stale}
      /\ \A i \in active : SlotOf(TimeKey(i, base_epoch_sec)) = i
      /\ IsFiniteSet(keys) /\ IsFiniteSet(stale) /\ Cardinality(keys) = Cardinality(stale)
      /\ Offset(t % Wrap) + (t % Wrap) = Taken(t)
      /\ Offset(t % Wrap) \in Nat /\ t % Wrap \in Nat /\ Ttl < Wrap \div 2
  BY <1>2, Expired
<1> HIDE DEF keys, stale
<1>4. None \notin Nat /\ None \notin Slots /\ Ttl \in Nat /\ Capacity \in Nat /\ Wrap \in Nat
  BY TrackerAssumption DEF Slots
<1>5. stale \subseteq active /\ active \subseteq Slots
  BY <1>1, <1>3 DEF Types
<1>6. evicted \in Nat
  BY <1>3, FS_CardinalityType
<1>7. Cardinality(active') = Cardinality(active) - evicted /\ Cardinality(active) \in Nat
      /\ Cardinality(active') \in Nat
  <2>1. active \cap stale = stale
    BY <1>5
  <2>2. IsFiniteSet(active) /\ Cardinality(active) \in Nat
    BY <1>1, ActiveFinite
  <2>3. /\ IsFiniteSet(active \ stale)
        /\ Cardinality(active \ stale) = Cardinality(active) - Cardinality(active \cap stale)
    BY <2>2, FS_Difference
  <2>4. Cardinality(active \ stale) \in Nat
    BY <2>3, FS_CardinalityType
  <2> QED
    BY <1>2, <1>3, <2>1, <2>2, <2>3, <2>4
<1> HIDE DEF evicted
<1>8. PICK order \in [1 .. evicted -> keys] :
        /\ \A p, q \in 1 .. evicted : p < q => order[p] < order[q]
        /\ free_indices' = free_indices \o [p \in 1 .. evicted |-> SlotOf(order[p])]
  BY <1>2
<1> DEFINE freed == [p \in 1 .. evicted |-> SlotOf(order[p])]
<1>9. /\ \A p \in 1 .. evicted : freed[p] \in stale
      /\ \A i \in stale : \E p \in 1 .. evicted : freed[p] = i
      /\ \A p, q \in 1 .. evicted : freed[p] = freed[q] => p = q
  <2>1. \A k \in keys : SlotOf(k) \in stale /\ k = TimeKey(SlotOf(k), base_epoch_sec)
    BY <1>3, <1>5
  <2>2. \A p, q \in 1 .. evicted : order[p] = order[q] => p = q
    <3> SUFFICES ASSUME NEW p \in 1 .. evicted, NEW q \in 1 .. evicted, order[p] = order[q], p # q
                 PROVE  FALSE
      OBVIOUS
    <3>1. \A k \in keys : k \in Nat
      <4>1. \A i \in active : i \in Slots /\ mono_last_seen_sec[i] \in Nat /\ base_epoch_sec \in Nat
        BY <1>1 DEF Types
      <4>2. \A i \in active : TimeKey(i, base_epoch_sec) \in Nat
        BY <4>1, KeyParts DEF TimeKey
      <4> QED
        BY <1>3, <1>5, <4>2
    <3>2. order[p] \in Nat /\ order[q] \in Nat
      BY <1>8, <3>1
    <3>3. p < q \/ q < p
      BY <1>6
    <3> QED
      BY <1>8, <3>2, <3>3
  <2>3. order \in Surjection(1 .. evicted, keys)
    <3>1. order \in Injection(1 .. evicted, keys)
      BY <1>8, <2>2 DEF Injection, IsInjective
    <3>2. Cardinality(1 .. evicted) = evicted /\ IsFiniteSet(1 .. evicted)
      BY <1>6, FS_Interval
    <3> QED
      BY <1>3, <3>1, <3>2, FS_Injection DEF evicted
  <2>4. \A k \in keys : \E p \in 1 .. evicted : order[p] = k
    BY <2>3 DEF Surjection
  <2>5. \A i \in stale : TimeKey(i, base_epoch_sec) \in keys /\ SlotOf(TimeKey(i, base_epoch_sec)) = i
    BY <1>3, <1>5
  <2>6. \A p \in 1 .. evicted : order[p] \in keys /\ freed[p] = SlotOf(order[p])
    BY <1>8
  <2> HIDE DEF freed
  <2> QED
    BY <2>1, <2>2, <2>4, <2>5, <2>6
<1>10. freed \in Seq(Slots) /\ Len(freed) = evicted
  <2>1. freed \in [1 .. evicted -> Slots]
    BY <1>5, <1>9
  <2> QED
    BY <1>6, <2>1
<1> HIDE DEF freed
<1>11. n \in Nat /\ DOMAIN free_indices = 1 .. n /\ free_indices \in Seq(Slots)
  BY <1>1, LenProperties DEF Types
<1>12. free_indices' = free_indices \o freed
  BY <1>8 DEF freed
<1> HIDE DEF n
<1>13. /\ free_indices' \in Seq(Slots) /\ Len(free_indices') = n + evicted
       /\ \A p \in 1 .. n + evicted :
            free_indices'[p] = IF p <= n THEN free_indices[p] ELSE freed[p - n]
  BY <1>10, <1>11, <1>12, ConcatProperties DEF n
<1>14. DOMAIN free_indices' = 1 .. n + evicted
  BY <1>13, LenProperties
<1>15. /\ last_raw_ms' = t % Wrap /\ mono_offset_ms' = Offset(t % Wrap) /\ heard' = t
       /\ slips' = SlipsWith(t) /\ slips' \in 0 .. MaxSlips
       /\ now' = now /\ now \in Nat /\ now - Ttl <= t /\ t <= now
  <2>1. SlipsWith(t) \in Nat /\ MaxSlips \in Nat
    BY <1>1, TakenParts, TrackerAssumption
  <2> QED
    BY <1>1, <1>2, <2>1, TrackerAssumption DEF unwrap_mono_ms, Given, Types, Times
<1>16. Types'
  <2>1. count' \in Nat
    BY <1>1, <1>2, <1>7 DEF FreeAgree, evicted
  <2>2. by_mac' \in [Hashes -> Slots \cup {None}]
    BY <1>1, <1>2 DEF Types
  <2>3. taken' \in [Slots -> Nat \cup {None}]
    BY <1>1, <1>2 DEF Types
  <2> QED
    BY <1>1, <1>2, <1>3, <1>13, <1>15, <2>1, <2>2, <2>3 DEF Types
<1>17. ClockInv'
  <2>1. mono_offset_ms' + last_raw_ms' = heard' + Wrap * slips'
    BY <1>1, <1>3, <1>15, TakenParts
  <2>2. heard' # None /\ last_raw_ms' = heard' % Wrap /\ heard' <= now' /\ now' - heard' < Wrap \div 2
    <3>1. Wrap \div 2 \in Nat
      BY <1>4
    <3> QED
      BY <1>3, <1>4, <1>15, <3>1
  <2> QED
    BY <2>1, <2>2 DEF ClockInv
<1>18. EpochInv'
  <2>1. slips <= slips' /\ slips' \in Nat /\ now' \in Nat /\ now <= now'
    BY <1>1, <1>15, TakenParts
  <2> QED
    BY <1>1, <1>2, <2>1, EpochKept
<1>19. SlotInv'
  <2>1. \A j \in active' : j \in active /\ taken'[j] = taken[j]
    BY <1>2, <1>5
  <2> QED
    BY <1>1, <1>2, <2>1 DEF SlotInv
<1>20. \A p \in 1 .. n + evicted :
         \/ p \in 1 .. n /\ free_indices'[p] = free_indices[p]
         \/ p - n \in 1 .. evicted /\ free_indices'[p] = freed[p - n]
  <2> TAKE p \in 1 .. n + evicted
  <2>1. n \in Nat /\ p \in Nat
    BY <1>6, <1>11
  <2>2. CASE p <= n
    <3>1. p \in 1 .. n
      BY <2>1, <2>2
    <3>2. free_indices'[p] = free_indices[p]
      BY <1>13, <2>2
    <3> QED
      BY <3>1, <3>2
  <2>3. CASE ~ (p <= n)
    <3>1. p - n \in 1 .. evicted
      BY <1>6, <2>1, <2>3
    <3>2. free_indices'[p] = freed[p - n]
      BY <1>13, <2>3
    <3> QED
      BY <3>1, <3>2
  <2> QED
    BY <2>2, <2>3
<1>21. {free_indices[p] : p \in 1 .. n} = Slots \ active
  BY <1>1, <1>11 DEF FreeAgree
<1>21a. \A p \in 1 .. n : free_indices[p] \notin active
  BY <1>21
<1>22. FreeOnce'
  <2> SUFFICES ASSUME NEW p \in 1 .. n + evicted, NEW q \in 1 .. n + evicted,
                      free_indices'[p] = free_indices'[q]
               PROVE  p = q
    BY <1>14 DEF FreeOnce
  <2>1. p \in Int /\ q \in Int /\ n \in Int
    BY <1>6, <1>11
  <2>2. CASE p \in 1 .. n /\ q \in 1 .. n
    <3>1. \A x, y \in 1 .. n : free_indices[x] = free_indices[y] => x = y
      BY <1>1, <1>11 DEF FreeOnce
    <3>2. free_indices'[p] = free_indices[p] /\ free_indices'[q] = free_indices[q]
      BY <1>13, <2>1, <2>2
    <3> QED
      BY <2>2, <3>1, <3>2
  <2>3. CASE ~ (p \in 1 .. n) /\ ~ (q \in 1 .. n)
    <3>1. p - n = q - n
      BY <1>9, <1>20, <2>3
    <3> QED
      BY <2>1, <3>1
  <2>4. CASE p \in 1 .. n /\ ~ (q \in 1 .. n)
    <3>1. free_indices'[p] \notin active /\ free_indices'[q] \in stale
      <4>1. free_indices'[p] = free_indices[p] /\ q - n \in 1 .. evicted
            /\ free_indices'[q] = freed[q - n]
        BY <1>20, <2>1, <2>4
      <4>2. free_indices[p] \notin active /\ freed[q - n] \in stale
        BY <1>9, <1>21a, <2>4, <4>1
      <4> QED
        BY <4>1, <4>2
    <3> QED
      BY <1>5, <3>1
  <2>5. CASE ~ (p \in 1 .. n) /\ q \in 1 .. n
    <3>1. free_indices'[q] \notin active /\ free_indices'[p] \in stale
      <4>1. free_indices'[q] = free_indices[q] /\ p - n \in 1 .. evicted
            /\ free_indices'[p] = freed[p - n]
        BY <1>20, <2>1, <2>5
      <4>2. free_indices[q] \notin active /\ freed[p - n] \in stale
        BY <1>9, <1>21a, <2>5, <4>1
      <4> QED
        BY <4>1, <4>2
    <3> QED
      BY <1>5, <3>1
  <2> QED
    BY <2>2, <2>3, <2>4, <2>5
<1>23. FreeAgree'
  <2>1. {free_indices'[p] : p \in 1 .. n + evicted} = (Slots \ active) \cup stale
    <3>1. \A p \in 1 .. n + evicted : free_indices'[p] \in (Slots \ active) \cup stale
      BY <1>9, <1>20, <1>21
    <3>2. \A i \in Slots \ active : \E p \in 1 .. n + evicted : free_indices'[p] = i
      <4>1. \A p \in 1 .. n : p \in 1 .. n + evicted /\ free_indices'[p] = free_indices[p]
        BY <1>6, <1>11, <1>13
      <4> QED
        BY <1>21, <4>1
    <3>3. \A i \in stale : \E p \in 1 .. n + evicted : free_indices'[p] = i
      <4>1. \A p \in 1 .. evicted : p + n \in 1 .. n + evicted /\ free_indices'[p + n] = freed[p]
        <5> SUFFICES ASSUME NEW p \in 1 .. evicted
                     PROVE  p + n \in 1 .. n + evicted /\ free_indices'[p + n] = freed[p]
          OBVIOUS
        <5> DEFINE x == p + n
        <5>1. x \in 1 .. n + evicted /\ ~ (x <= n) /\ x - n = p
          BY <1>6, <1>11
        <5> HIDE DEF x
        <5>2. free_indices'[x] = freed[x - n]
          BY <1>13, <5>1
        <5> QED
          BY <5>1, <5>2 DEF x
      <4> QED
        BY <1>9, <4>1
    <3> QED
      BY <3>1, <3>2, <3>3
  <2>2. Len(free_indices') = Capacity - Cardinality(active') /\ count' = Cardinality(active')
    <3>1. n = Capacity - Cardinality(active) /\ count = Cardinality(active)
      BY <1>1 DEF FreeAgree, n
    <3>2. count' = count - evicted
      BY <1>2 DEF evicted
    <3> QED
      BY <1>4, <1>6, <1>7, <1>13, <3>1, <3>2
  <2>3. {free_indices'[p] : p \in DOMAIN free_indices'} = Slots \ active'
    BY <1>2, <1>5, <1>14, <2>1
  <2> QED
    BY <2>2, <2>3 DEF FreeAgree
<1>24. HashesAgree'
  <2> SUFFICES ASSUME NEW h \in Hashes, NEW j \in Slots
               PROVE  by_mac'[h] = j <=> j \in active' /\ HashOf[entries[j].mac] = h
    BY <1>2 DEF HashesAgree
  <2>1. \A i \in Slots : by_mac[h] = i <=> i \in active /\ HashOf[entries[i].mac] = h
    BY <1>1 DEF HashesAgree
  <2>2. by_mac'[h] = IF \E i \in stale : HashOf[entries[i].mac] = h THEN None ELSE by_mac[h]
    BY <1>2
  <2> QED
    BY <1>2, <1>4, <1>5, <2>1, <2>2
<1>25. KeysAgree'
  <2>1. by_time \ keys = {TimeKey(i, base_epoch_sec) : i \in active \ stale}
    BY <1>1, <1>3, <1>5 DEF KeysAgree
  <2> QED
    BY <1>2, <2>1 DEF KeysAgree, TimeKey
<1> QED
  BY <1>16, <1>17, <1>18, <1>19, <1>22, <1>23, <1>24, <1>25 DEF IInv

LEMMA NextIInv == ASSUME IInv, Envelope, [Next]_vars PROVE IInv'
<1>1. \A t \in Times : t \in Nat
  BY TrackerAssumption DEF Times
<1>2. ASSUME NEW m \in Macs, Get(m) \/ RemoveMisses(m) PROVE IInv'
  BY <1>2, StepQuiet DEF Get, RemoveMisses
<1>3. ASSUME NEW m \in Macs, RemoveFound(m) PROVE IInv'
  BY <1>3, StepRemove
<1>4. ASSUME NEW m \in Macs, NEW t \in Times, RecordCollides(m, t) \/ RecordNoRoom(m, t) PROVE IInv'
  BY <1>1, <1>4, StepRefused DEF RecordCollides, RecordNoRoom
<1>5. ASSUME NEW m \in Macs, NEW t \in Times, RecordResighting(m, t) PROVE IInv'
  BY <1>1, <1>5, StepResighting
<1>6. ASSUME NEW m \in Macs, NEW t \in Times, RecordNew(m, t) PROVE IInv'
  BY <1>1, <1>6, StepNew
<1>7. ASSUME NEW t \in Times, ExpireStale(t) PROVE IInv'
  BY <1>1, <1>7, StepExpire
<1>8. ASSUME NEW t \in Times, ExpireNothing(t) PROVE IInv'
  BY <1>8, StepQuiet DEF ExpireNothing
<1>9. CASE Count
  BY <1>9, StepQuiet DEF Count
<1>10. CASE Tick
  BY <1>10, StepTick
<1>11. CASE UNCHANGED vars
  BY <1>11, StepQuiet DEF vars
<1> QED
  BY <1>2, <1>3, <1>4, <1>5, <1>6, <1>7, <1>8, <1>9, <1>10, <1>11 DEF Next, Record

------------------------------------------------------------------------------
(* The theorems.  Of the callers they ask only that a time handed in lags by no
   more than the epoch leaves behind; it may come from before a turn already
   heard. *)

LEMMA Invariance == ASSUME Envelope PROVE Spec => []IInv
BY InitIInv, NextIInv, PTL DEF Spec

(* The maps, the slab, the free list and the count of the tracker agree after
   every operation, whatever the capacity, the clock and the hash. *)
THEOREM TrackerAgrees == ASSUME Envelope PROVE Spec => []IndexesAgree
<1>1. IInv => IndexesAgree
  BY DEF IInv, IndexesAgree, HashesAgree, KeysAgree, FreeAgree
<1> QED
  BY <1>1, Invariance, PTL

(* unwrap_mono_ms gives every slot the second of its last sighting on a clock that
   is the caller's and one turn ahead for every time heard from before a turn
   already heard, however often the clock has turned and in whatever order times
   from both sides of a turn came. *)
THEOREM ClockIsExact == ASSUME Envelope PROVE Spec => []ClockExact
<1>1. IInv => ClockExact
  BY DEF IInv, SlotInv, ClockExact
<1> QED
  BY <1>1, Invariance, PTL

(* rebase_epoch_if_needed keeps every key below the limit of its field. *)
THEOREM KeysBelowLimit == ASSUME Envelope PROVE Spec => []KeysUnsaturated
<1>1. ASSUME IInv PROVE KeysUnsaturated
  <2>1. Types /\ SlotInv /\ KeysAgree
    BY <1>1 DEF IInv
  <2> SUFFICES ASSUME NEW i \in active
               PROVE  TimeKey(i, base_epoch_sec) \div Capacity < RelMax
    BY <2>1 DEF KeysUnsaturated, KeysAgree
  <2>2. /\ i \in Slots /\ mono_last_seen_sec[i] \in Nat /\ base_epoch_sec \in Nat
        /\ mono_last_seen_sec[i] - base_epoch_sec < RebaseSpan
        /\ RebaseSpan \in Nat /\ RelMax \in Nat /\ RebaseSpan <= RelMax /\ 0 < RebaseSpan
    BY <2>1, TrackerAssumption DEF Types, SlotInv
  <2>3. TimeKey(i, base_epoch_sec) \div Capacity = rel_sec(mono_last_seen_sec[i], base_epoch_sec)
    BY <2>2, KeyParts DEF TimeKey
  <2>4. rel_sec(mono_last_seen_sec[i], base_epoch_sec) < RelMax
    BY <2>2 DEF rel_sec
  <2> QED
    BY <2>3, <2>4
<1> QED
  BY <1>1, Invariance, PTL

------------------------------------------------------------------------------
(* The refinement of Sightings. *)

(* seen, as a function of the state it is read from. *)
SeenBy(act, ent, a) ==
  [m \in Macs |-> IF \E i \in act : ent[i].mac = m
                  THEN a[CHOOSE i \in act : ent[i].mac = m] ELSE None]

(* A slab has at most one slot in use for each device. *)
OnePerMac(act, ent) == \A i, j \in act : ent[i].mac = ent[j].mac => i = j

LEMMA SeenMeans ==
  ASSUME NEW act, NEW ent, NEW a, OnePerMac(act, ent)
  PROVE  /\ \A i \in act : ent[i].mac \in Macs => SeenBy(act, ent, a)[ent[i].mac] = a[i]
         /\ \A m \in Macs : ~ (\E i \in act : ent[i].mac = m) => SeenBy(act, ent, a)[m] = None
<1>1. ASSUME NEW i \in act, ent[i].mac \in Macs
      PROVE  SeenBy(act, ent, a)[ent[i].mac] = a[i]
  <2> DEFINE j == CHOOSE j \in act : ent[j].mac = ent[i].mac
  <2>1. j \in act /\ ent[j].mac = ent[i].mac
    BY <1>1
  <2>2. j = i
    BY <1>1, <2>1 DEF OnePerMac
  <2>3. SeenBy(act, ent, a)[ent[i].mac] = a[j]
    BY <1>1 DEF SeenBy
  <2> QED
    BY <2>2, <2>3
<1>2. ASSUME NEW m \in Macs, ~ (\E i \in act : ent[i].mac = m)
      PROVE  SeenBy(act, ent, a)[m] = None
  BY <1>2 DEF SeenBy
<1> QED
  BY <1>1, <1>2

LEMMA OneSlot == ASSUME IInv PROVE OnePerMac(active, entries)
<1> SUFFICES ASSUME NEW i \in active, NEW j \in active, entries[i].mac = entries[j].mac
             PROVE  i = j
  BY DEF OnePerMac
<1>1. i \in Slots /\ j \in Slots /\ entries[i].mac \in Macs
  BY DEF IInv, Types, SlotInv
<1>2. HashOf[entries[i].mac] \in Hashes
  BY <1>1 DEF Hashes
<1>3. by_mac[HashOf[entries[i].mac]] = i /\ by_mac[HashOf[entries[i].mac]] = j
  BY <1>1, <1>2 DEF IInv, HashesAgree
<1> QED
  BY <1>3

(* What seen says of the state. *)
LEMMA Seen ==
  ASSUME IInv
  PROVE  /\ seen \in [Macs -> Nat \cup {None}]
         /\ \A i \in active : /\ entries[i].mac \in Macs /\ taken[i] \in Nat /\ None \notin Nat
                              /\ seen[entries[i].mac] = taken[i]
         /\ \A m \in Macs : ~ (\E i \in active : entries[i].mac = m) => seen[m] = None
         /\ S!Tracked = {entries[i].mac : i \in active}
<1>1. seen = SeenBy(active, entries, taken)
  BY DEF seen, SeenBy
<1>2. \A i \in active : entries[i].mac \in Macs /\ taken[i] \in Nat /\ None \notin Nat
  BY TrackerAssumption DEF IInv, SlotInv
<1>3. \A i \in active : seen[entries[i].mac] = taken[i]
  BY <1>1, <1>2, OneSlot, SeenMeans
<1>4. \A m \in Macs : ~ (\E i \in active : entries[i].mac = m) => seen[m] = None
  BY <1>1, OneSlot, SeenMeans
<1>5. \A m \in Macs : seen[m] \in Nat \cup {None}
  BY <1>2, <1>3, <1>4
<1>6. seen \in [Macs -> Nat \cup {None}]
  <2>1. seen = [m \in Macs |-> seen[m]]
    BY DEF seen
  <2> QED
    BY <1>5, <2>1
<1>7. S!Tracked = {entries[i].mac : i \in active}
  BY <1>2, <1>3, <1>4 DEF S!Tracked
<1> QED
  BY <1>2, <1>3, <1>4, <1>6, <1>7

(* The devices of some slots in use are as many as the slots. *)
LEMMA SameNumber ==
  ASSUME IInv, NEW Z \in SUBSET active
  PROVE  Cardinality({entries[i].mac : i \in Z}) = Cardinality(Z)
<1> DEFINE T == {entries[i].mac : i \in Z}
           f == [i \in Z |-> entries[i].mac]
<1>1. IsFiniteSet(Z)
  BY ActiveFinite, FS_Subset DEF IInv
<1>2. \A i, j \in Z : entries[i].mac = entries[j].mac => i = j
  BY OneSlot DEF OnePerMac
<1>3. f \in Bijection(Z, T)
  BY <1>2 DEF Bijection, Injection, Surjection, IsInjective
<1>4. ExistsBijection(Z, T)
  BY <1>3 DEF ExistsBijection
<1> QED
  BY <1>1, <1>4, FS_Bijection

(* Where the map finds a device, or nothing. *)
LEMMA Lookup ==
  ASSUME IInv, NEW m \in Macs
  PROVE  /\ by_mac[HashOf[m]] = None =>
              \A i \in active : HashOf[entries[i].mac] # HashOf[m]
         /\ by_mac[HashOf[m]] # None =>
              /\ by_mac[HashOf[m]] \in active
              /\ HashOf[entries[by_mac[HashOf[m]]].mac] = HashOf[m]
              /\ \A i \in active : HashOf[entries[i].mac] = HashOf[m] => i = by_mac[HashOf[m]]
<1>1. HashOf[m] \in Hashes /\ None \notin Slots
  BY TrackerAssumption DEF Hashes, Slots
<1>2. \A i \in Slots : by_mac[HashOf[m]] = i <=> i \in active /\ HashOf[entries[i].mac] = HashOf[m]
  BY <1>1 DEF IInv, HashesAgree
<1>3. by_mac[HashOf[m]] \in Slots \cup {None} /\ active \subseteq Slots
  BY <1>1 DEF IInv, Types
<1> QED
  BY <1>1, <1>2, <1>3

(* Sightings counts as this module does. *)
LEMMA SameCardinality == \A X : S!Cardinality(X) = Cardinality(X)
BY DEF S!Cardinality, Cardinality

LEMMA SightingsQuiet ==
  ASSUME UNCHANGED <<entries, active, taken>> PROVE seen' = seen
BY DEF seen

LEMMA RefineRefused ==
  ASSUME IInv, Envelope, NEW m \in Macs, NEW t \in Times, RecordCollides(m, t) \/ RecordNoRoom(m, t)
  PROVE  S!Next
<1> DEFINE u == Taken(t)
<1>u. u \in 0 .. LastTime
  <2>1. t \in Nat
    BY TrackerAssumption DEF Times
  <2>2. Hear(t)
    BY DEF RecordCollides, RecordNoRoom
  <2> QED
    BY <2>1, <2>2, Hearing
<1> HIDE DEF u
<1>1. seen' = seen
  BY SightingsQuiet DEF RecordCollides, RecordNoRoom, slab
<1>2. CASE RecordCollides(m, t)
  <2> DEFINE i == by_mac[HashOf[m]]
  <2>1. i # None /\ entries[i].mac # m /\ Returns("record", m, u, "ERR_COLLISION")
    BY <1>2 DEF RecordCollides, u
  <2>2. i \in active /\ HashOf[entries[i].mac] = HashOf[m]
    BY <2>1, Lookup
  <2>3. entries[i].mac \in S!Tracked \ {m}
    BY <2>1, <2>2, Seen
  <2>4. S!Record(m, u)
    BY <1>1, <2>1, <2>2, <2>3 DEF S!Record, S!Returns, Returns
  <2>5. call'.op = "record" /\ call'.mac = m /\ call'.time = u
    BY <2>1 DEF Returns
  <2> QED
    BY <1>u, <2>4, <2>5 DEF S!Next
<1>3. CASE RecordNoRoom(m, t)
  <2>1. by_mac[HashOf[m]] = None /\ free_indices = <<>> /\ Returns("record", m, u, "ERR_NOMEM")
    BY <1>3 DEF RecordNoRoom, u
  <2>2. \A i \in active : HashOf[entries[i].mac] # HashOf[m]
    BY <2>1, Lookup
  <2>3. (\A n \in S!Tracked : HashOf[n] # HashOf[m]) /\ m \notin S!Tracked
    BY <2>2, Seen
  <2>4. Cardinality(S!Tracked) = Capacity
    <3>1. Cardinality(S!Tracked) = Cardinality(active)
      BY Seen, SameNumber
    <3>2. Len(free_indices) = 0 /\ Len(free_indices) = Capacity - Cardinality(active)
      BY <2>1, EmptySeq DEF IInv, FreeAgree
    <3>3. Cardinality(active) \in Nat /\ Capacity \in Nat
      BY ActiveFinite, TrackerAssumption DEF IInv
    <3> QED
      BY <3>1, <3>2, <3>3
  <2>5. S!Record(m, u)
    <3>1. ~ (\E n \in S!Tracked \ {m} : HashOf[n] = HashOf[m])
      BY <2>3
    <3>2. S!Returns("record", m, u, "ERR_NOMEM")
      BY <2>1 DEF S!Returns, Returns
    <3> QED
      BY <1>1, <2>3, <2>4, <3>1, <3>2, SameCardinality DEF S!Record
  <2>6. call'.op = "record" /\ call'.mac = m /\ call'.time = u
    BY <2>1 DEF Returns
  <2> QED
    BY <1>u, <2>5, <2>6 DEF S!Next
<1> QED
  BY <1>2, <1>3

(* A sighting that is taken changes what is known of its device alone. *)
LEMMA RefineTaken ==
  ASSUME IInv, Envelope, NEW m \in Macs, NEW t \in Times,
         RecordResighting(m, t) \/ RecordNew(m, t)
  PROVE  S!Next
<1> DEFINE u == Taken(t)
<1>1. t \in Nat /\ None \notin Nat /\ None \notin Slots
  BY TrackerAssumption DEF Times, Slots
<1>2. IInv'
  BY <1>1, StepResighting, StepNew
<1>u. u \in 0 .. LastTime /\ u \in Nat
  <2>1. Hear(t)
    BY DEF RecordResighting, RecordNew
  <2> QED
    BY <1>1, <2>1, Hearing
<1> HIDE DEF u
<1>3. PICK i \in Slots :
        /\ entries' = [entries EXCEPT ![i] = [mac |-> m, last_seen_ms |-> t % Wrap]]
        /\ taken' = [taken EXCEPT ![i] = u] /\ Returns("record", m, u, "OK")
        /\ active' = active \cup {i}
        /\ \A j \in active : HashOf[entries[j].mac] = HashOf[m] => j = i /\ entries[i].mac = m
        /\ i \notin active => Cardinality(active) < Capacity
        /\ i \in active => entries[i].mac = m
  <2>1. CASE RecordResighting(m, t)
    <3> DEFINE i == by_mac[HashOf[m]]
    <3>1. /\ i # None /\ entries[i].mac = m /\ active' = active
          /\ Write(i, m, t, {TimeKey(i, Rebased(mono_sec(t)))})
      BY <2>1 DEF RecordResighting
    <3>2. i \in active /\ \A j \in active : HashOf[entries[j].mac] = HashOf[m] => j = i
      BY <3>1, Lookup
    <3>3. i \in Slots
      BY <3>2 DEF IInv, Types
    <3> HIDE DEF i
    <3> QED
      BY <3>1, <3>2, <3>3 DEF Write, u
  <2>2. CASE RecordNew(m, t)
    <3> DEFINE i == Last(free_indices)
    <3>1. /\ by_mac[HashOf[m]] = None /\ free_indices # <<>>
          /\ Write(i, m, t, {}) /\ active' = active \cup {i}
      BY <2>2 DEF RecordNew
    <3>2. \A j \in active : HashOf[entries[j].mac] # HashOf[m]
      BY <3>1, Lookup
    <3>3. free_indices \in Seq(Slots) /\ Len(free_indices) = Capacity - Cardinality(active)
          /\ {free_indices[n] : n \in DOMAIN free_indices} = Slots \ active
      BY DEF IInv, Types, FreeAgree
    <3>4. Len(free_indices) \in Nat \ {0} /\ DOMAIN free_indices = 1 .. Len(free_indices)
      BY <3>1, <3>3, EmptySeq, LenProperties
    <3>5. Len(free_indices) \in DOMAIN free_indices
      BY <3>4
    <3>6. i \in Slots \ active
      BY <3>3, <3>5 DEF Last
    <3>7. Cardinality(active) < Capacity
      <4>1. Cardinality(active) \in Nat /\ Capacity \in Nat
        BY ActiveFinite, TrackerAssumption DEF IInv
      <4>2. Len(free_indices) \in Nat \ {0}
        BY <3>4
      <4> QED
        BY <3>3, <4>1, <4>2
    <3> HIDE DEF i
    <3> QED
      BY <3>1, <3>2, <3>6, <3>7 DEF Write, u
  <2> QED
    BY <2>1, <2>2
<1>4. \A n \in S!Tracked \ {m} : HashOf[n] # HashOf[m]
  BY <1>3, Seen
<1>5. m \in S!Tracked \/ Cardinality(S!Tracked) # Capacity
  <2>1. CASE i \in active
    BY <1>3, <2>1, Seen
  <2>2. CASE i \notin active
    <3>1. Cardinality(S!Tracked) = Cardinality(active)
      BY Seen, SameNumber
    <3>2. Cardinality(active) \in Nat /\ Capacity \in Nat /\ Cardinality(active) < Capacity
      BY <1>3, <2>2, ActiveFinite, TrackerAssumption DEF IInv
    <3> QED
      BY <3>1, <3>2
  <2> QED
    BY <2>1, <2>2
<1>6. seen' = [seen EXCEPT ![m] = u]
  <2>1. seen' = SeenBy(active', entries', taken')
    BY DEF seen, SeenBy
  <2>2. OnePerMac(active', entries')
    <3> SUFFICES ASSUME NEW x \in active', NEW y \in active', entries'[x].mac = entries'[y].mac
                 PROVE  x = y
      BY DEF OnePerMac
    <3>1. \A j \in active : j \in Slots
      BY DEF IInv, Types
    <3>2. \A j \in active \cup {i} : entries'[j].mac = IF j = i THEN m ELSE entries[j].mac
      BY <1>3, <3>1 DEF IInv, Types
    <3>3. \A j \in active : entries[j].mac = m => j = i
      BY <1>3
    <3>4. \A j, k \in active : entries[j].mac = entries[k].mac => j = k
      BY OneSlot DEF OnePerMac
    <3> QED
      BY <1>3, <3>2, <3>3, <3>4
  <2>3. /\ \A j \in active' : entries'[j].mac \in Macs => seen'[entries'[j].mac] = taken'[j]
        /\ \A n \in Macs : ~ (\E j \in active' : entries'[j].mac = n) => seen'[n] = None
    BY <2>1, <2>2, SeenMeans
  <2>4. \A j \in active : j \in Slots /\ entries[j].mac \in Macs
    BY DEF IInv, Types, SlotInv
  <2>5. i \in active' /\ entries'[i].mac = m /\ taken'[i] = u
    BY <1>3 DEF IInv, Types
  <2>6. \A j \in active \ {i} : j \in active' /\ entries'[j] = entries[j] /\ taken'[j] = taken[j]
    BY <1>3, <2>4 DEF IInv, Types
  <2>7. seen'[m] = u
    BY <2>3, <2>5
  <2>8. ASSUME NEW n \in Macs, n # m PROVE seen'[n] = seen[n]
    <3>1. CASE \E j \in active : entries[j].mac = n
      <4>1. PICK j \in active : entries[j].mac = n
        BY <3>1
      <4>2. j # i
        BY <1>3, <2>8, <4>1
      <4>3. seen[n] = taken[j]
        BY <4>1, Seen
      <4>4. seen'[n] = taken[j]
        BY <2>3, <2>6, <4>1, <4>2
      <4> QED
        BY <4>3, <4>4
    <3>2. CASE ~ (\E j \in active : entries[j].mac = n)
      <4>1. ~ (\E j \in active' : entries'[j].mac = n)
        BY <1>3, <2>5, <2>6, <2>8, <3>2
      <4> QED
        BY <2>3, <3>2, <4>1, Seen
    <3> QED
      BY <3>1, <3>2
  <2>9. seen \in [Macs -> Nat \cup {None}]
    BY Seen
  <2>10. seen' = [n \in Macs |-> seen'[n]]
    BY DEF seen
  <2>11. seen' = [n \in Macs |-> IF n = m THEN u ELSE seen[n]]
    BY <2>7, <2>8, <2>10
  <2> QED
    BY <2>9, <2>11
<1>7. S!Record(m, u)
  <2>1. ~ (\E n \in S!Tracked \ {m} : HashOf[n] = HashOf[m])
    BY <1>4
  <2>2. ~ (m \notin S!Tracked /\ Cardinality(S!Tracked) = Capacity)
    BY <1>5
  <2>3. S!Returns("record", m, u, "OK")
    BY <1>3 DEF S!Returns, Returns
  <2> QED
    BY <1>6, <2>1, <2>2, <2>3, SameCardinality DEF S!Record
<1>8. call'.op = "record" /\ call'.mac = m /\ call'.time = u
  BY <1>3 DEF Returns
<1> QED
  BY <1>u, <1>7, <1>8 DEF S!Next

(* get and remove answer for the device asked for, with its last sighting. *)
LEMMA FoundMeans ==
  ASSUME IInv, NEW m \in Macs
  PROVE  IF Found(m)
         THEN /\ by_mac[HashOf[m]] \in active /\ entries[by_mac[HashOf[m]]].mac = m
              /\ S!LastSeen(m) = entries[by_mac[HashOf[m]]].last_seen_ms
         ELSE seen[m] = None /\ S!LastSeen(m) = None
<1> DEFINE i == by_mac[HashOf[m]]
<1>1. CASE Found(m)
  <2>1. i \in active /\ entries[i].mac = m
    BY <1>1 DEF Found
  <2>2. seen[m] = taken[i] /\ taken[i] \in Nat /\ None \notin Nat
    BY <2>1, Seen
  <2>3. entries[i].last_seen_ms = taken[i] % Wrap
    BY <2>1 DEF IInv, SlotInv
  <2>4. S!LastSeen(m) = entries[i].last_seen_ms
    BY <2>2, <2>3 DEF S!LastSeen
  <2> QED
    BY <1>1, <2>1, <2>4
<1>2. CASE ~ Found(m)
  <2>1. ~ (\E j \in active : entries[j].mac = m)
    BY <1>2, Lookup DEF Found
  <2>2. seen[m] = None
    BY <2>1, Seen
  <2> QED
    BY <1>2, <2>2 DEF S!LastSeen
<1> QED
  BY <1>1, <1>2

LEMMA RefineGet == ASSUME IInv, NEW m \in Macs, Get(m) PROVE S!Next
<1>1. seen' = seen
  BY SightingsQuiet DEF Get, slab
<1>2. call' = [op |-> "get", mac |-> m, time |-> None, result |-> S!LastSeen(m)]
  BY FoundMeans DEF Get, Returns
<1>3. S!Get(m) /\ call'.op = "get" /\ call'.mac = m
  BY <1>1, <1>2 DEF S!Get, S!Returns
<1> QED
  BY <1>3 DEF S!Next

LEMMA RefineRemove ==
  ASSUME IInv, NEW m \in Macs, RemoveFound(m) \/ RemoveMisses(m) PROVE S!Next
<1>1. seen \in [Macs -> Nat \cup {None}]
  BY Seen
<1>2. CASE RemoveMisses(m)
  <2>1. seen' = seen
    BY <1>2, SightingsQuiet DEF RemoveMisses, slab
  <2>2. seen[m] = None /\ call' = [op |-> "remove", mac |-> m, time |-> None, result |-> S!LastSeen(m)]
    BY <1>2, FoundMeans DEF RemoveMisses, Returns
  <2>3. seen' = [seen EXCEPT ![m] = None]
    BY <1>1, <2>1, <2>2
  <2>4. S!Remove(m) /\ call'.op = "remove" /\ call'.mac = m
    BY <2>2, <2>3 DEF S!Remove, S!Returns
  <2> QED
    BY <2>4 DEF S!Next
<1>3. CASE RemoveFound(m)
  <2> DEFINE i == by_mac[HashOf[m]]
  <2>1. /\ Found(m) /\ active' = active \ {i} /\ taken' = [taken EXCEPT ![i] = None] /\ entries' = entries
        /\ call' = [op |-> "remove", mac |-> m, time |-> None, result |-> entries[i].last_seen_ms]
    BY <1>3 DEF RemoveFound, Returns
  <2>2. i \in active /\ entries[i].mac = m /\ S!LastSeen(m) = entries[i].last_seen_ms
    BY <2>1, FoundMeans
  <2>3. OnePerMac(active, entries)
    BY OneSlot
  <2> HIDE DEF i
  <2>4. OnePerMac(active', entries')
    BY <2>1, <2>3 DEF OnePerMac
  <2>5. seen' = SeenBy(active', entries', taken')
    BY DEF seen, SeenBy
  <2>6. /\ \A j \in active' : entries'[j].mac \in Macs => seen'[entries'[j].mac] = taken'[j]
        /\ \A n \in Macs : ~ (\E j \in active' : entries'[j].mac = n) => seen'[n] = None
    BY <2>4, <2>5, SeenMeans
  <2>7. \A j \in active \ {i} : entries[j].mac # m /\ entries[j].mac \in Macs /\ taken'[j] = taken[j]
    BY <2>1, <2>2, <2>3 DEF OnePerMac, IInv, Types, SlotInv
  <2>8. seen'[m] = None
    BY <2>1, <2>6, <2>7
  <2>9. ASSUME NEW n \in Macs, n # m PROVE seen'[n] = seen[n]
    <3>1. CASE \E j \in active : entries[j].mac = n
      <4>1. PICK j \in active : entries[j].mac = n
        BY <3>1
      <4>2. j \in active \ {i}
        BY <2>2, <2>9, <4>1
      <4>3. seen[n] = taken[j]
        BY <4>1, Seen
      <4>4. seen'[n] = taken[j]
        BY <2>1, <2>6, <2>7, <4>1, <4>2
      <4> QED
        BY <4>3, <4>4
    <3>2. CASE ~ (\E j \in active : entries[j].mac = n)
      <4>1. ~ (\E j \in active' : entries'[j].mac = n)
        BY <2>1, <3>2
      <4> QED
        BY <2>6, <3>2, <4>1, Seen
    <3> QED
      BY <3>1, <3>2
  <2>10. seen' = [n \in Macs |-> seen'[n]]
    BY DEF seen
  <2>11. seen' = [n \in Macs |-> IF n = m THEN None ELSE seen[n]]
    BY <2>8, <2>9, <2>10
  <2>12. seen' = [seen EXCEPT ![m] = None]
    BY <1>1, <2>11
  <2>13. S!Remove(m) /\ call'.op = "remove" /\ call'.mac = m
    BY <2>1, <2>2, <2>12 DEF S!Remove, S!Returns
  <2> QED
    BY <2>13 DEF S!Next
<1> QED
  BY <1>2, <1>3

(* expire_stale forgets the devices of the cutoff's second and before. *)
LEMMA RefineExpire ==
  ASSUME IInv, Envelope, NEW t \in Times, ExpireStale(t) PROVE S!Next
<1> DEFINE u == Taken(t)
           stale == ExpiredSlots(t)
           gone == {m \in S!Tracked : seen[m] \div Sec <= u \div Sec}
<1>1. t \in Nat
  BY TrackerAssumption DEF Times
<1>2. /\ Given(t, Ttl) /\ SlipsWith(t) <= MaxSlips
      /\ active' = active \ stale /\ entries' = entries
      /\ taken' = [i \in Slots |-> IF i \in stale THEN None ELSE taken[i]]
      /\ call' = [op |-> "expire", mac |-> None, time |-> u, result |-> Cardinality(ExpiredKeys(t))]
  BY DEF ExpireStale, ExpiredKeys, ExpiredSlots, Returns, unwrap_mono_ms
<1>3. /\ stale = {i \in active : taken[i] \div Sec <= u \div Sec} /\ u \in 0 .. LastTime
      /\ Cardinality(ExpiredKeys(t)) = Cardinality(stale)
  BY <1>1, <1>2, Expired
<1> HIDE DEF stale, u
<1>4. OnePerMac(active, entries)
  BY OneSlot
<1>5. \A i \in active : entries[i].mac \in Macs /\ seen[entries[i].mac] = taken[i]
  BY Seen
<1>6. gone = {entries[i].mac : i \in stale}
  BY <1>3, <1>5, Seen
<1>7. Cardinality(gone) = Cardinality(stale)
  <2>1. stale \in SUBSET active
    BY <1>3
  <2> QED
    BY <1>6, <2>1, SameNumber
<1>8. seen' = [m \in Macs |-> IF m \in gone THEN None ELSE seen[m]]
  <2>1. OnePerMac(active', entries')
    BY <1>2, <1>4 DEF OnePerMac
  <2>2. seen' = SeenBy(active', entries', taken')
    BY DEF seen, SeenBy
  <2>3. /\ \A j \in active' : entries'[j].mac \in Macs => seen'[entries'[j].mac] = taken'[j]
        /\ \A n \in Macs : ~ (\E j \in active' : entries'[j].mac = n) => seen'[n] = None
    BY <2>1, <2>2, SeenMeans
  <2>4. \A j \in active \ stale : taken'[j] = taken[j]
    BY <1>2 DEF IInv, Types
  <2> HIDE DEF gone
  <2>5. ASSUME NEW m \in Macs PROVE seen'[m] = IF m \in gone THEN None ELSE seen[m]
    <3>1. CASE \E j \in active : entries[j].mac = m
      <4>1. PICK j \in active : entries[j].mac = m
        BY <3>1
      <4>2. seen[m] = taken[j] /\ m \in Macs
        BY <1>5, <4>1
      <4>3. m \in gone <=> j \in stale
        BY <1>3, <1>4, <1>6, <4>1 DEF OnePerMac
      <4>4. CASE j \in stale
        <5>1. ~ (\E k \in active' : entries'[k].mac = m)
          BY <1>2, <1>4, <4>1, <4>4 DEF OnePerMac
        <5> QED
          BY <2>3, <4>3, <4>4, <5>1
      <4>5. CASE j \notin stale
        BY <1>2, <2>3, <2>4, <4>1, <4>2, <4>3, <4>5
      <4> QED
        BY <4>4, <4>5
    <3>2. CASE ~ (\E j \in active : entries[j].mac = m)
      <4>1. ~ (\E j \in active' : entries'[j].mac = m)
        BY <1>2, <3>2
      <4>2. seen[m] = None
        BY <3>2, Seen
      <4> QED
        BY <2>3, <4>1, <4>2
    <3> QED
      BY <3>1, <3>2
  <2>6. seen' = [m \in Macs |-> seen'[m]]
    BY DEF seen
  <2> QED
    BY <2>5, <2>6
<1>9. S!Expire(u) /\ call'.op = "expire" /\ call'.time = u
  BY <1>2, <1>3, <1>7, <1>8, SameCardinality DEF S!Expire, S!Returns
<1> QED
  BY <1>3, <1>9 DEF S!Next

LEMMA RefineExpireNothing == ASSUME IInv, NEW t \in Times, ExpireNothing(t) PROVE S!Next
<1> DEFINE u == t + Wrap * slips
<1>u. u \in 0 .. LastTime
  <2>1. /\ t \in Nat /\ t <= MaxTime /\ Wrap \in Nat \ {0} /\ MaxTime \in Nat
        /\ slips \in Nat /\ slips <= MaxSlips /\ MaxSlips \in Nat
    BY TrackerAssumption DEF Times, IInv, Types
  <2>2. slips * Wrap <= MaxSlips * Wrap
    BY <2>1, TimesMonotone
  <2>3. slips * Wrap = Wrap * slips /\ MaxSlips * Wrap = Wrap * MaxSlips
        /\ Wrap * slips \in Nat /\ Wrap * MaxSlips \in Nat
    BY <2>1
  <2> QED
    BY <2>1, <2>2, <2>3 DEF LastTime
<1>1. seen' = seen
  BY SightingsQuiet DEF ExpireNothing, slab
<1>2. call' = [op |-> "expire", mac |-> None, time |-> u, result |-> 0] /\ count = 0
  BY DEF ExpireNothing, Returns
<1> HIDE DEF u
<1>3. active = {}
  BY <1>2, ActiveFinite, FS_EmptySet DEF IInv, FreeAgree
<1>4. S!Tracked = {} /\ seen \in [Macs -> Nat \cup {None}]
  BY <1>3, Seen
<1>5. {m \in S!Tracked : seen[m] \div Sec <= u \div Sec} = {}
  BY <1>4
<1>6. seen' = [m \in Macs |-> IF m \in {} THEN None ELSE seen[m]]
  BY <1>1, <1>4
<1>7. S!Expire(u) /\ call'.op = "expire" /\ call'.time = u
  BY <1>2, <1>5, <1>6, FS_EmptySet, SameCardinality DEF S!Expire, S!Returns
<1> QED
  BY <1>u, <1>7 DEF S!Next

LEMMA RefineCount == ASSUME IInv, Count PROVE S!Next
<1>1. seen' = seen
  BY SightingsQuiet DEF Count, slab
<1>2. Cardinality(S!Tracked) = count
  BY Seen, SameNumber DEF IInv, FreeAgree
<1>3. S!Count /\ call'.op = "count"
  BY <1>1, <1>2, SameCardinality DEF Count, Returns, S!Count, S!Returns
<1> QED
  BY <1>3 DEF S!Next

(* The tracker is the registry Sightings describes, on the clock of ClockIsExact:
   what record, get, remove, expire_stale and count answer, and whom expire_stale
   evicts, by the second, depends only on when each device was last seen on that
   clock.  The epoch, the rebuilt keys and the slots never show. *)
THEOREM TrackerIsRegistry == ASSUME Envelope PROVE Spec => Registry
<1>1. Init => S!Init
  <2> SUFFICES ASSUME Init PROVE S!Init
    OBVIOUS
  <2>1. seen = [m \in Macs |-> None] /\ call = NoCall
    BY DEF Init, seen
  <2> QED
    BY <2>1 DEF S!Init, S!NoCall, NoCall
<1>2. IInv /\ [Next]_vars => [S!Next]_(S!vars)
  <2> SUFFICES ASSUME IInv, [Next]_vars PROVE S!Next \/ UNCHANGED S!vars
    OBVIOUS
  <2>1. ASSUME NEW m \in Macs, NEW t \in Times, Record(m, t) PROVE S!Next
    BY <2>1, RefineRefused, RefineTaken DEF Record
  <2>2. ASSUME NEW m \in Macs, Get(m) PROVE S!Next
    BY <2>2, RefineGet
  <2>3. ASSUME NEW m \in Macs, RemoveFound(m) \/ RemoveMisses(m) PROVE S!Next
    BY <2>3, RefineRemove
  <2>4. ASSUME NEW t \in Times, ExpireStale(t) PROVE S!Next
    BY <2>4, RefineExpire
  <2>5. ASSUME NEW t \in Times, ExpireNothing(t) PROVE S!Next
    BY <2>5, RefineExpireNothing
  <2>6. CASE Count
    BY <2>6, RefineCount
  <2>7. CASE Tick \/ UNCHANGED vars
    <3>1. UNCHANGED <<entries, active, taken>> /\ call' = call
      BY <2>7 DEF Tick, vars, slab
    <3> QED
      BY <3>1, SightingsQuiet DEF S!vars
  <2> QED
    BY <2>1, <2>2, <2>3, <2>4, <2>5, <2>6, <2>7 DEF Next
<1> QED
  BY <1>1, <1>2, Invariance, PTL DEF Spec, Registry, S!Spec
==============================================================================
