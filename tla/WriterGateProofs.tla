--------------------------- MODULE WriterGateProofs --------------------------
(* Proofs about WriterGate, for any finite set of threads, any number of      *)
(* slots and any token function.                                              *)
EXTENDS WriterGate, FiniteSetTheorems, TLAPS

(* The writers whose increment stands on slot s. *)
Inside(s) == {u \in Threads : slot[u] = s /\ gpc[u] \in Counted}

(* in_flight is a count: writers that share a slot are all in it. *)
CountInv == \A s \in Slots : inflight[s] = Cardinality(Inside(s))

(* A cached slot is one the mask names, and a writer past the first check has one. *)
SlotInv ==
  \A u \in Threads : /\ slot[u] # NoSlot => slot[u] \in allocated
                     /\ gpc[u] \in {"announce", "recheck", "in"} => slot[u] # NoSlot

(* One thread at a time is between locking and unlocking fallback_mutex, and
   the gate is closed while that thread is in its section. *)
LockInv == \A t \in Threads : gpc[t] \in Serial <=> fallback = t
GateInv == closed <=> \E t \in Threads : gpc[t] \in Quiescing

(* A writer still admitted is on a slot the quiescing thread has yet to drain. *)
DrainInv ==
  /\ \A t, u \in Threads : gpc[t] = "drain" /\ gpc[u] = "in" => slot[u] \in todo[t]
  /\ \A t, u \in Threads : gpc[t] = "excl" => gpc[u] # "in"

IInv == TypeOK /\ CountInv /\ SlotInv /\ LockInv /\ GateInv /\ DrainInv

USE SlotsAssumption, NoneAssumption

------------------------------------------------------------------------------
(* A slot that reads zero has nobody inside. *)
LEMMA ZeroIsEmpty ==
  ASSUME IInv, NEW s \in Slots, inflight[s] = 0
  PROVE  \A u \in Threads : ~(slot[u] = s /\ gpc[u] \in Counted)
<1>1. IsFiniteSet(Inside(s))
  BY ThreadsAssumption, FS_Subset DEF Inside
<1>2. Cardinality(Inside(s)) = 0
  BY DEF IInv, CountInv
<1>3. Inside(s) = {}
  BY <1>1, <1>2, FS_EmptySet
<1> QED BY <1>3 DEF Inside

(* The counters of a step that changes neither them nor who is inside. *)
LEMMA CountSame ==
  ASSUME IInv, inflight' = inflight,
         \A u \in Threads : (gpc'[u] \in Counted <=> gpc[u] \in Counted)
                            /\ (gpc[u] \in Counted => slot'[u] = slot[u])
  PROVE  CountInv'
<1> SUFFICES ASSUME NEW s \in Slots
             PROVE  inflight'[s] = Cardinality(Inside(s)')
  BY DEF CountInv
<1>1. Inside(s)' = Inside(s)
  BY DEF Inside
<1> QED BY <1>1 DEF IInv, CountInv

(* A fetch_add by a writer that joins its slot keeps the count exact. *)
LEMMA CountUp ==
  ASSUME IInv, NEW t \in Threads, slot[t] \in Slots, gpc[t] \notin Counted,
         slot' = slot, gpc' = [gpc EXCEPT ![t] = "recheck"],
         inflight' = [inflight EXCEPT ![slot[t]] = @ + 1]
  PROVE  CountInv' /\ inflight' \in [Slots -> Nat]
<1> SUFFICES ASSUME NEW s \in Slots
             PROVE  inflight'[s] = Cardinality(Inside(s)')
  BY DEF IInv, TypeOK, CountInv
<1>1. IsFiniteSet(Inside(s))
  BY ThreadsAssumption, FS_Subset DEF Inside
<1>2. CASE s = slot[t]
  <2>1. Inside(s)' = Inside(s) \cup {t}
    BY <1>2 DEF Inside, Counted, IInv, TypeOK
  <2>2. t \notin Inside(s)
    BY DEF Inside
  <2>3. Cardinality(Inside(s) \cup {t}) = Cardinality(Inside(s)) + 1
    BY <1>1, <2>2, FS_AddElement
  <2>4. inflight'[s] = inflight[s] + 1 /\ inflight[s] = Cardinality(Inside(s))
    BY <1>2 DEF IInv, CountInv, TypeOK
  <2> QED BY <2>1, <2>3, <2>4
<1>3. CASE s # slot[t]
  <2>1. Inside(s)' = Inside(s)
    BY <1>3 DEF Inside, Counted, IInv, TypeOK
  <2>2. inflight'[s] = inflight[s] /\ inflight[s] = Cardinality(Inside(s))
    BY <1>3 DEF IInv, CountInv, TypeOK
  <2> QED BY <2>1, <2>2
<1> QED BY <1>2, <1>3

(* A fetch_sub by a writer that is inside keeps it exact, and never underflows. *)
LEMMA CountDown ==
  ASSUME IInv, NEW t \in Threads, NEW to, to \notin Counted, gpc[t] \in Counted,
         slot[t] \in Slots, slot' = slot, gpc' = [gpc EXCEPT ![t] = to],
         inflight' = [inflight EXCEPT ![slot[t]] = @ - 1]
  PROVE  CountInv' /\ inflight' \in [Slots -> Nat]
<1>0. \A s \in Slots : IsFiniteSet(Inside(s)) /\ inflight[s] = Cardinality(Inside(s))
  BY ThreadsAssumption, FS_Subset DEF Inside, IInv, CountInv
<1>1. t \in Inside(slot[t])
  BY DEF Inside
<1>2. Cardinality(Inside(slot[t])) # 0
  BY <1>0, <1>1, FS_EmptySet
<1>3. inflight' \in [Slots -> Nat]
  BY <1>0, <1>2 DEF IInv, TypeOK
<1>4. ASSUME NEW s \in Slots PROVE inflight'[s] = Cardinality(Inside(s)')
  <2>1. CASE s = slot[t]
    <3>1. Inside(s)' = Inside(s) \ {t}
      BY <2>1 DEF Inside, IInv, TypeOK
    <3>2. Cardinality(Inside(s) \ {t}) = Cardinality(Inside(s)) - 1
      BY <1>0, <1>1, <2>1, FS_RemoveElement
    <3>3. inflight'[s] = inflight[s] - 1
      BY <2>1 DEF IInv, TypeOK
    <3> QED BY <1>0, <3>1, <3>2, <3>3
  <2>2. CASE s # slot[t]
    <3>1. Inside(s)' = Inside(s)
      BY <2>2 DEF Inside, IInv, TypeOK
    <3>2. inflight'[s] = inflight[s]
      BY <2>2 DEF IInv, TypeOK
    <3> QED BY <1>0, <3>1, <3>2
  <2> QED BY <2>1, <2>2
<1> QED BY <1>3, <1>4 DEF CountInv

------------------------------------------------------------------------------
(* An open gate with nobody in flight. *)
LEMMA InitInv == Init => IInv
<1> SUFFICES ASSUME Init PROVE IInv
  OBVIOUS
<1>1. TypeOK
  BY DEF Init, TypeOK, Protocol
<1>2. CountInv
  <2> SUFFICES ASSUME NEW s \in Slots PROVE inflight[s] = Cardinality(Inside(s))
    BY DEF CountInv
  <2>1. Inside(s) = {}
    BY DEF Init, Inside, Counted
  <2> QED BY <2>1, FS_EmptySet DEF Init
<1>3. SlotInv /\ LockInv /\ GateInv /\ DrainInv
  BY DEF Init, SlotInv, LockInv, GateInv, DrainInv, Serial, Quiescing
<1> QED BY <1>1, <1>2, <1>3 DEF IInv

------------------------------------------------------------------------------
(* Each operation of the gate preserves the invariant. *)
LEMMA NextInv == IInv /\ [Next]_gvars => IInv'
<1> SUFFICES ASSUME IInv, [Next]_gvars PROVE IInv'
  OBVIOUS
<1>0. CASE UNCHANGED gvars
  <2>1. CountInv'
    BY <1>0, CountSame DEF gvars
  <2>2. TypeOK' /\ SlotInv' /\ LockInv' /\ GateInv' /\ DrainInv'
    BY <1>0 DEF IInv, gvars, TypeOK, SlotInv, LockInv, GateInv, DrainInv
  <2> QED BY <2>1, <2>2 DEF IInv
<1>1. ASSUME NEW t \in Threads, StartWriter(t) PROVE IInv'
  <2>1. CountInv'
    <3>1. inflight' = inflight /\ \A u \in Threads :
            (gpc'[u] \in Counted <=> gpc[u] \in Counted) /\ (gpc[u] \in Counted => slot'[u] = slot[u])
      BY <1>1 DEF StartWriter, Goto, Counted, IInv, TypeOK
    <3> QED BY <3>1, CountSame
  <2>2. TypeOK'
    BY <1>1 DEF StartWriter, Goto, IInv, TypeOK, Protocol
  <2>3. SlotInv'
    BY <1>1 DEF StartWriter, Goto, IInv, TypeOK, SlotInv
  <2>4. LockInv' /\ GateInv'
    BY <1>1 DEF StartWriter, Goto, IInv, TypeOK, LockInv, GateInv, Serial, Quiescing
  <2>5. DrainInv'
    BY <1>1 DEF StartWriter, Goto, IInv, TypeOK, DrainInv
  <2> QED BY <2>1, <2>2, <2>3, <2>4, <2>5 DEF IInv
<1>2. ASSUME NEW t \in Threads, StartSerial(t) PROVE IInv'
  <2>1. CountInv'
    <3>1. inflight' = inflight /\ \A u \in Threads :
            (gpc'[u] \in Counted <=> gpc[u] \in Counted) /\ (gpc[u] \in Counted => slot'[u] = slot[u])
      BY <1>2 DEF StartSerial, Goto, Counted, IInv, TypeOK
    <3> QED BY <3>1, CountSame
  <2>2. TypeOK'
    BY <1>2 DEF StartSerial, Goto, IInv, TypeOK, Protocol
  <2>3. SlotInv'
    BY <1>2 DEF StartSerial, Goto, IInv, TypeOK, SlotInv
  <2>4. LockInv' /\ GateInv'
    BY <1>2 DEF StartSerial, Goto, IInv, TypeOK, LockInv, GateInv, Serial, Quiescing
  <2>5. DrainInv'
    BY <1>2 DEF StartSerial, Goto, IInv, TypeOK, DrainInv
  <2> QED BY <2>1, <2>2, <2>3, <2>4, <2>5 DEF IInv
<1>3. ASSUME NEW t \in Threads, ForgetSlot(t) PROVE IInv'
  <2>1. CountInv'
    <3>1. inflight' = inflight /\ \A u \in Threads :
            (gpc'[u] \in Counted <=> gpc[u] \in Counted) /\ (gpc[u] \in Counted => slot'[u] = slot[u])
      BY <1>3 DEF ForgetSlot, Goto, Counted, IInv, TypeOK
    <3> QED BY <3>1, CountSame
  <2>2. TypeOK'
    BY <1>3 DEF ForgetSlot, Goto, IInv, TypeOK, Protocol
  <2>3. SlotInv'
    BY <1>3 DEF ForgetSlot, Goto, IInv, TypeOK, SlotInv
  <2>4. LockInv' /\ GateInv'
    BY <1>3 DEF ForgetSlot, Goto, IInv, TypeOK, LockInv, GateInv, Serial, Quiescing
  <2>5. DrainInv'
    BY <1>3 DEF ForgetSlot, Goto, IInv, TypeOK, DrainInv
  <2> QED BY <2>1, <2>2, <2>3, <2>4, <2>5 DEF IInv
<1>4. ASSUME NEW t \in Threads, AllocateSlot(t) PROVE IInv'
  <2>1. CountInv'
    <3>1. inflight' = inflight /\ \A u \in Threads :
            (gpc'[u] \in Counted <=> gpc[u] \in Counted) /\ (gpc[u] \in Counted => slot'[u] = slot[u])
      BY <1>4 DEF AllocateSlot, Goto, Counted, IInv, TypeOK
    <3> QED BY <3>1, CountSame
  <2>2. TypeOK'
    BY <1>4 DEF AllocateSlot, Goto, IInv, TypeOK, Protocol
  <2>3. SlotInv'
    BY <1>4 DEF AllocateSlot, Goto, IInv, TypeOK, SlotInv
  <2>4. LockInv' /\ GateInv'
    BY <1>4 DEF AllocateSlot, Goto, IInv, TypeOK, LockInv, GateInv, Serial, Quiescing
  <2>5. DrainInv'
    BY <1>4 DEF AllocateSlot, Goto, IInv, TypeOK, DrainInv
  <2> QED BY <2>1, <2>2, <2>3, <2>4, <2>5 DEF IInv
<1>5. ASSUME NEW t \in Threads, CheckGate(t) PROVE IInv'
  <2>1. CountInv'
    <3>1. inflight' = inflight /\ \A u \in Threads :
            (gpc'[u] \in Counted <=> gpc[u] \in Counted) /\ (gpc[u] \in Counted => slot'[u] = slot[u])
      BY <1>5 DEF CheckGate, Goto, Counted, IInv, TypeOK
    <3> QED BY <3>1, CountSame
  <2>2. TypeOK'
    BY <1>5 DEF CheckGate, Goto, IInv, TypeOK, Protocol
  <2>3. SlotInv'
    BY <1>5 DEF CheckGate, Goto, IInv, TypeOK, SlotInv
  <2>4. LockInv' /\ GateInv'
    BY <1>5 DEF CheckGate, Goto, IInv, TypeOK, LockInv, GateInv, Serial, Quiescing
  <2>5. DrainInv'
    BY <1>5 DEF CheckGate, Goto, IInv, TypeOK, DrainInv
  <2> QED BY <2>1, <2>2, <2>3, <2>4, <2>5 DEF IInv
<1>6. ASSUME NEW t \in Threads, Announce(t) PROVE IInv'
  <2>0. slot[t] \in Slots /\ gpc[t] \notin Counted
    BY <1>6 DEF Announce, Goto, Counted, IInv, TypeOK, SlotInv
  <2>1. CountInv' /\ inflight' \in [Slots -> Nat]
    BY <1>6, <2>0, CountUp DEF Announce, Goto
  <2>2. TypeOK'
    BY <1>6, <2>1 DEF Announce, Goto, IInv, TypeOK, Protocol
  <2>3. SlotInv'
    BY <1>6 DEF Announce, Goto, IInv, TypeOK, SlotInv
  <2>4. LockInv' /\ GateInv'
    BY <1>6 DEF Announce, Goto, IInv, TypeOK, LockInv, GateInv, Serial, Quiescing
  <2>5. DrainInv'
    BY <1>6 DEF Announce, Goto, IInv, TypeOK, DrainInv
  <2> QED BY <2>1, <2>2, <2>3, <2>4, <2>5 DEF IInv
<1>7. ASSUME NEW t \in Threads, Admit(t) PROVE IInv'
  <2>1. CountInv'
    <3>1. inflight' = inflight /\ \A u \in Threads :
            (gpc'[u] \in Counted <=> gpc[u] \in Counted) /\ (gpc[u] \in Counted => slot'[u] = slot[u])
      BY <1>7 DEF Admit, Goto, Counted, IInv, TypeOK
    <3> QED BY <3>1, CountSame
  <2>2. TypeOK'
    BY <1>7 DEF Admit, Goto, IInv, TypeOK, Protocol
  <2>3. SlotInv'
    BY <1>7 DEF Admit, Goto, IInv, TypeOK, SlotInv
  <2>4. LockInv' /\ GateInv'
    BY <1>7 DEF Admit, Goto, IInv, TypeOK, LockInv, GateInv, Serial, Quiescing
  <2>5. DrainInv'
    BY <1>7 DEF Admit, Goto, IInv, TypeOK, DrainInv, GateInv, Quiescing
  <2> QED BY <2>1, <2>2, <2>3, <2>4, <2>5 DEF IInv
<1>8. ASSUME NEW t \in Threads, BackOut(t) PROVE IInv'
  <2>0. slot[t] \in Slots /\ gpc[t] \in Counted
    BY <1>8 DEF BackOut, Goto, Counted, IInv, TypeOK, SlotInv
  <2>1. CountInv' /\ inflight' \in [Slots -> Nat]
    <3>1. "check" \notin Counted
      BY DEF Counted
    <3> QED BY <1>8, <2>0, <3>1, CountDown DEF BackOut, Goto
  <2>2. TypeOK'
    BY <1>8, <2>1 DEF BackOut, Goto, IInv, TypeOK, Protocol
  <2>3. SlotInv'
    BY <1>8 DEF BackOut, Goto, IInv, TypeOK, SlotInv
  <2>4. LockInv' /\ GateInv'
    BY <1>8 DEF BackOut, Goto, IInv, TypeOK, LockInv, GateInv, Serial, Quiescing
  <2>5. DrainInv'
    BY <1>8 DEF BackOut, Goto, IInv, TypeOK, DrainInv
  <2> QED BY <2>1, <2>2, <2>3, <2>4, <2>5 DEF IInv
<1>9. ASSUME NEW t \in Threads, ExitDone(t) PROVE IInv'
  <2>0. slot[t] \in Slots /\ gpc[t] \in Counted
    BY <1>9 DEF ExitDone, Goto, Leave, Counted, IInv, TypeOK, SlotInv
  <2>1. CountInv' /\ inflight' \in [Slots -> Nat]
    <3>1. "idle" \notin Counted
      BY DEF Counted
    <3> QED BY <1>9, <2>0, <3>1, CountDown DEF ExitDone, Goto, Leave
  <2>2. TypeOK'
    BY <1>9, <2>1 DEF ExitDone, Goto, Leave, IInv, TypeOK, Protocol
  <2>3. SlotInv'
    BY <1>9 DEF ExitDone, Goto, IInv, TypeOK, SlotInv
  <2>4. LockInv' /\ GateInv'
    BY <1>9 DEF ExitDone, Goto, IInv, TypeOK, LockInv, GateInv, Serial, Quiescing
  <2>5. DrainInv'
    BY <1>9 DEF ExitDone, Goto, IInv, TypeOK, DrainInv
  <2> QED BY <2>1, <2>2, <2>3, <2>4, <2>5 DEF IInv
<1>10. ASSUME NEW t \in Threads, ExitFallback(t) PROVE IInv'
  <2>0. slot[t] \in Slots /\ gpc[t] \in Counted
    BY <1>10 DEF ExitFallback, Goto, Leave, Counted, IInv, TypeOK, SlotInv
  <2>1. CountInv' /\ inflight' \in [Slots -> Nat]
    <3>1. "serial" \notin Counted
      BY DEF Counted
    <3> QED BY <1>10, <2>0, <3>1, CountDown DEF ExitFallback, Goto, Leave
  <2>2. TypeOK'
    BY <1>10, <2>1 DEF ExitFallback, Goto, Leave, IInv, TypeOK, Protocol
  <2>3. SlotInv'
    BY <1>10 DEF ExitFallback, Goto, IInv, TypeOK, SlotInv
  <2>4. LockInv' /\ GateInv'
    BY <1>10 DEF ExitFallback, Goto, IInv, TypeOK, LockInv, GateInv, Serial, Quiescing
  <2>5. DrainInv'
    BY <1>10 DEF ExitFallback, Goto, IInv, TypeOK, DrainInv
  <2> QED BY <2>1, <2>2, <2>3, <2>4, <2>5 DEF IInv
<1>11. ASSUME NEW t \in Threads, LockFallback(t) PROVE IInv'
  <2>1. CountInv'
    <3>1. inflight' = inflight /\ \A u \in Threads :
            (gpc'[u] \in Counted <=> gpc[u] \in Counted) /\ (gpc[u] \in Counted => slot'[u] = slot[u])
      BY <1>11 DEF LockFallback, Goto, Counted, IInv, TypeOK
    <3> QED BY <3>1, CountSame
  <2>2. TypeOK'
    BY <1>11 DEF LockFallback, Goto, IInv, TypeOK, Protocol
  <2>3. SlotInv'
    BY <1>11 DEF LockFallback, Goto, IInv, TypeOK, SlotInv
  <2>4. LockInv' /\ GateInv'
    BY <1>11 DEF LockFallback, Goto, IInv, TypeOK, LockInv, GateInv, Serial, Quiescing
  <2>5. DrainInv'
    BY <1>11 DEF LockFallback, Goto, IInv, TypeOK, DrainInv
  <2> QED BY <2>1, <2>2, <2>3, <2>4, <2>5 DEF IInv
<1>12. ASSUME NEW t \in Threads, MeetPoison(t) PROVE IInv'
  <2>1. CountInv'
    <3>1. inflight' = inflight /\ \A u \in Threads :
            (gpc'[u] \in Counted <=> gpc[u] \in Counted) /\ (gpc[u] \in Counted => slot'[u] = slot[u])
      BY <1>12 DEF MeetPoison, Goto, Counted, IInv, TypeOK
    <3> QED BY <3>1, CountSame
  <2>2. TypeOK'
    BY <1>12 DEF MeetPoison, Goto, IInv, TypeOK, Protocol
  <2>3. SlotInv'
    BY <1>12 DEF MeetPoison, Goto, IInv, TypeOK, SlotInv
  <2>4. LockInv' /\ GateInv'
    BY <1>12 DEF MeetPoison, Goto, IInv, TypeOK, LockInv, GateInv, Serial, Quiescing
  <2>5. DrainInv'
    BY <1>12 DEF MeetPoison, Goto, IInv, TypeOK, DrainInv
  <2> QED BY <2>1, <2>2, <2>3, <2>4, <2>5 DEF IInv
<1>13. ASSUME NEW t \in Threads, CloseGate(t) PROVE IInv'
  <2>1. CountInv'
    <3>1. inflight' = inflight /\ \A u \in Threads :
            (gpc'[u] \in Counted <=> gpc[u] \in Counted) /\ (gpc[u] \in Counted => slot'[u] = slot[u])
      BY <1>13 DEF CloseGate, Goto, Counted, IInv, TypeOK
    <3> QED BY <3>1, CountSame
  <2>2. TypeOK'
    BY <1>13 DEF CloseGate, Goto, IInv, TypeOK, Protocol
  <2>3. SlotInv'
    BY <1>13 DEF CloseGate, Goto, IInv, TypeOK, SlotInv
  <2>4. LockInv' /\ GateInv'
    BY <1>13 DEF CloseGate, Goto, IInv, TypeOK, LockInv, GateInv, Serial, Quiescing
  <2>5. DrainInv'
    BY <1>13 DEF CloseGate, Goto, IInv, TypeOK, DrainInv
  <2> QED BY <2>1, <2>2, <2>3, <2>4, <2>5 DEF IInv
<1>14. ASSUME NEW t \in Threads, LoadMask(t) PROVE IInv'
  <2>1. CountInv'
    <3>1. inflight' = inflight /\ \A u \in Threads :
            (gpc'[u] \in Counted <=> gpc[u] \in Counted) /\ (gpc[u] \in Counted => slot'[u] = slot[u])
      BY <1>14 DEF LoadMask, Goto, Counted, IInv, TypeOK
    <3> QED BY <3>1, CountSame
  <2>2. TypeOK'
    BY <1>14 DEF LoadMask, Goto, IInv, TypeOK, Protocol
  <2>3. SlotInv'
    BY <1>14 DEF LoadMask, Goto, IInv, TypeOK, SlotInv
  <2>4. LockInv' /\ GateInv'
    BY <1>14 DEF LoadMask, Goto, IInv, TypeOK, LockInv, GateInv, Serial, Quiescing
  <2>5. DrainInv'
    BY <1>14 DEF LoadMask, Goto, IInv, TypeOK, DrainInv, SlotInv
  <2> QED BY <2>1, <2>2, <2>3, <2>4, <2>5 DEF IInv
<1>15. ASSUME NEW t \in Threads, Drain(t) PROVE IInv'
  <2>1. CountInv'
    <3>1. inflight' = inflight /\ \A u \in Threads :
            (gpc'[u] \in Counted <=> gpc[u] \in Counted) /\ (gpc[u] \in Counted => slot'[u] = slot[u])
      BY <1>15 DEF Drain, Goto, Counted, IInv, TypeOK
    <3> QED BY <3>1, CountSame
  <2>2. TypeOK'
    BY <1>15 DEF Drain, Goto, IInv, TypeOK, Protocol
  <2>3. SlotInv'
    BY <1>15 DEF Drain, Goto, IInv, TypeOK, SlotInv
  <2>4. LockInv' /\ GateInv'
    BY <1>15 DEF Drain, Goto, IInv, TypeOK, LockInv, GateInv, Serial, Quiescing
  <2>5. DrainInv'
    <3>1. PICK s \in todo[t] : inflight[s] = 0 /\ todo' = [todo EXCEPT ![t] = @ \ {s}]
      BY <1>15 DEF Drain
    <3>2. s \in Slots /\ gpc' = gpc /\ slot' = slot
      BY <1>15, <3>1 DEF Drain, IInv, TypeOK
    <3>3. \A u \in Threads : gpc[u] = "in" => slot[u] # s
      BY <3>1, <3>2, ZeroIsEmpty DEF Counted
    <3> QED BY <3>1, <3>2, <3>3 DEF IInv, TypeOK, DrainInv
  <2> QED BY <2>1, <2>2, <2>3, <2>4, <2>5 DEF IInv
<1>16. ASSUME NEW t \in Threads, LockWrite(t) PROVE IInv'
  <2>1. CountInv'
    <3>1. inflight' = inflight /\ \A u \in Threads :
            (gpc'[u] \in Counted <=> gpc[u] \in Counted) /\ (gpc[u] \in Counted => slot'[u] = slot[u])
      BY <1>16 DEF LockWrite, Goto, Counted, IInv, TypeOK
    <3> QED BY <3>1, CountSame
  <2>2. TypeOK'
    BY <1>16 DEF LockWrite, Goto, IInv, TypeOK, Protocol
  <2>3. SlotInv'
    BY <1>16 DEF LockWrite, Goto, IInv, TypeOK, SlotInv
  <2>4. LockInv' /\ GateInv'
    BY <1>16 DEF LockWrite, Goto, IInv, TypeOK, LockInv, GateInv, Serial, Quiescing
  <2>5. DrainInv'
    BY <1>16 DEF LockWrite, Goto, IInv, TypeOK, DrainInv
  <2> QED BY <2>1, <2>2, <2>3, <2>4, <2>5 DEF IInv
<1>17. ASSUME NEW t \in Threads, UnlockWrite(t) PROVE IInv'
  <2>1. CountInv'
    <3>1. inflight' = inflight /\ \A u \in Threads :
            (gpc'[u] \in Counted <=> gpc[u] \in Counted) /\ (gpc[u] \in Counted => slot'[u] = slot[u])
      BY <1>17 DEF UnlockWrite, Goto, Counted, IInv, TypeOK
    <3> QED BY <3>1, CountSame
  <2>2. TypeOK'
    BY <1>17 DEF UnlockWrite, Goto, IInv, TypeOK, Protocol
  <2>3. SlotInv'
    BY <1>17 DEF UnlockWrite, Goto, IInv, TypeOK, SlotInv
  <2>4. LockInv' /\ GateInv'
    BY <1>17 DEF UnlockWrite, Goto, IInv, TypeOK, LockInv, GateInv, Serial, Quiescing
  <2>5. DrainInv'
    BY <1>17 DEF UnlockWrite, Goto, IInv, TypeOK, DrainInv
  <2> QED BY <2>1, <2>2, <2>3, <2>4, <2>5 DEF IInv
<1>18. ASSUME NEW t \in Threads, OpenGate(t) PROVE IInv'
  <2>1. CountInv'
    <3>1. inflight' = inflight /\ \A u \in Threads :
            (gpc'[u] \in Counted <=> gpc[u] \in Counted) /\ (gpc[u] \in Counted => slot'[u] = slot[u])
      BY <1>18 DEF OpenGate, Goto, Counted, IInv, TypeOK
    <3> QED BY <3>1, CountSame
  <2>2. TypeOK'
    BY <1>18 DEF OpenGate, Goto, IInv, TypeOK, Protocol
  <2>3. SlotInv'
    BY <1>18 DEF OpenGate, Goto, IInv, TypeOK, SlotInv
  <2>4. LockInv' /\ GateInv'
    BY <1>18 DEF OpenGate, Goto, IInv, TypeOK, LockInv, GateInv, Serial, Quiescing
  <2>5. DrainInv'
    BY <1>18 DEF OpenGate, Goto, IInv, TypeOK, DrainInv
  <2> QED BY <2>1, <2>2, <2>3, <2>4, <2>5 DEF IInv
<1>19. ASSUME NEW t \in Threads, UnlockFallback(t) PROVE IInv'
  <2>1. CountInv'
    <3>1. inflight' = inflight /\ \A u \in Threads :
            (gpc'[u] \in Counted <=> gpc[u] \in Counted) /\ (gpc[u] \in Counted => slot'[u] = slot[u])
      BY <1>19 DEF UnlockFallback, Goto, Counted, IInv, TypeOK
    <3> QED BY <3>1, CountSame
  <2>2. TypeOK'
    BY <1>19 DEF UnlockFallback, Goto, IInv, TypeOK, Protocol
  <2>3. SlotInv'
    BY <1>19 DEF UnlockFallback, Goto, IInv, TypeOK, SlotInv
  <2>4. LockInv' /\ GateInv'
    BY <1>19 DEF UnlockFallback, Goto, IInv, TypeOK, LockInv, GateInv, Serial, Quiescing
  <2>5. DrainInv'
    BY <1>19 DEF UnlockFallback, Goto, IInv, TypeOK, DrainInv
  <2> QED BY <2>1, <2>2, <2>3, <2>4, <2>5 DEF IInv
<1>20. ASSUME NEW t \in Threads, Unwind(t) PROVE IInv'
  <2>1. CountInv'
    <3>1. inflight' = inflight /\ \A u \in Threads :
            (gpc'[u] \in Counted <=> gpc[u] \in Counted) /\ (gpc[u] \in Counted => slot'[u] = slot[u])
      BY <1>20 DEF Unwind, Goto, Counted, IInv, TypeOK
    <3> QED BY <3>1, CountSame
  <2>2. TypeOK'
    BY <1>20 DEF Unwind, Goto, IInv, TypeOK, Protocol
  <2>3. SlotInv'
    BY <1>20 DEF Unwind, Goto, IInv, TypeOK, SlotInv
  <2>4. LockInv' /\ GateInv'
    BY <1>20 DEF Unwind, Goto, IInv, TypeOK, LockInv, GateInv, Serial, Quiescing
  <2>5. DrainInv'
    BY <1>20 DEF Unwind, Goto, IInv, TypeOK, DrainInv
  <2> QED BY <2>1, <2>2, <2>3, <2>4, <2>5 DEF IInv
<1>21. ASSUME NEW t \in Threads, UnwindOpen(t) PROVE IInv'
  <2>1. CountInv'
    <3>1. inflight' = inflight /\ \A u \in Threads :
            (gpc'[u] \in Counted <=> gpc[u] \in Counted) /\ (gpc[u] \in Counted => slot'[u] = slot[u])
      BY <1>21 DEF UnwindOpen, Goto, Counted, IInv, TypeOK
    <3> QED BY <3>1, CountSame
  <2>2. TypeOK'
    BY <1>21 DEF UnwindOpen, Goto, IInv, TypeOK, Protocol
  <2>3. SlotInv'
    BY <1>21 DEF UnwindOpen, Goto, IInv, TypeOK, SlotInv
  <2>4. LockInv' /\ GateInv'
    BY <1>21 DEF UnwindOpen, Goto, IInv, TypeOK, LockInv, GateInv, Serial, Quiescing
  <2>5. DrainInv'
    BY <1>21 DEF UnwindOpen, Goto, IInv, TypeOK, DrainInv
  <2> QED BY <2>1, <2>2, <2>3, <2>4, <2>5 DEF IInv
<1>22. ASSUME NEW t \in Threads, UnwindRelease(t) PROVE IInv'
  <2>1. CountInv'
    <3>1. inflight' = inflight /\ \A u \in Threads :
            (gpc'[u] \in Counted <=> gpc[u] \in Counted) /\ (gpc[u] \in Counted => slot'[u] = slot[u])
      BY <1>22 DEF UnwindRelease, Goto, Counted, IInv, TypeOK
    <3> QED BY <3>1, CountSame
  <2>2. TypeOK'
    BY <1>22 DEF UnwindRelease, Goto, IInv, TypeOK, Protocol
  <2>3. SlotInv'
    BY <1>22 DEF UnwindRelease, Goto, IInv, TypeOK, SlotInv
  <2>4. LockInv' /\ GateInv'
    BY <1>22 DEF UnwindRelease, Goto, IInv, TypeOK, LockInv, GateInv, Serial, Quiescing
  <2>5. DrainInv'
    BY <1>22 DEF UnwindRelease, Goto, IInv, TypeOK, DrainInv
  <2> QED BY <2>1, <2>2, <2>3, <2>4, <2>5 DEF IInv
<1> QED
  BY <1>0, <1>1, <1>2, <1>3, <1>4, <1>5, <1>6, <1>7, <1>8, <1>9, <1>10, <1>11,
     <1>12, <1>13, <1>14, <1>15, <1>16, <1>17, <1>18, <1>19, <1>20, <1>21, <1>22
  DEF Next, Progress

(* What the invariant is for. *)
LEMMA InvSafe == IInv => Exclusion /\ ClosedHasOwner
<1> SUFFICES ASSUME IInv PROVE Exclusion /\ ClosedHasOwner
  OBVIOUS
<1>1. ClosedHasOwner
  BY DEF IInv, GateInv, ClosedHasOwner
<1>2. \A t, u \in Threads : gpc[t] = "excl" => gpc[u] # "in"
  BY DEF IInv, DrainInv
<1>3. \A t, u \in Threads : gpc[t] = "excl" /\ u # t => gpc[u] # "excl"
  BY DEF IInv, LockInv, Serial
<1> QED BY <1>1, <1>2, <1>3 DEF Exclusion

(* It holds in every reachable state. *)
LEMMA Invariance == Spec => []IInv
BY InitInv, NextInv, PTL DEF Spec

(* Every reachable state has its type; in particular no exit takes in_flight
   below zero (occ.rs exit_writer), whatever the number of writers per slot. *)
THEOREM GateTypes == Spec => []TypeOK
<1>1. IInv => TypeOK
  BY DEF IInv
<1> QED BY <1>1, Invariance, PTL

(* No optimistic writer and no second section runs inside a serialised section,
   for any number of threads and slots: the exclusion that write_root_covered,
   read_locked and with_locked rely on (sync.rs 2980-3260). *)
THEOREM SectionExclusive == Spec => []Exclusion
<1>1. IInv => Exclusion
  BY InvSafe
<1> QED BY <1>1, Invariance, PTL

(* A closed gate always has a thread on its way to reopen it, panics included
   (sync.rs QuiesceGuard::drop). *)
THEOREM GateOwned == Spec => []ClosedHasOwner
<1>1. IInv => ClosedHasOwner
  BY InvSafe
<1> QED BY <1>1, Invariance, PTL
==============================================================================
