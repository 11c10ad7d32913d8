------------------------------ MODULE WriterGate -----------------------------
(* The writer gate of a shared tree (occ.rs WriterGate, sync.rs WriterTable   *)
(* and Shared::quiesce_writers).  Optimistic writers announce themselves in a *)
(* slot counter and re-check the gate; a serialised section closes the gate,  *)
(* drains the slots it finds allocated and runs alone.  The stores before a   *)
(* SeqCst fence take effect at the fence.                                     *)
EXTENDS Integers, FiniteSets

CONSTANTS Threads,      \* the threads that share the tree
          NumSlots,     \* MAX_WRITER_SLOTS
          Token,        \* thread_token() % MAX_WRITER_SLOTS, per thread
          NoThread,     \* a free mutex
          NoSlot        \* usize::MAX: nothing in the thread's slot cache

Slots == 0 .. NumSlots - 1

ASSUME SlotsAssumption == NumSlots \in Nat \ {0} /\ Token \in [Threads -> Slots]
ASSUME ThreadsAssumption == IsFiniteSet(Threads)
ASSUME NoneAssumption == NoThread \notin Threads /\ NoSlot \notin Slots

VARIABLES
  closed,     \* WriterGate.closed
  inflight,   \* WriterSlot.in_flight, per slot
  allocated,  \* WriterTable.allocated
  slot,       \* the thread-local cached slot of this tree, or NoSlot
  gpc,        \* where each thread stands in the protocol
  todo,       \* the rest of the mask a quiescing thread has loaded
  fallback,   \* holder of fallback_mutex, or NoThread
  write,      \* holder of the write mutex, or NoThread
  poisoned    \* the mutexes a panicking thread released

gvars == <<closed, inflight, allocated, slot, gpc, todo, fallback, write, poisoned>>

Protocol == {"idle", "check", "announce", "recheck", "in", "serial", "close",
             "mask", "drain", "excl", "open", "release", "unwindOpen", "unwindRelease"}

(* A thread whose increment of its slot counter stands. *)
Counted == {"recheck", "in"}
(* A thread that holds fallback_mutex. *)
Serial == {"close", "mask", "drain", "excl", "open", "release", "unwindOpen",
           "unwindRelease"}
(* A thread that holds the gate closed. *)
Quiescing == {"mask", "drain", "excl", "open", "unwindOpen"}

Init ==
  /\ closed = FALSE
  /\ inflight = [s \in Slots |-> 0]
  /\ allocated = {}
  /\ slot = [t \in Threads |-> NoSlot]
  /\ gpc = [t \in Threads |-> "idle"]
  /\ todo = [t \in Threads |-> {}]
  /\ fallback = NoThread
  /\ write = NoThread
  /\ poisoned = {}

Goto(t, from, to) == gpc[t] = from /\ gpc' = [gpc EXCEPT ![t] = to]

------------------------------------------------------------------------------
(* The optimistic writer. *)

(* A mutation of a tree-state root starts with enter_writer_blocking. *)
StartWriter(t) ==
  /\ Goto(t, "idle", "check")
  /\ UNCHANGED <<closed, inflight, allocated, slot, todo, fallback, write, poisoned>>

(* A mutation of a root leaf, a locked read or a whole-tree operation goes to
   the serialised section at once. *)
StartSerial(t) ==
  /\ Goto(t, "idle", "serial")
  /\ UNCHANGED <<closed, inflight, allocated, slot, todo, fallback, write, poisoned>>

(* The thread's slot cache holds 128 trees; the entry of this one is evicted. *)
ForgetSlot(t) ==
  /\ gpc[t] = "idle" /\ slot[t] # NoSlot
  /\ slot' = [slot EXCEPT ![t] = NoSlot]
  /\ UNCHANGED <<closed, inflight, allocated, gpc, todo, fallback, write, poisoned>>

(* The lowest clear bit of the mask; the thread's token once every bit is set. *)
FreeSlots == Slots \ allocated
AllocateSlot(t) ==
  /\ gpc[t] = "check" /\ slot[t] = NoSlot
  /\ \E s \in Slots :
       /\ IF FreeSlots = {} THEN s = Token[t]
                            ELSE s \in FreeSlots /\ \A r \in FreeSlots : s <= r
       /\ slot' = [slot EXCEPT ![t] = s]
       /\ allocated' = allocated \cup {s}
  /\ UNCHANGED <<closed, inflight, gpc, todo, fallback, write, poisoned>>

(* The relaxed first check; a writer that reads the gate closed spins here. *)
CheckGate(t) ==
  /\ slot[t] # NoSlot /\ ~closed
  /\ Goto(t, "check", "announce")
  /\ UNCHANGED <<closed, inflight, allocated, slot, todo, fallback, write, poisoned>>

(* Mutant: the slot is flagged, not counted. *)
AnnounceFlag(t) ==
  /\ Goto(t, "announce", "recheck")
  /\ inflight' = [inflight EXCEPT ![slot[t]] = 1]
  /\ UNCHANGED <<closed, allocated, slot, todo, fallback, write, poisoned>>

(* fetch_add on the slot counter, then the SeqCst fence. *)
Announce(t) ==
  /\ Goto(t, "announce", "recheck")
  /\ inflight' = [inflight EXCEPT ![slot[t]] = @ + 1]
  /\ UNCHANGED <<closed, allocated, slot, todo, fallback, write, poisoned>>

(* Mutant: no re-check after the fence. *)
AdmitBlind(t) ==
  /\ Goto(t, "recheck", "in")
  /\ UNCHANGED <<closed, inflight, allocated, slot, todo, fallback, write, poisoned>>

(* The re-check reads the gate open: a WriterGuard. *)
Admit(t) ==
  /\ ~closed
  /\ Goto(t, "recheck", "in")
  /\ UNCHANGED <<closed, inflight, allocated, slot, todo, fallback, write, poisoned>>

(* The re-check reads the gate closed: withdraw and spin. *)
BackOut(t) ==
  /\ closed
  /\ Goto(t, "recheck", "check")
  /\ inflight' = [inflight EXCEPT ![slot[t]] = @ - 1]
  /\ UNCHANGED <<closed, allocated, slot, todo, fallback, write, poisoned>>

(* Mutant: the guard's drop does not withdraw. *)
LeaveSkips(t) == UNCHANGED inflight

(* WriterGuard::drop. *)
Leave(t) == inflight' = [inflight EXCEPT ![slot[t]] = @ - 1]

(* The mutation is done, or falls back: the guard drops before the serialised
   section is entered. *)
ExitDone(t) ==
  /\ Goto(t, "in", "idle") /\ Leave(t)
  /\ UNCHANGED <<closed, allocated, slot, todo, fallback, write, poisoned>>
ExitFallback(t) ==
  /\ Goto(t, "in", "serial") /\ Leave(t)
  /\ UNCHANGED <<closed, allocated, slot, todo, fallback, write, poisoned>>

------------------------------------------------------------------------------
(* The serialised section: fallback mutex, gate, write mutex. *)

LockFallback(t) ==
  /\ fallback = NoThread /\ "fallback" \notin poisoned
  /\ Goto(t, "serial", "close")
  /\ fallback' = t
  /\ UNCHANGED <<closed, inflight, allocated, slot, todo, write, poisoned>>

(* expect("fallback mutex poisoned") panics before anything is held. *)
MeetPoison(t) ==
  /\ fallback = NoThread /\ "fallback" \in poisoned
  /\ Goto(t, "serial", "idle")
  /\ UNCHANGED <<closed, inflight, allocated, slot, todo, fallback, write, poisoned>>

(* WriterGate::close: the store, then the SeqCst fence. *)
CloseGate(t) ==
  /\ Goto(t, "close", "mask")
  /\ closed' = TRUE
  /\ UNCHANGED <<inflight, allocated, slot, todo, fallback, write, poisoned>>

(* The allocated mask is loaded once. *)
LoadMask(t) ==
  /\ Goto(t, "mask", "drain")
  /\ todo' = [todo EXCEPT ![t] = allocated]
  /\ UNCHANGED <<closed, inflight, allocated, slot, fallback, write, poisoned>>

(* wait_drained on the lowest slot left in the mask. *)
Drain(t) ==
  /\ gpc[t] = "drain"
  /\ \E s \in todo[t] :
       /\ \A r \in todo[t] : s <= r
       /\ inflight[s] = 0
       /\ todo' = [todo EXCEPT ![t] = @ \ {s}]
  /\ UNCHANGED <<closed, inflight, allocated, slot, gpc, fallback, write, poisoned>>

LockWrite(t) ==
  /\ todo[t] = {} /\ write = NoThread /\ "write" \notin poisoned
  /\ Goto(t, "drain", "excl")
  /\ write' = t
  /\ UNCHANGED <<closed, inflight, allocated, slot, todo, fallback, poisoned>>

(* The guards drop in reverse order: write, gate, fallback. *)
UnlockWrite(t) ==
  /\ Goto(t, "excl", "open")
  /\ write' = NoThread
  /\ UNCHANGED <<closed, inflight, allocated, slot, todo, fallback, poisoned>>

OpenGate(t) ==
  /\ Goto(t, "open", "release")
  /\ closed' = FALSE
  /\ UNCHANGED <<inflight, allocated, slot, todo, fallback, write, poisoned>>

UnlockFallback(t) ==
  /\ Goto(t, "release", "idle")
  /\ fallback' = NoThread
  /\ UNCHANGED <<closed, inflight, allocated, slot, todo, write, poisoned>>

(* The closure of the section panics: the same guards drop, and a mutex that
   drops while its thread panics is poisoned. *)
Unwind(t) ==
  /\ Goto(t, "excl", "unwindOpen")
  /\ write' = NoThread
  /\ poisoned' = poisoned \cup {"write"}
  /\ UNCHANGED <<closed, inflight, allocated, slot, todo, fallback>>

(* Mutant: the gate is reopened by a statement that an unwind skips. *)
UnwindOpenSkips(t) ==
  /\ Goto(t, "unwindOpen", "unwindRelease")
  /\ UNCHANGED <<closed, inflight, allocated, slot, todo, fallback, write, poisoned>>

UnwindOpen(t) ==
  /\ Goto(t, "unwindOpen", "unwindRelease")
  /\ closed' = FALSE
  /\ UNCHANGED <<inflight, allocated, slot, todo, fallback, write, poisoned>>

UnwindRelease(t) ==
  /\ Goto(t, "unwindRelease", "idle")
  /\ fallback' = NoThread
  /\ poisoned' = poisoned \cup {"fallback"}
  /\ UNCHANGED <<closed, inflight, allocated, slot, todo, write>>

------------------------------------------------------------------------------
(* What an operation does once it has started. *)
Progress(t) ==
  \/ AllocateSlot(t) \/ CheckGate(t) \/ Announce(t) \/ Admit(t) \/ BackOut(t)
  \/ ExitDone(t) \/ ExitFallback(t)
  \/ LockFallback(t) \/ MeetPoison(t) \/ CloseGate(t) \/ LoadMask(t) \/ Drain(t)
  \/ LockWrite(t) \/ UnlockWrite(t) \/ OpenGate(t) \/ UnlockFallback(t)
  \/ Unwind(t) \/ UnwindOpen(t) \/ UnwindRelease(t)

Next == \E t \in Threads : StartWriter(t) \/ StartSerial(t) \/ ForgetSlot(t) \/ Progress(t)

Spec == Init /\ [][Next]_gvars

(* An operation that can take its next step takes it: a running thread is
   scheduled.  Nothing obliges a thread to start one, and neither mutex is fair. *)
FairSpec == Spec /\ \A t \in Threads : WF_gvars(Progress(t))

------------------------------------------------------------------------------
(* Every variable has its type.  in_flight is decremented only by a writer that
   incremented it, so the count never goes below zero (occ.rs exit_writer). *)
TypeOK ==
  /\ closed \in BOOLEAN
  /\ inflight \in [Slots -> Nat]
  /\ allocated \subseteq Slots
  /\ slot \in [Threads -> Slots \cup {NoSlot}]
  /\ gpc \in [Threads -> Protocol]
  /\ todo \in [Threads -> SUBSET Slots]
  /\ fallback \in Threads \cup {NoThread}
  /\ write \in Threads \cup {NoThread}
  /\ poisoned \subseteq {"write", "fallback"}

(* A serialised section runs alone: no optimistic writer is admitted and no
   other section runs, which is what lets write_root_covered take `&mut` to the
   engine and the locked reads load nodes without a lock (sync.rs 2980-3260). *)
Exclusion ==
  \A t, u \in Threads :
    gpc[t] = "excl" => gpc[u] # "in" /\ (u # t => gpc[u] # "excl")

(* When the gate is closed, the thread that closed it still runs its section or
   is on its way out, so no unwind leaves later writers spinning
   (sync.rs QuiesceGuard::drop, tests/test_serialised_section_unwind.rs). *)
ClosedHasOwner == closed => \E t \in Threads : gpc[t] \in Quiescing

(* A thread that closes the gate gets its section: the writers it waits for
   leave, and the ones that arrive withdraw (sync.rs quiesce_writers). *)
DrainEnds == \A t \in Threads : gpc[t] = "close" ~> gpc[t] = "excl"

(* A closed gate reopens, unwinding included (sync.rs QuiesceGuard::drop). *)
GateReopens == closed ~> ~closed
==============================================================================
