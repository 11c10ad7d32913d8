---------------------------- MODULE RetainedBytes ----------------------------
(***************************************************************************)
(* Collector::retained_bytes() as a thread runs it against the writers of  *)
(* Collector: it loads the carry list's count, then each stripe's, one     *)
(* relaxed load at a time, and returns the sum.                            *)
(***************************************************************************)
EXTENDS Collector

VARIABLES
  opc,    \* "idle", "sum" or "returned"
  osum,   \* the running sum
  onext,  \* the next stripe to load
  owed    \* ghost: blocks retired and unfreed ever since the call began

observerVars == <<opc, osum, onext, owed>>

\* Blocks retired and not yet freed or made reusable.
Waiting ==
  carry \cup AllQueued \cup AllTaken

ObserverInit == opc = "idle" /\ osum = 0 /\ onext = 0 /\ owed = {}

LoadCarried ==
  /\ opc = "idle"
  /\ opc' = "sum" /\ osum' = carriedBytes /\ onext' = 0 /\ owed' = Waiting
  /\ UNCHANGED vars

LoadStripe ==
  /\ opc = "sum" /\ onext < NumStripes
  /\ osum' = osum + retained[onext] /\ onext' = onext + 1
  /\ UNCHANGED <<vars, opc, owed>>

Return ==
  /\ opc = "sum" /\ onext = NumStripes
  /\ opc' = "returned"
  /\ UNCHANGED <<vars, osum, onext, owed>>

CollectorStep ==
  /\ Next
  /\ owed' = owed \cap Waiting'
  /\ UNCHANGED <<opc, osum, onext>>

ObserverSpec ==
  /\ Init /\ ObserverInit
  /\ [][CollectorStep \/ LoadCarried \/ LoadStripe \/ Return]_<<vars, observerVars>>

\* "Blocks on the advancer's carry list are past their grace period but not
\* freed yet: counted until the free" (retained_bytes), because carry_tail
\* counts them "before the caller subtracts the stripe's share, so
\* retained_bytes() never reads the carried bytes as freed": the sum covers
\* every block that stayed retired and unfreed throughout the call.
NeverReadsCarriedAsFreed ==
  opc = "returned" => osum >= SumBytes(owed)
==============================================================================
