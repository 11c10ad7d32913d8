---------------------------- MODULE MCBleTracker -----------------------------
(* An instance of BleTracker for TLC. *)
EXTENDS BleTracker, TLC

CONSTANTS a, b, c, d

(* a and b collide. *)
Hash == a :> 1 @@ b :> 1 @@ c :> 2 @@ d :> 3

Alike == Permutations({a, b}) \cup Permutations({c, d})
(* States are told apart by all that a later step can read: of a slot on the free
   list nothing, as IndexesAgree holds in every state found, and of the last call
   only which it was. *)
Read == <<by_mac, by_time, active, free_indices, count, clock, base_epoch_sec, now, call.op,
          [i \in active |-> <<entries[i], mono_last_seen_sec[i], at[i], taken[i]>>]>>
==============================================================================
