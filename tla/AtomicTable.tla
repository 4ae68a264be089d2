---------------------------- MODULE AtomicTable ----------------------------
(***************************************************************************)
(* What save_table and open_exom promise of one table of an exom: a save   *)
(* takes effect at once or not at all, one that was acknowledged is never  *)
(* undone, and opening the table finds the last one that took effect.      *)
(* Versions are numbered in the order of the saves; 0 is the empty table.  *)
(***************************************************************************)
EXTENDS Naturals

VARIABLES
    stored,     \* the version on disk
    returned,   \* the last version whose save returned Ok
    loaded      \* the version the last open found

Init == stored = 0 /\ returned = 0 /\ loaded = 0

Write ==
    /\ stored' \in Nat
    /\ stored' > stored
    /\ UNCHANGED <<returned, loaded>>

Return == returned' = stored /\ UNCHANGED <<stored, loaded>>

Open == loaded' = stored /\ UNCHANGED <<stored, returned>>

Next == Write \/ Return \/ Open

Spec == Init /\ [][Next]_<<stored, returned, loaded>>

=============================================================================
