--------------------------- MODULE MCSessionLocks ---------------------------
(***************************************************************************)
(* Instances of SessionLocks for TLC.  A lock object per cached key and    *)
(* per task is always enough: any more would be unused.                    *)
(***************************************************************************)
EXTENDS SessionLocks, TLC

Symmetry == Permutations(Tasks) \cup Permutations(Keys)
=============================================================================
