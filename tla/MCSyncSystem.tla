----------------------------- MODULE MCSyncSystem -----------------------------
(***************************************************************************)
(* Instances of SyncSystem for TLC: all jobs compete for one slice (slices *)
(* share no key, row or transaction, so more of them add only products).   *)
(***************************************************************************)
EXTENDS SyncSystem, TLC

OneSlice == [j \in Jobs |-> CHOOSE s \in Slices : TRUE]

(* Sound for the invariants: no action and no property names a job or a    *)
(* process.  The liveness runs do not use it.                              *)
Symmetry ==
  Permutations(Jobs) \cup Permutations(Workers) \cup Permutations(Cancellers)
=============================================================================
