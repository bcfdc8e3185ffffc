------------------------------ MODULE MCSyncCas ------------------------------
(* The instances of SyncCas that TLC checks. *)
EXTENDS SyncCas, TLC

Symmetry == Permutations(Key)
=============================================================================
