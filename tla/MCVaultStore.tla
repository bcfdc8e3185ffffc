---------------------------- MODULE MCVaultStore ----------------------------
(* The instances of VaultStore that TLC checks.  Nothing in the model      *)
(* distinguishes the members of any of these sets.                         *)
EXTENDS VaultStore, TLC

Symmetry ==
  UNION {Permutations(Proc), Permutations(File), Permutations(Value),
         Permutations(Scope), Permutations(Key), Permutations(Kind)}
=============================================================================
