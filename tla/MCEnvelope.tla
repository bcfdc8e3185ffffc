------------------------------ MODULE MCEnvelope ------------------------------
(* The instances of Envelope that TLC checks. *)
EXTENDS Envelope, TLC

Symmetry == Permutations(Key) \cup Permutations(Label) \cup Permutations(Slot)
=============================================================================
