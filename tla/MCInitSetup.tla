----------------------------- MODULE MCInitSetup -----------------------------
(* The instances of InitSetup that TLC checks. *)
EXTENDS InitSetup, TLC

CONSTANTS home, beside, away

(* The built-in identity file is beside the configuration, any other is not. *)
MCWithin == [x \in Path |-> IF x = home THEN beside ELSE away]

Symmetry == Permutations(Proc)
=============================================================================
