---------------------------- MODULE MCRunInjection ----------------------------
(* The instances of RunInjection that TLC checks. *)
EXTENDS RunInjection
=============================================================================
