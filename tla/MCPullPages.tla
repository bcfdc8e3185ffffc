----------------------------- MODULE MCPullPages -----------------------------
(* The instances of PullPages that TLC checks. *)
EXTENDS PullPages, TLC

Symmetry == Permutations(Key) \cup Permutations(Cursor)
=============================================================================
