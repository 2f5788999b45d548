------------------------- MODULE MCSessionFileStore -------------------------
(* Small instances of SessionFileStore for TLC. *)
EXTENDS SessionFileStore, TLC

Symmetry == Permutations(Process) \cup Permutations(Change)
=============================================================================
