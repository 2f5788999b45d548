--------------------------- MODULE MCSessionTask ---------------------------
(* TLC instances of SessionTask *)
EXTENDS SessionTask, TLC

Symmetry == Permutations(Task) \cup Permutations(Terms)
=============================================================================
