--------------------------- MODULE MCSessionScope ---------------------------
(* TLC instances of SessionScope *)
EXTENDS SessionScope, TLC

Symmetry == Permutations(Selection)
=============================================================================
