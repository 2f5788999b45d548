------------------------ MODULE MCInvocationDispatch ------------------------
(* TLC instances of InvocationDispatch *)
EXTENDS InvocationDispatch, TLC

Symmetry == Permutations(Host)
=============================================================================
