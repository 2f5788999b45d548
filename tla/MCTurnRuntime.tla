--------------------------- MODULE MCTurnRuntime ---------------------------
(* TLC instances of TurnRuntime *)
EXTENDS TurnRuntime
=============================================================================
