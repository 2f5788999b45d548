-------------------------- MODULE MCModelGateway --------------------------
(* TLC instances of ModelGateway *)
EXTENDS ModelGateway
=============================================================================
