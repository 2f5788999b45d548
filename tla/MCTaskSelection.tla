-------------------------- MODULE MCTaskSelection --------------------------
(* TLC instance of TaskSelection *)
EXTENDS TaskSelection
============================================================================
