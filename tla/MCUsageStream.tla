--------------------------- MODULE MCUsageStream ---------------------------
(* TLC instance of UsageStream *)
EXTENDS UsageStream
============================================================================
