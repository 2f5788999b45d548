\* Two assemblies and one turn whose scope and requests may fail.
SPECIFICATION Spec
CONSTANTS
  Assembly = {a1, a2}
  MaxTurn = 1
  MaxFollowUps = 0
  MayFail = TRUE
INVARIANTS FailedCompletionStays
CHECK_DEADLOCK FALSE
