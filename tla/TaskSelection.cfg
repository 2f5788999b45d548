\* One assembly, one turn, no failures.
SPECIFICATION TSpec
CONSTANTS
  Assembly = {a1}
  MaxTurn = 1
  MaxFollowUps = 0
  MayFail = FALSE
INVARIANTS NoUnmanagedRunIsBound
CHECK_DEADLOCK FALSE
