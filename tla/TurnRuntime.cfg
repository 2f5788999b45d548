SPECIFICATION FairSpec
CONSTANTS
  Assembly = {a1, a2}
  MaxTurn = 2
  MaxFollowUps = 1
  MayFail = TRUE
INVARIANTS OnlyTheLiveRunActs NoTurnIsSkipped
PROPERTIES AssemblyReturns
CHECK_DEADLOCK FALSE
