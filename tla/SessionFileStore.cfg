SPECIFICATION FairSpec
CONSTANTS
  Process = {p1, p2}
  Change = {c1, c2}
  Free = Free
  Orphan = Orphan
  Torn = Torn
  NoTemp = NoTemp
INVARIANTS ConflictMeansUnsaved
PROPERTIES Implements EveryCallAnswers
CHECK_DEADLOCK FALSE
