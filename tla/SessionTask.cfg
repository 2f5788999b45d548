SPECIFICATION TaskSpec
CONSTANTS
  Task = {t1, t2}
  Terms = {m1, m2}
  NoTask = NoTask
  NoRecord = NoRecord
  NoAnswer = NoAnswer
  MaxChanges = 1
  MaxRemovals = 1
  MaxRestarts = 1
SYMMETRY Symmetry
INVARIANTS OriginalBindingOnly
PROPERTIES AssociationIsKept FreshPermission
CHECK_DEADLOCK FALSE
