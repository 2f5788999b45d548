SPECIFICATION Spec
CONSTANTS
  Process = {p1, p2}
  Id = {i1, i2}
  Binding = {b1, b2}
  Unknown = unknown
  Done = done
  Pending = inProgress
  Outcome = {unknown, done, inProgress}
  NoEntry = NoEntry
  MaxRevision = 3
  MaxRemovals = 1
SYMMETRY Symmetry
PROPERTIES Implements OutcomeKeptUntilSaved StartedByNewcomers
