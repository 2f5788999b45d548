SPECIFICATION Spec
CONSTANTS
  Selection = {a, b}
  Chat = chat
  NoRecord = NoRecord
  NoCheck = NoCheck
  NoSave = NoSave
  Proof = {"ok"}
  Faults = FALSE
  MaxGeneration = 2
  MaxRevision = 4
  MaxOthers = 0
  MaxRestarts = 0
PROPERTIES ReadsNeverClose
CHECK_DEADLOCK FALSE
