SPECIFICATION Spec
CONSTANTS
  Selection = {a, b}
  Chat = chat
  NoRecord = NoRecord
  NoCheck = NoCheck
  NoSave = NoSave
  Proof = {"ok", "unverified", "lost"}
  Faults = TRUE
  MaxGeneration = 3
  MaxRevision = 5
  MaxOthers = 1
  MaxRestarts = 1
SYMMETRY Symmetry
INVARIANTS OpenScopeIsTheChosenOne OnlyFreshProofOpens LossIsFinal
CHECK_DEADLOCK FALSE
