\* A response of up to three pieces in either format.
SPECIFICATION FairStream
CONSTANT MaxPieces = 3
INVARIANTS ExecutableIsRecorded
PROPERTIES LateNeverActs LoopGetsAnswer
CHECK_DEADLOCK FALSE
