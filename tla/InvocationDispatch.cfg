SPECIFICATION Spec
CONSTANTS
  Host = {h1, h2}
  Nobody = nobody
  MaxAttempts = 2
  MaxCalls = 2
  MaxCrashes = 1
SYMMETRY Symmetry
INVARIANTS AtMostOneInvoke ContinuesOnce
PROPERTIES OutcomeNeverRegresses NothingSentAfterTheEnd
CHECK_DEADLOCK FALSE
