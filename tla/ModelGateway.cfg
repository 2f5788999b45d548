SPECIFICATION FairSpec
CONSTANTS
  Call = {c1, c2}
  Request = {r1}
  MaxTries = 2
  MaxCrashes = 1
  Reports = TRUE
INVARIANTS SentIsTheOriginal RecordedIsTrue
PROPERTIES ClosedStaysClosed CallsReturn
CHECK_DEADLOCK FALSE
