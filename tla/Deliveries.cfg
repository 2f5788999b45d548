SPECIFICATION DSpec
CONSTANTS
  c1 = c1
  c2 = c2
  Call = {c1, c2}
  Confirmation = {c1, c2}
  banner = banner
  poster = poster
  Content = {banner, poster}
  MaxTurn = 2
  MaxCrashes = 1
  r1 = r1
  r2 = r2
  Request = {r1, r2}
  b1 = b1
  b2 = b2
  Binding = {b1, b2}
  NoBinding = NoBinding
  MaxDeliveries = 2
  MaxOther = 1
  MaxReopens = 1
SYMMETRY Symmetry
INVARIANTS Types OmittedWasDelivered SentIsRecorded NeverRebound ReturnedIsExplained
PROPERTIES LateLeavesNewer
CHECK_DEADLOCK FALSE
