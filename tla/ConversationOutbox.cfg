SPECIFICATION Spec
CONSTANTS
  Host = {h1, h2}
  Turn = {t1, t2}
  Surroundings <- FaultyOrShared
  NoSave = NoSave
SYMMETRY Symmetry
INVARIANTS TypeOK NothingIsLost HubAgrees
CHECK_DEADLOCK FALSE
