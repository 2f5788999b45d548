SPECIFICATION FairSpec
CONSTANTS
  Host = {h1}
  Turn = {t1}
  Surroundings <- Steered
  NoSave = NoSave
PROPERTIES TurnGetsSynced
CHECK_DEADLOCK FALSE
