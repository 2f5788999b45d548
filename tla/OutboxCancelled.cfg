SPECIFICATION FairSpec
CONSTANTS
  Host = {h1}
  Turn = {t1}
  Surroundings <- Cancelled
  NoSave = NoSave
PROPERTIES UnsavedGetsSaved
CHECK_DEADLOCK FALSE
