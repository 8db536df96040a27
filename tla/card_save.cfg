SPECIFICATION Spec
CONSTANTS
  d1 = d1  d2 = d2  s1 = s1  s2 = s2  s3 = s3
  OldRows <- MCOldRows
  OldEntities = {e1}
  Saves <- MCSaves
  Fields = {f1}  AtOnce = 2
  Old = Old  Nil = Nil
SYMMETRY Alike
INVARIANTS TypeOK StrayOnlyByOverlap
PROPERTY LoneSaveExact
CHECK_DEADLOCK FALSE
