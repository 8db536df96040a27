SPECIFICATION Spec
CONSTANTS
  a = a  b = b  t1 = t1  t2 = t2
  e1 = e1  e2 = e2  e3 = e3  x1 = x1
  Edits <- MCEdits
  Deletions = {x1}
  Types <- MCTypes
  OldDocs = {a}
  Old = Old  Nil = Nil
SYMMETRY Alike
INVARIANTS TypeOK OnePdf TwoActualOnlyByOverlap DeletionNotRefused
CHECK_DEADLOCK FALSE
