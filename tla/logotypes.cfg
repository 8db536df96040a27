SPECIFICATION Spec
CONSTANTS
  o1 = o1  o2 = o2  l1 = l1  r1 = r1  r2 = r2  r3 = r3
  Orgs <- MCOrgs
  OldLogos = {l1}
  Requests <- MCRequests
  Readers = {p1}
  Nil = Nil
SYMMETRY Alike
INVARIANTS TypeOK OrphanOnlyByOverlap PictureShown EntryDropped
PROPERTY LogotypeKept
CHECK_DEADLOCK FALSE
