SPECIFICATION Spec
CONSTANTS
  o1 = o1  o2 = o2
  v1 = v1  v2 = v2
  s1 = s1  s2 = s2  f1 = f1  d1 = d1
  Orgs <- MCOrgs
  Inns <- MCInns
  Saves <- MCSaves
  Refreshes <- MCRefreshes
  Deletions <- MCDeletions
  Nil = Nil  Same = Same  Old = Old  Unborn = Unborn  Gone = Gone
SYMMETRY Alike
INVARIANTS TypeOK AnswerForGroup
PROPERTY NoNewDuplicate
CHECK_DEADLOCK FALSE
