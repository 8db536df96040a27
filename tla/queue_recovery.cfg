SPECIFICATION Spec
CONSTANTS
  j1 = j1  j2 = j2  k1 = k1  k2 = k2  u1 = u1  u2 = u2  w1 = w1  w2 = w2
  NoJob = NoJob  NoUser = NoUser  NoRec = NoRec
  Jobs <- TwoJobs
  Keys <- TwoKeys
  Users <- OneUser
  Workers <- TwoWorkers
  MaxActive = 1
  MaxRetries = 0
  MaxCrashes = 1
  MaxErrors = 1
  MaxCancels = 0
  MaxLateBeats = 1
  MaxSlowClaims = 0
SYMMETRY Symmetry
CHECK_DEADLOCK FALSE
INVARIANTS
  TypeOK
  NoDoubleExecution
  NoLostJob
  RunningRecoverable
PROPERTIES
  ImplementsLifecycle
