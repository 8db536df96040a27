SPECIFICATION FairSpec
CONSTANTS
  j1 = j1  j2 = j2  k1 = k1  k2 = k2  u1 = u1  u2 = u2  w1 = w1  w2 = w2
  NoJob = NoJob  NoUser = NoUser  NoRec = NoRec
  Jobs <- OneJob
  Keys <- OneKey
  Users <- OneUser
  Workers <- TwoWorkers
  MaxActive = 1
  MaxRetries = 1
  MaxCrashes = 0
  MaxErrors = 1
  MaxCancels = 1
  MaxLateBeats = 0
  MaxSlowClaims = 0
CHECK_DEADLOCK FALSE
INVARIANTS
  TokenExclusive
  NoLostJob
  CountedPerFinish
PROPERTIES
  EveryJobFinishes
