SPECIFICATION Spec
CONSTANTS
  b1 = b1  u1 = u1  u2 = u2  Nobody = Nobody  None = None
  Callers <- OneBulkTwoUsers
  Bulk <- OneBulk
  GlobalRPS = 1
  BulkRPS = 1
  DailyLimit = 2
  Reserve = 1
  Retries = 1
  Window = 3
  Gap = 1
  Delay = 1
  DayLength = 2
  MaxTime = 3
  MaxCalls = 1
  MaxFaults = 1
SYMMETRY Symmetry
CHECK_DEADLOCK FALSE
INVARIANTS
  TypeOK
  RateKept
  SentWithinBudget
  ReserveForUsers
