SPECIFICATION Spec
CONSTANTS
  w1 = w1  w2 = w2  Manual = Manual  NoJob = NoJob  Nobody = Nobody
  Workers <- TwoWorkers
  MaxRequests = 2
  N = 2
  Weight <- Weights
  BatchSize = 1
  Concurrency = 1
  DailyLimit = 1
  ManualAfterScheduled = TRUE
  ScheduleInitial = FALSE
  Answers <- SuccessOrFailure
  Interval = 1
  MaxDay = 1
  MaxAttempts = 2
  MaxFaults = 1
  MaxUserJobs = 0
SYMMETRY Symmetry
CHECK_DEADLOCK FALSE
INVARIANTS
  TypeOK
  OneRunAtATime
  FirstRunIsClean
PROPERTIES
  DayLimitKept
