SPECIFICATION FairSpec
CONSTANTS
  w1 = w1  w2 = w2  Manual = Manual  NoJob = NoJob  Nobody = Nobody
  Workers <- TwoWorkers
  MaxRequests = 1
  N = 2
  Weight <- Weights
  BatchSize = 2
  Concurrency = 2
  DailyLimit = 1
  ManualAfterScheduled = FALSE
  ScheduleInitial = TRUE
  Answers <- Outcomes
  Interval = 1
  MaxDay = 0
  MaxAttempts = 3
  MaxFaults = 1
  MaxUserJobs = 0

CHECK_DEADLOCK FALSE
INVARIANTS
  CompletedIsClean
