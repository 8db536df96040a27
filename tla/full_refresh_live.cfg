SPECIFICATION FairSpec
CONSTANTS
  w1 = w1  w2 = w2  Manual = Manual  NoJob = NoJob  Nobody = Nobody
  Workers <- TwoWorkers
  MaxRequests = 1
  N = 1
  Weight <- Weights
  BatchSize = 1
  Concurrency = 1
  DailyLimit = 1
  ManualAfterScheduled = FALSE
  ScheduleInitial = TRUE
  Answers <- SkippedOrFailure
  Interval = 1
  MaxDay = 0
  MaxAttempts = 3
  MaxFaults = 1
  MaxUserJobs = 1

CHECK_DEADLOCK FALSE
PROPERTIES
  ParentSettles
  ManualServed
