\* Timers added, removed and due while the service is stopped and restarted.
SPECIFICATION FairSpec
CONSTANTS
  NoTimer = NoTimer
  MaxId = 2
  Infinite <- Endless
  DayLen = 2
  Params <- ServiceParams
  MaxTime = 4
  MaxAdds = 2
  MaxStarts = 2
  MaxJobs = 1
INVARIANT EntriesMatchTimers
INVARIANT RunsAsAsked
INVARIANT StoppedIsQuiet
PROPERTY RemovedRunsOnceMore
PROPERTY DueTimerFires
PROPERTY StopReturns
CHECK_DEADLOCK FALSE
