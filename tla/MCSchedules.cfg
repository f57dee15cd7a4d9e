SPECIFICATION FairSpec
CONSTANTS
  a1 = a1
  j1 = j1
  j2 = j2
  Accounts <- OneAccount
  Jobs <- TwoJobs
  Day = 5
  Times <- TwoTimes
  Jitters <- One
  Retries <- One
  Delay = 2
  Work = 1
  None = None
INVARIANTS
  ScheduleInv
  HeartbeatHolds
PROPERTIES
  JobsEnd
