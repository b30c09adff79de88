SPECIFICATION FairJobsSpec
CONSTANTS
  slow = slow
  often = often
  off = off
  Jobs = {slow, often, off}
  JobList <- MCJobList
  Enabled = {slow, often}
  Interval <- MCInterval
  Lease <- MCLease
  WorkerTriggers = {w1}
  ManualTriggers = {m1}
  Forced = {}
  CallDelay = 1
  RunsFitLease = TRUE
  MaxFaults = 2
  Never = Never
  Free = Free
INVARIANT OneRunAtATime
PROPERTY SuccessesAreSpaced
PROPERTY EveryJobRuns
