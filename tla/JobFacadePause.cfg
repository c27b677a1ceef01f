\* One unit, one handler at a time, no fault: a migration that keeps the jobs.
SPECIFICATION FairSpec
CONSTANTS
  c1 = c1
  Ids = {i}
  Clients = {c1}
  Absent = Absent
  Keep = Keep
  Asked <- KeepJobs
  MaxHalf = 1
  MaxFailures = 0
PROPERTY PausedGoesQuiet
