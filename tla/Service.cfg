\* Two lives of the process, two failing calls; a task and a run-now on streams that
\* cross, and the deletion of two jobs.
SPECIFICATION FairSpec
CONSTANTS
  a = a
  b = b
  c = c
  t = t
  r = r
  d = d
  e = e
  Jobs = {a, b, c}
  NoTarget = NoTarget
  Target <- AcrossTargets
  Tasks = {t}
  Runs = {r}
  Deletes = {d, e}
  JobOf <- WorkJobs
  ConnectRetries = 2
  DeleteStreams = TRUE
  MaxLives = 2
  MaxFailures = 2
INVARIANTS TypeOK TasksFindConnections ClosedGuardPublishesNothing PublishedCountersExpire StreamsAreListed StopsClean
PROPERTIES StartSettles StopSettles
\* After its last life the process stays down.
CHECK_DEADLOCK FALSE
