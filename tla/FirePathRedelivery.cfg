\* One kick, one crash: the redelivery comes in a later minute.
SPECIFICATION Spec
CONSTANTS
  Schedules <- PlainSchedules
  Jobs <- PlainJobs
  Bindings <- OneBinding
  NoSchedule = NoSchedule
  TicksPerMinute = 1
  DedupeTtl = 2
  MaxLag = 1
  IdleTimeout = 1
  MaxTick = 1
  MaxSends = 1
  MaxCrashes = 1
  MaxFailures = 0
  MaxGlitches = 0
INVARIANT OncePerDueMinute
