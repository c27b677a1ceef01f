\* Two bindings that come and go while two kicks of their schedule fan out, and
\* the process crashes twice and a call raises, all in one minute; fair scheduling.
SPECIFICATION FairSpec
CONSTANTS
  Schedules <- PlainSchedules
  Jobs <- PlainJobs
  Bindings <- PlainBindings
  NoSchedule = NoSchedule
  TicksPerMinute = 1
  DedupeTtl = 2
  MaxLag = 1
  IdleTimeout = 0
  MaxTick = 0
  MaxSends = 2
  MaxCrashes = 2
  MaxFailures = 1
  MaxGlitches = 0
PROPERTIES IndependentDedupe EveryKickFinishes
