\* Half-minute ticks, one minute, no fault: a schedule due at both instants.
SPECIFICATION Spec
CONSTANTS
  Schedules <- PlainSchedules
  Jobs <- None
  Bindings <- OneBinding
  NoSchedule = NoSchedule
  TicksPerMinute = 2
  DedupeTtl = 4
  MaxLag = 2
  IdleTimeout = 0
  MaxTick = 1
  MaxSends = 2
  MaxCrashes = 0
  MaxFailures = 0
  MaxGlitches = 0
PROPERTY EveryDueInstantFires
