\* One schedule with one binding, a fault of each kind; a tick is a minute.
SPECIFICATION Spec
CONSTANTS
  Schedules <- PlainSchedules
  Jobs <- None
  Bindings <- OneBinding
  NoSchedule = NoSchedule
  TicksPerMinute = 1
  DedupeTtl = 2
  MaxLag = 1
  IdleTimeout = 0
  MaxTick = 2
  MaxSends = 2
  MaxCrashes = 1
  MaxFailures = 1
  MaxGlitches = 1
INVARIANTS TypeOK AtMostOnce
PROPERTIES NothingLost FiresOnce
