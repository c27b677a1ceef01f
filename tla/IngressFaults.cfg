\* Every payload and every fault once; the bounds stop the environment.
SPECIFICATION Spec
CONSTANTS
  Schedules <- OneSchedule
  Payloads <- Everything
  ReadCount = 2
  ReclaimCount = 2
  PatientRestart = FALSE
  MaxEntries = 3
  MaxCrashes = 1
  MaxShutdowns = 1
  MaxFailures = 1
  MaxTrims = 1
INVARIANTS HandledBeforeAck
PROPERTIES OnlyPassedOverwrite
CHECK_DEADLOCK FALSE
