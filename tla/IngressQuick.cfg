\* A restart sooner than reclaim_min_idle_ms.
SPECIFICATION FairSpec
CONSTANTS
  Schedules <- OneSchedule
  Payloads <- Upserts
  ReadCount = 1
  ReclaimCount = 1
  PatientRestart = FALSE
  MaxEntries = 1
  MaxCrashes = 1
  MaxShutdowns = 0
  MaxFailures = 0
  MaxTrims = 0
PROPERTIES EveryEntryAcked
CHECK_DEADLOCK FALSE
