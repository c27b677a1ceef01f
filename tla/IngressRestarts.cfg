\* Two crashes, each restart after the idle time; batches of two; fair scheduling.
SPECIFICATION FairSpec
CONSTANTS
  Schedules <- OneSchedule
  Payloads <- NoCaution
  ReadCount = 2
  ReclaimCount = 2
  PatientRestart = TRUE
  MaxEntries = 3
  MaxCrashes = 2
  MaxShutdowns = 0
  MaxFailures = 0
  MaxTrims = 1
INVARIANTS TypeOK NoHalfRegistration
PROPERTIES NewestWins EveryEntryAcked
CHECK_DEADLOCK FALSE
