\* One unit: an admin who writes jobs, another who migrates, polls, a call that raises.
SPECIFICATION FairSpec
CONSTANTS
  c1 = c1
  Ids = {i}
  Clients = {c1, c2}
  Absent = Absent
  Keep = Keep
  Asked <- Beside
  MaxHalf = 1
  MaxFailures = 1
PROPERTY PollCatchesUp
