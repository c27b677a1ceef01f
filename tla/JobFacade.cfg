\* One unit: an admin, another who pauses and migrates, polls, a call that raises.
SPECIFICATION Spec
CONSTANTS
  c1 = c1
  Ids = {i}
  Clients = {c1, c2}
  Absent = Absent
  Keep = Keep
  Asked <- Contended
  MaxHalf = 1
  MaxFailures = 1
INVARIANTS TypeOK OncePerPoll RegistryObeys 
PROPERTY PollIsFaithful
