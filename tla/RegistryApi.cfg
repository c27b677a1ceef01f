\* Every kind of request, two handlers with nothing to keep them apart, a failure.
SPECIFICATION Spec
CONSTANTS
  Clients = {c1, c2}
  Schedules = {s1, s2}
  Bindings = {b1, b2}
  Triggers = {t}
  Data = {d}
  Absent = Absent
  Keep = Keep
  Bad = Bad
  Asked <- Contended
  MaxFailures = 1
SYMMETRY Alike
INVARIANTS TypeOK OnlyRacesOrphan
PROPERTIES OnlyRacesRevive KeepsPromise
