SPECIFICATION Spec
CONSTANTS
  Urls = {u1, u2}
  EnvUrl = u1
  Keys = {k1}
  EnvKey = k1
  Models = {m1}
  None = None
  MaxChecks = 3
  MaxSaves = 1
  MaxFaults = 1
  MaxVisits = 2
CHECK_DEADLOCK FALSE
INVARIANTS
  ServerAgrees
  SavedUrlShown
  QuietCheckIsCurrent
