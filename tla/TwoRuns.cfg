SPECIFICATION Spec
CONSTANTS
  Runs = {r1, r2}
  NumTargets = 1
  NumPerspectives = 1
  NumFindings = 1
  RecheckSettings = {TRUE, FALSE}
  Endpoints = {e1}
  Versions = {v1}
SYMMETRY Symmetry
INVARIANTS
  OneRequestAtATime
  NoSendWhileUnconfirmed
  GateMatchesRows
PROPERTIES
  StopIsHonoured
  KeepsLifecycle
