SPECIFICATION Spec
CONSTANTS
  Runs = {r1}
  NumTargets = 2
  NumPerspectives = 2
  NumFindings = 1
  RecheckSettings = {TRUE, FALSE}
  Endpoints = {e1, e2}
  Versions = {v1, v2}
SYMMETRY Symmetry
INVARIANTS
  UnitsInHand
  FinishedMeansFinished
  WorksAsPinned
PROPERTIES
  SettledStaysSettled
