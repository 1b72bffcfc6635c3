SPECIFICATION FairSpec
CONSTANTS
  Runs = {r1, r2}
  NumTargets = 1
  NumPerspectives = 1
  NumFindings = 0
  RecheckSettings = {TRUE}
  Endpoints = {e1}
  Versions = {v1}
PROPERTIES
  RunsComeToRest
