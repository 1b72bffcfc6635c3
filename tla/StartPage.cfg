SPECIFICATION FairSpec
CONSTANTS
  Versions = {v1, v2}
  None = None
  MaxStarts = 2
  MaxFaults = 2
  MaxLeaves = 1
CHECK_DEADLOCK FALSE
INVARIANTS
  RunsAreAsAsked
  ShownIsStored
  RunsHaveManuscripts
PROPERTIES
  SendingEnds
