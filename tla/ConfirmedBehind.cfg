SPECIFICATION Spec
CONSTANTS
  Statuses = {"undecided", "adopt"}
  Notes = {"empty"}
  First <- MCFirst
  MaxWrites = 1
  MaxFetches = 1
  MaxFaults = 0
  MaxOthers = 0
  MaxMounts = 0
INVARIANT ConfirmedIsNewest
CHECK_DEADLOCK FALSE
