SPECIFICATION Spec
CONSTANTS
  Statuses = {"undecided", "adopt"}
  Notes = {"empty", "memo"}
  First <- MCFirst
  MaxWrites = 3
  MaxFetches = 2
  MaxFaults = 1
  MaxOthers = 1
  MaxMounts = 1
INVARIANTS
  LastChoiceWins
  FallBackIsShown
CHECK_DEADLOCK FALSE
