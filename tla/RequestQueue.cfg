SPECIFICATION FairSpec
CONSTANT Calls = 3
INVARIANTS
  ToldAsItWent
PROPERTIES
  EveryCallerIsTold
  ImplementsSerial
CHECK_DEADLOCK FALSE
