CONSTANT N = 3
SPECIFICATION FairSpec
CHECK_DEADLOCK FALSE
INVARIANTS
  Inv
  SameAsSerial
PROPERTIES
  Implements
  AllExit
