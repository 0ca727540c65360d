CONSTANTS
  N = 3
  d1 = d1
  d2 = d2
  Digester <- MCDigester
SPECIFICATION FairSpec
CHECK_DEADLOCK FALSE
INVARIANT Inv
PROPERTIES
  Implements
  AllExit
