CONSTANTS
  r1 = r1
  r2 = r2
  r3 = r3
  r4 = r4
  w1 = w1
  w2 = w2
  w3 = w3
  w4 = w4
  None = None
  Requester <- MCRequester
  Worker <- MCWorker
  Fleets <- OneToFour
  Cap = 1
SPECIFICATION HSpec
SYMMETRY Symmetric
INVARIANTS
  DamageBounded
  LeastLoaded
