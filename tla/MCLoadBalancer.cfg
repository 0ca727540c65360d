CONSTANTS
  r1 = r1
  r2 = r2
  r3 = r3
  r4 = r4
  w1 = w1
  w2 = w2
  None = None
  Requester <- MCRequester
  Worker <- MCWorker
  Cap = 2
SPECIFICATION FairSpec
INVARIANTS
  Inv
  WedgeNeedsCrowd
  StuckIsWedge
PROPERTIES
  WedgeForever
  Answered
