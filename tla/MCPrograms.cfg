SPECIFICATION MCSpec
CONSTANTS
  w1 = w1
  w2 = w2
  req1 = req1
  req2 = req2
  req3 = req3
  req4 = req4
  None = None
  Worker <- MCWorker
  Requester <- MCRequester
  Readable <- MCReadable
  Sends = 2
  LongMax = 3
  Lines <- MCLines
  Lists <- MCLists
  Graphs <- MCGraphs
INVARIANTS Inv NothingLeft PrintsMeaning AllSort AllExact DynProgRight
PROPERTIES Served
CHECK_DEADLOCK FALSE
