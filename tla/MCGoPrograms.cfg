CONSTANTS
  go = go
  pkg = pkg
  cmd = cmd
  fmt = fmt
  Url <- MCUrl
  Root = go
  Web <- SitesAndTrees
  Trees <- MCTrees
  MaxDepth = 2
  Limit = 50
  Terms = 5
  Reader <- OnlyF1
  N = 6
  b1 = b1
  b2 = b2
  Branch <- MCBranch
  MaxReceives = 7
SPECIFICATION MCFairSpec
INVARIANTS
  SieveInv
  PrintsPrimes
  Inv
  SameSeries
  ReadAhead
  MergeInv
  OnePlace
  MergeReadAhead
  CrawlInv
  StuckIsOvercount
  Complete
PROPERTIES
  SievePrints
  SplitYields
  MergeExits
  CrawlReturns
