CONSTANTS
  go = go
  pkg = pkg
  cmd = cmd
  fmt = fmt
  Url <- MCUrl
  Root = go
  Web <- Canned
  Trees <- NoTrees
  MaxDepth = 4
SPECIFICATION CrawlFairSpec
PROPERTY Returns
