SPECIFICATION FairSpec
CONSTANTS
  Queries <- MCQueries
  Layouts <- MCLayouts
  PageSize = 2
  defaultQueryLimit = 2
  MaxPages = 3
  Solver = TRUE
  SolveTimeout = 3
  RequestTimeout = 2
INVARIANTS
  BlockReported
  EmptyIsEvidenced
  CollectedKept
  PaidTokenUsed
PROPERTIES
  EverySearchEnds
