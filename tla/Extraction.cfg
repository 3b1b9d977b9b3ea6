CONSTANTS
  N = 4
  Blank = {2}
  ExtractTops = {0, 2}
  MaxConcurrents = {1, 2}
  Timeout = 1
SPECIFICATION ExtractSpec
INVARIANTS
  FillInOnlyReplaces
  DeadlineSparesTop
PROPERTIES
  EveryResultAnswered
