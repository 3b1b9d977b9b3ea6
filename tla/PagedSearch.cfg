SPECIFICATION PagedSpec
CONSTANTS
  Ranking <- MCRanking
  Answered <- MCAnswered
  Clients <- MCClients
  PageSize = 2
  defaultQueryLimit = 2
  MaxQueryLimit = 4
  ScoreScale = 60
  MaxStart = 8
INVARIANTS
  WalkIsWhole
  RanksArePlaces
  MergeIsFair
  ClustersAgree
CHECK_DEADLOCK FALSE
