SPECIFICATION FairSpec
CONSTANTS
  Requests = {r1, r2}
  Keys = {direct, globalProxy}
  PreBound = {globalProxy}
  MaxProcesses = 1
  MaxLaunches = 3
INVARIANTS
  EveryChromeHasOneOwner
  CleanExit
PROPERTIES
  TriesUseKeptChrome
  IdleChromeStops
  ShutdownEnds
\* The process exits.
CHECK_DEADLOCK FALSE
