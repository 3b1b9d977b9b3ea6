\* Three requests for one capability: two failures open the breaker while the
\* third request is still running. No symmetry: it is unsound for liveness.
CONSTANTS
  Keys = {google_search}
  Callers = {c1, c2, c3}
  FailureThreshold = 2
  SuccessThreshold = 2
  RecoveryTimeout = 2
SPECIFICATION FairHSpec
PROPERTIES
  OpensOnConsecutiveFailures
  ClosesOnConsecutiveSuccesses
  StaysOpenForTimeout
  RecoveredEngineCloses
