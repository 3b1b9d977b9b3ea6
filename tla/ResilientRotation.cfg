\* Retries and rotation: two requests share a pool of two proxies.
CONSTANTS
  google = google
  p1 = p1
  p2 = p2
  us = us
  NoTag = NoTag
  NoProxy = NoProxy
  Tags = {us}
  ProxyThreshold = 1
  Quarantine = 1
  Cooldown = 1
  BreakerFailures = 1
  BreakerSuccesses = 1
  RecoveryTimeout = 1
  Requests = {r1, r2}
  Engines = {google}
  EngineOrder <- MCEngineOrder
  Modes = {"primary"}
  PolicyTag <- MCPolicyTag
  Proxies = {p1, p2}
  Layouts <- MCLayouts
  MaxRetries = 1
SYMMETRY Symmetry
SPECIFICATION HSpec
INVARIANTS
  PooledNeverDirect
  CallsWithinBudget
PROPERTIES
  PartsImplemented
  BurnedProxyNotReused
