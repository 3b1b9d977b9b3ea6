\* Two engines: fallback endpoints and mega searches in mode any.
CONSTANTS
  google = google
  bing = bing
  p1 = p1
  p2 = p2
  us = us
  NoTag = NoTag
  NoProxy = NoProxy
  Tags = {us}
  ProxyThreshold = 1
  Quarantine = 1
  Cooldown = 1
  BreakerFailures = 1
  BreakerSuccesses = 1
  RecoveryTimeout = 1
  Requests = {r1}
  Engines = {google, bing}
  EngineOrder <- MCEngineOrder
  Modes = {"fallback", "any"}
  PolicyTag <- MCPolicyTag
  Proxies = {p1, p2}
  Layouts <- MCLayouts
  MaxRetries = 1
SPECIFICATION FairSpec
PROPERTIES
  EveryRequestAnswered
