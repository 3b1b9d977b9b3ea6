CONSTANTS
  p1 = p1
  p2 = p2
  p3 = p3
  us = us
  eu = eu
  Proxies = {p1, p2, p3}
  Tags = {us, eu}
  Layouts <- MCLayouts
  Users = {u1, u2}
  NoProxy = NoProxy
  FailureThreshold = 2
  Quarantine = 2
  Cooldown = 1
SPECIFICATION FairHSpec
PROPERTIES
  RevivalIsEarned
  ConsecutiveServesDiffer
  DisjointQuarantineRefuses
  ExhaustedPoolRecovers
