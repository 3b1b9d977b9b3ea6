\* One request after the other, with the cache and the breakers between them.
CONSTANTS
  google = google
  duck = duck
  Engines = {google, duck}
  Initialized = {google, duck}
  Breakers <- MCBreakers
  Requests <- MCRequests
  Clients = {c1}
  AllowFallback = TRUE
  MaxSize = 2
  TTL = 2
SPECIFICATION Spec
INVARIANTS
  EveryCallAccounted
  HitsFit
PROPERTIES
  EveryRequestAnswered
