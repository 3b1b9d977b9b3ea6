\* Two navigations on one lane while the connection, and Chrome, may be lost.
CONSTANTS
  Navs = {n1, n2}
  Closer = closer
  Profiles = {p1, p2}
  NoProfile = none
  Launches <- MCLaunches
  MaxConns = 2
SPECIFICATION FairSpec
INVARIANTS
  ListenerIsOwned
  NothingLeaks
PROPERTIES
  EveryCallReturns
