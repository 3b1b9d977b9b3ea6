\* Two pages on three lanes and two sites, with room for two of the lanes.
CONSTANTS
  Lanes = {sid_a, sid_b, sid_c}
  Sites = {de, fr}
  Pages = {g1, g2}
  Profiles = {windows, linux}
  NoProfile = NoProfile
  MaxLanes = 2
SYMMETRY Symmetry
SPECIFICATION HSpec
INVARIANTS
  CookiesStayInLane
PROPERTIES
  ProfileIsSticky
  ExemptionLostOnlyByOthers
  LeastRecentEvicted
