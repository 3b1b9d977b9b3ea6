\* A page saves the cookies of a lane the store does not hold, the next one
\* opens on it.
CONSTANTS
  Lanes = {sid_a, sid_b, sid_c}
  Sites = {de, fr}
  Pages = {g1, g2}
  Profiles = {windows, linux}
  NoProfile = NoProfile
  MaxLanes = 2
SYMMETRY Symmetry
SPECIFICATION HSpec
INVARIANTS
  PagesHaveProfile
