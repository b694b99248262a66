SPECIFICATION Spec
CONSTANTS
  Paths = {p1, p2}
  i1 = i1
  Ids = {i1, i2}
  Candidates <- MCCandidates
  NoId = NoId
  Link = Link
  RequireIdentity = TRUE
  Threshold = 2
  BreakerBase = 1
  BreakerMax = 3
  BatchLimit = 3
  Cooldowns <- MCCooldowns
  AgeCap = 2
  PruneEvery = 1
  MaxCycles = 2
SYMMETRY PathSymmetry
INVARIANTS
  RemovedIsScored
  TripsAreEarned
PROPERTIES
  TripsBackOff
  RepeatsAreSpaced
