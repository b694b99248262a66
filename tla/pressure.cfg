SPECIFICATION FairSpec
CONSTANTS
  Frees = {1, 2, 4, 5, 6, 8, 9}
  Bands <- MCBands
  Hysteresis = 1
  Observations <- MCObservations
  MaxRateError = 30
  MinConservative = 50
  WindowSize = 4
  MinObservations = 2
  RecoveryCleanWindows = 3
  Reward = 2
  MildPenalty = 1
  FullPenalty = 2
  AlarmAt = 1
  MaxCredit = 1
  MaxEvidence = 3
INVARIANTS
  LevelIsNotBetter
  DriftIsCaught
PROPERTIES
  LevelSettles
  TrustReturns
