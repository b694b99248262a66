SPECIFICATION FairSpec
CONSTANTS
  Mounts <- OnePool
  Total = 2
  Cooldowns = {1, 2}
  Interval = 2
  Levels = {1, 3, 4}
  Recommended = {0, 1}
  Cap = 2
INVARIANTS
  ReplenishAfterCooldown
  ReplenishIsSpaced
PROPERTIES
  CriticalEmptiesPool
  GreenRefills
