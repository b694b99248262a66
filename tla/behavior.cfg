SPECIFICATION FairSpec
CONSTANTS
  MemoryLevels = {"Normal", "Critical"}
  DiskLevels = {0, 1, 4}
  Hysteresis = {0, 2}
  ChannelCap = 2
  Cap = 2
INVARIANTS
  TypeOK
PROPERTIES
  SameDirectionIsSpaced
  FollowsDisk
  PressureReleases
