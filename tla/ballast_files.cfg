SPECIFICATION FairSpec
CONSTANTS
  Procs = {daemon, command}
  Daemon = daemon
  NoProc = NoProc
  MaxIndex = 2
  Confs <- SmallConfs
INVARIANTS
  TypeOK
  ProvisionIsComplete
  InventoryIsFresh
  NoTornFile
PROPERTIES
  LockIsReleased
