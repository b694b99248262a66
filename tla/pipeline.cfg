SPECIFICATION FairSpec
CONSTANTS
  ScanCap = 2
  DelCap = 1
  ReportCap = 1
  LogCap = 2
  Limits = {2}
  MaxDrops = 2
INVARIANTS
  AtMostOneLateRemoval
  DropsAreReported
PROPERTIES
  UrgentIsQueued
  ShutdownEnds
  DeadWorkerIsNoticed
  BlockedReportGetsThrough
