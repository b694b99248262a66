SPECIFICATION BudgetFairSpec
CONSTANTS
  Configs <- MCConfigs
  Batches <- MCBatches
  InitialModes = {"Observe", "Canary", "Enforce", "FallbackSafe"}
  Levels = {0, 2}
  EscalationTicks = 2
  GraceTicks = 2
  StartupTicks = 1
  HourTicks = 2
  BreachLimit = 2
  Cap = 2
INVARIANTS
  TypeOK
  NoApprovalWhenBarred
  TimersAreTrue
  TwoBudgetsPerHour
PROPERTIES
  EscalationIsJustified
  GraceIsHonoured
  RecoveryIsEarned
  FallbackIsLeft
