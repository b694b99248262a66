---------------------------- MODULE CanaryBudget ----------------------------
(***************************************************************************)
(* How many deletions Canary mode really lets through per hour.  The       *)
(* engine counts approvals in a tumbling hour that restarts at the first   *)
(* eligible candidate met after it ran out; recent[k] counts the approvals *)
(* of the last k ticks, the current one included, and recent[HourTicks] is *)
(* what an operator would count.                                           *)
(***************************************************************************)
EXTENDS PolicyEngine

VARIABLE recent     \* history: canary approvals of the last k ticks, for each k

Budgets == { c.max_canary_deletes_per_hour : c \in Configs }

\* The budget is a machine integer, so some configuration has the largest.
ASSUME BudgetAssumption == \E m \in Budgets : \A b \in Budgets : b <= m

CanaryApprovals == IF decision'.mode = "Canary" THEN decision'.approved ELSE 0

BudgetInit == Init /\ recent = [k \in 1 .. HourTicks |-> 0]

Evaluated ==
  \E batch \in Batches, guard \in SharedGuards :
    /\ ExecutorEvaluate(batch, guard)
    /\ recent' = [k \in 1 .. HourTicks |-> recent[k] + CanaryApprovals]

Aged ==
  /\ TimePasses
  /\ recent' = [k \in 1 .. HourTicks |-> IF k = 1 THEN 0 ELSE recent[k - 1]]

Managed ==
  /\ \/ \E level \in Levels, guard \in Guards : MonitorTick(level, guard)
     \/ \E cfg \in Configs : ReloadConfig(cfg)
     \/ Promote
     \/ Demote
     \/ \E reason \in FallbackReason : RequestFallback(reason)
  /\ UNCHANGED recent

BudgetNext == Evaluated \/ Aged \/ Managed

BudgetSpec == BudgetInit /\ [][BudgetNext]_<<vars, recent>>

\* The history changes nothing of the engine, whose fairness it keeps.
BudgetFairSpec == BudgetSpec /\ MonitorFairness

LargestBudget == CHOOSE m \in Budgets : \A b \in Budgets : b <= m

\* Whatever mode changes, fallbacks and reloads happen in between, an hour never
\* sees more than two budgets of canary approvals: the counter survives leaving
\* and re-entering Canary mode, and two rotations are an hour apart.
TwoBudgetsPerHour == recent[HourTicks] <= 2 * LargestBudget

=============================================================================
