--------------------------- MODULE MCPolicyEngine ---------------------------
(***************************************************************************)
(* Small instance of PolicyEngine, with the history of CanaryBudget.       *)
(***************************************************************************)
EXTENDS CanaryBudget

Config(kill, windows, stay, canary) ==
  [kill_switch |-> kill, recovery_clean_windows |-> windows, min_fallback_secs |-> stay,
   max_canary_deletes_per_hour |-> canary, max_candidates_per_loop |-> 3,
   guard_penalty |-> 50, observe_min_interval_secs |-> 1]

\* A reload can lower both thresholds of the recovery while they are being waited for, lower
\* the budget below what the hour has already used (to none at all), and turn the kill switch
\* on and off.
MCConfigs == { Config(FALSE, 2, 2, 1), Config(FALSE, 1, 1, 0), Config(TRUE, 2, 2, 1) }

\* One batch, of which as many are approved as guard and budget let through: a candidate that
\* is not a deletion, one the guard penalty stops, and two it never stops, the last of them
\* beyond what a batch may hold.
Clear == [action |-> "Delete", loss_delete |-> 5, loss_keep |-> 30]
Weak == [action |-> "Delete", loss_delete |-> 27, loss_keep |-> 30]
Keep == [action |-> "Keep", loss_delete |-> 40, loss_keep |-> 10]

MCBatches == { <<Keep, Weak, Clear, Clear>> }
=============================================================================
