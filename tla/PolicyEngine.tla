---------------------------- MODULE PolicyEngine ----------------------------
(***************************************************************************)
(* The progressive-delivery policy engine of the sbh daemon                *)
(* (daemon/policy.rs).  It decides whether scored deletion candidates may  *)
(* really be deleted.  Two threads share it behind one mutex: the monitor  *)
(* thread feeds it a guard observation on every pressure tick, and the     *)
(* executor thread asks it to evaluate every batch.  A SIGHUP reload       *)
(* replaces its configuration.  Each operation runs under the lock, so it  *)
(* is one action here; an operation that calls another one is composed     *)
(* from operators on the engine's record.                                  *)
(*                                                                         *)
(* Time.  An Instant kept by the engine is modelled by its age in ticks.   *)
(* The code only asks whether an age has reached a threshold, so ages stop *)
(* at Cap, which is at least every threshold: nothing is lost.             *)
(***************************************************************************)
EXTENDS Integers, FiniteSets, Sequences

CONSTANTS
  Configs,          \* policy configurations a start or a reload can bring
  InitialModes,     \* values of PolicyConfig.initial_mode considered
  Levels,           \* pressure levels the monitor can report
  Batches,          \* candidate batches the executor can submit
  EscalationTicks,  \* FALLBACK_EMERGENCY_ESCALATION_SECS
  GraceTicks,       \* EMERGENCY_GRACE_PERIOD_SECS
  StartupTicks,     \* STARTUP_CALIBRATION_GRACE_SECS
  HourTicks,        \* the canary budget's hour
  BreachLimit,      \* 100 consecutive breach windows
  Cap               \* bound on ages and on the clean-window count

(***************************************************************************)
(* Modes, levels and reasons.                                              *)
(***************************************************************************)
ActiveMode == {"Observe", "Canary", "Enforce", "FallbackSafe"}

AllowsDeletion(mode) == mode \in {"Canary", "Enforce"}

Green == 0
Yellow == 1
Orange == 2
Red == 3
Critical == 4
PressureLevel == Green .. Critical

FallbackReason == {"CalibrationBreach", "GuardrailDrift", "PolicyError", "KillSwitch"}
NoReason == "None"

NoInstant == -1
Age == NoInstant .. Cap

\* What the policy reads of GuardDiagnostics.  "mature" is observation_count >= 30.
\* The guard never reports Pass with an alarm, nor Unknown once it is mature.
Guards ==
  { g \in [status : {"Pass", "Fail", "Unknown"}, alarm : BOOLEAN, mature : BOOLEAN] :
      /\ g.status = "Pass" => ~g.alarm
      /\ g.status = "Unknown" => ~g.mature }

\* What the executor hands to evaluate(): a snapshot that is there and not Unknown.
NoGuard == [status |-> "Absent", alarm |-> FALSE, mature |-> FALSE]
SharedGuards == { g \in Guards : g.status # "Unknown" } \cup {NoGuard}

Candidate == [action : {"Delete", "Keep", "Review"}, loss_delete : Nat, loss_keep : Nat]

PolicyConfig ==
  [kill_switch : BOOLEAN, recovery_clean_windows : 0 .. Cap, min_fallback_secs : 0 .. Cap,
   max_canary_deletes_per_hour : Nat, max_candidates_per_loop : Nat,
   guard_penalty : Nat, observe_min_interval_secs : 0 .. Cap]

ASSUME BoundAssumption ==
  /\ Cap \in Nat
  /\ EscalationTicks \in 0 .. Cap
  /\ GraceTicks \in 0 .. Cap
  /\ StartupTicks \in 0 .. Cap
  /\ HourTicks \in 1 .. Cap
  /\ BreachLimit \in Nat \ {0}

ASSUME InputAssumption ==
  /\ Configs \subseteq PolicyConfig
  /\ InitialModes \subseteq ActiveMode
  /\ Levels \subseteq PressureLevel
  /\ Batches \subseteq Seq(Candidate)

VARIABLES
  engine,           \* the fields of PolicyEngine
  decision,         \* the last PolicyDecision handed to the executor
  fallback_for,     \* history: ticks since the mode last became FallbackSafe
  escalated_for,    \* history: ticks since the last emergency escalation
  clean_run         \* history: clean windows since the last dirty one or fallback entry

vars == <<engine, decision, fallback_for, escalated_for, clean_run>>

MinOf(a, b) == IF a <= b THEN a ELSE b

(***************************************************************************)
(* Private helpers of the engine.                                          *)
(***************************************************************************)

\* enter_fallback: refused inside the emergency grace period unless the reason
\* is the kill switch; a calibration breach is refused in the startup grace
\* period too.  The order of the two tests and the clearing of an expired
\* escalation marker are the code's.
InGrace(e) == e.escalated_age # NoInstant /\ e.escalated_age < GraceTicks

ClearExpiredGrace(e, reason) ==
  IF reason = "KillSwitch" THEN e ELSE [e EXCEPT !.escalated_age = NoInstant]

\* Mutant of FallBack: the clean-window count survives the fallback entry.
FallBackKeepingCount(e, reason) ==
  [e EXCEPT !.mode = "FallbackSafe",
            !.pre_fallback_mode = e.mode,
            !.fallback_reason = reason,
            !.fallback_age = 0]

FallBack(e, reason) ==
  [e EXCEPT !.mode = "FallbackSafe",
            !.pre_fallback_mode = e.mode,
            !.fallback_reason = reason,
            !.fallback_age = 0,
            !.clean = 0]

\* Mutants of Refused: the grace period also stops the kill switch; the grace
\* period is not looked at.
RefusedInAnyGrace(e, reason) == e.mode = "FallbackSafe" \/ InGrace(e)
RefusedOutsideGrace(e, reason) == e.mode = "FallbackSafe"

Refused(e, reason) == e.mode = "FallbackSafe" \/ (reason # "KillSwitch" /\ InGrace(e))

EnterFallback(e, reason) ==
  IF Refused(e, reason) THEN e
  ELSE IF reason = "CalibrationBreach" /\ e.started_age < StartupTicks
       THEN [ClearExpiredGrace(e, reason) EXCEPT !.breach = 0]
       ELSE FallBack(ClearExpiredGrace(e, reason), reason)

\* recover_from_fallback: a recovery never lands in Enforce (the canary gate).
RecoverFromFallback(e) ==
  [e EXCEPT !.mode = IF e.pre_fallback_mode = "Enforce" THEN "Canary" ELSE e.pre_fallback_mode,
            !.fallback_reason = NoReason,
            !.fallback_age = NoInstant]

\* check_guard_triggers
CheckGuardTriggers(e, guard) ==
  IF guard.alarm /\ guard.mature /\ e.mode # "FallbackSafe" /\ e.pressure >= Orange
  THEN EnterFallback(e, "GuardrailDrift")
  ELSE e

(***************************************************************************)
(* enforce_policy and evaluate.                                            *)
(***************************************************************************)

\* The guard penalty is scaled down as pressure rises (in percent).
PenaltyScale(level) ==
  CASE level \in {Green, Red, Critical} -> 0
    [] level = Yellow -> 25
    [] level = Orange -> 10

\* Does the candidate reach the canary budget test of enforce_policy?
PassesGuard(e, c, guard) ==
  /\ c.action = "Delete"
  /\ AllowsDeletion(e.mode)
  /\ (e.pressure >= Yellow /\ guard.status \in {"Fail", "Unknown"}) =>
        100 * c.loss_delete + e.config.guard_penalty * PenaltyScale(e.pressure)
          < 100 * c.loss_keep

Eligible(e, batch, guard) ==
  { i \in 1 .. MinOf(Len(batch), e.config.max_candidates_per_loop) :
      PassesGuard(e, batch[i], guard) }

\* Mutant of RotateCanaryHour: the new hour is not started.
RotateCountOnly(e) ==
  IF e.hour_age >= HourTicks THEN [e EXCEPT !.canary_deletes = 0] ELSE e

\* rotate_canary_hour runs when an eligible candidate is met in Canary mode.
RotateCanaryHour(e) ==
  IF e.hour_age >= HourTicks THEN [e EXCEPT !.canary_deletes = 0, !.hour_age = 0] ELSE e

\* The budget left to Canary: none when a reload lowered it below what is used.
CanaryBudgetLeft(e) ==
  IF e.canary_deletes >= e.config.max_canary_deletes_per_hour THEN 0
  ELSE e.config.max_canary_deletes_per_hour - e.canary_deletes

CheckKillSwitch(e) ==
  IF e.config.kill_switch /\ e.mode # "FallbackSafe" THEN EnterFallback(e, "KillSwitch") ELSE e

Gate(e, guard) == CheckGuardTriggers(CheckKillSwitch(e), guard)

\* The engine after the candidate loop of evaluate, and how many it approved.
Approved(e, n) ==
  IF e.mode = "Canary" THEN MinOf(n, CanaryBudgetLeft(RotateCanaryHour(e))) ELSE n

AfterLoop(e, n) ==
  IF e.mode = "Canary" /\ n > 0
  THEN [RotateCanaryHour(e) EXCEPT !.canary_deletes = @ + Approved(e, n)]
  ELSE e

(***************************************************************************)
(* observe_window, check_emergency_escalation, update_config.              *)
(***************************************************************************)
IsClean(e, guard) ==
  \/ guard.status = "Pass" /\ ~guard.alarm
  \/ e.pressure = Green /\ guard.status # "Fail"

\* Observations closer together than observe_min_interval_secs are dropped.
RateLimited(e) ==
  /\ e.config.observe_min_interval_secs > 0
  /\ e.observe_age # NoInstant
  /\ e.observe_age < e.config.observe_min_interval_secs

\* Mutant of Recovers: the minimum stay is not looked at.
RecoversWithoutStay(e) ==
  /\ e.mode = "FallbackSafe"
  /\ e.clean >= e.config.recovery_clean_windows

Recovers(e) ==
  /\ e.mode = "FallbackSafe"
  /\ e.clean >= e.config.recovery_clean_windows
  /\ e.fallback_age = NoInstant \/ e.fallback_age >= e.config.min_fallback_secs

\* The clean counter only matters up to the threshold it is compared with, so
\* it stops at Cap; the code's usize never wraps in practice.
CleanWindow(e) ==
  LET c == [e EXCEPT !.clean = MinOf(@ + 1, Cap), !.breach = 0]
  IN  IF Recovers(c) THEN RecoverFromFallback(c) ELSE c

\* Mutant of DirtyWindow: the breach counter is not reset at its limit.
DirtyWindowUnbounded(e, guard) ==
  [e EXCEPT !.clean = 0,
            !.breach = IF guard.status = "Fail" /\ e.pressure # Green THEN @ + 1
                       ELSE IF @ > 0 THEN @ - 1 ELSE 0]

DirtyWindow(e, guard) ==
  [e EXCEPT !.clean = 0,
            !.breach = IF guard.status = "Fail" /\ e.pressure # Green
                       THEN (@ + 1) % BreachLimit
                       ELSE IF @ > 0 THEN @ - 1 ELSE 0]

ObserveWindow(e, guard) ==
  LET o == IF e.config.observe_min_interval_secs > 0
           THEN [e EXCEPT !.observe_age = 0] ELSE e
  IN  IF RateLimited(e) THEN e
      ELSE IF IsClean(o, guard) THEN CleanWindow(o) ELSE DirtyWindow(o, guard)

\* Mutants of Escalates: one tick too soon; only from Red up.
EscalatesEarly(e) ==
  /\ e.mode = "FallbackSafe"
  /\ e.pressure >= Yellow
  /\ e.fallback_reason # "KillSwitch"
  /\ e.fallback_age # NoInstant
  /\ e.fallback_age + 1 >= EscalationTicks

EscalatesAtRed(e) ==
  /\ e.mode = "FallbackSafe"
  /\ e.pressure >= Red
  /\ e.fallback_reason # "KillSwitch"
  /\ e.fallback_age # NoInstant
  /\ e.fallback_age >= EscalationTicks

Escalates(e) ==
  /\ e.mode = "FallbackSafe"
  /\ e.pressure >= Yellow
  /\ e.fallback_reason # "KillSwitch"
  /\ e.fallback_age # NoInstant
  /\ e.fallback_age >= EscalationTicks

CheckEmergencyEscalation(e) ==
  IF Escalates(e)
  THEN [e EXCEPT !.mode = "Enforce", !.fallback_reason = NoReason, !.fallback_age = NoInstant,
                 !.escalated_age = 0, !.breach = 0, !.clean = 0]
  ELSE e

EngageKillSwitch(e) ==
  CASE e.mode # "FallbackSafe" -> EnterFallback(e, "KillSwitch")
    [] e.mode = "FallbackSafe" /\ e.fallback_reason = NoReason ->
         [e EXCEPT !.fallback_reason = "KillSwitch"]
    [] e.mode = "FallbackSafe" /\ e.fallback_reason # NoReason -> e

ReleaseKillSwitch(e) ==
  IF e.mode = "FallbackSafe" /\ e.fallback_reason = "KillSwitch"
  THEN RecoverFromFallback(e) ELSE e

UpdateConfig(e, new) ==
  LET c == [e EXCEPT !.config = new]
  IN  CASE ~e.config.kill_switch /\ new.kill_switch -> EngageKillSwitch(c)
        [] e.config.kill_switch /\ ~new.kill_switch -> ReleaseKillSwitch(c)
        [] e.config.kill_switch = new.kill_switch -> c

(***************************************************************************)
(* The engine's life: new(), then calls from the daemon's threads.         *)
(***************************************************************************)
FreshEngine(cfg, mode) ==
  [config |-> cfg, mode |-> mode, pre_fallback_mode |-> mode,
   fallback_reason |-> NoReason, fallback_age |-> NoInstant,
   escalated_age |-> NoInstant, started_age |-> 0,
   clean |-> 0, breach |-> 0,
   canary_deletes |-> 0, hour_age |-> 0,
   pressure |-> Green, observe_age |-> NoInstant]

New(cfg, mode) ==
  IF cfg.kill_switch THEN EngageKillSwitch(FreshEngine(cfg, mode)) ELSE FreshEngine(cfg, mode)

NoDecision == [mode |-> "Observe", approved |-> 0, kill_switch |-> FALSE]

Init ==
  /\ \E cfg \in Configs, mode \in InitialModes : engine = New(cfg, mode)
  /\ decision = NoDecision
  /\ fallback_for = 0
  /\ escalated_for = Cap
  /\ clean_run = 0

\* The history variables, from the mode change a step makes.
Entered == engine.mode # "FallbackSafe" /\ engine'.mode = "FallbackSafe"
Escalated == engine.mode = "FallbackSafe" /\ engine'.mode = "Enforce"

TrackModes ==
  /\ fallback_for' = IF Entered THEN 0 ELSE fallback_for
  /\ escalated_for' = IF Escalated THEN 0 ELSE escalated_for

TrackCleanRun == clean_run' = IF Entered THEN 0 ELSE clean_run

\* One pressure tick of the monitor thread: three calls under one lock.
MonitorTick(level, guard) ==
  LET e == [engine EXCEPT !.pressure = level]
  IN  /\ engine' = CheckEmergencyEscalation(ObserveWindow(e, guard))
      /\ TrackModes
      /\ clean_run' = IF RateLimited(e) THEN clean_run
                      ELSE IF IsClean(e, guard) THEN MinOf(clean_run + 1, Cap) ELSE 0
      /\ UNCHANGED decision

\* The executor gates one batch through evaluate().
ExecutorEvaluate(batch, guard) ==
  LET e == Gate(engine, guard)
      n == Cardinality(Eligible(e, batch, guard))
  IN  /\ engine' = AfterLoop(e, n)
      /\ decision' = [mode |-> e.mode, approved |-> Approved(e, n),
                      kill_switch |-> e.config.kill_switch]
      /\ TrackModes
      /\ TrackCleanRun

\* SIGHUP with a changed configuration file.
ReloadConfig(cfg) ==
  /\ engine' = UpdateConfig(engine, cfg)
  /\ TrackModes
  /\ TrackCleanRun
  /\ UNCHANGED decision

\* promote() and demote(): public operations nothing in the daemon calls.
Promote ==
  /\ engine.mode \in {"Observe", "Canary"}
  /\ engine' = [engine EXCEPT !.mode = IF engine.mode = "Observe" THEN "Canary" ELSE "Enforce"]
  /\ UNCHANGED <<decision, fallback_for, escalated_for, clean_run>>

Demote ==
  /\ engine.mode \in {"Enforce", "Canary"}
  /\ engine' = [engine EXCEPT !.mode = IF engine.mode = "Enforce" THEN "Canary" ELSE "Observe"]
  /\ UNCHANGED <<decision, fallback_for, escalated_for, clean_run>>

\* enter_fallback() as a public operation, for the reasons of its callers.
RequestFallback(reason) ==
  /\ engine' = EnterFallback(engine, reason)
  /\ TrackModes
  /\ TrackCleanRun
  /\ UNCHANGED decision

Older(age) == IF age = NoInstant THEN age ELSE MinOf(age + 1, Cap)

TimePasses ==
  /\ engine' = [engine EXCEPT !.fallback_age = Older(@), !.escalated_age = Older(@),
                              !.started_age = Older(@), !.hour_age = Older(@),
                              !.observe_age = Older(@)]
  /\ fallback_for' = Older(fallback_for)
  /\ escalated_for' = Older(escalated_for)
  /\ UNCHANGED <<decision, clean_run>>

\* What the daemon's threads do.
DaemonNext ==
  \/ \E level \in Levels, guard \in Guards : MonitorTick(level, guard)
  \/ \E batch \in Batches, guard \in SharedGuards : ExecutorEvaluate(batch, guard)
  \/ \E cfg \in Configs : ReloadConfig(cfg)
  \/ TimePasses

\* All public operations, whoever calls them.
Next ==
  \/ DaemonNext
  \/ Promote
  \/ Demote
  \/ \E reason \in FallbackReason : RequestFallback(reason)

Spec == Init /\ [][Next]_vars

(***************************************************************************)
(* Fairness.  The monitor loop ticks for as long as the daemon runs and    *)
(* time passes; nothing obliges the executor or the operator to act.       *)
(***************************************************************************)
MonitorFairness ==
  /\ WF_vars(TimePasses)
  /\ WF_vars(\E level \in Levels, guard \in Guards : MonitorTick(level, guard))

FairSpec == Spec /\ MonitorFairness

-----------------------------------------------------------------------------
(***************************************************************************)
(* Properties.                                                             *)
(***************************************************************************)
EngineType ==
  [config : Configs, mode : ActiveMode, pre_fallback_mode : ActiveMode,
   fallback_reason : FallbackReason \cup {NoReason}, fallback_age : Age,
   escalated_age : Age, started_age : 0 .. Cap, clean : 0 .. Cap,
   breach : 0 .. BreachLimit - 1, canary_deletes : Nat, hour_age : 0 .. Cap,
   pressure : PressureLevel, observe_age : Age]

DecisionType == [mode : ActiveMode, approved : Nat, kill_switch : BOOLEAN]

\* The types of the variables; the breach counter stays below its limit.
TypeOK ==
  /\ engine \in EngineType
  /\ decision \in DecisionType
  /\ fallback_for \in 0 .. Cap
  /\ escalated_for \in 0 .. Cap
  /\ clean_run \in 0 .. Cap

\* However the two threads, reloads and timers interleave, a batch evaluated
\* while the kill switch is on gets no candidate approved, and neither does one
\* evaluated in Observe or FallbackSafe: the kill switch beats the emergency
\* grace period, recovery and promotion.
NoApprovalWhenBarred ==
  decision.approved > 0 => ~decision.kill_switch /\ AllowsDeletion(decision.mode)

\* The escalation that breaks the fallback deadlock fires only after the engine
\* has really been in FallbackSafe for the whole threshold, under Yellow or
\* worse, and never out of a kill-switch fallback.
EscalationIsJustified ==
  [][Escalated => /\ fallback_for >= EscalationTicks
                  /\ engine'.pressure >= Yellow
                  /\ engine.fallback_reason # "KillSwitch"]_vars

\* After an escalation the engine stays out of FallbackSafe for the whole grace
\* period; only the kill switch may send it back.
GraceIsHonoured ==
  [][Entered /\ escalated_for < GraceTicks => engine'.fallback_reason = "KillSwitch"]_vars

\* The canary gate: FallbackSafe is left for Canary or Observe only when the
\* operator released the kill switch, or after the required run of clean
\* windows and the minimum stay; it is left for Enforce only by escalation.
RecoveryIsEarned ==
  [][engine.mode = "FallbackSafe" /\ engine'.mode \in {"Observe", "Canary"} =>
       \/ engine.config.kill_switch /\ ~engine'.config.kill_switch
       \/ /\ clean_run' >= engine.config.recovery_clean_windows
          /\ fallback_for >= engine.config.min_fallback_secs]_vars

\* The inductive strengthening behind the properties above: the engine's own
\* timers and counters never run ahead of what really happened.
TimersAreTrue ==
  /\ engine.mode = "FallbackSafe" /\ engine.fallback_age # NoInstant =>
        engine.fallback_age <= fallback_for
  /\ engine.mode = "FallbackSafe" => engine.clean <= clean_run
  /\ engine.mode = "FallbackSafe" /\ engine.fallback_age = NoInstant =>
        engine.pre_fallback_mode = "FallbackSafe"
  /\ engine.mode # "FallbackSafe" => engine.fallback_reason = NoReason
  /\ engine.escalated_age = NoInstant => escalated_for >= GraceTicks
  /\ engine.escalated_age # NoInstant => engine.escalated_age <= escalated_for

\* Breaking the deadlock: FallbackSafe is left if pressure stays at Yellow or worse,
\* unless the kill switch caused it or it was configured as the initial mode, whose
\* entry was never timed.
FallbackIsLeft ==
  ~ <>[](/\ engine.mode = "FallbackSafe" /\ engine.fallback_age # NoInstant
         /\ engine.fallback_reason # "KillSwitch" /\ engine.pressure >= Yellow)

=============================================================================
