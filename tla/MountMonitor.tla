---------------------------- MODULE MountMonitor ----------------------------
(***************************************************************************)
(* What the monitor keeps for one mount (MountMonitor in                   *)
(* daemon/loop_main.rs): the statistical guard over its forecasts          *)
(* (monitor/guardrails.rs) and the level of its pressure controller        *)
(* (monitor/pid.rs).                                                       *)
(*                                                                         *)
(* A forecast compared with what came is an observation: its rate error,   *)
(* whether the time to exhaustion was over-estimated, whether it fell in a *)
(* burst.  Evidence is the logarithm of the e-process in whole units.      *)
(* Urgency and what follows from it are left out.                          *)
(***************************************************************************)
EXTENDS Integers, Sequences, FiniteSets, SequencesExt

CONSTANTS
  Frees,                  \* readings of the free percentage
  Bands,                  \* pressure thresholds of the configurations
  Hysteresis,             \* hysteresis_pct
  Observations,           \* forecasts against outcomes
  MaxRateError,           \* max_rate_error, in percent
  MinConservative,        \* min_conservative_fraction, in percent
  WindowSize, MinObservations, RecoveryCleanWindows,
  Reward,                 \* -ln e_process_reward
  MildPenalty,            \* 30 % of ln e_process_penalty
  FullPenalty,            \* ln e_process_penalty
  AlarmAt,                \* ln e_process_threshold
  MaxCredit,              \* lower clamp of the evidence, negated
  MaxEvidence             \* upper clamp

ASSUME MonitorAssumption ==
  /\ Frees \subseteq 0 .. 100
  /\ \A b \in Bands : b \in [green : 0 .. 100, yellow : 0 .. 100, orange : 0 .. 100, red : 0 .. 100]
                      /\ b.green > b.yellow /\ b.yellow > b.orange /\ b.orange > b.red
  /\ Observations \subseteq [error : 0 .. 100, late : BOOLEAN, burst : BOOLEAN]
  /\ {Hysteresis, MaxRateError, MinConservative} \subseteq 0 .. 99
  /\ {WindowSize, MinObservations, RecoveryCleanWindows, Reward, MildPenalty} \subseteq Nat \ {0}
  /\ FullPenalty \in Nat /\ FullPenalty >= MildPenalty
  /\ {AlarmAt, MaxCredit, MaxEvidence} \subseteq Nat
  /\ 0 < AlarmAt /\ AlarmAt <= MaxEvidence

VARIABLES
  pc,                     \* observe or control: half of a tick each
  bands,                  \* thresholds in force
  free,                   \* reading the controller saw last
  level,                  \* 0 Green .. 4 Critical
  sampled,                \* last_guard_sample is set
  window,                 \* observations
  evidence,               \* e_process_log
  status,                 \* of the guard
  clean,                  \* consecutive_clean
  bad_run,                \* history: the latest run of bad observations
  reloaded                \* history: the thresholds changed since the last reading

guard_vars == <<sampled, window, evidence, status, clean, bad_run>>
vars == <<pc, bands, free, level, guard_vars, reloaded>>

Clamped(n, low, high) == IF n < low THEN low ELSE IF n > high THEN high ELSE n

(***************************************************************************)
(* The guard: observe and recompute_status.                                *)
(***************************************************************************)

ObsGood(o) == o.burst \/ (o.error <= MaxRateError /\ ~o.late)

\* Mutant of Slid: the newest observation is evicted.
SlidNewest(w, o) == IF Len(w) < WindowSize THEN Append(w, o) ELSE w

\* The rolling window.
Slid(w, o) == IF Len(w) < WindowSize THEN Append(w, o) ELSE Append(Tail(w), o)

\* The penalty grows with the rate error.
Penalty(o) ==
  MildPenalty + ((FullPenalty - MildPenalty) * Clamped(o.error - MaxRateError, 0, 100))
                \div (100 - MaxRateError)

\* Mutant of Weighed: credit is not limited.
WeighedBelow(e, o) ==
  LET sum == IF ObsGood(o) THEN e - Reward ELSE e + Penalty(o)
  IN Clamped(sum, -(2 * MaxCredit), MaxEvidence)

Weighed(e, o) ==
  LET sum == IF ObsGood(o) THEN e - Reward ELSE e + Penalty(o)
  IN Clamped(sum, -MaxCredit, MaxEvidence)

\* calibration_metrics: the median error and the share of conservative forecasts, bursts
\* left out.
Smallest(w, k) ==
  CHOOSE e \in {o.error : o \in Range(w)} :
    /\ Cardinality({j \in DOMAIN w : w[j].error < e}) < k
    /\ k <= Cardinality({j \in DOMAIN w : w[j].error <= e})
WellCalibrated(w) ==
  LET calm == SelectSeq(w, LAMBDA o : ~o.burst)
      n == Len(calm)
      conservative == Cardinality({j \in DOMAIN calm : ~calm[j].late})
  IN n > 0 =>
       /\ Smallest(calm, (n + 1) \div 2) + Smallest(calm, n \div 2 + 1) <= 2 * MaxRateError
       /\ 100 * conservative >= MinConservative * n

\* Sets the guard after an observation that leaves window w and evidence e.
Recompute(w, e, o) ==
  LET alarm == e >= AlarmAt
      calibrated == WellCalibrated(w) /\ ~alarm
  IN \/ /\ Len(w) < MinObservations
        /\ status' = "Unknown" /\ clean' = 0 /\ evidence' = e
     \/ /\ Len(w) >= MinObservations /\ status # "Fail"
        /\ status' = IF calibrated THEN "Pass" ELSE "Fail"
        /\ clean' = IF ~calibrated THEN 0
                    ELSE IF status = "Unknown" THEN RecoveryCleanWindows ELSE clean
        /\ evidence' = e
     \/ /\ Len(w) >= MinObservations /\ status = "Fail"
        /\ clean' = IF ObsGood(o) /\ ~alarm THEN clean + 1 ELSE 0
        /\ IF clean' >= RecoveryCleanWindows THEN status' = "Pass" /\ evidence' = 0
                                             ELSE status' = "Fail" /\ evidence' = e

\* The runs are told apart as far as the properties need.
RunCap == MaxEvidence + MaxCredit

\* observe_guard: the first sample has nothing to be compared with.
Observe ==
  /\ pc = "observe"
  /\ \/ /\ ~sampled
        /\ UNCHANGED <<window, evidence, status, clean, bad_run>>
     \/ /\ sampled
        /\ \E o \in Observations :
             /\ window' = Slid(window, o)
             /\ Recompute(window', Weighed(evidence, o), o)
             /\ bad_run' = IF ObsGood(o) THEN 0 ELSE Clamped(bad_run + 1, 0, RunCap)
  /\ sampled' = TRUE /\ pc' = "control"
  /\ UNCHANGED <<bands, free, level, reloaded>>

(***************************************************************************)
(* The controller: update and classify_with_hysteresis.                    *)
(***************************************************************************)

\* The free percentage below which a level begins.
Floor(b, lv) == CASE lv = 1 -> b.green [] lv = 2 -> b.yellow [] lv = 3 -> b.orange [] lv = 4 -> b.red

\* raw_classify
RawClassify(b, f) == Cardinality({lv \in 1 .. 4 : f < Floor(b, lv)})

\* Mutant of Classify: a level is left at the threshold of the next worse one.
ClassifyLoose(b, f, current) ==
  LET raw == RawClassify(b, f) IN
  IF raw > current THEN raw
  ELSE IF current > 0 /\ f >= Floor(b, IF current < 4 THEN current + 1 ELSE 4) + Hysteresis
       THEN current - 1
  ELSE current

\* Mutant of Classify: Critical is never left.
ClassifySticky(b, f, current) ==
  LET raw == RawClassify(b, f) IN
  IF raw > current THEN raw
  ELSE IF current \in 1 .. 3 /\ f >= Floor(b, current) + Hysteresis THEN current - 1
  ELSE current

\* classify_with_hysteresis: up at once, down one level a tick and past a band.
Classify(b, f, current) ==
  LET raw == RawClassify(b, f) IN
  IF raw > current THEN raw
  ELSE IF current > 0 /\ f >= Floor(b, current) + Hysteresis THEN current - 1
  ELSE current

Control ==
  /\ pc = "control"
  /\ free' \in Frees
  /\ level' = Classify(bands, free', level)
  /\ reloaded' = FALSE /\ pc' = "observe"
  /\ UNCHANGED <<bands, guard_vars>>

\* update_config between two ticks: new thresholds, the level and the guard stay.
Reload ==
  /\ pc = "observe"
  /\ bands' \in Bands \ {bands}
  /\ reloaded' = TRUE
  /\ UNCHANGED <<pc, free, level, guard_vars>>

(***************************************************************************)
(* Specification.                                                          *)
(***************************************************************************)

Init ==
  /\ pc = "observe" /\ bands \in Bands /\ free \in Frees
  /\ level = 0 /\ reloaded = TRUE
  /\ sampled = FALSE /\ window = <<>> /\ evidence = 0 /\ status = "Unknown" /\ clean = 0
  /\ bad_run = 0

Next == Observe \/ Control \/ Reload

Spec == Init /\ [][Next]_vars

\* The monitor keeps ticking.
FairSpec == Spec /\ WF_vars(Observe) /\ WF_vars(Control)

(***************************************************************************)
(* Properties.                                                             *)
(***************************************************************************)

\* Every variable stays in its domain; the window and the evidence stay within their limits.
TypeOK ==
  /\ pc \in {"observe", "control"} /\ bands \in Bands /\ free \in Frees /\ level \in 0 .. 4
  /\ sampled \in BOOLEAN /\ reloaded \in BOOLEAN
  /\ window \in Seq(Observations) /\ Len(window) <= WindowSize
  /\ evidence \in -MaxCredit .. MaxEvidence
  /\ status \in {"Unknown", "Pass", "Fail"} /\ clean \in 0 .. RecoveryCleanWindows
  /\ bad_run \in 0 .. RunCap

\* The level is never better than what the last reading says, however it got there, as
\* long as the thresholds are the ones the reading was judged by.
LevelIsNotBetter == ~reloaded => level >= RawClassify(bands, free)

\* When readings and thresholds stay as they are, the level comes to rest between what the
\* reading says and what a reading lower by the hysteresis says: it is not kept up by where
\* it came from or by thresholds it was raised under.
LevelSettles ==
  <>[][free' = free /\ bands' = bands]_vars =>
    <>[](level \in RawClassify(bands, free) .. RawClassify(bands, free - Hysteresis))

\* A run of bad forecasts revokes trust however much credit good ones have earned.
DriftIsCaught ==
  bad_run * MildPenalty >= AlarmAt + MaxCredit /\ Len(window) >= MinObservations
    => status # "Pass"

\* When all forecasts are good from some point on, the guard ends up trusting them for
\* good, although a recovery may be revoked while bad ones are still in the window.
TrustReturns ==
  <>[](window # <<>> /\ ObsGood(window[Len(window)])) => <>[](status = "Pass")

=============================================================================
