------------------------- MODULE PolicyEngineProofs -------------------------
(***************************************************************************)
(* Proofs about PolicyEngine, and about the canary budget it keeps         *)
(* (CanaryBudget), for every value of their constants.                     *)
(***************************************************************************)
EXTENDS CanaryBudget, FiniteSetTheorems, TLAPS

-----------------------------------------------------------------------------
(***************************************************************************)
(* Type correctness of the operators on the engine's record.               *)
(***************************************************************************)

\* The values the operators write are in the sets of EngineType, which the
\* proofs below keep folded.
LEMMA Values ==
  /\ \A m \in {"Observe", "Canary", "Enforce", "FallbackSafe"} : m \in ActiveMode
  /\ NoReason \in FallbackReason \cup {NoReason}
  /\ "KillSwitch" \in FallbackReason /\ "GuardrailDrift" \in FallbackReason
  /\ 0 \in Age /\ NoInstant \in Age
  /\ 0 \in 0 .. Cap /\ 0 \in 0 .. BreachLimit - 1
BY BoundAssumption DEF ActiveMode, FallbackReason, NoReason, Age, NoInstant

\* enter_fallback returns an engine.
LEMMA EnterFallbackType ==
  ASSUME NEW e \in EngineType, NEW reason \in FallbackReason
  PROVE  EnterFallback(e, reason) \in EngineType
<1> DEFINE g == ClearExpiredGrace(e, reason)
<1>1. g \in EngineType
  BY Values DEF ClearExpiredGrace, EngineType
<1> HIDE DEF g
<1>2. [g EXCEPT !.breach = 0] \in EngineType
  BY <1>1, Values DEF EngineType
<1>3. FallBack(g, reason) \in EngineType
  BY <1>1, Values DEF FallBack, EngineType
<1> QED BY <1>1, <1>2, <1>3 DEF EnterFallback, g

\* recover_from_fallback returns an engine.
LEMMA RecoverType ==
  ASSUME NEW e \in EngineType
  PROVE  RecoverFromFallback(e) \in EngineType
<1> DEFINE target == IF e.pre_fallback_mode = "Enforce" THEN "Canary" ELSE e.pre_fallback_mode
<1>1. target \in ActiveMode
  BY Values DEF EngineType
<1> HIDE DEF target
<1> QED BY <1>1, Values DEF RecoverFromFallback, EngineType, target

\* The gate evaluate() starts with returns an engine.
LEMMA GateType ==
  ASSUME NEW e \in EngineType, NEW guard
  PROVE  Gate(e, guard) \in EngineType
BY EnterFallbackType DEF Gate, CheckKillSwitch, CheckGuardTriggers, FallbackReason

\* The kill-switch edges of update_config and update_config itself return an engine.
LEMMA KillSwitchType ==
  ASSUME NEW e \in EngineType
  PROVE  EngageKillSwitch(e) \in EngineType /\ ReleaseKillSwitch(e) \in EngineType
<1>1. [e EXCEPT !.fallback_reason = "KillSwitch"] \in EngineType
  BY DEF EngineType, FallbackReason
<1>2. EngageKillSwitch(e) \in EngineType
  BY <1>1, EnterFallbackType DEF EngageKillSwitch, FallbackReason
<1>3. ReleaseKillSwitch(e) \in EngineType
  BY RecoverType DEF ReleaseKillSwitch
<1> QED BY <1>2, <1>3

\* update_config returns an engine, whichever kill-switch edge it sees.
LEMMA UpdateConfigType ==
  ASSUME NEW e \in EngineType, NEW new \in Configs
  PROVE  UpdateConfig(e, new) \in EngineType
<1>1. [e EXCEPT !.config = new] \in EngineType
  BY DEF EngineType
<1>2. e.config.kill_switch \in BOOLEAN /\ new.kill_switch \in BOOLEAN
  BY InputAssumption DEF EngineType, PolicyConfig
<1> QED BY <1>1, <1>2, KillSwitchType, Zenon DEF UpdateConfig

\* The candidate loop of evaluate returns an engine and approves a number of
\* candidates; it approves none in a mode that bars deletion.
LEMMA EligibleFinite ==
  ASSUME NEW e \in EngineType, NEW batch \in Batches, NEW guard
  PROVE  /\ Cardinality(Eligible(e, batch, guard)) \in Nat
         /\ ~AllowsDeletion(e.mode) => Cardinality(Eligible(e, batch, guard)) = 0
<1> DEFINE n == MinOf(Len(batch), e.config.max_candidates_per_loop)
<1>1. n \in Nat
  <2>1. Len(batch) \in Nat
    BY InputAssumption
  <2>2. e.config.max_candidates_per_loop \in Nat
    BY InputAssumption DEF EngineType, PolicyConfig
  <2> QED BY <2>1, <2>2 DEF MinOf
<1>2. IsFiniteSet(1 .. n)
  BY <1>1, FS_Interval
<1>3. Eligible(e, batch, guard) \subseteq 1 .. n
  BY DEF Eligible
<1>4. Cardinality(Eligible(e, batch, guard)) \in Nat
  BY <1>2, <1>3, FS_Subset, FS_CardinalityType
<1>5. ~AllowsDeletion(e.mode) => Eligible(e, batch, guard) = {}
  BY DEF Eligible, PassesGuard
<1> QED BY <1>4, <1>5, FS_EmptySet

\* The candidate loop returns an engine, and approves nothing when no candidate
\* reaches the budget test.
LEMMA LoopType ==
  ASSUME NEW e \in EngineType, NEW n \in Nat
  PROVE  /\ AfterLoop(e, n) \in EngineType
         /\ Approved(e, n) \in Nat
         /\ n = 0 => Approved(e, n) = 0
<1>1. RotateCanaryHour(e) \in EngineType
  BY Values DEF RotateCanaryHour, EngineType
<1>2. CanaryBudgetLeft(RotateCanaryHour(e)) \in Nat
  <2> DEFINE r == RotateCanaryHour(e)
  <2>1. r.canary_deletes \in Nat /\ r.config \in PolicyConfig
    BY <1>1, InputAssumption DEF EngineType
  <2>2. r.config.max_canary_deletes_per_hour \in Nat
    BY <2>1 DEF PolicyConfig
  <2> HIDE DEF r
  <2>3. CanaryBudgetLeft(r) \in Nat
    BY <2>1, <2>2 DEF CanaryBudgetLeft
  <2> QED BY <2>3 DEF r
<1>3. Approved(e, n) \in Nat /\ (n = 0 => Approved(e, n) = 0)
  BY <1>2 DEF Approved, MinOf
<1>4. RotateCanaryHour(e).canary_deletes + Approved(e, n) \in Nat
  BY <1>1, <1>3 DEF EngineType
<1>5. AfterLoop(e, n) \in EngineType
  BY <1>1, <1>4 DEF AfterLoop, EngineType
<1> QED BY <1>3, <1>5

\* The loop leaves everything but the canary counter and its hour alone.
LEMMA LoopFields ==
  ASSUME NEW e \in EngineType, NEW n \in Nat
  PROVE  LET l == AfterLoop(e, n)
         IN  /\ l.config = e.config /\ l.mode = e.mode
             /\ l.pre_fallback_mode = e.pre_fallback_mode
             /\ l.fallback_reason = e.fallback_reason /\ l.fallback_age = e.fallback_age
             /\ l.escalated_age = e.escalated_age /\ l.clean = e.clean
             /\ l.pressure = e.pressure
BY DEF AfterLoop, RotateCanaryHour, EngineType

\* What observe_window does, field by field.
SameFallback(a, b) ==
  /\ a.mode = b.mode
  /\ a.fallback_reason = b.fallback_reason
  /\ a.fallback_age = b.fallback_age

\* A clean window counts up and either leaves the fallback as it is, or recovers
\* from it with both recovery conditions met.
LEMMA CleanWindowFields ==
  ASSUME NEW e \in EngineType
  PROVE  LET c == CleanWindow(e)
         IN  /\ c \in EngineType
             /\ c.config = e.config /\ c.pressure = e.pressure
             /\ c.pre_fallback_mode = e.pre_fallback_mode
             /\ c.escalated_age = e.escalated_age
             /\ c.clean = MinOf(e.clean + 1, Cap)
             /\ \/ SameFallback(c, e)
                \/ /\ e.mode = "FallbackSafe"
                   /\ c.clean >= e.config.recovery_clean_windows
                   /\ \/ e.fallback_age = NoInstant
                      \/ e.fallback_age >= e.config.min_fallback_secs
                   /\ c.mode = IF e.pre_fallback_mode = "Enforce" THEN "Canary"
                               ELSE e.pre_fallback_mode
                   /\ c.fallback_reason = NoReason
                   /\ c.fallback_age = NoInstant
<1> DEFINE n == MinOf(e.clean + 1, Cap)
           d == [e EXCEPT !.clean = n, !.breach = 0]
<1>1. n \in 0 .. Cap
  BY BoundAssumption DEF MinOf, EngineType
<1> HIDE DEF n
<1>2. d \in EngineType
  BY <1>1, Values DEF EngineType
<1>3. /\ d.config = e.config /\ d.pressure = e.pressure
      /\ d.pre_fallback_mode = e.pre_fallback_mode
      /\ d.escalated_age = e.escalated_age /\ d.clean = n
      /\ SameFallback(d, e)
  BY DEF EngineType, SameFallback
<1>4. CleanWindow(e) = IF Recovers(d) THEN RecoverFromFallback(d) ELSE d
  BY DEF CleanWindow, n
<1> HIDE DEF d
<1>5. CASE Recovers(d)
  <2> DEFINE r == RecoverFromFallback(d)
  <2>1. r \in EngineType
    BY <1>2, RecoverType
  <2>2. /\ r.config = d.config /\ r.pressure = d.pressure
        /\ r.pre_fallback_mode = d.pre_fallback_mode
        /\ r.escalated_age = d.escalated_age /\ r.clean = d.clean
        /\ r.mode = IF d.pre_fallback_mode = "Enforce" THEN "Canary" ELSE d.pre_fallback_mode
        /\ r.fallback_reason = NoReason /\ r.fallback_age = NoInstant
    BY <1>2 DEF RecoverFromFallback, EngineType
  <2> HIDE DEF r
  <2>3. CleanWindow(e) = r
    BY <1>4, <1>5 DEF r
  <2> QED BY <1>3, <1>5, <2>1, <2>2, <2>3 DEF Recovers, SameFallback, n
<1>6. CASE ~Recovers(d)
  BY <1>2, <1>3, <1>4, <1>6 DEF n
<1> QED BY <1>5, <1>6

\* A dirty window restarts the clean run and leaves the fallback as it is.
LEMMA DirtyWindowFields ==
  ASSUME NEW e \in EngineType, NEW guard
  PROVE  LET d == DirtyWindow(e, guard)
         IN  /\ d \in EngineType
             /\ d.config = e.config /\ d.pressure = e.pressure
             /\ d.pre_fallback_mode = e.pre_fallback_mode
             /\ d.escalated_age = e.escalated_age
             /\ d.clean = 0
             /\ SameFallback(d, e)
<1> DEFINE b == IF guard.status = "Fail" /\ e.pressure # Green
                THEN (e.breach + 1) % BreachLimit
                ELSE IF e.breach > 0 THEN e.breach - 1 ELSE 0
<1>1. b \in 0 .. BreachLimit - 1
  <2>1. e.breach \in 0 .. BreachLimit - 1
    BY DEF EngineType
  <2> QED BY <2>1, BoundAssumption
<1>2. DirtyWindow(e, guard) = [e EXCEPT !.clean = 0, !.breach = b]
  BY DEF DirtyWindow, EngineType
<1> HIDE DEF b
<1> QED BY <1>1, <1>2, Values DEF EngineType, SameFallback

\* observe_window is a no-op when rate-limited, and a clean or a dirty window
\* otherwise.
LEMMA ObserveFields ==
  ASSUME NEW e \in EngineType, NEW guard
  PROVE  LET o == ObserveWindow(e, guard)
         IN  /\ o \in EngineType
             /\ o.config = e.config /\ o.pressure = e.pressure
             /\ o.pre_fallback_mode = e.pre_fallback_mode
             /\ o.escalated_age = e.escalated_age
             /\ RateLimited(e) => o = e
             /\ ~RateLimited(e) /\ ~IsClean(e, guard) => o.clean = 0
             /\ ~RateLimited(e) /\ IsClean(e, guard) => o.clean = MinOf(e.clean + 1, Cap)
             /\ \/ SameFallback(o, e)
                \/ /\ ~RateLimited(e) /\ IsClean(e, guard)
                   /\ e.mode = "FallbackSafe"
                   /\ o.clean >= e.config.recovery_clean_windows
                   /\ \/ e.fallback_age = NoInstant
                      \/ e.fallback_age >= e.config.min_fallback_secs
                   /\ o.mode = IF e.pre_fallback_mode = "Enforce" THEN "Canary"
                               ELSE e.pre_fallback_mode
                   /\ o.fallback_reason = NoReason
                   /\ o.fallback_age = NoInstant
<1> DEFINE s == IF e.config.observe_min_interval_secs > 0
                THEN [e EXCEPT !.observe_age = 0] ELSE e
<1>1. /\ s \in EngineType
      /\ s.config = e.config /\ s.pressure = e.pressure /\ s.clean = e.clean
      /\ s.pre_fallback_mode = e.pre_fallback_mode
      /\ s.escalated_age = e.escalated_age
      /\ SameFallback(s, e)
  BY Values DEF EngineType, SameFallback
<1>2. ObserveWindow(e, guard) = IF RateLimited(e) THEN e
                                ELSE IF IsClean(s, guard) THEN CleanWindow(s)
                                ELSE DirtyWindow(s, guard)
  BY DEF ObserveWindow
<1> HIDE DEF s
<1>3. IsClean(s, guard) <=> IsClean(e, guard)
  BY <1>1 DEF IsClean
<1>4. CASE RateLimited(e)
  BY <1>2, <1>4 DEF SameFallback
<1>5. CASE ~RateLimited(e) /\ IsClean(e, guard)
  <2>1. ObserveWindow(e, guard) = CleanWindow(s)
    BY <1>2, <1>3, <1>5
  <2> QED BY <2>1, <1>1, <1>5, CleanWindowFields DEF SameFallback
<1>6. CASE ~RateLimited(e) /\ ~IsClean(e, guard)
  <2>1. ObserveWindow(e, guard) = DirtyWindow(s, guard)
    BY <1>2, <1>3, <1>6
  <2> QED BY <2>1, <1>1, <1>6, DirtyWindowFields DEF SameFallback
<1> QED BY <1>4, <1>5, <1>6

\* check_emergency_escalation, field by field.
LEMMA EscalationFields ==
  ASSUME NEW e \in EngineType
  PROVE  LET c == CheckEmergencyEscalation(e)
         IN  /\ c \in EngineType
             /\ ~Escalates(e) => c = e
             /\ Escalates(e) => /\ c.mode = "Enforce" /\ c.fallback_reason = NoReason
                                /\ c.escalated_age = 0 /\ c.pressure = e.pressure
<1>1. CASE Escalates(e)
  BY <1>1, Values DEF CheckEmergencyEscalation, EngineType
<1>2. CASE ~Escalates(e)
  BY <1>2 DEF CheckEmergencyEscalation
<1> QED BY <1>1, <1>2

\* enter_fallback, field by field: it is refused, or it only clears an expired
\* escalation marker, or it enters FallbackSafe.
Entering(e, f, reason) ==
  /\ e.mode # "FallbackSafe" /\ f.mode = "FallbackSafe"
  /\ f.pre_fallback_mode = e.mode
  /\ f.fallback_reason = reason
  /\ f.fallback_age = 0 /\ f.clean = 0
  /\ reason = "KillSwitch" \/ ~InGrace(e)

Staying(e, f) ==
  /\ SameFallback(f, e)
  /\ f.pre_fallback_mode = e.pre_fallback_mode
  /\ f.clean = e.clean

MarkerKept(e, f) ==
  \/ f.escalated_age = e.escalated_age
  \/ f.escalated_age = NoInstant /\ ~InGrace(e)

\* enter_fallback either enters FallbackSafe for its reason, out of grace unless
\* that reason is the kill switch, or changes nothing but an expired marker.
LEMMA EnterFallbackFields ==
  ASSUME NEW e \in EngineType, NEW reason \in FallbackReason
  PROVE  LET f == EnterFallback(e, reason)
         IN  /\ f.config = e.config /\ f.pressure = e.pressure
             /\ MarkerKept(e, f)
             /\ Entering(e, f, reason) \/ Staying(e, f)
             /\ reason = "KillSwitch" => f.mode = "FallbackSafe"
<1> DEFINE g == ClearExpiredGrace(e, reason)
<1>1. /\ g \in EngineType
      /\ g.config = e.config /\ g.pressure = e.pressure /\ g.clean = e.clean
      /\ g.pre_fallback_mode = e.pre_fallback_mode
      /\ SameFallback(g, e)
      /\ g.escalated_age = IF reason = "KillSwitch" THEN e.escalated_age ELSE NoInstant
  BY Values DEF ClearExpiredGrace, EngineType, SameFallback
<1>2. EnterFallback(e, reason) =
        IF Refused(e, reason) THEN e
        ELSE IF reason = "CalibrationBreach" /\ e.started_age < StartupTicks
             THEN [g EXCEPT !.breach = 0] ELSE FallBack(g, reason)
  BY DEF EnterFallback
<1> HIDE DEF g
<1>3. CASE Refused(e, reason)
  BY <1>2, <1>3 DEF Refused, Staying, SameFallback, MarkerKept
<1>4. CASE ~Refused(e, reason) /\ reason = "CalibrationBreach" /\ e.started_age < StartupTicks
  <2>1. EnterFallback(e, reason) = [g EXCEPT !.breach = 0]
    BY <1>2, <1>4
  <2> QED BY <2>1, <1>1, <1>4 DEF Refused, Staying, SameFallback, MarkerKept, EngineType
<1>5. CASE ~Refused(e, reason) /\ ~(reason = "CalibrationBreach" /\ e.started_age < StartupTicks)
  <2>1. EnterFallback(e, reason) = FallBack(g, reason)
    BY <1>2, <1>5
  <2> DEFINE f == FallBack(g, reason)
  <2>2. /\ f.config = g.config /\ f.pressure = g.pressure /\ f.mode = "FallbackSafe"
        /\ f.pre_fallback_mode = g.mode /\ f.fallback_reason = reason
        /\ f.fallback_age = 0 /\ f.clean = 0 /\ f.escalated_age = g.escalated_age
    BY <1>1 DEF FallBack, EngineType
  <2> HIDE DEF f
  <2>3. EnterFallback(e, reason) = f
    BY <2>1 DEF f
  <2> QED BY <2>2, <2>3, <1>1, <1>5 DEF Refused, Entering, SameFallback, MarkerKept
<1> QED BY <1>3, <1>4, <1>5

\* The gate of evaluate is one enter_fallback at most, and with the kill switch
\* on it always ends in FallbackSafe.
LEMMA GateShape ==
  ASSUME NEW e \in EngineType, NEW guard
  PROVE  LET g == Gate(e, guard)
         IN  /\ \/ g = e
                \/ g = EnterFallback(e, "KillSwitch")
                \/ g = EnterFallback(e, "GuardrailDrift")
             /\ g.config = e.config
             /\ e.config.kill_switch => g.mode = "FallbackSafe"
<1>1. e.config.kill_switch \in BOOLEAN
  BY InputAssumption DEF EngineType, PolicyConfig
<1>2. CASE e.config.kill_switch /\ e.mode # "FallbackSafe"
  <2> DEFINE k == EnterFallback(e, "KillSwitch")
  <2>1. k.mode = "FallbackSafe" /\ k.config = e.config
    BY EnterFallbackFields, Values
  <2>2. Gate(e, guard) = CheckGuardTriggers(k, guard)
    BY <1>2 DEF Gate, CheckKillSwitch
  <2> HIDE DEF k
  <2>3. Gate(e, guard) = k
    BY <2>1, <2>2 DEF CheckGuardTriggers
  <2> QED BY <2>1, <2>3 DEF k
<1>3. CASE ~(e.config.kill_switch /\ e.mode # "FallbackSafe")
  <2>1. Gate(e, guard) = CheckGuardTriggers(e, guard)
    BY <1>3 DEF Gate, CheckKillSwitch
  <2>2. \/ Gate(e, guard) = e
        \/ Gate(e, guard) = EnterFallback(e, "GuardrailDrift") /\ e.mode # "FallbackSafe"
    BY <2>1 DEF CheckGuardTriggers
  <2>3. Gate(e, guard).config = e.config
    BY <2>2, EnterFallbackFields, Values
  <2>4. e.config.kill_switch => Gate(e, guard).mode = "FallbackSafe"
    BY <2>2, <1>3
  <2> QED BY <2>2, <2>3, <2>4
<1> QED BY <1>1, <1>2, <1>3

-----------------------------------------------------------------------------
(***************************************************************************)
(* Type correctness of the specification.                                  *)
(***************************************************************************)
\* The passing of time keeps an age an age.
LEMMA OlderType ==
  ASSUME NEW age \in Age
  PROVE  /\ Older(age) \in Age
         /\ age \in 0 .. Cap => Older(age) \in 0 .. Cap /\ Older(age) >= age
         /\ Older(age) = NoInstant <=> age = NoInstant
BY BoundAssumption DEF Older, MinOf, Age, NoInstant

\* A new engine, with the kill switch on or off, is well typed.
LEMMA InitType == Init => TypeOK
<1> SUFFICES ASSUME Init PROVE TypeOK
  OBVIOUS
<1>1. PICK cfg \in Configs, mode \in InitialModes : engine = New(cfg, mode)
  BY DEF Init
<1>2. FreshEngine(cfg, mode) \in EngineType
  <2>1. mode \in ActiveMode /\ Green \in PressureLevel
    BY InputAssumption DEF PressureLevel, Green, Critical
  <2>2. 0 \in Nat
    OBVIOUS
  <2> QED BY <2>1, <2>2, Values DEF FreshEngine, EngineType
<1>3. engine \in EngineType
  BY <1>1, <1>2, KillSwitchType DEF New
<1>4. decision \in DecisionType
  BY DEF Init, NoDecision, DecisionType, ActiveMode
<1>5. fallback_for \in 0 .. Cap /\ escalated_for \in 0 .. Cap /\ clean_run \in 0 .. Cap
  BY BoundAssumption DEF Init
<1> QED BY <1>3, <1>4, <1>5 DEF TypeOK

\* Every operation of the engine keeps it well typed.
LEMMA StepType == TypeOK /\ [Next]_vars => TypeOK'
<1> SUFFICES ASSUME TypeOK, [Next]_vars PROVE TypeOK'
  OBVIOUS
<1> USE DEF TypeOK
<1>0. 0 \in 0 .. Cap
  BY Values
<1>1. ASSUME NEW level \in Levels, NEW guard \in Guards, MonitorTick(level, guard)
      PROVE  TypeOK'
  <2> DEFINE e == [engine EXCEPT !.pressure = level]
  <2>1. e \in EngineType
    BY InputAssumption DEF EngineType
  <2>2. engine' \in EngineType
    BY <1>1, <2>1, ObserveFields, EscalationFields DEF MonitorTick
  <2>3. clean_run' \in 0 .. Cap
    <3>1. MinOf(clean_run + 1, Cap) \in 0 .. Cap
      BY BoundAssumption DEF MinOf
    <3> QED BY <3>1, <1>0, <1>1 DEF MonitorTick
  <2> QED BY <2>2, <2>3, <1>0, <1>1 DEF MonitorTick, TrackModes
<1>2. ASSUME NEW batch \in Batches, NEW guard \in SharedGuards,
             ExecutorEvaluate(batch, guard)
      PROVE  TypeOK'
  <2> DEFINE e == Gate(engine, guard)
             n == Cardinality(Eligible(e, batch, guard))
  <2>1. e \in EngineType
    BY GateType
  <2> HIDE DEF e
  <2>2. n \in Nat
    BY <2>1, EligibleFinite
  <2> HIDE DEF n
  <2>3. AfterLoop(e, n) \in EngineType /\ Approved(e, n) \in Nat
    BY <2>1, <2>2, LoopType
  <2>4. engine' \in EngineType
    BY <1>2, <2>3 DEF ExecutorEvaluate, e, n
  <2>5. decision' \in DecisionType
    <3>1. e.mode \in ActiveMode /\ e.config.kill_switch \in BOOLEAN
      BY <2>1, InputAssumption DEF EngineType, PolicyConfig
    <3>2. decision' = [mode |-> e.mode, approved |-> Approved(e, n),
                       kill_switch |-> e.config.kill_switch]
      BY <1>2 DEF ExecutorEvaluate, e, n
    <3> QED BY <3>1, <3>2, <2>3 DEF DecisionType
  <2> QED BY <2>4, <2>5, <1>0, <1>2 DEF ExecutorEvaluate, TrackModes, TrackCleanRun
<1>3. ASSUME NEW cfg \in Configs, ReloadConfig(cfg)
      PROVE  TypeOK'
  BY <1>0, <1>3, UpdateConfigType DEF ReloadConfig, TrackModes, TrackCleanRun
<1>4. ASSUME Promote \/ Demote
      PROVE  TypeOK'
  <2>1. ASSUME NEW m \in ActiveMode
        PROVE  [engine EXCEPT !.mode = m] \in EngineType
    BY DEF EngineType
  <2> QED BY <1>4, <2>1, Values DEF Promote, Demote
<1>5. ASSUME NEW reason \in FallbackReason, RequestFallback(reason)
      PROVE  TypeOK'
  BY <1>0, <1>5, EnterFallbackType DEF RequestFallback, TrackModes, TrackCleanRun
<1>6. ASSUME TimePasses
      PROVE  TypeOK'
  <2>1. \A a \in Age : Older(a) \in Age
    BY OlderType
  <2>2. \A a \in 0 .. Cap : Older(a) \in 0 .. Cap
    BY OlderType DEF Age, NoInstant
  <2>3. engine' \in EngineType
    BY <1>6, <2>1, <2>2 DEF TimePasses, EngineType
  <2> QED BY <1>6, <2>2, <2>3 DEF TimePasses
<1>7. CASE UNCHANGED vars
  BY <1>7 DEF vars
<1> QED BY <1>1, <1>2, <1>3, <1>4, <1>5, <1>6, <1>7 DEF Next, DaemonNext

\* Every reachable state is well typed, whatever the configurations, the
\* thresholds and the batches are.
THEOREM TypeCorrect == Spec => []TypeOK
BY InitType, StepType, PTL DEF Spec

-----------------------------------------------------------------------------
(***************************************************************************)
(* The kill switch and the barred modes.                                   *)
(***************************************************************************)

\* evaluate() approves nothing while the kill switch is on, nor in Observe or
\* FallbackSafe: for every interleaving of the monitor, the executor, reloads,
\* promotions and time.
THEOREM BarredApprovesNothing == Spec => []NoApprovalWhenBarred
<1>1. Init => NoApprovalWhenBarred
  BY DEF Init, NoDecision, NoApprovalWhenBarred
<1>2. TypeOK /\ NoApprovalWhenBarred /\ [Next]_vars => NoApprovalWhenBarred'
  <2> SUFFICES ASSUME TypeOK, NoApprovalWhenBarred, [Next]_vars
               PROVE  NoApprovalWhenBarred'
    OBVIOUS
  <2>1. ASSUME NEW batch \in Batches, NEW guard \in SharedGuards,
               ExecutorEvaluate(batch, guard)
        PROVE  NoApprovalWhenBarred'
    <3> DEFINE e == Gate(engine, guard)
               n == Cardinality(Eligible(e, batch, guard))
    <3>1. e \in EngineType
      BY GateType DEF TypeOK
    <3>2. e.config.kill_switch => e.mode = "FallbackSafe"
      BY GateShape DEF TypeOK
    <3>3. decision' = [mode |-> e.mode, approved |-> Approved(e, n),
                       kill_switch |-> e.config.kill_switch]
      BY <2>1 DEF ExecutorEvaluate
    <3> HIDE DEF e
    <3>4. n \in Nat /\ (~AllowsDeletion(e.mode) => n = 0)
      BY <3>1, EligibleFinite
    <3> HIDE DEF n
    <3>5. ~AllowsDeletion(e.mode) => Approved(e, n) = 0
      BY <3>1, <3>4, LoopType
    <3>6. e.config.kill_switch => ~AllowsDeletion(e.mode)
      BY <3>2 DEF AllowsDeletion
    <3>7. Approved(e, n) > 0 => ~e.config.kill_switch /\ AllowsDeletion(e.mode)
      BY <3>5, <3>6
    <3> QED BY <3>3, <3>7 DEF NoApprovalWhenBarred
  <2>2. ASSUME UNCHANGED decision
        PROVE  NoApprovalWhenBarred'
    BY <2>2 DEF NoApprovalWhenBarred
  <2> QED BY <2>1, <2>2
          DEF Next, DaemonNext, MonitorTick, ReloadConfig, Promote, Demote, RequestFallback,
              TimePasses, vars
<1> QED BY <1>1, <1>2, TypeCorrect, PTL DEF Spec

-----------------------------------------------------------------------------
(***************************************************************************)
(* The inductive invariant TimersAreTrue.                                  *)
(***************************************************************************)
\* In a new engine no timer is ahead of the history.
LEMMA InitTimers == Init => TimersAreTrue
<1> SUFFICES ASSUME Init PROVE TimersAreTrue
  OBVIOUS
<1>1. PICK cfg \in Configs, mode \in InitialModes : engine = New(cfg, mode)
  BY DEF Init
<1>2. FreshEngine(cfg, mode) \in EngineType
  <2>1. mode \in ActiveMode /\ Green \in PressureLevel
    BY InputAssumption DEF PressureLevel, Green, Critical
  <2> QED BY <2>1, Values DEF FreshEngine, EngineType
<1> DEFINE f == FreshEngine(cfg, mode)
<1>3. /\ f.mode = mode /\ f.pre_fallback_mode = mode /\ f.fallback_reason = NoReason
      /\ f.fallback_age = NoInstant /\ f.escalated_age = NoInstant /\ f.clean = 0
  BY DEF FreshEngine
<1>4. engine = IF cfg.kill_switch THEN EngageKillSwitch(f) ELSE f
  BY <1>1 DEF New
<1>5. f \in EngineType
  BY <1>2
<1> HIDE DEF f
<1>6. fallback_for = 0 /\ escalated_for = Cap /\ clean_run = 0 /\ Cap >= GraceTicks
  BY BoundAssumption DEF Init
<1>7. CASE engine = f
  BY <1>3, <1>6, <1>7 DEF TimersAreTrue
<1>8. CASE engine = EngageKillSwitch(f) /\ f.mode # "FallbackSafe"
  <2>1. engine = EnterFallback(f, "KillSwitch")
    BY <1>8 DEF EngageKillSwitch
  <2>2. /\ MarkerKept(f, engine) /\ engine.mode = "FallbackSafe"
        /\ Entering(f, engine, "KillSwitch") \/ Staying(f, engine)
    BY <2>1, <1>5, EnterFallbackFields, Values
  <2>3. Entering(f, engine, "KillSwitch")
    BY <2>2, <1>8 DEF Staying, SameFallback
  <2> QED BY <2>2, <2>3, <1>3, <1>6 DEF TimersAreTrue, Entering, MarkerKept, NoInstant
<1>9. CASE engine = EngageKillSwitch(f) /\ f.mode = "FallbackSafe"
  <2>1. engine = [f EXCEPT !.fallback_reason = "KillSwitch"]
    BY <1>9, <1>3 DEF EngageKillSwitch
  <2> QED BY <2>1, <1>3, <1>5, <1>6, <1>9 DEF TimersAreTrue, EngineType
<1> QED BY <1>4, <1>7, <1>8, <1>9

\* A step that enters FallbackSafe through enter_fallback, or stays in its mode,
\* keeps the timers true.
LEMMA TimersEnterOrStay ==
  ASSUME TypeOK, TimersAreTrue, TypeOK', TrackModes, TrackCleanRun,
         MarkerKept(engine, engine'),
         (\E reason \in FallbackReason : Entering(engine, engine', reason))
           \/ Staying(engine, engine')
  PROVE  TimersAreTrue'
<1>1. /\ GraceTicks \in Nat /\ Cap \in Nat
      /\ engine.escalated_age \in Age /\ engine'.escalated_age \in Age
      /\ engine.fallback_age \in Age /\ escalated_for \in 0 .. Cap
  BY BoundAssumption DEF TypeOK, EngineType
<1>2. CASE \E reason \in FallbackReason : Entering(engine, engine', reason)
  <2>1. /\ engine.mode # "FallbackSafe" /\ engine'.mode = "FallbackSafe"
        /\ engine'.fallback_age = 0 /\ engine'.clean = 0
    BY <1>2 DEF Entering
  <2>2. fallback_for' = 0 /\ clean_run' = 0 /\ escalated_for' = escalated_for
    BY <2>1 DEF TrackModes, TrackCleanRun, Entered, Escalated
  <2> QED BY <1>1, <2>1, <2>2 DEF TimersAreTrue, MarkerKept, InGrace, Age, NoInstant
<1>3. CASE Staying(engine, engine')
  <2>1. fallback_for' = fallback_for /\ clean_run' = clean_run /\ escalated_for' = escalated_for
    BY <1>3 DEF Staying, SameFallback, TrackModes, TrackCleanRun, Entered, Escalated
  <2> QED BY <1>1, <1>3, <2>1
          DEF TimersAreTrue, MarkerKept, InGrace, Staying, SameFallback, Age, NoInstant
<1> QED BY <1>2, <1>3

\* A recovery lands in the pre-fallback mode, capped at Canary.
Recovering(e, f) ==
  /\ e.mode = "FallbackSafe"
  /\ f.mode = IF e.pre_fallback_mode = "Enforce" THEN "Canary" ELSE e.pre_fallback_mode
  /\ f.fallback_reason = NoReason /\ f.fallback_age = NoInstant
  /\ f.pre_fallback_mode = e.pre_fallback_mode
  /\ f.escalated_age = e.escalated_age

\* A recovery keeps the timers true.
LEMMA TimersRecover ==
  ASSUME TypeOK, TimersAreTrue, TrackModes, Recovering(engine, engine'),
         engine'.clean <= clean_run'
  PROVE  TimersAreTrue'
<1>1. escalated_for' = escalated_for
  BY DEF Recovering, TrackModes, Escalated
<1> QED BY <1>1 DEF TimersAreTrue, Recovering

\* What a reload does to the fallback: nothing, or it enters or relabels it when
\* the kill switch comes on, or it recovers when the kill switch goes off.
LEMMA ReloadShape ==
  ASSUME TypeOK, NEW cfg \in Configs, ReloadConfig(cfg)
  PROVE  \/ /\ MarkerKept(engine, engine')
            /\ Entering(engine, engine', "KillSwitch") \/ Staying(engine, engine')
         \/ /\ engine.mode = "FallbackSafe"
            /\ engine' = [engine EXCEPT !.config = cfg, !.fallback_reason = "KillSwitch"]
         \/ /\ Recovering(engine, engine') /\ engine'.clean = engine.clean
            /\ engine.config.kill_switch /\ engine'.config = cfg /\ ~cfg.kill_switch
<1> DEFINE c == [engine EXCEPT !.config = cfg]
<1>1. c \in EngineType /\ engine \in EngineType
  BY DEF TypeOK, EngineType
<1>2. /\ SameFallback(c, engine) /\ c.clean = engine.clean /\ c.config = cfg
      /\ c.pre_fallback_mode = engine.pre_fallback_mode
      /\ c.escalated_age = engine.escalated_age
  BY <1>1 DEF EngineType, SameFallback
<1>3. engine.config.kill_switch \in BOOLEAN /\ cfg.kill_switch \in BOOLEAN
  BY InputAssumption DEF TypeOK, EngineType, PolicyConfig
<1>4. engine' = UpdateConfig(engine, cfg)
  BY DEF ReloadConfig
<1>5. CASE ~engine.config.kill_switch /\ cfg.kill_switch
  <2>1. engine' = EngageKillSwitch(c)
    BY <1>3, <1>4, <1>5, Zenon DEF UpdateConfig
  <2>2. CASE engine.mode # "FallbackSafe"
    <3>1. engine' = EnterFallback(c, "KillSwitch")
      BY <2>1, <2>2, <1>2 DEF EngageKillSwitch, SameFallback
    <3> HIDE DEF c
    <3>2. /\ MarkerKept(c, engine')
          /\ Entering(c, engine', "KillSwitch") \/ Staying(c, engine')
      BY <3>1, <1>1, EnterFallbackFields, Values
    <3> QED BY <3>2, <1>2 DEF MarkerKept, InGrace, Entering, Staying, SameFallback
  <2>3. CASE engine.mode = "FallbackSafe" /\ engine.fallback_reason = NoReason
    <3>1. engine' = [c EXCEPT !.fallback_reason = "KillSwitch"]
      BY <2>1, <2>3, <1>2 DEF EngageKillSwitch, SameFallback
    <3> QED BY <3>1, <2>3
  <2>4. CASE engine.mode = "FallbackSafe" /\ engine.fallback_reason # NoReason
    <3>1. engine' = c
      BY <2>1, <2>4, <1>2 DEF EngageKillSwitch, SameFallback
    <3> HIDE DEF c
    <3> QED BY <3>1, <1>2 DEF Staying, SameFallback, MarkerKept
  <2> QED BY <2>2, <2>3, <2>4
<1>6. CASE engine.config.kill_switch /\ ~cfg.kill_switch
  <2>1. engine' = ReleaseKillSwitch(c)
    BY <1>3, <1>4, <1>6, Zenon DEF UpdateConfig
  <2>2. CASE c.mode = "FallbackSafe" /\ c.fallback_reason = "KillSwitch"
    <3> HIDE DEF c
    <3>1. engine' = RecoverFromFallback(c)
      BY <2>1, <2>2 DEF ReleaseKillSwitch
    <3>2. Recovering(c, engine') /\ engine'.clean = c.clean /\ engine'.config = c.config
      BY <3>1, <2>2, <1>1 DEF RecoverFromFallback, Recovering, EngineType
    <3> QED BY <3>2, <1>2, <1>6 DEF Recovering, SameFallback
  <2>3. CASE ~(c.mode = "FallbackSafe" /\ c.fallback_reason = "KillSwitch")
    <3> HIDE DEF c
    <3>1. engine' = c
      BY <2>1, <2>3 DEF ReleaseKillSwitch
    <3> QED BY <3>1, <1>2 DEF Staying, SameFallback, MarkerKept
  <2> QED BY <2>2, <2>3
<1>7. CASE engine.config.kill_switch = cfg.kill_switch
  <2>1. engine' = c
    BY <1>3, <1>4, <1>7, Zenon DEF UpdateConfig
  <2> HIDE DEF c
  <2> QED BY <2>1, <1>2 DEF Staying, SameFallback, MarkerKept
<1> QED BY <1>3, <1>5, <1>6, <1>7

\* An evaluation of a batch enters FallbackSafe through enter_fallback or leaves
\* the mode alone.
LEMMA EvaluateShape ==
  ASSUME TypeOK, NEW batch \in Batches, NEW guard, ExecutorEvaluate(batch, guard)
  PROVE  /\ MarkerKept(engine, engine')
         /\ \/ \E reason \in FallbackReason : Entering(engine, engine', reason)
            \/ Staying(engine, engine')
<1> DEFINE e == Gate(engine, guard)
           n == Cardinality(Eligible(e, batch, guard))
<1>1. engine \in EngineType /\ e \in EngineType
  BY GateType DEF TypeOK
<1>2. /\ MarkerKept(engine, e)
      /\ (\E reason \in FallbackReason : Entering(engine, e, reason)) \/ Staying(engine, e)
  <2>1. \/ e = engine
        \/ e = EnterFallback(engine, "KillSwitch")
        \/ e = EnterFallback(engine, "GuardrailDrift")
    BY <1>1, GateShape
  <2> HIDE DEF e
  <2>2. CASE e = engine
    BY <2>2 DEF MarkerKept, Staying, SameFallback
  <2>3. ASSUME NEW r \in FallbackReason, e = EnterFallback(engine, r)
        PROVE  /\ MarkerKept(engine, e)
               /\ Entering(engine, e, r) \/ Staying(engine, e)
    BY <2>3, <1>1, EnterFallbackFields
  <2> QED BY <2>1, <2>2, <2>3, Values
<1>3. engine' = AfterLoop(e, n)
  BY DEF ExecutorEvaluate
<1> HIDE DEF e
<1>4. n \in Nat
  BY <1>1, EligibleFinite
<1> HIDE DEF n
<1>5. /\ engine'.mode = e.mode /\ engine'.pre_fallback_mode = e.pre_fallback_mode
      /\ engine'.fallback_reason = e.fallback_reason /\ engine'.fallback_age = e.fallback_age
      /\ engine'.escalated_age = e.escalated_age /\ engine'.clean = e.clean
  BY <1>1, <1>3, <1>4, LoopFields
<1> QED BY <1>2, <1>5 DEF MarkerKept, Entering, Staying, SameFallback

\* A monitor tick escalates, or recovers, or leaves the fallback alone.
LEMMA MonitorShape ==
  ASSUME TypeOK, NEW level \in Levels, NEW guard \in Guards, MonitorTick(level, guard)
  PROVE  \/ /\ engine.mode = "FallbackSafe" /\ engine'.mode = "Enforce"
            /\ engine.fallback_age # NoInstant /\ engine.fallback_age >= EscalationTicks
            /\ engine.fallback_reason # "KillSwitch" /\ engine'.fallback_reason = NoReason
            /\ engine'.pressure >= Yellow /\ engine'.escalated_age = 0
         \/ /\ engine.clean <= clean_run => engine'.clean <= clean_run'
            /\ engine'.pre_fallback_mode = engine.pre_fallback_mode
            /\ engine'.escalated_age = engine.escalated_age
            /\ engine'.config = engine.config
            /\ \/ SameFallback(engine', engine)
               \/ /\ Recovering(engine, engine')
                  /\ engine'.clean >= engine.config.recovery_clean_windows
                  /\ \/ engine.fallback_age = NoInstant
                     \/ engine.fallback_age >= engine.config.min_fallback_secs
<1> DEFINE e == [engine EXCEPT !.pressure = level]
           o == ObserveWindow(e, guard)
<1>1. e \in EngineType /\ engine \in EngineType
  BY InputAssumption DEF TypeOK, EngineType
<1>2. /\ SameFallback(e, engine) /\ e.clean = engine.clean /\ e.config = engine.config
      /\ e.pre_fallback_mode = engine.pre_fallback_mode
      /\ e.escalated_age = engine.escalated_age /\ e.pressure = level
  BY <1>1 DEF EngineType, SameFallback
<1>3. engine' = CheckEmergencyEscalation(o)
  BY DEF MonitorTick
<1>4. clean_run' = IF RateLimited(e) THEN clean_run
                   ELSE IF IsClean(e, guard) THEN MinOf(clean_run + 1, Cap) ELSE 0
  BY DEF MonitorTick
<1> HIDE DEF e
<1>5. /\ o \in EngineType
      /\ o.config = e.config /\ o.pressure = e.pressure
      /\ o.pre_fallback_mode = e.pre_fallback_mode
      /\ o.escalated_age = e.escalated_age
      /\ RateLimited(e) => o = e
      /\ ~RateLimited(e) /\ ~IsClean(e, guard) => o.clean = 0
      /\ ~RateLimited(e) /\ IsClean(e, guard) => o.clean = MinOf(e.clean + 1, Cap)
      /\ \/ SameFallback(o, e)
         \/ /\ Recovering(e, o)
            /\ o.clean >= e.config.recovery_clean_windows
            /\ e.fallback_age = NoInstant \/ e.fallback_age >= e.config.min_fallback_secs
  BY <1>1, ObserveFields DEF Recovering
<1> HIDE DEF o
<1>6. /\ engine' \in EngineType
      /\ ~Escalates(o) => engine' = o
      /\ Escalates(o) => /\ engine'.mode = "Enforce" /\ engine'.fallback_reason = NoReason
                         /\ engine'.escalated_age = 0 /\ engine'.pressure = o.pressure
  BY <1>3, <1>5, EscalationFields
<1>7. CASE Escalates(o)
  BY <1>2, <1>5, <1>6, <1>7 DEF Escalates, Recovering, SameFallback
<1>8. CASE ~Escalates(o)
  <2>1. engine.clean <= clean_run => o.clean <= clean_run'
    <3>1. engine.clean \in 0 .. Cap /\ clean_run \in 0 .. Cap /\ Cap \in Nat
      BY BoundAssumption DEF TypeOK, EngineType
    <3> QED BY <3>1, <1>2, <1>4, <1>5 DEF MinOf
  <2>2. engine' = o
    BY <1>6, <1>8
  <2> QED BY <2>1, <2>2, <1>2, <1>5 DEF Recovering, SameFallback
<1> QED BY <1>7, <1>8

\* Every operation keeps the timers true.
LEMMA StepTimers == TypeOK /\ TypeOK' /\ TimersAreTrue /\ [Next]_vars => TimersAreTrue'
<1> SUFFICES ASSUME TypeOK, TypeOK', TimersAreTrue, [Next]_vars PROVE TimersAreTrue'
  OBVIOUS
<1>1. ASSUME NEW level \in Levels, NEW guard \in Guards, MonitorTick(level, guard)
      PROVE  TimersAreTrue'
  <2>1. TrackModes
    BY <1>1 DEF MonitorTick
  <2>2. CASE engine.mode = "FallbackSafe" /\ engine'.mode = "Enforce"
    <3>1. engine'.fallback_reason = NoReason /\ engine'.escalated_age = 0
      BY <1>1, <2>2, MonitorShape DEF SameFallback, Recovering
    <3>2. escalated_for' = 0
      BY <2>1, <2>2 DEF TrackModes, Escalated
    <3> QED BY <3>1, <3>2, <2>2 DEF TimersAreTrue, NoInstant
  <2>3. CASE ~(engine.mode = "FallbackSafe" /\ engine'.mode = "Enforce")
    <3>1. /\ engine.clean <= clean_run => engine'.clean <= clean_run'
          /\ engine'.pre_fallback_mode = engine.pre_fallback_mode
          /\ engine'.escalated_age = engine.escalated_age
          /\ SameFallback(engine', engine) \/ Recovering(engine, engine')
      BY <1>1, <2>3, MonitorShape
    <3>2. CASE SameFallback(engine', engine)
      <4>1. fallback_for' = fallback_for /\ escalated_for' = escalated_for
        BY <2>1, <3>2 DEF SameFallback, TrackModes, Entered, Escalated
      <4> QED BY <4>1, <3>1, <3>2 DEF TimersAreTrue, SameFallback
    <3>3. CASE Recovering(engine, engine')
      <4>1. engine'.clean <= clean_run'
        BY <3>1, <3>3 DEF TimersAreTrue, Recovering
      <4> QED BY <4>1, <2>1, <3>3, TimersRecover
    <3> QED BY <3>1, <3>2, <3>3
  <2> QED BY <2>2, <2>3
<1>2. ASSUME NEW batch \in Batches, NEW guard, ExecutorEvaluate(batch, guard)
      PROVE  TimersAreTrue'
  <2>1. TrackModes /\ TrackCleanRun
    BY <1>2 DEF ExecutorEvaluate
  <2> QED BY <1>2, <2>1, EvaluateShape, TimersEnterOrStay
<1>3. ASSUME NEW cfg \in Configs, ReloadConfig(cfg)
      PROVE  TimersAreTrue'
  <2>1. TrackModes /\ TrackCleanRun
    BY <1>3 DEF ReloadConfig
  <2>2. CASE /\ MarkerKept(engine, engine')
             /\ Entering(engine, engine', "KillSwitch") \/ Staying(engine, engine')
    BY <2>1, <2>2, TimersEnterOrStay, Values
  <2>3. CASE /\ engine.mode = "FallbackSafe"
             /\ engine' = [engine EXCEPT !.config = cfg, !.fallback_reason = "KillSwitch"]
    <3>1. /\ engine'.mode = engine.mode /\ engine'.fallback_age = engine.fallback_age
          /\ engine'.clean = engine.clean /\ engine'.escalated_age = engine.escalated_age
          /\ engine'.pre_fallback_mode = engine.pre_fallback_mode
      BY <2>3 DEF TypeOK, EngineType
    <3>2. UNCHANGED <<fallback_for, escalated_for, clean_run>>
      BY <2>1, <2>3, <3>1 DEF TrackModes, TrackCleanRun, Entered, Escalated
    <3> QED BY <2>3, <3>1, <3>2 DEF TimersAreTrue
  <2>4. CASE Recovering(engine, engine') /\ engine'.clean = engine.clean
    <3>1. clean_run' = clean_run
      BY <2>1, <2>4 DEF TrackCleanRun, Entered, Recovering
    <3>2. engine'.clean <= clean_run'
      BY <3>1, <2>4 DEF TimersAreTrue, Recovering
    <3> QED BY <3>2, <2>1, <2>4, TimersRecover
  <2> QED BY <1>3, <2>2, <2>3, <2>4, ReloadShape
<1>4. ASSUME Promote \/ Demote
      PROVE  TimersAreTrue'
  <2>1. /\ engine.mode # "FallbackSafe" /\ engine'.mode # "FallbackSafe"
        /\ engine'.fallback_reason = engine.fallback_reason
        /\ engine'.escalated_age = engine.escalated_age
    BY <1>4 DEF Promote, Demote, TypeOK, EngineType
  <2> QED BY <1>4, <2>1 DEF Promote, Demote, TimersAreTrue
<1>5. ASSUME NEW reason \in FallbackReason, RequestFallback(reason)
      PROVE  TimersAreTrue'
  <2>1. /\ TrackModes /\ TrackCleanRun
        /\ engine' = EnterFallback(engine, reason)
    BY <1>5 DEF RequestFallback
  <2> QED BY <2>1, EnterFallbackFields, TimersEnterOrStay DEF TypeOK
<1>6. ASSUME TimePasses
      PROVE  TimersAreTrue'
  <2>1. /\ engine'.mode = engine.mode /\ engine'.fallback_reason = engine.fallback_reason
        /\ engine'.pre_fallback_mode = engine.pre_fallback_mode
        /\ engine'.clean = engine.clean
        /\ engine'.fallback_age = Older(engine.fallback_age)
        /\ engine'.escalated_age = Older(engine.escalated_age)
    BY <1>6 DEF TimePasses, TypeOK, EngineType
  <2>2. /\ fallback_for' = Older(fallback_for) /\ escalated_for' = Older(escalated_for)
        /\ clean_run' = clean_run
    BY <1>6 DEF TimePasses
  <2>3. /\ engine.fallback_age \in Age /\ engine.escalated_age \in Age
        /\ fallback_for \in 0 .. Cap /\ escalated_for \in 0 .. Cap
        /\ Cap \in Nat /\ GraceTicks \in Nat
    BY BoundAssumption DEF TypeOK, EngineType
  <2> QED BY <2>1, <2>2, <2>3 DEF TimersAreTrue, Older, MinOf, Age, NoInstant
<1>7. CASE UNCHANGED vars
  BY <1>7 DEF vars, TimersAreTrue
<1> QED BY <1>1, <1>2, <1>3, <1>4, <1>5, <1>6, <1>7 DEF Next, DaemonNext

\* The engine's timers and counters never run ahead of the real history, in
\* every reachable state.
THEOREM TimersNeverRunAhead == Spec => []TimersAreTrue
BY InitTimers, StepTimers, TypeCorrect, PTL DEF Spec

-----------------------------------------------------------------------------
(***************************************************************************)
(* What a step may never do, from the two invariants above.                *)
(***************************************************************************)

\* The steps that change the mode between FallbackSafe and another one, by the
\* operation that makes them: a step enters FallbackSafe only through
\* enter_fallback, and leaves it only in a monitor tick or in a reload that
\* releases the kill switch.
LEMMA ModeChanges ==
  ASSUME TypeOK, [Next]_vars
  PROVE  /\ Entered => \E reason \in FallbackReason : Entering(engine, engine', reason)
         /\ engine.mode = "FallbackSafe" /\ engine'.mode # "FallbackSafe" =>
              \/ \E level \in Levels, guard \in Guards : MonitorTick(level, guard)
              \/ /\ Recovering(engine, engine')
                 /\ engine.config.kill_switch /\ ~engine'.config.kill_switch
<1>1. ASSUME NEW level \in Levels, NEW guard \in Guards, MonitorTick(level, guard)
      PROVE  ~Entered
  BY <1>1, MonitorShape DEF SameFallback, Recovering, Entered
<1>2. ASSUME NEW batch \in Batches, NEW guard, ExecutorEvaluate(batch, guard)
      PROVE  /\ Entered => \E reason \in FallbackReason : Entering(engine, engine', reason)
             /\ engine.mode = "FallbackSafe" => engine'.mode = "FallbackSafe"
  BY <1>2, EvaluateShape DEF Entering, Staying, SameFallback, Entered
<1>3. ASSUME NEW cfg \in Configs, ReloadConfig(cfg)
      PROVE  /\ Entered => \E reason \in FallbackReason : Entering(engine, engine', reason)
             /\ engine.mode = "FallbackSafe" /\ engine'.mode # "FallbackSafe" =>
                  /\ Recovering(engine, engine')
                  /\ engine.config.kill_switch /\ ~engine'.config.kill_switch
  <2>1. CASE Entering(engine, engine', "KillSwitch") \/ Staying(engine, engine')
    BY <2>1, Values DEF Entering, Staying, SameFallback, Entered
  <2>2. CASE /\ engine.mode = "FallbackSafe"
             /\ engine' = [engine EXCEPT !.config = cfg, !.fallback_reason = "KillSwitch"]
    BY <2>2 DEF Entered, TypeOK, EngineType
  <2>3. CASE /\ Recovering(engine, engine')
             /\ engine.config.kill_switch /\ engine'.config = cfg /\ ~cfg.kill_switch
    BY <2>3 DEF Recovering, Entered
  <2> QED BY <1>3, <2>1, <2>2, <2>3, ReloadShape
<1>4. ASSUME Promote \/ Demote
      PROVE  engine.mode # "FallbackSafe" /\ engine'.mode # "FallbackSafe"
  BY <1>4 DEF Promote, Demote, TypeOK, EngineType
<1>5. ASSUME NEW reason \in FallbackReason, RequestFallback(reason)
      PROVE  /\ Entered => Entering(engine, engine', reason)
             /\ engine.mode = "FallbackSafe" => engine'.mode = "FallbackSafe"
  BY <1>5, EnterFallbackFields
     DEF RequestFallback, TypeOK, Entering, Staying, SameFallback, Entered
<1>6. ASSUME TimePasses \/ UNCHANGED vars
      PROVE  engine'.mode = engine.mode
  BY <1>6 DEF TimePasses, vars, TypeOK, EngineType
<1> QED BY <1>1, <1>2, <1>3, <1>4, <1>5, <1>6 DEF Next, DaemonNext, Entered

\* Inside the grace period of an emergency escalation, the only way back into
\* FallbackSafe is the kill switch: no guard alarm, breach or policy error that
\* any thread reports gets through enter_fallback.
THEOREM GraceHolds == Spec => GraceIsHonoured
<1> DEFINE Step == Entered /\ escalated_for < GraceTicks => engine'.fallback_reason = "KillSwitch"
<1>1. TypeOK /\ TimersAreTrue /\ [Next]_vars => Step
  <2> SUFFICES ASSUME TypeOK, TimersAreTrue, [Next]_vars, Entered, escalated_for < GraceTicks
               PROVE  engine'.fallback_reason = "KillSwitch"
    OBVIOUS
  <2>1. PICK reason \in FallbackReason : Entering(engine, engine', reason)
    BY ModeChanges
  <2>2. InGrace(engine)
    <3>1. /\ engine.escalated_age \in Age /\ escalated_for \in 0 .. Cap
          /\ GraceTicks \in Nat /\ Cap \in Nat
      BY BoundAssumption DEF TypeOK, EngineType
    <3> QED BY <3>1 DEF InGrace, TimersAreTrue, Age, NoInstant
  <2> QED BY <2>1, <2>2 DEF Entering
<1>2. TypeOK /\ TimersAreTrue /\ [Next]_vars => [Step]_vars
  BY <1>1
<1> HIDE DEF Step
<1>3. Spec => [][Step]_vars
  BY <1>2, TypeCorrect, TimersNeverRunAhead, PTL DEF Spec
<1> QED BY <1>3 DEF Step, GraceIsHonoured

\* An emergency escalation comes after the whole threshold spent in FallbackSafe,
\* under pressure, and never out of a fallback the kill switch caused.
THEOREM EscalationNeedsTheWholeWait == Spec => EscalationIsJustified
<1> DEFINE Step == Escalated => /\ fallback_for >= EscalationTicks
                                /\ engine'.pressure >= Yellow
                                /\ engine.fallback_reason # "KillSwitch"
<1>1. TypeOK /\ TimersAreTrue /\ [Next]_vars => Step
  <2> SUFFICES ASSUME TypeOK, TimersAreTrue, [Next]_vars, Escalated
               PROVE  /\ fallback_for >= EscalationTicks
                      /\ engine'.pressure >= Yellow
                      /\ engine.fallback_reason # "KillSwitch"
    OBVIOUS
  <2>1. ~Recovering(engine, engine')
    BY Values DEF Recovering, Escalated
  <2>2. PICK level \in Levels, guard \in Guards : MonitorTick(level, guard)
    BY <2>1, ModeChanges DEF Escalated
  <2>3. /\ engine.fallback_age # NoInstant /\ engine.fallback_age >= EscalationTicks
        /\ engine.fallback_reason # "KillSwitch" /\ engine'.pressure >= Yellow
    BY <2>1, <2>2, MonitorShape DEF Escalated, SameFallback
  <2>4. engine.fallback_age <= fallback_for
    BY <2>3 DEF TimersAreTrue, Escalated
  <2>5. /\ engine.fallback_age \in Int /\ fallback_for \in Int /\ EscalationTicks \in Int
    BY BoundAssumption DEF TypeOK, EngineType, Age, NoInstant
  <2> QED BY <2>3, <2>4, <2>5
<1>2. TypeOK /\ TimersAreTrue /\ [Next]_vars => [Step]_vars
  BY <1>1
<1> HIDE DEF Step
<1>3. Spec => [][Step]_vars
  BY <1>2, TypeCorrect, TimersNeverRunAhead, PTL DEF Spec
<1> QED BY <1>3 DEF Step, EscalationIsJustified

\* The canary gate: FallbackSafe is left for Observe or Canary only when the
\* operator releases the kill switch, or after the configured run of clean
\* windows and the configured minimum stay.
THEOREM RecoveryNeedsCleanWindows == Spec => RecoveryIsEarned
<1> DEFINE Step == engine.mode = "FallbackSafe" /\ engine'.mode \in {"Observe", "Canary"} =>
                     \/ engine.config.kill_switch /\ ~engine'.config.kill_switch
                     \/ /\ clean_run' >= engine.config.recovery_clean_windows
                        /\ fallback_for >= engine.config.min_fallback_secs
<1>1. TypeOK /\ TimersAreTrue /\ [Next]_vars => Step
  <2> SUFFICES ASSUME TypeOK, TimersAreTrue, [Next]_vars,
                      engine.mode = "FallbackSafe", engine'.mode \in {"Observe", "Canary"},
                      ~(engine.config.kill_switch /\ ~engine'.config.kill_switch)
               PROVE  /\ clean_run' >= engine.config.recovery_clean_windows
                      /\ fallback_for >= engine.config.min_fallback_secs
    OBVIOUS
  <2>1. PICK level \in Levels, guard \in Guards : MonitorTick(level, guard)
    BY ModeChanges
  <2>2. /\ engine.clean <= clean_run => engine'.clean <= clean_run'
        /\ Recovering(engine, engine')
        /\ engine'.clean >= engine.config.recovery_clean_windows
        /\ engine.fallback_age = NoInstant \/ engine.fallback_age >= engine.config.min_fallback_secs
    BY <2>1, MonitorShape DEF SameFallback
  <2>3. engine.fallback_age # NoInstant
    BY <2>2 DEF TimersAreTrue, Recovering
  <2>4. engine.fallback_age <= fallback_for /\ engine.clean <= clean_run
    BY <2>3 DEF TimersAreTrue
  <2>5. TypeOK'
    BY StepType
  <2>6. /\ engine'.clean \in Int /\ clean_run' \in Int
        /\ engine.fallback_age \in Int /\ fallback_for \in Int
    BY <2>5 DEF TypeOK, EngineType, Age, NoInstant
  <2>7. engine.config.recovery_clean_windows \in Int /\ engine.config.min_fallback_secs \in Int
    BY InputAssumption DEF TypeOK, EngineType, PolicyConfig
  <2> QED BY <2>2, <2>3, <2>4, <2>6, <2>7
<1>2. TypeOK /\ TimersAreTrue /\ [Next]_vars => [Step]_vars
  BY <1>1
<1> HIDE DEF Step
<1>3. Spec => [][Step]_vars
  BY <1>2, TypeCorrect, TimersNeverRunAhead, PTL DEF Spec
<1> QED BY <1>3 DEF Step, RecoveryIsEarned

-----------------------------------------------------------------------------
(***************************************************************************)
(* The canary budget.  The tumbling hour and the operator's sliding hour   *)
(* overlap in at most two tumbling ones: what was approved since the last  *)
(* rotation is in the counter, and what was approved before it within the  *)
(* last hour fitted in one budget.                                         *)
(***************************************************************************)
SameCanary(a, b) == a.canary_deletes = b.canary_deletes /\ a.hour_age = b.hour_age

\* No approval is older than the counter knows within the hour it counts, none lies in
\* the current tick once that hour is over, and earlier ones fill one budget at most.
BudgetIsTrue ==
  /\ recent \in [1 .. HourTicks -> Nat]
  /\ engine.canary_deletes <= LargestBudget
  /\ \A k \in 1 .. HourTicks :
       /\ k <= engine.hour_age + 1 => recent[k] <= engine.canary_deletes
       /\ recent[k] <= engine.canary_deletes + LargestBudget
  /\ engine.hour_age >= HourTicks => recent[1] = 0

\* The largest budget is a number no configuration exceeds.
LEMMA LargestBudgetType ==
  /\ LargestBudget \in Nat
  /\ \A c \in Configs : c.max_canary_deletes_per_hour <= LargestBudget
<1>1. Budgets \subseteq Nat
  BY InputAssumption DEF Budgets, PolicyConfig
<1>2. LargestBudget \in Budgets /\ \A b \in Budgets : b <= LargestBudget
  BY BudgetAssumption DEF LargestBudget
<1> QED BY <1>1, <1>2 DEF Budgets

\* Nothing but the candidate loop and time touches the counter and its hour.
LEMMA EnterFallbackCanary ==
  ASSUME NEW e \in EngineType, NEW reason
  PROVE  SameCanary(EnterFallback(e, reason), e)
<1> DEFINE g == ClearExpiredGrace(e, reason)
<1>1. SameCanary(g, e) /\ g \in EngineType
  BY Values DEF ClearExpiredGrace, EngineType, SameCanary
<1> HIDE DEF g
<1>2. SameCanary([g EXCEPT !.breach = 0], e) /\ SameCanary(FallBack(g, reason), e)
  BY <1>1 DEF FallBack, EngineType, SameCanary
<1> QED BY <1>2 DEF EnterFallback, g, SameCanary

\* Neither does the gate of evaluate,
LEMMA GateCanary ==
  ASSUME NEW e \in EngineType, NEW guard
  PROVE  SameCanary(Gate(e, guard), e)
BY GateShape, EnterFallbackCanary DEF SameCanary

\* nor a reload,
LEMMA UpdateConfigCanary ==
  ASSUME NEW e \in EngineType, NEW cfg \in Configs
  PROVE  SameCanary(UpdateConfig(e, cfg), e)
<1> DEFINE c == [e EXCEPT !.config = cfg]
<1>1. c \in EngineType /\ SameCanary(c, e)
  BY DEF EngineType, SameCanary
<1>2. e.config.kill_switch \in BOOLEAN /\ cfg.kill_switch \in BOOLEAN
  BY InputAssumption DEF EngineType, PolicyConfig
<1>3. UpdateConfig(e, cfg) \in {c, EngageKillSwitch(c), ReleaseKillSwitch(c)}
  BY <1>2, Zenon DEF UpdateConfig
<1> HIDE DEF c
<1>4. SameCanary(EngageKillSwitch(c), c)
  <2>1. SameCanary([c EXCEPT !.fallback_reason = "KillSwitch"], c)
    BY <1>1 DEF EngineType, SameCanary
  <2> QED BY <1>1, <2>1, EnterFallbackCanary DEF EngageKillSwitch, SameCanary
<1>5. SameCanary(ReleaseKillSwitch(c), c)
  BY <1>1 DEF ReleaseKillSwitch, RecoverFromFallback, EngineType, SameCanary
<1> QED BY <1>1, <1>3, <1>4, <1>5 DEF SameCanary

\* nor a tick of the monitor.
LEMMA MonitorCanary ==
  ASSUME NEW e \in EngineType, NEW guard
  PROVE  SameCanary(CheckEmergencyEscalation(ObserveWindow(e, guard)), e)
<1>1. ASSUME NEW f \in EngineType
      PROVE  SameCanary(CleanWindow(f), f) /\ SameCanary(DirtyWindow(f, guard), f)
  <2> DEFINE n == MinOf(f.clean + 1, Cap)
             d == [f EXCEPT !.clean = n, !.breach = 0]
  <2>1. d \in EngineType /\ SameCanary(d, f)
    <3>1. n \in 0 .. Cap
      BY BoundAssumption DEF MinOf, EngineType
    <3> HIDE DEF n
    <3> QED BY <3>1, Values DEF EngineType, SameCanary
  <2>2. CleanWindow(f) \in {d, RecoverFromFallback(d)}
    BY DEF CleanWindow
  <2> HIDE DEF d
  <2>3. SameCanary(RecoverFromFallback(d), d)
    BY <2>1 DEF RecoverFromFallback, EngineType, SameCanary
  <2>4. SameCanary(DirtyWindow(f, guard), f)
    BY DEF DirtyWindow, EngineType, SameCanary
  <2> QED BY <2>1, <2>2, <2>3, <2>4 DEF SameCanary
<1> DEFINE s == IF e.config.observe_min_interval_secs > 0
                THEN [e EXCEPT !.observe_age = 0] ELSE e
<1>2. s \in EngineType /\ SameCanary(s, e)
  BY Values DEF EngineType, SameCanary
<1>3. ObserveWindow(e, guard) \in {e, CleanWindow(s), DirtyWindow(s, guard)}
  BY DEF ObserveWindow
<1> HIDE DEF s
<1>4. SameCanary(ObserveWindow(e, guard), e) /\ ObserveWindow(e, guard) \in EngineType
  BY <1>1, <1>2, <1>3, ObserveFields DEF SameCanary
<1>5. ASSUME NEW o \in EngineType PROVE SameCanary(CheckEmergencyEscalation(o), o)
  BY DEF CheckEmergencyEscalation, EngineType, SameCanary
<1> QED BY <1>4, <1>5 DEF SameCanary

\* The candidate loop: either nothing is approved in Canary mode and the counter stays, or
\* it counts what is approved, in the running hour or in a new one, within the budget.
LEMMA LoopCanary ==
  ASSUME NEW e \in EngineType, NEW n \in Nat
  PROVE  LET l == AfterLoop(e, n)
             a == IF e.mode = "Canary" THEN Approved(e, n) ELSE 0
         IN  /\ a \in Nat
             /\ \/ a = 0 /\ SameCanary(l, e)
                \/ /\ e.hour_age < HourTicks /\ l.hour_age = e.hour_age
                   /\ l.canary_deletes = e.canary_deletes + a
                   /\ a = 0 \/ l.canary_deletes <= LargestBudget
                \/ /\ e.hour_age >= HourTicks /\ l.hour_age = 0
                   /\ l.canary_deletes = a /\ a <= LargestBudget
<1> DEFINE a == IF e.mode = "Canary" THEN Approved(e, n) ELSE 0
           r == RotateCanaryHour(e)
           l == AfterLoop(e, n)
           m == e.config.max_canary_deletes_per_hour
<1>1. /\ e.canary_deletes \in Nat /\ e.hour_age \in 0 .. Cap /\ m \in Nat
      /\ m <= LargestBudget /\ LargestBudget \in Nat
  BY InputAssumption, LargestBudgetType DEF EngineType, PolicyConfig
<1>2. a \in Nat
  BY LoopType
<1>3. /\ r \in EngineType /\ r.config = e.config
      /\ e.hour_age >= HourTicks => r.canary_deletes = 0 /\ r.hour_age = 0
      /\ e.hour_age < HourTicks => r = e
  <2>1. CASE e.hour_age >= HourTicks
    <3>1. r = [e EXCEPT !.canary_deletes = 0, !.hour_age = 0]
      BY <2>1 DEF RotateCanaryHour
    <3>2. r \in EngineType
      BY Values DEF RotateCanaryHour, EngineType
    <3> HIDE DEF r
    <3>3. r.config = e.config /\ r.canary_deletes = 0 /\ r.hour_age = 0
      BY <3>1 DEF EngineType
    <3> QED BY <1>1, <2>1, <3>2, <3>3, BoundAssumption
  <2>2. CASE ~(e.hour_age >= HourTicks)
    BY <1>1, <2>2, BoundAssumption DEF RotateCanaryHour
  <2> QED BY <2>1, <2>2
<1>4. CASE e.mode = "Canary" /\ n > 0
  <2>1. l = [r EXCEPT !.canary_deletes = @ + a]
    BY <1>4 DEF AfterLoop
  <2>2. a = MinOf(n, CanaryBudgetLeft(r))
    BY <1>4 DEF Approved
  <2> HIDE DEF r, a, l
  <2>3. l.hour_age = r.hour_age /\ l.canary_deletes = r.canary_deletes + a
    BY <1>3, <2>1 DEF EngineType
  <2>4. CanaryBudgetLeft(r) = IF r.canary_deletes >= m THEN 0 ELSE m - r.canary_deletes
    BY <1>3 DEF CanaryBudgetLeft
  <2>5. r.canary_deletes \in Nat
    BY <1>3 DEF EngineType
  <2>6. a = 0 \/ r.canary_deletes + a <= m
    <3> HIDE DEF m
    <3> QED BY <1>1, <2>2, <2>4, <2>5 DEF MinOf
  <2>7. CASE e.hour_age >= HourTicks
    <3> HIDE DEF m
    <3> QED BY <1>1, <1>2, <1>3, <2>3, <2>6, <2>7 DEF a, l
  <2>8. CASE e.hour_age < HourTicks
    <3> HIDE DEF m
    <3> QED BY <1>1, <1>2, <1>3, <2>3, <2>5, <2>6, <2>8 DEF a, l
  <2> QED BY <1>1, <2>7, <2>8, BoundAssumption
<1>5. CASE ~(e.mode = "Canary" /\ n > 0)
  <2>1. l = e
    BY <1>5 DEF AfterLoop
  <2>2. a = 0
    BY <1>5, LoopType
  <2> QED BY <2>1, <2>2 DEF SameCanary
<1> QED BY <1>4, <1>5

\* A new engine has used nothing of its budget.
LEMMA InitBudget == BudgetInit => TypeOK /\ BudgetIsTrue
<1> SUFFICES ASSUME BudgetInit PROVE TypeOK /\ BudgetIsTrue
  OBVIOUS
<1>1. TypeOK
  BY InitType DEF BudgetInit
<1>2. PICK cfg \in Configs, mode \in InitialModes : engine = New(cfg, mode)
  BY DEF BudgetInit, Init
<1> DEFINE f == FreshEngine(cfg, mode)
<1>3. f \in EngineType /\ f.canary_deletes = 0 /\ f.hour_age = 0
  <2>1. mode \in ActiveMode /\ Green \in PressureLevel /\ 0 \in Nat
    BY InputAssumption DEF PressureLevel, Green, Critical
  <2> QED BY <2>1, Values DEF FreshEngine, EngineType
<1> HIDE DEF f
<1>4. SameCanary([f EXCEPT !.fallback_reason = "KillSwitch"], f)
  BY <1>3 DEF EngineType, SameCanary
<1>5. engine.canary_deletes = 0 /\ engine.hour_age = 0
  BY <1>2, <1>3, <1>4, EnterFallbackCanary DEF New, EngageKillSwitch, SameCanary, f
<1>6. recent \in [1 .. HourTicks -> Nat] /\ \A k \in 1 .. HourTicks : recent[k] = 0
  BY DEF BudgetInit
<1> QED BY <1>1, <1>5, <1>6, LargestBudgetType, BoundAssumption DEF BudgetIsTrue

\* A step that leaves the counter, its hour and the approvals alone keeps the bound.
LEMMA BudgetKept ==
  ASSUME BudgetIsTrue, SameCanary(engine', engine), recent' = recent
  PROVE  BudgetIsTrue'
BY DEF BudgetIsTrue, SameCanary, LargestBudget, Budgets

\* Every operation keeps the bound.
LEMMA StepBudget ==
  ASSUME TypeOK, BudgetIsTrue, [BudgetNext]_<<vars, recent>>
  PROVE  TypeOK' /\ BudgetIsTrue'
<1>1. TypeOK'
  BY StepType DEF BudgetNext, Evaluated, Aged, Managed, Next, DaemonNext
<1>2. engine \in EngineType /\ engine.hour_age \in 0 .. Cap /\ engine.canary_deletes \in Nat
  BY DEF TypeOK, EngineType
<1>3. CASE Managed
  <2>1. SameCanary(engine', engine)
    <3>1. ASSUME NEW level \in Levels, NEW guard \in Guards, MonitorTick(level, guard)
          PROVE  SameCanary(engine', engine)
      <4> DEFINE e == [engine EXCEPT !.pressure = level]
      <4>1. e \in EngineType /\ SameCanary(e, engine)
        BY <1>2, InputAssumption DEF EngineType, SameCanary
      <4>2. engine' = CheckEmergencyEscalation(ObserveWindow(e, guard))
        BY <3>1 DEF MonitorTick
      <4> HIDE DEF e
      <4> QED BY <4>1, <4>2, MonitorCanary DEF SameCanary
    <3>2. ASSUME NEW cfg \in Configs, ReloadConfig(cfg)
          PROVE  SameCanary(engine', engine)
      BY <1>2, <3>2, UpdateConfigCanary DEF ReloadConfig
    <3>3. ASSUME Promote \/ Demote PROVE SameCanary(engine', engine)
      BY <1>2, <3>3 DEF Promote, Demote, EngineType, SameCanary
    <3>4. ASSUME NEW reason \in FallbackReason, RequestFallback(reason)
          PROVE  SameCanary(engine', engine)
      BY <1>2, <3>4, EnterFallbackCanary DEF RequestFallback
    <3> QED BY <1>3, <3>1, <3>2, <3>3, <3>4 DEF Managed
  <2>2. recent' = recent
    BY <1>3 DEF Managed
  <2> QED BY <1>1, <2>1, <2>2, BudgetKept
<1>4. CASE Aged
  <2>1. engine'.canary_deletes = engine.canary_deletes /\ engine'.hour_age = Older(engine.hour_age)
    BY <1>2, <1>4 DEF Aged, TimePasses, EngineType
  <2>2. engine'.hour_age \in 0 .. Cap /\ engine'.hour_age <= engine.hour_age + 1
    BY <1>2, <2>1, BoundAssumption DEF Older, MinOf, NoInstant
  <2>3. recent' = [k \in 1 .. HourTicks |-> IF k = 1 THEN 0 ELSE recent[k - 1]]
    BY <1>4 DEF Aged
  <2>4. recent' \in [1 .. HourTicks -> Nat] /\ recent'[1] = 0
    BY <2>3, BoundAssumption DEF BudgetIsTrue
  <2>5. ASSUME NEW k \in 1 .. HourTicks
        PROVE  /\ k <= engine'.hour_age + 1 => recent'[k] <= engine'.canary_deletes
               /\ recent'[k] <= engine'.canary_deletes + LargestBudget
    <3>1. CASE k = 1
      BY <1>2, <2>1, <2>4, <3>1, LargestBudgetType
    <3>2. CASE k # 1
      <4>1. k - 1 \in 1 .. HourTicks /\ recent'[k] = recent[k - 1]
        BY <2>3, <3>2, BoundAssumption
      <4>2. k <= engine'.hour_age + 1 => k - 1 <= engine.hour_age + 1
        BY <1>2, <2>2, BoundAssumption
      <4> QED BY <2>1, <4>1, <4>2 DEF BudgetIsTrue
    <3> QED BY <3>1, <3>2
  <2> QED BY <1>1, <2>1, <2>4, <2>5 DEF BudgetIsTrue, LargestBudget, Budgets
<1>5. CASE Evaluated
  <2>1. PICK batch \in Batches, guard \in SharedGuards :
          /\ ExecutorEvaluate(batch, guard)
          /\ recent' = [k \in 1 .. HourTicks |-> recent[k] + CanaryApprovals]
    BY <1>5 DEF Evaluated
  <2> DEFINE e == Gate(engine, guard)
             n == Cardinality(Eligible(e, batch, guard))
             a == IF e.mode = "Canary" THEN Approved(e, n) ELSE 0
  <2>2. e \in EngineType /\ SameCanary(e, engine)
    BY <1>2, GateType, GateCanary
  <2>3. n \in Nat
    BY <2>2, EligibleFinite
  <2>4. engine' = AfterLoop(e, n) /\ CanaryApprovals = a
    BY <2>1 DEF ExecutorEvaluate, CanaryApprovals
  <2> HIDE DEF e, n
  <2>5. /\ a \in Nat
        /\ \/ a = 0 /\ SameCanary(engine', engine)
           \/ /\ engine.hour_age < HourTicks /\ engine'.hour_age = engine.hour_age
              /\ engine'.canary_deletes = engine.canary_deletes + a
              /\ a = 0 \/ engine'.canary_deletes <= LargestBudget
           \/ /\ engine.hour_age >= HourTicks /\ engine'.hour_age = 0
              /\ engine'.canary_deletes = a /\ a <= LargestBudget
    BY <2>2, <2>3, <2>4, LoopCanary DEF SameCanary
  <2> HIDE DEF a
  <2>6. recent \in [1 .. HourTicks -> Nat]
    BY DEF BudgetIsTrue
  <2>7. recent' \in [1 .. HourTicks -> Nat] /\ \A k \in 1 .. HourTicks : recent'[k] = recent[k] + a
    BY <2>1, <2>4, <2>5, <2>6
  <2>8. CASE a = 0 /\ SameCanary(engine', engine)
    <3>1. ASSUME NEW k \in 1 .. HourTicks PROVE recent'[k] = recent[k]
      BY <2>6, <2>7, <2>8
    <3>2. recent' = recent
      <4>1. recent' = [k \in 1 .. HourTicks |-> recent'[k]]
        BY <2>7
      <4>2. recent = [k \in 1 .. HourTicks |-> recent[k]]
        BY <2>6
      <4> QED BY <3>1, <4>1, <4>2, Zenon
    <3> QED BY <1>1, <2>8, <3>2, BudgetKept
  <2>9. CASE /\ engine.hour_age < HourTicks /\ engine'.hour_age = engine.hour_age
             /\ engine'.canary_deletes = engine.canary_deletes + a
             /\ a = 0 \/ engine'.canary_deletes <= LargestBudget
    <3>1. engine'.canary_deletes <= LargestBudget
      BY <1>2, <2>9 DEF BudgetIsTrue
    <3>2. ASSUME NEW k \in 1 .. HourTicks
          PROVE  /\ k <= engine'.hour_age + 1 => recent'[k] <= engine'.canary_deletes
                 /\ recent'[k] <= engine'.canary_deletes + LargestBudget
      <4>1. recent[k] \in Nat /\ recent'[k] = recent[k] + a
        BY <2>6, <2>7
      <4> QED BY <1>2, <2>5, <2>9, <4>1, LargestBudgetType DEF BudgetIsTrue
    <3>3. ~(engine'.hour_age >= HourTicks)
      BY <1>2, <2>9, BoundAssumption
    <3> QED BY <1>1, <2>7, <3>1, <3>2, <3>3 DEF BudgetIsTrue, LargestBudget, Budgets
  <2>10. CASE /\ engine.hour_age >= HourTicks /\ engine'.hour_age = 0
              /\ engine'.canary_deletes = a /\ a <= LargestBudget
    <3>1. \A k \in 1 .. HourTicks : recent[k] <= LargestBudget
      BY <1>2, <2>6, <2>10, LargestBudgetType, BoundAssumption DEF BudgetIsTrue
    <3>2. recent[1] = 0
      BY <2>10 DEF BudgetIsTrue
    <3>3. ASSUME NEW k \in 1 .. HourTicks
          PROVE  /\ k <= engine'.hour_age + 1 => recent'[k] <= engine'.canary_deletes
                 /\ recent'[k] <= engine'.canary_deletes + LargestBudget
      <4>1. recent[k] \in Nat /\ recent'[k] = recent[k] + a
        BY <2>6, <2>7
      <4>2. k <= engine'.hour_age + 1 => k = 1
        BY <2>10
      <4> QED BY <2>5, <2>10, <3>1, <3>2, <4>1, <4>2, LargestBudgetType
    <3>4. ~(engine'.hour_age >= HourTicks)
      BY <2>10, BoundAssumption
    <3> QED BY <1>1, <2>7, <2>10, <3>3, <3>4 DEF BudgetIsTrue, LargestBudget, Budgets
  <2> QED BY <2>5, <2>8, <2>9, <2>10
<1>6. CASE UNCHANGED <<vars, recent>>
  BY <1>1, <1>6, BudgetKept DEF vars, SameCanary
<1> QED BY <1>3, <1>4, <1>5, <1>6 DEF BudgetNext

\* In any hour Canary mode approves two budgets at most, for every hour length, every set of
\* configurations and every batch: one left over from the tumbling hour before and one of
\* the current.
THEOREM CanaryStaysWithinTwoBudgets == BudgetSpec => []TwoBudgetsPerHour
<1>1. TypeOK /\ BudgetIsTrue => TwoBudgetsPerHour
  <2> SUFFICES ASSUME TypeOK, BudgetIsTrue PROVE TwoBudgetsPerHour
    OBVIOUS
  <2>1. HourTicks \in 1 .. HourTicks /\ recent[HourTicks] \in Nat
    BY BoundAssumption DEF BudgetIsTrue
  <2>2. engine.canary_deletes \in Nat
    BY DEF TypeOK, EngineType
  <2> QED BY <2>1, <2>2, LargestBudgetType DEF BudgetIsTrue, TwoBudgetsPerHour
<1>2. TypeOK /\ BudgetIsTrue /\ [BudgetNext]_<<vars, recent>> => TypeOK' /\ BudgetIsTrue'
  BY StepBudget
<1> QED BY <1>1, <1>2, InitBudget, PTL DEF BudgetSpec

=============================================================================
