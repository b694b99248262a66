------------------------- MODULE MountMonitorProofs -------------------------
(***************************************************************************)
(* Proofs about MountMonitor: types, the level is never better than the    *)
(* last reading, and a run of bad forecasts revokes trust.                 *)
(***************************************************************************)
EXTENDS MountMonitor, FiniteSetTheorems, TLAPS

(***************************************************************************)
(* The inductive invariant.                                                *)
(***************************************************************************)

\* A guard that fails has not seen enough good forecasts yet.
CleanIsCounted == status = "Fail" => clean < RecoveryCleanWindows

\* A run of bad forecasts has raised the evidence from the lower clamp, wherever it stood
\* before, by the least penalty each, or up to the upper clamp.
EvidenceFollows == evidence >= bad_run * MildPenalty - MaxCredit \/ evidence = MaxEvidence

IInv == TypeOK /\ CleanIsCounted /\ EvidenceFollows /\ LevelIsNotBetter /\ DriftIsCaught

(***************************************************************************)
(* Constants and operators.                                                *)
(***************************************************************************)

\* The assumptions on the constants, one by one.
LEMMA Constants ==
  /\ Hysteresis \in 0 .. 99 /\ MaxRateError \in 0 .. 99
  /\ WindowSize \in Nat \ {0} /\ MinObservations \in Nat \ {0}
  /\ RecoveryCleanWindows \in Nat \ {0} /\ Reward \in Nat \ {0} /\ MildPenalty \in Nat \ {0}
  /\ FullPenalty \in Nat /\ FullPenalty >= MildPenalty
  /\ AlarmAt \in Nat /\ MaxCredit \in Nat /\ MaxEvidence \in Nat
  /\ 0 < AlarmAt /\ AlarmAt <= MaxEvidence /\ RunCap \in Nat /\ RunCap = MaxEvidence + MaxCredit
BY MonitorAssumption DEF RunCap

\* Products and quotients of numbers, for leaves with other operators in them.
LEMMA ProductNat == \A a, b \in Nat : a * b \in Nat
OBVIOUS

LEMMA QuotientNat == \A a \in Nat, b \in Nat \ {0} : a \div b \in Nat
OBVIOUS

\* A bad forecast costs the mild penalty at least, whatever its error.
LEMMA PenaltyIsPositive ==
  ASSUME NEW o \in Observations
  PROVE  Penalty(o) \in Nat /\ Penalty(o) >= MildPenalty
<1> DEFINE c == Clamped(o.error - MaxRateError, 0, 100)
           x == (FullPenalty - MildPenalty) * c
           d == 100 - MaxRateError
<1>1. o.error \in 0 .. 100
  BY MonitorAssumption
<1>2. c \in Nat
  BY <1>1, Constants DEF Clamped
<1>3. FullPenalty - MildPenalty \in Nat /\ d \in Nat \ {0}
  BY Constants
<1> HIDE DEF c
<1>4. x \in Nat
  BY <1>2, <1>3, ProductNat
<1> HIDE DEF x, d
<1>5. x \div d \in Nat
  BY <1>3, <1>4, QuotientNat
<1>6. Penalty(o) = MildPenalty + x \div d
  BY DEF Penalty, x, d, c
<1> QED BY <1>5, <1>6, Constants

\* Evidence stays between its clamps; a bad forecast raises it by the mild penalty, as far
\* as the upper clamp allows.
LEMMA EvidenceWeighed ==
  ASSUME NEW e \in -MaxCredit .. MaxEvidence, NEW o \in Observations
  PROVE  /\ Weighed(e, o) \in -MaxCredit .. MaxEvidence
         /\ ~ObsGood(o) => Weighed(e, o) >= e + MildPenalty \/ Weighed(e, o) = MaxEvidence
<1>1. Penalty(o) \in Nat /\ Penalty(o) >= MildPenalty
  BY PenaltyIsPositive
<1>2. CASE ObsGood(o)
  BY <1>2, Constants DEF Weighed, Clamped
<1>3. CASE ~ObsGood(o)
  BY <1>1, <1>3, Constants DEF Weighed, Clamped
<1> QED BY <1>2, <1>3

\* One more bad forecast in the run asks for one more mild penalty.
LEMMA LongerRun ==
  ASSUME NEW n \in Nat
  PROVE  n * MildPenalty \in Nat /\ (n + 1) * MildPenalty = n * MildPenalty + MildPenalty
BY Constants, ProductNat

\* A run costs at least one unit per forecast.
LEMMA LongestRun == RunCap * MildPenalty >= RunCap
BY Constants

\* The rolling window holds observations, WindowSize at most.
LEMMA WindowSlides ==
  ASSUME NEW w \in Seq(Observations), Len(w) <= WindowSize, NEW o \in Observations
  PROVE  Slid(w, o) \in Seq(Observations) /\ Len(Slid(w, o)) <= WindowSize
<1>1. CASE Len(w) < WindowSize
  BY <1>1, Constants DEF Slid
<1>2. CASE Len(w) = WindowSize
  <2>1. w # << >> /\ Slid(w, o) = Append(Tail(w), o)
    BY <1>2, Constants DEF Slid
  <2>2. Tail(w) \in Seq(Observations) /\ Len(Tail(w)) = Len(w) - 1
    BY <2>1
  <2> QED BY <1>2, <2>1, <2>2, Constants
<1> QED BY <1>1, <1>2, Constants

\* The positions of a window.
LEMMA UpTo == ASSUME NEW n \in Nat PROVE IsFiniteSet(1 .. n) /\ Cardinality(1 .. n) = n
BY FS_Interval

\* A reading at or above the floor of a level is at most in the level before it.
LEMMA RawBelow ==
  ASSUME NEW b \in Bands, NEW f \in 0 .. 100, NEW n \in 0 .. 3,
         f >= Floor(b, n + 1)
  PROVE  RawClassify(b, f) <= n
<1> DEFINE S == {lv \in 1 .. 4 : f < Floor(b, lv)}
<1>1. /\ Floor(b, 1) = b.green /\ Floor(b, 2) = b.yellow
      /\ Floor(b, 3) = b.orange /\ Floor(b, 4) = b.red
  BY DEF Floor
<1>2. /\ b.green \in 0 .. 100 /\ b.yellow \in 0 .. 100 /\ b.orange \in 0 .. 100 /\ b.red \in 0 .. 100
      /\ b.green > b.yellow /\ b.yellow > b.orange /\ b.orange > b.red
  BY MonitorAssumption
<1>3. ASSUME NEW lv \in 1 .. 4, f < Floor(b, lv) PROVE lv \in 1 .. n
  <2> HIDE DEF S
  <2>1. CASE lv <= n
    BY <2>1
  <2>2. CASE lv > n
    <3>1. /\ n = 0 => f >= b.green
          /\ n = 1 => f >= b.yellow
          /\ n = 2 => f >= b.orange
          /\ n = 3 => f >= b.red
      BY <1>1
    <3>2. /\ lv = 1 => f < b.green
          /\ lv = 2 => f < b.yellow
          /\ lv = 3 => f < b.orange
          /\ lv = 4 => f < b.red
      BY <1>1, <1>3
    <3> DEFINE g == b.green
               y == b.yellow
               o == b.orange
               r == b.red
    <3>3. /\ g \in Int /\ y \in Int /\ o \in Int /\ r \in Int /\ f \in Int
          /\ g > y /\ y > o /\ o > r
      BY <1>2
    <3>4. /\ n = 0 => f >= g
          /\ n = 1 => f >= y
          /\ n = 2 => f >= o
          /\ n = 3 => f >= r
          /\ lv = 1 => f < g
          /\ lv = 2 => f < y
          /\ lv = 3 => f < o
          /\ lv = 4 => f < r
      BY <3>1, <3>2
    <3> HIDE DEF g, y, o, r
    <3> QED BY <2>2, <3>3, <3>4
  <2> QED BY <2>1, <2>2
<1>4. IsFiniteSet(1 .. n) /\ Cardinality(1 .. n) = n
  BY UpTo
<1>5. Cardinality(S) <= Cardinality(1 .. n)
  BY <1>3, <1>4, FS_Subset
<1> QED BY <1>4, <1>5 DEF RawClassify

\* A reading is classified as one of the five levels.
LEMMA RawType ==
  ASSUME NEW b, NEW f
  PROVE  RawClassify(b, f) \in 0 .. 4
<1> DEFINE S == {lv \in 1 .. 4 : f < Floor(b, lv)}
<1>1. IsFiniteSet(1 .. 4) /\ Cardinality(1 .. 4) = 4
  BY UpTo
<1>2. S \subseteq 1 .. 4
  OBVIOUS
<1>3. IsFiniteSet(S) /\ Cardinality(S) <= 4
  BY <1>1, <1>2, FS_Subset
<1>4. Cardinality(S) \in Nat
  BY <1>3, FS_CardinalityType
<1> QED BY <1>3, <1>4 DEF RawClassify

\* Classification keeps to the five levels and never ends up below the raw level.
LEMMA ClassifyNotBetter ==
  ASSUME NEW b \in Bands, NEW f \in 0 .. 100, NEW n \in 0 .. 4
  PROVE  Classify(b, f, n) \in 0 .. 4 /\ Classify(b, f, n) >= RawClassify(b, f)
<1> DEFINE raw == RawClassify(b, f)
<1>1. raw \in 0 .. 4
  BY RawType
<1>2. CASE raw > n
  BY <1>1, <1>2 DEF Classify
<1>3. CASE ~(raw > n) /\ n > 0 /\ f >= Floor(b, n) + Hysteresis
  <2>1. n - 1 \in 0 .. 3 /\ (n - 1) + 1 = n
    BY <1>3
  <2>2. Floor(b, n) \in 0 .. 100
    BY <1>3, MonitorAssumption DEF Floor
  <2>3. f >= Floor(b, n)
    BY <1>3, <2>2, Constants
  <2>4. raw <= n - 1
    BY <2>1, <2>3, RawBelow
  <2> QED BY <1>1, <1>3, <2>1, <2>4 DEF Classify
<1>4. CASE ~(raw > n) /\ ~(n > 0 /\ f >= Floor(b, n) + Hysteresis)
  BY <1>1, <1>4 DEF Classify
<1> QED BY <1>2, <1>3, <1>4

(***************************************************************************)
(* Steps.                                                                  *)
(***************************************************************************)

\* The first state.
LEMMA InitHolds == Init => IInv
<1> SUFFICES ASSUME Init PROVE IInv
  OBVIOUS
<1>1. sampled \in BOOLEAN /\ reloaded \in BOOLEAN /\ reloaded
  BY Zenon DEF Init
<1>2. TypeOK
  BY <1>1, Constants DEF Init, TypeOK
<1>3. 0 * MildPenalty = 0
  BY Constants
<1>4. evidence = 0 /\ bad_run = 0 /\ status = "Unknown"
  BY DEF Init
<1> QED BY <1>1, <1>2, <1>3, <1>4, Constants
        DEF IInv, CleanIsCounted, EvidenceFollows, LevelIsNotBetter, DriftIsCaught

\* An observation of a mount that had one before.
LEMMA ObserveHolds ==
  ASSUME IInv, NEW o \in Observations,
         window' = Slid(window, o),
         Recompute(window', Weighed(evidence, o), o),
         bad_run' = IF ObsGood(o) THEN 0 ELSE Clamped(bad_run + 1, 0, RunCap)
  PROVE  /\ window' \in Seq(Observations) /\ Len(window') <= WindowSize
         /\ evidence' \in -MaxCredit .. MaxEvidence
         /\ status' \in {"Unknown", "Pass", "Fail"} /\ clean' \in 0 .. RecoveryCleanWindows
         /\ bad_run' \in 0 .. RunCap
         /\ CleanIsCounted' /\ EvidenceFollows' /\ DriftIsCaught'
<1> DEFINE e == Weighed(evidence, o)
           bad == bad_run * MildPenalty
<1>0. /\ window \in Seq(Observations) /\ Len(window) <= WindowSize
      /\ evidence \in -MaxCredit .. MaxEvidence
      /\ status \in {"Unknown", "Pass", "Fail"} /\ clean \in 0 .. RecoveryCleanWindows
      /\ bad_run \in 0 .. RunCap /\ bad_run \in Nat /\ CleanIsCounted
      /\ evidence >= bad - MaxCredit \/ evidence = MaxEvidence
  BY Constants DEF IInv, TypeOK, EvidenceFollows
<1>1. window' \in Seq(Observations) /\ Len(window') <= WindowSize
  BY <1>0, WindowSlides
<1>2. /\ e \in -MaxCredit .. MaxEvidence
      /\ ~ObsGood(o) => e >= evidence + MildPenalty \/ e = MaxEvidence
  BY <1>0, EvidenceWeighed
<1>3. bad_run' \in 0 .. RunCap
  BY <1>0, Constants DEF Clamped
<1> HIDE DEF e, bad
<1>4. ~ObsGood(o) => e >= bad_run' * MildPenalty - MaxCredit \/ e = MaxEvidence
  <2> SUFFICES ASSUME ~ObsGood(o), e # MaxEvidence
               PROVE  e >= bad_run' * MildPenalty - MaxCredit
    OBVIOUS
  <2>1. e >= evidence + MildPenalty
    BY <1>2
  <2>2. bad \in Nat /\ (bad_run + 1) * MildPenalty = bad + MildPenalty
    BY <1>0, LongerRun DEF bad
  <2>3. CASE bad_run < RunCap
    <3>1. bad_run' = bad_run + 1
      BY <1>0, <2>3, Constants DEF Clamped
    <3>2. bad_run' * MildPenalty = bad + MildPenalty
      BY <2>2, <3>1
    <3>3. evidence # MaxEvidence
      BY <1>0, <1>2, <2>1, Constants
    <3> QED BY <1>0, <1>2, <2>1, <2>2, <3>2, <3>3, Constants
  <2>4. CASE bad_run = RunCap
    <3>1. bad >= RunCap
      BY <2>4, LongestRun DEF bad
    <3>2. evidence = MaxEvidence
      BY <1>0, <2>2, <3>1, Constants
    <3> QED BY <1>2, <2>1, <3>2, Constants
  <2> QED BY <1>0, <2>3, <2>4, Constants
<1>5. /\ status' \in {"Unknown", "Pass", "Fail"} /\ clean' \in 0 .. RecoveryCleanWindows
      /\ status' = "Fail" => clean' < RecoveryCleanWindows
      /\ evidence' = e \/ (evidence' = 0 /\ ObsGood(o))
      /\ e >= AlarmAt => status' # "Pass"
  <2>1. CASE Len(window') < MinObservations
    BY <2>1, Constants DEF Recompute, e
  <2>2. CASE Len(window') >= MinObservations /\ status # "Fail"
    BY <1>0, <2>2, Constants DEF Recompute, e
  <2>3. CASE Len(window') >= MinObservations /\ status = "Fail"
    BY <1>0, <2>3, Constants DEF Recompute, CleanIsCounted, e
  <2> QED BY <1>1, <2>1, <2>2, <2>3, Constants
<1>6. evidence' \in -MaxCredit .. MaxEvidence
  BY <1>2, <1>5, Constants
<1>7. EvidenceFollows'
  <2>1. CASE ObsGood(o)
    <3>1. bad_run' = 0 /\ 0 * MildPenalty = 0
      BY <2>1, Constants
    <3>2. bad_run' * MildPenalty = 0
      BY <3>1
    <3> QED BY <1>6, <3>2, Constants DEF EvidenceFollows
  <2>2. CASE ~ObsGood(o)
    BY <1>4, <1>5, <2>2 DEF EvidenceFollows
  <2> QED BY <2>1, <2>2
<1>8. DriftIsCaught'
  <2> SUFFICES ASSUME bad_run' * MildPenalty >= AlarmAt + MaxCredit
               PROVE  status' # "Pass"
    BY DEF DriftIsCaught
  <2>1. CASE ObsGood(o)
    <3>1. bad_run' = 0 /\ 0 * MildPenalty = 0
      BY <2>1, Constants
    <3>2. bad_run' * MildPenalty = 0
      BY <3>1
    <3> QED BY <3>2, Constants
  <2>2. CASE ~ObsGood(o)
    <3> DEFINE p == bad_run' * MildPenalty
    <3>1. p \in Nat
      BY <1>3, Constants, ProductNat
    <3>2. p >= AlarmAt + MaxCredit /\ (e >= p - MaxCredit \/ e = MaxEvidence)
      BY <1>4, <2>2
    <3> HIDE DEF p
    <3>3. e >= AlarmAt
      BY <1>2, <3>1, <3>2, Constants
    <3> QED BY <1>5, <3>3
  <2> QED BY <2>1, <2>2
<1> QED BY <1>1, <1>3, <1>5, <1>6, <1>7, <1>8 DEF CleanIsCounted

\* Every step keeps the invariant.
LEMMA StepHolds ==
  ASSUME IInv, [Next]_vars
  PROVE  IInv'
<1>1. CASE Observe
  <2>1. /\ sampled' = TRUE /\ pc' = "control"
        /\ UNCHANGED <<bands, free, level, reloaded>>
    BY <1>1 DEF Observe
  <2>2. LevelIsNotBetter'
    BY <2>1 DEF IInv, LevelIsNotBetter, RawClassify, Floor
  <2>3. sampled' \in BOOLEAN /\ reloaded' \in BOOLEAN
    BY <2>1, Zenon DEF IInv, TypeOK
  <2>4. CASE ~sampled
    <3>1. UNCHANGED <<window, evidence, status, clean, bad_run>>
      BY <1>1, <2>4 DEF Observe
    <3>2. TypeOK'
      BY <2>1, <2>3, <3>1 DEF IInv, TypeOK
    <3> QED BY <2>2, <3>1, <3>2 DEF IInv, CleanIsCounted, EvidenceFollows, DriftIsCaught
  <2>5. CASE sampled
    <3>1. PICK o \in Observations :
            /\ window' = Slid(window, o)
            /\ Recompute(window', Weighed(evidence, o), o)
            /\ bad_run' = IF ObsGood(o) THEN 0 ELSE Clamped(bad_run + 1, 0, RunCap)
      BY <1>1, <2>5 DEF Observe
    <3>2. /\ window' \in Seq(Observations) /\ Len(window') <= WindowSize
          /\ evidence' \in -MaxCredit .. MaxEvidence
          /\ status' \in {"Unknown", "Pass", "Fail"} /\ clean' \in 0 .. RecoveryCleanWindows
          /\ bad_run' \in 0 .. RunCap
          /\ CleanIsCounted' /\ EvidenceFollows' /\ DriftIsCaught'
      BY <3>1, ObserveHolds
    <3>3. TypeOK'
      BY <2>1, <2>3, <3>2 DEF IInv, TypeOK
    <3> QED BY <2>2, <3>2, <3>3 DEF IInv
  <2> QED BY <2>4, <2>5
<1>2. CASE Control
  <2>1. /\ free' \in Frees /\ level' = Classify(bands, free', level) /\ bands' = bands
        /\ reloaded' = FALSE /\ pc' = "observe" /\ UNCHANGED guard_vars
    BY <1>2 DEF Control
  <2>2. free' \in 0 .. 100 /\ bands \in Bands /\ level \in 0 .. 4
    BY <2>1, MonitorAssumption DEF IInv, TypeOK
  <2>3. level' \in 0 .. 4 /\ level' >= RawClassify(bands, free')
    BY <2>1, <2>2, ClassifyNotBetter
  <2>4. LevelIsNotBetter'
    BY <2>1, <2>3 DEF LevelIsNotBetter, RawClassify, Floor
  <2>5. sampled' \in BOOLEAN /\ reloaded' \in BOOLEAN
    BY <2>1, Zenon DEF IInv, TypeOK, guard_vars
  <2>6. TypeOK'
    BY <2>1, <2>2, <2>3, <2>5 DEF IInv, TypeOK, guard_vars
  <2> QED BY <2>1, <2>4, <2>6 DEF IInv, CleanIsCounted, EvidenceFollows, DriftIsCaught, guard_vars
<1>3. CASE Reload
  <2>1. /\ bands' \in Bands /\ reloaded' = TRUE
        /\ UNCHANGED <<pc, free, level, guard_vars>>
    BY <1>3 DEF Reload
  <2>2. sampled' \in BOOLEAN /\ reloaded' \in BOOLEAN /\ reloaded'
    BY <2>1, Zenon DEF IInv, TypeOK, guard_vars
  <2>3. TypeOK'
    BY <2>1, <2>2 DEF IInv, TypeOK, guard_vars
  <2> QED BY <2>1, <2>2, <2>3 DEF IInv, CleanIsCounted, EvidenceFollows, LevelIsNotBetter,
             DriftIsCaught, guard_vars
<1>4. CASE UNCHANGED vars
  BY <1>4 DEF IInv, TypeOK, CleanIsCounted, EvidenceFollows, LevelIsNotBetter, DriftIsCaught,
     RawClassify, Floor, vars, guard_vars
<1> QED BY <1>1, <1>2, <1>3, <1>4 DEF Next

(***************************************************************************)
(* Theorems.                                                               *)
(***************************************************************************)

\* The invariant holds for every set of thresholds, every window and every choice of
\* rewards, penalties and clamps.
THEOREM Inductive == Spec => []IInv
<1>1. IInv /\ [Next]_vars => IInv'
  BY StepHolds
<1> QED BY <1>1, InitHolds, PTL DEF Spec

\* The window and the evidence stay within their limits, and the level is one of the five.
THEOREM TypeCorrect == Spec => []TypeOK
<1>1. IInv => TypeOK
  BY DEF IInv
<1> QED BY <1>1, Inductive, PTL

\* Hysteresis and one level a tick never make the level better than the last reading.
THEOREM LevelNeverBetter == Spec => []LevelIsNotBetter
<1>1. IInv => LevelIsNotBetter
  BY DEF IInv
<1> QED BY <1>1, Inductive, PTL

\* A run of bad forecasts that is worth the alarm and the largest credit revokes trust,
\* whatever the history of the mount.
THEOREM DriftRevokesTrust == Spec => []DriftIsCaught
<1>1. IInv => DriftIsCaught
  BY DEF IInv
<1> QED BY <1>1, Inductive, PTL
============================================================================
