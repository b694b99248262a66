----------------------- MODULE DeletionExecutorProofs -----------------------
(***************************************************************************)
(* What holds of the deletion executor for every set of paths and          *)
(* identities, every threshold and every cooldown: it removes what was     *)
(* scored, its breaker trips only after failures in a row and backs off,   *)
(* and repeated deletions of one path are spaced.  The candidate index its *)
(* failures are fed to doubles its cooldowns in the same way: its          *)
(* theorems, about IndexedScan, follow in the second part.                 *)
(***************************************************************************)
EXTENDS DeletionExecutor, IndexedScan, FiniteSetTheorems, FunctionTheorems, TLAPS

(***************************************************************************)
(* Powers of two.                                                          *)
(***************************************************************************)

\* A set of n elements has 2 ^ n subsets: what the provers know of powers comes from here.
LEMMA PowerIsSubsets ==
  ASSUME NEW n \in Nat
  PROVE  /\ 2 ^ n = Cardinality(SUBSET (1 .. n))
         /\ IsFiniteSet(SUBSET (1 .. n))
         /\ 2 ^ n \in Nat
<1>1. IsFiniteSet(1 .. n) /\ Cardinality(1 .. n) = n
  BY FS_Interval
<1>2. IsFiniteSet(SUBSET (1 .. n)) /\ Cardinality(SUBSET (1 .. n)) = 2 ^ n
  BY <1>1, FS_SUBSET
<1> QED
  BY <1>2, FS_CardinalityType

\* A longer run of doublings is no smaller.
LEMMA PowerMonotone ==
  ASSUME NEW m \in Nat, NEW n \in Nat, m <= n
  PROVE  2 ^ m <= 2 ^ n
<1>1. SUBSET (1 .. m) \subseteq SUBSET (1 .. n)
  OBVIOUS
<1>2. Cardinality(SUBSET (1 .. m)) <= Cardinality(SUBSET (1 .. n))
  BY <1>1, PowerIsSubsets, FS_Subset
<1> QED
  BY <1>2, PowerIsSubsets

\* One more doubling: the subsets of 1 .. n + 1 are those with n + 1 and those without.
LEMMA PowerDoubles ==
  ASSUME NEW n \in Nat
  PROVE  2 ^ (n + 1) = 2 * 2 ^ n
<1> DEFINE Without == SUBSET (1 .. n)
           With == {s \in SUBSET (1 .. n + 1) : n + 1 \in s}
           f == [s \in Without |-> s \cup {n + 1}]
<1>1. IsFiniteSet(Without) /\ Cardinality(Without) = 2 ^ n /\ 2 ^ n \in Nat
  BY PowerIsSubsets
<1>2. f \in Bijection(Without, With)
  <2>1. ASSUME NEW s \in Without PROVE f[s] \in With
    OBVIOUS
  <2>2. ASSUME NEW s \in Without, NEW t \in Without, f[s] = f[t] PROVE s = t
    <3>1. n + 1 \notin s /\ n + 1 \notin t
      OBVIOUS
    <3>2. s = f[s] \ {n + 1} /\ t = f[t] \ {n + 1}
      BY <3>1
    <3> QED
      BY <3>2, <2>2
  <2>3. ASSUME NEW t \in With PROVE \E s \in Without : f[s] = t
    <3>1. t \ {n + 1} \in Without
      OBVIOUS
    <3>2. f[t \ {n + 1}] = t
      BY <3>1
    <3> QED
      BY <3>1, <3>2
  <2>4. f \in [Without -> With]
    BY <2>1
  <2> QED
    <3> HIDE DEF f, Without, With
    <3> QED
      BY <2>2, <2>3, <2>4, Fun_IsInj, Fun_IsSurj, Fun_IsBij DEF Bijection, Injection, Surjection, IsInjective
<1>3. IsFiniteSet(With) /\ Cardinality(With) = 2 ^ n
  <2>1. ExistsBijection(Without, With)
    BY <1>2 DEF ExistsBijection
  <2> QED
    BY <1>1, <2>1, FS_Bijection
<1>4. SUBSET (1 .. n + 1) = Without \cup With /\ Without \cap With = {}
  <2>1. ASSUME NEW s \in SUBSET (1 .. n + 1), n + 1 \notin s PROVE s \in Without
    <3>1. \A x \in s : x \in 1 .. n
      BY <2>1
    <3> QED
      BY <3>1
  <2>2. \A s \in Without : n + 1 \notin s /\ s \subseteq 1 .. n + 1
    OBVIOUS
  <2> QED
    BY <2>1, <2>2
<1>5. Cardinality(SUBSET (1 .. n + 1)) = 2 ^ n + 2 ^ n
  <2> HIDE DEF Without, With
  <2>1. Cardinality(Without \cup With) = Cardinality(Without) + Cardinality(With) - Cardinality({})
    BY <1>1, <1>3, <1>4, FS_Union
  <2>2. Cardinality({}) = 0
    BY FS_EmptySet
  <2>3. Cardinality(SUBSET (1 .. n + 1)) = Cardinality(Without \cup With)
    BY <1>4, Zenon
  <2> QED
    BY <2>1, <2>2, <2>3, <1>1, <1>3
<1> QED
  BY <1>1, <1>5, PowerIsSubsets

\* n doublings of one reach n: the singletons of 1 .. n are different subsets.
LEMMA PowerExceeds ==
  ASSUME NEW n \in Nat
  PROVE  n <= 2 ^ n
<1> DEFINE f == [i \in 1 .. n |-> {i}]
<1>1. f \in Injection(1 .. n, SUBSET (1 .. n))
  BY Fun_IsInj DEF Injection, IsInjective
<1>2. Cardinality(1 .. n) <= Cardinality(SUBSET (1 .. n))
  <2> HIDE DEF f
  <2> QED
    BY <1>1, PowerIsSubsets, FS_Injection
<1>3. Cardinality(1 .. n) = n
  BY FS_Interval
<1> QED
  BY <1>2, <1>3, PowerIsSubsets

\* No doubling.
LEMMA PowerZero == 2 ^ 0 = 1
<1>1. SUBSET (1 .. 0) = {{}}
  OBVIOUS
<1> QED
  BY <1>1, PowerIsSubsets, FS_Singleton

(***************************************************************************)
(* Doubled cooldowns.                                                      *)
(***************************************************************************)

\* Products of numbers, for the leaves that know 2 ^ n only as some number.
LEMMA ProductType == \A a, b \in Nat : a * b \in Nat
  OBVIOUS

\* A doubled cooldown is a number between zero and its cap.
LEMMA DoubledType ==
  ASSUME NEW base \in Nat, NEW n \in Nat, NEW cap \in Nat
  PROVE  Doubled(base, n, cap) \in 0 .. cap
<1>1. base * 2 ^ n \in Nat
  BY PowerIsSubsets, ProductType
<1> QED
  BY <1>1 DEF Doubled, Least

\* Before the first doubling.
LEMMA DoubledZero ==
  ASSUME NEW base \in Nat, NEW cap \in Nat, base <= cap
  PROVE  Doubled(base, 0, cap) = base
<1>1. base * 2 ^ 0 = base
  BY PowerZero
<1> QED
  BY <1>1 DEF Doubled, Least

\* The cooldown can be doubled in place, capped every time.
LEMMA DoubledNext ==
  ASSUME NEW base \in Nat, NEW n \in Nat, NEW cap \in Nat
  PROVE  Doubled(base, n + 1, cap) = Least(Doubled(base, n, cap) * 2, cap)
<1> DEFINE x == base * 2 ^ n
<1>1. x \in Nat
  BY PowerIsSubsets, ProductType
<1>2. base * 2 ^ (n + 1) = 2 * x
  <2>1. \A k \in Nat : base * (2 * k) = 2 * (base * k)
    OBVIOUS
  <2> QED
    BY <2>1, PowerDoubles, PowerIsSubsets
<1>3. Doubled(base, n, cap) = Least(x, cap) /\ Doubled(base, n + 1, cap) = Least(2 * x, cap)
  BY <1>2 DEF Doubled
<1> HIDE DEF x
<1> QED
  BY <1>1, <1>3 DEF Least

\* As many doublings as the cap has ticks reach the cap.
LEMMA DoubledSaturates ==
  ASSUME NEW base \in Nat \ {0}, NEW n \in Nat, NEW cap \in Nat, cap <= n
  PROVE  Doubled(base, n, cap) = cap
<1> DEFINE k == 2 ^ n
<1>1. k \in Nat /\ n <= k
  BY PowerIsSubsets, PowerExceeds
<1>2. base * k \in Nat /\ base * k >= k
  <2> HIDE DEF k
  <2> QED
    BY <1>1
<1>3. base * 2 ^ n >= cap
  <2>1. base * 2 ^ n = base * k
    OBVIOUS
  <2> HIDE DEF k
  <2> QED
    BY <1>1, <1>2, <2>1
<1> QED
  BY <1>2, <1>3 DEF Doubled, Least

\* More doublings never make the cooldown shorter.
LEMMA DoubledMonotone ==
  ASSUME NEW base \in Nat, NEW m \in Nat, NEW n \in Nat, m <= n, NEW cap \in Nat
  PROVE  Doubled(base, m, cap) <= Doubled(base, n, cap)
<1> DEFINE j == 2 ^ m
           k == 2 ^ n
<1>1. j \in Nat /\ k \in Nat /\ j <= k
  BY PowerIsSubsets, PowerMonotone
<1>2. base * j \in Nat /\ base * k \in Nat /\ base * j <= base * k
  <2> HIDE DEF j, k
  <2> QED
    BY <1>1
<1>3. base * 2 ^ m = base * j /\ base * 2 ^ n = base * k
  OBVIOUS
<1> QED
  <2> HIDE DEF j, k
  <2> QED
    BY <1>2, <1>3 DEF Doubled, Least

(***************************************************************************)
(* The inductive invariant.                                                *)
(***************************************************************************)

Attempting == {"delete_path", "remove", "gone"}

\* Inside a candidate there is one, the breaker has room for its failure, and no
\* cooldown is running while a batch is.
BatchShape ==
  /\ pc \in Attempting => batch # << >> /\ consecutive < Threshold
  /\ pc # "idle" => trip_age = -1

\* Until another process interferes, the path still holds what delete_path saw.
LookHolds == pc = "remove" /\ ~swapped => Recheck

\* The cooldown is the base doubled once per trip, and a trip whose time was forgotten
\* has been waited out.
BackoffIsTrue ==
  /\ breaker_cooldown = Doubled(BreakerBase, trips, BreakerMax)
  /\ trips > 0 => \/ trip_age = since_trip
                  \/ trip_age = -1 /\ since_trip >= breaker_cooldown

\* The tracker remembers a run of deletions.
GapIsTracked(p) ==
  gap[p].count > 0 => history[p].count >= gap[p].count /\ history[p].age = gap[p].age

GapsAreTracked == \A p \in Paths : GapIsTracked(p)

\* consecutive is the length of the run of failures that the outcomes end in.
RowIsTrue ==
  /\ LastFailed(consecutive)
  /\ consecutive < Len(outcomes) => outcomes[Len(outcomes) - consecutive] # "failed"

IInv ==
  /\ TypeOK /\ BatchShape
  /\ LookHolds /\ RemovedIsScored
  /\ BackoffIsTrue /\ GapsAreTracked /\ RowIsTrue

\* The assumptions on the constants, one by one.
LEMMA ConstantTypes ==
  /\ RequireIdentity \in BOOLEAN
  /\ Threshold \in Nat /\ Threshold > 0 /\ PruneEvery \in Nat /\ PruneEvery > 0
  /\ BreakerBase \in Nat /\ BreakerBase > 0 /\ BreakerMax \in Nat /\ BreakerBase <= BreakerMax
  /\ AgeCap \in Nat /\ MaxCycles \in Nat /\ MaxCycles > 0
  /\ \A c \in Cooldowns : c.base \in Nat /\ c.max \in Nat /\ c.max <= AgeCap
  /\ \A c \in Candidates : c.path \in Paths /\ c.identity \in Ids \cup {NoId}
  /\ NoId \notin Ids
<1>1. {Threshold, BreakerBase, BreakerMax, PruneEvery, MaxCycles} \subseteq Nat \ {0}
  BY ExecutorAssumption
<1>2. {BatchLimit, AgeCap} \subseteq Nat
  BY ExecutorAssumption
<1>3. \A c \in Cooldowns : c.base \in Nat /\ c.max \in Nat /\ c.max <= AgeCap
  <2>1. \A c \in [base : Nat, max : 0 .. AgeCap] : c.base \in Nat /\ c.max \in 0 .. AgeCap
    OBVIOUS
  <2> QED
    BY <1>2, <2>1, ExecutorAssumption
<1>4. \A c \in Candidates : c.path \in Paths /\ c.identity \in Ids \cup {NoId}
  BY ExecutorAssumption
<1> QED
  BY <1>1, <1>2, <1>3, <1>4, ExecutorAssumption

\* A plan is a sequence of candidates.
LEMMA PlanType == Plans \subseteq Seq(Candidates)
<1> SUFFICES ASSUME NEW s \in Plans PROVE s \in Seq(Candidates)
  OBVIOUS
<1>1. PICK n \in 1 .. BatchLimit : s \in [1 .. n -> Candidates]
  BY DEF Plans
<1>2. BatchLimit \in Nat /\ n \in Nat
  BY <1>1, ExecutorAssumption
<1> QED
  BY <1>1, <1>2

\* What pruning, recording and ageing do to the counters keeps them in their domain.
LEMMA TrackerType ==
  ASSUME TypeOK, NEW h \in [Paths -> Counters]
  PROVE  /\ NoRecord \in Counters
         /\ [p \in Paths |-> NoRecord] \in [Paths -> Counters]
         /\ Recorded(h) \in [Paths -> Counters] /\ Aged(h) \in [Paths -> Counters]
         /\ \A c \in Cooldowns : /\ Pruned(h, c) \in [Paths -> Counters]
                                 /\ InSuccession(h, c) \in [Paths -> Counters]
<1>1. NoRecord \in Counters
  BY ConstantTypes DEF NoRecord, Counters
<1>2. Recorded(h) \in [Paths -> Counters]
  <2>1. ASSUME NEW c \in Counters, NEW n \in Nat
        PROVE  [count |-> Least(c.count + n, MaxCycles), age |-> 0] \in Counters
    BY ConstantTypes DEF Counters, Least
  <2> QED
    BY <2>1 DEF Recorded, TypeOK
<1>3. ASSUME NEW c \in Cooldowns
      PROVE  Pruned(h, c) \in [Paths -> Counters] /\ InSuccession(h, c) \in [Paths -> Counters]
  BY <1>1 DEF Pruned, InSuccession
<1>4. Aged(h) \in [Paths -> Counters]
  <2>1. ASSUME NEW c \in Counters
        PROVE  [c EXCEPT !.age = Older(@, AgeCap)] \in Counters
    BY ConstantTypes DEF Counters, Older, Least
  <2> QED
    BY <2>1 DEF Aged
<1> QED
  BY <1>1, <1>2, <1>3, <1>4

\* Appending an outcome that is no failure, or one more failure.
LEMMA RowGrows ==
  ASSUME NEW s \in Seq(Outcomes), NEW x \in Outcomes
  PROVE  /\ Append(s, x) \in Seq(Outcomes) /\ Len(Append(s, x)) = Len(s) + 1
         /\ \A k \in 1 .. Len(s) : Append(s, x)[k] = s[k]
         /\ Append(s, x)[Len(s) + 1] = x
OBVIOUS

\* The candidate at the head of a batch, and the rest of the batch.
LEMMA HeadType ==
  ASSUME batch \in Seq(Candidates), batch # << >>
  PROVE  /\ Candidate \in Candidates /\ Candidate.path \in Paths
         /\ Candidate.identity \in Ids \cup {NoId}
         /\ Tail(batch) \in Seq(Candidates)
<1>1. Candidate \in Candidates
  BY DEF Candidate
<1> QED
  BY <1>1, ConstantTypes

\* The initial state satisfies the invariant.
LEMMA InitIInv == Init => IInv
<1> SUFFICES ASSUME Init PROVE IInv
  OBVIOUS
<1>1. TypeOK
  <2>1. history \in [Paths -> Counters] /\ gap \in [Paths -> Counters]
    BY ConstantTypes DEF Init, NoRecord, Counters
  <2>2. /\ batch \in Seq(Candidates) /\ deleted \in [Paths -> Nat]
        /\ cooldowns \in Cooldowns /\ outcomes \in Seq(Outcomes)
    BY DEF Init, NothingDeleted
  <2>3. 0 \in 0 .. PruneEvery - 1 /\ -1 \in -1 .. BreakerMax
    BY ConstantTypes
  <2>4. /\ disk \in [Paths -> Things \cup {NoId}]
        /\ pc \in {"idle", "candidate", "delete_path", "remove", "gone"}
    BY DEF Init
  <2>5. consecutive \in 0 .. Threshold /\ batch_count \in 0 .. PruneEvery - 1
    BY <2>3, ConstantTypes DEF Init
  <2>6. trip_age \in -1 .. BreakerMax
    BY <2>3 DEF Init
  <2>7. /\ breaker_cooldown \in BreakerBase .. BreakerMax
        /\ trips \in 0 .. BreakerMax /\ since_trip \in 0 .. BreakerMax
    BY <2>3, ConstantTypes DEF Init
  <2>8. bypass \in BOOLEAN /\ swapped \in BOOLEAN /\ mistaken \in BOOLEAN
    BY Zenon DEF Init
  <2> QED
    BY <2>1, <2>2, <2>4, <2>5, <2>6, <2>7, <2>8, Zenon DEF TypeOK
<1>2. BatchShape /\ LookHolds /\ RemovedIsScored
  BY DEF Init, BatchShape, Attempting, LookHolds, RemovedIsScored
<1>3. BackoffIsTrue
  BY ConstantTypes, DoubledZero DEF Init, BackoffIsTrue
<1>4. GapsAreTracked
  BY DEF Init, GapsAreTracked, GapIsTracked, NoRecord
<1>5. RowIsTrue
  BY DEF Init, RowIsTrue, LastFailed
<1> QED
  BY <1>1, <1>2, <1>3, <1>4, <1>5 DEF IInv

\* One more candidate of the batch has been tried and has failed.
LEMMA FailType ==
  ASSUME TypeOK, BatchShape, Fail, pc \in Attempting
  PROVE  /\ pc' = "candidate" /\ batch' \in Seq(Candidates) /\ consecutive' \in 0 .. Threshold
         /\ outcomes' \in Seq(Outcomes)
         /\ UNCHANGED <<deleted, swapped, mistaken, trips, since_trip, gap>>
<1>1. batch' = Tail(batch) /\ batch # << >> /\ consecutive < Threshold
  BY DEF Fail, NextCandidate, BatchShape
<1>2. outcomes' \in Seq(Outcomes)
  BY RowGrows DEF Fail, Tried, TypeOK, Outcomes
<1> QED
  BY <1>1, <1>2, HeadType, ConstantTypes DEF Fail, NextCandidate, Tried, TypeOK

\* What is left when a batch is over.
LEMMA ForgetType ==
  ASSUME ForgetBatch
  PROVE  /\ pc' = "idle" /\ batch' \in Seq(Candidates) /\ consecutive' \in 0 .. Threshold
         /\ deleted' \in [Paths -> Nat] /\ outcomes' \in Seq(Outcomes)
         /\ bypass' \in BOOLEAN /\ swapped' \in BOOLEAN
<1>1. bypass' \in BOOLEAN /\ swapped' \in BOOLEAN
  BY Zenon DEF ForgetBatch
<1> QED
  BY <1>1, ConstantTypes DEF ForgetBatch, NothingDeleted

\* Every step keeps the variables in their domains, and the batch in shape.
LEMMA TypeStep ==
  ASSUME TypeOK, BatchShape, [Next]_vars
  PROVE  TypeOK' /\ BatchShape'
<1> USE ConstantTypes DEF TypeOK, BatchShape, Attempting
<1>1. CASE DropBatch
  BY <1>1 DEF DropBatch, Proceed, exec_vars, ghost_vars, NextCount
<1>2. CASE ReceiveBatch
  BY <1>2, PlanType DEF ReceiveBatch, Proceed, StartBatch, ghost_vars, NextCount
<1>3. CASE IdleBatch
  <2>1. cooldowns' \in Cooldowns
    BY <1>3 DEF IdleBatch, Proceed
  <2>2. history' \in [Paths -> Counters] /\ gap' \in [Paths -> Counters]
    BY <1>3, <2>1, TrackerType DEF IdleBatch
  <2> QED
    BY <1>3, <2>1, <2>2 DEF IdleBatch, Proceed, exec_vars, NextCount
<1>4. CASE Skip
  BY <1>4 DEF Skip, NextCandidate, tracker_vars, breaker_vars, ghost_vars
<1>5. CASE PreflightSkip
  <2>1. outcomes' \in Seq(Outcomes)
    BY <1>5, RowGrows DEF PreflightSkip, Tried, Outcomes
  <2> QED
    BY <1>5, <2>1 DEF PreflightSkip, NextCandidate, Tried, tracker_vars, breaker_vars
<1>6. CASE PreflightPass
  BY <1>6 DEF PreflightPass, tracker_vars, breaker_vars, ghost_vars
<1>7. CASE DeletePath
  <2>1. CASE Recheck
    <3>1. /\ pc' = "remove" /\ swapped' = FALSE /\ pc = "delete_path"
          /\ UNCHANGED <<disk, batch, consecutive, bypass, deleted, history, cooldowns, batch_count,
                         trip_age, breaker_cooldown, mistaken, trips, since_trip, gap, outcomes>>
      BY <1>7, <2>1 DEF DeletePath, tracker_vars, breaker_vars
    <3> QED
      BY <3>1
  <2>2. CASE Fail
    <3>1. UNCHANGED <<disk, bypass, history, cooldowns, batch_count, trip_age, breaker_cooldown>>
      BY <1>7 DEF DeletePath, tracker_vars, breaker_vars
    <3> QED
      BY <1>7, <2>2, <3>1, FailType DEF DeletePath
  <2> QED
    BY <1>7, <2>1, <2>2 DEF DeletePath
<1>8. CASE Remove
  <2>1. UNCHANGED <<bypass, history, cooldowns, batch_count, trip_age, breaker_cooldown>>
    BY <1>8 DEF Remove, tracker_vars, breaker_vars
  <2>2. CASE Fail /\ UNCHANGED disk
    BY <1>8, <2>1, <2>2, FailType DEF Remove
  <2>3. CASE ~ (Fail /\ UNCHANGED disk)
    <3>1. /\ disk' = [disk EXCEPT ![Candidate.path] = NoId] /\ mistaken' \in BOOLEAN
          /\ pc' = "gone"
          /\ UNCHANGED <<batch, consecutive, deleted, swapped, trips, since_trip, gap, outcomes>>
      BY <1>8, <2>3 DEF Remove
    <3>2. disk' \in [Paths -> Things \cup {NoId}]
      BY <3>1
    <3> QED
      BY <1>8, <2>1, <3>1, <3>2 DEF Remove
  <2> QED
    BY <2>2, <2>3
<1>9. CASE ConfirmGone
  <2>1. UNCHANGED <<disk, bypass, history, cooldowns, batch_count, trip_age, breaker_cooldown>>
    BY <1>9 DEF ConfirmGone, tracker_vars, breaker_vars
  <2>2. CASE Fail
    BY <1>9, <2>1, <2>2, FailType DEF ConfirmGone
  <2>3. CASE ~Fail
    <3>1. /\ NextCandidate /\ consecutive' = 0
          /\ deleted' = [deleted EXCEPT ![Candidate.path] = @ + 1] /\ Tried("deleted")
      BY <1>9, <2>3 DEF ConfirmGone
    <3>2. outcomes' \in Seq(Outcomes)
      BY <3>1, RowGrows DEF Tried, Outcomes
    <3>3. deleted' \in [Paths -> Nat] /\ batch' \in Seq(Candidates)
      BY <1>9, <3>1, HeadType DEF NextCandidate, ConfirmGone
    <3>4. /\ pc' = "candidate" /\ consecutive' = 0
          /\ UNCHANGED <<swapped, mistaken, trips, since_trip, gap>>
      BY <3>1 DEF NextCandidate, Tried
    <3>5. trip_age = -1
      BY <1>9 DEF ConfirmGone
    <3> QED
      BY <2>1, <3>2, <3>3, <3>4, <3>5
  <2> QED
    BY <2>2, <2>3
<1>10. CASE EndBatch
  <2>1. history' \in [Paths -> Counters]
    BY <1>10, TrackerType DEF EndBatch
  <2>2. gap' \in [Paths -> Counters]
    BY <1>10, TrackerType DEF EndBatch
  <2>3. breaker_cooldown' \in BreakerBase .. BreakerMax /\ trips' \in 0 .. BreakerMax
    BY <1>10 DEF EndBatch, NextBreakerCooldown, Least
  <2>4. trip_age' \in -1 .. BreakerMax /\ since_trip' \in 0 .. BreakerMax
    BY <1>10 DEF EndBatch
  <2>5. ForgetBatch /\ UNCHANGED <<disk, cooldowns, batch_count, mistaken>>
    BY <1>10 DEF EndBatch
  <2> QED
    BY <2>1, <2>2, <2>3, <2>4, <2>5, ForgetType
<1>11. CASE Respawn
  <2>1. history' \in [Paths -> Counters] /\ gap' \in [Paths -> Counters]
    BY <1>11, TrackerType DEF Respawn
  <2>2. 0 \in 0 .. PruneEvery - 1 /\ -1 \in -1 .. BreakerMax
    OBVIOUS
  <2>3. /\ ForgetBatch /\ cooldowns' \in Cooldowns /\ batch_count' = 0 /\ trip_age' = -1
        /\ breaker_cooldown' = BreakerBase /\ trips' = 0 /\ since_trip' = 0
        /\ UNCHANGED <<disk, mistaken>>
    BY <1>11 DEF Respawn
  <2> QED
    BY <2>1, <2>2, <2>3, ForgetType
<1>12. CASE OtherProcess
  BY <1>12 DEF OtherProcess, exec_vars, tracker_vars, breaker_vars, Things
<1>13. CASE Tick
  BY <1>13, TrackerType DEF Tick, exec_vars, Older, Least
<1>14. CASE UNCHANGED vars
  BY <1>14 DEF vars, exec_vars, tracker_vars, breaker_vars, ghost_vars
<1> QED
  BY <1>1, <1>2, <1>3, <1>4, <1>5, <1>6, <1>7, <1>8, <1>9, <1>10, <1>11, <1>12, <1>13, <1>14 DEF Next

\* Only another process changes what is at the path between delete_path's look and the
\* removal, so no removal is mistaken.
LEMMA LookStep ==
  ASSUME TypeOK, BatchShape, LookHolds, RemovedIsScored, [Next]_vars
  PROVE  LookHolds' /\ RemovedIsScored'
<1> USE DEF LookHolds, RemovedIsScored, Recheck, SameIdentity, Candidate
<1>1. CASE DropBatch
  BY <1>1 DEF DropBatch, exec_vars, ghost_vars
<1>2. CASE ReceiveBatch
  BY <1>2 DEF ReceiveBatch, StartBatch, ghost_vars
<1>3. CASE IdleBatch
  BY <1>3 DEF IdleBatch, exec_vars
<1>4. CASE Skip
  BY <1>4 DEF Skip, NextCandidate, ghost_vars
<1>5. CASE PreflightSkip
  BY <1>5 DEF PreflightSkip, NextCandidate, Tried
<1>6. CASE PreflightPass
  BY <1>6 DEF PreflightPass, ghost_vars
<1>7. CASE DeletePath
  BY <1>7 DEF DeletePath, Fail, NextCandidate, Tried
<1>8. CASE Remove
  <2>1. CASE Fail /\ UNCHANGED disk
    BY <1>8, <2>1 DEF Fail, NextCandidate, Tried
  <2>2. CASE ~ (Fail /\ UNCHANGED disk)
    <3>1. pc' = "gone"
      BY <1>8, <2>2 DEF Remove
    <3>2. mistaken' = (mistaken \/ (/\ disk[Candidate.path] # Candidate.identity
                                    /\ Candidate.identity # NoId \/ RequireIdentity
                                    /\ ~swapped))
      BY <1>8, <2>2 DEF Remove
    <3>3. ~swapped => (Candidate.identity = NoId => ~RequireIdentity)
                      /\ (Candidate.identity # NoId => disk[Candidate.path] = Candidate.identity)
      BY <1>8 DEF Remove
    <3> QED
      BY <3>1, <3>2, <3>3
  <2> QED
    BY <2>1, <2>2
<1>9. CASE ConfirmGone
  BY <1>9 DEF ConfirmGone, Fail, NextCandidate, Tried
<1>10. CASE EndBatch
  BY <1>10 DEF EndBatch, ForgetBatch
<1>11. CASE Respawn
  BY <1>11 DEF Respawn, ForgetBatch
<1>12. CASE OtherProcess
  <2>1. PICK p \in Paths : /\ \A q \in Paths \ {p} : disk'[q] = disk[q]
                          /\ swapped' = (swapped \/ (pc = "remove" /\ Candidate.path = p))
                          /\ UNCHANGED <<pc, batch, mistaken>>
    BY <1>12 DEF OtherProcess, exec_vars, TypeOK
  <2>2. pc = "remove" => Candidate.path \in Paths
    BY HeadType DEF TypeOK, BatchShape, Attempting
  <2> QED
    BY <2>1, <2>2
<1>13. CASE Tick
  BY <1>13 DEF Tick, exec_vars
<1>14. CASE UNCHANGED vars
  BY <1>14 DEF vars, exec_vars, tracker_vars, breaker_vars, ghost_vars
<1> QED
  BY <1>1, <1>2, <1>3, <1>4, <1>5, <1>6, <1>7, <1>8, <1>9, <1>10, <1>11, <1>12, <1>13, <1>14 DEF Next

\* The cooldown follows the trips, and only the passing of time lets a trip be forgotten.
LEMMA BackoffStep ==
  ASSUME TypeOK, BatchShape, BackoffIsTrue, [Next]_vars
  PROVE  BackoffIsTrue'
<1> USE DEF BackoffIsTrue
<1>1. CASE DropBatch
  BY <1>1 DEF DropBatch, Proceed, BreakerCooling, ghost_vars, TypeOK
<1>2. CASE ReceiveBatch
  BY <1>2 DEF ReceiveBatch, Proceed, BreakerCooling, ghost_vars, TypeOK
<1>3. CASE IdleBatch
  BY <1>3 DEF IdleBatch, Proceed, BreakerCooling, TypeOK
<1>4. CASE Skip
  BY <1>4 DEF Skip, breaker_vars, ghost_vars
<1>5. CASE PreflightSkip
  BY <1>5 DEF PreflightSkip, Tried, breaker_vars
<1>6. CASE PreflightPass
  BY <1>6 DEF PreflightPass, breaker_vars, ghost_vars
<1>7. CASE DeletePath
  BY <1>7 DEF DeletePath, Fail, Tried, breaker_vars
<1>8. CASE Remove
  BY <1>8 DEF Remove, Fail, Tried, breaker_vars
<1>9. CASE ConfirmGone
  BY <1>9 DEF ConfirmGone, Fail, Tried, breaker_vars
<1>10. CASE EndBatch
  <2>1. CASE Tripped
    <3>1. /\ breaker_cooldown' = Least(breaker_cooldown * 2, BreakerMax)
          /\ trips' = Least(trips + 1, BreakerMax)
          /\ trip_age' = 0 /\ since_trip' = 0
      BY <1>10, <2>1 DEF EndBatch, NextBreakerCooldown
    <3>2. CASE trips < BreakerMax
      BY <3>1, <3>2, DoubledNext, ConstantTypes DEF TypeOK, Least
    <3>3. CASE trips = BreakerMax
      <4>1. breaker_cooldown = BreakerMax
        BY <3>3, DoubledSaturates, ConstantTypes
      <4>2. trips' = trips /\ breaker_cooldown' = breaker_cooldown
        BY <3>1, <3>3, <4>1, ConstantTypes DEF Least
      <4> QED
        BY <3>1, <4>2
    <3> QED
      BY <3>2, <3>3, ConstantTypes DEF TypeOK
  <2>2. CASE ~Tripped /\ Successful
    BY <1>10, <2>2, DoubledZero, ConstantTypes DEF EndBatch, NextBreakerCooldown
  <2>3. CASE ~Tripped /\ ~Successful
    BY <1>10, <2>3 DEF EndBatch, NextBreakerCooldown
  <2> QED
    BY <2>1, <2>2, <2>3
<1>11. CASE Respawn
  BY <1>11, DoubledZero, ConstantTypes DEF Respawn
<1>12. CASE OtherProcess
  BY <1>12 DEF OtherProcess, breaker_vars
<1>13. CASE Tick
  BY <1>13, ConstantTypes DEF Tick, Older, Least, TypeOK
<1>14. CASE UNCHANGED vars
  BY <1>14 DEF vars, exec_vars, tracker_vars, breaker_vars, ghost_vars
<1> QED
  BY <1>1, <1>2, <1>3, <1>4, <1>5, <1>6, <1>7, <1>8, <1>9, <1>10, <1>11, <1>12, <1>13, <1>14 DEF Next

\* What has been recorded for a run of deletions and for the tracker, before both are
\* pruned under one configuration.
Follows(h, g) == g.count > 0 => h.count >= g.count /\ h.age = g.age

\* Pruning drops the run with the tracker's entry.
LEMMA PruningFollows ==
  ASSUME NEW h \in [Paths -> Counters], NEW g \in [Paths -> Counters], NEW c \in Cooldowns,
         NEW p \in Paths, Follows(h[p], g[p])
  PROVE  /\ Follows(h[p], InSuccession(g, c)[p])
         /\ Follows(Pruned(h, c)[p], InSuccession(g, c)[p])
<1>1. h[p] \in Counters /\ g[p] \in Counters /\ c.max \in Nat
  BY ConstantTypes
<1>2. InSuccession(g, c)[p] = IF g[p].age >= c.max THEN NoRecord ELSE g[p]
  BY DEF InSuccession
<1>3. Pruned(h, c)[p] = IF h[p].age < c.max THEN h[p] ELSE NoRecord
  BY DEF Pruned
<1> QED
  BY <1>1, <1>2, <1>3, ConstantTypes DEF Follows, NoRecord, Counters

\* The tracker keeps up with the deletions it has to space; pruning only drops what is
\* older than the longest cooldown.
LEMMA GapStep ==
  ASSUME TypeOK, GapsAreTracked, [Next]_vars
  PROVE  GapsAreTracked'
<1>1. CASE EndBatch
  <2> SUFFICES ASSUME NEW p \in Paths PROVE GapIsTracked(p)'
    BY DEF GapsAreTracked
  <2>1. /\ history \in [Paths -> Counters] /\ gap \in [Paths -> Counters]
        /\ deleted \in [Paths -> Nat] /\ cooldowns \in Cooldowns
    BY DEF TypeOK
  <2>2. Recorded(history) \in [Paths -> Counters] /\ Recorded(gap) \in [Paths -> Counters]
    BY <2>1, TrackerType
  <2>3. Follows(Recorded(history)[p], Recorded(gap)[p])
    <3>1. history[p] \in Counters /\ gap[p] \in Counters /\ deleted[p] \in Nat
          /\ GapIsTracked(p)
      BY <2>1 DEF GapsAreTracked
    <3>2. /\ Recorded(history)[p] = IF deleted[p] = 0 THEN history[p]
               ELSE [count |-> Least(history[p].count + deleted[p], MaxCycles), age |-> 0]
          /\ Recorded(gap)[p] = IF deleted[p] = 0 THEN gap[p]
               ELSE [count |-> Least(gap[p].count + deleted[p], MaxCycles), age |-> 0]
      BY DEF Recorded
    <3>3. CASE deleted[p] = 0
      BY <3>1, <3>2, <3>3 DEF Follows, GapIsTracked
    <3>4. CASE deleted[p] # 0
      <4>1. history[p].count >= gap[p].count
        BY <3>1 DEF GapIsTracked, Counters
      <4> QED
        BY <3>1, <3>2, <3>4, <4>1, ConstantTypes DEF Follows, Counters, Least
    <3> QED
      BY <3>3, <3>4
  <2>4. /\ gap' = InSuccession(Recorded(gap), cooldowns)
        /\ history' = Pruned(Recorded(history), cooldowns) \/ history' = Recorded(history)
    BY <1>1 DEF EndBatch
  <2>5. Follows(history'[p], gap'[p])
    BY <2>1, <2>2, <2>3, <2>4, PruningFollows, Zenon
  <2> QED
    BY <2>5 DEF Follows, GapIsTracked
<1>2. CASE IdleBatch
  <2> SUFFICES ASSUME NEW p \in Paths PROVE GapIsTracked(p)'
    BY DEF GapsAreTracked
  <2>1. /\ history \in [Paths -> Counters] /\ gap \in [Paths -> Counters]
        /\ Follows(history[p], gap[p])
    BY DEF TypeOK, GapsAreTracked, GapIsTracked, Follows
  <2>2. /\ cooldowns' \in Cooldowns
        /\ gap' = InSuccession(gap, cooldowns')
        /\ history' = Pruned(history, cooldowns') \/ history' = history
    BY <1>2 DEF IdleBatch, Proceed
  <2>3. Follows(history'[p], gap'[p])
    BY <2>1, <2>2, PruningFollows, Zenon
  <2> QED
    BY <2>3 DEF Follows, GapIsTracked
<1>3. CASE Respawn
  BY <1>3 DEF Respawn, NoRecord, GapsAreTracked, GapIsTracked
<1>4. CASE Tick
  <2> SUFFICES ASSUME NEW p \in Paths PROVE GapIsTracked(p)'
    BY DEF GapsAreTracked
  <2> DEFINE Age(c) == IF c.count = 0 THEN c ELSE [c EXCEPT !.age = Older(@, AgeCap)]
  <2>1. history[p] \in Counters /\ gap[p] \in Counters /\ GapIsTracked(p)
    BY DEF TypeOK, GapsAreTracked
  <2>2. history'[p] = Age(history[p]) /\ gap'[p] = Age(gap[p])
    BY <1>4 DEF Tick, Aged
  <2>3. \A c \in Counters : /\ Age(c).count = c.count
                            /\ c.count > 0 => Age(c).age = Older(c.age, AgeCap)
    BY DEF Counters
  <2> HIDE DEF Age
  <2> QED
    BY <2>1, <2>2, <2>3, ConstantTypes DEF Counters, GapIsTracked
<1>5. CASE DropBatch \/ ReceiveBatch \/ Skip \/ PreflightSkip \/ PreflightPass \/ DeletePath
           \/ Remove \/ ConfirmGone \/ OtherProcess \/ UNCHANGED vars
  <2>1. UNCHANGED <<history, gap>>
    BY <1>5 DEF DropBatch, ReceiveBatch, Skip, PreflightSkip, PreflightPass, DeletePath, Remove,
                ConfirmGone, OtherProcess, Fail, Tried, vars, tracker_vars, ghost_vars
  <2> QED
    BY <2>1 DEF GapsAreTracked, GapIsTracked
<1> QED
  BY <1>1, <1>2, <1>3, <1>4, <1>5 DEF Next

\* One more outcome makes the run of failures longer or ends it.
LEMMA RowOfTried ==
  ASSUME TypeOK, RowIsTrue, NEW x \in Outcomes, Tried(x),
         consecutive' = IF x = "failed" THEN consecutive + 1 ELSE 0
  PROVE  RowIsTrue'
<1>1. /\ outcomes \in Seq(Outcomes) /\ consecutive \in Nat /\ Len(outcomes) \in Nat
      /\ outcomes' = Append(outcomes, x)
  BY ConstantTypes DEF TypeOK, Tried
<1>2. /\ Len(outcomes') = Len(outcomes) + 1
      /\ \A k \in 1 .. Len(outcomes) : outcomes'[k] = outcomes[k]
      /\ outcomes'[Len(outcomes) + 1] = x
  BY <1>1, RowGrows
<1>3. CASE x = "failed"
  <2>1. consecutive' = consecutive + 1 /\ consecutive <= Len(outcomes)
    BY <1>3 DEF RowIsTrue, LastFailed
  <2>2. ASSUME NEW k \in 0 .. consecutive
        PROVE  outcomes'[Len(outcomes') - k] = "failed"
    <3>1. CASE k = 0
      BY <1>1, <1>2, <1>3, <3>1
    <3>2. CASE k # 0
      <4>1. k - 1 \in 0 .. consecutive - 1 /\ Len(outcomes) - (k - 1) \in 1 .. Len(outcomes)
        BY <1>1, <2>1, <3>2
      <4>2. outcomes[Len(outcomes) - (k - 1)] = "failed"
        BY <4>1 DEF RowIsTrue, LastFailed
      <4>3. Len(outcomes') - k = Len(outcomes) - (k - 1)
        BY <1>1, <1>2
      <4> QED
        BY <1>2, <4>1, <4>2, <4>3
    <3> QED
      BY <3>1, <3>2
  <2>3. consecutive + 1 < Len(outcomes') => outcomes'[Len(outcomes') - (consecutive + 1)] # "failed"
    <3> SUFFICES ASSUME consecutive < Len(outcomes)
                 PROVE  outcomes'[Len(outcomes') - (consecutive + 1)] # "failed"
      BY <1>1, <1>2
    <3>1. /\ outcomes[Len(outcomes) - consecutive] # "failed"
          /\ Len(outcomes) - consecutive \in 1 .. Len(outcomes)
          /\ Len(outcomes') - (consecutive + 1) = Len(outcomes) - consecutive
      BY <1>1, <1>2 DEF RowIsTrue
    <3> QED
      BY <1>2, <3>1
  <2> QED
    BY <1>1, <1>2, <2>1, <2>2, <2>3 DEF RowIsTrue, LastFailed
<1>4. CASE x # "failed"
  <2>1. consecutive' = 0 /\ Len(outcomes') - 0 = Len(outcomes) + 1
    BY <1>1, <1>2, <1>4
  <2> QED
    BY <1>2, <1>4, <2>1 DEF RowIsTrue, LastFailed
<1> QED
  BY <1>3, <1>4

\* The counter of the batch stays the length of the run of failures.
LEMMA RowStep ==
  ASSUME TypeOK, RowIsTrue, [Next]_vars
  PROVE  RowIsTrue'
<1>1. CASE PreflightSkip
  BY <1>1, RowOfTried DEF PreflightSkip, Outcomes
<1>2. ASSUME Fail PROVE RowIsTrue'
  BY <1>2, RowOfTried DEF Fail, Outcomes
<1>3. CASE ConfirmGone
  BY <1>2, <1>3, RowOfTried DEF ConfirmGone, Outcomes
<1>4. CASE EndBatch \/ Respawn
  <2>1. consecutive' = 0 /\ outcomes' = << >>
    BY <1>4 DEF EndBatch, Respawn, ForgetBatch
  <2> QED
    BY <2>1 DEF RowIsTrue, LastFailed
<1>5. ASSUME UNCHANGED <<consecutive, outcomes>> PROVE RowIsTrue'
  BY <1>5 DEF RowIsTrue, LastFailed
<1>6. CASE DeletePath \/ Remove
  BY <1>2, <1>5, <1>6 DEF DeletePath, Remove
<1>7. CASE DropBatch \/ ReceiveBatch \/ IdleBatch \/ Skip \/ PreflightPass \/ OtherProcess \/ Tick
           \/ UNCHANGED vars
  BY <1>5, <1>7 DEF DropBatch, ReceiveBatch, IdleBatch, Skip, PreflightPass, OtherProcess, Tick,
                    vars, exec_vars, ghost_vars
<1> QED
  BY <1>1, <1>3, <1>4, <1>6, <1>7 DEF Next

(***************************************************************************)
(* Theorems.                                                               *)
(***************************************************************************)

\* The invariant of the executor: types, the shape of a batch, what the last look at the
\* path is worth, how cooldowns and tracker agree with what happened, and what the failure
\* counter counts.
THEOREM Inductive == Spec => []IInv
<1>1. IInv /\ [Next]_vars => IInv'
  BY TypeStep, LookStep, BackoffStep, GapStep, RowStep DEF IInv
<1> QED
  BY <1>1, InitIInv, PTL DEF Spec

\* Every variable stays in its domain: in particular a batch never fails more often in a
\* row than circuit_breaker_threshold, and the breaker's cooldown stays between base and cap.
THEOREM TypeCorrect == Spec => []TypeOK
<1>1. IInv => TypeOK
  BY DEF IInv
<1> QED
  BY <1>1, Inductive, PTL

\* delete_path removes the object that was scored, unless another process swapped it after
\* the last look, for any paths, identities and interference.
THEOREM RemovesWhatWasScored == Spec => []RemovedIsScored
<1>1. IInv => RemovedIsScored
  BY DEF IInv
<1> QED
  BY <1>1, Inductive, PTL

\* The breaker stops a batch exactly when its last circuit_breaker_threshold attempts have
\* failed, for any threshold and any course of a batch.
THEOREM TripsEarned == Spec => []TripsAreEarned
<1>1. ASSUME IInv PROVE TripsAreEarned
  <2>1. /\ outcomes \in Seq(Outcomes) /\ Len(outcomes) \in Nat
        /\ consecutive \in 0 .. Threshold /\ Threshold \in Nat
        /\ LastFailed(consecutive)
        /\ consecutive < Len(outcomes) => outcomes[Len(outcomes) - consecutive] # "failed"
    BY <1>1, ConstantTypes DEF IInv, TypeOK, RowIsTrue
  <2>2. CASE consecutive = Threshold
    BY <2>1, <2>2 DEF TripsAreEarned
  <2>3. CASE consecutive < Threshold
    <3>1. ASSUME LastFailed(Threshold) PROVE FALSE
      <4>1. consecutive \in 0 .. Threshold - 1 /\ consecutive < Len(outcomes)
        BY <2>1, <2>3, <3>1 DEF LastFailed
      <4> QED
        BY <2>1, <3>1, <4>1 DEF LastFailed
    <3> QED
      BY <2>1, <2>3, <3>1 DEF TripsAreEarned
  <2> QED
    BY <2>1, <2>2, <2>3
<1> QED
  BY <1>1, Inductive, PTL

\* After the k-th trip in a row no candidate is attempted before the base cooldown, doubled
\* k times and capped, is over, for any thresholds, cooldowns and batches.
THEOREM BreakerBacksOff == Spec => TripsBackOff
<1>1. ASSUME IInv, [Next]_vars, trips > 0, pc # "delete_path", pc' = "delete_path"
      PROVE  since_trip >= Doubled(BreakerBase, trips, BreakerMax)
  <2>1. PreflightPass
    BY <1>1 DEF Next, DropBatch, ReceiveBatch, StartBatch, IdleBatch, Skip, PreflightSkip,
                DeletePath, Fail, Remove, ConfirmGone, NextCandidate, EndBatch, ForgetBatch,
                Respawn, OtherProcess, Tick, vars, exec_vars
  <2>2. trip_age = -1
    BY <1>1, <2>1 DEF IInv, BatchShape, PreflightPass
  <2> QED
    BY <1>1, <2>2 DEF IInv, BackoffIsTrue, TypeOK
<1>2. IInv /\ [Next]_vars
        => [(trips > 0 /\ pc # "delete_path" /\ pc' = "delete_path")
              => since_trip >= Doubled(BreakerBase, trips, BreakerMax)]_vars
  BY <1>1
<1> QED
  BY <1>2, Inductive, PTL DEF Spec, TripsBackOff

\* Outside of the bypass a path that was deleted before is taken up again only after the
\* cooldown its deletions in close succession call for under the configuration of the batch,
\* however often the tracker is pruned and the configuration reloaded in between.
THEOREM RepeatsSpaced == Spec => RepeatsAreSpaced
<1>1. ASSUME IInv, [Next]_vars, NEW p \in Paths, pc = "idle", pc' = "candidate", ~bypass',
             gap[p].count > 0, NEW i \in DOMAIN batch', batch'[i].path = p
      PROVE  gap[p].age >= Doubled(cooldowns'.base, gap[p].count - 1, cooldowns'.max)
  <2>1. ReceiveBatch
    BY <1>1 DEF Next, DropBatch, IdleBatch, Skip, PreflightSkip, PreflightPass, DeletePath,
                Remove, ConfirmGone, EndBatch, ForgetBatch, Respawn, OtherProcess, Tick, vars,
                exec_vars
  <2>2. PICK c \in Cooldowns : c = cooldowns'
    BY <2>1 DEF ReceiveBatch, Proceed
  <2>3. ~InCooldown(p, c)
    BY <1>1, <2>1, <2>2 DEF ReceiveBatch, StartBatch
  <2>4. /\ history[p] \in Counters /\ gap[p] \in Counters
        /\ history[p].count >= gap[p].count /\ history[p].age = gap[p].age
    BY <1>1 DEF IInv, TypeOK, GapsAreTracked, GapIsTracked
  <2>5. /\ gap[p].count - 1 \in Nat /\ history[p].count - 1 \in Nat /\ history[p].count > 0
        /\ gap[p].count - 1 <= history[p].count - 1 /\ history[p].age \in Int
    BY <1>1, <2>4, ConstantTypes DEF Counters
  <2>6. c.base \in Nat /\ c.max \in Nat
    BY ConstantTypes
  <2>7. /\ Doubled(c.base, gap[p].count - 1, c.max) \in 0 .. c.max
        /\ Doubled(c.base, history[p].count - 1, c.max) \in 0 .. c.max
        /\ Doubled(c.base, gap[p].count - 1, c.max)
             <= Doubled(c.base, history[p].count - 1, c.max)
    BY <2>5, <2>6, DoubledType, DoubledMonotone
  <2>8. history[p].age >= Doubled(c.base, history[p].count - 1, c.max)
    BY <2>3, <2>5, <2>6, <2>7 DEF InCooldown
  <2> QED
    BY <2>2, <2>4, <2>5, <2>6, <2>7, <2>8
<1>2. IInv /\ [Next]_vars
        => [\A p \in Paths :
              (pc = "idle" /\ pc' = "candidate" /\ ~bypass' /\ gap[p].count > 0
                 /\ \E i \in DOMAIN batch' : batch'[i].path = p)
                => gap[p].age >= Doubled(cooldowns'.base, gap[p].count - 1, cooldowns'.max)]_vars
  BY <1>1
<1> QED
  BY <1>2, Inductive, PTL DEF Spec, RepeatsAreSpaced

(***************************************************************************)
(* The index the failures are fed to.                                      *)
(***************************************************************************)

\* The items no pre-scan gets to.
Deep == Items \ Shallow

\* A cooldown is never longer than its failures call for.
Bounded(r, c) == IF r.fails = 0 THEN r.until = 0 ELSE r.until <= Backoff(r.fails, c)

\* An index holds only items of its own context, and of a deep one only what a walk found.
Sound(idx) ==
  \A i \in Items :
    /\ idx.records[i] # NoEntry =>
         i \in idx.context.items /\ (i \in Deep => idx.records[i].source = "walk")
    /\ Bounded(idx.records[i], idx.context)

\* What a deep item owes is in the index, under its evidence unless the item is gone.
Kept(idx, owing, ev) ==
  \A i \in Deep : owing[i] > 0 =>
    idx.records[i].until >= owing[i] /\ ev[i] \in {-1, idx.records[i].evidence}

\* The three together, of the index in memory and of the one in the checkpoint.
Right(idx, owing, ev) ==
  idx \in Indexes /\ Sound(idx) /\ (idx.loaded => Kept(idx, owing, ev))

\* What the pre-scan of a pass has recorded.
EarlyAgrees ==
  /\ scan_pc \notin {"prescan", "walk", "leave"} => early = NoRecords
  /\ \A i \in Items : early[i] # NoEntry =>
       i \in context.items \cap Shallow /\ early[i].fails = 0 /\ early[i].until = 0

\* What the walk has recorded: of a deep item that owes something, the evidence the index has.
FreshAgrees ==
  /\ scan_pc # "walk" => fresh = NoRecords
  /\ \A i \in Items : fresh[i] # NoEntry =>
       /\ i \in context.items /\ fresh[i].source = "walk"
       /\ fresh[i].fails = 0 /\ fresh[i].until = 0
       /\ i \in Deep /\ owed[i] > 0 => fresh[i].evidence = index.records[i].evidence

\* A pass works with the index of its request; its candidates lie under the roots of the
\* request, and the deep ones owe nothing.
PassAgrees ==
  /\ scan_pc # "idle" => index.loaded /\ index.context = context
  /\ scan_pc \in {"idle", "index", "leave"} => scored = {}
  /\ \A i \in scored : i \in context.items /\ (i \in Deep => owed[i] = 0)

ScanInv ==
  /\ ScanTypeOK /\ IsFiniteSet(feedback)
  /\ Right(index, owed, evidence) /\ Right(checkpoint, owed_saved, evidence)
  /\ PassAgrees /\ EarlyAgrees /\ FreshAgrees

\* The assumptions on the constants, one by one.
LEMMA ScanConstants ==
  /\ \A c \in Contexts \cup {NoContext} : c.items \subseteq Items /\ c.base \in Nat /\ c.max \in Nat
  /\ MaxFails \in Nat /\ MaxFails > 0
  /\ FeedbackCap \in Nat /\ MaxEvidence \in [Items -> Nat] /\ Shallow \subseteq Items
<1>1. \A c \in Contexts : c.items \subseteq Items /\ c.base \in Nat /\ c.max \in Nat
  BY IndexAssumption DEF AnyContext
<1>2. {MaxBatch, FeedbackCap} \subseteq Nat
  BY PassAssumption
<1> QED
  BY <1>1, <1>2, IndexAssumption, PassAssumption DEF NoContext

\* The index doubles its cooldown as the executor does.
LEMMA BackoffGrows ==
  ASSUME NEW c \in Contexts \cup {NoContext}, NEW m \in Nat \ {0}, NEW n \in Nat \ {0}, m <= n
  PROVE  Backoff(m, c) \in Nat /\ Backoff(n, c) \in Nat /\ Backoff(m, c) <= Backoff(n, c)
<1>1. /\ Backoff(m, c) = Doubled(c.base, m - 1, c.max)
      /\ Backoff(n, c) = Doubled(c.base, n - 1, c.max)
  BY DEF Backoff, Smaller, Doubled, Least
<1>2. m - 1 \in Nat /\ n - 1 \in Nat /\ m - 1 <= n - 1
  OBVIOUS
<1>3. Doubled(c.base, m - 1, c.max) <= Doubled(c.base, n - 1, c.max)
  BY <1>2, ScanConstants, DoubledMonotone
<1>4. /\ Doubled(c.base, m - 1, c.max) \in 0 .. c.max
      /\ Doubled(c.base, n - 1, c.max) \in 0 .. c.max
      /\ c.max \in Nat
  BY <1>2, ScanConstants, DoubledType
<1> QED
  BY <1>1, <1>3, <1>4

\* A failure keeps the evidence and its source, and never shortens the cooldown.
LEMMA FailureKeeps ==
  ASSUME NEW c \in Contexts \cup {NoContext}, NEW r \in Entries, Bounded(r, c)
  PROVE  LET f == RecordFailure(r, c)
         IN /\ f \in Entries /\ Bounded(f, c)
            /\ f.evidence = r.evidence /\ f.source = r.source /\ f.until >= r.until
            /\ f # NoEntry => r # NoEntry
<1>1. CASE r = NoEntry
  BY <1>1 DEF RecordFailure, Entries
<1>2. CASE r # NoEntry
  <2> DEFINE n == Smaller(r.fails + 1, MaxFails)
             f == [r EXCEPT !.fails = n, !.state = "Failed", !.until = Backoff(n, c)]
  <2>1. RecordFailure(r, c) = f
    BY <1>2 DEF RecordFailure
  <2>2. n \in 1 .. MaxFails /\ r.fails \in 0 .. MaxFails /\ r.fails <= n
    BY ScanConstants DEF Smaller, Entries
  <2>3. Backoff(n, c) \in Nat
    <3> HIDE DEF n
    <3> QED
      BY <2>2, BackoffGrows, ScanConstants
  <2>4. r.until <= Backoff(n, c)
    <3> HIDE DEF n
    <3>1. CASE r.fails = 0
      BY <2>3, <3>1, ScanConstants DEF Bounded
    <3>2. CASE r.fails # 0
      <4>1. r.until <= Backoff(r.fails, c)
        BY <3>2 DEF Bounded
      <4>2. r.fails \in Nat \ {0} /\ n \in Nat \ {0}
        BY <2>2, <3>2, ScanConstants
      <4>3. Backoff(r.fails, c) <= Backoff(n, c) /\ Backoff(r.fails, c) \in Nat
        BY <2>2, <4>2, BackoffGrows
      <4> QED
        BY <2>3, <4>1, <4>3, ScanConstants DEF Entries
    <3> QED
      BY <3>1, <3>2
  <2>5. /\ f \in Entries /\ f.fails = n /\ f.until = Backoff(n, c)
        /\ f.evidence = r.evidence /\ f.source = r.source
    <3>1. PICK a, b : a = n /\ b = Backoff(n, c)
      OBVIOUS
    <3>2. f = [r EXCEPT !.fails = a, !.state = "Failed", !.until = b]
      BY <3>1
    <3>3. a \in 0 .. MaxFails /\ b \in Nat
      BY <2>2, <2>3, <3>1, ScanConstants
    <3>4. /\ f \in Entries /\ f.fails = a /\ f.until = b
          /\ f.evidence = r.evidence /\ f.source = r.source
      <4> HIDE DEF f, n
      <4> QED
        BY <3>2, <3>3 DEF Entries
    <3> QED
      BY <3>1, <3>4
  <2>6. f.until <= Backoff(f.fails, c) /\ f.fails # 0
    <3> HIDE DEF n, f
    <3> QED
      BY <2>2, <2>3, <2>5, ScanConstants
  <2> QED
    <3> HIDE DEF n, f
    <3> QED
      BY <1>2, <2>1, <2>2, <2>3, <2>4, <2>5, <2>6, ScanConstants DEF Bounded, Entries
<1> QED
  BY <1>1, <1>2

\* A new score of the same evidence by the same source keeps the cooldown.
LEMMA UpsertKeeps ==
  ASSUME NEW c, NEW old \in Entries, NEW new \in Entries,
         Bounded(old, c), new.fails = 0, new.until = 0
  PROVE  LET u == Upsert(old, new)
         IN /\ u \in Entries /\ Bounded(u, c)
            /\ u.evidence = new.evidence /\ u.source = new.source
            /\ old.evidence = new.evidence /\ old.source = new.source => u.until = old.until
<1>1. CASE ~Matches(old, new)
  BY <1>1 DEF Upsert, Bounded, Matches
<1>2. CASE Matches(old, new)
  <2> DEFINE u == Upsert(old, new)
  <2>1. /\ u \in Entries /\ u.evidence = new.evidence /\ u.source = new.source
        /\ u.fails = old.fails /\ u.until = old.until
    BY <1>2 DEF Upsert, Entries
  <2> HIDE DEF u
  <2>2. Bounded(u, c)
    BY <2>1 DEF Bounded
  <2> QED
    BY <2>1, <2>2 DEF u
<1> QED
  BY <1>1, <1>2

\* Failures that are fed back lengthen what is owed and what is recorded alike.
LEMMA FedKeeps ==
  ASSUME NEW idx, NEW owing, NEW now, NEW ev, Right(idx, owing, ev),
         owing \in [Items -> Nat],
         now = [i \in Items |->
                  IF i \in feedback /\ ev[i] >= 0 /\ idx.records[i].evidence = ev[i]
                  THEN Fed(idx).records[i].until ELSE owing[i]]
  PROVE  /\ Right(Fed(idx), now, ev)
         /\ Fed(idx).context = idx.context /\ Fed(idx).loaded = idx.loaded
         /\ now \in [Items -> Nat]
<1> DEFINE fed == Fed(idx)
           new == [i \in Items |-> IF i \in feedback THEN RecordFailure(idx.records[i], idx.context)
                                                     ELSE idx.records[i]]
<1>1. idx \in Indexes /\ idx.records \in [Items -> Entries]
  BY DEF Right, Indexes
<1>2. ASSUME NEW i \in Items
      PROVE  /\ new[i] \in Entries /\ Bounded(new[i], idx.context)
             /\ new[i].evidence = idx.records[i].evidence
             /\ new[i].source = idx.records[i].source
             /\ new[i].until >= idx.records[i].until
             /\ new[i] # NoEntry => idx.records[i] # NoEntry
  <2>1. /\ idx.records[i] \in Entries /\ Bounded(idx.records[i], idx.context)
        /\ idx.context \in Contexts \cup {NoContext}
    BY <1>1 DEF Right, Sound, Indexes
  <2>2. CASE i \in feedback
    BY <2>1, <2>2, FailureKeeps
  <2>3. CASE i \notin feedback
    BY <2>1, <2>3, ScanConstants DEF Entries
  <2> QED
    BY <2>2, <2>3
<1>3. fed = [idx EXCEPT !.records = new]
  BY DEF Fed
<1>4. new \in [Items -> Entries]
  BY <1>2
<1>5. /\ fed \in Indexes /\ fed.records = new
      /\ fed.context = idx.context /\ fed.loaded = idx.loaded
  <2> HIDE DEF fed, new
  <2> QED
    BY <1>1, <1>3, <1>4 DEF Indexes
<1>6. now \in [Items -> Nat]
  <2>1. \A i \in Items : fed.records[i].until \in Nat
    <3> HIDE DEF fed, new
    <3> QED
      BY <1>4, <1>5 DEF Entries
  <2> QED
    BY <2>1
<1>7. Sound(fed)
  <2> HIDE DEF fed, new
  <2> QED
    BY <1>2, <1>5 DEF Right, Sound
<1>8. ASSUME idx.loaded, NEW i \in Deep, now[i] > 0
      PROVE  new[i].until >= now[i] /\ ev[i] \in {-1, new[i].evidence}
  <2> i \in Items
    BY DEF Deep
  <2>1. CASE i \in feedback /\ ev[i] >= 0 /\ idx.records[i].evidence = ev[i]
    <3>1. now[i] = fed.records[i].until
      BY <2>1
    <3> HIDE DEF fed, new
    <3> QED
      BY <1>2, <1>4, <1>5, <2>1, <3>1, ScanConstants DEF Entries
  <2>2. CASE ~(i \in feedback /\ ev[i] >= 0 /\ idx.records[i].evidence = ev[i])
    <3>1. now[i] = owing[i]
      BY <2>2
    <3>2. idx.records[i].until >= owing[i] /\ ev[i] \in {-1, idx.records[i].evidence}
      BY <1>8, <3>1 DEF Right, Kept
    <3>3. new[i].until \in Nat /\ idx.records[i].until \in Nat /\ owing[i] \in Nat
      BY <1>1, <1>2, ScanConstants DEF Entries
    <3> HIDE DEF fed, new
    <3> QED
      BY <1>2, <3>1, <3>2, <3>3
  <2> QED
    BY <2>1, <2>2
<1> HIDE DEF fed, new
<1>9. idx.loaded => Kept(fed, now, ev)
  BY <1>5, <1>8 DEF Kept
<1> QED
  BY <1>5, <1>6, <1>7, <1>9 DEF Right, fed

\* Time runs alike in the index and in what is owed.
LEMMA TickKeeps ==
  ASSUME NEW idx, NEW owing, NEW ev, Right(idx, owing, ev),
         owing \in [Items -> Nat]
  PROVE  LET now == [i \in Items |-> Sooner(owing[i])]
         IN /\ Right(Ticked(idx), now, ev)
            /\ Ticked(idx).context = idx.context
            /\ Ticked(idx).loaded = idx.loaded
            /\ \A i \in Items : Ticked(idx).records[i].evidence = idx.records[i].evidence
            /\ now \in [Items -> Nat]
<1> DEFINE ticked == Ticked(idx)
           now == [i \in Items |-> Sooner(owing[i])]
           new == [i \in Items |-> Elapsed(idx.records[i])]
<1>1. idx \in Indexes /\ idx.records \in [Items -> Entries]
  BY DEF Right, Indexes
<1>2. ASSUME NEW i \in Items
      PROVE  /\ new[i] \in Entries /\ Bounded(new[i], idx.context)
             /\ new[i].evidence = idx.records[i].evidence
             /\ new[i].source = idx.records[i].source
             /\ new[i].until = Sooner(idx.records[i].until)
             /\ new[i] # NoEntry => idx.records[i] # NoEntry
  <2> DEFINE r == idx.records[i]
             c == idx.context
  <2>1. r \in Entries /\ Bounded(r, c) /\ c \in Contexts \cup {NoContext}
    BY <1>1 DEF Right, Sound, Indexes
  <2>2. r.until \in Nat /\ r.fails \in 0 .. MaxFails
    BY <2>1 DEF Entries
  <2>3. Sooner(r.until) \in 0 .. r.until /\ Sooner(r.until) \in Nat
    BY <2>2, ScanConstants DEF Sooner
  <2>4. new[i] = [r EXCEPT !.until = Sooner(r.until)]
    BY DEF Elapsed
  <2> HIDE DEF r, c
  <2>5. /\ new[i] \in Entries /\ new[i].evidence = r.evidence /\ new[i].source = r.source
        /\ new[i].until = Sooner(r.until) /\ new[i].fails = r.fails
    <3>1. PICK u : u = Sooner(r.until)
      OBVIOUS
    <3> HIDE DEF new
    <3> QED
      BY <2>1, <2>3, <2>4, <3>1 DEF Entries
  <2>6. Bounded(new[i], c)
    <3> HIDE DEF new
    <3>1. CASE r.fails = 0
      BY <2>1, <2>2, <2>3, <2>5, <3>1 DEF Bounded
    <3>2. CASE r.fails # 0
      <4>1. r.fails \in Nat \ {0}
        BY <2>2, <3>2, ScanConstants
      <4>2. Backoff(r.fails, c) \in Nat
        BY <2>1, <4>1, BackoffGrows
      <4> QED
        BY <2>1, <2>2, <2>3, <2>5, <3>2, <4>2, ScanConstants DEF Bounded
    <3> QED
      BY <3>1, <3>2
  <2>7. r = NoEntry => new[i] = NoEntry
    <3>1. Sooner(0) = 0
      BY DEF Sooner
    <3> HIDE DEF new
    <3> QED
      BY <2>4, <3>1 DEF NoEntry
  <2> QED
    <3> HIDE DEF new
    <3> QED
      BY <2>5, <2>6, <2>7 DEF r, c
<1>3. ticked = [idx EXCEPT !.records = new]
  BY DEF Ticked
<1>4. new \in [Items -> Entries]
  BY <1>2
<1>5. /\ ticked \in Indexes /\ ticked.records = new
      /\ ticked.context = idx.context /\ ticked.loaded = idx.loaded
  <2> HIDE DEF ticked, new
  <2> QED
    BY <1>1, <1>3, <1>4 DEF Indexes
<1>6. now \in [Items -> Nat]
  BY ScanConstants DEF Sooner
<1>7. Sound(ticked)
  <2> HIDE DEF ticked, new
  <2> QED
    BY <1>2, <1>5 DEF Right, Sound
<1>8. ASSUME idx.loaded, NEW i \in Deep, now[i] > 0
      PROVE  new[i].until >= now[i] /\ ev[i] \in {-1, new[i].evidence}
  <2> i \in Items
    BY DEF Deep
  <2>1. owing[i] > 0 /\ now[i] = owing[i] - 1
    BY <1>8, ScanConstants DEF Sooner
  <2>2. idx.records[i].until >= owing[i] /\ ev[i] \in {-1, idx.records[i].evidence}
    BY <1>8, <2>1 DEF Right, Kept
  <2>3. idx.records[i].until \in Nat
    BY <1>1, ScanConstants DEF Entries
  <2> HIDE DEF new, now
  <2> QED
    BY <1>2, <2>1, <2>2, <2>3, ScanConstants DEF Sooner
<1>9. idx.loaded => Kept(ticked, now, ev)
  <2> HIDE DEF ticked, new, now
  <2> QED
    BY <1>5, <1>8 DEF Kept
<1> QED
  <2> HIDE DEF ticked, new, now
  <2>1. \A i \in Items : ticked.records[i].evidence = idx.records[i].evidence
    BY <1>2, <1>5
  <2> QED
    BY <1>5, <1>6, <1>7, <1>9, <2>1 DEF Right, ticked, now

\* An item that changes owes nothing more, one that goes may owe what it did.
LEMMA EvidenceKeeps ==
  ASSUME NEW idx, NEW owing, NEW now, NEW ev, NEW ev2, Right(idx, owing, ev),
         \A i \in Items : now[i] = 0 \/ (now[i] = owing[i] /\ ev2[i] \in {-1, ev[i]})
  PROVE  Right(idx, now, ev2)
<1>1. ASSUME idx.loaded, NEW i \in Deep, now[i] > 0
      PROVE  idx.records[i].until >= now[i] /\ ev2[i] \in {-1, idx.records[i].evidence}
  BY <1>1 DEF Right, Kept, Deep
<1> QED
  BY <1>1 DEF Right, Kept

\* An index that is empty owes nothing to nobody.
LEMMA EmptyIsRight ==
  ASSUME NEW owing, NEW ev
  PROVE  /\ Right(NoIndex, owing, ev) /\ ~NoIndex.loaded
         /\ \A c \in Contexts : /\ Right(EmptyIndex(c), NothingOwed, ev)
                                /\ EmptyIndex(c).context = c /\ EmptyIndex(c).loaded
         /\ NothingOwed \in [Items -> Nat]
         /\ NoRecords \in [Items -> Entries]
<1> DEFINE none == [i \in Items |-> NoEntry]
<1>1. NoEntry \in Entries /\ \A c : Bounded(NoEntry, c)
  BY ScanConstants DEF NoEntry, Entries, Bounded, Sources
<1>2. none \in [Items -> Entries] /\ \A i \in Items : none[i] = NoEntry
  BY <1>1
<1>3. NothingOwed \in [Items -> Nat] /\ \A i \in Items : NothingOwed[i] = 0
  BY ScanConstants DEF NothingOwed
<1>4. NoRecords = none
  BY DEF NoRecords
<1>5. NoIndex = [context |-> NoContext, records |-> none, loaded |-> FALSE]
  BY DEF NoIndex
<1>6. ASSUME NEW c \in Contexts
      PROVE  EmptyIndex(c) = [context |-> c, records |-> none, loaded |-> TRUE]
  <2>1. EmptyIndex(c) = [[context |-> NoContext, records |-> none, loaded |-> FALSE]
                                EXCEPT !.context = c, !.loaded = TRUE]
    BY <1>5 DEF EmptyIndex
  <2> HIDE DEF none
  <2> QED
    BY <2>1
<1> HIDE DEF none
<1>7. Right(NoIndex, owing, ev) /\ ~NoIndex.loaded
  BY <1>1, <1>2, <1>5 DEF Right, Sound, Indexes
<1>8. ASSUME NEW c \in Contexts
      PROVE  /\ Right(EmptyIndex(c), NothingOwed, ev)
             /\ EmptyIndex(c).context = c /\ EmptyIndex(c).loaded
  <2> DEFINE e == EmptyIndex(c)
  <2>1. e = [context |-> c, records |-> none, loaded |-> TRUE]
    BY <1>6
  <2> HIDE DEF e
  <2>2. e \in Indexes /\ e.context = c /\ e.records = none /\ e.loaded = TRUE
    BY <1>2, <2>1 DEF Indexes
  <2>3. Sound(e) /\ Kept(e, NothingOwed, ev)
    BY <1>1, <1>2, <1>3, <2>2 DEF Sound, Kept, Deep
  <2> QED
    BY <2>2, <2>3 DEF Right, e
<1> QED
  BY <1>2, <1>3, <1>4, <1>7, <1>8

\* The first state.
LEMMA ScanInitInv == ASSUME ScanInit PROVE ScanInv
<1>1. /\ Right(NoIndex, NothingOwed, evidence)
      /\ NothingOwed \in [Items -> Nat]
      /\ NoRecords \in [Items -> Entries]
  BY EmptyIsRight
<1>2. Right(index, owed, evidence) /\ Right(checkpoint, owed_saved, evidence)
  BY <1>1 DEF ScanInit
<1>3. IsFiniteSet(feedback) /\ Cardinality(feedback) = 0
  BY FS_EmptySet DEF ScanInit
<1>4. ScanTypeOK
  <2>1. index \in Indexes /\ checkpoint \in Indexes
    BY <1>2 DEF Right
  <2>2. /\ evidence \in [Items -> Int]
        /\ \A i \in Items : evidence[i] \in -1 .. MaxEvidence[i]
    BY ScanConstants DEF ScanInit
  <2>3. /\ feedback \in SUBSET Items /\ Cardinality(feedback) <= FeedbackCap
        /\ handed \in SUBSET Items /\ scored \in SUBSET Items
    BY <1>3, ScanConstants DEF ScanInit
  <2>4. /\ scan_pc \in {"idle", "index", "prescan", "walk", "leave", "flush"}
        /\ context \in Contexts \cup {NoContext}
    BY DEF ScanInit
  <2>5. /\ early \in [Items -> Entries] /\ fresh \in [Items -> Entries]
        /\ owed \in [Items -> Nat] /\ owed_saved \in [Items -> Nat]
    BY <1>1 DEF ScanInit
  <2> QED
    BY <2>1, <2>2, <2>3, <2>4, <2>5 DEF ScanTypeOK
<1>5. PassAgrees /\ EarlyAgrees /\ FreshAgrees
  BY DEF PassAgrees, EarlyAgrees, FreshAgrees, ScanInit, NoRecords
<1> QED
  BY <1>2, <1>3, <1>4, <1>5 DEF ScanInv

\* A pass begins with an index of its own context, loaded or kept, in which the failures
\* that were fed back are recorded.
LEMMA BeginPassKeeps == ASSUME ScanInv, BeginPass PROVE ScanInv'
<1> DEFINE same(c) == index.loaded /\ index.context = c
           idx(c) == IF same(c) THEN index ELSE LoadCheckpoint(checkpoint, c)
           carried(c) == IF same(c) THEN owed
                         ELSE IF checkpoint.loaded /\ checkpoint.context = c THEN owed_saved
                         ELSE NothingOwed
<1>1. PICK c \in Contexts :
        /\ index' = Fed(idx(c))
        /\ owed' = [i \in Items |->
                      IF i \in feedback \cap There /\ idx(c).records[i].evidence = evidence[i]
                      THEN Fed(idx(c)).records[i].until ELSE carried(c)[i]]
        /\ IF feedback = {} THEN UNCHANGED <<checkpoint, owed_saved>>
                            ELSE Save(Fed(idx(c)), owed')
        /\ \/ scan_pc' = "index" /\ context' = c
           \/ UNCHANGED <<scan_pc, context>>
  BY DEF BeginPass
<1>2. /\ Right(index, owed, evidence) /\ Right(checkpoint, owed_saved, evidence)
      /\ owed \in [Items -> Nat] /\ owed_saved \in [Items -> Nat]
  BY DEF ScanInv, ScanTypeOK
<1>3. PICK x, o : x = idx(c) /\ o = carried(c)
  OBVIOUS
<1>4. /\ Right(x, o, evidence) /\ x.loaded /\ x.context = c
      /\ o \in [Items -> Nat]
  <2>1. CASE same(c)
    BY <1>2, <1>3, <2>1
  <2>2. CASE ~same(c) /\ checkpoint.loaded /\ checkpoint.context = c
    BY <1>2, <1>3, <2>2 DEF LoadCheckpoint
  <2>3. CASE ~same(c) /\ ~(checkpoint.loaded /\ checkpoint.context = c)
    <3>1. x = EmptyIndex(c) /\ o = NothingOwed
      BY <1>3, <2>3 DEF LoadCheckpoint
    <3> QED
      BY <1>1, <3>1, EmptyIsRight
  <2> QED
    BY <2>1, <2>2, <2>3
<1>5. /\ index' = Fed(x)
      /\ owed' = [i \in Items |->
                    IF i \in feedback /\ evidence[i] >= 0 /\ x.records[i].evidence = evidence[i]
                    THEN Fed(x).records[i].until ELSE o[i]]
  BY <1>1, <1>3 DEF There
<1> HIDE DEF idx, carried
<1>6. /\ Right(index', owed', evidence) /\ index'.context = c /\ index'.loaded
      /\ owed' \in [Items -> Nat]
  BY <1>4, <1>5, FedKeeps
<1>7. /\ Right(checkpoint', owed_saved', evidence)
      /\ owed_saved' \in [Items -> Nat]
  <2>1. \/ checkpoint' = checkpoint /\ owed_saved' = owed_saved
        \/ checkpoint' = index' /\ owed_saved' = owed'
    BY <1>1 DEF Save
  <2> QED
    BY <1>2, <1>6, <2>1
<1>8. /\ scan_pc = "idle" /\ feedback' = {}
      /\ UNCHANGED <<evidence, handed, early, fresh, scored>>
  BY DEF BeginPass
<1>9. IsFiniteSet(feedback') /\ Cardinality(feedback') = 0
  BY <1>8, FS_EmptySet
<1>10. ScanTypeOK'
  <2>1. index' \in Indexes /\ checkpoint' \in Indexes
    BY <1>6, <1>7 DEF Right
  <2>2. scan_pc' \in {"idle", "index"} /\ context' \in Contexts \cup {NoContext}
    BY <1>1, <1>8 DEF ScanInv, ScanTypeOK
  <2>3. feedback' \in SUBSET Items /\ Cardinality(feedback') <= FeedbackCap
    BY <1>8, <1>9, ScanConstants
  <2>4. /\ evidence' \in [Items -> Int]
        /\ \A i \in Items : evidence'[i] \in -1 .. MaxEvidence[i]
        /\ handed' \in SUBSET Items /\ scored' \in SUBSET Items
        /\ early' \in [Items -> Entries] /\ fresh' \in [Items -> Entries]
    BY <1>8 DEF ScanInv, ScanTypeOK
  <2> QED
    BY <1>6, <1>7, <2>1, <2>2, <2>3, <2>4 DEF ScanTypeOK
<1>11. PassAgrees' /\ EarlyAgrees' /\ FreshAgrees'
  <2>1. early' = NoRecords /\ fresh' = NoRecords /\ scored' = {}
    BY <1>8 DEF ScanInv, PassAgrees, EarlyAgrees, FreshAgrees
  <2>2. \A i \in Items : early'[i] = NoEntry /\ fresh'[i] = NoEntry
    BY <2>1 DEF NoRecords
  <2> QED
    BY <1>1, <1>6, <1>8, <2>1, <2>2 DEF PassAgrees, EarlyAgrees, FreshAgrees
<1> QED
  BY <1>6, <1>7, <1>8, <1>9, <1>10, <1>11 DEF ScanInv

\* Handing over changes nothing the invariant is about.
LEMMA DispatchKeeps ==
  ASSUME ScanInv, DispatchIndexed \/ DispatchPriority \/ DispatchScored \/ EndPass
  PROVE  ScanInv'
<1>1. /\ UNCHANGED <<evidence, index, checkpoint, feedback, early, fresh, owed, owed_saved>>
      /\ scored' \in SUBSET scored /\ handed' \in SUBSET Items
  <2>1. \A t : t \in Top(Ranked(index)) => t \subseteq Items
    BY DEF Top, Ranked
  <2>2. \A t : t \in Top(scored) => t \subseteq Items
    BY DEF Top, ScanInv, ScanTypeOK
  <2>3. handed \in SUBSET Items
    BY DEF ScanInv, ScanTypeOK
  <2> QED
    BY <2>1, <2>2, <2>3
    DEF DispatchIndexed, DispatchPriority, DispatchScored, EndPass, owed_vars
<1>2. \/ /\ scan_pc \in {"index", "flush"} /\ scan_pc' = "idle"
         /\ context' = NoContext /\ scored' = {}
      \/ scan_pc = "index" /\ scan_pc' = "prescan" /\ context' = context
      \/ /\ scan_pc = "prescan" /\ scan_pc' \in {"walk", "leave"}
         /\ context' = context /\ scored' = {}
      \/ scan_pc \in {"walk", "flush"} /\ scan_pc' = scan_pc /\ context' = context
  BY DEF ScanInv, PassAgrees, DispatchIndexed, DispatchPriority, DispatchScored, EndPass
<1>3. PassAgrees /\ EarlyAgrees /\ FreshAgrees
  BY DEF ScanInv
<1>4. ScanTypeOK'
  <2>1. /\ scan_pc' \in {"idle", "index", "prescan", "walk", "leave", "flush"}
        /\ context' \in Contexts \cup {NoContext}
    BY <1>2 DEF ScanInv, ScanTypeOK
  <2> QED
    BY <1>1, <2>1 DEF ScanInv, ScanTypeOK
<1>5. PassAgrees'
  BY <1>1, <1>2, <1>3 DEF PassAgrees
<1>6. EarlyAgrees' /\ FreshAgrees'
  <2>1. CASE context' = context
    BY <1>1, <1>2, <1>3, <2>1 DEF EarlyAgrees, FreshAgrees
  <2>2. CASE scan_pc' = "idle"
    <3>1. \A i \in Items : early'[i] = NoEntry /\ fresh'[i] = NoEntry
      BY <1>1, <1>2, <1>3, <2>2 DEF EarlyAgrees, FreshAgrees, NoRecords
    <3> QED
      BY <1>1, <1>2, <1>3, <2>2, <3>1 DEF EarlyAgrees, FreshAgrees
  <2> QED
    BY <1>2, <2>1, <2>2
<1> QED
  BY <1>1, <1>4, <1>5, <1>6 DEF ScanInv

\* The pre-scan scores and records nothing deep.
LEMMA PreScoreKeeps == ASSUME ScanInv, NEW i \in Items, PreScore(i) PROVE ScanInv'
<1> DEFINE r == FromScore(evidence[i], "prescan", "Delete")
<1>1. /\ scan_pc = "prescan" /\ i \in context.items \cap Shallow /\ i \in There
      /\ early' = [early EXCEPT ![i] = r]
      /\ scored' \in {scored, scored \cup {i}}
      /\ UNCHANGED <<evidence, index, checkpoint, feedback, handed, scan_pc, context, fresh, owed,
                     owed_saved>>
  BY DEF PreScore, NewCandidates, owed_vars
<1>2. r \in Entries /\ r.fails = 0 /\ r.until = 0
  BY ScanConstants DEF FromScore, Entries, Sources, ScanInv, ScanTypeOK
<1> HIDE DEF r
<1>3. \A j \in Items : early'[j] = IF j = i THEN r ELSE early[j]
  BY <1>1 DEF ScanInv, ScanTypeOK
<1>4. ScanTypeOK'
  <2>1. early' \in [Items -> Entries] /\ scored' \in SUBSET Items
    BY <1>1, <1>2 DEF ScanInv, ScanTypeOK
  <2> QED
    BY <1>1, <2>1 DEF ScanInv, ScanTypeOK
<1>5. PassAgrees'
  BY <1>1 DEF ScanInv, PassAgrees, Deep
<1>6. EarlyAgrees'
  BY <1>1, <1>2, <1>3 DEF ScanInv, EarlyAgrees
<1>7. FreshAgrees'
  BY <1>1 DEF ScanInv, FreshAgrees
<1> QED
  BY <1>1, <1>4, <1>5, <1>6, <1>7 DEF ScanInv

\* What is owed of a deep item is cooling down under its evidence, as the walk has found it.
LEMMA OwedIsCooling ==
  ASSUME ScanInv, index.loaded, NEW i \in Deep, evidence[i] >= 0, owed[i] > 0
  PROVE  /\ index.records[i].evidence = evidence[i] /\ index.records[i].until > 0
         /\ index.records[i].source = "walk"
<1>1. /\ i \in Items /\ owed[i] \in Nat /\ evidence[i] \in Int
      /\ index.records[i].until \in Nat
  BY DEF ScanInv, ScanTypeOK, Indexes, Entries, Deep
<1>2. index.records[i].until >= owed[i] /\ evidence[i] \in {-1, index.records[i].evidence}
  BY DEF ScanInv, Right, Kept
<1>3. index.records[i].until > 0 /\ index.records[i].evidence = evidence[i]
  BY <1>1, <1>2
<1>4. index.records[i] # NoEntry
  BY <1>3 DEF NoEntry
<1> QED
  BY <1>1, <1>3, <1>4 DEF ScanInv, Right, Sound

\* What the walk scores is recorded under the evidence of the moment.
LEMMA ScoreKeeps ==
  ASSUME ScanInv, NEW i \in Items, NEW v \in Verdicts, ScoreItem(i, v)
  PROVE  ScanInv'
<1> DEFINE r == FromScore(evidence[i], "walk", v)
<1>1. /\ scan_pc = "walk" /\ i \in context.items /\ i \in There
      /\ fresh' = [fresh EXCEPT ![i] = r]
      /\ scored' \in {scored, scored \cup {i}}
      /\ i \in scored' \ scored => ~CandidateCooling(index, i, r)
      /\ UNCHANGED <<evidence, index, checkpoint, feedback, handed, scan_pc, context, early, owed,
                     owed_saved>>
  BY DEF ScoreItem, NewCandidates, owed_vars
<1>2. /\ r \in Entries /\ r.evidence = evidence[i] /\ r.source = "walk"
      /\ r.fails = 0 /\ r.until = 0
  BY ScanConstants DEF FromScore, Entries, Sources, ScanInv, ScanTypeOK
<1>3. index.loaded /\ evidence[i] >= 0
  BY <1>1 DEF ScanInv, PassAgrees, There
<1>4. i \in Deep /\ owed[i] > 0 => /\ index.records[i].evidence = evidence[i]
                                   /\ index.records[i].until > 0
                                   /\ index.records[i].source = "walk"
  BY <1>3, OwedIsCooling
<1> HIDE DEF r
<1>5. \A j \in Items : fresh'[j] = IF j = i THEN r ELSE fresh[j]
  BY <1>1 DEF ScanInv, ScanTypeOK
<1>6. ScanTypeOK'
  <2>1. fresh' \in [Items -> Entries] /\ scored' \in SUBSET Items
    BY <1>1, <1>2 DEF ScanInv, ScanTypeOK
  <2> QED
    BY <1>1, <2>1 DEF ScanInv, ScanTypeOK
<1>7. PassAgrees'
  <2>1. ASSUME i \in scored' \ scored, i \in Deep
        PROVE  owed[i] = 0
    <3>1. ~(owed[i] > 0)
      BY <1>1, <1>2, <1>4, <2>1 DEF CandidateCooling, Cooling, Matches
    <3>2. owed[i] \in Nat
      BY DEF ScanInv, ScanTypeOK
    <3> QED
      BY <3>1, <3>2
  <2> QED
    BY <1>1, <2>1 DEF ScanInv, PassAgrees
<1>8. FreshAgrees'
  BY <1>1, <1>2, <1>4, <1>5 DEF ScanInv, FreshAgrees
<1>9. EarlyAgrees'
  BY <1>1 DEF ScanInv, EarlyAgrees
<1> QED
  BY <1>1, <1>6, <1>7, <1>8, <1>9 DEF ScanInv

\* The records of a pass go into the index, and with it into the checkpoint, without
\* shortening a cooldown of a deep item.
LEMMA PersistKeeps == ASSUME ScanInv, Persist PROVE ScanInv'
<1> DEFINE first(i) == Stored(index.records[i], early[i])
           new == [i \in Items |-> Stored(first(i), fresh[i])]
           idx == [index EXCEPT !.records = new]
<1>1. /\ scan_pc \in {"walk", "leave"} /\ early' = NoRecords /\ fresh' = NoRecords
      /\ \/ UNCHANGED <<index, checkpoint, owed_saved>>
         \/ index' = idx /\ Save(idx, owed)
      /\ \/ scan_pc' = "idle" /\ context' = NoContext /\ scored' = {}
         \/ scan_pc = "walk" /\ scan_pc' = "flush" /\ UNCHANGED <<context, scored>>
      /\ UNCHANGED <<evidence, feedback, handed, owed>>
  BY DEF Persist
<1>2. /\ index \in Indexes /\ index.records \in [Items -> Entries]
      /\ early \in [Items -> Entries] /\ fresh \in [Items -> Entries] /\ owed \in [Items -> Nat]
      /\ index.loaded /\ index.context = context
      /\ Sound(index) /\ Kept(index, owed, evidence)
      /\ PassAgrees /\ EarlyAgrees /\ FreshAgrees
  BY <1>1 DEF ScanInv, PassAgrees, Right, ScanTypeOK, Indexes
<1>3. ASSUME NEW i \in Items
      PROVE  /\ first(i) \in Entries /\ Bounded(first(i), context)
             /\ first(i) # NoEntry => i \in context.items
             /\ i \in Deep => first(i) = index.records[i]
  <2>1. /\ index.records[i] \in Entries /\ early[i] \in Entries
        /\ Bounded(index.records[i], context)
        /\ index.records[i] # NoEntry => i \in context.items
    BY <1>2 DEF Sound
  <2>2. CASE early[i] = NoEntry
    BY <2>1, <2>2 DEF Stored
  <2>3. CASE early[i] # NoEntry
    <3>1. i \in context.items \cap Shallow /\ early[i].fails = 0 /\ early[i].until = 0
      BY <1>2, <2>3 DEF EarlyAgrees
    <3>2. first(i) = Upsert(index.records[i], early[i])
      BY <2>3 DEF Stored
    <3> HIDE DEF first
    <3> QED
      BY <2>1, <3>1, <3>2, UpsertKeeps DEF Deep
  <2> QED
    BY <2>2, <2>3
<1> HIDE DEF first
<1>4. ASSUME NEW i \in Items
      PROVE  /\ new[i] \in Entries /\ Bounded(new[i], context)
             /\ new[i] # NoEntry =>
                  i \in context.items /\ (i \in Deep => new[i].source = "walk")
             /\ i \in Deep /\ owed[i] > 0 => /\ new[i].until = index.records[i].until
                                             /\ new[i].evidence = index.records[i].evidence
  <2>1. /\ fresh[i] \in Entries /\ new[i] = Stored(first(i), fresh[i])
        /\ index.records[i] # NoEntry /\ i \in Deep => index.records[i].source = "walk"
    BY <1>2 DEF Sound
  <2> HIDE DEF new
  <2>2. CASE fresh[i] = NoEntry
    BY <1>3, <2>1, <2>2 DEF Stored
  <2>3. CASE fresh[i] # NoEntry
    <3>1. /\ i \in context.items /\ fresh[i].source = "walk"
          /\ fresh[i].fails = 0 /\ fresh[i].until = 0
          /\ i \in Deep /\ owed[i] > 0 => fresh[i].evidence = index.records[i].evidence
      BY <1>2, <2>3 DEF FreshAgrees
    <3>2. new[i] = Upsert(first(i), fresh[i])
      BY <2>1, <2>3 DEF Stored
    <3>3. /\ new[i] \in Entries /\ Bounded(new[i], context)
          /\ new[i].evidence = fresh[i].evidence /\ new[i].source = "walk"
          /\ first(i).evidence = fresh[i].evidence /\ first(i).source = "walk"
               => new[i].until = first(i).until
      BY <1>3, <2>1, <3>1, <3>2, UpsertKeeps
    <3>4. ASSUME i \in Deep, owed[i] > 0
          PROVE  index.records[i].source = "walk"
      <4>1. index.records[i].until >= owed[i] /\ owed[i] \in Nat
            /\ index.records[i].until \in Nat
        BY <1>2, <3>4 DEF Kept, Entries
      <4>2. index.records[i] # NoEntry
        BY <3>4, <4>1 DEF NoEntry
      <4> QED
        BY <2>1, <3>4, <4>2
    <3> QED
      BY <1>3, <3>1, <3>3, <3>4
  <2> QED
    BY <2>2, <2>3
<1>5. new \in [Items -> Entries]
  BY <1>4
<1>6. /\ idx \in Indexes /\ idx.records = new
      /\ idx.context = context /\ idx.loaded
  <2> HIDE DEF new
  <2> QED
    BY <1>2, <1>5 DEF Indexes
<1> HIDE DEF new, idx
<1>7. Right(idx, owed, evidence)
  <2>1. Sound(idx)
    BY <1>4, <1>6 DEF Sound
  <2>2. Kept(idx, owed, evidence)
    BY <1>2, <1>4, <1>6 DEF Kept, Deep
  <2> QED
    BY <1>6, <2>1, <2>2 DEF Right
<1>8. /\ Right(index', owed', evidence') /\ Right(checkpoint', owed_saved', evidence')
      /\ owed_saved' \in [Items -> Nat]
      /\ index'.loaded /\ index'.context = context
  <2>1. \/ UNCHANGED <<index, checkpoint, owed_saved>>
        \/ index' = idx /\ checkpoint' = idx /\ owed_saved' = owed
        \/ index' = idx /\ UNCHANGED <<checkpoint, owed_saved>>
    BY <1>1 DEF Save
  <2>2. /\ Right(index, owed, evidence) /\ Right(checkpoint, owed_saved, evidence)
        /\ owed_saved \in [Items -> Nat]
    BY DEF ScanInv, ScanTypeOK
  <2> QED
    BY <1>1, <1>2, <1>6, <1>7, <2>1, <2>2
<1>9. ScanTypeOK'
  <2>1. index' \in Indexes /\ checkpoint' \in Indexes
    BY <1>8 DEF Right
  <2>2. early' \in [Items -> Entries] /\ fresh' \in [Items -> Entries]
    BY <1>1, EmptyIsRight
  <2>3. /\ scan_pc' \in {"idle", "index", "prescan", "walk", "leave", "flush"}
        /\ context' \in Contexts \cup {NoContext} /\ scored' \in SUBSET Items
    BY <1>1 DEF ScanInv, ScanTypeOK
  <2> QED
    BY <1>1, <1>8, <2>1, <2>2, <2>3 DEF ScanInv, ScanTypeOK
<1>10. PassAgrees' /\ EarlyAgrees' /\ FreshAgrees'
  <2>1. \A i \in Items : early'[i] = NoEntry /\ fresh'[i] = NoEntry
    BY <1>1 DEF NoRecords
  <2> QED
    BY <1>1, <1>2, <1>8, <2>1 DEF PassAgrees, EarlyAgrees, FreshAgrees
<1> QED
  BY <1>1, <1>8, <1>9, <1>10 DEF ScanInv

\* The executor finishes with an item, which may be gone now; the feedback channel takes no
\* more than it holds.
LEMMA FinishKeeps == ASSUME ScanInv, Finish PROVE ScanInv'
<1>1. PICK i \in handed :
        /\ handed' = handed \ {i}
        /\ \/ evidence' = [evidence EXCEPT ![i] = -1] /\ UNCHANGED feedback
           \/ UNCHANGED <<evidence, feedback>>
           \/ /\ Cardinality(feedback) < FeedbackCap
              /\ feedback' = feedback \cup {i}
              /\ UNCHANGED evidence
  BY DEF Finish
<1>2. UNCHANGED <<index, checkpoint, scan_pc, context, early, fresh, scored, owed,
                owed_saved>>
  BY DEF Finish, pass_vars, owed_vars
<1>3. /\ i \in Items /\ evidence \in [Items -> Int] /\ IsFiniteSet(feedback)
      /\ feedback \in SUBSET Items /\ Cardinality(feedback) <= FeedbackCap
      /\ \A j \in Items : evidence[j] \in -1 .. MaxEvidence[j]
  BY <1>1 DEF ScanInv, ScanTypeOK
<1>4. /\ evidence' \in [Items -> Int]
      /\ \A j \in Items : evidence'[j] \in {-1, evidence[j]}
  BY <1>1, <1>3
<1>5. /\ IsFiniteSet(feedback') /\ feedback' \in SUBSET Items
      /\ Cardinality(feedback') <= FeedbackCap
  <2>1. /\ IsFiniteSet(feedback \cup {i}) /\ Cardinality(feedback) \in Nat
        /\ Cardinality(feedback \cup {i}) \in {Cardinality(feedback), Cardinality(feedback) + 1}
    BY <1>3, FS_AddElement, FS_CardinalityType
  <2>2. CASE feedback' = feedback
    BY <1>3, <2>2
  <2>3. CASE Cardinality(feedback) < FeedbackCap /\ feedback' = feedback \cup {i}
    BY <1>3, <2>1, <2>3, ScanConstants
  <2> QED
    BY <1>1, <2>2, <2>3
<1>6. ScanTypeOK'
  <2>1. \A j \in Items : evidence'[j] \in -1 .. MaxEvidence[j]
    BY <1>3, <1>4, ScanConstants
  <2>2. handed' \in SUBSET Items
    BY <1>1 DEF ScanInv, ScanTypeOK
  <2> QED
    BY <1>2, <1>4, <1>5, <2>1, <2>2 DEF ScanInv, ScanTypeOK
<1>7. Right(index', owed', evidence') /\ Right(checkpoint', owed_saved', evidence')
  <2>1. Right(index, owed, evidence) /\ Right(checkpoint, owed_saved, evidence)
    BY DEF ScanInv
  <2>2. Right(index, owed, evidence') /\ Right(checkpoint, owed_saved, evidence')
    BY <1>4, <2>1, EvidenceKeeps
  <2> QED
    BY <1>2, <2>2
<1>8. PassAgrees' /\ EarlyAgrees' /\ FreshAgrees'
  BY <1>2 DEF ScanInv, PassAgrees, EarlyAgrees, FreshAgrees
<1> QED
  BY <1>5, <1>6, <1>7, <1>8 DEF ScanInv

\* An item that is written to owes nothing more.
LEMMA TouchKeeps == ASSUME ScanInv, Touch PROVE ScanInv'
<1>1. PICK i \in There :
        /\ evidence[i] < MaxEvidence[i]
        /\ evidence' = [evidence EXCEPT ![i] = evidence[i] + 1]
        /\ owed' = [owed EXCEPT ![i] = 0] /\ owed_saved' = [owed_saved EXCEPT ![i] = 0]
  BY DEF Touch
<1>2. UNCHANGED <<index, checkpoint, feedback, handed, scan_pc, context, early, fresh,
                scored>>
  BY DEF Touch, pass_vars
<1>3. /\ i \in Items /\ evidence[i] >= 0 /\ evidence \in [Items -> Int]
      /\ owed \in [Items -> Nat] /\ owed_saved \in [Items -> Nat]
      /\ \A j \in Items : evidence[j] \in -1 .. MaxEvidence[j]
  BY <1>1 DEF ScanInv, ScanTypeOK, There
<1>4. /\ evidence' \in [Items -> Int]
      /\ \A j \in Items : evidence'[j] \in -1 .. MaxEvidence[j]
      /\ owed' \in [Items -> Nat] /\ owed_saved' \in [Items -> Nat]
  BY <1>1, <1>3, ScanConstants
<1>5. ASSUME NEW j \in Items
      PROVE  /\ \/ owed'[j] = 0
                \/ owed'[j] = owed[j] /\ evidence'[j] \in {-1, evidence[j]}
             /\ \/ owed_saved'[j] = 0
                \/ owed_saved'[j] = owed_saved[j] /\ evidence'[j] \in {-1, evidence[j]}
  BY <1>1, <1>3
<1>6. ScanTypeOK'
  BY <1>2, <1>4 DEF ScanInv, ScanTypeOK
<1>7. Right(index', owed', evidence') /\ Right(checkpoint', owed_saved', evidence')
  <2>1. Right(index, owed, evidence) /\ Right(checkpoint, owed_saved, evidence)
    BY DEF ScanInv
  <2>2. Right(index, owed', evidence') /\ Right(checkpoint, owed_saved', evidence')
    BY <1>5, <2>1, EvidenceKeeps
  <2> QED
    BY <1>2, <2>2
<1>8. PassAgrees' /\ EarlyAgrees' /\ FreshAgrees'
  <2>1. \A j \in Items : /\ owed'[j] > 0 => owed[j] > 0
                         /\ owed[j] = 0 => owed'[j] = 0
    BY <1>5
  <2>2. scored \subseteq Items
    BY DEF ScanInv, ScanTypeOK
  <2> QED
    BY <1>2, <2>1, <2>2 DEF ScanInv, PassAgrees, EarlyAgrees, FreshAgrees
<1> QED
  BY <1>2, <1>6, <1>7, <1>8 DEF ScanInv

\* A tick shortens what is owed and what is recorded alike.
LEMMA ScanTickKeeps == ASSUME ScanInv, TimePasses PROVE ScanInv'
<1> DEFINE now(owing) == [i \in Items |-> Sooner(owing[i])]
<1>1. /\ index' = Ticked(index) /\ checkpoint' = Ticked(checkpoint)
      /\ owed' = now(owed) /\ owed_saved' = now(owed_saved)
      /\ UNCHANGED <<evidence, feedback, handed, scan_pc, context, early, fresh,
                   scored>>
  BY DEF TimePasses, pass_vars
<1>2. /\ Right(index, owed, evidence) /\ Right(checkpoint, owed_saved, evidence)
      /\ owed \in [Items -> Nat] /\ owed_saved \in [Items -> Nat]
  BY DEF ScanInv, ScanTypeOK
<1>3. /\ Right(index', owed', evidence') /\ owed' \in [Items -> Nat]
      /\ index'.context = index.context /\ index'.loaded = index.loaded
      /\ \A i \in Items : index'.records[i].evidence = index.records[i].evidence
  BY <1>1, <1>2, TickKeeps
<1>4. Right(checkpoint', owed_saved', evidence') /\ owed_saved' \in [Items -> Nat]
  BY <1>1, <1>2, TickKeeps
<1>5. ScanTypeOK'
  <2>1. index' \in Indexes /\ checkpoint' \in Indexes
    BY <1>3, <1>4 DEF Right
  <2> QED
    BY <1>1, <1>3, <1>4, <2>1 DEF ScanInv, ScanTypeOK
<1>6. PassAgrees' /\ EarlyAgrees' /\ FreshAgrees'
  <2>1. \A i \in Items : /\ owed'[i] > 0 => owed[i] > 0
                         /\ owed[i] = 0 => owed'[i] = 0
    BY <1>1, <1>2, ScanConstants DEF Sooner
  <2>2. scored \subseteq Items
    BY DEF ScanInv, ScanTypeOK
  <2> QED
    BY <1>1, <1>3, <2>1, <2>2 DEF ScanInv, PassAgrees, EarlyAgrees, FreshAgrees
<1> QED
  BY <1>1, <1>3, <1>4, <1>5, <1>6 DEF ScanInv

\* A restart forgets the index; what is owed then is what the checkpoint knows.
LEMMA RestartKeeps == ASSUME ScanInv, Restart PROVE ScanInv'
<1>1. /\ index' = NoIndex
      /\ \/ checkpoint' = NoIndex /\ owed' = NothingOwed /\ owed_saved' = NothingOwed
         \/ UNCHANGED <<checkpoint, owed_saved>> /\ owed' = owed_saved
      /\ \/ UNCHANGED <<feedback, handed>>
         \/ feedback' = {} /\ handed' = {}
      /\ scan_pc' = "idle" /\ context' = NoContext /\ scored' = {}
      /\ early' = NoRecords /\ fresh' = NoRecords
      /\ UNCHANGED evidence
  BY DEF Restart
<1>2. /\ Right(checkpoint, owed_saved, evidence)
      /\ owed_saved \in [Items -> Nat]
  BY DEF ScanInv, ScanTypeOK
<1>3. /\ \A owing : Right(NoIndex, owing, evidence)
      /\ NothingOwed \in [Items -> Nat]
      /\ NoRecords \in [Items -> Entries]
  BY EmptyIsRight
<1>4. /\ Right(index', owed', evidence') /\ Right(checkpoint', owed_saved', evidence')
      /\ owed' \in [Items -> Nat] /\ owed_saved' \in [Items -> Nat]
  BY <1>1, <1>2, <1>3
<1>5. /\ IsFiniteSet(feedback') /\ feedback' \in SUBSET Items
      /\ Cardinality(feedback') <= FeedbackCap /\ handed' \in SUBSET Items
  <2>1. /\ IsFiniteSet(feedback) /\ feedback \in SUBSET Items
        /\ Cardinality(feedback) <= FeedbackCap /\ handed \in SUBSET Items
    BY DEF ScanInv, ScanTypeOK
  <2>2. IsFiniteSet({}) /\ Cardinality({}) = 0
    BY FS_EmptySet
  <2>3. CASE UNCHANGED <<feedback, handed>>
    BY <2>1, <2>3
  <2>4. CASE feedback' = {} /\ handed' = {}
    BY <2>2, <2>4, ScanConstants
  <2> QED
    BY <1>1, <2>3, <2>4
<1>6. ScanTypeOK'
  <2>1. index' \in Indexes /\ checkpoint' \in Indexes
    BY <1>4 DEF Right
  <2>2. early' \in [Items -> Entries] /\ fresh' \in [Items -> Entries]
    BY <1>1, <1>3
  <2>3. evidence' \in [Items -> Int] /\ \A j \in Items : evidence'[j] \in -1 .. MaxEvidence[j]
    BY <1>1 DEF ScanInv, ScanTypeOK
  <2>4. scan_pc' = "idle" /\ context' \in Contexts \cup {NoContext}
    BY <1>1
  <2>5. scored' \in SUBSET Items
    BY <1>1
  <2> QED
    BY <1>4, <1>5, <2>1, <2>2, <2>3, <2>4, <2>5 DEF ScanTypeOK
<1>7. PassAgrees' /\ EarlyAgrees' /\ FreshAgrees'
  <2>1. \A i \in Items : early'[i] = NoEntry /\ fresh'[i] = NoEntry
    BY <1>1 DEF NoRecords
  <2> QED
    BY <1>1, <2>1 DEF PassAgrees, EarlyAgrees, FreshAgrees
<1> QED
  BY <1>4, <1>5, <1>6, <1>7 DEF ScanInv

\* Every step of the scanner keeps the invariant.
LEMMA ScanStep == ASSUME ScanInv, [ScanNext]_scan_vars PROVE ScanInv'
<1>1. CASE UNCHANGED scan_vars
  BY <1>1 DEF ScanInv, PassAgrees, EarlyAgrees, FreshAgrees, ScanTypeOK, scan_vars, pass_vars,
                owed_vars
<1>2. CASE ScanNext
  BY <1>2, BeginPassKeeps, DispatchKeeps, PreScoreKeeps, ScoreKeeps, PersistKeeps,
     FinishKeeps, TouchKeeps, ScanTickKeeps, RestartKeeps DEF ScanNext
<1> QED
  BY <1>1, <1>2

\* An item is handed over only when it lies under the roots of the pass and, if it is deep,
\* owes nothing.
LEMMA HandOver ==
  ASSUME ScanInv, [ScanNext]_scan_vars, NEW i \in handed' \ handed
  PROVE  i \in context.items /\ (i \in Deep => owed[i] = 0)
<1>1. DispatchIndexed \/ DispatchPriority \/ DispatchScored
  BY DEF ScanNext, BeginPass, PreScore, ScoreItem, Persist, EndPass, Finish,
         Touch, TimePasses, Restart, scan_vars
<1>2. CASE DispatchPriority \/ DispatchScored
  <2>1. i \in scored
    BY <1>2 DEF DispatchPriority, DispatchScored, Top
  <2> QED
    BY <2>1 DEF ScanInv, PassAgrees
<1>3. CASE DispatchIndexed
  <2>1. i \in Ranked(index) /\ scan_pc = "index"
    BY <1>3 DEF DispatchIndexed, Top
  <2>2. /\ i \in Items /\ index.records[i].state \in {"Safe", "Failed"}
        /\ ~(index.records[i].until > 0)
    BY <2>1 DEF Ranked, Cooling
  <2>3. index.records[i] # NoEntry
    BY <2>2 DEF NoEntry
  <2>4. index.records[i].until \in Nat /\ owed[i] \in Nat
    BY <2>2 DEF ScanInv, ScanTypeOK, Indexes, Entries
  <2>5. i \in Deep /\ owed[i] > 0 => index.records[i].until >= owed[i]
    BY <2>1, <2>2 DEF ScanInv, PassAgrees, Right, Kept
  <2> QED
    BY <2>1, <2>2, <2>3, <2>4, <2>5 DEF ScanInv, PassAgrees, Right, Sound
<1> QED
  BY <1>1, <1>2, <1>3

\* The index, in memory and in its checkpoint, keeps every backoff a deep item owes, no
\* cooldown longer than its failures call for, and only items of its own context, for any
\* items, contexts and capacities.  Of items the pre-scan gets to it does not keep the backoff:
\* the records of the pre-scan and of the walk replace each other (index.rs: upsert).
THEOREM ScanInductive == ScanSpec => []ScanInv
<1>1. ScanInit => ScanInv
  BY ScanInitInv
<1>2. ScanInv /\ [ScanNext]_scan_vars => ScanInv'
  BY ScanStep
<1> QED
  BY <1>1, <1>2, PTL DEF ScanSpec

\* An item out of the pre-scan's reach that failed is not handed to the executor again while
\* its backoff lasts and its evidence is the same (scanner/index.rs: in_cooldown, upsert,
\* load_checkpoint), though passes under another context and restarts come between.
THEOREM BackoffIsHeld == ScanSpec => DeepBackoffHolds
<1>1. ScanInv /\ [ScanNext]_scan_vars
        => [\A i \in handed' \ handed : i \notin Shallow => owed[i] = 0]_scan_vars
  <2> SUFFICES ASSUME ScanInv, [ScanNext]_scan_vars, NEW i \in handed' \ handed, i \notin Shallow
               PROVE  owed[i] = 0
    OBVIOUS
  <2>1. handed' \subseteq Items
    BY ScanStep DEF ScanInv, ScanTypeOK
  <2> QED
    BY <2>1, HandOver DEF Deep
<1> QED
  BY <1>1, ScanInductive, PTL DEF ScanSpec, DeepBackoffHolds

\* A pass hands over only items under the roots of its own request, whatever the checkpoint
\* it loaded was written for.
THEOREM DispatchStaysWithinRoots == ScanSpec => DispatchWithinRoots
<1>1. ScanInv /\ [ScanNext]_scan_vars
        => [handed' \ handed \subseteq context.items]_scan_vars
  BY HandOver
<1> QED
  BY <1>1, ScanInductive, PTL DEF ScanSpec, DispatchWithinRoots

=============================================================================
