-------------------------- MODULE DeletionExecutor --------------------------
(***************************************************************************)
(* The executor thread (executor_thread_main in daemon/loop_main.rs) and   *)
(* the batch it runs (DeletionExecutor in scanner/deletion.rs): circuit    *)
(* breaker with its growing cooldown, dampening of repeated deletions, and *)
(* the removal of one candidate in the steps between which another process *)
(* can change the file system.                                             *)
(*                                                                         *)
(* A candidate is the path and the identity (device, inode, kind) seen by  *)
(* the scan that scored it.  disk gives the identity now at each path.     *)
(* What the policy engine approves is any part of a batch (PolicyEngine).  *)
(* One batch may name a path twice: the index keeps a record per identity. *)
(* Durations are numbers of ticks.                                         *)
(***************************************************************************)
EXTENDS Integers, Sequences, FiniteSets

CONSTANTS
  Paths,
  Ids,              \* identities of files and directories
  NoId,             \* no identity: an empty path, or a candidate scored without one
  Link,             \* identity of a symbolic link
  Candidates,       \* what scans come up with: a path and the identity it had
  RequireIdentity,  \* DeletionConfig::require_identity (scanner engine v2)
  Threshold,        \* circuit_breaker_threshold
  BreakerBase,      \* circuit_breaker_cooldown
  BreakerMax,       \* max_circuit_breaker_cooldown
  BatchLimit,       \* max_delete_batch
  Cooldowns,        \* repeat_deletion_{base,max}_cooldown_secs a reload may bring
  AgeCap,           \* bound: ages of deletions that are told apart
  PruneEvery,       \* batches between two calls of prune_expired
  MaxCycles         \* bound: cycle counts that are told apart

ASSUME ExecutorAssumption ==
  /\ Candidates \subseteq [path : Paths, identity : Ids \cup {NoId}]
  /\ RequireIdentity \in BOOLEAN
  /\ {Threshold, BreakerBase, BreakerMax, PruneEvery, MaxCycles} \subseteq Nat \ {0}
  /\ {BatchLimit, AgeCap} \subseteq Nat
  /\ Cooldowns # {} /\ Cooldowns \subseteq [base : Nat, max : 0 .. AgeCap]
  /\ BreakerBase <= BreakerMax
  /\ NoId \notin Ids /\ Link \notin Ids /\ NoId # Link

VARIABLES
  disk,              \* identity at each path, NoId when there is nothing
  pc,                \* where the executor is
  batch,             \* candidates of the plan not handled yet
  bypass,            \* pressure or urgency of the batch switches dampening off
  consecutive,       \* consecutive_failures
  deleted,           \* report.deleted_paths: how often each path is in it
  history,           \* RepeatDeletionTracker: cycle count and age of the last deletion
  trip_age,          \* age of last_circuit_breaker_trip, -1 for None
  breaker_cooldown,  \* circuit_breaker_cooldown
  cooldowns,         \* base_cooldown and max_cooldown of the tracker
  batch_count,       \* modulo PruneEvery
  swapped,           \* history: the path changed after delete_path's last look
  mistaken,          \* history: a removal hit something else than what was scored
  trips,             \* history: trips since the last good batch
  since_trip,        \* history: age of the last trip
  gap,               \* history: deletions of a path in close succession, and age of the last
  outcomes           \* history: what became of the candidates this batch tried

exec_vars == <<pc, batch, bypass, consecutive, deleted>>
tracker_vars == <<history, cooldowns, batch_count>>
breaker_vars == <<trip_age, breaker_cooldown>>
ghost_vars == <<swapped, mistaken, trips, since_trip, gap, outcomes>>
vars == <<disk, exec_vars, tracker_vars, breaker_vars, ghost_vars>>

Things == Ids \cup {Link}
Plans == UNION {[1 .. n -> Candidates] : n \in 1 .. BatchLimit}

Least(a, b) == IF a <= b THEN a ELSE b
Older(age, cap) == Least(age + 1, cap)
Doubled(base, n, cap) == Least(base * 2 ^ n, cap)

NoRecord == [count |-> 0, age |-> 0]
NothingDeleted == [p \in Paths |-> 0]
Candidate == Head(batch)

(***************************************************************************)
(* Before a batch.                                                         *)
(***************************************************************************)

\* RepeatDeletionTracker::cooldown_for
InCooldown(p, c) ==
  /\ history[p].count > 0
  /\ history[p].age < Doubled(c.base, history[p].count - 1, c.max)

BreakerCooling == trip_age >= 0 /\ trip_age < breaker_cooldown

NextCount == (batch_count + 1) % PruneEvery

\* The cooldown of the breaker is over, and the tracker picks up what a reload has stored
\* for it (update_cooldowns).
Proceed ==
  /\ ~BreakerCooling
  /\ trip_age' = -1
  /\ cooldowns' \in Cooldowns

\* The cooldown of the breaker is on, the policy approves nothing, all is dampened, the
\* plan is empty or the protection list is bad: the batch is dropped.
DropBatch ==
  /\ pc = "idle"
  /\ batch_count' = NextCount
  /\ \/ BreakerCooling /\ UNCHANGED <<trip_age, cooldowns>>
     \/ Proceed
  /\ UNCHANGED <<disk, exec_vars, history, breaker_cooldown, ghost_vars>>

\* What is left of a batch after policy, dampening (filter_candidates) and plan.
StartBatch(plan, b, c) ==
  /\ pc' = "candidate" /\ batch' = plan /\ bypass' = b
  /\ b \/ \A i \in DOMAIN plan : ~InCooldown(plan[i].path, c)

ReceiveBatch ==
  /\ pc = "idle"
  /\ Proceed
  /\ \E plan \in Plans, b \in BOOLEAN : StartBatch(plan, b, cooldowns')
  /\ batch_count' = NextCount
  /\ UNCHANGED <<disk, consecutive, deleted, history, breaker_cooldown, ghost_vars>>

(***************************************************************************)
(* One candidate.                                                          *)
(***************************************************************************)

\* verify_candidate_identity
SameIdentity(c) ==
  IF c.identity = NoId THEN ~RequireIdentity ELSE disk[c.path] = c.identity

NextCandidate == pc' = "candidate" /\ batch' = Tail(batch)

Tried(outcome) ==
  /\ outcomes' = Append(outcomes, outcome)
  /\ UNCHANGED <<swapped, mistaken, trips, since_trip, gap>>

\* should_skip: shutdown, or the path is protected by now.
Skip ==
  /\ pc = "candidate" /\ batch # << >> /\ consecutive < Threshold
  /\ NextCandidate
  /\ UNCHANGED <<disk, bypass, consecutive, deleted, tracker_vars, breaker_vars, ghost_vars>>

\* Mutant of PreflightSkip: the failures before a skip go on counting.
PreflightSkipCountsOn ==
  /\ pc = "candidate" /\ batch # << >> /\ consecutive < Threshold
  /\ NextCandidate
  /\ Tried("skipped")
  /\ UNCHANGED <<disk, bypass, consecutive, deleted, tracker_vars, breaker_vars>>

\* preflight_check: nothing or a link at the path, another identity, or one of the checks
\* of the content (open, not writable, a source tree).
PreflightSkip ==
  /\ pc = "candidate" /\ batch # << >> /\ consecutive < Threshold
  /\ NextCandidate
  /\ consecutive' = 0
  /\ Tried("skipped")
  /\ UNCHANGED <<disk, bypass, deleted, tracker_vars, breaker_vars>>

PreflightPass ==
  /\ pc = "candidate" /\ batch # << >> /\ consecutive < Threshold
  /\ disk[Candidate.path] \in Ids
  /\ SameIdentity(Candidate)
  /\ pc' = "delete_path"
  /\ UNCHANGED <<disk, batch, bypass, consecutive, deleted, tracker_vars, breaker_vars,
                 ghost_vars>>

Fail ==
  /\ NextCandidate
  /\ consecutive' = consecutive + 1
  /\ Tried("failed")
  /\ UNCHANGED deleted

\* Mutant of Recheck: delete_path only looks for a link.
RecheckLinkOnly == disk[Candidate.path] \in Ids

\* delete_path looks at the path once more: symlink_metadata, link, identity.
Recheck == disk[Candidate.path] \in Ids /\ SameIdentity(Candidate)

DeletePath ==
  /\ pc = "delete_path"
  /\ \/ /\ Recheck
        /\ pc' = "remove" /\ swapped' = FALSE
        /\ UNCHANGED <<batch, consecutive, deleted, mistaken, trips, since_trip, gap, outcomes>>
     \/ ~Recheck /\ Fail
  /\ UNCHANGED <<disk, bypass, tracker_vars, breaker_vars>>

\* remove_dir_all, remove_dir_all_force or remove_file of what is now at the path.
Remove ==
  /\ pc = "remove"
  /\ \/ /\ disk[Candidate.path] # NoId
        /\ disk' = [disk EXCEPT ![Candidate.path] = NoId]
        /\ pc' = "gone"
        /\ mistaken' = (mistaken \/ (/\ disk[Candidate.path] # Candidate.identity
                                     /\ Candidate.identity # NoId \/ RequireIdentity
                                     /\ ~swapped))
        /\ UNCHANGED <<batch, consecutive, deleted, swapped, trips, since_trip, gap, outcomes>>
     \/ Fail /\ UNCHANGED disk
  /\ UNCHANGED <<bypass, tracker_vars, breaker_vars>>

\* The path must be empty afterwards.
ConfirmGone ==
  /\ pc = "gone"
  /\ \/ /\ disk[Candidate.path] = NoId
        /\ NextCandidate
        /\ consecutive' = 0
        /\ deleted' = [deleted EXCEPT ![Candidate.path] = @ + 1]
        /\ Tried("deleted")
     \/ disk[Candidate.path] # NoId /\ Fail
  /\ UNCHANGED <<disk, bypass, tracker_vars, breaker_vars>>

(***************************************************************************)
(* After a batch.                                                          *)
(***************************************************************************)

Tripped == batch # << >> /\ consecutive >= Threshold

\* Mutant of Pruned: entries leave after the base cooldown.
PrunedAtBase(h, c) == [p \in Paths |-> IF h[p].age < c.base THEN h[p] ELSE NoRecord]

\* prune_expired
Pruned(h, c) == [p \in Paths |-> IF h[p].age < c.max THEN h[p] ELSE NoRecord]

\* record_deletions: one more cycle for every time a path is listed.
Recorded(h) ==
  [p \in Paths |-> IF deleted[p] = 0 THEN h[p]
                   ELSE [count |-> Least(h[p].count + deleted[p], MaxCycles), age |-> 0]]

\* Deletions are in close succession until a batch finds the longest cooldown over.
InSuccession(g, c) ==
  [p \in Paths |-> IF g[p].age >= c.max THEN NoRecord ELSE g[p]]

Successful == \E p \in Paths : deleted[p] > 0

\* Mutant of NextBreakerCooldown: any batch that did not trip ends the backoff.
ResetOnAnyBatch ==
  IF Tripped THEN Least(breaker_cooldown * 2, BreakerMax) ELSE BreakerBase

NextBreakerCooldown ==
  IF Tripped THEN Least(breaker_cooldown * 2, BreakerMax)
  ELSE IF Successful THEN BreakerBase ELSE breaker_cooldown

ForgetBatch ==
  /\ pc' = "idle" /\ batch' = << >> /\ bypass' = FALSE /\ consecutive' = 0
  /\ deleted' = NothingDeleted
  /\ swapped' = FALSE /\ outcomes' = << >>

\* The batch is done, or the breaker stops it at the next candidate.
EndBatch ==
  /\ pc = "candidate"
  /\ batch = << >> \/ Tripped
  /\ ForgetBatch
  /\ history' = IF batch_count = 0 THEN Pruned(Recorded(history), cooldowns) ELSE Recorded(history)
  /\ trip_age' = IF Tripped THEN 0 ELSE trip_age
  /\ breaker_cooldown' = NextBreakerCooldown
  /\ trips' = IF Tripped THEN Least(trips + 1, BreakerMax) ELSE IF Successful THEN 0 ELSE trips
  /\ since_trip' = IF Tripped THEN 0 ELSE since_trip
  /\ gap' = InSuccession(Recorded(gap), cooldowns)
  /\ UNCHANGED <<disk, cooldowns, batch_count, mistaken>>

\* A dry run and an incomplete scan for open files change nothing but the counters.
IdleBatch ==
  /\ pc = "idle"
  /\ Proceed
  /\ batch_count' = NextCount
  /\ history' = IF NextCount = 0 THEN Pruned(history, cooldowns') ELSE history
  /\ gap' = InSuccession(gap, cooldowns')
  /\ UNCHANGED <<disk, exec_vars, breaker_cooldown, swapped, mistaken, trips, since_trip, outcomes>>

\* The thread panics and is respawned: what it remembered is lost.
Respawn ==
  /\ ForgetBatch
  /\ history' = [p \in Paths |-> NoRecord] /\ cooldowns' \in Cooldowns /\ batch_count' = 0
  /\ trip_age' = -1 /\ breaker_cooldown' = BreakerBase
  /\ trips' = 0 /\ since_trip' = 0 /\ gap' = [p \in Paths |-> NoRecord]
  /\ UNCHANGED <<disk, mistaken>>

(***************************************************************************)
(* Other processes, and time.                                              *)
(***************************************************************************)

\* Anything may be created, removed or replaced at a path at any time.
OtherProcess ==
  \E p \in Paths, x \in Things \cup {NoId} :
    /\ x # disk[p]
    /\ disk' = [disk EXCEPT ![p] = x]
    /\ swapped' = (swapped \/ (pc = "remove" /\ Candidate.path = p))
    /\ UNCHANGED <<exec_vars, tracker_vars, breaker_vars, mistaken, trips, since_trip, gap,
                   outcomes>>

Aged(h) == [p \in Paths |-> IF h[p].count = 0 THEN h[p]
                            ELSE [h[p] EXCEPT !.age = Older(@, AgeCap)]]

Tick ==
  /\ history' = Aged(history)
  /\ gap' = Aged(gap)
  /\ trip_age' = IF trip_age < 0 THEN trip_age ELSE Older(trip_age, BreakerMax)
  /\ since_trip' = IF trips = 0 THEN 0 ELSE Older(since_trip, BreakerMax)
  /\ UNCHANGED <<disk, exec_vars, cooldowns, batch_count, breaker_cooldown, swapped, mistaken,
                 trips, outcomes>>

(***************************************************************************)
(* Specification.                                                          *)
(***************************************************************************)

Init ==
  /\ disk \in [Paths -> Things \cup {NoId}]
  /\ pc = "idle" /\ batch = << >> /\ bypass = FALSE /\ consecutive = 0
  /\ deleted = NothingDeleted
  /\ history = [p \in Paths |-> NoRecord] /\ cooldowns \in Cooldowns /\ batch_count = 0
  /\ trip_age = -1 /\ breaker_cooldown = BreakerBase
  /\ swapped = FALSE /\ mistaken = FALSE /\ trips = 0 /\ since_trip = 0
  /\ gap = [p \in Paths |-> NoRecord] /\ outcomes = << >>

Next ==
  \/ DropBatch \/ ReceiveBatch \/ IdleBatch
  \/ Skip \/ PreflightSkip \/ PreflightPass \/ DeletePath \/ Remove \/ ConfirmGone
  \/ EndBatch \/ Respawn
  \/ OtherProcess \/ Tick

Spec == Init /\ [][Next]_vars

(***************************************************************************)
(* Properties.                                                             *)
(***************************************************************************)

Counters == [count : 0 .. MaxCycles, age : 0 .. AgeCap]
Outcomes == {"failed", "skipped", "deleted"}

\* Every variable stays in its domain; a batch never fails more often in a row than the
\* breaker allows, and the breaker's cooldown stays between its base and its cap.
TypeOK ==
  /\ disk \in [Paths -> Things \cup {NoId}]
  /\ pc \in {"idle", "candidate", "delete_path", "remove", "gone"}
  /\ batch \in Seq(Candidates)
  /\ bypass \in BOOLEAN /\ swapped \in BOOLEAN /\ mistaken \in BOOLEAN
  /\ consecutive \in 0 .. Threshold
  /\ deleted \in [Paths -> Nat]
  /\ history \in [Paths -> Counters] /\ gap \in [Paths -> Counters]
  /\ cooldowns \in Cooldowns /\ outcomes \in Seq(Outcomes)
  /\ batch_count \in 0 .. PruneEvery - 1
  /\ trip_age \in -1 .. BreakerMax
  /\ breaker_cooldown \in BreakerBase .. BreakerMax
  /\ trips \in 0 .. BreakerMax
  /\ since_trip \in 0 .. BreakerMax

\* The thing removed is the thing that was scored.  Another process may have replaced it
\* since the scan or since the preflight: only a replacement between delete_path's own look
\* at the path and the removal goes unnoticed (and a candidate scored without an identity
\* where the engine does not require one).
RemovedIsScored == ~mistaken

LastFailed(n) ==
  /\ n <= Len(outcomes)
  /\ \A k \in 0 .. n - 1 : outcomes[Len(outcomes) - k] = "failed"

\* The breaker stops a batch exactly when the last circuit_breaker_threshold candidates it
\* tried have failed: a removal and a candidate turned down by the preflight start the count
\* anew, one passed over because it is protected by now counts neither way.
TripsAreEarned == consecutive >= Threshold <=> LastFailed(Threshold)

\* The k-th trip in a row, without a good batch in between, keeps the executor away from
\* the disk for the base cooldown doubled k times, up to the cap: no candidate is attempted
\* before that, whatever batches arrive (respawns aside).  The first pause is thus twice the
\* base of 30 seconds that src/README.md:1060 gives for it.
TripsBackOff ==
  [][ (trips > 0 /\ pc # "delete_path" /\ pc' = "delete_path")
        => since_trip >= Doubled(BreakerBase, trips, BreakerMax) ]_vars

\* Outside of Red, Critical and high urgency the n-th deletion of a path in close succession
\* comes no sooner after the one before than the base cooldown doubled n - 2 times, up to the
\* cap, as configured when its batch is received: neither pruning under an earlier
\* configuration nor a reload loses the count.
RepeatsAreSpaced ==
  [][ \A p \in Paths :
        (pc = "idle" /\ pc' = "candidate" /\ ~bypass' /\ gap[p].count > 0
           /\ \E i \in DOMAIN batch' : batch'[i].path = p)
          => gap[p].age >= Doubled(cooldowns'.base, gap[p].count - 1, cooldowns'.max) ]_vars

====
