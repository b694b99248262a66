# A TLA+ verification of the storage ballast helper (sbh)

`sbh` keeps a disk from filling up. A daemon watches free space and memory pressure,
keeps a reserve of *ballast files* it can delete at once, scans for build artefacts,
scores them and deletes what its policy allows. The same binary has commands that
work on the same files from other processes. This directory models the parts of
it that decide and the threads between them: who may delete, when ballast is released
and created again, how a scan pass gets from the walker to the executor, and what the
processes that share a pool can do to each other. TLC checks the models on small
instances; TLAPS proves their safety properties for every value of the constants.

## 1. Inventory

| Component (source) | State | Operations | Interacts with |
|---|---|---|---|
| Policy engine (`daemon/policy.rs`) | mode, fallback reason and time, escalation time, clean and breach counters, canary hour, pressure | `evaluate`, `observe_window`, `check_emergency_escalation`, `update_config`, `enter_fallback`, `promote`, `demote` | monitor thread (every tick), executor thread (every batch), SIGHUP; one mutex |
| Ballast manager (`ballast/manager.rs`) | configuration, inventory; the pool directory and its `flock` | `new`, `update_config`, `provision`, `replenish_one`, `release`, `verify` | daemon and `sbh ballast` processes on one directory |
| Release controller (`ballast/release.rs`) and coordinator (`ballast/coordinator.rs`) | per mount: green timer, replenishment timer; per pool: a manager | `files_to_release`, `on_released`, `is_ready_for_replenish`, `on_replenished`, `inventory`, `provision_all` | monitor loop, special locations, operator commands |
| Behaviour mode (`daemon/loop_main.rs`, table in `daemon/policy.rs`) | memory level, disk level, one timer per direction | `update_with_hysteresis`, event drain, sleep with events | monitor loop, memory sampler thread through a bounded channel, SIGHUP |
| Pressure controller (`monitor/pid.rs`) | level, PID terms per mount | `update` | monitor loop |
| Statistical guard (`monitor/guardrails.rs`) | observation window, evidence, status | `observe`, `recompute_status` | monitor loop; read by the policy engine |
| Daemon pipeline (`daemon/loop_main.rs`) | scan, deletion, report and log channels, worker health | `enqueue_scan_request`, dispatch, respawn, `shutdown` | monitor, scanner and executor threads |
| Deletion executor (`scanner/deletion.rs`, executor thread) | circuit breaker, repeat-deletion history | `plan`, `execute`, `filter_candidates` | policy engine, scanner index |
| Walker (`scanner/walker.rs`) | work queue, directories in flight, markers found, result channel, cancel flag | `stream`, `process_directory` | its own threads, scanner |
| Scanner index (`scanner/index.rs`) | candidate records, one checkpoint | `upsert`, `record_failure`, `ranked_candidate_scores`, `save_checkpoint`, `load_checkpoint` | scanner, executor feedback |
| Scan cursor (`daemon/loop_main.rs`) | barren directories and their age | `barren_exclusions`, `update` | scanner, walker |
| Dual logger (`logger/`) | bounded channel, two sinks, degradation | `send`, `shutdown` | every thread |
| Scoring, patterns, protection, estimators, TUI, CLI installers, service files, platform layers | see `PROJECT.json` | sequential functions or calls of external tools | |

What is hard here: two threads and a signal drive the policy engine; several processes
change one directory while only some of their steps hold the lock; a signal that is
sent only when it changes is rate-limited after it was received; the daemon acts on
an inventory that other processes make stale; candidates wait in channels, in an index
and on disk while the tree they name changes; workers panic, block and are abandoned;
nearly everything is governed by timers that some operation restarts, forgets or
shares. Every such place is a hazard
in `PROJECT.json`, with the properties that would notice it going wrong.

What makes each part correct:

* policy engine: a barred batch deletes nothing; leaving and entering `FallbackSafe` is
  earned, timed and live; an hour has a bounded number of canary deletions;
* ballast manager: a finished operation left the directory as its report says; nobody
  is left with a torn file or with the lock;
* behaviour mode: transitions are spaced and lasting pressure is acted on;
* release controller: lasting Critical empties the pool, lasting Green fills it, and a
  file is not created again within the cooldown after a release;
* mount monitor: the level is never better than the reading and settles, and the guard's
  trust is lost and regained in bounded time;
* pipeline: an urgent request is never turned away by a full channel, nobody waits for
  ever, a dead worker is noticed, shutdown ends and removes next to nothing more;
* executor: only the object that was scored is removed, and failures and repetitions
  are spaced;
* walker: an exact count, nothing below a marker, nothing left out at a natural end;
* index and cursor: backoff holds, a pass stays within its roots, and what was not
  walked does not count as walked. Three violations below show where this does not hold.

## 2. Modules

| Module | Models | Lines it stands for |
|---|---|---|
| `PolicyEngine` | the policy engine and the three callers it has in the daemon | `daemon/policy.rs`, three places of `loop_main.rs` |
| `CanaryBudget` | an observer of `PolicyEngine` that counts canary approvals in a sliding hour | - |
| `BallastFiles` | the files of one pool and the processes that manage them, one system call per step | `ballast/manager.rs`, `run_ballast` |
| `BallastRelease` | the daemon's decisions about its pools, next to operator commands | `ballast/release.rs`, ballast parts of `loop_main.rs` and `coordinator.rs` |
| `BehaviorMode` | disk ticks, memory events and the rate-limited choice of a cell | `PressureBehaviorState` and its callers in `loop_main.rs` |
| `MountMonitor` | guard and level of one mount | `monitor/guardrails.rs`, `monitor/pid.rs`, `MountMonitor` in `loop_main.rs` |
| `DaemonPipeline` | monitor, scanner, executor and logger threads, their channels, supervision and shutdown | `run`, `shutdown`, channel and thread parts of `loop_main.rs`; `logger/dual.rs` |
| `DeletionExecutor` | one executor thread against a changing file system | `executor_thread_main`, `RepeatDeletionTracker`, `scanner/deletion.rs` |
| `ScannerIndex` | the operations of the candidate index (no state) | `scanner/index.rs` |
| `IndexedScan` | scan passes over that index, with checkpoint, executor feedback and restarts; extends `ScannerIndex` | index parts of `scanner_thread_main` |
| `IndexedScanHistory` | an observer of `IndexedScan` that records the last verdict | - |
| `ScanTree` | the tree a walk sees, and what it may and must report (no state) | guards of `process_directory` |
| `Traversal` | abstract: what a pass may expect of a walk | - |
| `WalkerPool` | the walker threads; implements `Traversal` | `scanner/walker.rs`, walk loop of `scanner_thread_main` |
| `ScanCursor` | the cursor over several passes, each an abstract walk over `ScanTree` | `ScanCursor` in `loop_main.rs` |
| `*Proofs` | theorems about the module of the same name; `PolicyEngineProofs` also about `CanaryBudget`, `DeletionExecutorProofs` also about `IndexedScan` | - |
| `MC*` | values of the constants for TLC | - |

Conventions. The state keeps the names of the code. An `Instant` is modelled by its age
in ticks, `NoInstant` when it is `None`. The code only compares ages with
thresholds, so an age stops at the constant `Cap`, which is assumed to be at least every
threshold. A *history variable* (`fallback_for`, `escalated_for`, `clean_run`, `since`,
`refill`, `torn`, `recent`, `late`, `owed`, `gap`, `trips`, `since_trip`, `outcomes`,
`swapped`, `mistaken`, `bad_run`, `met`) records what really happened and is never
read by an action of the code: the properties compare the program's own timers with it.
Definitions named as a *mutant* are deliberate mistakes. Nothing uses them; each shows,
when it replaces the definition after it, that some property notices that mistake.

### PolicyEngine

`engine` is the record of the fields of `PolicyEngine` that are read by a decision.
`MonitorTick` is the three calls the monitor makes under one lock
(`set_pressure_level`, `observe_window`, `check_emergency_escalation`),
`ExecutorEvaluate` is `evaluate` with the guard snapshot the executor reads,
`ReloadConfig` is `update_config`. `Promote`, `Demote` and `RequestFallback` are public
operations that the daemon does not call itself; `DaemonNext` leaves them out. In the
loop of `evaluate` only the number of approved candidates matters later, so the loop is
the set of eligible indices and the canary budget applied to its size. The guard is an
input: any diagnostics `recompute_status` can produce. Floating-point losses are
integers, the penalty factors percentages. The decision records, the transition log and
the budget of hypothetical deletions only shape the report and are left out.

### BallastFiles

A file is absent, partial, or complete for a certain size; `Valid` is
`verify_single_file`. `provision` and `replenish_one` share their steps: `Prune`,
`SkipValid`/`RemoveInvalid`, `AbortLowSpace`, `BeginWrite`, `FinishWrite`/`FailWrite`,
`Rescan`, `Return`; a release is `BeginRelease`, `ReleaseOne`, `ReleaseDone` and the same
end. Building a manager (`Start`, `NewPrune`, `NewScan`) and reconfiguring the daemon's
(`Reload`) do not take the lock, as in the code. `Stop` is a normal exit, or a kill at
any point: the kernel drops the lock, the files stay. `EditConfig` is an operator's editor.
Pruning removes several files in one step; a removal of an existing file succeeds;
the errors of the lock file itself are left out (the operation then does nothing).
The lock model is the Unix one; elsewhere `acquire_lock` does nothing.

### BallastRelease

One record per pool: the files, the daemon's inventory and the two timers that decide.
A tick at Green walks over the pools in path order and creates at most one file
(`ReplenishTick`), or none (`GreenTick`); it may release all the same when a prediction
says so. `PressureTick` and `SpecialLocation` release `FilesToRelease` files.
What the PID controller and the urgency ask for is one free number. Which file a
replenishment creates is any missing one, which covers the code's choice. The behaviour
cell decides whether a tick releases at all; here a tick may always not release
(`NoMount`), and `BehaviorMode` says when it does. Files with invalid content belong to
`BallastFiles`; a pool here holds files or not.

### BehaviorMode

The monitor loop is a program counter: disk update, drain, pressure handler, sleep. The
sampler thread sends an event when the level it reads differs from the last one it
read, and `try_send` drops it when the channel is full. `Update` is
`update_with_hysteresis`; the seed at startup bypasses the interval. `pending_target`
is written and never acted on, and the `mode` field is a function of the two levels:
neither is a variable.

### MountMonitor

A tick is `Observe` (the forecast of the last tick against what came) and `Control` (a
new reading). The e-process is kept as its logarithm in whole units, rates and shares
as percentages; a mild penalty is 30 % of a full one, as in the code. The median is
the middle of the sorted errors or the mean of the two middle ones, compared without
dividing. `Reload` changes the thresholds under a level reached with the old ones.

### DaemonPipeline

One program counter per thread. `Offer` is `send_scan_request`; `TakeStale` and `SendFresh`
are the two later steps of `enqueue_scan_request`, between which the scanner may take a
request. A pass is `Prescan` (everything before the walk, with its early exits),
`DispatchBatch`, `WalkEnd` and the flush; what is scanned is irrelevant here, a batch is
its size. `ReportTimedOut` is the one blocking send. Panics may happen anywhere;
`CheckWorkers` respawns or ends the loop. The times of `record_panic` are left out, so its
limit may or may not be reached at any panic. Shutdown is one step per statement of
`shutdown`: flag and senders, two joins with a time limit, the last event, the
sentinel, the join of the logger. Log events before shutdown only matter through what they
leave in the channel (`LogStopped`). The memory channel is in `BehaviorMode`, the
feedback channel in `IndexedScan`.

### DeletionExecutor

A path holds an object with an identity, a link or nothing, and any other process may
change it at any moment. A candidate passes preflight (`PreflightPass`), the second look of
`delete_path` (`DeletePath`), the removal and its confirmation. Policy, plan and content
checks are choices: `PolicyEngine` says which batches are approved. `RemovedIsScored`
excludes a swap after that second look (`swapped`), which no check by path can see;
with `require_identity` off (engine v1) it speaks about candidates that have an identity.

Every batch that gets past the breaker hands the tracker the cooldowns a reload may have
stored (`Proceed`, for `update_cooldowns`), before dampening and pruning use them.
`RepeatsAreSpaced` therefore measures a repetition by the pair in force when its batch is
received, and a run of deletions ends when a batch finds its last one older than the
maximum in force then. `outcomes` keeps what became of the candidates a batch tried, so
that `TripsAreEarned` can compare the count of failures with the failures themselves.

### ScannerIndex and IndexedScan

A context of the index is a set of items (what a request's roots hold) with the two backoff
settings: the fingerprint covers the roots and the whole scanner configuration, so that a
reload that changes the settings changes the context, and within a context they are fixed.

A pass scores twice, each time with records of its own. The shallow pre-scan (`PreScore`)
reaches the items of `Shallow` and records only what it would delete, the walk
(`ScoreItem`) records whatever it scores; `DispatchPriority` and `DispatchScored` hand over,
and `Persist` upserts the records of the pre-scan and then those of the walk. A record
carries, besides `evidence` (times and identity), its source, because `evidence_matches` also
compares size and prune decision, and these depend on who scored: the pre-scan takes a
directory for at least 100 MiB and knows no opaque trees. That a walk measures exactly what
the pre-scan assumed, and the two records match by chance, is left out. The mismatch costs
an item its backoff (run `index_backoff`); for items that only the walk reaches it holds
(`DeepBackoffHolds`).

`owed` is the backoff an item still has to sit out, restarted when its failure is applied and
dropped when the item changes or the index that knew of it is given up; `owed_saved` the
same for the checkpoint. Time makes both shorter. A checkpoint is written completely or
not at all (temporary file and rename), and may turn out unreadable after a restart.

### ScanTree, Traversal, WalkerPool

A directory can be marked, huge (more entries than the listing looks at), refused (configured
as protected, or unreadable), foreign (on another device, or without metadata), sealed or
opaque. An opaque child is reported by its parent after its metadata and device have
been looked at, and nothing else: it may be refused or marked, but not foreign. `MayReport`
and `MustReport` say which directories a walk is allowed and obliged to report.
`Traversal` is the contract in three lines;
`WalkerPool` implements it with `seen <- received`, the steps of the workers being
stutters. `LoopTop` to `Done` are `walker_thread`, `Enter` to `EmitSelf` are
`process_directory`, cut where another thread can notice. The contents of the channels
are sets, since a directory is queued and reported once. That needs roots that do not lie
within each other; the configuration allows such roots, and then directories are
walked twice and a marker found from the outer root races with the walk from the inner
one (the executor looks for markers above a candidate again). The depth limit is not
modelled: it makes the tree smaller.

### ScanCursor

A pass visits any set of entries `MayReport` allows without the excluded ones and ends by
running out of time or, once it has met all of `MustReport`, naturally. `met` collects what
the passes since the last clearing have seen between them.

## 3. Runs

| Run | Instance | What it shows |
|---|---|---|
| `policy` | three configurations: one that differs from the first in both recovery thresholds and the budget, one in the kill switch; four initial modes, Green and Orange, all guard diagnostics, limits of 2 ticks, one batch with a candidate of every kind; 262 230 states | barred batches delete nothing; escalation, grace and recovery are timed from what really happened, with thresholds lowered while they are waited for; at most two budgets in any hour; `FallbackSafe` is left |
| `ballast_files` | the daemon and one command, 2 files, 2 configurations that differ in count and size; 44 606 states | complete provisions, fresh reports, no torn files without a crash, the lock comes back |
| `behavior` | two memory levels and Unknown, three disk levels (one per class), intervals 0 and 2, a channel of 2; 39 968 states | spacing; lasting disk pressure is followed and releases ballast |
| `release` | one pool of 2 files, cooldowns 1 and 2, an interval of 2, levels Green, Yellow, Red, Critical; 19 154 states | cooldown and spacing across reload and restart; Critical empties, Green refills |
| `pressure` | seven readings around two sets of thresholds, good, bad and burst forecasts, a window of 4; 105 650 states | the level follows and settles; drift is caught and trust returns |
| `pipeline` | channels of 2, 1, 1 and 2, batches of 2, panics of every thread; 59 129 states | urgent requests, blocked reports, dead workers, reported drops, bounded shutdown |
| `executor` | two paths, two identities, batches of 3, a threshold of 2, a breaker cooldown of 1 up to 3, three pairs of repeat cooldowns up to 2, pruning at every batch; 1 677 286 states up to symmetry | identity; trips are earned and back off; repeats are spaced across reloads |
| `index` | two items, of which the deep one changes and the shallow one does not, three contexts that differ in items and settings, batches and a feedback channel of 1; 2 089 973 states | backoff of deep items through rescoring, lost feedback, restarts; nothing outside the roots |
| `walker` | eleven directories of all kinds, two of them roots (among them a protected opaque tree, one on another device, one that cannot be read), two workers, a result channel of 1; 182 778 states | exact count, refinement of `Traversal`, all workers end |

Three more runs each show a disagreement between the code and what a comment or the
repository's README says. The rows of `findings` in `PROJECT.json` quote both.

| Run | Disagreement |
|---|---|
| `index_review` | an entry that scored as Review comes back from the index as a deletion (`index.rs:286`) |
| `index_backoff` | a directory in backoff is handed over again, because pre-scan and walk do not recognise each other's records, and loses its backoff when they are stored (`index.rs:240`) |
| `cursor_resume` | a pass after a timed-out one skips subtrees that nobody has walked, and counts as complete (`loop_main.rs:3811`) |

Why the bounds are enough. Every limit is at least 2 ticks where a limit of 1 would let the
step after the start satisfy it; between them the configurations of `policy` change the kill
switch, both thresholds of the recovery and the budget (down to none), the fields its
properties read; the pool has a file that every configuration keeps and one that some
configuration prunes; two processes suffice because a third can only do to the lock and the
files what the second does; the channel of two has a full, a part-full and an empty state;
three disk levels cover the three classes of the table. In the other runs, a channel of one
is full as soon as it is used and a channel of two can be full with both kinds of request;
two workers suffice for one to leave, block or find a marker while the other adds work, and
the tree has each kind of directory below another; two paths let one candidate fail while
the other is removed, and with a threshold of 2 and batches of 3 a skip or a removal falls
between two failures; cooldowns have room for a doubling and the cap. The passes of
`index` hand over one item at a time; the theorems do not need that. In
`pressure` the minimal conservative share is 50 % (70 % in the code), so that in a window of
4 the evidence reacts before the window does, as it does in the code's window of 500. The
theorems below do not depend on the bounds. `BallastRelease` is checked with one pool: the
pools meet only in the walk over them, which asks a later pool less often, and the theorems
cover any number of them.

Only `walker` turns the deadlock check off, because a walk ends: `WorkersEnd` and the
fairness of `Traversal` say that it ends where it should. Elsewhere the clock, a stopped
process or the loop itself always has a step.

### Fairness

* `PolicyEngine`: the clock and the monitor's tick are weakly fair, because the loop
  never ends while the daemon runs and sleeps for a bounded time. Nothing obliges the
  executor or the operator to act.
* `BallastFiles`: a process inside an operation takes its next step (weak fairness) or is
  killed. Starting an operation is nobody's duty.
* `BehaviorMode`: loop, sampler and clock are weakly fair. A pressure check that fails is
  retried; it is assumed not to fail for ever (strong fairness of `ObserveDisk`).
* `BallastRelease`: ticks and the clock are weakly fair. A replenishment that is asked
  for again and again succeeds some time (strong fairness of `Replenish`): the code
  retries, and whether space allows it is up to the machine.

* `MountMonitor`: the two halves of a tick are weakly fair. `LevelSettles` and
  `TrustReturns` assume readings or forecasts that stay as they are, not fairness.
* `DaemonPipeline`: the monitor and the logger go on. There are finitely many special
  locations to offer a request for (strong fairness of `OffersDone`), a health check
  becomes due every ten seconds (`CheckWorkers`), and a pressure check does not fail for
  ever. A blocked send gets its turn when there is room again and again
  (`SendSentinel`, `ReportTimedOut`). Nothing is assumed of a scan or a removal: shutdown
  must end without them.
* `WalkerPool`: every worker and the scanner's loop are scheduled; breaking off is a
  choice. File system calls return.
* `DeletionExecutor`, `IndexedScan`, `ScanCursor`: only safety is checked.

## 4. Proofs

Every safety property that a passing run checks is a theorem, for every value of the
constants; so are the type invariants, some of which only the proofs state. Each proof
module states an inductive invariant, shows that `Init` implies it and every step keeps it,
and derives the theorems. `PROJECT.json` lists them. Each invariant was given to TLC on the
instance of its run before it was proved, so that its states are known to exist.

* `PolicyEngineProofs`. The engine's timers alone are not inductive enough for the
  action properties, which speak about what happened. `TimersAreTrue` relates them:
  the fallback age is at most the time since the mode became `FallbackSafe`, the clean
  count at most the clean windows since then, a cleared escalation marker means that the
  grace period is over. With `TypeOK` it is inductive; escalation, grace and recovery
  follow by cases on the step (`ModeChanges` says which operation can change the
  mode). `NoApprovalWhenBarred` rests on `GateShape`: after the gate of `evaluate`, a
  raised kill switch means `FallbackSafe`. `CanaryBudget` counts the approvals of the last
  `k` ticks for every `k` up to an hour, because the count of the whole hour is not
  inductive: `BudgetIsTrue` says that what lies within the engine's tumbling hour is at
  most its counter, and any longer stretch at most the counter and one largest budget; when
  the hour has run out the current tick has approved nothing yet, so the restart of the
  counter is covered too.
  Constants: `BoundAssumption`, `InputAssumption`, `BudgetAssumption` (some configuration
  has the largest budget).
* `BallastFilesProofs`. `IInv` is `TypeOK`, `HoldsLock` (inside a locked operation
  if and only if holder of the lock) and `Local(p)`: what process `p` has achieved at
  each point (files below the loop index valid, the file under its pen partial, the
  inventory fresh on return). Other processes keep `Local(p)` because without the
  lock they only prune, and pruning leaves the files of `Common` alone (`PruneKeeps`,
  `OthersKeep`). The restriction to `Common` is necessary: without it the prune of a
  starting command refutes the property (section 5). Constants: `ProcAssumption`,
  `ConfAssumption`.
* `BehaviorModeProofs`. `TimersAgree`: a direction's timer is at most the time since the
  last transition in that direction. Constants: `LevelAssumption`, `BoundAssumption`.
* `BallastReleaseProofs`. `TimersBehind`: the green timer started after the last release,
  and, when the time of the last replenishment is forgotten, after that too. The second
  part is what makes spacing survive a reload, at the price of a cooldown in place of an
  interval. Constants: `PoolAssumption`.
* `MountMonitorProofs`. `LevelIsNotBetter` is inductive with the types; the work is in the
  classification, a choice of the worst level whose floor the reading is under, with
  the hysteresis moving a floor the right way. `DriftIsCaught` needs `EvidenceFollows`
  (a run of bad forecasts has raised the evidence from the lower clamp by a mild penalty
  each, or to the upper clamp) and `CleanIsCounted` (a failing guard has not collected
  its good forecasts). The penalties are rounded as in the model; the proof uses no more
  of them than that a bad forecast costs at least the mild one. Constants:
  `MonitorAssumption`.
* `DaemonPipelineProofs`. Three parts that do not need each other: `RemovalsStop` (after
  the flag no removal follows the one under way, because the flag is read before each),
  `DropsAreCounted` (what the logger owes was counted when the sentinel was sent, and only
  the sentinel closes it) and `SwapHolds` (while a request is replaced, the channel is full
  or the scanner has taken from it). `UrgentIsQueued` is an action property and follows
  from the last. Constants: `CapAssumption`, `BoundAssumption`.
* `DeletionExecutorProofs`, executor. `LookHolds` (until somebody interferes, the path
  holds what `delete_path` saw) gives `RemovedIsScored`. `RowIsTrue` relates
  `consecutive` to the outcomes of the batch (as many failures at their end as counted, and
  before them something else) and gives `TripsAreEarned`. `BackoffIsTrue` identifies the
  cooldown that the breaker doubles in place with the closed form of the property, and a
  forgotten trip with one that was waited out; `GapsAreTracked` says that the tracker
  remembers a run of deletions as long as it lasts, which is what pruning must respect. It holds under whatever cooldowns a reload brings, since pruning and the end of
  a run look at the same pair (`PruningFollows`). The provers know nothing of `2 ^ n`; that it
  doubles, grows and exceeds `n` is proved from the number of subsets of `1 .. n`. Constants:
  `ExecutorAssumption`.
* `DeletionExecutorProofs`, index. The second part is about `IndexedScan` (whose
  specification is called `ScanSpec` so that one module can extend both), since the index
  doubles its cooldowns by the same arithmetic. `Right` says of
  the index in memory and of its checkpoint alike that they hold only items of their own
  context and know every backoff that a deep item owes under the evidence it has (`Kept`):
  all records of a deep item come from the walk (`Sound`), hence match. It needs
  `Bounded` (a cooldown is at most what its failures call for, under the settings of the
  context): a failure fed back for an item that is gone restarts the cooldown, and only then
  is the new one no shorter. `EarlyAgrees`, `FreshAgrees` and `PassAgrees` carry it through
  pre-scan, walk and the order in which `Persist` stores their records. Of shallow items
  nothing of the kind is true. Constants: `IndexAssumption`, `PassAssumption`.
* `WalkerPoolProofs`. The exact count follows by counting workers. The refinement needs
  a picture of the tree: a *token* is a directory nobody has looked into yet (queued, just
  received, or a child kept for later). Tokens of different owners never lie in each
  other's trees (`Apart`), nothing below one was reported or is being walked (`Ahead`),
  and while the pass is open everything that has to be reported is sent, being walked or
  below a token (`Covered`). When the channel ends naturally the count is zero, hence no
  token is left. `Path` is the least set closed under parents; that parents form no cycle
  follows from `TreeAssumption`, which says that every directory lies below a root and
  there are finitely many. `PoolWalks` states initial states and steps of `Traversal`; its
  fairness is left to TLC. Constants: `TreeAssumption`, `PoolAssumption`.

Only model-checked, because they need fairness: `FallbackIsLeft`, `LockIsReleased`,
`FollowsDisk`, `PressureReleases`, `CriticalEmptiesPool`, `GreenRefills`, `LevelSettles`,
`TrustReturns`, `ShutdownEnds`, `DeadWorkerIsNoticed`, `BlockedReportGetsThrough`,
`WorkersEnd` and the fairness in `ImplementsTraversal`. The runs that expect a
violation have nothing to prove.

## 5. Other divergences met while modelling

No run is spent on these; the models follow the code.

* `policy.rs:138` documents the kill switch as forcing `fallback_safe`; the clean-window
  recovery can leave that mode with the switch on, until the next `evaluate`.
* `README.md:1009` says that the engine never promotes itself; the emergency escalation
  goes to Enforce (`policy.rs:821`) from any earlier mode.
* `README.md:1013` describes a calibration breach as entering fallback; in the code it
  is advisory (`policy.rs:760`, test `calibration_breach_is_advisory_only`).
* `README.md:1003` caps Canary at 10 per hour; the hour is a tumbling one, so 20 may
  fall within an hour (`TwoBudgetsPerHour` is the bound that holds).
* `README.md:1130` says that only as many files are replenished as were released; the
  code counts what is missing.
* `loop_main.rs:2765` calls the rate limit of the release controller global; it is kept
  per mount.
* `loop_main.rs:2866` and `release.rs:99` release "all" on Critical; the behaviour cell
  may be deferred for an interval, and an inventory that is stale and empty releases
  nothing.

Policy, ballast, behaviour:

* `policy.rs:793` says "Don't escalate kill-switch fallbacks". The escalation looks at the
  reason of the fallback, which `update_config` (949-965) keeps when the switch is engaged
  during another one: the engine goes to Enforce with the switch on. The next
  `evaluate` goes back before it approves anything (`NoApprovalWhenBarred`).
* `README.md:1132` says that all ballast operations are serialised by `flock()`. Building a
  manager prunes and scans without it (`manager.rs:310`), so a command that starts under an
  edited configuration can delete files in the middle of the daemon's provision, whose
  report then has no error and misses files.
* The test at `loop_main.rs:6177` says "deferred escalation should apply after hysteresis".
  A deferred memory event is gone from the channel (1901) and nothing applies
  `pending_target`; the sampler sends nothing until the level changes.
* `release.rs:192-194` restarts the cooldown after more than three interruptions.
  `is_ready_for_replenish` is only called at Green (`loop_main.rs:2771`), so the count never
  moves, and the first green tick after a long spell can create a file.
* `README.md:1130` says that Green rebuilds released files. The Green arm looks at the
  manager's own inventory (`loop_main.rs:2767`): files released by `sbh ballast release` are
  not rebuilt until the daemon releases, reloads or restarts.

Monitor and pressure:

* `guardrails.rs:254` promises to detect drift within 10 to 15 bad observations; from full
  credit it takes 20 or more mild ones. `DriftIsCaught` states the bound that holds.
* The recovery of the guard counts single good observations (`guardrails.rs:359`), but the
  next observation revokes it while old bad ones still spoil the window: the status
  flaps until they have left. `TrustReturns` is about the end of it.
* `loop_main.rs:2594-2608` speaks of the previous tick's prediction; the field was already
  overwritten by this tick's.
* A mount whose statistics fail for a tick drops out of `check_pressure` (2485), so that the
  worst level can fall from Critical to that of another mount at once.
* A mount monitor built with prediction disabled keeps the default urgency boost until a
  reload (`loop_main.rs:783`).

Pipeline and executor:

* The comment at `loop_main.rs:5211` says that a timed-out pass still arms the pause between
  empty passes; a pre-scan that ran out of time, and passes that reached their target early,
  leave the pass before this code. A pass whose candidates met a full executor channel
  counts as empty.
* Exceeding the respawn limit ends the loop with `Ok`, hence exit status 0, while the
  unit restarts on failure only (`service.rs:454`).
* An urgent request is given up when the scanner empties the full channel between `try_send`
  and `try_recv` (`loop_main.rs:1317`); there is room then, and the next tick asks again.
  `UrgentIsQueued` names this exception.
* A pressure check that fails skips the draining of reports and the health check.
* The join of the logger has no time limit, unlike those of the workers.
* `README.md:1060` has the daemon wait 30 seconds after the breaker tripped. The cooldown,
  30 seconds at first, is doubled before its first use (`loop_main.rs:5661-5667`), so the first
  wait is 60 seconds; `TripsBackOff` states the wait the code keeps.
* `README.md:1078` starts the cooldown of a path after its second deletion. In the code the
  first deletion already counts as a cycle (`loop_main.rs:5289-5300`): the second one has to
  wait for the base value. `RepeatsAreSpaced` states it so.
* The breaker trips at the next candidate: as many failures as the threshold in the last
  places of a batch do not trip it. A path that is created again right after its removal
  counts as a failure. A respawn of the executor forgets breaker and dampening.
* The preflight list of sacred paths holds the configured patterns, not the built-in marker
  names: a marker that is created below a candidate after scoring is not noticed.

Scanner:

* `docs/scanner-redesign-event-driven.md` has records re-checked for freshness before use;
  the daemon never calls `freshness()` or `parent_discovery_valid()`.
* The context of the index is made from the paths of the request, and there is one
  checkpoint: requests that alternate between roots and special locations throw away
  each other's index and backoff.
* `loop_main.rs:4840` explains a time limit by a bounded work queue, which is unbounded now.
* `walker.rs:170` says that the walker skips protected paths. An opaque child is reported after
  its metadata and device were looked at, without `is_protected` (`walker.rs:588-614`), so
  a configured-protected or unreadable one is an entry like any other; the executor asks
  for protection again before it removes anything.
* A marker after the first 65 536 entries of a directory is not seen (`walker.rs:483`).
* When the executor's channel is gone the scanner leaves the walk without cancelling it
  (`loop_main.rs:5088`); the workers end because the receiver is dropped.

## 6. Plan

Done: all modules of section 2, their runs, and a theorem for each safety property. Next:

1. Links between modules that are now only stated: the diagnostics of `MountMonitor` lie in
   the set `Guards` that `PolicyEngine` takes as its input, and what `BehaviorMode`
   releases is what a tick of `BallastRelease` may do.
2. What `TrustReturns` and `LevelSettles` need of single ticks, as action theorems: their
   steps without the fairness.

## 7. Not modelled

* Scoring, pattern and protection rules, decision records, log truncation: sequential
  functions of one path with floating-point weights. What they decide is a free choice of
  `IndexedScan` and `DeletionExecutor`.
* Estimators, prediction and the scan scheduler: floating point; free inputs.
* The pause between empty scan passes, self-throttling, notifications, state file.
* Dashboard, command line and installers, service files, update, platform layers,
  configuration parsing: presentation, sequential scripts over external tools or system
  calls. They are more than two thirds of the source; together with the unit tests that
  the source files contain, they leave the modelled parts a small share of its lines.
  A model of them would restate the code without a question to ask of it.
