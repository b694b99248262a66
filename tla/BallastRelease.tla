--------------------------- MODULE BallastRelease ---------------------------
(***************************************************************************)
(* The daemon's use of its ballast pools (ballast/release.rs, the ballast  *)
(* part of handle_pressure and of the special-location check in            *)
(* daemon/loop_main.rs, ballast/coordinator.rs): how many files a tick     *)
(* releases, and when a released file is created again.  Operators change  *)
(* the same pools with "sbh ballast", behind the daemon's back: it goes by *)
(* the inventory of its own last operation on the pool.                    *)
(*                                                                         *)
(* A pool's files are the set of indices that exist; BallastFiles has what *)
(* an operation does to them, file by file.  Instants are ages, stopped at *)
(* Cap.  A release whose lock cannot be taken changes nothing, like one    *)
(* the behaviour cell does not ask for; the unlink of a file that is there *)
(* succeeds.  The count of non-green interruptions is left out: it only    *)
(* changes in calls at another level than Green, which the daemon never    *)
(* makes.                                                                  *)
(***************************************************************************)
EXTENDS Integers, FiniteSets, Sequences

CONSTANTS
  Mounts,          \* the mounts with a pool, in the order of their paths
  Total,           \* configured file_count
  Cooldowns,       \* values of replenish_cooldown_minutes
  Interval,        \* the replenish_interval of the controller
  Levels,          \* pressure levels of a tick
  Recommended,     \* what the PID controller or the urgency asks for
  Cap              \* bound on ages

Green == 0
Yellow == 1
Orange == 2
Red == 3
Critical == 4
NoInstant == -1

NoMount == "none"

ASSUME PoolAssumption ==
  /\ \A i, j \in DOMAIN Mounts : Mounts[i] = Mounts[j] => i = j
  /\ NoMount \notin { Mounts[i] : i \in DOMAIN Mounts }
  /\ Total \in Nat /\ Cap \in Nat
  /\ Cooldowns \subseteq 0 .. Cap
  /\ Interval \in 0 .. Cap
  /\ Levels \subseteq Green .. Critical
  /\ Recommended \subseteq 0 .. Total

Indices == 1 .. Total
Pools == { Mounts[i] : i \in DOMAIN Mounts }

VARIABLES
  pool,            \* per mount: the files, the daemon's inventory, MountReleaseState
  cooldown,        \* replenish_cooldown of the controller
  tick,            \* the last tick: its level, the mount it asked to release on, its parity
  since,           \* history: ticks since the daemon last released and last replenished
  refill           \* history: where the tick just taken created a file, and since what

vars == <<pool, cooldown, tick, since, refill>>

NoRefill == [mount |-> NoMount, waited |-> 0, spaced |-> 0]

MinOf(a, b) == IF a <= b THEN a ELSE b
MaxOf(a, b) == IF a >= b THEN a ELSE b

(***************************************************************************)
(* files_to_release and release_ballast.                                   *)
(***************************************************************************)

\* Mutant of LevelFloor: Critical keeps one file back.
LevelFloorKeepingOne(level) ==
  CASE level = Critical -> MaxOf(Total - 1, 0) [] level = Red -> 3 [] level = Orange -> 1
    [] OTHER -> 0

LevelFloor(level) ==
  CASE level = Critical -> Total [] level = Red -> 3 [] level = Orange -> 1 [] OTHER -> 0

FilesToRelease(q, level, recommended) ==
  LET available == Cardinality(q.inventory)
      needed == MaxOf(recommended, LevelFloor(level)) - (Total - available)
  IN  MinOf(MaxOf(needed, 0), available)

Highest(s, n) == { i \in s : Cardinality({ j \in s : j > i }) < n }

\* Mutant of Released: the green timer is not restarted.
ReleasedGreenKept(q, level, recommended) ==
  LET left == q.files \ Highest(q.inventory, FilesToRelease(q, level, recommended))
  IN  [q EXCEPT !.files = left, !.inventory = left]

\* The pool after a release of FilesToRelease files: the highest indices of the
\* inventory are removed, the directory is scanned, the green timer restarts.
Released(q, level, recommended) ==
  LET left == q.files \ Highest(q.inventory, FilesToRelease(q, level, recommended))
  IN  [q EXCEPT !.files = left, !.inventory = left, !.green_age = NoInstant]

Release(ps, m, level, recommended) ==
  IF m # NoMount /\ FilesToRelease(ps[m], level, recommended) > 0
  THEN [ps EXCEPT ![m] = Released(@, level, recommended)]
  ELSE ps

(***************************************************************************)
(* is_ready_for_replenish at Green, and the walk over the pools: each one  *)
(* is asked in turn until one really gets a file.                          *)
(***************************************************************************)
Asked(q) == IF q.green_age = NoInstant THEN [q EXCEPT !.green_age = 0] ELSE q

\* Mutant of IsReady: the interval since the last replenishment is not looked at.
IsReadyAnyTime(q) ==
  /\ Asked(q).green_age >= cooldown
  /\ Cardinality(q.inventory) < Total

\* Mutant of IsReady: a pool that misses one file is taken for full.
IsReadyShortOfTwo(q) ==
  /\ Asked(q).green_age >= cooldown
  /\ Cardinality(q.inventory) + 1 < Total
  /\ q.replenish_age = NoInstant \/ q.replenish_age >= Interval

IsReady(q) ==
  /\ Asked(q).green_age >= cooldown
  /\ Cardinality(q.inventory) < Total
  /\ q.replenish_age = NoInstant \/ q.replenish_age >= Interval

\* replenish_one that creates nothing (nothing missing, too little space, an error)
\* still scans the directory.
Tried(q) == IF IsReady(q) THEN [Asked(q) EXCEPT !.inventory = q.files] ELSE Asked(q)

\* Mutant of Replenished: the file is named one index too low.
ReplenishedBelow(q, i) ==
  [Asked(q) EXCEPT !.files = @ \cup {i - 1}, !.inventory = q.files \cup {i - 1},
                   !.replenish_age = 0]

Replenished(q, i) ==
  [Asked(q) EXCEPT !.files = @ \cup {i}, !.inventory = q.files \cup {i}, !.replenish_age = 0]

Position(m) == CHOOSE k \in DOMAIN Mounts : Mounts[k] = m

\* The walk when no pool gets a file, and when file i is created on m.
WalkInVain(ps) == [m \in Pools |-> Tried(ps[m])]

WalkTo(ps, m, i) ==
  [n \in Pools |-> IF n = m THEN Replenished(ps[n], i)
                   ELSE IF Position(n) < Position(m) THEN Tried(ps[n]) ELSE ps[n]]

(***************************************************************************)
(* The ticks of the monitor loop: handle_pressure, and the check of the    *)
(* special locations, which asks for releases at a level of its own.       *)
(***************************************************************************)

\* Ticks alternate, so that each of them is a step.
Ticked(level, m) == [level |-> level, mount |-> m, odd |-> ~ tick.odd]

\* The history after a daemon step: a file went from before to after, one came on made.
Track(before, after, made) ==
  /\ since' = [m \in Pools |->
                 [release |-> IF after[m].files # before[m].files THEN 0 ELSE since[m].release,
                  replenish |-> IF m = made THEN 0 ELSE since[m].replenish]]
  /\ refill' = IF made = NoMount THEN NoRefill
               ELSE [mount |-> made, waited |-> since[made].release,
                     spaced |-> since[made].replenish]

\* Green, no file created.  An imminent-danger prediction releases on m all the same.
GreenTick(m, recommended) ==
  LET walked == WalkInVain(pool)
  IN  /\ tick' = Ticked(Green, m)
      /\ pool' = Release(walked, m, Green, recommended)
      /\ Track(walked, pool', NoMount)
      /\ UNCHANGED cooldown

\* Green, and file i is created on n.
ReplenishTick(n, i, m, recommended) ==
  LET walked == WalkTo(pool, n, i)
  IN  /\ IsReady(pool[n])
      /\ i \notin pool[n].files
      /\ tick' = Ticked(Green, m)
      /\ pool' = Release(walked, m, Green, recommended)
      /\ Track(walked, pool', n)
      /\ UNCHANGED cooldown

\* Yellow and worse: release on the causing mount, if the behaviour cell says so.
PressureTick(level, m, recommended) ==
  /\ level # Green
  /\ tick' = Ticked(level, m)
  /\ pool' = Release(pool, m, level, recommended)
  /\ Track(pool, pool', NoMount)
  /\ UNCHANGED cooldown

\* A special location short of space: Yellow, Orange or Red, released on its own
\* pool, or on the pool with most to give.
SpecialLocation(level, m, recommended) ==
  /\ level \in Yellow .. Red
  /\ pool' = Release(pool, m, level, recommended)
  /\ Track(pool, pool', NoMount)
  /\ UNCHANGED <<cooldown, tick>>

(***************************************************************************)
(* Reload, restart, the operator's commands and the clock.                 *)
(***************************************************************************)
Forgotten(q) == [q EXCEPT !.inventory = q.files, !.green_age = NoInstant,
                          !.replenish_age = NoInstant]

\* SIGHUP with a changed configuration: a new controller, rediscovered pools.
Reload(c) ==
  /\ cooldown' = c
  /\ pool' = [m \in Pools |-> Forgotten(pool[m])]
  /\ refill' = NoRefill
  /\ UNCHANGED <<tick, since>>

\* A restart provisions every pool, as far as space and errors allow.
Restart(made) ==
  /\ pool' = [m \in Pools |->
                Forgotten([pool[m] EXCEPT !.files = @ \cup made[m]])]
  /\ refill' = NoRefill
  /\ UNCHANGED <<cooldown, tick, since>>

\* "sbh ballast release n"
CommandRelease(m, n) ==
  /\ pool' = [pool EXCEPT ![m].files = @ \ Highest(@, n)]
  /\ refill' = NoRefill
  /\ UNCHANGED <<cooldown, tick, since>>

\* "sbh ballast provision" and "replenish": the missing files, or some of them.
CommandProvision(m, made) ==
  /\ pool' = [pool EXCEPT ![m].files = @ \cup made]
  /\ refill' = NoRefill
  /\ UNCHANGED <<cooldown, tick, since>>

Older(age) == IF age = NoInstant THEN age ELSE MinOf(age + 1, Cap)

TimePasses ==
  /\ pool' = [m \in Pools |-> [pool[m] EXCEPT !.green_age = Older(@), !.replenish_age = Older(@)]]
  /\ since' = [m \in Pools |-> [release |-> Older(since[m].release),
                                replenish |-> Older(since[m].replenish)]]
  /\ refill' = NoRefill
  /\ UNCHANGED <<cooldown, tick>>

\* The daemon has just provisioned its pools, as far as space and errors allowed.
Init ==
  /\ \E made \in [Pools -> SUBSET Indices] :
       pool = [m \in Pools |-> [files |-> made[m], inventory |-> made[m],
                                green_age |-> NoInstant, replenish_age |-> NoInstant]]
  /\ cooldown \in Cooldowns
  /\ tick = [level |-> Green, mount |-> NoMount, odd |-> FALSE]
  /\ since = [m \in Pools |-> [release |-> Cap, replenish |-> Cap]]
  /\ refill = NoRefill

Targets == Pools \cup {NoMount}

Replenish ==
  \E n \in Pools, i \in Indices, m \in Targets, r \in Recommended : ReplenishTick(n, i, m, r)

Tick ==
  \/ \E m \in Targets, r \in Recommended : GreenTick(m, r)
  \/ Replenish
  \/ \E level \in Levels, m \in Targets, r \in Recommended : PressureTick(level, m, r)

Operator ==
  \/ \E c \in Cooldowns : Reload(c)
  \/ \E made \in [Pools -> SUBSET Indices] : Restart(made)
  \/ \E m \in Pools, n \in Indices : CommandRelease(m, n)
  \/ \E m \in Pools, made \in SUBSET Indices : CommandProvision(m, made)

Special ==
  \E level \in Levels, m \in Pools, r \in Recommended : SpecialLocation(level, m, r)

Next == Tick \/ Special \/ Operator \/ TimePasses

Spec == Init /\ [][Next]_vars

\* The monitor loop keeps ticking, the clock runs, and a file that is asked for
\* again and again is created some day (space and the file system permitting).
FairSpec == Spec /\ WF_vars(Tick) /\ WF_vars(TimePasses) /\ SF_vars(Replenish)

-----------------------------------------------------------------------------
(***************************************************************************)
(* Properties.                                                             *)
(***************************************************************************)
PoolType == [files : SUBSET Indices, inventory : SUBSET Indices,
             green_age : NoInstant .. Cap, replenish_age : NoInstant .. Cap]

\* The types of the variables; ages stay within Cap and files within the pool.
TypeOK ==
  /\ pool \in [Pools -> PoolType]
  /\ cooldown \in Cooldowns
  /\ tick \in [level : Levels \cup {Green}, mount : Targets, odd : BOOLEAN]
  /\ since \in [Pools -> [release : 0 .. Cap, replenish : 0 .. Cap]]
  /\ refill \in [mount : Targets, waited : 0 .. Cap, spaced : 0 .. Cap]

\* Replenishment creates a file on a mount only when the daemon's last release there
\* is a whole cooldown ago (is_ready_for_replenish, on_released), across reloads and
\* restarts, which forget both timers.
ReplenishAfterCooldown ==
  refill.mount # NoMount => refill.waited >= cooldown

\* Two files that replenishment creates on one mount are replenish_interval apart, or,
\* when a reload or a restart made the daemon forget the first, a whole cooldown.
ReplenishIsSpaced ==
  refill.mount # NoMount => refill.spaced >= MinOf(Interval, cooldown)

\* Critical ticks on a mount leave no file there that the daemon knows of: its pool
\* does not stay as it is while they go on ("Always release all on Critical").
CriticalEmptiesPool ==
  \A m \in Pools, s \in SUBSET Indices \ {{}} :
    ~ <>[](/\ tick.level = Critical /\ tick.mount = m
           /\ pool[m].files = s /\ s \subseteq pool[m].inventory)

\* A pool that is short of files, and that the daemon knows to be, does not stay short
\* while it is left alone at Green (is_ready_for_replenish, replenish_one).
GreenRefills ==
  \A m \in Pools, s \in SUBSET Indices \ {Indices} :
    ~ <>[](/\ tick.level = Green /\ pool[m].green_age # NoInstant
           /\ pool[m].files = s /\ pool[m].inventory = s)

=============================================================================
