---------------------------- MODULE BehaviorMode ----------------------------
(***************************************************************************)
(* How the daemon chooses its behaviour cell (daemon/loop_main.rs,         *)
(* PressureBehaviorState, and the dispatch table of daemon/policy.rs).     *)
(* The cell is selected by two signals that arrive differently: the disk   *)
(* level is sampled on every tick of the monitor loop, the memory level    *)
(* comes from a sampler thread that sends an event only when the level     *)
(* changes, through a bounded channel.  Transitions are rate-limited per   *)
(* direction; a transition that comes too soon is deferred.                *)
(*                                                                         *)
(* An Instant is modelled by its age, which stops at Cap.  The mode field  *)
(* is always the table's cell for the two levels kept, and pending_target  *)
(* is only ever read to clear itself: neither is a variable.               *)
(***************************************************************************)
EXTENDS Integers, Sequences

CONSTANTS
  MemoryLevels,    \* levels the memory sampler reports
  DiskLevels,      \* levels the PID controller reports
  Hysteresis,      \* values of pressure.behavior_hysteresis_secs
  ChannelCap,      \* MEMORY_PRESSURE_CHANNEL_CAP
  Cap              \* bound on ages

NoInstant == -1
Green == 0
Yellow == 1
Orange == 2
Red == 3
Critical == 4

ASSUME LevelAssumption ==
  /\ MemoryLevels \subseteq {"Normal", "Warn", "Critical", "Unknown"}
  /\ DiskLevels \subseteq Green .. Critical

ASSUME BoundAssumption ==
  /\ Cap \in Nat
  /\ Hysteresis \subseteq 0 .. Cap
  /\ ChannelCap \in Nat

VARIABLES
  behavior,        \* PressureBehaviorState
  pc,              \* where the monitor loop is
  response,        \* disk level of the last pressure check
  hysteresis,      \* the configured interval
  memory,          \* the real memory level
  last_level,      \* the level the sampler thread last saw
  channel,         \* memory events not yet received
  since            \* history: ticks since the last applied transition, per direction

vars == <<behavior, pc, response, hysteresis, memory, last_level, channel, since>>

Directions == {"Escalating", "Recovering"}

MinOf(a, b) == IF a <= b THEN a ELSE b

(***************************************************************************)
(* The dispatch table.                                                     *)
(***************************************************************************)

\* from_memory_pressure and from_disk_pressure
MemoryClass(m) == CASE m = "Normal" -> 0 [] m \in {"Warn", "Unknown"} -> 1 [] m = "Critical" -> 2
DiskClass(d) == CASE d = Green -> 0 [] d \in {Yellow, Orange} -> 1 [] d \in {Red, Critical} -> 2

\* Mutant of ReleaseCells: disk pressure alone does not release.
ReleaseCellsWithMemory == { <<1, 1>>, <<1, 2>>, <<2, 1>>, <<2, 2>> }

\* DEFAULT_BEHAVIOR_CELLS: the cells in which ballast is released.
ReleaseCells == { <<0, 2>>, <<1, 1>>, <<1, 2>>, <<2, 1>>, <<2, 2>> }

Mode(b) == <<MemoryClass(b.memory), DiskClass(b.disk)>>
ReleasesBallast(b) == Mode(b) \in ReleaseCells

(***************************************************************************)
(* update_with_hysteresis                                                  *)
(***************************************************************************)

\* transition_direction: a transition that is not in one direction has none.
Direction(b, m, d) ==
  LET dm == MemoryClass(m) - MemoryClass(b.memory)
      dd == DiskClass(d) - DiskClass(b.disk)
  IN  CASE dm >= 0 /\ dd >= 0 /\ (dm > 0 \/ dd > 0) -> "Escalating"
        [] dm <= 0 /\ dd <= 0 /\ (dm < 0 \/ dd < 0) -> "Recovering"
        [] OTHER -> "None"

\* Mutant of TooSoon: one direction's timer is asked about the other direction.
TooSoonSwapped(b, dir, interval) ==
  LET other == IF dir = "Escalating" THEN "Recovering" ELSE "Escalating"
  IN  /\ interval > 0
      /\ b.at[other] # NoInstant
      /\ b.at[other] < interval

\* hysteresis_remaining
TooSoon(b, dir, interval) ==
  /\ interval > 0
  /\ b.at[dir] # NoInstant
  /\ b.at[dir] < interval

Applied(b, m, d) == [b EXCEPT !.memory = m, !.disk = d]

\* Mutant of Update: a deferred transition restarts the timer.
UpdateRestarting(b, m, d, interval) ==
  LET dir == Direction(b, m, d)
  IN  IF b.memory = m /\ b.disk = d THEN b
      ELSE IF dir = "None" THEN Applied(b, m, d)
      ELSE IF TooSoon(b, dir, interval) THEN [b EXCEPT !.at[dir] = 0]
      ELSE [Applied(b, m, d) EXCEPT !.at[dir] = 0]

Update(b, m, d, interval) ==
  LET dir == Direction(b, m, d)
  IN  IF b.memory = m /\ b.disk = d THEN b
      ELSE IF dir = "None" THEN Applied(b, m, d)
      ELSE IF TooSoon(b, dir, interval) THEN b
      ELSE [Applied(b, m, d) EXCEPT !.at[dir] = 0]

\* The direction of the step the behaviour state makes, for the history variable.
StepDirection == Direction(behavior, behavior'.memory, behavior'.disk)

Track == since' = [dir \in Directions |-> IF StepDirection = dir THEN 0 ELSE since[dir]]

UpdateBehaviorMode(m, d, interval) ==
  /\ behavior' = Update(behavior, m, d, interval)
  /\ Track

Goto(from, to) == pc = from /\ pc' = to

(***************************************************************************)
(* Startup: the seed bypasses the hysteresis, then the sampler starts.     *)
(***************************************************************************)
Seed(m, d) ==
  /\ Goto("seed", "subscribe")
  /\ UpdateBehaviorMode(m, d, 0)
  /\ UNCHANGED <<response, hysteresis, memory, last_level, channel>>

Subscribe ==
  /\ Goto("subscribe", "observe")
  /\ last_level' = memory
  /\ UNCHANGED <<behavior, response, hysteresis, memory, channel, since>>

(***************************************************************************)
(* The monitor loop: the disk update, every queued memory event, the       *)
(* pressure handler, and a sleep that wakes up for memory events.          *)
(***************************************************************************)
ObserveDisk(d) ==
  /\ Goto("observe", "drain")
  /\ response' = d
  /\ UpdateBehaviorMode(behavior.memory, d, hysteresis)
  /\ UNCHANGED <<hysteresis, memory, last_level, channel>>

\* check_pressure failed: sleep and retry.
ObserveFails ==
  /\ Goto("observe", "sleep")
  /\ UNCHANGED <<behavior, response, hysteresis, memory, last_level, channel, since>>

ReceiveEvent ==
  /\ pc \in {"drain", "sleep"}
  /\ channel # <<>>
  /\ UpdateBehaviorMode(Head(channel), response, hysteresis)
  /\ channel' = Tail(channel)
  /\ UNCHANGED <<pc, response, hysteresis, memory, last_level>>

DrainDone ==
  /\ Goto("drain", "handle")
  /\ channel = <<>>
  /\ UNCHANGED <<behavior, response, hysteresis, memory, last_level, channel, since>>

HandlePressure ==
  /\ Goto("handle", "sleep")
  /\ UNCHANGED <<behavior, response, hysteresis, memory, last_level, channel, since>>

WakeUp ==
  /\ Goto("sleep", "observe")
  /\ UNCHANGED <<behavior, response, hysteresis, memory, last_level, channel, since>>

\* A SIGHUP reload is handled at the top of the loop.
Reload(h) ==
  /\ pc = "observe"
  /\ h # hysteresis
  /\ hysteresis' = h
  /\ UNCHANGED <<behavior, pc, response, memory, last_level, channel, since>>

(***************************************************************************)
(* The sampler thread, the environment and the clock.                      *)
(***************************************************************************)
Sampling == pc \notin {"seed", "subscribe"}

\* Mutant of Sample: the channel has no bound.
SampleUnbounded ==
  /\ Sampling
  /\ memory # last_level
  /\ last_level' = memory
  /\ channel' = Append(channel, memory)
  /\ UNCHANGED <<behavior, pc, response, hysteresis, memory, since>>

\* Only a change is sent; try_send drops it when the channel is full.
Sample ==
  /\ Sampling
  /\ memory # last_level
  /\ last_level' = memory
  /\ channel' = IF Len(channel) < ChannelCap THEN Append(channel, memory) ELSE channel
  /\ UNCHANGED <<behavior, pc, response, hysteresis, memory, since>>

MemoryChanges(m) ==
  /\ m # memory
  /\ memory' = m
  /\ UNCHANGED <<behavior, pc, response, hysteresis, last_level, channel, since>>

Older(age) == IF age = NoInstant THEN age ELSE MinOf(age + 1, Cap)

TimePasses ==
  /\ behavior' = [behavior EXCEPT !.at = [dir \in Directions |-> Older(@[dir])]]
  /\ since' = [dir \in Directions |-> MinOf(since[dir] + 1, Cap)]
  /\ UNCHANGED <<pc, response, hysteresis, memory, last_level, channel>>

Init ==
  /\ behavior = [memory |-> "Unknown", disk |-> Green, at |-> [dir \in Directions |-> NoInstant]]
  /\ pc = "seed"
  /\ response = Green
  /\ hysteresis \in Hysteresis
  /\ memory \in MemoryLevels
  /\ last_level = memory
  /\ channel = <<>>
  /\ since = [dir \in Directions |-> Cap]

LoopStep ==
  \/ \E d \in DiskLevels : ObserveDisk(d)
  \/ ObserveFails
  \/ ReceiveEvent
  \/ DrainDone
  \/ HandlePressure
  \/ WakeUp

Next ==
  \/ \E m \in MemoryLevels \cup {"Unknown"}, d \in DiskLevels :
       m \in {memory, "Unknown"} /\ Seed(m, d)
  \/ Subscribe
  \/ LoopStep
  \/ \E h \in Hysteresis : Reload(h)
  \/ Sample
  \/ \E m \in MemoryLevels : MemoryChanges(m)
  \/ TimePasses

Spec == Init /\ [][Next]_vars

(***************************************************************************)
(* Fairness.  The monitor loop and the sampler thread keep running, time   *)
(* passes, and a pressure check that can succeed does not fail for ever.   *)
(***************************************************************************)
Fairness ==
  /\ WF_vars(LoopStep)
  /\ SF_vars(\E d \in DiskLevels : ObserveDisk(d))
  /\ WF_vars(\E m \in MemoryLevels, d \in DiskLevels : m = memory /\ Seed(m, d))
  /\ WF_vars(Subscribe)
  /\ WF_vars(Sample)
  /\ WF_vars(TimePasses)

FairSpec == Spec /\ Fairness

-----------------------------------------------------------------------------
(***************************************************************************)
(* Properties.                                                             *)
(***************************************************************************)

\* The types of the variables; the memory channel never exceeds its capacity.
TypeOK ==
  /\ behavior \in [memory : MemoryLevels \cup {"Unknown"}, disk : Green .. Critical,
                   at : [Directions -> NoInstant .. Cap]]
  /\ pc \in {"seed", "subscribe", "observe", "drain", "handle", "sleep"}
  /\ response \in Green .. Critical
  /\ hysteresis \in Hysteresis
  /\ memory \in MemoryLevels
  /\ last_level \in MemoryLevels
  /\ channel \in Seq(MemoryLevels) /\ Len(channel) <= ChannelCap
  /\ since \in [Directions -> 0 .. Cap]

\* Whatever mixture of disk ticks, memory events and reloads drives it, the cell
\* moves in one direction at most once per hysteresis interval.
SameDirectionIsSpaced ==
  [][Sampling => \A dir \in Directions : StepDirection = dir => since[dir] >= hysteresis]_vars

\* A disk level that lasts is acted on: deferral delays it but noise on the
\* memory signal can never postpone it for ever.
FollowsDisk ==
  \A d \in DiskLevels : <>[](response = d) => <>[](DiskClass(behavior.disk) = DiskClass(d))

\* Red and Critical that last end in a cell that releases ballast, whatever level the
\* memory signal is at or is believed to be at: deferral only ever costs time.
PressureReleases ==
  <>[](response \in {Red, Critical}) => <>[]ReleasesBallast(behavior)

=============================================================================
