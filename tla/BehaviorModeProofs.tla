------------------------- MODULE BehaviorModeProofs -------------------------
(***************************************************************************)
(* Proofs about BehaviorMode, for every hysteresis interval, channel size  *)
(* and set of levels.                                                      *)
(***************************************************************************)
EXTENDS BehaviorMode, TLAPS

\* The behaviour state keeps its type.
BehaviorType ==
  [memory : MemoryLevels \cup {"Unknown"}, disk : Green .. Critical,
   at : [Directions -> NoInstant .. Cap]]

\* The engine's timers never run ahead of what really happened: a direction that has
\* no timer has not been taken for as long as anyone can ask.
TimersAgree ==
  \A dir \in Directions :
    /\ behavior.at[dir] = NoInstant => since[dir] = Cap
    /\ behavior.at[dir] # NoInstant => behavior.at[dir] <= since[dir]

IInv == TypeOK /\ TimersAgree

-----------------------------------------------------------------------------
\* The constants the actions write are in the sets of TypeOK.
LEMMA Values ==
  /\ Cap \in Nat
  /\ \A h \in Hysteresis : h \in 0 .. Cap
  /\ \A d \in DiskLevels : d \in Green .. Critical
  /\ NoInstant \in NoInstant .. Cap /\ 0 \in NoInstant .. Cap /\ NoInstant # 0
BY LevelAssumption, BoundAssumption DEF NoInstant

\* A transition to the levels already held has no direction.
LEMMA NoMoveNoDirection ==
  ASSUME NEW b \in BehaviorType
  PROVE  Direction(b, b.memory, b.disk) = "None"
<1>1. MemoryClass(b.memory) \in Int
  <2>1. b.memory \in {"Normal", "Warn", "Critical", "Unknown"}
    BY LevelAssumption DEF BehaviorType
  <2> QED BY <2>1 DEF MemoryClass
<1>2. DiskClass(b.disk) \in Int
  BY DEF BehaviorType, DiskClass, Green, Yellow, Orange, Red, Critical
<1>3. \A x \in Int : x - x = 0
  OBVIOUS
<1>4. /\ MemoryClass(b.memory) - MemoryClass(b.memory) = 0
      /\ DiskClass(b.disk) - DiskClass(b.disk) = 0
  BY <1>1, <1>2, <1>3
<1> QED BY <1>4 DEF Direction

\* What update_with_hysteresis does: it stays, or it moves; a move in a direction
\* was not too soon, restarts that direction's timer and leaves the other one alone.
LEMMA UpdateSpec ==
  ASSUME NEW b \in BehaviorType, NEW m \in MemoryLevels \cup {"Unknown"},
         NEW d \in Green .. Critical, NEW interval \in Nat, NEW u, u = Update(b, m, d, interval)
  PROVE  /\ u \in BehaviorType
         /\ \A dir \in Directions :
              \/ Direction(b, u.memory, u.disk) # dir /\ u.at[dir] = b.at[dir]
              \/ ~TooSoon(b, dir, interval) /\ u.at[dir] = 0
<1> DEFINE e == Direction(b, m, d)
<1>0. /\ b.at \in [Directions -> NoInstant .. Cap]
      /\ Direction(b, b.memory, b.disk) = "None"
      /\ "None" \notin Directions
  BY NoMoveNoDirection DEF BehaviorType, Directions
<1>1. e \in Directions \cup {"None"}
  BY DEF Direction, Directions
<1>2. CASE u = b
  BY <1>0, <1>2
<1>3. CASE u = Applied(b, m, d) /\ e = "None"
  <2>1. u.memory = m /\ u.disk = d /\ u.at = b.at /\ u \in BehaviorType
    BY <1>3 DEF Applied, BehaviorType
  <2> QED BY <1>0, <1>3, <2>1
<1>4. CASE u = [Applied(b, m, d) EXCEPT !.at[e] = 0] /\ e \in Directions /\ ~TooSoon(b, e, interval)
  <2> HIDE DEF e
  <2>1. u = [memory |-> m, disk |-> d, at |-> [b.at EXCEPT ![e] = 0]]
    BY <1>4 DEF Applied, BehaviorType
  <2>2. [b.at EXCEPT ![e] = 0] \in [Directions -> NoInstant .. Cap]
    BY <1>0, Values
  <2>3. u.memory = m /\ u.disk = d /\ u.at = [b.at EXCEPT ![e] = 0] /\ u \in BehaviorType
    BY <2>1, <2>2 DEF BehaviorType
  <2>4. u.at[e] = 0 /\ \A dir \in Directions : dir # e => u.at[dir] = b.at[dir]
    BY <1>0, <1>4, <2>3
  <2>5. \A dir \in Directions : dir # e => Direction(b, u.memory, u.disk) # dir
    BY <2>3 DEF e
  <2> QED BY <1>4, <2>3, <2>4, <2>5
<1> QED
  <2> HIDE DEF e
  <2>1. \/ u = b
        \/ u = Applied(b, m, d) /\ e = "None"
        \/ u = [Applied(b, m, d) EXCEPT !.at[e] = 0] /\ e # "None" /\ ~TooSoon(b, e, interval)
    BY DEF Update, e
  <2> QED BY <1>1, <1>2, <1>3, <1>4, <2>1

-----------------------------------------------------------------------------
\* A call of update_behavior_mode keeps types and timers in step, and it moves in a
\* direction only when that direction's interval has run out.
LEMMA UpdateStep ==
  ASSUME IInv, NEW m \in MemoryLevels \cup {"Unknown"}, NEW d \in Green .. Critical,
         NEW interval \in 0 .. Cap, UpdateBehaviorMode(m, d, interval)
  PROVE  /\ behavior' \in BehaviorType
         /\ since' \in [Directions -> 0 .. Cap]
         /\ TimersAgree'
         /\ \A dir \in Directions : StepDirection = dir => since[dir] >= interval
<1>1. /\ behavior \in BehaviorType /\ since \in [Directions -> 0 .. Cap]
      /\ interval \in Nat /\ Cap \in Nat
  BY Values DEF IInv, TypeOK, BehaviorType
<1>2. behavior' \in BehaviorType
  BY <1>1, UpdateSpec DEF UpdateBehaviorMode
<1>3. \A dir \in Directions :
        \/ StepDirection # dir /\ behavior'.at[dir] = behavior.at[dir]
        \/ ~TooSoon(behavior, dir, interval) /\ behavior'.at[dir] = 0
  BY <1>1, UpdateSpec DEF UpdateBehaviorMode, StepDirection
<1>4. \A dir \in Directions : since'[dir] = IF StepDirection = dir THEN 0 ELSE since[dir]
  BY DEF UpdateBehaviorMode, Track
<1>5. since' \in [Directions -> 0 .. Cap]
  BY <1>1 DEF UpdateBehaviorMode, Track
<1> HIDE DEF StepDirection
<1>6. ASSUME NEW dir \in Directions, StepDirection = dir
      PROVE  since[dir] >= interval /\ behavior'.at[dir] = 0
  <2>1. ~TooSoon(behavior, dir, interval) /\ behavior'.at[dir] = 0
    BY <1>3, <1>6
  <2>2. behavior.at[dir] \in NoInstant .. Cap
    BY <1>1 DEF BehaviorType
  <2>3. since[dir] \in 0 .. Cap
    BY <1>1
  <2> QED BY <1>1, <2>1, <2>2, <2>3 DEF TooSoon, IInv, TimersAgree, NoInstant
<1>7. ASSUME NEW dir \in Directions, StepDirection # dir
      PROVE  /\ since'[dir] = since[dir]
             /\ behavior'.at[dir] = behavior.at[dir] \/ behavior'.at[dir] = 0
  BY <1>3, <1>4, <1>7
<1>8. ASSUME NEW dir \in Directions
      PROVE  /\ behavior'.at[dir] = NoInstant => since'[dir] = Cap
             /\ behavior'.at[dir] # NoInstant => behavior'.at[dir] <= since'[dir]
  <2>1. since'[dir] \in 0 .. Cap
    BY <1>5
  <2>2. CASE StepDirection = dir
    BY <1>4, <1>6, <2>1, <2>2 DEF NoInstant
  <2>3. CASE StepDirection # dir
    BY <1>7, <2>1, <2>3 DEF IInv, TimersAgree, NoInstant
  <2> QED BY <2>2, <2>3
<1>9. TimersAgree'
  BY <1>8 DEF TimersAgree
<1> QED BY <1>2, <1>5, <1>6, <1>9

\* Ageing keeps types and timers in step.
LEMMA AgeingStep ==
  ASSUME IInv, TimePasses
  PROVE  /\ behavior' \in BehaviorType
         /\ since' \in [Directions -> 0 .. Cap]
         /\ TimersAgree'
<1>1. /\ behavior \in BehaviorType /\ since \in [Directions -> 0 .. Cap] /\ Cap \in Nat
  BY Values DEF IInv, TypeOK, BehaviorType
<1>2. /\ behavior.at \in [Directions -> NoInstant .. Cap]
      /\ behavior' = [behavior EXCEPT !.at = [dir \in Directions |-> Older(behavior.at[dir])]]
  BY <1>1 DEF TimePasses, BehaviorType
<1>3. ASSUME NEW a \in NoInstant .. Cap
      PROVE  /\ Older(a) \in NoInstant .. Cap
             /\ Older(a) = NoInstant <=> a = NoInstant
             /\ \A x \in 0 .. Cap : /\ MinOf(x + 1, Cap) \in 0 .. Cap
                                    /\ x = Cap => MinOf(x + 1, Cap) = Cap
                                    /\ a # NoInstant /\ a <= x => Older(a) <= MinOf(x + 1, Cap)
  BY <1>1 DEF Older, MinOf, NoInstant
<1>4. [dir \in Directions |-> Older(behavior.at[dir])] \in [Directions -> NoInstant .. Cap]
  BY <1>2, <1>3
<1>5. behavior' \in BehaviorType
  BY <1>1, <1>2, <1>4 DEF BehaviorType
<1>6. \A dir \in Directions : behavior'.at[dir] = Older(behavior.at[dir])
  BY <1>1, <1>2 DEF BehaviorType
<1>7. \A dir \in Directions : since'[dir] = MinOf(since[dir] + 1, Cap)
  BY DEF TimePasses
<1>8. since' \in [Directions -> 0 .. Cap]
  <2>1. NoInstant \in NoInstant .. Cap
    BY Values
  <2> QED BY <1>1, <1>3, <2>1 DEF TimePasses
<1>9. TimersAgree'
  <2>1. ASSUME NEW dir \in Directions
        PROVE  /\ behavior'.at[dir] = NoInstant => since'[dir] = Cap
               /\ behavior'.at[dir] # NoInstant => behavior'.at[dir] <= since'[dir]
    <3>1. behavior.at[dir] \in NoInstant .. Cap /\ since[dir] \in 0 .. Cap
      BY <1>1, <1>2
    <3>2. /\ behavior.at[dir] = NoInstant => since[dir] = Cap
          /\ behavior.at[dir] # NoInstant => behavior.at[dir] <= since[dir]
      BY DEF IInv, TimersAgree
    <3> QED BY <1>3, <1>6, <1>7, <3>1, <3>2
  <2> QED BY <2>1 DEF TimersAgree
<1> QED BY <1>5, <1>8, <1>9

-----------------------------------------------------------------------------
\* The inductive invariant holds initially.
LEMMA InitInv == Init => IInv
<1> SUFFICES ASSUME Init PROVE IInv
  OBVIOUS
<1>1. [dir \in Directions |-> NoInstant] \in [Directions -> NoInstant .. Cap]
  BY Values
<1>2. TypeOK
  BY <1>1, Values, BoundAssumption DEF Init, TypeOK, Green, Critical
<1>3. TimersAgree
  BY DEF Init, TimersAgree
<1> QED BY <1>2, <1>3 DEF IInv

\* The arguments of update_behavior_mode are levels.
LEMMA Arguments ==
  ASSUME IInv
  PROVE  /\ behavior.memory \in MemoryLevels \cup {"Unknown"}
         /\ response \in Green .. Critical
         /\ hysteresis \in 0 .. Cap
         /\ channel # <<>> => Head(channel) \in MemoryLevels
         /\ 0 \in 0 .. Cap
BY Values DEF IInv, TypeOK

\* Every step preserves the inductive invariant, and outside startup it moves the
\* cell in a direction only when that direction's interval has run out.
LEMMA StepInv ==
  ASSUME IInv, [Next]_vars
  PROVE  /\ IInv'
         /\ Sampling => \A dir \in Directions : StepDirection = dir => since[dir] >= hysteresis
<1> DEFINE Goal == /\ IInv'
                   /\ Sampling => \A dir \in Directions :
                                     StepDirection = dir => since[dir] >= hysteresis
<1>0. /\ behavior \in BehaviorType
      /\ TypeOK /\ TimersAgree
  BY DEF IInv, TypeOK, BehaviorType
<1>1. ASSUME NEW m \in MemoryLevels \cup {"Unknown"}, NEW d \in DiskLevels, Seed(m, d)
      PROVE  Goal
  <2>1. /\ behavior' \in BehaviorType /\ since' \in [Directions -> 0 .. Cap] /\ TimersAgree'
    BY <1>1, UpdateStep, Arguments, Values DEF Seed
  <2>2. ~Sampling
    BY <1>1 DEF Seed, Goto, Sampling
  <2>3. TypeOK'
    BY <1>0, <1>1, <2>1 DEF Seed, Goto, TypeOK, BehaviorType
  <2> QED BY <2>1, <2>2, <2>3 DEF IInv
<1>2. ASSUME NEW d \in DiskLevels, ObserveDisk(d)
      PROVE  Goal
  <2>1. /\ behavior' \in BehaviorType /\ since' \in [Directions -> 0 .. Cap] /\ TimersAgree'
        /\ \A dir \in Directions : StepDirection = dir => since[dir] >= hysteresis
    BY <1>2, UpdateStep, Arguments, Values DEF ObserveDisk
  <2>2. TypeOK'
    BY <1>0, <1>2, <2>1, Values DEF ObserveDisk, Goto, TypeOK, BehaviorType
  <2> QED BY <2>1, <2>2 DEF IInv
<1>3. ASSUME ReceiveEvent
      PROVE  Goal
  <2>0. Head(channel) \in MemoryLevels
    BY <1>3, Arguments DEF ReceiveEvent
  <2>1. /\ behavior' \in BehaviorType /\ since' \in [Directions -> 0 .. Cap] /\ TimersAgree'
        /\ \A dir \in Directions : StepDirection = dir => since[dir] >= hysteresis
    BY <1>3, <2>0, UpdateStep, Arguments DEF ReceiveEvent
  <2>2. channel' \in Seq(MemoryLevels) /\ Len(channel') <= ChannelCap
    BY <1>0, <1>3, BoundAssumption DEF ReceiveEvent, TypeOK
  <2>3. TypeOK'
    BY <1>0, <1>3, <2>0, <2>1, <2>2 DEF ReceiveEvent, TypeOK, BehaviorType
  <2> QED BY <2>1, <2>3 DEF IInv
<1>4. ASSUME TimePasses
      PROVE  Goal
  <2>1. /\ behavior' \in BehaviorType /\ since' \in [Directions -> 0 .. Cap] /\ TimersAgree'
    BY <1>4, AgeingStep
  <2>2. behavior'.memory = behavior.memory /\ behavior'.disk = behavior.disk
    BY <1>0, <1>4 DEF TimePasses, BehaviorType
  <2>3. StepDirection = "None"
    BY <1>0, <2>2, NoMoveNoDirection DEF StepDirection
  <2>4. TypeOK'
    BY <1>0, <1>4, <2>1 DEF TimePasses, TypeOK, BehaviorType
  <2> QED BY <2>1, <2>3, <2>4 DEF IInv, Directions
<1>5. ASSUME \/ Subscribe \/ ObserveFails \/ DrainDone \/ HandlePressure \/ WakeUp
             \/ (\E h \in Hysteresis : Reload(h)) \/ Sample
             \/ (\E m \in MemoryLevels : MemoryChanges(m)) \/ UNCHANGED vars
      PROVE  Goal
  <2>1. behavior' = behavior /\ since' = since
    BY <1>5 DEF Subscribe, ObserveFails, DrainDone, HandlePressure, WakeUp, Reload, Sample,
                MemoryChanges, vars
  <2>2. StepDirection = "None"
    BY <1>0, <2>1, NoMoveNoDirection DEF StepDirection
  <2>3. channel' \in Seq(MemoryLevels) /\ Len(channel') <= ChannelCap
    <3>1. CASE Sample
      BY <1>0, <3>1, BoundAssumption DEF Sample, TypeOK
    <3>2. CASE channel' = channel
      BY <1>0, <3>2 DEF TypeOK
    <3> QED BY <1>5, <3>1, <3>2 DEF Subscribe, ObserveFails, DrainDone, HandlePressure, WakeUp,
                Reload, MemoryChanges, vars
  <2>4. TypeOK'
    BY <1>0, <1>5, <2>1, <2>3 DEF Subscribe, ObserveFails, DrainDone, HandlePressure, WakeUp,
                Reload, Sample, MemoryChanges, vars, Goto, TypeOK
  <2>5. TimersAgree'
    BY <1>0, <2>1 DEF TimersAgree
  <2> QED BY <2>2, <2>4, <2>5 DEF IInv, Directions
<1> QED BY <1>1, <1>2, <1>3, <1>4, <1>5 DEF Next, LoopStep

\* The inductive invariant holds throughout.
THEOREM Inductive == Spec => []IInv
<1>1. IInv /\ [Next]_vars => IInv'
  BY StepInv
<1> QED BY <1>1, InitInv, PTL DEF Spec

\* Types are kept whatever the two signals, the channel and reloads do.
THEOREM TypeCorrect == Spec => []TypeOK
<1>1. IInv => TypeOK
  BY DEF IInv
<1> QED BY <1>1, Inductive, PTL

\* The rate limit of PressureBehaviorState: for every interval, after startup no two
\* transitions in the same direction come closer together than the interval.
THEOREM SameDirectionSpaced == Spec => SameDirectionIsSpaced
<1> DEFINE Step == Sampling => \A dir \in Directions :
                                  StepDirection = dir => since[dir] >= hysteresis
<1>1. IInv /\ [Next]_vars => [Step]_vars
  BY StepInv
<1>2. Spec => [][Step]_vars
  BY <1>1, Inductive, PTL DEF Spec
<1> QED BY <1>2 DEF SameDirectionIsSpaced
=============================================================================
