------------------------ MODULE BallastReleaseProofs ------------------------
(***************************************************************************)
(* Proofs about BallastRelease, for any pools, intervals and bounds.  The  *)
(* daemon waits for a whole cooldown after a release, and an interval or a *)
(* cooldown between two files, because its timers never run ahead of what  *)
(* happened: the green timer started after the last release, and, when the *)
(* time of the last replenishment is forgotten, after that too.            *)
(***************************************************************************)
EXTENDS BallastRelease, TLAPS

\* The timers of one pool against what happened to it.
Behind(q, h) ==
  /\ q.green_age <= h.release
  /\ q.replenish_age <= h.replenish
  /\ q.replenish_age = NoInstant => q.green_age <= h.replenish

TimersBehind == \A m \in Pools : Behind(pool[m], since[m])

IInv == TypeOK /\ TimersBehind /\ ReplenishAfterCooldown /\ ReplenishIsSpaced

SinceType == [release : 0 .. Cap, replenish : 0 .. Cap]

\* Small ages are ages.
LEMMA Ages == NoInstant \in NoInstant .. Cap /\ 0 \in NoInstant .. Cap /\ 0 \in 0 .. Cap
  BY PoolAssumption DEF NoInstant

\* Releasing changes only the inventory and the files of a pool, within what it
\* had, and drops its green timer.
LEMMA ReleaseKeeps ==
  ASSUME NEW ps \in [Pools -> PoolType], NEW m \in Targets, NEW l, NEW r
  PROVE  /\ Release(ps, m, l, r) \in [Pools -> PoolType]
         /\ \A n \in Pools :
              /\ Release(ps, m, l, r)[n].replenish_age = ps[n].replenish_age
              /\ \/ Release(ps, m, l, r)[n] = ps[n]
                 \/ Release(ps, m, l, r)[n].green_age = NoInstant
<1> DEFINE rel == Release(ps, m, l, r)
<1>1. CASE ~ (m # NoMount /\ FilesToRelease(ps[m], l, r) > 0)
  BY <1>1 DEF Release
<1>2. CASE m # NoMount /\ FilesToRelease(ps[m], l, r) > 0
  <2>1. m \in Pools
    BY <1>2 DEF Targets
  <2> DEFINE left == ps[m].files \ Highest(ps[m].inventory, FilesToRelease(ps[m], l, r))
  <2>2. rel = [ps EXCEPT ![m] = Released(ps[m], l, r)]
    BY <1>2, <2>1 DEF Release
  <2>3. Released(ps[m], l, r)
          = [ps[m] EXCEPT !.files = left, !.inventory = left, !.green_age = NoInstant]
    BY DEF Released
  <2>4. left \in SUBSET Indices /\ ps[m] \in PoolType
    BY <2>1 DEF PoolType
  <2> HIDE DEF left
  <2>5. /\ Released(ps[m], l, r) \in PoolType
        /\ Released(ps[m], l, r).replenish_age = ps[m].replenish_age
        /\ Released(ps[m], l, r).green_age = NoInstant
    <3> DEFINE q == ps[m]
    <3>1. q \in PoolType
      BY <2>4
    <3> HIDE DEF q
    <3>2. LET x == [q EXCEPT !.files = left, !.inventory = left, !.green_age = NoInstant]
          IN  x \in PoolType /\ x.replenish_age = q.replenish_age /\ x.green_age = NoInstant
      BY <2>4, <3>1, Ages DEF PoolType
    <3> QED BY <2>3, <3>2 DEF q
  <2> QED BY <2>1, <2>2, <2>5
<1> QED BY <1>1, <1>2

\* Asking a pool, and trying in vain, only starts a green timer that was not running.
LEMMA TriedKeeps ==
  ASSUME NEW q \in PoolType
  PROVE  /\ Asked(q) \in PoolType /\ Tried(q) \in PoolType
         /\ Tried(q).files = q.files /\ Asked(q).files = q.files
         /\ Tried(q).replenish_age = q.replenish_age /\ Asked(q).replenish_age = q.replenish_age
         /\ Tried(q).green_age = Asked(q).green_age
         /\ Asked(q).green_age = IF q.green_age = NoInstant THEN 0 ELSE q.green_age
<1>1. /\ Asked(q) \in PoolType /\ Asked(q).files = q.files
      /\ Asked(q).replenish_age = q.replenish_age
      /\ Asked(q).green_age = IF q.green_age = NoInstant THEN 0 ELSE q.green_age
  BY PoolAssumption DEF Asked, PoolType, NoInstant
<1>2. [Asked(q) EXCEPT !.inventory = q.files] \in PoolType
  BY <1>1 DEF PoolType
<1>3. /\ [Asked(q) EXCEPT !.inventory = q.files].files = q.files
      /\ [Asked(q) EXCEPT !.inventory = q.files].replenish_age = q.replenish_age
      /\ [Asked(q) EXCEPT !.inventory = q.files].green_age = Asked(q).green_age
  BY <1>1 DEF PoolType
<1> QED BY <1>1, <1>2, <1>3 DEF Tried

\* A replenishment keeps a pool well typed.
LEMMA ReplenishedKeeps ==
  ASSUME NEW q \in PoolType, NEW i \in Indices
  PROVE  /\ Replenished(q, i) \in PoolType
         /\ Replenished(q, i).replenish_age = 0
         /\ Replenished(q, i).green_age = Asked(q).green_age
<1>1. Asked(q) \in PoolType
  BY TriedKeeps
<1>2. Asked(q).files \cup {i} \in SUBSET Indices /\ q.files \cup {i} \in SUBSET Indices
  BY <1>1 DEF PoolType
<1>3. Replenished(q, i) = [Asked(q) EXCEPT !.files = Asked(q).files \cup {i},
                            !.inventory = q.files \cup {i}, !.replenish_age = 0]
  BY DEF Replenished
<1> DEFINE a == Asked(q)
           f == a.files \cup {i}
           v == q.files \cup {i}
<1> HIDE DEF a, f, v
<1>4. a \in PoolType /\ f \in SUBSET Indices /\ v \in SUBSET Indices
  BY <1>1, <1>2 DEF a, f, v
<1>5. LET x == [a EXCEPT !.files = f, !.inventory = v, !.replenish_age = 0]
      IN  x \in PoolType /\ x.replenish_age = 0 /\ x.green_age = a.green_age
  BY <1>4, Ages DEF PoolType
<1> QED BY <1>3, <1>5 DEF a, f, v

\* The timers of a pool stay behind what happened to it, whatever the daemon does.
LEMMA BehindAfter ==
  ASSUME NEW q \in PoolType, NEW h \in SinceType, Behind(q, h)
  PROVE  /\ Behind(Asked(q), h) /\ Behind(Tried(q), h)
         /\ \A i \in Indices : Behind(Replenished(q, i), [h EXCEPT !.replenish = 0])
         /\ IsReady(q) /\ cooldown \in Nat
              => h.release >= cooldown /\ h.replenish >= MinOf(Interval, cooldown)
<1>1. /\ q.green_age \in NoInstant .. Cap /\ q.replenish_age \in NoInstant .. Cap
      /\ h.release \in 0 .. Cap /\ h.replenish \in 0 .. Cap
  BY DEF PoolType, SinceType
<1>2. /\ Tried(q).replenish_age = q.replenish_age /\ Asked(q).replenish_age = q.replenish_age
      /\ Tried(q).green_age = Asked(q).green_age
      /\ Asked(q).green_age = IF q.green_age = NoInstant THEN 0 ELSE q.green_age
  BY TriedKeeps
<1>3. Behind(Asked(q), h) /\ Behind(Tried(q), h)
  BY <1>1, <1>2, PoolAssumption DEF Behind, NoInstant
<1>4. ASSUME NEW i \in Indices
      PROVE  Behind(Replenished(q, i), [h EXCEPT !.replenish = 0])
  <2>1. /\ Replenished(q, i).replenish_age = 0
        /\ Replenished(q, i).green_age = Asked(q).green_age
    BY ReplenishedKeeps
  <2>2. /\ [h EXCEPT !.replenish = 0].release = h.release
        /\ [h EXCEPT !.replenish = 0].replenish = 0
    BY DEF SinceType
  <2> QED BY <1>3, <2>1, <2>2 DEF Behind, NoInstant
<1>5. ASSUME IsReady(q), cooldown \in Nat
      PROVE  h.release >= cooldown /\ h.replenish >= MinOf(Interval, cooldown)
  BY <1>1, <1>2, <1>3, <1>5, PoolAssumption DEF IsReady, Behind, MinOf, NoInstant
<1> QED BY <1>3, <1>4, <1>5

\* Ageing keeps the order of two ages.
LEMMA OlderIsMonotone ==
  ASSUME NEW a \in NoInstant .. Cap, NEW b \in NoInstant .. Cap, a <= b
  PROVE  /\ Older(a) \in NoInstant .. Cap
         /\ Older(a) <= Older(b)
         /\ (a \in 0 .. Cap => Older(a) \in 0 .. Cap)
         /\ (Older(a) = NoInstant <=> a = NoInstant)
  BY PoolAssumption DEF Older, MinOf, NoInstant

\* A step that takes the pools from before to after by a release, and creates a file
\* on made, keeps the timers behind when they were so before it.
LEMMA TrackKeeps ==
  ASSUME TypeOK,
         NEW before \in [Pools -> PoolType], NEW made \in Targets,
         NEW m \in Targets, NEW l, NEW r,
         \A n \in Pools : Behind(before[n], IF n = made THEN [since[n] EXCEPT !.replenish = 0]
                                            ELSE since[n]),
         pool' = Release(before, m, l, r),
         Track(before, pool', made)
  PROVE  /\ pool' \in [Pools -> PoolType]
         /\ since' \in [Pools -> SinceType]
         /\ TimersBehind'
         /\ refill' \in [mount : Targets, waited : 0 .. Cap, spaced : 0 .. Cap]
<1>1. /\ pool' \in [Pools -> PoolType]
      /\ \A n \in Pools : /\ pool'[n].replenish_age = before[n].replenish_age
                          /\ pool'[n] = before[n] \/ pool'[n].green_age = NoInstant
  BY ReleaseKeeps
<1>2. since \in [Pools -> SinceType]
  BY DEF TypeOK, SinceType
<1>3. since' = [n \in Pools |->
                 [release |-> IF pool'[n].files # before[n].files THEN 0 ELSE since[n].release,
                  replenish |-> IF n = made THEN 0 ELSE since[n].replenish]]
  BY DEF Track
<1>4. ASSUME NEW n \in Pools
      PROVE  since'[n] \in SinceType /\ Behind(pool'[n], since'[n])
  <2>1. since[n].release \in 0 .. Cap /\ since[n].replenish \in 0 .. Cap
    BY <1>2 DEF SinceType
  <2>2. /\ since'[n].release = IF pool'[n].files # before[n].files THEN 0 ELSE since[n].release
        /\ since'[n].replenish = IF n = made THEN 0 ELSE since[n].replenish
        /\ since'[n] \in SinceType
    BY <1>3, <2>1, PoolAssumption DEF SinceType
  <2>3. /\ before[n].green_age <= since[n].release
        /\ before[n].replenish_age <= since'[n].replenish
        /\ before[n].replenish_age = NoInstant => before[n].green_age <= since'[n].replenish
    <3>1. CASE n = made
      <4>1. /\ [since[n] EXCEPT !.replenish = 0].release = since[n].release
            /\ [since[n] EXCEPT !.replenish = 0].replenish = 0
        BY <1>2 DEF SinceType
      <4> QED BY <3>1, <4>1, <2>2 DEF Behind
    <3>2. CASE n # made
      BY <3>2, <2>2 DEF Behind
    <3> QED BY <3>1, <3>2
  <2>4. since'[n].release \in 0 .. Cap /\ since'[n].replenish \in 0 .. Cap
    BY <2>2 DEF SinceType
  <2>5. CASE pool'[n] = before[n]
    <3>1. since'[n].release = since[n].release
      BY <2>2, <2>5
    <3> QED BY <2>2, <2>3, <2>5, <3>1 DEF Behind
  <2>6. CASE pool'[n].green_age = NoInstant
    BY <1>1, <2>2, <2>3, <2>4, <2>6 DEF Behind, NoInstant
  <2> QED BY <1>1, <2>2, <2>5, <2>6
<1>5. since' \in [Pools -> SinceType]
  BY <1>3, <1>4
<1>6. refill' \in [mount : Targets, waited : 0 .. Cap, spaced : 0 .. Cap]
  <2>1. CASE made = NoMount
    BY <2>1, PoolAssumption DEF Track, NoRefill, Targets
  <2>2. CASE made # NoMount
    <3>1. made \in Pools
      BY <2>2 DEF Targets
    <3>2. since[made].release \in 0 .. Cap /\ since[made].replenish \in 0 .. Cap
      BY <1>2, <3>1 DEF SinceType
    <3> QED BY <2>2, <3>2 DEF Track
  <2> QED BY <2>1, <2>2
<1> QED BY <1>1, <1>4, <1>5, <1>6 DEF TimersBehind

-----------------------------------------------------------------------------

\* The first state.
LEMMA InitHolds == Init => IInv
<1> SUFFICES ASSUME Init PROVE IInv
  OBVIOUS
<1>1. PICK made \in [Pools -> SUBSET Indices] :
        pool = [m \in Pools |-> [files |-> made[m], inventory |-> made[m],
                                green_age |-> NoInstant, replenish_age |-> NoInstant]]
  BY DEF Init
<1>2. since = [m \in Pools |-> [release |-> Cap, replenish |-> Cap]] /\ Cap \in 0 .. Cap
  BY PoolAssumption DEF Init
<1>3. pool \in [Pools -> PoolType] /\ since \in [Pools -> SinceType]
  BY <1>1, <1>2, Ages DEF PoolType, SinceType
<1>4. TypeOK
  BY <1>3, Ages DEF Init, TypeOK, SinceType, NoRefill, Targets
<1>5. TimersBehind
  BY <1>1, <1>2, PoolAssumption DEF TimersBehind, Behind, NoInstant
<1> QED BY <1>4, <1>5 DEF Init, IInv, ReplenishAfterCooldown, ReplenishIsSpaced, NoRefill

\* A step of the daemon without a new file, and a step of somebody else, leave the
\* record of the last file empty.
LEMMA NothingRefilled ==
  ASSUME refill' = NoRefill PROVE ReplenishAfterCooldown' /\ ReplenishIsSpaced'
  BY DEF ReplenishAfterCooldown, ReplenishIsSpaced, NoRefill

\* What a tick remembers of itself.
LEMMA TickedType ==
  ASSUME TypeOK, NEW l \in Levels \cup {Green}, NEW m \in Targets
  PROVE  Ticked(l, m) \in [level : Levels \cup {Green}, mount : Targets, odd : BOOLEAN]
  BY DEF TypeOK, Ticked

\* A green tick that creates nothing.
LEMMA GreenKeeps ==
  ASSUME IInv, NEW m \in Targets, NEW r, GreenTick(m, r) PROVE IInv'
<1>1. TypeOK /\ pool \in [Pools -> PoolType] /\ since \in [Pools -> SinceType]
  BY DEF IInv, TypeOK, SinceType
<1>2. WalkInVain(pool) \in [Pools -> PoolType]
  BY <1>1, TriedKeeps DEF WalkInVain
<1>3. \A n \in Pools : n # NoMount
  BY PoolAssumption DEF Pools
<1>4. ASSUME NEW n \in Pools
      PROVE  Behind(WalkInVain(pool)[n], since[n])
  BY <1>1, BehindAfter DEF WalkInVain, IInv, TimersBehind
<1>5. pool' = Release(WalkInVain(pool), m, Green, r) /\ Track(WalkInVain(pool), pool', NoMount)
  BY DEF GreenTick
<1>6. NoMount \in Targets
  BY DEF Targets
<1>7. /\ pool' \in [Pools -> PoolType] /\ since' \in [Pools -> SinceType] /\ TimersBehind'
      /\ refill' \in [mount : Targets, waited : 0 .. Cap, spaced : 0 .. Cap]
  <2> HIDE DEF GreenTick
  <2>1. \A n \in Pools : Behind(WalkInVain(pool)[n],
          IF n = NoMount THEN [since[n] EXCEPT !.replenish = 0] ELSE since[n])
    BY <1>3, <1>4
  <2> QED BY <1>1, <1>2, <1>5, <1>6, <2>1, TrackKeeps
<1>8. refill' = NoRefill
  BY <1>5 DEF Track
<1>9. TypeOK'
  BY <1>1, <1>7, TickedType DEF GreenTick, TypeOK, SinceType
<1> QED BY <1>7, <1>8, <1>9, NothingRefilled DEF IInv

\* A tick under pressure, with or without a release.
LEMMA PressureKeeps ==
  ASSUME IInv, NEW l \in Levels, NEW m \in Targets, NEW r,
         PressureTick(l, m, r) \/ SpecialLocation(l, m, r)
  PROVE  IInv'
<1>1. TypeOK /\ pool \in [Pools -> PoolType] /\ since \in [Pools -> SinceType]
  BY DEF IInv, TypeOK, SinceType
<1>2. pool' = Release(pool, m, l, r) /\ Track(pool, pool', NoMount) /\ cooldown' = cooldown
  BY DEF PressureTick, SpecialLocation
<1>3. tick' = tick \/ tick' = Ticked(l, m)
  BY DEF PressureTick, SpecialLocation
<1>4. \A n \in Pools : Behind(pool[n],
          IF n = NoMount THEN [since[n] EXCEPT !.replenish = 0] ELSE since[n])
  BY PoolAssumption DEF Pools, IInv, TimersBehind
<1>5. /\ pool' \in [Pools -> PoolType] /\ since' \in [Pools -> SinceType] /\ TimersBehind'
      /\ refill' \in [mount : Targets, waited : 0 .. Cap, spaced : 0 .. Cap]
  <2>1. NoMount \in Targets
    BY DEF Targets
  <2> QED BY <1>1, <1>2, <1>4, <2>1, TrackKeeps
<1>6. refill' = NoRefill
  BY <1>2 DEF Track
<1>7. TypeOK'
  BY <1>1, <1>2, <1>3, <1>5, TickedType DEF TypeOK, SinceType
<1> QED BY <1>5, <1>6, <1>7, NothingRefilled DEF IInv

\* A green tick that creates a file.
LEMMA ReplenishKeeps ==
  ASSUME IInv, NEW k \in Pools, NEW i \in Indices, NEW m \in Targets, NEW r,
         ReplenishTick(k, i, m, r)
  PROVE  IInv'
<1>1. TypeOK /\ pool \in [Pools -> PoolType] /\ since \in [Pools -> SinceType]
  BY DEF IInv, TypeOK, SinceType
<1> DEFINE walked == WalkTo(pool, k, i)
<1>2. walked \in [Pools -> PoolType]
  BY <1>1, TriedKeeps, ReplenishedKeeps DEF WalkTo
<1>3. ASSUME NEW n \in Pools
      PROVE  Behind(walked[n], IF n = k THEN [since[n] EXCEPT !.replenish = 0] ELSE since[n])
  <2>1. Behind(pool[n], since[n]) /\ pool[n] \in PoolType /\ since[n] \in SinceType
    BY <1>1 DEF IInv, TimersBehind
  <2>2. /\ Behind(Tried(pool[n]), since[n])
        /\ Behind(Replenished(pool[n], i), [since[n] EXCEPT !.replenish = 0])
    BY <2>1, BehindAfter
  <2> QED BY <2>1, <2>2 DEF WalkTo
<1>4. pool' = Release(walked, m, Green, r) /\ Track(walked, pool', k)
  BY DEF ReplenishTick
<1>5. k \in Targets /\ k # NoMount
  BY PoolAssumption DEF Targets, Pools
<1>6. /\ pool' \in [Pools -> PoolType] /\ since' \in [Pools -> SinceType] /\ TimersBehind'
      /\ refill' \in [mount : Targets, waited : 0 .. Cap, spaced : 0 .. Cap]
  <2> HIDE DEF walked
  <2> QED BY <1>1, <1>2, <1>3, <1>4, <1>5, TrackKeeps
<1>7. TypeOK'
  BY <1>1, <1>6, TickedType DEF ReplenishTick, TypeOK, SinceType
<1>8. since[k].release >= cooldown /\ since[k].replenish >= MinOf(Interval, cooldown)
  <2>1. /\ pool[k] \in PoolType /\ since[k] \in SinceType /\ Behind(pool[k], since[k])
        /\ IsReady(pool[k])
    BY <1>1 DEF IInv, TimersBehind, ReplenishTick
  <2>2. cooldown \in Nat
    BY <1>1, PoolAssumption DEF TypeOK
  <2> QED BY <2>1, <2>2, BehindAfter
<1>9. ReplenishAfterCooldown' /\ ReplenishIsSpaced'
  <2>1. refill' = [mount |-> k, waited |-> since[k].release, spaced |-> since[k].replenish]
    BY <1>4, <1>5 DEF Track
  <2>2. cooldown' = cooldown
    BY DEF ReplenishTick
  <2> QED BY <1>8, <2>1, <2>2 DEF ReplenishAfterCooldown, ReplenishIsSpaced, MinOf
<1> QED BY <1>6, <1>7, <1>9 DEF IInv

\* Forgotten timers are behind everything; files that come and go do not touch them.
LEMMA OperatorKeeps == ASSUME IInv, Operator PROVE IInv'
<1>1. TypeOK /\ pool \in [Pools -> PoolType] /\ since \in [Pools -> SinceType]
  BY DEF IInv, TypeOK, SinceType
<1>2. ASSUME NEW q \in PoolType, NEW f \in SUBSET Indices
      PROVE  /\ [q EXCEPT !.files = f] \in PoolType
             /\ [q EXCEPT !.files = f].green_age = q.green_age
             /\ [q EXCEPT !.files = f].replenish_age = q.replenish_age
  BY DEF PoolType
<1>3. ASSUME NEW q \in PoolType
      PROVE  /\ Forgotten(q) \in PoolType
             /\ Forgotten(q).green_age = NoInstant /\ Forgotten(q).replenish_age = NoInstant
  BY Ages DEF Forgotten, PoolType
<1>4. ASSUME NEW q \in PoolType, NEW h \in SinceType
      PROVE  Behind(Forgotten(q), h)
  BY <1>3, PoolAssumption DEF Behind, NoInstant, SinceType
<1>5. SUFFICES /\ pool' \in [Pools -> PoolType] /\ since' = since /\ tick' = tick
               /\ TimersBehind' /\ cooldown' \in Cooldowns /\ refill' = NoRefill
  BY <1>1, <1>5, NothingRefilled, Ages DEF IInv, TypeOK, NoRefill, Targets
<1>6. ASSUME NEW c \in Cooldowns, Reload(c)
      PROVE  /\ pool' \in [Pools -> PoolType] /\ since' = since /\ tick' = tick
             /\ TimersBehind' /\ cooldown' \in Cooldowns /\ refill' = NoRefill
  BY <1>1, <1>3, <1>4, <1>6 DEF Reload, TimersBehind
<1>7. ASSUME NEW made \in [Pools -> SUBSET Indices], Restart(made)
      PROVE  /\ pool' \in [Pools -> PoolType] /\ since' = since /\ tick' = tick
             /\ TimersBehind' /\ cooldown' \in Cooldowns /\ refill' = NoRefill
  <2>1. ASSUME NEW n \in Pools
        PROVE  [pool[n] EXCEPT !.files = pool[n].files \cup made[n]] \in PoolType
    BY <1>1, <1>2 DEF PoolType
  <2> QED BY <1>1, <1>3, <1>4, <1>7, <2>1 DEF Restart, TimersBehind, TypeOK
<1>8. ASSUME NEW m \in Pools, NEW f \in SUBSET Indices, pool' = [pool EXCEPT ![m].files = f],
             refill' = NoRefill, UNCHANGED <<cooldown, tick, since>>
      PROVE  /\ pool' \in [Pools -> PoolType] /\ since' = since /\ tick' = tick
             /\ TimersBehind' /\ cooldown' \in Cooldowns /\ refill' = NoRefill
  <2>1. pool' = [pool EXCEPT ![m] = [pool[m] EXCEPT !.files = f]]
    BY <1>1, <1>8
  <2>2. pool[m] \in PoolType
    BY <1>1
  <2> DEFINE new == [pool[m] EXCEPT !.files = f]
  <2>3. /\ new \in PoolType /\ new.green_age = pool[m].green_age
        /\ new.replenish_age = pool[m].replenish_age
    BY <1>2, <2>2
  <2> HIDE DEF new
  <2>4. pool' \in [Pools -> PoolType]
    BY <1>1, <2>1, <2>3 DEF new
  <2>5. \A n \in Pools : /\ pool'[n].green_age = pool[n].green_age
                        /\ pool'[n].replenish_age = pool[n].replenish_age
    BY <1>1, <2>1, <2>3 DEF new
  <2>6. TimersBehind'
    BY <1>8, <2>5 DEF TimersBehind, Behind, IInv
  <2> QED BY <1>1, <1>8, <2>4, <2>6 DEF TypeOK
<1>9. ASSUME NEW m \in Pools, NEW n \in Indices, CommandRelease(m, n)
      PROVE  \E f \in SUBSET Indices :
               /\ pool' = [pool EXCEPT ![m].files = f]
               /\ refill' = NoRefill /\ UNCHANGED <<cooldown, tick, since>>
  <2>1. pool[m].files \ Highest(pool[m].files, n) \in SUBSET Indices
    BY <1>1 DEF PoolType
  <2> QED BY <1>9, <2>1 DEF CommandRelease
<1>10. ASSUME NEW m \in Pools, NEW made \in SUBSET Indices, CommandProvision(m, made)
      PROVE  \E f \in SUBSET Indices :
               /\ pool' = [pool EXCEPT ![m].files = f]
               /\ refill' = NoRefill /\ UNCHANGED <<cooldown, tick, since>>
  <2>1. pool[m].files \cup made \in SUBSET Indices
    BY <1>1 DEF PoolType
  <2> QED BY <1>10, <2>1 DEF CommandProvision
<1> QED BY <1>6, <1>7, <1>8, <1>9, <1>10 DEF Operator

\* Time ages the timers and the history alike.
LEMMA TimeKeeps == ASSUME IInv, TimePasses PROVE IInv'
<1>1. TypeOK /\ pool \in [Pools -> PoolType] /\ since \in [Pools -> SinceType]
  BY DEF IInv, TypeOK, SinceType
<1>2. ASSUME NEW n \in Pools
      PROVE  pool'[n] \in PoolType /\ since'[n] \in SinceType /\ Behind(pool'[n], since'[n])
  <2> DEFINE q == pool[n]
             h == since[n]
  <2>1. /\ q \in PoolType /\ h \in SinceType /\ Behind(q, h)
        /\ pool'[n] = [q EXCEPT !.green_age = Older(q.green_age),
                               !.replenish_age = Older(q.replenish_age)]
        /\ since'[n] = [release |-> Older(h.release), replenish |-> Older(h.replenish)]
    BY <1>1 DEF IInv, TimersBehind, TimePasses
  <2> HIDE DEF q, h
  <2>2. /\ q.green_age \in NoInstant .. Cap /\ q.replenish_age \in NoInstant .. Cap
        /\ h.release \in 0 .. Cap /\ h.replenish \in 0 .. Cap
    BY <2>1 DEF PoolType, SinceType
  <2>3. h.release \in NoInstant .. Cap /\ h.replenish \in NoInstant .. Cap
    BY <2>2, PoolAssumption DEF NoInstant
  <2>4. /\ Older(q.green_age) \in NoInstant .. Cap /\ Older(q.replenish_age) \in NoInstant .. Cap
        /\ Older(h.release) \in 0 .. Cap /\ Older(h.replenish) \in 0 .. Cap
    BY <2>2, <2>3, OlderIsMonotone DEF NoInstant
  <2>5. /\ pool'[n] \in PoolType
        /\ pool'[n].green_age = Older(q.green_age)
        /\ pool'[n].replenish_age = Older(q.replenish_age)
    BY <2>1, <2>4 DEF PoolType
  <2>6. /\ since'[n] \in SinceType
        /\ since'[n].release = Older(h.release) /\ since'[n].replenish = Older(h.replenish)
    BY <2>1, <2>4 DEF SinceType
  <2>7. /\ Older(q.green_age) <= Older(h.release)
        /\ Older(q.replenish_age) <= Older(h.replenish)
        /\ Older(q.replenish_age) = NoInstant => Older(q.green_age) <= Older(h.replenish)
    <3>1. q.green_age <= h.release /\ q.replenish_age <= h.replenish
      BY <2>1 DEF Behind
    <3>2. Older(q.green_age) <= Older(h.release) /\ Older(q.replenish_age) <= Older(h.replenish)
      BY <3>1, <2>2, <2>3, OlderIsMonotone
    <3>3. Older(q.replenish_age) = NoInstant => q.replenish_age = NoInstant
      BY <3>1, <2>2, <2>3, OlderIsMonotone
    <3>4. q.replenish_age = NoInstant => Older(q.green_age) <= Older(h.replenish)
      BY <2>1, <2>2, <2>3, OlderIsMonotone DEF Behind
    <3> QED BY <3>2, <3>3, <3>4
  <2> QED BY <2>5, <2>6, <2>7 DEF Behind
<1>3. /\ pool' = [m \in Pools |-> [pool[m] EXCEPT !.green_age = Older(@), !.replenish_age = Older(@)]]
      /\ since' = [m \in Pools |-> [release |-> Older(since[m].release),
                                   replenish |-> Older(since[m].replenish)]]
  BY DEF TimePasses
<1>4. pool' \in [Pools -> PoolType] /\ since' \in [Pools -> SinceType]
  BY <1>2, <1>3
<1>5. TypeOK'
  BY <1>1, <1>4, Ages DEF TimePasses, TypeOK, SinceType, NoRefill, Targets
<1>6. TimersBehind'
  BY <1>2 DEF TimersBehind
<1> QED BY <1>5, <1>6, NothingRefilled DEF IInv, TimePasses

\* Every step keeps the invariant.
LEMMA NextHolds == IInv /\ [Next]_vars => IInv'
<1> SUFFICES ASSUME IInv, [Next]_vars PROVE IInv'
  OBVIOUS
<1>1. CASE Tick
  BY <1>1, GreenKeeps, PressureKeeps, ReplenishKeeps DEF Tick, Replenish
<1>2. CASE Special
  BY <1>2, PressureKeeps DEF Special, Targets
<1>3. CASE Operator
  BY <1>3, OperatorKeeps
<1>4. CASE TimePasses
  BY <1>4, TimeKeeps
<1>5. CASE UNCHANGED vars
  BY <1>5 DEF vars, IInv, TypeOK, TimersBehind, ReplenishAfterCooldown, ReplenishIsSpaced
<1> QED BY <1>1, <1>2, <1>3, <1>4, <1>5 DEF Next

\* The timers of the release controller never run ahead of what happened: IInv is an
\* invariant of the daemon, its operators and the clock.
THEOREM Inductive == Spec => []IInv
<1> QED BY InitHolds, NextHolds, PTL DEF Spec

\* The variables keep their types: files and inventories within the pool, ages within Cap.
THEOREM TypeCorrect == Spec => []TypeOK
<1>1. IInv => TypeOK
  BY DEF IInv
<1> QED BY <1>1, Inductive, PTL

\* is_ready_for_replenish lets no file be created within a cooldown of a release on
\* the same mount, across reloads, restarts and operators' commands.
THEOREM CooldownHolds == Spec => []ReplenishAfterCooldown
<1>1. IInv => ReplenishAfterCooldown
  BY DEF IInv
<1> QED BY <1>1, Inductive, PTL

\* Two files the daemon creates on a mount are an interval apart, or a cooldown when a
\* reload or a restart made it forget the first.
THEOREM SpacingHolds == Spec => []ReplenishIsSpaced
<1>1. IInv => ReplenishIsSpaced
  BY DEF IInv
<1> QED BY <1>1, Inductive, PTL

=============================================================================
