------------------------- MODULE BallastFilesProofs -------------------------
(***************************************************************************)
(* Proofs about BallastFiles, for every set of processes, every set of     *)
(* configurations and every pool size.                                     *)
(***************************************************************************)
EXTENDS BallastFiles, TLAPS

\* The flock: the processes inside a locked operation are exactly its holder.
HoldsLock == \A p \in Procs : pc[p] \in LockedPcs <=> lock = p

\* What a process inside an operation has achieved so far.
Local(p) ==
  /\ pc[p] \in {"prune", "check", "create", "write"} =>
        call[p].op \in {"provision", "replenish_one"}
  /\ pc[p] = "releasing" => call[p].op = "release"
  /\ pc[p] = "prune" => call[p].index = 1
  /\ pc[p] \in {"create", "write"} => call[p].index \in Configured(p)
  /\ pc[p] = "write" /\ call[p].index \in Common => disk[call[p].index] = Partial
  /\ pc[p] \in {"check", "create", "write"} /\ call[p].op = "provision" /\ ~call[p].errors =>
        \A i \in Common : i < call[p].index => Valid(p, i)
  /\ pc[p] \in {"rescan", "returning"} /\ call[p].op = "provision" /\ ~call[p].errors =>
        \A i \in Common : Valid(p, i)
  /\ pc[p] = "returning" => inventory[p] \cap Common = Present(p) \cap Common

IInv == TypeOK /\ HoldsLock /\ \A p \in Procs : Local(p)

-----------------------------------------------------------------------------
(***************************************************************************)
(* Type correctness.                                                       *)
(***************************************************************************)

\* The values the actions write are in the sets of TypeOK.
LEMMA Values ==
  /\ Absent \in Contents /\ Partial \in Contents
  /\ \A c \in Confs : c.size \in Contents /\ c.size # Partial /\ c.size # Absent
                      /\ c.count \in 0 .. MaxIndex
  /\ NoCall \in Calls
  /\ MaxIndex \in Nat
BY ConfAssumption DEF Contents, Absent, Partial, NoCall, Calls, Indices

\* A directory whose files all have legal contents keeps the history well typed.
LEMMA WriteType ==
  ASSUME TypeOK, NEW d \in [Indices -> Contents], NEW killed \in SUBSET Indices, Write(d, killed)
  PROVE  disk' \in [Indices -> Contents] /\ torn' \in SUBSET Indices
BY DEF Write, TypeOK

\* Pruning keeps the contents legal and never touches the common indices.
LEMMA PruneKeeps ==
  ASSUME TypeOK, NEW p \in Procs
  PROVE  /\ Pruned(p) \in [Indices -> Contents]
         /\ \A i \in Common : Pruned(p)[i] = disk[i]
<1>1. config[p] \in Confs /\ config[p].count \in 0 .. MaxIndex
  BY Values DEF TypeOK
<1>2. Pruned(p) \in [Indices -> Contents]
  BY Values DEF TypeOK, Pruned
<1>3. ASSUME NEW i \in Common
      PROVE  Pruned(p)[i] = disk[i]
  <2>1. i \in Indices /\ i <= config[p].count /\ i \in Int
    BY <1>1 DEF Common, Indices
  <2> QED BY <1>1, <2>1, Values DEF Pruned
<1> QED BY <1>2, <1>3

\* Every call record an action writes is a call.
LEMMA CallTypes ==
  ASSUME TypeOK, NEW c \in Calls, NEW i
  PROVE  /\ c.index <= MaxIndex => NextIndex(c) \in Calls
         /\ WithError(c) \in Calls /\ WithError(c).index = c.index
         /\ Removed(c, i) \in Calls
<1>1. c.index \in 1 .. MaxIndex + 1 /\ MaxIndex \in Nat
  BY Values DEF Calls
<1>2. c.index <= MaxIndex => c.index + 1 \in 1 .. MaxIndex + 1
  BY <1>1
<1>3. c.index <= MaxIndex => NextIndex(c) \in Calls
  BY <1>2 DEF Calls, NextIndex
<1>4. WithError(c) \in Calls /\ WithError(c).index = c.index
  BY DEF Calls, WithError
<1>5. Removed(c, i) \in Calls
  <2> DEFINE r == IF disk[i] = Absent THEN c.released ELSE c.released + 1
             e == c.errors \/ disk[i] = Absent
             v == c.victims \ {i}
  <2>1. r \in Nat /\ e \in BOOLEAN /\ v \in SUBSET Indices
    BY DEF Calls
  <2>2. Removed(c, i) = [c EXCEPT !.victims = v, !.released = r, !.errors = e]
    BY DEF Removed, Calls
  <2> HIDE DEF r, e, v
  <2> QED BY <2>1, <2>2 DEF Calls
<1> QED BY <1>3, <1>4, <1>5

\* Replacing one process's call keeps the table of calls well typed.
LEMMA CallUpdate ==
  ASSUME TypeOK, NEW p \in Procs, NEW c \in Calls, call' = [call EXCEPT ![p] = c]
  PROVE  /\ call' \in [Procs -> Calls]
         /\ call'[p] = c
         /\ \A q \in Procs : q # p => call'[q] = call[q]
BY DEF TypeOK

\* A change of program point keeps pc well typed and moves one process only.
LEMMA GotoType ==
  ASSUME TypeOK, NEW p \in Procs, NEW point \in Pcs, Goto(p, point)
  PROVE  /\ pc' \in [Procs -> Pcs]
         /\ pc'[p] = point
         /\ \A q \in Procs : q # p => pc'[q] = pc[q]
BY DEF Goto, TypeOK

\* Every action keeps the state well typed.
LEMMA StepType == IInv /\ [Next]_vars => TypeOK'
<1> SUFFICES ASSUME IInv, [Next]_vars PROVE TypeOK'
  OBVIOUS
<1> USE DEF IInv
<1>0. /\ \A point \in LockedPcs : point \in Pcs
      /\ "down" \in Pcs /\ "new_prune" \in Pcs /\ "new_scan" \in Pcs /\ "idle" \in Pcs
      /\ "check" \in Pcs /\ "create" \in Pcs /\ "write" \in Pcs /\ "rescan" \in Pcs
      /\ "returning" \in Pcs /\ "prune" \in Pcs /\ "releasing" \in Pcs
  BY DEF Pcs, LockedPcs
<1>1. ASSUME NEW p \in Procs, Start(p) \/ Reload(p)
      PROVE  TypeOK'
  <2>1. pc' \in [Procs -> Pcs]
    BY <1>0, <1>1, GotoType DEF Start, Reload
  <2>2. config' \in [Procs -> Confs]
    BY <1>1 DEF Start, Reload, TypeOK
  <2> QED BY <1>1, <2>1, <2>2 DEF Start, Reload, TypeOK
<1>2. ASSUME NEW p \in Procs, NewPrune(p) \/ Prune(p)
      PROVE  TypeOK'
  <2>1. pc' \in [Procs -> Pcs]
    BY <1>0, <1>2, GotoType DEF NewPrune, Prune
  <2>2. disk' \in [Indices -> Contents] /\ torn' \in SUBSET Indices
    BY <1>2, PruneKeeps, WriteType DEF NewPrune, Prune
  <2> QED BY <1>2, <2>1, <2>2 DEF NewPrune, Prune, TypeOK
<1>3. ASSUME NEW p \in Procs, NewScan(p) \/ Rescan(p)
      PROVE  TypeOK'
  <2>1. pc' \in [Procs -> Pcs]
    BY <1>0, <1>3, GotoType DEF NewScan, Rescan
  <2>2. Present(p) \subseteq Indices
    <3>1. config[p].count \in 0 .. MaxIndex
      BY Values DEF TypeOK
    <3> QED BY <3>1, Values DEF Present, Configured, Indices
  <2>3. inventory' \in [Procs -> SUBSET Indices]
    BY <1>3, <2>2 DEF NewScan, Rescan, TypeOK
  <2> QED BY <1>3, <2>1, <2>3 DEF NewScan, Rescan, TypeOK
<1>4. ASSUME NEW p \in Procs, NEW c \in Calls, AcquireLock(p, c)
      PROVE  lock' \in Procs \cup {NoProc} /\ call' \in [Procs -> Calls]
  BY <1>4, CallUpdate DEF AcquireLock
<1>5. ASSUME NEW p \in Procs, NEW o \in {"provision", "replenish_one"}, BeginProvision(p, o)
      PROVE  TypeOK'
  <2>1. pc' \in [Procs -> Pcs]
    BY <1>0, <1>5, GotoType DEF BeginProvision
  <2>2. [NoCall EXCEPT !.op = o] \in Calls
    BY Values DEF Calls
  <2>3. lock' \in Procs \cup {NoProc} /\ call' \in [Procs -> Calls]
    BY <1>4, <1>5, <2>2 DEF BeginProvision
  <2> QED BY <1>5, <2>1, <2>3 DEF BeginProvision, TypeOK
<1>6. ASSUME NEW p \in Procs, NEW n \in Indices, BeginRelease(p, n)
      PROVE  TypeOK'
  <2>1. pc' \in [Procs -> Pcs]
    BY <1>0, <1>6, GotoType DEF BeginRelease
  <2> DEFINE v == Highest(inventory[p], n)
  <2>2. v \in SUBSET Indices /\ n \in 0 .. MaxIndex
    BY Values DEF Highest, TypeOK, Indices
  <2> HIDE DEF v
  <2>3. [NoCall EXCEPT !.op = "release", !.want = n, !.victims = v] \in Calls
    BY <2>2, Values DEF Calls
  <2>4. lock' \in Procs \cup {NoProc} /\ call' \in [Procs -> Calls]
    BY <1>4, <1>6, <2>3 DEF BeginRelease, v
  <2> QED BY <1>6, <2>1, <2>4 DEF BeginRelease, TypeOK
<1>7. ASSUME NEW p \in Procs
      PROVE  /\ call[p].index \in Configured(p) => call[p].index <= MaxIndex
             /\ pc[p] \in {"create", "write"} => call[p].index <= MaxIndex
  <2>1. config[p].count \in 0 .. MaxIndex
    BY Values DEF TypeOK
  <2>2. call[p].index \in Configured(p) => call[p].index <= MaxIndex
    BY <2>1, Values DEF Configured
  <2> QED BY <2>2 DEF Local
<1>8. ASSUME NEW p \in Procs, SkipValid(p)
      PROVE  TypeOK'
  <2>1. call[p] \in Calls
    BY DEF TypeOK
  <2>2. call' \in [Procs -> Calls]
    BY <1>7, <1>8, <2>1, CallTypes, CallUpdate DEF SkipValid
  <2> QED BY <1>8, <2>2 DEF SkipValid, TypeOK
<1>9. ASSUME NEW p \in Procs, RemoveInvalid(p)
      PROVE  TypeOK'
  <2>1. pc' \in [Procs -> Pcs]
    BY <1>0, <1>9, GotoType DEF RemoveInvalid
  <2>2. [disk EXCEPT ![call[p].index] = Absent] \in [Indices -> Contents]
    BY Values DEF TypeOK
  <2>3. disk' \in [Indices -> Contents] /\ torn' \in SUBSET Indices
    BY <1>9, <2>2 DEF Write, TypeOK, RemoveInvalid
  <2> QED BY <1>9, <2>1, <2>3 DEF RemoveInvalid, TypeOK
<1>10. ASSUME NEW p \in Procs, LoopDone(p) \/ ReleaseDone(p)
       PROVE  TypeOK'
  <2>1. pc' \in [Procs -> Pcs]
    BY <1>0, <1>10, GotoType DEF LoopDone, ReleaseDone
  <2> QED BY <1>10, <2>1 DEF LoopDone, ReleaseDone, TypeOK
<1>11. ASSUME NEW p \in Procs, AbortLowSpace(p)
       PROVE  TypeOK'
  <2>1. pc' \in [Procs -> Pcs]
    BY <1>0, <1>11, GotoType DEF AbortLowSpace
  <2>2. call[p] \in Calls
    BY DEF TypeOK
  <2>3. call' \in [Procs -> Calls]
    BY <1>11, <2>2, CallTypes, CallUpdate DEF AbortLowSpace
  <2> QED BY <1>11, <2>1, <2>3 DEF AbortLowSpace, TypeOK
<1>12. ASSUME NEW p \in Procs, BeginWrite(p)
       PROVE  TypeOK'
  <2>1. pc' \in [Procs -> Pcs]
    BY <1>0, <1>12, GotoType DEF BeginWrite
  <2>2. [disk EXCEPT ![call[p].index] = Partial] \in [Indices -> Contents]
    BY Values DEF TypeOK
  <2>3. disk' \in [Indices -> Contents] /\ torn' \in SUBSET Indices
    BY <1>12, <2>2 DEF Write, TypeOK, BeginWrite
  <2> QED BY <1>12, <2>1, <2>3 DEF BeginWrite, TypeOK
<1>13. ASSUME NEW p \in Procs, FinishWrite(p)
       PROVE  TypeOK'
  <2> DEFINE d == [disk EXCEPT ![call[p].index] = IF @ = Partial THEN config[p].size ELSE @]
  <2>1. pc' \in [Procs -> Pcs]
    <3>1. (IF call[p].op = "replenish_one" THEN "rescan" ELSE "check") \in Pcs
      BY <1>0
    <3> QED BY <1>13, <3>1, GotoType DEF FinishWrite
  <2>2. d \in [Indices -> Contents]
    BY Values DEF TypeOK
  <2> HIDE DEF d
  <2>3. disk' \in [Indices -> Contents] /\ torn' \in SUBSET Indices
    BY <1>13, <2>2 DEF Write, TypeOK, FinishWrite, d
  <2>4. call[p] \in Calls
    BY DEF TypeOK
  <2>5. call' \in [Procs -> Calls]
    BY <1>7, <1>13, <2>4, CallTypes, CallUpdate DEF FinishWrite
  <2> QED BY <1>13, <2>1, <2>3, <2>5 DEF FinishWrite, TypeOK
<1>14. ASSUME NEW p \in Procs, FailWrite(p)
       PROVE  TypeOK'
  <2>1. pc' \in [Procs -> Pcs]
    BY <1>0, <1>14, GotoType DEF FailWrite
  <2>2. [disk EXCEPT ![call[p].index] = Absent] \in [Indices -> Contents]
    BY Values DEF TypeOK
  <2>3. disk' \in [Indices -> Contents] /\ torn' \in SUBSET Indices
    BY <1>14, <2>2 DEF Write, TypeOK, FailWrite
  <2>4. WithError(call[p]) \in Calls /\ WithError(call[p]).index = call[p].index
    <3>1. call[p] \in Calls
      BY DEF TypeOK
    <3> QED BY <3>1, CallTypes
  <2>5. call' \in [Procs -> Calls]
    BY <1>7, <1>14, <2>4, CallTypes, CallUpdate DEF FailWrite
  <2> QED BY <1>14, <2>1, <2>3, <2>5 DEF FailWrite, TypeOK
<1>15. ASSUME NEW p \in Procs, ReleaseOne(p)
       PROVE  TypeOK'
  <2> DEFINE i == Max(call[p].victims)
  <2>1. call[p] \in Calls
    BY DEF TypeOK
  <2>2. Removed(call[p], i) \in Calls
    BY <2>1, CallTypes
  <2>3. [disk EXCEPT ![i] = Absent] \in [Indices -> Contents]
    BY Values DEF TypeOK
  <2>4. disk' \in [Indices -> Contents] /\ torn' \in SUBSET Indices
    BY <1>15, <2>3 DEF Write, TypeOK, ReleaseOne
  <2>5. call' \in [Procs -> Calls]
    BY <1>15, <2>2, CallUpdate DEF ReleaseOne
  <2> QED BY <1>15, <2>4, <2>5 DEF ReleaseOne, TypeOK
<1>16. ASSUME NEW p \in Procs, Return(p)
       PROVE  TypeOK'
  <2>1. pc' \in [Procs -> Pcs]
    BY <1>0, <1>16, GotoType DEF Return
  <2>2. call' \in [Procs -> Calls]
    BY <1>16, Values, CallUpdate DEF Return
  <2> QED BY <1>16, <2>1, <2>2 DEF Return, TypeOK
<1>17. ASSUME NEW p \in Procs, Stop(p)
       PROVE  TypeOK'
  <2>1. pc' \in [Procs -> Pcs]
    BY <1>0, <1>17, GotoType DEF Stop
  <2>2. call' \in [Procs -> Calls] /\ inventory' \in [Procs -> SUBSET Indices]
    BY <1>17, Values, CallUpdate DEF Stop, TypeOK
  <2>3. pc[p] = "write" => call[p].index \in Indices
    <3>1. config[p].count \in 0 .. MaxIndex
      BY Values DEF TypeOK
    <3> QED BY <3>1, Values DEF Local, Configured, Indices
  <2>4. (IF pc[p] = "write" THEN {call[p].index} ELSE {}) \in SUBSET Indices
    BY <2>3
  <2>5. disk \in [Indices -> Contents]
    BY DEF TypeOK
  <2>6. disk' \in [Indices -> Contents] /\ torn' \in SUBSET Indices
    BY <1>17, <2>4, <2>5, WriteType DEF Stop
  <2>7. lock' \in Procs \cup {NoProc}
    BY <1>17 DEF Stop, TypeOK
  <2> QED BY <1>17, <2>1, <2>2, <2>6, <2>7 DEF Stop, TypeOK
<1>18. ASSUME NEW c \in Confs, EditConfig(c)
       PROVE  TypeOK'
  BY <1>18 DEF EditConfig, TypeOK
<1>19. CASE UNCHANGED vars
  BY <1>19 DEF vars, TypeOK
<1> QED BY <1>1, <1>2, <1>3, <1>5, <1>6, <1>8, <1>9, <1>10, <1>11, <1>12, <1>13, <1>14, <1>15,
          <1>16, <1>17, <1>18, <1>19 DEF Next, ProcStep, LockedStep

-----------------------------------------------------------------------------
(***************************************************************************)
(* The lock, and what one process's step leaves to the others.             *)
(***************************************************************************)

\* A step of p leaves the other processes alone, and unless p is inside a locked
\* operation it leaves the files every configuration keeps alone too.
Frame(p) ==
  /\ \A q \in Procs : q # p => /\ pc'[q] = pc[q]
                               /\ call'[q] = call[q]
                               /\ config'[q] = config[q]
                               /\ inventory'[q] = inventory[q]
  /\ pc[p] \in LockedPcs \/ \A i \in Common : disk'[i] = disk[i]

\* Every step of a process stays within its frame.
LEMMA StepFrame ==
  ASSUME IInv, NEW p \in Procs, ProcStep(p)
  PROVE  Frame(p)
<1>1. \A q \in Procs : q # p => pc'[q] = pc[q]
  <2> QED BY DEF IInv, TypeOK, ProcStep, LockedStep, Goto, Start, Reload, NewPrune, NewScan,
             BeginProvision, BeginRelease, Prune, SkipValid, RemoveInvalid, LoopDone,
             AbortLowSpace, BeginWrite, FinishWrite, FailWrite, ReleaseOne, ReleaseDone,
             Rescan, Return, Stop
<1>2. \A q \in Procs : q # p => call'[q] = call[q]
  <2> QED BY DEF IInv, TypeOK, ProcStep, LockedStep, Start, Reload, NewPrune, NewScan,
             BeginProvision, BeginRelease, AcquireLock, Prune, SkipValid, RemoveInvalid,
             LoopDone, AbortLowSpace, BeginWrite, FinishWrite, FailWrite, ReleaseOne,
             ReleaseDone, Rescan, Return, Stop
<1>3. \A q \in Procs : q # p => config'[q] = config[q] /\ inventory'[q] = inventory[q]
  <2> QED BY DEF IInv, TypeOK, ProcStep, LockedStep, Start, Reload, NewPrune, NewScan,
             BeginProvision, BeginRelease, Prune, SkipValid, RemoveInvalid, LoopDone,
             AbortLowSpace, BeginWrite, FinishWrite, FailWrite, ReleaseOne, ReleaseDone,
             Rescan, Return, Stop
<1>4. pc[p] \in LockedPcs \/ \A i \in Common : disk'[i] = disk[i]
  <2>1. CASE LockedStep(p)
    BY <2>1 DEF LockedPcs, LockedStep, Prune, SkipValid, RemoveInvalid, LoopDone,
             AbortLowSpace, BeginWrite, FinishWrite, FailWrite, ReleaseOne, ReleaseDone,
             Rescan, Return
  <2>2. CASE NewPrune(p)
    BY <2>2, PruneKeeps DEF IInv, NewPrune, Write
  <2>3. CASE Stop(p)
    BY <2>3 DEF Stop, Write
  <2>4. ASSUME \/ Start(p) \/ Reload(p) \/ NewScan(p)
               \/ \E o \in {"provision", "replenish_one"} : BeginProvision(p, o)
               \/ \E n \in Indices : BeginRelease(p, n)
        PROVE  disk' = disk
    BY <2>4 DEF Start, Reload, NewScan, BeginProvision, BeginRelease
  <2> QED BY <2>1, <2>2, <2>3, <2>4 DEF ProcStep
<1> QED BY <1>1, <1>2, <1>3, <1>4 DEF Frame

\* The flock excludes: after a step, too, exactly its holder is inside an operation.
LEMMA StepLock ==
  ASSUME IInv, NEW p \in Procs, ProcStep(p)
  PROVE  HoldsLock'
<1> USE DEF IInv
<1>1. \A q \in Procs : q # p => pc'[q] = pc[q]
  BY StepFrame DEF Frame
<1>2. \A q \in Procs : pc[q] \in LockedPcs <=> lock = q
  BY DEF HoldsLock
<1>3. CASE Start(p) \/ Reload(p) \/ NewPrune(p) \/ NewScan(p)
  <2>1. lock' = lock /\ pc[p] \notin LockedPcs /\ pc'[p] \notin LockedPcs
    BY <1>3 DEF Start, Reload, NewPrune, NewScan, Goto, LockedPcs, TypeOK
  <2> QED BY <1>1, <1>2, <2>1 DEF HoldsLock
<1>4. CASE \/ \E o \in {"provision", "replenish_one"} : BeginProvision(p, o)
           \/ \E n \in Indices : BeginRelease(p, n)
  <2>1. lock = NoProc /\ lock' = p /\ pc'[p] \in LockedPcs
    BY <1>4 DEF BeginProvision, BeginRelease, AcquireLock, Goto, LockedPcs, TypeOK
  <2> QED BY <1>1, <1>2, <2>1, ProcAssumption DEF HoldsLock
<1>5. CASE LockedStep(p) /\ ~Return(p)
  <2>1. lock' = lock /\ pc[p] \in LockedPcs
    BY <1>5 DEF LockedStep, LockedPcs, Prune, SkipValid, RemoveInvalid, LoopDone, AbortLowSpace,
             BeginWrite, FinishWrite, FailWrite, ReleaseOne, ReleaseDone, Rescan
  <2>2. pc'[p] \in LockedPcs
    BY <1>5 DEF LockedStep, LockedPcs, Prune, SkipValid, RemoveInvalid, LoopDone, AbortLowSpace,
             BeginWrite, FinishWrite, FailWrite, ReleaseOne, ReleaseDone, Rescan, Goto, TypeOK
  <2> QED BY <1>1, <1>2, <2>1, <2>2 DEF HoldsLock
<1>6. CASE Return(p)
  <2>1. lock' = NoProc /\ pc[p] \in LockedPcs /\ pc'[p] \notin LockedPcs
    BY <1>6 DEF Return, Goto, LockedPcs, TypeOK
  <2> QED BY <1>1, <1>2, <2>1, ProcAssumption DEF HoldsLock
<1>7. CASE Stop(p)
  <2>1. lock' = (IF lock = p THEN NoProc ELSE lock) /\ pc'[p] \notin LockedPcs
    BY <1>7 DEF Stop, Goto, LockedPcs, TypeOK
  <2> QED BY <1>1, <1>2, <2>1, ProcAssumption DEF HoldsLock
<1> QED BY <1>3, <1>4, <1>5, <1>6, <1>7 DEF ProcStep

\* Whoever is inside an operation is not disturbed by a step of another process.
LEMMA OthersKeep ==
  ASSUME IInv, NEW p \in Procs, ProcStep(p), NEW q \in Procs, q # p
  PROVE  Local(q)'
<1>1. /\ pc'[q] = pc[q] /\ call'[q] = call[q]
      /\ config'[q] = config[q] /\ inventory'[q] = inventory[q]
  BY StepFrame DEF Frame
<1>2. CASE pc[q] \notin LockedPcs
  BY <1>1, <1>2 DEF Local, LockedPcs
<1>3. CASE pc[q] \in LockedPcs
  <2>1. pc[p] \notin LockedPcs
    BY <1>3 DEF IInv, HoldsLock
  <2>2. \A i \in Common : disk'[i] = disk[i]
    BY <2>1, StepFrame DEF Frame
  <2>3. Present(q)' \cap Common = Present(q) \cap Common
    BY <1>1, <2>2 DEF Present, Configured
  <2>4. \A i \in Common : Valid(q, i)' <=> Valid(q, i)
    BY <1>1, <2>2 DEF Valid
  <2>5. Configured(q)' = Configured(q)
    BY <1>1 DEF Configured
  <2>6. Local(q)
    BY DEF IInv
  <2> HIDE DEF Present, Valid, Configured
  <2> QED BY <1>1, <2>2, <2>3, <2>4, <2>5, <2>6 DEF Local
<1> QED BY <1>2, <1>3

-----------------------------------------------------------------------------
(***************************************************************************)
(* The process that moves: one lemma per part of an operation.             *)
(***************************************************************************)

\* Outside a locked operation nothing is promised.
LEMMA SelfOutside ==
  ASSUME IInv, NEW p \in Procs,
         Start(p) \/ Reload(p) \/ NewPrune(p) \/ NewScan(p) \/ Return(p) \/ Stop(p)
  PROVE  Local(p)'
<1>1. pc'[p] \notin LockedPcs
  BY DEF IInv, TypeOK, Start, Reload, NewPrune, NewScan, Return, Stop, Goto, LockedPcs
<1> QED BY <1>1 DEF Local, LockedPcs

\* Taking the lock sets the loop up.
LEMMA SelfBegin ==
  ASSUME IInv, NEW p \in Procs,
         \/ \E o \in {"provision", "replenish_one"} : BeginProvision(p, o)
         \/ \E n \in Indices : BeginRelease(p, n)
  PROVE  Local(p)'
<1>1. CASE \E o \in {"provision", "replenish_one"} : BeginProvision(p, o)
  <2>1. PICK o \in {"provision", "replenish_one"} : BeginProvision(p, o)
    BY <1>1
  <2>2. pc'[p] = "prune" /\ call'[p] = [NoCall EXCEPT !.op = o]
    BY <2>1 DEF IInv, TypeOK, BeginProvision, AcquireLock, Goto
  <2>3. call'[p].op = o /\ call'[p].index = 1
    BY <2>2 DEF NoCall
  <2> QED BY <2>2, <2>3 DEF Local
<1>2. CASE \E n \in Indices : BeginRelease(p, n)
  <2>1. PICK n \in Indices : BeginRelease(p, n)
    BY <1>2
  <2>2. /\ pc'[p] = "releasing"
        /\ call'[p] = [NoCall EXCEPT !.op = "release", !.want = n,
                                     !.victims = Highest(inventory[p], n)]
    BY <2>1 DEF IInv, TypeOK, BeginRelease, AcquireLock, Goto
  <2>3. call'[p].op = "release"
    BY <2>2 DEF NoCall
  <2> QED BY <2>2, <2>3 DEF Local
<1> QED BY <1>1, <1>2

\* What the loop's arithmetic needs to know of the process.
LEMMA SelfTypes ==
  ASSUME IInv, NEW p \in Procs
  PROVE  /\ call[p] \in Calls /\ call[p].index \in Nat /\ call[p].index >= 1
         /\ config[p] \in Confs /\ config[p].count \in Nat
         /\ disk \in [Indices -> Contents]
         /\ \A i \in Common : i \in Indices /\ i \in Nat /\ i \in Configured(p)
         /\ NextIndex(call[p]).index = call[p].index + 1
         /\ NextIndex(call[p]).op = call[p].op
         /\ NextIndex(call[p]).errors = call[p].errors
         /\ WithError(call[p]).errors = TRUE
         /\ WithError(call[p]).op = call[p].op
<1>1. call[p] \in Calls /\ config[p] \in Confs /\ disk \in [Indices -> Contents]
  BY DEF IInv, TypeOK
<1>2. call[p].index \in Nat /\ call[p].index >= 1
  BY <1>1, Values DEF Calls
<1>3. config[p].count \in Nat
  BY <1>1, Values
<1>4. \A i \in Common : i \in Indices /\ i \in Nat /\ i \in Configured(p)
  BY <1>1, <1>3, Values DEF Common, Indices, Configured
<1>5. /\ NextIndex(call[p]).index = call[p].index + 1
      /\ NextIndex(call[p]).op = call[p].op
      /\ NextIndex(call[p]).errors = call[p].errors
      /\ WithError(call[p]).errors = TRUE
      /\ WithError(call[p]).op = call[p].op
  BY <1>1 DEF NextIndex, WithError, Calls
<1> QED BY <1>1, <1>2, <1>3, <1>4, <1>5

\* The loop of provision and replenish_one establishes the files one by one.
LEMMA SelfLoop ==
  ASSUME IInv, NEW p \in Procs,
         Prune(p) \/ SkipValid(p) \/ RemoveInvalid(p) \/ LoopDone(p)
  PROVE  Local(p)'
<1> DEFINE c == call[p]
<1>0. Local(p)
  BY DEF IInv
<1>t. /\ c.index \in Nat /\ c.index >= 1 /\ config[p].count \in Nat
      /\ disk \in [Indices -> Contents]
      /\ \A i \in Common : i \in Indices /\ i \in Nat /\ i \in Configured(p)
  BY SelfTypes
<1>1. CASE Prune(p)
  <2>1. pc[p] = "prune" /\ pc'[p] = "check" /\ call'[p] = c
    BY <1>1 DEF IInv, TypeOK, Prune, Goto
  <2>2. c.index = 1 /\ c.op \in {"provision", "replenish_one"}
    BY <1>0, <2>1 DEF Local
  <2>3. \A i \in Common : ~(i < 1)
    BY SelfTypes DEF Common, Indices
  <2> QED BY <2>1, <2>2, <2>3 DEF Local
<1>2. CASE SkipValid(p)
  <2>1. /\ pc[p] = "check" /\ pc'[p] = "check"
        /\ disk' = disk /\ config' = config
        /\ Valid(p, c.index)
        /\ call'[p] = NextIndex(c)
    BY <1>2 DEF IInv, TypeOK, SkipValid
  <2>2. c.op = "provision" /\ ~c.errors =>
          \A i \in Common : i < c.index + 1 => Valid(p, i)
    <3>1. \A i \in Common : i < c.index + 1 => i < c.index \/ i = c.index
      BY <1>t
    <3> QED BY <1>0, <2>1, <3>1 DEF Local
  <2>3. \A i \in Common : Valid(p, i)' <=> Valid(p, i)
    BY <2>1 DEF Valid
  <2>4. c.op \in {"provision", "replenish_one"}
    BY <1>0, <2>1 DEF Local
  <2> QED BY <2>1, <2>2, <2>3, <2>4, SelfTypes DEF Local
<1>3. CASE RemoveInvalid(p)
  <2>1. /\ pc[p] = "check" /\ pc'[p] = "create"
        /\ disk' = [disk EXCEPT ![c.index] = Absent]
        /\ config' = config /\ call' = call /\ c.index \in Configured(p)
    BY <1>3 DEF IInv, TypeOK, RemoveInvalid, Goto, Write
  <2>2. \A i \in Common : i < c.index => (Valid(p, i)' <=> Valid(p, i))
    BY <2>1, <1>t DEF Valid
  <2>3. Configured(p)' = Configured(p)
    BY <2>1 DEF Configured
  <2> QED BY <1>0, <2>1, <2>2, <2>3 DEF Local
<1>4. CASE LoopDone(p)
  <2>1. /\ pc[p] = "check" /\ pc'[p] = "rescan" /\ c.index \notin Configured(p)
        /\ disk' = disk /\ config' = config /\ call' = call
    BY <1>4 DEF IInv, TypeOK, LoopDone, Goto
  <2>2. \A i \in Common : i < c.index
    BY <2>1, <1>t DEF Configured
  <2>3. \A i \in Common : Valid(p, i)' <=> Valid(p, i)
    BY <2>1 DEF Valid
  <2> QED BY <1>0, <2>1, <2>2, <2>3 DEF Local
<1> QED BY <1>1, <1>2, <1>3, <1>4

\* Creating a file adds it, or records the error.
LEMMA SelfCreate ==
  ASSUME IInv, NEW p \in Procs,
         AbortLowSpace(p) \/ BeginWrite(p) \/ FinishWrite(p) \/ FailWrite(p)
  PROVE  Local(p)'
<1> DEFINE c == call[p]
<1>0. Local(p)
  BY DEF IInv
<1>t. /\ c.index \in Nat /\ c.index >= 1 /\ config[p].count \in Nat
      /\ disk \in [Indices -> Contents]
      /\ \A i \in Common : i \in Indices /\ i \in Nat /\ i \in Configured(p)
  BY SelfTypes
<1>1. CASE AbortLowSpace(p)
  <2>1. pc'[p] = "rescan" /\ call'[p] = WithError(c)
    BY <1>1 DEF IInv, TypeOK, AbortLowSpace, Goto
  <2> QED BY <2>1, SelfTypes DEF Local
<1>2. CASE BeginWrite(p)
  <2>1. /\ pc[p] = "create" /\ pc'[p] = "write"
        /\ disk' = [disk EXCEPT ![c.index] = Partial]
        /\ config' = config /\ call' = call
    BY <1>2 DEF IInv, TypeOK, BeginWrite, Goto, Write
  <2>2. \A i \in Common : i < c.index => (Valid(p, i)' <=> Valid(p, i))
    BY <2>1, <1>t DEF Valid
  <2>3. Configured(p)' = Configured(p)
    BY <2>1 DEF Configured
  <2>4. c.index \in Common => disk'[c.index] = Partial
    BY <2>1, <1>t
  <2> QED BY <1>0, <2>1, <2>2, <2>3, <2>4 DEF Local
<1>3. CASE FinishWrite(p)
  <2>1. /\ pc[p] = "write"
        /\ pc'[p] = (IF c.op = "replenish_one" THEN "rescan" ELSE "check")
        /\ disk' = [disk EXCEPT ![c.index] = IF @ = Partial THEN config[p].size ELSE @]
        /\ config' = config
        /\ call'[p] = NextIndex(c)
    BY <1>3 DEF IInv, TypeOK, FinishWrite, Goto, Write
  <2>2. \A i \in Common : i < c.index => (Valid(p, i)' <=> Valid(p, i))
    BY <2>1, <1>t DEF Valid
  <2>3. ASSUME NEW i \in Common, i = c.index
        PROVE  Valid(p, i)'
    <3>1. disk[i] = Partial
      BY <1>0, <2>1, <2>3 DEF Local
    <3>2. disk'[i] = config'[p].size
      BY <1>t, <2>1, <2>3, <3>1
    <3> QED BY <3>2 DEF Valid
  <2>4. \A i \in Common : i < c.index + 1 => i < c.index \/ i = c.index
    BY <1>t
  <2>5. c.op \in {"provision", "replenish_one"}
    BY <1>0, <2>1 DEF Local
  <2>6. c.op = "provision" /\ ~c.errors => \A i \in Common : i < c.index + 1 => Valid(p, i)'
    BY <1>0, <2>1, <2>2, <2>3, <2>4 DEF Local
  <2>7. call'[p].index = c.index + 1 /\ call'[p].op = c.op /\ call'[p].errors = c.errors
    BY <2>1, SelfTypes
  <2> QED BY <2>1, <2>5, <2>6, <2>7 DEF Local
<1>4. CASE FailWrite(p)
  <2>1. /\ pc[p] = "write" /\ pc'[p] \in {"check", "rescan"}
        /\ call'[p] = NextIndex(WithError(c))
    BY <1>4 DEF IInv, TypeOK, FailWrite, Goto
  <2>2. NextIndex(WithError(c)).errors = TRUE /\ NextIndex(WithError(c)).op = c.op
    <3>1. c \in Calls
      BY SelfTypes
    <3> QED BY <3>1 DEF NextIndex, WithError, Calls
  <2>3. c.op \in {"provision", "replenish_one"}
    BY <1>0, <2>1 DEF Local
  <2> QED BY <2>1, <2>2, <2>3 DEF Local
<1> QED BY <1>1, <1>2, <1>3, <1>4

\* Releasing claims nothing of the files; the final scan makes the report true.
LEMMA SelfFinish ==
  ASSUME IInv, NEW p \in Procs, ReleaseOne(p) \/ ReleaseDone(p) \/ Rescan(p)
  PROVE  Local(p)'
<1>0. Local(p)
  BY DEF IInv
<1>1. CASE ReleaseOne(p)
  <2>1. PICK i : pc[p] = "releasing" /\ pc' = pc /\ call' = [call EXCEPT ![p] = Removed(call[p], i)]
    BY <1>1 DEF ReleaseOne
  <2>2. call'[p] = Removed(call[p], i)
    BY <2>1 DEF IInv, TypeOK
  <2>3. Removed(call[p], i).op = call[p].op
    <3>1. call[p] \in Calls
      BY SelfTypes
    <3> QED BY <3>1 DEF Removed, Calls
  <2> QED BY <1>0, <2>1, <2>2, <2>3 DEF Local
<1>2. CASE ReleaseDone(p)
  <2>1. pc[p] = "releasing" /\ pc'[p] = "rescan" /\ call' = call
    BY <1>2 DEF IInv, TypeOK, ReleaseDone, Goto
  <2> QED BY <1>0, <2>1 DEF Local
<1>3. CASE Rescan(p)
  <2>1. /\ pc[p] = "rescan" /\ pc'[p] = "returning" /\ call' = call
        /\ disk' = disk /\ config' = config
        /\ inventory'[p] = Present(p)
    BY <1>3 DEF IInv, TypeOK, Rescan, Goto
  <2>2. Present(p)' = Present(p)
    BY <2>1 DEF Present, Configured
  <2>3. \A i \in Common : Valid(p, i)' <=> Valid(p, i)
    BY <2>1 DEF Valid
  <2> QED BY <1>0, <2>1, <2>2, <2>3 DEF Local
<1> QED BY <1>1, <1>2, <1>3

-----------------------------------------------------------------------------
(***************************************************************************)
(* The theorems.                                                           *)
(***************************************************************************)

\* The inductive invariant holds initially.
LEMMA InitInv == Init => IInv
<1> SUFFICES ASSUME Init PROVE IInv
  OBVIOUS
<1>1. TypeOK
  BY Values DEF Init, TypeOK, Pcs
<1>2. HoldsLock
  BY ProcAssumption DEF Init, HoldsLock, LockedPcs
<1>3. \A p \in Procs : Local(p)
  BY DEF Init, Local
<1> QED BY <1>1, <1>2, <1>3 DEF IInv

\* Every step preserves the inductive invariant.
LEMMA StepInv == IInv /\ [Next]_vars => IInv'
<1> SUFFICES ASSUME IInv, [Next]_vars PROVE IInv'
  OBVIOUS
<1>1. TypeOK'
  BY StepType
<1>2. ASSUME NEW p \in Procs, ProcStep(p)
      PROVE  HoldsLock' /\ \A q \in Procs : Local(q)'
  <2>1. Local(p)'
    BY <1>2, SelfOutside, SelfBegin, SelfLoop, SelfCreate, SelfFinish DEF ProcStep, LockedStep
  <2> QED BY <1>2, <2>1, StepLock, OthersKeep
<1>3. ASSUME NEW c \in Confs, EditConfig(c)
      PROVE  HoldsLock' /\ \A q \in Procs : Local(q)'
  BY <1>3 DEF EditConfig, IInv, HoldsLock, Local, Valid, Present, Configured
<1>4. ASSUME UNCHANGED vars
      PROVE  HoldsLock' /\ \A q \in Procs : Local(q)'
  BY <1>4 DEF vars, IInv, HoldsLock, Local, Valid, Present, Configured
<1>5. HoldsLock' /\ \A q \in Procs : Local(q)'
  BY <1>2, <1>3, <1>4 DEF Next
<1> QED BY <1>1, <1>5 DEF IInv

\* The inductive invariant holds throughout.
THEOREM Inductive == Spec => []IInv
BY InitInv, StepInv, PTL DEF Spec

\* Whatever processes start, crash or are reconfigured, the manager's state and the
\* directory keep their types; the loop variable of provision never runs past the pool.
THEOREM TypeCorrect == Spec => []TypeOK
<1>1. IInv => TypeOK
  BY DEF IInv
<1> QED BY <1>1, Inductive, PTL

\* A provision without errors has left every file no configuration prunes valid, for
\* any number of processes, configurations and files.
THEOREM ProvisionCompletes == Spec => []ProvisionIsComplete
<1>1. IInv => ProvisionIsComplete
  BY DEF IInv, Local, ProvisionIsComplete
<1> QED BY <1>1, Inductive, PTL

\* The inventory an operation returns is what is on disk.
THEOREM ReportsAreFresh == Spec => []InventoryIsFresh
<1>1. IInv => InventoryIsFresh
  BY DEF IInv, Local, InventoryIsFresh
<1> QED BY <1>1, Inductive, PTL

\* A file that is neither complete nor being written was left by a killed process:
\* no failed creation, prune, release or second writer ever leaves one behind.
THEOREM TornFilesNeedACrash == Spec => []NoTornFile
<1>1. Init => NoTornFile
  BY DEF Init, NoTornFile, Common
<1>2. IInv /\ NoTornFile /\ [Next]_vars => NoTornFile'
  <2> SUFFICES ASSUME IInv, NoTornFile, [Next]_vars, NEW i \in Common, disk'[i] = Partial
               PROVE  i \in torn' \/ \E q \in Procs : pc'[q] = "write" /\ call'[q].index = i
    BY DEF NoTornFile
  <2>1. /\ disk \in [Indices -> Contents] /\ i \in Indices
        /\ disk[i] = Partial => i \in torn \/ \E q \in Procs : pc[q] = "write" /\ call[q].index = i
    BY DEF IInv, TypeOK, NoTornFile, Common
  <2>2. ASSUME NEW p \in Procs, ProcStep(p), disk[i] = Partial, i \notin torn,
               ~(pc[p] = "write" /\ call[p].index = i)
        PROVE  \E q \in Procs : pc'[q] = "write" /\ call'[q].index = i
    <3>1. PICK q \in Procs : pc[q] = "write" /\ call[q].index = i
      BY <2>1, <2>2
    <3>2. pc'[q] = pc[q] /\ call'[q] = call[q]
      BY <2>2, <3>1, StepFrame DEF Frame
    <3> QED BY <3>1, <3>2
  <2>3. ASSUME NEW p \in Procs, ProcStep(p), disk[i] = Partial, i \in torn
        PROVE  i \in torn'
    BY <2>3 DEF ProcStep, LockedStep, Write, Start, Reload, NewPrune, NewScan,
             BeginProvision, BeginRelease, Prune, SkipValid, RemoveInvalid, LoopDone,
             AbortLowSpace, BeginWrite, FinishWrite, FailWrite, ReleaseOne, ReleaseDone,
             Rescan, Return, Stop
  <2>4. ASSUME NEW p \in Procs, ProcStep(p), pc[p] = "write" /\ call[p].index = i
        PROVE  i \in torn'
    <3>1. FinishWrite(p) \/ FailWrite(p) \/ Stop(p)
      BY <2>4 DEF ProcStep, LockedStep, Start, Reload, NewPrune, NewScan, BeginProvision,
             BeginRelease, AcquireLock, Prune, SkipValid, RemoveInvalid, LoopDone,
             AbortLowSpace, BeginWrite, ReleaseOne, ReleaseDone, Rescan, Return
    <3>2. ~FinishWrite(p)
      <4>1. config[p].size # Partial
        BY Values DEF IInv, TypeOK
      <4> QED BY <2>1, <2>4, <4>1 DEF FinishWrite, Write
    <3>3. ~FailWrite(p)
      BY <2>1, <2>4 DEF FailWrite, Write, Absent, Partial
    <3>4. CASE Stop(p)
      BY <2>4, <3>4 DEF Stop, Write
    <3> QED BY <3>1, <3>2, <3>3, <3>4
  <2>5. ASSUME NEW p \in Procs, ProcStep(p), disk[i] # Partial
        PROVE  \E q \in Procs : pc'[q] = "write" /\ call'[q].index = i
    <3>1. CASE BeginWrite(p)
      <4>1. pc'[p] = "write" /\ call'[p] = call[p]
        BY <3>1 DEF IInv, TypeOK, BeginWrite, Goto
      <4>2. call[p].index = i
        BY <2>1, <2>5, <3>1 DEF BeginWrite, Write
      <4> QED BY <4>1, <4>2
    <3>2. ~(NewPrune(p) \/ Prune(p))
      BY <2>5, PruneKeeps DEF IInv, NewPrune, Prune, Write
    <3>3. ~(RemoveInvalid(p) \/ FailWrite(p) \/ ReleaseOne(p))
      BY <2>1, <2>5 DEF RemoveInvalid, FailWrite, ReleaseOne, Write, Absent, Partial
    <3>4. ~FinishWrite(p)
      BY <2>1, <2>5 DEF FinishWrite, Write
    <3>5. ASSUME ~BeginWrite(p) PROVE disk' = disk
      BY <2>5, <3>2, <3>3, <3>4, <3>5 DEF ProcStep, LockedStep, Write, Start, Reload, NewScan,
             BeginProvision, BeginRelease, SkipValid, LoopDone, AbortLowSpace, ReleaseDone,
             Rescan, Return, Stop
    <3> QED BY <2>5, <3>1, <3>5
  <2>6. CASE \E c \in Confs : EditConfig(c)
    BY <2>1, <2>6 DEF EditConfig
  <2>7. CASE UNCHANGED vars
    BY <2>1, <2>7 DEF vars
  <2> QED BY <2>2, <2>3, <2>4, <2>5, <2>6, <2>7 DEF Next
<1> QED BY <1>1, <1>2, Inductive, PTL DEF Spec
=============================================================================
