---------------------------- MODULE BallastFiles ----------------------------
(***************************************************************************)
(* The ballast files of one pool and the processes that manage them        *)
(* (ballast/manager.rs): the daemon, which keeps a BallastManager for as   *)
(* long as it runs, and the "sbh ballast" commands, each of which builds   *)
(* one, does one operation and exits.  provision, replenish_one and        *)
(* release run under an exclusive flock() on the pool directory; building  *)
(* a manager and reconfiguring one prune and scan the directory without    *)
(* it.  Every system call that changes the directory is a step, so a       *)
(* process can be killed between any two of them.                          *)
(*                                                                         *)
(* A file's content is the size it was completely written for, or Partial: *)
(* anything verify_single_file rejects whatever the configuration (cut     *)
(* short, no header, no blocks).  verify() only reads and has no action.   *)
(***************************************************************************)
EXTENDS Integers, FiniteSets, FiniteSetsExt

CONSTANTS
  Procs,       \* the daemon and the commands an operator may run
  Daemon,      \* the one that stays alive and reloads its configuration
  Confs,       \* contents the [ballast] section of the config file can have
  MaxIndex,    \* largest file index
  NoProc       \* not a process

ASSUME ProcAssumption == Daemon \in Procs /\ NoProc \notin Procs

ASSUME ConfAssumption ==
  /\ MaxIndex \in Nat
  /\ Confs \subseteq [count : 0 .. MaxIndex, size : Nat \ {0}]
  /\ Confs # {}

Indices == 1 .. MaxIndex

Absent == 0
Partial == -1
Contents == {Absent, Partial} \cup { c.size : c \in Confs }

\* The indices every configuration keeps: no prune_orphans ever touches them.
Common == { i \in Indices : \A c \in Confs : i <= c.count }

VARIABLES
  disk,        \* what is in the pool directory
  lock,        \* holder of the flock
  conf_file,   \* the [ballast] section on disk
  pc,          \* per process: where it is
  config,      \* per process: BallastManager.config
  inventory,   \* per process: BallastManager.inventory
  call,        \* per process: locals and report of the operation under way
  torn         \* history: indices whose writer was killed half way

vars == <<disk, lock, conf_file, pc, config, inventory, call, torn>>

\* Program points at which the process holds the flock.
LockedPcs == {"prune", "check", "create", "write", "releasing", "rescan", "returning"}
Pcs == {"down", "new_prune", "new_scan", "idle"} \cup LockedPcs

\* index is i of the loops of provision and replenish_one; victims are the files
\* release() has still to remove, want how many it was asked for.
Calls == [op : {"none", "provision", "replenish_one", "release"}, index : 1 .. MaxIndex + 1,
          victims : SUBSET Indices, want : 0 .. MaxIndex, released : Nat, errors : BOOLEAN]
NoCall == [op |-> "none", index |-> 1, victims |-> {}, want |-> 0, released |-> 0,
           errors |-> FALSE]

\* The report and the loop variable of a call, one step on.
NextIndex(c) == [c EXCEPT !.index = @ + 1]
WithError(c) == [c EXCEPT !.errors = TRUE]
Removed(c, i) == [c EXCEPT !.victims = @ \ {i},
                           !.released = IF disk[i] = Absent THEN @ ELSE @ + 1,
                           !.errors = @ \/ disk[i] = Absent]

Configured(p) == 1 .. config[p].count

\* verify_single_file
Valid(p, i) == disk[i] = config[p].size

\* scan_existing: every configured file that exists, valid or not.
Present(p) == { i \in Configured(p) : disk[i] # Absent }

\* prune_orphans
Pruned(p) == [i \in Indices |-> IF i > config[p].count THEN Absent ELSE disk[i]]

\* Every action that writes the directory keeps the history of torn files.
Write(d, killed) ==
  /\ disk' = d
  /\ torn' = { i \in torn \cup killed : d[i] = Partial }

Goto(p, point) == pc' = [pc EXCEPT ![p] = point]

(***************************************************************************)
(* Building and reconfiguring a manager, without the lock.                 *)
(***************************************************************************)
Start(p) ==
  /\ pc[p] = "down"
  /\ config' = [config EXCEPT ![p] = conf_file]
  /\ Goto(p, "new_prune")
  /\ UNCHANGED <<disk, lock, conf_file, inventory, call, torn>>

\* SIGHUP: a changed configuration rebuilds the daemon's managers.
Reload(p) ==
  /\ p = Daemon
  /\ pc[p] = "idle"
  /\ conf_file # config[p]
  /\ config' = [config EXCEPT ![p] = conf_file]
  /\ Goto(p, "new_prune")
  /\ UNCHANGED <<disk, lock, conf_file, inventory, call, torn>>

NewPrune(p) ==
  /\ pc[p] = "new_prune"
  /\ Write(Pruned(p), {})
  /\ Goto(p, "new_scan")
  /\ UNCHANGED <<lock, conf_file, config, inventory, call>>

NewScan(p) ==
  /\ pc[p] = "new_scan"
  /\ inventory' = [inventory EXCEPT ![p] = Present(p)]
  /\ Goto(p, "idle")
  /\ UNCHANGED <<disk, lock, conf_file, config, call, torn>>

(***************************************************************************)
(* provision() and replenish_one(), under the lock.                        *)
(***************************************************************************)

\* Mutant of AcquireLock: the flock is not waited for.
AcquireWithoutWaiting(p, c) ==
  /\ pc[p] = "idle"
  /\ lock' = p
  /\ call' = [call EXCEPT ![p] = c]

AcquireLock(p, c) ==
  /\ pc[p] = "idle"
  /\ lock = NoProc
  /\ lock' = p
  /\ call' = [call EXCEPT ![p] = c]

BeginProvision(p, o) ==
  /\ AcquireLock(p, [NoCall EXCEPT !.op = o])
  /\ Goto(p, "prune")
  /\ UNCHANGED <<disk, conf_file, config, inventory, torn>>

Prune(p) ==
  /\ pc[p] = "prune"
  /\ Write(Pruned(p), {})
  /\ Goto(p, "check")
  /\ UNCHANGED <<lock, conf_file, config, inventory, call>>

\* One turn of the loop: a valid file is skipped, an invalid one removed.
SkipValid(p) ==
  /\ pc[p] = "check"
  /\ call[p].index \in Configured(p)
  /\ Valid(p, call[p].index)
  /\ call' = [call EXCEPT ![p] = NextIndex(call[p])]
  /\ UNCHANGED <<disk, lock, conf_file, pc, config, inventory, torn>>

RemoveInvalid(p) ==
  /\ pc[p] = "check"
  /\ call[p].index \in Configured(p)
  /\ ~Valid(p, call[p].index)
  /\ Write([disk EXCEPT ![call[p].index] = Absent], {})
  /\ Goto(p, "create")
  /\ UNCHANGED <<lock, conf_file, config, inventory, call>>

LoopDone(p) ==
  /\ pc[p] = "check"
  /\ call[p].index \notin Configured(p)
  /\ Goto(p, "rescan")
  /\ UNCHANGED <<disk, lock, conf_file, config, inventory, call, torn>>

\* Free space is below MIN_FREE_PCT: the loop is left with an error.
AbortLowSpace(p) ==
  /\ pc[p] = "create"
  /\ call' = [call EXCEPT ![p] = WithError(call[p])]
  /\ Goto(p, "rescan")
  /\ UNCHANGED <<disk, lock, conf_file, config, inventory, torn>>

BeginWrite(p) ==
  /\ pc[p] = "create"
  /\ Write([disk EXCEPT ![call[p].index] = Partial], {})
  /\ Goto(p, "write")
  /\ UNCHANGED <<lock, conf_file, config, inventory, call>>

\* create_ballast_file succeeds.  If the path was unlinked in the meantime, the
\* data went to the unlinked file and the path stays absent.
FinishWrite(p) ==
  /\ pc[p] = "write"
  /\ Write([disk EXCEPT ![call[p].index] = IF @ = Partial THEN config[p].size ELSE @], {})
  /\ call' = [call EXCEPT ![p] = NextIndex(call[p])]
  /\ Goto(p, IF call[p].op = "replenish_one" THEN "rescan" ELSE "check")
  /\ UNCHANGED <<lock, conf_file, config, inventory>>

\* Mutant of FailWrite: the torn file is left behind.
FailWriteNoCleanup(p) ==
  /\ pc[p] = "write"
  /\ call' = [call EXCEPT ![p] = NextIndex(WithError(call[p]))]
  /\ \E next \in {"check", "rescan"} : Goto(p, next)
  /\ UNCHANGED <<disk, lock, conf_file, config, inventory, torn>>

\* Mutant of FailWrite: the loop counter is advanced twice.
FailWriteSkippingOne(p) ==
  /\ pc[p] = "write"
  /\ Write([disk EXCEPT ![call[p].index] = Absent], {})
  /\ call' = [call EXCEPT ![p] = NextIndex(NextIndex(WithError(call[p])))]
  /\ \E next \in {"check", "rescan"} : Goto(p, next)
  /\ UNCHANGED <<lock, conf_file, config, inventory>>

\* create_ballast_file fails and removes what it wrote; a full disk ends the
\* loop, any other error goes on with the next file.
FailWrite(p) ==
  /\ pc[p] = "write"
  /\ Write([disk EXCEPT ![call[p].index] = Absent], {})
  /\ call' = [call EXCEPT ![p] = NextIndex(WithError(call[p]))]
  /\ \E next \in {"check", "rescan"} : Goto(p, next)
  /\ UNCHANGED <<lock, conf_file, config, inventory>>

(***************************************************************************)
(* release(count), under the lock.                                         *)
(***************************************************************************)

\* The count highest indices of the inventory, which may be older than the lock.
Highest(s, n) == { i \in s : Cardinality({ j \in s : j > i }) < n }

BeginRelease(p, n) ==
  /\ inventory[p] # {}
  /\ AcquireLock(p, [NoCall EXCEPT !.op = "release", !.want = n,
                                   !.victims = Highest(inventory[p], n)])
  /\ Goto(p, "releasing")
  /\ UNCHANGED <<disk, conf_file, config, inventory, torn>>

ReleaseOne(p) ==
  /\ pc[p] = "releasing"
  /\ call[p].victims # {}
  /\ LET i == Max(call[p].victims)
     IN  /\ Write([disk EXCEPT ![i] = Absent], {})
         /\ call' = [call EXCEPT ![p] = Removed(call[p], i)]
  /\ UNCHANGED <<lock, conf_file, pc, config, inventory>>

ReleaseDone(p) ==
  /\ pc[p] = "releasing"
  /\ call[p].victims = {}
  /\ Goto(p, "rescan")
  /\ UNCHANGED <<disk, lock, conf_file, config, inventory, call, torn>>

(***************************************************************************)
(* Every operation ends with scan_existing and drops the lock on return.   *)
(***************************************************************************)

\* Mutant of Rescan: the inventory is left as it was.
RescanSkipped(p) ==
  /\ pc[p] = "rescan"
  /\ Goto(p, "returning")
  /\ UNCHANGED <<disk, lock, conf_file, config, inventory, call, torn>>

Rescan(p) ==
  /\ pc[p] = "rescan"
  /\ inventory' = [inventory EXCEPT ![p] = Present(p)]
  /\ Goto(p, "returning")
  /\ UNCHANGED <<disk, lock, conf_file, config, call, torn>>

\* Mutant of Return: the lock is kept.
ReturnKeepingLock(p) ==
  /\ pc[p] = "returning"
  /\ call' = [call EXCEPT ![p] = NoCall]
  /\ Goto(p, "idle")
  /\ UNCHANGED <<disk, lock, conf_file, config, inventory, torn>>

Return(p) ==
  /\ pc[p] = "returning"
  /\ lock' = NoProc
  /\ call' = [call EXCEPT ![p] = NoCall]
  /\ Goto(p, "idle")
  /\ UNCHANGED <<disk, conf_file, config, inventory, torn>>

\* A command exits, the daemon stops, or either is killed where it stands: the
\* kernel drops the lock, the files stay as they are.
Stop(p) ==
  /\ pc[p] # "down"
  /\ Write(disk, IF pc[p] = "write" THEN {call[p].index} ELSE {})
  /\ lock' = IF lock = p THEN NoProc ELSE lock
  /\ inventory' = [inventory EXCEPT ![p] = {}]
  /\ call' = [call EXCEPT ![p] = NoCall]
  /\ Goto(p, "down")
  /\ UNCHANGED <<conf_file, config>>

EditConfig(c) ==
  /\ c # conf_file
  /\ conf_file' = c
  /\ UNCHANGED <<disk, lock, pc, config, inventory, call, torn>>

Init ==
  /\ disk \in [Indices -> Contents]
  /\ lock = NoProc
  /\ conf_file \in Confs
  /\ pc = [p \in Procs |-> "down"]
  /\ config = [p \in Procs |-> conf_file]
  /\ inventory = [p \in Procs |-> {}]
  /\ call = [p \in Procs |-> NoCall]
  /\ torn = { i \in Indices : disk[i] = Partial }

\* The steps a process owes once it has taken the lock.
LockedStep(p) ==
  \/ Prune(p)
  \/ SkipValid(p)
  \/ RemoveInvalid(p)
  \/ LoopDone(p)
  \/ AbortLowSpace(p)
  \/ BeginWrite(p)
  \/ FinishWrite(p)
  \/ FailWrite(p)
  \/ ReleaseOne(p)
  \/ ReleaseDone(p)
  \/ Rescan(p)
  \/ Return(p)

ProcStep(p) ==
  \/ Start(p)
  \/ Reload(p)
  \/ NewPrune(p)
  \/ NewScan(p)
  \/ \E o \in {"provision", "replenish_one"} : BeginProvision(p, o)
  \/ \E n \in Indices : BeginRelease(p, n)
  \/ LockedStep(p)
  \/ Stop(p)

Next ==
  \/ \E p \in Procs : ProcStep(p)
  \/ \E c \in Confs : EditConfig(c)

Spec == Init /\ [][Next]_vars

\* A running process is scheduled; nothing obliges anyone to begin an operation.
FairSpec == Spec /\ \A p \in Procs : WF_vars(LockedStep(p))

-----------------------------------------------------------------------------
(***************************************************************************)
(* Properties.                                                             *)
(***************************************************************************)

\* The types of the variables; the loops of provision and replenish_one never run
\* past the index after the last.
TypeOK ==
  /\ disk \in [Indices -> Contents]
  /\ lock \in Procs \cup {NoProc}
  /\ conf_file \in Confs
  /\ pc \in [Procs -> Pcs]
  /\ config \in [Procs -> Confs]
  /\ inventory \in [Procs -> SUBSET Indices]
  /\ call \in [Procs -> Calls]
  /\ torn \in SUBSET Indices

\* A provision() that reports no error leaves a complete, valid reserve: when it
\* returns, every file that no configuration in play prunes is there and valid,
\* whatever other processes started, released, crashed or waited meanwhile.
ProvisionIsComplete ==
  \A p \in Procs :
    pc[p] = "returning" /\ call[p].op = "provision" /\ ~call[p].errors =>
      \A i \in Common : Valid(p, i)

\* The report of an operation is about the directory as it is: on return, still
\* under the lock, the inventory is exactly what exists.
InventoryIsFresh ==
  \A p \in Procs :
    pc[p] = "returning" => inventory[p] \cap Common = Present(p) \cap Common

\* No half-written file outlives its writer unless the writer was killed: failed
\* creations clean up after themselves, and nobody writes the same file twice.
NoTornFile ==
  \A i \in Common :
    disk[i] = Partial => i \in torn \/ \E p \in Procs : pc[p] = "write" /\ call[p].index = i

\* Whoever holds the flock gives it back.
LockIsReleased == \A p \in Procs : lock = p ~> lock # p

=============================================================================
