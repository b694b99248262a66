----------------------------- MODULE WalkerPool -----------------------------
(***************************************************************************)
(* The parallel directory walker (scanner/walker.rs): workers share an     *)
(* unbounded queue of directories and a count of those not yet finished,   *)
(* and report to the scanner through a bounded channel.  Nobody is told    *)
(* that the walk is over: a worker leaves when the queue is empty and the  *)
(* count is zero, and the scanner sees the channel close.                  *)
(*                                                                         *)
(* The order inside the two channels is left out.                          *)
(***************************************************************************)
EXTENDS ScanTree

CONSTANTS
  Excluded,        \* excluded_paths, the barren directories of ScanCursor among them
  Workers,         \* walker threads
  ResultCap,       \* capacity of the result channel
  None             \* no directory

ASSUME PoolAssumption ==
  /\ Excluded \subseteq Dirs
  /\ IsFiniteSet(Workers) /\ Workers # {}
  /\ ResultCap \in Nat \ {0}
  /\ None \notin Dirs

VARIABLES
  work,            \* the work channel
  in_flight,       \* directories queued or being processed
  results,         \* the result channel
  markers,         \* marker_paths of the shared ProtectionRegistry
  cancel,          \* the cancel token
  open,            \* the scanner still holds the receiver
  pc,              \* where each worker is
  item,            \* the directory it processes
  pending,         \* pending_children
  sending,         \* the child it has counted and is about to queue
  received,        \* entries the scanner has taken
  outcome          \* how the pass ended: open, complete or cut

worker_vars == <<pc, item, pending, sending>>
scanner_vars == <<received, outcome, open>>
vars == <<work, in_flight, results, markers, cancel, worker_vars, scanner_vars>>

Goto(w, label) == pc' = [pc EXCEPT ![w] = label]

(***************************************************************************)
(* A worker between directories: walker_thread.                            *)
(***************************************************************************)

\* The cancel flag is read before every receive.
LoopTop(w) ==
  /\ pc[w] = "top"
  /\ Goto(w, IF cancel THEN "exited" ELSE "recv")
  /\ UNCHANGED <<work, in_flight, results, markers, cancel, item, pending, sending, scanner_vars>>

Receive(w) ==
  /\ pc[w] = "recv"
  /\ \E d \in work :
       /\ work' = work \ {d}
       /\ item' = [item EXCEPT ![w] = d]
  /\ Goto(w, "enter")
  /\ UNCHANGED <<in_flight, results, markers, cancel, pending, sending, scanner_vars>>

\* Nothing came for 50 ms.
ReceiveTimeout(w) ==
  /\ pc[w] = "recv"
  /\ work = {}
  /\ Goto(w, IF cancel \/ in_flight = 0 THEN "exited" ELSE "top")
  /\ UNCHANGED <<work, in_flight, results, markers, cancel, item, pending, sending, scanner_vars>>

\* Mutant of Done: a directory that was turned away keeps its place in the count.
DoneIfEntered(w) ==
  /\ pc[w] = "done"
  /\ in_flight' = IF item[w] \in Refused \cup Foreign THEN in_flight ELSE in_flight - 1
  /\ item' = [item EXCEPT ![w] = None] /\ pending' = [pending EXCEPT ![w] = {}]
  /\ Goto(w, "top")
  /\ UNCHANGED <<work, results, markers, cancel, sending, scanner_vars>>

\* process_directory has returned, however it did.
Done(w) ==
  /\ pc[w] = "done"
  /\ in_flight' = in_flight - 1
  /\ item' = [item EXCEPT ![w] = None] /\ pending' = [pending EXCEPT ![w] = {}]
  /\ Goto(w, "top")
  /\ UNCHANGED <<work, results, markers, cancel, sending, scanner_vars>>

(***************************************************************************)
(* A worker in a directory: process_directory.                             *)
(***************************************************************************)

\* Excluded, configured as protected or under a marker, on another device, or unreadable.
Enter(w) ==
  /\ pc[w] = "enter"
  /\ LET d == item[w] IN
     Goto(w, IF d \in Excluded \cup Refused \cup Foreign \/ Path[d] \cap markers # {}
             THEN "done" ELSE "read")
  /\ UNCHANGED <<work, in_flight, results, markers, cancel, item, pending, sending, scanner_vars>>

\* Mutant of ReadEntries: children are kept although a marker turns up.
ReadPastMarker(w) ==
  /\ pc[w] = "read"
  /\ pending' = [pending EXCEPT ![w] = Children(item[w]) \ Excluded]
  /\ Goto(w, "children")
  /\ UNCHANGED <<work, in_flight, results, markers, cancel, item, sending, scanner_vars>>

\* The listing: the marker protects the directory from then on and ends it; otherwise the
\* children are kept for later.  Only the first entries of a huge directory are looked at.
ReadEntries(w) ==
  /\ pc[w] = "read"
  /\ LET d == item[w]
         all == Children(d) \ Excluded
     IN \/ /\ cancel
           /\ Goto(w, "done")
           /\ UNCHANGED <<markers, pending>>
        \/ /\ ~cancel /\ d \in Marked
           /\ markers' = markers \cup {d}
           /\ Goto(w, "done")
           /\ UNCHANGED pending
        \/ /\ ~cancel /\ d \notin Marked \ Huge
           /\ \E some \in IF d \in Huge THEN SUBSET all ELSE {all} :
                pending' = [pending EXCEPT ![w] = some]
           /\ Goto(w, "children")
           /\ UNCHANGED markers
  /\ UNCHANGED <<work, in_flight, results, cancel, item, sending, scanner_vars>>

\* send_walk_entry: retries while the channel is full, gives up when the receiver is gone
\* or the walk was cancelled.
Deliver(w, d, sent, stopped) ==
  \/ /\ open /\ Cardinality(results) < ResultCap
     /\ results' = results \cup {d}
     /\ Goto(w, sent)
  \/ /\ ~open \/ (cancel /\ Cardinality(results) >= ResultCap)
     /\ Goto(w, stopped)
     /\ UNCHANGED results

\* A child is counted before it is queued.
CountChild(w, c) ==
  /\ in_flight' = in_flight + 1
  /\ sending' = [sending EXCEPT ![w] = c]
  /\ Goto(w, "send")
  /\ UNCHANGED <<work, results>>

\* One child: an opaque tree is reported or passed over, any other directory is queued.  The
\* only look at an opaque tree is for its metadata, which tells its device.
DispatchChild(w) ==
  /\ pc[w] = "children"
  /\ \/ /\ cancel /\ pending[w] # {}
        /\ Goto(w, "done")
        /\ UNCHANGED <<work, in_flight, results, pending, sending>>
     \/ /\ pending[w] = {}
        /\ Goto(w, "emit")
        /\ UNCHANGED <<work, in_flight, results, pending, sending>>
     \/ /\ ~cancel
        /\ \E c \in pending[w] :
             /\ \/ /\ c \in Sealed \cup (Opaque \cap Foreign)
                   /\ UNCHANGED <<work, in_flight, results, pc, sending>>
                \/ /\ c \in Opaque \ Foreign
                   /\ Deliver(w, c, "children", "done")
                   /\ UNCHANGED <<work, in_flight, sending>>
                \/ c \notin Sealed \cup Opaque /\ CountChild(w, c)
             /\ pending' = [pending EXCEPT ![w] = @ \ {c}]
  /\ UNCHANGED <<markers, cancel, item, scanner_vars>>

SendChild(w) ==
  /\ pc[w] = "send"
  /\ work' = work \cup {sending[w]}
  /\ sending' = [sending EXCEPT ![w] = None]
  /\ Goto(w, "children")
  /\ UNCHANGED <<in_flight, results, markers, cancel, item, pending, scanner_vars>>

\* The directory itself, unless it is a root.
EmitSelf(w) ==
  /\ pc[w] = "emit"
  /\ IF item[w] \in Roots THEN Goto(w, "done") /\ UNCHANGED results
                          ELSE Deliver(w, item[w], "done", "done")
  /\ UNCHANGED <<work, in_flight, markers, cancel, item, pending, sending, scanner_vars>>

WorkerStep(w) ==
  \/ LoopTop(w) \/ Receive(w) \/ ReceiveTimeout(w) \/ Done(w) \/ Enter(w) \/ ReadEntries(w)
  \/ DispatchChild(w) \/ SendChild(w) \/ EmitSelf(w)

(***************************************************************************)
(* The scanner: the walk loop of scanner_thread_main.                      *)
(***************************************************************************)

ScannerReceive ==
  /\ outcome = "open"
  /\ \E d \in results : results' = results \ {d} /\ received' = received \cup {d}
  /\ UNCHANGED <<work, in_flight, markers, cancel, worker_vars, outcome, open>>

\* The channel is empty and every sender is gone.
Complete ==
  /\ outcome = "open"
  /\ results = {} /\ \A w \in Workers : pc[w] = "exited"
  /\ outcome' = "complete" /\ open' = FALSE
  /\ UNCHANGED <<work, in_flight, results, markers, cancel, worker_vars, received>>

\* Shutdown, the deadline, the entry budget and the byte target cancel the walk; when the
\* executor is gone the scanner just leaves.
BreakOff ==
  /\ outcome = "open"
  /\ outcome' = "cut"
  /\ cancel' \in BOOLEAN
  /\ UNCHANGED <<work, in_flight, results, markers, worker_vars, received, open>>

\* The end of the pass drops the receiver.
DropReceiver ==
  /\ outcome = "cut" /\ open
  /\ open' = FALSE /\ results' = {}
  /\ UNCHANGED <<work, in_flight, markers, cancel, worker_vars, received, outcome>>

(***************************************************************************)
(* Specification.                                                          *)
(***************************************************************************)

Init ==
  /\ work = Roots /\ in_flight = Cardinality(Roots)
  /\ results = {} /\ markers = {} /\ cancel = FALSE /\ open = TRUE
  /\ pc = [w \in Workers |-> "top"] /\ item = [w \in Workers |-> None]
  /\ pending = [w \in Workers |-> {}] /\ sending = [w \in Workers |-> None]
  /\ received = {} /\ outcome = "open"

Next ==
  \/ \E w \in Workers : WorkerStep(w)
  \/ ScannerReceive \/ Complete \/ BreakOff \/ DropReceiver

Spec == Init /\ [][Next]_vars

\* Threads are scheduled, and the pass ends; nothing makes it break off.
FairSpec ==
  /\ Spec
  /\ \A w \in Workers : WF_vars(WorkerStep(w))
  /\ WF_vars(ScannerReceive \/ Complete \/ DropReceiver)

(***************************************************************************)
(* Properties.                                                             *)
(***************************************************************************)

Working == {"enter", "read", "children", "send", "emit", "done"}

\* Every variable stays in its domain; the result channel stays within its capacity.
TypeOK ==
  /\ work \subseteq Dirs /\ in_flight \in Nat
  /\ results \subseteq Dirs /\ Cardinality(results) <= ResultCap
  /\ markers \subseteq Marked
  /\ cancel \in BOOLEAN /\ open \in BOOLEAN
  /\ pc \in [Workers -> Working \cup {"top", "recv", "exited"}]
  /\ item \in [Workers -> Dirs \cup {None}] /\ sending \in [Workers -> Dirs \cup {None}]
  /\ pending \in [Workers -> SUBSET Dirs]
  /\ received \subseteq Dirs /\ outcome \in {"open", "complete", "cut"}

\* in_flight counts the directories that are queued, being processed or about to be queued,
\* no more and no fewer: a worker that finds it at zero leaves nothing behind, and one
\* that waits for zero does not wait for ever.
CountCoversWork ==
  in_flight = Cardinality(work)
              + Cardinality({w \in Workers : pc[w] \in Working})
              + Cardinality({w \in Workers : pc[w] = "send"})

\* The pool does what a pass may expect of a walk (Traversal): nothing under a marker,
\* nothing twice, an end, and at a natural end nothing left out, although workers leave
\* on their own and block on a full result channel.
Walks == INSTANCE Traversal WITH seen <- received
ImplementsTraversal == Walks!Spec

\* Every worker ends, also when the pass breaks off with the channel full, with or
\* without cancelling.
WorkersEnd == <>[](\A w \in Workers : pc[w] = "exited")

=============================================================================
