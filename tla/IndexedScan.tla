---------------------------- MODULE IndexedScan -----------------------------
(***************************************************************************)
(* The candidate index in the passes of the v2 scanner (scanner_thread_main*)
(* in daemon/loop_main.rs): loaded from its checkpoint, fed with the       *)
(* failures of the executor through a bounded channel, asked for           *)
(* candidates first, then updated and saved with what the shallow pre-scan *)
(* and after it the walk have scored.                                      *)
(*                                                                         *)
(* What a score says of an item is a verdict, drawn anew at every scoring. *)
(* The executor is here only what becomes of a candidate it was handed     *)
(* (DeletionExecutor); the pauses between passes are left out.             *)
(***************************************************************************)
EXTENDS ScannerIndex

CONSTANTS
  Shallow,         \* artifact directories the pre-scan gets to: up to three levels deep
  MaxBatch,        \* max_delete_batch
  FeedbackCap,     \* capacity of the feedback channel
  MaxEvidence      \* bound: how often each item changes

ASSUME PassAssumption ==
  /\ Shallow \subseteq Items
  /\ {MaxBatch, FeedbackCap} \subseteq Nat
  /\ MaxEvidence \in [Items -> Nat]

VARIABLES
  evidence,        \* of each item, -1 once it is gone
  index,           \* scanner_index
  checkpoint,      \* scanner_index_file, NoIndex when missing or corrupt
  feedback,        \* items on the way in the feedback channel
  handed,          \* items in batches the executor has not finished
  scan_pc,         \* where the scanner is
  context,         \* roots and config of the request it works on
  early,           \* scanner_index_records of the pre-scan
  fresh,           \* scanner_index_records of the walk
  scored,          \* candidates not dispatched yet
  owed,            \* history: backoff an item still has to sit out
  owed_saved       \* history: the same when the checkpoint was written

pass_vars == <<scan_pc, context, early, fresh, scored>>
owed_vars == <<owed, owed_saved>>
scan_vars == <<evidence, index, checkpoint, feedback, handed, pass_vars, owed_vars>>

NothingOwed == [i \in Items |-> 0]
NoRecords == [i \in Items |-> NoEntry]
There == {i \in Items : evidence[i] >= 0}

(***************************************************************************)
(* A pass begins.                                                          *)
(***************************************************************************)

\* drain_scanner_index_feedback
Fed(idx) ==
  [idx EXCEPT !.records = [i \in Items |-> IF i \in feedback THEN RecordFailure(@[i], idx.context)
                                               ELSE @[i]]]

\* save_checkpoint writes a temporary file and renames it: it succeeds or leaves the old
\* checkpoint.
Save(idx, owing) ==
  \/ checkpoint' = idx /\ owed_saved' = owing
  \/ UNCHANGED <<checkpoint, owed_saved>>

\* The index is kept while the context stays, loaded otherwise; then failures that were
\* fed back are applied and saved.  The pass ends here when no root is dirty.
BeginPass ==
  /\ scan_pc = "idle"
  /\ \E c \in Contexts :
       LET same == index.loaded /\ index.context = c
           idx == IF same THEN index ELSE LoadCheckpoint(checkpoint, c)
           carried == IF same THEN owed
                      ELSE IF checkpoint.loaded /\ checkpoint.context = c THEN owed_saved
                      ELSE NothingOwed
       IN /\ index' = Fed(idx)
          /\ owed' = [i \in Items |->
                        IF i \in feedback \cap There /\ idx.records[i].evidence = evidence[i]
                        THEN Fed(idx).records[i].until ELSE carried[i]]
          /\ IF feedback = {} THEN UNCHANGED <<checkpoint, owed_saved>>
                              ELSE Save(Fed(idx), owed')
          /\ \/ scan_pc' = "index" /\ context' = c
             \/ UNCHANGED <<scan_pc, context>>
  /\ feedback' = {}
  /\ UNCHANGED <<evidence, handed, early, fresh, scored>>

(***************************************************************************)
(* Candidates go out.                                                      *)
(***************************************************************************)

\* dispatch_top_candidates: the best MaxBatch of s.
Top(s) == {t \in SUBSET s : Cardinality(t) = Smaller(Cardinality(s), MaxBatch)}

\* From Orange on the index proposes what it knows before anything is scanned.  Enough of
\* it ends the pass; what the channel does not take is dropped.
DispatchIndexed ==
  /\ scan_pc = "index"
  /\ \/ /\ Ranked(index) # {}
        /\ \E t \in Top(Ranked(index)) : handed' = handed \cup t
        /\ \/ scan_pc' = "idle" /\ context' = NoContext
           \/ scan_pc' = "prescan" /\ UNCHANGED context
     \/ scan_pc' = "prescan" /\ UNCHANGED <<handed, context>>
  /\ UNCHANGED <<evidence, index, checkpoint, feedback, early, fresh, scored, owed_vars>>

\* A candidate is a Delete verdict that is not cooling down on the same evidence.
NewCandidates(i, r) == IF CandidateCooling(index, i, r) THEN scored ELSE scored \cup {i}

\* The pre-scan scores a directory; only a Delete verdict leaves a record.
PreScore(i) ==
  /\ scan_pc = "prescan"
  /\ i \in context.items \cap Shallow \cap There
  /\ early[i] = NoEntry
  /\ LET r == FromScore(evidence[i], "prescan", "Delete")
     IN early' = [early EXCEPT ![i] = r] /\ scored' = NewCandidates(i, r)
  /\ UNCHANGED <<evidence, index, checkpoint, feedback, handed, scan_pc, context, fresh,
                 owed_vars>>

\* The best candidates of the pre-scan go out at once if the channel takes them, the others
\* are forgotten.  The pass goes on with the walk, or ends: out of time, or enough found.
DispatchPriority ==
  /\ scan_pc = "prescan"
  /\ \/ \E t \in Top(scored) : handed' = handed \cup t
     \/ UNCHANGED handed
  /\ scored' = {}
  /\ scan_pc' \in {"walk", "leave"}
  /\ UNCHANGED <<evidence, index, checkpoint, feedback, context, early, fresh, owed_vars>>

\* The walk scores an entry and leaves a record of it whatever the verdict.
ScoreItem(i, v) ==
  /\ scan_pc = "walk"
  /\ i \in context.items \cap There
  /\ fresh[i] = NoEntry
  /\ LET r == FromScore(evidence[i], "walk", v)
     IN /\ fresh' = [fresh EXCEPT ![i] = r]
        /\ scored' = IF v = "Delete" THEN NewCandidates(i, r) ELSE scored
  /\ UNCHANGED <<evidence, index, checkpoint, feedback, handed, scan_pc, context, early,
                 owed_vars>>

DispatchScored ==
  /\ scan_pc \in {"walk", "flush"}
  /\ scored # {}
  /\ \E t \in Top(scored) : handed' = handed \cup t /\ scored' = scored \ t
  /\ UNCHANGED <<evidence, index, checkpoint, feedback, scan_pc, context, early, fresh,
                 owed_vars>>

(***************************************************************************)
(* A pass ends.                                                            *)
(***************************************************************************)

Stored(old, new) == IF new = NoEntry THEN old ELSE Upsert(old, new)

\* persist_scanner_index_records, after the walk, or when the pass ends with the pre-scan:
\* the records of the pre-scan first, then those of the walk.
Persist ==
  /\ scan_pc \in {"walk", "leave"}
  /\ LET idx == [index EXCEPT !.records = [i \in Items |->
                   Stored(Stored(@[i], early[i]), fresh[i])]]
     IN IF early = NoRecords /\ fresh = NoRecords
        THEN UNCHANGED <<index, checkpoint, owed_saved>>
        ELSE index' = idx /\ Save(idx, owed)
  /\ early' = NoRecords /\ fresh' = NoRecords
  /\ \/ scan_pc' = "idle" /\ context' = NoContext /\ scored' = {}
     \/ scan_pc = "walk" /\ scan_pc' = "flush" /\ UNCHANGED <<context, scored>>
  /\ UNCHANGED <<evidence, feedback, handed, owed>>

\* Nothing left, no progress, or the deadline of the flush.
EndPass ==
  /\ scan_pc = "flush"
  /\ scan_pc' = "idle" /\ context' = NoContext /\ scored' = {}
  /\ UNCHANGED <<evidence, index, checkpoint, feedback, handed, early, fresh, owed_vars>>

(***************************************************************************)
(* The executor, other processes, time and crashes.                        *)
(***************************************************************************)

\* A candidate is removed, turned down without feedback, or fails; the feedback is a
\* try_send.
Finish ==
  /\ \E i \in handed :
       /\ handed' = handed \ {i}
       /\ \/ evidence' = [evidence EXCEPT ![i] = -1] /\ UNCHANGED feedback
          \/ UNCHANGED <<evidence, feedback>>
          \/ /\ Cardinality(feedback) < FeedbackCap
             /\ feedback' = feedback \cup {i}
             /\ UNCHANGED evidence
  /\ UNCHANGED <<index, checkpoint, pass_vars, owed_vars>>

\* An entry is written to.
Touch ==
  /\ \E i \in There :
       /\ evidence[i] < MaxEvidence[i]
       /\ evidence' = [evidence EXCEPT ![i] = @ + 1]
       /\ owed' = [owed EXCEPT ![i] = 0] /\ owed_saved' = [owed_saved EXCEPT ![i] = 0]
  /\ UNCHANGED <<index, checkpoint, feedback, handed, pass_vars>>

Sooner(n) == IF n > 0 THEN n - 1 ELSE 0
Elapsed(r) == [r EXCEPT !.until = Sooner(@)]
Ticked(idx) == [idx EXCEPT !.records = [i \in Items |-> Elapsed(@[i])]]

TimePasses ==
  /\ index' = Ticked(index) /\ checkpoint' = Ticked(checkpoint)
  /\ owed' = [i \in Items |-> Sooner(owed[i])]
  /\ owed_saved' = [i \in Items |-> Sooner(owed_saved[i])]
  /\ UNCHANGED <<evidence, feedback, handed, pass_vars>>

\* The daemon restarts, or only the scanner thread does, which leaves the executor and the
\* feedback channel alone.  The checkpoint may turn out to be unreadable.
Restart ==
  /\ index' = NoIndex
  /\ \/ checkpoint' = NoIndex /\ owed' = NothingOwed /\ owed_saved' = NothingOwed
     \/ UNCHANGED <<checkpoint, owed_saved>> /\ owed' = owed_saved
  /\ \/ UNCHANGED <<feedback, handed>>
     \/ feedback' = {} /\ handed' = {}
  /\ scan_pc' = "idle" /\ context' = NoContext /\ scored' = {}
  /\ early' = NoRecords /\ fresh' = NoRecords
  /\ UNCHANGED evidence

(***************************************************************************)
(* Specification.                                                          *)
(***************************************************************************)

ScanInit ==
  /\ evidence = [i \in Items |-> 0]
  /\ index = NoIndex /\ checkpoint = NoIndex
  /\ feedback = {} /\ handed = {}
  /\ scan_pc = "idle" /\ context = NoContext /\ scored = {}
  /\ early = NoRecords /\ fresh = NoRecords
  /\ owed = NothingOwed /\ owed_saved = NothingOwed

ScanNext ==
  \/ BeginPass \/ DispatchIndexed \/ DispatchPriority \/ DispatchScored \/ Persist \/ EndPass
  \/ \E i \in Items : PreScore(i) \/ \E v \in Verdicts : ScoreItem(i, v)
  \/ Finish \/ Touch \/ TimePasses \/ Restart

ScanSpec == ScanInit /\ [][ScanNext]_scan_vars

(***************************************************************************)
(* Properties.                                                             *)
(***************************************************************************)

Entries == [evidence : Int, source : Sources \cup {"none"},
            state : {"None", "Safe", "Failed", "Vetoed"}, fails : 0 .. MaxFails, until : Nat]
Indexes == [context : Contexts \cup {NoContext}, records : [Items -> Entries], loaded : BOOLEAN]

\* Every variable stays in its domain; no more feedback is under way than the channel holds.
ScanTypeOK ==
  /\ evidence \in [Items -> Int]
  /\ \A i \in Items : evidence[i] \in -1 .. MaxEvidence[i]
  /\ index \in Indexes
  /\ checkpoint \in Indexes
  /\ feedback \in SUBSET Items /\ Cardinality(feedback) <= FeedbackCap
  /\ handed \in SUBSET Items
  /\ scan_pc \in {"idle", "index", "prescan", "walk", "leave", "flush"}
  /\ context \in Contexts \cup {NoContext}
  /\ early \in [Items -> Entries] /\ fresh \in [Items -> Entries]
  /\ scored \in SUBSET Items
  /\ owed \in [Items -> Nat]
  /\ owed_saved \in [Items -> Nat]

\* An item that failed is not handed to the executor again while its backoff lasts and
\* nothing about it has changed (docs/scanner-redesign-event-driven.md:187).  The code does
\* not keep this: pre-scan and walk measure a directory differently, so the record of one
\* does not match the other's, is not held back by its cooldown and replaces it.
BackoffHolds == [][ \A i \in handed' \ handed : owed[i] = 0 ]_scan_vars

\* An item out of the pre-scan's reach that failed is not handed to the executor again while
\* its backoff lasts and its evidence is the same: not from the index, not from the walk, not
\* after it was scored again, and not after a restart if the backoff had been saved.
DeepBackoffHolds == [][ \A i \in handed' \ handed : i \notin Shallow => owed[i] = 0 ]_scan_vars

\* A pass hands over only items under the roots of its own request, although the index
\* and its one checkpoint outlive the request they were filled for.
DispatchWithinRoots == [][ handed' \ handed \subseteq context.items ]_scan_vars

=============================================================================
