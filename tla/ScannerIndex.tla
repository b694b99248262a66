---------------------------- MODULE ScannerIndex ----------------------------
(***************************************************************************)
(* The persistent candidate index of the v2 scanner (scanner/index.rs) as  *)
(* operators on its value: records by identity, the context they were      *)
(* found in, failure backoff, checkpoints.                                 *)
(*                                                                         *)
(* A record keeps its evidence: mtime and ctime (one number here), and the *)
(* size and the prune decision, which depend on who has scored the item.   *)
(* The pre-scan takes a directory for 100 MiB at least and knows of no     *)
(* opaque tree; the walk adds up its content and classifies it.  A record  *)
(* further keeps the state its last score left it in, its failures and the *)
(* ticks its cooldown still lasts.  The event generation is left out: the  *)
(* daemon compares it with nothing.                                        *)
(***************************************************************************)
EXTENDS Integers, FiniteSets

CONSTANTS
  Items,         \* identities of the entries the scans meet
  Contexts,      \* what the fingerprints of roots and of the whole scanner config tell apart
  MaxFails       \* bound: fail counts that are told apart

\* The items under the roots, repeat_deletion_base_cooldown_secs and its max.
AnyContext == [items : SUBSET Items, base : Nat \ {0}, max : Nat \ {0}]

ASSUME IndexAssumption == Contexts \subseteq AnyContext /\ MaxFails \in Nat \ {0}

Sources == {"prescan", "walk"}
Verdicts == {"Delete", "Review", "Vetoed"}

Smaller(a, b) == IF a <= b THEN a ELSE b

NoContext == [items |-> {}, base |-> 0, max |-> 0]
NoEntry == [evidence |-> -1, source |-> "none", state |-> "None", fails |-> 0, until |-> 0]
NoIndex == [context |-> NoContext, records |-> [i \in Items |-> NoEntry], loaded |-> FALSE]

\* ScannerCandidateIndex::new
EmptyIndex(c) == [NoIndex EXCEPT !.context = c, !.loaded = TRUE]

\* CandidateIndexRecord::from_candidate_score, safety_state_from_score
FromScore(evidence, source, verdict) ==
  [evidence |-> evidence, source |-> source,
   state |-> IF verdict = "Vetoed" THEN "Vetoed" ELSE "Safe", fails |-> 0, until |-> 0]

\* evidence_matches
Matches(r, s) == r.evidence = s.evidence /\ r.source = s.source

\* in_cooldown
Cooling(index, i) == index.records[i].until > 0

\* candidate_in_cooldown
CandidateCooling(index, i, r) ==
  Matches(index.records[i], r) /\ Cooling(index, i)

\* Mutant of Upsert: the new record replaces the old one.
UpsertFresh(old, new) == new

\* upsert: the same evidence keeps failures, cooldown and the state Failed.
Upsert(old, new) ==
  IF ~Matches(old, new) THEN new
  ELSE [new EXCEPT !.fails = old.fails, !.until = old.until,
                   !.state = IF old.state = "Failed" THEN "Failed" ELSE @]

\* The cooldown after the n-th failure, under the config of c.
Backoff(n, c) == Smaller(c.base * 2 ^ (n - 1), c.max)

\* record_failure; an identity without a record is ignored.
RecordFailure(r, c) ==
  IF r = NoEntry THEN r
  ELSE LET n == Smaller(r.fails + 1, MaxFails) IN
       [r EXCEPT !.fails = n, !.state = "Failed", !.until = Backoff(n, c)]

\* ranked_candidate_scores before the limit.
Ranked(index) ==
  {i \in Items : index.records[i].state \in {"Safe", "Failed"} /\ ~Cooling(index, i)}

\* Mutant of LoadCheckpoint: the context is not compared.
LoadAnyContext(checkpoint, c) ==
  IF checkpoint.loaded THEN [checkpoint EXCEPT !.context = c] ELSE EmptyIndex(c)

\* load_checkpoint: a missing, corrupt or foreign checkpoint gives an empty index.
LoadCheckpoint(checkpoint, c) ==
  IF checkpoint.loaded /\ checkpoint.context = c THEN checkpoint ELSE EmptyIndex(c)

=============================================================================
