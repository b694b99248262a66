----------------------------- MODULE Traversal ------------------------------
(***************************************************************************)
(* What a scan pass may expect of the walker: entries it is allowed to     *)
(* see, each once, and an end.  Unless the pass itself breaks off, the end *)
(* comes after every entry it has to see.                                  *)
(***************************************************************************)
EXTENDS ScanTree

CONSTANT Excluded      \* excluded_paths of the walk

VARIABLES
  seen,                \* directories reported to the pass
  outcome              \* open, complete or cut

Init == seen = {} /\ outcome = "open"

Report ==
  /\ outcome = "open"
  /\ \E d \in MayReport(Excluded) \ seen : seen' = seen \cup {d}
  /\ UNCHANGED outcome

Finish ==
  /\ outcome = "open"
  /\ \/ MustReport(Excluded) \subseteq seen /\ outcome' = "complete"
     \/ outcome' = "cut"
  /\ UNCHANGED seen

Next == Report \/ Finish

Spec == Init /\ [][Next]_<<seen, outcome>> /\ WF_<<seen, outcome>>(Finish)

=============================================================================
