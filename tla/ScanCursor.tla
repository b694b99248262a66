----------------------------- MODULE ScanCursor -----------------------------
(***************************************************************************)
(* The incremental scan cursor (ScanCursor in daemon/loop_main.rs): after  *)
(* a pass that ran out of its budget the directories it met without        *)
(* classified children are left out of the next walks for a while.  A walk *)
(* is what Traversal promises; the limit on the size of the cursor is left *)
(* out.                                                                    *)
(***************************************************************************)
EXTENDS ScanTree

CONSTANTS
  Classified,     \* directories the pattern registry knows, none of them a root
  Ttl             \* ticks a directory counts as barren, at least one

VARIABLES
  barren,         \* barren_dirs: age of each entry, -1 for none
  excluded,       \* what the running walk leaves out
  visited,        \* visited_dirs
  walking,        \* a pass is under way
  met             \* history: directories visited since the cursor was last cleared

vars == <<barren, excluded, visited, walking, met>>

\* dirs_with_candidates
WithCandidates == {Parent[d] : d \in visited \cap Classified}

\* barren_exclusions
BeginPass ==
  /\ ~walking
  /\ walking' = TRUE /\ visited' = {}
  /\ excluded' = {d \in Dirs : barren[d] \in 0 .. Ttl - 1}
  /\ UNCHANGED <<barren, met>>

\* An entry of the walk.
Visit ==
  /\ walking
  /\ \E d \in MayReport(excluded) \ visited :
       visited' = visited \cup {d} /\ met' = met \cup {d}
  /\ UNCHANGED <<barren, excluded, walking>>

\* update after a pass that ran out of its budget.
TimeOut ==
  /\ walking
  /\ barren' = [d \in Dirs |-> IF d \in WithCandidates THEN -1
                               ELSE IF barren[d] \in 0 .. Ttl - 1 THEN barren[d]
                               ELSE IF d \in visited /\ barren[d] = -1 THEN 0
                               ELSE -1]
  /\ walking' = FALSE
  /\ UNCHANGED <<excluded, visited, met>>

\* update after a pass that saw the walk to its end.
Complete ==
  /\ walking
  /\ MustReport(excluded) \subseteq visited
  /\ barren' = [d \in Dirs |-> -1]
  /\ walking' = FALSE /\ met' = {}
  /\ UNCHANGED <<excluded, visited>>

Tick ==
  /\ barren' = [d \in Dirs |-> IF barren[d] \in 0 .. Ttl - 1 THEN barren[d] + 1 ELSE barren[d]]
  /\ UNCHANGED <<excluded, visited, walking, met>>

Init ==
  /\ barren = [d \in Dirs |-> -1] /\ excluded = {} /\ visited = {}
  /\ walking = FALSE /\ met = {}

Next == BeginPass \/ Visit \/ TimeOut \/ Complete \/ Tick

Spec == Init /\ [][Next]_vars

\* When a walk reaches its end, it and the passes that ran out of time since the cursor was
\* cleared have between them met every directory there is to meet: the cursor resumes
\* where the previous scan left off.
ResumeCoversRest == [][ Complete => MustReport({}) \subseteq met ]_vars

=============================================================================
