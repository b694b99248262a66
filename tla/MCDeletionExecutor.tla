------------------------- MODULE MCDeletionExecutor -------------------------
(* DeletionExecutor for TLC: what was scored as i1 may have become anything since. *)
EXTENDS DeletionExecutor, TLC

CONSTANT i1

MCCandidates == [path : Paths, identity : {i1}]

\* A reload changes the first cooldown, the longest one, or both.
MCCooldowns == {[base |-> 1, max |-> 2], [base |-> 1, max |-> 1], [base |-> 2, max |-> 2]}

PathSymmetry == Permutations(Paths)
=============================================================================
