---------------------------- MODULE MCScanCursor ----------------------------
(* ScanCursor for TLC: a below root r with child b, which holds the artifact c. *)
EXTENDS ScanCursor, TLC

CONSTANTS r, a, b, c

MCParent == (a :> r) @@ (b :> a) @@ (c :> b)
=============================================================================
