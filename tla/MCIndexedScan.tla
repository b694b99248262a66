--------------------------- MODULE MCIndexedScan ----------------------------
(* IndexedScan for TLC: requests for the root of a under two configurations, and for that *)
(* of b, which the pre-scan reaches.                                                      *)
EXTENDS IndexedScan

CONSTANTS a, b

MCContexts == {[items |-> {a}, base |-> 1, max |-> 4], [items |-> {a}, base |-> 2, max |-> 2],
               [items |-> {b}, base |-> 1, max |-> 2]}
MCMaxEvidence == [i \in Items |-> IF i = a THEN 1 ELSE 0]
=============================================================================
