------------------------ MODULE MCIndexedScanHistory ------------------------
(* IndexedScanHistory for TLC, with the contexts of MCIndexedScan. *)
EXTENDS IndexedScanHistory

CONSTANTS a, b

MCContexts == {[items |-> {a, b}, base |-> 1, max |-> 2],
               [items |-> {b}, base |-> 2, max |-> 2]}
MCMaxEvidence == [i \in Items |-> IF i = a THEN 1 ELSE 0]
=============================================================================
