------------------------- MODULE IndexedScanHistory -------------------------
(* IndexedScan with what the last score said of each item. *)
EXTENDS IndexedScan

VARIABLE doubted   \* history: items whose last score did not say Delete

HistoryInit == ScanInit /\ doubted = {}

HistoryNext ==
  \/ /\ BeginPass \/ DispatchIndexed \/ DispatchPriority \/ DispatchScored \/ Persist \/ EndPass
        \/ Finish \/ Touch \/ TimePasses \/ Restart
     /\ UNCHANGED doubted
  \/ \E i \in Items : PreScore(i) /\ doubted' = doubted \ {i}
  \/ \E i \in Items, v \in Verdicts :
       /\ ScoreItem(i, v)
       /\ doubted' = IF v = "Delete" THEN doubted \ {i} ELSE doubted \cup {i}

HistorySpec == HistoryInit /\ [][HistoryNext]_<<scan_vars, doubted>>

\* Only items whose last score said Delete are handed to the executor: what scored as
\* Review is left to the operator (README.md on the three-way decision).
OnlyDeletesAreHandedOver == [][ (handed' \ handed) \cap doubted = {} ]_<<scan_vars, doubted>>

=============================================================================
