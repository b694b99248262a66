----------------------- MODULE DaemonPipelineProofs ------------------------
(***************************************************************************)
(* Proofs about DaemonPipeline: types and channel capacities, at most one  *)
(* removal after the shutdown flag, the report of dropped log events, and  *)
(* that an urgent request gets into a full scan channel.                   *)
(***************************************************************************)
EXTENDS DaemonPipeline, TLAPS

(***************************************************************************)
(* The inductive invariant.                                                *)
(***************************************************************************)

\* A removal under way has its candidate still counted, and after the flag rose none
\* follows the one that was under way.
RemovalsStop ==
  /\ executor = "remove" => remaining > 0
  /\ late > 0 => late = 1 /\ shutdown_flag /\ executor # "remove"

\* Until the sentinel is sent nothing is owed and the logger cannot have seen it; from
\* then on what is owed was counted before.
DropsAreCounted ==
  /\ owed <= dropped
  /\ mon \notin {"join_logger", "done"} =>
       owed = 0 /\ logger # "closed" /\ \A i \in 1 .. Len(log_q) : log_q[i] = "event"
  /\ DropsAreReported

\* While enqueue_scan_request is at work the channel is full or the scanner took from it,
\* and has room after the oldest request was taken out.
SwapHolds ==
  /\ mon \in {"swap", "fill"} => pend \in Requests
  /\ mon = "swap" => taken \/ Len(scan_q) = ScanCap
  /\ mon = "fill" => Len(scan_q) < ScanCap

IInv == TypeOK /\ RemovalsStop /\ DropsAreCounted /\ SwapHolds

(***************************************************************************)
(* Types.                                                                  *)
(***************************************************************************)

\* The assumptions on the constants, one by one.
LEMMA Caps ==
  /\ ScanCap \in Nat /\ ScanCap > 0 /\ DelCap \in Nat /\ DelCap > 0
  /\ ReportCap \in Nat /\ ReportCap > 0 /\ LogCap \in Nat /\ LogCap > 0
  /\ MaxDrops \in Nat /\ MaxDrops > 0
BY CapAssumption, BoundAssumption

\* A request has a limit and is not the absent one.
LEMMA LimitType == ASSUME NEW r \in Requests PROVE r.limit \in Nat /\ r # NoRequest
<1>1. r.limit \in Limits /\ r.kind \in Kinds
  BY DEF Requests
<1>2. NoRequest.kind \notin Kinds
  BY DEF NoRequest, Kinds
<1> QED BY <1>1, <1>2, CapAssumption

\* A channel with one more message, and without its oldest.
LEMMA Queued ==
  ASSUME NEW S, NEW q \in Seq(S), NEW x \in S
  PROVE  /\ Append(q, x) \in Seq(S) /\ Len(Append(q, x)) = Len(q) + 1
         /\ Len(q) \in Nat
         /\ q # << >> => Tail(q) \in Seq(S) /\ Len(Tail(q)) = Len(q) - 1
OBVIOUS

\* The first state.
LEMMA InitHolds == Init => IInv
<1> SUFFICES ASSUME Init PROVE IInv
  OBVIOUS
<1>1. senders \in BOOLEAN /\ shutdown_flag \in BOOLEAN /\ taken \in BOOLEAN
  BY Zenon DEF Init
<1>2. TypeOK
  BY <1>1, Caps DEF Init, TypeOK, MonitorLoop
<1> QED BY <1>2, Caps DEF Init, IInv, RemovalsStop, DropsAreCounted, DropsAreReported, SwapHolds

\* The flags of the threads are Boolean.
LEMMA StepFlags ==
  ASSUME TypeOK, [Next]_vars
  PROVE  senders' \in BOOLEAN /\ shutdown_flag' \in BOOLEAN /\ taken' \in BOOLEAN
<1> USE DEF Next, vars, MonitorStep, TickStart, Offer, OffersDone, TakeStale, SendFresh,
     DrainReports, SkipCheck, CheckWorkers, StopWorkers, Join, LogStopped, JoinLogger, SendSentinel,
     ScannerStep, ScannerReceive, ScannerExit, Prescan, ReportTimedOut, DispatchBatch, WalkEnd,
     FlushEnd, ScannerPanic, ScannerUnchanged, ExecutorStep, ExecutorReceive, ExecutorExit,
     CheckCandidate, RemoveCandidate, BatchDone, ExecutorPanic, ExecutorUnchanged, LoggerStep,
     LoggerReceive, LoggerPanic, WorkerLogs, LoggerUnchanged, Terminate, SignalsUnchanged
<1>1. senders \in BOOLEAN /\ shutdown_flag \in BOOLEAN /\ taken \in BOOLEAN
  BY DEF TypeOK
<1>2. senders' \in {senders, FALSE}
  BY Zenon
<1>3. shutdown_flag' \in {shutdown_flag, TRUE}
  BY Zenon
<1>4. taken' \in {taken, FALSE} \/ taken' = (mon \in {"swap", "fill"})
  BY Zenon
<1>5. (mon \in {"swap", "fill"}) \in BOOLEAN
  OBVIOUS
<1> HIDE DEF Next
<1> QED BY <1>1, <1>2, <1>3, <1>4, <1>5, Zenon

\* Every operation keeps the types and the capacities.
LEMMA StepType ==
  ASSUME TypeOK, RemovalsStop, SwapHolds, [Next]_vars
  PROVE  TypeOK'
<1>0. senders' \in BOOLEAN /\ shutdown_flag' \in BOOLEAN /\ taken' \in BOOLEAN
  BY StepFlags
<1> USE Caps DEF TypeOK, MonitorLoop, MonitorStop, channels, scan_vars, exec_vars, log_vars
<1>1. CASE TickStart
  BY <1>0, <1>1 DEF TickStart
<1>2. CASE OffersDone
  BY <1>0, <1>2 DEF OffersDone
<1>3. CASE SkipCheck
  BY <1>0, <1>3 DEF SkipCheck
<1>4. CASE StopWorkers
  BY <1>0, <1>4 DEF StopWorkers
<1>5. CASE Join
  BY <1>0, <1>5 DEF Join, JoinWorker
<1>6. CASE JoinLogger
  BY <1>0, <1>6 DEF JoinLogger
<1>7. CASE SendSentinel
  <2>1. log_q' \in Seq({"event", "Shutdown"}) /\ Len(log_q') <= LogCap
    <3>1. CASE logger = "run"
      <4>1. log_q' = Append(log_q, "Shutdown") /\ Len(log_q) < LogCap
        BY <1>7, <3>1 DEF SendSentinel
      <4>2. "Shutdown" \in {"event", "Shutdown"}
        OBVIOUS
      <4> QED BY <4>1, <4>2, Queued
    <3>2. CASE logger # "run"
      BY <1>7, <3>2 DEF SendSentinel
    <3> QED BY <3>1, <3>2
  <2> QED BY <1>0, <1>7, <2>1 DEF SendSentinel
<1>8. CASE ScannerReceive
  BY <1>0, <1>8, LimitType DEF ScannerReceive, ScannerUnchanged
<1>9. CASE ScannerExit
  BY <1>0, <1>9 DEF ScannerExit, ScannerUnchanged
<1>10. CASE Prescan
  <2>1. scanner' \in {"idle", "gone", "prescan", "blocked", "walk"} /\ max_batch' \in Nat
    BY <1>10 DEF Prescan
  <2>2. report_q' \in 0 .. ReportCap
    BY <1>10 DEF Prescan, TryReport, Least
  <2>3. Dispatch \/ UNCHANGED del_q
    BY <1>10 DEF Prescan
  <2>4. del_q' \in Seq(Nat \ {0}) /\ Len(del_q') <= DelCap
    <3>1. CASE Dispatch
      <4>1. PICK n \in 1 .. max_batch : del_q' = Append(del_q, n)
        BY <3>1 DEF Dispatch
      <4>2. n \in Nat \ {0} /\ Len(del_q) < DelCap
        BY <3>1 DEF Dispatch
      <4> QED BY <4>1, <4>2, Queued
    <3>2. CASE UNCHANGED del_q
      BY <3>2
    <3> QED BY <2>3, <3>1, <3>2
  <2> QED BY <1>0, <1>10, <2>1, <2>2, <2>4 DEF Prescan, ScannerUnchanged
<1>11. CASE ReportTimedOut
  BY <1>0, <1>11 DEF ReportTimedOut, ScannerUnchanged
<1>12. CASE DispatchBatch
  BY <1>0, <1>12 DEF DispatchBatch, ScannerUnchanged, Dispatch
<1>13. CASE WalkEnd
  BY <1>0, <1>13 DEF WalkEnd, ScannerUnchanged, TryReport, Least
<1>14. CASE FlushEnd
  BY <1>0, <1>14 DEF FlushEnd, ScannerUnchanged
<1>15. CASE ScannerPanic
  BY <1>0, <1>15 DEF ScannerPanic, ScannerUnchanged
<1>16. CASE ExecutorReceive
  BY <1>0, <1>16 DEF ExecutorReceive, ExecutorUnchanged
<1>17. CASE ExecutorExit
  BY <1>0, <1>17 DEF ExecutorExit, ExecutorUnchanged
<1>18. CASE CheckCandidate
  BY <1>0, <1>18 DEF CheckCandidate, ExecutorUnchanged
<1>19. CASE RemoveCandidate
  BY <1>0, <1>19 DEF RemoveCandidate, ExecutorUnchanged, RemovalsStop, Least
<1>20. CASE BatchDone
  BY <1>0, <1>20 DEF BatchDone, ExecutorUnchanged, TryReport, Least
<1>21. CASE ExecutorPanic
  BY <1>0, <1>21 DEF ExecutorPanic, ExecutorUnchanged
<1>22. CASE LoggerReceive
  BY <1>0, <1>22 DEF LoggerReceive, LoggerUnchanged
<1>23. CASE LoggerPanic
  BY <1>0, <1>23 DEF LoggerPanic, LoggerUnchanged
<1>24. CASE WorkerLogs
  <2>1. /\ log_q' \in Seq({"event", "Shutdown"}) /\ Len(log_q') <= LogCap
        /\ dropped' \in 0 .. MaxDrops
    <3>1. CASE logger # "run"
      BY <1>24, <3>1 DEF WorkerLogs, LogSend
    <3>2. CASE logger = "run" /\ Len(log_q) < LogCap
      <4>1. log_q' = Append(log_q, "event") /\ dropped' = dropped
        BY <1>24, <3>2 DEF WorkerLogs, LogSend
      <4>2. "event" \in {"event", "Shutdown"}
        OBVIOUS
      <4> QED BY <3>2, <4>1, <4>2, Queued
    <3>3. CASE logger = "run" /\ ~(Len(log_q) < LogCap)
      BY <1>24, <3>3 DEF WorkerLogs, LogSend, Least
    <3> QED BY <3>1, <3>2, <3>3
  <2> QED BY <1>0, <1>24, <2>1 DEF WorkerLogs, LoggerUnchanged
<1>25. CASE Terminate
  BY <1>0, <1>25 DEF Terminate, SignalsUnchanged
<1>26. CASE CheckWorkers
  BY <1>0, <1>26 DEF CheckWorkers
<1>27. CASE TakeStale
  <2>1. scan_q' \in Seq(Requests) /\ Len(scan_q') <= ScanCap
    <3>1. CASE scan_q = << >>
      BY <1>27, <3>1 DEF TakeStale
    <3>2. CASE scan_q # << >>
      <4>1. scan_q' = Tail(scan_q)
        BY <1>27, <3>2 DEF TakeStale
      <4>2. scan_q \in Seq(Requests) /\ Len(scan_q) <= ScanCap /\ Len(scan_q) \in Nat
        OBVIOUS
      <4>3. Tail(scan_q) \in Seq(Requests) /\ Len(Tail(scan_q)) = Len(scan_q) - 1
        BY <3>2, <4>2
      <4> QED BY <4>1, <4>2, <4>3
    <3> QED BY <3>1, <3>2
  <2>2. mon' \in {"offer", "fill"}
    BY <1>27 DEF TakeStale
  <2> QED BY <1>0, <1>27, <2>1, <2>2 DEF TakeStale
<1>28. CASE SendFresh
  <2>1. scan_q' \in Seq(Requests) /\ Len(scan_q') <= ScanCap
    BY <1>28, Queued DEF SendFresh, SwapHolds
  <2> QED BY <1>0, <1>28, <2>1 DEF SendFresh
<1>29. CASE DrainReports
  <2>1. scan_q' \in Seq(Requests) /\ Len(scan_q') <= ScanCap
    <3>1. CASE scan_q' = scan_q
      BY <3>1
    <3>2. CASE scan_q' # scan_q
      <4>1. PICK l \in Limits : scan_q' = Append(scan_q, [kind |-> "Normal", limit |-> l])
        BY <1>29, <3>2 DEF DrainReports
      <4>2. [kind |-> "Normal", limit |-> l] \in Requests
        BY DEF Requests, Kinds
      <4>3. Len(scan_q) < ScanCap
        BY <1>29, <3>2 DEF DrainReports
      <4> QED BY <4>1, <4>2, <4>3, Queued
    <3> QED BY <3>1, <3>2
  <2> QED BY <1>0, <1>29, <2>1 DEF DrainReports
<1>30. CASE Offer
  <2>1. PICK r \in Requests :
          /\ SendScanRequest(r)
          /\ pend' = IF r.kind = "Urgent" THEN r ELSE NoRequest
    BY <1>30 DEF Offer
  <2>2. mon' \in {"offer", "swap"} /\ scan_q' \in {scan_q, Append(scan_q, r)}
    BY <2>1, Zenon DEF SendScanRequest
  <2>3. scan_q' \in Seq(Requests) /\ Len(scan_q') <= ScanCap
    <3>1. CASE scan_q' = scan_q
      BY <3>1
    <3>2. CASE scan_q' # scan_q
      BY <2>1, <3>2, Queued DEF SendScanRequest
    <3> QED BY <3>1, <3>2
  <2>4. pend' \in Requests \cup {NoRequest}
    BY <2>1
  <2> QED BY <1>0, <1>30, <2>2, <2>3, <2>4 DEF Offer
<1>31. CASE LogStopped
  BY <1>0, <1>31 DEF LogStopped, Least
<1>32. CASE UNCHANGED vars
  BY <1>0, <1>32 DEF vars
<1> QED BY <1>1, <1>2, <1>3, <1>4, <1>5, <1>6, <1>7, <1>8, <1>9, <1>10, <1>11, <1>12, <1>13, <1>14, <1>15, <1>16, <1>17, <1>18, <1>19, <1>20, <1>21, <1>22, <1>23, <1>24, <1>25, <1>26, <1>27, <1>28, <1>29, <1>30, <1>31, <1>32, Zenon DEF Next, MonitorStep, ScannerStep,
            ExecutorStep, LoggerStep

(***************************************************************************)
(* Removals after the shutdown flag.                                       *)
(***************************************************************************)

\* Nothing but a removal counts one, nothing but the check of a candidate without the flag
\* starts one, and the flag is never taken back.
LEMMA StepRemovals ==
  ASSUME TypeOK, RemovalsStop, [Next]_vars
  PROVE  RemovalsStop'
<1> USE DEF channels, scan_vars, exec_vars, log_vars
<1>1. CASE RemoveCandidate
  <2>1. late = 0 /\ remaining > 0 /\ executor' = "check"
    BY <1>1 DEF RemoveCandidate, RemovalsStop, TypeOK
  <2>2. shutdown_flag' = shutdown_flag
    BY <1>1 DEF RemoveCandidate, ExecutorUnchanged
  <2>3. CASE shutdown_flag
    BY <1>1, <2>1, <2>2, <2>3 DEF RemoveCandidate, RemovalsStop, Least
  <2>4. CASE ~shutdown_flag
    BY <1>1, <2>1, <2>2, <2>4 DEF RemoveCandidate, RemovalsStop
  <2> QED BY <2>3, <2>4
<1>2. CASE CheckCandidate
  <2>1. shutdown_flag' = shutdown_flag /\ late' = late
    BY <1>2 DEF CheckCandidate, ExecutorUnchanged
  <2>2. CASE executor' = "remove"
    BY <1>2, <2>1, <2>2 DEF CheckCandidate, RemovalsStop
  <2>3. CASE executor' # "remove"
    BY <2>1, <2>3 DEF RemovalsStop
  <2> QED BY <2>2, <2>3
<1>3. CASE CheckWorkers
  BY <1>3 DEF CheckWorkers, RemovalsStop
<1>4. CASE JoinLogger
  BY <1>4 DEF JoinLogger, RemovalsStop
<1>5. CASE ExecutorReceive
  BY <1>5 DEF ExecutorReceive, ExecutorUnchanged, RemovalsStop
<1>6. CASE ExecutorExit \/ BatchDone \/ ExecutorPanic
  BY <1>6 DEF ExecutorExit, BatchDone, ExecutorPanic, ExecutorUnchanged, RemovalsStop
<1>7. CASE /\ UNCHANGED <<executor, remaining, late>>
           /\ shutdown_flag' = shutdown_flag \/ shutdown_flag' = TRUE
  BY <1>7 DEF RemovalsStop
<1>8. CASE \/ TickStart \/ Offer \/ OffersDone \/ TakeStale \/ SendFresh \/ DrainReports
           \/ SkipCheck \/ StopWorkers \/ Join \/ LogStopped \/ SendSentinel \/ Terminate
  BY <1>7, <1>8, Zenon DEF TickStart, Offer, OffersDone, TakeStale, SendFresh, DrainReports, SkipCheck,
     StopWorkers, Join, LogStopped, SendSentinel, Terminate, SignalsUnchanged
<1>9. CASE ScannerStep
  BY <1>7, <1>9, Zenon DEF ScannerStep, ScannerReceive, ScannerExit, Prescan, ReportTimedOut,
     DispatchBatch, WalkEnd, FlushEnd, ScannerPanic, ScannerUnchanged
<1>10. CASE LoggerStep \/ WorkerLogs \/ UNCHANGED vars
  BY <1>7, <1>10, Zenon DEF LoggerStep, LoggerReceive, LoggerPanic, WorkerLogs, LoggerUnchanged, vars
<1> QED BY <1>1, <1>2, <1>3, <1>4, <1>5, <1>6, <1>8, <1>9, <1>10, Zenon
        DEF Next, MonitorStep, ExecutorStep

(***************************************************************************)
(* Dropped log events.                                                     *)
(***************************************************************************)

\* Before the sentinel is sent nothing is owed; the logger reports what was dropped until
\* then at the latest when it meets the sentinel, and the count never falls after it.
LEMMA StepDrops ==
  ASSUME TypeOK, DropsAreCounted, [Next]_vars
  PROVE  DropsAreCounted'
<1> USE DEF channels, scan_vars, exec_vars, log_vars, DropsAreCounted, DropsAreReported
<1> DEFINE Events(q) == \A i \in 1 .. Len(q) : q[i] = "event"
<1>1. CASE LogStopped
  <2>1. PICK n \in 0 .. LogCap :
          /\ log_q' = [i \in 1 .. Least(n + 1, LogCap) |-> "event"]
          /\ dropped' \in IF n < LogCap THEN {0} ELSE 1 .. MaxDrops
    BY <1>1 DEF LogStopped
  <2>2. Least(n + 1, LogCap) \in Nat
    BY Caps DEF Least
  <2>3. Events(log_q')
    BY <2>1, <2>2
  <2>4. owed = 0 /\ owed' = 0 /\ logger # "closed" /\ logger' = logger
    BY <1>1 DEF LogStopped
  <2>5. dropped' >= 0
    BY <2>1, Caps
  <2> QED BY <2>3, <2>4, <2>5
<1>2. CASE SendSentinel
  <2>1. owed' = dropped /\ dropped' = dropped /\ logger' = logger /\ logger # "closed"
    BY <1>2 DEF SendSentinel
  <2>2. mon' = "join_logger"
    BY <1>2 DEF SendSentinel
  <2> QED BY <2>1, <2>2 DEF TypeOK
<1>3. CASE LoggerReceive
  <2>1. /\ reported' = dropped /\ dropped' = dropped /\ owed' = owed /\ mon' = mon
        /\ log_q' = Tail(log_q) /\ log_q # << >>
    BY <1>3 DEF LoggerReceive, LoggerUnchanged
  <2>2. CASE mon \in {"join_logger", "done"}
    BY <2>1, <2>2 DEF TypeOK
  <2>3. CASE mon \notin {"join_logger", "done"}
    <3>1. log_q \in Seq({"event", "Shutdown"})
      BY DEF TypeOK
    <3>2. Head(log_q) = "event" /\ Events(Tail(log_q))
      BY <2>1, <2>3, <3>1
    <3>3. logger' = "run"
      BY <1>3, <3>2 DEF LoggerReceive
    <3> QED BY <2>1, <2>3, <3>2, <3>3
  <2> QED BY <2>2, <2>3
<1>4. CASE LoggerPanic
  BY <1>4 DEF LoggerPanic, LoggerUnchanged
<1>5. CASE WorkerLogs
  <2>1. UNCHANGED <<mon, logger, reported, owed>>
    BY <1>5 DEF WorkerLogs, LoggerUnchanged
  <2>2. dropped' >= dropped /\ dropped' \in Nat
    BY <1>5, Caps DEF WorkerLogs, LogSend, Least, TypeOK
  <2>3. owed' <= dropped'
    BY <2>1, <2>2 DEF TypeOK
  <2>4. Events(log_q) => Events(log_q')
    <3>1. CASE UNCHANGED log_q
      BY <3>1
    <3>2. CASE log_q' = Append(log_q, "event")
      BY <3>2 DEF TypeOK
    <3> QED BY <1>5, <3>1, <3>2 DEF WorkerLogs, LogSend
  <2> QED BY <2>1, <2>3, <2>4
<1>6. CASE UNCHANGED log_vars /\ (mon' \in {"join_logger", "done"} <=> mon \in {"join_logger", "done"})
  BY <1>6
<1>7. CASE JoinLogger
  BY <1>6, <1>7 DEF JoinLogger
<1>8. CASE \/ TickStart \/ Offer \/ OffersDone \/ TakeStale \/ SendFresh \/ DrainReports
           \/ SkipCheck \/ CheckWorkers \/ StopWorkers \/ Join
  <2>1. UNCHANGED log_vars
    BY <1>8, Zenon DEF TickStart, Offer, OffersDone, TakeStale, SendFresh, DrainReports, SkipCheck,
       CheckWorkers, StopWorkers, Join
  <2>2. mon \notin {"join_logger", "done"} /\ mon' \notin {"join_logger", "done"}
    BY <1>8 DEF TickStart, Offer, SendScanRequest, OffersDone, TakeStale, SendFresh, DrainReports,
       SkipCheck, CheckWorkers, StopWorkers, Join, JoinWorker
  <2> QED BY <1>6, <2>1, <2>2
<1>9. CASE ScannerStep \/ ExecutorStep \/ Terminate \/ UNCHANGED vars
  <2>1. UNCHANGED log_vars /\ mon' = mon
    BY <1>9, Zenon DEF ScannerStep, ScannerReceive, ScannerExit, Prescan, ReportTimedOut,
       DispatchBatch, WalkEnd, FlushEnd, ScannerPanic, ScannerUnchanged, ExecutorStep,
       ExecutorReceive, ExecutorExit, CheckCandidate, RemoveCandidate, BatchDone,
       ExecutorPanic, ExecutorUnchanged, Terminate, SignalsUnchanged, vars
  <2> QED BY <1>6, <2>1
<1> QED BY <1>1, <1>2, <1>3, <1>4, <1>5, <1>7, <1>8, <1>9, Zenon DEF Next, MonitorStep, LoggerStep

(***************************************************************************)
(* Urgent requests.                                                        *)
(***************************************************************************)

\* Between the steps of enqueue_scan_request only the scanner touches the channel, and it
\* only takes.
LEMMA StepSwap ==
  ASSUME TypeOK, SwapHolds, [Next]_vars
  PROVE  SwapHolds'
<1> USE DEF channels, scan_vars, exec_vars, log_vars
<1>1. CASE mon' \notin {"swap", "fill"}
  BY <1>1 DEF SwapHolds
<1>2. CASE Offer
  <2>1. PICK r \in Requests :
          /\ SendScanRequest(r)
          /\ pend' = IF r.kind = "Urgent" THEN r ELSE NoRequest
    BY <1>2 DEF Offer
  <2>2. CASE mon' = "swap"
    BY <2>1, <2>2 DEF SendScanRequest, SwapHolds
  <2>3. CASE mon' # "swap"
    BY <2>1, <2>3 DEF SendScanRequest, SwapHolds
  <2> QED BY <2>2, <2>3
<1>3. CASE TakeStale
  <2>1. mon = "swap" /\ pend' = pend
    BY <1>3 DEF TakeStale
  <2>2. CASE scan_q # << >>
    <3>1. mon' = "fill" /\ scan_q' = Tail(scan_q)
      BY <1>3, <2>2 DEF TakeStale
    <3>2. Len(scan_q') = Len(scan_q) - 1 /\ Len(scan_q) <= ScanCap /\ Len(scan_q) \in Nat
      BY <2>2, <3>1 DEF TypeOK
    <3> QED BY <2>1, <3>1, <3>2, Caps DEF SwapHolds
  <2>3. CASE scan_q = << >>
    BY <1>1, <1>3, <2>3 DEF TakeStale
  <2> QED BY <2>2, <2>3
<1>4. CASE ScannerReceive
  <2>1. mon' = mon /\ pend' = pend /\ scan_q # << >> /\ scan_q' = Tail(scan_q)
    BY <1>4 DEF ScannerReceive, ScannerUnchanged
  <2>2. Len(scan_q') = Len(scan_q) - 1 /\ Len(scan_q) <= ScanCap /\ Len(scan_q) \in Nat
    BY <2>1 DEF TypeOK
  <2>3. mon' = "swap" => taken'
    BY <1>4, <2>1 DEF ScannerReceive
  <2>4. Len(scan_q') < ScanCap
    BY <2>2, Caps
  <2>5. mon' \in {"swap", "fill"} => pend' \in Requests
    BY <2>1 DEF SwapHolds
  <2> QED BY <2>3, <2>4, <2>5, Zenon DEF SwapHolds
<1>5. CASE \/ TickStart \/ OffersDone \/ SendFresh \/ DrainReports \/ SkipCheck \/ CheckWorkers
           \/ StopWorkers \/ Join \/ LogStopped \/ JoinLogger \/ SendSentinel
  BY <1>1, <1>5 DEF TickStart, OffersDone, SendFresh, DrainReports, SkipCheck, CheckWorkers,
     StopWorkers, Join, JoinWorker, LogStopped, JoinLogger, SendSentinel
<1>6. CASE UNCHANGED <<mon, pend, scan_q, taken>>
  BY <1>6 DEF SwapHolds
<1>7. CASE \/ ScannerExit \/ Prescan \/ ReportTimedOut \/ DispatchBatch \/ WalkEnd \/ FlushEnd
           \/ ScannerPanic \/ ExecutorStep \/ LoggerStep \/ WorkerLogs \/ Terminate
           \/ UNCHANGED vars
  BY <1>6, <1>7, Zenon DEF ScannerExit, Prescan, ReportTimedOut, DispatchBatch, WalkEnd, FlushEnd,
     ScannerPanic, ScannerUnchanged, ExecutorStep, ExecutorReceive, ExecutorExit,
     CheckCandidate, RemoveCandidate, BatchDone, ExecutorPanic, ExecutorUnchanged,
     LoggerStep, LoggerReceive, LoggerPanic, WorkerLogs, LoggerUnchanged, Terminate,
     SignalsUnchanged, vars
<1> QED BY <1>2, <1>3, <1>4, <1>5, <1>7, Zenon DEF Next, MonitorStep, ScannerStep

(***************************************************************************)
(* Theorems.                                                               *)
(***************************************************************************)

\* The invariant the results below rest on holds for every capacity, every batch limit and
\* every interleaving of the threads, panics and respawns included.
THEOREM Inductive == Spec => []IInv
<1>1. IInv /\ [Next]_vars => IInv'
  BY StepType, StepRemovals, StepDrops, StepSwap DEF IInv
<1> QED BY <1>1, InitHolds, PTL DEF Spec

\* No thread leaves its states, and no bounded channel of the daemon exceeds its capacity.
THEOREM TypeCorrect == Spec => []TypeOK
<1>1. IInv => TypeOK
  BY DEF IInv
<1> QED BY <1>1, Inductive, PTL

\* After the shutdown flag the executor finishes the removal it is in, at most, however
\* often it is respawned.
THEOREM ShutdownStopsRemovals == Spec => []AtMostOneLateRemoval
<1>1. IInv => AtMostOneLateRemoval
  BY DEF IInv, TypeOK, RemovalsStop, AtMostOneLateRemoval
<1> QED BY <1>1, Inductive, PTL

\* A logger that ended on the sentinel has reported every event dropped before it was sent.
THEOREM LoggerReportsDrops == Spec => []DropsAreReported
<1>1. IInv => DropsAreReported
  BY DEF IInv, DropsAreCounted
<1> QED BY <1>1, Inductive, PTL

\* An urgent request ends up as the newest of the scan channel, unless the scanner emptied
\* the channel in the meantime.
THEOREM UrgentGetsThrough == Spec => UrgentIsQueued
<1> DEFINE Queues == ((Offer \/ TakeStale \/ SendFresh) /\ mon' = "offer" /\ pend' # NoRequest)
                       => \/ scan_q' # << >> /\ Last(scan_q') = pend'
                          \/ scan_q' = << >> /\ taken
<1>1. ASSUME IInv, Next PROVE Queues
  <2> SUFFICES ASSUME Offer \/ TakeStale \/ SendFresh, mon' = "offer", pend' # NoRequest
               PROVE  \/ scan_q' # << >> /\ Last(scan_q') = pend'
                      \/ scan_q' = << >> /\ taken
    OBVIOUS
  <2>0. scan_q \in Seq(Requests)
    BY <1>1 DEF IInv, TypeOK
  <2>1. ASSUME NEW r \in Requests, scan_q' = Append(scan_q, r)
        PROVE  scan_q' # << >> /\ Last(scan_q') = r
    BY <2>0, <2>1 DEF Last
  <2>2. CASE Offer
    <3>1. PICK r \in Requests :
            /\ SendScanRequest(r)
            /\ pend' = IF r.kind = "Urgent" THEN r ELSE NoRequest
      BY <2>2 DEF Offer
    <3>2. pend' = r /\ scan_q' = Append(scan_q, r)
      BY <3>1 DEF SendScanRequest
    <3> QED BY <2>1, <3>2
  <2>3. CASE TakeStale
    <3>1. scan_q = << >> /\ scan_q' = scan_q /\ mon = "swap"
      BY <2>3 DEF TakeStale
    <3>2. taken
      BY <1>1, <3>1, Caps DEF IInv, SwapHolds
    <3> QED BY <3>1, <3>2
  <2>4. CASE SendFresh
    <3>1. mon = "fill" /\ pend' = pend
      BY <2>4 DEF SendFresh
    <3>2. Len(scan_q) < ScanCap /\ pend \in Requests
      BY <1>1, <3>1 DEF IInv, SwapHolds
    <3>3. scan_q' = Append(scan_q, pend)
      BY <2>4, <3>2 DEF SendFresh
    <3> QED BY <2>1, <3>1, <3>2, <3>3
  <2> QED BY <2>2, <2>3, <2>4
<1>2. IInv /\ [Next]_vars => [Queues]_vars
  BY <1>1
<1> QED BY <1>2, Inductive, PTL DEF Spec, UrgentIsQueued
============================================================================
