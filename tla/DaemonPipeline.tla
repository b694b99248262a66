--------------------------- MODULE DaemonPipeline ---------------------------
(***************************************************************************)
(* The threads of the daemon and the bounded channels between them         *)
(* (daemon/loop_main.rs): the monitor loop offers scan requests, the       *)
(* scanner turns a request into deletion batches, the executor removes     *)
(* candidates one by one, both workers report back.  Any worker may panic; *)
(* the monitor looks for dead workers, respawns them up to a limit, and    *)
(* shuts the whole daemon down, the logger thread last (logger/dual.rs).   *)
(*                                                                         *)
(* A batch is the number of its candidates, a report has no content, and   *)
(* the scanner may dispatch a batch whenever the code may.  What happens   *)
(* inside a scan or a removal is left to DeletionExecutor and WalkerPool.  *)
(* The monitor and the run function hold a receiver of every channel       *)
(* until the process ends, so a send never finds its channel disconnected. *)
(* The log channel matters to nobody before the shutdown: its content is   *)
(* then arbitrary (LogStopped) and exact from there on.                    *)
(***************************************************************************)
EXTENDS Integers, Sequences, SequencesExt

CONSTANTS
  ScanCap,         \* SCANNER_CHANNEL_CAP
  DelCap,          \* EXECUTOR_CHANNEL_CAP
  ReportCap,       \* REPORT_CHANNEL_CAP
  LogCap,          \* CHANNEL_CAPACITY of the logger
  Limits,          \* values of ScanRequest::max_delete_batch
  MaxDrops         \* bound: dropped log events that are told apart

ASSUME CapAssumption ==
  /\ {ScanCap, DelCap, ReportCap, LogCap} \subseteq Nat \ {0}
  /\ Limits \subseteq Nat

ASSUME BoundAssumption == MaxDrops \in Nat \ {0}

VARIABLES
  mon,             \* where the monitor thread is
  pend,            \* the urgent request the monitor is offering
  scan_q,          \* monitor to scanner
  del_q,           \* scanner to executor
  report_q,        \* number of reports on the way to the monitor
  senders,         \* run still owns its senders scan_tx and del_tx
  shutdown_flag,   \* SignalHandler
  scanner,         \* where the scanner thread is
  max_batch,       \* max_delete_batch of the request it works on
  executor,        \* where the executor thread is
  remaining,       \* candidates left of its batch
  logger,          \* where the logger thread is
  log_q,           \* its channel
  dropped,         \* dropped_events
  reported,        \* last_reported_drops
  taken,           \* history: the scanner took a request since pend was offered
  late,            \* history: removals since the shutdown flag rose
  owed             \* history: events dropped before the sentinel was sent

channels == <<scan_q, del_q, report_q>>
scan_vars == <<scanner, max_batch>>
exec_vars == <<executor, remaining, late>>
log_vars == <<logger, log_q, dropped, reported, owed>>
vars == <<mon, pend, channels, senders, shutdown_flag, scan_vars, exec_vars,
          log_vars, taken>>

Workers == {"scanner", "executor"}
Kinds == {"Normal", "Urgent"}
NoRequest == [kind |-> "None", limit |-> 0]
Requests == [kind : Kinds, limit : Limits]

MonitorLoop == {"top", "offer", "swap", "fill", "drain", "health"}
MonitorStop == {"stop", "join_scanner", "join_executor", "log_stop", "sentinel",
                "join_logger", "done"}
Stopping == shutdown_flag \/ mon \in MonitorStop

Least(a, b) == IF a <= b THEN a ELSE b

(***************************************************************************)
(* Monitor: scan requests.                                                 *)
(***************************************************************************)

\* Mutant of SendScanRequest: a full channel defers urgent requests as well.
SendWithoutReplace(r) ==
  /\ mon' = "offer"
  /\ scan_q' = IF Len(scan_q) < ScanCap THEN Append(scan_q, r) ELSE scan_q

\* The first try_send of enqueue_scan_request.  handle_pressure replaces on a full channel
\* when the pressure is urgent, a special location always does.
SendScanRequest(r) ==
  \/ /\ Len(scan_q) < ScanCap
     /\ scan_q' = Append(scan_q, r)
     /\ mon' = "offer"
  \/ /\ Len(scan_q) = ScanCap
     /\ UNCHANGED scan_q
     /\ mon' = IF r.kind = "Urgent" THEN "swap" ELSE "offer"

\* One request for the device under pressure, one per special location short of space.
Offer ==
  /\ mon = "offer"
  /\ \E r \in Requests :
       /\ SendScanRequest(r)
       /\ pend' = IF r.kind = "Urgent" THEN r ELSE NoRequest
  /\ taken' = FALSE
  /\ UNCHANGED <<del_q, report_q, senders, shutdown_flag, scan_vars, exec_vars, log_vars>>

\* The behaviour cell forbids a scan, no root path is on the device under pressure, and no
\* further location is short of space.
OffersDone ==
  /\ mon = "offer"
  /\ mon' = "drain"
  /\ pend' = NoRequest
  /\ taken' = FALSE
  /\ UNCHANGED <<channels, senders, shutdown_flag, scan_vars, exec_vars, log_vars>>

\* enqueue_scan_request: try_recv of the oldest request.
TakeStale ==
  /\ mon = "swap"
  /\ \/ scan_q = << >> /\ mon' = "offer" /\ UNCHANGED scan_q
     \/ scan_q # << >> /\ mon' = "fill" /\ scan_q' = Tail(scan_q)
  /\ UNCHANGED <<pend, del_q, report_q, senders, shutdown_flag, scan_vars, exec_vars,
                 log_vars, taken>>

\* enqueue_scan_request: the second try_send.
SendFresh ==
  /\ mon = "fill"
  /\ mon' = "offer"
  /\ scan_q' = IF Len(scan_q) < ScanCap THEN Append(scan_q, pend) ELSE scan_q
  /\ UNCHANGED <<pend, del_q, report_q, senders, shutdown_flag, scan_vars, exec_vars,
                 log_vars, taken>>

(***************************************************************************)
(* Monitor: the rest of a tick.                                            *)
(***************************************************************************)

\* The top of the loop; a failed pressure check sleeps and comes back here, a breach of
\* the hard memory limit ends the loop.
TickStart ==
  /\ mon = "top"
  /\ mon' \in IF shutdown_flag THEN {"stop"} ELSE {"offer", "top", "stop"}
  /\ UNCHANGED <<pend, channels, senders, shutdown_flag, scan_vars, exec_vars,
                 log_vars, taken>>

\* Mutant of DrainReports: reports are only counted when the daemon ends.
DrainNothing ==
  /\ mon = "drain"
  /\ mon' = "health"
  /\ UNCHANGED <<pend, taken, scan_q, del_q, report_q, senders, shutdown_flag, scan_vars,
                 exec_vars, log_vars>>

\* Worker reports are drained; trigger_forced_scan follows when SIGUSR1 came since the
\* last tick: its send_timeout gives up on a channel that stays full.
DrainReports ==
  /\ mon = "drain"
  /\ report_q' = 0
  /\ mon' = "health"
  /\ \/ UNCHANGED scan_q
     \/ /\ Len(scan_q) < ScanCap
        /\ \E l \in Limits : scan_q' = Append(scan_q, [kind |-> "Normal", limit |-> l])
  /\ UNCHANGED <<pend, del_q, senders, shutdown_flag, scan_vars, exec_vars, log_vars,
                 taken>>

Alive(w) == (IF w = "scanner" THEN scanner ELSE executor) # "gone"

\* Mutant of CheckWorkers: only the scanner is looked after.
CheckScannerOnly ==
  /\ mon = "health"
  /\ ~shutdown_flag
  /\ \/ mon' = "top" /\ scanner' = IF Alive("scanner") THEN scanner ELSE "idle"
     \/ ~Alive("scanner") /\ mon' = "stop" /\ UNCHANGED scanner
  /\ UNCHANGED <<pend, channels, senders, shutdown_flag, max_batch, exec_vars, log_vars, taken>>

\* THREAD_HEALTH_CHECK_INTERVAL is over.  A dead worker is joined and respawned on the same
\* channels; the loop ends when the worker had more than MAX_RESPAWNS panics within
\* RESPAWN_WINDOW (ThreadHealth::record_panic; the times are left out, so the limit may be
\* reached or not), or the spawn fails.
CheckWorkers ==
  /\ mon = "health"
  /\ ~shutdown_flag
  /\ \/ /\ mon' = "top"
        /\ scanner' = IF Alive("scanner") THEN scanner ELSE "idle"
        /\ executor' = IF Alive("executor") THEN executor ELSE "idle"
     \/ /\ ~Alive("scanner") \/ ~Alive("executor")
        /\ mon' = "stop"
        /\ \/ UNCHANGED scanner
           \/ ~Alive("executor") /\ ~Alive("scanner") /\ scanner' = "idle"
        /\ UNCHANGED executor
  /\ UNCHANGED <<pend, channels, senders, shutdown_flag, max_batch, remaining, late, log_vars,
                 taken>>

\* It is not over yet.
SkipCheck ==
  /\ mon = "health"
  /\ mon' = "top"
  /\ UNCHANGED <<pend, channels, senders, shutdown_flag, scan_vars, exec_vars, log_vars, taken>>

(***************************************************************************)
(* Monitor: shutdown.                                                      *)
(***************************************************************************)

\* request_shutdown, and the two senders are dropped.  Nobody looks at the health of a
\* worker any more, and the scanner takes no request once the flag is up: what the scan
\* channel still holds is forgotten here.
StopWorkers ==
  /\ mon = "stop"
  /\ mon' = "join_scanner"
  /\ shutdown_flag' = TRUE
  /\ senders' = FALSE
  /\ scan_q' = << >>
  /\ UNCHANGED <<pend, del_q, report_q, scan_vars, exec_vars, log_vars, taken>>

\* Mutant of JoinWorker: shutdown waits for its workers.
JoinWithoutTimeout(w, next) == ~Alive(w) /\ mon' = next

\* join_worker_with_timeout returns when the worker w is gone, and when it has waited long
\* enough for one that is not.
JoinWorker(w, next) == mon' = next

Join ==
  /\ \/ mon = "join_scanner" /\ JoinWorker("scanner", "join_executor")
     \/ mon = "join_executor" /\ JoinWorker("executor", "log_stop")
  /\ UNCHANGED <<pend, channels, senders, shutdown_flag, scan_vars, exec_vars, log_vars, taken>>

\* ActivityLoggerHandle::send
LogSend ==
  IF logger # "run" THEN UNCHANGED <<log_q, dropped>>
  ELSE IF Len(log_q) < LogCap
       THEN log_q' = Append(log_q, "event") /\ UNCHANGED dropped
       ELSE dropped' = Least(dropped + 1, MaxDrops) /\ UNCHANGED log_q

\* The last event of the daemon meets a channel with n events; it is dropped after others
\* when the channel is full, which the logger has not seen since.
LogStopped ==
  /\ mon = "log_stop"
  /\ mon' = "sentinel"
  /\ \E n \in 0 .. LogCap :
       /\ log_q' = [i \in 1 .. Least(n + 1, LogCap) |-> "event"]
       /\ dropped' \in IF n < LogCap THEN {0} ELSE 1 .. MaxDrops
  /\ UNCHANGED <<pend, channels, senders, shutdown_flag, scan_vars, exec_vars, logger,
                 reported, owed, taken>>

\* ActivityLoggerHandle::shutdown blocks until there is room, or the logger is gone.
SendSentinel ==
  /\ mon = "sentinel"
  /\ mon' = "join_logger"
  /\ \/ logger = "run" /\ Len(log_q) < LogCap /\ log_q' = Append(log_q, "Shutdown")
     \/ logger # "run" /\ UNCHANGED log_q
  /\ owed' = dropped
  /\ UNCHANGED <<pend, channels, senders, shutdown_flag, scan_vars, exec_vars,
                 logger, dropped, reported, taken>>

\* The process ends here, and with it its channels and the workers it abandoned.
JoinLogger ==
  /\ mon = "join_logger"
  /\ logger # "run"
  /\ mon' = "done"
  /\ scanner' = "gone" /\ max_batch' = 0
  /\ executor' = "gone" /\ remaining' = 0
  /\ del_q' = << >> /\ report_q' = 0
  /\ UNCHANGED <<pend, scan_q, senders, shutdown_flag, late, log_vars, taken>>

(***************************************************************************)
(* Scanner.                                                                *)
(***************************************************************************)

ScannerUnchanged ==
  UNCHANGED <<mon, pend, senders, shutdown_flag, exec_vars, log_vars>>

TryReport == report_q' = Least(report_q + 1, ReportCap)

ScannerReceive ==
  /\ scanner = "idle"
  /\ scan_q # << >>
  /\ scan_q' = Tail(scan_q)
  /\ IF shutdown_flag THEN scanner' = "gone" /\ UNCHANGED max_batch
                      ELSE scanner' = "prescan" /\ max_batch' = Head(scan_q).limit
  /\ taken' = (mon \in {"swap", "fill"})
  /\ ScannerUnchanged /\ UNCHANGED <<del_q, report_q>>

\* The flag is polled, and a closed channel ends the loop too.
ScannerExit ==
  /\ scanner = "idle"
  /\ shutdown_flag \/ (scan_q = << >> /\ ~senders)
  /\ scanner' = "gone"
  /\ ScannerUnchanged /\ UNCHANGED <<channels, max_batch, taken>>

\* dispatch_top_candidates: at most max_delete_batch candidates, and none when the channel is
\* full.
Dispatch ==
  /\ Len(del_q) < DelCap
  /\ \E n \in 1 .. max_batch : del_q' = Append(del_q, n)

\* Before the walk: nothing to do (a cooldown, no paths, a bad protection list), no dirty
\* root, shutdown seen, or the priority pre-scan with its own dispatch, which what the index
\* hands over precedes.  Candidates it cannot dispatch are dropped.  A pre-scan that runs
\* out of time reports with a blocking send; one that reached its target reports and skips
\* the walk.
Prescan ==
  /\ scanner = "prescan"
  /\ \/ scanner' = "idle" /\ UNCHANGED <<del_q, report_q>>
     \/ scanner' = "idle" /\ TryReport /\ UNCHANGED del_q
     \/ shutdown_flag /\ scanner' = "gone" /\ UNCHANGED <<del_q, report_q>>
     \/ scanner' = "prescan" /\ Dispatch /\ UNCHANGED report_q
     \/ scanner' \in {"blocked", "walk"} /\ (Dispatch \/ UNCHANGED del_q) /\ UNCHANGED report_q
     \/ scanner' = "idle" /\ Dispatch /\ TryReport
  /\ max_batch' = IF scanner' \in {"idle", "gone"} THEN 0 ELSE max_batch
  /\ ScannerUnchanged /\ UNCHANGED <<scan_q, taken>>

ReportTimedOut ==
  /\ scanner = "blocked"
  /\ report_q < ReportCap
  /\ report_q' = report_q + 1
  /\ scanner' = "idle"
  /\ max_batch' = 0
  /\ ScannerUnchanged /\ UNCHANGED <<scan_q, del_q, taken>>

\* A batch is due in the walk, or is left for the flush.
DispatchBatch ==
  /\ scanner \in {"walk", "flush"}
  /\ scanner = "flush" => ~shutdown_flag
  /\ Dispatch
  /\ ScannerUnchanged /\ UNCHANGED <<scan_q, report_q, scan_vars, taken>>

\* The stream ended, the budget is used up, the target is reached or shutdown was seen.
WalkEnd ==
  /\ scanner = "walk"
  /\ scanner' = "flush"
  /\ TryReport
  /\ ScannerUnchanged /\ UNCHANGED <<scan_q, del_q, max_batch, taken>>

\* The flush ends with nothing left, without progress, at its deadline, and on shutdown.
FlushEnd ==
  /\ scanner = "flush"
  /\ scanner' = "idle"
  /\ max_batch' = 0
  /\ ScannerUnchanged /\ UNCHANGED <<channels, taken>>

ScannerPanic ==
  /\ scanner # "gone"
  /\ scanner' = "gone"
  /\ max_batch' = 0
  /\ ScannerUnchanged /\ UNCHANGED <<channels, taken>>

(***************************************************************************)
(* Executor.                                                               *)
(***************************************************************************)

ExecutorUnchanged ==
  UNCHANGED <<mon, pend, scan_q, senders, shutdown_flag, scan_vars, log_vars, taken>>

\* Circuit breaker, policy, dampening and plan follow the receive: any part of the batch
\* may pass, or none.
ExecutorReceive ==
  /\ executor = "idle"
  /\ del_q # << >>
  /\ del_q' = Tail(del_q)
  /\ \/ shutdown_flag /\ executor' = "gone" /\ UNCHANGED remaining
     \/ ~shutdown_flag /\ UNCHANGED <<executor, remaining>>
     \/ ~shutdown_flag /\ executor' = "check" /\ remaining' \in 1 .. Head(del_q)
  /\ ExecutorUnchanged /\ UNCHANGED <<report_q, late>>

ExecutorExit ==
  /\ executor = "idle"
  /\ shutdown_flag \/ (del_q = << >> /\ ~senders /\ scanner = "gone")
  /\ executor' = "gone"
  /\ ExecutorUnchanged /\ UNCHANGED <<del_q, report_q, remaining, late>>

\* Mutant of CheckCandidate: only the start of a batch looks at the flag.
CheckIgnoresShutdown ==
  /\ executor = "check" /\ remaining > 0
  /\ \/ remaining' = remaining - 1 /\ UNCHANGED executor
     \/ executor' = "remove" /\ UNCHANGED remaining
  /\ ExecutorUnchanged /\ UNCHANGED <<del_q, report_q, late>>

\* should_skip and the preflight of one candidate; shutdown skips every one.
CheckCandidate ==
  /\ executor = "check" /\ remaining > 0
  /\ \/ remaining' = remaining - 1 /\ UNCHANGED executor
     \/ ~shutdown_flag /\ executor' = "remove" /\ UNCHANGED remaining
  /\ ExecutorUnchanged /\ UNCHANGED <<del_q, report_q, late>>

RemoveCandidate ==
  /\ executor = "remove"
  /\ executor' = "check"
  /\ remaining' = remaining - 1
  /\ late' = IF shutdown_flag THEN Least(late + 1, 2) ELSE late
  /\ ExecutorUnchanged /\ UNCHANGED <<del_q, report_q>>

\* The batch is done or the circuit breaker halted it; the report is a try_send.
BatchDone ==
  /\ executor = "check"
  /\ executor' = "idle"
  /\ remaining' = 0
  /\ TryReport
  /\ ExecutorUnchanged /\ UNCHANGED <<del_q, late>>

ExecutorPanic ==
  /\ executor # "gone"
  /\ executor' = "gone"
  /\ remaining' = 0
  /\ ExecutorUnchanged /\ UNCHANGED <<del_q, report_q, late>>

(***************************************************************************)
(* Logger.                                                                 *)
(***************************************************************************)

LoggerUnchanged ==
  UNCHANGED <<mon, pend, channels, senders, shutdown_flag, scan_vars, exec_vars,
              owed, taken>>

\* Mutant of LoggerReceive: drops are reported when the logger has caught up.
ReportWhenIdle ==
  /\ logger = "run" /\ log_q # << >>
  /\ log_q' = Tail(log_q)
  /\ reported' = IF log_q' = << >> THEN dropped ELSE reported
  /\ logger' = IF Head(log_q) = "Shutdown" THEN "closed" ELSE "run"
  /\ LoggerUnchanged /\ UNCHANGED dropped

\* logger_thread_main: new drops are reported before the event is looked at.
LoggerReceive ==
  /\ logger = "run" /\ log_q # << >>
  /\ log_q' = Tail(log_q)
  /\ reported' = dropped
  /\ logger' = IF Head(log_q) = "Shutdown" THEN "closed" ELSE "run"
  /\ LoggerUnchanged /\ UNCHANGED dropped

LoggerPanic ==
  /\ logger = "run" /\ mon \in {"sentinel", "join_logger"}
  /\ logger' = "dead"
  /\ log_q' = << >>
  /\ LoggerUnchanged /\ UNCHANGED <<dropped, reported>>

\* A worker that was abandoned, or not joined yet, goes on logging.
WorkerLogs ==
  /\ mon \in {"sentinel", "join_logger"}
  /\ \E w \in Workers : Alive(w)
  /\ LogSend
  /\ LoggerUnchanged /\ UNCHANGED <<logger, reported>>

(***************************************************************************)
(* Signals.                                                                *)
(***************************************************************************)

SignalsUnchanged ==
  UNCHANGED <<mon, pend, channels, senders, scan_vars, exec_vars, log_vars,
              taken>>

\* SIGTERM or SIGINT
Terminate == mon \in MonitorLoop /\ shutdown_flag' = TRUE /\ SignalsUnchanged

(***************************************************************************)
(* Specification.                                                          *)
(***************************************************************************)

Init ==
  /\ mon = "top" /\ pend = NoRequest
  /\ scan_q = << >> /\ del_q = << >> /\ report_q = 0
  /\ senders = TRUE /\ shutdown_flag = FALSE
  /\ scanner = "idle" /\ max_batch = 0
  /\ executor = "idle" /\ remaining = 0 /\ late = 0
  /\ logger = "run" /\ log_q = << >> /\ dropped = 0 /\ reported = 0 /\ owed = 0
  /\ taken = FALSE

MonitorStep ==
  \/ TickStart \/ Offer \/ OffersDone \/ TakeStale \/ SendFresh \/ DrainReports
  \/ SkipCheck \/ CheckWorkers
  \/ StopWorkers \/ Join \/ LogStopped \/ JoinLogger

ScannerStep ==
  \/ ScannerReceive \/ ScannerExit \/ Prescan \/ ReportTimedOut \/ DispatchBatch
  \/ WalkEnd \/ FlushEnd \/ ScannerPanic

ExecutorStep ==
  \/ ExecutorReceive \/ ExecutorExit \/ CheckCandidate \/ RemoveCandidate
  \/ BatchDone \/ ExecutorPanic

LoggerStep == LoggerReceive \/ LoggerPanic

\* Nothing moves once the process has ended.
Next ==
  \/ /\ mon # "done"
     /\ \/ MonitorStep \/ SendSentinel \/ ScannerStep \/ ExecutorStep \/ LoggerStep
        \/ WorkerLogs \/ Terminate
  \/ mon = "done" /\ UNCHANGED vars

\* The monitor and the logger go on: there are finitely many locations to offer a request
\* for, and a health check becomes due again and again.  A blocked send gets through when
\* there is room again and again.  Nothing is assumed of a scan or of a removal.
Fairness ==
  /\ WF_vars(MonitorStep)
  /\ SF_vars(OffersDone)
  /\ SF_vars(CheckWorkers)
  /\ WF_vars(LoggerReceive)
  /\ SF_vars(SendSentinel)
  /\ SF_vars(ReportTimedOut)

Spec == Init /\ [][Next]_vars
FairSpec == Spec /\ Fairness

(***************************************************************************)
(* Properties.                                                             *)
(***************************************************************************)

\* Every variable of the threads and channels stays in its domain, and no bounded
\* channel holds more than its capacity.
TypeOK ==
  /\ mon \in MonitorLoop \cup MonitorStop
  /\ pend \in Requests \cup {NoRequest}
  /\ scan_q \in Seq(Requests) /\ Len(scan_q) <= ScanCap
  /\ del_q \in Seq(Nat \ {0}) /\ Len(del_q) <= DelCap
  /\ report_q \in 0 .. ReportCap
  /\ senders \in BOOLEAN /\ shutdown_flag \in BOOLEAN /\ taken \in BOOLEAN
  /\ scanner \in {"idle", "prescan", "blocked", "walk", "flush", "gone"}
  /\ max_batch \in Nat
  /\ executor \in {"idle", "check", "remove", "gone"}
  /\ remaining \in Nat
  /\ logger \in {"run", "closed", "dead"}
  /\ log_q \in Seq({"event", "Shutdown"}) /\ Len(log_q) <= LogCap
  /\ dropped \in 0 .. MaxDrops /\ reported \in 0 .. MaxDrops /\ owed \in 0 .. MaxDrops
  /\ late \in 0 .. 2

\* Once the shutdown flag is up the executor removes at most one more object, the one it
\* had already checked, whatever is left of its batch and however often it is respawned
\* (the skip_protected closure of executor_thread_main).
AtMostOneLateRemoval == late <= 1

\* The logger that saw the sentinel has reported every event dropped before the sentinel
\* was sent, the loss of the daemon's own last event included.
DropsAreReported == logger = "closed" => reported >= owed

\* An urgent request is never lost to a full scan channel: when the monitor goes on, the
\* request is the newest in the channel, unless the scanner emptied the channel while
\* enqueue_scan_request was between its try_send and its try_recv.
UrgentIsQueued ==
  [][ ((Offer \/ TakeStale \/ SendFresh) /\ mon' = "offer" /\ pend' # NoRequest)
        => \/ scan_q' # << >> /\ Last(scan_q') = pend'
           \/ scan_q' = << >> /\ taken ]_vars

\* A shutdown ends, even if a worker never comes back from a scan or a removal.
ShutdownEnds == shutdown_flag ~> mon = "done"

\* A worker that died is respawned, or the daemon stops: it never runs on without one.
DeadWorkerIsNoticed ==
  \A w \in Workers : ~Alive(w) ~> (Alive(w) \/ Stopping)

\* The scanner's blocking report of a timed-out pre-scan does not hold it for ever: the
\* monitor drains reports on every tick and never waits for the scanner.
BlockedReportGetsThrough == scanner = "blocked" ~> (scanner # "blocked" \/ Stopping)

=============================================================================
