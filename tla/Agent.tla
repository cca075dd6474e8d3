------------------------------- MODULE Agent -------------------------------
(***************************************************************************)
(* The agent: cmd/agent/main.go, internal/agent/agent.go and               *)
(* internal/agent/send_functions.go, on top of WorkerPool.                 *)
(*                                                                         *)
(* A poller collects metrics and counts its polls in pollCounter; a        *)
(* reporter submits a report to the pool at every tick; a worker that runs *)
(* a report reads pollCounter, sends the gauges and then the counters      *)
(* (with the value it read as delta) and sets pollCounter to 0 when        *)
(* SendWithRetry returns nil.  Nothing synchronises the accesses to        *)
(* pollCounter.  main waits for the pollers and the reporter, then shuts   *)
(* the pool down.                                                          *)
(*                                                                         *)
(* A request has an outcome for the agent and an effect on the server; the *)
(* server adds a counter's delta to its total.                             *)
(***************************************************************************)
EXTENDS WorkerPool, Integers

CONSTANTS
    reporter,     \* the goroutine that submits reports
    main,         \* the goroutine that shuts the pool down
    Outcomes,     \* what can happen to a request, out of AllOutcomes
    MaxRetries,   \* retries after the first attempt (3 in the code)
    MaxPolls      \* bound: polls in a behaviour

AllOutcomes ==
    {"ok",     \* 200: the server has applied the batch
     "lost",   \* a network error, the server has not seen the request
     "late",   \* a network error or a timeout after the server applied it
     "5xx",    \* the server failed and applied nothing
     "4xx"}    \* the server, or the agent before it sends, refuses the batch

Applied   == {"ok", "late"}
Retriable == {"lost", "late"}   \* isRetriableError: only net.Error

ASSUME SubmitterAssumption == Submitters = {reporter} /\ Closers = {main}
ASSUME OutcomesAssumption  == Outcomes \subseteq AllOutcomes
ASSUME AgentBoundAssumption == MaxRetries \in Nat /\ MaxPolls \in Nat

VARIABLES
    ctxDone,       \* the signal has arrived
    poller,        \* CollectRuntimeMetrics: "wait", "read", "write" or "done"
    system,        \* CollectSystemMetrics: "wait" or "done"
    reporterDone,  \* ReportMetrics has returned
    collected,     \* the storage holds a gauge
    pollCounter,   \* the shared counter
    seen,          \* the value the poller's ++ has read
    report,        \* report[w]: where worker w is in its report
    total,         \* the server's PollCount
    polls,         \* history: polls that have been counted
    during         \* history: those counted while a report was being sent

agentOnlyVars == <<ctxDone, poller, system, reporterDone, collected,
                   pollCounter, seen, report, total, polls, during>>
agentVars == <<poolVars, agentOnlyVars>>

NoReport == [pc |-> "none", arg |-> 0, attempt |-> 0, errG |-> "ok", errC |-> "ok"]

AgentInit ==
    /\ PoolInit
    /\ ctxDone = FALSE
    /\ poller = "wait" /\ system = "wait" /\ reporterDone = FALSE
    /\ collected = FALSE
    /\ pollCounter = 0 /\ seen = 0
    /\ report = [w \in Workers |-> NoReport]
    /\ total = 0 /\ polls = 0 /\ during = 0

Signal ==
    /\ ~panicked /\ ~ctxDone
    /\ ctxDone' = TRUE
    /\ UNCHANGED <<poolVars, poller, system, reporterDone, collected, pollCounter,
                   seen, report, total, polls, during>>

-----------------------------------------------------------------------------
(* The collectors.                                                         *)

\* A worker is between reading pollCounter and the end of SendWithRetry and
\* the reset.
Sending == \E w \in Workers : report[w].pc \in {"gauge", "counter", "reset"}

\* A tick of the runtime collector: collectRuntimeMetrics, then the two
\* halves of (*pollCounter)++.
Collect ==
    /\ ~panicked /\ poller = "wait" /\ polls < MaxPolls
    /\ collected' = TRUE
    /\ poller' = "read"
    /\ UNCHANGED <<poolVars, ctxDone, system, reporterDone, pollCounter, seen,
                   report, total, polls, during>>

CountRead ==
    /\ ~panicked /\ poller = "read"
    /\ seen' = pollCounter
    /\ poller' = "write"
    /\ UNCHANGED <<poolVars, ctxDone, system, reporterDone, collected,
                   pollCounter, report, total, polls, during>>

CountWrite ==
    /\ ~panicked /\ poller = "write"
    /\ pollCounter' = seen + 1
    /\ polls' = polls + 1
    /\ during' = IF Sending THEN during + 1 ELSE during
    /\ poller' = "wait"
    /\ UNCHANGED <<poolVars, ctxDone, system, reporterDone, collected, seen,
                   report, total>>

\* A tick of the system collector.
CollectSystem ==
    /\ ~panicked /\ system = "wait" /\ ~collected
    /\ collected' = TRUE
    /\ UNCHANGED <<poolVars, ctxDone, poller, system, reporterDone, pollCounter,
                   seen, report, total, polls, during>>

StopRuntime ==
    /\ ~panicked /\ ctxDone /\ poller = "wait"
    /\ poller' = "done"
    /\ UNCHANGED <<poolVars, ctxDone, system, reporterDone, collected,
                   pollCounter, seen, report, total, polls, during>>

StopSystem ==
    /\ ~panicked /\ ctxDone /\ system = "wait"
    /\ system' = "done"
    /\ UNCHANGED <<poolVars, ctxDone, poller, reporterDone, collected,
                   pollCounter, seen, report, total, polls, during>>

-----------------------------------------------------------------------------
(* The reporter.                                                           *)

\* A tick: Submit of a report, in its two steps.
Tick ==
    /\ ~reporterDone
    /\ \E t \in Fresh : Check(reporter, t)
    /\ UNCHANGED agentOnlyVars

SubmitReport == Send(reporter) /\ UNCHANGED agentOnlyVars

\* Mutant of StopReporter: a break that only leaves the select.
StopReporterBreaks ==
    /\ ~panicked /\ ctxDone /\ ~reporterDone /\ submit[reporter] = NoTask
    /\ UNCHANGED agentVars

StopReporter ==
    /\ ~panicked /\ ctxDone /\ ~reporterDone /\ submit[reporter] = NoTask
    /\ reporterDone' = TRUE
    /\ UNCHANGED <<poolVars, ctxDone, poller, system, collected, pollCounter,
                   seen, report, total, polls, during>>

-----------------------------------------------------------------------------
(* A report, run by a worker.                                              *)

BeginReport(w) ==
    /\ Take(w)
    /\ report' = [report EXCEPT ![w] = [NoReport EXCEPT !.pc = "check"]]
    /\ UNCHANGED <<ctxDone, poller, system, reporterDone, collected, pollCounter,
                   seen, total, polls, during>>

\* The task returns when the context is cancelled; otherwise it evaluates
\* the arguments of SendWithRetry.
CheckContext(w) ==
    /\ ~panicked /\ report[w].pc = "check"
    /\ report' = [report EXCEPT ![w] =
                     IF ctxDone THEN [@ EXCEPT !.pc = "end"]
                                ELSE [@ EXCEPT !.pc = "gauge", !.arg = pollCounter]]
    /\ UNCHANGED <<poolVars, ctxDone, poller, system, reporterDone, collected,
                   pollCounter, seen, total, polls, during>>

\* SendMetricsBatch "gauge": nothing to send counts as success.
SendGauges(w) ==
    /\ ~panicked /\ report[w].pc = "gauge"
    /\ \E outcome \in IF collected THEN Outcomes ELSE {"ok"} :
          report' = [report EXCEPT ![w] =
                        [@ EXCEPT !.pc = "counter", !.errG = outcome]]
    /\ UNCHANGED <<poolVars, ctxDone, poller, system, reporterDone, collected,
                   pollCounter, seen, total, polls, during>>

\* Mutant of Succeeded: the counters' error is dropped, as the gauges' is.
SucceededAlways(outcome) == outcome \in AllOutcomes
Succeeded(outcome)       == outcome = "ok"

\* Both errors are temporary, and there is an attempt left.
\* Mutant of Retries: one attempt too many.
RetriesOnceMore(w, outcome) ==
    {report[w].errG, outcome} \subseteq Retriable /\ report[w].attempt <= MaxRetries
Retries(w, outcome) ==
    {report[w].errG, outcome} \subseteq Retriable /\ report[w].attempt < MaxRetries

\* nil when the counters have arrived, another attempt when both errors are
\* temporary, else the error.
Decided(w, outcome) ==
    LET answered == [report[w] EXCEPT !.errC = outcome]
    IN  IF Succeeded(outcome) THEN [answered EXCEPT !.pc = "reset"]
        ELSE IF Retries(w, outcome)
        THEN [answered EXCEPT !.pc = "gauge", !.attempt = @ + 1]
        ELSE [answered EXCEPT !.pc = "end"]

\* SendMetricsBatch "counter" and the decision of SendWithRetry.
SendCounters(w) ==
    /\ ~panicked /\ report[w].pc = "counter"
    /\ \E outcome \in Outcomes :
          /\ total' = IF outcome \in Applied THEN total + report[w].arg ELSE total
          /\ report' = [report EXCEPT ![w] = Decided(w, outcome)]
    /\ UNCHANGED <<poolVars, ctxDone, poller, system, reporterDone, collected,
                   pollCounter, seen, polls, during>>

\* SendWithRetry has returned nil.
ResetCounter(w) ==
    /\ ~panicked /\ report[w].pc = "reset"
    /\ pollCounter' = 0
    /\ report' = [report EXCEPT ![w].pc = "end"]
    /\ UNCHANGED <<poolVars, ctxDone, poller, system, reporterDone, collected,
                   seen, total, polls, during>>

EndReport(w) ==
    /\ report[w].pc = "end"
    /\ Finish(w)
    /\ report' = [report EXCEPT ![w] = NoReport]
    /\ UNCHANGED <<ctxDone, poller, system, reporterDone, collected, pollCounter,
                   seen, total, polls, during>>

WorkerLeaves(w) == Leave(w) /\ UNCHANGED agentOnlyVars

-----------------------------------------------------------------------------
(* main.                                                                   *)

\* g.Wait() returns.
\* Mutant of Waited: main goes on as soon as it is told to stop.
NotWaited == ctxDone
Waited    == poller = "done" /\ system = "done" /\ reporterDone

\* After that, the pool's Shutdown.
BeginShutdown ==
    /\ Waited
    /\ SetClosed(main)
    /\ UNCHANGED agentOnlyVars

CloseTheQueue == CloseQueue(main) /\ UNCHANGED agentOnlyVars

Exit == ShutdownReturns(main) /\ UNCHANGED agentOnlyVars

WorkerStep(w) ==
    \/ BeginReport(w) \/ CheckContext(w) \/ SendGauges(w) \/ SendCounters(w)
    \/ ResetCounter(w) \/ EndReport(w) \/ WorkerLeaves(w)

AgentNext ==
    \/ Signal \/ Collect \/ CountRead \/ CountWrite \/ CollectSystem
    \/ StopRuntime \/ StopSystem \/ Tick \/ SubmitReport \/ StopReporter
    \/ BeginShutdown \/ CloseTheQueue \/ Exit
    \/ \E w \in Workers : WorkerStep(w)

AgentSpec == AgentInit /\ [][AgentNext]_agentVars

\* Goroutines run; select does not choose a tick over the cancelled context
\* forever; every request ends (the HTTP client has a timeout of 30 s).
AgentFairness ==
    /\ WF_agentVars(CountRead \/ CountWrite) /\ WF_agentVars(SubmitReport)
    /\ SF_agentVars(StopRuntime) /\ WF_agentVars(StopSystem) /\ SF_agentVars(StopReporter)
    /\ WF_agentVars(BeginShutdown) /\ WF_agentVars(CloseTheQueue) /\ WF_agentVars(Exit)
    /\ \A w \in Workers : WF_agentVars(WorkerStep(w))

FairAgentSpec == AgentSpec /\ AgentFairness

-----------------------------------------------------------------------------
(* Properties.                                                             *)

Steps == {"none", "check", "gauge", "counter", "reset", "end"}

\* Every variable has its type; a worker runs a report while it has a task.
AgentTypeOK ==
    /\ PoolTypeOK
    /\ ctxDone \in BOOLEAN /\ reporterDone \in BOOLEAN /\ collected \in BOOLEAN
    /\ poller \in {"wait", "read", "write", "done"} /\ system \in {"wait", "done"}
    /\ pollCounter \in Nat /\ seen \in Nat /\ total \in Nat
    /\ polls \in Nat /\ during \in Nat
    /\ report \in [Workers -> [pc : Steps, arg : Nat, attempt : 0 .. MaxRetries,
                              errG : AllOutcomes, errC : AllOutcomes]]
    /\ \A w \in Workers : task[w] = NoTask <=> report[w].pc = "none"

\* The agent never sends on the closed channel of its pool: main shuts it
\* down only after the reporter has returned (cmd/agent/main.go, g.Wait, then
\* Shutdown).
NeverPanics == ~panicked

\* A poll is missing from the server's count only if it was made while a
\* report was being sent, whatever requests fail (agent.go: pollCounter is
\* reset only after SendWithRetry returned nil).
PollsAreReported == polls <= total + pollCounter + during

\* When the agent has stopped, every accepted report has ended.
ReportsEnd == shutdown[main] = "returned" =>
    Queued \cup Running = {} /\ \A w \in Workers : report[w].pc = "none"

\* After the signal the agent stops.
AgentStops == ctxDone ~> shutdown[main] = "returned"
=============================================================================
