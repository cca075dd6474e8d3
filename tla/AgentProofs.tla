---------------------------- MODULE AgentProofs ----------------------------
(***************************************************************************)
(* Proofs about Agent, for any number of workers, tasks, polls and         *)
(* retries.                                                                *)
(*                                                                         *)
(* The argument for the shutdown: main starts it after the reporter has    *)
(* returned, so no Submit is between its check and its send; from then on  *)
(* the queue only shrinks, a worker that leaves has seen it empty, and     *)
(* Shutdown returns when all have left.                                    *)
(*                                                                         *)
(* The argument for the polls: those counted while no report was being     *)
(* sent (polls - during) are covered by the server's total and the counter *)
(* together; a report that has read the counter covers them with its       *)
(* argument until the server has added it, and the poller's ++ with the    *)
(* value it has read.                                                      *)
(***************************************************************************)
EXTENDS Agent, WorkerPoolProofs

ShutdownInv ==
    /\ ~panicked
    /\ shutdown[main] # "before" => reporterDone
    /\ reporterDone => submit[reporter] = NoTask
    /\ chanClosed => shutdown[main] \in {"waiting", "returned"}
    /\ \A w \in gone : chanClosed /\ task[w] = NoTask /\ taskQueue = <<>>
    /\ shutdown[main] = "returned" => gone = Workers

PollsInv ==
    /\ PollsAreReported
    /\ poller = "write" => polls <= total + seen + during
    /\ \A w \in Workers :
          /\ report[w].pc \in {"gauge", "counter"} => polls <= total + report[w].arg + during
          /\ report[w].pc = "reset" => polls <= total + during

AgentInv == AgentTypeOK /\ ShutdownInv /\ PollsInv

-----------------------------------------------------------------------------
(* Every step of the agent is a step of its pool, or leaves it alone.      *)

\* What the agent does to the variables of the pool, the pool allows.
LEMMA AgentStepIsPoolStep == [AgentNext]_agentVars => [PoolNext]_poolVars
  <1> SUFFICES ASSUME [AgentNext]_agentVars PROVE [PoolNext]_poolVars
    OBVIOUS
  <1> USE SubmitterAssumption DEF PoolNext
  <1>1. ASSUME NEW w \in Workers, BeginReport(w) PROVE [PoolNext]_poolVars
    BY <1>1 DEF BeginReport
  <1>2. ASSUME NEW w \in Workers, EndReport(w) PROVE [PoolNext]_poolVars
    BY <1>2 DEF EndReport
  <1>3. ASSUME NEW w \in Workers, WorkerLeaves(w) PROVE [PoolNext]_poolVars
    BY <1>3 DEF WorkerLeaves
  <1>4. ASSUME NEW w \in Workers,
               \/ CheckContext(w) \/ SendGauges(w) \/ SendCounters(w)
               \/ ResetCounter(w)
        PROVE  UNCHANGED poolVars
    BY <1>4 DEF CheckContext, SendGauges, SendCounters, ResetCounter
  <1>5. CASE Tick
    BY <1>5 DEF Tick
  <1>6. CASE SubmitReport
    BY <1>6 DEF SubmitReport
  <1>7. CASE BeginShutdown
    BY <1>7 DEF BeginShutdown
  <1>8. CASE CloseTheQueue
    BY <1>8 DEF CloseTheQueue
  <1>9. CASE Exit
    BY <1>9 DEF Exit
  <1>10. ASSUME \/ Signal \/ Collect \/ CountRead \/ CountWrite \/ CollectSystem
                \/ StopRuntime \/ StopSystem \/ StopReporter
         PROVE  UNCHANGED poolVars
    BY <1>10 DEF Signal, Collect, CountRead, CountWrite, CollectSystem, StopRuntime,
                 StopSystem, StopReporter
  <1>11. CASE UNCHANGED agentVars
    BY <1>11 DEF agentVars
  <1>12. QED
    BY <1>1, <1>2, <1>3, <1>4, <1>5, <1>6, <1>7, <1>8, <1>9, <1>10, <1>11
       DEF AgentNext, WorkerStep

-----------------------------------------------------------------------------
(* AgentInv is inductive.                                                  *)

\* The first state: nothing polled, nothing submitted.
LEMMA AgentInitInv == AgentInit => AgentInv
  <1> SUFFICES ASSUME AgentInit PROVE AgentInv
    OBVIOUS
  <1> USE DEF AgentInit, PoolInit, NoReport
  <1>1. PoolTypeOK
    BY PoolInitType
  <1>2. report \in [Workers -> [pc : Steps, arg : Nat, attempt : 0 .. MaxRetries,
                               errG : AllOutcomes, errC : AllOutcomes]]
    BY AgentBoundAssumption DEF Steps, AllOutcomes
  <1>3. AgentTypeOK
    BY <1>1, <1>2 DEF AgentTypeOK
  <1>4. ShutdownInv
    BY SubmitterAssumption DEF ShutdownInv
  <1>5. PollsInv
    BY DEF PollsInv, PollsAreReported
  <1>6. QED
    BY <1>3, <1>4, <1>5 DEF AgentInv

\* The actions of the goroutines that share variables with no worker, and of
\* the poller.
LEMMA CollectorStep ==
  ASSUME AgentInv,
         \/ Signal \/ Collect \/ CountRead \/ CountWrite \/ CollectSystem
         \/ StopRuntime \/ StopSystem \/ StopReporter
  PROVE  AgentInv'
  <1>1. PoolTypeOK' /\ UNCHANGED poolVars
    BY DEF AgentInv, AgentTypeOK, PoolTypeOK, poolVars, Signal, Collect, CountRead,
           CountWrite, CollectSystem, StopRuntime, StopSystem, StopReporter
  <1>2. AgentTypeOK'
    <2> USE <1>1 DEF AgentInv, AgentTypeOK, poolVars
    <2>1. CASE Signal
      BY <2>1 DEF Signal
    <2>2. CASE Collect \/ CollectSystem
      BY <2>2 DEF Collect, CollectSystem
    <2>3. CASE CountRead
      BY <2>3 DEF CountRead
    <2>4. CASE CountWrite
      BY <2>4 DEF CountWrite
    <2>5. CASE StopRuntime \/ StopSystem
      BY <2>5 DEF StopRuntime, StopSystem
    <2>6. CASE StopReporter
      BY <2>6 DEF StopReporter
    <2>7. QED
      BY <2>1, <2>2, <2>3, <2>4, <2>5, <2>6
  <1>3. ShutdownInv'
    BY <1>1 DEF AgentInv, ShutdownInv, poolVars, Signal, Collect, CountRead,
           CountWrite, CollectSystem, StopRuntime, StopSystem, StopReporter
  <1>4. PollsInv'
    <2> USE DEF AgentInv, AgentTypeOK, PollsInv, PollsAreReported
    <2>1. CASE CountRead
      BY <2>1 DEF CountRead
    <2>2. CASE CountWrite /\ Sending
      BY <2>2 DEF CountWrite
    <2>3. CASE CountWrite /\ ~Sending
      BY <2>3 DEF CountWrite, Sending
    <2>4. CASE Signal \/ Collect \/ CollectSystem \/ StopRuntime \/ StopSystem
               \/ StopReporter
      BY <2>4 DEF Signal, Collect, CollectSystem, StopRuntime, StopSystem, StopReporter
    <2>5. QED
      BY <2>1, <2>2, <2>3, <2>4
  <1>5. QED
    BY <1>2, <1>3, <1>4 DEF AgentInv

\* The reporter: a Submit in progress means that it has not returned, so the
\* channel is open.
LEMMA ReporterStep ==
  ASSUME AgentInv, PoolTypeOK', Tick \/ SubmitReport
  PROVE  AgentInv'
  <1> USE SubmitterAssumption DEF AgentInv
  <1>1. AgentTypeOK'
    BY DEF AgentTypeOK, agentOnlyVars, Tick, SubmitReport, Check, Send
  <1>2. ShutdownInv'
    <2> USE DEF AgentTypeOK, PoolTypeOK, ShutdownInv, agentOnlyVars
    <2>1. CASE Tick
      BY <2>1 DEF Tick, Check
    <2>2. CASE SubmitReport
      <3>1. ~reporterDone /\ ~chanClosed
        BY <2>2 DEF SubmitReport, Send
      <3>2. gone = {}
        BY <3>1
      <3>3. QED
        BY <2>2, <3>1, <3>2 DEF SubmitReport, Send
    <2>3. QED
      BY <2>1, <2>2
  <1>3. PollsInv'
    BY DEF PollsInv, PollsAreReported, agentOnlyVars, Tick, SubmitReport
  <1>4. QED
    BY <1>1, <1>2, <1>3

\* main: it begins the shutdown when the reporter has returned, and Shutdown
\* returns when every worker has left.
LEMMA MainStep ==
  ASSUME AgentInv, PoolTypeOK', BeginShutdown \/ CloseTheQueue \/ Exit
  PROVE  AgentInv'
  <1> USE SubmitterAssumption DEF AgentInv
  <1>1. AgentTypeOK'
    BY DEF AgentTypeOK, agentOnlyVars, BeginShutdown, CloseTheQueue, Exit,
           SetClosed, CloseQueue, ShutdownReturns
  <1>2. ShutdownInv'
    <2> USE DEF AgentTypeOK, PoolTypeOK, ShutdownInv, agentOnlyVars
    <2>1. CASE BeginShutdown
      BY <2>1 DEF BeginShutdown, Waited, SetClosed
    <2>2. CASE CloseTheQueue
      BY <2>2 DEF CloseTheQueue, CloseQueue
    <2>3. CASE Exit
      BY <2>3 DEF Exit, ShutdownReturns, Once
    <2>4. QED
      BY <2>1, <2>2, <2>3
  <1>3. PollsInv'
    BY DEF PollsInv, PollsAreReported, agentOnlyVars, BeginShutdown, CloseTheQueue, Exit
  <1>4. QED
    BY <1>1, <1>2, <1>3

\* A worker takes a report, ends one or leaves.
LEMMA WorkerPoolStep ==
  ASSUME AgentInv, PoolTypeOK', NEW w \in Workers,
         BeginReport(w) \/ EndReport(w) \/ WorkerLeaves(w)
  PROVE  AgentInv'
  <1> USE DEF AgentInv, AgentTypeOK, PoolTypeOK
  <1>1. CASE BeginReport(w)
    <2>1. Head(taskQueue) \in Tasks /\ Head(taskQueue) # NoTask
      BY <1>1, NoTaskAssumption DEF BeginReport, Take
    <2>2. AgentTypeOK'
      BY <1>1, <2>1, AgentBoundAssumption
         DEF BeginReport, Take, NoReport, Steps, AllOutcomes
    <2>3. ShutdownInv'
      BY <1>1 DEF ShutdownInv, BeginReport, Take
    <2>4. PollsInv'
      BY <1>1 DEF PollsInv, PollsAreReported, BeginReport, NoReport
    <2>5. QED
      BY <2>2, <2>3, <2>4
  <1>2. CASE EndReport(w)
    <2>1. AgentTypeOK'
      BY <1>2, AgentBoundAssumption
         DEF EndReport, Finish, NoReport, Steps, AllOutcomes
    <2>2. ShutdownInv'
      BY <1>2 DEF ShutdownInv, EndReport, Finish
    <2>3. PollsInv'
      BY <1>2 DEF PollsInv, PollsAreReported, EndReport, NoReport
    <2>4. QED
      BY <2>1, <2>2, <2>3
  <1>3. CASE WorkerLeaves(w)
    <2>1. AgentTypeOK'
      BY <1>3 DEF WorkerLeaves, Leave, agentOnlyVars
    <2>2. ShutdownInv'
      BY <1>3 DEF ShutdownInv, WorkerLeaves, Leave, Drained, agentOnlyVars
    <2>3. PollsInv'
      BY <1>3 DEF PollsInv, PollsAreReported, WorkerLeaves, agentOnlyVars
    <2>4. QED
      BY <2>1, <2>2, <2>3
  <1>4. QED
    BY <1>1, <1>2, <1>3

Reports == [pc : Steps, arg : Nat, attempt : 0 .. MaxRetries,
            errG : AllOutcomes, errC : AllOutcomes]

\* SendWithRetry's decision keeps the delta, and ends a report with success
\* only if the counters have arrived.
LEMMA DecidedReport ==
  ASSUME NEW w, NEW outcome \in AllOutcomes,
         report[w] \in Reports, report[w].pc = "counter"
  PROVE  /\ Decided(w, outcome) \in Reports
         /\ Decided(w, outcome).pc # "none"
         /\ Decided(w, outcome).arg = report[w].arg
         /\ Decided(w, outcome).pc = "reset" => Succeeded(outcome)
  <1> USE AgentBoundAssumption DEF Decided, Reports, Steps
  <1>1. CASE Succeeded(outcome)
    BY <1>1
  <1>2. CASE ~Succeeded(outcome) /\ Retries(w, outcome)
    <2>1. report[w].attempt + 1 \in 0 .. MaxRetries
      BY <1>2 DEF Retries
    <2>2. QED
      BY <1>2, <2>1
  <1>3. CASE ~Succeeded(outcome) /\ ~Retries(w, outcome)
    BY <1>3
  <1>4. QED
    BY <1>1, <1>2, <1>3

\* A worker runs a report.  What the report has read covers the polls until
\* the server has added it.
LEMMA ReportStep ==
  ASSUME AgentInv, NEW w \in Workers,
         \/ CheckContext(w) \/ SendGauges(w) \/ SendCounters(w) \/ ResetCounter(w)
  PROVE  AgentInv'
  <1> USE DEF AgentInv
  <1>1. UNCHANGED poolVars /\ UNCHANGED <<ctxDone, poller, system, reporterDone,
                                          collected, seen, polls, during>>
    BY DEF CheckContext, SendGauges, SendCounters, ResetCounter
  <1>2. ShutdownInv'
    BY <1>1 DEF ShutdownInv, poolVars
  <1>3. PoolTypeOK'
    BY <1>1 DEF AgentTypeOK, PoolTypeOK, poolVars
  <1>4. CASE CheckContext(w)
    <2>1. AgentTypeOK'
      BY <1>1, <1>3, <1>4 DEF AgentTypeOK, poolVars, CheckContext, Steps
    <2>2. PollsInv'
      BY <1>4 DEF AgentTypeOK, PollsInv, PollsAreReported, CheckContext
    <2>3. QED
      BY <1>2, <2>1, <2>2
  <1>5. CASE SendGauges(w)
    <2>1. AgentTypeOK'
      <3>1. PICK outcome \in AllOutcomes : report' = [report EXCEPT ![w] =
                [@ EXCEPT !.pc = "counter", !.errG = outcome]]
        BY <1>5, OutcomesAssumption DEF SendGauges, AllOutcomes
      <3>2. QED
        BY <1>1, <1>3, <1>5, <3>1 DEF AgentTypeOK, poolVars, SendGauges, Steps
    <2>2. PollsInv'
      BY <1>5 DEF AgentTypeOK, PollsInv, PollsAreReported, SendGauges
    <2>3. QED
      BY <1>2, <2>1, <2>2
  <1>6. CASE SendCounters(w)
    <2>1. PICK outcome \in AllOutcomes :
            /\ total' = IF outcome \in Applied THEN total + report[w].arg ELSE total
            /\ report' = [report EXCEPT ![w] = Decided(w, outcome)]
      BY <1>6, OutcomesAssumption DEF SendCounters
    <2>2. report[w].pc = "counter" /\ report[w] \in Reports
      BY <1>6 DEF SendCounters, AgentTypeOK, Reports
    <2>3. /\ Decided(w, outcome) \in Reports
          /\ Decided(w, outcome).pc # "none"
          /\ Decided(w, outcome).arg = report[w].arg
          /\ Decided(w, outcome).pc = "reset" => Succeeded(outcome)
      BY <2>2, DecidedReport
    <2>4. AgentTypeOK'
      <3>1. report' \in [Workers -> Reports]
        BY <2>1, <2>3 DEF AgentTypeOK, Reports
      <3>2. \A v \in Workers : report'[v].pc = "none" <=> report[v].pc = "none"
        BY <2>1, <2>2, <2>3 DEF AgentTypeOK
      <3>3. total' \in Nat /\ pollCounter' = pollCounter
        BY <1>6, <2>1, <2>2 DEF AgentTypeOK, SendCounters, Reports
      <3>4. QED
        BY <1>1, <1>3, <3>1, <3>2, <3>3 DEF AgentTypeOK, poolVars, Reports
    <2>5. PollsInv'
      <3>1. PICK more \in Nat : /\ total' = total + more
                                /\ Succeeded(outcome) => more = report[w].arg
        <4> DEFINE added == IF outcome \in Applied THEN report[w].arg ELSE 0
        <4>1. added \in Nat /\ total' = total + added
          BY <2>1, <2>2 DEF AgentTypeOK, Reports
        <4>2. Succeeded(outcome) => added = report[w].arg
          BY DEF Succeeded, Applied
        <4>3. QED
          BY <4>1, <4>2
      <3>2. polls <= total + report[w].arg + during
        BY <2>2 DEF PollsInv
      <3>3. pollCounter' = pollCounter
        BY <1>6 DEF SendCounters
      <3>4. /\ polls <= total' + pollCounter + during
            /\ poller = "write" => polls <= total' + seen + during
        BY <3>1 DEF AgentTypeOK, PollsInv, PollsAreReported
      <3>5. ASSUME NEW v \in Workers
            PROVE  /\ report'[v].pc \in {"gauge", "counter"} =>
                          polls <= total' + report'[v].arg + during
                   /\ report'[v].pc = "reset" => polls <= total' + during
        <4>1. CASE v = w
          BY <2>1, <2>2, <2>3, <3>1, <3>2, <4>1 DEF AgentTypeOK, Reports
        <4>2. CASE v # w
          BY <2>1, <3>1, <4>2 DEF AgentTypeOK, PollsInv
        <4>3. QED
          BY <4>1, <4>2
      <3>6. QED
        BY <1>1, <3>3, <3>4, <3>5 DEF PollsInv, PollsAreReported
    <2>6. QED
      BY <1>2, <2>4, <2>5
  <1>7. CASE ResetCounter(w)
    <2>1. AgentTypeOK'
      BY <1>1, <1>3, <1>7 DEF AgentTypeOK, poolVars, ResetCounter, Steps
    <2>2. PollsInv'
      BY <1>7 DEF AgentTypeOK, PollsInv, PollsAreReported, ResetCounter
    <2>3. QED
      BY <1>2, <2>1, <2>2
  <1>8. QED
    BY <1>4, <1>5, <1>6, <1>7

\* One step of any goroutine keeps the invariant.
LEMMA AgentInvStep == AgentInv /\ [AgentNext]_agentVars => AgentInv'
  <1> SUFFICES ASSUME AgentInv, [AgentNext]_agentVars PROVE AgentInv'
    OBVIOUS
  <1>1. PoolTypeOK'
    BY AgentStepIsPoolStep, PoolTypeStep DEF AgentInv, AgentTypeOK
  <1>2. ASSUME NEW w \in Workers, WorkerStep(w) PROVE AgentInv'
    BY <1>1, <1>2, WorkerPoolStep, ReportStep DEF WorkerStep
  <1>3. CASE UNCHANGED agentVars
    BY <1>1, <1>3 DEF AgentInv, AgentTypeOK, ShutdownInv, PollsInv, PollsAreReported,
                      agentVars, agentOnlyVars, poolVars
  <1>4. QED
    BY <1>1, <1>2, <1>3, CollectorStep, ReporterStep, MainStep DEF AgentNext

-----------------------------------------------------------------------------
(* What follows from it.                                                   *)

\* Every reachable state satisfies the invariant.
LEMMA AgentInvariant == AgentSpec => []AgentInv
  BY AgentInitInv, AgentInvStep, PTL DEF AgentSpec

\* Every variable of the agent has its type in every reachable state.
THEOREM AgentTypeCorrect == AgentSpec => []AgentTypeOK
  <1>1. AgentInv => AgentTypeOK
    BY DEF AgentInv
  <1>2. QED
    BY <1>1, AgentInvariant, PTL

\* The agent never sends on the closed channel of its pool, whatever Submit,
\* the workers and main do in between (cmd/agent/main.go, g.Wait before
\* Shutdown; worker_pool.go, Submit).
THEOREM NoPanic == AgentSpec => []NeverPanics
  <1>1. AgentInv => NeverPanics
    BY DEF AgentInv, ShutdownInv, NeverPanics
  <1>2. QED
    BY <1>1, AgentInvariant, PTL

\* A poll that the server does not count was made while a report was being
\* sent, for any number of workers and any outcomes of the requests
\* (agent.go:40, 85 and 89).
THEOREM PollsReported == AgentSpec => []PollsAreReported
  <1>1. AgentInv => PollsAreReported
    BY DEF AgentInv, PollsInv
  <1>2. QED
    BY <1>1, AgentInvariant, PTL

\* When Shutdown has returned, no report is queued, running or half-way
\* (worker_pool.go, Shutdown waits for the workers, who empty the queue).
THEOREM ReportsEnded == AgentSpec => []ReportsEnd
  <1>1. AgentInv => ReportsEnd
    BY WorkersAssumption
       DEF AgentInv, AgentTypeOK, ShutdownInv, ReportsEnd, Queued, Running
  <1>2. QED
    BY <1>1, AgentInvariant, PTL

\* The agent uses its pool as the pool is specified: what is shown for
\* WorkerPool holds in the agent.
THEOREM AgentUsesPool == AgentSpec => PoolSpec
  <1>1. AgentInit => PoolInit
    BY DEF AgentInit
  <1>2. QED
    BY <1>1, AgentStepIsPoolStep, PTL DEF AgentSpec, PoolSpec

\* So the reports the agent hands in are each refused at once or sent by one
\* worker, and none is queued or under way when the agent's Shutdown has
\* returned (cmd/agent/main.go:69).
THEOREM AgentKeepsPoolsPromise == AgentSpec => RunsEachTaskOnce
  <1> QED BY AgentUsesPool, PoolKeepsItsPromise
=============================================================================
