------------------------------- MODULE Audit -------------------------------
(***************************************************************************)
(* The audit of the batch updates: internal/server/audit_middleware.go,    *)
(* manager.go, observer.go and audit.go, and the parts of RunHTTPServer    *)
(* and main that start and end it.                                         *)
(*                                                                         *)
(* When a request has been answered with success a goroutine of its own    *)
(* tells the observers what it was: NotifyAll holds the manager's lock,    *)
(* runs one goroutine per observer and waits for them.  At the shutdown    *)
(* RunHTTPServer closes the manager under the same lock, and main waits    *)
(* for RunHTTPServer only: neither for handlers nor for notifications.     *)
(* An observer's Notify holds the observer's own lock.                     *)
(***************************************************************************)
EXTENDS Naturals, FiniteSets, FiniteSetsExt, Sequences, SequencesExt

CONSTANTS
    Requests,    \* requests, each handled once
    closer,      \* the goroutine of RunHTTPServer
    NoOne,       \* the holder of a free lock
    MaxFaults    \* bound: events an observer fails to record

ASSUME AuditAssumption ==
    /\ closer \notin Requests /\ NoOne \notin Requests \cup {closer}
    /\ MaxFaults \in Nat

Observers == {"file",   \* FileObserver
              "http"}   \* HTTPObserver; the audit server is external

VARIABLES
    stage,      \* "serving", "stopping", "closing", "closed" or "exited"
    pc,         \* pc[r]: where r's handler or its notification is; "new" when
                \* the request has arrived
    kind,       \* kind[r]: what the handler will do, see Kinds
    metrics,    \* the requests whose context has the names of the metrics
    observers,  \* the manager's observers
    enabled,
    mu,         \* the holder of the manager's lock
    told,       \* told[r]: observers whose Notify goroutine for r runs
    posting,    \* the request whose event the audit server has to answer: its
                \* Notify holds the HTTP observer's lock
    fileOpen,
    log,        \* log[o]: the events the configured observer o has recorded
    failed,     \* history: the events an observer failed to record
    late        \* history: the requests that came after Close

auditVars == <<stage, pc, kind, metrics, observers, enabled, mu, told, posting,
               fileOpen, log, failed, late>>

RequestKinds ==
    {"batch",   \* POST /updates that succeeds: the handler names its metrics
     "other",   \* another successful request, or an empty batch: no names
     "bad"}     \* answered with a status of 400 or more

\* initAuditObservers: those that are configured and can be opened.
\* NewAuditManager(true): enabled also without observers.
Init ==
    /\ stage = "serving"
    /\ pc = [r \in Requests |-> "new"]
    /\ kind \in [Requests -> RequestKinds]
    /\ metrics = {}
    /\ observers \in SUBSET Observers /\ enabled = TRUE
    /\ mu = NoOne /\ posting = NoOne
    /\ told = [r \in Requests |-> {}]
    /\ fileOpen = ("file" \in observers)
    /\ log = [o \in observers |-> <<>>]
    /\ failed = [o \in observers |-> {}]
    /\ late = {}

Alive == stage # "exited"
At(r, where) == Alive /\ pc[r] = where
Goto(r, where) == pc' = [pc EXCEPT ![r] = where]

managerVars  == <<observers, enabled, fileOpen>>
notifierVars == <<mu, told, posting, log, failed, late>>

-----------------------------------------------------------------------------
(* The middleware.                                                         *)

\* auditManager.IsEnabled(), with its lock.  A request that arrived before
\* server.Close can get here at any time.
CheckEnabled(r) ==
    /\ At(r, "new") /\ mu = NoOne
    /\ Goto(r, IF enabled THEN "handler" ELSE "plain")
    /\ late' = IF enabled THEN late ELSE late \cup {r}
    /\ UNCHANGED <<stage, kind, metrics, managerVars, mu, told, posting, log, failed>>

\* next.ServeHTTP: the batch handlers put the names into the context of the
\* request as their last step (*req = *updatedReq).
Handle(r) ==
    /\ At(r, "handler") \/ At(r, "plain")
    /\ metrics' = IF kind[r] = "batch" THEN metrics \cup {r} ELSE metrics
    /\ Goto(r, IF pc[r] = "plain" THEN "done" ELSE "handled")
    /\ UNCHANGED <<stage, kind, managerVars, notifierVars>>

\* The status decides: a goroutine of its own goes on, or nothing.  The client
\* has its answer when this returns.
Answer(r) ==
    /\ At(r, "handled")
    /\ Goto(r, IF kind[r] # "bad" THEN "event" ELSE "done")
    /\ UNCHANGED <<stage, kind, metrics, managerVars, notifierVars>>

\* Mutant of GetAuditData: an event without names is told as well.
GetAuditDataAlways(r) ==
    /\ At(r, "event")
    /\ Goto(r, "notify")
    /\ UNCHANGED <<stage, kind, metrics, managerVars, notifierVars>>

\* GetAuditData: without names there is no event.  CleanupAuditData deletes
\* from a map that nothing ever fills.
GetAuditData(r) ==
    /\ At(r, "event")
    /\ Goto(r, IF r \in metrics THEN "notify" ELSE "done")
    /\ UNCHANGED <<stage, kind, metrics, managerVars, notifierVars>>

-----------------------------------------------------------------------------
(* NotifyAll.                                                              *)

\* Mutant of Notify: an event that finds the lock taken is dropped (TryLock).
NotifyOrDrop(r) ==
    /\ At(r, "notify")
    /\ IF mu = NoOne /\ enabled
       THEN mu' = r /\ told' = [told EXCEPT ![r] = observers] /\ Goto(r, "wait")
       ELSE Goto(r, "done") /\ UNCHANGED <<mu, told>>
    /\ late' = IF mu = NoOne /\ ~enabled THEN late \cup {r} ELSE late
    /\ UNCHANGED <<stage, kind, metrics, managerVars, posting, log, failed>>

\* Lock; if the manager is enabled one goroutine starts for each observer.  If
\* not, return with the deferred unlock.
Notify(r) ==
    /\ At(r, "notify") /\ mu = NoOne
    /\ IF enabled
       THEN mu' = r /\ told' = [told EXCEPT ![r] = observers] /\ Goto(r, "wait") /\ UNCHANGED late
       ELSE late' = late \cup {r} /\ Goto(r, "done") /\ UNCHANGED <<mu, told>>
    /\ UNCHANGED <<stage, kind, metrics, managerVars, posting, log, failed>>

CanFail == MapThenSumSet(LAMBDA o : Cardinality(failed[o]), DOMAIN failed) < MaxFaults

Records(o, r) == log' = [log EXCEPT ![o] = Append(@, r)]

\* Observer o's goroutine for r runs until the process ends; Ended is its end.
Telling(r, o) == Alive /\ o \in told[r]
Ended(r, o)   == told' = [told EXCEPT ![r] = @ \ {o}]

\* FileObserver.Notify: one Write.  A file that is closed refuses it.
NotifyFile(r) ==
    /\ Telling(r, "file") /\ Ended(r, "file")
    /\ \/ fileOpen /\ Records("file", r) /\ UNCHANGED failed
       \/ /\ ~fileOpen \/ CanFail
          /\ failed' = [failed EXCEPT !["file"] = @ \cup {r}]
          /\ UNCHANGED log
    /\ UNCHANGED <<stage, pc, kind, metrics, managerVars, mu, posting, late>>

\* HTTPObserver.Notify: client.Post, without a timeout.  The event arrives ...
PostEvent(r) ==
    /\ Telling(r, "http") /\ posting = NoOne
    /\ posting' = r
    /\ Records("http", r)
    /\ UNCHANGED <<stage, pc, kind, metrics, managerVars, mu, told, failed, late>>

\* ... and the audit server answers, with an error status perhaps.
PostAnswered(r) ==
    /\ Telling(r, "http") /\ posting = r
    /\ Ended(r, "http") /\ posting' = NoOne
    /\ UNCHANGED <<stage, pc, kind, metrics, managerVars, mu, log, failed, late>>

\* The connection is refused.
PostFails(r) ==
    /\ Telling(r, "http") /\ posting = NoOne /\ CanFail
    /\ Ended(r, "http")
    /\ failed' = [failed EXCEPT !["http"] = @ \cup {r}]
    /\ UNCHANGED <<stage, pc, kind, metrics, managerVars, mu, posting, log, late>>

\* Mutant of Waited: wg.Wait() is left out.
WaitedNot(r) == TRUE
Waited(r)    == told[r] = {}

\* Mutant of NotifyReturns: the unlock is left out.
NotifyReturnsLocked(r) ==
    /\ At(r, "wait") /\ Waited(r)
    /\ Goto(r, "done")
    /\ UNCHANGED <<stage, kind, metrics, managerVars, mu, told, posting, log, failed, late>>

\* wg.Wait() returns, and the deferred unlock.
NotifyReturns(r) ==
    /\ At(r, "wait") /\ Waited(r)
    /\ mu' = NoOne
    /\ Goto(r, "done")
    /\ UNCHANGED <<stage, kind, metrics, managerVars, told, posting, log, failed, late>>

-----------------------------------------------------------------------------
(* The shutdown.                                                           *)

\* The signal, and server.Close: no new requests, ListenAndServe returns.
Stop ==
    /\ stage = "serving"
    /\ stage' = "stopping"
    /\ UNCHANGED <<pc, kind, metrics, managerVars, notifierVars>>

\* The deferred auditManager.Close takes the lock ...
LockClose ==
    /\ stage = "stopping" /\ mu = NoOne
    /\ mu' = closer /\ stage' = "closing"
    /\ UNCHANGED <<pc, kind, metrics, managerVars, told, posting, log, failed, late>>

\* ... closes the observers and disables the manager.
\* Mutant of Close: enabled stays as it was.
CloseKeepsEnabled ==
    /\ stage = "closing"
    /\ fileOpen' = FALSE
    /\ mu' = NoOne /\ stage' = "closed"
    /\ UNCHANGED <<observers, enabled, pc, kind, metrics, told, posting, log, failed, late>>

Close ==
    /\ stage = "closing"
    /\ fileOpen' = FALSE
    /\ observers' = {} /\ enabled' = FALSE
    /\ mu' = NoOne /\ stage' = "closed"
    /\ UNCHANGED <<pc, kind, metrics, told, posting, log, failed, late>>

\* wg.Done; main returns, and what still runs ends with it.
Exit ==
    /\ stage = "closed"
    /\ stage' = "exited"
    /\ UNCHANGED <<pc, kind, metrics, managerVars, notifierVars>>

Notification(r) ==
    \/ GetAuditData(r) \/ Notify(r) \/ NotifyFile(r) \/ PostEvent(r)
    \/ PostFails(r) \/ NotifyReturns(r)

Middleware(r) == CheckEnabled(r) \/ Handle(r) \/ Answer(r)

Next ==
    \/ \E r \in Requests : Middleware(r) \/ Notification(r) \/ PostAnswered(r)
    \/ Stop \/ LockClose \/ Close \/ Exit

Spec == Init /\ [][Next]_auditVars

\* The goroutines run.  LockClose competes with notifications for the mutex,
\* which serves a goroutine that has waited for 1 ms first.  AuditAnswers is
\* about the audit server: it answers every request.
Running ==
    /\ \A r \in Requests : /\ WF_auditVars(Handle(r)) /\ WF_auditVars(Answer(r))
                           /\ SF_auditVars(CheckEnabled(r))
                           /\ SF_auditVars(Notification(r))
    /\ SF_auditVars(LockClose) /\ WF_auditVars(Close) /\ WF_auditVars(Exit)

AuditAnswers == \A r \in Requests : WF_auditVars(PostAnswered(r))

FairSpec == Spec /\ Running /\ AuditAnswers

-----------------------------------------------------------------------------
(* Properties.                                                             *)

Stages == {"serving", "stopping", "closing", "closed", "exited"}
Places == {"new", "plain", "handler", "handled", "event", "notify", "wait", "done"}

\* Every variable has its type; the notification that waits for its observers
\* holds the lock.
TypeOK ==
    /\ stage \in Stages
    /\ pc \in [Requests -> Places]
    /\ metrics \subseteq Requests /\ late \subseteq Requests
    /\ observers \subseteq Observers /\ told \in [Requests -> SUBSET Observers]
    /\ {enabled, fileOpen} \subseteq BOOLEAN
    /\ posting \in Requests \cup {NoOne}
    /\ mu \in Requests \cup {closer, NoOne}
    /\ \A o \in DOMAIN log : log[o] \in Seq(Requests) /\ failed[o] \subseteq Requests
    /\ \A r \in Requests : pc[r] = "wait" => mu = r
    /\ \A r \in Requests : told[r] # {} => pc[r] = "wait"

\* An observer records an event at most once, and only that of a batch that
\* was applied, whatever the order in which the goroutines run
\* (audit_middleware.go:34 and 41, the status and the names decide).
OnlyAppliedBatches ==
    \A o \in DOMAIN log : /\ IsInjective(log[o])
                          /\ \A i \in DOMAIN log[o] : kind[log[o][i]] = "batch"

\* When the notification of an applied batch is over, every configured
\* observer has recorded the event or reported an error, unless the audit was
\* closed first (manager.go:66, wg.Wait before the unlock).
NothingLost ==
    \A r \in metrics : pc[r] = "done" /\ r \notin late =>
        \A o \in DOMAIN log : Contains(log[o], r) \/ r \in failed[o]

\* Close never closes the file under an event that is being written
\* (manager.go:47 and 71, the same lock).
NoClosedObserver == \A r \in Requests : "file" \in told[r] => fileOpen

\* Every request is answered although IsEnabled needs the lock that
\* notifications hold, as long as the audit server answers (manager.go:86).
RequestsAnswered ==
    \A r \in Requests :
        pc[r] = "new" ~> \/ pc[r] \in {"event", "notify", "wait", "done"}
                         \/ stage = "exited"

\* The event of an applied batch reaches every observer, unless the observer
\* fails, the audit is closed first or the process ends
\* (audit_middleware.go:35, the goroutine that main does not wait for).
BatchesRecorded ==
    \A r \in Requests : r \in metrics ~>
        \/ \A o \in DOMAIN log : Contains(log[o], r) \/ r \in failed[o]
        \/ r \in late \/ stage = "exited"

\* The shutdown ends, notifications or not, as long as the audit server
\* answers (main.go:133, wg.Wait; server.go:39, the deferred Close).
StopEnds == stage = "stopping" ~> stage = "exited"
=============================================================================
