----------------------------- MODULE WorkerPool -----------------------------
(***************************************************************************)
(* The agent's worker pool: internal/agent/worker_pool.go.                 *)
(*                                                                         *)
(* Submit looks at "closed" under the read lock, releases it, and then     *)
(* sends to the channel without waiting: a full queue drops the task.      *)
(* Shutdown sets "closed" and closes the channel under the write lock,     *)
(* then waits for the workers, who first empty the queue.  Between the two *)
(* steps of a Submit the channel can be closed; sending to it then panics, *)
(* which ends the process.  Whoever uses the pool has to exclude that.     *)
(***************************************************************************)
EXTENDS Naturals, Sequences, FiniteSets

CONSTANTS
    Workers,     \* the goroutines started by NewWorkerPool
    PerWorker,   \* places in the queue for each worker (10 in the code)
    Submitters,  \* goroutines that call Submit
    Closers,     \* goroutines that call Shutdown
    Tasks,
    NoTask

ASSUME WorkersAssumption == IsFiniteSet(Workers) /\ Workers # {}
ASSUME QueueAssumption   == PerWorker \in Nat \ {0}
ASSUME NoTaskAssumption  == NoTask \notin Tasks

VARIABLES
    taskQueue,   \* the channel's buffer
    chanClosed,  \* close(taskQueue) has been called
    closed,      \* the flag
    mu,          \* the Shutdown that holds the write lock, or "free"
    task,        \* task[w]: the task worker w runs, or NoTask
    gone,        \* the workers that have returned
    submit,      \* submit[s]: the task of a Submit past its check, or NoTask
    shutdown,    \* shutdown[c]: where a call of Shutdown is
    panicked,    \* a goroutine has sent to the closed channel
    done,        \* history: the tasks that have run
    dropped      \* history: the tasks that Submit did not accept

poolVars == <<taskQueue, chanClosed, closed, mu, task, gone, submit, shutdown,
              panicked, done, dropped>>

Capacity == Cardinality(Workers) * PerWorker

Queued  == {taskQueue[i] : i \in DOMAIN taskQueue}
Running == {task[w] : w \in Workers} \ {NoTask}
Fresh   == Tasks \ (Queued \cup Running \cup done \cup dropped
                        \cup {submit[s] : s \in Submitters})

PoolInit ==
    /\ taskQueue = <<>> /\ chanClosed = FALSE /\ closed = FALSE /\ mu = "free"
    /\ task = [w \in Workers |-> NoTask]
    /\ gone = {}
    /\ submit = [s \in Submitters |-> NoTask]
    /\ shutdown = [c \in Closers |-> "before"]
    /\ panicked = FALSE
    /\ done = {} /\ dropped = {}

-----------------------------------------------------------------------------
(* Submit.                                                                 *)

\* The check, under the read lock.  A closed pool ignores the task.
Check(s, t) ==
    /\ ~panicked /\ submit[s] = NoTask /\ mu = "free"
    /\ IF closed THEN dropped' = dropped \cup {t} /\ UNCHANGED submit
                 ELSE submit' = [submit EXCEPT ![s] = t] /\ UNCHANGED dropped
    /\ UNCHANGED <<taskQueue, chanClosed, closed, mu, task, gone, shutdown,
                   panicked, done>>

\* A send to the channel can go on.
\* Mutant of HasRoom: the queue takes one task more than it was made for.
HasRoomForOneMore == Len(taskQueue) <= Capacity
HasRoom           == Len(taskQueue) < Capacity

\* The non-blocking send, without the lock.
Send(s) ==
    /\ ~panicked /\ submit[s] # NoTask
    /\ submit' = [submit EXCEPT ![s] = NoTask]
    /\ \/ /\ chanClosed
          /\ panicked' = TRUE
          /\ dropped' = dropped \cup {submit[s]}
          /\ UNCHANGED taskQueue
       \/ /\ ~chanClosed /\ HasRoom
          /\ taskQueue' = Append(taskQueue, submit[s])
          /\ UNCHANGED <<panicked, dropped>>
       \/ /\ ~chanClosed /\ ~HasRoom
          /\ dropped' = dropped \cup {submit[s]}
          /\ UNCHANGED <<panicked, taskQueue>>
    /\ UNCHANGED <<chanClosed, closed, mu, task, gone, shutdown, done>>

-----------------------------------------------------------------------------
(* The workers.                                                            *)

Take(w) ==
    /\ ~panicked /\ w \notin gone /\ task[w] = NoTask /\ taskQueue # <<>>
    /\ task' = [task EXCEPT ![w] = Head(taskQueue)]
    /\ taskQueue' = Tail(taskQueue)
    /\ UNCHANGED <<chanClosed, closed, mu, gone, submit, shutdown, panicked,
                   done, dropped>>

Finish(w) ==
    /\ ~panicked /\ task[w] # NoTask
    /\ task' = [task EXCEPT ![w] = NoTask]
    /\ done' = done \cup {task[w]}
    /\ UNCHANGED <<taskQueue, chanClosed, closed, mu, gone, submit, shutdown,
                   panicked, dropped>>

\* Mutant of Drained: a worker returns as soon as the channel is closed.
DrainedOrNot == TRUE
Drained      == taskQueue = <<>>

\* The range over the channel ends when it is closed and empty.
Leave(w) ==
    /\ ~panicked /\ w \notin gone /\ task[w] = NoTask
    /\ chanClosed /\ Drained
    /\ gone' = gone \cup {w}
    /\ UNCHANGED <<taskQueue, chanClosed, closed, mu, task, submit, shutdown,
                   panicked, done, dropped>>

-----------------------------------------------------------------------------
(* Shutdown.  The body runs once; other callers wait until it has returned. *)

InBody == {c \in Closers : shutdown[c] \in {"closing", "waiting"}}
Once   == \E c \in Closers : shutdown[c] = "returned"

SetClosed(c) ==
    /\ ~panicked /\ shutdown[c] = "before" /\ mu = "free"
    /\ InBody = {} /\ ~Once
    /\ mu' = c
    /\ closed' = TRUE
    /\ shutdown' = [shutdown EXCEPT ![c] = "closing"]
    /\ UNCHANGED <<taskQueue, chanClosed, task, gone, submit, panicked, done, dropped>>

\* Mutant of CloseQueue: only the flag is set, the channel stays open.
CloseQueueForgotten(c) ==
    /\ ~panicked /\ shutdown[c] = "closing"
    /\ mu' = "free"
    /\ shutdown' = [shutdown EXCEPT ![c] = "waiting"]
    /\ UNCHANGED <<taskQueue, chanClosed, closed, task, gone, submit, panicked,
                   done, dropped>>

CloseQueue(c) ==
    /\ ~panicked /\ shutdown[c] = "closing"
    /\ chanClosed' = TRUE
    /\ mu' = "free"
    /\ shutdown' = [shutdown EXCEPT ![c] = "waiting"]
    /\ UNCHANGED <<taskQueue, closed, task, gone, submit, panicked, done, dropped>>

\* wg.Wait, or once.Do of a body that has already run.
ShutdownReturns(c) ==
    /\ ~panicked
    /\ \/ shutdown[c] = "waiting" /\ gone = Workers
       \/ shutdown[c] = "before" /\ Once
    /\ shutdown' = [shutdown EXCEPT ![c] = "returned"]
    /\ UNCHANGED <<taskQueue, chanClosed, closed, mu, task, gone, submit,
                   panicked, done, dropped>>

-----------------------------------------------------------------------------

PoolNext ==
    \/ \E s \in Submitters : Send(s) \/ \E t \in Fresh : Check(s, t)
    \/ \E w \in Workers : Take(w) \/ Finish(w) \/ Leave(w)
    \/ \E c \in Closers : SetClosed(c) \/ CloseQueue(c) \/ ShutdownReturns(c)

PoolSpec == PoolInit /\ [][PoolNext]_poolVars

\* Workers run, tasks end (a report makes at most four attempts, each with a
\* timeout), and a Shutdown that has begun goes on.
PoolFairness ==
    /\ \A w \in Workers : WF_poolVars(Take(w) \/ Finish(w) \/ Leave(w))
    /\ \A c \in Closers : WF_poolVars(CloseQueue(c)) /\ WF_poolVars(ShutdownReturns(c))

FairPoolSpec == PoolSpec /\ PoolFairness

-----------------------------------------------------------------------------
(* Properties.                                                             *)

\* Every variable has its type, and the queue never exceeds its capacity.
PoolTypeOK ==
    /\ taskQueue \in Seq(Tasks) /\ Len(taskQueue) <= Capacity
    /\ chanClosed \in BOOLEAN /\ closed \in BOOLEAN /\ panicked \in BOOLEAN
    /\ mu \in Closers \cup {"free"}
    /\ task \in [Workers -> Tasks \cup {NoTask}]
    /\ gone \subseteq Workers
    /\ submit \in [Submitters -> Tasks \cup {NoTask}]
    /\ shutdown \in [Closers -> {"before", "closing", "waiting", "returned"}]
    /\ done \subseteq Tasks /\ dropped \subseteq Tasks

\* The pool runs every task it accepts exactly once, and when a Shutdown has
\* returned none is queued or running: WorkerPool implements TaskPool.
Promise == INSTANCE TaskPool WITH
    fate <- [t \in Tasks |-> CASE t \in Queued  -> "waiting"
                               [] t \in Running -> "running"
                               [] t \in done    -> "done"
                               [] t \in dropped -> "refused"
                               [] OTHER         -> "new"],
    open <- ~Once
RunsEachTaskOnce == Promise!Spec

\* Shutdown returns, unless a racing Submit has ended the process.
ShutdownEnds ==
    \A c \in Closers : shutdown[c] = "closing" ~> shutdown[c] = "returned" \/ panicked
=============================================================================
