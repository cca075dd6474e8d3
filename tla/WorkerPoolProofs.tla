-------------------------- MODULE WorkerPoolProofs --------------------------
(***************************************************************************)
(* Proofs about WorkerPool, for any numbers of workers, submitters,        *)
(* closers and tasks: its types, and that it implements TaskPool.          *)
(*                                                                         *)
(* The argument for the refinement: a task is in one place at a time, so   *)
(* that each step changes the fate of one task at most; and a worker       *)
(* leaves only when the channel is closed and empty, so that nothing is    *)
(* queued or running when a Shutdown has returned.                         *)
(***************************************************************************)
EXTENDS WorkerPool, FiniteSetTheorems, TLAPS

\* make(chan *Task, workers*10): the capacity is a number.
LEMMA CapacityNat == Capacity \in Nat
  <1>1. Cardinality(Workers) \in Nat
    BY WorkersAssumption, FS_CardinalityType
  <1>2. QED
    BY <1>1, QueueAssumption DEF Capacity

\* NewWorkerPool starts the pool with the right types.
LEMMA PoolInitType == PoolInit => PoolTypeOK
  <1> SUFFICES ASSUME PoolInit PROVE PoolTypeOK
    OBVIOUS
  <1>1. taskQueue \in Seq(Tasks) /\ Len(taskQueue) <= Capacity
    BY CapacityNat DEF PoolInit
  <1>2. QED
    BY <1>1 DEF PoolInit, PoolTypeOK

\* Every step of the pool keeps the types and the bound of the queue.
LEMMA PoolTypeStep == PoolTypeOK /\ [PoolNext]_poolVars => PoolTypeOK'
  <1> SUFFICES ASSUME PoolTypeOK, [PoolNext]_poolVars PROVE PoolTypeOK'
    OBVIOUS
  <1> USE CapacityNat DEF PoolTypeOK
  <1>1. ASSUME NEW s \in Submitters, Send(s) PROVE PoolTypeOK'
    <2>1. CASE chanClosed
      BY <1>1, <2>1 DEF Send
    <2>2. CASE ~chanClosed /\ HasRoom
      BY <1>1, <2>2 DEF Send, HasRoom
    <2>3. CASE ~chanClosed /\ ~HasRoom
      BY <1>1, <2>3 DEF Send
    <2>4. QED
      BY <2>1, <2>2, <2>3
  <1>2. ASSUME NEW s \in Submitters, NEW t \in Fresh, Check(s, t) PROVE PoolTypeOK'
    BY <1>2 DEF Check, Fresh
  <1>3. ASSUME NEW w \in Workers, Take(w) PROVE PoolTypeOK'
    BY <1>3 DEF Take
  <1>4. ASSUME NEW w \in Workers, Finish(w) PROVE PoolTypeOK'
    BY <1>4 DEF Finish
  <1>5. ASSUME NEW w \in Workers, Leave(w) PROVE PoolTypeOK'
    BY <1>5 DEF Leave
  <1>6. ASSUME NEW c \in Closers, SetClosed(c) PROVE PoolTypeOK'
    BY <1>6 DEF SetClosed
  <1>7. ASSUME NEW c \in Closers, CloseQueue(c) PROVE PoolTypeOK'
    BY <1>7 DEF CloseQueue
  <1>8. ASSUME NEW c \in Closers, ShutdownReturns(c) PROVE PoolTypeOK'
    BY <1>8 DEF ShutdownReturns
  <1>9. CASE UNCHANGED poolVars
    BY <1>9 DEF poolVars
  <1>10. QED
    BY <1>1, <1>2, <1>3, <1>4, <1>5, <1>6, <1>7, <1>8, <1>9 DEF PoolNext

\* The pool's variables keep their types, and the queue never exceeds its
\* capacity, whatever the numbers of workers, submitters and closers
\* (worker_pool.go, NewWorkerPool and Submit).
THEOREM PoolTypeCorrect == PoolSpec => []PoolTypeOK
  <1> QED
    BY PoolInitType, PoolTypeStep, PTL DEF PoolSpec

-----------------------------------------------------------------------------
(* The queue as a set.                                                     *)

Elements(s) == {s[i] : i \in DOMAIN s}
Distinct(s) == \A i, j \in DOMAIN s : s[i] = s[j] => i = j

\* A task that is sent to the channel.
LEMMA QueueAppend ==
    ASSUME NEW s \in Seq(Tasks), NEW t \in Tasks
    PROVE  /\ Elements(Append(s, t)) = Elements(s) \cup {t}
           /\ Distinct(s) /\ t \notin Elements(s) => Distinct(Append(s, t))
  <1> DEFINE q == Append(s, t)
  <1>1. /\ DOMAIN s = 1 .. Len(s) /\ DOMAIN q = 1 .. Len(s) + 1 /\ Len(s) \in Nat
        /\ q[Len(s) + 1] = t /\ \A i \in 1 .. Len(s) : q[i] = s[i]
    OBVIOUS
  <1> HIDE DEF q
  <1>2. Elements(q) = Elements(s) \cup {t}
    <2>1. Elements(q) \subseteq Elements(s) \cup {t}
      <3>1. \A i \in 1 .. Len(s) + 1 : i \in 1 .. Len(s) \/ i = Len(s) + 1
        BY <1>1
      <3> QED BY <1>1, <3>1 DEF Elements
    <2>2. Elements(s) \cup {t} \subseteq Elements(q)
      BY <1>1 DEF Elements
    <2> QED BY <2>1, <2>2
  <1>3. Distinct(s) /\ t \notin Elements(s) => Distinct(q)
    <2>1. \A i \in 1 .. Len(s) + 1 : i \in 1 .. Len(s) \/ i = Len(s) + 1
      BY <1>1
    <2> QED BY <1>1, <2>1 DEF Elements, Distinct
  <1> QED BY <1>2, <1>3 DEF q

\* A task that is received from the channel.
LEMMA QueueTail ==
    ASSUME NEW s \in Seq(Tasks), s # <<>>
    PROVE  /\ Head(s) \in Tasks
           /\ Elements(s) = {Head(s)} \cup Elements(Tail(s))
           /\ Distinct(s) => Distinct(Tail(s)) /\ Head(s) \notin Elements(Tail(s))
  <1> DEFINE q == Tail(s)
  <1>1. /\ DOMAIN s = 1 .. Len(s) /\ DOMAIN q = 1 .. Len(s) - 1 /\ Len(s) \in Nat \ {0}
        /\ s[1] = Head(s) /\ \A i \in 1 .. Len(s) - 1 : q[i] = s[i + 1]
        /\ Head(s) \in Tasks
    OBVIOUS
  <1> HIDE DEF q
  <1>2. \A i \in 1 .. Len(s) : i = 1 \/ (i - 1 \in 1 .. Len(s) - 1 /\ s[i] = q[i - 1])
    BY <1>1
  <1>3. \A i \in 1 .. Len(s) - 1 : i + 1 \in 1 .. Len(s) /\ q[i] = s[i + 1]
    BY <1>1
  <1>4. Elements(s) \subseteq {Head(s)} \cup Elements(q)
    BY <1>1, <1>2 DEF Elements
  <1>5. {Head(s)} \cup Elements(q) \subseteq Elements(s)
    BY <1>1, <1>3 DEF Elements
  <1>6. Distinct(s) => Distinct(q) /\ Head(s) \notin Elements(q)
    <2> SUFFICES ASSUME Distinct(s) PROVE Distinct(q) /\ Head(s) \notin Elements(q)
      OBVIOUS
    <2>1. ASSUME NEW i \in DOMAIN q, NEW j \in DOMAIN q, q[i] = q[j] PROVE i = j
      <3>1. i + 1 = j + 1
        BY <1>1, <1>3, <2>1 DEF Distinct
      <3> QED BY <1>1, <3>1
    <2>2. ASSUME NEW i \in DOMAIN q, q[i] = Head(s) PROVE FALSE
      <3>1. i + 1 = 1
        BY <1>1, <1>3, <2>2 DEF Distinct
      <3> QED BY <1>1, <3>1
    <2> QED BY <2>1, <2>2 DEF Distinct, Elements
  <1> QED BY <1>1, <1>4, <1>5, <1>6 DEF q

-----------------------------------------------------------------------------
(* The inductive invariant of the refinement.                              *)

Submitted == {submit[s] : s \in Submitters} \ {NoTask}

\* No task is in two places, or twice in one.
TasksApart ==
    /\ Distinct(taskQueue)
    /\ \A v, w \in Workers : task[v] = task[w] => v = w \/ task[w] = NoTask
    /\ \A r, s \in Submitters : submit[r] = submit[s] => r = s \/ submit[s] = NoTask
    /\ Queued \cap (Running \cup done \cup dropped \cup Submitted) = {}
    /\ Running \cap (done \cup dropped \cup Submitted) = {}
    /\ done \cap (dropped \cup Submitted) = {}
    /\ dropped \cap Submitted = {}

\* Workers leave an empty queue behind, and Shutdown returns after them.
ClosedInv ==
    /\ \A w \in gone : chanClosed /\ taskQueue = <<>> /\ task[w] = NoTask
    /\ Once => gone = Workers

PoolInv == PoolTypeOK /\ TasksApart /\ ClosedInv

LEMMA PoolInvInit == PoolInit => PoolInv
  <1> SUFFICES ASSUME PoolInit PROVE PoolInv
    OBVIOUS
  <1>1. TasksApart
    BY DEF PoolInit, TasksApart, Distinct, Queued, Running, Submitted
  <1>2. ClosedInv
    BY DEF PoolInit, ClosedInv, Once
  <1> QED BY <1>1, <1>2, PoolInitType DEF PoolInv

\* What a send does to the places of the tasks.
LEMMA SendMoves ==
    ASSUME PoolInv, NEW s \in Submitters, Send(s)
    PROVE  /\ submit[s] \in Submitted /\ submit[s] \in Tasks
           /\ Submitted' = Submitted \ {submit[s]}
           /\ submit' = [submit EXCEPT ![s] = NoTask]
           /\ UNCHANGED <<Running, task, gone, chanClosed, done, Once>>
           /\ \/ /\ ~chanClosed /\ dropped' = dropped /\ Distinct(taskQueue')
                 /\ Queued' = Queued \cup {submit[s]}
              \/ /\ UNCHANGED <<taskQueue, Queued>>
                 /\ dropped' = dropped \cup {submit[s]}
  <1> USE NoTaskAssumption
  <1>1. /\ submit[s] # NoTask /\ submit' = [submit EXCEPT ![s] = NoTask]
        /\ UNCHANGED <<task, gone, shutdown, chanClosed, done>>
        /\ \/ ~chanClosed /\ taskQueue' = Append(taskQueue, submit[s]) /\ dropped' = dropped
           \/ taskQueue' = taskQueue /\ dropped' = dropped \cup {submit[s]}
    BY DEF Send
  <1>2. submit[s] \in Tasks /\ submit[s] \in Submitted
    BY <1>1 DEF PoolInv, PoolTypeOK, Submitted
  <1>3. Submitted' = Submitted \ {submit[s]}
    BY <1>1 DEF PoolInv, PoolTypeOK, TasksApart, Submitted
  <1>4. submit[s] \notin Queued
    BY <1>2 DEF PoolInv, TasksApart
  <1>5. CASE taskQueue' = Append(taskQueue, submit[s])
    <2>1. Queued' = Queued \cup {submit[s]} /\ Distinct(taskQueue')
      <3>1. Queued = Elements(taskQueue) /\ Queued' = Elements(taskQueue')
        BY DEF Queued, Elements
      <3>2. taskQueue \in Seq(Tasks) /\ Distinct(taskQueue)
        BY DEF PoolInv, PoolTypeOK, TasksApart
      <3> QED BY <1>2, <1>4, <1>5, <3>1, <3>2, QueueAppend
    <2> QED BY <1>1, <1>2, <1>3, <1>5, <2>1 DEF Running, Once, Queued
  <1>6. CASE taskQueue' = taskQueue
    BY <1>1, <1>2, <1>3, <1>6, QueueAppend DEF Running, Once, Queued, PoolInv, PoolTypeOK
  <1> QED BY <1>1, <1>5, <1>6

\* What a receive does to them.
LEMMA TakeMoves ==
    ASSUME PoolInv, NEW w \in Workers, Take(w)
    PROVE  \E t \in Queued :
             /\ t \in Tasks
             /\ Queued' = Queued \ {t} /\ Distinct(taskQueue')
             /\ Running' = Running \cup {t} /\ task' = [task EXCEPT ![w] = t]
             /\ w \notin gone /\ task[w] = NoTask /\ taskQueue # <<>>
             /\ UNCHANGED <<submit, Submitted, gone, chanClosed, done, dropped, Once>>
  <1> USE NoTaskAssumption
  <1>1. /\ w \notin gone /\ task[w] = NoTask /\ taskQueue # <<>>
        /\ task' = [task EXCEPT ![w] = Head(taskQueue)] /\ taskQueue' = Tail(taskQueue)
        /\ UNCHANGED <<submit, gone, shutdown, chanClosed, done, dropped>>
    BY DEF Take
  <1>2. /\ Head(taskQueue) \in Tasks /\ Head(taskQueue) \in Queued
        /\ Queued' = Queued \ {Head(taskQueue)} /\ Distinct(taskQueue')
    <2>1. Queued = Elements(taskQueue) /\ Queued' = Elements(taskQueue')
      BY DEF Queued, Elements
    <2>2. taskQueue \in Seq(Tasks) /\ Distinct(taskQueue)
      BY DEF PoolInv, PoolTypeOK, TasksApart
    <2> QED BY <1>1, <2>1, <2>2, QueueTail
  <1>3. Running' = Running \cup {Head(taskQueue)}
    BY <1>1, <1>2 DEF Running, PoolInv, PoolTypeOK
  <1> QED BY <1>1, <1>2, <1>3 DEF Submitted, Once

\* What the end of a task does to them.
LEMMA FinishMoves ==
    ASSUME PoolInv, NEW w \in Workers, Finish(w)
    PROVE  /\ task[w] \in Running /\ task[w] \in Tasks
           /\ Running' = Running \ {task[w]} /\ done' = done \cup {task[w]}
           /\ task' = [task EXCEPT ![w] = NoTask]
           /\ UNCHANGED <<taskQueue, Queued, submit, Submitted, gone, chanClosed,
                          dropped, Once>>
  <1>1. /\ task[w] # NoTask /\ task' = [task EXCEPT ![w] = NoTask]
        /\ done' = done \cup {task[w]}
        /\ UNCHANGED <<taskQueue, submit, gone, shutdown, chanClosed, dropped>>
    BY DEF Finish
  <1>2. Running' = Running \ {task[w]} /\ task[w] \in Running
    BY <1>1 DEF Running, PoolInv, PoolTypeOK, TasksApart
  <1> QED BY <1>1, <1>2 DEF PoolInv, PoolTypeOK, Queued, Submitted, Once

LEMMA PoolInvNext == PoolInv /\ [PoolNext]_poolVars => PoolInv'
  <1> SUFFICES ASSUME PoolInv, [PoolNext]_poolVars PROVE PoolInv'
    OBVIOUS
  <1>0. PoolTypeOK'
    BY PoolTypeStep DEF PoolInv
  <1> SUFFICES TasksApart' /\ ClosedInv'
    BY <1>0 DEF PoolInv
  <1> USE WorkersAssumption, NoTaskAssumption
  <1>1. ASSUME NEW s \in Submitters, Send(s) PROVE TasksApart' /\ ClosedInv'
    <2>1. TasksApart'
      BY <1>1, SendMoves DEF PoolInv, PoolTypeOK, TasksApart
    <2>2. ClosedInv'
      BY <1>1, SendMoves DEF PoolInv, ClosedInv
    <2> QED BY <2>1, <2>2
  <1>2. ASSUME NEW s \in Submitters, NEW t \in Fresh, Check(s, t)
        PROVE  TasksApart' /\ ClosedInv'
    <2>1. /\ t \in Tasks /\ t \notin Queued \cup Running \cup done \cup dropped \cup Submitted
          /\ \A r \in Submitters : submit[r] # t
          /\ submit[s] = NoTask
          /\ \/ submit' = submit /\ dropped' = dropped \cup {t}
             \/ submit' = [submit EXCEPT ![s] = t] /\ dropped' = dropped
          /\ UNCHANGED <<taskQueue, chanClosed, task, gone, shutdown, done>>
      BY <1>2 DEF Check, Fresh, Submitted
    <2>2. Submitted' \subseteq Submitted \cup {t} /\ UNCHANGED <<Queued, Running, Once>>
      BY <2>1 DEF Submitted, Queued, Running, Once, PoolInv, PoolTypeOK
    <2>3. submit' = submit => Submitted' = Submitted
      BY DEF Submitted
    <2>4. TasksApart'
      BY <2>1, <2>2, <2>3 DEF PoolInv, PoolTypeOK, TasksApart
    <2> QED BY <2>1, <2>2, <2>4 DEF PoolInv, ClosedInv
  <1>3. ASSUME NEW w \in Workers, Take(w) PROVE TasksApart' /\ ClosedInv'
    <2>1. PICK t \in Queued :
             /\ t \in Tasks
             /\ Queued' = Queued \ {t} /\ Distinct(taskQueue')
             /\ Running' = Running \cup {t} /\ task' = [task EXCEPT ![w] = t]
             /\ w \notin gone /\ task[w] = NoTask /\ taskQueue # <<>>
             /\ UNCHANGED <<submit, Submitted, gone, chanClosed, done, dropped, Once>>
      BY <1>3, TakeMoves
    <2>2. \A v \in Workers : task[v] # t
      BY <2>1 DEF PoolInv, TasksApart, Running
    <2>3. TasksApart'
      BY <2>1, <2>2 DEF PoolInv, PoolTypeOK, TasksApart
    <2> QED BY <2>1, <2>3 DEF PoolInv, ClosedInv
  <1>4. ASSUME NEW w \in Workers, Finish(w) PROVE TasksApart' /\ ClosedInv'
    <2>1. TasksApart'
      BY <1>4, FinishMoves DEF PoolInv, PoolTypeOK, TasksApart
    <2>2. ClosedInv'
      BY <1>4, FinishMoves DEF PoolInv, PoolTypeOK, ClosedInv
    <2> QED BY <2>1, <2>2
  <1>5. ASSUME NEW w \in Workers, Leave(w) PROVE TasksApart' /\ ClosedInv'
    BY <1>5 DEF Leave, Drained, PoolInv, PoolTypeOK, TasksApart, ClosedInv, Once,
       Queued, Running, Submitted
  <1>6. ASSUME NEW c \in Closers, SetClosed(c) \/ CloseQueue(c) \/ ShutdownReturns(c)
        PROVE TasksApart' /\ ClosedInv'
    <2>1. /\ UNCHANGED <<taskQueue, task, gone, submit, done, dropped>>
          /\ chanClosed => chanClosed'
          /\ shutdown' \in [Closers -> {"before", "closing", "waiting", "returned"}]
      BY <1>0, <1>6 DEF SetClosed, CloseQueue, ShutdownReturns, PoolTypeOK
    <2>2. Once' => gone = Workers
      BY <1>6 DEF SetClosed, CloseQueue, ShutdownReturns, Once, PoolInv, PoolTypeOK, ClosedInv
    <2>3. TasksApart'
      BY <2>1 DEF PoolInv, TasksApart, Queued, Running, Submitted
    <2> QED BY <2>1, <2>2, <2>3 DEF PoolInv, ClosedInv
  <1>7. CASE UNCHANGED poolVars
    <2>1. /\ UNCHANGED <<taskQueue, chanClosed, task, gone, submit, shutdown, done, dropped>>
          /\ UNCHANGED <<Queued, Running, Submitted, Once>>
      BY <1>7 DEF poolVars, Queued, Running, Submitted, Once
    <2>2. TasksApart'
      BY <2>1 DEF PoolInv, TasksApart
    <2>3. ClosedInv'
      BY <2>1 DEF PoolInv, ClosedInv
    <2> QED BY <2>2, <2>3
  <1> QED BY <1>1, <1>2, <1>3, <1>4, <1>5, <1>6, <1>7 DEF PoolNext

LEMMA PoolInvAlways == PoolSpec => []PoolInv
  <1> QED BY PoolInvInit, PoolInvNext, PTL DEF PoolSpec

-----------------------------------------------------------------------------
(* The refinement.                                                         *)

\* The mapping of WorkerPool's Promise.
Fate == [t \in Tasks |-> CASE t \in Queued  -> "waiting"
                          [] t \in Running -> "running"
                          [] t \in done    -> "done"
                          [] t \in dropped -> "refused"
                          [] OTHER         -> "new"]

\* A task's fate says where it is.
FateTellsPlace ==
    \A t \in Tasks :
        Fate[t] = IF t \in Queued THEN "waiting" ELSE
                  IF t \in Running THEN "running" ELSE
                  IF t \in done THEN "done" ELSE
                  IF t \in dropped THEN "refused" ELSE "new"

LEMMA FateIsPlace == PoolInv => FateTellsPlace
  BY DEF PoolInv, TasksApart, FateTellsPlace, Fate

\* One task's fate changes.
LEMMA OneFateChanges ==
    ASSUME NEW t \in Tasks, NEW to, Fate'[t] = to,
           \A u \in Tasks \ {t} : Fate'[u] = Fate[u]
    PROVE  Fate' = [Fate EXCEPT ![t] = to]
  <1>1. Fate = [u \in Tasks |-> Fate[u]]
    BY DEF Fate
  <1>2. Fate' = [u \in Tasks |-> Fate'[u]]
    BY DEF Fate
  <1> QED BY <1>1, <1>2

\* Which changes of one task's fate the promise allows.
LEMMA PromiseMoves ==
    ASSUME NEW t \in Tasks, UNCHANGED Once,
           \/ Fate[t] = "new" /\ Fate' = [Fate EXCEPT ![t] = "refused"]
           \/ ~Once /\ Fate[t] = "new" /\ Fate' = [Fate EXCEPT ![t] = "waiting"]
           \/ ~Once /\ Fate[t] = "waiting" /\ Fate' = [Fate EXCEPT ![t] = "running"]
           \/ ~Once /\ Fate[t] = "running" /\ Fate' = [Fate EXCEPT ![t] = "done"]
    PROVE  Promise!Next
  <1>1. CASE Fate[t] = "new" /\ Fate' = [Fate EXCEPT ![t] = "refused"]
    <2>1. Promise!Refuse(t)
      BY <1>1 DEF Promise!Refuse, Promise!Becomes, Fate
    <2> QED BY <2>1 DEF Promise!Next
  <1>2. CASE ~Once /\ Fate[t] = "new" /\ Fate' = [Fate EXCEPT ![t] = "waiting"]
    <2>1. Promise!Accept(t)
      BY <1>2 DEF Promise!Accept, Promise!Becomes, Fate
    <2> QED BY <2>1 DEF Promise!Next
  <1>3. CASE ~Once /\ Fate[t] = "waiting" /\ Fate' = [Fate EXCEPT ![t] = "running"]
    <2>1. Promise!Begin(t)
      BY <1>3 DEF Promise!Begin, Promise!Becomes, Fate
    <2> QED BY <2>1 DEF Promise!Next
  <1>4. CASE ~Once /\ Fate[t] = "running" /\ Fate' = [Fate EXCEPT ![t] = "done"]
    <2>1. Promise!End(t)
      BY <1>4 DEF Promise!End, Promise!Becomes, Fate
    <2> QED BY <2>1 DEF Promise!Next
  <1> QED BY <1>1, <1>2, <1>3, <1>4

LEMMA PromiseInit == PoolInit => Promise!Init
  BY DEF PoolInit, Promise!Init, Queued, Running, Once

\* Every step of the pool is a step of the promise, or none.
LEMMA PromiseStep ==
    PoolInv /\ PoolInv' /\ [PoolNext]_poolVars => [Promise!Next]_<<Fate, ~Once>>
  <1> SUFFICES ASSUME PoolInv, PoolInv', [PoolNext]_poolVars
               PROVE  Promise!Next \/ UNCHANGED <<Fate, Once>>
    OBVIOUS
  <1>1. FateTellsPlace /\ FateTellsPlace'
    BY FateIsPlace, PTL
  <1> USE DEF FateTellsPlace
  <1>2. ASSUME NEW s \in Submitters, Send(s) PROVE Promise!Next
    <2>1. /\ submit[s] \in Submitted /\ submit[s] \in Tasks
          /\ UNCHANGED <<Running, gone, chanClosed, done, Once>>
          /\ \/ ~chanClosed /\ dropped' = dropped /\ Queued' = Queued \cup {submit[s]}
             \/ UNCHANGED Queued /\ dropped' = dropped \cup {submit[s]}
      BY <1>2, SendMoves
    <2>2. submit[s] \notin Queued \cup Running \cup done \cup dropped
      BY <2>1 DEF PoolInv, TasksApart
    <2>3. Fate[submit[s]] = "new"
      BY <1>1, <2>1, <2>2
    <2>4. ~chanClosed => ~Once
      BY WorkersAssumption DEF PoolInv, ClosedInv
    <2>5. \A u \in Tasks \ {submit[s]} : Fate'[u] = Fate[u]
      BY <1>1, <2>1
    <2>6. CASE ~chanClosed /\ dropped' = dropped /\ Queued' = Queued \cup {submit[s]}
      <3>1. Fate'[submit[s]] = "waiting"
        BY <1>1, <2>1, <2>6
      <3> QED BY <2>1, <2>3, <2>4, <2>5, <2>6, <3>1, OneFateChanges, PromiseMoves
    <2>7. CASE UNCHANGED Queued /\ dropped' = dropped \cup {submit[s]}
      <3>1. Fate'[submit[s]] = "refused"
        BY <1>1, <2>1, <2>2, <2>7
      <3> QED BY <2>1, <2>3, <2>5, <3>1, OneFateChanges, PromiseMoves
    <2> QED BY <2>1, <2>6, <2>7
  <1>3. ASSUME NEW s \in Submitters, NEW t \in Fresh, Check(s, t)
        PROVE  Promise!Next \/ UNCHANGED <<Fate, Once>>
    <2>1. /\ t \in Tasks /\ t \notin Queued \cup Running \cup done \cup dropped
          /\ UNCHANGED <<Queued, Running, done, Once>>
          /\ dropped' = dropped \/ dropped' = dropped \cup {t}
      BY <1>3 DEF Check, Fresh, Queued, Running, Once
    <2>2. CASE dropped' = dropped
      BY <2>1, <2>2 DEF Fate
    <2>3. CASE dropped' = dropped \cup {t}
      <3>1. Fate[t] = "new" /\ Fate'[t] = "refused"
        BY <1>1, <2>1, <2>3
      <3>2. \A u \in Tasks \ {t} : Fate'[u] = Fate[u]
        BY <1>1, <2>1, <2>3
      <3> QED BY <2>1, <3>1, <3>2, OneFateChanges, PromiseMoves
    <2> QED BY <2>1, <2>2, <2>3
  <1>4. ASSUME NEW w \in Workers, Take(w) PROVE Promise!Next
    <2>1. PICK t \in Queued :
             /\ t \in Tasks
             /\ Queued' = Queued \ {t} /\ Running' = Running \cup {t}
             /\ w \notin gone /\ UNCHANGED <<done, dropped, Once>>
      BY <1>4, TakeMoves
    <2>2. Fate[t] = "waiting" /\ Fate'[t] = "running"
      BY <1>1, <2>1
    <2>3. \A u \in Tasks \ {t} : Fate'[u] = Fate[u]
      BY <1>1, <2>1
    <2>4. ~Once
      BY <2>1 DEF PoolInv, ClosedInv
    <2> QED BY <2>1, <2>2, <2>3, <2>4, OneFateChanges, PromiseMoves
  <1>5. ASSUME NEW w \in Workers, Finish(w) PROVE Promise!Next
    <2>1. /\ task[w] \in Running /\ task[w] \in Tasks
          /\ Running' = Running \ {task[w]} /\ done' = done \cup {task[w]}
          /\ UNCHANGED <<Queued, gone, dropped, Once>>
      BY <1>5, FinishMoves
    <2>2. task[w] \notin Queued
      BY <2>1 DEF PoolInv, TasksApart
    <2>3. Fate[task[w]] = "running" /\ Fate'[task[w]] = "done"
      BY <1>1, <2>1, <2>2
    <2>4. \A u \in Tasks \ {task[w]} : Fate'[u] = Fate[u]
      BY <1>1, <2>1
    <2>5. ~Once
      BY <1>5 DEF Finish, PoolInv, ClosedInv
    <2> QED BY <2>1, <2>3, <2>4, <2>5, OneFateChanges, PromiseMoves
  <1>6. ASSUME NEW w \in Workers, Leave(w) PROVE UNCHANGED <<Fate, Once>>
    BY <1>6 DEF Leave, Fate, Queued, Running, Once
  <1>7. ASSUME NEW c \in Closers, SetClosed(c) \/ CloseQueue(c) \/ ShutdownReturns(c)
        PROVE  Promise!Next \/ UNCHANGED <<Fate, Once>>
    <2>1. UNCHANGED <<taskQueue, task, done, dropped, gone>>
      BY <1>7 DEF SetClosed, CloseQueue, ShutdownReturns
    <2>2. UNCHANGED Fate
      BY <2>1 DEF Fate, Queued, Running
    <2>3. Once => Once'
      BY <1>7 DEF SetClosed, CloseQueue, ShutdownReturns, Once, PoolInv, PoolTypeOK
    <2>4. CASE ~Once /\ Once'
      <3>1. \A w \in Workers : taskQueue = <<>> /\ task[w] = NoTask
        BY <2>1, <2>4 DEF PoolInv, ClosedInv
      <3>2. Queued = {} /\ Running = {}
        BY <3>1, WorkersAssumption DEF Queued, Running
      <3>3. \A t \in Tasks : Fate[t] \notin {"waiting", "running"}
        BY <1>1, <3>2
      <3>4. Promise!Close
        BY <2>2, <2>4, <3>3 DEF Promise!Close, Fate
      <3> QED BY <3>4 DEF Promise!Next
    <2> QED BY <2>2, <2>3, <2>4 DEF Once
  <1>8. CASE UNCHANGED poolVars
    BY <1>8 DEF poolVars, Fate, Queued, Running, Once
  <1> QED BY <1>2, <1>3, <1>4, <1>5, <1>6, <1>7, <1>8 DEF PoolNext

\* Every task that is handed in is refused at once or runs exactly once, and
\* none is queued or running when a Shutdown has returned, whatever races with
\* it (worker_pool.go, Submit, worker and Shutdown).
THEOREM PoolKeepsItsPromise == PoolSpec => RunsEachTaskOnce
  <1> QED BY PromiseInit, PromiseStep, PoolInvAlways, PTL
      DEF PoolSpec, RunsEachTaskOnce, Promise!Spec, Fate
=============================================================================
