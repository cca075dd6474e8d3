---------------------------- MODULE AuditProofs ----------------------------
(***************************************************************************)
(* Proofs about Audit, for any number of requests and failures.            *)
(*                                                                         *)
(* The argument: the notification that waits for its observers holds the   *)
(* lock until none of them runs, and Close holds the same lock while it    *)
(* closes the file and forgets the observers.  So one event at a time is   *)
(* told, to all observers there are; an observer that has yet to be told   *)
(* has not recorded it, one that has been told has, or has failed.  Only   *)
(* the handler of a batch that succeeded leaves names, and without names   *)
(* there is no event.                                                      *)
(***************************************************************************)
EXTENDS Audit, TLAPS

LockInv ==
    /\ DOMAIN pc = Requests
    /\ \A r \in Requests : pc[r] = "wait" => mu = r
    /\ stage = "closing" => mu = closer
    /\ told \in [Requests -> SUBSET observers]
    /\ \A r \in Requests : told[r] # {} => pc[r] = "wait"
    /\ fileOpen <=> "file" \in observers

LEMMA LockInit == Init => LockInv
  BY DEF Init, LockInv

LEMMA LockNext == LockInv /\ [Next]_auditVars => LockInv'
  <1> SUFFICES ASSUME LockInv, [Next]_auditVars PROVE LockInv'
    OBVIOUS
  <1> USE AuditAssumption DEF LockInv, Goto
  <1>1. ASSUME NEW r \in Requests, Middleware(r) PROVE LockInv'
    BY <1>1 DEF Middleware, CheckEnabled, Handle, Answer, At, managerVars, notifierVars
  <1>2. ASSUME NEW r \in Requests, Notification(r) \/ PostAnswered(r) PROVE LockInv'
    <2>1. CASE GetAuditData(r)
      BY <2>1 DEF GetAuditData, At, managerVars, notifierVars
    <2>2. CASE Notify(r)
      BY <2>2 DEF Notify, At, managerVars
    <2>3. CASE NotifyFile(r) \/ PostEvent(r) \/ PostFails(r) \/ PostAnswered(r)
      BY <2>3 DEF NotifyFile, PostEvent, PostFails, PostAnswered, Telling, Ended, At, managerVars
    <2>4. CASE NotifyReturns(r)
      BY <2>4 DEF NotifyReturns, Waited, At, managerVars
    <2> QED BY <1>2, <2>1, <2>2, <2>3, <2>4 DEF Notification
  <1>3. CASE Stop \/ LockClose \/ Exit
    BY <1>3 DEF Stop, LockClose, Exit, managerVars, notifierVars
  <1>4. CASE Close
    BY <1>4 DEF Close
  <1>5. CASE UNCHANGED auditVars
    BY <1>5 DEF auditVars
  <1> QED BY <1>1, <1>2, <1>3, <1>4, <1>5 DEF Next

\* No observer's file is closed under an event that is being written to it,
\* whenever the signal comes (manager.go:43 and 68, the same lock).
THEOREM NeverWritesToAClosedFile == Spec => []NoClosedObserver
  <1>1. LockInv => NoClosedObserver
    BY DEF LockInv, NoClosedObserver
  <1> QED BY <1>1, LockInit, LockNext, PTL DEF Spec

-----------------------------------------------------------------------------
(* What the observers record.                                              *)

\* Observer o has yet to record the event of r.
Due(o, r) == o \in told[r] /\ ~(o = "http" /\ posting = r)

Recorded(o, r) == Contains(log[o], r) \/ r \in failed[o]

\* Only requests that will succeed have names, and only those with names are
\* notified of.
NamesInv ==
    /\ metrics \subseteq Requests
    /\ \A r \in metrics : kind[r] = "batch"
    /\ \A r \in Requests : pc[r] \in {"notify", "wait"} => r \in metrics
    /\ \A r \in Requests : pc[r] = "plain" => r \in late

\* The manager has all its observers until Close takes them away.
ObserversInv ==
    /\ enabled \in BOOLEAN /\ posting \in Requests \cup {NoOne}
    /\ DOMAIN log = DOMAIN failed /\ DOMAIN log \subseteq Observers
    /\ observers = IF enabled THEN DOMAIN log ELSE {}
    /\ posting # NoOne => "http" \in told[posting]
    /\ \A o \in DOMAIN log : log[o] \in Seq(Requests) /\ failed[o] \subseteq Requests

LogInv ==
    \A o \in DOMAIN log :
        /\ IsInjective(log[o])
        /\ \A r \in Requests : Contains(log[o], r) =>
              r \in metrics /\ pc[r] \in {"wait", "done"}
        /\ \A r \in Requests : pc[r] = "wait" =>
              IF Due(o, r) THEN ~Contains(log[o], r) ELSE Recorded(o, r)

AuditInv == LockInv /\ NamesInv /\ ObserversInv /\ LogInv /\ NothingLost

\* Recording an event for the first time.
LEMMA AppendedLog ==
    ASSUME NEW s \in Seq(Requests), NEW r \in Requests
    PROVE  /\ Append(s, r) \in Seq(Requests)
           /\ \A q : Contains(Append(s, r), q) <=> Contains(s, q) \/ q = r
           /\ IsInjective(s) /\ ~Contains(s, r) => IsInjective(Append(s, r))
  <1> DEFINE t == Append(s, r)
  <1>1. /\ t \in Seq(Requests) /\ Len(t) = Len(s) + 1 /\ t[Len(s) + 1] = r
        /\ \A i \in 1 .. Len(s) : t[i] = s[i]
        /\ Len(s) \in Nat
    OBVIOUS
  <1>2. DOMAIN s = 1 .. Len(s) /\ DOMAIN t = 1 .. Len(s) + 1
    BY <1>1
  <1> HIDE DEF t
  <1>3. \A q : Contains(t, q) <=> Contains(s, q) \/ q = r
    BY <1>1 DEF Contains
  <1>4. IsInjective(s) /\ ~Contains(s, r) => IsInjective(t)
    BY <1>1, <1>2 DEF Contains, IsInjective
  <1> QED BY <1>1, <1>3, <1>4 DEF t

LEMMA AuditInit == Init => AuditInv
  <1> SUFFICES ASSUME Init PROVE AuditInv
    OBVIOUS
  <1>1. NamesInv /\ NothingLost
    BY DEF Init, NamesInv, NothingLost
  <1>2. ObserversInv
    <2>1. /\ observers \subseteq Observers /\ enabled = TRUE /\ posting = NoOne
          /\ log = [o \in observers |-> <<>>] /\ failed = [o \in observers |-> {}]
      BY DEF Init
    <2>2. <<>> \in Seq(Requests)
      OBVIOUS
    <2> QED BY <2>1, <2>2 DEF ObserversInv
  <1>3. \A o \in DOMAIN log : IsInjective(log[o]) /\ \A r : ~Contains(log[o], r)
    BY DEF Init, IsInjective, Contains
  <1>4. LogInv
    BY <1>3 DEF LogInv, Init
  <1> QED BY <1>1, <1>2, <1>4, LockInit DEF AuditInv

\* A step that records nothing, takes no lock and moves r on, without going
\* to or from the wait for the observers.
Quiet(r) ==
    /\ \E where : Goto(r, where) /\ where # "wait"
    /\ pc[r] \notin {"wait", "done"}
    /\ UNCHANGED <<kind, managerVars, told, posting, log, failed>>
    /\ metrics \subseteq metrics'

LEMMA QuietKeepsLog ==
    ASSUME AuditInv, NEW r \in Requests, Quiet(r)
    PROVE  ObserversInv' /\ LogInv'
  <1> USE DEF AuditInv, Quiet, managerVars
  <1>1. ObserversInv'
    BY DEF ObserversInv
  <1>2. \A q \in Requests : /\ pc'[q] = "wait" => pc[q] = "wait"
                            /\ pc[q] \in {"wait", "done"} => pc'[q] = pc[q]
    BY DEF Goto, LockInv
  <1>3. LogInv'
    BY <1>2 DEF LogInv, Due, Recorded
  <1> QED BY <1>1, <1>3

LEMMA AuditNext == AuditInv /\ [Next]_auditVars => AuditInv'
  <1> SUFFICES ASSUME AuditInv, [Next]_auditVars PROVE AuditInv'
    OBVIOUS
  <1> USE AuditAssumption DEF AuditInv
  <1>0. LockInv'
    BY LockNext
  <1>1. ASSUME NEW r \in Requests, Middleware(r) \/ GetAuditData(r) PROVE AuditInv'
    <2>1. Quiet(r)
      BY <1>1 DEF Middleware, CheckEnabled, Handle, Answer, GetAuditData, At, Goto,
         managerVars, notifierVars, Quiet
    <2>2. ObserversInv' /\ LogInv'
      BY <2>1, QuietKeepsLog
    <2>3. CASE CheckEnabled(r)
      BY <2>2, <2>3, <1>0 DEF CheckEnabled, At, Goto, NamesInv, NothingLost, LockInv,
         Recorded
    <2>4. CASE Handle(r)
      <3>1. /\ pc[r] \in {"handler", "plain"} /\ UNCHANGED <<kind, late, log, failed>>
            /\ pc' = [pc EXCEPT ![r] = IF pc[r] = "plain" THEN "done" ELSE "handled"]
            /\ metrics' = IF kind[r] = "batch" THEN metrics \cup {r} ELSE metrics
        BY <2>4 DEF Handle, At, Goto, notifierVars
      <3>2. NamesInv'
        BY <3>1 DEF NamesInv, LockInv
      <3>3. NothingLost'
        BY <3>1 DEF NothingLost, NamesInv, LockInv
      <3> QED BY <1>0, <2>2, <3>2, <3>3
    <2>5. CASE Answer(r)
      <3>1. /\ pc[r] = "handled" /\ UNCHANGED <<kind, metrics, late, log, failed>>
            /\ pc' = [pc EXCEPT ![r] = IF kind[r] # "bad" THEN "event" ELSE "done"]
        BY <2>5 DEF Answer, At, Goto, notifierVars
      <3>2. NamesInv' /\ NothingLost'
        BY <3>1 DEF NamesInv, NothingLost, LockInv
      <3> QED BY <1>0, <2>2, <3>2
    <2>6. CASE GetAuditData(r)
      <3>1. /\ pc[r] = "event" /\ UNCHANGED <<kind, metrics, late, log, failed>>
            /\ pc' = [pc EXCEPT ![r] = IF r \in metrics THEN "notify" ELSE "done"]
        BY <2>6 DEF GetAuditData, At, Goto, notifierVars
      <3>2. NamesInv' /\ NothingLost'
        BY <3>1 DEF NamesInv, NothingLost, LockInv
      <3> QED BY <1>0, <2>2, <3>2
    <2> QED BY <1>1, <2>3, <2>4, <2>5, <2>6 DEF Middleware
  <1>2. ASSUME NEW r \in Requests, Notify(r) PROVE AuditInv'
    <2>1. /\ pc[r] = "notify" /\ mu = NoOne
          /\ UNCHANGED <<kind, metrics, observers, enabled, posting, log, failed>>
      BY <1>2 DEF Notify, At, managerVars
    <2>2. posting = NoOne /\ \A q \in Requests : pc[q] # "wait"
      BY <2>1 DEF LockInv, ObserversInv
    <2>3. CASE enabled
      <3>1. /\ pc' = [pc EXCEPT ![r] = "wait"] /\ told' = [told EXCEPT ![r] = observers] /\ late' = late
            /\ observers = DOMAIN log
        BY <1>2, <2>3 DEF Notify, Goto, ObserversInv
      <3>2. NamesInv' /\ NothingLost' /\ ObserversInv'
        BY <2>1, <2>2, <3>1 DEF NamesInv, NothingLost, ObserversInv, LockInv
      <3>3. ASSUME NEW o \in DOMAIN log PROVE ~Contains(log[o], r)
        BY <2>1, <3>3 DEF LogInv
      <3>4. LogInv'
        BY <2>1, <2>2, <3>1, <3>3 DEF LogInv, Due, LockInv
      <3> QED BY <1>0, <3>2, <3>4
    <2>4. CASE ~enabled
      <3>1. /\ pc' = [pc EXCEPT ![r] = "done"] /\ told' = told /\ late' = late \cup {r}
        BY <1>2, <2>4 DEF Notify, Goto
      <3>2. Quiet(r)
        BY <1>2, <2>1, <3>1 DEF Quiet, Goto, Notify
      <3>3. NamesInv' /\ NothingLost'
        BY <2>1, <3>1 DEF NamesInv, NothingLost, LockInv
      <3> QED BY <1>0, <3>2, <3>3, QuietKeepsLog
    <2> QED BY <2>3, <2>4 DEF ObserversInv
  <1>3. ASSUME NEW r \in Requests,
               NotifyFile(r) \/ PostEvent(r) \/ PostFails(r) \/ PostAnswered(r)
        PROVE  AuditInv'
    <2>1. /\ pc[r] = "wait" /\ UNCHANGED <<pc, kind, metrics, observers, enabled, late>>
      BY <1>3 DEF NotifyFile, PostEvent, PostFails, PostAnswered, Telling, managerVars, LockInv
    <2>2. PICK o \in told[r] :
             /\ \/ Due(o, r) /\ Records(o, r) /\ UNCHANGED failed
                \/ Due(o, r) /\ failed' = [failed EXCEPT ![o] = @ \cup {r}] /\ UNCHANGED log
                \/ ~Due(o, r) /\ UNCHANGED <<log, failed>>
             /\ ~Due(o, r)'
             /\ \A other \in Observers \ {o} : Due(other, r)' <=> Due(other, r)
             /\ posting' \in Requests \cup {NoOne}
             /\ posting' # NoOne => "http" \in told'[posting']
      <3> USE DEF Due, ObserversInv, Observers, Telling, Ended, LockInv
      <3>1. CASE NotifyFile(r)
        BY <3>1 DEF NotifyFile
      <3>2. CASE PostEvent(r)
        BY <3>2 DEF PostEvent
      <3>3. CASE PostFails(r)
        BY <3>3 DEF PostFails
      <3>4. CASE PostAnswered(r)
        BY <3>4 DEF PostAnswered
      <3> QED BY <1>3, <3>1, <3>2, <3>3, <3>4
    <2>3. o \in DOMAIN log /\ o \in Observers
      BY <2>2 DEF LockInv, ObserversInv
    <2>4. \A q \in Requests : pc[q] = "wait" => q = r
      BY <2>1 DEF LockInv
    <2>5. NamesInv'
      BY <2>1 DEF NamesInv
    <2>6. /\ DOMAIN log' = DOMAIN log /\ DOMAIN failed' = DOMAIN failed
          /\ \A x \in DOMAIN log \ {o} : log'[x] = log[x] /\ failed'[x] = failed[x]
          /\ log'[o] \in {log[o], Append(log[o], r)}
          /\ failed'[o] \in {failed[o], failed[o] \cup {r}}
          /\ log'[o] = Append(log[o], r) \/ r \in failed'[o] \/ ~Due(o, r)
          /\ log'[o] = log[o] \/ Due(o, r)
      BY <2>2, <2>3 DEF Records, ObserversInv
    <2>60. /\ {log[o], Append(log[o], r)} \subseteq Seq(Requests)
           /\ \A q : Contains(Append(log[o], r), q) <=> Contains(log[o], q) \/ q = r
      BY <2>3, AppendedLog DEF ObserversInv
    <2>61. Due(o, r) => ~Contains(log[o], r)
      BY <2>1, <2>3 DEF LogInv
    <2>7. ObserversInv'
      <3>1. \A x \in DOMAIN log : log'[x] \in Seq(Requests) /\ failed'[x] \subseteq Requests
        <4>1. log'[o] \in Seq(Requests) /\ failed'[o] \subseteq Requests
          BY <2>3, <2>6, <2>60 DEF ObserversInv
        <4>2. \A x \in DOMAIN log \ {o} : log'[x] \in Seq(Requests) /\ failed'[x] \subseteq Requests
          BY <2>6 DEF ObserversInv
        <4> QED BY <4>1, <4>2
      <3> QED BY <2>1, <2>2, <2>6, <3>1 DEF ObserversInv
    <2>8. \A x \in DOMAIN log, q \in Requests :
             /\ Contains(log[x], q) => Contains(log'[x], q)
             /\ Contains(log'[x], q) => Contains(log[x], q) \/ (x = o /\ q = r)
             /\ failed[x] \subseteq failed'[x]
      BY <2>3, <2>6, <2>60
    <2>9. NothingLost'
      BY <2>1, <2>6, <2>8 DEF NothingLost, NamesInv
    <2>10. \A x \in DOMAIN log : IsInjective(log'[x])
      <3>1. Due(o, r) => IsInjective(Append(log[o], r))
        BY <2>3, <2>60, <2>61, AppendedLog DEF LogInv
      <3> QED BY <2>3, <2>6, <3>1 DEF LogInv
    <2>11. r \in metrics
      BY <2>1 DEF NamesInv
    <2>12. Contains(log'[o], r) \/ r \in failed'[o]
      <3>1. CASE Due(o, r)
        BY <2>6, <2>60, <3>1
      <3>2. CASE ~Due(o, r)
        BY <2>1, <2>3, <2>8, <3>2 DEF LogInv, Recorded
      <3> QED BY <3>1, <3>2
    <2>13. LogInv'
      <3> SUFFICES ASSUME NEW x \in DOMAIN log'
                   PROVE  /\ IsInjective(log'[x])
                          /\ \A q \in Requests : Contains(log'[x], q) =>
                                q \in metrics' /\ pc'[q] \in {"wait", "done"}
                          /\ \A q \in Requests : pc'[q] = "wait" =>
                                IF Due(x, q)' THEN ~Contains(log'[x], q)
                                           ELSE Contains(log'[x], q) \/ q \in failed'[x]
        BY DEF LogInv, Recorded
      <3>1. x \in DOMAIN log /\ x \in Observers
        BY <2>6 DEF ObserversInv
      <3>2. \A q \in Requests : Contains(log'[x], q) => q \in metrics' /\ pc'[q] \in {"wait", "done"}
        BY <2>1, <2>8, <2>11, <3>1 DEF LogInv
      <3>3. CASE x = o
        BY <2>1, <2>2, <2>4, <2>10, <2>12, <3>1, <3>2, <3>3
      <3>4. CASE x # o
        BY <2>1, <2>2, <2>4, <2>6, <2>10, <3>1, <3>2, <3>4 DEF LogInv, Recorded
      <3> QED BY <3>3, <3>4
    <2> QED BY <1>0, <2>5, <2>7, <2>9, <2>13
  <1>4. ASSUME NEW r \in Requests, NotifyReturns(r) PROVE AuditInv'
    <2>1. /\ pc[r] = "wait" /\ told[r] = {} /\ pc' = [pc EXCEPT ![r] = "done"]
          /\ UNCHANGED <<kind, metrics, observers, enabled, told, posting, log, failed, late>>
      BY <1>4 DEF NotifyReturns, Waited, At, Goto, managerVars
    <2>2. NamesInv' /\ ObserversInv'
      BY <2>1 DEF NamesInv, ObserversInv, LockInv
    <2>3. \A o \in DOMAIN log : Contains(log[o], r) \/ r \in failed[o]
      BY <2>1 DEF LogInv, Due, Recorded
    <2>4. NothingLost'
      BY <2>1, <2>3 DEF NothingLost, NamesInv, LockInv
    <2>5. LogInv'
      BY <2>1 DEF LogInv, Due, Recorded, LockInv
    <2> QED BY <1>0, <2>2, <2>4, <2>5
  <1>5. CASE Stop \/ LockClose \/ Exit \/ UNCHANGED auditVars
    <2>1. UNCHANGED <<pc, kind, metrics, observers, enabled, told, posting, log, failed, late>>
      BY <1>5 DEF Stop, LockClose, Exit, auditVars, managerVars, notifierVars
    <2>2. NamesInv' /\ ObserversInv' /\ LogInv' /\ NothingLost'
      BY <2>1 DEF NamesInv, ObserversInv, LogInv, NothingLost, Due, Recorded
    <2> QED BY <1>0, <2>2
  <1>6. CASE Close
    <2>1. /\ UNCHANGED <<pc, kind, metrics, told, posting, log, failed, late>>
          /\ observers' = {} /\ enabled' = FALSE
      BY <1>6 DEF Close
    <2>2. NamesInv' /\ ObserversInv' /\ LogInv' /\ NothingLost'
      BY <2>1 DEF NamesInv, ObserversInv, LogInv, NothingLost, Due, Recorded
    <2> QED BY <1>0, <2>2
  <1> QED BY <1>1, <1>2, <1>3, <1>4, <1>5, <1>6 DEF Next, Notification

LEMMA AuditInvAlways == Spec => []AuditInv
  <1> QED BY AuditInit, AuditNext, PTL DEF Spec

\* An observer records an event at most once, and only that of a batch that
\* was applied (audit_middleware.go:34 and 41).
THEOREM RecordsOnlyAppliedBatches == Spec => []OnlyAppliedBatches
  <1>1. AuditInv => OnlyAppliedBatches
    <2> SUFFICES ASSUME AuditInv, NEW o \in DOMAIN log
                 PROVE  /\ IsInjective(log[o])
                        /\ \A i \in DOMAIN log[o] : kind[log[o][i]] = "batch"
      BY DEF OnlyAppliedBatches
    <2>1. log[o] \in Seq(Requests) /\ DOMAIN log[o] = 1 .. Len(log[o])
      BY DEF AuditInv, ObserversInv
    <2>2. \A i \in DOMAIN log[o] : log[o][i] \in Requests /\ Contains(log[o], log[o][i])
      BY <2>1 DEF Contains
    <2> QED BY <2>2 DEF AuditInv, LogInv, NamesInv
  <1> QED BY <1>1, AuditInvAlways, PTL

\* No event of an applied batch is lost once its notification is over, unless
\* the audit was closed first (manager.go:66, wg.Wait before the unlock).
THEOREM NoEventIsLost == Spec => []NothingLost
  <1>1. AuditInv => NothingLost
    BY DEF AuditInv
  <1> QED BY <1>1, AuditInvAlways, PTL

\* The types, and that whoever waits for the observers holds the lock
\* (manager.go:43 and 60).
THEOREM AuditTypeCorrect == Spec => []TypeOK
  <1> DEFINE Rest == /\ stage \in Stages /\ pc \in [Requests -> Places]
                     /\ late \subseteq Requests /\ told \in [Requests -> SUBSET Observers]
                     /\ fileOpen \in BOOLEAN /\ mu \in Requests \cup {closer, NoOne}
  <1>1. Init => Rest
    BY DEF Init, Stages, Places
  <1>2. Rest /\ AuditInv /\ [Next]_auditVars => Rest'
    <2> SUFFICES ASSUME Rest, AuditInv, [Next]_auditVars PROVE Rest'
      OBVIOUS
    <2> USE DEF managerVars, notifierVars, At, Telling, Ended, Goto, Stages, Places
    <2>1. ASSUME NEW r \in Requests, Middleware(r) PROVE Rest'
      BY <2>1 DEF Middleware, CheckEnabled, Handle, Answer
    <2>2. ASSUME NEW r \in Requests, Notification(r) \/ PostAnswered(r) PROVE Rest'
      BY <2>2 DEF Notification, GetAuditData, Notify, NotifyFile, PostEvent, PostFails,
         NotifyReturns, PostAnswered, AuditInv, ObserversInv
    <2>3. CASE Stop \/ LockClose \/ Close \/ Exit
      BY <2>3 DEF Stop, LockClose, Close, Exit
    <2>4. CASE UNCHANGED auditVars
      BY <2>4 DEF auditVars
    <2> QED BY <2>1, <2>2, <2>3, <2>4 DEF Next
  <1>3. Rest /\ AuditInv => TypeOK
    BY DEF TypeOK, AuditInv, LockInv, NamesInv, ObserversInv
  <1> HIDE DEF Rest
  <1> QED BY <1>1, <1>2, <1>3, AuditInvAlways, PTL DEF Spec
=============================================================================
