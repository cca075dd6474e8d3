--------------------------- MODULE PostgresProofs ---------------------------
(***************************************************************************)
(* Proofs about Migrations and Postgres, for every set of requests and     *)
(* bodies, any pool, and any number of starts, crashes and faults.         *)
(*                                                                         *)
(* The argument for the journal: its first record and the tables appear in *)
(* one step, the commit, and CREATE TABLE runs only when the table         *)
(* "migrations" was not there.  The argument for the answers: a handler    *)
(* answers once, and what it did to the database is decided in the same    *)
(* step or was nothing.                                                    *)
(*                                                                         *)
(* The argument for the batches: no two transactions have written one row  *)
(* (Exclusive), so a commit of another leaves the rows that a transaction  *)
(* read when it wrote them; what it has written is therefore, on top of    *)
(* any tables that agree with the database in those rows, what its first   *)
(* rows make of these tables (TransactionsTell), and at the commit that is *)
(* the whole batch in one step.                                            *)
(***************************************************************************)
EXTENDS Postgres, MetricsProofs, SequenceTheorems, TLAPS

Records == {"no table", RecordedName}

JournalInv ==
    /\ journal \in Seq(Records)
    /\ JournalTellsTheTables
    /\ phase = "create" => (exists <=> journal # NoTable)

AnswersInv ==
    /\ AnswersTellTheEffect
    /\ answer \in [Requests -> Nat] /\ DOMAIN pc = Requests
    /\ \A r \in Requests : pc[r] \in {"new", "exec"} => answer[r] = 0 /\ r \notin applied
    /\ \A r \in Requests : answer[r] # 0 => pc[r] = "done"

-----------------------------------------------------------------------------
(* The journal.                                                            *)

\* Another record at the end makes neither a sequence of one given element
\* nor the empty one.
LEMMA AppendedIsNot ==
    ASSUME NEW S, NEW s \in Seq(S), NEW e \in S, NEW first \in S, e # first
    PROVE  Append(s, e) \notin {<<first>>, <<>>}
  <1>1. Append(s, e) # <<>>
    BY AppendProperties
  <1>2. ASSUME Append(s, e) = <<first>> PROVE FALSE
    <2>1. Len(Append(s, e)) = 1
      BY <1>2
    <2>2. Len(s) = 0
      BY <2>1, AppendProperties, LenProperties
    <2>3. Append(s, e)[1] = e
      BY <2>2, AppendProperties
    <2>4. Append(s, e)[1] = first
      BY <1>2
    <2> QED BY <2>3, <2>4
  <1> QED BY <1>1, <1>2

LEMMA JournalInit == Init => JournalInv
  <1>1. NoTable \in Seq(Records)
    BY DEF NoTable, Records
  <1> QED BY <1>1 DEF Init, MigrationInit, JournalInv, JournalTellsTheTables

\* What the handlers leave alone.
LEMMA HandlersKeepTheJournal ==
    ASSUME NEW r \in Requests, Handler(r) \/ ConnectionBreaks(r)
    PROVE  UNCHANGED <<phase, exists, journal, tables>>
  BY DEF Handler, ConnectionBreaks, RejectUpdate, Begin, BeginFails, ExecRow,
         UnknownType, ExecFails, Commit, Update, migrationVars

LEMMA JournalNext == JournalInv /\ [Next]_vars => JournalInv'
  <1> SUFFICES ASSUME JournalInv, [Next]_vars PROVE JournalInv'
    OBVIOUS
  <1> USE DEF JournalInv, JournalTellsTheTables
  <1>1. CASE StartStep
    <2>1. CASE LookForTable
      BY <2>1 DEF LookForTable
    <2>2. CASE CreateJournal
      <3>1. <<>> \in Seq(Records) /\ <<>> # NoTable
        <4>1. Len(NoTable) = 1
          BY DEF NoTable
        <4>2. Len(<<>>) = 0 /\ <<>> \in Seq(Records)
          OBVIOUS
        <4> QED BY <4>1, <4>2
      <3> QED BY <2>2, <3>1 DEF CreateJournal
    <2>3. CASE StartServer \/ Connect \/ ConnectFails \/ CheckApplied \/ ExecMigration
               \/ MigrationFails \/ Serve
      BY <2>3 DEF StartServer, Connect, ConnectFails, CheckApplied, ExecMigration,
                  MigrationFails, Serve
    <2> QED BY <1>1, <2>1, <2>2, <2>3 DEF StartStep
  <1>2. CASE CommitMigration
    <2>1. journal \in Seq(Records) /\ RecordedName \in Records
          /\ "no table" \in Records /\ RecordedName # "no table"
      BY DEF RecordedName, Records
    <2>2. Append(journal, RecordedName) \in Seq(Records)
      BY <2>1, AppendProperties
    <2>3. Append(journal, RecordedName) \notin {NoTable, <<>>}
      BY <2>1, AppendedIsNot DEF NoTable
    <2> QED BY <1>2, <2>2, <2>3 DEF CommitMigration
  <1>3. CASE Stop \/ ClosePool \/ Leave \/ Crash \/ Restart
    BY <1>3 DEF Stop, ClosePool, Leave, Crash, Restart
  <1>4. CASE \E r \in Requests : Handler(r) \/ ConnectionBreaks(r)
    BY <1>4, HandlersKeepTheJournal
  <1>5. CASE UNCHANGED vars
    BY <1>5 DEF vars, migrationVars
  <1> QED BY <1>1, <1>2, <1>3, <1>4, <1>5
          DEF Next, StartOfServer, StopServer, ClosePoolOfServer, LeaveServer,
              CrashServer, RestartServer

\* The table "migrations" and the tables of the metrics agree at every moment,
\* wherever starts fail or the server crashes (postgres.go:177).
THEOREM JournalAlwaysTellsTheTables == Spec => []JournalTellsTheTables
  <1>1. JournalInv => JournalTellsTheTables
    BY DEF JournalInv
  <1> QED BY <1>1, JournalInit, JournalNext, PTL DEF Spec

-----------------------------------------------------------------------------
(* The answers.                                                            *)

LEMMA AnswersInit == Init => AnswersInv
  BY DEF Init, AnswersInv, AnswersTellTheEffect

LEMMA AnswersNext == AnswersInv /\ [Next]_vars => AnswersInv'
  <1> SUFFICES ASSUME AnswersInv, [Next]_vars PROVE AnswersInv'
    OBVIOUS
  <1> USE DEF AnswersInv, AnswersTellTheEffect
  <1>1. ASSUME NEW r \in Requests, NEW status \in {0, 400, 500},
               pc[r] \in {"new", "exec"}, Finish(r, status), UNCHANGED applied
        PROVE  AnswersInv'
    BY <1>1 DEF Finish
  <1>2. ASSUME NEW r \in Requests, NEW status \in {200, 500},
               pc[r] = "exec", Finish(r, status), applied' = applied \cup {r}
        PROVE  AnswersInv'
    BY <1>2 DEF Finish
  <1>3. ASSUME NEW r \in Requests, Handler(r)
        PROVE  AnswersInv'
    <2>1. CASE RejectUpdate(r)
      BY <2>1, <1>1 DEF RejectUpdate, Runs
    <2>2. CASE Begin(r)
      BY <2>2 DEF Begin, Runs
    <2>3. CASE BeginFails(r)
      BY <2>3, <1>1 DEF BeginFails, Runs
    <2>4. CASE ExecRow(r)
      BY <2>4 DEF ExecRow
    <2>5. CASE UnknownType(r)
      BY <2>5, <1>1 DEF UnknownType, Runs
    <2>6. CASE ExecFails(r)
      BY <2>6, <1>1 DEF ExecFails, Runs
    <2>7. CASE Commit(r)
      BY <2>7, <1>2 DEF Commit, Runs
    <2>8. CASE Update(r)
      BY <2>8, <1>2 DEF Update, Runs
    <2> QED BY <1>3, <2>1, <2>2, <2>3, <2>4, <2>5, <2>6, <2>7, <2>8 DEF Handler
  <1>4. ASSUME NEW r \in Requests, ConnectionBreaks(r)
        PROVE  AnswersInv'
    BY <1>4, <1>1 DEF ConnectionBreaks, Runs
  <1>5. CASE CrashServer
    BY <1>5 DEF CrashServer
  <1>6. CASE StartOfServer \/ StopServer \/ ClosePoolOfServer \/ LeaveServer
             \/ RestartServer \/ UNCHANGED vars
    BY <1>6 DEF StartOfServer, StopServer, ClosePoolOfServer, LeaveServer,
                RestartServer, vars, batchVars
  <1> QED BY <1>3, <1>4, <1>5, <1>6 DEF Next

\* An answer of 200 says that the rows are in the database, one of 400 that
\* they are not, whatever faults, deadlocks and crashes there are.
THEOREM AnswersAlwaysTellTheEffect == Spec => []AnswersTellTheEffect
  <1>1. AnswersInv => AnswersTellTheEffect
    BY DEF AnswersInv
  <1> QED BY <1>1, AnswersInit, AnswersNext, PTL DEF Spec

-----------------------------------------------------------------------------
(* Types.                                                                  *)

\* What the database and an open transaction can hold.
Tables ==
    {d \in [Kinds -> [Names -> (UNION {Values(k) : k \in Kinds}) \cup {Absent}]] :
        \A k \in Kinds, n \in Names : d[k][n] \in Values(k) \cup {Absent}}

LifeTyped ==
    /\ phase \in Phases
    /\ pool \in {"none", "open", "nil", "closed"}
    /\ tables \in BOOLEAN /\ exists \in BOOLEAN

StoreTyped == db \in Tables /\ applied \subseteq Requests

\* A request holds a connection while it runs, and only then.
RequestsTyped ==
    /\ conns \in Nat
    /\ body \in [Requests -> Bodies] /\ route \in [Requests -> {"batch", "update"}]
    /\ next \in [Requests -> Nat]
    /\ pc \in [Requests -> {"new", "exec", "done", "cut"}]
    /\ answer \in [Requests -> {0, 200, 400, 500}]
    /\ writes \in [Requests -> Tables]
    /\ inUse = {r \in Requests : pc[r] = "exec"}
    /\ IsFiniteSet(inUse) /\ Cardinality(inUse) <= conns
    /\ \A r \in Requests :
          /\ next[r] \in 1 .. Len(body[r]) + 1
          /\ pc[r] # "exec" => writes[r] = Nothing
          /\ route[r] = "update" => Len(body[r]) = 1 /\ next[r] = 1
          /\ route[r] = "update" /\ pc[r] = "exec" => body[r][1] \in Calls

TypeInv == LifeTyped /\ StoreTyped /\ RequestsTyped

\* A body has a length and as many rows.
LEMMA BodyIsSequence ==
  ASSUME NEW b \in Bodies
  PROVE  Len(b) \in Nat /\ DOMAIN b = 1 .. Len(b)
  <1>1. PICK S : b \in Seq(S)
    BY BodiesAssumption
  <1>2. QED
    BY <1>1

LEMMA NothingTyped == Nothing \in Tables /\ \A k \in Kinds, n \in Names : Nothing[k][n] = Absent
  <1> DEFINE All == (UNION {Values(kk) : kk \in Kinds}) \cup {Absent}
  <1>1. Absent \in All
    OBVIOUS
  <1>2. \A k \in Kinds, n \in Names : Nothing[k][n] = Absent
    BY DEF Nothing
  <1> HIDE DEF All
  <1>3. Nothing \in [Kinds -> [Names -> All]]
    BY <1>1 DEF Nothing
  <1>4. QED
    BY <1>2, <1>3 DEF Tables, All

\* A value is written in one row.
LEMMA RowWritten ==
  ASSUME NEW d \in Tables, NEW k \in Kinds, NEW n \in Names, NEW v \in Values(k), NEW e,
         e = [d EXCEPT ![k][n] = v]
  PROVE  e \in Tables /\ v # Absent
  <1> DEFINE All == (UNION {Values(kk) : kk \in Kinds}) \cup {Absent}
  <1>1. v \in All /\ d \in [Kinds -> [Names -> All]]
    BY DEF Tables
  <1>2. v # Absent
    BY ValuesPresent
  <1> HIDE DEF All
  <1>3. e \in [Kinds -> [Names -> All]]
    BY <1>1
  <1>4. \A kk \in Kinds, nn \in Names :
           e[kk][nn] = IF kk = k /\ nn = n THEN v ELSE d[kk][nn]
    BY <1>1
  <1>5. \A kk \in Kinds, nn \in Names : e[kk][nn] \in Values(kk) \cup {Absent}
    BY <1>4 DEF Tables
  <1>6. QED
    BY <1>2, <1>3, <1>4, <1>5 DEF Tables, All

\* What an upsert leaves in a row is a value.
LEMMA UpsertedTyped ==
  ASSUME NEW row \in Calls, NEW old \in Values(row.kind) \cup {Absent}
  PROVE  Upserted(row, old) \in Values(row.kind)
  <1>1. row.kind \in Kinds /\ row.value \in Values(row.kind)
    BY CallFields
  <1>2. QED
    BY <1>1, CombineTyped DEF Upserted

\* The values of a transaction on top of others.
Over(w, d) ==
    [k \in Kinds |-> [n \in Names |-> IF w[k][n] # Absent THEN w[k][n] ELSE d[k][n]]]

LEMMA OverTyped ==
  ASSUME NEW w \in Tables, NEW d \in Tables
  PROVE  Over(w, d) \in Tables
  <1> DEFINE All == (UNION {Values(kk) : kk \in Kinds}) \cup {Absent}
  <1>1. w \in [Kinds -> [Names -> All]] /\ d \in [Kinds -> [Names -> All]]
    BY DEF Tables
  <1>2. \A k \in Kinds, n \in Names : Over(w, d)[k][n] \in Values(k) \cup {Absent}
    BY DEF Tables, Over
  <1> HIDE DEF All
  <1>3. Over(w, d) \in [Kinds -> [Names -> All]]
    BY <1>1 DEF Over
  <1>4. QED
    BY <1>2, <1>3 DEF Tables, All

LEMMA TypeInit == Init => TypeInv
  <1> SUFFICES ASSUME Init PROVE TypeInv
    OBVIOUS
  <1>1. LifeTyped
    BY DEF Init, MigrationInit, LifeTyped, Phases
  <1>2. StoreTyped
    BY NothingTyped DEF Init, StoreTyped
  <1>3. \A r \in Requests : Len(body[r]) \in Nat
    BY BodyIsSequence DEF Init
  <1>4. conns \in Nat
    BY MaxConnsAssumption DEF Init
  <1>5. IsFiniteSet({}) /\ Cardinality({}) = 0
    BY FS_EmptySet
  <1>6. RequestsTyped
    BY <1>3, <1>4, <1>5, NothingTyped DEF Init, RequestsTyped
  <1>7. QED
    BY <1>1, <1>2, <1>6 DEF TypeInv

\* The steps of a start and of an end, and the faults that are counted.
LEMMA LifeTypedNext ==
  ASSUME LifeTyped, [Next]_vars
  PROVE  LifeTyped'
  <1> USE DEF LifeTyped, Phases
  <1>1. CASE StartStep
    BY <1>1 DEF StartStep, StartServer, Connect, ConnectFails, LookForTable, CreateJournal,
                CheckApplied, ExecMigration, MigrationFails, Serve
  <1>2. CASE CommitMigration \/ Stop \/ ClosePool \/ Leave \/ Crash \/ Restart
    BY <1>2 DEF CommitMigration, Stop, ClosePool, Leave, Crash, Restart
  <1>3. CASE \E r \in Requests : Handler(r) \/ ConnectionBreaks(r)
    <2>1. UNCHANGED <<phase, pool, exists, tables>>
      BY <1>3 DEF Handler, ConnectionBreaks, RejectUpdate, Begin, BeginFails, ExecRow,
                  UnknownType, ExecFails, Commit, Update, migrationVars
    <2>2. QED
      BY <2>1
  <1>4. CASE UNCHANGED vars
    BY <1>4 DEF vars, migrationVars
  <1>5. QED
    BY <1>1, <1>2, <1>3, <1>4 DEF Next, StartOfServer, StopServer, ClosePoolOfServer,
       LeaveServer, CrashServer, RestartServer

\* Each answer leaves the requests typed.
LEMMA FinishTyped ==
  ASSUME RequestsTyped, NEW r \in Requests, NEW status \in {0, 200, 400, 500},
         Finish(r, status)
  PROVE  RequestsTyped'
  <1>0. IsFiniteSet(inUse)
    BY DEF RequestsTyped
  <1>1. /\ IsFiniteSet(inUse \ {r}) /\ Cardinality(inUse \ {r}) <= Cardinality(inUse)
        /\ Cardinality(inUse) \in Nat /\ Cardinality(inUse \ {r}) \in Nat
    <2>1. inUse \ {r} \in SUBSET inUse
      OBVIOUS
    <2>2. IsFiniteSet(inUse \ {r}) /\ Cardinality(inUse \ {r}) <= Cardinality(inUse)
      BY <1>0, <2>1, FS_Subset
    <2>3. QED
      BY <1>0, <2>2, FS_CardinalityType
  <1> USE DEF RequestsTyped, Finish
  <1>2. Cardinality(inUse') <= conns' /\ IsFiniteSet(inUse') /\ conns' \in Nat
    BY <1>1
  <1>3. /\ pc' \in [Requests -> {"new", "exec", "done", "cut"}]
        /\ answer' \in [Requests -> {0, 200, 400, 500}]
        /\ inUse' = {o \in Requests : pc'[o] = "exec"}
    OBVIOUS
  <1>4. writes' \in [Requests -> Tables] /\ writes'[r] = Nothing
    BY NothingTyped
  <1>5. \A o \in Requests :
          /\ pc'[o] # "exec" => writes'[o] = Nothing
          /\ route[o] = "update" /\ pc'[o] = "exec" => body[o][1] \in Calls
    <2> HIDE DEF RequestsTyped, Finish
    <2>1. \A o \in Requests \ {r} : pc'[o] = pc[o] /\ writes'[o] = writes[o]
      <3>1. pc' = [pc EXCEPT ![r] = "done"] /\ writes' = [writes EXCEPT ![r] = Nothing]
        BY DEF Finish
      <3>2. pc \in [Requests -> {"new", "exec", "done", "cut"}] /\ writes \in [Requests -> Tables]
        BY DEF RequestsTyped
      <3>3. QED
        BY <3>1, <3>2
    <2>2. pc'[r] = "done"
      BY DEF RequestsTyped, Finish
    <2>3. \A o \in Requests :
            /\ pc[o] # "exec" => writes[o] = Nothing
            /\ route[o] = "update" /\ pc[o] = "exec" => body[o][1] \in Calls
      BY DEF RequestsTyped
    <2>4. QED
      BY <1>4, <2>1, <2>2, <2>3
  <1>6. UNCHANGED <<body, route, next>>
    OBVIOUS
  <1>7. QED
    BY <1>2, <1>3, <1>4, <1>5, <1>6

\* What a request's transaction sees in a row.
LEMMA CurrentTyped ==
  ASSUME TypeInv, NEW r \in Requests, Row(r) \in Calls
  PROVE  /\ Row(r).kind \in Kinds /\ Row(r).name \in Names
         /\ db[Row(r).kind][Row(r).name] \in Values(Row(r).kind) \cup {Absent}
         /\ Current(r, Row(r)) \in Values(Row(r).kind) \cup {Absent}
         /\ Upserted(Row(r), Current(r, Row(r))) \in Values(Row(r).kind)
         /\ Upserted(Row(r), db[Row(r).kind][Row(r).name]) \in Values(Row(r).kind)
  <1>1. Row(r).kind \in Kinds /\ Row(r).name \in Names
    BY CallFields
  <1>2. db \in Tables /\ writes[r] \in Tables
    BY DEF TypeInv, StoreTyped, RequestsTyped
  <1> HIDE DEF Row
  <1>3. /\ db[Row(r).kind][Row(r).name] \in Values(Row(r).kind) \cup {Absent}
        /\ writes[r][Row(r).kind][Row(r).name] \in Values(Row(r).kind) \cup {Absent}
    BY <1>1, <1>2 DEF Tables
  <1>4. Current(r, Row(r)) \in Values(Row(r).kind) \cup {Absent}
    BY <1>3 DEF Current
  <1>5. QED
    BY <1>1, <1>3, <1>4, UpsertedTyped

\* The transaction writes the row its statement is about.
LEMMA ExecRowWrites ==
  ASSUME TypeInv, NEW r \in Requests, ExecRow(r)
  PROVE  /\ writes' = [writes EXCEPT ![r] = writes'[r]]
         /\ writes'[r] = [writes[r] EXCEPT ![Row(r).kind][Row(r).name] =
                             Upserted(Row(r), Current(r, Row(r)))]
  <1>1. writes \in [Requests -> Tables]
    BY DEF TypeInv, RequestsTyped
  <1>2. writes' = [writes EXCEPT ![r] = [writes[r] EXCEPT ![Row(r).kind] =
           [writes[r][Row(r).kind] EXCEPT ![Row(r).name] = Upserted(Row(r), Current(r, Row(r)))]]]
    BY DEF ExecRow
  <1> DEFINE u == Upserted(Row(r), Current(r, Row(r)))
  <1> HIDE DEF u
  <1>3. writes' = [writes EXCEPT ![r] = [writes[r] EXCEPT ![Row(r).kind] =
           [writes[r][Row(r).kind] EXCEPT ![Row(r).name] = u]]]
    BY <1>2 DEF u
  <1>4. writes'[r] = [writes[r] EXCEPT ![Row(r).kind] =
           [writes[r][Row(r).kind] EXCEPT ![Row(r).name] = u]]
    BY <1>1, <1>3
  <1>5. QED
    BY <1>3, <1>4 DEF u

LEMMA ExecRowTyped ==
  ASSUME TypeInv, NEW r \in Requests, ExecRow(r)
  PROVE  RequestsTyped'
  <1>0. route[r] = "batch"
    BY DEF ExecRow
  <1>1. pc[r] = "exec" /\ next[r] \in DOMAIN body[r] /\ Row(r) \in Calls
    BY DEF ExecRow, Runs
  <1>2. writes'[r] \in Tables
    <2>1. writes[r] \in Tables
      BY DEF TypeInv, RequestsTyped
    <2>2. Row(r).kind \in Kinds /\ Row(r).name \in Names
          /\ Upserted(Row(r), Current(r, Row(r))) \in Values(Row(r).kind)
      BY <1>1, CurrentTyped
    <2>3. writes'[r] = [writes[r] EXCEPT ![Row(r).kind][Row(r).name] =
                             Upserted(Row(r), Current(r, Row(r)))]
      BY ExecRowWrites
    <2>4. QED
      BY <2>1, <2>2, <2>3, RowWritten
  <1>3. writes' \in [Requests -> Tables] /\ \A o \in Requests \ {r} : writes'[o] = writes[o]
    <2>1. writes \in [Requests -> Tables]
      BY DEF TypeInv, RequestsTyped
    <2>2. writes' = [writes EXCEPT ![r] = writes'[r]]
      BY ExecRowWrites
    <2>3. QED
      BY <1>2, <2>1, <2>2
  <1>4. next' = [next EXCEPT ![r] = next[r] + 1]
    BY DEF ExecRow
  <1>5. next \in [Requests -> Nat]
    BY DEF TypeInv, RequestsTyped
  <1>6. next' \in [Requests -> Nat] /\ next'[r] = next[r] + 1
        /\ \A o \in Requests \ {r} : next'[o] = next[o]
    BY <1>4, <1>5
  <1>7. UNCHANGED <<conns, body, route, pc, answer, inUse>>
    BY DEF ExecRow
  <1>8. next'[r] \in 1 .. Len(body[r]) + 1
    <2>1. body[r] \in Bodies
      BY DEF TypeInv, RequestsTyped
    <2>2. QED
      BY <1>1, <1>6, <2>1, BodyIsSequence
  <1>9. \A o \in Requests :
          /\ next'[o] \in 1 .. Len(body[o]) + 1
          /\ pc[o] # "exec" => writes'[o] = Nothing
          /\ route[o] = "update" => Len(body[o]) = 1 /\ next'[o] = 1
    BY <1>0, <1>1, <1>3, <1>6, <1>8 DEF TypeInv, RequestsTyped
  <1>10. QED
    BY <1>3, <1>6, <1>7, <1>9 DEF TypeInv, RequestsTyped

LEMMA BeginTyped ==
  ASSUME TypeInv, NEW r \in Requests, Begin(r)
  PROVE  RequestsTyped'
  <1>1. /\ IsFiniteSet(inUse) /\ r \notin inUse /\ conns \in Nat
        /\ Cardinality(inUse) < conns
    BY DEF TypeInv, RequestsTyped, Begin, Runs
  <1>2. /\ IsFiniteSet(inUse \cup {r}) /\ Cardinality(inUse \cup {r}) = Cardinality(inUse) + 1
        /\ Cardinality(inUse) \in Nat
    BY <1>1, FS_AddElement, FS_CardinalityType
  <1>3. pc' = [pc EXCEPT ![r] = "exec"] /\ inUse' = inUse \cup {r}
    BY DEF Begin
  <1>4. UNCHANGED <<conns, body, route, next, writes, answer>>
    BY DEF Begin
  <1>5. IsFiniteSet(inUse') /\ Cardinality(inUse') <= conns
    BY <1>1, <1>2, <1>3
  <1>6. pc \in [Requests -> {"new", "exec", "done", "cut"}]
    BY DEF TypeInv, RequestsTyped
  <1>7. /\ pc' \in [Requests -> {"new", "exec", "done", "cut"}] /\ pc'[r] = "exec"
        /\ \A o \in Requests \ {r} : pc'[o] = pc[o]
    BY <1>3, <1>6
  <1>8. inUse' = {o \in Requests : pc'[o] = "exec"}
    BY <1>3, <1>7 DEF TypeInv, RequestsTyped
  <1>9. route[r] = "update" => body[r][1] \in Calls
    BY DEF Begin
  <1>10. \A o \in Requests :
           /\ pc'[o] # "exec" => writes[o] = Nothing
           /\ route[o] = "update" /\ pc'[o] = "exec" => body[o][1] \in Calls
    BY <1>7, <1>9 DEF TypeInv, RequestsTyped
  <1>11. QED
    BY <1>4, <1>5, <1>7, <1>8, <1>10 DEF TypeInv, RequestsTyped

LEMMA CrashTyped ==
  ASSUME TypeInv, CrashServer
  PROVE  RequestsTyped'
  <1>1. IsFiniteSet({}) /\ Cardinality({}) = 0
    BY FS_EmptySet
  <1> USE DEF TypeInv, RequestsTyped, CrashServer
  <1>2. /\ pc' \in [Requests -> {"new", "exec", "done", "cut"}]
        /\ \A o \in Requests : pc'[o] # "exec"
    OBVIOUS
  <1>3. inUse' = {o \in Requests : pc'[o] = "exec"}
    BY <1>2
  <1>4. writes' \in [Requests -> Tables] /\ \A o \in Requests : writes'[o] = Nothing
    BY NothingTyped
  <1>5. IsFiniteSet(inUse') /\ Cardinality(inUse') <= conns
    BY <1>1
  <1>6. UNCHANGED <<conns, body, route, next, answer>>
    OBVIOUS
  <1>7. QED
    BY <1>2, <1>3, <1>4, <1>5, <1>6

\* A single update that runs has a row that can be stored.
LEMMA UpdateRow ==
  ASSUME TypeInv, NEW r \in Requests, Update(r)
  PROVE  Row(r) \in Calls
  BY DEF TypeInv, RequestsTyped, Update, Runs, Row

\* Commit writes what the transaction holds, Update one row.
LEMMA StoreTypedNext ==
  ASSUME TypeInv, [Next]_vars
  PROVE  StoreTyped'
  <1> USE DEF TypeInv, StoreTyped
  <1>1. ASSUME NEW r \in Requests, Commit(r)
        PROVE  StoreTyped'
    <2>1. db' = Over(writes[r], db) /\ applied' = applied \cup {r}
      BY <1>1 DEF Commit, Committed, Over
    <2>2. writes[r] \in Tables
      BY DEF RequestsTyped
    <2>3. QED
      BY <2>1, <2>2, OverTyped
  <1>2. ASSUME NEW r \in Requests, Update(r)
        PROVE  StoreTyped'
    <2>1. db' = [db EXCEPT ![Row(r).kind][Row(r).name] =
                    Upserted(Row(r), db[Row(r).kind][Row(r).name])]
          /\ applied' = applied \cup {r}
      BY <1>2 DEF Update
    <2>2. Row(r) \in Calls
      BY <1>2, UpdateRow
    <2>3. Row(r).kind \in Kinds /\ Row(r).name \in Names
          /\ Upserted(Row(r), db[Row(r).kind][Row(r).name]) \in Values(Row(r).kind)
      BY <2>2, CurrentTyped
    <2>4. QED
      BY <2>1, <2>3, RowWritten
  <1>3. ASSUME NEW r \in Requests, Handler(r) \/ ConnectionBreaks(r), ~Commit(r), ~Update(r)
        PROVE  UNCHANGED <<db, applied>>
    BY <1>3 DEF Handler, ConnectionBreaks, RejectUpdate, Begin, BeginFails, ExecRow,
                UnknownType, ExecFails
  <1>4. CASE \E r \in Requests : Handler(r) \/ ConnectionBreaks(r)
    BY <1>1, <1>2, <1>3, <1>4
  <1>5. CASE StartOfServer
    BY <1>5 DEF StartOfServer, Migrated
  <1>6. CASE StopServer \/ ClosePoolOfServer \/ LeaveServer \/ RestartServer \/ CrashServer
             \/ UNCHANGED vars
    BY <1>6 DEF StopServer, ClosePoolOfServer, LeaveServer, RestartServer, CrashServer,
                vars, batchVars
  <1>7. QED
    BY <1>4, <1>5, <1>6 DEF Next

\* Every step of a request.
LEMMA RequestsTypedNext ==
  ASSUME TypeInv, [Next]_vars
  PROVE  RequestsTyped'
  <1>1. ASSUME NEW r \in Requests, Handler(r) \/ ConnectionBreaks(r), ~Begin(r), ~ExecRow(r)
        PROVE  \E status \in {0, 200, 400, 500} : Finish(r, status)
    BY <1>1 DEF Handler, ConnectionBreaks, RejectUpdate, BeginFails, UnknownType, ExecFails,
                Commit, Update
  <1>2. CASE \E r \in Requests : Handler(r) \/ ConnectionBreaks(r)
    BY <1>1, <1>2, FinishTyped, BeginTyped, ExecRowTyped DEF TypeInv
  <1>3. CASE CrashServer
    BY <1>3, CrashTyped
  <1>4. CASE StartOfServer \/ StopServer \/ ClosePoolOfServer \/ LeaveServer
             \/ RestartServer \/ UNCHANGED vars
    <2>1. UNCHANGED <<body, conns, pc, route, next, inUse, writes, answer>>
      BY <1>4 DEF StartOfServer, StopServer, ClosePoolOfServer, LeaveServer, RestartServer,
                  vars, batchVars
    <2>2. QED
      BY <2>1 DEF TypeInv, RequestsTyped
  <1>5. QED
    BY <1>2, <1>3, <1>4 DEF Next

LEMMA TypeNext == TypeInv /\ [Next]_vars => TypeInv'
  BY LifeTypedNext, StoreTypedNext, RequestsTypedNext DEF TypeInv

\* Every variable has its type, whatever is updated and whenever the server
\* fails; a transaction is open only while its request holds one of the
\* pool's connections (handlers.go:309, the deferred Rollback).
THEOREM PostgresTypeCorrect == Spec => []TypeOK
  <1>1. TypeInv => TypeOK
    BY DEF TypeInv, LifeTyped, StoreTyped, RequestsTyped, TypeOK, Tables
  <1>2. QED
    BY <1>1, TypeInit, TypeNext, PTL DEF Spec

-----------------------------------------------------------------------------
(* What is in the database.                                                *)

\* The steps that write the database are Commit and Update.
LEMMA OnlyTwoWrite ==
  ASSUME [Next]_vars, ~ \E r \in Requests : Commit(r) \/ Update(r)
  PROVE  UNCHANGED <<db, applied, body>>
  <1>1. ASSUME NEW r \in Requests, Handler(r) \/ ConnectionBreaks(r)
        PROVE  UNCHANGED <<db, applied, body>>
    BY <1>1 DEF Handler, ConnectionBreaks, RejectUpdate, Begin, BeginFails, ExecRow,
                UnknownType, ExecFails, Finish
  <1>2. CASE StartOfServer \/ StopServer \/ ClosePoolOfServer \/ LeaveServer \/ RestartServer
             \/ CrashServer \/ UNCHANGED vars
    BY <1>2 DEF StartOfServer, Migrated, StopServer, ClosePoolOfServer, LeaveServer,
                RestartServer, CrashServer, vars, batchVars
  <1>3. QED
    BY <1>1, <1>2 DEF Next

\* What Update does to the rows.
LEMMA UpdateWrites ==
  ASSUME TypeInv, NEW r \in Requests, Update(r)
  PROVE  /\ Row(r).kind \in Kinds /\ Row(r).name \in Names
         /\ Upserted(Row(r), db[Row(r).kind][Row(r).name]) # Absent
         /\ \A k \in Kinds, n \in Names :
              db'[k][n] = IF k = Row(r).kind /\ n = Row(r).name
                          THEN Upserted(Row(r), db[Row(r).kind][Row(r).name])
                          ELSE db[k][n]
  <1>1. db' = [db EXCEPT ![Row(r).kind][Row(r).name] =
                  Upserted(Row(r), db[Row(r).kind][Row(r).name])]
    BY DEF Update
  <1>2. Row(r) \in Calls
    BY UpdateRow
  <1>3. Row(r).kind \in Kinds /\ Row(r).name \in Names
        /\ Upserted(Row(r), db[Row(r).kind][Row(r).name]) \in Values(Row(r).kind)
    BY <1>2, CurrentTyped
  <1>4. db \in Tables
    BY DEF TypeInv, StoreTyped
  <1> DEFINE row == Row(r)
             u   == Upserted(row, db[row.kind][row.name])
  <1>5. db' = [db EXCEPT ![row.kind][row.name] = u] /\ u \in Values(row.kind)
        /\ row.kind \in Kinds /\ row.name \in Names
    BY <1>1, <1>3
  <1> HIDE DEF u, row
  <1>6. /\ u # Absent
        /\ \A k \in Kinds, n \in Names :
              db'[k][n] = IF k = row.kind /\ n = row.name THEN u ELSE db[k][n]
    <2>1. \A k \in Kinds, n \in Names :
            [db EXCEPT ![row.kind][row.name] = u][k][n] =
              IF k = row.kind /\ n = row.name THEN u ELSE db[k][n]
      BY <1>4, <1>5 DEF Tables
    <2>2. QED
      BY <1>5, <2>1, ValuesPresent
  <1>7. QED
    BY <1>5, <1>6 DEF u, row

LEMMA MetricsStayStep ==
  TypeInv /\ [Next]_vars =>
    [\A k \in Kinds, n \in Names : db[k][n] # Absent => db'[k][n] # Absent]_vars
  <1> SUFFICES ASSUME TypeInv, [Next]_vars, NEW k \in Kinds, NEW n \in Names, db[k][n] # Absent
               PROVE  db'[k][n] # Absent
    BY Zenon
  <1>1. CASE \E r \in Requests : Commit(r)
    BY <1>1 DEF Commit, Committed
  <1>2. CASE \E r \in Requests : Update(r)
    BY <1>2, UpdateWrites
  <1>3. CASE ~ \E r \in Requests : Commit(r) \/ Update(r)
    BY <1>3, OnlyTwoWrite
  <1>4. QED
    BY <1>1, <1>2, <1>3

\* No start, migration, batch or update makes a metric of the database
\* disappear (the migration's SQL, postgres.go:190).
THEOREM MetricsAlwaysStay == Spec => MetricsStay
  BY TypeInit, TypeNext, MetricsStayStep, PTL DEF Spec, MetricsStay

-----------------------------------------------------------------------------
(* What a batch of rows makes of the database (BatchStore).                *)

\* BatchStore's rows are the rows of this module.
LEMMA SameCalls == BS!Calls = Calls /\ BS!Kinds = Kinds
  BY DEF BS!Calls, BS!Kinds, BS!Inputs, Calls, Kinds, Inputs

LEMMA UpsertTyped ==
  ASSUME NEW d \in Tables, NEW row \in Calls
  PROVE  /\ BS!Upsert(d, row) \in Tables
         /\ \A k \in Kinds, n \in Names :
              BS!Upsert(d, row)[k][n] = IF k = row.kind /\ n = row.name
                                        THEN Upserted(row, d[k][n]) ELSE d[k][n]
  <1> DEFINE u == Upserted(row, d[row.kind][row.name])
  <1>1. row.kind \in Kinds /\ row.name \in Names /\ row.value \in Values(row.kind)
    BY CallFields
  <1>2. d[row.kind][row.name] \in Values(row.kind) \cup {Absent}
    BY <1>1 DEF Tables
  <1>3. u \in Values(row.kind)
    BY <1>2, UpsertedTyped
  <1>4. BS!Upsert(d, row) = [d EXCEPT ![row.kind][row.name] = u]
    BY DEF BS!Upsert, BS!Combine, BS!Wrap, Upserted, Combine, Wrap
  <1> HIDE DEF u
  <1>5. BS!Upsert(d, row) \in Tables
    <2>1. PICK k \in Kinds, n \in Names : k = row.kind /\ n = row.name
      BY <1>1
    <2>2. BS!Upsert(d, row) = [d EXCEPT ![k][n] = u] /\ u \in Values(k)
      BY <1>3, <1>4, <2>1
    <2>3. QED
      BY <2>2, RowWritten
  <1>6. \A k \in Kinds, n \in Names :
           [d EXCEPT ![row.kind][row.name] = u][k][n] =
              IF k = row.kind /\ n = row.name THEN u ELSE d[k][n]
    BY <1>1 DEF Tables
  <1>7. QED
    BY <1>4, <1>5, <1>6 DEF u

\* The largest of some of the numbers up to n.
LEMMA MaxOfSome ==
  ASSUME NEW n \in Nat, NEW u \in SUBSET (1 .. n), u # {}
  PROVE  BS!Max(u) \in u /\ \A y \in u : BS!Max(u) >= y
  <1> DEFINE Without == {s \in SUBSET (1 .. n) : s # {} /\ ~ \E x \in s : \A y \in s : x >= y}
  <1>1. Without = {}
    <2>1. SUFFICES ASSUME Without # {} PROVE FALSE
      OBVIOUS
    <2>2. PICK m \in Without : \A y \in Without : y \subseteq m => y = m
      <3> DEFINE all == 1 .. n
      <3>1. Without \subseteq SUBSET all /\ IsFiniteSet(all)
        BY FS_Interval
      <3> HIDE DEF Without, all
      <3>2. QED
        BY <2>1, <3>1, SmallestSubset
    <2>3. m \in SUBSET (1 .. n) /\ m # {} /\ ~ \E x \in m : \A y \in m : x >= y
      BY <2>2
    <2>4. PICK x \in m : TRUE
      BY <2>3
    <2>5. x \in 1 .. n /\ m \ {x} \in SUBSET (1 .. n) /\ m \ {x} # m
      BY <2>3, <2>4
    <2>6. m \ {x} # {}
      BY <2>3, <2>4, <2>5
    <2>7. PICK z \in m \ {x} : \A y \in m \ {x} : z >= y
      <3>1. m \ {x} \notin Without
        BY <2>2, <2>5
      <3>2. QED
        BY <2>5, <2>6, <3>1
    <2>8. x \in Int /\ z \in Int /\ \A y \in m : y \in Int
      BY <2>3, <2>4, <2>7
    <2>9. CASE z >= x
      BY <2>3, <2>7, <2>9
    <2>10. CASE ~ (z >= x)
      <3>1. \A y \in m : x >= y
        BY <2>7, <2>8, <2>10
      <3>2. QED
        BY <2>3, <3>1
    <2>11. QED
      BY <2>9, <2>10
  <1>2. \E x \in u : \A y \in u : x >= y
    BY <1>1
  <1>3. QED
    BY <1>2, Zenon DEF BS!Max

\* The first n rows of a body.
Prefix(q, n) == [i \in 1 .. n |-> q[i]]

\* The fold over a body's rows takes the last index last.
LastIndex == [u \in SUBSET Nat |-> BS!Max(u)]
Steps(q) == [i \in Nat |-> [d \in Tables |-> BS!Upsert(d, q[i])]]

LEMMA LastChooses == ASSUME NEW n \in Nat PROVE Chooses(LastIndex, 1 .. n)
  <1>1. ASSUME NEW u \in SUBSET (1 .. n), u # {}
        PROVE  LastIndex[u] \in u
    <2>1. BS!Max(u) \in u
      BY <1>1, MaxOfSome
    <2>2. u \in SUBSET Nat
      OBVIOUS
    <2>3. QED
      BY <2>1, <2>2 DEF LastIndex
  <1>2. QED
    BY <1>1 DEF Chooses

\* What SequencesExt's FoldLeft is.
LEMMA ResultUnfolds ==
  ASSUME NEW d, NEW q, NEW n \in Nat
  PROVE  BS!Result(d, Prefix(q, n)) =
           (CHOOSE f : f = [u \in SUBSET (1 .. n) |->
              IF u = {} THEN d
                        ELSE BS!Upsert(f[u \ {BS!Max(u)}], Prefix(q, n)[BS!Max(u)])])[1 .. n]
  <1>1. DOMAIN Prefix(q, n) = 1 .. n
    BY DEF Prefix
  <1>2. BS!Result(d, Prefix(q, n)) =
           (CHOOSE f : f = [u \in SUBSET DOMAIN Prefix(q, n) |->
              IF u = {} THEN d
                        ELSE BS!Upsert(f[u \ {BS!Max(u)}], Prefix(q, n)[BS!Max(u)])])
             [DOMAIN Prefix(q, n)]
    BY DEF BS!Result, BS!FoldLeft, BS!MapThenFoldSet
  <1>3. QED
    BY <1>1, <1>2

LEMMA ResultIsFold ==
  ASSUME NEW d \in Tables, NEW q, NEW n \in Nat, \A i \in 1 .. n : q[i] \in Calls
  PROVE  \E g : /\ IsFold(g, 1 .. n, d, LastIndex, Steps(q))
                /\ BS!Result(d, Prefix(q, n)) = g[1 .. n]
                /\ \A u \in SUBSET (1 .. n) : g[u] \in Tables
  <1>1. IsFiniteSet(1 .. n) /\ Chooses(LastIndex, 1 .. n)
    BY FS_Interval, LastChooses
  <1>2. PICK g : IsFold(g, 1 .. n, d, LastIndex, Steps(q))
    BY <1>1, FoldsExist
  <1>3. \A x \in 1 .. n, v \in Tables :
           Steps(q)[x][v] = BS!Upsert(v, q[x]) /\ Steps(q)[x][v] \in Tables
    BY UpsertTyped DEF Steps
  <1>4. \A u \in SUBSET (1 .. n) : g[u] \in Tables
    BY <1>1, <1>2, <1>3, FoldsTyped
  <1> DEFINE Eq(f) == f = [u \in SUBSET (1 .. n) |->
              IF u = {} THEN d
                        ELSE BS!Upsert(f[u \ {BS!Max(u)}], Prefix(q, n)[BS!Max(u)])]
             F == CHOOSE f : Eq(f)
  <1>5. ASSUME NEW u \in SUBSET (1 .. n), u # {}
        PROVE  /\ LastIndex[u] = BS!Max(u) /\ BS!Max(u) \in u /\ BS!Max(u) \in 1 .. n
               /\ Prefix(q, n)[BS!Max(u)] = q[BS!Max(u)]
               /\ u \ {BS!Max(u)} \in SUBSET (1 .. n)
    <2>1. BS!Max(u) \in u
      BY <1>5, MaxOfSome
    <2>2. BS!Max(u) \in 1 .. n
      BY <2>1
    <2>3. u \in SUBSET Nat
      OBVIOUS
    <2>4. QED
      BY <2>1, <2>2, <2>3 DEF LastIndex, Prefix
  <1>6. ASSUME NEW u \in SUBSET (1 .. n)
        PROVE  g[u] = IF u = {} THEN d
                      ELSE BS!Upsert(g[u \ {BS!Max(u)}], Prefix(q, n)[BS!Max(u)])
    <2>1. CASE u = {}
      BY <1>2, <2>1 DEF IsFold
    <2>2. CASE u # {}
      <3>1. g[u] = Steps(q)[LastIndex[u]][g[u \ {LastIndex[u]}]]
        BY <1>2, <2>2 DEF IsFold
      <3>2. QED
        BY <1>3, <1>4, <1>5, <2>2, <3>1
    <2>3. QED
      BY <2>1, <2>2
  <1>7. Eq(g)
    <2>1. g = [u \in SUBSET (1 .. n) |-> g[u]]
      BY <1>2 DEF IsFold
    <2>2. QED
      BY <1>6, <2>1
  <1>8. Eq(F)
    <2> HIDE DEF Eq
    <2>1. QED
      BY <1>7, Zenon
  <1>9. F[1 .. n] = g[1 .. n]
    <2> HIDE DEF F
    <2> DEFINE Differ == {u \in SUBSET (1 .. n) : F[u] # g[u]}
    <2>1. SUFFICES ASSUME Differ # {} PROVE FALSE
      BY Zenon
    <2>2. PICK m \in Differ : \A y \in Differ : y \subseteq m => y = m
      <3> DEFINE all == 1 .. n
      <3>1. Differ \subseteq SUBSET all /\ IsFiniteSet(all)
        BY <1>1
      <3> HIDE DEF Differ, all
      <3>2. QED
        BY <2>1, <3>1, SmallestSubset
    <2>3. m \in SUBSET (1 .. n) /\ F[m] # g[m]
      BY <2>2
    <2>4. F[m] = IF m = {} THEN d
                 ELSE BS!Upsert(F[m \ {BS!Max(m)}], Prefix(q, n)[BS!Max(m)])
      BY <1>8, <2>3
    <2>5. m # {}
      BY <1>6, <2>3, <2>4
    <2>6. F[m \ {BS!Max(m)}] = g[m \ {BS!Max(m)}]
      <3>1. BS!Max(m) \in m /\ m \ {BS!Max(m)} \in SUBSET (1 .. n)
        BY <1>5, <2>3, <2>5
      <3>2. QED
        BY <2>2, <3>1
    <2>7. QED
      BY <1>6, <2>3, <2>4, <2>5, <2>6
  <1>10. BS!Result(d, Prefix(q, n)) = F[1 .. n]
    BY ResultUnfolds, Zenon
  <1>11. QED
    BY <1>2, <1>4, <1>9, <1>10

\* No row changes nothing.
LEMMA ResultOfNone ==
  ASSUME NEW d \in Tables, NEW q
  PROVE  BS!Result(d, Prefix(q, 0)) = d
  <1>1. PICK g : IsFold(g, 1 .. 0, d, LastIndex, Steps(q)) /\ BS!Result(d, Prefix(q, 0)) = g[1 .. 0]
    BY ResultIsFold
  <1>2. 1 .. 0 = {}
    OBVIOUS
  <1>3. QED
    BY <1>1, <1>2 DEF IsFold

\* One more row is one more upsert.
LEMMA ResultOfNext ==
  ASSUME NEW d \in Tables, NEW q, NEW n \in Nat, \A i \in 1 .. n + 1 : q[i] \in Calls
  PROVE  /\ BS!Result(d, Prefix(q, n)) \in Tables
         /\ BS!Result(d, Prefix(q, n + 1)) =
              BS!Upsert(BS!Result(d, Prefix(q, n)), q[n + 1])
  <1>1. PICK m \in Nat : m = n + 1
    OBVIOUS
  <1>2. \A i \in 1 .. m : q[i] \in Calls
    BY <1>1
  <1>3. 1 .. n \in SUBSET (1 .. m) /\ m \in 1 .. m /\ (1 .. m) \ {m} = 1 .. n /\ 1 .. m # {}
    BY <1>1
  <1>4. PICK g : /\ IsFold(g, 1 .. n, d, LastIndex, Steps(q))
                 /\ BS!Result(d, Prefix(q, n)) = g[1 .. n]
                 /\ \A u \in SUBSET (1 .. n) : g[u] \in Tables
    BY <1>2, <1>3, ResultIsFold
  <1>5. PICK h : /\ IsFold(h, 1 .. m, d, LastIndex, Steps(q))
                 /\ BS!Result(d, Prefix(q, m)) = h[1 .. m]
    BY <1>2, ResultIsFold
  <1>6. h[1 .. n] = g[1 .. n]
    <2> DEFINE S == 1 .. m
               T == 1 .. n
    <2>1. IsFiniteSet(S) /\ Chooses(LastIndex, S) /\ T \in SUBSET S
      <3>1. IsFiniteSet(1 .. m)
        BY FS_Interval
      <3>2. Chooses(LastIndex, 1 .. m)
        BY LastChooses
      <3>3. QED
        BY <1>3, <3>1, <3>2
    <2>2. IsFold(h, S, d, LastIndex, Steps(q)) /\ IsFold(g, T, d, LastIndex, Steps(q))
      BY <1>4, <1>5
    <2> HIDE DEF S, T
    <2>3. h[T] = g[T]
      BY <2>1, <2>2, FoldOfPart
    <2>4. QED
      BY <2>3 DEF T
  <1>7. BS!Max(1 .. m) = m
    <2>1. BS!Max(1 .. m) \in 1 .. m /\ \A y \in 1 .. m : BS!Max(1 .. m) >= y
      BY <1>3, MaxOfSome
    <2>2. QED
      BY <1>3, <2>1
  <1>8. LastIndex[1 .. m] = m
    BY <1>7 DEF LastIndex
  <1>9. h[1 .. m] = Steps(q)[m][h[1 .. n]]
    <2>1. h[1 .. m] = Steps(q)[LastIndex[1 .. m]][h[(1 .. m) \ {LastIndex[1 .. m]}]]
      BY <1>3, <1>5 DEF IsFold
    <2>2. QED
      BY <1>3, <1>8, <2>1
  <1>10. g[1 .. n] \in Tables
    BY <1>4
  <1>11. Steps(q)[m][g[1 .. n]] = BS!Upsert(g[1 .. n], q[m])
    BY <1>10 DEF Steps
  <1>12. QED
    BY <1>1, <1>4, <1>5, <1>6, <1>9, <1>10, <1>11

\* A whole body is its own prefix.
LEMMA WholePrefix ==
  ASSUME NEW b \in Bodies
  PROVE  Prefix(b, Len(b)) = b
  <1>1. PICK S : b \in Seq(S)
    BY BodiesAssumption
  <1>2. b = [i \in 1 .. Len(b) |-> b[i]]
    BY <1>1
  <1>3. QED
    BY <1>2 DEF Prefix

-----------------------------------------------------------------------------
(* Transactions.                                                           *)

\* Two open transactions have not written the same row.
Exclusive ==
    \A r, o \in Requests : r # o =>
        \A k \in Kinds, n \in Names : writes[r][k][n] = Absent \/ writes[o][k][n] = Absent

\* The rows that a transaction has dealt with could be stored.
RowsDone == \A r \in Requests : \A i \in 1 .. next[r] - 1 : body[r][i] \in Calls

\* d holds what the database holds, in the rows that w writes.
AgreesOn(w, d) == \A k \in Kinds, n \in Names : w[k][n] # Absent => d[k][n] = db[k][n]

\* Whatever the rows of others become while r's transaction is open, what it
\* has written on top of them is what its first rows make of them.
TransactionsTell ==
    \A r \in Requests : pc[r] = "exec" =>
        \A d \in Tables : AgreesOn(writes[r], d) =>
            BS!Result(d, Prefix(body[r], next[r] - 1)) = Over(writes[r], d)

\* Where there is no transaction yet, or never.
NothingDone ==
    \A r \in Requests :
        /\ pc[r] = "new" => next[r] = 1
        /\ route[r] = "update" => writes[r] = Nothing

TransactionInv == Exclusive /\ RowsDone /\ TransactionsTell /\ NothingDone

AtomicInv == TypeInv /\ AnswersInv /\ TransactionInv

LEMMA OverNothing == ASSUME NEW d \in Tables PROVE Over(Nothing, d) = d
  <1>1. d = [k \in Kinds |-> [n \in Names |-> d[k][n]]]
    BY DEF Tables
  <1>2. \A k \in Kinds, n \in Names : Nothing[k][n] = Absent
    BY NothingTyped
  <1>3. Over(Nothing, d) = [k \in Kinds |-> [n \in Names |-> d[k][n]]]
    BY <1>2 DEF Over
  <1>4. QED
    BY <1>1, <1>3

\* Tables with the same rows are the same.
LEMMA SameRows ==
  ASSUME NEW c \in Tables, NEW d \in Tables, \A k \in Kinds, n \in Names : c[k][n] = d[k][n]
  PROVE  c = d
  <1>1. c = [k \in Kinds |-> [n \in Names |-> c[k][n]]] /\ d = [k \in Kinds |-> [n \in Names |-> d[k][n]]]
    BY DEF Tables
  <1>2. QED
    BY <1>1

LEMMA AtomicInit == Init => AtomicInv /\ BS!Init
  <1> SUFFICES ASSUME Init PROVE AtomicInv /\ BS!Init
    OBVIOUS
  <1>1. TypeInv /\ AnswersInv
    BY TypeInit, AnswersInit
  <1>2. \A r \in Requests : writes[r] = Nothing /\ next[r] = 1 /\ pc[r] = "new"
    BY DEF Init
  <1>3. Exclusive
    BY <1>2, NothingTyped DEF Exclusive
  <1>4. RowsDone /\ TransactionsTell
    BY <1>2 DEF RowsDone, TransactionsTell
  <1>5. BS!Init
    BY SameCalls DEF Init, Nothing, BS!Init
  <1>6. QED
    BY <1>1, <1>2, <1>3, <1>4, <1>5 DEF AtomicInv, TransactionInv, NothingDone

\* What a transaction writes is seen by no other until it ends.
LEMMA ExecRowAtomic ==
  ASSUME AtomicInv, NEW r \in Requests, ExecRow(r)
  PROVE  Exclusive' /\ RowsDone' /\ TransactionsTell'
  <1> DEFINE row == Row(r)
             k0  == row.kind
             n0  == row.name
             u   == Upserted(row, Current(r, row))
             w   == writes'[r]
             q   == body[r]
             m   == next[r] - 1
  <1>1. TypeInv /\ Exclusive /\ RowsDone /\ TransactionsTell
    BY DEF AtomicInv, TransactionInv
  <1>2. /\ pc[r] = "exec" /\ next[r] \in DOMAIN q /\ row \in Calls /\ row = q[next[r]]
        /\ Blockers(r) = {} /\ UNCHANGED <<db, body, pc>>
    BY DEF ExecRow, Runs, Row
  <1>3. /\ k0 \in Kinds /\ n0 \in Names /\ u \in Values(k0) /\ u # Absent
        /\ writes[r] \in Tables /\ w \in Tables
    <2>1. RequestsTyped' /\ RequestsTyped
      BY <1>1, ExecRowTyped DEF TypeInv
    <2>2. k0 \in Kinds /\ n0 \in Names /\ u \in Values(k0)
      BY <1>1, <1>2, CurrentTyped
    <2>3. QED
      BY <2>1, <2>2, ValuesPresent DEF RequestsTyped
  <1>4. \A k \in Kinds, n \in Names :
          w[k][n] = IF k = k0 /\ n = n0 THEN u ELSE writes[r][k][n]
    <2>1. w = [writes[r] EXCEPT ![k0][n0] = u]
      BY <1>1, ExecRowWrites
    <2> HIDE DEF u, w, k0, n0
    <2>2. QED
      BY <1>3, <2>1 DEF Tables
  <1>5. \A o \in Requests \ {r} : writes'[o] = writes[o]
    <2>1. writes \in [Requests -> Tables]
      BY <1>1 DEF TypeInv, RequestsTyped
    <2>2. writes' = [writes EXCEPT ![r] = writes'[r]]
      BY <1>1, ExecRowWrites
    <2>3. QED
      BY <2>1, <2>2
  <1>6. next \in [Requests -> Nat] /\ next' = [next EXCEPT ![r] = next[r] + 1]
    BY <1>1 DEF ExecRow, TypeInv, RequestsTyped
  <1>7. /\ m \in Nat /\ next[r] = m + 1 /\ next'[r] = m + 2
        /\ \A o \in Requests \ {r} : next'[o] = next[o]
    <2>1. next[r] \in 1 .. Len(q) + 1
      BY <1>1 DEF TypeInv, RequestsTyped
    <2>2. next[r] \in Nat /\ next[r] >= 1
      BY <1>6, <2>1
    <2>3. QED
      BY <1>6, <2>2
  <1>8. Exclusive'
    <2>1. \A o \in Requests \ {r} : writes[o][k0][n0] = Absent
      BY <1>2 DEF Blockers
    <2> HIDE DEF u, w, k0, n0
    <2>2. ASSUME NEW o \in Requests \ {r}, NEW k \in Kinds, NEW n \in Names
          PROVE  w[k][n] = Absent \/ writes[o][k][n] = Absent
      BY <1>1, <1>4, <2>1 DEF Exclusive
    <2>3. QED
      BY <1>1, <1>5, <2>2 DEF Exclusive, w
  <1>9. \A i \in 1 .. m + 1 : q[i] \in Calls
    <2>1. \A i \in 1 .. m : q[i] \in Calls
      BY <1>1, <1>7 DEF RowsDone
    <2>2. q[m + 1] \in Calls
      BY <1>2, <1>7
    <2>3. QED
      BY <1>7, <2>1, <2>2
  <1>10. RowsDone'
    <2>1. \A i \in 1 .. next'[r] - 1 : q[i] \in Calls
      BY <1>7, <1>9
    <2>2. QED
      BY <1>1, <1>2, <1>7, <2>1 DEF RowsDone
  <1>11. ASSUME NEW d \in Tables, \A k \in Kinds, n \in Names : w[k][n] # Absent => d[k][n] = db[k][n]
         PROVE  BS!Result(d, Prefix(q, m + 1)) = Over(w, d)
    <2>1. AgreesOn(writes[r], d) /\ d[k0][n0] = db[k0][n0]
      <3> HIDE DEF u, w, k0, n0
      <3>1. QED
        BY <1>3, <1>4, <1>11 DEF AgreesOn
    <2>2. BS!Result(d, Prefix(q, m)) = Over(writes[r], d)
      BY <1>1, <1>2, <2>1 DEF TransactionsTell
    <2>3. BS!Result(d, Prefix(q, m + 1)) = BS!Upsert(Over(writes[r], d), row)
      <3>1. BS!Result(d, Prefix(q, m + 1)) = BS!Upsert(BS!Result(d, Prefix(q, m)), q[m + 1])
        BY <1>7, <1>9, ResultOfNext
      <3>2. q[m + 1] = row
        BY <1>2, <1>7
      <3>3. QED
        BY <2>2, <3>1, <3>2
    <2>4. Over(writes[r], d) \in Tables /\ Over(w, d) \in Tables
      BY <1>3, OverTyped
    <2>5. Over(writes[r], d)[k0][n0] = Current(r, row)
      BY <1>3, <2>1 DEF Over, Current
    <2> DEFINE c == BS!Upsert(Over(writes[r], d), row)
    <2>6. c \in Tables /\ \A k \in Kinds, n \in Names :
            c[k][n] = IF k = k0 /\ n = n0 THEN Upserted(row, Over(writes[r], d)[k][n])
                                          ELSE Over(writes[r], d)[k][n]
      BY <1>2, <2>4, UpsertTyped
    <2>7. \A k \in Kinds, n \in Names :
            Over(w, d)[k][n] = IF k = k0 /\ n = n0 THEN u ELSE Over(writes[r], d)[k][n]
      <3> HIDE DEF u, w, k0, n0
      <3>1. QED
        BY <1>3, <1>4 DEF Over
    <2>8. \A k \in Kinds, n \in Names : c[k][n] = Over(w, d)[k][n]
      BY <2>5, <2>6, <2>7
    <2> HIDE DEF c, w
    <2>9. c = Over(w, d)
      BY <2>4, <2>6, <2>8, SameRows
    <2>10. QED
      BY <2>3, <2>9 DEF c
  <1>12. TransactionsTell'
    <2>1. ASSUME NEW o \in Requests, pc'[o] = "exec", NEW d \in Tables, AgreesOn(writes[o], d)'
          PROVE  BS!Result(d, Prefix(body'[o], next'[o] - 1)) = Over(writes'[o], d)
      <3>1. CASE o = r
        <4>1. \A k \in Kinds, n \in Names : w[k][n] # Absent => d[k][n] = db[k][n]
          BY <1>2, <2>1, <3>1 DEF AgreesOn
        <4>2. next'[o] - 1 = m + 1 /\ body'[o] = q
          BY <1>2, <1>7, <3>1
        <4>3. QED
          BY <1>11, <3>1, <4>1, <4>2
      <3>2. CASE o # r
        <4>1. writes'[o] = writes[o] /\ next'[o] = next[o] /\ pc[o] = "exec" /\ body'[o] = body[o]
          BY <1>2, <1>5, <1>7, <2>1, <3>2
        <4>2. AgreesOn(writes[o], d)
          BY <1>2, <2>1, <4>1 DEF AgreesOn
        <4>3. QED
          BY <1>1, <4>1, <4>2 DEF TransactionsTell
      <3>3. QED
        BY <3>1, <3>2
    <2>2. QED
      BY <2>1 DEF TransactionsTell
  <1>13. QED
    BY <1>8, <1>10, <1>12

\* A request ends, and the database changes at most in rows that no other
\* transaction has written.
LEMMA FinishAtomic ==
  ASSUME AtomicInv, NEW r \in Requests, NEW status, Finish(r, status),
         \A o \in Requests \ {r}, k \in Kinds, n \in Names :
            writes[o][k][n] # Absent => db'[k][n] = db[k][n]
  PROVE  TransactionInv'
  <1>1. TypeInv /\ Exclusive /\ RowsDone /\ TransactionsTell
    BY DEF AtomicInv, TransactionInv
  <1>2. UNCHANGED <<body, conns, route, next>>
    BY DEF Finish
  <1>3. /\ pc' = [pc EXCEPT ![r] = "done"] /\ writes' = [writes EXCEPT ![r] = Nothing]
        /\ writes \in [Requests -> Tables] /\ DOMAIN pc = Requests
    BY <1>1 DEF Finish, TypeInv, RequestsTyped
  <1>4. /\ pc'[r] = "done" /\ writes'[r] = Nothing
        /\ \A o \in Requests \ {r} : pc'[o] = pc[o] /\ writes'[o] = writes[o]
    BY <1>3
  <1>5. \A k \in Kinds, n \in Names : writes'[r][k][n] = Absent
    BY <1>4, NothingTyped
  <1>6. Exclusive'
    <2>1. ASSUME NEW a \in Requests, NEW o \in Requests, a # o, NEW k \in Kinds, NEW n \in Names
          PROVE  writes'[a][k][n] = Absent \/ writes'[o][k][n] = Absent
      <3>1. CASE a = r \/ o = r
        BY <1>5, <3>1
      <3>2. CASE a # r /\ o # r
        BY <1>1, <1>4, <2>1, <3>2 DEF Exclusive
      <3>3. QED
        BY <3>1, <3>2
    <2>2. QED
      BY <2>1 DEF Exclusive
  <1>7. RowsDone'
    BY <1>1, <1>2 DEF RowsDone
  <1>8. TransactionsTell'
    <2>1. ASSUME NEW o \in Requests, pc'[o] = "exec", NEW d \in Tables, AgreesOn(writes[o], d)'
          PROVE  BS!Result(d, Prefix(body'[o], next'[o] - 1)) = Over(writes'[o], d)
      <3>1. o # r /\ writes'[o] = writes[o] /\ pc[o] = "exec"
        BY <1>4, <2>1
      <3>2. AgreesOn(writes[o], d)
        BY <2>1, <3>1 DEF AgreesOn
      <3>3. QED
        BY <1>1, <1>2, <3>1, <3>2 DEF TransactionsTell
    <2>2. QED
      BY <2>1 DEF TransactionsTell
  <1>9. QED
    BY <1>2, <1>4, <1>6, <1>7, <1>8 DEF AtomicInv, TransactionInv, NothingDone

\* The rows a step writes in the database are no other transaction's.
LEMMA WritesAreExclusive ==
  ASSUME AtomicInv, [Next]_vars, NEW r \in Requests, Commit(r) \/ Update(r),
         NEW o \in Requests \ {r}, NEW k \in Kinds, NEW n \in Names, writes[o][k][n] # Absent
  PROVE  db'[k][n] = db[k][n]
  <1>1. TypeInv /\ Exclusive
    BY DEF AtomicInv, TransactionInv
  <1>2. CASE Commit(r)
    <2>1. writes[r][k][n] = Absent
      BY <1>1 DEF Exclusive
    <2>2. QED
      BY <1>2, <2>1 DEF Commit, Committed
  <1>3. CASE Update(r)
    <2>1. next[r] = 1 /\ Len(body[r]) = 1 /\ body[r] \in Bodies /\ pc[r] = "exec"
      BY <1>1, <1>3 DEF TypeInv, RequestsTyped, Update, Runs
    <2>2. next[r] \in DOMAIN body[r]
      BY <2>1, BodyIsSequence
    <2>3. Row(r) \in Calls /\ Blockers(r) = {}
      BY <1>1, <1>3, UpdateRow DEF Update
    <2>4. writes[o][Row(r).kind][Row(r).name] = Absent
      BY <2>1, <2>2, <2>3 DEF Blockers
    <2>5. ~ (k = Row(r).kind /\ n = Row(r).name)
      BY <2>4
    <2>6. QED
      BY <1>1, <1>3, <2>5, UpdateWrites
  <1>4. QED
    BY <1>2, <1>3

LEMMA BeginAtomic ==
  ASSUME AtomicInv, NEW r \in Requests, Begin(r)
  PROVE  Exclusive' /\ RowsDone' /\ TransactionsTell'
  <1>1. TypeInv /\ Exclusive /\ RowsDone /\ TransactionsTell
    BY DEF AtomicInv, TransactionInv
  <1>2. UNCHANGED <<db, body, next, writes>>
    BY DEF Begin
  <1>3. pc' = [pc EXCEPT ![r] = "exec"] /\ pc[r] = "new" /\ next[r] = 1 /\ body[r] = body'[r]
    BY DEF Begin, Runs, AtomicInv, TransactionInv, NothingDone
  <1>4. pc'[r] = "exec" /\ \A o \in Requests \ {r} : pc'[o] = pc[o]
    BY <1>1, <1>3 DEF TypeInv, RequestsTyped
  <1>5. writes[r] = Nothing
    BY <1>1, <1>3 DEF TypeInv, RequestsTyped
  <1>6. TransactionsTell'
    <2>1. ASSUME NEW o \in Requests, pc'[o] = "exec", NEW d \in Tables, AgreesOn(writes[o], d)'
          PROVE  BS!Result(d, Prefix(body[o], next[o] - 1)) = Over(writes[o], d)
      <3>1. CASE o = r
        <4>1. next[o] - 1 = 0 /\ writes[o] = Nothing
          BY <1>3, <1>5, <3>1
        <4>2. QED
          BY <4>1, OverNothing, ResultOfNone
      <3>2. CASE o # r
        <4>1. pc[o] = "exec" /\ AgreesOn(writes[o], d)
          BY <1>2, <1>4, <2>1, <3>2 DEF AgreesOn
        <4>2. QED
          BY <1>1, <4>1 DEF TransactionsTell
      <3>3. QED
        BY <3>1, <3>2
    <2>2. QED
      BY <1>2, <2>1 DEF TransactionsTell
  <1>7. QED
    BY <1>1, <1>2, <1>6 DEF Exclusive, RowsDone

LEMMA CrashAtomic ==
  ASSUME AtomicInv, CrashServer
  PROVE  TransactionInv'
  <1>1. UNCHANGED <<body, route, next>> /\ RowsDone
    BY DEF CrashServer, AtomicInv, TransactionInv
  <1>2. \A o \in Requests : writes'[o] = Nothing /\ pc'[o] # "exec"
                            /\ (pc'[o] = "new" => pc[o] = "new")
    BY DEF CrashServer, AtomicInv, TypeInv, RequestsTyped
  <1>3. Exclusive'
    BY <1>2, NothingTyped DEF Exclusive
  <1>4. RowsDone'
    BY <1>1 DEF RowsDone
  <1>5. TransactionsTell'
    BY <1>2 DEF TransactionsTell
  <1>6. QED
    BY <1>1, <1>2, <1>3, <1>4, <1>5 DEF AtomicInv, TransactionInv, NothingDone

LEMMA AtomicNext == AtomicInv /\ [Next]_vars => AtomicInv'
  <1> SUFFICES ASSUME AtomicInv, [Next]_vars PROVE AtomicInv'
    OBVIOUS
  <1>1. TypeInv' /\ AnswersInv' /\ TypeInv
    BY TypeNext, AnswersNext DEF AtomicInv, TransactionInv
  <1>2. ASSUME NEW r \in Requests, Handler(r) \/ ConnectionBreaks(r), ~Begin(r), ~ExecRow(r)
        PROVE  TransactionInv'
    <2>1. PICK status : Finish(r, status)
      BY <1>2 DEF Handler, ConnectionBreaks, RejectUpdate, BeginFails, UnknownType, ExecFails,
                  Commit, Update
    <2>2. \A o \in Requests \ {r}, k \in Kinds, n \in Names :
            writes[o][k][n] # Absent => db'[k][n] = db[k][n]
      <3>1. CASE Commit(r) \/ Update(r)
        BY <3>1, WritesAreExclusive
      <3>2. CASE ~Commit(r) /\ ~Update(r)
        BY <1>2, <3>2 DEF Handler, ConnectionBreaks, RejectUpdate, BeginFails, UnknownType,
                          ExecFails
      <3>3. QED
        BY <3>1, <3>2
    <2>3. QED
      BY <2>1, <2>2, FinishAtomic
  <1>3. ASSUME NEW r \in Requests, Begin(r)
        PROVE  TransactionInv'
    <2>1. UNCHANGED <<next, route, writes>> /\ \A o \in Requests \ {r} : pc'[o] = pc[o]
      BY <1>1, <1>3 DEF Begin, TypeInv, RequestsTyped
    <2>2. pc'[r] = "exec"
      BY <1>1, <1>3 DEF Begin, TypeInv, RequestsTyped
    <2>3. QED
      BY <1>3, <2>1, <2>2, BeginAtomic DEF AtomicInv, TransactionInv, NothingDone
  <1>4. ASSUME NEW r \in Requests, ExecRow(r)
        PROVE  TransactionInv'
    <2>1. pc' = pc /\ pc[r] = "exec" /\ route[r] = "batch" /\ route' = route
      BY <1>4 DEF ExecRow, Runs
    <2>2. writes \in [Requests -> Tables] /\ writes' = [writes EXCEPT ![r] = writes'[r]]
      BY <1>1, <1>4, ExecRowWrites DEF TypeInv, RequestsTyped
    <2>3. next \in [Requests -> Nat] /\ next' = [next EXCEPT ![r] = next[r] + 1]
      BY <1>1, <1>4 DEF ExecRow, TypeInv, RequestsTyped
    <2>4. \A o \in Requests \ {r} : writes'[o] = writes[o] /\ next'[o] = next[o]
      BY <2>2, <2>3
    <2>5. QED
      BY <1>4, <2>1, <2>4, ExecRowAtomic DEF AtomicInv, TransactionInv, NothingDone
  <1>5. ASSUME CrashServer PROVE TransactionInv'
    BY <1>5, CrashAtomic
  <1>6. ASSUME \/ StartOfServer \/ StopServer \/ ClosePoolOfServer \/ LeaveServer
               \/ RestartServer \/ UNCHANGED vars
        PROVE  TransactionInv'
    <2>1. UNCHANGED batchVars
      BY <1>6 DEF StartOfServer, Migrated, StopServer, ClosePoolOfServer, LeaveServer,
                  RestartServer, vars, batchVars
    <2>2. UNCHANGED <<db, body, pc, route, next, writes>>
      BY <2>1 DEF batchVars
    <2>3. Exclusive' /\ RowsDone'
      BY <2>2 DEF AtomicInv, TransactionInv, Exclusive, RowsDone
    <2>4. TransactionsTell'
      <3>1. TransactionsTell
        BY DEF AtomicInv, TransactionInv
      <3>2. QED
        BY <2>2, <3>1 DEF TransactionsTell, AgreesOn
    <2>5. NothingDone'
      BY <2>2 DEF AtomicInv, TransactionInv, NothingDone
    <2>6. QED
      BY <2>3, <2>4, <2>5 DEF TransactionInv
  <1>7. TransactionInv'
    <2>1. ASSUME \E r \in Requests : Handler(r) \/ ConnectionBreaks(r)
          PROVE  TransactionInv'
      BY <1>2, <1>3, <1>4, <2>1
    <2>2. QED
      BY <1>5, <1>6, <2>1 DEF Next
  <1>8. QED
    BY <1>1, <1>7 DEF AtomicInv, TransactionInv

\* A commit is BatchStore's step for the whole batch, an update for its row;
\* every other step leaves what BatchStore sees alone.
LEMMA AtomicStep ==
  ASSUME AtomicInv, [Next]_vars
  PROVE  [BS!Next]_BS!storeVars
  <1>1. TypeInv /\ TypeInv' /\ AnswersInv /\ RowsDone /\ TransactionsTell
    BY TypeNext DEF AtomicInv, TransactionInv
  <1>2. ASSUME NEW r \in Requests, Commit(r)
        PROVE  BS!Apply(r)
    <2>1. /\ pc[r] = "exec" /\ next[r] = Len(body[r]) + 1 /\ db' = Over(writes[r], db)
          /\ applied' = applied \cup {r} /\ UNCHANGED body
      BY <1>2 DEF Commit, Runs, Committed, Over, Finish
    <2>2. r \notin applied
      BY <1>1, <2>1 DEF AnswersInv
    <2>3. body[r] \in Bodies /\ db \in Tables
      BY <1>1 DEF TypeInv, RequestsTyped, StoreTyped
    <2>4. next[r] - 1 = Len(body[r]) /\ DOMAIN body[r] = 1 .. Len(body[r])
      BY <2>1, <2>3, BodyIsSequence
    <2>5. \A i \in DOMAIN body[r] : body[r][i] \in BS!Calls
      BY <1>1, <2>4, SameCalls DEF RowsDone
    <2>6. BS!Result(db, Prefix(body[r], next[r] - 1)) = Over(writes[r], db)
      BY <1>1, <2>1, <2>3 DEF TransactionsTell, AgreesOn
    <2>7. Prefix(body[r], next[r] - 1) = body[r]
      BY <2>3, <2>4, WholePrefix
    <2>8. QED
      BY <2>1, <2>2, <2>5, <2>6, <2>7 DEF BS!Apply
  <1>3. ASSUME NEW r \in Requests, Update(r)
        PROVE  BS!Apply(r)
    <2>1. /\ pc[r] = "exec" /\ applied' = applied \cup {r} /\ UNCHANGED body
      BY <1>3 DEF Update, Runs, Finish
    <2>2. r \notin applied
      BY <1>1, <2>1 DEF AnswersInv
    <2>3. body[r] \in Bodies /\ db \in Tables /\ db' \in Tables
          /\ Len(body[r]) = 1 /\ next[r] = 1
      BY <1>1, <1>3 DEF TypeInv, RequestsTyped, StoreTyped, Update
    <2>4. DOMAIN body[r] = 1 .. 1 /\ Row(r) = body[r][1] /\ Row(r) \in Calls
      BY <1>1, <1>3, <2>3, BodyIsSequence, UpdateRow DEF Row
    <2>5. \A i \in DOMAIN body[r] : body[r][i] \in BS!Calls
      BY <2>4, SameCalls
    <2>6. BS!Result(db, body[r]) = BS!Upsert(db, Row(r))
      <3>1. Prefix(body[r], 0 + 1) = body[r]
        <4>1. Prefix(body[r], Len(body[r])) = body[r]
          BY <2>3, WholePrefix
        <4>2. QED
          BY <2>3, <4>1
      <3>2. \A i \in 1 .. 0 + 1 : body[r][i] \in Calls
        BY <2>4
      <3>3. BS!Result(db, Prefix(body[r], 0 + 1)) =
              BS!Upsert(BS!Result(db, Prefix(body[r], 0)), body[r][0 + 1])
        BY <2>3, <3>2, ResultOfNext
      <3>4. BS!Result(db, Prefix(body[r], 0)) = db
        BY <2>3, ResultOfNone
      <3>5. QED
        BY <2>4, <3>1, <3>3, <3>4
    <2>7. db' = BS!Upsert(db, Row(r))
      <3> DEFINE c == BS!Upsert(db, Row(r))
      <3>1. c \in Tables /\ \A k \in Kinds, n \in Names :
              c[k][n] = IF k = Row(r).kind /\ n = Row(r).name
                        THEN Upserted(Row(r), db[k][n]) ELSE db[k][n]
        BY <2>3, <2>4, UpsertTyped
      <3>2. \A k \in Kinds, n \in Names : db'[k][n] = c[k][n]
        BY <1>1, <1>3, <3>1, UpdateWrites
      <3> HIDE DEF c
      <3>3. db' = c
        BY <2>3, <3>1, <3>2, SameRows
      <3>4. QED
        BY <3>3 DEF c
    <2>8. QED
      BY <2>1, <2>2, <2>5, <2>6, <2>7 DEF BS!Apply
  <1>4. CASE ~ \E r \in Requests : Commit(r) \/ Update(r)
    BY <1>4, OnlyTwoWrite DEF BS!storeVars
  <1>5. QED
    BY <1>2, <1>3, <1>4 DEF BS!Next

\* Whatever transactions, single updates, deadlocks, crashes and restarts do,
\* the database goes through the states in which whole requests have taken
\* effect one after the other: the server implements BatchStore
\* (handlers.go:304, the transaction).
THEOREM BatchesAreAlwaysAtomic == Spec => BatchesAreAtomic
  <1>1. Spec => [][BS!Next]_BS!storeVars
    BY AtomicInit, AtomicNext, AtomicStep, PTL DEF Spec
  <1>2. QED
    BY <1>1, AtomicInit, PTL DEF Spec, BatchesAreAtomic, BS!Spec
=============================================================================
