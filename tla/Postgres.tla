------------------------------ MODULE Postgres ------------------------------
(***************************************************************************)
(* The database mode of the server: the handlers PostUpdatePostgres,       *)
(* PostValue and UpdatesGaugesBatchPostgres (internal/handler/handlers.go) *)
(* on top of the server's life (Migrations).                               *)
(*                                                                         *)
(* A batch runs in a transaction that a deferred Rollback ends on every    *)
(* early return.  PostgreSQL (external) locks a row from the statement     *)
(* that writes it to the end of the transaction, makes other writers wait  *)
(* and aborts a transaction that waits in a cycle.  A single update is one *)
(* statement on a connection of the pool.                                  *)
(***************************************************************************)
EXTENDS Migrations, Metrics, FiniteSets

CONSTANTS
    Requests,   \* requests: one handler call each
    Bodies,     \* sequences of rows
    MaxConns    \* bound: connections of the handlers' pool

ASSUME MaxConnsAssumption == MaxConns \in Nat \ {0}
\* A body is a sequence; nothing is said of its rows.
ASSUME BodiesAssumption == \A b \in Bodies : b \in Seq({b[i] : i \in DOMAIN b})

VARIABLES
    db,        \* db[kind][name]: the committed values, or Absent
    body,      \* body[r]: the rows request r carries
    conns,     \* the size of the handlers' pool (the DSN's pool_max_conns)
    pc,        \* pc[r]: "new", "exec" (at row next[r]), "done", "cut"
    route,     \* route[r]: "batch" or "update"
    next,      \* next[r]: the row whose statement is running
    inUse,     \* the requests that hold a connection of the pool
    writes,    \* writes[r]: the rows r's open transaction has written
    answer,    \* answer[r]: the status, 0 before
    applied    \* history: the requests whose rows are in the database

batchVars == <<db, body, conns, pc, route, next, inUse, writes, answer, applied>>
vars == <<migrationVars, batchVars>>

Nothing == [k \in Kinds |-> [n \in Names |-> Absent]]

Init ==
    /\ MigrationInit
    /\ db = Nothing /\ body \in [Requests -> Bodies]
    /\ conns \in 1 .. MaxConns
    /\ pc = [r \in Requests |-> "new"]
    /\ route \in [Requests -> {"batch", "update"}]
    /\ \A r \in Requests : route[r] = "update" => Len(body[r]) = 1
    /\ next = [r \in Requests |-> 1]
    /\ inUse = {}
    /\ writes = [r \in Requests |-> Nothing]
    /\ answer = [r \in Requests |-> 0]
    /\ applied = {}

-----------------------------------------------------------------------------
(* PostgreSQL.                                                             *)

Row(r) == body[r][next[r]]

\* The rows of "value" and "delta" are NOT NULL, a counter is a BIGINT: a
\* statement with NULL or with a sum out of range fails.
InRange(row, old) ==
    row.kind = "counter" /\ old # Absent =>
        old + row.value \in -HalfRange .. HalfRange - 1

Upserted(row, old) == IF old = Absent THEN row.value ELSE Combine(row.kind, old, row.value)

\* What r's transaction sees in the row it writes, its lock taken.
Current(r, row) ==
    IF writes[r][row.kind][row.name] # Absent THEN writes[r][row.kind][row.name]
                                              ELSE db[row.kind][row.name]

\* The transactions that have written the row r wants to write.
Blockers(r) ==
    IF pc[r] = "exec" /\ next[r] \in DOMAIN body[r] /\ Row(r) \in Calls
    THEN {o \in Requests \ {r} : writes[o][Row(r).kind][Row(r).name] # Absent}
    ELSE {}

\* r waits in a cycle of transactions.
InCycle(r) ==
    \E S \in SUBSET Requests :
        /\ r \in S
        /\ \A s \in S : /\ \E o \in S : s \in Blockers(o)
                        /\ Blockers(s) # {} /\ Blockers(s) \subseteq S

-----------------------------------------------------------------------------
(* The handlers.                                                           *)

\* The handler answers; a connection goes back to the pool, a transaction
\* that has not been committed is rolled back (the deferred tx.Rollback).
\* Mutant of Finish: no deferred Rollback.
FinishLeaks(r, status) ==
    /\ pc' = [pc EXCEPT ![r] = "done"]
    /\ answer' = [answer EXCEPT ![r] = status]
    /\ IF status = 200
       THEN writes' = [writes EXCEPT ![r] = Nothing] /\ inUse' = inUse \ {r}
       ELSE UNCHANGED <<writes, inUse>>
    /\ UNCHANGED <<body, conns, route, next>>

\* Mutant of Finish: the connection goes back with its transaction open.
FinishReturnsOpen(r, status) ==
    /\ pc' = [pc EXCEPT ![r] = "done"]
    /\ answer' = [answer EXCEPT ![r] = status]
    /\ inUse' = inUse \ {r}
    /\ UNCHANGED <<writes, body, conns, route, next>>

Finish(r, status) ==
    /\ pc' = [pc EXCEPT ![r] = "done"]
    /\ answer' = [answer EXCEPT ![r] = status]
    /\ writes' = [writes EXCEPT ![r] = Nothing]
    /\ inUse' = inUse \ {r}
    /\ UNCHANGED <<body, conns, route, next>>

\* r's handler runs: also after server.Close, until the process ends.
Runs(r, at) == phase \in {"serving", "closing"} /\ pc[r] = at

\* A request whose single row has a missing value or an unknown type is
\* answered before the database is asked; the batch handler looks at its rows
\* later.
RejectUpdate(r) ==
    /\ Runs(r, "new")
    /\ route[r] = "update" /\ body[r][1] \notin Calls
    /\ Finish(r, 400)
    /\ UNCHANGED <<migrationVars, db, applied>>

\* connectionPool.Begin and the two Prepares, or the connection for a single
\* Exec.  Waits for a free connection.
Begin(r) ==
    /\ Runs(r, "new") /\ pool = "open"
    /\ route[r] = "update" => body[r][1] \in Calls
    /\ Cardinality(inUse) < conns
    /\ tables
    /\ pc' = [pc EXCEPT ![r] = "exec"]
    /\ inUse' = inUse \cup {r}
    /\ UNCHANGED <<migrationVars, db, body, conns, route, next, writes, answer, applied>>

\* No connection is to be had, or Prepare (Exec) finds no table.  A pool that
\* is nil panics: net/http cuts the connection.
BeginFails(r) ==
    /\ Runs(r, "new")
    /\ route[r] = "update" => body[r][1] \in Calls
    /\ \/ pool = "closed" /\ Finish(r, 500)
       \/ pool = "open" /\ ~tables /\ Finish(r, 500)
       \/ pool = "nil" /\ Finish(r, 0)
    /\ UNCHANGED <<migrationVars, db, applied>>

\* One tx.Exec: the upsert of a row that no other transaction has written.
\* Mutant of ExecRow: the statement runs on the pool, not in the transaction.
ExecRowOnPool(r) ==
    /\ Runs(r, "exec") /\ route[r] = "batch"
    /\ next[r] \in DOMAIN body[r] /\ Row(r) \in Calls
    /\ InRange(Row(r), db[Row(r).kind][Row(r).name])
    /\ db' = [db EXCEPT ![Row(r).kind][Row(r).name] = Upserted(Row(r), @)]
    /\ next' = [next EXCEPT ![r] = @ + 1]
    /\ UNCHANGED <<migrationVars, body, conns, pc, route, inUse, writes, answer, applied>>

ExecRow(r) ==
    /\ Runs(r, "exec") /\ route[r] = "batch"
    /\ next[r] \in DOMAIN body[r] /\ Row(r) \in Calls /\ Blockers(r) = {}
    /\ LET old == Current(r, Row(r))
       IN  /\ InRange(Row(r), old)
           /\ writes' = [writes EXCEPT ![r][Row(r).kind][Row(r).name] =
                            Upserted(Row(r), old)]
    /\ next' = [next EXCEPT ![r] = @ + 1]
    /\ UNCHANGED <<migrationVars, db, body, conns, pc, route, inUse, answer, applied>>

\* A row of an unknown type: 400, and what was written before is undone.
UnknownType(r) ==
    /\ Runs(r, "exec") /\ route[r] = "batch"
    /\ next[r] \in DOMAIN body[r] /\ Row(r).kind \notin Kinds
    /\ Finish(r, 400)
    /\ UNCHANGED <<migrationVars, db, applied>>

\* A row without a value, a sum out of range, or a deadlock: 500.
ExecFails(r) ==
    /\ Runs(r, "exec")
    /\ next[r] \in DOMAIN body[r] /\ Row(r).kind \in Kinds
    /\ \/ Row(r) \notin Calls
       \/ /\ Row(r) \in Calls /\ Blockers(r) = {}
          /\ ~InRange(Row(r), Current(r, Row(r)))
       \/ InCycle(r)
    /\ Finish(r, 500)
    /\ UNCHANGED <<migrationVars, db, applied>>

\* The connection breaks: the transaction is gone.
ConnectionBreaks(r) ==
    /\ Runs(r, "exec") /\ Faulty /\ CountFault
    /\ Finish(r, 500)
    /\ UNCHANGED <<phase, exists, repository, pool, journal, tables, db, applied>>

Committed(r) ==
    [k \in Kinds |-> [n \in Names |->
        IF writes[r][k][n] # Absent THEN writes[r][k][n] ELSE db[k][n]]]

\* Mutant of Commit: the answer is 200 whatever Commit returns.
CommitAnswers200(r) ==
    /\ Runs(r, "exec") /\ route[r] = "batch" /\ next[r] = Len(body[r]) + 1
    /\ Finish(r, 200)
    /\ \/ db' = Committed(r) /\ applied' = applied \cup {r} /\ UNCHANGED life
       \/ Faulty /\ CountFault /\ UNCHANGED <<db, applied>>
    /\ UNCHANGED <<phase, exists, repository, pool, journal, tables>>

Commit(r) ==
    /\ Runs(r, "exec") /\ route[r] = "batch" /\ next[r] = Len(body[r]) + 1
    /\ db' = Committed(r)
    /\ applied' = applied \cup {r}
    /\ \/ Finish(r, 200) /\ UNCHANGED life
       \/ Faulty /\ CountFault /\ Finish(r, 500)  \* the reply of the database is lost
    /\ UNCHANGED <<phase, exists, repository, pool, journal, tables>>

\* PostUpdatePostgres: one upsert that commits by itself.
Update(r) ==
    /\ Runs(r, "exec") /\ route[r] = "update" /\ Blockers(r) = {}
    /\ InRange(Row(r), db[Row(r).kind][Row(r).name])
    /\ db' = [db EXCEPT ![Row(r).kind][Row(r).name] = Upserted(Row(r), @)]
    /\ applied' = applied \cup {r}
    /\ \/ Finish(r, 200) /\ UNCHANGED life
       \/ Faulty /\ CountFault /\ Finish(r, 500)
    /\ UNCHANGED <<phase, exists, repository, pool, journal, tables>>

Handler(r) ==
    \/ RejectUpdate(r) \/ Begin(r) \/ BeginFails(r) \/ ExecRow(r)
    \/ UnknownType(r) \/ ExecFails(r) \/ Commit(r) \/ Update(r)

-----------------------------------------------------------------------------
(* The server.                                                             *)

\* pool.Close returns when every connection is back.
LeaveServer == (pool = "closed" => inUse = {}) /\ Leave /\ UNCHANGED batchVars

\* The process ends: PostgreSQL rolls back what was open.
CrashServer ==
    /\ Crash
    /\ pc' = [r \in Requests |-> IF pc[r] = "exec" THEN "cut" ELSE pc[r]]
    /\ inUse' = {} /\ writes' = [r \in Requests |-> Nothing]
    /\ UNCHANGED <<db, body, conns, route, next, answer, applied>>

\* Mutant of Migrated: the tables are dropped and created.
DroppedAndCreated == Nothing

\* The migration's CREATE TABLE IF NOT EXISTS leaves the rows that are there.
Migrated == db

StartOfServer ==
    /\ \/ StartStep /\ UNCHANGED db
       \/ CommitMigration /\ db' = Migrated
    /\ UNCHANGED <<body, conns, pc, route, next, inUse, writes, answer, applied>>

StopServer        == Stop /\ UNCHANGED batchVars
ClosePoolOfServer == ClosePool /\ UNCHANGED batchVars
RestartServer     == Restart /\ UNCHANGED batchVars

Next ==
    \/ StartOfServer \/ StopServer \/ ClosePoolOfServer \/ LeaveServer
    \/ CrashServer \/ RestartServer
    \/ \E r \in Requests : Handler(r) \/ ConnectionBreaks(r)

Spec == Init /\ [][Next]_vars

\* The goroutines run, statements end, and PostgreSQL finds deadlocks.
FairSpec ==
    /\ Spec
    /\ WF_vars(StartOfServer) /\ WF_vars(ClosePoolOfServer)
    /\ WF_vars(LeaveServer)
    /\ \A r \in Requests : WF_vars(Handler(r))

-----------------------------------------------------------------------------
(* Properties.                                                             *)

Phases == {"down", "connect", "look", "create", "check", "exec", "commit",
           "reconnect", "serving", "closing", "exited", "panicked"}

\* Every variable has its type; a transaction is open only while its request
\* holds one of the pool's connections (handlers.go:309, the deferred Rollback).
TypeOK ==
    /\ phase \in Phases
    /\ pool \in {"none", "open", "nil", "closed"}
    /\ tables \in BOOLEAN /\ exists \in BOOLEAN
    /\ \A k \in Kinds, n \in Names : db[k][n] \in Values(k) \cup {Absent}
    /\ \A r \in Requests :
          /\ next[r] \in 1 .. Len(body[r]) + 1
          /\ answer[r] \in {0, 200, 400, 500}
          /\ pc[r] \in {"new", "exec", "done", "cut"}
          /\ writes[r] # Nothing => r \in inUse
    /\ Cardinality(inUse) <= conns
    /\ applied \subseteq Requests

\* Whatever transactions, single updates, deadlocks, crashes and restarts do,
\* the database goes through the states in which whole requests have taken
\* effect one after the other (handlers.go:304, the transaction).
BS == INSTANCE BatchStore

BatchesAreAtomic == BS!Spec

\* An answer of 200 says that the rows are in the database, one of 400 that
\* they are not; a 500 leaves it open (handlers.go:349, the error of Commit).
AnswersTellTheEffect ==
    \A r \in Requests : /\ answer[r] = 200 => r \in applied
                        /\ answer[r] = 400 => r \notin applied

\* A metric that is in the database stays there: no later start, migration or
\* batch makes it disappear (the migration's SQL, postgres.go:190).
MetricsStay ==
    [][\A k \in Kinds, n \in Names : db[k][n] # Absent => db'[k][n] # Absent]_vars

\* r's handler has been called and has not returned: it waits for a connection
\* of the pool, or for a row, or works.
InHandler(r) == Runs(r, "new") \/ Runs(r, "exec")

\* While the server runs every request is answered or cut off: none waits for
\* ever for a connection or for a row, whatever became of the request that held
\* them (handlers.go:304, Begin; :309, the deferred Rollback).
RequestsEnd == \A r \in Requests :
    InHandler(r) ~> pc[r] \in {"done", "cut"} \/ phase \notin {"serving", "closing"}

\* Once the server has been told to stop it ends, however many transactions
\* were open: pool.Close waits only for those (server.go:65).
StopEnds == phase = "closing" ~> phase \in {"exited", "panicked"}
=============================================================================
