----------------------------- MODULE Migrations -----------------------------
(***************************************************************************)
(* The life of the server in the database mode:                            *)
(* internal/repository/postgres.go, and the parts of RunHTTPServer         *)
(* (internal/server/server.go) that open and close the database.           *)
(*                                                                         *)
(* Every start connects, creates the tables of the metrics in a            *)
(* transaction if the table "migrations" does not say it was done, closes  *)
(* that pool and opens another one for the handlers.  The errors are       *)
(* logged and the start goes on.                                           *)
(***************************************************************************)
EXTENDS Integers, Sequences, SequencesExt

CONSTANTS
    MaxStarts,   \* bound: starts of the server
    MaxCrashes,  \* bound: crashes
    MaxFaults    \* bound: operations on the database or the file that fail

ASSUME MigrationBoundAssumption == {MaxStarts, MaxCrashes, MaxFaults} \subseteq Nat

VARIABLES
    phase,       \* where the goroutine of RunHTTPServer is
    exists,      \* local: whether the table "migrations" was there
    repository,  \* "nil" once NewPostgresRepository has failed
    pool,        \* the handlers' pool: "none", "open", "nil" or "closed"
    journal,     \* the database: the table "migrations", or NoTable
    tables,      \* the database: the tables of the metrics exist
    life         \* counts of starts, crashes, faults

migrationVars == <<phase, exists, repository, pool, journal, tables, life>>

NoTable == <<"no table">>

\* The name the migration is looked up by is not the one it is recorded under:
\* every start applies it again.
CheckedName  == "000001_create_metrics_table"
RecordedName == "migrations/000001_create_metrics_table.up.sql"

MigrationInit ==
    /\ phase = "down" /\ exists = FALSE
    /\ repository = "none" /\ pool = "none"
    /\ journal = NoTable /\ tables = FALSE
    /\ life = [starts |-> 0, crashes |-> 0, faults |-> 0]

Faulty     == life.faults < MaxFaults
CountFault == life' = [life EXCEPT !.faults = @ + 1]

StartServer ==
    /\ phase = "down" /\ life.starts < MaxStarts
    /\ phase' = "connect"
    /\ repository' = "none" /\ pool' = "none"
    /\ life' = [life EXCEPT !.starts = @ + 1]
    /\ UNCHANGED <<exists, journal, tables>>

\* GetConnection in NewPostgresRepository: a new pool, and a ping.
Connect ==
    /\ phase = "connect"
    /\ phase' = "look"
    /\ UNCHANGED <<exists, repository, pool, journal, tables, life>>

\* GetConnection returns nil for the pool and for cancel, the error is only
\* logged, and the first query on the pool is a nil dereference: the process
\* ends.
ConnectFails ==
    /\ phase = "connect" /\ Faulty
    /\ phase' = "panicked"
    /\ CountFault
    /\ UNCHANGED <<exists, repository, pool, journal, tables>>

LookForTable ==
    /\ phase = "look"
    /\ exists' = (journal # NoTable)
    /\ phase' = "create"
    /\ UNCHANGED <<repository, pool, journal, tables, life>>

\* CREATE TABLE migrations, outside of the transaction below.
CreateJournal ==
    /\ phase = "create"
    /\ journal' = IF exists THEN journal ELSE <<>>
    /\ phase' = "check"
    /\ UNCHANGED <<exists, repository, pool, tables, life>>

CheckApplied ==
    /\ phase = "check"
    /\ phase' = IF Contains(journal, CheckedName) THEN "reconnect" ELSE "exec"
    /\ UNCHANGED <<exists, repository, pool, journal, tables, life>>

\* Mutant of ExecMigration: the statements run on the pool, not in the
\* transaction.
ExecMigrationOnPool ==
    /\ phase = "exec"
    /\ tables' = TRUE
    /\ phase' = "commit"
    /\ UNCHANGED <<exists, repository, pool, journal, life>>

\* The file is read, and its statements and the INSERT into the journal run in
\* a transaction: nothing shows before the commit.
ExecMigration ==
    /\ phase = "exec"
    /\ phase' = "commit"
    /\ UNCHANGED <<exists, repository, pool, journal, tables, life>>

\* All statements of the file are IF NOT EXISTS.  The database may commit and
\* its reply be lost: an error for the start.
CommitMigration ==
    /\ phase = "commit"
    /\ tables' = TRUE
    /\ journal' = Append(journal, RecordedName)
    /\ phase' = "reconnect"
    /\ \/ UNCHANGED <<repository, life>>
       \/ Faulty /\ repository' = "nil" /\ CountFault
    /\ UNCHANGED <<exists, pool>>

\* A query or the transaction fails, or the file is not there (its path is
\* relative): the transaction is rolled back and the start goes on.
MigrationFails ==
    /\ phase \in {"look", "create", "check", "exec", "commit"} /\ Faulty
    /\ repository' = "nil"
    /\ phase' = "reconnect"
    /\ CountFault
    /\ UNCHANGED <<exists, pool, journal, tables>>

\* The second GetConnection; a failure is logged.
Serve ==
    /\ phase = "reconnect"
    /\ \/ pool' = "open" /\ UNCHANGED life
       \/ pool' = "nil" /\ Faulty /\ CountFault
    /\ repository' = IF repository = "nil" THEN "nil" ELSE "closed"
    /\ phase' = "serving"
    /\ UNCHANGED <<exists, journal, tables>>

\* The signal: server.Close, ListenAndServe returns, the deferred calls begin.
Stop ==
    /\ phase = "serving"
    /\ phase' = "closing"
    /\ UNCHANGED <<exists, repository, pool, journal, tables, life>>

\* The deferred pool.Close: no connection is given out any more.  It waits
\* for those in use.
ClosePool ==
    /\ phase = "closing" /\ pool = "open"
    /\ pool' = "closed"
    /\ UNCHANGED <<phase, exists, repository, journal, tables, life>>

\* The deferred p.Close does nothing, as the pool is closed already.  On nil
\* it panics, as pool.Close does.
Leave ==
    /\ phase = "closing" /\ pool \in {"closed", "nil"}
    /\ phase' = IF "nil" \in {repository, pool} THEN "panicked" ELSE "exited"
    /\ UNCHANGED <<exists, repository, pool, journal, tables, life>>

Crash ==
    /\ phase \notin {"down", "panicked", "exited"} /\ life.crashes < MaxCrashes
    /\ phase' = "panicked"
    /\ life' = [life EXCEPT !.crashes = @ + 1]
    /\ UNCHANGED <<exists, repository, pool, journal, tables>>

\* The operator starts the server again.
Restart ==
    /\ phase \in {"panicked", "exited"} /\ life.starts < MaxStarts
    /\ phase' = "down"
    /\ UNCHANGED <<exists, repository, pool, journal, tables, life>>

\* The steps of a start that leave the tables of the metrics alone.
StartStep ==
    \/ StartServer \/ Connect \/ ConnectFails \/ LookForTable \/ CreateJournal
    \/ CheckApplied \/ ExecMigration \/ MigrationFails \/ Serve

-----------------------------------------------------------------------------

\* The journal and the tables agree at every moment, so a crash anywhere in
\* the migration leaves a database the next start can complete
\* (postgres.go:177, one transaction for the statements and the record).
JournalTellsTheTables == tables <=> journal \notin {NoTable, <<>>}
=============================================================================
