------------------------------- MODULE Backup -------------------------------
(***************************************************************************)
(* The life of the server's data in the in-memory mode:                    *)
(* internal/repository/backup.go, cmd/server/main.go, and the update       *)
(* handlers of internal/handler/handlers.go.                               *)
(*                                                                         *)
(* Clients update the storage.  Three goroutines rewrite the backup file   *)
(* with the same function, performBackup: the periodic backup, the final   *)
(* backup and main itself, the last two as soon as the shutdown signal     *)
(* arrives.  performBackup's mutex is a local variable, so nothing orders  *)
(* them.  With StoreInterval = 0 there is no periodic backup; instead the  *)
(* handler of /update appends each update to the file.                     *)
(*                                                                         *)
(* AddGauge and AddCounter are atomic for one another (MemStorage          *)
(* implements MetricStore), but performBackup reads the slices without     *)
(* their lock.  It can find a row whose words append has not stored yet,   *)
(* and the length of the slice with the pointer to an older, shorter       *)
(* array.                                                                  *)
(*                                                                         *)
(* A file is represented by the storage a restore of it builds:            *)
(* RestoreFromBackup replays the lines in order with AddGauge and          *)
(* AddCounter, so appending a line to the file is adding the metric to     *)
(* that storage.                                                           *)
(***************************************************************************)
EXTENDS Metrics, Sequences, FiniteSets, FiniteSetsExt

CONSTANTS
    Clients,      \* HTTP clients, one request each at a time
    Unnamed,      \* the empty name, the zero value of a row's name
    SyncMode,     \* StoreInterval = 0
    Restore,      \* the restore flag
    Routes,       \* the update routes in use, out of AllRoutes
    Unencodable,  \* gauge values JSON has no form for: NaN, +Inf, -Inf
    Earlier,      \* what the file may hold before the first start
    periodic, final, main,  \* the goroutines that back up
    FileIds,      \* names for files (inodes)
    NoFile,
    Budgets       \* bounds: how many updates, shutdown signals, crashes, starts
                  \* of the server and failing file operations a behaviour has

AllRoutes == {"update",    \* POST /update
              "updates",   \* POST /updates
              "url"}       \* POST /update/{metric}/{name}/{value}

ASSUME ModeAssumption == SyncMode \in BOOLEAN /\ Restore \in BOOLEAN
ASSUME NameAssumption == Unnamed \in Names
ASSUME RouteAssumption == Routes \subseteq AllRoutes
ASSUME FileAssumption == NoFile \notin FileIds /\ FileIds # {}
ASSUME UnencodableAssumption == \A v \in Unencodable : v \notin Int
ASSUME BackupBoundAssumption ==
    Budgets \subseteq [{"updates", "signals", "crashes", "starts", "faults"} -> Nat]

\* RunPeriodicBackupWithContext, RunFinalBackupWithContext, and main.
Backupers == {periodic, final, main}

ASSUME BackupersAssumption == periodic \notin {final, main} /\ final # main

VARIABLES
    running,    \* the server process exists
    ctxDone,    \* the shutdown signal has arrived
    listening,  \* the HTTP server accepts requests
    rows,       \* the storage: rows[k] is the slice of kind k
    filling,    \* the words of the last row of a slice that append has still
                \* to store; its handler holds the mutex meanwhile
    files,      \* files[f]: what a restore of file f builds, and whether its
                \* last line is torn (nothing after it can be restored)
    cur,        \* the file the configured path leads to, or NoFile
    old,        \* the file at the path with "_old" appended
    producer,   \* the Producer that main opens and the handlers share
    job,        \* job[b]: where b is in performBackup, and its local variables
    request,    \* request[c]: c's update that is in memory, not yet in the file
    good,       \* history: the latest complete backup: the file an earlier run
                \* left, or that of a backup that ended before the signal
    begun,      \* history: the backups begun since then (0, 1, or 2: more)
    wild,       \* history: a backup has copied what is no row of the storage
    atSignal,   \* history: the rows of the storage when the signal arrived
    since,      \* history: the values each metric had since the signal
    had,        \* history: the values each metric had in memory, in any run
    bounds,     \* counts of updates, signals, crashes, starts, faults
    budget      \* their limits in this behaviour

vars == <<running, ctxDone, listening, rows, files, cur, old, producer, job,
          request, good, atSignal, since, had, bounds, budget, filling, begun, wild>>

\* One more event of the kind may happen; it happens.
Allowed(kind) == bounds[kind] < budget[kind]
Count(kind)   == /\ bounds' = [bounds EXCEPT ![kind] = @ + 1]
                 /\ UNCHANGED budget

-----------------------------------------------------------------------------
(* The storage.                                                            *)

\* AddGauge and AddCounter keep one row per metric (MemStorage: NamesUnique).
Storages == {r \in [Kinds -> Seq([name : Names, value : Int \cup GaugeValues])] :
                \A k \in Kinds : \A i \in DOMAIN r[k] :
                    /\ r[k][i].value \in Values(k)
                    /\ \A j \in DOMAIN r[k] : r[k][i].name = r[k][j].name => i = j}

ASSUME EarlierAssumption == Earlier \subseteq Storages

Empty == [k \in Kinds |-> <<>>]

Position(r, k, n) == {i \in DOMAIN r[k] : r[k][i].name = n}

\* AddGauge / AddCounter on the rows r.
Add(r, k, n, v) ==
    LET hits == Position(r, k, n)
    IN  IF hits = {}
        THEN [r EXCEPT ![k] = Append(@, [name |-> n, value |-> v])]
        ELSE [r EXCEPT ![k] = [i \in DOMAIN r[k] |->
                 IF i \in hits THEN [r[k][i] EXCEPT !.value = Combine(k, @, v)]
                               ELSE r[k][i]]]

Lookup(r, k, n) ==
    LET hits == Position(r, k, n)
    IN  IF hits = {} THEN Absent ELSE r[k][CHOOSE i \in hits : TRUE].value

\* No row is being appended.
Filled == [kind |-> "gauge", todo |-> {}]

\* Row i of kind k is not one whose words are still being stored.
IsFilled(k, i) == filling.todo = {} \/ k # filling.kind \/ i # Len(rows[k])

\* The rows that are complete.
Finished == [k \in Kinds |-> IF IsFilled(k, Len(rows[k])) THEN rows[k]
                             ELSE SubSeq(rows[k], 1, Len(rows[k]) - 1)]

\* The backing array of a slice with len rows has no room for another one.
ArrayFull(len) == len = 0 \/ \E e \in 0 .. len : len = 2^e

-----------------------------------------------------------------------------
(* Files.                                                                  *)

NewFile == [rows |-> Empty, torn |-> FALSE]

\* A line appended to file f.  ReadEvent fails at the first line that is not
\* JSON, and RestoreFromBackup ends there.
Line(f, k, n, v) ==
    IF files[f].torn THEN files
    ELSE [files EXCEPT ![f].rows = Add(@, k, n, v)]

\* A write that fails (a full disk) leaves nothing or the first part of a line.
PartOfLine(f) == {files, [files EXCEPT ![f].torn = TRUE]}

InUse == {cur, old, producer.file} \cup {job[b].file : b \in Backupers}

\* OpenFile(path, O_CREATE): the file the path leads to, or a new one.
Opened == IF cur # NoFile THEN cur ELSE CHOOSE f \in FileIds : f \notin InUse

Creatable == cur # NoFile \/ FileIds \ InUse # {}

WithOpened == IF cur # NoFile THEN files ELSE [files EXCEPT ![Opened] = NewFile]

CanFail    == Allowed("faults")
CountFault == Count("faults")

-----------------------------------------------------------------------------
(* The process.                                                            *)

Idle == [pc     |-> "wait",    \* where the goroutine is
         file   |-> NoFile,    \* newProducer
         kind   |-> "gauge",   \* the loop it is in
         len    |-> 0,         \* the slice the loop ranges over: its length,
         live   |-> TRUE,      \* whether its array is still the storage's,
         frozen |-> <<>>,      \* and what is in that array when it is not
         next   |-> 1,         \* the next row
         copy   |-> <<>>]      \* the loop variable

\* history := history with the values the metrics have now.
Recorded(history, r) ==
    [k \in Kinds |-> [n \in Names |-> history[k][n] \cup {Lookup(r, k, n)}]]

NoRequest == [kind |-> "none", name |-> "none", value |-> 0]

Init ==
    /\ running = FALSE /\ ctxDone = FALSE /\ listening = FALSE
    /\ rows = Empty
    /\ old = NoFile
    /\ \/ cur = NoFile /\ files = [f \in FileIds |-> NewFile]
       \/ \E r \in Earlier :
             /\ cur = CHOOSE f \in FileIds : TRUE
             /\ files = [f \in FileIds |->
                   IF f = cur THEN [NewFile EXCEPT !.rows = r] ELSE NewFile]
    /\ producer = [file |-> NoFile, open |-> FALSE, broken |-> FALSE]
    /\ job = [b \in Backupers |-> Idle]
    /\ request = [c \in Clients |-> NoRequest]
    /\ filling = Filled
    /\ good = cur /\ begun = 0 /\ wild = FALSE
    /\ atSignal = Empty
    /\ since = [k \in Kinds |-> [n \in Names |-> {}]]
    /\ had = [k \in Kinds |-> [n \in Names |->
                 IF cur = NoFile THEN {} ELSE {Lookup(files[cur].rows, k, n)}]]
    /\ budget \in Budgets
    /\ bounds = [b \in DOMAIN budget |-> 0]

\* main: restore if asked to, open the file for appending, start the others.
\* Restoring opens the file too, and creates it when it is missing.
Start ==
    /\ ~running /\ Allowed("starts") /\ Creatable
    /\ running' = TRUE /\ ctxDone' = FALSE /\ listening' = TRUE
    /\ files' = WithOpened
    /\ cur' = Opened
    /\ producer' = [file |-> Opened, open |-> TRUE, broken |-> FALSE]
    /\ rows' = IF Restore THEN WithOpened[Opened].rows ELSE Empty
    /\ job' = [b \in Backupers |->
                  IF b = periodic /\ SyncMode THEN [Idle EXCEPT !.pc = "done"]
                                               ELSE Idle]
    /\ request' = [c \in Clients |-> NoRequest]
    /\ filling' = Filled
    /\ atSignal' = Empty
    /\ since' = [k \in Kinds |-> [n \in Names |-> {}]]
    /\ had' = Recorded(had, rows')
    /\ Count("starts")
    /\ UNCHANGED <<old, good, begun, wild>>

\* SIGINT or SIGTERM cancels the context.
Signal ==
    /\ running /\ ~ctxDone /\ Allowed("signals")
    /\ ctxDone' = TRUE
    /\ Count("signals")
    /\ atSignal' = Finished
    /\ since' = Recorded([k \in Kinds |-> [n \in Names |-> {}]], rows)
    /\ UNCHANGED <<running, listening, rows, filling, files, cur, old, producer,
                   job, request, good, begun, wild, had>>

\* server.Close: no more requests.  It does not wait for the handlers.
CloseServer ==
    /\ running /\ ctxDone /\ listening
    /\ listening' = FALSE
    /\ UNCHANGED <<running, ctxDone, rows, filling, files, cur, old, producer, job,
                   request, good, begun, wild, atSignal, since, had, bounds, budget>>

\* Mutant of AllDone: wg.Wait() is left out.
OnlyMainDone == job[main].pc = "done"
AllDone      == ~listening /\ \A b \in Backupers : job[b].pc = "done"

\* main returns once its own backup is done and wg.Wait() has seen the HTTP
\* server and the two other backup goroutines end.
Exit ==
    /\ running /\ ctxDone /\ AllDone
    /\ running' = FALSE
    /\ producer' = [producer EXCEPT !.open = FALSE]
    /\ UNCHANGED <<ctxDone, listening, rows, filling, files, cur, old, job, request,
                   good, begun, wild, atSignal, since, had, bounds, budget>>

\* The process ends without main.
Dies ==
    /\ running' = FALSE /\ ctxDone' = FALSE /\ listening' = FALSE
    /\ producer' = [producer EXCEPT !.open = FALSE]
    /\ UNCHANGED <<rows, filling, files, cur, old, job, request, good, begun, wild,
                   atSignal, since, had>>

Crash ==
    /\ running /\ Allowed("crashes")
    /\ Count("crashes")
    /\ Dies

-----------------------------------------------------------------------------
(* The update handlers.                                                    *)

\* A loop keeps the array it has loaded the pointer to: when an append
\* replaces the array, a full one, the loop no longer sees what is stored.
HasPointer(j) == j.pc \in {"pointer", "row", "write"}

Freeze(k, n) ==
    job' = [b \in Backupers |->
        IF /\ HasPointer(job[b]) /\ job[b].kind = k /\ job[b].live
           /\ Position(rows, k, n) = {} /\ ArrayFull(Len(rows[k]))
        THEN [job[b] EXCEPT !.live = FALSE, !.frozen = rows[k]]
        ELSE job[b]]

\* The package's mutex, which AddGauge, AddCounter and WriteEvent take.
MutexFree == filling.todo = {}

\* A handler stores one metric: a new value, which is one word, or a new row,
\* whose words follow.  server.Close does not wait for the handlers at work,
\* so this can also happen after it.
Store(c, new, unsaved) ==
    /\ running /\ request[c] = NoRequest /\ MutexFree
    /\ Allowed("updates")
    /\ rows' = Add(rows, new.kind, new.name, new.value)
    /\ filling' = IF Position(rows, new.kind, new.name) = {}
                  THEN [kind |-> new.kind, todo |-> {"name", "value"}]
                  ELSE filling
    /\ Freeze(new.kind, new.name)
    /\ request' = [request EXCEPT ![c] = unsaved]
    /\ had' = Recorded(had, rows')
    /\ since' = IF ctxDone THEN Recorded(since, rows') ELSE since
    /\ Count("updates")
    /\ UNCHANGED <<running, ctxDone, listening, files, cur, old, producer,
                   good, begun, wild, atSignal>>

\* append stores a word of the new row, in the order the compiler chose.
FillRow ==
    /\ running
    /\ \E word \in filling.todo :
          filling' = IF filling.todo = {word} THEN Filled
                     ELSE [filling EXCEPT !.todo = @ \ {word}]
    /\ UNCHANGED <<running, ctxDone, listening, rows, files, cur, old, producer, job,
                   request, good, begun, wild, atSignal, since, had, bounds, budget>>

\* What a JSON body can carry.  /update refuses an empty name.
InBody == {new \in Calls : new.value \notin Unencodable}
Named  == {new \in InBody : new.name # Unnamed}

PostUpdate(c) ==
    /\ "update" \in Routes /\ ~SyncMode
    /\ \E new \in Named : Store(c, new, NoRequest)

\* PostUpdateSyncBackup, first half.
StoreUpdate(c) ==
    /\ "update" \in Routes /\ SyncMode
    /\ \E new \in Named : Store(c, new, new)

\* One metric of a batch.  The handler holds nothing between two metrics, and
\* returns (400) at an unknown type: a batch is any number of these steps.
UpdatesGaugesBatch(c) ==
    /\ "updates" \in Routes
    /\ \E new \in InBody : Store(c, new, NoRequest)

\* The text of the URL can carry NaN and Inf as well.
PostHandler(c) ==
    /\ "url" \in Routes
    /\ \E new \in Calls : Store(c, new, NoRequest)

Answered(c) ==
    /\ request' = [request EXCEPT ![c] = NoRequest]
    /\ UNCHANGED <<running, ctxDone, listening, rows, filling, cur, old, job,
                   good, begun, wild, atSignal, since, had>>

\* The event that PostUpdateSyncBackup writes.
\* Mutant of Event: a counter's new value instead of the delta.
EventWithTotal(c) == [request[c] EXCEPT
    !.value = Lookup(rows, request[c].kind, request[c].name)]
Event(c)          == request[c]

\* PostUpdateSyncBackup, second half: the producer appends the update.  A
\* closed or broken producer fails (500), and the storage stays updated.
WriteUpdate(c) ==
    /\ running /\ request[c] # NoRequest /\ MutexFree
    /\ files' = IF producer.open /\ ~producer.broken
                THEN Line(producer.file, Event(c).kind, Event(c).name,
                          Event(c).value)
                ELSE files
    /\ UNCHANGED <<producer, bounds, budget>>
    /\ Answered(c)

\* The write fails.  The buffered writer then fails every later write.
WriteUpdateFails(c) ==
    /\ running /\ request[c] # NoRequest /\ MutexFree
    /\ producer.open /\ ~producer.broken /\ CanFail
    /\ files' \in PartOfLine(producer.file)
    /\ producer' = [producer EXCEPT !.broken = TRUE]
    /\ CountFault
    /\ Answered(c)

-----------------------------------------------------------------------------
(* performBackup.                                                          *)

processVars == <<running, ctxDone, listening, rows, filling, request, atSignal,
                 since, had>>
goodVars    == <<good, begun>>
counts      == <<bounds, budget>>

At(b, pc) == running /\ job[b].pc = pc
Goto(b, pc) == job' = [job EXCEPT ![b].pc = pc]

\* performBackup returns, with or without an error: the periodic backup waits
\* for its next tick, the other goroutines are done.
Returned(b) == [Idle EXCEPT !.pc = IF b = periodic THEN "wait" ELSE "done"]
Return(b)   == job' = [job EXCEPT ![b] = Returned(b)]

\* A tick of the periodic backup (also after the signal: select takes either
\* of two ready cases), or the signal for the others.  The first thing
\* performBackup does is close main's producer.
Begin(b) ==
    /\ At(b, "wait")
    /\ b # periodic => ctxDone
    /\ producer' = [producer EXCEPT !.open = FALSE]
    /\ Goto(b, "remove")
    /\ begun' = IF begun = 0 THEN 1 ELSE 2
    /\ UNCHANGED <<processVars, files, cur, old, good, wild, counts>>

\* The periodic backup sees the cancelled context.
StopPeriodic ==
    /\ At(periodic, "wait") /\ ctxDone
    /\ Goto(periodic, "done")
    /\ UNCHANGED <<processVars, files, cur, old, producer, goodVars, wild, counts>>

\* os.Remove of the old backup; its errors are ignored.
RemoveOld(b) ==
    /\ At(b, "remove")
    /\ \/ old' = NoFile /\ UNCHANGED counts
       \/ CanFail /\ CountFault /\ UNCHANGED old
    /\ Goto(b, "rename")
    /\ UNCHANGED <<processVars, files, cur, producer, goodVars, wild>>

\* Mutant of RenameCur: the current backup is removed instead of renamed.
RenameCurRemoves(b) ==
    /\ At(b, "rename")
    /\ cur' = NoFile
    /\ Goto(b, "create")
    /\ UNCHANGED <<processVars, files, old, producer, goodVars, wild, counts>>

\* Mutant of RenameCur: the current backup stays where it is.
RenameCurCopies(b) ==
    /\ At(b, "rename")
    /\ IF cur = NoFile THEN UNCHANGED old ELSE old' = cur
    /\ Goto(b, "create")
    /\ UNCHANGED <<processVars, files, cur, producer, goodVars, wild, counts>>

\* os.Rename of the current backup over the old one; a missing current
\* backup is not an error.
RenameCur(b) ==
    /\ At(b, "rename")
    /\ IF cur = NoFile THEN UNCHANGED old ELSE old' = cur
    /\ cur' = NoFile
    /\ Goto(b, "create")
    /\ UNCHANGED <<processVars, files, producer, goodVars, wild, counts>>

\* Mutant of Loop: the second loop goes on with the index of the first.
LoopKeepsIndex(j, k) == [j EXCEPT !.pc = "slice", !.kind = k, !.len = 0,
                                  !.live = TRUE, !.frozen = <<>>]

\* A loop over GaugeSlice() or CounterSlice(), before the call.
Loop(j, k) == [j EXCEPT !.pc = "slice", !.kind = k, !.next = 1, !.len = 0,
                        !.live = TRUE, !.frozen = <<>>]

\* NewProducer: an existing file is opened for appending.
Create(b) ==
    /\ At(b, "create") /\ Creatable
    /\ files' = WithOpened
    /\ cur' = Opened
    /\ job' = [job EXCEPT ![b] = Loop([@ EXCEPT !.file = Opened], "gauge")]
    /\ UNCHANGED <<processVars, old, producer, goodVars, wild, counts>>

\* The rename or the open fails: performBackup returns the error.
RenameOrCreateFails(b) ==
    /\ At(b, "rename") \/ At(b, "create")
    /\ CanFail /\ CountFault
    /\ Return(b)
    /\ UNCHANGED <<processVars, files, cur, old, producer, goodVars, wild>>

\* The slice is two words, its pointer and its length, loaded in any order and
\* without the lock.
LoadPointer(b) ==
    /\ \/ At(b, "slice")  /\ Goto(b, "pointer")
       \/ At(b, "length") /\ Goto(b, "row")
    /\ UNCHANGED <<processVars, files, cur, old, producer, goodVars, wild, counts>>

LoadLength(b) ==
    /\ \/ At(b, "slice")   /\ job' = [job EXCEPT ![b].pc = "length",
                                                 ![b].len = Len(rows[job[b].kind])]
       \/ At(b, "pointer") /\ job' = [job EXCEPT ![b].pc = "row",
                                                 ![b].len = Len(rows[job[b].kind])]
    /\ UNCHANGED <<processVars, files, cur, old, producer, goodVars, wild, counts>>

\* Row i of kind k, as its words are now.  (Its name and value can be loaded at
\* different moments; that makes a difference only for a row without a name.)
Words(k, i) ==
    IF IsFilled(k, i) THEN rows[k][i]
    ELSE [name  |-> IF "name" \in filling.todo THEN Unnamed ELSE rows[k][i].name,
          value |-> IF "value" \in filling.todo THEN 0 ELSE rows[k][i].value]

\* The loop is left with an array that has no such row.
PastEnd(j) == ~j.live /\ j.next > Len(j.frozen)

Copied(b, row) == job' = [job EXCEPT ![b] = [job[b] EXCEPT !.pc = "write", !.copy = row]]

\* The loop variable is copied from the slice ...
ReadRow(b) ==
    /\ At(b, "row") /\ job[b].next <= job[b].len /\ ~PastEnd(job[b])
    /\ LET j == job[b]
       IN  Copied(b, IF j.live THEN Words(j.kind, j.next) ELSE j.frozen[j.next])
    /\ UNCHANGED <<processVars, files, cur, old, producer, goodVars, wild, counts>>

\* ... or from whatever lies behind its array ...
ReadBehind(b) ==
    /\ At(b, "row") /\ job[b].next <= job[b].len /\ PastEnd(job[b])
    /\ \E n \in Names, v \in Values(job[b].kind) :
          Copied(b, [name |-> n, value |-> v])
    /\ wild' = TRUE
    /\ UNCHANGED <<processVars, files, cur, old, producer, goodVars, counts>>

\* ... which need not be readable; nor is a name, two words, with only one of
\* them stored.
ReadFaults(b) ==
    /\ At(b, "row") /\ job[b].next <= job[b].len
    /\ LET j == job[b]
       IN  \/ PastEnd(j)
           \/ j.live /\ ~IsFilled(j.kind, j.next) /\ "name" \in filling.todo
    /\ Goto(b, "fault")
    /\ UNCHANGED <<processVars, files, cur, old, producer, goodVars, wild, counts>>

\* An invalid memory access in a goroutine ends the process.
Fault(b) == At(b, "fault") /\ Dies /\ UNCHANGED counts

\* The row is written when WriteEvent has the mutex.  json.Marshal refuses some
\* gauge values, and performBackup returns that error.
WriteRow(b) ==
    /\ At(b, "write") /\ MutexFree
    /\ IF job[b].copy.value \in Unencodable
       THEN Return(b) /\ UNCHANGED files
       ELSE /\ files' = Line(job[b].file, job[b].kind,
                            job[b].copy.name, job[b].copy.value)
            /\ job' = [job EXCEPT ![b] = [job[b] EXCEPT !.pc = "row",
                          !.next = @ + 1, !.copy = <<>>]]
    /\ UNCHANGED <<processVars, cur, old, producer, goodVars, wild, counts>>

WriteRowFails(b) ==
    /\ At(b, "write") /\ MutexFree /\ CanFail /\ CountFault
    /\ files' \in PartOfLine(job[b].file)
    /\ Return(b)
    /\ UNCHANGED <<processVars, cur, old, producer, goodVars, wild>>

\* The end of the gauges, then of the counters.
EndLoop(b) ==
    /\ At(b, "row") /\ job[b].next > job[b].len
    /\ \/ /\ job[b].kind = "gauge"
          /\ job' = [job EXCEPT ![b] = Loop(@, "counter")]
          /\ UNCHANGED goodVars
       \/ /\ job[b].kind = "counter"
          /\ Return(b)
          /\ IF ctxDone THEN UNCHANGED goodVars
                        ELSE good' = job[b].file /\ begun' = 0
    /\ UNCHANGED <<processVars, files, cur, old, producer, wild, counts>>

-----------------------------------------------------------------------------

PerformBackup(b) ==
    \/ Begin(b) \/ RemoveOld(b) \/ RenameCur(b) \/ Create(b)
    \/ RenameOrCreateFails(b) \/ LoadPointer(b) \/ LoadLength(b)
    \/ ReadRow(b) \/ ReadBehind(b) \/ ReadFaults(b) \/ WriteRow(b)
    \/ WriteRowFails(b) \/ EndLoop(b)

Next ==
    \/ Start \/ Signal \/ CloseServer \/ Exit \/ Crash \/ StopPeriodic \/ FillRow
    \/ \E c \in Clients :
          \/ PostUpdate(c) \/ UpdatesGaugesBatch(c) \/ PostHandler(c)
          \/ StoreUpdate(c) \/ WriteUpdate(c) \/ WriteUpdateFails(c)
    \/ \E b \in Backupers : PerformBackup(b) \/ Fault(b)

Spec == Init /\ [][Next]_vars

-----------------------------------------------------------------------------
(* Properties.                                                             *)

Steps == {"wait", "remove", "rename", "create", "slice", "pointer", "length",
          "row", "write", "fault", "done"}

\* Every variable has its type.  A loop of performBackup asks for no row the
\* storage does not have; the array it has may be shorter (see ReadBehind;
\* backup.go, the two range loops).
TypeOK ==
    /\ {running, ctxDone, listening, wild} \subseteq BOOLEAN
    /\ rows \in Storages /\ atSignal \in Storages
    /\ filling.kind \in Kinds /\ filling.todo \subseteq {"name", "value"}
    /\ DOMAIN files = FileIds
    /\ \A f \in FileIds : files[f].rows \in Storages /\ files[f].torn \in BOOLEAN
    /\ {cur, old, good, producer.file} \subseteq FileIds \cup {NoFile}
    /\ {producer.open, producer.broken} \subseteq BOOLEAN
    /\ begun \in 0 .. 2
    /\ DOMAIN job = Backupers
    /\ \A b \in Backupers :
          /\ job[b].pc \in Steps
          /\ job[b].file \in FileIds \cup {NoFile}
          /\ job[b].pc = "row" =>
                /\ job[b].next \in 1 .. job[b].len + 1
                /\ job[b].len <= Len(rows[job[b].kind])
    /\ \A c \in Clients : request[c] \in Calls \cup {NoRequest}

\* What a restart would restore; it creates a missing file.
Restored == IF cur = NoFile THEN Empty ELSE files[cur].rows

\* One backup that is interrupted or fails destroys nothing: from the last
\* complete backup until a second one begins after it, that file is there,
\* unchanged, as the file or as the "_old" file, wherever in performBackup a
\* crash, a restart, a shutdown or an error falls (backup.go, the order of
\* Remove, Rename and create in performBackup).  The second one removes it.
KeepsAGoodCopy ==
    [][~SyncMode /\ good' # NoFile /\ begun' <= 1 =>
          /\ good' \in {cur', old'}
          /\ good' = good => files'[good] = files[good]]_vars

\* The metrics that have a name: nothing is said of rows that are read before
\* their name is stored.
WithName == Names \ {Unnamed}

\* A value that JSON has no form for ends a backup (see WriteRow).
Encodable == \A n \in Names : had["gauge"][n] \cap Unencodable = {}

\* What one, two or three of the values add up to.
Sums(values) == LET plus(these) == {Wrap(a + b) : a \in these, b \in values}
                IN  values \cup plus(values) \cup plus(plus(values))

\* After a shutdown without a crash, without a failing file operation and with
\* no read behind an array, the file restores every metric that was in the
\* storage when the signal came, although the backups read without the lock: a
\* gauge with a value it had since, a counter with one too, or with what two or
\* three of the backups that race have added up to (main.go:126, SaveBackup,
\* then wg.Wait).
CleanExitKeepsEverything ==
    ~running /\ ctxDone /\ bounds.faults = 0 /\ Encodable /\ ~wild =>
        \A k \in Kinds, n \in WithName : Lookup(atSignal, k, n) # Absent =>
            LET values == since[k][n] \ {Absent}
            IN  Lookup(Restored, k, n) \in IF k = "gauge" THEN values ELSE Sums(values)

\* While the periodic backup is the only one and has not read behind an array,
\* a restore invents no value but zero: whatever was interrupted, each metric
\* of the two files has a value the metric once had, or the zero of a row that
\* was read before its value was stored (backup.go: a backup starts from an
\* empty file).
FilesHoldPastValues ==
    ~SyncMode /\ bounds.signals = 0 /\ ~wild =>
        \A f \in {cur, old} \ {NoFile} : \A k \in Kinds, n \in WithName :
            Lookup(files[f].rows, k, n) \in had[k][n] \cup {Absent, 0}

Counter(r, n) == IF Lookup(r, "counter", n) = Absent THEN 0 ELSE Lookup(r, "counter", n)

\* The counter updates that are in memory and not yet in the file.
Pending(n)  == {c \in Clients : request[c].kind = "counter" /\ request[c].name = n}
Unwritten(n) == MapThenSumSet(LAMBDA c : request[c].value, Pending(n))

\* In synchronous mode no counter update through /update is lost or counted
\* twice, through crashes and restarts: the file and the updates about to be
\* written add up to the storage.  This can fail only after a line that failed:
\* the producer then refuses every other line until the next start, and behind
\* part of a line a restore finds nothing
\* (handlers.go, PostUpdateSyncBackup; main.go, restore then append).
SyncCountersExact ==
    /\ SyncMode /\ Restore /\ Routes = {"update"} /\ running /\ ~ctxDone
    /\ ~producer.broken /\ ~files[producer.file].torn
    => \A n \in Names : Counter(rows, n) = Wrap(Counter(Restored, n) + Unwritten(n))

-----------------------------------------------------------------------------
(* What comments and tests say and the code does not do.                   *)

Same(r, s) == \A k \in Kinds, n \in Names : Lookup(r, k, n) = Lookup(s, k, n)

\* backup_test.go:407, TestMemStorage_Integration: what is backed up and then
\* restored in a new storage has the same values.  Here, for a shutdown during
\* which nothing is updated.
ShutdownBackupIsExact ==
    ~running /\ ctxDone /\ rows = atSignal => Same(Restored, rows)

=============================================================================
