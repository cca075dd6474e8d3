----------------------------- MODULE MemStorage -----------------------------
(***************************************************************************)
(* The in-memory metric storage: internal/repository/storage.go, and the   *)
(* handlers that read it, internal/handler/handlers.go.                    *)
(*                                                                         *)
(* Writers (AddGauge, AddCounter) hold the package's mutex from the lookup *)
(* to the end of the update.  Readers (GetHandler, PostValue) take no      *)
(* lock: GaugeSlice and CounterSlice hand out the slice header, and the    *)
(* handler then reads rows of a backing array a writer may be changing.    *)
(* What a data race can show a reader is modelled as the compiled code     *)
(* produces it on a 64-bit machine: a word is read or written at once, a   *)
(* slice header is two reads (pointer, length), and append publishes the   *)
(* new length before it fills in the fields of the new row.                *)
(***************************************************************************)
EXTENDS Metrics, FiniteSets, Sequences

CONSTANTS
    Callers,    \* goroutines that call AddGauge and AddCounter
    Readers,    \* goroutines serving GET /value/... or POST /value
    NoName,     \* the zero value of a row's name
    NoOne,      \* the mutex is free
    MaxCalls,   \* bound: calls of AddGauge and AddCounter in a behaviour
    MaxReads    \* bound: reads in a behaviour

ASSUME SentinelAssumption == NoName \notin Names /\ NoOne \notin Callers
ASSUME BoundAssumption    == MaxCalls \in Nat /\ MaxReads \in Nat

Row(k)   == [name : Names \cup {NoName}, value : Values(k)]
EmptyRow == [name |-> NoName, value |-> 0]

VARIABLES
    mutex,    \* the writer that holds the package's mutex, or NoOne
    arrays,   \* arrays[k]: the backing arrays allocated for kind k, in order;
              \* the slice header points to the last one
    length,   \* length[k]: the length word of the slice header
    call,     \* call[c]: the arguments of c's latest call
    wpc,      \* wpc[c]: where writer c is in AddGauge or AddCounter
    at,       \* at[c]: the row writer c works on
    loaded,   \* loaded[c]: the counter value read by +=
    todo,     \* todo[c]: the fields of the appended row still to be stored
    rpc,      \* rpc[r]: where reader r is in the handler
    want,     \* want[r]: the metric r was asked for
    view,     \* view[r]: the slice header r ranges over (NotLoaded: not yet)
    again,    \* again[r]: the array r indexes when it asks for the slice again
    row,      \* row[r]: the row r examines
    answer,   \* answer[r]: the values written to the response
    held,     \* history: the values want[r] had since the read began
    calls,    \* number of writer calls made, for MaxCalls
    reads     \* number of reads made, for MaxReads

writerVars == <<mutex, arrays, length, wpc, at, loaded, todo, call, calls>>
readerVars == <<rpc, want, view, again, row, answer, reads>>
memVars    == <<writerVars, readerVars, held>>

NotLoaded == [array |-> 0, len |-> -1]

Array(k)    == arrays[k][Len(arrays[k])]     \* what the header points to
Capacity(k) == Len(Array(k))
Rows(k)     == 1 .. length[k]

\* Row i of kind k is being filled in by the writer that appended it.
Unfinished(k, i) == \E c \in Callers : 
    wpc[c] = "fill" /\ call[c].kind = k /\ at[c] = i

RowsNamed(k, n) == {i \in Rows(k) : Array(k)[i].name = n}

\* The value of a metric, as a caller that holds the lock would find it.
Stored(k, n) ==
    LET finished == {i \in RowsNamed(k, n) : ~Unfinished(k, i)}
    IN  IF finished = {} THEN Absent
        ELSE Array(k)[CHOOSE i \in finished : TRUE].value

Contents == [k \in Kinds |-> [n \in Names |-> Stored(k, n)]]

MemInit ==
    /\ mutex  = NoOne
    /\ arrays = [k \in Kinds |-> << <<>> >>]
    /\ length = [k \in Kinds |-> 0]
    /\ wpc    = [c \in Callers |-> "idle"]
    /\ call  \in [Callers -> {CHOOSE first \in Calls : TRUE}]
    /\ at     = [c \in Callers |-> 0]
    /\ loaded = [c \in Callers |-> 0]
    /\ todo   = [c \in Callers |-> {}]
    /\ rpc    = [r \in Readers |-> "idle"]
    /\ want  \in [Readers -> {CHOOSE m \in Kinds \X Names : TRUE}]
    /\ view   = [r \in Readers |-> NotLoaded]
    /\ again  = [r \in Readers |-> 0]
    /\ row    = [r \in Readers |-> 0]
    /\ answer = [r \in Readers |-> <<>>]
    /\ held   = [r \in Readers |-> {}]
    /\ calls  = 0
    /\ reads  = 0

\* The history of a read: whatever its metric is worth while it runs.
Observe == held' = [r \in Readers |->
    IF rpc[r] = "idle" THEN held[r]
    ELSE held[r] \cup {Contents'[want[r][1]][want[r][2]]}]

WriterStep == UNCHANGED readerVars /\ Observe

-----------------------------------------------------------------------------
(* Writers: AddGauge and AddCounter.                                       *)

CallAdd(c) ==
    /\ wpc[c] = "idle" /\ calls < MaxCalls
    /\ \E new \in Calls : call' = [call EXCEPT ![c] = new]
    /\ calls' = calls + 1
    /\ wpc' = [wpc EXCEPT ![c] = "lock"]
    /\ UNCHANGED <<mutex, arrays, length, at, loaded, todo>>
    /\ WriterStep

\* mutex.Lock() returns.
Lock(c) ==
    /\ wpc[c] = "lock" /\ mutex = NoOne
    /\ mutex' = c
    /\ wpc' = [wpc EXCEPT ![c] = "lookup"]
    /\ UNCHANGED <<arrays, length, at, loaded, todo, call, calls>>
    /\ WriterStep

\* append finds room in the backing array.
\* Mutant of HasRoom: the full array is taken for one with room.
HasRoomOrIsFull(k) == length[k] <= Capacity(k)
HasRoom(k)         == length[k] < Capacity(k)

\* The rows the search stops at.
\* Mutant of Hits: the last row is not searched.
HitsButLast(c) == RowsNamed(call[c].kind, call[c].name) \ {length[call[c].kind]}
Hits(c)        == RowsNamed(call[c].kind, call[c].name)

\* The first row with the name is updated in place; without one a row is
\* appended, in a larger array when the current one is full.
Lookup(c) ==
    /\ wpc[c] = "lookup"
    /\ LET k == call[c].kind
       IN  \/ /\ Hits(c) # {}
              /\ at' = [at EXCEPT ![c] =
                           CHOOSE i \in Hits(c) : \A j \in Hits(c) : i <= j]
              /\ wpc' = [wpc EXCEPT ![c] = IF k = "gauge" THEN "update" ELSE "load"]
           \/ /\ Hits(c) = {}
              /\ wpc' = [wpc EXCEPT ![c] = IF HasRoom(k)
                                           THEN "publish" ELSE "grow"]
              /\ UNCHANGED at
    /\ UNCHANGED <<mutex, arrays, length, loaded, todo, call, calls>>
    /\ WriterStep

\* s.counterSlice[i].Value += value reads the row ...
Load(c) ==
    /\ wpc[c] = "load"
    /\ loaded' = [loaded EXCEPT ![c] = Array(call[c].kind)[at[c]].value]
    /\ wpc' = [wpc EXCEPT ![c] = "update"]
    /\ UNCHANGED <<mutex, arrays, length, at, todo, call, calls>>
    /\ WriterStep

\* Mutant of NewValue: a counter is overwritten too.
NewValueOnly(c) == call[c].value
NewValue(c)     == Combine(call[c].kind, loaded[c], call[c].value)

\* ... and writes it; a gauge's value is only written.
Update(c) ==
    /\ wpc[c] = "update"
    /\ LET k == call[c].kind
       IN  arrays' = [arrays EXCEPT ![k][Len(arrays[k])][at[c]].value = NewValue(c)]
    /\ wpc' = [wpc EXCEPT ![c] = "unlock"]
    /\ UNCHANGED <<mutex, length, at, loaded, todo, call, calls>>
    /\ WriterStep

\* append, full array: the rows are copied to a new array of twice the
\* capacity, then the header's pointer is stored.
Grow(c) ==
    /\ wpc[c] = "grow"
    /\ LET k    == call[c].kind
           full == Len(Array(k))
           size == IF full = 0 THEN 1 ELSE 2 * full
       IN  arrays' = [arrays EXCEPT ![k] = Append(@,
              [i \in 1 .. size |-> IF i <= full THEN Array(k)[i] ELSE EmptyRow])]
    /\ wpc' = [wpc EXCEPT ![c] = "publish"]
    /\ UNCHANGED <<mutex, length, at, loaded, todo, call, calls>>
    /\ WriterStep

\* append: the header's length is stored before the fields of the row.
Publish(c) ==
    /\ wpc[c] = "publish"
    /\ LET k == call[c].kind
       IN  /\ length' = [length EXCEPT ![k] = @ + 1]
           /\ at' = [at EXCEPT ![c] = length[k] + 1]
    /\ todo' = [todo EXCEPT ![c] = {"name", "value"}]
    /\ wpc' = [wpc EXCEPT ![c] = "fill"]
    /\ UNCHANGED <<mutex, arrays, loaded, call, calls>>
    /\ WriterStep

\* append: the fields of the new row are stored, in the order the compiler
\* chose.  (The name, two words, counts as stored with the second of them.)
Fill(c) ==
    /\ wpc[c] = "fill"
    /\ \E field \in todo[c] :
          /\ LET k == call[c].kind
             IN  arrays' = [arrays EXCEPT ![k][Len(arrays[k])][at[c]] =
                    IF field = "name" THEN [@ EXCEPT !.name = call[c].name]
                                      ELSE [@ EXCEPT !.value = call[c].value]]
          /\ todo' = [todo EXCEPT ![c] = @ \ {field}]
          /\ wpc' = [wpc EXCEPT ![c] = IF todo[c] = {field} THEN "unlock" ELSE @]
    /\ UNCHANGED <<mutex, length, at, loaded, call, calls>>
    /\ WriterStep

\* Mutant of Unlock: AddCounter, returning from its search, keeps the lock.
UnlockNotDeferred(c) ==
    /\ wpc[c] = "unlock"
    /\ mutex' = IF loaded[c] # 0 THEN mutex ELSE NoOne
    /\ wpc' = [wpc EXCEPT ![c] = "idle"]
    /\ at' = [at EXCEPT ![c] = 0]
    /\ loaded' = [loaded EXCEPT ![c] = 0]
    /\ UNCHANGED <<arrays, length, todo, call, calls>>
    /\ WriterStep

\* The deferred Unlock, on every path.
Unlock(c) ==
    /\ wpc[c] = "unlock"
    /\ mutex' = NoOne
    /\ wpc' = [wpc EXCEPT ![c] = "idle"]
    /\ at' = [at EXCEPT ![c] = 0]
    /\ loaded' = [loaded EXCEPT ![c] = 0]
    /\ UNCHANGED <<arrays, length, todo, call, calls>>
    /\ WriterStep

-----------------------------------------------------------------------------
(* Readers: GetHandler and PostValue.                                      *)

CallRead(r) ==
    /\ rpc[r] = "idle" /\ reads < MaxReads
    /\ \E k \in Kinds, n \in Names :
          /\ want' = [want EXCEPT ![r] = <<k, n>>]
          /\ held' = [held EXCEPT ![r] = {Stored(k, n)}]
    /\ rpc' = [rpc EXCEPT ![r] = "header"]
    /\ view' = [view EXCEPT ![r] = NotLoaded]
    /\ answer' = [answer EXCEPT ![r] = <<>>]
    /\ row' = [row EXCEPT ![r] = 1]
    /\ reads' = reads + 1
    /\ UNCHANGED <<again, writerVars>>

\* GaugeSlice() / CounterSlice(): pointer and length are two loads.
LoadHeader(r) ==
    /\ rpc[r] = "header"
    /\ LET k == want[r][1]
       IN  \/ /\ view[r].array = 0
              /\ view' = [view EXCEPT ![r].array = Len(arrays[k])]
              /\ rpc' = [rpc EXCEPT ![r] = IF view[r].len >= 0 THEN "range" ELSE @]
           \/ /\ view[r].len < 0
              /\ view' = [view EXCEPT ![r].len = length[k]]
              /\ rpc' = [rpc EXCEPT ![r] = IF view[r].array > 0 THEN "range" ELSE @]
    /\ UNCHANGED <<want, again, row, answer, reads, held, writerVars>>

\* The range loop has rows left.
\* Mutant of InRange: the last row is left out.
InRangeButLast(r) == row[r] < view[r].len
InRange(r)        == row[r] <= view[r].len

\* A name is two words, a pointer and a length, and a writer may have stored
\* only one of those of row i.
HalfNamed(k, array, i) ==
    /\ array = Len(arrays[k])
    /\ \E c \in Callers : /\ wpc[c] = "fill" /\ "name" \in todo[c]
                          /\ call[c].kind = k /\ at[c] = i

\* One iteration of the range loop.  It does not stop at a match, and it
\* trusts the length it loaded: past the end of the array it reads memory
\* that belongs to something else.  Comparing a name without its pointer is an
\* invalid access as well.
Examine(r) ==
    LET k    == want[r][1]
        seen == arrays[k][view[r].array]
    IN  /\ rpc[r] = "range"
        /\ \/ /\ ~InRange(r)
              /\ rpc' = [rpc EXCEPT ![r] = "answer"]
              /\ UNCHANGED row
           \/ /\ InRange(r)
              /\ row[r] > Len(seen) \/ HalfNamed(k, view[r].array, row[r])
              /\ rpc' = [rpc EXCEPT ![r] = "fault"]
              /\ UNCHANGED row
           \/ /\ InRange(r) /\ row[r] <= Len(seen)
              /\ seen[row[r]].name # want[r][2]
              /\ row' = [row EXCEPT ![r] = @ + 1]
              /\ UNCHANGED rpc
           \/ /\ InRange(r) /\ row[r] <= Len(seen)
              /\ seen[row[r]].name = want[r][2]
              /\ rpc' = [rpc EXCEPT ![r] = "fetch"]
              /\ UNCHANGED row
        /\ UNCHANGED <<want, view, again, answer, reads, held, writerVars>>

\* On a match the handler asks for the slice again and indexes it with the
\* position found in the first one: the pointer is loaded, then the value.
Refetch(r) ==
    /\ rpc[r] = "fetch"
    /\ again' = [again EXCEPT ![r] = Len(arrays[want[r][1]])]
    /\ rpc' = [rpc EXCEPT ![r] = "value"]
    /\ UNCHANGED <<want, view, row, answer, reads, held, writerVars>>

WriteAnswer(r) ==
    /\ rpc[r] = "value"
    /\ answer' = [answer EXCEPT ![r] = Append(@,
                     arrays[want[r][1]][again[r]][row[r]].value)]
    /\ row' = [row EXCEPT ![r] = @ + 1]
    /\ rpc' = [rpc EXCEPT ![r] = "range"]
    /\ UNCHANGED <<want, view, again, reads, held, writerVars>>

\* The handler returns: the value, or 404 when the answer is empty.
EndRead(r) ==
    /\ rpc[r] = "answer"
    /\ rpc'    = [rpc EXCEPT ![r] = "idle"]
    /\ view'   = [view EXCEPT ![r] = NotLoaded]
    /\ again'  = [again EXCEPT ![r] = 0]
    /\ row'    = [row EXCEPT ![r] = 0]
    /\ answer' = [answer EXCEPT ![r] = <<>>]
    /\ held'   = [held EXCEPT ![r] = {}]
    /\ UNCHANGED <<want, reads, writerVars>>

-----------------------------------------------------------------------------

Writer(c) ==
    \/ CallAdd(c) \/ Lock(c) \/ Lookup(c) \/ Load(c) \/ Update(c)
    \/ Grow(c) \/ Publish(c) \/ Fill(c) \/ Unlock(c)

Reader(r) ==
    \/ CallRead(r) \/ LoadHeader(r) \/ Examine(r)
    \/ Refetch(r) \/ WriteAnswer(r) \/ EndRead(r)

MemNext == (\E c \in Callers : Writer(c)) \/ (\E r \in Readers : Reader(r))

MemSpec == MemInit /\ [][MemNext]_memVars

\* The scheduler runs every goroutine that can run, and the mutex is handed
\* to a waiter before it starves.  Nobody has to call the storage.
MemFairness ==
    /\ \A c \in Callers : SF_memVars(Lock(c)) /\ WF_memVars(Writer(c) /\ wpc[c] # "idle")
    /\ \A r \in Readers : WF_memVars(Reader(r) /\ rpc[r] # "idle")

FairMemSpec == MemSpec /\ MemFairness

-----------------------------------------------------------------------------
(* Properties.                                                             *)

WriterSteps == {"idle", "lock", "lookup", "load", "update", "grow",
                "publish", "fill", "unlock"}
ReaderSteps == {"idle", "header", "range", "fetch", "value", "answer", "fault"}

\* Between Lock and Unlock.
Critical == WriterSteps \ {"idle", "lock"}

WriterTypeOK ==
    /\ mutex \in Callers \cup {NoOne}
    /\ DOMAIN arrays = Kinds /\ length \in [Kinds -> Nat]
    /\ \A k \in Kinds : /\ arrays[k] \in Seq(Seq(Row(k))) /\ arrays[k] # <<>>
                         /\ length[k] <= Capacity(k)
    /\ call \in [Callers -> Calls]
    /\ wpc \in [Callers -> WriterSteps]
    /\ at \in [Callers -> Nat]
    /\ loaded \in [Callers -> Values("counter")]
    /\ todo \in [Callers -> SUBSET {"name", "value"}]
    /\ calls \in Nat

ReaderTypeOK ==
    /\ rpc \in [Readers -> ReaderSteps]
    /\ want \in [Readers -> Kinds \X Names]
    /\ view \in [Readers -> [array : Nat, len : Int]]
    /\ again \in [Readers -> Nat]
    /\ row \in [Readers -> Nat]
    /\ DOMAIN answer = Readers
    /\ \A r \in Readers : answer[r] \in Seq(Values(want[r][1]))
    /\ reads \in Nat

\* Every variable has its type, and the length of a slice never passes the
\* capacity of its backing array (storage.go, append in AddGauge/AddCounter).
MemTypeOK == WriterTypeOK /\ ReaderTypeOK

\* A metric has at most one row, whatever calls race to create it
\* (storage.go: the lookup and the append are under one lock).
NamesUnique ==
    \A k \in Kinds : \A i, j \in Rows(k) :
        Array(k)[i].name = Array(k)[j].name /\ Array(k)[i].name # NoName => i = j

\* The calls of AddGauge and AddCounter are atomic: MemStorage implements
\* MetricStore.  A call takes effect when its last word is stored.
Abstract == INSTANCE MetricStore WITH
    store <- Contents,
    phase <- [c \in Callers |-> CASE wpc[c] = "idle"   -> "idle"
                                   [] wpc[c] = "unlock" -> "applied"
                                   [] OTHER             -> "called"]
CallsAreAtomic == Abstract!Spec

\* A read that returns: a metric that existed all through the read is found
\* once, and the value is one it had during the read, although the reader
\* holds no lock (handlers.go, GetHandler and PostValue).
StableReads ==
    \A r \in Readers : rpc[r] = "answer" /\ Absent \notin held[r] =>
        Len(answer[r]) = 1 /\ answer[r][1] \in held[r]

\* The comment on the mutex says that it makes the operations of the storage
\* thread-safe (storage.go:45): no read leaves the slice, and a value that is
\* read is one the metric had.
ThreadSafeReads ==
    \A r \in Readers :
        /\ rpc[r] # "fault"
        /\ \A i \in DOMAIN answer[r] : answer[r][i] \in held[r]

\* Every call of AddGauge and AddCounter returns: no path keeps the lock.
CallsReturn == \A c \in Callers : wpc[c] # "idle" ~> wpc[c] = "idle"
=============================================================================
