---------------------------- MODULE BackupProofs ----------------------------
(***************************************************************************)
(* Proofs about Backup, for any clients, metrics, budgets and modes.       *)
(*                                                                         *)
(* The file and the old file are two files, and before the signal only one *)
(* goroutine moves them (LifeInv).  So what the last complete backup has   *)
(* made is the file or the old file until the second removal after it,     *)
(* which the place of whoever is in performBackup tells (RotationInv).     *)
(* And what is written into a file is at most once each row of a storage,  *)
(* read without its lock: a value it had, or the zero of a row that was    *)
(* not stored yet (HistoryInv, PastInv).  A backup in progress may read    *)
(* the rows of the moment of the signal late, never not at all (KeptInv).  *)
(*                                                                         *)
(* After the signal three backups race.  The last file that is made is     *)
(* made after main's rename.  Each of the three adds a metric to it at     *)
(* most once (FreshInv), and at every moment one of them will still add    *)
(* what is missing, unless nothing is (CoverInv).                          *)
(*                                                                         *)
(* In synchronous mode the lines of the file and the requests that wait to *)
(* be written add up to the storage (SyncInv).                             *)
(***************************************************************************)
EXTENDS Backup, MetricsProofs

-----------------------------------------------------------------------------
(* The storage as a set of metrics.                                        *)

Row       == [name : Names, value : Int \cup GaugeValues]
RowsOf(k) == [name : Names, value : Values(k)]

\* The rows of a storage: typed, one for each name.
LEMMA StorageRows ==
    ASSUME NEW r, NEW k \in Kinds, r \in Storages
    PROVE  /\ r \in [Kinds -> Seq(Row)] /\ r[k] \in Seq(Row) /\ Len(r[k]) \in Nat
           /\ \A i \in 1 .. Len(r[k]) : r[k][i] \in RowsOf(k)
           /\ \A i, j \in 1 .. Len(r[k]) : r[k][i].name = r[k][j].name => i = j
  <1>1. /\ r \in [Kinds -> Seq(Row)]
        /\ \A i \in DOMAIN r[k] : /\ r[k][i].value \in Values(k)
                                  /\ \A j \in DOMAIN r[k] : r[k][i].name = r[k][j].name => i = j
    BY DEF Storages, Row
  <1>2. r[k] \in Seq(Row) /\ DOMAIN r[k] = 1 .. Len(r[k]) /\ Len(r[k]) \in Nat
    BY <1>1
  <1>3. \A i \in 1 .. Len(r[k]) : r[k][i] \in Row
    BY <1>2
  <1>4. \A i \in 1 .. Len(r[k]) : r[k][i] \in RowsOf(k)
    BY <1>1, <1>2, <1>3 DEF Row, RowsOf
  <1> QED BY <1>1, <1>2, <1>4

\* A storage is made of such rows.
LEMMA RowsAreStorage ==
    ASSUME NEW r \in [Kinds -> Seq(Row)],
           \A k \in Kinds : \A i \in 1 .. Len(r[k]) :
               /\ r[k][i].value \in Values(k)
               /\ \A j \in 1 .. Len(r[k]) : r[k][i].name = r[k][j].name => i = j
    PROVE  r \in Storages
  <1>1. \A k \in Kinds : DOMAIN r[k] = 1 .. Len(r[k])
    OBVIOUS
  <1> QED BY <1>1 DEF Storages, Row

LEMMA EmptyIsStorage ==
    /\ Empty \in Storages
    /\ \A k \in Kinds : Empty[k] = <<>> /\ \A n : Lookup(Empty, k, n) = Absent
  <1>1. Empty \in [Kinds -> Seq(Row)] /\ \A k \in Kinds : Empty[k] = <<>> /\ Len(Empty[k]) = 0
    BY DEF Empty
  <1>2. Empty \in Storages
    BY <1>1, RowsAreStorage
  <1>3. \A k \in Kinds : \A n : Lookup(Empty, k, n) = Absent
    BY <1>1 DEF Lookup, Position
  <1> QED BY <1>1, <1>2, <1>3

\* Lookup finds the row of a name, if there is one.
LEMMA LookupRow ==
    ASSUME NEW r \in Storages, NEW k \in Kinds
    PROVE  /\ \A i \in 1 .. Len(r[k]) : Lookup(r, k, r[k][i].name) = r[k][i].value
           /\ \A n : \/ /\ Lookup(r, k, n) = Absent
                        /\ \A i \in 1 .. Len(r[k]) : r[k][i].name # n
                     \/ /\ Lookup(r, k, n) \in Values(k) /\ Lookup(r, k, n) # Absent
                        /\ \E i \in 1 .. Len(r[k]) : /\ r[k][i].name = n
                                                    /\ Lookup(r, k, n) = r[k][i].value
  <1>1. /\ Len(r[k]) \in Nat /\ DOMAIN r[k] = 1 .. Len(r[k])
        /\ \A i \in 1 .. Len(r[k]) : r[k][i] \in RowsOf(k)
        /\ \A i, j \in 1 .. Len(r[k]) : r[k][i].name = r[k][j].name => i = j
    BY StorageRows
  <1>2. ASSUME NEW i \in 1 .. Len(r[k]) PROVE Lookup(r, k, r[k][i].name) = r[k][i].value
    <2>1. Position(r, k, r[k][i].name) = {i}
      BY <1>1 DEF Position
    <2> QED BY <2>1 DEF Lookup
  <1>3. ASSUME NEW n, \A i \in 1 .. Len(r[k]) : r[k][i].name # n
        PROVE  Lookup(r, k, n) = Absent
    BY <1>1, <1>3 DEF Lookup, Position
  <1>4. ASSUME NEW n, NEW i \in 1 .. Len(r[k]), r[k][i].name = n
        PROVE  /\ Lookup(r, k, n) \in Values(k) /\ Lookup(r, k, n) # Absent
               /\ Lookup(r, k, n) = r[k][i].value
    BY <1>1, <1>2, <1>4, ValuesPresent DEF RowsOf
  <1> QED BY <1>2, <1>3, <1>4

\* A metric's value depends on the rows of its kind alone.
LEMMA LookupKind ==
    ASSUME NEW r, NEW s, NEW x, s[x] = r[x], NEW m
    PROVE  Lookup(s, x, m) = Lookup(r, x, m)
  <1>1. Position(s, x, m) = Position(r, x, m)
    BY DEF Position
  <1> QED BY <1>1 DEF Lookup

\* What AddGauge and AddCounter do: one metric changes, rows stay where they
\* are, and at most one is appended.
LEMMA AddOne ==
    ASSUME NEW r \in Storages, NEW k \in Kinds, NEW n \in Names, NEW v \in Values(k)
    PROVE  /\ Add(r, k, n, v) \in Storages
           /\ Lookup(Add(r, k, n, v), k, n) =
                 IF Lookup(r, k, n) = Absent THEN v ELSE Combine(k, Lookup(r, k, n), v)
           /\ \A x \in Kinds : \A m : x # k \/ m # n =>
                 Lookup(Add(r, k, n, v), x, m) = Lookup(r, x, m)
           /\ \A x \in Kinds : /\ Len(r[x]) <= Len(Add(r, k, n, v)[x])
                               /\ \A i \in 1 .. Len(r[x]) : Add(r, k, n, v)[x][i].name = r[x][i].name
  <1> DEFINE s == Add(r, k, n, v)
  <1>0. /\ r \in [Kinds -> Seq(Row)] /\ Len(r[k]) \in Nat
        /\ r[k] \in Seq(Row) /\ DOMAIN r[k] = 1 .. Len(r[k])
        /\ \A i \in 1 .. Len(r[k]) : r[k][i] \in RowsOf(k)
        /\ \A i, j \in 1 .. Len(r[k]) : r[k][i].name = r[k][j].name => i = j
    BY StorageRows
  <1>1. v \in Int \cup GaugeValues /\ Values(k) \subseteq Int \cup GaugeValues
    BY HalfRangeAssumption DEF Values
  <1>2. CASE Position(r, k, n) = {}
    <2> DEFINE new == [name |-> n, value |-> v]
    <2>1. s = [r EXCEPT ![k] = Append(@, new)]
      BY <1>2 DEF Add
    <2>2. new \in Row /\ new.name = n /\ new.value = v
      BY <1>1 DEF Row
    <2>3. \A i \in 1 .. Len(r[k]) : r[k][i].name # n
      BY <1>0, <1>2 DEF Position
    <2> HIDE DEF new, s
    <2>4. /\ s[k] \in Seq(Row) /\ Len(s[k]) = Len(r[k]) + 1 /\ s[k][Len(r[k]) + 1] = new
          /\ \A i \in 1 .. Len(r[k]) : s[k][i] = r[k][i]
      <3>1. s[k] = Append(r[k], new)
        BY <1>0, <2>1
      <3> QED BY <1>0, <2>2, <3>1, AppendAt
    <2>5. s \in [Kinds -> Seq(Row)] /\ \A x \in Kinds \ {k} : s[x] = r[x]
      BY <1>0, <2>1, <2>4
    <2>6. \A i \in 1 .. Len(s[k]) : i \in 1 .. Len(r[k]) \/ i = Len(r[k]) + 1
      BY <1>0, <2>4
    <2>7. \A i \in 1 .. Len(s[k]) :
             /\ s[k][i].value \in Values(k)
             /\ \A j \in 1 .. Len(s[k]) : s[k][i].name = s[k][j].name => i = j
      BY <1>0, <2>2, <2>3, <2>4, <2>6 DEF RowsOf
    <2>8. \A x \in Kinds \ {k} : \A i \in 1 .. Len(s[x]) :
             /\ s[x][i].value \in Values(x)
             /\ \A j \in 1 .. Len(s[x]) : s[x][i].name = s[x][j].name => i = j
      BY <2>5, StorageRows DEF RowsOf
    <2>9. s \in Storages
      BY <2>5, <2>7, <2>8, RowsAreStorage
    <2>10. Lookup(s, k, n) = v /\ Lookup(r, k, n) = Absent
      <3>1. Len(r[k]) + 1 \in 1 .. Len(s[k])
        BY <1>0, <2>4
      <3>2. Lookup(s, k, s[k][Len(r[k]) + 1].name) = v
        BY <2>2, <2>4, <2>9, <3>1, LookupRow
      <3> QED BY <2>2, <2>3, <2>4, <3>2, LookupRow
    <2>11. ASSUME NEW x \in Kinds, NEW m, x # k \/ m # n
           PROVE  Lookup(s, x, m) = Lookup(r, x, m)
      <3>1. CASE x # k
        <4>1. s[x] = r[x]
          BY <2>5, <3>1
        <4> QED BY <4>1, LookupKind
      <3>2. CASE x = k
        <4>1. Position(s, k, m) = Position(r, k, m)
          <5>1. DOMAIN s[k] = 1 .. Len(r[k]) + 1
            BY <1>0, <2>4
          <5> QED BY <1>0, <2>2, <2>4, <2>11, <3>2, <5>1 DEF Position
        <4>2. \A i \in Position(r, k, m) : s[k][i] = r[k][i]
          BY <1>0, <2>4 DEF Position
        <4>3. CASE Position(r, k, m) = {}
          BY <3>2, <4>1, <4>3 DEF Lookup
        <4>4. CASE Position(r, k, m) # {}
          <5>1. (CHOOSE i \in Position(r, k, m) : TRUE) \in Position(r, k, m)
            BY <4>4
          <5> QED BY <3>2, <4>1, <4>2, <4>4, <5>1 DEF Lookup
        <4> QED BY <4>3, <4>4
      <3> QED BY <3>1, <3>2
    <2>12. \A x \in Kinds : /\ Len(r[x]) <= Len(s[x])
                            /\ \A i \in 1 .. Len(r[x]) : s[x][i].name = r[x][i].name
      <3> TAKE x \in Kinds
      <3>1. Len(r[x]) \in Nat
        BY StorageRows
      <3>2. CASE x = k
        BY <1>0, <2>4, <3>2
      <3>3. CASE x # k
        BY <2>5, <3>1, <3>3
      <3> QED BY <3>2, <3>3
    <2> QED BY <2>9, <2>10, <2>11, <2>12 DEF s
  <1>3. CASE Position(r, k, n) # {}
    <2> DEFINE row(i) == IF i \in Position(r, k, n)
                         THEN [r[k][i] EXCEPT !.value = Combine(k, @, v)] ELSE r[k][i]
    <2>1. s = [r EXCEPT ![k] = [i \in 1 .. Len(r[k]) |-> row(i)]]
      <3>1. s = [r EXCEPT ![k] = [i \in DOMAIN r[k] |-> row(i)]]
        BY <1>3 DEF Add
      <3> QED BY <1>0, <3>1
    <2>2. \A i \in 1 .. Len(r[k]) :
             /\ row(i) \in RowsOf(k) /\ row(i) \in Row /\ row(i).name = r[k][i].name
             /\ row(i).value = IF r[k][i].name = n THEN Combine(k, r[k][i].value, v)
                                                    ELSE r[k][i].value
      <3> TAKE i \in 1 .. Len(r[k])
      <3>1. r[k][i] \in RowsOf(k) /\ (i \in Position(r, k, n) <=> r[k][i].name = n)
        BY <1>0 DEF Position
      <3>2. Combine(k, r[k][i].value, v) \in Values(k)
        BY <3>1, CombineTyped DEF RowsOf
      <3> QED BY <1>1, <3>1, <3>2 DEF RowsOf, Row
    <2> HIDE DEF row, s
    <2>3. /\ s[k] \in Seq(Row) /\ Len(s[k]) = Len(r[k])
          /\ \A i \in 1 .. Len(r[k]) : s[k][i] = row(i)
      <3>1. s[k] = [i \in 1 .. Len(r[k]) |-> row(i)]
        BY <1>0, <2>1
      <3> QED BY <1>0, <2>2, <3>1
    <2>4. s \in [Kinds -> Seq(Row)] /\ \A x \in Kinds \ {k} : s[x] = r[x]
      BY <1>0, <2>1, <2>3
    <2>5. \A i \in 1 .. Len(s[k]) :
             /\ s[k][i].value \in Values(k)
             /\ \A j \in 1 .. Len(s[k]) : s[k][i].name = s[k][j].name => i = j
      BY <1>0, <2>2, <2>3 DEF RowsOf
    <2>6. \A x \in Kinds \ {k} : \A i \in 1 .. Len(s[x]) :
             /\ s[x][i].value \in Values(x)
             /\ \A j \in 1 .. Len(s[x]) : s[x][i].name = s[x][j].name => i = j
      BY <2>4, StorageRows DEF RowsOf
    <2>7. s \in Storages
      BY <2>4, <2>5, <2>6, RowsAreStorage
    <2>8. PICK p \in 1 .. Len(r[k]) : r[k][p].name = n
      BY <1>0, <1>3 DEF Position
    <2>9. /\ Lookup(r, k, n) = r[k][p].value /\ Lookup(r, k, n) # Absent
          /\ Lookup(s, k, n) = Combine(k, r[k][p].value, v)
      BY <2>2, <2>3, <2>7, <2>8, LookupRow
    <2>10. ASSUME NEW x \in Kinds, NEW m, x # k \/ m # n
           PROVE  Lookup(s, x, m) = Lookup(r, x, m)
      <3>1. CASE x # k
        <4>1. s[x] = r[x]
          BY <2>4, <3>1
        <4> QED BY <4>1, LookupKind
      <3>2. CASE x = k /\ Position(r, k, m) = {}
        <4>1. \A i \in 1 .. Len(r[k]) : r[k][i].name # m
          BY <1>0, <3>2 DEF Position
        <4>2. \A i \in 1 .. Len(s[k]) : s[k][i].name # m
          BY <1>0, <2>2, <2>3, <4>1
        <4>3. Lookup(r, k, m) = Absent
          BY <4>1, LookupRow
        <4>4. Lookup(s, k, m) = Absent
          BY <2>7, <4>2, LookupRow
        <4> QED BY <3>2, <4>3, <4>4
      <3>3. CASE x = k /\ Position(r, k, m) # {}
        <4>1. PICK q \in 1 .. Len(r[k]) : r[k][q].name = m
          BY <1>0, <3>3 DEF Position
        <4>2. Lookup(r, k, m) = r[k][q].value
          BY <4>1, LookupRow
        <4>3. q \in 1 .. Len(s[k]) /\ s[k][q].name = m /\ s[k][q].value = r[k][q].value
          BY <2>2, <2>3, <2>10, <3>3, <4>1
        <4>4. Lookup(s, k, m) = s[k][q].value
          BY <2>7, <4>3, LookupRow
        <4> QED BY <3>3, <4>2, <4>3, <4>4
      <3> QED BY <3>1, <3>2, <3>3
    <2>11. \A x \in Kinds : /\ Len(r[x]) <= Len(s[x])
                            /\ \A i \in 1 .. Len(r[x]) : s[x][i].name = r[x][i].name
      <3> TAKE x \in Kinds
      <3>1. Len(r[x]) \in Nat
        BY StorageRows
      <3>2. CASE x = k
        BY <1>0, <2>2, <2>3, <3>2
      <3>3. CASE x # k
        BY <2>4, <3>1, <3>3
      <3> QED BY <3>2, <3>3
    <2> QED BY <2>7, <2>9, <2>10, <2>11 DEF s
  <1> QED BY <1>2, <1>3

-----------------------------------------------------------------------------
(* The files.                                                              *)

File  == [rows : Storages, torn : BOOLEAN]
Paths == FileIds \cup {NoFile}

\* A line that is written changes one file, by one metric.
LEMMA LineWritten ==
    ASSUME files \in [FileIds -> File], NEW f \in FileIds,
           NEW k \in Kinds, NEW n \in Names, NEW v \in Values(k)
    PROVE  /\ Line(f, k, n, v) \in [FileIds -> File]
           /\ \A g \in FileIds \ {f} : Line(f, k, n, v)[g] = files[g]
           /\ Line(f, k, n, v)[f].torn = files[f].torn
           /\ Line(f, k, n, v)[f].rows =
                 IF files[f].torn THEN files[f].rows ELSE Add(files[f].rows, k, n, v)
  <1>1. files[f].rows \in Storages /\ files[f].torn \in BOOLEAN
    BY DEF File
  <1>2. Add(files[f].rows, k, n, v) \in Storages
    BY <1>1, AddOne
  <1>3. CASE files[f].torn
    BY <1>1, <1>3 DEF Line
  <1>4. CASE ~files[f].torn
    <2>1. Line(f, k, n, v) = [files EXCEPT ![f].rows = Add(files[f].rows, k, n, v)]
      BY <1>4 DEF Line
    <2> QED BY <1>1, <1>2, <1>4, <2>1 DEF File
  <1> QED BY <1>3, <1>4

\* A line that fails leaves the rows of every file.
LEMMA PartWritten ==
    ASSUME files \in [FileIds -> File], NEW f \in FileIds, NEW now \in PartOfLine(f)
    PROVE  /\ now \in [FileIds -> File]
           /\ \A g \in FileIds : now[g].rows = files[g].rows
  <1>1. CASE now = files
    BY <1>1
  <1>2. CASE now = [files EXCEPT ![f].torn = TRUE]
    <2>1. [files[f] EXCEPT !.torn = TRUE] \in File
          /\ [files[f] EXCEPT !.torn = TRUE].rows = files[f].rows
      BY DEF File
    <2>2. now = [files EXCEPT ![f] = [files[f] EXCEPT !.torn = TRUE]]
      BY <1>2
    <2> QED BY <2>1, <2>2
  <1> QED BY <1>1, <1>2 DEF PartOfLine

\* Opening the path gives the file it leads to, or an empty one that nothing
\* leads to.
LEMMA OpenedFile ==
    ASSUME files \in [FileIds -> File], cur \in Paths, Creatable
    PROVE  /\ Opened \in FileIds /\ WithOpened \in [FileIds -> File]
           /\ \A g \in FileIds \ {Opened} : WithOpened[g] = files[g]
           /\ cur # NoFile => Opened = cur /\ WithOpened = files
           /\ cur = NoFile => Opened \notin InUse /\ WithOpened[Opened] = NewFile
  <1>1. NewFile \in File
    BY EmptyIsStorage DEF NewFile, File
  <1>2. CASE cur # NoFile
    BY <1>2 DEF Opened, WithOpened, Paths
  <1>3. CASE cur = NoFile
    <2>1. Opened \in FileIds /\ Opened \notin InUse
      <3>1. \E f \in FileIds : f \notin InUse
        BY <1>3 DEF Creatable
      <3>2. Opened = CHOOSE f \in FileIds : f \notin InUse
        BY <1>3 DEF Opened
      <3> QED BY <3>1, <3>2, Zenon
    <2>2. WithOpened = [files EXCEPT ![Opened] = NewFile]
      BY <1>3 DEF WithOpened
    <2> HIDE DEF Opened
    <2> QED BY <1>1, <1>3, <2>1, <2>2
  <1> QED BY <1>2, <1>3

-----------------------------------------------------------------------------
(* Types, and the loops of performBackup.                                  *)

Counted   == {"updates", "signals", "crashes", "starts", "faults"}
LoopSteps == {"slice", "pointer", "length", "row", "write"}

Job == [pc : Steps, file : Paths, kind : Kinds, len : Nat, frozen : Seq(Row),
        live : BOOLEAN, next : Nat, copy : Row \cup {<<>>}]

Typed ==
    /\ running \in BOOLEAN /\ ctxDone \in BOOLEAN /\ listening \in BOOLEAN
    /\ rows \in Storages /\ atSignal \in Storages
    /\ filling \in [kind : Kinds, todo : SUBSET {"name", "value"}]
    /\ filling.todo # {} => Len(rows[filling.kind]) > 0
    /\ files \in [FileIds -> File]
    /\ cur \in Paths /\ old \in Paths /\ good \in Paths
    /\ begun \in 0 .. 2 /\ wild \in BOOLEAN
    /\ producer \in [file : Paths, open : BOOLEAN, broken : BOOLEAN]
    /\ job \in [Backupers -> Job]
    /\ request \in [Clients -> Calls \cup {NoRequest}]
    /\ bounds \in [Counted -> Nat]
    /\ running => producer.file \in FileIds

Looping(j) == j.pc \in LoopSteps

\* Where a loop is in the storage: the rows it ranges over are there, in the
\* storage's array or, as far as it goes, in the one the storage has left.
InLoop(j, r) ==
    Looping(j) =>
        /\ j.file \in FileIds
        /\ j.len <= Len(r[j.kind]) /\ j.next \in 1 .. j.len + 1
        /\ ~HasPointer(j) => j.live
        /\ j.pc \notin {"row", "write"} => j.next = 1
        /\ ~j.live =>
              /\ Len(j.frozen) <= Len(r[j.kind])
              /\ \A i \in 1 .. Len(j.frozen) : /\ j.frozen[i] \in RowsOf(j.kind)
                                               /\ j.frozen[i].name = r[j.kind][i].name
        /\ j.pc = "write" => j.next <= j.len /\ j.copy \in RowsOf(j.kind)

LoopInv == \A b \in Backupers : InLoop(job[b], rows)

TypeInv == Typed /\ LoopInv

\* A handler stores a metric; only the synchronous handler keeps the request.
Stores == \E c \in Clients, new \in Calls, unsaved \in Calls \cup {NoRequest} :
             Store(c, new, unsaved) /\ (unsaved = NoRequest \/ SyncMode)

\* The steps that leave the storage, the files and the goroutines.
Process == Signal \/ CloseServer \/ Exit \/ Crash \/ FillRow \/ \E b \in Backupers : Fault(b)

LEMMA NextCases ==
    ASSUME Next
    PROVE  \/ Start \/ Process \/ StopPeriodic \/ Stores
           \/ \E c \in Clients : WriteUpdate(c) \/ WriteUpdateFails(c)
           \/ \E b \in Backupers : PerformBackup(b)
  <1>1. ASSUME NEW c \in Clients, PostUpdate(c) \/ UpdatesGaugesBatch(c) \/ PostHandler(c) \/ StoreUpdate(c)
        PROVE  Stores
    BY <1>1 DEF PostUpdate, UpdatesGaugesBatch, PostHandler, StoreUpdate, Stores, InBody, Named
  <1> QED BY <1>1 DEF Next, Process

\* The rows that are complete, and a row as a loop reads it.
LEMMA FinishedRows ==
    ASSUME Typed
    PROVE  /\ Finished \in Storages
           /\ \A k \in Kinds : /\ Len(Finished[k]) <= Len(rows[k])
                               /\ \A i \in 1 .. Len(Finished[k]) : /\ Finished[k][i] = rows[k][i]
                                                                   /\ IsFilled(k, i)
  <1>1. ASSUME NEW k \in Kinds
        PROVE  /\ Finished[k] \in Seq(Row) /\ Len(Finished[k]) <= Len(rows[k])
               /\ \A i \in 1 .. Len(Finished[k]) : /\ Finished[k][i] = rows[k][i]
                                                   /\ IsFilled(k, i)
    <2>1. rows[k] \in Seq(Row) /\ Len(rows[k]) \in Nat
      BY StorageRows DEF Typed
    <2>2. PICK s \in Seq(Row) : s = rows[k] /\ Len(s) \in Nat
      BY <2>1
    <2>3. CASE IsFilled(k, Len(rows[k]))
      <3>1. Finished[k] = s
        BY <2>2, <2>3 DEF Finished
      <3>2. \A i \in 1 .. Len(s) : IsFilled(k, i)
        BY <2>2, <2>3 DEF IsFilled
      <3> QED BY <2>2, <3>1, <3>2
    <2>4. CASE ~IsFilled(k, Len(rows[k]))
      <3>1. Len(s) > 0
        BY <2>2, <2>4 DEF IsFilled, Typed
      <3>2. Finished[k] = SubSeq(s, 1, Len(s) - 1)
        BY <2>2, <2>4 DEF Finished
      <3>3. PICK m \in Nat : m = Len(s) - 1
        BY <2>2, <3>1
      <3>4. /\ SubSeq(s, 1, m) \in Seq(Row) /\ Len(SubSeq(s, 1, m)) = m
            /\ \A i \in 1 .. m : SubSeq(s, 1, m)[i] = s[i]
        BY <2>2, <3>3
      <3>5. \A i \in 1 .. m : IsFilled(k, i)
        BY <2>2, <3>3 DEF IsFilled
      <3> QED BY <2>2, <3>2, <3>3, <3>4, <3>5
    <2> QED BY <2>3, <2>4
  <1>2. Finished \in [Kinds -> Seq(Row)]
    <2>1. Finished = [k \in Kinds |-> Finished[k]]
      BY DEF Finished
    <2> QED BY <1>1, <2>1
  <1>3. ASSUME NEW k \in Kinds, NEW i \in 1 .. Len(Finished[k])
        PROVE  /\ Finished[k][i].value \in Values(k)
               /\ \A x \in 1 .. Len(Finished[k]) : Finished[k][i].name = Finished[k][x].name => i = x
    <2>1. /\ Len(rows[k]) \in Nat /\ Len(Finished[k]) \in Nat
          /\ \A x \in 1 .. Len(rows[k]) : rows[k][x] \in RowsOf(k)
          /\ \A x, y \in 1 .. Len(rows[k]) : rows[k][x].name = rows[k][y].name => x = y
      BY <1>1, StorageRows DEF Typed
    <2>2. \A x \in 1 .. Len(Finished[k]) : x \in 1 .. Len(rows[k]) /\ Finished[k][x] = rows[k][x]
      BY <1>1, <2>1
    <2> QED BY <2>1, <2>2 DEF RowsOf
  <1>4. Finished \in Storages
    BY <1>2, <1>3, RowsAreStorage
  <1> QED BY <1>1, <1>4

LEMMA WordsRow ==
    ASSUME Typed, NEW k \in Kinds, NEW i \in 1 .. Len(rows[k])
    PROVE  /\ rows[k][i] \in RowsOf(k) /\ Words(k, i) \in RowsOf(k)
           /\ Words(k, i).name \in {Unnamed, rows[k][i].name}
           /\ Words(k, i).value \in {0, rows[k][i].value}
           /\ IsFilled(k, i) => Words(k, i) = rows[k][i]
  <1>1. rows[k][i] \in RowsOf(k)
    BY StorageRows DEF Typed
  <1>2. 0 \in Values(k) /\ Unnamed \in Names
    BY NameAssumption, HalfRangeAssumption DEF Values
  <1> QED BY <1>1, <1>2 DEF Words, RowsOf

\* s has the rows of r, perhaps with other values, and perhaps more rows.
Grows(r, s) ==
    \A x \in Kinds : /\ Len(r[x]) <= Len(s[x])
                     /\ \A i \in 1 .. Len(r[x]) : s[x][i].name = r[x][i].name

\* A loop stays right when the storage grows, with the array it has ...
LEMMA LoopGoesOn ==
    ASSUME NEW r \in Storages, NEW s \in Storages, Grows(r, s),
           NEW j \in Job, InLoop(j, r)
    PROVE  InLoop(j, s)
  <1> SUFFICES ASSUME Looping(j) PROVE InLoop(j, s)
    BY DEF InLoop
  <1>1. j.kind \in Kinds /\ j.len \in Nat /\ j.next \in Nat /\ Len(j.frozen) \in Nat
    BY DEF Job
  <1>2. PICK k : k = j.kind
    OBVIOUS
  <1>3. Len(r[k]) \in Nat /\ Len(s[k]) \in Nat
    BY <1>1, <1>2, StorageRows
  <1>4. Len(r[k]) <= Len(s[k]) /\ \A i \in 1 .. Len(r[k]) : s[k][i].name = r[k][i].name
    BY <1>1, <1>2 DEF Grows
  <1>5. j.len <= Len(r[k])
    BY <1>2 DEF InLoop
  <1>6. ASSUME ~j.live
        PROVE  /\ Len(j.frozen) <= Len(s[k])
               /\ \A i \in 1 .. Len(j.frozen) : /\ j.frozen[i] \in RowsOf(k)
                                                /\ j.frozen[i].name = s[k][i].name
    <2>1. /\ Len(j.frozen) <= Len(r[k])
          /\ \A i \in 1 .. Len(j.frozen) : /\ j.frozen[i] \in RowsOf(k)
                                           /\ j.frozen[i].name = r[k][i].name
      BY <1>2, <1>6 DEF InLoop
    <2> QED BY <1>1, <1>3, <1>4, <2>1
  <1>7. j.len <= Len(s[k])
    BY <1>1, <1>3, <1>4, <1>5
  <1> QED BY <1>2, <1>6, <1>7 DEF InLoop

\* ... and when it is left with the rows that were there.
Left(j, r) == [j EXCEPT !.live = FALSE, !.frozen = r[j.kind]]

LEMMA LoopLeftBehind ==
    ASSUME NEW r \in Storages, NEW s \in Storages, Grows(r, s),
           NEW j \in Job, InLoop(j, r), HasPointer(j), j.live
    PROVE  /\ Left(j, r) \in Job /\ InLoop(Left(j, r), s)
           /\ Left(j, r).frozen = r[j.kind] /\ ~Left(j, r).live
           /\ Left(j, r).pc = j.pc /\ Left(j, r).file = j.file /\ Left(j, r).kind = j.kind
           /\ Left(j, r).len = j.len /\ Left(j, r).next = j.next /\ Left(j, r).copy = j.copy
  <1>1. j.kind \in Kinds /\ j.len \in Nat /\ j.next \in Nat
    BY DEF Job
  <1>2. PICK k \in Kinds : k = j.kind
    BY <1>1
  <1>3. PICK kept \in Seq(Row) :
           /\ kept = r[k] /\ Len(kept) \in Nat
           /\ \A i \in 1 .. Len(kept) : kept[i] \in RowsOf(k)
    BY StorageRows
  <1>4. Left(j, r) = [j EXCEPT !.live = FALSE, !.frozen = kept]
    BY <1>2, <1>3 DEF Left
  <1>5. /\ Left(j, r) \in Job /\ Left(j, r).frozen = kept /\ ~Left(j, r).live
        /\ Left(j, r).pc = j.pc /\ Left(j, r).file = j.file /\ Left(j, r).kind = k
        /\ Left(j, r).len = j.len /\ Left(j, r).next = j.next /\ Left(j, r).copy = j.copy
    BY <1>2, <1>4 DEF Job
  <1>6. InLoop(Left(j, r), r)
    BY <1>2, <1>3, <1>5 DEF InLoop, Looping, HasPointer, LoopSteps
  <1>7. InLoop(Left(j, r), s)
    BY <1>5, <1>6, LoopGoesOn
  <1> QED BY <1>2, <1>3, <1>5, <1>7

\* An update stores one metric and moves no loop; a loop whose array the
\* storage leaves keeps the rows it had.
LEMMA StoreMoves ==
    ASSUME TypeInv, NEW c \in Clients, NEW new \in Calls, NEW unsaved,
           Store(c, new, unsaved)
    PROVE  /\ new.kind \in Kinds /\ new.name \in Names /\ new.value \in Values(new.kind)
           /\ rows' = Add(rows, new.kind, new.name, new.value) /\ rows' \in Storages
           /\ Grows(rows, rows')
           /\ job' \in [Backupers -> Job]
           /\ \A b \in Backupers :
                 /\ \/ job'[b] = job[b]
                    \/ HasPointer(job[b]) /\ job[b].live /\ job'[b] = Left(job[b], rows)
                 /\ job'[b].pc = job[b].pc /\ job'[b].file = job[b].file
                 /\ job'[b].kind = job[b].kind /\ job'[b].next = job[b].next
                 /\ job'[b].len = job[b].len /\ job'[b].copy = job[b].copy
                 /\ InLoop(job'[b], rows')
  <1>1. new.kind \in Kinds /\ new.name \in Names /\ new.value \in Values(new.kind)
    BY CallFields
  <1>2. rows' = Add(rows, new.kind, new.name, new.value) /\ rows \in Storages
    BY DEF Store, TypeInv, Typed
  <1>3. rows' \in Storages /\ Grows(rows, rows')
    BY <1>1, <1>2, AddOne DEF Grows
  <1>4. ASSUME NEW b \in Backupers
        PROVE  /\ job'[b] \in Job
               /\ \/ job'[b] = job[b]
                  \/ HasPointer(job[b]) /\ job[b].live /\ job'[b] = Left(job[b], rows)
               /\ job'[b].pc = job[b].pc /\ job'[b].file = job[b].file
               /\ job'[b].kind = job[b].kind /\ job'[b].next = job[b].next
               /\ job'[b].len = job[b].len /\ job'[b].copy = job[b].copy
               /\ InLoop(job'[b], rows')
    <2>1. job[b] \in Job /\ InLoop(job[b], rows)
      BY DEF TypeInv, Typed, LoopInv
    <2>2. \/ job'[b] = job[b]
          \/ HasPointer(job[b]) /\ job[b].live /\ job'[b] = Left(job[b], rows)
      <3>1. job' = [x \in Backupers |->
                      IF /\ HasPointer(job[x]) /\ job[x].kind = new.kind /\ job[x].live
                         /\ Position(rows, new.kind, new.name) = {}
                         /\ ArrayFull(Len(rows[new.kind]))
                      THEN [job[x] EXCEPT !.live = FALSE, !.frozen = rows[new.kind]]
                      ELSE job[x]]
        BY Zenon DEF Store, Freeze
      <3>2. \/ job'[b] = job[b]
            \/ /\ HasPointer(job[b]) /\ job[b].kind = new.kind /\ job[b].live
               /\ job'[b] = [job[b] EXCEPT !.live = FALSE, !.frozen = rows[new.kind]]
        BY <3>1, Zenon
      <3> QED BY <3>2 DEF Left
    <2>3. CASE job'[b] = job[b]
      BY <1>2, <1>3, <2>1, <2>3, LoopGoesOn
    <2>4. CASE HasPointer(job[b]) /\ job[b].live /\ job'[b] = Left(job[b], rows)
      BY <1>2, <1>3, <2>1, <2>4, LoopLeftBehind
    <2> QED BY <2>2, <2>3, <2>4
  <1>5. job' \in [Backupers -> Job]
    <2>1. job' = [b \in Backupers |-> job'[b]]
      BY DEF Store, Freeze
    <2> QED BY <1>4, <2>1
  <1> QED BY <1>1, <1>2, <1>3, <1>4, <1>5

\* One goroutine moves on, and the storage stays.
LEMMA OneMoves ==
    ASSUME TypeInv, NEW b \in Backupers, NEW j \in Job, InLoop(j, rows),
           job' = [job EXCEPT ![b] = j], rows' = rows
    PROVE  job' \in [Backupers -> Job] /\ LoopInv'
  BY DEF TypeInv, Typed, LoopInv

LEMMA IdleJob ==
    /\ Idle \in Job
    /\ \A b, r : /\ Returned(b) \in Job /\ ~Looping(Returned(b)) /\ InLoop(Returned(b), r)
                 /\ Returned(b).pc \in {"wait", "done"}
                 /\ b # periodic => Returned(b).pc = "done"
    /\ \A pc \in Steps : [Idle EXCEPT !.pc = pc] \in Job
  <1>0. <<>> \in Seq(Row)
    OBVIOUS
  <1>1. PICK none : none = <<>> /\ none \in Seq(Row)
    BY <1>0, Zenon
  <1>2. Idle = [pc |-> "wait", file |-> NoFile, kind |-> "gauge", len |-> 0, frozen |-> none,
                live |-> TRUE, next |-> 1, copy |-> none]
    BY <1>1 DEF Idle
  <1>3. Idle \in Job
    BY <1>1, <1>2 DEF Job, Steps, Paths, Kinds
  <1>4. \A pc \in Steps : [Idle EXCEPT !.pc = pc] \in Job /\ [Idle EXCEPT !.pc = pc].pc = pc
    BY <1>3 DEF Job
  <1> QED BY <1>3, <1>4 DEF Returned, Steps, Looping, LoopSteps, InLoop

\* A goroutine that goes on outside of the loops.
LEMMA GotoJob ==
    ASSUME NEW j \in Job, NEW pc \in Steps \ LoopSteps, NEW r
    PROVE  LET g == [j EXCEPT !.pc = pc]
           IN  g \in Job /\ g.pc = pc /\ ~Looping(g) /\ InLoop(g, r)
  BY DEF Job, Looping, InLoop

\* A loop starts at the first row, before it has its slice.
LEMMA LoopJob ==
    ASSUME rows \in Storages, NEW j \in Job, j.file \in FileIds, NEW k \in Kinds
    PROVE  /\ Loop(j, k) \in Job /\ InLoop(Loop(j, k), rows)
           /\ Loop(j, k).pc = "slice" /\ Loop(j, k).file = j.file /\ Loop(j, k).kind = k
           /\ Loop(j, k).next = 1 /\ Loop(j, k).live
  <1> DEFINE g == [j EXCEPT !.pc = "slice", !.kind = k]
             h == [g EXCEPT !.next = 1, !.len = 0]
  <1>1. Len(rows[k]) \in Nat
    BY StorageRows
  <1>0. <<>> \in Seq(Row)
    OBVIOUS
  <1>2. PICK none : none = <<>> /\ none \in Seq(Row)
    BY <1>0, Zenon
  <1>3. Loop(j, k) = [h EXCEPT !.live = TRUE, !.frozen = none]
    BY <1>2, Zenon DEF Loop
  <1>4. g \in Job /\ g.pc = "slice" /\ g.kind = k /\ g.file = j.file
    BY DEF Job, Steps
  <1> HIDE DEF g
  <1>5. h \in Job /\ h.pc = "slice" /\ h.kind = k /\ h.file = j.file /\ h.next = 1 /\ h.len = 0
    BY <1>4 DEF Job
  <1> HIDE DEF h
  <1>6. /\ Loop(j, k) \in Job
        /\ Loop(j, k).pc = "slice" /\ Loop(j, k).file = j.file /\ Loop(j, k).kind = k
        /\ Loop(j, k).len = 0 /\ Loop(j, k).next = 1 /\ Loop(j, k).live
    BY <1>2, <1>3, <1>5 DEF Job
  <1> QED BY <1>1, <1>6 DEF InLoop

\* What a loop keeps from one step to the next.
SameLoop(j, g) ==
    /\ g.file = j.file /\ g.kind = j.kind /\ g.next = j.next
    /\ g.live = j.live /\ g.frozen = j.frozen

\* It loads the pointer ...
LEMMA PointerJob ==
    ASSUME rows \in Storages, NEW j \in Job, InLoop(j, rows),
           NEW pc, <<j.pc, pc>> \in {<<"slice", "pointer">>, <<"length", "row">>}
    PROVE  LET g == [j EXCEPT !.pc = pc]
           IN  g \in Job /\ InLoop(g, rows) /\ g.pc = pc /\ g.len = j.len /\ SameLoop(j, g)
  <1> DEFINE g == [j EXCEPT !.pc = pc]
  <1>1. g \in Job /\ g.pc = pc /\ g.len = j.len /\ SameLoop(j, g) /\ g.copy = j.copy
    BY DEF Job, Steps, SameLoop
  <1>2. Looping(j) /\ j.live /\ ~HasPointer(j)
    BY DEF Looping, LoopSteps, HasPointer, InLoop
  <1> HIDE DEF g
  <1>3. InLoop(g, rows)
    BY <1>1, <1>2 DEF InLoop, SameLoop, HasPointer
  <1> QED BY <1>1, <1>3 DEF g

\* ... and the length.
WithLength(j, pc, r) == [j EXCEPT !.pc = pc, !.len = Len(r[j.kind])]

LEMMA LengthJob ==
    ASSUME rows \in Storages, NEW j \in Job, InLoop(j, rows),
           NEW pc, <<j.pc, pc>> \in {<<"slice", "length">>, <<"pointer", "row">>},
           NEW g, g = WithLength(j, pc, rows)
    PROVE  /\ g \in Job /\ InLoop(g, rows) /\ g.pc = pc /\ g.len = Len(rows[j.kind])
           /\ SameLoop(j, g)
  <1>0. PICK k \in Kinds : k = j.kind
    BY DEF Job
  <1>1. PICK m \in Nat : m = Len(rows[k])
    BY StorageRows
  <1>2. g = [j EXCEPT !.pc = pc, !.len = m]
    BY <1>0, <1>1 DEF WithLength
  <1>3. g \in Job /\ g.pc = pc /\ g.len = m /\ SameLoop(j, g)
    BY <1>2 DEF Job, Steps, SameLoop
  <1>4. Looping(j) /\ j.next = 1 /\ (pc = "length" => j.live)
    BY DEF Looping, LoopSteps, HasPointer, InLoop
  <1>5. InLoop(g, rows)
    BY <1>0, <1>1, <1>3, <1>4 DEF InLoop, SameLoop, HasPointer
  <1> QED BY <1>0, <1>1, <1>3, <1>5

\* The loop reads a row, of whatever value.
LEMMA ReadJob ==
    ASSUME rows \in Storages, NEW j \in Job, InLoop(j, rows), j.pc = "row", j.next <= j.len,
           NEW row \in RowsOf(j.kind)
    PROVE  LET g == [j EXCEPT !.pc = "write", !.copy = row]
           IN  /\ g \in Job /\ InLoop(g, rows) /\ g.pc = "write" /\ g.len = j.len
               /\ g.copy = row /\ SameLoop(j, g)
  <1> DEFINE g == [j EXCEPT !.pc = "write", !.copy = row]
  <1>1. PICK k \in Kinds : k = j.kind
    BY DEF Job
  <1>2. RowsOf(k) \subseteq Row
    BY HalfRangeAssumption DEF RowsOf, Row, Values
  <1>3. /\ g \in Job /\ g.pc = "write" /\ g.len = j.len /\ g.copy = row /\ SameLoop(j, g)
    BY <1>1, <1>2 DEF Job, Steps, SameLoop
  <1>4. Looping(j)
    BY DEF Looping, LoopSteps
  <1> HIDE DEF g
  <1>5. InLoop(g, rows)
    BY <1>1, <1>3, <1>4 DEF InLoop, SameLoop, HasPointer
  <1> QED BY <1>3, <1>5 DEF g

\* The row that a loop reads when its array has it.
LEMMA RowJob ==
    ASSUME Typed, NEW j \in Job, InLoop(j, rows), j.pc = "row", j.next <= j.len, ~PastEnd(j),
           NEW row, row = IF j.live THEN Words(j.kind, j.next) ELSE j.frozen[j.next]
    PROVE  /\ row \in RowsOf(j.kind) /\ j.next \in 1 .. Len(rows[j.kind])
           /\ row.name \in {Unnamed, rows[j.kind][j.next].name}
           /\ j.live \/ row.name = rows[j.kind][j.next].name
  <1>1. PICK k \in Kinds : k = j.kind
    BY DEF Job
  <1>2. /\ Looping(j) /\ j.len \in Nat /\ j.next \in 1 .. j.len /\ j.len <= Len(rows[k])
        /\ Len(rows[k]) \in Nat /\ j.next \in 1 .. Len(rows[k])
    <2>1. Looping(j) /\ j.len \in Nat /\ j.next \in 1 .. j.len /\ j.len <= Len(rows[k])
      BY <1>1 DEF Looping, LoopSteps, Job, InLoop
    <2>2. Len(rows[k]) \in Nat
      BY StorageRows DEF Typed
    <2> QED BY <2>1, <2>2
  <1>3. CASE j.live
    BY <1>1, <1>2, <1>3, WordsRow
  <1>4. CASE ~j.live
    <2>1. Len(j.frozen) \in Nat /\ j.next \in 1 .. Len(j.frozen)
      BY <1>2, <1>4 DEF PastEnd, Job
    <2> QED BY <1>1, <1>2, <1>4, <2>1 DEF InLoop
  <1> QED BY <1>1, <1>2, <1>3, <1>4

\* The loop goes on to the next row.
LEMMA WroteJob ==
    ASSUME rows \in Storages, NEW j \in Job, InLoop(j, rows), j.pc = "write"
    PROVE  LET g == [j EXCEPT !.pc = "row", !.next = @ + 1, !.copy = <<>>]
           IN  /\ g \in Job /\ InLoop(g, rows)
               /\ g.pc = "row" /\ g.file = j.file /\ g.kind = j.kind /\ g.len = j.len
               /\ g.next = j.next + 1 /\ g.live = j.live /\ g.frozen = j.frozen
  <1> DEFINE g == [j EXCEPT !.pc = "row", !.next = @ + 1, !.copy = <<>>]
  <1>1. g \in Job /\ g.pc = "row" /\ g.file = j.file /\ g.kind = j.kind /\ g.len = j.len
        /\ g.next = j.next + 1 /\ g.live = j.live /\ g.frozen = j.frozen
    <2>0. PICK m \in Nat : m = j.next + 1
      BY DEF Job
    <2> DEFINE h == [j EXCEPT !.pc = "row", !.next = m]
    <2>1. h \in Job /\ h.pc = "row" /\ h.file = j.file /\ h.kind = j.kind /\ h.len = j.len
          /\ h.next = m /\ h.live = j.live /\ h.frozen = j.frozen
      BY DEF Job, Steps
    <2>2. g = [h EXCEPT !.copy = <<>>]
      BY <2>0
    <2> HIDE DEF g, h
    <2> QED BY <2>0, <2>1, <2>2 DEF Job
  <1>2. j.len \in Nat /\ j.next \in Nat /\ Looping(j)
    BY DEF Job, Looping, LoopSteps
  <1> HIDE DEF g
  <1>3. InLoop(g, rows)
    BY <1>1, <1>2 DEF InLoop, HasPointer
  <1> QED BY <1>1, <1>3 DEF g

LEMMA TypeInit == Init => TypeInv
  <1> SUFFICES ASSUME Init PROVE TypeInv
    OBVIOUS
  <1>1. NewFile \in File
    BY EmptyIsStorage DEF NewFile, File
  <1>2. files \in [FileIds -> File] /\ cur \in Paths
    <2>1. CASE cur = NoFile /\ files = [f \in FileIds |-> NewFile]
      BY <1>1, <2>1 DEF Paths
    <2>2. ASSUME NEW r \in Earlier, cur = CHOOSE f \in FileIds : TRUE,
                 files = [f \in FileIds |->
                             IF f = cur THEN [NewFile EXCEPT !.rows = r] ELSE NewFile]
          PROVE  files \in [FileIds -> File] /\ cur \in Paths
      <3>1. [NewFile EXCEPT !.rows = r] \in File
        BY <1>1, EarlierAssumption DEF File
      <3>2. cur \in FileIds
        BY <2>2, FileAssumption, Zenon
      <3> QED BY <1>1, <2>2, <3>1, <3>2 DEF Paths
    <2> QED BY <2>1, <2>2 DEF Init
  <1>3. bounds \in [Counted -> Nat]
    BY BackupBoundAssumption DEF Init, Counted
  <1>4. job \in [Backupers -> Job] /\ \A b \in Backupers : ~Looping(job[b])
    BY IdleJob DEF Init, Idle, Looping, LoopSteps
  <1>5. filling \in [kind : Kinds, todo : SUBSET {"name", "value"}] /\ filling.todo = {}
    BY DEF Init, Filled, Kinds
  <1>6. Typed
    <2>1. /\ good \in Paths /\ begun \in 0 .. 2 /\ wild \in BOOLEAN /\ rows \in Storages
          /\ atSignal \in Storages /\ old \in Paths
      <3>1. good = cur /\ begun = 0 /\ wild = FALSE /\ rows = Empty /\ atSignal = Empty /\ old = NoFile
        BY DEF Init
      <3>2. Empty \in Storages
        BY EmptyIsStorage
      <3>3. begun \in 0 .. 2
        BY <3>1
      <3>4. good \in Paths /\ wild \in BOOLEAN /\ rows \in Storages /\ atSignal \in Storages
            /\ old \in Paths
        BY <1>2, <3>1, <3>2, Zenon DEF Paths
      <3> QED BY <3>3, <3>4
    <2>2. /\ producer \in [file : Paths, open : BOOLEAN, broken : BOOLEAN]
          /\ request \in [Clients -> Calls \cup {NoRequest}]
          /\ running = FALSE /\ ctxDone = FALSE /\ listening = FALSE
      BY DEF Init, Paths
    <2> QED BY <1>2, <1>3, <1>4, <1>5, <2>1, <2>2 DEF Typed
  <1> QED BY <1>4, <1>6 DEF TypeInv, LoopInv, InLoop

\* The counters of the bounds.
LEMMA CountTyped ==
    ASSUME bounds \in [Counted -> Nat], NEW kind \in Counted, Count(kind)
    PROVE  /\ bounds' \in [Counted -> Nat] /\ bounds'[kind] = bounds[kind] + 1
           /\ \A k \in Counted \ {kind} : bounds'[k] = bounds[k]
  BY DEF Count

LEMMA TypeStart == ASSUME TypeInv, Start PROVE TypeInv'
  <1>1. /\ Opened \in FileIds /\ WithOpened \in [FileIds -> File]
    BY OpenedFile DEF Start, TypeInv, Typed
  <1>2. rows' \in Storages
    BY <1>1, EmptyIsStorage DEF Start, File
  <1>3. job' \in [Backupers -> Job] /\ \A b \in Backupers : ~Looping(job'[b])
    BY IdleJob DEF Start, Steps, Idle, Looping, LoopSteps
  <1>4. bounds' \in [Counted -> Nat]
    BY CountTyped DEF Start, TypeInv, Typed, Counted
  <1>5. filling' \in [kind : Kinds, todo : SUBSET {"name", "value"}] /\ filling'.todo = {}
    BY DEF Start, Filled, Kinds
  <1>6. Typed'
    BY <1>1, <1>2, <1>3, <1>4, <1>5, EmptyIsStorage DEF Start, TypeInv, Typed, Paths
  <1> QED BY <1>3, <1>6 DEF TypeInv, LoopInv, InLoop

\* The steps of the process that start nothing: what they leave, and how the
\* last row is completed.
LEMMA ProcessMoves ==
    ASSUME TypeInv, Process
    PROVE  /\ UNCHANGED <<rows, files, cur, old, job, request, good, begun, wild, had>>
           /\ running /\ running' \in BOOLEAN /\ ctxDone' \in BOOLEAN /\ listening' \in BOOLEAN
           /\ \/ producer' = producer
              \/ producer' = [producer EXCEPT !.open = FALSE]
           /\ bounds' \in [Counted -> Nat]
           /\ filling' \in [kind : Kinds, todo : SUBSET {"name", "value"}]
           /\ filling' = filling \/ filling' = Filled \/ filling'.kind = filling.kind
           /\ filling'.todo \subseteq filling.todo
           /\ \/ Signal
              \/ /\ atSignal' = atSignal /\ since' = since
                 /\ bounds'["signals"] = bounds["signals"] /\ (ctxDone' => ctxDone)
  <1>1. /\ filling \in [kind : Kinds, todo : SUBSET {"name", "value"}]
        /\ bounds \in [Counted -> Nat]
        /\ running \in BOOLEAN /\ ctxDone \in BOOLEAN /\ listening \in BOOLEAN
    BY DEF TypeInv, Typed
  <1>2. CASE Signal
    BY <1>1, <1>2, CountTyped DEF Signal, Counted
  <1>3. CASE CloseServer \/ Exit
    BY <1>1, <1>3 DEF CloseServer, Exit
  <1>4. CASE Crash
    BY <1>1, <1>4, CountTyped DEF Crash, Dies, Counted
  <1>5. CASE \E b \in Backupers : Fault(b)
    BY <1>1, <1>5 DEF Fault, Dies, At, counts
  <1>6. CASE FillRow
    <2>1. PICK word \in filling.todo :
             filling' = IF filling.todo = {word} THEN Filled
                        ELSE [filling EXCEPT !.todo = @ \ {word}]
      BY <1>6 DEF FillRow
    <2>2. filling' = Filled \/ filling' = [filling EXCEPT !.todo = filling.todo \ {word}]
      BY <2>1
    <2>3. /\ filling' \in [kind : Kinds, todo : SUBSET {"name", "value"}]
          /\ filling' = filling \/ filling' = Filled \/ filling'.kind = filling.kind
          /\ filling'.todo \subseteq filling.todo
      BY <1>1, <2>2 DEF Filled, Kinds
    <2> QED BY <1>1, <1>6, <2>3 DEF FillRow
  <1> QED BY <1>2, <1>3, <1>4, <1>5, <1>6 DEF Process

LEMMA TypeProcess == ASSUME TypeInv, Process PROVE TypeInv'
  <1>1. atSignal' \in Storages
    BY FinishedRows, ProcessMoves DEF TypeInv, Typed, Signal
  <1>2. producer' \in [file : Paths, open : BOOLEAN, broken : BOOLEAN]
        /\ producer'.file = producer.file
    BY ProcessMoves DEF TypeInv, Typed
  <1>3. filling'.todo # {} => filling'.kind = filling.kind /\ filling.todo # {}
    BY ProcessMoves DEF Filled
  <1>4. Typed'
    BY <1>1, <1>2, <1>3, ProcessMoves DEF TypeInv, Typed
  <1>5. LoopInv'
    BY ProcessMoves DEF TypeInv, LoopInv
  <1> QED BY <1>4, <1>5 DEF TypeInv

\* What an update does to the last row of a slice: either it was complete and
\* stays so, or there is one more row.
LEMMA StoreFills ==
    ASSUME TypeInv, NEW c \in Clients, NEW new \in Calls, NEW unsaved,
           Store(c, new, unsaved)
    PROVE  /\ filling.todo = {}
           /\ filling' \in [kind : Kinds, todo : SUBSET {"name", "value"}]
           /\ \/ filling' = filling /\ Lookup(rows, new.kind, new.name) # Absent
              \/ /\ filling' = [kind |-> new.kind, todo |-> {"name", "value"}]
                 /\ Lookup(rows, new.kind, new.name) = Absent
                 /\ Len(rows'[new.kind]) = Len(rows[new.kind]) + 1
                 /\ rows'[new.kind][Len(rows'[new.kind])] = [name |-> new.name, value |-> new.value]
  <1>1. new.kind \in Kinds /\ new.name \in Names /\ new.value \in Values(new.kind)
    BY CallFields
  <1>2. PICK k \in Kinds : k = new.kind
    BY <1>1
  <1>3. /\ rows \in [Kinds -> Seq(Row)] /\ rows[k] \in Seq(Row) /\ rows \in Storages
        /\ DOMAIN rows[k] = 1 .. Len(rows[k])
    BY StorageRows DEF TypeInv, Typed
  <1>4. CASE Position(rows, k, new.name) = {}
    <2> DEFINE row == [name |-> new.name, value |-> new.value]
    <2>1. \A i \in 1 .. Len(rows[k]) : rows[k][i].name # new.name
      BY <1>3, <1>4 DEF Position
    <2>2. Lookup(rows, k, new.name) = Absent
      BY <1>3, <2>1, LookupRow
    <2>3. rows' = [rows EXCEPT ![k] = Append(rows[k], row)]
      BY <1>2, <1>3, <1>4 DEF Store, Add
    <2>4. rows'[k] = Append(rows[k], row)
      BY <1>3, <2>3
    <2>5. row \in Row
      BY <1>1, <1>2, HalfRangeAssumption DEF Row, Values
    <2> HIDE DEF row
    <2>6. Len(rows'[k]) = Len(rows[k]) + 1 /\ rows'[k][Len(rows'[k])] = row
      BY <1>3, <2>4, <2>5, AppendAt
    <2>7. filling' = [kind |-> k, todo |-> {"name", "value"}] /\ filling.todo = {}
      BY <1>2, <1>4 DEF Store, MutexFree
    <2> QED BY <1>2, <2>2, <2>6, <2>7 DEF row
  <1>5. CASE Position(rows, k, new.name) # {}
    <2>1. PICK i \in 1 .. Len(rows[k]) : rows[k][i].name = new.name
      BY <1>3, <1>5 DEF Position
    <2>2. Lookup(rows, k, new.name) # Absent
      BY <1>3, <2>1, LookupRow
    <2> QED BY <1>2, <1>5, <2>2 DEF Store, MutexFree, TypeInv, Typed
  <1> QED BY <1>4, <1>5

LEMMA TypeStores == ASSUME TypeInv, Stores PROVE TypeInv'
  <1>1. PICK c \in Clients, new \in Calls, unsaved \in Calls \cup {NoRequest} :
           Store(c, new, unsaved)
    BY DEF Stores
  <1>2. rows' \in Storages /\ job' \in [Backupers -> Job] /\ LoopInv'
    BY <1>1, StoreMoves DEF LoopInv
  <1>3. bounds' \in [Counted -> Nat]
    BY <1>1, CountTyped DEF TypeInv, Typed, Counted, Store
  <1>4. /\ filling' \in [kind : Kinds, todo : SUBSET {"name", "value"}]
        /\ filling'.todo # {} => Len(rows'[filling'.kind]) > 0
    <2>1. new.kind \in Kinds /\ Len(rows[new.kind]) \in Nat
      BY <1>1, StoreMoves, StorageRows DEF TypeInv, Typed
    <2>2. CASE filling' = filling
      BY <1>1, <2>2, StoreFills
    <2>3. CASE /\ filling' = [kind |-> new.kind, todo |-> {"name", "value"}]
               /\ Len(rows'[new.kind]) = Len(rows[new.kind]) + 1
      BY <1>1, <2>1, <2>3, StoreFills
    <2> QED BY <1>1, <2>2, <2>3, StoreFills
  <1> QED BY <1>1, <1>2, <1>3, <1>4 DEF TypeInv, Typed, Store

LEMMA TypeWrites ==
    ASSUME TypeInv, NEW c \in Clients, WriteUpdate(c) \/ WriteUpdateFails(c)
    PROVE  TypeInv' /\ request[c] \in Calls /\ producer.file \in FileIds
  <1>1. request[c] \in Calls /\ producer.file \in FileIds
    BY DEF TypeInv, Typed, WriteUpdate, WriteUpdateFails
  <1>2. files' \in [FileIds -> File]
    <2>1. request[c].kind \in Kinds /\ request[c].name \in Names
          /\ request[c].value \in Values(request[c].kind)
      BY <1>1, CallFields
    <2>2. files' = files \/ files' \in PartOfLine(producer.file) \/
          files' = Line(producer.file, request[c].kind, request[c].name, request[c].value)
      BY DEF WriteUpdate, WriteUpdateFails, Event
    <2> QED BY <1>1, <2>1, <2>2, LineWritten, PartWritten DEF TypeInv, Typed
  <1>3. bounds' \in [Counted -> Nat]
    BY CountTyped DEF TypeInv, Typed, Counted, WriteUpdate, WriteUpdateFails, CountFault
  <1>4. producer' \in {producer, [producer EXCEPT !.broken = TRUE]}
        /\ request' = [request EXCEPT ![c] = NoRequest]
        /\ UNCHANGED <<running, ctxDone, listening, rows, filling, cur, old, job, good, begun,
                       wild, atSignal>>
    BY DEF WriteUpdate, WriteUpdateFails, Answered
  <1> QED BY <1>1, <1>2, <1>3, <1>4 DEF TypeInv, Typed, LoopInv

\* One goroutine moves on in performBackup, and the storage stays.
LEMMA TypeMoves ==
    ASSUME TypeInv, NEW b \in Backupers, NEW j \in Job, InLoop(j, rows),
           job' = [job EXCEPT ![b] = j], UNCHANGED processVars,
           files' \in [FileIds -> File], cur' \in Paths, old' \in Paths, good' \in Paths,
           begun' \in 0 .. 2, wild' \in BOOLEAN,
           producer' \in {producer, [producer EXCEPT !.open = FALSE]},
           UNCHANGED counts \/ CountFault
    PROVE  TypeInv'
  <1>1. job' \in [Backupers -> Job] /\ LoopInv'
    BY OneMoves DEF processVars
  <1>2. bounds' \in [Counted -> Nat]
    BY CountTyped DEF TypeInv, Typed, Counted, CountFault, counts
  <1>3. producer' \in [file : Paths, open : BOOLEAN, broken : BOOLEAN]
        /\ producer'.file = producer.file
    BY DEF TypeInv, Typed
  <1> QED BY <1>1, <1>2, <1>3 DEF TypeInv, Typed, processVars

\* What a step of performBackup does to the files, the goroutine and the
\* history; the rest of the state it leaves.
Still == UNCHANGED <<files, cur, old>>
Aside == UNCHANGED <<producer, good, begun, wild>>

Begins(b)  == /\ Still /\ job[b].pc = "wait" /\ job'[b].pc = "remove" /\ (b # periodic => ctxDone)
              /\ producer' = [producer EXCEPT !.open = FALSE]
              /\ good' = good /\ begun' = (IF begun = 0 THEN 1 ELSE 2) /\ wild' = wild
Removes(b) == /\ Aside /\ files' = files /\ cur' = cur /\ old' \in {old, NoFile}
              /\ job[b].pc = "remove" /\ job'[b].pc = "rename"
Rotates(b) == /\ Aside /\ files' = files /\ cur' = NoFile
              /\ old' = IF cur = NoFile THEN old ELSE cur
              /\ job[b].pc = "rename" /\ job'[b].pc = "create"
Opens(b)   == /\ Aside /\ Creatable /\ cur' = Opened /\ files' = WithOpened /\ old' = old
              /\ job[b].pc = "create" /\ job'[b].pc = "slice"
              /\ job'[b].file = Opened /\ job'[b].kind = "gauge"
              /\ job'[b].next = 1 /\ job'[b].live
Loads(b)   == /\ Aside /\ Still /\ SameLoop(job[b], job'[b])
              /\ \/ /\ job'[b].len = job[b].len
                    /\ \/ job[b].pc = "slice" /\ job'[b].pc = "pointer"
                       \/ job[b].pc = "length" /\ job'[b].pc = "row"
                 \/ /\ job'[b].len = Len(rows[job[b].kind])
                    /\ \/ job[b].pc = "slice" /\ job'[b].pc = "length"
                       \/ job[b].pc = "pointer" /\ job'[b].pc = "row"
Reads(b)   == /\ Still /\ UNCHANGED <<producer, good, begun>>
              /\ SameLoop(job[b], job'[b]) /\ job'[b].len = job[b].len
              /\ job[b].pc = "row" /\ job[b].next <= job[b].len /\ job'[b].pc = "write"
              /\ \/ wild' = TRUE
                 \/ /\ wild' = wild /\ ~PastEnd(job[b])
                    /\ job'[b].copy = IF job[b].live THEN Words(job[b].kind, job[b].next)
                                                     ELSE job[b].frozen[job[b].next]
Faults(b)  == /\ Aside /\ Still /\ job[b].pc = "row" /\ job'[b].pc = "fault"
              /\ job'[b].file = job[b].file
Writes(b)  == /\ Aside /\ cur' = cur /\ old' = old /\ MutexFree
              /\ job[b].pc = "write" /\ job[b].copy.value \notin Unencodable
              /\ files' = Line(job[b].file, job[b].kind, job[b].copy.name, job[b].copy.value)
              /\ job'[b].pc = "row" /\ job'[b].file = job[b].file
              /\ job'[b].kind = job[b].kind /\ job'[b].len = job[b].len
              /\ job'[b].live = job[b].live /\ job'[b].frozen = job[b].frozen
              /\ job'[b].next = job[b].next + 1
Returns(b) == /\ Aside /\ cur' = cur /\ old' = old /\ job'[b] = Returned(b)
              /\ job[b].pc \in {"rename", "create", "write"}
              /\ \/ files' = files
                 \/ job[b].pc = "write" /\ files' \in PartOfLine(job[b].file)
              /\ \/ bounds'["faults"] > 0
                 \/ job[b].pc = "write" /\ job[b].copy.value \in Unencodable
Turns(b)   == /\ Aside /\ Still
              /\ job[b].pc = "row" /\ job[b].kind = "gauge" /\ job[b].next > job[b].len
              /\ job'[b].pc = "slice" /\ job'[b].file = job[b].file /\ job'[b].kind = "counter"
              /\ job'[b].next = 1 /\ job'[b].live
Ends(b)    == /\ Still /\ UNCHANGED <<producer, wild>> /\ job'[b] = Returned(b)
              /\ job[b].pc = "row" /\ job[b].kind = "counter" /\ job[b].next > job[b].len
              /\ IF ctxDone THEN good' = good /\ begun' = begun
                            ELSE good' = job[b].file /\ begun' = 0

\* One goroutine moves on in performBackup, to g.
Moved(b, g) == g \in Job /\ InLoop(g, rows) /\ job' = [job EXCEPT ![b] = g]

LEMMA BackupCases ==
    ASSUME TypeInv, NEW b \in Backupers, PerformBackup(b)
    PROVE  /\ running /\ UNCHANGED processVars
           /\ \E g : Moved(b, g) /\ job'[b] = g
           /\ \A x \in Backupers \ {b} : job'[x] = job[x]
           /\ UNCHANGED counts \/ (CountFault /\ bounds'["faults"] > 0)
           /\ bounds'["signals"] = bounds["signals"]
           /\ \/ Begins(b) \/ Removes(b) \/ Rotates(b) \/ Opens(b) \/ Loads(b) \/ Reads(b)
              \/ Faults(b) \/ Writes(b) \/ Returns(b) \/ Turns(b) \/ Ends(b)
  <1> DEFINE j == job[b]
  <1>1. /\ j \in Job /\ InLoop(j, rows) /\ rows \in Storages /\ job \in [Backupers -> Job]
        /\ files \in [FileIds -> File] /\ cur \in Paths /\ Typed /\ bounds \in [Counted -> Nat]
    BY DEF TypeInv, Typed, LoopInv
  <1>2. Returned(b) \in Job /\ InLoop(Returned(b), rows)
    BY IdleJob
  <1>3. ASSUME CountFault PROVE bounds'["faults"] > 0 /\ bounds'["signals"] = bounds["signals"]
    BY <1>1, <1>3, CountTyped DEF CountFault, Counted
  <1>4. ASSUME NEW g, g \in Job, InLoop(g, rows), job' = [job EXCEPT ![b] = g]
        PROVE  /\ \E h : Moved(b, h) /\ job'[b] = h
               /\ job'[b] = g /\ \A x \in Backupers \ {b} : job'[x] = job[x]
    BY <1>1, <1>4 DEF Moved
  <1>5. ASSUME NEW pc \in Steps \ LoopSteps, job' = [job EXCEPT ![b].pc = pc]
        PROVE  /\ \E g : Moved(b, g) /\ job'[b] = g
               /\ job'[b].pc = pc /\ \A x \in Backupers \ {b} : job'[x] = job[x]
    <2>1. PICK g : g = [j EXCEPT !.pc = pc]
      OBVIOUS
    <2>2. g \in Job /\ InLoop(g, rows) /\ g.pc = pc
      BY <1>1, <2>1, GotoJob
    <2>3. job' = [job EXCEPT ![b] = g]
      BY <1>5, <2>1
    <2> QED BY <1>4, <2>2, <2>3
  <1>6. CASE Begin(b)
    <2>1. job' = [job EXCEPT ![b].pc = "remove"] /\ "remove" \in Steps \ LoopSteps
      BY <1>6 DEF Begin, Goto, Steps, LoopSteps
    <2>2. /\ \E g : Moved(b, g) /\ job'[b] = g
          /\ job'[b].pc = "remove" /\ \A x \in Backupers \ {b} : job'[x] = job[x]
      BY <1>5, <2>1
    <2>3. Begins(b)
      BY <1>6, <2>2 DEF Begin, Begins, At, Still
    <2> QED BY <1>6, <2>2, <2>3 DEF Begin, At, counts
  <1>7. CASE RemoveOld(b)
    <2>1. job' = [job EXCEPT ![b].pc = "rename"] /\ "rename" \in Steps \ LoopSteps
      BY <1>7 DEF RemoveOld, Goto, Steps, LoopSteps
    <2>2. /\ \E g : Moved(b, g) /\ job'[b] = g
          /\ job'[b].pc = "rename" /\ \A x \in Backupers \ {b} : job'[x] = job[x]
      BY <1>5, <2>1
    <2>3. Removes(b)
      BY <1>7, <2>2 DEF RemoveOld, Removes, At, Aside, goodVars
    <2> QED BY <1>3, <1>7, <2>2, <2>3 DEF RemoveOld, At, counts
  <1>8. CASE RenameCur(b)
    <2>1. job' = [job EXCEPT ![b].pc = "create"] /\ "create" \in Steps \ LoopSteps
      BY <1>8 DEF RenameCur, Goto, Steps, LoopSteps
    <2>2. /\ \E g : Moved(b, g) /\ job'[b] = g
          /\ job'[b].pc = "create" /\ \A x \in Backupers \ {b} : job'[x] = job[x]
      BY <1>5, <2>1
    <2>3. Rotates(b)
      BY <1>8, <2>2 DEF RenameCur, Rotates, At, Aside, goodVars
    <2> QED BY <1>8, <2>2, <2>3 DEF RenameCur, At, counts
  <1>9. CASE Create(b)
    <2>1. Opened \in FileIds
      BY <1>1, <1>9, OpenedFile DEF Create
    <2>2. PICK f : f = [j EXCEPT !.file = Opened]
      OBVIOUS
    <2>3. f \in Job /\ f.file = Opened
      BY <1>1, <2>1, <2>2 DEF Job, Paths
    <2>4. PICK g : g = Loop(f, "gauge")
      OBVIOUS
    <2>5. /\ g \in Job /\ InLoop(g, rows) /\ g.pc = "slice" /\ g.file = Opened
          /\ g.kind = "gauge" /\ g.next = 1 /\ g.live
      BY <1>1, <2>1, <2>3, <2>4, LoopJob DEF Kinds
    <2>6. job' = [job EXCEPT ![b] = g]
      BY <1>9, <2>2, <2>4 DEF Create
    <2>7. Opens(b)
      BY <1>4, <1>9, <2>5, <2>6 DEF Create, Opens, At, Aside, goodVars
    <2> QED BY <1>4, <1>9, <2>5, <2>6, <2>7 DEF Create, At, counts
  <1>10. CASE RenameOrCreateFails(b)
    <2>1. job' = [job EXCEPT ![b] = Returned(b)]
      BY <1>10 DEF RenameOrCreateFails, Return
    <2>2. Returns(b)
      BY <1>2, <1>3, <1>4, <1>10, <2>1 DEF RenameOrCreateFails, Returns, At, Aside, goodVars
    <2> QED BY <1>2, <1>3, <1>4, <1>10, <2>1, <2>2 DEF RenameOrCreateFails, At
  <1>11. CASE LoadPointer(b)
    <2>1. PICK pc : /\ job' = [job EXCEPT ![b].pc = pc]
                    /\ <<j.pc, pc>> \in {<<"slice", "pointer">>, <<"length", "row">>}
      BY <1>11 DEF LoadPointer, At, Goto
    <2>2. PICK g : g = [j EXCEPT !.pc = pc]
      OBVIOUS
    <2>3. g \in Job /\ InLoop(g, rows) /\ g.pc = pc /\ g.len = j.len /\ SameLoop(j, g)
      BY <1>1, <2>1, <2>2, PointerJob
    <2>4. job' = [job EXCEPT ![b] = g]
      BY <2>1, <2>2
    <2>5. Loads(b)
      BY <1>4, <1>11, <2>1, <2>3, <2>4 DEF LoadPointer, Loads, Aside, Still, goodVars
    <2> QED BY <1>4, <1>11, <2>3, <2>4, <2>5 DEF LoadPointer, At, counts
  <1>12. CASE LoadLength(b)
    <2>1. PICK pc : /\ job' = [job EXCEPT ![b].pc = pc, ![b].len = Len(rows[job[b].kind])]
                    /\ <<j.pc, pc>> \in {<<"slice", "length">>, <<"pointer", "row">>}
      BY <1>12 DEF LoadLength, At
    <2>2. PICK g : g = WithLength(j, pc, rows)
      OBVIOUS
    <2>3. /\ g \in Job /\ InLoop(g, rows) /\ g.pc = pc /\ g.len = Len(rows[j.kind])
          /\ SameLoop(j, g)
      BY <1>1, <2>1, <2>2, LengthJob
    <2>4. job' = [job EXCEPT ![b] = g]
      BY <1>1, <2>1, <2>2 DEF WithLength
    <2>5. Loads(b)
      BY <1>4, <1>12, <2>1, <2>3, <2>4 DEF LoadLength, Loads, Aside, Still, goodVars
    <2> QED BY <1>4, <1>12, <2>3, <2>4, <2>5 DEF LoadLength, At, counts
  <1>13. ASSUME NEW row, Copied(b, row), row \in RowsOf(j.kind), j.pc = "row", j.next <= j.len
         PROVE  /\ \E g : Moved(b, g) /\ job'[b] = g
                /\ \A x \in Backupers \ {b} : job'[x] = job[x]
                /\ job'[b].pc = "write" /\ job'[b].len = j.len /\ job'[b].copy = row
                /\ SameLoop(j, job'[b])
    <2>1. PICK g : g = [j EXCEPT !.pc = "write", !.copy = row]
      OBVIOUS
    <2>2. /\ g \in Job /\ InLoop(g, rows) /\ g.pc = "write" /\ g.len = j.len
          /\ g.copy = row /\ SameLoop(j, g)
      BY <1>1, <1>13, <2>1, ReadJob
    <2>3. job' = [job EXCEPT ![b] = g]
      BY <1>13, <2>1 DEF Copied
    <2> QED BY <1>4, <2>2, <2>3
  <1>14. CASE ReadRow(b)
    <2>1. PICK row : row = IF j.live THEN Words(j.kind, j.next) ELSE j.frozen[j.next]
      OBVIOUS
    <2>2. j.pc = "row" /\ j.next <= j.len /\ ~PastEnd(j) /\ Copied(b, row)
      BY <1>14, <2>1 DEF ReadRow, At
    <2>3. row \in RowsOf(j.kind)
      BY <1>1, <2>1, <2>2, RowJob
    <2>4. Reads(b)
      BY <1>13, <1>14, <2>1, <2>2, <2>3 DEF ReadRow, Reads, Still, goodVars
    <2> QED BY <1>13, <1>14, <2>2, <2>3, <2>4 DEF ReadRow, At, counts
  <1>15. CASE ReadBehind(b)
    <2>1. PICK n \in Names, v \in Values(j.kind) : Copied(b, [name |-> n, value |-> v])
      BY <1>15 DEF ReadBehind
    <2>2. [name |-> n, value |-> v] \in RowsOf(j.kind) /\ j.pc = "row" /\ j.next <= j.len
      BY <1>15 DEF ReadBehind, At, RowsOf
    <2>3. Reads(b)
      BY <1>13, <1>15, <2>1, <2>2 DEF ReadBehind, Reads, Still, goodVars
    <2> QED BY <1>13, <1>15, <2>1, <2>2, <2>3 DEF ReadBehind, At, counts
  <1>16. CASE ReadFaults(b)
    <2>1. job' = [job EXCEPT ![b].pc = "fault"] /\ "fault" \in Steps \ LoopSteps
      BY <1>16 DEF ReadFaults, Goto, Steps, LoopSteps
    <2>2. /\ \E g : Moved(b, g) /\ job'[b] = g
          /\ job'[b].pc = "fault" /\ \A x \in Backupers \ {b} : job'[x] = job[x]
      BY <1>5, <2>1
    <2>3. job'[b].file = j.file
      BY <1>1, <2>1 DEF Job
    <2>4. Faults(b)
      BY <1>16, <2>2, <2>3 DEF ReadFaults, Faults, At, Aside, Still, goodVars
    <2> QED BY <1>16, <2>2, <2>4 DEF ReadFaults, At, counts
  <1>17. CASE WriteRow(b)
    <2>1. CASE j.copy.value \in Unencodable
      <3>1. job' = [job EXCEPT ![b] = Returned(b)]
        BY <1>17, <2>1 DEF WriteRow, Return
      <3>2. Returns(b)
        BY <1>2, <1>4, <1>17, <2>1, <3>1 DEF WriteRow, Returns, At, Aside, goodVars
      <3> QED BY <1>2, <1>4, <1>17, <3>1, <3>2 DEF WriteRow, At, counts
    <2>2. CASE j.copy.value \notin Unencodable
      <3>1. PICK g : g = [j EXCEPT !.pc = "row", !.next = @ + 1, !.copy = <<>>]
        OBVIOUS
      <3>2. /\ g \in Job /\ InLoop(g, rows)
            /\ g.pc = "row" /\ g.file = j.file /\ g.kind = j.kind /\ g.len = j.len
            /\ g.next = j.next + 1 /\ g.live = j.live /\ g.frozen = j.frozen
        BY <1>1, <1>17, <3>1, WroteJob DEF WriteRow, At
      <3>3. job' = [job EXCEPT ![b] = g]
        BY <1>17, <2>2, <3>1 DEF WriteRow
      <3>4. Writes(b)
        BY <1>4, <1>17, <2>2, <3>2, <3>3 DEF WriteRow, Writes, At, Aside, goodVars
      <3> QED BY <1>4, <1>17, <3>2, <3>3, <3>4 DEF WriteRow, At, counts
    <2> QED BY <2>1, <2>2
  <1>18. CASE WriteRowFails(b)
    <2>1. job' = [job EXCEPT ![b] = Returned(b)]
      BY <1>18 DEF WriteRowFails, Return
    <2>2. Returns(b)
      BY <1>2, <1>3, <1>4, <1>18, <2>1 DEF WriteRowFails, Returns, At, Aside, goodVars
    <2> QED BY <1>2, <1>3, <1>4, <1>18, <2>1, <2>2 DEF WriteRowFails, At
  <1>19. CASE EndLoop(b)
    <2>1. /\ j.pc = "row" /\ j.next > j.len /\ j.file \in FileIds /\ j.kind \in Kinds /\ running
          /\ UNCHANGED processVars /\ Still /\ UNCHANGED <<producer, wild>> /\ UNCHANGED counts
      BY <1>1, <1>19 DEF EndLoop, At, InLoop, Looping, LoopSteps, Job, Still
    <2>2. CASE j.kind = "gauge"
      <3>1. PICK g : g = Loop(j, "counter")
        OBVIOUS
      <3>2. /\ g \in Job /\ InLoop(g, rows) /\ g.pc = "slice" /\ g.file = j.file
            /\ g.kind = "counter" /\ g.next = 1 /\ g.live
        BY <1>1, <2>1, <3>1, LoopJob DEF Kinds
      <3>3. job' = [job EXCEPT ![b] = g] /\ UNCHANGED goodVars
        BY <1>19, <2>2, <3>1 DEF EndLoop
      <3>4. Turns(b)
        BY <1>4, <2>1, <2>2, <3>2, <3>3 DEF Turns, Aside, goodVars
      <3> QED BY <1>4, <2>1, <3>2, <3>3, <3>4 DEF counts
    <2>3. CASE j.kind = "counter"
      <3>1. job' = [job EXCEPT ![b] = Returned(b)]
        BY <1>19, <2>3 DEF EndLoop, Return
      <3>2. Ends(b)
        BY <1>2, <1>4, <1>19, <2>1, <2>3, <3>1 DEF EndLoop, Ends, goodVars
      <3> QED BY <1>2, <1>4, <2>1, <3>1, <3>2 DEF counts
    <2> QED BY <2>1, <2>2, <2>3 DEF Kinds
  <1> QED BY <1>6, <1>7, <1>8, <1>9, <1>10, <1>11, <1>12, <1>14, <1>15, <1>16, <1>17, <1>18,
             <1>19 DEF PerformBackup

LEMMA TypeBackup == ASSUME TypeInv, NEW b \in Backupers, PerformBackup(b) PROVE TypeInv'
  <1> DEFINE j == job[b]
  <1>1. /\ j \in Job /\ InLoop(j, rows) /\ rows \in Storages
        /\ files \in [FileIds -> File] /\ cur \in Paths /\ old \in Paths /\ good \in Paths
        /\ NoFile \in Paths /\ FileIds \subseteq Paths /\ begun \in 0 .. 2 /\ wild \in BOOLEAN
    BY DEF TypeInv, Typed, LoopInv, Paths
  <1>2. PICK g \in Job : InLoop(g, rows) /\ job' = [job EXCEPT ![b] = g]
    BY BackupCases DEF Moved
  <1>3. Looping(j) => j.file \in FileIds
    BY <1>1 DEF InLoop
  <1>4. files' \in [FileIds -> File]
    <2>1. CASE Writes(b)
      <3>1. j.file \in FileIds /\ j.kind \in Kinds /\ j.copy \in RowsOf(j.kind)
        BY <1>1, <2>1 DEF Writes, InLoop, Looping, LoopSteps, Job
      <3> QED BY <1>1, <2>1, <3>1, LineWritten DEF Writes, RowsOf
    <2>2. CASE Returns(b)
      BY <1>1, <1>3, <2>2, PartWritten DEF Returns, Looping, LoopSteps
    <2>3. CASE Opens(b)
      BY <1>1, <2>3, OpenedFile DEF Opens
    <2> QED BY <1>1, <2>1, <2>2, <2>3, BackupCases
            DEF Begins, Removes, Rotates, Loads, Reads, Faults, Turns, Ends, Still
  <1>5. cur' \in Paths /\ old' \in Paths
    <2>1. CASE Opens(b)
      BY <1>1, <2>1, OpenedFile DEF Opens
    <2> QED BY <1>1, <2>1, BackupCases
            DEF Begins, Removes, Rotates, Loads, Reads, Faults, Turns, Ends, Still, Writes, Returns
  <1>6. /\ good' \in Paths /\ begun' \in 0 .. 2 /\ wild' \in BOOLEAN
        /\ producer' \in {producer, [producer EXCEPT !.open = FALSE]}
    <2>1. CASE Ends(b)
      BY <1>1, <1>3, <2>1 DEF Ends, Looping, LoopSteps
    <2>2. CASE Begins(b)
      BY <1>1, <2>2 DEF Begins
    <2>3. CASE Reads(b)
      BY <1>1, <2>3 DEF Reads
    <2>4. CASE Aside
      BY <1>1, <2>4 DEF Aside
    <2> QED BY <2>1, <2>2, <2>3, <2>4, BackupCases
            DEF Removes, Rotates, Loads, Faults, Turns, Opens, Writes, Returns
  <1>7. UNCHANGED processVars /\ (UNCHANGED counts \/ CountFault)
    BY BackupCases
  <1> QED BY <1>2, <1>4, <1>5, <1>6, <1>7, TypeMoves

LEMMA TypeNext == ASSUME TypeInv, Next PROVE TypeInv'
  <1>1. CASE StopPeriodic
    <2>1. periodic \in Backupers /\ job[periodic] \in Job
      BY DEF Backupers, TypeInv, Typed
    <2>2. [job[periodic] EXCEPT !.pc = "done"] \in Job
          /\ InLoop([job[periodic] EXCEPT !.pc = "done"], rows)
      BY <2>1, GotoJob DEF Steps, LoopSteps
    <2>3. /\ files \in [FileIds -> File] /\ cur \in Paths /\ old \in Paths /\ good \in Paths
          /\ begun \in 0 .. 2 /\ wild \in BOOLEAN
      BY DEF TypeInv, Typed
    <2> QED BY <1>1, <2>1, <2>2, <2>3, TypeMoves DEF StopPeriodic, Goto, goodVars
  <1> QED BY <1>1, NextCases, TypeStart, TypeProcess, TypeStores, TypeWrites, TypeBackup

LEMMA TypeStutters == ASSUME TypeInv, UNCHANGED vars PROVE TypeInv'
  BY DEF TypeInv, Typed, LoopInv, InLoop, Looping, LoopSteps, HasPointer, vars

LEMMA TypeInvAlways == Spec => []TypeInv
  <1>1. TypeInv /\ [Next]_vars => TypeInv'
    BY TypeNext, TypeStutters
  <1> QED BY TypeInit, <1>1, PTL DEF Spec

\* Every variable has its type, whatever the clients, the signal, the crashes
\* and the failing file operations do; performBackup's two range loops ask for
\* no row the storage does not have, though they take the slice without its
\* lock (backup.go, performBackup).  That their array has the row too is not
\* true, and not stated here: see the unlocked run.
THEOREM BackupTypeCorrect == Spec => []TypeOK
  <1>1. ASSUME TypeInv PROVE TypeOK
    <2>1. \A f \in FileIds : files[f].rows \in Storages /\ files[f].torn \in BOOLEAN
      BY <1>1 DEF TypeInv, Typed, File
    <2>2. ASSUME NEW b \in Backupers
          PROVE  /\ job[b].pc \in Steps
                 /\ job[b].file \in FileIds \cup {NoFile}
                 /\ job[b].pc = "row" =>
                       /\ job[b].next \in 1 .. job[b].len + 1
                       /\ job[b].len <= Len(rows[job[b].kind])
      <3>1. job[b] \in Job /\ InLoop(job[b], rows)
        BY <1>1 DEF TypeInv, Typed, LoopInv
      <3> QED BY <3>1 DEF Job, Paths, InLoop, Looping, LoopSteps
    <2> QED BY <1>1, <2>1, <2>2 DEF TypeInv, Typed, TypeOK, Paths
  <1> QED BY TypeInvAlways, <1>1, PTL

-----------------------------------------------------------------------------
(* The life of the process.                                                *)

LifeInv ==
    /\ ctxDone => bounds["signals"] > 0
    \* the last two backups wait for the signal,
    /\ running /\ ~ctxDone => job[final].pc = "wait" /\ job[main].pc = "wait"
    \* the server's end waits for all of them,
    /\ ~running /\ ctxDone => \A b \in Backupers : job[b].pc = "done"
    \* the file and the old one are two files,
    /\ cur # NoFile => cur # old
    \* only the synchronous handler keeps an update for the file,
    /\ ~SyncMode => \A c \in Clients : request[c] = NoRequest
    \* only the asynchronous server backs up before the signal,
    /\ SyncMode /\ running /\ ~ctxDone => job[periodic].pc = "done"
    \* and main's backup has closed the handlers' producer.
    /\ running /\ job[main].pc # "wait" => ~producer.open

LifeSafe == TypeInv /\ LifeInv

LEMMA BackupersApart ==
    periodic \in Backupers /\ final \in Backupers /\ main \in Backupers
    /\ periodic # final /\ periodic # main /\ final # main
    /\ \A b \in Backupers : b \in {periodic, final, main}
  BY BackupersAssumption DEF Backupers

LEMMA LifeInit == Init => LifeInv
  BY FileAssumption DEF Init, LifeInv

\* What no step of performBackup touches, and what it does to the others.
LEMMA BackupFrame ==
    ASSUME TypeInv, NEW b \in Backupers, PerformBackup(b)
    PROVE  /\ running /\ UNCHANGED processVars
           /\ \A x \in Backupers \ {b} : job'[x] = job[x]
           /\ job[b].pc # "done" /\ (b # periodic => job'[b].pc # "wait")
           /\ job[b].pc = "wait" => (b # periodic => ctxDone) /\ ~producer'.open
           /\ producer'.open => producer.open
           /\ bounds'["signals"] = bounds["signals"]
           /\ UNCHANGED bounds \/ bounds'["faults"] > 0
  <1>1. producer \in [file : Paths, open : BOOLEAN, broken : BOOLEAN]
    BY DEF TypeInv, Typed
  <1>2. Returned(b).pc \in {"wait", "done"} /\ (b # periodic => Returned(b).pc = "done")
    BY IdleJob
  <1>3. /\ job[b].pc # "done" /\ (b # periodic => job'[b].pc # "wait")
        /\ job[b].pc = "wait" => (b # periodic => ctxDone) /\ ~producer'.open
        /\ producer'.open => producer.open
    <2>1. CASE Begins(b)
      BY <1>1, <2>1 DEF Begins
    <2>2. CASE Removes(b) \/ Rotates(b) \/ Opens(b) \/ Loads(b) \/ Reads(b) \/ Faults(b)
               \/ Writes(b) \/ Turns(b)
      BY <2>2 DEF Removes, Rotates, Opens, Loads, Reads, Faults, Writes, Turns, Aside
    <2>3. CASE Returns(b) \/ Ends(b)
      BY <1>2, <2>3 DEF Returns, Ends, Aside
    <2> QED BY <2>1, <2>2, <2>3, BackupCases
  <1> QED BY <1>3, BackupCases DEF counts

\* Before the signal only the periodic backup is at work.
LEMMA OnlyPeriodic ==
    ASSUME LifeSafe, NEW b \in Backupers, PerformBackup(b), ~ctxDone
    PROVE  b = periodic /\ ~SyncMode
  BY BackupFrame, BackupersApart DEF LifeSafe, LifeInv

\* The rotation keeps the file and the old one apart.
LEMMA RotationApart ==
    ASSUME TypeInv, cur # NoFile => cur # old, NEW b \in Backupers, PerformBackup(b)
    PROVE  cur' # NoFile => cur' # old'
  <1>1. CASE Opens(b)
    BY <1>1, OpenedFile DEF Opens, TypeInv, Typed, InUse
  <1>2. CASE Removes(b) \/ Rotates(b)
    BY <1>2 DEF Removes, Rotates
  <1>3. CASE cur' = cur /\ old' = old
    BY <1>3
  <1> QED BY <1>1, <1>2, <1>3, BackupCases
          DEF Begins, Loads, Reads, Faults, Writes, Returns, Turns, Ends, Still

LEMMA LifeBackup == ASSUME LifeSafe, NEW b \in Backupers, PerformBackup(b) PROVE LifeInv'
  <1>1. /\ running /\ running' = running /\ ctxDone' = ctxDone /\ request' = request
        /\ \A x \in Backupers \ {b} : job'[x] = job[x]
        /\ bounds'["signals"] = bounds["signals"] /\ (producer'.open => producer.open)
    BY BackupFrame DEF LifeSafe, processVars
  <1>2. ~ctxDone => b = periodic /\ ~SyncMode
    BY OnlyPeriodic
  <1>3. cur' # NoFile => cur' # old'
    BY RotationApart DEF LifeSafe, LifeInv
  <1>4. job'[main].pc # "wait" => ~producer'.open
    BY <1>1, BackupFrame, BackupersApart DEF LifeSafe, LifeInv
  <1> QED BY <1>1, <1>2, <1>3, <1>4, BackupersApart DEF LifeSafe, LifeInv

LEMMA LifeStart == ASSUME LifeSafe, Start PROVE LifeInv'
  <1>1. cur' # NoFile => cur' # old'
    BY OpenedFile DEF Start, LifeSafe, TypeInv, Typed, LifeInv, InUse
  <1>2. running' /\ ~ctxDone' /\ \A c \in Clients : request'[c] = NoRequest
    BY DEF Start
  <1>3. job'[final].pc = "wait" /\ job'[main].pc = "wait"
    BY BackupersApart DEF Start, Idle
  <1>4. SyncMode => job'[periodic].pc = "done"
    BY BackupersApart DEF Start, Idle
  <1> QED BY <1>1, <1>2, <1>3, <1>4 DEF LifeInv

LEMMA LifeProcess == ASSUME LifeSafe, Process \/ StopPeriodic PROVE LifeInv'
  <1>1. bounds \in [Counted -> Nat] /\ job \in [Backupers -> Job]
        /\ producer \in [file : Paths, open : BOOLEAN, broken : BOOLEAN]
    BY DEF LifeSafe, TypeInv, Typed
  <1>2. CASE Signal
    <2>1. bounds'["signals"] > 0
      BY <1>1, <1>2, CountTyped DEF Signal, Counted
    <2> QED BY <1>2, <2>1 DEF Signal, LifeSafe, LifeInv
  <1>3. CASE CloseServer \/ FillRow
    BY <1>3 DEF CloseServer, FillRow, LifeSafe, LifeInv
  <1>4. CASE Exit
    BY <1>1, <1>4 DEF Exit, AllDone, LifeSafe, LifeInv
  <1>5. CASE Crash \/ \E b \in Backupers : Fault(b)
    BY <1>1, <1>5 DEF Crash, Fault, Dies, LifeSafe, LifeInv
  <1>6. CASE StopPeriodic
    <2>1. job'[main] = job[main] /\ job'[final] = job[final]
      BY <1>1, <1>6, BackupersApart DEF StopPeriodic, Goto
    <2> QED BY <1>6, <2>1 DEF StopPeriodic, At, processVars, counts, LifeSafe, LifeInv
  <1> QED BY <1>2, <1>3, <1>4, <1>5, <1>6 DEF Process

LEMMA LifeStores == ASSUME LifeSafe, Stores PROVE LifeInv'
  <1>1. PICK c \in Clients, new \in Calls, unsaved \in Calls \cup {NoRequest} :
           Store(c, new, unsaved) /\ (unsaved = NoRequest \/ SyncMode)
    BY DEF Stores
  <1>2. \A b \in Backupers : job'[b].pc = job[b].pc
    BY <1>1, StoreMoves DEF LifeSafe
  <1>3. bounds'["signals"] = bounds["signals"]
    BY <1>1, CountTyped DEF LifeSafe, TypeInv, Typed, Store, Counted
  <1>4. ~SyncMode => \A x \in Clients : request'[x] = NoRequest
    BY <1>1 DEF Store, LifeSafe, LifeInv, TypeInv, Typed
  <1> QED BY <1>1, <1>2, <1>3, <1>4, BackupersApart DEF Store, LifeSafe, LifeInv

LEMMA LifeWrites ==
    ASSUME LifeSafe, NEW c \in Clients, WriteUpdate(c) \/ WriteUpdateFails(c) PROVE LifeInv'
  <1>1. SyncMode
    BY DEF LifeSafe, LifeInv, WriteUpdate, WriteUpdateFails
  <1>2. bounds'["signals"] = bounds["signals"]
    BY CountTyped DEF LifeSafe, TypeInv, Typed, WriteUpdate, WriteUpdateFails, CountFault, Counted
  <1>3. producer'.open = producer.open
    BY DEF LifeSafe, TypeInv, Typed, WriteUpdate, WriteUpdateFails
  <1> QED BY <1>1, <1>2, <1>3 DEF LifeSafe, LifeInv, WriteUpdate, WriteUpdateFails, Answered

LEMMA LifeNext == ASSUME LifeSafe, [Next]_vars PROVE LifeSafe'
  <1>1. TypeInv'
    BY TypeNext, TypeStutters DEF LifeSafe
  <1>2. ASSUME Next PROVE LifeInv'
    BY <1>2, NextCases, LifeStart, LifeProcess, LifeStores, LifeWrites, LifeBackup
  <1>3. ASSUME UNCHANGED vars PROVE LifeInv'
    BY <1>3 DEF LifeSafe, LifeInv, vars
  <1> QED BY <1>1, <1>2, <1>3 DEF LifeSafe

LEMMA LifeSafeAlways == Spec => []LifeSafe
  <1>1. Init => LifeSafe
    BY TypeInit, LifeInit DEF LifeSafe
  <1> QED BY <1>1, LifeNext, PTL DEF Spec

-----------------------------------------------------------------------------
(* The rotation of the backup files.                                       *)

AtWork(b) == running /\ job[b].pc \notin {"wait", "done"}

\* Before the signal the periodic backup writes the file the path leads to.
WritesCur ==
    running /\ ~ctxDone /\ ~SyncMode =>
        /\ job[periodic].pc = "create" => cur = NoFile
        /\ Looping(job[periodic]) => job[periodic].file = cur

\* The last complete backup is the file until the next backup renames it, and
\* then the old file, while that next one is the only one at work.
GoodThere ==
    ~SyncMode /\ good # NoFile /\ begun <= 1 =>
        /\ good \in {cur, old}
        /\ begun = 0 => good = cur /\ \A b \in Backupers : ~AtWork(b)
        /\ \A b \in Backupers : AtWork(b) =>
              /\ \A x \in Backupers \ {b} : ~AtWork(x)
              /\ job[b].pc \in {"remove", "rename"} => good = cur
              /\ job[b].pc = "create" => good = old /\ cur = NoFile
              /\ job[b].pc \in LoopSteps \cup {"fault"} => good = old /\ job[b].file = cur /\ cur # NoFile

RotationInv == WritesCur /\ GoodThere

\* What holds of the last complete backup from one state to the next.
GoodStays == ~SyncMode /\ good' # NoFile /\ begun' <= 1 /\ good' = good =>
                 files'[good] = files[good]

RotationSafe == LifeSafe /\ RotationInv

LEMMA RotationBackup ==
    ASSUME RotationSafe, NEW b \in Backupers, PerformBackup(b)
    PROVE  RotationInv' /\ GoodStays
  <1> DEFINE j == job[b]
  <1>1. /\ running /\ running' = running /\ ctxDone' = ctxDone /\ j \in Job /\ InLoop(j, rows)
        /\ \A x \in Backupers \ {b} : job'[x] = job[x]
        /\ ~ctxDone => b = periodic /\ ~SyncMode
        /\ files \in [FileIds -> File] /\ cur \in Paths /\ good \in Paths /\ old \in Paths
        /\ NoFile \notin FileIds /\ begun \in 0 .. 2 /\ (cur # NoFile => cur # old)
    BY BackupFrame, OnlyPeriodic, FileAssumption
    DEF RotationSafe, LifeSafe, LifeInv, TypeInv, Typed, LoopInv, processVars
  <1>2. Looping(j) => j.file \in FileIds
    BY <1>1 DEF InLoop
  <1>3. Returned(b).pc \in {"wait", "done"}
    BY IdleJob
  <1>4. /\ \A x \in Backupers \ {b} : AtWork(x)' <=> AtWork(x)
        /\ AtWork(b)' <=> job'[b].pc \notin {"wait", "done"}
        /\ AtWork(b) <=> j.pc \notin {"wait", "done"}
    BY <1>1 DEF AtWork
  <1>5. /\ ~ctxDone => /\ j.pc = "create" => cur = NoFile
                       /\ Looping(j) => j.file = cur
        /\ ~SyncMode /\ good # NoFile /\ begun <= 1 =>
              /\ good \in {cur, old}
              /\ begun = 0 => good = cur /\ j.pc \in {"wait", "done"}
              /\ j.pc \notin {"wait", "done"} => \A x \in Backupers \ {b} : ~AtWork(x)
              /\ begun = 0 => \A x \in Backupers \ {b} : ~AtWork(x)
              /\ j.pc \in {"remove", "rename"} => good = cur
              /\ j.pc = "create" => good = old /\ cur = NoFile
              /\ j.pc \in LoopSteps \cup {"fault"} => good = old /\ j.file = cur /\ cur # NoFile
    <2>1. WritesCur /\ GoodThere
      BY DEF RotationSafe, RotationInv
    <2>2. ~ctxDone => (j.pc = "create" => cur = NoFile) /\ (Looping(j) => j.file = cur)
      BY <1>1, <2>1 DEF WritesCur
    <2> SUFFICES ASSUME ~SyncMode, good # NoFile, begun <= 1
                 PROVE  /\ good \in {cur, old}
                        /\ begun = 0 => good = cur /\ j.pc \in {"wait", "done"}
                        /\ j.pc \notin {"wait", "done"} => \A x \in Backupers \ {b} : ~AtWork(x)
                        /\ begun = 0 => \A x \in Backupers \ {b} : ~AtWork(x)
                        /\ j.pc \in {"remove", "rename"} => good = cur
                        /\ j.pc = "create" => good = old /\ cur = NoFile
                        /\ j.pc \in LoopSteps \cup {"fault"} =>
                              good = old /\ j.file = cur /\ cur # NoFile
      BY <2>2
    <2>3. /\ good \in {cur, old} /\ (begun = 0 => good = cur /\ \A x \in Backupers : ~AtWork(x))
          /\ AtWork(b) => /\ \A x \in Backupers \ {b} : ~AtWork(x)
                          /\ j.pc \in {"remove", "rename"} => good = cur
                          /\ j.pc = "create" => good = old /\ cur = NoFile
                          /\ j.pc \in LoopSteps \cup {"fault"} =>
                                good = old /\ j.file = cur /\ cur # NoFile
      BY <2>1 DEF GoodThere
    <2> QED BY <1>4, <2>3 DEF LoopSteps
  <1> DEFINE Placed ==
                /\ ~SyncMode /\ good' # NoFile /\ begun' <= 1 =>
                      /\ good' \in {cur', old'}
                      /\ begun' = 0 => good' = cur' /\ job'[b].pc \in {"wait", "done"}
                      /\ job'[b].pc \in {"remove", "rename"} => good' = cur'
                      /\ job'[b].pc = "create" => good' = old' /\ cur' = NoFile
                      /\ job'[b].pc \in LoopSteps \cup {"fault"} =>
                            good' = old' /\ job'[b].file = cur' /\ cur' # NoFile
                /\ ~ctxDone => /\ job'[b].pc = "create" => cur' = NoFile
                               /\ Looping(job'[b]) => job'[b].file = cur'
                /\ GoodStays
  <1>6. ASSUME ~SyncMode, good' # NoFile, begun' <= 1
        PROVE  \A x \in Backupers \ {b} : ~AtWork(x)
    <2>1. CASE Begins(b)
      BY <1>1, <1>5, <1>6, <2>1 DEF Begins
    <2>2. CASE good' = good /\ begun' = begun /\ j.pc \notin {"wait", "done"}
      BY <1>5, <1>6, <2>2
    <2>3. CASE Ends(b) /\ ~ctxDone
      BY <1>1, <2>3, BackupersApart DEF RotationSafe, LifeSafe, LifeInv, AtWork
    <2>4. CASE Ends(b) /\ ctxDone
      BY <2>2, <2>4 DEF Ends
    <2>5. CASE \/ Removes(b) \/ Rotates(b) \/ Opens(b) \/ Loads(b) \/ Reads(b) \/ Faults(b)
               \/ Writes(b) \/ Returns(b) \/ Turns(b)
      <3>1. good' = good /\ begun' = begun
        BY <2>5 DEF Removes, Rotates, Opens, Loads, Reads, Faults, Writes, Returns, Turns, Aside
      <3>2. j.pc \notin {"wait", "done"}
        BY <2>5 DEF Removes, Rotates, Opens, Loads, Reads, Faults, Writes, Returns, Turns
      <3> QED BY <2>2, <3>1, <3>2
    <2> QED BY <2>1, <2>3, <2>4, <2>5, BackupCases DEF RotationSafe, LifeSafe
  <1>7. Placed
    <2>1. CASE Begins(b)
      BY <1>1, <1>5, <2>1 DEF Begins, Still, Looping, LoopSteps, GoodStays
    <2>2. CASE Removes(b)
      BY <1>1, <1>5, <2>2 DEF Removes, Aside, Looping, LoopSteps, GoodStays
    <2>3. CASE Rotates(b)
      BY <1>1, <1>5, <2>3 DEF Rotates, Aside, Looping, LoopSteps, GoodStays
    <2>4. CASE Opens(b)
      <3>1. /\ Opened \in FileIds /\ (cur = NoFile => Opened # old)
            /\ \A g \in FileIds \ {Opened} : WithOpened[g] = files[g]
        BY <1>1, <2>4, OpenedFile DEF Opens, InUse
      <3> QED BY <1>1, <1>5, <2>4, <3>1 DEF Opens, Aside, Looping, LoopSteps, GoodStays, Paths
    <2>5. CASE Loads(b)
      BY <1>1, <1>2, <1>5, <2>5 DEF Loads, Aside, Still, SameLoop, Looping, LoopSteps, GoodStays
    <2>6. CASE Reads(b)
      BY <1>1, <1>2, <1>5, <2>6 DEF Reads, Still, SameLoop, Looping, LoopSteps, GoodStays
    <2>7. CASE Faults(b)
      BY <1>1, <1>2, <1>5, <2>7 DEF Faults, Aside, Still, Looping, LoopSteps, GoodStays
    <2>8. CASE Writes(b)
      <3>1. j.pc = "write" /\ j.kind \in Kinds /\ j.copy \in RowsOf(j.kind) /\ j.file \in FileIds
        BY <1>1, <2>8 DEF Writes, InLoop, Looping, LoopSteps, Job
      <3>2. \A g \in FileIds \ {j.file} : files'[g] = files[g]
        BY <1>1, <2>8, <3>1, LineWritten DEF Writes, RowsOf
      <3> QED BY <1>1, <1>5, <2>8, <3>1, <3>2
              DEF Writes, Aside, Looping, LoopSteps, GoodStays, Paths
    <2>9. CASE Returns(b)
      <3>1. \A g \in FileIds : files'[g] = files[g] \/ (j.pc = "write" /\ g = j.file)
        <4>1. CASE files' = files
          BY <4>1
        <4>2. CASE j.pc = "write" /\ files' \in PartOfLine(j.file)
          <5>1. files' = files \/ files' = [files EXCEPT ![j.file].torn = TRUE]
            BY <4>2 DEF PartOfLine
          <5> QED BY <1>1, <4>2, <5>1
        <4> QED BY <2>9, <4>1, <4>2 DEF Returns
      <3> QED BY <1>1, <1>2, <1>3, <1>5, <2>9, <3>1
              DEF Returns, Aside, Looping, LoopSteps, GoodStays, Paths
    <2>10. CASE Turns(b)
      BY <1>1, <1>2, <1>5, <2>10 DEF Turns, Aside, Still, Looping, LoopSteps, GoodStays
    <2>11. CASE Ends(b)
      BY <1>1, <1>2, <1>3, <1>5, <2>11 DEF Ends, Still, Looping, LoopSteps, GoodStays
    <2> HIDE DEF Placed, j
    <2> QED BY <2>1, <2>2, <2>3, <2>4, <2>5, <2>6, <2>7, <2>8, <2>9, <2>10, <2>11, BackupCases
            DEF RotationSafe, LifeSafe
  <1>8. WritesCur'
    BY <1>1, <1>7, BackupersApart DEF WritesCur
  <1>9. GoodThere'
    <2> SUFFICES ASSUME ~SyncMode, good' # NoFile, begun' <= 1
                 PROVE  /\ good' \in {cur', old'}
                        /\ begun' = 0 => good' = cur' /\ \A x \in Backupers : ~AtWork(x)'
                        /\ \A x \in Backupers : AtWork(x)' => x = b
                        /\ job'[b].pc \in {"remove", "rename"} => good' = cur'
                        /\ job'[b].pc = "create" => good' = old' /\ cur' = NoFile
                        /\ job'[b].pc \in LoopSteps \cup {"fault"} =>
                              good' = old' /\ job'[b].file = cur' /\ cur' # NoFile
      BY DEF GoodThere
    <2> QED BY <1>4, <1>6, <1>7
  <1> QED BY <1>7, <1>8, <1>9 DEF RotationInv

\* The other steps leave the files to the rotation.
LEMMA RotationNext == ASSUME RotationSafe, Next PROVE RotationInv' /\ GoodStays
  <1>1. /\ files \in [FileIds -> File] /\ cur \in Paths /\ good \in Paths /\ old \in Paths
        /\ NoFile \notin FileIds /\ begun \in 0 .. 2 /\ job \in [Backupers -> Job]
    BY FileAssumption DEF RotationSafe, LifeSafe, TypeInv, Typed
  <1>2. CASE Start
    <2>1. \A b \in Backupers : job'[b].pc \in {"wait", "done"}
      BY <1>2 DEF Start, Idle
    <2>2. UNCHANGED <<good, begun, old>> /\ cur' = Opened /\ files' = WithOpened /\ Creatable
      BY <1>2 DEF Start
    <2>3. /\ cur # NoFile => cur' = cur /\ files' = files
          /\ cur = NoFile => cur' # old
          /\ \A g \in FileIds \ {cur'} : files'[g] = files[g]
      BY <1>1, <2>2, OpenedFile DEF InUse
    <2>4. \A b \in Backupers : ~AtWork(b)'
      BY <2>1 DEF AtWork
    <2>5. ~running
      BY <1>2 DEF Start
    <2> QED BY <1>1, <2>1, <2>2, <2>3, <2>4, <2>5, BackupersApart
            DEF RotationSafe, RotationInv, WritesCur, GoodThere, GoodStays, Looping, LoopSteps, Paths
  <1>3. CASE Process \/ StopPeriodic
    <2>1. /\ UNCHANGED <<files, cur, old, good, begun>> /\ (running' => running)
          /\ running /\ ~ctxDone /\ running' /\ ~ctxDone' => job' = job
          /\ \A b \in Backupers : job'[b] = job[b] \/ job'[b].pc = "done"
      <3>1. CASE Process
        BY <3>1, ProcessMoves DEF RotationSafe, LifeSafe
      <3>2. CASE StopPeriodic
        BY <1>1, <3>2, BackupersApart DEF StopPeriodic, At, Goto, processVars, goodVars, Job
      <3> QED BY <1>3, <3>1, <3>2
    <2>2. \A b \in Backupers : AtWork(b)' => AtWork(b) /\ job'[b] = job[b]
      BY <2>1 DEF AtWork
    <2>3. running' /\ ~ctxDone' => ~ctxDone
      <3>1. CASE Process
        BY <3>1 DEF Process, Signal, CloseServer, Exit, Crash, FillRow, Fault, Dies
      <3>2. CASE StopPeriodic
        BY <3>2 DEF StopPeriodic, processVars
      <3> QED BY <1>3, <3>1, <3>2
    <2> QED BY <2>1, <2>2, <2>3 DEF RotationSafe, RotationInv, WritesCur, GoodThere, GoodStays
  <1>4. CASE Stores
    <2>1. PICK c \in Clients, new \in Calls, unsaved \in Calls \cup {NoRequest} :
             Store(c, new, unsaved)
      BY <1>4 DEF Stores
    <2>2. \A b \in Backupers : job'[b].pc = job[b].pc /\ job'[b].file = job[b].file
      BY <2>1, StoreMoves DEF RotationSafe, LifeSafe
    <2>3. UNCHANGED <<running, ctxDone, files, cur, old, good, begun>>
      BY <2>1 DEF Store
    <2>4. \A b \in Backupers : AtWork(b)' <=> AtWork(b)
      BY <2>2, <2>3 DEF AtWork
    <2> QED BY <2>2, <2>3, <2>4, BackupersApart
            DEF RotationSafe, RotationInv, WritesCur, GoodThere, GoodStays, Looping
  <1>5. ASSUME NEW c \in Clients, WriteUpdate(c) \/ WriteUpdateFails(c)
        PROVE  RotationInv' /\ GoodStays
    <2>1. SyncMode
      BY <1>5 DEF WriteUpdate, WriteUpdateFails, RotationSafe, LifeSafe, LifeInv
    <2> QED BY <2>1 DEF RotationInv, WritesCur, GoodThere, GoodStays
  <1> QED BY <1>2, <1>3, <1>4, <1>5, NextCases, RotationBackup

LEMMA RotationSafeAlways == Spec => []RotationSafe
  <1>1. Init => RotationInv
    BY DEF Init, RotationInv, WritesCur, GoodThere, AtWork
  <1>2. RotationSafe /\ [Next]_vars => RotationInv'
    <2>1. ASSUME RotationSafe, UNCHANGED vars PROVE RotationInv'
      BY <2>1 DEF RotationSafe, RotationInv, WritesCur, GoodThere, AtWork, vars
    <2> QED BY <2>1, RotationNext
  <1> QED BY <1>1, <1>2, LifeSafeAlways, PTL DEF Spec, RotationSafe

\* From the last complete backup, of whichever run of the server, until a
\* second backup begins after it, that file is there, unchanged, as the file or
\* as the old file: no single interruption, failure, restart or shutdown
\* destroys it (backup.go, the order of Remove, Rename and create in
\* performBackup).
THEOREM GoodCopyKept == Spec => KeepsAGoodCopy
  <1>1. ASSUME RotationSafe, RotationSafe', [Next]_vars
        PROVE  [~SyncMode /\ good' # NoFile /\ begun' <= 1 =>
                   /\ good' \in {cur', old'}
                   /\ good' = good => files'[good] = files[good]]_vars
    <2>1. CASE Next
      BY <1>1, <2>1, RotationNext DEF RotationSafe, RotationInv, GoodThere, GoodStays
    <2> QED BY <1>1, <2>1
  <1> QED BY <1>1, RotationSafeAlways, PTL DEF Spec, KeepsAGoodCopy

-----------------------------------------------------------------------------
(* The history of the values.                                              *)

\* The values in the storage, and those a loop has in an array of its own, are
\* in the history h.  A value it has copied is, too, or is the zero of a row
\* that was not complete, under the name of the metric or under none.
RowsIn(h, r) ==
    \A k \in Kinds : \A i \in 1 .. Len(r[k]) : r[k][i].value \in h[k][r[k][i].name]

LoopIn(h, j) ==
    Looping(j) =>
        /\ ~j.live => \A i \in 1 .. Len(j.frozen) :
                         j.frozen[i].value \in h[j.kind][j.frozen[i].name]
        /\ j.pc = "write" => \E m \in Names : /\ j.copy.name \in {m, Unnamed}
                                              /\ j.copy.value \in h[j.kind][m] \cup {0}

\* What a loop has copied has the name of its row, or none yet.
NameCopied(j, r) ==
    j.pc = "write" => j.copy.name \in {Unnamed, r[j.kind][j.next].name}

\* g holds what h holds.
Wider(h, g) == \A k \in Kinds, n \in Names : h[k][n] \subseteq g[k][n]

LEMMA RecordedHas ==
    ASSUME NEW h, NEW r \in Storages
    PROVE  /\ RowsIn(Recorded(h, r), r) /\ Wider(h, Recorded(h, r))
           /\ \A k \in Kinds, n \in Names : Lookup(r, k, n) \in Recorded(h, r)[k][n]
  <1>1. \A k \in Kinds, n \in Names : Recorded(h, r)[k][n] = h[k][n] \cup {Lookup(r, k, n)}
    BY Zenon DEF Recorded
  <1>2. ASSUME NEW k \in Kinds, NEW i \in 1 .. Len(r[k])
        PROVE  r[k][i].value \in Recorded(h, r)[k][r[k][i].name]
    <2>1. r[k][i] \in RowsOf(k) /\ Lookup(r, k, r[k][i].name) = r[k][i].value
      BY StorageRows, LookupRow
    <2> QED BY <1>1, <2>1 DEF RowsOf
  <1> QED BY <1>1, <1>2 DEF RowsIn, Wider

\* What is in the storage can be looked up.
LEMMA LookupIn ==
    ASSUME NEW h, NEW r \in Storages, RowsIn(h, r), NEW k \in Kinds, NEW n
    PROVE  Lookup(r, k, n) \in h[k][n] \cup {Absent}
  BY LookupRow DEF RowsIn

LEMMA LoopInWider ==
    ASSUME NEW h, NEW g, Wider(h, g), NEW j \in Job, NEW r, InLoop(j, r), LoopIn(h, j)
    PROVE  LoopIn(g, j)
  <1> SUFFICES ASSUME Looping(j) PROVE LoopIn(g, j)
    BY DEF LoopIn
  <1>1. PICK k \in Kinds : k = j.kind
    BY DEF Job
  <1>2. ASSUME ~j.live, NEW i \in 1 .. Len(j.frozen)
        PROVE  j.frozen[i].value \in g[k][j.frozen[i].name]
    <2>1. j.frozen[i].name \in Names
      BY <1>1, <1>2 DEF InLoop, RowsOf
    <2> QED BY <1>1, <1>2, <2>1 DEF LoopIn, Wider
  <1>3. ASSUME j.pc = "write"
        PROVE  \E m \in Names : /\ j.copy.name \in {m, Unnamed}
                                /\ j.copy.value \in g[k][m] \cup {0}
    BY <1>1, <1>3 DEF LoopIn, Wider
  <1> QED BY <1>1, <1>2, <1>3 DEF LoopIn

\* A loop whose array is left holds the same values; those of the array were
\* in the storage.
LEMMA LoopInLeft ==
    ASSUME NEW h, NEW r \in Storages, RowsIn(h, r),
           NEW j \in Job, InLoop(j, r), LoopIn(h, j), HasPointer(j), j.live
    PROVE  LoopIn(h, Left(j, r))
  <1>1. PICK k \in Kinds : k = j.kind
    BY DEF Job
  <1>2. Grows(r, r)
    <2>1. \A x \in Kinds : Len(r[x]) \in Nat
      BY StorageRows
    <2> QED BY <2>1 DEF Grows
  <1>3. /\ Left(j, r).kind = k /\ Left(j, r).frozen = r[k]
        /\ Left(j, r).pc = j.pc /\ Left(j, r).copy = j.copy
    BY <1>1, <1>2, LoopLeftBehind
  <1>4. \A i \in 1 .. Len(r[k]) : r[k][i].value \in h[k][r[k][i].name]
    BY DEF RowsIn
  <1> QED BY <1>1, <1>3, <1>4 DEF LoopIn, Looping

\* performBackup copies rows of the storage and of its array, unless it goes
\* behind the array.
LEMMA LoopInMoves ==
    ASSUME TypeInv, NEW h, RowsIn(h, rows), NEW b \in Backupers,
           LoopIn(h, job[b]), NameCopied(job[b], rows), PerformBackup(b), ~wild'
    PROVE  LoopIn(h, job'[b]) /\ NameCopied(job'[b], rows)
  <1> DEFINE j == job[b]
             g == job'[b]
  <1>1. j \in Job /\ InLoop(j, rows) /\ rows \in Storages /\ Typed
    BY DEF TypeInv, Typed, LoopInv
  <1>2. \A x : ~Looping(x) => LoopIn(h, x) /\ NameCopied(x, rows)
    BY DEF LoopIn, NameCopied, Looping, LoopSteps
  <1>3. CASE Begins(b) \/ Removes(b) \/ Rotates(b) \/ Returns(b) \/ Ends(b) \/ Faults(b)
    <2>1. ~Looping(g)
      BY <1>3, IdleJob DEF Begins, Removes, Rotates, Returns, Ends, Faults, Looping, LoopSteps
    <2> QED BY <1>2, <2>1
  <1>4. CASE Opens(b) \/ Turns(b)
    <2>1. g.live /\ g.pc = "slice"
      BY <1>4 DEF Opens, Turns
    <2> QED BY <2>1 DEF LoopIn, NameCopied
  <1>5. CASE Loads(b) \/ Writes(b)
    <2>1. /\ Looping(j) /\ g.pc # "write"
          /\ g.kind = j.kind /\ g.live = j.live /\ g.frozen = j.frozen
      BY <1>5 DEF Loads, Writes, SameLoop, Looping, LoopSteps
    <2> HIDE DEF g, j
    <2>2. LoopIn(h, j)
      BY DEF j
    <2>3. LoopIn(h, g) /\ NameCopied(g, rows)
      BY <2>1, <2>2 DEF LoopIn, NameCopied
    <2> QED BY <2>3 DEF g
  <1>6. CASE Reads(b)
    <2>1. /\ j.pc = "row" /\ j.next <= j.len /\ ~PastEnd(j) /\ g.pc = "write"
          /\ g.kind = j.kind /\ g.live = j.live /\ g.frozen = j.frozen /\ g.next = j.next
          /\ g.copy = IF j.live THEN Words(j.kind, j.next) ELSE j.frozen[j.next]
      BY <1>6 DEF Reads, SameLoop
    <2>2. PICK row : row = IF j.live THEN Words(j.kind, j.next) ELSE j.frozen[j.next]
      OBVIOUS
    <2>3. PICK k \in Kinds : k = j.kind
      BY <1>1 DEF Job
    <2>4. /\ j.next \in 1 .. Len(rows[k]) /\ row.name \in {Unnamed, rows[k][j.next].name}
          /\ row \in RowsOf(k)
      BY <1>1, <2>1, <2>2, <2>3, RowJob
    <2>5. /\ rows[k][j.next] \in RowsOf(k)
          /\ rows[k][j.next].value \in h[k][rows[k][j.next].name]
      BY <1>1, <2>4, StorageRows DEF RowsIn
    <2>6. \E m \in Names : row.name \in {m, Unnamed} /\ row.value \in h[k][m] \cup {0}
      <3>1. CASE j.live
        <4>1. row.value \in {0, rows[k][j.next].value}
          BY <1>1, <2>2, <2>3, <2>4, <3>1, WordsRow
        <4> QED BY <2>4, <2>5, <4>1 DEF RowsOf
      <3>2. CASE ~j.live
        <4>1. row = j.frozen[j.next] /\ j.next \in 1 .. Len(j.frozen)
          BY <1>1, <2>1, <2>2, <2>4, <3>2 DEF PastEnd, Job
        <4>2. row.value \in h[k][row.name]
          BY <2>1, <2>3, <3>2, <4>1 DEF LoopIn, Looping, LoopSteps
        <4> QED BY <2>4, <4>2 DEF RowsOf
      <3> QED BY <3>1, <3>2
    <2>7. ~j.live => \A i \in 1 .. Len(j.frozen) : j.frozen[i].value \in h[k][j.frozen[i].name]
      BY <2>1, <2>3 DEF LoopIn, Looping, LoopSteps
    <2>8. g.copy = row /\ g.kind = k
      BY <2>1, <2>2, <2>3
    <2>9. /\ ~g.live => ~j.live
          /\ g.kind = k /\ g.next = j.next /\ g.frozen = j.frozen
      BY <2>1, <2>8
    <2> HIDE DEF g, j
    <2>10. LoopIn(h, g)
      BY <2>6, <2>7, <2>8, <2>9 DEF LoopIn
    <2>11. NameCopied(g, rows)
      BY <2>4, <2>8, <2>9 DEF NameCopied
    <2> QED BY <2>10, <2>11 DEF g
  <1> HIDE DEF g, j
  <1> QED BY <1>3, <1>4, <1>5, <1>6, BackupCases DEF g

\* The histories have the values that the storage and the loops have.
HistoryInv ==
    /\ running => RowsIn(had, rows)
    /\ running /\ ~wild => \A b \in Backupers : LoopIn(had, job[b]) /\ NameCopied(job[b], rows)
    /\ ctxDone => RowsIn(since, rows)

\* What an update leaves in a loop is in the history it widens.
LEMMA LoopInStores ==
    ASSUME TypeInv, NEW c \in Clients, NEW new \in Calls, NEW unsaved,
           Store(c, new, unsaved),
           NEW h, NEW g, Wider(h, g), RowsIn(h, rows), NEW b \in Backupers,
           LoopIn(h, job[b]), NameCopied(job[b], rows)
    PROVE  LoopIn(g, job'[b]) /\ NameCopied(job'[b], rows')
  <1>1. rows \in Storages /\ job[b] \in Job /\ InLoop(job[b], rows)
    BY DEF TypeInv, Typed, LoopInv
  <1>2. /\ job' \in [Backupers -> Job] /\ InLoop(job'[b], rows')
        /\ \/ job'[b] = job[b]
           \/ HasPointer(job[b]) /\ job[b].live /\ job'[b] = Left(job[b], rows)
        /\ job'[b].pc = job[b].pc /\ job'[b].kind = job[b].kind
        /\ job'[b].next = job[b].next /\ job'[b].copy = job[b].copy
        /\ Grows(rows, rows')
    BY StoreMoves
  <1>3. LoopIn(h, job'[b])
    BY <1>1, <1>2, LoopInLeft
  <1>4. NameCopied(job'[b], rows')
    <2> SUFFICES ASSUME job[b].pc = "write"
                 PROVE  job[b].copy.name \in {Unnamed, rows'[job[b].kind][job[b].next].name}
      BY <1>2 DEF NameCopied
    <2>1. PICK k \in Kinds : k = job[b].kind
      BY <1>1 DEF Job
    <2>2. job[b].next \in 1 .. Len(rows[k])
      <3>1. Looping(job[b]) /\ job[b].next \in Nat /\ job[b].len \in Nat /\ Len(rows[k]) \in Nat
        BY <1>1, StorageRows DEF Looping, LoopSteps, Job
      <3>2. job[b].len <= Len(rows[k]) /\ job[b].next \in 1 .. job[b].len + 1
            /\ job[b].next <= job[b].len
        BY <1>1, <2>1, <3>1 DEF InLoop
      <3> QED BY <3>1, <3>2
    <2>3. rows'[k][job[b].next].name = rows[k][job[b].next].name
      BY <1>2, <2>2 DEF Grows
    <2> QED BY <2>1, <2>3 DEF NameCopied
  <1> QED BY <1>2, <1>3, <1>4, LoopInWider

LEMMA HistoryNext == ASSUME LifeSafe, HistoryInv, Next PROVE HistoryInv'
  <1>1. rows \in Storages /\ rows' \in Storages
    BY TypeNext DEF LifeSafe, TypeInv, Typed
  <1>2. CASE Start
    <2>1. \A b \in Backupers : ~Looping(job'[b])
      BY <1>2 DEF Start, Idle, Looping, LoopSteps
    <2>2. had' = Recorded(had, rows') /\ ~ctxDone'
      BY <1>2 DEF Start
    <2>3. RowsIn(had', rows')
      BY <1>1, <2>2, RecordedHas
    <2> QED BY <2>1, <2>2, <2>3 DEF HistoryInv, LoopIn, NameCopied, Looping, LoopSteps
  <1>3. CASE Signal
    <2>1. RowsIn(since', rows')
      <3>1. PICK h : since' = Recorded(h, rows)
        BY <1>3 DEF Signal
      <3>2. rows' = rows
        BY <1>3 DEF Signal
      <3> QED BY <1>1, <3>1, <3>2, RecordedHas
    <2> QED BY <1>3, <2>1 DEF Signal, HistoryInv
  <1>4. CASE Process /\ ~Signal
    <2>1. /\ UNCHANGED <<rows, job, wild, had>> /\ running
          /\ since' = since /\ (ctxDone' => ctxDone)
      BY <1>4, ProcessMoves DEF LifeSafe
    <2> QED BY <2>1 DEF HistoryInv
  <1>5. CASE StopPeriodic
    <2>1. \A b \in Backupers : job'[b] = job[b] \/ ~Looping(job'[b])
      BY <1>5 DEF StopPeriodic, Goto, LifeSafe, TypeInv, Typed, Job, Looping, LoopSteps
    <2>2. UNCHANGED <<running, ctxDone, rows, had, since, wild>>
      BY <1>5 DEF StopPeriodic, processVars
    <2> QED BY <2>1, <2>2 DEF HistoryInv, LoopIn, NameCopied, Looping, LoopSteps
  <1>6. CASE Stores
    <2>1. PICK c \in Clients, new \in Calls, unsaved \in Calls \cup {NoRequest} :
             Store(c, new, unsaved)
      BY <1>6 DEF Stores
    <2>2. /\ running /\ had' = Recorded(had, rows') /\ ctxDone' = ctxDone /\ wild' = wild
          /\ (ctxDone => since' = Recorded(since, rows'))
      BY <2>1 DEF Store
    <2>3. RowsIn(had', rows') /\ Wider(had, had') /\ (ctxDone => RowsIn(since', rows'))
      BY <1>1, <2>2, RecordedHas
    <2>4. ~wild => \A b \in Backupers : LoopIn(had', job'[b]) /\ NameCopied(job'[b], rows')
      BY <2>1, <2>2, <2>3, LoopInStores DEF HistoryInv, LifeSafe
    <2> QED BY <2>2, <2>3, <2>4 DEF HistoryInv
  <1>7. ASSUME NEW c \in Clients, WriteUpdate(c) \/ WriteUpdateFails(c) PROVE HistoryInv'
    BY <1>7 DEF WriteUpdate, WriteUpdateFails, Answered, HistoryInv
  <1>8. ASSUME NEW b \in Backupers, PerformBackup(b) PROVE HistoryInv'
    <2>1. /\ running /\ running' = running /\ ctxDone' = ctxDone /\ rows' = rows
          /\ had' = had /\ since' = since /\ \A x \in Backupers \ {b} : job'[x] = job[x]
      BY <1>8, BackupFrame DEF LifeSafe, processVars
    <2>2. ~wild' => ~wild
      BY <1>8, BackupCases DEF LifeSafe, Begins, Removes, Rotates, Opens, Loads, Reads, Faults,
                               Writes, Returns, Turns, Ends, Aside
    <2>3. ~wild' => LoopIn(had, job'[b]) /\ NameCopied(job'[b], rows)
      BY <1>8, <2>1, <2>2, LoopInMoves DEF HistoryInv, LifeSafe
    <2> QED BY <2>1, <2>2, <2>3 DEF HistoryInv
  <1> QED BY <1>2, <1>3, <1>4, <1>5, <1>6, <1>7, <1>8, NextCases

LEMMA HistoryAlways == Spec => []HistoryInv
  <1>1. Init => HistoryInv
    BY DEF Init, HistoryInv
  <1>2. LifeSafe /\ HistoryInv /\ [Next]_vars => HistoryInv'
    <2>1. ASSUME HistoryInv, UNCHANGED vars PROVE HistoryInv'
      BY <2>1 DEF HistoryInv, vars
    <2> QED BY <2>1, HistoryNext
  <1> QED BY <1>1, <1>2, LifeSafeAlways, PTL DEF Spec

-----------------------------------------------------------------------------
(* What the files hold before the signal.                                  *)

PastRows(r) ==
    \A k \in Kinds, n \in WithName : Lookup(r, k, n) \in had[k][n] \cup {Absent, 0}

\* The periodic backup has written the rows before its next one, and no other
\* with a name, into a file that was empty.
WrittenInv ==
    LET j == job[periodic]
        r == files[j.file].rows
    IN  Looping(j) =>
            /\ \A n \in WithName : Lookup(r, j.kind, n) # Absent =>
                   \E i \in 1 .. j.next - 1 : rows[j.kind][i].name = n
            /\ j.kind = "gauge" => \A n \in WithName : Lookup(r, "counter", n) = Absent

PastInv ==
    ~SyncMode /\ bounds["signals"] = 0 /\ ~wild =>
        /\ \A f \in {cur, old} \ {NoFile} : PastRows(files[f].rows)
        /\ running => WrittenInv

LEMMA PastInit == Init => PastInv
  <1> SUFFICES ASSUME Init PROVE PastInv
    OBVIOUS
  <1>1. ASSUME cur # NoFile, NEW k \in Kinds, NEW n \in Names
        PROVE  Lookup(files[cur].rows, k, n) \in had[k][n]
    BY <1>1, Zenon DEF Init
  <1> QED BY <1>1 DEF Init, PastInv, PastRows, WithName

\* The signals are counted, and a read behind an array is remembered.
LEMMA SignalsStay ==
    ASSUME LifeSafe, Next PROVE bounds'["signals"] >= bounds["signals"] /\ (wild => wild')
  <1>1. bounds \in [Counted -> Nat] /\ bounds["signals"] \in Nat
    BY DEF LifeSafe, TypeInv, Typed, Counted
  <1>2. ASSUME NEW kind \in Counted, Count(kind) PROVE bounds'["signals"] >= bounds["signals"]
    BY <1>1, <1>2, CountTyped DEF Counted
  <1>3. CASE Start \/ StopPeriodic
    BY <1>1, <1>2, <1>3 DEF Start, StopPeriodic, Counted, counts
  <1>4. CASE Process
    <2>1. wild' = wild
      BY <1>4, ProcessMoves DEF LifeSafe
    <2>2. bounds'["signals"] >= bounds["signals"]
      BY <1>1, <1>2, <1>4
         DEF Process, Signal, CloseServer, Exit, Crash, FillRow, Fault, counts, Counted
    <2> QED BY <2>1, <2>2
  <1>5. CASE Stores
    BY <1>2, <1>5 DEF Stores, Store, Counted
  <1>6. ASSUME NEW c \in Clients, WriteUpdate(c) \/ WriteUpdateFails(c)
        PROVE  bounds'["signals"] >= bounds["signals"] /\ (wild => wild')
    BY <1>1, <1>2, <1>6 DEF WriteUpdate, WriteUpdateFails, Answered, CountFault, Counted
  <1>7. ASSUME NEW b \in Backupers, PerformBackup(b)
        PROVE  bounds'["signals"] >= bounds["signals"] /\ (wild => wild')
    <2>1. wild => wild'
      BY <1>7, BackupCases DEF LifeSafe, Begins, Removes, Rotates, Opens, Loads, Reads,
                               Faults, Writes, Returns, Turns, Ends, Aside
    <2>2. bounds'["signals"] = bounds["signals"]
      BY <1>7, BackupCases DEF LifeSafe
    <2> QED BY <1>1, <2>1, <2>2
  <1> QED BY <1>3, <1>4, <1>5, <1>6, <1>7, NextCases

\* What can be restored stays in the past as the past grows.
LEMMA PastGrows ==
    ASSUME NEW r, PastRows(r), Wider(had, had')
    PROVE  \A k \in Kinds, n \in WithName : Lookup(r, k, n) \in had'[k][n] \cup {Absent, 0}
  BY DEF PastRows, Wider, WithName

\* A line for a metric that a file does not have yet adds its value.
LEMMA NewLine ==
    ASSUME NEW r \in Storages, NEW k \in Kinds, NEW n \in Names, NEW v \in Values(k),
           Lookup(r, k, n) = Absent
    PROVE  /\ Lookup(Add(r, k, n, v), k, n) = v
           /\ \A x \in Kinds : \A m : x # k \/ m # n => Lookup(Add(r, k, n, v), x, m) = Lookup(r, x, m)
  BY AddOne

\* What a backup holds when it writes a row.
LEMMA WritesRow ==
    ASSUME LifeSafe, HistoryInv, NEW b \in Backupers, Writes(b), running, ~wild
    PROVE  LET j == job[b]
               k == j.kind
               n == j.copy.name
           IN  /\ Looping(j) /\ j.file \in FileIds /\ k \in Kinds /\ n \in Names
               /\ j.copy.value \in Values(k)
               /\ j.next \in 1 .. j.len /\ j.len \in Nat /\ j.len <= Len(rows[k])
               /\ j.next \in 1 .. Len(rows[k]) /\ Len(rows[k]) \in Nat
               /\ n # Unnamed => /\ n = rows[k][j.next].name
                                 /\ j.copy.value \in had[k][n] \cup {0}
  <1> DEFINE j == job[b]
  <1>1. /\ j.pc = "write" /\ Looping(j) /\ j \in Job /\ InLoop(j, rows) /\ rows \in Storages
    BY DEF Writes, LifeSafe, TypeInv, Typed, LoopInv, Looping, LoopSteps
  <1>2. PICK k \in Kinds : k = j.kind
    BY <1>1 DEF Job
  <1>3. /\ j.len \in Nat /\ j.next \in Nat /\ j.next \in 1 .. j.len /\ j.len <= Len(rows[k])
        /\ Len(rows[k]) \in Nat /\ j.file \in FileIds
        /\ j.copy.name \in Names /\ j.copy.value \in Values(k)
    BY <1>1, <1>2, StorageRows DEF InLoop, Job, RowsOf
  <1>4. LoopIn(had, j) /\ NameCopied(j, rows)
    BY DEF HistoryInv
  <1>5. PICK m \in Names : j.copy.name \in {m, Unnamed} /\ j.copy.value \in had[k][m] \cup {0}
    BY <1>1, <1>2, <1>4 DEF LoopIn
  <1>6. j.copy.name \in {Unnamed, rows[k][j.next].name}
    BY <1>1, <1>2, <1>4 DEF NameCopied
  <1> HIDE DEF j
  <1>7. j.next \in 1 .. Len(rows[k])
    BY <1>3
  <1> QED BY <1>1, <1>2, <1>3, <1>5, <1>6, <1>7 DEF j

\* The periodic backup writes a row: a value the metric had, or zero, which the
\* file did not have yet.
LEMMA PastWrite ==
    ASSUME RotationSafe, HistoryInv, PastInv, ~SyncMode, ~ctxDone, bounds["signals"] = 0, ~wild,
           running, Writes(periodic), had' = had, rows' = rows
    PROVE  /\ \A f \in {cur, old} \ {NoFile} : PastRows(files'[f].rows)
           /\ WrittenInv'
  <1> DEFINE j == job[periodic]
             r == files[cur].rows
             k == j.kind
             n == j.copy.name
             v == j.copy.value
  <1>1. /\ files \in [FileIds -> File] /\ old \in Paths /\ NoFile \notin FileIds
        /\ rows \in Storages /\ (cur # NoFile => cur # old)
    BY FileAssumption DEF RotationSafe, LifeSafe, LifeInv, TypeInv, Typed
  <1>2. /\ Looping(j) /\ j.file \in FileIds /\ k \in Kinds /\ n \in Names /\ v \in Values(k)
        /\ j.next \in 1 .. Len(rows[k]) /\ Len(rows[k]) \in Nat
        /\ n # Unnamed => n = rows[k][j.next].name /\ v \in had[k][n] \cup {0}
    BY WritesRow, BackupersApart DEF RotationSafe
  <1>3. j.file = cur /\ cur \in FileIds
    BY <1>2 DEF RotationSafe, RotationInv, WritesCur
  <1>4. r \in Storages /\ PastRows(r)
    BY <1>1, <1>3 DEF File, PastInv
  <1>5. /\ \A m \in WithName : Lookup(r, k, m) # Absent =>
               \E i \in 1 .. j.next - 1 : rows[k][i].name = m
        /\ k = "gauge" => \A m \in WithName : Lookup(r, "counter", m) = Absent
    BY <1>2, <1>3 DEF PastInv, WrittenInv
  <1>6. files' = Line(cur, k, n, v)
    BY <1>3 DEF Writes
  <1>7. /\ job'[periodic].file = cur /\ job'[periodic].kind = k
        /\ job'[periodic].next = j.next + 1
    BY <1>3 DEF Writes
  <1> HIDE DEF j, r, k, n, v
  <1>8. n \in WithName => Lookup(r, k, n) = Absent
    <2> SUFFICES ASSUME n \in WithName PROVE Lookup(r, k, n) = Absent
      OBVIOUS
    <2>0. n = rows[k][j.next].name
      BY <1>2 DEF WithName
    <2>1. \A x, y \in 1 .. Len(rows[k]) : rows[k][x].name = rows[k][y].name => x = y
      BY <1>1, <1>2, StorageRows
    <2>2. ASSUME NEW i \in 1 .. j.next - 1 PROVE rows[k][i].name # n
      <3>1. i \in 1 .. Len(rows[k]) /\ j.next \in 1 .. Len(rows[k]) /\ i # j.next
        BY <1>2
      <3> QED BY <2>0, <2>1, <3>1
    <2> QED BY <1>5, <2>2
  <1>9. /\ \A f \in FileIds \ {cur} : files'[f] = files[f]
        /\ files'[cur].rows = r \/ files'[cur].rows = Add(r, k, n, v)
    BY <1>1, <1>2, <1>3, <1>6, LineWritten DEF r
  <1>10. /\ \A m \in WithName : m # n => Lookup(files'[cur].rows, k, m) = Lookup(r, k, m)
         /\ \A x \in Kinds, m \in WithName : x # k => Lookup(files'[cur].rows, x, m) = Lookup(r, x, m)
         /\ n \in WithName => Lookup(files'[cur].rows, k, n) \in {v, Absent}
    <2>1. CASE files'[cur].rows = r
      BY <1>8, <2>1
    <2>2. CASE files'[cur].rows = Add(r, k, n, v)
      BY <1>2, <1>4, <1>8, <2>2, AddOne
    <2> QED BY <1>9, <2>1, <2>2
  <1>11. PastRows(files'[cur].rows)
    <2> SUFFICES ASSUME NEW x \in Kinds, NEW m \in WithName
                 PROVE  Lookup(files'[cur].rows, x, m) \in had[x][m] \cup {Absent, 0}
      BY DEF PastRows
    <2>1. CASE x = k /\ m = n
      BY <1>2, <1>10, <2>1 DEF WithName
    <2>2. CASE x # k \/ m # n
      BY <1>4, <1>10, <2>2 DEF PastRows
    <2> QED BY <2>1, <2>2
  <1>12. \A f \in {cur, old} \ {NoFile} : PastRows(files'[f].rows)
    <2>1. old # NoFile /\ old # cur => PastRows(files[old].rows) /\ files'[old] = files[old]
      BY <1>1, <1>9 DEF PastInv, Paths
    <2> QED BY <1>11, <2>1
  <1>13. WrittenInv'
    <2>1. ASSUME NEW m \in WithName, Lookup(files'[cur].rows, k, m) # Absent
          PROVE  \E i \in 1 .. j.next + 1 - 1 : rows[k][i].name = m
      <3>1. CASE m = n
        BY <1>2, <3>1 DEF WithName
      <3>2. CASE m # n
        <4>1. PICK i \in 1 .. j.next - 1 : rows[k][i].name = m
          BY <1>5, <1>10, <2>1, <3>2
        <4> QED BY <1>2, <4>1
      <3> QED BY <3>1, <3>2
    <2>2. ASSUME k = "gauge", NEW m \in WithName
          PROVE  Lookup(files'[cur].rows, "counter", m) = Absent
      BY <1>5, <1>10, <2>2 DEF Kinds
    <2>3. ASSUME NEW m \in WithName,
                 Lookup(files'[job'[periodic].file].rows, job'[periodic].kind, m) # Absent
          PROVE  \E i \in 1 .. job'[periodic].next - 1 :
                     rows'[job'[periodic].kind][i].name = m
      <3>1. PICK i \in 1 .. j.next + 1 - 1 : rows[k][i].name = m
        BY <1>7, <2>1, <2>3
      <3> QED BY <1>2, <1>7, <3>1
    <2>4. job'[periodic].kind = "gauge" =>
             \A m \in WithName : Lookup(files'[job'[periodic].file].rows, "counter", m) = Absent
      BY <1>7, <2>2
    <2> QED BY <2>3, <2>4 DEF WrittenInv
  <1> QED BY <1>12, <1>13

\* Every step of the periodic backup.
LEMMA PastBackup ==
    ASSUME RotationSafe, HistoryInv, PastInv, ~SyncMode, ~ctxDone, bounds["signals"] = 0, ~wild,
           PerformBackup(periodic)
    PROVE  PastInv'
  <1> DEFINE j == job[periodic]
             g == job'[periodic]
             b == periodic
  <1>1. /\ running /\ j \in Job /\ InLoop(j, rows) /\ b \in Backupers
        /\ files \in [FileIds -> File] /\ cur \in Paths /\ old \in Paths /\ NoFile \notin FileIds
        /\ had' = had /\ rows' = rows
    BY BackupersApart, FileAssumption, BackupFrame
       DEF RotationSafe, LifeSafe, TypeInv, Typed, LoopInv, processVars
  <1>2. (\A f \in {cur, old} \ {NoFile} : PastRows(files[f].rows)) /\ WrittenInv
    BY <1>1 DEF PastInv
  <1>3. ASSUME \A f \in {cur', old'} \ {NoFile} : PastRows(files'[f].rows), WrittenInv'
        PROVE  PastInv'
    BY <1>1, <1>3 DEF PastInv, PastRows
  <1>4. ~Looping(g) => WrittenInv'
    BY DEF WrittenInv
  <1>5. CASE Begins(b) \/ Removes(b) \/ Rotates(b) \/ Faults(b) \/ Ends(b)
    <2>1. ~Looping(g)
      BY <1>5, IdleJob DEF Begins, Removes, Rotates, Faults, Ends, Looping, LoopSteps
    <2>2. files' = files /\ {cur', old'} \subseteq {cur, old, NoFile}
      BY <1>5 DEF Begins, Removes, Rotates, Faults, Ends, Still
    <2> QED BY <1>2, <1>3, <1>4, <2>1, <2>2
  <1>6. CASE Returns(b)
    <2>1. cur' = cur /\ old' = old /\ ~Looping(g)
      BY <1>6, IdleJob DEF Returns
    <2>2. \A f \in FileIds : files'[f].rows = files[f].rows
      <3>1. CASE files' = files
        BY <3>1
      <3>2. CASE j.pc = "write" /\ files' \in PartOfLine(j.file)
        <4>1. j.file \in FileIds
          BY <1>1, <3>2 DEF InLoop, Looping, LoopSteps
        <4> QED BY <1>1, <3>2, <4>1, PartWritten
      <3> QED BY <1>6, <3>1, <3>2 DEF Returns
    <2>3. \A f \in {cur, old} \ {NoFile} : PastRows(files'[f].rows)
      BY <1>1, <1>2, <2>2 DEF Paths
    <2> QED BY <1>3, <1>4, <2>1, <2>3
  <1>7. CASE Opens(b)
    <2>1. /\ cur = NoFile /\ old' = old /\ cur' = Opened /\ files' = WithOpened /\ Creatable
          /\ g.file = Opened /\ g.kind = "gauge"
      BY <1>1, <1>7 DEF Opens, RotationSafe, RotationInv, WritesCur
    <2>2. /\ Opened \in FileIds /\ Opened # old /\ WithOpened[Opened] = NewFile
          /\ \A f \in FileIds \ {Opened} : WithOpened[f] = files[f]
      BY <1>1, <2>1, OpenedFile DEF InUse
    <2>3. \A k \in Kinds, n \in WithName : Lookup(files'[Opened].rows, k, n) = Absent
      BY <2>1, <2>2, EmptyIsStorage DEF NewFile
    <2>4. \A f \in {cur', old'} \ {NoFile} : PastRows(files'[f].rows)
      BY <1>1, <1>2, <2>1, <2>2, <2>3 DEF PastRows, Paths
    <2>5. WrittenInv'
      BY <2>1, <2>3 DEF WrittenInv, Kinds
    <2> QED BY <1>3, <2>4, <2>5
  <1>8. CASE Loads(b) \/ Reads(b)
    <2>1. /\ Looping(j) /\ g.file = j.file /\ g.kind = j.kind /\ g.next = j.next
          /\ files' = files /\ cur' = cur /\ old' = old
      BY <1>8 DEF Loads, Reads, SameLoop, Still, Looping, LoopSteps
    <2> HIDE DEF j, g
    <2>2. WrittenInv'
      BY <1>1, <1>2, <2>1 DEF WrittenInv, j, g
    <2> QED BY <1>2, <1>3, <2>1, <2>2
  <1>9. CASE Writes(b)
    <2>1. cur' = cur /\ old' = old
      BY <1>9 DEF Writes
    <2> QED BY <1>1, <1>3, <1>9, <2>1, PastWrite
  <1>10. CASE Turns(b)
    <2>1. /\ Looping(j) /\ j.kind = "gauge" /\ g.file = j.file /\ g.kind = "counter"
          /\ files' = files /\ cur' = cur /\ old' = old
      BY <1>10 DEF Turns, Still, Looping, LoopSteps
    <2>2. \A n \in WithName : Lookup(files[j.file].rows, "counter", n) = Absent
      BY <1>2, <2>1 DEF WrittenInv
    <2> HIDE DEF j
    <2>3. WrittenInv'
      BY <2>1, <2>2 DEF WrittenInv
    <2> QED BY <1>2, <1>3, <2>1, <2>3
  <1> QED BY <1>1, <1>5, <1>6, <1>7, <1>8, <1>9, <1>10, BackupCases DEF RotationSafe, LifeSafe

PastSafe == RotationSafe /\ HistoryInv /\ PastInv

LEMMA PastStores ==
    ASSUME PastSafe, Stores, ~SyncMode, bounds["signals"] = 0, ~wild
    PROVE  PastInv'
  <1>1. PICK c \in Clients, new \in Calls, unsaved \in Calls \cup {NoRequest} :
           Store(c, new, unsaved)
    BY DEF Stores
  <1>2. /\ running /\ files' = files /\ cur' = cur /\ old' = old /\ had' = Recorded(had, rows')
        /\ rows' \in Storages
    BY <1>1, TypeNext, NextCases, TypeStores DEF Store, PastSafe, RotationSafe, LifeSafe, TypeInv, Typed
  <1>3. Wider(had, had')
    BY <1>2, RecordedHas
  <1>4. (\A f \in {cur, old} \ {NoFile} : PastRows(files[f].rows)) /\ WrittenInv
    BY <1>2 DEF PastSafe, PastInv
  <1>5. \A f \in {cur', old'} \ {NoFile} : \A k \in Kinds, n \in WithName :
           Lookup(files'[f].rows, k, n) \in had'[k][n] \cup {Absent, 0}
    BY <1>2, <1>3, <1>4, PastGrows
  <1>6. WrittenInv'
    <2> DEFINE j == job[periodic]
    <2>1. /\ j \in Job /\ InLoop(j, rows) /\ rows \in Storages /\ periodic \in Backupers
      BY BackupersApart DEF PastSafe, RotationSafe, LifeSafe, TypeInv, Typed, LoopInv
    <2>2. /\ Grows(rows, rows')
          /\ job'[periodic].pc = j.pc /\ job'[periodic].file = j.file
          /\ job'[periodic].kind = j.kind /\ job'[periodic].next = j.next
      BY <1>1, <2>1, StoreMoves DEF PastSafe, RotationSafe, LifeSafe
    <2> SUFFICES ASSUME Looping(job'[periodic]) PROVE WrittenInv'
      BY DEF WrittenInv
    <2>3. Looping(j)
      BY <2>2 DEF Looping
    <2>4. PICK k \in Kinds : k = j.kind
      BY <2>1 DEF Job
    <2>5. /\ j.next \in Nat /\ j.len \in Nat /\ j.next \in 1 .. j.len + 1
          /\ j.len <= Len(rows[k]) /\ Len(rows[k]) \in Nat
      BY <2>1, <2>3, <2>4, StorageRows DEF InLoop, Job
    <2>6. \A i \in 1 .. j.next - 1 : rows'[k][i].name = rows[k][i].name
      <3>1. \A i \in 1 .. Len(rows[k]) : rows'[k][i].name = rows[k][i].name
        BY <2>2, <2>4 DEF Grows
      <3> QED BY <2>5, <3>1
    <2>7. ASSUME NEW n \in WithName, Lookup(files[j.file].rows, k, n) # Absent
          PROVE  \E i \in 1 .. j.next - 1 : rows'[k][i].name = n
      <3>1. PICK i \in 1 .. j.next - 1 : rows[k][i].name = n
        BY <1>4, <2>3, <2>4, <2>7 DEF WrittenInv
      <3> QED BY <2>6, <3>1
    <2>8. k = "gauge" => \A n \in WithName : Lookup(files[j.file].rows, "counter", n) = Absent
      BY <1>4, <2>3, <2>4 DEF WrittenInv
    <2> HIDE DEF j
    <2> QED BY <1>2, <2>2, <2>4, <2>7, <2>8 DEF WrittenInv
  <1> QED BY <1>5, <1>6 DEF PastInv, PastRows

LEMMA PastNext == ASSUME PastSafe, Next PROVE PastInv'
  <1> SUFFICES ASSUME ~SyncMode, bounds'["signals"] = 0, ~wild' PROVE PastInv'
    BY DEF PastInv
  <1>1. /\ bounds["signals"] = 0 /\ ~ctxDone /\ ~wild
        /\ bounds \in [Counted -> Nat] /\ bounds["signals"] \in Nat
    BY SignalsStay DEF PastSafe, RotationSafe, LifeSafe, LifeInv, TypeInv, Typed, Counted
  <1>2. (\A f \in {cur, old} \ {NoFile} : PastRows(files[f].rows)) /\ (running => WrittenInv)
    BY <1>1 DEF PastSafe, PastInv
  <1>3. /\ files \in [FileIds -> File] /\ cur \in Paths /\ old \in Paths /\ NoFile \notin FileIds
        /\ rows' \in Storages
    BY TypeNext, FileAssumption DEF PastSafe, RotationSafe, LifeSafe, TypeInv, Typed
  <1>4. CASE Start
    <2>1. /\ files' = WithOpened /\ cur' = Opened /\ old' = old /\ had' = Recorded(had, rows')
          /\ Creatable
      BY <1>4 DEF Start
    <2>2. Wider(had, had')
      BY <1>3, <2>1, RecordedHas
    <2>3. ~Looping(job'[periodic])
      BY <1>4, BackupersApart DEF Start, Idle, Looping, LoopSteps
    <2>4. ASSUME NEW f \in {cur', old'} \ {NoFile}, NEW k \in Kinds, NEW n \in WithName
          PROVE  Lookup(files'[f].rows, k, n) \in had'[k][n] \cup {Absent, 0}
      <3>1. f \in FileIds
        BY <1>3, <2>1, <2>4, OpenedFile DEF Paths
      <3>2. CASE f \in {cur, old} /\ files'[f] = files[f]
        BY <1>2, <2>2, <2>4, <3>2, PastGrows
      <3>3. CASE files'[f] = NewFile
        BY <3>3, EmptyIsStorage DEF NewFile
      <3> QED BY <1>3, <2>1, <2>4, <3>1, <3>2, <3>3, OpenedFile DEF InUse
    <2> QED BY <2>3, <2>4 DEF PastInv, PastRows, WrittenInv
  <1>5. CASE Signal
    BY <1>1, <1>5, CountTyped DEF Signal, Counted
  <1>6. CASE Process /\ ~Signal
    <2>1. UNCHANGED <<rows, files, cur, old, job, had>> /\ running
      BY <1>6, ProcessMoves DEF PastSafe, RotationSafe, LifeSafe
    <2> QED BY <1>2, <2>1 DEF PastInv, PastRows, WrittenInv
  <1>7. CASE Stores
    BY <1>1, <1>7, PastStores
  <1>8. ASSUME NEW c \in Clients, WriteUpdate(c) \/ WriteUpdateFails(c) PROVE FALSE
    BY <1>8 DEF WriteUpdate, WriteUpdateFails, PastSafe, RotationSafe, LifeSafe, LifeInv
  <1>9. ASSUME NEW b \in Backupers, PerformBackup(b) PROVE PastInv'
    BY <1>1, <1>9, OnlyPeriodic, PastBackup DEF PastSafe, RotationSafe
  <1>10. ~StopPeriodic
    BY <1>1 DEF StopPeriodic
  <1> QED BY <1>4, <1>5, <1>6, <1>7, <1>8, <1>9, <1>10, NextCases

\* Before the signal, and as long as no loop has read behind its array, a
\* restore invents no value but the zero of a row that was read before its
\* words were stored, through crashes, restarts and failing file operations:
\* each named metric of the two files has a value that it once had in memory
\* (backup.go: a backup starts from an empty file and writes each row once).
THEOREM FilesHoldPast == Spec => []FilesHoldPastValues
  <1>1. PastSafe /\ [Next]_vars => PastInv'
    <2>1. ASSUME PastInv, UNCHANGED vars PROVE PastInv'
      BY <2>1 DEF PastInv, PastRows, WrittenInv, Looping, vars
    <2> QED BY <2>1, PastNext DEF PastSafe
  <1>2. PastInv => FilesHoldPastValues
    BY DEF PastInv, PastRows, FilesHoldPastValues
  <1> QED BY <1>1, <1>2, PastInit, RotationSafeAlways, HistoryAlways, PTL DEF Spec, PastSafe

-----------------------------------------------------------------------------
(* The metrics of the signal.                                              *)

\* The metrics that were complete when the signal came.
AtSignal(k, n) == Lookup(atSignal, k, n) # Absent

\* They stay in the storage, and no row that is being appended is one of them.
KeptRows == /\ \A k \in Kinds, n \in Names : AtSignal(k, n) => Lookup(rows, k, n) # Absent
            /\ filling.todo # {} =>
                  ~AtSignal(filling.kind, rows[filling.kind][Len(rows[filling.kind])].name)

KeptInv == ctxDone => KeptRows

\* Adding a metric makes it present, and leaves the others present.
LEMMA AddKeeps ==
    ASSUME NEW r \in Storages, NEW k \in Kinds, NEW n \in Names, NEW v \in Values(k)
    PROVE  /\ Lookup(Add(r, k, n, v), k, n) # Absent
           /\ \A x \in Kinds : \A m : Lookup(r, x, m) # Absent => Lookup(Add(r, k, n, v), x, m) # Absent
  <1>1. Lookup(Add(r, k, n, v), k, n) # Absent
    <2>1. CASE Lookup(r, k, n) = Absent
      BY <2>1, AddOne, ValuesPresent
    <2>2. CASE Lookup(r, k, n) # Absent
      <3>1. Lookup(r, k, n) \in Values(k)
        BY <2>2, LookupRow
      <3>2. Combine(k, Lookup(r, k, n), v) \in Values(k)
        BY <3>1, CombineTyped
      <3>3. Lookup(Add(r, k, n, v), k, n) = Combine(k, Lookup(r, k, n), v)
        BY <2>2, AddOne
      <3> QED BY <3>2, <3>3, ValuesPresent
    <2> QED BY <2>1, <2>2
  <1>2. ASSUME NEW x \in Kinds, NEW m, Lookup(r, x, m) # Absent
        PROVE  Lookup(Add(r, k, n, v), x, m) # Absent
    <2>1. CASE x = k /\ m = n
      BY <1>1, <2>1
    <2>2. CASE x # k \/ m # n
      BY <1>2, <2>2, AddOne
    <2> QED BY <2>1, <2>2
  <1> QED BY <1>1, <1>2

LEMMA KeptSignal == ASSUME TypeInv, Signal PROVE KeptRows'
  <1>1. /\ Typed /\ rows \in Storages /\ rows' = rows /\ filling' = filling /\ atSignal' = Finished
        /\ filling.kind \in Kinds
    BY DEF TypeInv, Typed, Signal
  <1>2. ASSUME NEW k \in Kinds, NEW n, Lookup(Finished, k, n) # Absent
        PROVE  \E i \in 1 .. Len(Finished[k]) : /\ rows[k][i].name = n /\ i \in 1 .. Len(rows[k])
                                                /\ IsFilled(k, i)
    <2>1. /\ Finished \in Storages /\ Len(Finished[k]) <= Len(rows[k])
          /\ \A i \in 1 .. Len(Finished[k]) : Finished[k][i] = rows[k][i] /\ IsFilled(k, i)
      BY <1>1, FinishedRows
    <2>2. PICK i \in 1 .. Len(Finished[k]) : Finished[k][i].name = n
      BY <1>2, <2>1, LookupRow
    <2>3. Len(rows[k]) \in Nat /\ Len(Finished[k]) \in Nat
      BY <1>1, <2>1, StorageRows
    <2> QED BY <2>1, <2>2, <2>3
  <1>3. ASSUME NEW k \in Kinds, NEW n \in Names, Lookup(Finished, k, n) # Absent
        PROVE  Lookup(rows, k, n) # Absent
    BY <1>1, <1>2, <1>3, LookupRow
  <1>4. ASSUME filling.todo # {}
        PROVE  ~(Lookup(Finished, filling.kind, rows[filling.kind][Len(rows[filling.kind])].name) # Absent)
    <2> DEFINE k == filling.kind
               last == Len(rows[k])
    <2> SUFFICES ASSUME Lookup(Finished, k, rows[k][last].name) # Absent PROVE FALSE
      OBVIOUS
    <2>1. PICK i \in 1 .. Len(Finished[k]) : /\ rows[k][i].name = rows[k][last].name
                                             /\ i \in 1 .. last /\ IsFilled(k, i)
      BY <1>1, <1>2
    <2>2. last \in 1 .. last
      BY <1>1, <1>4, StorageRows DEF Typed
    <2>3. i = last
      BY <1>1, <2>1, <2>2, StorageRows
    <2> QED BY <1>4, <2>1, <2>3 DEF IsFilled
  <1> QED BY <1>1, <1>3, <1>4 DEF KeptRows, AtSignal

LEMMA KeptNext == ASSUME LifeSafe, KeptInv, Next PROVE KeptInv'
  <1>1. CASE Signal
    BY <1>1, KeptSignal DEF KeptInv, LifeSafe
  <1>2. CASE Start
    BY <1>2 DEF Start, KeptInv
  <1>3. CASE Process /\ ~Signal
    <2>1. rows' = rows /\ filling'.todo \subseteq filling.todo
          /\ (filling' = filling \/ filling' = Filled \/ filling'.kind = filling.kind)
      BY <1>3, ProcessMoves DEF LifeSafe
    <2>2. atSignal' = atSignal /\ (ctxDone' => ctxDone)
      BY <1>3 DEF Process, CloseServer, Exit, Crash, FillRow, Fault, Dies
    <2>3. Filled.todo = {}
      BY DEF Filled
    <2> QED BY <2>1, <2>2, <2>3 DEF KeptInv, KeptRows, AtSignal
  <1>4. CASE StopPeriodic
    BY <1>4 DEF StopPeriodic, processVars, KeptInv, KeptRows, AtSignal
  <1>5. CASE Stores
    <2>1. PICK c \in Clients, new \in Calls, unsaved \in Calls \cup {NoRequest} :
             Store(c, new, unsaved)
      BY <1>5 DEF Stores
    <2>2. /\ new.kind \in Kinds /\ new.name \in Names /\ new.value \in Values(new.kind)
          /\ rows' = Add(rows, new.kind, new.name, new.value) /\ rows \in Storages
      BY <2>1, StoreMoves DEF LifeSafe, TypeInv, Typed
    <2>3. \A x \in Kinds : \A m : Lookup(rows, x, m) # Absent => Lookup(rows', x, m) # Absent
      BY <2>2, AddKeeps
    <2>4. atSignal' = atSignal /\ ctxDone' = ctxDone
      BY <2>1 DEF Store
    <2>5. \/ filling'.todo = {}
          \/ /\ filling'.kind = new.kind /\ Lookup(rows, new.kind, new.name) = Absent
             /\ rows'[new.kind][Len(rows'[new.kind])].name = new.name
      <3>1. CASE filling' = filling
        BY <2>1, <3>1, StoreFills DEF LifeSafe
      <3>2. CASE filling' # filling
        <4>1. /\ filling' = [kind |-> new.kind, todo |-> {"name", "value"}]
              /\ Lookup(rows, new.kind, new.name) = Absent
              /\ rows'[new.kind][Len(rows'[new.kind])] = [name |-> new.name, value |-> new.value]
          BY <2>1, <3>2, StoreFills DEF LifeSafe
        <4> QED BY <4>1
      <3> QED BY <3>1, <3>2
    <2> QED BY <2>2, <2>3, <2>4, <2>5 DEF KeptInv, KeptRows, AtSignal
  <1>6. ASSUME NEW c \in Clients, WriteUpdate(c) \/ WriteUpdateFails(c) PROVE KeptInv'
    BY <1>6 DEF WriteUpdate, WriteUpdateFails, Answered, KeptInv, KeptRows, AtSignal
  <1>7. ASSUME NEW b \in Backupers, PerformBackup(b) PROVE KeptInv'
    BY <1>7, BackupFrame DEF LifeSafe, processVars, KeptInv, KeptRows, AtSignal
  <1> QED BY <1>1, <1>2, <1>3, <1>4, <1>5, <1>6, <1>7, NextCases

\* A complete row of a metric of the signal is read as it is.
LEMMA KeptWords ==
    ASSUME Typed, KeptRows, NEW k \in Kinds, NEW i \in 1 .. Len(rows[k]),
           AtSignal(k, rows[k][i].name)
    PROVE  Words(k, i) = rows[k][i]
  <1>1. IsFilled(k, i)
    BY DEF KeptRows, IsFilled
  <1> QED BY <1>1, WordsRow

\* The rows of a kind have all of its metrics of the signal.
LEMMA KeptAt ==
    ASSUME rows \in Storages, KeptRows, NEW k \in Kinds, NEW n \in Names, AtSignal(k, n)
    PROVE  \E i \in 1 .. Len(rows[k]) : rows[k][i].name = n
  BY LookupRow DEF KeptRows

-----------------------------------------------------------------------------
(* The end of the server.                                                  *)

\* main's own backup has renamed the file, and nothing has failed.  No file
\* that is created from then on is renamed before the server ends, except
\* where another backup makes one after it.
AfterRename == /\ ctxDone /\ bounds["faults"] = 0 /\ Encodable /\ ~wild
               /\ \A b \in Backupers : job[b].pc # "fault"
               /\ job[main].pc \in LoopSteps \cup {"create", "done"}

\* A step of performBackup outside of the loops that leaves the file.
Keeps    == files' = files /\ cur' = cur
Waits(b) == /\ Keeps /\ ~Looping(job[b]) /\ job[b].pc # "create"
            /\ ~Looping(job'[b]) /\ job'[b].pc # "create"

\* What the steps of performBackup do then.
LEMMA BackupThen ==
    ASSUME LifeSafe, HistoryInv, NEW b \in Backupers, PerformBackup(b), AfterRename'
    PROVE  /\ running /\ ctxDone /\ ctxDone' /\ ~wild
           /\ UNCHANGED <<rows, filling, atSignal, since, had>>
           /\ \A x \in Backupers \ {b} : job'[x] = job[x]
           /\ \/ Rotates(b)
              \/ /\ AfterRename
                 /\ Waits(b) \/ Opens(b) \/ Loads(b) \/ Reads(b) \/ Writes(b) \/ Turns(b) \/ Ends(b)
  <1> DEFINE j == job[b]
  <1>1. /\ running /\ ctxDone /\ ctxDone' /\ UNCHANGED <<rows, filling, atSignal, since, had>>
        /\ \A x \in Backupers \ {b} : job'[x] = job[x]
    BY BackupFrame DEF LifeSafe, processVars, AfterRename
  <1>2. bounds["faults"] = 0 /\ bounds'["faults"] = 0
    BY BackupFrame DEF LifeSafe, AfterRename
  <1>3. /\ ~wild /\ ~wild' /\ job'[b].pc # "fault"
        /\ \A n \in Names : had["gauge"][n] \cap Unencodable = {}
    <2>1. ~wild
      BY BackupCases DEF LifeSafe, AfterRename, Begins, Removes, Rotates, Opens, Loads, Reads,
                         Faults, Writes, Returns, Turns, Ends, Aside
    <2> QED BY <1>1, <2>1 DEF AfterRename, Encodable
  <1>4. /\ j \in Job /\ InLoop(j, rows) /\ LoopIn(had, j)
    BY <1>1, <1>3 DEF LifeSafe, TypeInv, Typed, LoopInv, HistoryInv
  <1>5. ASSUME b = main => j.pc \in LoopSteps \cup {"create", "done"}, j.pc # "fault"
        PROVE  AfterRename
    BY <1>1, <1>2, <1>3, <1>5, BackupersApart DEF AfterRename, Encodable
  <1>6. CASE Begins(b) \/ Removes(b)
    <2>1. /\ j.pc \in {"wait", "remove"} /\ job'[b].pc \in {"remove", "rename"}
          /\ files' = files /\ cur' = cur
      BY <1>6 DEF Begins, Removes, Still
    <2>2. b # main
      BY <2>1 DEF AfterRename, LoopSteps
    <2> QED BY <1>1, <1>3, <1>5, <2>1, <2>2 DEF Waits, Keeps, Looping, LoopSteps
  <1>7. CASE Opens(b) \/ Loads(b) \/ Reads(b) \/ Writes(b) \/ Turns(b) \/ Ends(b)
    <2>1. j.pc \in LoopSteps \cup {"create"}
      BY <1>7 DEF Opens, Loads, Reads, Writes, Turns, Ends, LoopSteps
    <2>2. "fault" \notin LoopSteps \cup {"create"}
      BY DEF LoopSteps
    <2> QED BY <1>1, <1>3, <1>5, <1>7, <2>1, <2>2
  <1>8. ~Returns(b)
    <2> SUFFICES ASSUME Returns(b) PROVE FALSE
      OBVIOUS
    <2>1. j.pc = "write" /\ j.copy.value \in Unencodable
      BY <1>2 DEF Returns
    <2>2. Looping(j) /\ j.copy \in RowsOf(j.kind) /\ j.kind \in Kinds
      BY <1>4, <2>1 DEF InLoop, Looping, LoopSteps, Job
    <2>3. CASE j.kind = "gauge"
      <3>1. PICK m \in Names : j.copy.value \in had["gauge"][m] \cup {0}
        BY <1>4, <2>1, <2>2, <2>3 DEF LoopIn
      <3>2. j.copy.value = 0
        BY <1>3, <2>1, <3>1
      <3> QED BY <2>1, <3>2, UnencodableAssumption
    <2>4. CASE j.kind = "counter"
      <3>1. j.copy.value \in Int
        BY <2>2, <2>4, HalfRangeAssumption DEF RowsOf, Values
      <3> QED BY <2>1, <3>1, UnencodableAssumption
    <2> QED BY <2>2, <2>3, <2>4 DEF Kinds
  <1>9. ~Faults(b)
    BY <1>3 DEF Faults
  <1>10. CASE Rotates(b)
    BY <1>1, <1>3, <1>10
  <1> QED BY <1>6, <1>7, <1>8, <1>9, <1>10, BackupCases DEF LifeSafe

\* What i backups have made of a counter that has had the values vs: nothing,
\* one of the values, or the sum of one from each.
Plus(these, vs) == {Wrap(a + b) : a \in these, b \in vs}
Level(i, vs) == IF i = 0 THEN {}
                ELSE IF i = 1 THEN vs
                ELSE IF i = 2 THEN vs \cup Plus(vs, vs)
                ELSE Sums(vs)

LEMMA LevelIs ==
    ASSUME NEW vs
    PROVE  /\ Level(0, vs) = {} /\ Level(1, vs) = vs /\ Level(2, vs) = vs \cup Plus(vs, vs)
           /\ Level(3, vs) = vs \cup Plus(vs, vs) \cup Plus(Plus(vs, vs), vs)
           /\ Level(3, vs) = Sums(vs)
  <1>1. Sums(vs) = vs \cup Plus(vs, vs) \cup Plus(Plus(vs, vs), vs)
    BY DEF Sums, Plus
  <1> QED BY <1>1 DEF Level

LEMMA LevelGrows ==
    ASSUME NEW vs, NEW ws, vs \subseteq ws, NEW i \in 0 .. 3, NEW m \in 0 .. 3, i <= m
    PROVE  Level(i, vs) \subseteq Level(m, ws)
  <1>1. \A these, those : these \subseteq those => Plus(these, vs) \subseteq Plus(those, ws)
    BY DEF Plus
  <1>2. Plus(vs, vs) \subseteq Plus(ws, ws)
    BY <1>1
  <1>3. Plus(Plus(vs, vs), vs) \subseteq Plus(Plus(ws, ws), ws)
    BY <1>1, <1>2
  <1>4. i \in {0, 1, 2, 3} /\ m \in {0, 1, 2, 3}
    OBVIOUS
  <1> QED BY <1>2, <1>3, <1>4, LevelIs

\* One more backup adds one of the values.
LEMMA LevelAdds ==
    ASSUME NEW vs, NEW v \in vs, NEW i \in 0 .. 2
    PROVE  /\ v \in Level(i + 1, vs)
           /\ \A x \in Level(i, vs) : Wrap(x + v) \in Level(i + 1, vs)
  <1>1. \A these : \A x \in these : Wrap(x + v) \in Plus(these, vs)
    BY DEF Plus
  <1>2. CASE i = 0
    BY <1>2, LevelIs
  <1>3. CASE i = 1
    BY <1>1, <1>3, LevelIs
  <1>4. CASE i = 2
    BY <1>1, <1>4, LevelIs
  <1> QED BY <1>2, <1>3, <1>4

\* A loop that still has to load the length of its slice.
Unloaded(b) == job[b].pc \in {"slice", "pointer"}

\* A backup that may still write the counter n into the file.
MayWrite(b, n) ==
    \/ job[b].pc = "create"
    \/ /\ Looping(job[b]) /\ job[b].file = cur
       /\ \/ job[b].kind = "gauge" \/ Unloaded(b)
          \/ \E i \in job[b].next .. job[b].len : rows["counter"][i].name = n

\* How many backups have written it, or will not.
Through(b, n) == IF MayWrite(b, n) THEN 0 ELSE 1
AllThrough(n) == Through(periodic, n) + Through(final, n) + Through(main, n)

Since(k, n) == since[k][n] \ {Absent}

\* What a loop has copied of a metric of the signal is complete: its name, and
\* a value of the history h.
Full(h, r, j) ==
    LET m == r[j.kind][j.next].name
    IN  j.pc = "write" /\ AtSignal(j.kind, m) => j.copy.name = m /\ j.copy.value \in h[j.kind][m]

InFile(k, n) == Lookup(files[cur].rows, k, n) # Absent

\* The file that is made after main's rename holds what the metrics of the
\* signal have been since.
FreshFile ==
    /\ ~files[cur].torn
    /\ \A b \in Backupers : Looping(job[b]) /\ job[b].file = cur =>
           LoopIn(since, job[b]) /\ Full(since, rows, job[b])
    /\ \A n \in WithName :
          /\ AtSignal("gauge", n) =>
                Lookup(files[cur].rows, "gauge", n) \in Since("gauge", n) \cup {Absent}
          /\ AtSignal("counter", n) =>
                Lookup(files[cur].rows, "counter", n) \in
                    Level(AllThrough(n), Since("counter", n)) \cup {Absent}

FreshInv == AfterRename /\ cur # NoFile => FreshFile

LEMMA ThroughGrows ==
    ASSUME \A b \in Backupers, n \in Names : MayWrite(b, n)' => MayWrite(b, n)
    PROVE  \A n \in Names : AllThrough(n) \in 0 .. 3 /\ AllThrough(n)' \in 0 .. 3
                            /\ AllThrough(n) <= AllThrough(n)'
  <1> TAKE n \in Names
  <1>1. \A b \in Backupers : Through(b, n) \in {0, 1} /\ Through(b, n)' \in {0, 1}
                             /\ Through(b, n) <= Through(b, n)'
    BY DEF Through
  <1> HIDE DEF Through
  <1> QED BY <1>1, BackupersApart DEF AllThrough

\* A step that leaves the file, and makes no backup write more.
LEMMA FreshStays ==
    ASSUME FreshFile, cur' = cur, files'[cur] = files[cur], atSignal' = atSignal,
           Wider(since, since'),
           \A b \in Backupers, n \in Names : MayWrite(b, n)' => MayWrite(b, n),
           \A b \in Backupers : Looping(job'[b]) /\ job'[b].file = cur =>
               LoopIn(since', job'[b]) /\ Full(since', rows', job'[b])
    PROVE  FreshFile'
  <1>1. \A k \in Kinds, n \in Names : Since(k, n) \subseteq Since(k, n)'
    BY DEF Since, Wider
  <1>2. ASSUME NEW n \in Names
        PROVE  Level(AllThrough(n), Since("counter", n)) \subseteq
                  Level(AllThrough(n), Since("counter", n))'
    <2>1. PICK i \in 0 .. 3, m \in 0 .. 3 : i = AllThrough(n) /\ m = AllThrough(n)' /\ i <= m
      BY ThroughGrows
    <2>2. Since("counter", n) \subseteq Since("counter", n)'
      BY <1>1 DEF Kinds
    <2>3. Level(i, Since("counter", n)) \subseteq Level(m, Since("counter", n)')
      BY <2>1, <2>2, LevelGrows
    <2> QED BY <2>1, <2>3
  <1>3. \A b \in Backupers : Looping(job'[b]) /\ job'[b].file = cur' =>
           LoopIn(since', job'[b]) /\ Full(since, rows, job[b])'
    BY DEF Full, AtSignal
  <1>4. ASSUME NEW n \in WithName
        PROVE  /\ AtSignal("gauge", n)' =>
                     Lookup(files'[cur'].rows, "gauge", n) \in Since("gauge", n)' \cup {Absent}
               /\ AtSignal("counter", n)' =>
                     Lookup(files'[cur'].rows, "counter", n) \in
                         Level(AllThrough(n), Since("counter", n))' \cup {Absent}
    <2>1. n \in Names /\ AtSignal("gauge", n)' = AtSignal("gauge", n)
          /\ AtSignal("counter", n)' = AtSignal("counter", n)
      BY DEF AtSignal, WithName
    <2> QED BY <1>1, <1>2, <2>1 DEF FreshFile, Kinds
  <1> QED BY <1>3, <1>4 DEF FreshFile

\* A backup creates the file: it is empty, and only that backup writes to it.
LEMMA FreshOpens ==
    ASSUME TypeInv, NEW b \in Backupers, Opens(b), cur = NoFile, atSignal' = atSignal,
           \A x \in Backupers \ {b} : job'[x] = job[x]
    PROVE  FreshFile'
  <1>1. /\ files \in [FileIds -> File] /\ job \in [Backupers -> Job] /\ cur \in Paths
    BY DEF TypeInv, Typed
  <1>2. /\ files'[cur'] = NewFile /\ \A x \in Backupers : job[x].file # cur'
    BY <1>1, OpenedFile DEF Opens, InUse
  <1>3. ASSUME NEW x \in Backupers, Looping(job'[x]), job'[x].file = cur'
        PROVE  LoopIn(since', job'[x]) /\ Full(since', rows', job'[x])
    <2>1. x = b
      BY <1>2, <1>3
    <2>2. job'[b].live /\ job'[b].pc # "write"
      BY DEF Opens
    <2>3. PICK g : g = job'[b]
      OBVIOUS
    <2>4. LoopIn(since', g) /\ Full(since', rows', g)
      BY <2>2, <2>3 DEF LoopIn, Full
    <2> QED BY <2>1, <2>3, <2>4
  <1>4. \A k \in Kinds, n \in Names : Lookup(files'[cur'].rows, k, n) = Absent
    BY <1>2, EmptyIsStorage DEF NewFile
  <1>5. \A x \in Backupers : Looping(job'[x]) /\ job'[x].file = cur' =>
           LoopIn(since', job'[x]) /\ Full(since, rows, job[x])'
    BY <1>3 DEF Full, AtSignal
  <1> QED BY <1>2, <1>4, <1>5 DEF FreshFile, NewFile, Kinds, WithName

\* What a loop has copied stays complete.
LEMMA FullStays ==
    ASSUME NEW h, NEW g, Wider(h, g), NEW r \in Storages, NEW s, Grows(r, s),
           NEW j \in Job, InLoop(j, r), Full(h, r, j),
           NEW i, i.pc = j.pc, i.kind = j.kind, i.next = j.next, i.copy = j.copy
    PROVE  Full(g, s, i)
  <1> SUFFICES ASSUME j.pc = "write" PROVE Full(g, s, i)
    BY DEF Full
  <1>1. PICK k \in Kinds : k = j.kind
    BY DEF Job
  <1>2. /\ j.next \in Nat /\ j.len \in Nat /\ Len(r[k]) \in Nat
        /\ j.next \in 1 .. j.len + 1 /\ j.next <= j.len /\ j.len <= Len(r[k])
    BY <1>1, StorageRows DEF InLoop, Looping, LoopSteps, Job
  <1>3. j.next \in 1 .. Len(r[k])
    BY <1>2
  <1>4. s[k][j.next].name = r[k][j.next].name /\ r[k][j.next].name \in Names
    BY <1>3, StorageRows DEF Grows, RowsOf
  <1> QED BY <1>1, <1>4 DEF Full, Wider

\* performBackup copies complete rows of the metrics of the signal.
LEMMA FullMoves ==
    ASSUME TypeInv, KeptRows, RowsIn(since, rows), NEW b \in Backupers, PerformBackup(b), ~wild',
           LoopIn(since, job[b]), Full(since, rows, job[b]), NameCopied(job[b], rows)
    PROVE  Full(since, rows, job'[b])
  <1> DEFINE j == job[b]
             g == job'[b]
  <1>1. j \in Job /\ InLoop(j, rows) /\ rows \in Storages /\ Typed
    BY DEF TypeInv, Typed, LoopInv
  <1>2. CASE g.pc # "write"
    BY <1>2 DEF Full
  <1>3. CASE g.pc = "write"
    <2>1. Reads(b)
      BY <1>3, IdleJob, BackupCases
         DEF Begins, Removes, Rotates, Opens, Loads, Reads, Faults, Writes, Returns, Turns, Ends
    <2>2. /\ j.pc = "row" /\ j.next <= j.len /\ ~PastEnd(j)
          /\ g.kind = j.kind /\ g.next = j.next
          /\ g.copy = IF j.live THEN Words(j.kind, j.next) ELSE j.frozen[j.next]
      BY <2>1 DEF Reads, SameLoop
    <2>3. PICK k \in Kinds : k = j.kind
      BY <1>1 DEF Job
    <2>4. PICK row : row = IF j.live THEN Words(k, j.next) ELSE j.frozen[j.next]
      OBVIOUS
    <2>5. j.next \in 1 .. Len(rows[k]) /\ (j.live \/ row.name = rows[k][j.next].name)
      BY <1>1, <2>2, <2>3, <2>4, RowJob
    <2> DEFINE m == rows[k][j.next].name
    <2>6. ASSUME AtSignal(k, m) PROVE row.name = m /\ row.value \in since[k][m]
      <3>1. CASE j.live
        <4>1. row = rows[k][j.next]
          BY <1>1, <2>4, <2>5, <2>6, <3>1, KeptWords
        <4> QED BY <2>5, <4>1 DEF RowsIn
      <3>2. CASE ~j.live
        <4>1. row = j.frozen[j.next] /\ j.next \in 1 .. Len(j.frozen) /\ row.name = m
          BY <1>1, <2>2, <2>4, <2>5, <3>2 DEF PastEnd, Job
        <4>2. row.value \in since[k][row.name]
          BY <2>2, <2>3, <3>2, <4>1 DEF LoopIn, Looping, LoopSteps
        <4> QED BY <4>1, <4>2
      <3> QED BY <3>1, <3>2
    <2>7. g.copy = row /\ g.kind = k /\ g.next = j.next
      BY <2>2, <2>3, <2>4
    <2> HIDE DEF g, j
    <2>8. Full(since, rows, g)
      BY <2>6, <2>7 DEF Full
    <2> QED BY <2>8 DEF g
  <1> QED BY <1>2, <1>3

\* A backup writes a row to the file.
LEMMA FreshWrites ==
    ASSUME LifeSafe, HistoryInv, running, ~wild, FreshFile, NEW b \in Backupers, Writes(b),
           cur # NoFile, job[b].file = cur, UNCHANGED <<rows, since, atSignal>>,
           \A x \in Backupers \ {b} : job'[x] = job[x],
           LoopIn(since, job'[b]), Full(since, rows, job'[b])
    PROVE  FreshFile'
  <1> DEFINE j == job[b]
             r == files[cur].rows
             k == j.kind
             n == j.copy.name
             v == j.copy.value
  <1>1. rows \in Storages /\ files \in [FileIds -> File] /\ cur \in FileIds
    BY DEF LifeSafe, TypeInv, Typed, Paths
  <1>2. /\ Looping(j) /\ k \in Kinds /\ j.len \in Nat /\ j.next \in 1 .. j.len
        /\ j.len <= Len(rows[k]) /\ Len(rows[k]) \in Nat /\ j.next \in 1 .. Len(rows[k])
        /\ n \in Names /\ v \in Values(k) /\ (n # Unnamed => n = rows[k][j.next].name)
        /\ j.pc = "write"
    BY WritesRow DEF Writes
  <1>3. n # Unnamed /\ AtSignal(k, n) => v \in Since(k, n)
    <2> SUFFICES ASSUME n # Unnamed, AtSignal(k, n) PROVE v \in Since(k, n)
      OBVIOUS
    <2>1. Full(since, rows, j)
      BY <1>2 DEF FreshFile
    <2>2. v \in since[k][n]
      BY <1>2, <2>1 DEF Full
    <2> QED BY <1>2, <2>2, ValuesPresent DEF Since
  <1>4. r \in Storages /\ ~files[cur].torn
    BY <1>1 DEF File, FreshFile
  <1>5. files'[cur].rows = Add(r, k, n, v) /\ ~files'[cur].torn
    <2>1. files' = Line(cur, k, n, v)
      BY DEF Writes
    <2> HIDE DEF j, k, n, v
    <2> QED BY <1>1, <1>2, <1>4, <2>1, LineWritten DEF r
  <1>6. /\ job'[b].pc = "row" /\ job'[b].file = cur /\ job'[b].kind = k
        /\ job'[b].next = j.next + 1 /\ job'[b].len = j.len /\ cur' = cur /\ Looping(job'[b])
    BY DEF Writes, Looping, LoopSteps
  <1> HIDE DEF j, r, k, n, v
  <1>7. /\ Lookup(files'[cur].rows, k, n) =
              IF Lookup(r, k, n) = Absent THEN v ELSE Combine(k, Lookup(r, k, n), v)
        /\ \A x \in Kinds : \A m : x # k \/ m # n => Lookup(files'[cur].rows, x, m) = Lookup(r, x, m)
    BY <1>2, <1>4, <1>5, AddOne
  <1>8. \A x \in Backupers, m \in Names : MayWrite(x, m)' => MayWrite(x, m)
    <2> SUFFICES ASSUME NEW m \in Names, MayWrite(b, m)' PROVE MayWrite(b, m)
      BY <1>6 DEF MayWrite, Unloaded
    <2>1. k = "gauge" \/ \E i \in j.next + 1 .. j.len : rows["counter"][i].name = m
      BY <1>6 DEF MayWrite, Unloaded
    <2>2. k = "gauge" \/ \E i \in j.next .. j.len : rows["counter"][i].name = m
      BY <1>2, <2>1
    <2> QED BY <1>2, <2>2 DEF MayWrite, j, k
  <1>9. \A m \in Names : /\ AllThrough(m) \in 0 .. 3 /\ AllThrough(m)' \in 0 .. 3
                         /\ AllThrough(m) <= AllThrough(m)'
    BY <1>8, ThroughGrows
  <1>10. \A x \in Kinds, m \in Names : Since(x, m)' = Since(x, m) /\ AtSignal(x, m)' = AtSignal(x, m)
    BY DEF Since, AtSignal
  <1>11. ASSUME NEW m \in WithName, AtSignal("gauge", m)
         PROVE  Lookup(files'[cur].rows, "gauge", m) \in Since("gauge", m) \cup {Absent}
    <2>1. CASE k = "gauge" /\ m = n
      BY <1>3, <1>7, <1>11, <2>1 DEF Combine, WithName
    <2>2. CASE k # "gauge" \/ m # n
      BY <1>7, <1>11, <2>2 DEF FreshFile, Kinds, r
    <2> QED BY <2>1, <2>2
  <1>12. ASSUME NEW m \in WithName, AtSignal("counter", m)
         PROVE  Lookup(files'[cur].rows, "counter", m) \in
                   Level(AllThrough(m)', Since("counter", m)) \cup {Absent}
    <2> DEFINE vs == Since("counter", m)
    <2>0. m \in Names /\ m # Unnamed
      BY DEF WithName
    <2>1. PICK p \in 0 .. 3, q \in 0 .. 3 : p = AllThrough(m) /\ q = AllThrough(m)' /\ p <= q
      BY <1>9, <2>0
    <2>2. Lookup(r, "counter", m) \in Level(p, vs) \cup {Absent}
      BY <1>12, <2>1 DEF FreshFile, r
    <2>3. CASE k = "counter" /\ m = n
      <3>1. MayWrite(b, m)
        <4>1. j.next \in j.next .. j.len
          BY <1>2
        <4> QED BY <1>2, <2>0, <2>3, <4>1 DEF MayWrite, j, k
      <3>2. ~MayWrite(b, m)'
        <4>1. \A x, y \in 1 .. Len(rows[k]) : rows[k][x].name = rows[k][y].name => x = y
          BY <1>1, <1>2, StorageRows
        <4>2. ASSUME NEW i \in j.next + 1 .. j.len PROVE rows[k][i].name # n
          <5>1. i \in 1 .. Len(rows[k]) /\ j.next \in 1 .. Len(rows[k]) /\ i # j.next
            BY <1>2
          <5> QED BY <1>2, <2>0, <2>3, <4>1, <5>1
        <4>3. ~(\E i \in job'[b].next .. job'[b].len : rows["counter"][i].name = m)
          BY <1>6, <2>3, <4>2
        <4> QED BY <1>6, <2>3, <4>3 DEF MayWrite, Unloaded
      <3>3. Through(b, m) = 0 /\ Through(b, m)' = 1
        BY <3>1, <3>2 DEF Through
      <3>4. \A x \in Backupers : Through(x, m) \in {0, 1} /\ Through(x, m)' \in {0, 1}
                                 /\ Through(x, m) <= Through(x, m)'
        BY <1>8, <2>0 DEF Through
      <3>5. p + 1 <= q /\ p \in 0 .. 2
        <4> HIDE DEF Through
        <4> QED BY <2>1, <3>3, <3>4, BackupersApart DEF AllThrough
      <3>6. v \in vs
        BY <1>3, <1>12, <2>0, <2>3
      <3>7. v \in Level(p + 1, vs) /\ \A x \in Level(p, vs) : Wrap(x + v) \in Level(p + 1, vs)
        BY <3>5, <3>6, LevelAdds
      <3>8. Level(p + 1, vs) \subseteq Level(q, vs)
        <4>1. p + 1 \in 0 .. 3 /\ q \in 0 .. 3 /\ p + 1 <= q
          BY <3>5
        <4> QED BY <4>1, LevelGrows
      <3>9. Lookup(files'[cur].rows, "counter", m) \in Level(p + 1, vs)
        <4>1. CASE Lookup(r, k, n) = Absent
          BY <1>7, <2>3, <3>7, <4>1
        <4>2. CASE Lookup(r, k, n) # Absent
          <5>1. Lookup(files'[cur].rows, "counter", m) = Wrap(Lookup(r, "counter", m) + v)
            BY <1>7, <2>3, <4>2 DEF Combine
          <5> QED BY <2>2, <2>3, <3>7, <4>2, <5>1
        <4> QED BY <4>1, <4>2
      <3> QED BY <2>1, <3>8, <3>9
    <2>4. CASE k # "counter" \/ m # n
      <3>1. Lookup(files'[cur].rows, "counter", m) = Lookup(r, "counter", m)
        BY <1>7, <2>4 DEF Kinds
      <3>2. Level(p, vs) \subseteq Level(q, vs)
        BY <2>1, LevelGrows
      <3> QED BY <2>1, <2>2, <3>1, <3>2
    <2> QED BY <2>3, <2>4
  <1>13. ASSUME NEW x \in Backupers, Looping(job'[x]), job'[x].file = cur
         PROVE  LoopIn(since', job'[x]) /\ Full(since, rows, job[x])'
    <2>1. Full(since, rows, job[x])' <=> Full(since, rows, job'[x])
      BY DEF Full, AtSignal
    <2>2. since' = since
      OBVIOUS
    <2>3. CASE x = b
      BY <2>1, <2>2, <2>3
    <2>4. CASE x # b
      <3>1. job'[x] = job[x]
        BY <2>4
      <3> QED BY <1>13, <2>1, <2>2, <3>1 DEF FreshFile
    <2> QED BY <2>3, <2>4
  <1>14. \A m \in WithName :
            /\ AtSignal("gauge", m)' =>
                  Lookup(files'[cur].rows, "gauge", m) \in Since("gauge", m)' \cup {Absent}
            /\ AtSignal("counter", m)' =>
                  Lookup(files'[cur].rows, "counter", m) \in
                     Level(AllThrough(m)', Since("counter", m)') \cup {Absent}
    <2>1. \A m \in WithName : m \in Names
      BY DEF WithName
    <2> QED BY <1>10, <1>11, <1>12, <2>1 DEF Kinds
  <1> QED BY <1>5, <1>6, <1>13, <1>14 DEF FreshFile

CleanSafe == LifeSafe /\ HistoryInv /\ KeptInv /\ FreshInv

LEMMA FreshBackup == ASSUME CleanSafe, NEW b \in Backupers, PerformBackup(b) PROVE FreshInv'
  <1> SUFFICES ASSUME AfterRename', cur' # NoFile PROVE FreshFile'
    BY DEF FreshInv
  <1>1. /\ running /\ ctxDone /\ ~wild /\ UNCHANGED <<rows, atSignal, since, had>>
        /\ \A x \in Backupers \ {b} : job'[x] = job[x]
        /\ Waits(b) \/ Opens(b) \/ Loads(b) \/ Reads(b) \/ Writes(b) \/ Turns(b) \/ Ends(b)
    BY BackupThen DEF CleanSafe, Rotates
  <1>2. /\ TypeInv /\ job[b] \in Job /\ InLoop(job[b], rows) /\ KeptRows
        /\ files \in [FileIds -> File] /\ cur \in Paths /\ RowsIn(since, rows)
        /\ NameCopied(job[b], rows)
    BY <1>1 DEF CleanSafe, LifeSafe, HistoryInv, KeptInv, TypeInv, Typed, LoopInv
  <1>3. AfterRename /\ Wider(since, since') /\ ~wild'
    BY <1>1, <1>2, BackupThen DEF CleanSafe, Rotates, Wider, AfterRename
  <1>4. cur # NoFile => FreshFile
    BY <1>3 DEF CleanSafe, FreshInv
  <1>5. ASSUME Looping(job[b]), job[b].file = cur, cur # NoFile
        PROVE  LoopIn(since, job'[b]) /\ Full(since, rows, job'[b])
    <2>1. LoopIn(since, job[b]) /\ Full(since, rows, job[b])
      BY <1>4, <1>5 DEF FreshFile
    <2> QED BY <1>2, <1>3, <2>1, LoopInMoves, FullMoves
  \* It is enough to see what becomes of b's own loop.
  <1>6. ASSUME cur' = cur, cur # NoFile, files'[cur] = files[cur],
               \A n \in Names : MayWrite(b, n)' => MayWrite(b, n),
               Looping(job'[b]) /\ job'[b].file = cur =>
                   LoopIn(since, job'[b]) /\ Full(since, rows, job'[b])
        PROVE  FreshFile'
    <2>1. \A x \in Backupers, n \in Names : MayWrite(x, n)' => MayWrite(x, n)
      BY <1>1, <1>6 DEF MayWrite, Unloaded
    <2>2. ASSUME NEW x \in Backupers, Looping(job'[x]), job'[x].file = cur
          PROVE  LoopIn(since', job'[x]) /\ Full(since', rows', job'[x])
      <3>1. CASE x = b
        BY <1>1, <1>6, <2>2, <3>1
      <3>2. CASE x # b
        BY <1>1, <1>4, <1>6, <2>2, <3>2 DEF FreshFile
      <3> QED BY <3>1, <3>2
    <2> QED BY <1>1, <1>3, <1>4, <1>6, <2>1, <2>2, FreshStays
  <1>7. CASE Waits(b) \/ Ends(b)
    <2>1. cur' = cur /\ files' = files /\ ~Looping(job'[b]) /\ job'[b].pc # "create"
      BY <1>7, IdleJob DEF Waits, Ends, Keeps, Still
    <2>2. \A n \in Names : ~MayWrite(b, n)'
      BY <2>1 DEF MayWrite
    <2> QED BY <1>6, <2>1, <2>2
  <1>8. CASE Opens(b)
    <2>1. CASE cur = NoFile
      BY <1>1, <1>2, <1>8, <2>1, FreshOpens
    <2>2. CASE cur # NoFile
      <3>1. cur' = cur /\ files' = files /\ job'[b].live /\ job'[b].pc = "slice"
            /\ job[b].pc = "create"
        BY <1>2, <1>8, <2>2, OpenedFile DEF Opens
      <3>2. PICK g : g = job'[b]
        OBVIOUS
      <3>3. LoopIn(since, g) /\ Full(since, rows, g)
        BY <3>1, <3>2 DEF LoopIn, Full
      <3>4. \A n \in Names : MayWrite(b, n)
        BY <3>1 DEF MayWrite
      <3> QED BY <1>6, <2>2, <3>1, <3>2, <3>3, <3>4
    <2> QED BY <2>1, <2>2
  <1>9. CASE Loads(b) \/ Reads(b) \/ Turns(b)
    <2>1. cur' = cur /\ files' = files /\ Looping(job[b]) /\ job'[b].file = job[b].file
      BY <1>9 DEF Loads, Reads, Turns, Still, SameLoop, Looping, LoopSteps
    <2>2. ASSUME NEW n \in Names, MayWrite(b, n)' PROVE MayWrite(b, n)
      <3>1. /\ job'[b].pc # "create" /\ job'[b].file = cur
            /\ \/ job'[b].kind = "gauge" \/ job'[b].pc \in {"slice", "pointer"}
               \/ \E i \in job'[b].next .. job'[b].len : rows["counter"][i].name = n
        BY <1>1, <1>9, <2>1, <2>2 DEF MayWrite, Unloaded, Loads, Reads, Turns
      <3>2. CASE Turns(b)
        BY <2>1, <3>1, <3>2 DEF MayWrite, Turns
      <3>3. CASE Loads(b) /\ job[b].pc \in {"slice", "pointer"}
        BY <2>1, <3>1, <3>3 DEF MayWrite, Unloaded
      <3>4. CASE Reads(b) \/ (Loads(b) /\ job[b].pc = "length")
        <4>1. /\ job'[b].kind = job[b].kind /\ job'[b].next = job[b].next
              /\ job'[b].len = job[b].len /\ job'[b].pc \notin {"slice", "pointer"}
          BY <3>4 DEF Reads, Loads, SameLoop
        <4> QED BY <2>1, <3>1, <4>1 DEF MayWrite
      <3> QED BY <1>9, <3>2, <3>3, <3>4 DEF Loads
    <2>3. cur # NoFile
      BY <2>1
    <2> QED BY <1>5, <1>6, <2>1, <2>2, <2>3
  <1>10. CASE Writes(b)
    <2>1. cur' = cur /\ cur # NoFile /\ Looping(job[b])
      BY <1>10 DEF Writes, Looping, LoopSteps
    <2>2. CASE job[b].file = cur
      BY <1>1, <1>4, <1>5, <1>10, <2>1, <2>2, FreshWrites DEF CleanSafe
    <2>3. CASE job[b].file # cur
      <3>1. files'[cur] = files[cur]
        <4>1. job[b].file \in FileIds /\ job[b].kind \in Kinds /\ job[b].copy \in RowsOf(job[b].kind)
          BY <1>2, <1>10, <2>1 DEF Writes, InLoop, Job
        <4>2. PICK k \in Kinds : k = job[b].kind
          BY <4>1
        <4>3. PICK n \in Names, v \in Values(k) : files' = Line(job[b].file, k, n, v)
          BY <1>10, <4>1, <4>2 DEF Writes, RowsOf
        <4> QED BY <1>2, <2>1, <2>3, <4>1, <4>3, LineWritten DEF Paths
      <3>2. /\ \A n \in Names : ~MayWrite(b, n)'
            /\ job'[b].file # cur
        BY <1>10, <2>1, <2>3 DEF Writes, MayWrite
      <3> QED BY <1>6, <2>1, <3>1, <3>2
    <2> QED BY <2>2, <2>3
  <1> QED BY <1>1, <1>7, <1>8, <1>9, <1>10

\* The other steps: a file is renamed only by performBackup, and once main's
\* backup has begun, the synchronous handlers have no producer.
LEMMA OthersThen ==
    ASSUME LifeSafe, AfterRename', Next, \A b \in Backupers : ~PerformBackup(b)
    PROVE  /\ AfterRename /\ ctxDone /\ UNCHANGED <<files, cur, atSignal>> /\ Wider(since, since')
           /\ \/ Stores
              \/ UNCHANGED <<rows, since>> /\ \A b \in Backupers : job'[b] = job[b]
              \/ /\ UNCHANGED <<rows, since>> /\ \A b \in Backupers \ {periodic} : job'[b] = job[b]
                 /\ ~Looping(job[periodic]) /\ job[periodic].pc # "create"
                 /\ ~Looping(job'[periodic]) /\ job'[periodic].pc # "create"
  <1>1. LifeInv' /\ ctxDone' /\ job \in [Backupers -> Job] /\ bounds \in [Counted -> Nat]
        /\ rows' \in Storages /\ Wider(since, since)
    BY LifeNext DEF LifeSafe, TypeInv, Typed, AfterRename, Wider
  <1>2. ~Start /\ ~Crash /\ \A b \in Backupers : ~Fault(b)
    BY <1>1 DEF Start, Crash, Fault, Dies
  <1>3. ~Signal
    <2> SUFFICES ASSUME Signal PROVE FALSE
      OBVIOUS
    <2>1. job'[main] = job[main] /\ job[main].pc = "wait"
      BY DEF Signal, LifeSafe, LifeInv
    <2> QED BY <2>1 DEF AfterRename, LoopSteps
  <1>4. CASE CloseServer \/ Exit \/ FillRow
    <2>1. UNCHANGED <<files, cur, atSignal, rows, since, had, job, ctxDone, bounds, wild>>
      BY <1>4 DEF CloseServer, Exit, FillRow
    <2> QED BY <1>1, <2>1 DEF AfterRename, Encodable
  <1>5. CASE StopPeriodic
    <2>1. job[periodic].pc = "wait" /\ job'[periodic].pc = "done"
          /\ \A b \in Backupers \ {periodic} : job'[b] = job[b]
      BY <1>1, <1>5, BackupersApart DEF StopPeriodic, At, Goto, Job
    <2>2. job'[main] = job[main]
      BY <2>1, BackupersApart
    <2>3. UNCHANGED <<files, cur, atSignal, rows, since, had, ctxDone, bounds, wild>>
      BY <1>5 DEF StopPeriodic, processVars, counts
    <2>4. \A b \in Backupers : job[b].pc # "fault"
      BY <2>1 DEF AfterRename
    <2>5. AfterRename
      BY <1>1, <2>2, <2>3, <2>4 DEF AfterRename, Encodable
    <2> QED BY <1>1, <2>1, <2>3, <2>5 DEF Looping, LoopSteps, AfterRename
  <1>6. CASE Stores
    <2>1. PICK c \in Clients, new \in Calls, unsaved \in Calls \cup {NoRequest} :
             Store(c, new, unsaved)
      BY <1>6 DEF Stores
    <2>2. had' = Recorded(had, rows') /\ ctxDone' = ctxDone /\ since' = Recorded(since, rows')
          /\ UNCHANGED <<files, cur, atSignal, wild>>
      BY <1>1, <2>1 DEF Store
    <2>3. Wider(had, had') /\ Wider(since, since')
      BY <1>1, <2>2, RecordedHas
    <2>4. bounds'["faults"] = bounds["faults"]
      BY <1>1, <2>1, CountTyped DEF Store, Counted
    <2>5. \A b \in Backupers : job'[b].pc = job[b].pc
      BY <2>1, StoreMoves DEF LifeSafe
    <2>6. Encodable
      BY <2>3 DEF AfterRename, Encodable, Wider, Kinds
    <2>7. AfterRename
      BY <1>1, <2>2, <2>4, <2>5, <2>6, BackupersApart DEF AfterRename
    <2> QED BY <1>1, <1>6, <2>2, <2>3, <2>7
  <1>7. ASSUME NEW c \in Clients, WriteUpdate(c) \/ WriteUpdateFails(c)
        PROVE  /\ AfterRename /\ UNCHANGED <<files, cur, atSignal, rows, since, ctxDone, job>>
    <2>1. job' = job /\ running /\ UNCHANGED <<cur, atSignal, rows, since, ctxDone, had, wild>>
      BY <1>7 DEF WriteUpdate, WriteUpdateFails, Answered
    <2>2. ~producer.open
      <3>1. job[main].pc # "wait"
        BY <2>1 DEF AfterRename, LoopSteps
      <3> QED BY <2>1, <3>1 DEF LifeSafe, LifeInv
    <2>3. files' = files /\ bounds' = bounds
      BY <1>7, <2>2 DEF WriteUpdate, WriteUpdateFails
    <2> QED BY <2>1, <2>3 DEF AfterRename, Encodable
  <1> QED BY <1>1, <1>2, <1>3, <1>4, <1>5, <1>6, <1>7, NextCases DEF Process

\* An update moves no loop, and changes none of its names.
LEMMA LoopStays ==
    ASSUME TypeInv, Stores, NEW b \in Backupers
    PROVE  /\ job'[b].pc = job[b].pc /\ job'[b].file = job[b].file
           /\ job'[b].kind = job[b].kind /\ job'[b].next = job[b].next /\ job'[b].len = job[b].len
           /\ Looping(job'[b]) <=> Looping(job[b])
           /\ Looping(job[b]) =>
                 \A i \in job[b].next .. job[b].len :
                     rows'[job[b].kind][i].name = rows[job[b].kind][i].name
  <1>1. PICK c \in Clients, new \in Calls, unsaved \in Calls \cup {NoRequest} :
           Store(c, new, unsaved)
    BY DEF Stores
  <1>2. /\ job[b] \in Job /\ Grows(rows, rows') /\ InLoop(job[b], rows) /\ rows \in Storages
        /\ job'[b].pc = job[b].pc /\ job'[b].file = job[b].file
        /\ job'[b].kind = job[b].kind /\ job'[b].next = job[b].next /\ job'[b].len = job[b].len
    BY <1>1, StoreMoves DEF TypeInv, Typed, LoopInv
  <1>3. ASSUME Looping(job[b]), NEW i \in job[b].next .. job[b].len
        PROVE  rows'[job[b].kind][i].name = rows[job[b].kind][i].name
    <2>1. PICK k \in Kinds : k = job[b].kind
      BY <1>2 DEF Job
    <2>2. i \in 1 .. Len(rows[k])
      <3>1. /\ job[b].next \in Nat /\ job[b].len \in Nat /\ Len(rows[k]) \in Nat
            /\ job[b].next \in 1 .. job[b].len + 1 /\ job[b].len <= Len(rows[k])
        BY <1>2, <1>3, <2>1, StorageRows DEF InLoop, Job
      <3> QED BY <3>1
    <2> QED BY <1>2, <2>1, <2>2 DEF Grows
  <1> QED BY <1>2, <1>3 DEF Looping

LEMMA FreshNext == ASSUME CleanSafe, Next PROVE FreshInv'
  <1>1. ASSUME \A b \in Backupers : ~PerformBackup(b) PROVE FreshInv'
    <2> SUFFICES ASSUME AfterRename', cur' # NoFile PROVE FreshFile'
      BY DEF FreshInv
    <2>1. /\ AfterRename /\ ctxDone /\ UNCHANGED <<files, cur, atSignal>> /\ Wider(since, since')
          /\ TypeInv /\ RowsIn(since, rows) /\ job \in [Backupers -> Job] /\ rows \in Storages
      BY <1>1, OthersThen DEF CleanSafe, LifeSafe, HistoryInv, TypeInv, Typed
    <2>2. FreshFile
      BY <2>1 DEF CleanSafe, FreshInv
    <2>3. CASE Stores
      <3>1. PICK c \in Clients, new \in Calls, unsaved \in Calls \cup {NoRequest} :
               Store(c, new, unsaved)
        BY <2>3 DEF Stores
      <3>2. ASSUME NEW b \in Backupers, Looping(job'[b]), job'[b].file = cur
            PROVE  LoopIn(since', job'[b]) /\ Full(since', rows', job'[b])
        <4>1. Looping(job[b]) /\ job[b].file = cur
          BY <2>1, <2>3, <3>2, LoopStays
        <4>2. LoopIn(since, job[b]) /\ Full(since, rows, job[b])
          BY <2>2, <4>1 DEF FreshFile
        <4>3. NameCopied(job[b], rows)
          BY <2>1, <3>1 DEF CleanSafe, HistoryInv, AfterRename, Store
        <4>4. /\ Grows(rows, rows') /\ job[b] \in Job /\ InLoop(job[b], rows)
              /\ job'[b].pc = job[b].pc /\ job'[b].kind = job[b].kind
              /\ job'[b].next = job[b].next /\ job'[b].copy = job[b].copy
          BY <2>1, <3>1, StoreMoves DEF TypeInv, LoopInv
        <4>5. LoopIn(since', job'[b])
          BY <2>1, <3>1, <4>2, <4>3, LoopInStores
        <4>6. Full(since', rows', job'[b])
          BY <2>1, <4>2, <4>4, FullStays
        <4> QED BY <4>5, <4>6
      <3>3. ASSUME NEW b \in Backupers, NEW n \in Names, MayWrite(b, n)' PROVE MayWrite(b, n)
        <4>1. /\ job'[b].pc = job[b].pc /\ job'[b].file = job[b].file
              /\ job'[b].kind = job[b].kind /\ job'[b].next = job[b].next
              /\ job'[b].len = job[b].len /\ (Looping(job'[b]) <=> Looping(job[b]))
              /\ Looping(job[b]) => \A i \in job[b].next .. job[b].len :
                     rows'[job[b].kind][i].name = rows[job[b].kind][i].name
          BY <2>1, <2>3, LoopStays
        <4>2. job[b].kind \in Kinds
          BY <2>1 DEF Job
        <4> QED BY <2>1, <3>3, <4>1, <4>2 DEF MayWrite, Unloaded, Kinds
      <3> QED BY <2>1, <2>2, <3>2, <3>3, FreshStays
    <2>4. CASE UNCHANGED <<rows, since>> /\ \A b \in Backupers : job'[b] = job[b]
      <3>1. \A b \in Backupers, n \in Names : MayWrite(b, n)' => MayWrite(b, n)
        BY <2>1, <2>4 DEF MayWrite, Unloaded
      <3>2. \A b \in Backupers : Looping(job'[b]) /\ job'[b].file = cur =>
               LoopIn(since', job'[b]) /\ Full(since', rows', job'[b])
        BY <2>1, <2>2, <2>4 DEF FreshFile
      <3> QED BY <2>1, <2>2, <3>1, <3>2, FreshStays
    <2>5. CASE /\ UNCHANGED <<rows, since>> /\ \A b \in Backupers \ {periodic} : job'[b] = job[b]
               /\ ~Looping(job[periodic]) /\ job[periodic].pc # "create"
               /\ ~Looping(job'[periodic]) /\ job'[periodic].pc # "create"
      <3>1. \A b \in Backupers, n \in Names : MayWrite(b, n)' => MayWrite(b, n)
        BY <2>1, <2>5 DEF MayWrite, Unloaded
      <3>2. \A b \in Backupers : Looping(job'[b]) /\ job'[b].file = cur =>
               LoopIn(since', job'[b]) /\ Full(since', rows', job'[b])
        BY <2>1, <2>2, <2>5 DEF FreshFile
      <3> QED BY <2>1, <2>2, <3>1, <3>2, FreshStays
    <2> QED BY <1>1, <2>3, <2>4, <2>5, OthersThen DEF CleanSafe
  <1> QED BY <1>1, FreshBackup

\* What a backup still has to write.
ToWrite(b, k, n) ==
    \/ job[b].kind = "gauge" /\ k = "counter"
    \/ job[b].kind = k /\ Unloaded(b)
    \/ job[b].kind = k /\ \E i \in job[b].next .. job[b].len : rows[k][i].name = n

\* A backup that will have completed the file when it returns.
Covers(b) ==
    \/ job[b].pc = "create"
    \/ /\ Looping(job[b]) /\ job[b].file = cur
       /\ \A k \in Kinds, n \in WithName : AtSignal(k, n) => InFile(k, n) \/ ToWrite(b, k, n)

Complete == cur # NoFile /\ \A k \in Kinds, n \in WithName : AtSignal(k, n) => InFile(k, n)

CoverInv == AfterRename => Complete \/ \E b \in Backupers : Covers(b)

\* A step that leaves the file in place, and every metric in it.
LEMMA CoverStays ==
    ASSUME cur' = cur, atSignal' = atSignal,
           cur # NoFile => \A k \in Kinds, n \in WithName : InFile(k, n) => InFile(k, n)'
    PROVE  /\ Complete => Complete'
           /\ \A b \in Backupers :
                 /\ job'[b] = job[b] /\ rows' = rows /\ TypeInv /\ Covers(b) => Covers(b)'
  <1>1. Complete => Complete'
    BY DEF Complete, AtSignal
  <1>2. ASSUME NEW b \in Backupers, job'[b] = job[b], rows' = rows, TypeInv, Covers(b)
        PROVE  Covers(b)'
    <2>1. Looping(job[b]) => job[b].file # NoFile
      BY <1>2, FileAssumption DEF TypeInv, LoopInv, InLoop
    <2> QED BY <1>2, <2>1 DEF Covers, AtSignal, ToWrite, Unloaded
  <1> QED BY <1>1, <1>2

\* A loop over the rows of a kind has to write what the loop at an earlier
\* row, or before its slice, had to write.
LEMMA LoadCovers ==
    ASSUME TypeInv, KeptRows, NEW b \in Backupers, Loads(b), rows' = rows,
           NEW k \in Kinds, NEW n \in WithName, AtSignal(k, n), ToWrite(b, k, n)
    PROVE  ToWrite(b, k, n)'
  <1>1. /\ job[b] \in Job /\ InLoop(job[b], rows) /\ rows \in Storages /\ n \in Names
        /\ job'[b].kind = job[b].kind /\ job'[b].next = job[b].next
    BY DEF TypeInv, Typed, LoopInv, Loads, SameLoop, WithName
  <1>2. CASE job[b].kind = "gauge" /\ k = "counter"
    BY <1>1, <1>2 DEF ToWrite
  <1>3. CASE job[b].kind = k /\ job'[b].len = Len(rows[job[b].kind])
    <2>1. job[b].next = 1
      BY <1>1, <1>3 DEF Loads, InLoop, Looping, LoopSteps
    <2>2. \E i \in 1 .. Len(rows[k]) : rows[k][i].name = n
      BY <1>1, KeptAt
    <2> QED BY <1>1, <1>3, <2>1, <2>2 DEF ToWrite
  <1>4. CASE job[b].kind = k /\ job[b].pc = "slice" /\ job'[b].pc = "pointer"
    BY <1>1, <1>4 DEF ToWrite, Unloaded
  <1>5. CASE job[b].kind = k /\ job[b].pc = "length" /\ job'[b].len = job[b].len
    BY <1>1, <1>5 DEF ToWrite, Unloaded
  <1> QED BY <1>2, <1>3, <1>4, <1>5 DEF Loads, ToWrite

LEMMA CoverBackup ==
    ASSUME CleanSafe, CoverInv, NEW b \in Backupers, PerformBackup(b), AfterRename'
    PROVE  Complete' \/ \E x \in Backupers : Covers(x)'
  <1>1. /\ running /\ ctxDone /\ ~wild /\ rows' = rows /\ atSignal' = atSignal
        /\ \A x \in Backupers \ {b} : job'[x] = job[x]
    BY BackupThen DEF CleanSafe
  <1>2. /\ TypeInv /\ job[b] \in Job /\ InLoop(job[b], rows) /\ rows \in Storages
        /\ files \in [FileIds -> File] /\ cur \in Paths /\ KeptRows
    BY <1>1 DEF CleanSafe, LifeSafe, KeptInv, TypeInv, Typed, LoopInv
  <1>3. CASE Rotates(b)
    BY <1>3 DEF Rotates, Covers
  <1>4. CASE ~Rotates(b)
    <2>1. /\ AfterRename
          /\ Waits(b) \/ Opens(b) \/ Loads(b) \/ Reads(b) \/ Writes(b) \/ Turns(b) \/ Ends(b)
      BY <1>4, BackupThen DEF CleanSafe
    <2>2. (Complete \/ \E x \in Backupers : Covers(x)) /\ (cur # NoFile => FreshFile)
      BY <2>1 DEF CoverInv, CleanSafe, FreshInv
    \* It is enough to see what becomes of b's own part.
    <2>3. ASSUME cur' = cur,
                 cur # NoFile => \A k \in Kinds, n \in WithName : InFile(k, n) => InFile(k, n)',
                 Covers(b) => Complete' \/ Covers(b)'
          PROVE  Complete' \/ \E x \in Backupers : Covers(x)'
      <3>1. Complete => Complete'
        BY <1>1, <2>3, CoverStays
      <3>2. \A x \in Backupers \ {b} : Covers(x) => Covers(x)'
        BY <1>1, <1>2, <2>3, CoverStays
      <3> QED BY <2>2, <2>3, <3>1, <3>2
    <2>4. ASSUME files' = files, cur' = cur
          PROVE  \A k \in Kinds, n \in WithName : InFile(k, n)' = InFile(k, n)
      BY <2>4 DEF InFile
    <2>5. CASE Waits(b)
      BY <2>3, <2>4, <2>5 DEF Waits, Keeps, Covers
    <2>6. CASE Opens(b)
      <3>1. Covers(b)'
        <4>1. /\ Looping(job'[b]) /\ job'[b].file = cur'
              /\ job'[b].kind = "gauge" /\ job'[b].pc = "slice"
          BY <2>6 DEF Opens, Looping, LoopSteps
        <4>2. \A k \in Kinds, n \in WithName : ToWrite(b, k, n)'
          BY <4>1 DEF ToWrite, Unloaded, Kinds
        <4> QED BY <4>1, <4>2 DEF Covers
      <3> QED BY <3>1
    <2>7. CASE Loads(b)
      <3>1. /\ Looping(job[b]) /\ Looping(job'[b]) /\ job'[b].file = job[b].file
            /\ job[b].pc # "create" /\ files' = files /\ cur' = cur
        BY <2>7 DEF Loads, SameLoop, Still, Looping, LoopSteps
      <3>2. ASSUME Covers(b) PROVE Covers(b)'
        <4>1. job'[b].file = cur /\ \A k \in Kinds, n \in WithName :
                 AtSignal(k, n) => InFile(k, n) \/ ToWrite(b, k, n)
          BY <3>1, <3>2 DEF Covers
        <4>2. ASSUME NEW k \in Kinds, NEW n \in WithName, AtSignal(k, n)'
              PROVE  InFile(k, n)' \/ ToWrite(b, k, n)'
          <5>1. AtSignal(k, n)
            BY <1>1, <4>2 DEF AtSignal
          <5> QED BY <1>1, <1>2, <2>4, <2>7, <3>1, <4>1, <5>1, LoadCovers
        <4> QED BY <3>1, <4>1, <4>2 DEF Covers
      <3> QED BY <2>3, <2>4, <3>1, <3>2
    <2>8. CASE Reads(b)
      <3>1. /\ Looping(job[b]) /\ Looping(job'[b]) /\ job'[b].file = job[b].file
            /\ job[b].pc = "row" /\ files' = files /\ cur' = cur
            /\ job'[b].kind = job[b].kind /\ job'[b].next = job[b].next /\ job'[b].len = job[b].len
        BY <2>8 DEF Reads, SameLoop, Still, Looping, LoopSteps
      <3>2. \A k \in Kinds, n \in WithName : ToWrite(b, k, n) => ToWrite(b, k, n)'
        BY <1>1, <3>1 DEF ToWrite, Unloaded
      <3>3. Covers(b) => Covers(b)'
        BY <1>1, <2>4, <3>1, <3>2 DEF Covers, AtSignal
      <3> QED BY <2>3, <2>4, <3>1, <3>3
    <2>9. CASE Turns(b)
      <3>1. /\ files' = files /\ cur' = cur /\ job[b].pc = "row"
            /\ job[b].next > job[b].len /\ job[b].kind = "gauge"
            /\ Looping(job[b]) /\ Looping(job'[b]) /\ job'[b].file = job[b].file
            /\ job'[b].kind = "counter" /\ job'[b].pc = "slice"
        BY <2>9 DEF Turns, Still, Looping, LoopSteps
      <3>2. ASSUME Covers(b) PROVE Covers(b)'
        <4>1. job[b].file = cur /\ job[b].next \in Nat /\ job[b].len \in Nat
          BY <1>2, <3>1, <3>2 DEF Covers, Job
        <4>2. ASSUME NEW k \in Kinds, NEW n \in WithName, AtSignal(k, n)'
              PROVE  InFile(k, n)' \/ ToWrite(b, k, n)'
          <5>1. AtSignal(k, n)
            BY <1>1, <4>2 DEF AtSignal
          <5>2. CASE k = "gauge"
            <6>1. ~ToWrite(b, k, n)
              BY <3>1, <4>1, <5>2 DEF ToWrite, Unloaded
            <6>2. InFile(k, n)
              BY <3>1, <3>2, <5>1, <6>1 DEF Covers
            <6> QED BY <2>4, <3>1, <6>2
          <5>3. CASE k = "counter"
            BY <3>1, <5>3 DEF ToWrite, Unloaded
          <5> QED BY <5>2, <5>3 DEF Kinds
        <4> QED BY <3>1, <4>1, <4>2 DEF Covers
      <3> QED BY <2>3, <2>4, <3>1, <3>2
    <2>10. CASE Ends(b)
      <3>1. /\ files' = files /\ cur' = cur /\ job[b].next > job[b].len
            /\ job[b].kind = "counter" /\ job[b].pc = "row" /\ Looping(job[b])
        BY <2>10 DEF Ends, Still, Looping, LoopSteps
      <3>2. ASSUME Covers(b) PROVE Complete'
        <4>1. cur # NoFile
          BY <1>2, <3>1, <3>2, FileAssumption DEF Covers, InLoop
        <4>2. job[b].next \in Nat /\ job[b].len \in Nat
          BY <1>2 DEF Job
        <4>3. \A k \in Kinds, n \in WithName : ~ToWrite(b, k, n)
          BY <3>1, <4>2 DEF ToWrite, Unloaded
        <4>4. \A k \in Kinds, n \in WithName : AtSignal(k, n) => InFile(k, n)
          BY <3>1, <3>2, <4>3 DEF Covers
        <4> QED BY <1>1, <2>4, <3>1, <4>1, <4>4 DEF Complete, AtSignal
      <3> QED BY <2>3, <2>4, <3>1, <3>2
    <2>11. CASE Writes(b)
      <3> DEFINE f == job[b].file
                 k == job[b].kind
                 n == job[b].copy.name
                 v == job[b].copy.value
      <3>1. /\ job[b].pc = "write" /\ cur' = cur /\ files' = Line(f, k, n, v)
            /\ job'[b].pc = "row" /\ job'[b].file = f /\ job'[b].kind = k
            /\ job'[b].next = job[b].next + 1 /\ job'[b].len = job[b].len
        BY <2>11 DEF Writes
      <3>2. /\ f \in FileIds /\ k \in Kinds /\ n \in Names /\ v \in Values(k)
            /\ job[b].next \in Nat /\ job[b].len \in Nat /\ Looping(job[b])
        BY <1>2, <3>1 DEF InLoop, Looping, LoopSteps, Job, RowsOf
      <3> HIDE DEF f, k, n, v
      <3>3. ASSUME cur # NoFile
            PROVE  /\ \A x \in Kinds, m \in WithName : InFile(x, m) => InFile(x, m)'
                   /\ f = cur => Lookup(files'[cur].rows, k, n) # Absent
        <4>1. cur \in FileIds /\ files[cur].rows \in Storages /\ ~files[cur].torn
          BY <1>2, <2>2, <3>3 DEF Paths, File, FreshFile
        <4>2. CASE f # cur
          <5>1. files'[cur] = files[cur]
            BY <1>2, <3>1, <3>2, <4>1, <4>2, LineWritten
          <5> QED BY <3>1, <4>2, <5>1 DEF InFile
        <4>3. CASE f = cur
          <5>1. files'[cur].rows = Add(files[cur].rows, k, n, v)
            BY <1>2, <3>1, <3>2, <4>1, <4>3, LineWritten
          <5>2. /\ Lookup(files'[cur].rows, k, n) # Absent
                /\ \A x \in Kinds : \A m : Lookup(files[cur].rows, x, m) # Absent =>
                                          Lookup(files'[cur].rows, x, m) # Absent
            BY <3>2, <4>1, <5>1, AddKeeps
          <5> QED BY <3>1, <5>2 DEF InFile
        <4> QED BY <4>2, <4>3
      <3>4. ASSUME Covers(b) PROVE Covers(b)'
        <4>1. f = cur /\ cur # NoFile
          BY <3>1, <3>2, <3>4, FileAssumption DEF Covers, f
        <4>2. ASSUME NEW x \in Kinds, NEW m \in WithName, AtSignal(x, m)'
              PROVE  InFile(x, m)' \/ ToWrite(b, x, m)'
          <5>0. AtSignal(x, m)
            BY <1>1, <4>2 DEF AtSignal
          <5>1. InFile(x, m) \/ ToWrite(b, x, m)
            BY <3>1, <3>4, <5>0 DEF Covers
          <5>2. CASE InFile(x, m)
            BY <3>3, <4>1, <5>2
          <5>3. CASE job[b].kind = "gauge" /\ x = "counter"
            BY <3>1, <5>3 DEF ToWrite, k
          <5>4. ASSUME job[b].kind = x, NEW i \in job[b].next .. job[b].len, rows[x][i].name = m
                PROVE  InFile(x, m)' \/ ToWrite(b, x, m)'
            <6>1. CASE i = job[b].next
              <7>1. Full(since, rows, job[b])
                BY <2>2, <3>2, <4>1 DEF FreshFile, f
              <7>2. x = k /\ n = m
                BY <3>1, <5>0, <5>4, <6>1, <7>1 DEF Full, k, n
              <7>3. Lookup(files'[cur].rows, k, n) # Absent
                BY <3>3, <4>1
              <7> QED BY <3>1, <7>2, <7>3 DEF InFile
            <6>2. CASE i # job[b].next
              <7>1. i \in job[b].next + 1 .. job[b].len
                BY <3>2, <6>2
              <7> QED BY <1>1, <3>1, <5>4, <7>1 DEF ToWrite, k
            <6> QED BY <6>1, <6>2
          <5>5. ~Unloaded(b)
            BY <3>1 DEF Unloaded
          <5> QED BY <5>1, <5>2, <5>3, <5>4, <5>5 DEF ToWrite
        <4>3. Looping(job'[b]) /\ job'[b].file = cur'
          BY <3>1, <4>1 DEF Looping, LoopSteps
        <4> QED BY <4>2, <4>3 DEF Covers
      <3> QED BY <2>3, <3>1, <3>3, <3>4
    <2> QED BY <2>1, <2>5, <2>6, <2>7, <2>8, <2>9, <2>10, <2>11
  <1> QED BY <1>3, <1>4

LEMMA CoverNext == ASSUME CleanSafe, CoverInv, Next PROVE CoverInv'
  <1>1. ASSUME AfterRename', \A b \in Backupers : ~PerformBackup(b)
        PROVE  Complete' \/ \E x \in Backupers : Covers(x)'
    <2>1. /\ AfterRename /\ UNCHANGED <<files, cur, atSignal>> /\ TypeInv
          /\ job \in [Backupers -> Job]
      BY <1>1, OthersThen DEF CleanSafe, LifeSafe, TypeInv, Typed
    <2>2. Complete \/ \E x \in Backupers : Covers(x)
      BY <2>1 DEF CoverInv
    <2>3. \A k \in Kinds, n \in WithName :
             InFile(k, n)' = InFile(k, n) /\ AtSignal(k, n)' = AtSignal(k, n)
      BY <2>1 DEF InFile, AtSignal
    <2>4. Complete => Complete'
      BY <2>1, <2>3 DEF Complete
    <2>5. ASSUME NEW b \in Backupers, Covers(b) PROVE Covers(b)'
      <3>1. CASE Stores
        <4>1. /\ job'[b].pc = job[b].pc /\ job'[b].file = job[b].file
              /\ job'[b].kind = job[b].kind /\ job'[b].next = job[b].next
              /\ job'[b].len = job[b].len /\ (Looping(job'[b]) <=> Looping(job[b]))
              /\ Looping(job[b]) => \A i \in job[b].next .. job[b].len :
                     rows'[job[b].kind][i].name = rows[job[b].kind][i].name
          BY <2>1, <3>1, LoopStays
        <4>2. Looping(job[b]) => \A k \in Kinds, n \in WithName : ToWrite(b, k, n) => ToWrite(b, k, n)'
          BY <4>1 DEF ToWrite, Unloaded
        <4> QED BY <2>1, <2>3, <2>5, <4>1, <4>2 DEF Covers
      <3>2. CASE UNCHANGED <<rows, since>> /\ job'[b] = job[b]
        BY <2>1, <2>3, <2>5, <3>2 DEF Covers, ToWrite, Unloaded
      <3>3. CASE ~Looping(job[b]) /\ job[b].pc # "create"
        BY <2>5, <3>3 DEF Covers
      <3> QED BY <1>1, <3>1, <3>2, <3>3, OthersThen DEF CleanSafe
    <2> QED BY <2>2, <2>4, <2>5
  <1> QED BY <1>1, CoverBackup DEF CoverInv

LEMMA CleanSafeAlways == Spec => [](CleanSafe /\ CoverInv)
  <1>1. Init => KeptInv /\ FreshInv /\ CoverInv
    BY DEF Init, KeptInv, FreshInv, CoverInv, AfterRename
  <1>2. CleanSafe /\ CoverInv /\ [Next]_vars => KeptInv' /\ FreshInv' /\ CoverInv'
    <2>1. ASSUME CleanSafe, CoverInv, UNCHANGED vars PROVE KeptInv' /\ FreshInv' /\ CoverInv'
      <3>1. FreshInv' = FreshInv
        BY <2>1 DEF vars, FreshInv, FreshFile, AfterRename, Encodable, Looping, LoopIn, Full,
                    AtSignal, AllThrough, Through, MayWrite, Unloaded, Since
      <3>2. CoverInv' = CoverInv
        BY <2>1 DEF vars, CoverInv, AtSignal, AfterRename, Encodable, Complete, InFile,
                    Covers, ToWrite, Unloaded, Looping
      <3>3. KeptInv' = KeptInv
        BY <2>1 DEF vars, KeptInv, KeptRows, AtSignal
      <3> QED BY <2>1, <3>1, <3>2, <3>3 DEF CleanSafe
    <2>2. CleanSafe /\ Next => KeptInv'
      BY KeptNext DEF CleanSafe
    <2> QED BY <2>1, <2>2, FreshNext, CoverNext
  <1> QED BY <1>1, <1>2, LifeSafeAlways, HistoryAlways, PTL DEF Spec, CleanSafe

\* After a shutdown without a crash, without a failing file operation and with
\* no read behind an array, the file restores every named metric that was
\* complete in the storage when the signal came, however the three backups,
\* which read without the lock, and the late handlers interleave: with a value
\* that the metric has had since, or for a counter with a sum of at most three
\* of them (main.go:126, SaveBackup, then wg.Wait).
THEOREM CleanExitKeeps == Spec => []CleanExitKeepsEverything
  <1>1. ASSUME CleanSafe, CoverInv PROVE CleanExitKeepsEverything
    <2> SUFFICES ASSUME ~running, ctxDone, bounds["faults"] = 0, Encodable, ~wild,
                        NEW k \in Kinds, NEW n \in WithName, Lookup(atSignal, k, n) # Absent
                 PROVE  LET values == since[k][n] \ {Absent}
                        IN  Lookup(Restored, k, n) \in IF k = "gauge" THEN values
                                                                     ELSE Sums(values)
      BY DEF CleanExitKeepsEverything
    <2>1. \A b \in Backupers : job[b].pc = "done"
      BY <1>1 DEF CleanSafe, LifeSafe, LifeInv
    <2>2. AfterRename
      BY <2>1, BackupersApart DEF AfterRename
    <2>3. Complete
      BY <1>1, <2>1, <2>2 DEF CoverInv, Covers, Looping, LoopSteps
    <2>4. AtSignal(k, n) /\ FreshFile /\ Restored = files[cur].rows /\ Lookup(Restored, k, n) # Absent
      BY <1>1, <2>2, <2>3 DEF CleanSafe, FreshInv, Complete, AtSignal, InFile, Restored
    <2>5. AllThrough(n) = 3
      <3>1. \A b \in Backupers : Through(b, n) = 1
        BY <2>1 DEF Through, MayWrite, Looping, LoopSteps
      <3> QED BY <3>1, BackupersApart DEF AllThrough
    <2>6. CASE k = "gauge"
      BY <2>4, <2>6 DEF FreshFile, Since
    <2>7. CASE k = "counter"
      BY <2>4, <2>5, <2>7, LevelIs DEF FreshFile, Since
    <2> QED BY <2>6, <2>7 DEF Kinds
  <1> QED BY <1>1, CleanSafeAlways, PTL

-----------------------------------------------------------------------------
(* The sum of the updates that are not yet in the file.                    *)

SumFor(req, S)  == MapThenSumSet(LAMBDA c : req[c].value, S)
Firsts(S)       == [u \in SUBSET S |-> CHOOSE x \in u : TRUE]
Amounts(req, S) == [c \in S |-> req[c].value]

LEMMA FirstsChoose ==
    ASSUME NEW S, NEW T \in SUBSET S
    PROVE  /\ Chooses(Firsts(S), T)
           /\ \A u \in SUBSET T : Firsts(S)[u] = CHOOSE x \in u : TRUE
  <1>1. ASSUME NEW u \in SUBSET T
        PROVE  Firsts(S)[u] = CHOOSE x \in u : TRUE
    BY DEF Firsts
  <1>2. ASSUME NEW u \in SUBSET T, u # {}
        PROVE  (CHOOSE x \in u : TRUE) \in u
    BY <1>2
  <1> QED BY <1>1, <1>2 DEF Chooses

\* MapThenSumSet over a finite set of numbers is a sum.
LEMMA SumForIs ==
    ASSUME NEW T, IsFiniteSet(T), NEW req, \A c \in T : req[c].value \in Int,
           NEW S \in SUBSET T
    PROVE  \E g : /\ IsSum(g, S, Firsts(T), Amounts(req, T))
                  /\ \A u \in SUBSET S : g[u] \in Int
                  /\ SumFor(req, S) = g[S]
  <1>1. IsFiniteSet(S) /\ Chooses(Firsts(T), S)
    BY FS_Subset, FirstsChoose
  <1>2. \A c \in T : Amounts(req, T)[c] = req[c].value
    BY DEF Amounts
  <1>3. PICK g : IsSum(g, S, Firsts(T), Amounts(req, T)) /\ \A u \in SUBSET S : g[u] \in Int
    BY <1>1, <1>2, SumsExist
  <1> DEFINE Eq(f) == f = [u \in SUBSET S |->
                 IF u = {} THEN 0
                 ELSE req[CHOOSE x \in u : TRUE].value + f[u \ {CHOOSE x \in u : TRUE}]]
             F     == CHOOSE f : Eq(f)
  <1>4. ASSUME NEW f
        PROVE  Eq(f) <=> IsSum(f, S, Firsts(T), Amounts(req, T))
    <2>1. ASSUME NEW u \in SUBSET S, u # {}
          PROVE  /\ Firsts(T)[u] = CHOOSE x \in u : TRUE
                 /\ Amounts(req, T)[Firsts(T)[u]] = req[CHOOSE x \in u : TRUE].value
      <3>1. Firsts(T)[u] = CHOOSE x \in u : TRUE
        BY FirstsChoose
      <3>2. Firsts(T)[u] \in T
        BY <1>1, <2>1 DEF Chooses
      <3> QED BY <1>2, <3>1, <3>2
    <2>2. ASSUME NEW u \in SUBSET S
          PROVE  (IF u = {} THEN 0
                  ELSE req[CHOOSE x \in u : TRUE].value + f[u \ {CHOOSE x \in u : TRUE}])
               = (IF u = {} THEN 0
                  ELSE Amounts(req, T)[Firsts(T)[u]] + f[u \ {Firsts(T)[u]}])
      <3>1. CASE u = {}
        BY <3>1
      <3>2. CASE u # {}
        <4>1. PICK x : x = CHOOSE y \in u : TRUE
          OBVIOUS
        <4>2. Firsts(T)[u] = x /\ Amounts(req, T)[x] = req[x].value
          BY <2>1, <3>2, <4>1
        <4> QED BY <4>1, <4>2
      <3> QED BY <3>1, <3>2
    <2> QED BY <2>2, Zenon DEF IsSum
  <1>5. Eq(F)
    <2>1. Eq(g)
      BY <1>3, <1>4
    <2> HIDE DEF Eq
    <2> QED BY <2>1, Zenon
  <1>6. SumFor(req, S) = F[S]
    BY Zenon DEF SumFor, MapThenSumSet, MapThenFoldSet
  <1>7. IsSum(F, S, Firsts(T), Amounts(req, T))
    BY <1>4, <1>5
  <1> HIDE DEF F
  <1>8. \A u \in SUBSET S : F[u] = g[u]
    BY <1>1, <1>3, <1>7, SumsAgree
  <1> QED BY <1>3, <1>6, <1>7, <1>8

LEMMA SumForNone == \A req : SumFor(req, {}) = 0
  <1> TAKE req
  <1>1. PICK g : IsSum(g, {}, Firsts({}), Amounts(req, {})) /\ SumFor(req, {}) = g[{}]
    BY FS_EmptySet, SumForIs
  <1> QED BY <1>1 DEF IsSum

\* One more update adds its number.
LEMMA SumForOneMore ==
    ASSUME NEW T, IsFiniteSet(T), NEW req, \A x \in T : req[x].value \in Int, NEW c \in T
    PROVE  /\ SumFor(req, T) \in Int /\ SumFor(req, T \ {c}) \in Int
           /\ SumFor(req, T) = req[c].value + SumFor(req, T \ {c})
  <1> DEFINE S == T \ {c}
  <1>1. PICK g : /\ IsSum(g, T, Firsts(T), Amounts(req, T))
                 /\ \A u \in SUBSET T : g[u] \in Int
                 /\ SumFor(req, T) = g[T]
    BY SumForIs
  <1>2. PICK h : /\ IsSum(h, S, Firsts(T), Amounts(req, T)) /\ SumFor(req, S) = h[S]
    BY SumForIs
  <1>3. Chooses(Firsts(T), T) /\ \A x \in T : Amounts(req, T)[x] = req[x].value
    BY FirstsChoose DEF Amounts
  <1>4. g[S] = h[S]
    <2>1. S \in SUBSET T /\ S \in SUBSET S
      OBVIOUS
    <2> DEFINE val == Amounts(req, T)
    <2>2. IsSum(g, T, Firsts(T), val) /\ IsSum(h, S, Firsts(T), val)
      BY <1>1, <1>2
    <2>3. \A x \in S : val[x] = val[x]
      OBVIOUS
    <2> HIDE DEF S, val
    <2> QED BY <1>3, <2>1, <2>2, <2>3, SumsAgree
  <1>5. g[T] = Amounts(req, T)[c] + g[S]
    BY <1>1, <1>3, SumTakesAny
  <1> QED BY <1>1, <1>2, <1>3, <1>4, <1>5

\* The sum does not depend on the other requests.
LEMMA SumForSame ==
    ASSUME NEW S, IsFiniteSet(S), NEW req, NEW new,
           \A c \in S : req[c].value \in Int /\ new[c] = req[c]
    PROVE  SumFor(new, S) = SumFor(req, S)
  <1>1. PICK g : IsSum(g, S, Firsts(S), Amounts(req, S)) /\ SumFor(req, S) = g[S]
    BY SumForIs
  <1>2. PICK h : IsSum(h, S, Firsts(S), Amounts(new, S)) /\ SumFor(new, S) = h[S]
    BY SumForIs
  <1>3. Chooses(Firsts(S), S) /\ \A c \in S : Amounts(req, S)[c] = Amounts(new, S)[c]
    BY FirstsChoose DEF Amounts
  <1> QED BY <1>1, <1>2, <1>3, SumsAgree

Requested(req)    == {c \in Clients : req[c] # NoRequest}
PendingIn(req, n) == {c \in Clients : req[c].kind = "counter" /\ req[c].name = n}
SumIn(req, n)     == SumFor(req, PendingIn(req, n))
\* What request q adds to the counter n.
Delta(q, n)       == IF q.kind = "counter" /\ q.name = n THEN q.value ELSE 0

LEMMA UnwrittenIs == \A n : Unwritten(n) = SumIn(request, n)
  BY Zenon DEF Unwritten, Pending, SumIn, PendingIn, SumFor

LEMMA DeltaTyped ==
    ASSUME NEW q \in Calls, NEW n
    PROVE  Delta(q, n) \in Int
  <1>1. q.kind = "counter" => q.value \in Int
    BY CallFields, HalfRangeAssumption DEF Values
  <1> QED BY <1>1 DEF Delta

\* Another request adds its number to what is unwritten of its counter.
LEMMA OneRequest ==
    ASSUME NEW req \in [Clients -> Calls \cup {NoRequest}], IsFiniteSet(Requested(req)),
           NEW c \in Clients, req[c] = NoRequest, NEW q \in Calls
    PROVE  /\ IsFiniteSet(Requested([req EXCEPT ![c] = q]))
           /\ \A n \in Names :
                 /\ SumIn(req, n) \in Int
                 /\ SumIn([req EXCEPT ![c] = q], n) = SumIn(req, n) + Delta(q, n)
  <1>0. PICK new : new = [req EXCEPT ![c] = q]
    OBVIOUS
  <1>1. /\ Requested(new) \subseteq Requested(req) \cup {c}
        /\ \A x \in Clients \ {c} : new[x] = req[x]
        /\ new[c] = q
    BY <1>0 DEF Requested
  <1>2. IsFiniteSet(Requested(req) \cup {c})
    BY FS_AddElement
  <1>3. IsFiniteSet(Requested(new))
    BY <1>1, <1>2, FS_Subset
  <1>4. ASSUME NEW n \in Names
        PROVE  /\ SumIn(req, n) \in Int
               /\ SumIn(new, n) = SumIn(req, n) + Delta(q, n)
    <2> DEFINE S == PendingIn(req, n)
               T == PendingIn(new, n)
    <2>1. S \subseteq Requested(req) /\ c \notin S
      BY DEF PendingIn, Requested, NoRequest
    <2>2. IsFiniteSet(S) /\ IsFiniteSet(S \cup {c})
      BY <2>1, FS_Subset, FS_AddElement
    <2>3. \A x \in S : req[x].value \in Int /\ new[x] = req[x]
      <3>1. \A x \in S : req[x] \in Calls /\ req[x].kind = "counter" /\ x # c
        BY <2>1 DEF PendingIn, Requested
      <3> QED BY <1>1, <3>1, CallFields, HalfRangeAssumption DEF Values, PendingIn
    <2>4. SumFor(new, S) = SumFor(req, S)
      BY <2>2, <2>3, SumForSame
    <2>5. SumFor(req, S) \in Int
      <3>1. PICK g : /\ IsSum(g, S, Firsts(S), Amounts(req, S))
                     /\ \A u \in SUBSET S : g[u] \in Int
                     /\ SumFor(req, S) = g[S]
        <4>1. S \in SUBSET S /\ \A x \in S : req[x].value \in Int
          BY <2>3
        <4> HIDE DEF S
        <4> QED BY <2>2, <4>1, SumForIs
      <3> QED BY <3>1
    <2>6. CASE q.kind = "counter" /\ q.name = n
      <3>1. T = S \cup {c}
        BY <1>1, <2>6 DEF PendingIn
      <3>2. \A x \in T : new[x].value \in Int
        <4>1. q.value \in Int
          BY <2>6, CallFields, HalfRangeAssumption DEF Values
        <4>2. \A x \in S : new[x].value \in Int
          BY <2>3
        <4> HIDE DEF S, T
        <4> QED BY <1>1, <3>1, <4>1, <4>2
      <3>3. T \ {c} = S /\ c \in T /\ IsFiniteSet(T)
        BY <2>1, <2>2, <3>1
      <3> HIDE DEF S, T
      <3>4. SumFor(new, T) = new[c].value + SumFor(new, S)
        BY <3>2, <3>3, SumForOneMore
      <3>5. Delta(q, n) = q.value /\ q.value \in Int
        BY <1>1, <2>6, <3>2, <3>3 DEF Delta
      <3>6. SumFor(new, T) = SumFor(req, S) + q.value
        BY <1>1, <2>4, <2>5, <3>4, <3>5
      <3> QED BY <2>5, <3>5, <3>6 DEF SumIn, S, T
    <2>7. CASE ~(q.kind = "counter" /\ q.name = n)
      <3>1. T = S
        BY <1>1, <2>1, <2>7 DEF PendingIn
      <3>2. Delta(q, n) = 0
        BY <2>7 DEF Delta
      <3> HIDE DEF S, T
      <3>3. SumFor(new, T) = SumFor(req, S) + 0
        BY <2>4, <2>5, <3>1
      <3> QED BY <2>5, <3>2, <3>3 DEF SumIn, S, T
    <2> QED BY <2>6, <2>7
  <1> QED BY <1>0, <1>3, <1>4

\* The counters of a storage.
LEMMA CounterTyped ==
    ASSUME NEW r \in Storages, NEW n
    PROVE  Counter(r, n) \in -HalfRange .. HalfRange - 1 /\ Counter(r, n) \in Int
  <1>1. Lookup(r, "counter", n) = Absent \/ Lookup(r, "counter", n) \in Values("counter")
    BY LookupRow DEF Kinds
  <1> QED BY <1>1, HalfRangeAssumption DEF Counter, Values

LEMMA CounterAdds ==
    ASSUME NEW r \in Storages, NEW q \in Calls, NEW n \in Names
    PROVE  Counter(Add(r, q.kind, q.name, q.value), n) = Wrap(Counter(r, n) + Delta(q, n))
  <1> DEFINE s == Add(r, q.kind, q.name, q.value)
             k == "counter"
  <1>1. q.kind \in Kinds /\ q.name \in Names /\ q.value \in Values(q.kind) /\ k \in Kinds
    BY CallFields DEF Kinds
  <1>2. Counter(r, n) \in -HalfRange .. HalfRange - 1 /\ Counter(r, n) \in Int
    BY CounterTyped
  <1>3. CASE ~(q.kind = k /\ q.name = n)
    <2>1. Lookup(s, k, n) = Lookup(r, k, n)
      BY <1>1, <1>3, AddOne
    <2>2. Counter(s, n) = Counter(r, n)
      BY <2>1 DEF Counter
    <2>3. Counter(r, n) + Delta(q, n) = Counter(r, n)
      BY <1>2, <1>3 DEF Delta
    <2> QED BY <1>2, <2>2, <2>3, WrapInside
  <1>4. CASE q.kind = k /\ q.name = n
    <2>1. Lookup(s, k, n) = IF Lookup(r, k, n) = Absent THEN q.value
                                                       ELSE Combine(k, Lookup(r, k, n), q.value)
      BY <1>1, <1>4, AddOne
    <2>2. q.value \in -HalfRange .. HalfRange - 1 /\ q.value \in Int /\ Delta(q, n) = q.value
      BY <1>1, <1>4, HalfRangeAssumption DEF Values, Delta
    <2>3. CASE Lookup(r, k, n) = Absent
      <3>1. Counter(r, n) = 0 /\ Lookup(s, k, n) = q.value
        BY <2>1, <2>3 DEF Counter
      <3>2. q.value # Absent
        BY <2>2, ValuesAssumption
      <3>3. Counter(s, n) = q.value
        BY <3>1, <3>2 DEF Counter
      <3>4. Counter(r, n) + Delta(q, n) = q.value
        BY <2>2, <3>1
      <3> QED BY <2>2, <3>3, <3>4, WrapInside
    <2>4. CASE Lookup(r, k, n) # Absent
      <3>1. Counter(r, n) = Lookup(r, k, n)
        BY <2>4 DEF Counter
      <3>2. Lookup(s, k, n) = Wrap(Counter(r, n) + q.value)
        BY <2>1, <2>4, <3>1 DEF Combine
      <3>3. Wrap(Counter(r, n) + q.value) \in Int
        BY <1>2, <2>2, WrapInRange, HalfRangeAssumption
      <3>4. Lookup(s, k, n) # Absent
        BY <3>2, <3>3, ValuesAssumption
      <3>5. Counter(s, n) = Lookup(s, k, n)
        BY <3>4 DEF Counter
      <3> QED BY <2>2, <3>2, <3>5
    <2> QED BY <2>3, <2>4
  <1> QED BY <1>3, <1>4

-----------------------------------------------------------------------------
(* In synchronous mode.                                                    *)

Synchronous == SyncMode /\ Restore /\ Routes = {"update"} /\ running

\* The file and what is unwritten add up to the storage.
Exact == \A n \in Names :
            Counter(rows, n) = Wrap(Counter(files[cur].rows, n) + SumIn(request, n))

SyncInv ==
    Synchronous =>
        \* finitely many handlers are at work,
        /\ IsFiniteSet(Requested(request))
        \* and up to the signal their producer writes the file, whose lines add up.
        /\ ~ctxDone => /\ cur # NoFile /\ producer.file = cur /\ producer.open
                       /\ ~producer.broken /\ ~files[cur].torn => Exact

\* Nothing that SyncInv is about moves.
LEMMA SyncStays ==
    ASSUME SyncInv, running' => running, UNCHANGED <<rows, files, request>>,
           ~ctxDone' => ~ctxDone /\ cur' = cur /\ producer' = producer
    PROVE  SyncInv'
  <1>1. ASSUME Synchronous', ~ctxDone', ~producer'.broken, ~files'[cur'].torn
        PROVE  Exact'
    <2>1. Exact /\ UNCHANGED <<rows, files, cur, request>>
      BY <1>1 DEF SyncInv, Synchronous
    <2> QED BY <2>1 DEF Exact
  <1> QED BY <1>1 DEF SyncInv, Synchronous, Requested

LEMMA SyncStart == ASSUME LifeSafe, Start PROVE SyncInv'
  <1>1. /\ Opened \in FileIds /\ WithOpened \in [FileIds -> File]
    BY OpenedFile DEF Start, LifeSafe, TypeInv, Typed
  <1>2. /\ files' = WithOpened /\ cur' = Opened /\ producer'.file = Opened /\ producer'.open
        /\ request' = [c \in Clients |-> NoRequest]
        /\ Restore => rows' = WithOpened[Opened].rows
    BY DEF Start
  <1>3. Requested(request') = {} /\ \A n : PendingIn(request', n) = {}
    BY <1>2 DEF Requested, PendingIn, NoRequest
  <1>4. ASSUME Restore PROVE Exact'
    <2> SUFFICES ASSUME NEW n \in Names
                 PROVE  Counter(rows', n) =
                           Wrap(Counter(files'[cur'].rows, n) + SumIn(request', n))
      BY DEF Exact
    <2>1. rows' \in Storages /\ files'[cur'].rows = rows'
      BY <1>1, <1>2, <1>4 DEF File
    <2>2. SumIn(request', n) = 0
      BY <1>3, SumForNone DEF SumIn
    <2>3. Counter(rows', n) \in -HalfRange .. HalfRange - 1 /\ Counter(rows', n) \in Int
      BY <2>1, CounterTyped
    <2>4. Counter(rows', n) + SumIn(request', n) = Counter(rows', n)
      BY <2>2, <2>3
    <2>5. Counter(rows', n) = Wrap(Counter(files'[cur'].rows, n) + SumIn(request', n))
      BY <2>1, <2>3, <2>4, WrapInside
    <2> QED BY <2>5
  <1>5. IsFiniteSet(Requested(request'))
    BY <1>3, FS_EmptySet
  <1> QED BY <1>1, <1>2, <1>4, <1>5, FileAssumption DEF SyncInv, Synchronous, Requested

\* A handler has stored a request: it is unwritten.
LEMMA SyncStores ==
    ASSUME LifeSafe, SyncInv, NEW c \in Clients, StoreUpdate(c)
    PROVE  SyncInv'
  <1>1. PICK q \in Calls : Store(c, q, q)
    BY DEF StoreUpdate, InBody, Named
  <1>2. /\ running /\ request[c] = NoRequest /\ rows' = Add(rows, q.kind, q.name, q.value)
        /\ request' = [request EXCEPT ![c] = q]
        /\ UNCHANGED <<running, ctxDone, files, cur, producer>>
    BY <1>1 DEF Store
  <1>3. /\ request \in [Clients -> Calls \cup {NoRequest}] /\ rows \in Storages
        /\ files \in [FileIds -> File] /\ cur \in Paths
    BY DEF LifeSafe, TypeInv, Typed
  <1>4. SUFFICES ASSUME Synchronous PROVE SyncInv'
    BY <1>2 DEF SyncInv, Synchronous
  <1>5. /\ IsFiniteSet(Requested(request'))
        /\ \A n \in Names : /\ SumIn(request, n) \in Int
                            /\ SumIn(request', n) = SumIn(request, n) + Delta(q, n)
    <2>1. IsFiniteSet(Requested(request))
      BY <1>4 DEF SyncInv
    <2> QED BY <1>2, <1>3, <2>1, OneRequest
  <1>6. ASSUME Exact, ~ctxDone PROVE Exact'
    <2> SUFFICES ASSUME NEW n \in Names
                 PROVE  Counter(rows', n) =
                           Wrap(Counter(files'[cur'].rows, n) + SumIn(request', n))
      BY DEF Exact
    <2>1. PICK file \in Int, sum \in Int, delta \in Int :
             /\ file = Counter(files[cur].rows, n) /\ sum = SumIn(request, n)
             /\ delta = Delta(q, n)
      <3>1. files[cur].rows \in Storages
        BY <1>3, <1>4, <1>6 DEF SyncInv, Paths, File
      <3> QED BY <1>5, <3>1, CounterTyped, DeltaTyped
    <2>2. Counter(rows, n) = Wrap(file + sum)
      BY <1>6, <2>1 DEF Exact
    <2>3. Counter(rows', n) = Wrap(Wrap(file + sum) + delta)
      BY <1>2, <1>3, <2>1, <2>2, CounterAdds
    <2>4. Wrap(Wrap(file + sum) + delta) = Wrap((file + sum) + delta)
      BY WrapAdds
    <2>5. (file + sum) + delta = file + (sum + delta)
      OBVIOUS
    <2>6. Counter(rows', n) = Wrap(Counter(files[cur].rows, n) + SumIn(request', n))
      BY <1>5, <2>1, <2>3, <2>4, <2>5
    <2> QED BY <1>2, <2>6
  <1> QED BY <1>2, <1>4, <1>5, <1>6 DEF SyncInv, Synchronous, Requested

\* A request's line has been written, or the producer has refused it.
LEMMA SyncWrites ==
    ASSUME LifeSafe, SyncInv, NEW c \in Clients, WriteUpdate(c) \/ WriteUpdateFails(c)
    PROVE  SyncInv'
  <1>1. SUFFICES ASSUME Synchronous PROVE SyncInv'
    BY DEF SyncInv, Synchronous, WriteUpdate, WriteUpdateFails, Answered
  <1>2. /\ request \in [Clients -> Calls \cup {NoRequest}] /\ rows \in Storages
        /\ files \in [FileIds -> File] /\ cur \in Paths
        /\ producer \in [file : Paths, open : BOOLEAN, broken : BOOLEAN]
    BY DEF LifeSafe, TypeInv, Typed
  <1>3. /\ request[c] # NoRequest /\ request' = [request EXCEPT ![c] = NoRequest]
        /\ UNCHANGED <<running, ctxDone, rows, cur>>
    BY DEF WriteUpdate, WriteUpdateFails, Answered
  <1>4. PICK q \in Calls : q = request[c] /\ request[c] = q
    BY <1>2, <1>3
  <1>5. /\ request' \in [Clients -> Calls \cup {NoRequest}] /\ request'[c] = NoRequest
        /\ request = [request' EXCEPT ![c] = q]
    BY <1>2, <1>3, <1>4
  <1>6. IsFiniteSet(Requested(request')) /\ IsFiniteSet(Requested(request))
    <2>1. Requested(request') \subseteq Requested(request)
      BY <1>2, <1>3 DEF Requested
    <2> QED BY <1>1, <2>1, FS_Subset DEF SyncInv
  <1>7. \A n \in Names : /\ SumIn(request', n) \in Int
                         /\ SumIn(request, n) = SumIn(request', n) + Delta(q, n)
    <2>1. PICK r, s : r = request' /\ s = request
      OBVIOUS
    <2>2. /\ r \in [Clients -> Calls \cup {NoRequest}] /\ r[c] = NoRequest
          /\ s = [r EXCEPT ![c] = q] /\ IsFiniteSet(Requested(r))
      BY <1>5, <1>6, <2>1
    <2>3. \A n \in Names : /\ SumIn(r, n) \in Int
                           /\ SumIn(s, n) = SumIn(r, n) + Delta(q, n)
      BY <2>2, OneRequest
    <2> QED BY <2>1, <2>3
  <1>8. CASE WriteUpdateFails(c)
    BY <1>1, <1>2, <1>3, <1>6, <1>8 DEF WriteUpdateFails, SyncInv, Synchronous, Requested
  <1>9. CASE WriteUpdate(c)
    <2>1. producer' = producer
      BY <1>9 DEF WriteUpdate
    <2>2. ASSUME ~ctxDone, ~producer.broken, ~files'[cur].torn
          PROVE  Exact'
      <3>1. cur \in FileIds /\ producer.file = cur /\ producer.open
        BY <1>1, <1>2, <2>2 DEF SyncInv, Paths
      <3>2. files' = Line(cur, q.kind, q.name, q.value)
        BY <1>4, <1>9, <2>2, <3>1 DEF WriteUpdate, Event
      <3>3. q.kind \in Kinds /\ q.name \in Names /\ q.value \in Values(q.kind)
        BY CallFields
      <3>4. ~files[cur].torn /\ files'[cur].rows = Add(files[cur].rows, q.kind, q.name, q.value)
        BY <1>2, <2>2, <3>1, <3>2, <3>3, LineWritten
      <3>5. Exact
        BY <1>1, <2>2, <3>4 DEF SyncInv
      <3> SUFFICES ASSUME NEW n \in Names
                   PROVE  Counter(rows', n) =
                             Wrap(Counter(files'[cur'].rows, n) + SumIn(request', n))
        BY DEF Exact
      <3>6. files[cur].rows \in Storages
        BY <1>2, <3>1 DEF File
      <3>7. PICK file \in Int, sum \in Int, delta \in Int :
               /\ file = Counter(files[cur].rows, n) /\ sum = SumIn(request', n)
               /\ delta = Delta(q, n)
        BY <1>7, <3>6, CounterTyped, DeltaTyped
      <3>8. Counter(rows, n) = Wrap(file + (sum + delta))
        BY <1>7, <3>5, <3>7 DEF Exact
      <3>9. Counter(files'[cur].rows, n) = Wrap(file + delta)
        BY <3>4, <3>6, <3>7, CounterAdds
      <3>10. Wrap(Wrap(file + delta) + sum) = Wrap((file + delta) + sum)
        BY WrapAdds
      <3>11. (file + delta) + sum = file + (sum + delta)
        OBVIOUS
      <3> QED BY <1>3, <3>7, <3>8, <3>9, <3>10, <3>11
    <2> QED BY <1>1, <1>3, <1>6, <2>1, <2>2 DEF SyncInv, Synchronous, Requested
  <1> QED BY <1>8, <1>9

LEMMA SyncNext == ASSUME LifeSafe, SyncInv, Next PROVE SyncInv'
  <1>1. CASE Start
    BY <1>1, SyncStart
  <1>2. CASE Process \/ StopPeriodic
    <2>1. /\ running' => running
          /\ UNCHANGED <<rows, files, request>>
          /\ (running' /\ ~ctxDone') => ~ctxDone /\ cur' = cur /\ producer' = producer
      BY <1>2 DEF Process, Signal, CloseServer, Exit, Crash, Dies, FillRow, Fault,
         StopPeriodic, At, processVars
    <2>2. CASE running'
      <3>1. ~ctxDone' => ~ctxDone /\ cur' = cur /\ producer' = producer
        BY <2>1, <2>2
      <3> QED BY <2>1, <3>1, SyncStays
    <2>3. CASE ~running'
      BY <2>3 DEF SyncInv, Synchronous
    <2> QED BY <2>2, <2>3
  <1>3. CASE \E c \in Clients : WriteUpdate(c) \/ WriteUpdateFails(c)
    BY <1>3, SyncWrites
  <1>4. CASE \E c \in Clients : StoreUpdate(c)
    BY <1>4, SyncStores
  <1>5. CASE \E c \in Clients : PostUpdate(c) \/ UpdatesGaugesBatch(c) \/ PostHandler(c)
    <2>1. ~(SyncMode /\ Routes = {"update"})
      BY <1>5 DEF PostUpdate, UpdatesGaugesBatch, PostHandler
    <2> QED BY <2>1 DEF SyncInv, Synchronous
  <1>6. CASE \E b \in Backupers : PerformBackup(b)
    <2>1. PICK b \in Backupers : PerformBackup(b)
      BY <1>6
    <2>2. running /\ running' = running /\ ctxDone' = ctxDone /\ request' = request
      BY <2>1, BackupFrame DEF LifeSafe, processVars
    <2>3. SyncMode => ctxDone
      BY <2>1, OnlyPeriodic
    <2> QED BY <2>2, <2>3 DEF SyncInv, Synchronous, Requested
  <1> QED BY <1>1, <1>2, <1>3, <1>4, <1>5, <1>6 DEF Next, Process

\* In synchronous mode the file and the updates about to be written add up to
\* the storage, for any number of clients and counters, with sums that wrap
\* around, through crashes and restarts, unless a line has failed since the
\* start or the file ends in part of one (handlers.go, PostUpdateSyncBackup).
THEOREM SyncCountersStayExact == Spec => []SyncCountersExact
  <1>1. Init => SyncInv
    BY DEF Init, SyncInv, Synchronous
  <1>2. LifeSafe /\ SyncInv /\ [Next]_vars => SyncInv'
    <2>1. ASSUME SyncInv, UNCHANGED vars PROVE SyncInv'
      <3>1. /\ running' => running
            /\ UNCHANGED <<rows, files, request>>
            /\ ~ctxDone' => ~ctxDone /\ cur' = cur /\ producer' = producer
        BY <2>1 DEF vars
      <3> QED BY <2>1, <3>1, SyncStays
    <2> QED BY <2>1, SyncNext
  <1>3. LifeSafe /\ SyncInv => SyncCountersExact
    <2>1. ASSUME LifeSafe, SyncInv, Synchronous, ~ctxDone, ~producer.broken,
                 ~files[producer.file].torn, NEW n \in Names
          PROVE  Counter(rows, n) = Wrap(Counter(Restored, n) + Unwritten(n))
      <3>1. cur # NoFile /\ Exact
        BY <2>1 DEF SyncInv
      <3> QED BY <3>1, UnwrittenIs DEF Exact, Restored
    <2> QED BY <2>1 DEF SyncCountersExact, Synchronous
  <1> QED BY LifeSafeAlways, <1>1, <1>2, <1>3, PTL DEF Spec

=============================================================================
