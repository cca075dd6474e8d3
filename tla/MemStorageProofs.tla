-------------------------- MODULE MemStorageProofs --------------------------
(***************************************************************************)
(* Proofs about MemStorage, for any names, values, writers and readers.    *)
(*                                                                         *)
(* A metric has one row because the writer that appends it has searched    *)
(* all rows and still holds the mutex: from the end of the search to the   *)
(* moment the new row gets its name no row has that name (WriterInv), and  *)
(* no other writer is past its Lock (LockInv).  A reader stays inside the  *)
(* arrays once it has checked a row number, because an array never loses   *)
(* rows and a later array is never shorter (ArraysInv, ReaderInv).         *)
(*                                                                         *)
(* A call is atomic because a writer's last store completes the metric's   *)
(* only row, with what the writer read under the lock (ProgressInv); each  *)
(* other step leaves the complete rows alone.  A read is stable because a  *)
(* complete row stays at its place: it has its name in every array from    *)
(* the one the reader holds to the last, nothing else has (ArraysUnique),  *)
(* and an array that is left behind keeps a value the metric had while the *)
(* read was running (ReaderKnows).                                         *)
(***************************************************************************)
EXTENDS MemStorage, MetricsProofs

LockInv == \A c \in Callers : wpc[c] \in Critical <=> mutex = c

\* No array is shorter than an earlier one.
Growing(s) == \A a, b \in 1 .. Len(s) : a <= b => Len(s[a]) <= Len(s[b])

ArraysInv ==
    \A k \in Kinds :
        /\ Growing(arrays[k])
        /\ \A i \in 1 .. Capacity(k) : i > length[k] => Array(k)[i].name = NoName

\* What writer c knows between its search and its unlock.
WriterOK(c) ==
    LET k == call[c].kind
        n == call[c].name
    IN  /\ wpc[c] = "load" => k = "counter"
        /\ wpc[c] \in {"load", "update"} => at[c] \in Rows(k)
        /\ wpc[c] \in {"grow", "publish"} => RowsNamed(k, n) = {}
        /\ wpc[c] = "publish" => length[k] < Capacity(k)
        /\ wpc[c] = "fill" =>
              /\ at[c] \in Rows(k)
              /\ "name" \in todo[c] => /\ RowsNamed(k, n) = {}
                                       /\ Array(k)[at[c]].name = NoName

WriterInv == \A c \in Callers : WriterOK(c)

\* What reader r knows of the arrays it ranges over and indexes.
ReaderOK(r) ==
    LET k == want[r][1]
    IN  /\ view[r].array \in 0 .. Len(arrays[k])
        /\ rpc[r] # "idle" => row[r] >= 1
        /\ rpc[r] \in {"range", "fetch", "value"} => view[r].array >= 1
        /\ rpc[r] \in {"fetch", "value"} => row[r] <= Len(arrays[k][view[r].array])
        /\ rpc[r] = "value" => again[r] \in view[r].array .. Len(arrays[k])

ReaderInv == \A r \in Readers : ReaderOK(r)

MemInv ==
    /\ MemTypeOK /\ NamesUnique
    /\ LockInv /\ ArraysInv /\ WriterInv /\ ReaderInv

-----------------------------------------------------------------------------
(* Values and arrays.                                                      *)

\* A sequence at least as long as the last one is appended to sequences of
\* growing lengths.
LEMMA AppendLonger ==
  ASSUME NEW S, \A x \in S : Len(x) \in Nat,
         NEW s \in Seq(S), s # <<>>, NEW u \in S, Len(s[Len(s)]) <= Len(u), Growing(s),
         NEW t, t = Append(s, u)
  PROVE  Growing(t)
  <1> USE DEF Growing
  <1>1. PICK n \in Nat \ {0} : n = Len(s)
    OBVIOUS
  <1>2. Len(u) \in Nat /\ \A a \in 1 .. n : Len(s[a]) \in Nat
    BY <1>1
  <1>3. /\ Len(t) = n + 1 /\ t[n + 1] = u
        /\ \A a \in 1 .. n : t[a] = s[a]
    BY <1>1, AppendAt
  <1>4. \A a \in 1 .. n : Len(s[a]) <= Len(u)
    BY <1>1, <1>2
  <1>5. ASSUME NEW a \in 1 .. n + 1, NEW b \in 1 .. n + 1, a <= b
        PROVE  Len(t[a]) <= Len(t[b])
    <2>1. CASE b = n + 1 /\ a = n + 1
      BY <1>2, <1>3, <2>1
    <2>2. CASE b = n + 1 /\ a # n + 1
      <3>1. a \in 1 .. n
        BY <2>2
      <3>2. QED
        BY <1>3, <1>4, <2>2, <3>1
    <2>3. CASE b # n + 1
      <3>1. a \in 1 .. n /\ b \in 1 .. n
        BY <1>5, <2>3
      <3>2. QED
        BY <1>1, <1>3, <1>5, <3>1
    <2>4. QED
      BY <2>1, <2>2, <2>3
  <1>6. QED
    BY <1>1, <1>3, <1>5

\* The zero value of a row.
LEMMA EmptyRowTyped == \A k \in Kinds : EmptyRow \in Row(k)
  BY HalfRangeAssumption DEF Row, EmptyRow, Values, Kinds

-----------------------------------------------------------------------------
(* MemInv is inductive.                                                    *)

\* NewMemStorage.
LEMMA MemInitInv == MemInit => MemInv
  <1> SUFFICES ASSUME MemInit PROVE MemInv
    OBVIOUS
  <1>1. (CHOOSE first \in Calls : TRUE) \in Calls
    BY CallsAssumption
  <1>2. (CHOOSE m \in Kinds \X Names : TRUE) \in Kinds \X Names
    <2>1. PICK n : n \in Names
      BY <1>1, CallFields
    <2>3. <<"gauge", n>> \in Kinds \X Names
      BY <2>1 DEF Kinds
    <2>4. QED
      BY <2>3
  <1>3. MemTypeOK
    <2>1. call \in [Callers -> Calls] /\ want \in [Readers -> Kinds \X Names]
      BY <1>1, <1>2 DEF MemInit
    <2>2. /\ DOMAIN arrays = Kinds /\ length \in [Kinds -> Nat]
          /\ \A k \in Kinds : /\ arrays[k] \in Seq(Seq(Row(k))) /\ arrays[k] # <<>>
                              /\ length[k] <= Capacity(k)
      BY DEF MemInit, Capacity, Array
    <2>3. 0 \in Values("counter")
      BY HalfRangeAssumption DEF Values
    <2>4. answer = [r \in Readers |-> <<>>]
      BY DEF MemInit
    <2>5. view \in [Readers -> [array : Nat, len : Int]]
      BY DEF MemInit, NotLoaded
    <2>6. QED
      BY <2>1, <2>2, <2>3, <2>4, <2>5, BoundAssumption
         DEF MemInit, MemTypeOK, WriterTypeOK, ReaderTypeOK,
             WriterSteps, ReaderSteps
  <1>4. NamesUnique /\ LockInv /\ ArraysInv /\ WriterInv
    BY SentinelAssumption
       DEF Growing, MemInit, NamesUnique, LockInv, ArraysInv, WriterInv, WriterOK,
           Rows, Array, Capacity, Critical, WriterSteps
  <1>5. ReaderInv
    BY <1>2 DEF MemInit, ReaderInv, ReaderOK, NotLoaded
  <1>6. QED
    BY <1>3, <1>4, <1>5 DEF MemInv

\* What the steps that store nothing in a slice leave as it is.
LEMMA SlicesUnchanged ==
  ASSUME MemInv, UNCHANGED <<arrays, length>>
  PROVE  /\ NamesUnique' /\ ArraysInv'
         /\ UNCHANGED readerVars => ReaderInv'
  BY DEF MemInv, NamesUnique, ArraysInv, ReaderInv, ReaderOK,
         Rows, Array, Capacity, readerVars

\* What a reader leaves as it is.
LEMMA WritersUnchanged ==
  ASSUME MemInv, UNCHANGED writerVars
  PROVE  WriterTypeOK' /\ NamesUnique' /\ LockInv' /\ ArraysInv' /\ WriterInv'
  <1>1. WriterTypeOK'
    BY DEF MemInv, MemTypeOK, WriterTypeOK, Array, Capacity, writerVars
  <1>2. NamesUnique' /\ ArraysInv'
    BY SlicesUnchanged DEF writerVars
  <1>3. LockInv'
    BY DEF MemInv, LockInv, writerVars
  <1>4. WriterInv'
    BY DEF MemInv, WriterInv, WriterOK, Rows, RowsNamed, Array, Capacity, writerVars
  <1>5. QED
    BY <1>1, <1>2, <1>3, <1>4

\* What a writer leaves as it is.
LEMMA ReaderTypeUnchanged == ReaderTypeOK /\ UNCHANGED readerVars => ReaderTypeOK'
  BY DEF ReaderTypeOK, readerVars

\* The rows of a slice and its array.
LEMMA ArrayTyped ==
  ASSUME WriterTypeOK, NEW k \in Kinds
  PROVE  /\ arrays[k] \in Seq(Seq(Row(k))) /\ Len(arrays[k]) \in Nat \ {0}
         /\ Array(k) \in Seq(Row(k)) /\ Capacity(k) \in Nat
         /\ Rows(k) \subseteq 1 .. Capacity(k)
         /\ \A i \in 1 .. Capacity(k) :
               Array(k)[i].name \in Names \cup {NoName} /\ Array(k)[i].value \in Values(k)
  <1>1. arrays[k] \in Seq(Seq(Row(k))) /\ Len(arrays[k]) \in Nat \ {0}
    BY DEF WriterTypeOK
  <1>2. Array(k) \in Seq(Row(k))
    BY <1>1 DEF Array
  <1>3. Capacity(k) \in Nat /\ \A i \in 1 .. Capacity(k) : Array(k)[i] \in Row(k)
    BY <1>2 DEF Capacity
  <1>4. length[k] \in Nat /\ length[k] <= Capacity(k)
    BY DEF WriterTypeOK
  <1>5. QED
    BY <1>1, <1>2, <1>3, <1>4 DEF Rows, Row

LEMMA RowTyped ==
  ASSUME MemInv, NEW k \in Kinds, NEW i \in Rows(k)
  PROVE  Array(k)[i] \in Row(k)
  <1>1. Array(k) \in Seq(Row(k)) /\ i \in 1 .. Len(Array(k))
    BY ArrayTyped DEF MemInv, MemTypeOK, Capacity
  <1>2. QED
    BY <1>1

\* Readers stay inside arrays that are only added to.
LEMMA LongerArrays ==
  ASSUME MemInv, UNCHANGED readerVars,
         \A j \in Kinds :
            /\ Len(arrays[j]) \in Nat /\ Len(arrays'[j]) \in Nat
            /\ Len(arrays[j]) <= Len(arrays'[j])
            /\ \A a \in 1 .. Len(arrays[j]) : arrays'[j][a] = arrays[j][a]
  PROVE  ReaderInv'
  <1> SUFFICES ASSUME NEW r \in Readers
               PROVE  LET k == want[r][1]
                      IN  /\ view[r].array \in 0 .. Len(arrays'[k])
                          /\ rpc[r] # "idle" => row[r] >= 1
                          /\ rpc[r] \in {"range", "fetch", "value"} => view[r].array >= 1
                          /\ rpc[r] \in {"fetch", "value"} =>
                                row[r] <= Len(arrays'[k][view[r].array])
                          /\ rpc[r] = "value" => again[r] \in view[r].array .. Len(arrays'[k])
    BY DEF ReaderInv, ReaderOK, readerVars
  <1>1. PICK k \in Kinds, v \in Nat, g \in Nat :
           k = want[r][1] /\ v = view[r].array /\ g = again[r]
    BY DEF MemInv, MemTypeOK, ReaderTypeOK
  <1>2. PICK m \in Nat, n \in Nat : m = Len(arrays[k]) /\ n = Len(arrays'[k]) /\ m <= n
    BY <1>1
  <1>3. v <= m /\ (rpc[r] = "value" => v <= g /\ g <= m)
    BY <1>1, <1>2 DEF MemInv, ReaderInv, ReaderOK
  <1>4. /\ rpc[r] # "idle" => row[r] >= 1
        /\ rpc[r] \in {"range", "fetch", "value"} => v >= 1
        /\ rpc[r] \in {"fetch", "value"} => row[r] <= Len(arrays[k][v])
    BY <1>1 DEF MemInv, ReaderInv, ReaderOK
  <1>5. ASSUME v >= 1 PROVE arrays'[k][v] = arrays[k][v]
    <2>1. v \in 1 .. Len(arrays[k])
      BY <1>2, <1>3, <1>5
    <2>2. QED
      BY <2>1
  <1>6. v \in 0 .. n /\ (rpc[r] = "value" => g \in v .. n)
    BY <1>2, <1>3
  <1>7. QED
    BY <1>1, <1>2, <1>4, <1>5, <1>6

\* The owner of the mutex is alone past its Lock.
LEMMA Alone ==
  ASSUME MemInv, NEW c \in Callers, wpc[c] \in Critical
  PROVE  /\ mutex = c
         /\ \A d \in Callers \ {c} : wpc[d] \in {"idle", "lock"}
  BY DEF MemInv, MemTypeOK, WriterTypeOK, LockInv, Critical

\* Outside of the lock a writer knows nothing.
LEMMA Outside ==
  ASSUME NEW c \in Callers, wpc'[c] \in {"idle", "lock"}
  PROVE  WriterOK(c)'
  BY DEF WriterOK

\* A step of the owner of the mutex that goes on to another step under it.
LEMMA OwnerStep ==
  ASSUME MemInv, NEW c \in Callers, wpc[c] \in Critical,
         NEW p \in Critical, wpc' = [wpc EXCEPT ![c] = p], mutex' = mutex, WriterOK(c)'
  PROVE  LockInv' /\ WriterInv'
  <1>1. ASSUME NEW d \in Callers, d # c PROVE WriterOK(d)'
    <2>1. wpc'[d] \in {"idle", "lock"}
      BY <1>1, Alone DEF MemInv, MemTypeOK, WriterTypeOK
    <2>2. QED
      BY <2>1, Outside
  <1>2. LockInv'
    BY DEF MemInv, MemTypeOK, WriterTypeOK, LockInv
  <1>3. QED
    BY <1>1, <1>2 DEF WriterInv

\* The arguments of a call name a metric.
LEMMA CallTyped ==
  ASSUME MemInv, NEW c \in Callers
  PROVE  /\ call[c].kind \in Kinds /\ call[c].value \in Values(call[c].kind)
         /\ call[c].name \in Names /\ call[c].name # NoName
  BY CallFields, SentinelAssumption DEF MemInv, MemTypeOK, WriterTypeOK

-----------------------------------------------------------------------------
(* The writers.                                                            *)

\* A call arrives; its goroutine knows nothing yet.
LEMMA CallAddStep ==
  ASSUME MemInv, NEW c \in Callers, CallAdd(c)
  PROVE  MemInv'
  <1> USE DEF CallAdd, WriterStep
  <1>1. NamesUnique' /\ ArraysInv' /\ ReaderInv'
    BY SlicesUnchanged
  <1>2. MemTypeOK'
    BY ReaderTypeUnchanged
       DEF MemInv, MemTypeOK, WriterTypeOK, Capacity, Array, WriterSteps
  <1>3. LockInv'
    BY DEF MemInv, MemTypeOK, WriterTypeOK, LockInv, Critical
  <1>4. WriterInv'
    <2>1. WriterOK(c)'
      BY Outside DEF MemInv, MemTypeOK, WriterTypeOK
    <2>2. ASSUME NEW d \in Callers, d # c PROVE WriterOK(d)'
      <3>1. wpc'[d] = wpc[d] /\ call'[d] = call[d] /\ at'[d] = at[d] /\ todo'[d] = todo[d]
        BY <2>2 DEF MemInv, MemTypeOK, WriterTypeOK
      <3>2. WriterOK(d)
        BY DEF MemInv, WriterInv
      <3>3. QED
        BY <3>1, <3>2 DEF WriterOK, Rows, RowsNamed, Array, Capacity
    <2>3. QED
      BY <2>1, <2>2 DEF WriterInv
  <1>5. QED
    BY <1>1, <1>2, <1>3, <1>4 DEF MemInv

\* The mutex was free, so nobody else is past its Lock.
LEMMA LockStep ==
  ASSUME MemInv, NEW c \in Callers, Lock(c)
  PROVE  MemInv'
  <1> USE DEF Lock, WriterStep
  <1>1. NamesUnique' /\ ArraysInv' /\ ReaderInv'
    BY SlicesUnchanged
  <1>2. MemTypeOK'
    BY ReaderTypeUnchanged
       DEF MemInv, MemTypeOK, WriterTypeOK, Capacity, Array, WriterSteps
  <1>3. LockInv'
    BY SentinelAssumption
       DEF MemInv, MemTypeOK, WriterTypeOK, LockInv, Critical, WriterSteps
  <1>4. WriterInv'
    BY DEF MemInv, MemTypeOK, WriterTypeOK, WriterInv, WriterOK, Rows, RowsNamed, Array,
           Capacity
  <1>5. QED
    BY <1>1, <1>2, <1>3, <1>4 DEF MemInv

\* The owner leaves.
LEMMA UnlockStep ==
  ASSUME MemInv, NEW c \in Callers, Unlock(c)
  PROVE  MemInv'
  <1> USE DEF Unlock, WriterStep
  <1>1. NamesUnique' /\ ArraysInv' /\ ReaderInv'
    BY SlicesUnchanged
  <1>2. 0 \in Values("counter")
    BY HalfRangeAssumption DEF Values
  <1>3. MemTypeOK'
    BY <1>2, ReaderTypeUnchanged
       DEF MemInv, MemTypeOK, WriterTypeOK, Capacity, Array, WriterSteps
  <1>4. LockInv'
    BY SentinelAssumption
       DEF MemInv, MemTypeOK, WriterTypeOK, LockInv, Critical, WriterSteps
  <1>5. WriterInv'
    BY DEF MemInv, MemTypeOK, WriterTypeOK, WriterInv, WriterOK, Rows, RowsNamed, Array,
           Capacity
  <1>6. QED
    BY <1>1, <1>3, <1>4, <1>5 DEF MemInv

\* The search: it finds the only row with the name, or there is none.
LEMMA LookupStep ==
  ASSUME MemInv, NEW c \in Callers, Lookup(c)
  PROVE  MemInv'
  <1> DEFINE k == call[c].kind
             hits == Hits(c)
             found == CHOOSE i \in hits : \A j \in hits : i <= j
  <1> USE DEF WriterStep
  <1>1. NamesUnique' /\ ArraysInv' /\ ReaderInv'
    BY SlicesUnchanged DEF Lookup
  <1>2. wpc[c] \in Critical
    BY DEF Lookup, Critical, WriterSteps
  <1>3. k \in Kinds /\ call[c].name # NoName
    BY CallTyped
  <1>4. CASE hits # {}
    <2>1. found \in hits
      <3>1. \A i, j \in hits : i = j
        BY <1>3 DEF MemInv, NamesUnique, Hits, RowsNamed
      <3>2. hits \subseteq Nat
        BY DEF Hits, RowsNamed, Rows
      <3>3. \E i \in hits : \A j \in hits : i <= j
        BY <1>4, <3>1, <3>2
      <3>4. QED
        BY <3>3
    <2>2. at' = [at EXCEPT ![c] = found]
      BY <1>4 DEF Lookup
    <2>3. PICK p \in {"update", "load"} :
             p = (IF k = "gauge" THEN "update" ELSE "load") /\ wpc' = [wpc EXCEPT ![c] = p]
      BY <1>4 DEF Lookup
    <2> HIDE DEF found
    <2>4. found \in Rows(k) /\ found \in Nat
      BY <2>1 DEF Hits, RowsNamed, Rows
    <2> HIDE DEF hits
    <2>5. WriterOK(c)'
      <3>1. at'[c] = found /\ wpc'[c] = p /\ UNCHANGED <<call, length>>
        BY <2>2, <2>3 DEF MemInv, MemTypeOK, WriterTypeOK, Lookup
      <3>2. k' = k /\ Rows(k)' = Rows(k) /\ (p = "load" => k = "counter")
        BY <1>3, <2>3, <3>1 DEF Rows, Kinds
      <3>3. QED
        BY <2>3, <2>4, <3>1, <3>2 DEF WriterOK
    <2>6. MemTypeOK'
      BY <2>2, <2>3, <2>4, ReaderTypeUnchanged
         DEF MemInv, MemTypeOK, WriterTypeOK, Lookup, Capacity, Array, WriterSteps
    <2>7. QED
      BY <1>1, <1>2, <2>3, <2>5, <2>6, OwnerStep DEF MemInv, Lookup, Critical, WriterSteps
  <1>5. CASE hits = {}
    <2>1. PICK p \in {"publish", "grow"} :
             p = (IF HasRoom(k) THEN "publish" ELSE "grow") /\ wpc' = [wpc EXCEPT ![c] = p]
      BY <1>5 DEF Lookup
    <2>2. at' = at
      BY <1>5 DEF Lookup
    <2>3. RowsNamed(k, call[c].name)' = {} /\ (HasRoom(k) => (length[k] < Capacity(k))')
      BY <1>5 DEF Lookup, Hits, RowsNamed, Rows, HasRoom, Capacity, Array
    <2>4. WriterOK(c)'
      BY <2>1, <2>2, <2>3 DEF MemInv, MemTypeOK, WriterTypeOK, WriterOK, Lookup
    <2>5. MemTypeOK'
      BY <2>1, <2>2, ReaderTypeUnchanged
         DEF MemInv, MemTypeOK, WriterTypeOK, Lookup, Capacity, Array, WriterSteps
    <2>6. QED
      BY <1>1, <1>2, <2>1, <2>4, <2>5, OwnerStep DEF MemInv, Lookup, Critical, WriterSteps
  <1>6. QED
    BY <1>4, <1>5

\* The counter's value is read from a row that exists.
LEMMA LoadStep ==
  ASSUME MemInv, NEW c \in Callers, Load(c)
  PROVE  MemInv'
  <1> USE DEF Load, WriterStep
  <1>1. NamesUnique' /\ ArraysInv' /\ ReaderInv'
    BY SlicesUnchanged
  <1>2. call[c].kind = "counter" /\ at[c] \in Rows("counter")
    BY DEF MemInv, WriterInv, WriterOK
  <1>3. Array("counter")[at[c]].value \in Values("counter")
    BY <1>2, ArrayTyped DEF MemInv, MemTypeOK, Kinds
  <1>4. MemTypeOK'
    BY <1>2, <1>3, ReaderTypeUnchanged
       DEF MemInv, MemTypeOK, WriterTypeOK, Capacity, Array, WriterSteps
  <1>5. WriterOK(c)'
    BY <1>2 DEF MemInv, MemTypeOK, WriterTypeOK, WriterOK, Rows
  <1>6. LockInv' /\ WriterInv'
    BY <1>5, OwnerStep DEF Critical, WriterSteps
  <1>7. QED
    BY <1>1, <1>4, <1>6 DEF MemInv

\* A row e is stored at place i of a slice, without giving a second row the
\* same name.
LEMMA SliceStore ==
  ASSUME MemInv, NEW k \in Kinds, NEW i \in Rows(k), NEW e \in Row(k),
         \/ e.name = Array(k)[i].name
         \/ RowsNamed(k, e.name) = {},
         arrays' = [arrays EXCEPT ![k] =
                      [arrays[k] EXCEPT ![Len(arrays[k])] = [Array(k) EXCEPT ![i] = e]]],
         length' = length, UNCHANGED readerVars
  PROVE  /\ DOMAIN arrays' = Kinds
         /\ \A j \in Kinds : /\ (arrays[j] \in Seq(Seq(Row(j))) /\ arrays[j] # <<>>)'
                             /\ (length[j] <= Capacity(j))'
         /\ (Array(k)[i])' = e
         /\ \A x \in 1 .. Capacity(k) : x # i => Array(k)'[x] = Array(k)[x]
         /\ NamesUnique' /\ ArraysInv' /\ ReaderInv'
  <1> DEFINE s == arrays[k]
             t == arrays'[k]
  <1>0. DOMAIN arrays = Kinds
    BY DEF MemInv, MemTypeOK, WriterTypeOK
  <1>1. DOMAIN arrays' = Kinds /\ \A j \in Kinds : j # k => arrays'[j] = arrays[j]
    BY <1>0
  <1>2. arrays'[k] = t /\ t = [s EXCEPT ![Len(s)] = [Array(k) EXCEPT ![i] = e]]
    BY <1>0
  <1>3. /\ s \in Seq(Seq(Row(k))) /\ s # <<>> /\ i \in 1 .. Len(s[Len(s)])
        /\ length[k] \in Nat /\ Len(s) \in 1 .. Len(s)
    BY ArrayTyped DEF MemInv, MemTypeOK, WriterTypeOK, Array, Capacity
  <1> HIDE DEF s, t
  <1>4. /\ t \in Seq(Seq(Row(k))) /\ Len(t) = Len(s)
        /\ \A a \in 1 .. Len(s) : Len(t[a]) = Len(s[a])
        /\ \A x \in 1 .. Len(s[Len(s)]) :
               t[Len(s)][x] = IF x = i THEN e ELSE s[Len(s)][x]
    <2> DEFINE last == s[Len(s)]
               u == [last EXCEPT ![i] = e]
    <2>1. last \in Seq(Row(k))
      BY <1>3
    <2>2. t = [s EXCEPT ![Len(s)] = u]
      BY <1>2 DEF Array, s
    <2>3. i \in 1 .. Len(last)
      BY <1>3
    <2> HIDE DEF last
    <2>4. /\ u \in Seq(Row(k)) /\ Len(u) = Len(last)
          /\ \A x \in 1 .. Len(last) : u[x] = IF x = i THEN e ELSE last[x]
      BY <2>1, <2>3, ReplaceInSeq
    <2> HIDE DEF u
    <2>5. s \in Seq(Seq(Row(k))) /\ Len(s) \in 1 .. Len(s)
      BY <1>3
    <2>6. t \in Seq(Seq(Row(k)))
      <3> DEFINE S == Seq(Row(k))
      <3>1. s \in Seq(S) /\ u \in S
        BY <2>4, <2>5
      <3> HIDE DEF S
      <3>2. [s EXCEPT ![Len(s)] = u] \in Seq(S)
        BY <2>5, <3>1, ReplaceInSeq
      <3>3. QED
        BY <2>2, <3>2 DEF S
    <2>7. /\ Len(t) = Len(s)
          /\ \A x \in 1 .. Len(s) : t[x] = IF x = Len(s) THEN u ELSE s[x]
      BY <2>2, <2>4, <2>5
    <2>8. QED
      BY <1>3, <2>4, <2>6, <2>7 DEF last
  <1>5. Capacity(k)' = Capacity(k) /\ Rows(k)' = Rows(k)
    <2>1. Capacity(k) = Len(s[Len(s)]) /\ Capacity(k)' = Len(t[Len(t)])
      BY <1>2 DEF Capacity, Array, s
    <2>2. QED
      BY <1>3, <1>4, <2>1 DEF Rows
  <1>6. \A x \in 1 .. Capacity(k) :
            Array(k)'[x] = IF x = i THEN e ELSE Array(k)[x]
    BY <1>2, <1>4 DEF Capacity, Array, s
  <1>7. \A j \in Kinds : /\ (arrays[j] \in Seq(Seq(Row(j))) /\ arrays[j] # <<>>)'
                         /\ (length[j] <= Capacity(j))'
    <2> TAKE j \in Kinds
    <2>1. CASE j = k
      BY <1>2, <1>3, <1>4, <1>5, <2>1 DEF MemInv, MemTypeOK, WriterTypeOK, s
    <2>2. CASE j # k
      BY <1>1, <2>2 DEF MemInv, MemTypeOK, WriterTypeOK, Capacity, Array
    <2>3. QED
      BY <2>1, <2>2
  <1>8. NamesUnique'
    <2>1. Rows(k) \subseteq 1 .. Capacity(k)
      BY ArrayTyped DEF MemInv, MemTypeOK
    <2>2. ASSUME NEW x \in Rows(k), NEW y \in Rows(k),
                 Array(k)'[x].name = Array(k)'[y].name, Array(k)'[x].name # NoName
          PROVE  x = y
      BY <1>6, <2>1, <2>2 DEF MemInv, NamesUnique, RowsNamed
    <2>3. ASSUME NEW j \in Kinds, j # k
          PROVE  Rows(j)' = Rows(j) /\ Array(j)' = Array(j)
      BY <1>1, <2>3 DEF Rows, Array
    <2>4. QED
      BY <1>5, <2>2, <2>3 DEF MemInv, NamesUnique
  <1>9. ArraysInv'
    <2>1. Growing(t)
      <3>1. Growing(s)
        BY DEF MemInv, ArraysInv, s
      <3>2. ASSUME NEW a \in 1 .. Len(t), NEW b \in 1 .. Len(t), a <= b
            PROVE  Len(t[a]) <= Len(t[b])
        BY <1>4, <3>1, <3>2 DEF Growing
      <3>3. QED
        BY <3>2 DEF Growing
    <2>2. ASSUME NEW x \in 1 .. Capacity(k), x > length[k]
          PROVE  Array(k)'[x].name = NoName
      <3>1. x # i
        BY <1>3, <2>2 DEF Rows
      <3>2. QED
        BY <1>6, <2>2, <3>1 DEF MemInv, ArraysInv
    <2>3. ASSUME NEW j \in Kinds, j # k
          PROVE  arrays'[j] = arrays[j] /\ Array(j)' = Array(j) /\ Capacity(j)' = Capacity(j)
      BY <1>1, <2>3 DEF Array, Capacity
    <2>4. Growing(arrays'[k])
      BY <2>1 DEF t
    <2>5. QED
      BY <1>5, <2>2, <2>3, <2>4 DEF MemInv, ArraysInv
  <1>10. ReaderInv'
    <2>1. ASSUME NEW j \in Kinds
          PROVE  /\ Len(arrays'[j]) = Len(arrays[j])
                 /\ \A a \in 1 .. Len(arrays[j]) : Len(arrays'[j][a]) = Len(arrays[j][a])
      BY <1>1, <1>2, <1>4 DEF s
    <2>2. ASSUME NEW r \in Readers PROVE want[r][1] \in Kinds
      BY DEF MemInv, MemTypeOK, ReaderTypeOK
    <2>3. QED
      BY <2>1, <2>2 DEF MemInv, ReaderInv, ReaderOK, readerVars
  <1>11. QED
    BY <1>1, <1>3, <1>6, <1>7, <1>8, <1>9, <1>10 DEF Rows, Array, Capacity, s

\* An update in place keeps the row's name.
LEMMA UpdateStep ==
  ASSUME MemInv, NEW c \in Callers, Update(c)
  PROVE  MemInv'
  <1> DEFINE k == call[c].kind
             e == [Array(k)[at[c]] EXCEPT !.value = NewValue(c)]
  <1> USE DEF Update, WriterStep
  <1>1. k \in Kinds /\ at[c] \in Rows(k) /\ wpc[c] \in Critical
    BY CallTyped DEF MemInv, WriterInv, WriterOK, Critical, WriterSteps
  <1>2. NewValue(c) \in Values(k)
    <2>1. loaded[c] \in Values("counter") /\ call[c].value \in Values(k)
      BY CallTyped DEF MemInv, MemTypeOK, WriterTypeOK
    <2>2. CASE k = "gauge"
      BY <2>1, <2>2 DEF NewValue, Combine
    <2>3. CASE k = "counter"
      <3>1. loaded[c] \in Int /\ call[c].value \in Int
        BY <2>1, <2>3, HalfRangeAssumption DEF Values
      <3>2. NewValue(c) = Wrap(loaded[c] + call[c].value)
        BY <2>3 DEF NewValue, Combine
      <3>3. QED
        BY <2>3, <3>1, <3>2, WrapInRange DEF Values
    <2>4. QED
      BY <1>1, <2>2, <2>3 DEF Kinds
  <1>3. e \in Row(k) /\ e.name = Array(k)[at[c]].name
    <2>1. Array(k)[at[c]] \in Row(k)
      BY <1>1, RowTyped
    <2>2. QED
      BY <1>2, <2>1 DEF Row
  <1>4. arrays' = [arrays EXCEPT ![k] =
                     [arrays[k] EXCEPT ![Len(arrays[k])] = [Array(k) EXCEPT ![at[c]] = e]]]
    BY DEF Array
  <1>5. length' = length /\ UNCHANGED readerVars
    OBVIOUS
  <1> HIDE DEF e, k
  <1>6. /\ DOMAIN arrays' = Kinds
        /\ \A j \in Kinds : /\ (arrays[j] \in Seq(Seq(Row(j))) /\ arrays[j] # <<>>)'
                            /\ (length[j] <= Capacity(j))'
        /\ NamesUnique' /\ ArraysInv' /\ ReaderInv'
    BY <1>1, <1>3, <1>4, <1>5, SliceStore
  <1>7. MemTypeOK'
    BY <1>6, ReaderTypeUnchanged DEF MemInv, MemTypeOK, WriterTypeOK, WriterSteps
  <1>8. wpc' = [wpc EXCEPT ![c] = "unlock"] /\ wpc'[c] = "unlock" /\ mutex' = mutex
    BY DEF MemInv, MemTypeOK, WriterTypeOK
  <1>9. WriterOK(c)'
    BY <1>8 DEF WriterOK
  <1>10. LockInv' /\ WriterInv'
    BY <1>1, <1>8, <1>9, OwnerStep DEF Critical, WriterSteps
  <1>11. QED
    BY <1>6, <1>7, <1>10 DEF MemInv

\* The name of a new row is stored while no row has it.
LEMMA FillStep ==
  ASSUME MemInv, NEW c \in Callers, Fill(c)
  PROVE  MemInv'
  <1> USE DEF WriterStep
  <1>1. PICK k \in Kinds : k = call[c].kind
    BY CallTyped
  <1>2. PICK i \in Rows(k) : i = at[c]
    BY <1>1 DEF Fill, MemInv, WriterInv, WriterOK
  <1>3. PICK field \in todo[c] :
           /\ arrays' = [arrays EXCEPT ![k][Len(arrays[k])][i] =
                 IF field = "name" THEN [@ EXCEPT !.name = call[c].name]
                                   ELSE [@ EXCEPT !.value = call[c].value]]
           /\ todo' = [todo EXCEPT ![c] = @ \ {field}]
           /\ wpc' = [wpc EXCEPT ![c] = IF todo[c] = {field} THEN "unlock" ELSE @]
    BY <1>1, <1>2 DEF Fill
  <1>4. wpc[c] = "fill" /\ wpc[c] \in Critical
    BY DEF Fill, Critical, WriterSteps
  <1>5. "name" \in todo[c] => RowsNamed(k, call[c].name) = {} /\ Array(k)[i].name = NoName
    BY <1>1, <1>2, <1>4 DEF MemInv, WriterInv, WriterOK
  <1>6. PICK e \in Row(k) :
           /\ arrays' = [arrays EXCEPT ![k] =
                 [arrays[k] EXCEPT ![Len(arrays[k])] = [Array(k) EXCEPT ![i] = e]]]
           /\ e.name = Array(k)[i].name \/ RowsNamed(k, e.name) = {}
           /\ field # "name" => e.name = Array(k)[i].name
    <2> DEFINE old == Array(k)[i]
    <2>1. old \in Row(k)
      BY <1>1, ArrayTyped DEF MemInv, MemTypeOK, Capacity
    <2>2. CASE field = "name"
      <3> DEFINE e == [old EXCEPT !.name = call[c].name]
      <3>1. e \in Row(k) /\ e.name = call[c].name
        BY <2>1, CallTyped DEF Row
      <3>2. arrays' = [arrays EXCEPT ![k] =
                 [arrays[k] EXCEPT ![Len(arrays[k])] = [Array(k) EXCEPT ![i] = e]]]
        BY <1>3, <2>2 DEF Array
      <3> HIDE DEF e
      <3>3. QED
        BY <1>5, <2>2, <3>1, <3>2
    <2>3. CASE field # "name"
      <3> DEFINE e == [old EXCEPT !.value = call[c].value]
      <3>1. e \in Row(k) /\ e.name = old.name
        BY <1>1, <2>1, CallTyped DEF Row
      <3>2. arrays' = [arrays EXCEPT ![k] =
                 [arrays[k] EXCEPT ![Len(arrays[k])] = [Array(k) EXCEPT ![i] = e]]]
        BY <1>3, <2>3 DEF Array
      <3> HIDE DEF e
      <3>3. QED
        BY <2>3, <3>1, <3>2
    <2>4. QED
      BY <2>2, <2>3
  <1>7. length' = length /\ UNCHANGED readerVars /\ UNCHANGED <<call, at, mutex>>
    BY DEF Fill
  <1>8. /\ DOMAIN arrays' = Kinds
        /\ \A j \in Kinds : /\ (arrays[j] \in Seq(Seq(Row(j))) /\ arrays[j] # <<>>)'
                            /\ (length[j] <= Capacity(j))'
        /\ (Array(k)[i])' = e
        /\ \A x \in 1 .. Capacity(k) : x # i => Array(k)'[x] = Array(k)[x]
        /\ NamesUnique' /\ ArraysInv' /\ ReaderInv'
    BY <1>6, <1>7, SliceStore
  <1>9. PICK p \in {"fill", "unlock"} : wpc' = [wpc EXCEPT ![c] = p]
    BY <1>3, <1>4
  <1>10. MemTypeOK'
    <2>1. ReaderTypeOK'
      BY <1>7, ReaderTypeUnchanged DEF MemInv, MemTypeOK
    <2>2. UNCHANGED <<loaded, calls>>
      BY DEF Fill
    <2>3. todo' \in [Callers -> SUBSET {"name", "value"}] /\ wpc' \in [Callers -> WriterSteps]
      BY <1>3, <1>9 DEF MemInv, MemTypeOK, WriterTypeOK, WriterSteps
    <2>4. WriterTypeOK'
      BY <1>7, <1>8, <2>2, <2>3 DEF MemInv, MemTypeOK, WriterTypeOK
    <2>5. QED
      BY <2>1, <2>4 DEF MemTypeOK
  <1>11. WriterOK(c)'
    <2>1. /\ Rows(k)' = Rows(k) /\ wpc'[c] \in {"fill", "unlock"}
          /\ todo'[c] = todo[c] \ {field}
      BY <1>3, <1>7, <1>9 DEF MemInv, MemTypeOK, WriterTypeOK, Rows
    <2>2. PICK n : n = call[c].name
      OBVIOUS
    <2>3. ASSUME "name" \in todo'[c]
          PROVE  RowsNamed(k, n)' = {} /\ Array(k)'[i].name = NoName
      <3>1. field # "name" /\ RowsNamed(k, n) = {} /\ Array(k)[i].name = NoName
        BY <1>5, <2>1, <2>2, <2>3
      <3>2. Rows(k) \subseteq 1 .. Capacity(k)
        BY ArrayTyped DEF MemInv, MemTypeOK
      <3>3. \A x \in Rows(k) : Array(k)'[x].name = Array(k)[x].name
        BY <1>6, <1>8, <3>1, <3>2
      <3>4. QED
        BY <2>1, <3>1, <3>3 DEF RowsNamed
    <2>4. QED
      BY <1>1, <1>2, <1>7, <2>1, <2>2, <2>3 DEF WriterOK
  <1>12. LockInv' /\ WriterInv'
    BY <1>4, <1>7, <1>9, <1>11, OwnerStep DEF Critical, WriterSteps
  <1>13. QED
    BY <1>8, <1>10, <1>12 DEF MemInv

\* append, full array: the new array starts with the old rows, the rest is
\* blank, and the old arrays stay.
LEMMA GrowCopies ==
  ASSUME MemInv, NEW c \in Callers, Grow(c)
  PROVE  \E k \in Kinds, full \in Nat, size \in Nat :
           /\ k = call[c].kind /\ full = Capacity(k) /\ size > full /\ Capacity(k)' = size
           /\ DOMAIN arrays' = Kinds /\ \A j \in Kinds : j # k => arrays'[j] = arrays[j]
           /\ arrays'[k] \in Seq(Seq(Row(k))) /\ arrays'[k] # <<>> /\ Growing(arrays'[k])
           /\ Len(arrays[k]) \in Nat /\ Len(arrays'[k]) = Len(arrays[k]) + 1
           /\ \A a \in 1 .. Len(arrays[k]) : arrays'[k][a] = arrays[k][a]
           /\ \A x \in 1 .. size : Array(k)'[x] = IF x <= full THEN Array(k)[x] ELSE EmptyRow
  <1>1. PICK k \in Kinds : k = call[c].kind
    BY CallTyped
  <1>2. PICK full : full = Capacity(k) /\ full \in Nat
    BY ArrayTyped DEF MemInv, MemTypeOK
  <1>3. PICK size \in Nat : size = (IF full = 0 THEN 1 ELSE 2 * full) /\ size > full
    BY <1>2
  <1> DEFINE new == [x \in 1 .. size |-> IF x <= full THEN Array(k)[x] ELSE EmptyRow]
  <1>4. arrays' = [arrays EXCEPT ![k] = Append(@, new)]
    BY <1>1, <1>2, <1>3 DEF Grow, Capacity
  <1>6. /\ new \in Seq(Row(k)) /\ Len(new) = size
        /\ \A x \in 1 .. size : new[x] = IF x <= full THEN Array(k)[x] ELSE EmptyRow
    BY <1>2, <1>3, ArrayTyped, EmptyRowTyped DEF MemInv, MemTypeOK, Capacity
  <1> HIDE DEF new
  <1>7. DOMAIN arrays' = Kinds /\ \A j \in Kinds : j # k => arrays'[j] = arrays[j]
    BY <1>4 DEF MemInv, MemTypeOK, WriterTypeOK
  <1>8. PICK t :
           /\ t = arrays'[k] /\ t \in Seq(Seq(Row(k))) /\ t # <<>>
           /\ Len(arrays[k]) \in Nat /\ Len(t) = Len(arrays[k]) + 1 /\ Array(k)' = new
           /\ \A a \in 1 .. Len(arrays[k]) : t[a] = arrays[k][a]
           /\ Growing(t)
    <2>1. arrays'[k] = Append(arrays[k], new)
      BY <1>4 DEF MemInv, MemTypeOK, WriterTypeOK
    <2>2. PICK s : s = arrays[k] /\ s \in Seq(Seq(Row(k))) /\ s # <<>>
      BY DEF MemInv, MemTypeOK, WriterTypeOK
    <2>3. /\ Len(s[Len(s)]) <= Len(new)
          /\ Growing(s)
      <3>1. Len(s[Len(s)]) = full
        BY <1>2, <2>2 DEF Capacity, Array
      <3>2. Growing(s)
        BY <2>2 DEF MemInv, ArraysInv
      <3>3. QED
        BY <1>2, <1>3, <1>6, <3>1, <3>2
    <2>4. PICK t : t = Append(s, new)
      OBVIOUS
    <2>5. /\ t \in Seq(Seq(Row(k))) /\ t # <<>> /\ t[Len(t)] = new /\ Len(t) = Len(s) + 1
          /\ \A a \in 1 .. Len(s) : t[a] = s[a]
          /\ Growing(t)
      <3> DEFINE Q == Seq(Row(k))
      <3>1. PICK u : u = new
        OBVIOUS
      <3>2. s \in Seq(Q) /\ s # <<>> /\ u \in Q /\ t = Append(s, u)
        BY <1>6, <2>2, <2>4, <3>1
      <3>3. Len(s[Len(s)]) <= Len(u) /\ Growing(s) /\ \A x \in Q : Len(x) \in Nat
        BY <2>3, <3>1
      <3> HIDE DEF Q
      <3>4. Growing(t)
        BY <3>2, <3>3, AppendLonger
      <3>5. /\ t \in Seq(Q) /\ t # <<>> /\ t[Len(t)] = u /\ Len(t) = Len(s) + 1
            /\ \A a \in 1 .. Len(s) : t[a] = s[a]
        BY <3>2, AppendAt
      <3>6. QED
        BY <3>1, <3>4, <3>5 DEF Q
    <2>6. t = arrays'[k] /\ Array(k)' = new /\ Len(arrays[k]) \in Nat
      BY <2>1, <2>2, <2>4, <2>5 DEF Array
    <2>7. QED
      BY <2>2, <2>5, <2>6
  <1>9. Capacity(k)' = size
    BY <1>6, <1>8 DEF Capacity
  <1>10. /\ k = call[c].kind /\ full = Capacity(k) /\ size > full /\ Capacity(k)' = size
         /\ DOMAIN arrays' = Kinds /\ \A j \in Kinds : j # k => arrays'[j] = arrays[j]
         /\ arrays'[k] \in Seq(Seq(Row(k))) /\ arrays'[k] # <<>> /\ Growing(arrays'[k])
         /\ Len(arrays[k]) \in Nat /\ Len(arrays'[k]) = Len(arrays[k]) + 1
         /\ \A a \in 1 .. Len(arrays[k]) : arrays'[k][a] = arrays[k][a]
    BY <1>1, <1>2, <1>3, <1>7, <1>8, <1>9
  <1>11. \A x \in 1 .. size : Array(k)'[x] = IF x <= full THEN Array(k)[x] ELSE EmptyRow
    BY <1>6, <1>8
  <1>12. QED
    BY <1>2, <1>3, <1>10, <1>11, Zenon

\* append, full array: readers keep the array they have.
LEMMA GrowStep ==
  ASSUME MemInv, NEW c \in Callers, Grow(c)
  PROVE  MemInv'
  <1> USE DEF WriterStep
  <1>1. PICK k \in Kinds, full \in Nat, size \in Nat :
           /\ k = call[c].kind /\ full = Capacity(k) /\ size > full /\ Capacity(k)' = size
           /\ DOMAIN arrays' = Kinds /\ \A j \in Kinds : j # k => arrays'[j] = arrays[j]
           /\ arrays'[k] \in Seq(Seq(Row(k))) /\ arrays'[k] # <<>> /\ Growing(arrays'[k])
           /\ Len(arrays[k]) \in Nat /\ Len(arrays'[k]) = Len(arrays[k]) + 1
           /\ \A a \in 1 .. Len(arrays[k]) : arrays'[k][a] = arrays[k][a]
           /\ \A x \in 1 .. size : Array(k)'[x] = IF x <= full THEN Array(k)[x] ELSE EmptyRow
    BY GrowCopies
  <1>5. /\ length' = length /\ UNCHANGED readerVars /\ UNCHANGED <<call, at, todo, mutex>>
        /\ wpc[c] = "grow" /\ wpc' = [wpc EXCEPT ![c] = "publish"]
    BY DEF Grow
  <1>10. \A j \in Kinds : /\ (arrays[j] \in Seq(Seq(Row(j))) /\ arrays[j] # <<>>)'
                          /\ (length[j] <= Capacity(j))'
    <2> TAKE j \in Kinds
    <2>1. arrays[j] \in Seq(Seq(Row(j))) /\ length[j] \in Nat /\ length[j] <= Capacity(j)
      BY DEF MemInv, MemTypeOK, WriterTypeOK
    <2>2. CASE j = k
      <3>1. arrays'[k] # <<>>
        BY <1>1, <2>1, <2>2
      <3>2. QED
        BY <1>1, <1>5, <2>1, <2>2, <3>1
    <2>3. CASE j # k
      <3>1. arrays'[j] = arrays[j] /\ length'[j] = length[j]
        BY <1>1, <1>5, <2>3
      <3>2. Capacity(j)' = Capacity(j)
        BY <3>1 DEF Capacity, Array
      <3>3. arrays[j] # <<>>
        BY DEF MemInv, MemTypeOK, WriterTypeOK
      <3>4. QED
        BY <2>1, <3>1, <3>2, <3>3
    <2>4. QED
      BY <2>2, <2>3
  <1>11. \A x \in Rows(k) : Array(k)'[x] = Array(k)[x]
    <2>1. Rows(k) \subseteq 1 .. full /\ 1 .. full \subseteq 1 .. size
      BY <1>1, ArrayTyped DEF MemInv, MemTypeOK
    <2>2. \A x \in 1 .. full : x \in 1 .. size /\ x <= full
      BY <1>1
    <2>3. QED
      BY <1>1, <2>1, <2>2
  <1>12. MemTypeOK'
    <2>1. ReaderTypeOK'
      BY <1>5, ReaderTypeUnchanged DEF MemInv, MemTypeOK
    <2>2. UNCHANGED <<loaded, calls>>
      BY DEF Grow
    <2>3. WriterTypeOK'
      BY <1>1, <1>5, <1>10, <2>2 DEF MemInv, MemTypeOK, WriterTypeOK, WriterSteps
    <2>4. QED
      BY <2>1, <2>3 DEF MemTypeOK
  <1>13. NamesUnique'
    <2>1. ASSUME NEW x \in Rows(k), NEW y \in Rows(k),
                 Array(k)'[x].name = Array(k)'[y].name, Array(k)'[x].name # NoName
          PROVE  x = y
      BY <1>11, <2>1 DEF MemInv, NamesUnique
    <2>2. \A j \in Kinds : Rows(j)' = Rows(j) /\ (j # k => Array(j)' = Array(j))
      BY <1>5, <1>1 DEF Rows, Array
    <2>3. QED
      BY <2>1, <2>2 DEF MemInv, NamesUnique
  <1>14. ArraysInv'
    <2>1. Growing(arrays'[k])
      BY <1>1
    <2>2. ASSUME NEW x \in 1 .. size, x > length[k] PROVE Array(k)'[x].name = NoName
      <3>1. CASE x <= full
        <4>1. Array(k)'[x] = Array(k)[x] /\ x \in 1 .. full
          BY <1>1, <3>1
        <4>2. \A i \in 1 .. full : i > length[k] => Array(k)[i].name = NoName
          BY <1>1 DEF MemInv, ArraysInv
        <4>3. QED
          BY <2>2, <4>1, <4>2
      <3>2. CASE ~(x <= full)
        BY <1>1, <3>2 DEF EmptyRow
      <3>3. QED
        BY <3>1, <3>2
    <2>3. ASSUME NEW j \in Kinds, j # k
          PROVE  arrays'[j] = arrays[j] /\ Array(j)' = Array(j) /\ Capacity(j)' = Capacity(j)
      BY <1>1, <2>3 DEF Array, Capacity
    <2>4. ASSUME NEW j \in Kinds
          PROVE  /\ Growing(arrays'[j])
                 /\ \A x \in 1 .. Capacity(j)' : x > length'[j] => Array(j)'[x].name = NoName
      <3>1. CASE j = k
        BY <1>1, <1>5, <2>1, <2>2, <3>1
      <3>2. CASE j # k
        <4>1. /\ Growing(arrays[j])
              /\ \A x \in 1 .. Capacity(j) : x > length[j] => Array(j)[x].name = NoName
          BY DEF MemInv, ArraysInv
        <4>2. QED
          BY <1>5, <2>3, <3>2, <4>1
      <3>3. QED
        BY <3>1, <3>2
    <2>5. QED
      BY <2>4 DEF ArraysInv
  <1>15. ReaderInv'
    <2>1. ASSUME NEW j \in Kinds
          PROVE  /\ Len(arrays[j]) \in Nat /\ Len(arrays'[j]) \in Nat
                 /\ Len(arrays[j]) <= Len(arrays'[j])
                 /\ \A a \in 1 .. Len(arrays[j]) : arrays'[j][a] = arrays[j][a]
      <3>1. Len(arrays[j]) \in Nat
        BY ArrayTyped DEF MemInv, MemTypeOK
      <3>2. CASE j = k
        BY <1>1, <3>1, <3>2
      <3>3. CASE j # k
        BY <1>1, <3>1, <3>3
      <3>4. QED
        BY <3>2, <3>3
    <2>2. QED
      BY <1>5, <2>1, LongerArrays
  <1>16. WriterOK(c)'
    <2>1. PICK n : n = call[c].name
      OBVIOUS
    <2>2. RowsNamed(k, n) = {} /\ wpc'[c] = "publish"
      BY <1>1, <1>5, <2>1 DEF MemInv, MemTypeOK, WriterTypeOK, WriterInv, WriterOK
    <2>3. RowsNamed(k, n)' = {}
      BY <1>5, <1>11, <2>2 DEF RowsNamed, Rows
    <2>4. (length[k] < Capacity(k))'
      BY <1>1, <1>5 DEF MemInv, MemTypeOK, WriterTypeOK
    <2>5. QED
      BY <1>1, <1>5, <2>1, <2>2, <2>3, <2>4 DEF WriterOK
  <1>17. LockInv' /\ WriterInv'
    BY <1>5, <1>16, OwnerStep DEF Critical, WriterSteps
  <1>18. QED
    BY <1>12, <1>13, <1>14, <1>15, <1>17 DEF MemInv

\* append publishes a row of which the name is still blank.
LEMMA PublishStep ==
  ASSUME MemInv, NEW c \in Callers, Publish(c)
  PROVE  MemInv'
  <1> USE DEF WriterStep
  <1>1. PICK k \in Kinds, n \in Names : k = call[c].kind /\ n = call[c].name
    BY CallTyped
  <1>2. PICK m \in Nat : m = length[k]
    BY DEF MemInv, MemTypeOK, WriterTypeOK
  <1>3. /\ length' = [length EXCEPT ![k] = m + 1] /\ at' = [at EXCEPT ![c] = m + 1]
        /\ todo' = [todo EXCEPT ![c] = {"name", "value"}]
        /\ wpc[c] = "publish" /\ wpc' = [wpc EXCEPT ![c] = "fill"]
        /\ UNCHANGED <<mutex, arrays, loaded, call, calls>> /\ UNCHANGED readerVars
    BY <1>1, <1>2 DEF Publish
  <1>4. RowsNamed(k, n) = {} /\ m < Capacity(k)
    BY <1>1, <1>2, <1>3 DEF MemInv, WriterInv, WriterOK
  <1>5. \A j \in Kinds : Array(j)' = Array(j) /\ Capacity(j)' = Capacity(j)
    BY <1>3 DEF Array, Capacity
  <1>6. length'[k] = m + 1 /\ \A j \in Kinds : j # k => length'[j] = length[j]
    BY <1>3 DEF MemInv, MemTypeOK, WriterTypeOK
  <1>7. Array(k)[m + 1].name = NoName
    <2>1. m + 1 \in 1 .. Capacity(k) /\ m + 1 > m
      BY <1>2, <1>4, ArrayTyped DEF MemInv, MemTypeOK
    <2>2. QED
      BY <1>2, <2>1 DEF MemInv, ArraysInv
  <1>8. Rows(k)' = Rows(k) \cup {m + 1} /\ \A j \in Kinds : j # k => Rows(j)' = Rows(j)
    BY <1>2, <1>6 DEF Rows
  <1>9. MemTypeOK'
    <2>1. m + 1 <= Capacity(k) /\ \A j \in Kinds : length[j] <= Capacity(j)
      BY <1>2, <1>4, ArrayTyped DEF MemInv, MemTypeOK, WriterTypeOK
    <2>2. \A j \in Kinds : length'[j] <= Capacity(j)'
      BY <1>5, <1>6, <2>1
    <2>3. QED
      BY <1>3, <2>2, ReaderTypeUnchanged
         DEF MemInv, MemTypeOK, WriterTypeOK, WriterSteps
  <1>10. NamesUnique'
    BY <1>5, <1>7, <1>8 DEF MemInv, NamesUnique
  <1>11. ArraysInv'
    <2>1. ASSUME NEW x \in 1 .. Capacity(k), x > m + 1 PROVE Array(k)[x].name = NoName
      BY <1>2, <2>1, ArrayTyped DEF MemInv, MemTypeOK, ArraysInv
    <2>2. QED
      BY <1>3, <1>5, <1>6, <2>1 DEF MemInv, ArraysInv
  <1>12. ReaderInv'
    BY <1>3 DEF MemInv, ReaderInv, ReaderOK, readerVars
  <1>13. WriterOK(c)'
    <2>1. RowsNamed(k, n)' = {}
      BY <1>1, <1>4, <1>5, <1>7, <1>8, CallTyped DEF RowsNamed
    <2>2. /\ at'[c] = m + 1 /\ wpc'[c] = "fill" /\ call'[c] = call[c]
          /\ m + 1 \in Rows(k)'
      BY <1>3, <1>8 DEF MemInv, MemTypeOK, WriterTypeOK
    <2>3. QED
      BY <1>1, <1>5, <1>7, <2>1, <2>2 DEF WriterOK
  <1>14. LockInv' /\ WriterInv'
    BY <1>3, <1>13, OwnerStep DEF Critical, WriterSteps
  <1>15. QED
    BY <1>9, <1>10, <1>11, <1>12, <1>14 DEF MemInv

-----------------------------------------------------------------------------
(* The readers.                                                            *)

\* A reader changes only what it knows itself.
LEMMA ReaderStep ==
  ASSUME MemInv, UNCHANGED writerVars, ReaderTypeOK', NEW r \in Readers, ReaderOK(r)',
         \A q \in Readers \ {r} :
            /\ want'[q] = want[q] /\ view'[q] = view[q] /\ again'[q] = again[q]
            /\ row'[q] = row[q] /\ rpc'[q] = rpc[q]
  PROVE  MemInv'
  <1>1. ASSUME NEW q \in Readers, q # r PROVE ReaderOK(q)'
    BY <1>1 DEF MemInv, ReaderInv, ReaderOK, writerVars
  <1>2. ReaderInv'
    BY <1>1 DEF ReaderInv
  <1>3. QED
    BY <1>2, WritersUnchanged DEF MemInv, MemTypeOK

\* An answer is a sequence of values of the metric's kind.
LEMMA AnswersTyped ==
  ASSUME ReaderTypeOK, NEW r \in Readers,
         \A q \in Readers \ {r} : want'[q] = want[q],
         NEW a, a \in Seq(Values(want'[r][1])), answer' = [answer EXCEPT ![r] = a]
  PROVE  /\ DOMAIN answer' = Readers
         /\ \A q \in Readers : answer'[q] \in Seq(Values(want'[q][1]))
  <1>1. DOMAIN answer = Readers /\ answer'[r] = a
    BY DEF ReaderTypeOK
  <1>2. ASSUME NEW q \in Readers PROVE answer'[q] \in Seq(Values(want'[q][1]))
    <2>1. CASE q = r
      BY <1>1, <2>1
    <2>2. CASE q # r
      <3>1. answer'[q] = answer[q] /\ want'[q] = want[q]
        BY <2>2
      <3>2. answer[q] \in Seq(Values(want[q][1]))
        BY DEF ReaderTypeOK
      <3>3. QED
        BY <3>1, <3>2
    <2>3. QED
      BY <2>1, <2>2
  <1>3. QED
    BY <1>1, <1>2

\* A handler is called.
LEMMA CallReadStep ==
  ASSUME MemInv, NEW r \in Readers, CallRead(r)
  PROVE  MemInv'
  <1> USE DEF CallRead
  <1>1. ReaderTypeOK'
    <2>1. ReaderTypeOK
      BY DEF MemInv, MemTypeOK
    <2>2. PICK k \in Kinds, n \in Names : want' = [want EXCEPT ![r] = <<k, n>>]
      OBVIOUS
    <2>3. view' \in [Readers -> [array : Nat, len : Int]]
      BY <2>1 DEF ReaderTypeOK, NotLoaded
    <2>4. /\ DOMAIN answer' = Readers
          /\ \A q \in Readers : answer'[q] \in Seq(Values(want'[q][1]))
      <3>1. \A q \in Readers \ {r} : want'[q] = want[q]
        BY <2>1, <2>2 DEF ReaderTypeOK
      <3>2. answer' = [answer EXCEPT ![r] = <<>>] /\ <<>> \in Seq(Values(want'[r][1]))
        OBVIOUS
      <3>3. QED
        BY <2>1, <3>1, <3>2, AnswersTyped
    <2>5. QED
      BY <2>1, <2>2, <2>3, <2>4 DEF ReaderTypeOK, ReaderSteps
  <1>2. ReaderOK(r)'
    <2>1. view'[r].array = 0 /\ row'[r] = 1 /\ rpc'[r] = "header" /\ want'[r][1] \in Kinds
      BY <1>1 DEF MemInv, MemTypeOK, ReaderTypeOK, NotLoaded
    <2>2. \A k \in Kinds : Len(arrays'[k]) \in Nat
      BY ArrayTyped DEF MemInv, MemTypeOK, writerVars
    <2>3. QED
      BY <2>1, <2>2 DEF ReaderOK
  <1>3. QED
    BY <1>1, <1>2, ReaderStep DEF MemInv, MemTypeOK, ReaderTypeOK

\* The pointer of a slice header is an array that exists.
LEMMA LoadHeaderStep ==
  ASSUME MemInv, NEW r \in Readers, LoadHeader(r)
  PROVE  MemInv'
  <1> USE DEF LoadHeader
  <1>1. PICK k \in Kinds, m \in Nat \ {0}, v \in [array : Nat, len : Int] :
           k = want[r][1] /\ m = Len(arrays[k]) /\ v = view[r] /\ v.array <= m
    <2>1. PICK k \in Kinds, v \in [array : Nat, len : Int] : k = want[r][1] /\ v = view[r]
      BY DEF MemInv, MemTypeOK, ReaderTypeOK
    <2>2. PICK m \in Nat \ {0} : m = Len(arrays[k])
      BY ArrayTyped DEF MemInv, MemTypeOK
    <2>3. v.array <= m
      BY <2>1, <2>2 DEF MemInv, ReaderInv, ReaderOK
    <2>4. QED
      BY <2>1, <2>2, <2>3
  <1>2. length[k] \in Nat
    BY DEF MemInv, MemTypeOK, WriterTypeOK
  <1>3. PICK w \in [array : Nat, len : Int], p \in {"header", "range"} :
           /\ view' = [view EXCEPT ![r] = w] /\ rpc' = [rpc EXCEPT ![r] = p]
           /\ w.array <= m /\ (p = "range" => w.array >= 1)
    <2>0. rpc = [rpc EXCEPT ![r] = "header"]
      BY DEF MemInv, MemTypeOK, ReaderTypeOK
    <2>1. CASE /\ view' = [view EXCEPT ![r].array = Len(arrays[want[r][1]])]
               /\ rpc' = [rpc EXCEPT ![r] = IF view[r].len >= 0 THEN "range" ELSE @]
      <3> DEFINE w == [v EXCEPT !.array = m]
      <3>1. /\ view' = [view EXCEPT ![r] = w] /\ w \in [array : Nat, len : Int]
            /\ w.array <= m /\ w.array >= 1
        BY <1>1, <2>1
      <3>2. PICK p \in {"header", "range"} : rpc' = [rpc EXCEPT ![r] = p]
        BY <2>0, <2>1
      <3> HIDE DEF w
      <3>3. QED
        BY <3>1, <3>2, Zenon
    <2>2. CASE /\ view' = [view EXCEPT ![r].len = length[want[r][1]]]
               /\ rpc' = [rpc EXCEPT ![r] = IF view[r].array > 0 THEN "range" ELSE @]
      <3> DEFINE w == [v EXCEPT !.len = length[k]]
      <3>1. view' = [view EXCEPT ![r] = w] /\ w \in [array : Nat, len : Int]
            /\ w.array <= m /\ w.array = v.array
        BY <1>1, <1>2, <2>2
      <3>2. PICK p \in {"header", "range"} :
               rpc' = [rpc EXCEPT ![r] = p] /\ (p = "range" => v.array >= 1)
        <4>1. CASE view[r].array > 0
          <5>1. rpc' = [rpc EXCEPT ![r] = "range"]
            BY <2>2, <4>1
          <5>2. PICK x \in Nat : x = v.array /\ x > 0
            BY <1>1, <4>1
          <5>3. v.array >= 1
            BY <5>2
          <5>4. QED
            BY <5>1, <5>3, Zenon
        <4>2. CASE ~(view[r].array > 0)
          <5>1. rpc' = [rpc EXCEPT ![r] = "header"]
            BY <2>0, <2>2, <4>2
          <5>2. QED
            BY <5>1, Zenon
        <4>3. QED
          BY <4>1, <4>2
      <3> HIDE DEF w
      <3>3. QED
        BY <3>1, <3>2, Zenon
    <2>3. QED
      BY <2>1, <2>2
  <1>4. UNCHANGED <<want, again, row, answer, reads, held>> /\ UNCHANGED writerVars
    OBVIOUS
  <1>5. rpc[r] = "header"
    OBVIOUS
  <1> USE DEF MemInv, MemTypeOK, ReaderTypeOK
  <1>6. ReaderTypeOK'
    BY <1>3, <1>4 DEF ReaderSteps
  <1>7. ReaderOK(r)'
    BY <1>1, <1>3, <1>4, <1>5 DEF ReaderInv, ReaderOK, writerVars
  <1>8. QED
    BY <1>3, <1>4, <1>6, <1>7, ReaderStep

\* A row is only looked at inside its array.
LEMMA ExamineStep ==
  ASSUME MemInv, NEW r \in Readers, Examine(r)
  PROVE  MemInv'
  <1>1. PICK p \in {"range", "answer", "fault", "fetch"}, x \in Nat :
           /\ rpc' = [rpc EXCEPT ![r] = p] /\ row' = [row EXCEPT ![r] = x]
           /\ x >= row[r]
           /\ p = "fetch" => x <= Len(arrays[want[r][1]][view[r].array])
    <2>1. /\ rpc = [rpc EXCEPT ![r] = rpc[r]] /\ row = [row EXCEPT ![r] = row[r]]
          /\ rpc[r] = "range" /\ row[r] \in Nat
      BY DEF Examine, MemInv, MemTypeOK, ReaderTypeOK
    <2>2. CASE rpc' = [rpc EXCEPT ![r] = "answer"] /\ row' = row
      BY <2>1, <2>2
    <2>3. CASE rpc' = [rpc EXCEPT ![r] = "fault"] /\ row' = row
      BY <2>1, <2>3
    <2>4. CASE rpc' = rpc /\ row' = [row EXCEPT ![r] = @ + 1]
      <3>1. PICK x \in Nat : x = row[r] + 1 /\ x >= row[r]
        BY <2>1
      <3>2. rpc' = [rpc EXCEPT ![r] = "range"] /\ row' = [row EXCEPT ![r] = x]
        BY <2>1, <2>4, <3>1
      <3>3. QED
        BY <3>1, <3>2
    <2>5. CASE /\ rpc' = [rpc EXCEPT ![r] = "fetch"] /\ row' = row
               /\ row[r] <= Len(arrays[want[r][1]][view[r].array])
      BY <2>1, <2>5
    <2>6. QED
      BY <2>2, <2>3, <2>4, <2>5 DEF Examine
  <1>2. /\ UNCHANGED <<want, view, again, answer, reads, held>> /\ UNCHANGED writerVars
        /\ rpc[r] = "range"
    BY DEF Examine
  <1> USE DEF MemInv, MemTypeOK, ReaderTypeOK
  <1>3. ReaderTypeOK'
    BY <1>1, <1>2 DEF ReaderSteps
  <1>4. ReaderOK(r)'
    <2>1. /\ view[r].array \in 0 .. Len(arrays[want[r][1]]) /\ view[r].array >= 1
          /\ row[r] >= 1 /\ row[r] \in Nat
      BY <1>2 DEF ReaderInv, ReaderOK
    <2>2. rpc'[r] = p /\ row'[r] = x /\ UNCHANGED <<want, view, arrays>>
      BY <1>1, <1>2 DEF writerVars
    <2>3. QED
      BY <1>1, <2>1, <2>2 DEF ReaderOK
  <1>5. QED
    BY <1>1, <1>2, <1>3, <1>4, ReaderStep

\* The slice asked for again is the same array or a later one.
LEMMA RefetchStep ==
  ASSUME MemInv, NEW r \in Readers, Refetch(r)
  PROVE  MemInv'
  <1> USE DEF Refetch
  <1>1. PICK k \in Kinds, m \in Nat \ {0} : k = want[r][1] /\ m = Len(arrays[k])
    BY ArrayTyped DEF MemInv, MemTypeOK, ReaderTypeOK
  <1>2. /\ again' = [again EXCEPT ![r] = m] /\ rpc' = [rpc EXCEPT ![r] = "value"]
        /\ UNCHANGED <<want, view, row, answer, reads, held>> /\ UNCHANGED writerVars
        /\ rpc[r] = "fetch"
    BY <1>1
  <1> USE DEF MemInv, MemTypeOK, ReaderTypeOK
  <1>3. ReaderTypeOK'
    BY <1>2 DEF ReaderSteps
  <1>4. ReaderOK(r)'
    BY <1>1, <1>2 DEF ReaderInv, ReaderOK, writerVars
  <1>5. QED
    BY <1>2, <1>3, <1>4, ReaderStep

\* The row exists in the later array too.
LEMMA WriteAnswerStep ==
  ASSUME MemInv, NEW r \in Readers, WriteAnswer(r)
  PROVE  MemInv'
  <1> USE DEF WriteAnswer
  <1>1. PICK k \in Kinds, g \in Nat, v \in Nat, x \in Nat :
           k = want[r][1] /\ g = again[r] /\ v = view[r].array /\ x = row[r]
    BY DEF MemInv, MemTypeOK, ReaderTypeOK
  <1>2. PICK s : s = arrays[k] /\ s \in Seq(Seq(Row(k))) /\ Growing(s)
    BY ArrayTyped DEF MemInv, MemTypeOK, ArraysInv
  <1>3. v \in 1 .. Len(s) /\ g \in 1 .. Len(s) /\ v <= g /\ x >= 1 /\ x <= Len(s[v])
    <2>1. /\ v \in 0 .. Len(s) /\ v >= 1 /\ x >= 1 /\ x <= Len(s[v])
          /\ g \in v .. Len(s)
      BY <1>1, <1>2 DEF MemInv, ReaderInv, ReaderOK
    <2>2. Len(s) \in Nat
      BY <1>2
    <2>3. QED
      BY <2>1, <2>2
  <1>4. s[g][x] \in Row(k)
    <2>1. s[g] \in Seq(Row(k)) /\ s[v] \in Seq(Row(k))
      BY <1>2, <1>3
    <2>2. Len(s[v]) <= Len(s[g])
      BY <1>2, <1>3 DEF Growing
    <2>3. x \in 1 .. Len(s[g])
      BY <1>3, <2>1, <2>2
    <2>4. QED
      BY <2>1, <2>3
  <1>5. PICK u \in Values(k) : u = s[g][x].value
    BY <1>4 DEF Row
  <1>6. /\ answer' = [answer EXCEPT ![r] = Append(@, u)]
        /\ row' = [row EXCEPT ![r] = x + 1] /\ rpc' = [rpc EXCEPT ![r] = "range"]
        /\ UNCHANGED <<want, view, again, reads, held>> /\ UNCHANGED writerVars
        /\ rpc[r] = "value"
    BY <1>1, <1>2, <1>5
  <1> HIDE DEF WriteAnswer
  <1>7. ReaderTypeOK'
    <2>1. answer[r] \in Seq(Values(k))
      BY <1>1 DEF MemInv, MemTypeOK, ReaderTypeOK
    <2>2. PICK a \in Seq(Values(k)) : answer' = [answer EXCEPT ![r] = a]
      <3> DEFINE a == Append(answer[r], u)
      <3>1. a \in Seq(Values(k)) /\ answer' = [answer EXCEPT ![r] = a]
        <4>1. a \in Seq(Values(k))
          BY <2>1
        <4>2. answer' = [answer EXCEPT ![r] = a]
          BY <1>6
        <4>3. QED
          BY <4>1, <4>2
      <3> HIDE DEF a
      <3>2. QED
        BY <3>1, Zenon
    <2>3. /\ DOMAIN answer' = Readers
          /\ \A q \in Readers : answer'[q] \in Seq(Values(want'[q][1]))
      BY <1>1, <1>6, <2>2, AnswersTyped DEF MemInv, MemTypeOK
    <2>4. /\ rpc' \in [Readers -> ReaderSteps] /\ row' \in [Readers -> Nat]
          /\ UNCHANGED <<want, view, again, reads>>
      BY <1>6 DEF MemInv, MemTypeOK, ReaderTypeOK, ReaderSteps
    <2>5. ReaderTypeOK
      BY DEF MemInv, MemTypeOK
    <2>6. QED
      BY <2>3, <2>4, <2>5 DEF ReaderTypeOK
  <1>8. ReaderOK(r)'
    BY <1>1, <1>6 DEF MemInv, MemTypeOK, ReaderTypeOK, ReaderInv, ReaderOK, writerVars
  <1>9. QED
    BY <1>6, <1>7, <1>8, ReaderStep DEF MemInv, MemTypeOK, ReaderTypeOK

\* The handler returns.
LEMMA EndReadStep ==
  ASSUME MemInv, NEW r \in Readers, EndRead(r)
  PROVE  MemInv'
  <1> USE DEF EndRead
  <1>1. ReaderTypeOK'
    <2>1. view' \in [Readers -> [array : Nat, len : Int]]
      BY DEF MemInv, MemTypeOK, ReaderTypeOK, NotLoaded
    <2>2. <<>> \in Seq(Values(want'[r][1])) /\ answer' = [answer EXCEPT ![r] = <<>>]
      OBVIOUS
    <2>3. /\ DOMAIN answer' = Readers
          /\ \A q \in Readers : answer'[q] \in Seq(Values(want'[q][1]))
      BY <2>2, AnswersTyped DEF MemInv, MemTypeOK
    <2>4. QED
      BY <2>1, <2>3 DEF MemInv, MemTypeOK, ReaderTypeOK, ReaderSteps
  <1>2. ReaderOK(r)'
    <2>1. view'[r].array = 0 /\ rpc'[r] = "idle" /\ want'[r][1] \in Kinds
      BY <1>1 DEF MemInv, MemTypeOK, ReaderTypeOK, NotLoaded
    <2>2. \A k \in Kinds : Len(arrays'[k]) \in Nat
      BY ArrayTyped DEF MemInv, MemTypeOK, writerVars
    <2>3. QED
      BY <2>1, <2>2 DEF ReaderOK
  <1>3. QED
    BY <1>1, <1>2, ReaderStep DEF MemInv, MemTypeOK, ReaderTypeOK

-----------------------------------------------------------------------------

\* Every step of the storage and its readers preserves MemInv.
LEMMA MemInvStep == MemInv /\ [MemNext]_memVars => MemInv'
  <1> SUFFICES ASSUME MemInv, [MemNext]_memVars PROVE MemInv'
    OBVIOUS
  <1>1. ASSUME NEW c \in Callers, Writer(c) PROVE MemInv'
    BY <1>1, CallAddStep, LockStep, LookupStep, LoadStep, UpdateStep, GrowStep,
       PublishStep, FillStep, UnlockStep DEF Writer
  <1>2. ASSUME NEW r \in Readers, Reader(r) PROVE MemInv'
    BY <1>2, CallReadStep, LoadHeaderStep, ExamineStep, RefetchStep, WriteAnswerStep,
       EndReadStep DEF Reader
  <1>3. CASE UNCHANGED memVars
    <2>1. UNCHANGED writerVars /\ UNCHANGED readerVars /\ UNCHANGED <<arrays, length>>
      BY <1>3 DEF memVars, writerVars
    <2>2. ReaderTypeOK' /\ ReaderInv'
      BY <2>1, ReaderTypeUnchanged, SlicesUnchanged DEF MemInv, MemTypeOK
    <2>3. QED
      BY <2>1, <2>2, WritersUnchanged DEF MemInv, MemTypeOK
  <1>4. QED
    BY <1>1, <1>2, <1>3 DEF MemNext

\* MemInv holds in every state.
LEMMA MemInvariant == MemSpec => []MemInv
  BY MemInitInv, MemInvStep, PTL DEF MemSpec

\* The slices never outgrow their arrays, rows are well formed, and what a
\* reader puts in its answer is always the value of a row, never memory past
\* the end of an array (storage.go, handlers.go).
THEOREM MemTypeCorrect == MemSpec => []MemTypeOK
  <1>1. MemInv => MemTypeOK
    BY DEF MemInv
  <1>2. QED
    BY <1>1, MemInvariant, PTL

\* A metric has one row at most, for any number of names, of writers and of
\* readers (storage.go, AddGauge and AddCounter).
THEOREM NamesStayUnique == MemSpec => []NamesUnique
  <1>1. MemInv => NamesUnique
    BY DEF MemInv
  <1>2. QED
    BY <1>1, MemInvariant, PTL

-----------------------------------------------------------------------------
(* The calls are atomic.                                                   *)

\* What writer c knows of the row it works on.
WriterKnows(c) ==
    LET e == Array(call[c].kind)[at[c]]
    IN  /\ wpc[c] \in {"load", "update"} => e.name = call[c].name
        /\ wpc[c] = "update" /\ call[c].kind = "counter" => loaded[c] = e.value
        /\ wpc[c] = "fill" =>
              /\ todo[c] # {}
              /\ "name"  \notin todo[c] => e.name  = call[c].name
              /\ "value" \notin todo[c] => e.value = call[c].value

ProgressInv == \A c \in Callers : WriterKnows(c)

AtomicInv == MemInv /\ ProgressInv

\* The word the writers store: row i of kind k becomes e.
StoresRow(k, i, e) ==
    /\ arrays' = [arrays EXCEPT ![k] =
                    [arrays[k] EXCEPT ![Len(arrays[k])] = [Array(k) EXCEPT ![i] = e]]]
    /\ length' = length

\* Only that row of the last array changes.
LEMMA OneRowStored ==
  ASSUME WriterTypeOK, NEW k \in Kinds, NEW i \in Rows(k), NEW e, StoresRow(k, i, e)
  PROVE  /\ Array(k)'[i] = e
         /\ \A x \in 1 .. Capacity(k) : x # i => Array(k)'[x] = Array(k)[x]
         /\ \A j \in Kinds : Rows(j)' = Rows(j)
         /\ \A j \in Kinds : j # k => arrays'[j] = arrays[j] /\ Array(j)' = Array(j)
         /\ Len(arrays'[k]) = Len(arrays[k]) /\ Capacity(k)' = Capacity(k)
         /\ \A a \in 1 .. Len(arrays[k]) : a # Len(arrays[k]) => arrays'[k][a] = arrays[k][a]
  <1>1. PICK s : s = arrays[k] /\ s \in Seq(Seq(Row(k))) /\ s # <<>>
    BY DEF WriterTypeOK
  <1>2. PICK m \in Nat \ {0} : m = Len(s) /\ s[m] = Array(k) /\ s[m] \in Seq(Row(k))
    BY <1>1 DEF Array
  <1>3. i \in 1 .. Len(s[m])
    BY <1>2, ArrayTyped DEF Capacity
  <1>4. arrays'[k] = [s EXCEPT ![m] = [s[m] EXCEPT ![i] = e]]
        /\ \A j \in Kinds : j # k => arrays'[j] = arrays[j]
    BY <1>1, <1>2 DEF StoresRow, WriterTypeOK
  <1>5. PICK u : u = [s[m] EXCEPT ![i] = e] /\ Len(u) = Len(s[m]) /\ u[i] = e
                 /\ \A x \in 1 .. Len(s[m]) : x # i => u[x] = s[m][x]
    <2>1. PICK q : q = s[m] /\ q \in Seq(Row(k)) /\ i \in 1 .. Len(q)
      BY <1>2, <1>3
    <2>2. PICK u : u = [q EXCEPT ![i] = e]
      OBVIOUS
    <2>3. Len(u) = Len(q) /\ u[i] = e /\ \A x \in 1 .. Len(q) : x # i => u[x] = q[x]
      BY <2>1, <2>2
    <2>4. u = [s[m] EXCEPT ![i] = e]
      BY <2>1, <2>2
    <2>5. QED
      BY <2>1, <2>3, <2>4
  <1>6. PICK t : t = [s EXCEPT ![m] = u] /\ Len(t) = m /\ t[m] = u
                 /\ \A a \in 1 .. m : a # m => t[a] = s[a]
    <2>1. s \in Seq(Seq(Row(k))) /\ m \in 1 .. Len(s) /\ Len(s) = m
      BY <1>1, <1>2
    <2>2. LET t == [s EXCEPT ![m] = u]
          IN  Len(t) = m /\ t[m] = u /\ \A a \in 1 .. m : a # m => t[a] = s[a]
      BY <2>1
    <2>3. QED
      BY <2>2
  <1>7. arrays'[k] = t /\ Array(k)' = u
    BY <1>4, <1>5, <1>6 DEF Array
  <1>8. \A j \in Kinds : Rows(j)' = Rows(j)
    BY DEF StoresRow, Rows
  <1>9. QED
    BY <1>1, <1>2, <1>4, <1>5, <1>6, <1>7, <1>8 DEF Array, Capacity

\* The store of Update.
LEMMA UpdateStores ==
  ASSUME MemInv, NEW c \in Callers, Update(c)
  PROVE  /\ at[c] \in Rows(call[c].kind)
         /\ StoresRow(call[c].kind, at[c],
                      [Array(call[c].kind)[at[c]] EXCEPT !.value = NewValue(c)])
  BY CallTyped DEF MemInv, WriterInv, WriterOK, Update, StoresRow, Array

\* The store of Fill.
LEMMA FillStores ==
  ASSUME MemInv, NEW c \in Callers, Fill(c)
  PROVE  /\ at[c] \in Rows(call[c].kind)
         /\ \E field \in todo[c] :
               /\ StoresRow(call[c].kind, at[c],
                     IF field = "name"
                     THEN [Array(call[c].kind)[at[c]] EXCEPT !.name = call[c].name]
                     ELSE [Array(call[c].kind)[at[c]] EXCEPT !.value = call[c].value])
               /\ todo' = [todo EXCEPT ![c] = todo[c] \ {field}]
               /\ wpc' = [wpc EXCEPT ![c] = IF todo[c] = {field} THEN "unlock" ELSE "fill"]
  <1>1. PICK k : k = call[c].kind
    OBVIOUS
  <1>2. PICK field \in todo[c] :
           /\ arrays' = [arrays EXCEPT ![k][Len(arrays[k])][at[c]] =
                 IF field = "name" THEN [@ EXCEPT !.name = call[c].name]
                                   ELSE [@ EXCEPT !.value = call[c].value]]
           /\ todo' = [todo EXCEPT ![c] = @ \ {field}]
           /\ wpc' = [wpc EXCEPT ![c] = IF todo[c] = {field} THEN "unlock" ELSE @]
    BY <1>1 DEF Fill
  <1>3. length' = length /\ wpc[c] = "fill"
    BY DEF Fill
  <1>4. StoresRow(k, at[c], IF field = "name"
                            THEN [Array(k)[at[c]] EXCEPT !.name = call[c].name]
                            ELSE [Array(k)[at[c]] EXCEPT !.value = call[c].value])
    <2>1. CASE field = "name"
      BY <1>2, <1>3, <2>1 DEF StoresRow, Array
    <2>2. CASE field # "name"
      BY <1>2, <1>3, <2>2 DEF StoresRow, Array
    <2>3. QED
      BY <2>1, <2>2
  <1>5. at[c] \in Rows(k)
    BY <1>1, <1>3 DEF MemInv, WriterInv, WriterOK
  <1>6. QED
    BY <1>1, <1>2, <1>3, <1>4, <1>5

\* Outside of the lock there is no row to know of.
LEMMA OwnerKnows ==
  ASSUME MemInv, NEW c \in Callers, wpc[c] \in Critical,
         NEW p, wpc' = [wpc EXCEPT ![c] = p], WriterKnows(c)'
  PROVE  ProgressInv'
  <1>1. ASSUME NEW d \in Callers, d # c PROVE WriterKnows(d)'
    <2>1. wpc'[d] \in {"idle", "lock"}
      BY <1>1, Alone DEF MemInv, MemTypeOK, WriterTypeOK
    <2>2. QED
      BY <2>1 DEF WriterKnows
  <1>2. QED
    BY <1>1 DEF ProgressInv

\* A writer keeps knowing its row when nothing of it changes.
LEMMA KnowsOnly ==
  ASSUME AtomicInv, NEW c \in Callers, UNCHANGED arrays,
         wpc'[c] \in {"idle", "lock", "lookup"},
         \A d \in Callers \ {c} : /\ wpc'[d] = wpc[d] /\ call'[d] = call[d] /\ at'[d] = at[d]
                                  /\ loaded'[d] = loaded[d] /\ todo'[d] = todo[d]
  PROVE  ProgressInv'
  <1>1. WriterKnows(c)'
    BY DEF WriterKnows
  <1>2. ASSUME NEW d \in Callers, d # c PROVE WriterKnows(d)'
    <2>1. WriterKnows(d)
      BY DEF AtomicInv, ProgressInv
    <2>2. QED
      BY <1>2, <2>1 DEF WriterKnows, Array
  <1>3. QED
    BY <1>1, <1>2 DEF ProgressInv

\* The search found the name in the row.
LEMMA LookupKnows ==
  ASSUME AtomicInv, NEW c \in Callers, Lookup(c)
  PROVE  ProgressInv'
  <1> DEFINE k == call[c].kind
             found == CHOOSE i \in Hits(c) : \A j \in Hits(c) : i <= j
  <1>1. /\ wpc[c] \in Critical /\ MemInv /\ UNCHANGED <<arrays, length, loaded, todo, call>>
        /\ k \in Kinds /\ call[c].name # NoName
    BY CallTyped DEF Lookup, Critical, WriterSteps, AtomicInv
  <1>2. CASE Hits(c) # {}
    <2>1. found \in Hits(c)
      <3>1. \A i, j \in Hits(c) : i = j
        BY <1>1 DEF MemInv, NamesUnique, Hits, RowsNamed
      <3>2. Hits(c) \subseteq Nat
        BY DEF Hits, RowsNamed, Rows
      <3>3. \E i \in Hits(c) : \A j \in Hits(c) : i <= j
        BY <1>2, <3>1, <3>2
      <3>4. QED
        BY <3>3
    <2>2. PICK i : i = found /\ Array(k)[i].name = call[c].name
      BY <2>1 DEF Hits, RowsNamed
    <2>3. PICK p : p = (IF k = "gauge" THEN "update" ELSE "load")
      OBVIOUS
    <2>4. at' = [at EXCEPT ![c] = i] /\ wpc' = [wpc EXCEPT ![c] = p]
      BY <1>2, <2>2, <2>3 DEF Lookup
    <2>5. at'[c] = i /\ wpc'[c] = p
      BY <1>1, <2>4 DEF MemInv, MemTypeOK, WriterTypeOK
    <2>6. WriterKnows(c)'
      BY <1>1, <2>2, <2>3, <2>5 DEF WriterKnows, Array
    <2>7. QED
      BY <1>1, <2>4, <2>6, OwnerKnows
  <1>3. CASE Hits(c) = {}
    <2>1. PICK p \in {"publish", "grow"} : wpc' = [wpc EXCEPT ![c] = p]
      BY <1>3 DEF Lookup
    <2>2. WriterKnows(c)'
      BY <1>1, <2>1 DEF WriterKnows, MemInv, MemTypeOK, WriterTypeOK
    <2>3. QED
      BY <1>1, <2>1, <2>2, OwnerKnows
  <1>4. QED
    BY <1>2, <1>3

\* A field that has been stored is in the row.
LEMMA FillKnows ==
  ASSUME AtomicInv, NEW c \in Callers, Fill(c)
  PROVE  ProgressInv'
  <1>0. PICK k \in Kinds, n \in Names : k = call[c].kind /\ n = call[c].name
    BY CallTyped DEF AtomicInv
  <1>1. PICK v \in Values(k), i \in Rows(k) :
           k = call[c].kind /\ n = call[c].name /\ v = call[c].value /\ i = at[c]
    BY <1>0, CallTyped, FillStores DEF AtomicInv
  <1>2. PICK old \in Row(k) : old = Array(k)[i]
    BY ArrayTyped DEF AtomicInv, MemInv, MemTypeOK, Capacity
  <1>3. PICK field \in todo[c] :
           /\ StoresRow(k, i, IF field = "name" THEN [old EXCEPT !.name = n]
                                                ELSE [old EXCEPT !.value = v])
           /\ todo' = [todo EXCEPT ![c] = todo[c] \ {field}]
           /\ wpc' = [wpc EXCEPT ![c] = IF todo[c] = {field} THEN "unlock" ELSE "fill"]
    BY <1>1, <1>2, FillStores DEF AtomicInv
  <1>4. PICK e : /\ e = (IF field = "name" THEN [old EXCEPT !.name = n]
                                           ELSE [old EXCEPT !.value = v])
                 /\ StoresRow(k, i, e)
    BY <1>3
  <1>5. /\ e.name = (IF field = "name" THEN n ELSE old.name)
        /\ e.value = (IF field = "name" THEN old.value ELSE v)
    BY <1>2, <1>4 DEF Row
  <1>6. Array(k)'[i] = e
    BY <1>1, <1>4, OneRowStored DEF AtomicInv, MemInv, MemTypeOK
  <1>7. field \in {"name", "value"} /\ UNCHANGED <<call, at>> /\ wpc[c] = "fill"
        /\ wpc[c] \in Critical /\ MemInv
    BY DEF AtomicInv, MemInv, MemTypeOK, WriterTypeOK, Fill, Critical, WriterSteps
  <1>8. todo'[c] = todo[c] \ {field} /\ wpc'[c] = IF todo[c] = {field} THEN "unlock" ELSE "fill"
    BY <1>3, <1>7 DEF MemInv, MemTypeOK, WriterTypeOK
  <1>9. /\ "name" \notin todo[c] => old.name = n
        /\ "value" \notin todo[c] => old.value = v
    BY <1>1, <1>2, <1>7 DEF AtomicInv, ProgressInv, WriterKnows
  <1>10. WriterKnows(c)'
    <2>1. "name" \notin todo'[c] => e.name = n
      BY <1>5, <1>7, <1>8, <1>9
    <2>2. "value" \notin todo'[c] => e.value = v
      BY <1>5, <1>7, <1>8, <1>9
    <2>3. wpc'[c] = "fill" => todo'[c] # {}
      BY <1>8
    <2>4. (Array(call[c].kind)[at[c]])' = e
      BY <1>1, <1>6, <1>7
    <2>5. wpc'[c] \in {"fill", "unlock"} /\ call'[c].name = n /\ call'[c].value = v
      BY <1>1, <1>7, <1>8
    <2>6. QED
      BY <2>1, <2>2, <2>3, <2>4, <2>5 DEF WriterKnows
  <1>11. PICK p : wpc' = [wpc EXCEPT ![c] = p]
    BY <1>3
  <1>12. QED
    BY <1>7, <1>10, <1>11, OwnerKnows

\* The writers keep what they know.
LEMMA ProgressStep ==
  ASSUME AtomicInv, NEW c \in Callers, Writer(c)
  PROVE  ProgressInv'
  <1> USE DEF AtomicInv
  <1> DEFINE Owner == wpc[c] \in Critical
  <1>1. CASE CallAdd(c) \/ Lock(c) \/ Unlock(c)
    BY <1>1, KnowsOnly
       DEF CallAdd, Lock, Unlock, MemInv, MemTypeOK, WriterTypeOK
  <1>2. CASE Lookup(c)
    BY <1>2, LookupKnows
  <1>3. CASE Load(c)
    <2>1. /\ Owner /\ UNCHANGED <<arrays, call, at>>
          /\ wpc' = [wpc EXCEPT ![c] = "update"] /\ wpc'[c] = "update" /\ wpc[c] = "load"
          /\ loaded'[c] = Array(call[c].kind)[at[c]].value
      BY <1>3 DEF Load, Critical, WriterSteps, MemInv, MemTypeOK, WriterTypeOK
    <2>2. WriterKnows(c)'
      BY <2>1 DEF ProgressInv, WriterKnows, Array
    <2>3. QED
      BY <2>1, <2>2, OwnerKnows
  <1>4. CASE Update(c) \/ Grow(c)
    <2>1. PICK p \in {"unlock", "publish"} : Owner /\ wpc' = [wpc EXCEPT ![c] = p]
      BY <1>4 DEF Update, Grow, Critical, WriterSteps
    <2>2. WriterKnows(c)'
      BY <2>1 DEF WriterKnows, MemInv, MemTypeOK, WriterTypeOK
    <2>3. QED
      BY <2>1, <2>2, OwnerKnows
  <1>5. CASE Publish(c)
    <2>1. /\ Owner /\ wpc' = [wpc EXCEPT ![c] = "fill"] /\ wpc'[c] = "fill"
          /\ todo'[c] = {"name", "value"}
      BY <1>5 DEF Publish, Critical, WriterSteps, MemInv, MemTypeOK, WriterTypeOK
    <2>2. WriterKnows(c)'
      BY <2>1 DEF WriterKnows
    <2>3. QED
      BY <2>1, <2>2, OwnerKnows
  <1>6. CASE Fill(c)
    BY <1>6, FillKnows
  <1>7. QED
    BY <1>1, <1>2, <1>3, <1>4, <1>5, <1>6 DEF Writer

\* The rows that count for a metric.
Finished(k, n) == {i \in RowsNamed(k, n) : ~Unfinished(k, i)}

LEMMA StoredIs ==
    \A k, n : Stored(k, n) = IF Finished(k, n) = {} THEN Absent
                             ELSE Array(k)[CHOOSE i \in Finished(k, n) : TRUE].value
  BY DEF Stored, Finished

\* "There is no such metric" is no value.
LEMMA AbsentIsNoValue == \A k \in Kinds : Absent \notin Values(k)
  <1>1. Values("counter") \subseteq Int /\ Values("gauge") = GaugeValues \cup {0} /\ 0 \in Int
    BY HalfRangeAssumption DEF Values
  <1>2. Absent \notin GaugeValues \cup Int
    BY ValuesAssumption
  <1>3. QED
    BY <1>1, <1>2 DEF Kinds

\* What a metric is worth is in its only complete row.
StoredTells ==
    \A k \in Kinds, n \in Names :
        /\ \A i \in Finished(k, n) : /\ Finished(k, n) = {i}
                                     /\ Stored(k, n) = Array(k)[i].value
                                     /\ Stored(k, n) \in Values(k)
        /\ Finished(k, n) = {} <=> Stored(k, n) = Absent

LEMMA StoredRow == MemInv => StoredTells
  <1> SUFFICES ASSUME MemInv, NEW k \in Kinds, NEW n \in Names
               PROVE  /\ \A i \in Finished(k, n) : /\ Finished(k, n) = {i}
                                                   /\ Stored(k, n) = Array(k)[i].value
                                                   /\ Stored(k, n) \in Values(k)
                      /\ Finished(k, n) = {} <=> Stored(k, n) = Absent
    BY DEF StoredTells
  <1>1. ASSUME NEW i \in Finished(k, n)
        PROVE  /\ Finished(k, n) = {i}
               /\ Stored(k, n) = Array(k)[i].value
               /\ Stored(k, n) \in Values(k)
    <2>1. i \in Rows(k) /\ Array(k)[i].name = n /\ n # NoName
      BY SentinelAssumption DEF Finished, RowsNamed
    <2>2. ASSUME NEW j \in Finished(k, n) PROVE j = i
      BY <2>1 DEF MemInv, NamesUnique, Finished, RowsNamed
    <2>3. Finished(k, n) = {i}
      BY <2>2
    <2>4. Stored(k, n) = Array(k)[i].value
      BY <2>3, StoredIs
    <2>5. Array(k)[i].value \in Values(k)
      BY <2>1, ArrayTyped DEF MemInv, MemTypeOK
    <2>6. QED
      BY <2>3, <2>4, <2>5
  <1>2. Finished(k, n) = {} => Stored(k, n) = Absent
    BY StoredIs
  <1>3. Finished(k, n) # {} => Stored(k, n) # Absent
    BY <1>1, AbsentIsNoValue
  <1>4. QED
    BY <1>1, <1>2, <1>3

\* A metric keeps its value when its complete row stays the same.
LEMMA SameStored ==
  ASSUME NEW k, NEW n, Finished(k, n)' = Finished(k, n),
         \A i \in Finished(k, n) : Array(k)'[i] = Array(k)[i]
  PROVE  Stored(k, n)' = Stored(k, n)
  <1>1. Stored(k, n) = IF Finished(k, n) = {} THEN Absent
                       ELSE Array(k)[CHOOSE i \in Finished(k, n) : TRUE].value
    BY StoredIs
  <1>2. Stored(k, n)' = IF Finished(k, n)' = {} THEN Absent
                        ELSE Array(k)'[CHOOSE i \in Finished(k, n)' : TRUE].value
    BY DEF Stored, Finished
  <1>3. PICK x : x = CHOOSE i \in Finished(k, n) : TRUE
    OBVIOUS
  <1>4. Finished(k, n) # {} => x \in Finished(k, n)
    BY <1>3
  <1>5. QED
    BY <1>1, <1>2, <1>3, <1>4

\* Steps that neither store in a slice nor begin or end the filling of a row.
LEMMA SlicesKept ==
  ASSUME UNCHANGED <<arrays, length>>,
         \A c \in Callers : /\ wpc'[c] = "fill" <=> wpc[c] = "fill"
                            /\ wpc[c] = "fill" => call'[c] = call[c] /\ at'[c] = at[c]
  PROVE  \A k, n : Stored(k, n)' = Stored(k, n)
  <1> TAKE k, n
  <1>1. Array(k)' = Array(k) /\ Rows(k)' = Rows(k)
    BY DEF Array, Rows
  <1>2. \A i : Unfinished(k, i)' <=> Unfinished(k, i)
    BY DEF Unfinished
  <1>3. Finished(k, n)' = Finished(k, n)
    BY <1>1, <1>2 DEF Finished, RowsNamed
  <1>4. QED
    BY <1>1, <1>3, SameStored

\* The owner of the mutex is the only one that fills a row in.
LEMMA OwnerFills ==
  ASSUME MemInv, NEW c \in Callers, wpc[c] \in Critical
  PROVE  \A k, i : Unfinished(k, i) <=> wpc[c] = "fill" /\ call[c].kind = k /\ at[c] = i
  BY Alone DEF Unfinished

LEMMA OwnerFillsNext ==
  ASSUME MemInv, NEW c \in Callers, wpc[c] \in Critical,
         \A d \in Callers \ {c} : wpc'[d] = wpc[d]
  PROVE  \A k, i : Unfinished(k, i)' <=> wpc'[c] = "fill" /\ call'[c].kind = k /\ at'[c] = i
  <1>1. \A d \in Callers \ {c} : wpc'[d] \in {"idle", "lock"}
    BY Alone
  <1>2. QED
    BY <1>1 DEF Unfinished

\* Growing copies the rows.
LEMMA GrowKeeps ==
  ASSUME MemInv, NEW c \in Callers, Grow(c)
  PROVE  \A j \in Kinds, n \in Names : Stored(j, n)' = Stored(j, n)
  <1>1. PICK k \in Kinds, full \in Nat, size \in Nat :
           /\ k = call[c].kind /\ full = Capacity(k) /\ size > full
           /\ \A j \in Kinds : j # k => arrays'[j] = arrays[j]
           /\ \A x \in 1 .. size : Array(k)'[x] = IF x <= full THEN Array(k)[x] ELSE EmptyRow
    BY GrowCopies
  <1>2. /\ wpc[c] = "grow" /\ wpc' = [wpc EXCEPT ![c] = "publish"] /\ wpc[c] \in Critical
        /\ UNCHANGED <<length, call, at>>
    BY DEF Grow, Critical, WriterSteps
  <1> TAKE j \in Kinds, n \in Names
  <1>3. \A x \in Rows(j) : Array(j)'[x] = Array(j)[x]
    <2>1. CASE j = k
      <3>1. Rows(k) \subseteq 1 .. full /\ \A x \in 1 .. full : x \in 1 .. size /\ x <= full
        BY <1>1, ArrayTyped DEF MemInv, MemTypeOK
      <3>2. QED
        BY <1>1, <2>1, <3>1
    <2>2. CASE j # k
      BY <1>1, <2>2 DEF Array
    <2>3. QED
      BY <2>1, <2>2
  <1>4. \A x : Unfinished(j, x)' <=> Unfinished(j, x)
    <2>1. wpc'[c] = "publish" /\ \A d \in Callers \ {c} : wpc'[d] = wpc[d]
      BY <1>2 DEF MemInv, MemTypeOK, WriterTypeOK
    <2>2. QED
      BY <1>2, <2>1, OwnerFills, OwnerFillsNext
  <1>5. Rows(j)' = Rows(j)
    BY <1>2 DEF Rows
  <1>6. Finished(j, n)' = Finished(j, n)
    BY <1>3, <1>4, <1>5 DEF Finished, RowsNamed
  <1>7. QED
    BY <1>3, <1>6, SameStored DEF Finished, RowsNamed

\* A row that is only published does not count.
LEMMA PublishKeeps ==
  ASSUME MemInv, NEW c \in Callers, Publish(c)
  PROVE  \A j \in Kinds, n \in Names : Stored(j, n)' = Stored(j, n)
  <1>1. PICK k \in Kinds, m \in Nat : k = call[c].kind /\ m = length[k]
    BY CallTyped DEF MemInv, MemTypeOK, WriterTypeOK
  <1>2. /\ length' = [length EXCEPT ![k] = m + 1] /\ at' = [at EXCEPT ![c] = m + 1]
        /\ wpc[c] = "publish" /\ wpc' = [wpc EXCEPT ![c] = "fill"] /\ wpc[c] \in Critical
        /\ UNCHANGED <<arrays, call>>
    BY <1>1 DEF Publish, Critical, WriterSteps
  <1>3. at'[c] = m + 1 /\ Rows(k)' = Rows(k) \cup {m + 1} /\ m + 1 \notin Rows(k)
        /\ \A j \in Kinds : j # k => Rows(j)' = Rows(j)
    BY <1>1, <1>2 DEF MemInv, MemTypeOK, WriterTypeOK, Rows
  <1>4. \A j : Array(j)' = Array(j)
    BY <1>2 DEF Array
  <1>5. \A j, x : /\ ~Unfinished(j, x)
                  /\ Unfinished(j, x)' <=> j = k /\ x = m + 1
    <2>1. wpc'[c] = "fill" /\ \A d \in Callers \ {c} : wpc'[d] = wpc[d]
      BY <1>2 DEF MemInv, MemTypeOK, WriterTypeOK
    <2>2. QED
      BY <1>1, <1>2, <1>3, <2>1, OwnerFills, OwnerFillsNext
  <1> TAKE j \in Kinds, n \in Names
  <1>6. Finished(j, n)' = Finished(j, n)
    <2>1. CASE j = k
      BY <1>3, <1>4, <1>5, <2>1 DEF Finished, RowsNamed
    <2>2. CASE j # k
      BY <1>3, <1>4, <1>5, <2>2 DEF Finished, RowsNamed
    <2>3. QED
      BY <2>1, <2>2
  <1>7. QED
    BY <1>4, <1>6, SameStored

\* The value of a complete row is replaced, and nothing else changes.
LEMMA UpdateApplies ==
  ASSUME AtomicInv, MemInv', NEW c \in Callers, Update(c),
         NEW k \in Kinds, k = call[c].kind, NEW n \in Names, n = call[c].name
  PROVE  /\ Stored(k, n) # Absent
         /\ Stored(k, n)' = Combine(k, Stored(k, n), call[c].value)
         /\ \A j \in Kinds, m \in Names : j # k \/ m # n => Stored(j, m)' = Stored(j, m)
  <1>1. PICK i \in Rows(k) : i = at[c]
    BY UpdateStores DEF AtomicInv
  <1>2. PICK old \in Row(k) : old = Array(k)[i] /\ old.name = n
    <2>1. Array(k)[i] \in Row(k)
      BY <1>1, ArrayTyped DEF AtomicInv, MemInv, MemTypeOK, Capacity
    <2>2. Array(k)[i].name = n
      BY <1>1 DEF AtomicInv, ProgressInv, WriterKnows, Update
    <2>3. QED
      BY <2>1, <2>2
  <1>3. PICK e : e = [old EXCEPT !.value = NewValue(c)] /\ StoresRow(k, i, e)
    BY <1>1, <1>2, UpdateStores DEF AtomicInv
  <1>4. e.name = n /\ e.value = NewValue(c)
    BY <1>2, <1>3 DEF Row
  <1>5. /\ Array(k)'[i] = e
        /\ \A x \in Rows(k) : x # i => Array(k)'[x] = Array(k)[x]
        /\ \A j \in Kinds : Rows(j)' = Rows(j) /\ (j # k => Array(j)' = Array(j))
    BY <1>3, OneRowStored, ArrayTyped DEF AtomicInv, MemInv, MemTypeOK
  <1>6. /\ wpc[c] = "update" /\ wpc' = [wpc EXCEPT ![c] = "unlock"] /\ wpc[c] \in Critical
        /\ MemInv
    BY DEF Update, Critical, WriterSteps, AtomicInv
  <1>7. \A j, x : ~Unfinished(j, x) /\ ~Unfinished(j, x)'
    <2>1. wpc'[c] = "unlock" /\ \A d \in Callers \ {c} : wpc'[d] = wpc[d]
      BY <1>6 DEF MemInv, MemTypeOK, WriterTypeOK
    <2>2. QED
      BY <1>6, <2>1, OwnerFills, OwnerFillsNext
  <1>8. i \in Finished(k, n) /\ i \in Finished(k, n)'
    BY <1>2, <1>4, <1>5, <1>7 DEF Finished, RowsNamed
  <1>9. Stored(k, n) = old.value /\ Stored(k, n) # Absent
    BY <1>2, <1>6, <1>8, StoredRow, AbsentIsNoValue DEF StoredTells
  <1>10. Stored(k, n)' = NewValue(c)
    <2>1. StoredTells'
      BY StoredRow, PTL
    <2>2. QED
      BY <1>4, <1>5, <1>8, <2>1 DEF StoredTells
  <1>11. NewValue(c) = Combine(k, Stored(k, n), call[c].value)
    <2>1. CASE k = "gauge"
      BY <2>1 DEF NewValue, Combine
    <2>2. CASE k = "counter"
      <3>1. loaded[c] = Stored(k, n)
        BY <1>1, <1>2, <1>6, <1>9, <2>2 DEF AtomicInv, ProgressInv, WriterKnows
      <3>2. QED
        BY <3>1 DEF NewValue
    <2>3. QED
      BY <2>1, <2>2 DEF Kinds
  <1>12. ASSUME NEW j \in Kinds, NEW m \in Names, j # k \/ m # n
         PROVE  Stored(j, m)' = Stored(j, m)
    <2>1. Finished(j, m)' = Finished(j, m) /\ \A x \in Finished(j, m) : Array(j)'[x] = Array(j)[x]
      <3>1. CASE j = k
        BY <1>2, <1>4, <1>5, <1>7, <1>12, <3>1 DEF Finished, RowsNamed
      <3>2. CASE j # k
        BY <1>5, <1>7, <3>2 DEF Finished, RowsNamed
      <3>3. QED
        BY <3>1, <3>2
    <2>2. QED
      BY <2>1, SameStored
  <1>13. QED
    BY <1>9, <1>10, <1>11, <1>12

\* The row counts from the moment its last field is stored.
LEMMA FillApplies ==
  ASSUME AtomicInv, AtomicInv', NEW c \in Callers, Fill(c),
         NEW k \in Kinds, k = call[c].kind, NEW n \in Names, n = call[c].name
  PROVE  \/ /\ wpc' = [wpc EXCEPT ![c] = "fill"]
            /\ \A j \in Kinds, m \in Names : Stored(j, m)' = Stored(j, m)
         \/ /\ wpc' = [wpc EXCEPT ![c] = "unlock"]
            /\ Stored(k, n) = Absent /\ Stored(k, n)' = call[c].value
            /\ \A j \in Kinds, m \in Names : j # k \/ m # n => Stored(j, m)' = Stored(j, m)
  <1>0. MemInv'
    BY DEF AtomicInv
  <1>1. PICK i \in Rows(k) : i = at[c]
    BY FillStores DEF AtomicInv
  <1>2. PICK old \in Row(k) : old = Array(k)[i]
    BY <1>1, ArrayTyped DEF AtomicInv, MemInv, MemTypeOK, Capacity
  <1>3. PICK field \in todo[c], p \in {"fill", "unlock"} :
           /\ StoresRow(k, i, IF field = "name" THEN [old EXCEPT !.name = n]
                                                ELSE [old EXCEPT !.value = call[c].value])
           /\ wpc' = [wpc EXCEPT ![c] = p] /\ (p = "unlock" <=> todo[c] = {field})
    <2>1. PICK field \in todo[c] :
             /\ StoresRow(k, i, IF field = "name" THEN [old EXCEPT !.name = n]
                                                  ELSE [old EXCEPT !.value = call[c].value])
             /\ wpc' = [wpc EXCEPT ![c] = IF todo[c] = {field} THEN "unlock" ELSE "fill"]
      BY <1>1, <1>2, FillStores DEF AtomicInv
    <2>2. PICK p \in {"fill", "unlock"} :
             p = (IF todo[c] = {field} THEN "unlock" ELSE "fill")
      OBVIOUS
    <2>3. wpc' = [wpc EXCEPT ![c] = p] /\ (p = "unlock" <=> todo[c] = {field})
      BY <2>1, <2>2
    <2>4. QED
      BY <2>1, <2>3, Zenon
  <1>14. PICK e : /\ e = (IF field = "name" THEN [old EXCEPT !.name = n]
                                            ELSE [old EXCEPT !.value = call[c].value])
                  /\ StoresRow(k, i, e)
    BY <1>3
  <1>4. /\ e.name = (IF field = "name" THEN n ELSE old.name)
        /\ e.value = (IF field = "name" THEN old.value ELSE call[c].value)
    BY <1>2, <1>14 DEF Row
  <1>5. /\ Array(k)'[i] = e
        /\ \A x \in Rows(k) : x # i => Array(k)'[x] = Array(k)[x]
        /\ \A j \in Kinds : Rows(j)' = Rows(j) /\ (j # k => Array(j)' = Array(j))
    BY <1>14, OneRowStored, ArrayTyped DEF AtomicInv, MemInv, MemTypeOK
  <1>6. /\ wpc[c] = "fill" /\ wpc[c] \in Critical /\ MemInv /\ UNCHANGED <<call, at>>
        /\ todo[c] \subseteq {"name", "value"} /\ n # NoName
    BY SentinelAssumption
       DEF Fill, Critical, WriterSteps, AtomicInv, MemInv, MemTypeOK, WriterTypeOK
  <1>7. /\ \A j, x : Unfinished(j, x) <=> j = k /\ x = i
        /\ \A j, x : Unfinished(j, x)' <=> p = "fill" /\ j = k /\ x = i
    <2>1. wpc'[c] = p /\ \A d \in Callers \ {c} : wpc'[d] = wpc[d]
      BY <1>3, <1>6 DEF MemInv, MemTypeOK, WriterTypeOK
    <2>2. QED
      BY <1>1, <1>6, <2>1, OwnerFills, OwnerFillsNext
  <1>8. /\ "name" \notin todo[c] => old.name = n
        /\ "value" \notin todo[c] => old.value = call[c].value
        /\ "name" \in todo[c] => old.name = NoName
    BY <1>1, <1>2, <1>6 DEF AtomicInv, ProgressInv, WriterKnows, MemInv, WriterInv, WriterOK
  <1>9. ASSUME NEW j \in Kinds, NEW m \in Names, j # k \/ m # n \/ p = "fill"
        PROVE  Stored(j, m)' = Stored(j, m)
    <2>1. Finished(j, m)' = Finished(j, m) /\ \A x \in Finished(j, m) : Array(j)'[x] = Array(j)[x]
      <3>1. CASE j = k
        <4>1. \A x \in Rows(k) : x # i => (x \in Finished(k, m)' <=> x \in Finished(k, m))
          BY <1>5, <1>7 DEF Finished, RowsNamed
        <4>2. i \notin Finished(k, m)
          BY <1>7 DEF Finished
        <4>3. i \notin Finished(k, m)'
          <5>1. CASE p = "fill"
            BY <1>7, <5>1 DEF Finished
          <5>2. CASE m # n
            <6>1. e.name \in {n, NoName}
              BY <1>4, <1>8
            <6>2. m # NoName
              BY SentinelAssumption
            <6>3. QED
              BY <1>5, <5>2, <6>1, <6>2 DEF Finished, RowsNamed
          <5>3. QED
            BY <1>9, <3>1, <5>1, <5>2
        <4>4. Finished(k, m)' \subseteq Rows(k) /\ Finished(k, m) \subseteq Rows(k)
          BY <1>5 DEF Finished, RowsNamed
        <4>5. QED
          BY <1>5, <3>1, <4>1, <4>2, <4>3, <4>4
      <3>2. CASE j # k
        BY <1>5, <1>7, <3>2 DEF Finished, RowsNamed
      <3>3. QED
        BY <3>1, <3>2
    <2>2. QED
      BY <2>1, SameStored
  <1>10. CASE p = "fill"
    BY <1>3, <1>9, <1>10
  <1>11. CASE p = "unlock"
    <2>1. todo[c] = {field} /\ field \in {"name", "value"}
      BY <1>3, <1>6, <1>11
    <2>2. e.name = n /\ e.value = call[c].value
      BY <1>4, <1>8, <2>1
    <2>3. i \in Finished(k, n)'
      BY <1>5, <1>7, <1>11, <2>2 DEF Finished, RowsNamed
    <2>4. StoredTells'
      BY <1>0, StoredRow, PTL
    <2>5. Stored(k, n)' = call[c].value /\ Finished(k, n)' = {i}
      BY <1>5, <2>2, <2>3, <2>4 DEF StoredTells
    <2>6. Finished(k, n) = {}
      BY <1>5, <1>7, <1>11, <2>5 DEF Finished, RowsNamed
    <2>7. Stored(k, n) = Absent
      BY <1>6, <2>6, StoredRow DEF StoredTells
    <2>8. QED
      BY <1>3, <1>9, <1>11, <2>5, <2>7
  <1>12. QED
    BY <1>10, <1>11

\* The mapping of MemStorage's Abstract.
Phase == [c \in Callers |-> CASE wpc[c] = "idle"   -> "idle"
                              [] wpc[c] = "unlock" -> "applied"
                              [] OTHER             -> "called"]

PhaseTellsPlace ==
    \A c \in Callers : Phase[c] = IF wpc[c] = "idle"   THEN "idle" ELSE
                                  IF wpc[c] = "unlock" THEN "applied" ELSE "called"

LEMMA PhaseIsPlace == PhaseTellsPlace
  BY DEF PhaseTellsPlace, Phase

\* A writer's step changes its own phase only.
LEMMA OnePhaseChanges ==
  ASSUME NEW c \in Callers, NEW to, Phase'[c] = to,
         \A d \in Callers \ {c} : Phase'[d] = Phase[d]
  PROVE  Phase' = [Phase EXCEPT ![c] = to]
  <1>1. Phase = [d \in Callers |-> Phase[d]] /\ Phase' = [d \in Callers |-> Phase'[d]]
    BY DEF Phase
  <1>2. QED
    BY <1>1

\* The metrics, when none changes and when one does.
LEMMA ContentsSame ==
  ASSUME \A k \in Kinds, n \in Names : Stored(k, n)' = Stored(k, n)
  PROVE  Contents' = Contents
  BY DEF Contents

LEMMA ContentsChange ==
  ASSUME NEW k \in Kinds, NEW n \in Names, NEW v, Stored(k, n)' = v,
         \A j \in Kinds, m \in Names : j # k \/ m # n => Stored(j, m)' = Stored(j, m)
  PROVE  Contents' = [Contents EXCEPT ![k][n] = v] /\ Contents[k][n] = Stored(k, n)
  <1>1. /\ Contents = [j \in Kinds |-> [m \in Names |-> Stored(j, m)]]
        /\ Contents' = [j \in Kinds |-> [m \in Names |-> Stored(j, m)']]
    BY DEF Contents
  <1>2. Contents'[k] = [Contents[k] EXCEPT ![n] = v]
    BY <1>1
  <1>3. \A j \in Kinds : j # k => Contents'[j] = Contents[j]
    BY <1>1
  <1>4. QED
    BY <1>1, <1>2, <1>3

\* What the promise allows a caller.
LEMMA Invokes ==
  ASSUME NEW c \in Callers, Phase[c] = "idle", Phase' = [Phase EXCEPT ![c] = "called"],
         \E new \in Calls : call' = [call EXCEPT ![c] = new], Contents' = Contents
  PROVE  Abstract!Next
  BY DEF Abstract!Next, Abstract!Invoke, Phase, Abstract!Calls, Calls, Abstract!Kinds, Kinds,
         Abstract!Inputs, Inputs

LEMMA Applies ==
  ASSUME NEW c \in Callers, Phase[c] = "called", Phase' = [Phase EXCEPT ![c] = "applied"],
         call' = call, NEW k, k = call[c].kind, NEW n, n = call[c].name,
         NEW old, old = Contents[k][n],
         Contents' = [Contents EXCEPT ![k][n] = IF old = Absent THEN call[c].value
                                                ELSE Combine(k, old, call[c].value)]
  PROVE  Abstract!Next
  <1>1. Combine(k, old, call[c].value) = Abstract!Combine(k, old, call[c].value)
    BY DEF Combine, Wrap, Abstract!Combine, Abstract!Wrap
  <1>2. Abstract!Apply(c)
    BY <1>1 DEF Abstract!Apply, Phase
  <1>3. QED
    BY <1>2 DEF Abstract!Next

LEMMA Returns ==
  ASSUME NEW c \in Callers, Phase[c] = "applied", Phase' = [Phase EXCEPT ![c] = "idle"],
         call' = call, Contents' = Contents
  PROVE  Abstract!Next
  BY DEF Abstract!Next, Abstract!Return, Phase

\* A writer's step that does not change where the others are.
LEMMA WriterMoves ==
  ASSUME MemInv, NEW c \in Callers, Writer(c)
  PROVE  \A d \in Callers \ {c} : wpc'[d] = wpc[d]
  BY DEF Writer, CallAdd, Lock, Lookup, Load, Update, Grow, Publish, Fill, Unlock,
         MemInv, MemTypeOK, WriterTypeOK

\* Every step of a writer is a step of the promise, or none.
LEMMA WriterAtomic ==
  ASSUME AtomicInv, AtomicInv', NEW c \in Callers, Writer(c)
  PROVE  Abstract!Next \/ UNCHANGED <<Contents, Phase, call>>
  <1>1. PhaseTellsPlace /\ PhaseTellsPlace'
    BY PhaseIsPlace, PTL
  <1>2. /\ MemInv /\ wpc \in [Callers -> WriterSteps]
        /\ \A d \in Callers \ {c} : wpc'[d] = wpc[d]
    BY WriterMoves DEF AtomicInv, MemInv, MemTypeOK, WriterTypeOK
  <1>3. \A d \in Callers \ {c} : Phase'[d] = Phase[d]
    BY <1>1, <1>2 DEF PhaseTellsPlace
  <1>4. ASSUME ~(wpc[c] = "idle" \/ wpc[c] = "unlock"),
               ~(wpc'[c] = "idle" \/ wpc'[c] = "unlock")
        PROVE  Phase' = Phase
    <2>1. Phase'[c] = "called" /\ Phase[c] = "called"
      BY <1>1, <1>4 DEF PhaseTellsPlace
    <2>2. Phase' = [Phase EXCEPT ![c] = "called"]
      BY <1>3, <2>1, OnePhaseChanges
    <2>3. QED
      BY <2>1, <2>2 DEF Phase
  <1>5. CASE CallAdd(c)
    <2>1. wpc[c] = "idle" /\ wpc'[c] = "lock" /\ \E new \in Calls : call' = [call EXCEPT ![c] = new]
      BY <1>2, <1>5 DEF CallAdd
    <2>2. \A k, n : Stored(k, n)' = Stored(k, n)
      BY <1>2, <1>5, <2>1, SlicesKept DEF CallAdd, MemInv, MemTypeOK, WriterTypeOK
    <2>3. Contents' = Contents
      BY <2>2, ContentsSame
    <2>4. Phase[c] = "idle" /\ Phase' = [Phase EXCEPT ![c] = "called"]
      BY <1>1, <1>3, <2>1, OnePhaseChanges DEF PhaseTellsPlace
    <2>5. QED
      BY <2>1, <2>3, <2>4, Invokes
  <1>6. CASE Lock(c) \/ Lookup(c) \/ Load(c)
    <2>1. /\ wpc[c] \in {"lock", "lookup", "load"}
          /\ wpc'[c] \in {"lookup", "update", "load", "publish", "grow"}
          /\ UNCHANGED <<arrays, length, call>>
          /\ \A d \in Callers \ {c} : at'[d] = at[d]
      BY <1>2, <1>6 DEF Lock, Lookup, Load, MemInv, MemTypeOK, WriterTypeOK
    <2>2. \A k, n : Stored(k, n)' = Stored(k, n)
      BY <1>2, <2>1, SlicesKept
    <2>3. Contents' = Contents /\ Phase' = Phase
      BY <1>4, <2>1, <2>2, ContentsSame
    <2>4. QED
      BY <2>1, <2>3
  <1>7. CASE Grow(c) \/ Publish(c)
    <2>1. wpc[c] \in {"grow", "publish"} /\ wpc'[c] \in {"publish", "fill"} /\ call' = call
      BY <1>2, <1>7 DEF Grow, Publish
    <2>2. Contents' = Contents
      BY <1>2, <1>7, GrowKeeps, PublishKeeps, ContentsSame
    <2>3. QED
      BY <1>4, <2>1, <2>2
  <1>8. PICK k \in Kinds, n \in Names : k = call[c].kind /\ n = call[c].name
    BY <1>2, CallTyped
  <1>9. CASE Update(c)
    <2>1. wpc[c] = "update" /\ wpc'[c] = "unlock" /\ call' = call
      BY <1>2, <1>9 DEF Update
    <2>2. /\ Stored(k, n) # Absent
          /\ Stored(k, n)' = Combine(k, Stored(k, n), call[c].value)
          /\ \A j \in Kinds, m \in Names : j # k \/ m # n => Stored(j, m)' = Stored(j, m)
      BY <1>8, <1>9, UpdateApplies DEF AtomicInv
    <2>3. PICK v : v = Combine(k, Stored(k, n), call[c].value)
      OBVIOUS
    <2>4. Contents' = [Contents EXCEPT ![k][n] = v] /\ Contents[k][n] = Stored(k, n)
      BY <2>2, <2>3, ContentsChange
    <2>5. Phase[c] = "called" /\ Phase' = [Phase EXCEPT ![c] = "applied"]
      BY <1>1, <1>3, <2>1, OnePhaseChanges DEF PhaseTellsPlace
    <2>6. QED
      BY <1>8, <2>1, <2>2, <2>3, <2>4, <2>5, Applies
  <1>10. CASE Fill(c)
    <2>1. wpc[c] = "fill" /\ call' = call
      BY <1>10 DEF Fill
    <2>2. CASE /\ wpc' = [wpc EXCEPT ![c] = "fill"]
               /\ \A j \in Kinds, m \in Names : Stored(j, m)' = Stored(j, m)
      <3>1. wpc'[c] = "fill"
        BY <1>2, <2>2
      <3>2. QED
        BY <1>4, <2>1, <2>2, <3>1, ContentsSame
    <2>3. CASE /\ wpc' = [wpc EXCEPT ![c] = "unlock"]
               /\ Stored(k, n) = Absent /\ Stored(k, n)' = call[c].value
               /\ \A j \in Kinds, m \in Names : j # k \/ m # n => Stored(j, m)' = Stored(j, m)
      <3>1. wpc'[c] = "unlock"
        BY <1>2, <2>3
      <3>2. PICK v : v = call[c].value
        OBVIOUS
      <3>3. Contents' = [Contents EXCEPT ![k][n] = v] /\ Contents[k][n] = Absent
        BY <2>3, <3>2, ContentsChange
      <3>4. Phase[c] = "called" /\ Phase' = [Phase EXCEPT ![c] = "applied"]
        BY <1>1, <1>3, <2>1, <3>1, OnePhaseChanges DEF PhaseTellsPlace
      <3>5. QED
        BY <1>8, <2>1, <3>2, <3>3, <3>4, Applies
    <2>4. QED
      BY <1>8, <1>10, <2>2, <2>3, FillApplies
  <1>11. CASE Unlock(c)
    <2>1. /\ wpc[c] = "unlock" /\ wpc'[c] = "idle" /\ UNCHANGED <<arrays, length, call>>
          /\ \A d \in Callers \ {c} : at'[d] = at[d]
      BY <1>2, <1>11 DEF Unlock, MemInv, MemTypeOK, WriterTypeOK
    <2>2. \A j, m : Stored(j, m)' = Stored(j, m)
      BY <1>2, <2>1, SlicesKept
    <2>3. Contents' = Contents
      BY <2>2, ContentsSame
    <2>4. Phase[c] = "applied" /\ Phase' = [Phase EXCEPT ![c] = "idle"]
      BY <1>1, <1>3, <2>1, OnePhaseChanges DEF PhaseTellsPlace
    <2>5. QED
      BY <2>1, <2>3, <2>4, Returns
  <1>12. QED
    BY <1>5, <1>6, <1>7, <1>9, <1>10, <1>11 DEF Writer

\* Readers change no metric.
LEMMA ReadersKeep ==
  ASSUME UNCHANGED writerVars
  PROVE  UNCHANGED <<Contents, Phase, call>> /\ \A k, n : Stored(k, n)' = Stored(k, n)
  <1>1. UNCHANGED <<arrays, length, wpc, call, at>>
    BY DEF writerVars
  <1>2. \A k, n : Stored(k, n)' = Stored(k, n)
    BY <1>1, SlicesKept
  <1>3. Contents' = Contents /\ Phase' = Phase
    BY <1>1, <1>2, ContentsSame DEF Phase
  <1>4. QED
    BY <1>1, <1>2, <1>3

LEMMA ReaderLeavesWriters ==
  ASSUME NEW r \in Readers, Reader(r)
  PROVE  UNCHANGED writerVars
  BY DEF Reader, CallRead, LoadHeader, Examine, Refetch, WriteAnswer, EndRead

\* AtomicInv is inductive.
LEMMA AtomicInitInv == MemInit => AtomicInv
  BY MemInitInv DEF AtomicInv, MemInit, ProgressInv, WriterKnows

LEMMA AtomicStepInv == AtomicInv /\ [MemNext]_memVars => AtomicInv'
  <1> SUFFICES ASSUME AtomicInv, [MemNext]_memVars PROVE AtomicInv'
    OBVIOUS
  <1>1. MemInv'
    BY MemInvStep DEF AtomicInv
  <1>2. ASSUME UNCHANGED writerVars PROVE ProgressInv'
    BY <1>2 DEF writerVars, AtomicInv, ProgressInv, WriterKnows, Array
  <1>3. ProgressInv'
    BY <1>2, ProgressStep, ReaderLeavesWriters DEF MemNext, memVars
  <1>4. QED
    BY <1>1, <1>3 DEF AtomicInv

LEMMA AtomicInvariant == MemSpec => []AtomicInv
  BY AtomicInitInv, AtomicStepInv, PTL DEF MemSpec

LEMMA AbstractInit == MemInit => Abstract!Init
  <1> SUFFICES ASSUME MemInit PROVE Abstract!Init
    OBVIOUS
  <1>1. Phase = [c \in Callers |-> "idle"]
    <2>1. \A c \in Callers : Phase[c] = "idle"
      BY PhaseIsPlace DEF PhaseTellsPlace, MemInit
    <2>2. Phase = [c \in Callers |-> Phase[c]]
      BY DEF Phase
    <2>3. QED
      BY <2>1, <2>2
  <1>2. Contents = [k \in Kinds |-> [n \in Names |-> Absent]]
    <2>1. \A k \in Kinds, n \in Names : Stored(k, n) = Absent
      <3> TAKE k \in Kinds, n \in Names
      <3>1. Finished(k, n) = {}
        BY DEF MemInit, Finished, RowsNamed, Rows
      <3>2. QED
        BY <3>1, StoredIs
    <2>2. QED
      BY <2>1 DEF Contents
  <1>3. call \in [Callers -> Abstract!Calls]
    <2>1. Abstract!Calls = Calls
      BY DEF Abstract!Calls, Calls, Abstract!Kinds, Kinds, Abstract!Inputs, Inputs
    <2>2. MemInv
      BY MemInitInv
    <2>3. QED
      BY <2>1, <2>2 DEF MemInv, MemTypeOK, WriterTypeOK
  <1>4. QED
    BY <1>1, <1>2, <1>3 DEF Abstract!Init, Phase, Abstract!Kinds, Kinds

LEMMA AbstractStep ==
    AtomicInv /\ AtomicInv' /\ [MemNext]_memVars => [Abstract!Next]_<<Contents, Phase, call>>
  <1> SUFFICES ASSUME AtomicInv, AtomicInv', [MemNext]_memVars
               PROVE  Abstract!Next \/ UNCHANGED <<Contents, Phase, call>>
    OBVIOUS
  <1>1. ASSUME UNCHANGED writerVars PROVE UNCHANGED <<Contents, Phase, call>>
    BY <1>1, ReadersKeep
  <1>2. QED
    BY <1>1, WriterAtomic, ReaderLeavesWriters DEF MemNext, memVars

\* The calls of AddGauge and AddCounter are atomic, for any names, values,
\* writers and readers: MemStorage implements MetricStore (storage.go).
THEOREM CallsAreAlwaysAtomic == MemSpec => CallsAreAtomic
  <1>1. [Abstract!Next]_<<Contents, Phase, call>> => [Abstract!Next]_(Abstract!storeVars)
    BY DEF Abstract!storeVars, Phase
  <1>2. QED
    BY <1>1, AbstractInit, AbstractStep, AtomicInvariant, PTL
       DEF MemSpec, CallsAreAtomic, Abstract!Spec

-----------------------------------------------------------------------------
(* The reads.                                                              *)

\* A name is in one row, in every array.
NamedOnce(s) ==
    \A i, j \in 1 .. Len(s) : s[i].name = s[j].name /\ s[i].name # NoName => i = j

ArraysUnique == \A k \in Kinds : \A a \in 1 .. Len(arrays[k]) : NamedOnce(arrays[k][a])

\* What reader r knows of the row p of metric n, when it was there all the
\* time: the row is within the slice the reader ranges over, and the answer is
\* empty before it and after it is one value that the metric has had.
ReaderFinds(r, k, n, p) ==
    /\ view[r].array >= 1 => /\ p <= Len(arrays[k][view[r].array])
                             /\ arrays[k][view[r].array][p].name = n
    /\ view[r].len >= 0 => p <= view[r].len
    /\ rpc[r] = "header" => row[r] = 1
    /\ rpc[r] \in {"fetch", "value"} => row[r] = p
    /\ rpc[r] = "value" => arrays[k][again[r]][p].value \in held[r]
    /\ rpc[r] = "answer" => row[r] > p
    /\ row[r] <= p => answer[r] = <<>>
    /\ row[r] > p => Len(answer[r]) = 1 /\ answer[r][1] \in held[r]

ReaderKnows(r) ==
    \A k \in Kinds, n \in Names : want[r] = <<k, n>> /\ rpc[r] # "idle" =>
        /\ Stored(k, n) \in held[r]
        /\ rpc[r] # "header" => view[r].len >= 0
        /\ Absent \notin held[r] => \A p \in Finished(k, n) : ReaderFinds(r, k, n, p)

ReadInv == /\ AtomicInv /\ ArraysUnique /\ DOMAIN held = Readers
           /\ \A r \in Readers : ReaderKnows(r)

\* What no writer does: drop a row, change a name or touch an older array.
RowsStay ==
    \A k \in Kinds :
        /\ Len(arrays[k]) <= Len(arrays'[k])
        /\ \A i \in Rows(k) : /\ i \in Rows(k)'
                              /\ Array(k)[i].name # NoName =>
                                    Array(k)'[i].name = Array(k)[i].name
        /\ \A a \in 1 .. Len(arrays'[k]) : a # Len(arrays'[k]) =>
              a \in 1 .. Len(arrays[k]) /\ arrays'[k][a] = arrays[k][a]
        /\ Len(arrays'[k]) = Len(arrays[k]) => Capacity(k)' = Capacity(k)

\* Storing a row that keeps its name, or gets its first.
LEMMA StoreStays ==
  ASSUME MemInv, NEW k \in Kinds, NEW i \in Rows(k), NEW e, StoresRow(k, i, e),
         Array(k)[i].name # NoName => e.name = Array(k)[i].name
  PROVE  RowsStay
  <1>1. /\ Array(k)'[i] = e
        /\ \A x \in 1 .. Capacity(k) : x # i => Array(k)'[x] = Array(k)[x]
        /\ \A j \in Kinds : Rows(j)' = Rows(j)
        /\ \A j \in Kinds : j # k => arrays'[j] = arrays[j] /\ Array(j)' = Array(j)
        /\ Len(arrays'[k]) = Len(arrays[k]) /\ Capacity(k)' = Capacity(k)
        /\ \A a \in 1 .. Len(arrays[k]) : a # Len(arrays[k]) => arrays'[k][a] = arrays[k][a]
    BY OneRowStored DEF MemInv, MemTypeOK
  <1>2. \A j \in Kinds : Len(arrays[j]) \in Nat /\ Rows(j) \subseteq 1 .. Capacity(j)
    BY ArrayTyped DEF MemInv, MemTypeOK
  <1>3. ASSUME NEW j \in Kinds, j # k PROVE Capacity(j)' = Capacity(j)
    BY <1>1, <1>3 DEF Capacity
  <1>4. ASSUME NEW j \in Kinds, NEW x \in Rows(j), Array(j)[x].name # NoName
        PROVE  x \in Rows(j)' /\ Array(j)'[x].name = Array(j)[x].name
    BY <1>1, <1>2, <1>4
  <1>5. ASSUME NEW j \in Kinds, NEW a \in 1 .. Len(arrays'[j]), a # Len(arrays'[j])
        PROVE  a \in 1 .. Len(arrays[j]) /\ arrays'[j][a] = arrays[j][a]
    BY <1>1, <1>5
  <1>6. \A j \in Kinds : Len(arrays'[j]) = Len(arrays[j])
    BY <1>1
  <1>7. \A j \in Kinds : Rows(j)' = Rows(j) /\ Capacity(j)' = Capacity(j)
    BY <1>1, <1>3
  <1>8. QED
    BY <1>2, <1>4, <1>5, <1>6, <1>7 DEF RowsStay

LEMMA GrowStays ==
  ASSUME MemInv, NEW c \in Callers, Grow(c)
  PROVE  RowsStay
  <1>1. PICK k \in Kinds, full \in Nat, size \in Nat :
           /\ full = Capacity(k) /\ size > full
           /\ \A j \in Kinds : j # k => arrays'[j] = arrays[j]
           /\ Len(arrays[k]) \in Nat /\ Len(arrays'[k]) = Len(arrays[k]) + 1
           /\ \A a \in 1 .. Len(arrays[k]) : arrays'[k][a] = arrays[k][a]
           /\ \A x \in 1 .. size : Array(k)'[x] = IF x <= full THEN Array(k)[x] ELSE EmptyRow
    BY GrowCopies
  <1>2. \A j \in Kinds : Rows(j)' = Rows(j)
    BY DEF Grow, Rows
  <1>3. \A x \in Rows(k) : Array(k)'[x] = Array(k)[x]
    <2>1. Rows(k) \subseteq 1 .. full /\ \A x \in 1 .. full : x \in 1 .. size /\ x <= full
      BY <1>1, ArrayTyped DEF MemInv, MemTypeOK
    <2>2. QED
      BY <1>1, <2>1
  <1>4. ASSUME NEW j \in Kinds, j # k
        PROVE  arrays'[j] = arrays[j] /\ Array(j)' = Array(j) /\ Capacity(j)' = Capacity(j)
               /\ Len(arrays[j]) \in Nat
    BY <1>1, <1>4, ArrayTyped DEF Array, Capacity, MemInv, MemTypeOK
  <1>5. \A a \in 1 .. Len(arrays'[k]) : a # Len(arrays'[k]) => a \in 1 .. Len(arrays[k])
    BY <1>1
  <1>6. Len(arrays'[k]) # Len(arrays[k]) /\ Len(arrays[k]) <= Len(arrays'[k])
    BY <1>1
  <1>7. QED
    BY <1>1, <1>2, <1>3, <1>4, <1>5, <1>6 DEF RowsStay

LEMMA WriterStays ==
  ASSUME AtomicInv, NEW c \in Callers, Writer(c)
  PROVE  RowsStay
  <1>1. MemInv
    BY DEF AtomicInv
  <1>2. CASE Update(c)
    <2>1. PICK k \in Kinds : k = call[c].kind
      BY <1>1, CallTyped
    <2>2. PICK i \in Rows(k) : \E e : /\ e = [Array(k)[i] EXCEPT !.value = NewValue(c)]
                                      /\ StoresRow(k, i, e)
      BY <1>1, <1>2, <2>1, UpdateStores
    <2>3. Array(k)[i] \in Row(k)
      BY <1>1, ArrayTyped DEF MemInv, MemTypeOK, Capacity
    <2>4. PICK e : /\ e = [Array(k)[i] EXCEPT !.value = NewValue(c)]
                   /\ StoresRow(k, i, e)
      BY <2>2
    <2>5. e.name = Array(k)[i].name
      BY <2>3, <2>4 DEF Row
    <2>6. QED
      BY <1>1, <2>4, <2>5, StoreStays
  <1>3. CASE Fill(c)
    <2>1. PICK k \in Kinds : k = call[c].kind
      BY <1>1, CallTyped
    <2>2. PICK i \in Rows(k) : i = at[c]
      BY <1>1, <1>3, <2>1, FillStores
    <2>3. PICK field \in todo[c] :
             \E e : /\ e = (IF field = "name" THEN [Array(k)[i] EXCEPT !.name = call[c].name]
                                              ELSE [Array(k)[i] EXCEPT !.value = call[c].value])
                    /\ StoresRow(k, i, e)
      BY <1>1, <1>3, <2>1, <2>2, FillStores
    <2>4. PICK e : /\ e = (IF field = "name" THEN [Array(k)[i] EXCEPT !.name = call[c].name]
                                             ELSE [Array(k)[i] EXCEPT !.value = call[c].value])
                   /\ StoresRow(k, i, e)
      BY <2>3
    <2>5. Array(k)[i] \in Row(k)
      BY <1>1, ArrayTyped DEF MemInv, MemTypeOK, Capacity
    <2>6. field # "name" => e.name = Array(k)[i].name
      BY <2>4, <2>5 DEF Row
    <2>7. field = "name" => Array(k)[i].name = NoName
      BY <1>1, <1>3, <2>1, <2>2 DEF MemInv, WriterInv, WriterOK, Fill
    <2>8. QED
      BY <1>1, <2>4, <2>6, <2>7, StoreStays
  <1>4. CASE Grow(c)
    BY <1>1, <1>4, GrowStays
  <1>5. CASE CallAdd(c) \/ Lock(c) \/ Lookup(c) \/ Load(c) \/ Publish(c) \/ Unlock(c)
    <2>1. arrays' = arrays
      BY <1>5 DEF CallAdd, Lock, Lookup, Load, Publish, Unlock
    <2>2. ASSUME NEW k \in Kinds
          PROVE  length[k] \in Nat /\ length'[k] \in Nat /\ length[k] <= length'[k]
      <3>1. length \in [Kinds -> Nat]
        BY <1>1 DEF MemInv, MemTypeOK, WriterTypeOK
      <3>2. CASE Publish(c)
        <4>1. PICK j \in Kinds : j = call[c].kind
          BY <1>1, CallTyped
        <4>2. length' = [length EXCEPT ![j] = @ + 1]
          BY <3>2, <4>1 DEF Publish
        <4>3. QED
          BY <3>1, <4>2
      <3>3. CASE ~Publish(c)
        BY <1>5, <3>1, <3>3 DEF CallAdd, Lock, Lookup, Load, Unlock
      <3>4. QED
        BY <3>2, <3>3
    <2>3. \A k \in Kinds : Rows(k) \subseteq Rows(k)'
      BY <2>2 DEF Rows
    <2>4. \A k \in Kinds : Array(k)' = Array(k) /\ Capacity(k)' = Capacity(k)
                           /\ Len(arrays[k]) \in Nat
      BY <1>1, <2>1, ArrayTyped DEF Array, Capacity, MemInv, MemTypeOK
    <2>5. QED
      BY <2>1, <2>3, <2>4 DEF RowsStay
  <1>6. QED
    BY <1>2, <1>3, <1>4, <1>5 DEF Writer

\* In the last array a name is in one row: beyond the length there is none.
LEMMA LastUnique == MemInv => \A k \in Kinds : NamedOnce(Array(k))
  <1> SUFFICES ASSUME MemInv, NEW k \in Kinds,
                      NEW i \in 1 .. Capacity(k), NEW j \in 1 .. Capacity(k),
                      Array(k)[i].name = Array(k)[j].name, Array(k)[i].name # NoName
               PROVE  i = j
    BY DEF NamedOnce, Capacity
  <1>1. length[k] \in Nat /\ \A x \in 1 .. Capacity(k) : x > length[k] => Array(k)[x].name = NoName
    BY DEF MemInv, MemTypeOK, WriterTypeOK, ArraysInv
  <1>2. i \in Rows(k) /\ j \in Rows(k)
    BY <1>1 DEF Rows
  <1>3. QED
    BY <1>2 DEF MemInv, NamesUnique

\* Arrays that are left behind keep their rows.
LEMMA UniqueStays ==
  ASSUME ReadInv, MemInv', RowsStay
  PROVE  ArraysUnique'
  <1>1. (\A k \in Kinds : NamedOnce(Array(k)))'
    BY LastUnique, PTL
  <1>2. ASSUME NEW k \in Kinds, NEW a \in 1 .. Len(arrays'[k])
        PROVE  NamedOnce(arrays'[k][a])
    <2>1. CASE a = Len(arrays'[k])
      BY <1>1, <2>1 DEF Array
    <2>2. CASE a # Len(arrays'[k])
      <3>1. a \in 1 .. Len(arrays[k]) /\ arrays'[k][a] = arrays[k][a]
        BY <2>2 DEF RowsStay
      <3>2. QED
        BY <3>1 DEF ReadInv, ArraysUnique
    <2>3. QED
      BY <2>1, <2>2
  <1>3. QED
    BY <1>2 DEF ArraysUnique

\* A metric that is worth something after a writer's step, and was before it,
\* is in the same row.
LEMMA RowStays ==
  ASSUME ReadInv, MemInv', RowsStay, NEW k \in Kinds, NEW n \in Names,
         Stored(k, n) # Absent, Stored(k, n)' # Absent
  PROVE  \E p \in Rows(k) : /\ Finished(k, n) = {p} /\ Finished(k, n)' = {p}
                            /\ Stored(k, n) = Array(k)[p].value
                            /\ Stored(k, n)' = Array(k)'[p].value
                            /\ Array(k)[p].name = n
  <1>1. StoredTells /\ StoredTells' /\ MemInv
    BY StoredRow, PTL DEF ReadInv, AtomicInv
  <1>2. PICK p : p \in Finished(k, n)
    BY <1>1 DEF StoredTells
  <1>3. PICK q : q \in Finished(k, n)'
    BY <1>1 DEF StoredTells
  <1>4. /\ p \in Rows(k) /\ Array(k)[p].name = n /\ n # NoName
        /\ q \in Rows(k)' /\ Array(k)'[q].name = n
    BY <1>2, <1>3, SentinelAssumption DEF Finished, RowsNamed
  <1>5. p \in Rows(k)' /\ Array(k)'[p].name = n
    BY <1>4 DEF RowsStay
  <1>6. p = q
    BY <1>4, <1>5 DEF MemInv, NamesUnique
  <1>7. Finished(k, n) = {p} /\ Stored(k, n) = Array(k)[p].value
    BY <1>1, <1>2 DEF StoredTells
  <1>8. Finished(k, n)' = {p} /\ Stored(k, n)' = Array(k)'[p].value
    BY <1>1, <1>3, <1>6 DEF StoredTells
  <1>9. QED
    BY <1>4, <1>7, <1>8

\* A reader's knowledge outlives the steps of the writers.
LEMMA KnowsOn ==
  ASSUME ReadInv, MemInv', RowsStay, WriterStep, NEW r \in Readers
  PROVE  ReaderKnows(r)'
  <1>1. UNCHANGED <<rpc, want, view, again, row, answer>>
    BY DEF WriterStep, readerVars
  <1> SUFFICES ASSUME NEW k \in Kinds, NEW n \in Names, want[r] = <<k, n>>, rpc[r] # "idle"
               PROVE  /\ Stored(k, n)' \in held'[r]
                      /\ rpc[r] # "header" => view[r].len >= 0
                      /\ Absent \notin held'[r] =>
                            \A p \in Finished(k, n)' : ReaderFinds(r, k, n, p)'
    BY <1>1 DEF ReaderKnows
  <1>2. held'[r] = held[r] \cup {Stored(k, n)'}
    BY <1>1 DEF WriterStep, Observe, Contents
  <1>3. /\ Stored(k, n) \in held[r]
        /\ rpc[r] # "header" => view[r].len >= 0
        /\ Absent \notin held[r] => \A p \in Finished(k, n) : ReaderFinds(r, k, n, p)
    BY DEF ReadInv, ReaderKnows
  <1>4. ASSUME Absent \notin held'[r], NEW p \in Finished(k, n)'
        PROVE  ReaderFinds(r, k, n, p)'
    <2>1. Stored(k, n) # Absent /\ Stored(k, n)' # Absent /\ Absent \notin held[r]
      BY <1>2, <1>3, <1>4
    <2>2. /\ p \in Rows(k) /\ Finished(k, n) = {p} /\ Finished(k, n)' = {p}
          /\ Stored(k, n)' = Array(k)'[p].value /\ Array(k)[p].name = n
      BY <1>4, <2>1, RowStays
    <2>3. ReaderFinds(r, k, n, p)
      BY <1>3, <2>1, <2>2
    <2>4. n # NoName
      BY SentinelAssumption
    <2>5. Array(k)'[p].name = n
      BY <2>2, <2>4 DEF RowsStay
    <2>6. PICK v \in Nat, g \in Nat : v = view[r].array /\ g = again[r]
      BY DEF ReadInv, AtomicInv, MemInv, MemTypeOK, ReaderTypeOK
    <2>7. /\ v <= Len(arrays[k]) /\ Len(arrays[k]) \in Nat /\ Len(arrays'[k]) \in Nat
          /\ Len(arrays[k]) <= Len(arrays'[k])
          /\ rpc[r] = "value" => g >= v /\ g <= Len(arrays[k]) /\ v >= 1
      <3>1. ReaderOK(r) /\ Len(arrays[k]) \in Nat /\ want[r][1] = k
        BY ArrayTyped DEF ReadInv, AtomicInv, MemInv, MemTypeOK, ReaderInv
      <3>2. Len(arrays'[k]) \in Nat
        BY DEF MemInv, MemTypeOK, WriterTypeOK
      <3>3. Len(arrays[k]) <= Len(arrays'[k])
        BY DEF RowsStay
      <3>4. v \in 0 .. Len(arrays[k]) /\ (rpc[r] = "value" => v >= 1 /\ g \in v .. Len(arrays[k]))
        BY <2>6, <3>1 DEF ReaderOK
      <3>5. QED
        BY <3>1, <3>2, <3>3, <3>4
    <2>8. ASSUME NEW a \in 1 .. Len(arrays[k])
          PROVE  IF a = Len(arrays'[k])
                 THEN /\ arrays'[k][a] = Array(k)' /\ Capacity(k)' = Capacity(k)
                      /\ Len(arrays'[k][a]) = Len(arrays[k][a])
                 ELSE arrays'[k][a] = arrays[k][a]
      <3>1. CASE a = Len(arrays'[k])
        <4>1. Len(arrays'[k]) = Len(arrays[k])
          BY <2>7, <3>1
        <4>2. Capacity(k)' = Capacity(k)
          BY <4>1 DEF RowsStay
        <4>3. QED
          BY <3>1, <4>1, <4>2 DEF Array, Capacity
      <3>2. CASE a # Len(arrays'[k])
        <4>1. a \in 1 .. Len(arrays'[k])
          BY <2>7
        <4>2. QED
          BY <3>2, <4>1 DEF RowsStay
      <3>3. QED
        BY <3>1, <3>2
    <2>9. ASSUME v >= 1
          PROVE  p <= Len(arrays'[k][v]) /\ arrays'[k][v][p].name = n
      <3>1. v \in 1 .. Len(arrays[k])
        BY <2>7, <2>9
      <3>2. p <= Len(arrays[k][v]) /\ arrays[k][v][p].name = n
        BY <2>3, <2>6, <2>9 DEF ReaderFinds
      <3>3. QED
        BY <2>5, <2>8, <3>1, <3>2
    <2>10. ASSUME rpc[r] = "value" PROVE arrays'[k][g][p].value \in held'[r]
      <3>1. g \in 1 .. Len(arrays[k])
        BY <2>7, <2>10
      <3>2. arrays[k][g][p].value \in held[r]
        BY <2>3, <2>6, <2>10 DEF ReaderFinds
      <3>3. QED
        BY <1>2, <2>2, <2>8, <3>1, <3>2
    <2>11. held[r] \subseteq held'[r]
      BY <1>2
    <2>12. QED
      BY <1>1, <2>3, <2>6, <2>9, <2>10, <2>11 DEF ReaderFinds
  <1>5. QED
    BY <1>2, <1>3, <1>4

\* What a step of a reader leaves alone.
LEMMA SameMemory ==
  ASSUME UNCHANGED writerVars
  PROVE  /\ arrays' = arrays /\ length' = length
         /\ \A k, n : Stored(k, n)' = Stored(k, n) /\ Finished(k, n)' = Finished(k, n)
  <1>1. UNCHANGED <<arrays, length, wpc, call, at>>
    BY DEF writerVars
  <1>2. \A k, n : Stored(k, n)' = Stored(k, n)
    BY ReadersKeep
  <1>3. \A k, n : Finished(k, n)' = Finished(k, n)
    BY <1>1 DEF Finished, RowsNamed, Rows, Array, Unfinished
  <1>4. QED
    BY <1>1, <1>2, <1>3

LEMMA OtherReaders ==
  ASSUME ReadInv, NEW r \in Readers, Reader(r)
  PROVE  \A q \in Readers \ {r} :
            /\ rpc'[q] = rpc[q] /\ want'[q] = want[q] /\ view'[q] = view[q]
            /\ again'[q] = again[q] /\ row'[q] = row[q] /\ answer'[q] = answer[q]
            /\ held'[q] = held[q]
  <1>1. /\ rpc \in [Readers -> ReaderSteps] /\ want \in [Readers -> Kinds \X Names]
        /\ view \in [Readers -> [array : Nat, len : Int]]
        /\ again \in [Readers -> Nat] /\ row \in [Readers -> Nat]
        /\ DOMAIN answer = Readers /\ DOMAIN held = Readers
    BY DEF ReadInv, AtomicInv, MemInv, MemTypeOK, ReaderTypeOK
  <1>2. CASE CallRead(r)
    BY <1>1, <1>2 DEF CallRead
  <1>3. CASE LoadHeader(r)
    BY <1>1, <1>3 DEF LoadHeader
  <1>4. CASE Examine(r)
    BY <1>1, <1>4 DEF Examine
  <1>5. CASE Refetch(r) \/ WriteAnswer(r)
    BY <1>1, <1>5 DEF Refetch, WriteAnswer
  <1>6. CASE EndRead(r)
    BY <1>1, <1>6 DEF EndRead
  <1>7. QED
    BY <1>2, <1>3, <1>4, <1>5, <1>6 DEF Reader

\* A reader that starts knows nothing; the metric's row is not before row 1.
LEMMA CallReadKnows ==
  ASSUME ReadInv, MemInv', NEW r \in Readers, CallRead(r)
  PROVE  ReaderKnows(r)'
  <1>1. PICK j \in Kinds, m \in Names :
           want' = [want EXCEPT ![r] = <<j, m>>] /\ held' = [held EXCEPT ![r] = {Stored(j, m)}]
    BY DEF CallRead
  <1>2. /\ rpc' = [rpc EXCEPT ![r] = "header"] /\ view' = [view EXCEPT ![r] = NotLoaded]
        /\ answer' = [answer EXCEPT ![r] = <<>>] /\ row' = [row EXCEPT ![r] = 1]
        /\ UNCHANGED writerVars
    BY DEF CallRead
  <1>3. /\ want'[r] = <<j, m>> /\ held'[r] = {Stored(j, m)} /\ rpc'[r] = "header"
        /\ view'[r].array = 0 /\ view'[r].len = -1 /\ answer'[r] = <<>> /\ row'[r] = 1
    BY <1>1, <1>2 DEF ReadInv, AtomicInv, MemInv, MemTypeOK, ReaderTypeOK, NotLoaded
  <1>4. \A k, n : Stored(k, n)' = Stored(k, n) /\ Finished(k, n)' = Finished(k, n)
    BY <1>2, SameMemory
  <1>5. \A k, n : \A p \in Finished(k, n) : p \in Nat /\ p >= 1
    <2>1. \A k, n : Finished(k, n) \subseteq Rows(k)
      BY DEF Finished, RowsNamed
    <2>2. \A k : \A p \in Rows(k) : p \in Nat /\ p >= 1
      BY DEF Rows
    <2>3. QED
      BY <2>1, <2>2
  <1>6. ASSUME NEW p \in Nat, p >= 1 PROVE ReaderFinds(r, j, m, p)'
    BY <1>3, <1>6 DEF ReaderFinds
  <1>7. \A k \in Kinds, n \in Names : want'[r] = <<k, n>> => k = j /\ n = m
    BY <1>3
  <1>8. QED
    BY <1>3, <1>4, <1>5, <1>6, <1>7 DEF ReaderKnows

\* The steps of a read: what is to be shown of the row p of a metric that was
\* there all the time.
LEMMA ReadGoesOn ==
  ASSUME ReadInv, NEW r \in Readers, UNCHANGED writerVars, want' = want, held' = held,
         rpc[r] # "idle", rpc'[r] # "header" => view'[r].len >= 0,
         \A k \in Kinds, n \in Names, p \in Nat :
            /\ want[r] = <<k, n>> /\ n # NoName
            /\ Absent \notin held[r] /\ Stored(k, n) \in held[r]
            /\ p \in Rows(k) /\ Array(k)[p].name = n /\ Stored(k, n) = Array(k)[p].value
            /\ ReaderFinds(r, k, n, p)
            => ReaderFinds(r, k, n, p)'
  PROVE  ReaderKnows(r)'
  <1>1. \A k, n : Stored(k, n)' = Stored(k, n) /\ Finished(k, n)' = Finished(k, n)
    BY SameMemory
  <1> SUFFICES ASSUME NEW k \in Kinds, NEW n \in Names, want[r] = <<k, n>>
               PROVE  /\ Stored(k, n)' \in held[r]
                      /\ rpc'[r] # "header" => view'[r].len >= 0
                      /\ Absent \notin held[r] =>
                            \A p \in Finished(k, n)' : ReaderFinds(r, k, n, p)'
    BY DEF ReaderKnows
  <1>2. /\ Stored(k, n) \in held[r]
        /\ Absent \notin held[r] => \A p \in Finished(k, n) : ReaderFinds(r, k, n, p)
    BY DEF ReadInv, ReaderKnows
  <1>3. n # NoName
    BY SentinelAssumption
  <1>4. ASSUME NEW p \in Finished(k, n)
        PROVE  /\ p \in Nat /\ p \in Rows(k) /\ Array(k)[p].name = n
               /\ Stored(k, n) = Array(k)[p].value
    <2>1. StoredTells
      BY StoredRow DEF ReadInv, AtomicInv
    <2>2. p \in Rows(k) /\ Array(k)[p].name = n /\ Stored(k, n) = Array(k)[p].value
      BY <2>1 DEF StoredTells, Finished, RowsNamed
    <2>3. QED
      BY <2>2 DEF Rows
  <1>5. ASSUME Absent \notin held[r], NEW p \in Finished(k, n)
        PROVE  ReaderFinds(r, k, n, p)'
    BY <1>2, <1>3, <1>4, <1>5
  <1>6. QED
    BY <1>1, <1>2, <1>5

\* The slice header leads to an array and a length that contain the row.
LEMMA LoadHeaderKnows ==
  ASSUME ReadInv, NEW r \in Readers, LoadHeader(r)
  PROVE  ReaderKnows(r)'
  <1>1. /\ rpc[r] = "header" /\ UNCHANGED <<want, again, row, answer, held>>
        /\ UNCHANGED writerVars
    BY DEF LoadHeader
  <1>2. /\ rpc \in [Readers -> ReaderSteps] /\ view \in [Readers -> [array : Nat, len : Int]]
    BY DEF ReadInv, AtomicInv, MemInv, MemTypeOK, ReaderTypeOK
  <1>3. PICK j \in Kinds : j = want[r][1]
    BY DEF ReadInv, AtomicInv, MemInv, MemTypeOK, ReaderTypeOK
  <1>4. /\ view'[r].array = view[r].array \/ view'[r].array = Len(arrays[j])
        /\ view'[r].len = view[r].len \/ view'[r].len = length[j]
        /\ rpc'[r] \in {"header", "range"}
        /\ rpc'[r] = "range" => view'[r].len >= 0
    <2>1. length[j] \in Nat
      BY DEF ReadInv, AtomicInv, MemInv, MemTypeOK, WriterTypeOK
    <2>2. CASE /\ view' = [view EXCEPT ![r].array = Len(arrays[j])]
               /\ rpc' = [rpc EXCEPT ![r] = IF view[r].len >= 0 THEN "range" ELSE @]
      <3>1. view'[r].array = Len(arrays[j]) /\ view'[r].len = view[r].len
        BY <1>2, <2>2
      <3>2. rpc'[r] = IF view[r].len >= 0 THEN "range" ELSE "header"
        BY <1>1, <1>2, <2>2
      <3>3. QED
        BY <3>1, <3>2
    <2>3. CASE /\ view' = [view EXCEPT ![r].len = length[j]]
               /\ rpc' = [rpc EXCEPT ![r] = IF view[r].array > 0 THEN "range" ELSE @]
      <3>1. view'[r].len = length[j] /\ view'[r].array = view[r].array
        BY <1>2, <2>3
      <3>2. rpc'[r] \in {"range", "header"}
        BY <1>1, <1>2, <2>3
      <3>3. QED
        BY <2>1, <3>1, <3>2
    <2>4. QED
      BY <1>3, <2>2, <2>3 DEF LoadHeader
  <1>5. ASSUME NEW k \in Kinds, NEW n \in Names, NEW p \in Nat, want[r] = <<k, n>>,
               p \in Rows(k), Array(k)[p].name = n, ReaderFinds(r, k, n, p)
        PROVE  ReaderFinds(r, k, n, p)'
    <2>1. k = j /\ arrays' = arrays
      BY <1>1, <1>3, <1>5 DEF writerVars
    <2>2. p <= Len(arrays[k][Len(arrays[k])]) /\ arrays[k][Len(arrays[k])][p].name = n
      <3>1. p \in 1 .. Capacity(k) /\ Capacity(k) \in Nat
        BY <1>5, ArrayTyped DEF ReadInv, AtomicInv, MemInv, MemTypeOK
      <3>2. QED
        BY <1>5, <3>1 DEF Array, Capacity
    <2>3. p <= length[k]
      BY <1>5 DEF Rows
    <2>4. QED
      BY <1>1, <1>4, <1>5, <2>1, <2>2, <2>3 DEF ReaderFinds
  <1>6. QED
    BY <1>1, <1>4, <1>5, ReadGoesOn

\* A row with the name is the metric's row, and the loop does not end before it.
LEMMA ExamineKnows ==
  ASSUME ReadInv, NEW r \in Readers, Examine(r)
  PROVE  ReaderKnows(r)'
  <1>1. /\ rpc[r] = "range" /\ UNCHANGED <<want, view, again, answer, held>>
        /\ UNCHANGED writerVars
    BY DEF Examine
  <1>2. /\ rpc \in [Readers -> ReaderSteps] /\ view \in [Readers -> [array : Nat, len : Int]]
        /\ row \in [Readers -> Nat] /\ want \in [Readers -> Kinds \X Names]
    BY DEF ReadInv, AtomicInv, MemInv, MemTypeOK, ReaderTypeOK
  <1>3. view[r].len >= 0
    BY <1>1, <1>2 DEF ReadInv, ReaderKnows
  <1>4. PICK j \in Kinds, v \in Nat, x \in Nat :
           /\ j = want[r][1] /\ v = view[r].array /\ x = row[r]
           /\ v \in 1 .. Len(arrays[j]) /\ x >= 1
    <2>1. PICK j \in Kinds, v \in Nat, x \in Nat : j = want[r][1] /\ v = view[r].array /\ x = row[r]
      BY <1>2
    <2>2. v \in 0 .. Len(arrays[j]) /\ v >= 1 /\ x >= 1
      BY <1>1, <2>1 DEF ReadInv, AtomicInv, MemInv, ReaderInv, ReaderOK
    <2>3. v \in 1 .. Len(arrays[j])
      BY <2>2
    <2>4. QED
      BY <2>1, <2>2, <2>3
  <1>5. ASSUME NEW k \in Kinds, NEW n \in Names, NEW p \in Nat, want[r] = <<k, n>>, n # NoName,
               p \in Rows(k), ReaderFinds(r, k, n, p)
        PROVE  ReaderFinds(r, k, n, p)'
    <2> DEFINE seen == arrays[k][v]
    <2>1. k = j /\ want[r][2] = n /\ arrays' = arrays
      BY <1>1, <1>4, <1>5 DEF writerVars
    <2>2. /\ p <= Len(seen) /\ seen[p].name = n /\ p <= view[r].len /\ p >= 1
          /\ x <= p => answer[r] = <<>>
          /\ x > p => Len(answer[r]) = 1 /\ answer[r][1] \in held[r]
      BY <1>1, <1>3, <1>4, <1>5 DEF ReaderFinds, Rows
    <2>3. seen \in Seq(Row(k))
      <3>1. arrays[k] \in Seq(Seq(Row(k)))
        BY ArrayTyped DEF ReadInv, AtomicInv, MemInv, MemTypeOK
      <3>2. QED
        BY <1>4, <2>1, <3>1
    <2>4. x \in 1 .. Len(seen) /\ seen[x].name = n => x = p
      <3>1. p \in 1 .. Len(seen)
        BY <2>2, <2>3
      <3>2. \A a, b \in 1 .. Len(seen) :
               seen[a].name = seen[b].name /\ seen[a].name # NoName => a = b
        BY <1>4, <2>1 DEF ReadInv, ArraysUnique, NamedOnce
      <3>3. QED
        BY <1>5, <2>2, <3>1, <3>2
    <2> HIDE DEF seen
    <2>5. PICK y \in Nat, s \in {"answer", "fault", "range", "fetch"} :
             /\ rpc'[r] = s /\ row'[r] = y
             /\ s = "answer" => x > p
             /\ s = "fetch" => x = p
             /\ s # "range" => y = x
             /\ s = "range" => y = x + 1 /\ x # p
      <3>1. CASE ~InRange(r) /\ rpc' = [rpc EXCEPT ![r] = "answer"] /\ row' = row
        <4>1. x > p
          <5>1. ~(x <= view[r].len) /\ view[r].len \in Int
            BY <1>2, <1>4, <3>1 DEF InRange
          <5>2. QED
            BY <2>2, <5>1
        <4>2. rpc'[r] = "answer" /\ row'[r] = x
          BY <1>2, <1>4, <3>1
        <4>3. QED
          BY <4>1, <4>2
      <3>2. CASE rpc' = [rpc EXCEPT ![r] = "fault"] /\ row' = row
        <4>1. rpc'[r] = "fault" /\ row'[r] = x
          BY <1>2, <1>4, <3>2
        <4>2. QED
          BY <4>1
      <3>3. CASE /\ row[r] <= Len(seen) /\ seen[row[r]].name # n
                 /\ row' = [row EXCEPT ![r] = @ + 1] /\ rpc' = rpc
        <4>1. rpc'[r] = "range" /\ row'[r] = x + 1 /\ x # p
          BY <1>1, <1>2, <1>4, <2>2, <3>3
        <4>2. QED
          BY <4>1
      <3>4. CASE /\ row[r] <= Len(seen) /\ seen[row[r]].name = n
                 /\ rpc' = [rpc EXCEPT ![r] = "fetch"] /\ row' = row
        <4>1. x \in 1 .. Len(seen)
          BY <1>4, <2>3, <3>4
        <4>2. rpc'[r] = "fetch" /\ row'[r] = x /\ x = p
          BY <1>2, <1>4, <2>4, <3>4, <4>1
        <4>3. QED
          BY <4>2
      <3>5. QED
        BY <1>4, <2>1, <3>1, <3>2, <3>3, <3>4 DEF Examine, seen
    <2>6. /\ y <= p => answer[r] = <<>>
          /\ y > p => Len(answer[r]) = 1 /\ answer[r][1] \in held[r]
      BY <2>2, <2>5
    <2>7. QED
      BY <1>1, <1>4, <1>5, <2>1, <2>2, <2>5, <2>6 DEF ReaderFinds, seen
  <1>6. rpc'[r] # "header" => view'[r].len >= 0
    BY <1>1, <1>3
  <1>7. QED
    BY <1>1, <1>5, <1>6, ReadGoesOn

\* The slice asked for again is the current one.
LEMMA RefetchKnows ==
  ASSUME ReadInv, NEW r \in Readers, Refetch(r)
  PROVE  ReaderKnows(r)'
  <1>1. /\ rpc[r] = "fetch" /\ UNCHANGED <<want, view, row, answer, held>>
        /\ UNCHANGED writerVars
        /\ rpc' = [rpc EXCEPT ![r] = "value"]
        /\ again' = [again EXCEPT ![r] = Len(arrays[want[r][1]])]
    BY DEF Refetch
  <1>2. rpc'[r] = "value" /\ again'[r] = Len(arrays[want[r][1]])
        /\ want[r][1] \in Kinds /\ want[r][2] \in Names
    BY <1>1 DEF ReadInv, AtomicInv, MemInv, MemTypeOK, ReaderTypeOK
  <1>3. view'[r].len >= 0
    <2>1. PICK k \in Kinds, n \in Names : want[r] = <<k, n>>
      BY DEF ReadInv, AtomicInv, MemInv, MemTypeOK, ReaderTypeOK
    <2>2. QED
      BY <1>1, <2>1 DEF ReadInv, ReaderKnows
  <1>4. ASSUME NEW k \in Kinds, NEW n \in Names, NEW p \in Nat, want[r] = <<k, n>>,
               Stored(k, n) \in held[r], Stored(k, n) = Array(k)[p].value,
               ReaderFinds(r, k, n, p)
        PROVE  ReaderFinds(r, k, n, p)'
    <2>1. arrays[k][again'[r]][p].value \in held[r] /\ arrays' = arrays
      BY <1>1, <1>2, <1>4 DEF Array, writerVars
    <2>2. QED
      BY <1>1, <1>2, <1>4, <2>1 DEF ReaderFinds
  <1>5. QED
    BY <1>1, <1>3, <1>4, ReadGoesOn

\* The value of the metric's row is the answer.
LEMMA WriteAnswerKnows ==
  ASSUME ReadInv, NEW r \in Readers, WriteAnswer(r)
  PROVE  ReaderKnows(r)'
  <1>1. PICK k \in Kinds, n \in Names : want[r] = <<k, n>>
    BY DEF ReadInv, AtomicInv, MemInv, MemTypeOK, ReaderTypeOK
  <1>2. PICK u : u = arrays[k][again[r]][row[r]].value
    OBVIOUS
  <1>3. /\ rpc[r] = "value" /\ UNCHANGED <<want, view, again, held>>
        /\ UNCHANGED writerVars
        /\ rpc' = [rpc EXCEPT ![r] = "range"]
        /\ row' = [row EXCEPT ![r] = @ + 1]
        /\ answer' = [answer EXCEPT ![r] = Append(@, u)]
    BY <1>1, <1>2 DEF WriteAnswer
  <1>4. PICK x \in Nat : /\ x = row[r] /\ row'[r] = x + 1 /\ rpc'[r] = "range"
                         /\ answer'[r] = Append(answer[r], u)
    BY <1>3 DEF ReadInv, AtomicInv, MemInv, MemTypeOK, ReaderTypeOK
  <1>5. view'[r].len >= 0
    BY <1>1, <1>3 DEF ReadInv, ReaderKnows
  <1>6. ASSUME NEW p \in Nat, ReaderFinds(r, k, n, p)
        PROVE  ReaderFinds(r, k, n, p)'
    <2>1. x = p /\ answer[r] = <<>> /\ u \in held[r]
      BY <1>2, <1>3, <1>4, <1>6 DEF ReaderFinds
    <2>2. Append(<<>>, u) = <<u>> /\ Len(<<u>>) = 1 /\ <<u>>[1] = u
      OBVIOUS
    <2>3. Len(answer'[r]) = 1 /\ answer'[r][1] \in held'[r] /\ row'[r] > p /\ ~(row'[r] <= p)
      BY <1>3, <1>4, <2>1, <2>2
    <2>4. arrays' = arrays
      BY <1>3 DEF writerVars
    <2>5. QED
      BY <1>3, <1>4, <1>6, <2>3, <2>4 DEF ReaderFinds
  <1>7. QED
    BY <1>1, <1>3, <1>4, <1>5, <1>6, ReadGoesOn

LEMMA ReaderStepKnows ==
  ASSUME ReadInv, MemInv', NEW r \in Readers, Reader(r)
  PROVE  ReaderKnows(r)'
  <1>1. CASE EndRead(r)
    <2>1. rpc'[r] = "idle"
      BY <1>1 DEF EndRead, ReadInv, AtomicInv, MemInv, MemTypeOK, ReaderTypeOK
    <2>2. QED
      BY <2>1 DEF ReaderKnows
  <1>2. QED
    BY <1>1, CallReadKnows, LoadHeaderKnows, ExamineKnows, RefetchKnows, WriteAnswerKnows
       DEF Reader

\* A step of the readers takes nothing from the others.
LEMMA OthersKnow ==
  ASSUME ReadInv, NEW r \in Readers, Reader(r), NEW q \in Readers, q # r
  PROVE  ReaderKnows(q)'
  <1>1. /\ rpc'[q] = rpc[q] /\ want'[q] = want[q] /\ view'[q] = view[q]
        /\ again'[q] = again[q] /\ row'[q] = row[q] /\ answer'[q] = answer[q]
        /\ held'[q] = held[q]
    BY OtherReaders
  <1>2. /\ arrays' = arrays
        /\ \A k, n : Stored(k, n)' = Stored(k, n) /\ Finished(k, n)' = Finished(k, n)
    BY ReaderLeavesWriters, SameMemory
  <1>3. \A k, n, p : ReaderFinds(q, k, n, p)' <=> ReaderFinds(q, k, n, p)
    BY <1>1, <1>2 DEF ReaderFinds
  <1>4. QED
    BY <1>1, <1>2, <1>3 DEF ReadInv, ReaderKnows

\* ReadInv is inductive.
LEMMA ReadInitInv == MemInit => ReadInv
  <1> SUFFICES ASSUME MemInit PROVE ReadInv
    OBVIOUS
  <1>1. AtomicInv
    BY AtomicInitInv
  <1>2. ArraysUnique
    BY DEF MemInit, ArraysUnique, NamedOnce
  <1>3. \A r \in Readers : ReaderKnows(r)
    BY DEF MemInit, ReaderKnows
  <1>4. QED
    BY <1>1, <1>2, <1>3 DEF ReadInv, MemInit

LEMMA ReadInvStep == ReadInv /\ [MemNext]_memVars => ReadInv'
  <1> SUFFICES ASSUME ReadInv, [MemNext]_memVars PROVE ReadInv'
    OBVIOUS
  <1>1. AtomicInv' /\ MemInv'
    BY AtomicStepInv DEF ReadInv, AtomicInv
  <1>2. ASSUME NEW c \in Callers, Writer(c) PROVE ReadInv'
    <2>1. RowsStay
      BY <1>2, WriterStays DEF ReadInv
    <2>2. WriterStep
      BY <1>2 DEF Writer, CallAdd, Lock, Lookup, Load, Update, Grow, Publish, Fill, Unlock
    <2>3. ArraysUnique'
      BY <1>1, <2>1, UniqueStays
    <2>4. \A r \in Readers : ReaderKnows(r)'
      BY <1>1, <2>1, <2>2, KnowsOn
    <2>5. DOMAIN held' = Readers
      BY <2>2 DEF WriterStep, Observe
    <2>6. QED
      BY <1>1, <2>3, <2>4, <2>5 DEF ReadInv
  <1>3. ASSUME NEW r \in Readers, Reader(r) PROVE ReadInv'
    <2>1. \A q \in Readers : ReaderKnows(q)'
      BY <1>1, <1>3, ReaderStepKnows, OthersKnow
    <2>2. ArraysUnique'
      <3>1. arrays' = arrays
        BY <1>3, ReaderLeavesWriters, SameMemory
      <3>2. QED
        BY <3>1 DEF ReadInv, ArraysUnique
    <2>3. DOMAIN held' = DOMAIN held
      BY <1>3 DEF Reader, CallRead, LoadHeader, Examine, Refetch, WriteAnswer, EndRead
    <2>4. QED
      BY <1>1, <2>1, <2>2, <2>3 DEF ReadInv
  <1>4. CASE UNCHANGED memVars
    <2>1. UNCHANGED writerVars /\ UNCHANGED readerVars /\ held' = held
      BY <1>4 DEF memVars
    <2>2. /\ arrays' = arrays
          /\ \A k, n : Stored(k, n)' = Stored(k, n) /\ Finished(k, n)' = Finished(k, n)
      BY <2>1, SameMemory
    <2>3. UNCHANGED <<rpc, want, view, again, row, answer>>
      BY <2>1 DEF readerVars
    <2>4. \A r, k, n, p : ReaderFinds(r, k, n, p)' <=> ReaderFinds(r, k, n, p)
      BY <2>1, <2>2, <2>3 DEF ReaderFinds
    <2>5. \A r \in Readers : ReaderKnows(r)'
      BY <2>1, <2>2, <2>3, <2>4 DEF ReadInv, ReaderKnows
    <2>6. ArraysUnique'
      BY <2>2 DEF ReadInv, ArraysUnique
    <2>7. QED
      BY <1>1, <2>1, <2>5, <2>6 DEF ReadInv
  <1>5. QED
    BY <1>2, <1>3, <1>4 DEF MemNext

\* A metric that is there all through a read is found once, with a value it had
\* meanwhile, for any names, values, writers and readers, and however often the
\* rows move (handlers.go, GetHandler and PostValue).
THEOREM ReadsAreStable == MemSpec => []StableReads
  <1>1. ReadInv => StableReads
    <2> SUFFICES ASSUME ReadInv, NEW r \in Readers, rpc[r] = "answer", Absent \notin held[r]
                 PROVE  Len(answer[r]) = 1 /\ answer[r][1] \in held[r]
      BY DEF StableReads
    <2>1. PICK k \in Kinds, n \in Names : want[r] = <<k, n>>
      BY DEF ReadInv, AtomicInv, MemInv, MemTypeOK, ReaderTypeOK
    <2>2. /\ Stored(k, n) # Absent
          /\ \A p \in Finished(k, n) : ReaderFinds(r, k, n, p)
      BY <2>1 DEF ReadInv, ReaderKnows
    <2>3. PICK p : p \in Finished(k, n)
      BY <2>2, StoredRow DEF StoredTells, ReadInv, AtomicInv
    <2>4. ReaderFinds(r, k, n, p)
      BY <2>2, <2>3
    <2>5. QED
      BY <2>4 DEF ReaderFinds
  <1>2. MemSpec => []ReadInv
    BY ReadInitInv, ReadInvStep, PTL DEF MemSpec
  <1>3. QED
    BY <1>1, <1>2, PTL
=============================================================================
