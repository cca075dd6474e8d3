----------------------------- MODULE BatchStore -----------------------------
(***************************************************************************)
(* What the server promises in the database mode: a request that updates   *)
(* metrics, be it one metric or a batch, takes effect at most once, as a   *)
(* whole and in one step, or not at all.  The data outlives the server.    *)
(***************************************************************************)
EXTENDS Metrics, Sequences, SequencesExt

CONSTANTS
    Requests,   \* update requests
    Bodies      \* what a request may carry: sequences of rows

VARIABLES
    db,        \* db[kind][name]: the value of a metric, or Absent
    body,      \* body[r]: the rows of request r
    applied    \* the requests that have taken effect

storeVars == <<db, body, applied>>

\* A row on top of the values s: INSERT ... ON CONFLICT DO UPDATE.
Upsert(s, row) ==
    [s EXCEPT ![row.kind][row.name] =
        IF @ = Absent THEN row.value ELSE Combine(row.kind, @, row.value)]

Result(s, rows) == FoldLeft(Upsert, s, rows)

Init ==
    /\ db = [k \in Kinds |-> [n \in Names |-> Absent]]
    /\ body \in [Requests -> Bodies]
    /\ applied = {}

Apply(r) ==
    /\ r \notin applied
    /\ \A i \in DOMAIN body[r] : body[r][i] \in Calls
    /\ db' = Result(db, body[r])
    /\ applied' = applied \cup {r}
    /\ UNCHANGED body

Next == \E r \in Requests : Apply(r)

Spec == Init /\ [][Next]_storeVars
=============================================================================
