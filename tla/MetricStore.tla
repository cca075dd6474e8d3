---------------------------- MODULE MetricStore ----------------------------
(***************************************************************************)
(* What the in-memory metric storage promises to its callers.              *)
(*                                                                         *)
(* A metric is identified by its kind and its name.  A call that adds to   *)
(* a gauge replaces its value, a call that adds to a counter accumulates,  *)
(* and the first call creates the metric.  Calls of different goroutines   *)
(* overlap in time, but each takes effect once, in one step, between its   *)
(* invocation and its return.                                              *)
(*                                                                         *)
(* MemStorage is the implementation, with the lock, the slices and their   *)
(* backing arrays.                                                         *)
(***************************************************************************)
EXTENDS Metrics

CONSTANT Callers   \* goroutines that call AddGauge and AddCounter

VARIABLES
    store,   \* store[kind][name] is the value of a metric, or Absent
    phase,   \* phase[c]: "idle", "called" (not yet in effect) or "applied"
    call     \* call[c]: the arguments of c's latest call

storeVars == <<store, phase, call>>

Init ==
    /\ store = [k \in Kinds |-> [n \in Names |-> Absent]]
    /\ phase = [c \in Callers |-> "idle"]
    /\ call \in [Callers -> Calls]

Invoke(c) ==
    /\ phase[c] = "idle"
    /\ \E new \in Calls : call' = [call EXCEPT ![c] = new]
    /\ phase' = [phase EXCEPT ![c] = "called"]
    /\ UNCHANGED store

Apply(c) ==
    /\ phase[c] = "called"
    /\ LET k == call[c].kind
           n == call[c].name
           v == call[c].value
       IN  store' = [store EXCEPT ![k][n] =
                        IF @ = Absent THEN v ELSE Combine(k, @, v)]
    /\ phase' = [phase EXCEPT ![c] = "applied"]
    /\ UNCHANGED call

Return(c) ==
    /\ phase[c] = "applied"
    /\ phase' = [phase EXCEPT ![c] = "idle"]
    /\ UNCHANGED <<store, call>>

Next == \E c \in Callers : Invoke(c) \/ Apply(c) \/ Return(c)

Spec == Init /\ [][Next]_storeVars
=============================================================================
