------------------------------ MODULE Metrics ------------------------------
(***************************************************************************)
(* Metrics and their values: what AddGauge and AddCounter do to a value    *)
(* (internal/repository/storage.go).                                       *)
(***************************************************************************)
EXTENDS Integers

CONSTANTS
    Names,        \* metric names
    GaugeValues,  \* values given to AddGauge (float64: any set will do)
    Deltas,       \* values given to AddCounter
    HalfRange,    \* a counter is an integer of -HalfRange .. HalfRange - 1
    Absent        \* "there is no such metric"

Kinds == {"gauge", "counter"}

ASSUME HalfRangeAssumption == HalfRange \in Nat \ {0}
ASSUME ValuesAssumption    ==
    /\ Deltas \subseteq -HalfRange .. HalfRange - 1
    /\ Absent \notin GaugeValues \cup Int

\* int64 arithmetic wraps around; HalfRange is 2^63 in the program.
Wrap(v) == ((v + HalfRange) % (2 * HalfRange)) - HalfRange

\* A gauge is overwritten, a counter accumulates.
Combine(kind, old, new) == IF kind = "gauge" THEN new ELSE Wrap(old + new)

\* What a row can hold; 0 is the zero value of a row that is not filled in.
Values(kind) == IF kind = "gauge" THEN GaugeValues \cup {0}
                                  ELSE -HalfRange .. HalfRange - 1

\* What a caller can pass.
Inputs(kind) == IF kind = "gauge" THEN GaugeValues ELSE Deltas

\* The arguments of a call: AddGauge(name, value) or AddCounter(name, value).
Calls == UNION {[kind : {k}, name : Names, value : Inputs(k)] : k \in Kinds}

\* There is something to call.
ASSUME CallsAssumption == Calls # {}
=============================================================================
