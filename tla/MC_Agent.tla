------------------------------ MODULE MC_Agent ------------------------------
(* Instances of Agent for TLC. *)
EXTENDS Agent, TLC
\* Success, and errors that are retried: the metrics did not arrive, or only the
\* answer did not.  After an attempt in which one of the two requests succeeds
\* there is no retry, as after "4xx" and "5xx", which the run leaves out; the
\* proofs are for every set of outcomes.
MCOutcomes == {"ok", "lost", "late"}
=============================================================================
