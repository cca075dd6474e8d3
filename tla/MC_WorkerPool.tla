--------------------------- MODULE MC_WorkerPool ---------------------------
(* An instance of WorkerPool for TLC. *)
EXTENDS WorkerPool
=============================================================================
