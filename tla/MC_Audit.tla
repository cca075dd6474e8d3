------------------------------ MODULE MC_Audit ------------------------------
(* Instances of Audit for TLC. *)
EXTENDS Audit, TLC
CONSTANTS r1, r2
=============================================================================
