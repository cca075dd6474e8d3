------------------------------ MODULE TaskPool ------------------------------
(***************************************************************************)
(* What a pool of workers promises: a task that is handed in is either     *)
(* refused at once or run exactly once, and after the pool has shut down   *)
(* no task is waiting or running.                                          *)
(*                                                                         *)
(* WorkerPool is the implementation.                                       *)
(***************************************************************************)
CONSTANT Tasks

VARIABLES
    fate,   \* fate[t]: "new", "refused", "waiting", "running" or "done"
    open    \* FALSE when the pool has shut down

Init ==
    /\ fate = [t \in Tasks |-> "new"]
    /\ open = TRUE

Becomes(t, from, to) ==
    /\ fate[t] = from
    /\ fate' = [fate EXCEPT ![t] = to]
    /\ UNCHANGED open

Refuse(t) == Becomes(t, "new", "refused")
Accept(t) == open /\ Becomes(t, "new", "waiting")
Begin(t)  == open /\ Becomes(t, "waiting", "running")
End(t)    == open /\ Becomes(t, "running", "done")

Close ==
    /\ open /\ \A t \in Tasks : fate[t] \notin {"waiting", "running"}
    /\ open' = FALSE
    /\ UNCHANGED fate

Next == Close \/ \E t \in Tasks : Refuse(t) \/ Accept(t) \/ Begin(t) \/ End(t)

Spec == Init /\ [][Next]_<<fate, open>>
=============================================================================
