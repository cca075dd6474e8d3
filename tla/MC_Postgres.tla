---------------------------- MODULE MC_Postgres ----------------------------
(* Instances of Postgres for TLC. *)
EXTENDS Postgres, TLC
CONSTANTS r1, r2, n1, n2, null
C(n, v) == [kind |-> "counter", name |-> n, value |-> v]
G(n, v) == [kind |-> "gauge", name |-> n, value |-> v]
\* Two batches that lock the same two rows in opposite orders, a row written
\* twice, a batch that ends in an unknown type or a missing value, and single
\* updates.
MCBodies == {<<C(n1, 1), G(n2, 1)>>, <<G(n2, 2), C(n1, 1)>>,
             <<C(n1, 1), [kind |-> "other", name |-> n1, value |-> null]>>,
             <<C(n1, 1)>>}
MCManyBodies == MCBodies \cup {<<C(n1, -1), C(n1, 1)>>, <<G(n2, 1), G(n1, null)>>, <<C(n1, null)>>}
MCNames  == {n1, n2}
MCGauges == {1, 2}
MCDeltas == {1, -1}
=============================================================================
