------------------------------ MODULE MCCache ------------------------------
(* A small instance of Cache: all keys in one bucket. *)
EXTENDS Cache

OneBucket == [k \in Keys |-> CHOOSE b \in Buckets : TRUE]
AllConflicts == {p \in Keys \X Keys : p[1] # p[2]}

\* Each thread gets two nodes, one after the other: the second lookup runs beside
\* shakes of lists that are not empty.
TwoGets == [t \in Threads |-> 2]
=============================================================================
