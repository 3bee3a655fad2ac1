----------------------------- MODULE MCWorkQueue -----------------------------
(* A small instance of WorkQueue for TLC. *)
EXTENDS WorkQueue

\* Item 1 adds 2 and 3 to its own queue while it runs (the directory walk of
\* scrub/vfs.c); the others add nothing.
OneParent == [i \in Items |-> IF i = 1 THEN {2, 3} ELSE {}]
=============================================================================
