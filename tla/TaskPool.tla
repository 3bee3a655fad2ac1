------------------------------- MODULE TaskPool -------------------------------
(***************************************************************************)
(* What a pool of worker threads promises to the code that uses it         *)
(* (libfrog/workqueue.c as seen through workqueue_add and                  *)
(* workqueue_terminate): a task handed over is run once, after it was      *)
(* handed over; when the pool is closed nothing is left waiting or         *)
(* running; and every task handed over is run in the end.                  *)
(***************************************************************************)
EXTENDS FiniteSets

CONSTANT Tasks

VARIABLES
  waiting,   \* tasks handed over and not yet started
  running,   \* tasks whose function is executing
  finished,  \* tasks whose function has returned
  closed     \* the pool has been closed for good

poolVars == <<waiting, running, finished, closed>>

PoolInit ==
  /\ waiting = {}
  /\ running = {}
  /\ finished = {}
  /\ closed = FALSE

Submit(t) ==
  /\ ~closed
  /\ t \notin waiting \cup running \cup finished
  /\ waiting' = waiting \cup {t}
  /\ UNCHANGED <<running, finished, closed>>

\* The caller itself runs the task while it hands it over.
SubmitAndRun(t) ==
  /\ ~closed
  /\ t \notin waiting \cup running \cup finished
  /\ running' = running \cup {t}
  /\ UNCHANGED <<waiting, finished, closed>>

Finish(t) ==
  /\ t \in running
  /\ running' = running \ {t}
  /\ finished' = finished \cup {t}
  /\ UNCHANGED <<waiting, closed>>

Start(t) ==
  /\ t \in waiting
  /\ waiting' = waiting \ {t}
  /\ running' = running \cup {t}
  /\ UNCHANGED <<finished, closed>>

\* A worker returns from one task and takes the next in one step.
FinishAndStart(t, u) ==
  /\ t \in running
  /\ u \in waiting
  /\ running' = (running \ {t}) \cup {u}
  /\ finished' = finished \cup {t}
  /\ waiting' = waiting \ {u}
  /\ UNCHANGED closed

\* Only a drained pool is closed.
Close ==
  /\ waiting = {}
  /\ running = {}
  /\ closed' = TRUE
  /\ UNCHANGED <<waiting, running, finished>>

PoolNext ==
  \/ \E t \in Tasks : Submit(t) \/ SubmitAndRun(t) \/ Finish(t) \/ Start(t)
  \/ \E t \in Tasks, u \in Tasks : FinishAndStart(t, u)
  \/ Close

PoolSafety == PoolInit /\ [][PoolNext]_poolVars

PoolLiveness == \A t \in Tasks : (t \in waiting \cup running) ~> (t \in finished)

PoolSpec == PoolSafety /\ PoolLiveness
=============================================================================
