------------------------------ MODULE WorkQueue ------------------------------
(***************************************************************************)
(* The thread pool of libfrog/workqueue.c.  Every field of struct          *)
(* workqueue that changes after creation is only touched under wq->lock,   *)
(* so one action is one critical section, from the lock (or the return of  *)
(* a condition wait) to the unlock (or the next wait).  A condition        *)
(* variable is the set of its waiters: a signal moves one out, a broadcast *)
(* all of them, and a waiter may leave by itself (spurious wakeup).        *)
(***************************************************************************)
EXTENDS Integers, Sequences, FiniteSets

CONSTANTS
  Workers,      \* the threads a pool may be created with
  Clients,      \* threads outside the pool that call workqueue_add
  Items,        \* the work items, one per call of workqueue_add
  NoItem,       \* the NULL item
  Kids,         \* [Items -> SUBSET Items]: items a function adds to its own queue
  Caps          \* values of max_queued; 0 means no cap

Threads == Workers \cup Clients

ASSUME WorkersAssumption == IsFiniteSet(Workers) /\ Workers \cap Clients = {}
ASSUME NoItemAssumption == NoItem \notin Items
ASSUME KidsAssumption == Kids \in [Items -> SUBSET Items]
ASSUME CapsAssumption == Caps \subseteq Nat

VARIABLES
  members,        \* the nr_workers threads that this pool is created with
  max_queued,     \* the cap that it is created with
  queue,          \* the list from next_item to last_item
  item_count,     \* the counter kept beside the list
  active_threads, \* the counter of workers that run a function
  wstate,         \* per worker: unborn, awake, asleep on wakeup, or exited
  item,           \* per worker: the item whose function it runs
  adding,         \* per thread: the item of a throttled workqueue_add
  queue_full,     \* threads waiting on the queue_full condition
  inline,         \* items run by the caller itself (no threads), innermost last
  istate,         \* per item: its history
  owner           \* where the creating thread is in the life of the queue

params == <<members, max_queued>>
pool == <<params, queue, item_count, active_threads>>
threads == <<wstate, item>>
adders == <<adding, queue_full, inline>>
vars == <<pool, threads, adders, istate, owner>>

thread_count == Cardinality(members)

\* The two flags of workqueue_terminate; workqueue_destroy clears both.
terminate == owner \in {"signal", "join", "terminated"}
terminated == owner = "terminated"

InUse == owner \in {"creating", "open", "signal", "join", "terminated"}

Sleepers == {w \in Workers : wstate[w] = "wakeup"}

\* Workers inside an item's function.
Busy == {w \in Workers : item[w] # NoItem}

TypeOK ==
  /\ members \in SUBSET Workers /\ max_queued \in Caps
  /\ queue \in Seq(Items)
  /\ item_count \in Nat
  /\ active_threads \in 0 .. thread_count
  /\ wstate \in [Workers -> {"unborn", "awake", "wakeup", "exited"}]
  /\ item \in [Workers -> Items \cup {NoItem}]
  /\ adding \in [Threads -> Items \cup {NoItem}]
  /\ queue_full \subseteq Threads
  /\ inline \in Seq(Items)
  /\ istate \in [Items -> {"new", "adding", "failed", "queued", "running", "done"}]
  /\ owner \in {"creating", "open", "signal", "join", "terminated", "destroyed",
                "aborted"}

Init ==
  /\ members \in SUBSET Workers /\ max_queued \in Caps
  /\ queue = <<>> /\ item_count = 0 /\ active_threads = 0
  /\ wstate = [w \in Workers |-> "unborn"]
  /\ item = [w \in Workers |-> NoItem]
  /\ adding = [t \in Threads |-> NoItem]
  /\ queue_full = {} /\ inline = <<>>
  /\ istate = [i \in Items |-> "new"]
  /\ owner = "creating"

-----------------------------------------------------------------------------
(* workqueue_create_bound and workqueue_destroy *)

CreateThread(w) ==
  /\ owner = "creating" /\ w \in members /\ wstate[w] = "unborn"
  /\ wstate' = [wstate EXCEPT ![w] = "awake"]
  /\ UNCHANGED <<pool, item, adders, istate, owner>>

CreateDone ==
  /\ owner = "creating" /\ \A w \in members : wstate[w] # "unborn"
  /\ owner' = "open"
  /\ UNCHANGED <<pool, threads, adders, istate>>

\* assert(wq->terminated), then the structure is torn down and zeroed.
Destroy ==
  /\ owner' = IF terminated THEN "destroyed" ELSE "aborted"
  /\ queue' = <<>> /\ item_count' = 0 /\ active_threads' = 0
  /\ UNCHANGED <<params, threads, adders, istate>>

\* pthread_create returns an error: the queue is destroyed.
CreateFails ==
  /\ owner = "creating" /\ \E w \in members : wstate[w] = "unborn"
  /\ Destroy

DestroyTerminated == terminated /\ Destroy

-----------------------------------------------------------------------------
(* workqueue_add *)

\* The innermost function a thread executes, or NoItem.
Executing(t) ==
  IF t \in Workers THEN item[t]
                   ELSE IF inline = <<>> THEN NoItem ELSE inline[Len(inline)]

\* Functions that add to their own queue are used on queues without a cap only
\* (scrub/vfs.c): a worker that met the cap would wait for itself.
KidsOf(i) == IF max_queued = 0 THEN Kids[i] ELSE {}

\* Items that no other item's function adds: the clients add these.
Roots == {i \in Items : \A j \in Items : i \notin KidsOf(j)}

\* The items a thread may pass to workqueue_add now.
Offers(t) ==
  {i \in Items : /\ istate[i] = "new"
                 /\ IF Executing(t) # NoItem THEN i \in KidsOf(Executing(t))
                    ELSE t \in Clients /\ owner = "open" /\ i \in Roots}

\* An empty queue is never full, whatever the counter says.
QueueIsFull == queue # <<>> /\ max_queued > 0 /\ item_count = max_queued

\* Mutant: one signal per item, however many threads are idle.
SignalOnly == IF Sleepers = {} THEN {{}} ELSE {{w} : w \in Sleepers}

\* The sets of workers that queueing one item may wake: a signal when one thread
\* is idle, a broadcast when several are, nothing when all run functions.
WakeSets ==
  IF active_threads = thread_count - 1
    THEN IF Sleepers = {} THEN {{}} ELSE {{w} : w \in Sleepers}
    ELSE IF active_threads < thread_count THEN {Sleepers} ELSE {{}}

Wake(W) == wstate' = [w \in Workers |-> IF w \in W THEN "awake" ELSE wstate[w]]

\* Under the lock: wait on a full queue, else link the item and wake workers.
Put(t, i) ==
  IF QueueIsFull
    THEN /\ queue_full' = queue_full \cup {t}
         /\ adding' = [adding EXCEPT ![t] = i]
         /\ istate' = [istate EXCEPT ![i] = "adding"]
         /\ UNCHANGED <<pool, threads>>
    ELSE /\ queue' = Append(queue, i)
         /\ item_count' = item_count + 1
         /\ \E W \in WakeSets : Wake(W)
         /\ adding' = [adding EXCEPT ![t] = NoItem]
         /\ istate' = [istate EXCEPT ![i] = "queued"]
         /\ UNCHANGED <<params, active_threads, item, queue_full>>

Add(t, i) ==
  /\ thread_count > 0
  /\ adding[t] = NoItem /\ i \in Offers(t)
  /\ Put(t, i)
  /\ UNCHANGED <<inline, owner>>

\* pthread_cond_wait(&wq->queue_full) has returned: goto restart.
AddRestart(t) ==
  /\ InUse /\ adding[t] # NoItem /\ t \notin queue_full
  /\ Put(t, adding[t])
  /\ UNCHANGED <<inline, owner>>

\* malloc fails: an error is returned and the item is never queued.
AddNoMemory(t, i) ==
  /\ thread_count > 0
  /\ adding[t] = NoItem /\ i \in Offers(t)
  /\ istate' = [istate EXCEPT ![i] = "failed"]
  /\ UNCHANGED <<pool, threads, adders, owner>>

\* Without threads the function is called before workqueue_add returns.
AddInline(t, i) ==
  /\ thread_count = 0
  /\ i \in Offers(t)
  /\ inline' = Append(inline, i)
  /\ istate' = [istate EXCEPT ![i] = "running"]
  /\ UNCHANGED <<pool, threads, adding, queue_full, owner>>

InlineReturn ==
  /\ inline # <<>>
  /\ istate' = [istate EXCEPT ![inline[Len(inline)]] = "done"]
  /\ inline' = SubSeq(inline, 1, Len(inline) - 1)
  /\ UNCHANGED <<pool, threads, adding, queue_full, owner>>

-----------------------------------------------------------------------------
(* workqueue_thread *)

\* Just started, woken, or back from a function: the worker holds the lock at the
\* top of its loop.
AtLoopTop(w) == InUse /\ wstate[w] = "awake" /\ adding[w] = NoItem

\* Mutant: active_threads-- is forgotten.
ActiveKept(w) == active_threads

\* active_threads and the items' history once the returned function, if there
\* was one, is accounted for.
ActiveAtTop(w) == IF item[w] = NoItem THEN active_threads ELSE active_threads - 1

HistoryAtTop(w) ==
  IF item[w] = NoItem THEN istate ELSE [istate EXCEPT ![item[w]] = "done"]

\* Mutant: leave on terminate without looking at the queue.
LeavesEarly(w) == AtLoopTop(w) /\ terminate

LeavesLoop(w) == AtLoopTop(w) /\ queue = <<>> /\ terminate

\* The worker has nothing to run: it goes to sleep, or leaves the loop for good.
WorkerIdle(w) ==
  /\ \/ /\ AtLoopTop(w) /\ queue = <<>> /\ ~terminate
        /\ wstate' = [wstate EXCEPT ![w] = "wakeup"]
     \/ /\ LeavesLoop(w)
        /\ wstate' = [wstate EXCEPT ![w] = "exited"]
  /\ active_threads' = ActiveAtTop(w)
  /\ istate' = HistoryAtTop(w)
  /\ item' = [item EXCEPT ![w] = NoItem]
  /\ UNCHANGED <<params, queue, item_count, adders, owner>>

\* Mutants: nobody is woken; the head of the list is not unlinked.
NobodyThrottledWoken == queue_full

HeadKept == queue

\* The threads that still wait on queue_full after a dequeue.
StillThrottled == IF max_queued > 0 THEN {} ELSE queue_full

Unlinked == Tail(queue)

WorkerDequeue(w) ==
  /\ AtLoopTop(w) /\ queue # <<>>
  /\ queue_full' = StillThrottled
  /\ queue' = Unlinked
  /\ item_count' = item_count - 1
  /\ active_threads' = ActiveAtTop(w) + 1
  /\ item' = [item EXCEPT ![w] = Head(queue)]
  /\ istate' = [HistoryAtTop(w) EXCEPT ![Head(queue)] = "running"]
  /\ UNCHANGED <<params, wstate, adding, inline, owner>>

\* pthread_cond_wait may return without a signal.
SpuriousWakeup(w) ==
  /\ InUse /\ wstate[w] = "wakeup" /\ Wake({w})
  /\ UNCHANGED <<pool, item, adders, istate, owner>>

SpuriousQueueFull(t) ==
  /\ InUse /\ t \in queue_full /\ queue_full' = queue_full \ {t}
  /\ UNCHANGED <<pool, threads, adding, inline, istate, owner>>

-----------------------------------------------------------------------------
(* workqueue_terminate *)

\* Its callers have stopped the clients by then (scrub/inodes.c terminates the
\* queue that feeds this one first).
Terminate ==
  /\ owner = "open" /\ inline = <<>>
  /\ \A t \in Clients : adding[t] = NoItem
  /\ owner' = "signal"
  /\ UNCHANGED <<pool, threads, adders, istate>>

\* Mutant: nobody is woken.
NobodyWoken == {}

WokenByTerminate == Sleepers

\* The broadcast comes after the unlock.
TerminateBroadcast ==
  /\ owner = "signal" /\ owner' = "join"
  /\ Wake(WokenByTerminate)
  /\ UNCHANGED <<pool, item, adders, istate>>

TerminateJoined ==
  /\ owner = "join" /\ \A w \in members : wstate[w] = "exited"
  /\ owner' = "terminated"
  /\ UNCHANGED <<pool, threads, adders, istate>>

-----------------------------------------------------------------------------
\* A failed assert has ended the process, or the queue is gone.
Finished == ~InUse /\ UNCHANGED vars

WorkerStep(w) == WorkerIdle(w) \/ WorkerDequeue(w)

OwnerStep ==
  \/ \E w \in Workers : CreateThread(w)
  \/ CreateDone
  \/ TerminateBroadcast
  \/ TerminateJoined
  \/ DestroyTerminated

Next ==
  \/ OwnerStep
  \/ CreateFails
  \/ Terminate
  \/ \E w \in Workers : WorkerStep(w) \/ SpuriousWakeup(w)
  \/ \E t \in Threads : AddRestart(t) \/ SpuriousQueueFull(t)
  \/ \E t \in Threads, i \in Items : Add(t, i) \/ AddNoMemory(t, i) \/ AddInline(t, i)
  \/ InlineReturn
  \/ Finished

\* Every thread that can run is scheduled in the end and gets the lock it asks
\* for, and an item's function returns.  Nothing makes a client add an item or
\* the owner terminate the queue.
Fairness ==
  /\ \A w \in Workers : WF_vars(WorkerStep(w))
  /\ \A t \in Threads : WF_vars(AddRestart(t))
  /\ WF_vars(OwnerStep)
  /\ WF_vars(InlineReturn)

Spec == Init /\ [][Next]_vars

FairSpec == Spec /\ Fairness

-----------------------------------------------------------------------------
\* item_count and active_threads, the counters that workqueue_add and
\* workqueue_thread decide on, agree with the list and with the threads (what the
\* asserts on item_count rely on).
CountersAgree ==
  InUse => /\ item_count = Len(queue)
           /\ active_threads = Cardinality(Busy)

\* The signal-or-broadcast choice of workqueue_add loses no wakeup: while an item
\* is queued no worker is asleep, so no item waits for a busy worker while
\* another one sleeps.
NoSleeperWhileQueued == InUse /\ queue # <<>> => Sleepers = {}

\* Throttling: the queue never grows past max_queued, and a thread sleeps on
\* queue_full only while the queue is full (no dequeue forgets to wake it).
Throttled ==
  /\ max_queued > 0 /\ InUse => Len(queue) <= max_queued
  /\ queue_full # {} => Len(queue) = max_queued

\* workqueue_terminate returns only when every item ever accepted has been run to
\* its end, the ones that workers added while it waited included ("Wait for all
\* pending work items to be processed").
DrainedAtTerminate ==
  owner \in {"terminated", "destroyed"} =>
    \A i \in Items : istate[i] \in {"new", "failed", "done"}

\* An item's function is started at most once and an item is never forgotten: its
\* history only goes from queued to running to done, and a worker only takes an
\* item that nobody has taken.
RunsOnceStep ==
  /\ \A i \in Items :
       /\ istate[i] = "queued" => istate'[i] \in {"queued", "running"}
       /\ istate[i] = "running" => istate'[i] \in {"running", "done"}
       /\ istate[i] \in {"done", "failed"} => istate'[i] = istate[i]
  /\ \A w \in Workers :
       item'[w] \notin {NoItem, item[w]} => istate[item'[w]] = "queued"

\* The same as a property of every step.
RunsOnce == [][RunsOnceStep]_vars

\* A throttled caller of workqueue_add gets its item queued in the end.
AddReturns == \A t \in Threads : (adding[t] # NoItem) ~> (adding[t] = NoItem)

\* workqueue_terminate returns: no worker misses the broadcast sent after the unlock.
TerminateReturns == (owner = "signal") ~> (owner = "terminated")

\* The queue as its users see it.
Pool == INSTANCE TaskPool WITH
          Tasks <- Items,
          waiting <- {i \in Items : istate[i] = "queued"},
          running <- {i \in Items : istate[i] = "running"},
          finished <- {i \in Items : istate[i] = "done"},
          closed <- owner \in {"terminated", "destroyed"}

\* workqueue.c implements the abstract pool: run once, drained at close, and every
\* queued item is run in the end.
ImplementsPool == Pool!PoolSpec

\* The safety half of the same statement.
ImplementsPoolSafely == Pool!PoolSafety
=============================================================================
