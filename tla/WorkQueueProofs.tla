--------------------------- MODULE WorkQueueProofs ---------------------------
(***************************************************************************)
(* Proofs about WorkQueue, for any number of workers, clients and items    *)
(* and any cap on the queue.                                               *)
(***************************************************************************)
EXTENDS WorkQueue, TLAPS, FiniteSetTheorems, SequenceTheorems

-----------------------------------------------------------------------------
(* The inductive invariant of the counters and of the two conditions. *)

\* Only members of the pool are ever started; a worker inside a function is neither
\* asleep nor gone, and only such a worker can be throttled inside workqueue_add.
BusyAwake ==
  /\ \A w \in Workers \ members : wstate[w] = "unborn"
  /\ \A w \in Workers : item[w] # NoItem => wstate[w] = "awake"
  /\ \A w \in Workers : adding[w] # NoItem => item[w] # NoItem
  /\ active_threads = 0 \/ InUse

\* Only a thread inside workqueue_add waits on queue_full, and only with a cap.
ThrottledAdding ==
  /\ \A t \in queue_full : adding[t] # NoItem
  /\ queue_full # {} => max_queued > 0 /\ InUse

\* Once the owner terminates the queue no client is inside workqueue_add; all
\* workers exist once it is open and have left once it is terminated; and the
\* caller runs functions itself only without workers.
ClientsGone ==
  /\ owner \in {"creating", "signal", "join", "terminated", "destroyed", "aborted"} =>
       \A t \in Clients : adding[t] = NoItem
  /\ owner \in {"terminated", "destroyed"} =>
       \A w \in members : wstate[w] = "exited"
  /\ \A w \in members : wstate[w] = "unborn" => owner \in {"creating", "aborted"}
  /\ owner \in {"creating", "aborted"} => queue = <<>> /\ \A w \in Workers : item[w] = NoItem
  /\ inline # <<>> => owner = "open" /\ members = {}

CounterInv ==
  /\ TypeOK
  /\ CountersAgree
  /\ NoSleeperWhileQueued
  /\ Throttled
  /\ BusyAwake
  /\ ThrottledAdding
  /\ ClientsGone

USE DEF thread_count

\* The number of members is a natural number.
LEMMA ThreadCountType ==
  ASSUME members \in SUBSET Workers
  PROVE  IsFiniteSet(members) /\ thread_count \in Nat
BY WorkersAssumption, FS_CardinalityType, FS_Subset

\* Busy workers are counted by a number between 0 and thread_count, and when none
\* or only one worker is missing from them the others are known.
LEMMA BusyCount ==
  ASSUME members \in SUBSET Workers, NEW B \in SUBSET members
  PROVE  /\ IsFiniteSet(B)
         /\ Cardinality(B) \in 0 .. thread_count
         /\ Cardinality(B) = thread_count => B = members
         /\ Cardinality(B) = thread_count - 1 =>
              \A v, w \in members \ B : v = w
<1>1. IsFiniteSet(B) /\ Cardinality(B) <= thread_count
      /\ (thread_count = Cardinality(B) => members = B)
  BY ThreadCountType, FS_Subset
<1>2. Cardinality(B) \in Nat
  BY <1>1, FS_CardinalityType
<1>3. ASSUME Cardinality(B) = thread_count - 1,
             NEW v \in members \ B, NEW w \in members \ B, v # w
      PROVE  FALSE
  <2>1. IsFiniteSet(B \cup {v}) /\ Cardinality(B \cup {v}) = thread_count
    BY <1>1, <1>2, <1>3, ThreadCountType, FS_AddElement
  <2>2. B \cup {v} = members
    BY <2>1, ThreadCountType, FS_Subset
  <2> QED
    BY <2>2, <1>3
<1> QED
  BY <1>1, <1>2, <1>3, ThreadCountType

\* The bookkeeping at the top of the worker's loop: what a worker that was inside
\* a function takes away from the count of busy workers, and what a dequeue adds.
LEMMA LoopTopCount ==
  ASSUME CounterInv, NEW w \in Workers, AtLoopTop(w)
  PROVE  /\ ActiveAtTop(w) = Cardinality(Busy \ {w})
         /\ ActiveAtTop(w) \in 0 .. thread_count - 1
         /\ Cardinality((Busy \ {w}) \cup {w}) = ActiveAtTop(w) + 1
<1> DEFINE B == Busy \ {w}
<1>0. members \in SUBSET Workers /\ w \in members
  BY DEF CounterInv, TypeOK, BusyAwake, AtLoopTop
<1>1. Busy \in SUBSET members /\ B \in SUBSET members /\ B \cup {w} \in SUBSET members
  BY <1>0 DEF Busy, CounterInv, BusyAwake
<1>2. active_threads = Cardinality(Busy)
  BY DEF CounterInv, CountersAgree, AtLoopTop
<1>3. IsFiniteSet(Busy) /\ IsFiniteSet(B) /\ Cardinality(Busy) \in Nat
      /\ Cardinality(B) \in Nat /\ Cardinality(B \cup {w}) <= thread_count
  BY <1>0, <1>1, BusyCount, ThreadCountType
<1>4. Cardinality(B) = IF w \in Busy THEN Cardinality(Busy) - 1 ELSE Cardinality(Busy)
  BY <1>3, FS_RemoveElement
<1>5. Cardinality(B \cup {w}) = Cardinality(B) + 1
  BY <1>3, FS_AddElement
<1>6. w \in Busy <=> item[w] # NoItem
  BY DEF Busy
<1> QED
  BY <1>0, <1>2, <1>3, <1>4, <1>5, <1>6, ThreadCountType DEF ActiveAtTop

\* Waking the workers that queueing an item wakes leaves no worker asleep.
LEMMA WakeSetsSuffice ==
  ASSUME CounterInv, InUse, NEW W \in WakeSets
  PROVE  W \subseteq Sleepers /\ Sleepers \ W = {}
<1>1. members \in SUBSET Workers /\ Busy \in SUBSET members /\ Sleepers \subseteq members \ Busy
  BY DEF Busy, Sleepers, CounterInv, TypeOK, BusyAwake
<1>2. active_threads = Cardinality(Busy)
  BY DEF CounterInv, CountersAgree
<1>3. CASE active_threads = thread_count - 1
  <2>1. \A v, w \in Sleepers : v = w
    BY <1>1, <1>2, <1>3, BusyCount
  <2> QED
    BY <1>3, <2>1 DEF WakeSets
<1>4. CASE active_threads # thread_count - 1 /\ active_threads < thread_count
  BY <1>4 DEF WakeSets
<1>5. CASE active_threads # thread_count - 1 /\ ~(active_threads < thread_count)
  <2>1. Cardinality(Busy) = thread_count
    BY <1>1, <1>2, <1>5, BusyCount, ThreadCountType
  <2>2. Sleepers = {}
    BY <1>1, <2>1, BusyCount
  <2> QED
    BY <1>5, <2>2 DEF WakeSets
<1> QED
  BY <1>3, <1>4, <1>5

LEMMA CounterInit == Init => CounterInv
<1> SUFFICES ASSUME Init PROVE CounterInv
  OBVIOUS
<1>1. Busy = {} /\ Sleepers = {} /\ InUse
  BY DEF Init, Busy, Sleepers, InUse
<1>2. TypeOK
  BY ThreadCountType DEF Init, TypeOK
<1>3. CountersAgree
  BY <1>1, FS_EmptySet DEF Init, CountersAgree
<1>4. NoSleeperWhileQueued /\ Throttled
  BY <1>1, CapsAssumption DEF Init, NoSleeperWhileQueued, Throttled
<1>5. BusyAwake /\ ThrottledAdding /\ ClientsGone
  BY <1>1 DEF Init, BusyAwake, ThrottledAdding, ClientsGone, Threads
<1> QED
  BY <1>2, <1>3, <1>4, <1>5 DEF CounterInv

\* workqueue_add under the lock, called by a client or from a function.
LEMMA PutCounters ==
  ASSUME CounterInv, InUse, NEW t \in Threads, NEW i \in Items, Put(t, i),
         t \in Workers => item[t] # NoItem,
         t \in Clients => owner = "open",
         UNCHANGED <<inline, owner>>
  PROVE  CounterInv'
<1> USE DEF CounterInv
<1>0. InUse' /\ i # NoItem /\ max_queued \in Nat
  BY NoItemAssumption, CapsAssumption DEF InUse, TypeOK
<1>1. CASE QueueIsFull
  <2>1. /\ UNCHANGED <<members, max_queued, queue, item_count, active_threads, wstate, item, inline, owner>>
        /\ queue_full' = queue_full \cup {t}
        /\ adding' = [adding EXCEPT ![t] = i]
        /\ istate' = [istate EXCEPT ![i] = "adding"]
    BY <1>1 DEF Put, params, pool, threads
  <2>2. TypeOK'
    BY <2>1 DEF TypeOK
  <2>3. CountersAgree' /\ NoSleeperWhileQueued'
    BY <2>1 DEF CountersAgree, NoSleeperWhileQueued, InUse, Busy, Sleepers
  <2>4. Throttled'
    BY <2>1, <1>1 DEF Throttled, QueueIsFull, CountersAgree, InUse
  <2>5. BusyAwake' /\ ThrottledAdding'
    BY <2>1, <1>0, <1>1 DEF TypeOK, BusyAwake, ThrottledAdding, QueueIsFull, Threads, InUse
  <2>6. ClientsGone'
    BY <2>1, WorkersAssumption DEF TypeOK, ClientsGone, Threads
  <2> QED
    BY <2>2, <2>3, <2>4, <2>5, <2>6
<1>2. CASE ~QueueIsFull
  <2>1. /\ UNCHANGED <<members, max_queued, active_threads, item, queue_full, inline, owner>>
        /\ queue' = Append(queue, i)
        /\ item_count' = item_count + 1
        /\ adding' = [adding EXCEPT ![t] = NoItem]
        /\ istate' = [istate EXCEPT ![i] = "queued"]
    BY <1>2 DEF Put, params
  <2>2. PICK W \in WakeSets : Wake(W)
    BY <1>2 DEF Put, params
  <2>3. W \subseteq Sleepers /\ Sleepers \ W = {}
    BY <2>2, WakeSetsSuffice
  <2>4. wstate' = [w \in Workers |-> IF w \in W THEN "awake" ELSE wstate[w]]
    BY <2>2 DEF Wake
  <2>5. queue' \in Seq(Items) /\ Len(queue') = Len(queue) + 1
    BY <2>1, AppendProperties DEF TypeOK
  <2>6. Len(queue) \in Nat
    BY LenProperties DEF TypeOK
  <2>7. TypeOK'
    BY <2>1, <2>4, <2>5 DEF TypeOK
  <2>8. CountersAgree'
    BY <2>1, <2>5 DEF CountersAgree, InUse, Busy
  <2>9. Sleepers' = {}
    BY <2>3, <2>4 DEF Sleepers
  <2>10. NoSleeperWhileQueued'
    BY <2>9 DEF NoSleeperWhileQueued
  <2>11. queue_full = {}
    <3>1. SUFFICES ASSUME queue_full # {} PROVE FALSE
      OBVIOUS
    <3>2. Len(queue) = max_queued /\ max_queued > 0 /\ item_count = Len(queue)
      BY <3>1 DEF Throttled, ThrottledAdding, CountersAgree
    <3>3. queue # <<>>
      BY <1>0, <3>2, EmptySeq
    <3> QED
      BY <3>2, <3>3, <1>2 DEF QueueIsFull
  <2>12. max_queued > 0 => Len(queue) + 1 <= max_queued
    <3>1. CASE queue = <<>>
      BY <1>0, <3>1, EmptySeq
    <3>2. CASE queue # <<>>
      BY <1>0, <3>2, <1>2, <2>6 DEF QueueIsFull, Throttled, CountersAgree
    <3> QED
      BY <3>1, <3>2
  <2>13. Throttled' /\ ThrottledAdding'
    BY <2>1, <2>5, <2>11, <2>12 DEF Throttled, ThrottledAdding
  <2>14. BusyAwake'
    BY <2>1, <2>3, <2>4, <1>0 DEF TypeOK, BusyAwake, Sleepers, InUse, Threads
  <2>15. ClientsGone'
    BY <2>1, <2>3, <2>4 DEF TypeOK, ClientsGone, Sleepers, Threads
  <2> QED
    BY <2>7, <2>8, <2>10, <2>13, <2>14, <2>15
<1> QED
  BY <1>1, <1>2

\* What a thread that offers an item is: a worker inside a function, or a client
\* of an open queue, or the caller of a function on its own stack.
LEMMA OffersOpen ==
  ASSUME CounterInv, NEW t \in Threads, NEW i \in Offers(t), thread_count > 0
  PROVE  /\ i \in Items /\ istate[i] = "new"
         /\ InUse
         /\ t \in Workers => item[t] # NoItem
         /\ t \in Clients => owner = "open"
<1>1. members # {}
  BY FS_EmptySet
<1>2. inline = <<>>
  BY <1>1 DEF CounterInv, ClientsGone
<1>3. t \in Workers => item[t] # NoItem
  BY WorkersAssumption DEF Offers, Executing
<1>4. t \in Clients => owner = "open"
  BY <1>2, WorkersAssumption DEF Offers, Executing
<1>5. InUse
  <2>1. CASE t \in Clients
    BY <1>4, <2>1 DEF InUse
  <2>2. CASE t \in Workers
    BY <1>3, <2>2 DEF CounterInv, ClientsGone, BusyAwake, TypeOK, InUse
  <2> QED
    BY <2>1, <2>2 DEF Threads
<1> QED
  BY <1>3, <1>4, <1>5 DEF Offers

LEMMA CounterNext == CounterInv /\ [Next]_vars => CounterInv'
<1> SUFFICES ASSUME CounterInv, [Next]_vars PROVE CounterInv'
  OBVIOUS
<1> USE DEF CounterInv
<1>0. IsFiniteSet(members) /\ thread_count \in Nat /\ max_queued \in Nat
  BY ThreadCountType, CapsAssumption DEF TypeOK
<1>1. ASSUME NEW w \in Workers, CreateThread(w) PROVE CounterInv'
  <2>1. /\ UNCHANGED <<members, max_queued, queue, item_count, active_threads, item, adding, queue_full,
                       inline, istate, owner>>
        /\ w \in members /\ wstate[w] = "unborn" /\ wstate' = [wstate EXCEPT ![w] = "awake"]
    BY <1>1 DEF CreateThread, params, pool, adders
  <2>2. TypeOK' /\ CountersAgree' /\ Throttled' /\ ThrottledAdding'
    BY <2>1 DEF TypeOK, CountersAgree, Throttled, ThrottledAdding, InUse, Busy
  <2>3. NoSleeperWhileQueued' /\ BusyAwake' /\ ClientsGone'
    BY <2>1 DEF TypeOK, NoSleeperWhileQueued, BusyAwake, ClientsGone, InUse, Sleepers
  <2> QED
    BY <2>2, <2>3
<1>2. CASE CreateDone \/ Terminate
  <2>1. /\ UNCHANGED <<members, max_queued, queue, item_count, active_threads, wstate, item, adding,
                       queue_full, inline, istate>>
        /\ InUse /\ owner' \in {"open", "signal"}
        /\ owner' = "signal" => inline = <<>> /\ \A t \in Clients : adding[t] = NoItem
        /\ owner = "creating" => \A w \in members : wstate[w] # "unborn"
        /\ owner \in {"creating", "open"}
    BY <1>2 DEF CreateDone, Terminate, params, pool, threads, adders, InUse
  <2>2. InUse'
    BY <2>1 DEF InUse
  <2>3. TypeOK' /\ CountersAgree' /\ NoSleeperWhileQueued' /\ Throttled'
    BY <2>1, <2>2 DEF TypeOK, CountersAgree, NoSleeperWhileQueued, Throttled, Busy,
                      Sleepers
  <2>4. BusyAwake' /\ ThrottledAdding' /\ ClientsGone'
    BY <2>1, <2>2 DEF TypeOK, BusyAwake, ThrottledAdding, ClientsGone
  <2> QED
    BY <2>3, <2>4
<1>3. CASE TerminateBroadcast
  <2>1. /\ UNCHANGED <<members, max_queued, queue, item_count, active_threads, item, adding, queue_full,
                       inline, istate>>
        /\ owner = "signal" /\ owner' = "join" /\ InUse /\ InUse'
        /\ wstate' = [w \in Workers |-> IF w \in Sleepers THEN "awake" ELSE wstate[w]]
    BY <1>3 DEF TerminateBroadcast, params, pool, adders, InUse, Wake, WokenByTerminate
  <2>2. TypeOK' /\ CountersAgree' /\ Throttled' /\ ThrottledAdding'
    BY <2>1 DEF TypeOK, CountersAgree, Throttled, ThrottledAdding, Busy
  <2>3. NoSleeperWhileQueued' /\ BusyAwake' /\ ClientsGone'
    BY <2>1 DEF TypeOK, NoSleeperWhileQueued, BusyAwake, ClientsGone, Sleepers
  <2> QED
    BY <2>2, <2>3
<1>4. CASE TerminateJoined
  <2>1. /\ UNCHANGED <<members, max_queued, queue, item_count, active_threads, wstate, item, adding,
                       queue_full, inline, istate>>
        /\ owner = "join" /\ owner' = "terminated" /\ InUse /\ InUse'
        /\ \A w \in members : wstate[w] = "exited"
    BY <1>4 DEF TerminateJoined, params, pool, threads, adders, InUse
  <2>2. TypeOK' /\ CountersAgree' /\ NoSleeperWhileQueued' /\ Throttled'
    BY <2>1 DEF TypeOK, CountersAgree, NoSleeperWhileQueued, Throttled, Busy, Sleepers
  <2>3. BusyAwake' /\ ThrottledAdding' /\ ClientsGone'
    BY <2>1 DEF TypeOK, BusyAwake, ThrottledAdding, ClientsGone
  <2> QED
    BY <2>2, <2>3
<1>5. CASE CreateFails \/ DestroyTerminated
  <2>1. /\ UNCHANGED <<members, max_queued, wstate, item, adding, queue_full, inline, istate>>
        /\ queue' = <<>> /\ item_count' = 0 /\ active_threads' = 0
        /\ \/ owner = "creating" /\ owner' = "aborted"
           \/ owner = "terminated" /\ owner' = "destroyed"
    BY <1>5 DEF CreateFails, DestroyTerminated, Destroy, params, threads, adders, terminated
  <2>2. \A w \in Workers : item[w] = NoItem
    BY <2>1 DEF ClientsGone, BusyAwake
  <2>3. \A t \in Threads : adding[t] = NoItem
    BY <2>1, <2>2 DEF ClientsGone, BusyAwake, Threads
  <2>4. queue_full = {}
    BY <2>3 DEF ThrottledAdding, TypeOK
  <2>5. TypeOK' /\ CountersAgree' /\ NoSleeperWhileQueued' /\ Throttled'
    BY <1>0, <2>1, <2>4, EmptySeq
       DEF TypeOK, CountersAgree, NoSleeperWhileQueued, Throttled, InUse
  <2>6. BusyAwake' /\ ThrottledAdding' /\ ClientsGone'
    BY <2>1, <2>2, <2>3, <2>4 DEF BusyAwake, ThrottledAdding, ClientsGone, Threads
  <2> QED
    BY <2>5, <2>6
<1>6. ASSUME NEW w \in Workers, WorkerIdle(w) PROVE CounterInv'
  <2>1. /\ UNCHANGED <<members, max_queued, queue, item_count, adding, queue_full, inline, owner>>
        /\ queue = <<>> /\ AtLoopTop(w)
        /\ wstate' = [wstate EXCEPT ![w] = "wakeup"]
           \/ wstate' = [wstate EXCEPT ![w] = "exited"]
        /\ active_threads' = ActiveAtTop(w)
        /\ istate' = HistoryAtTop(w)
        /\ item' = [item EXCEPT ![w] = NoItem]
    BY <1>6 DEF WorkerIdle, LeavesLoop, params, adders
  <2>2. wstate[w] = "awake" /\ InUse /\ InUse' /\ adding[w] = NoItem
    BY <2>1 DEF AtLoopTop, InUse
  <2>3. Busy' = Busy \ {w}
    BY <2>1 DEF Busy, TypeOK
  <2>4. active_threads' = Cardinality(Busy') /\ active_threads' \in 0 .. thread_count
    <3>1. ActiveAtTop(w) = Cardinality(Busy \ {w}) /\ ActiveAtTop(w) \in 0 .. thread_count - 1
      BY <2>1, LoopTopCount
    <3> QED
      BY <1>0, <3>1, <2>1, <2>3
  <2>5. istate' \in [Items -> {"new", "adding", "failed", "queued", "running", "done"}]
    BY <2>1 DEF HistoryAtTop, TypeOK
  <2>6. TypeOK'
    BY <2>1, <2>4, <2>5 DEF TypeOK
  <2>7. CountersAgree' /\ NoSleeperWhileQueued' /\ Throttled'
    BY <2>1, <2>2, <2>4 DEF CountersAgree, NoSleeperWhileQueued, Throttled
  <2>8. BusyAwake' /\ ThrottledAdding' /\ ClientsGone'
    BY <2>1, <2>2 DEF TypeOK, BusyAwake, ThrottledAdding, ClientsGone
  <2> QED
    BY <2>6, <2>7, <2>8
<1>7. ASSUME NEW w \in Workers, WorkerDequeue(w) PROVE CounterInv'
  <2>1. /\ UNCHANGED <<members, max_queued, wstate, adding, inline, owner>>
        /\ queue # <<>> /\ AtLoopTop(w)
        /\ queue_full' = IF max_queued > 0 THEN {} ELSE queue_full
        /\ queue' = Tail(queue)
        /\ item_count' = item_count - 1
        /\ active_threads' = ActiveAtTop(w) + 1
        /\ istate' = [HistoryAtTop(w) EXCEPT ![Head(queue)] = "running"]
        /\ item' = [item EXCEPT ![w] = Head(queue)]
    BY <1>7 DEF WorkerDequeue, StillThrottled, Unlinked, params
  <2>2. wstate[w] = "awake" /\ InUse /\ InUse' /\ adding[w] = NoItem
    BY <2>1 DEF AtLoopTop, InUse
  <2>3. /\ Head(queue) \in Items /\ Head(queue) # NoItem
        /\ Tail(queue) \in Seq(Items) /\ Len(Tail(queue)) = Len(queue) - 1
        /\ Len(queue) \in Nat \ {0}
    BY <2>1, HeadTailProperties, EmptySeq, NoItemAssumption DEF TypeOK
  <2>4. Busy' = (Busy \ {w}) \cup {w}
    BY <2>1, <2>3 DEF Busy, TypeOK
  <2>5. active_threads' = Cardinality(Busy') /\ active_threads' \in 0 .. thread_count
    <3>1. /\ ActiveAtTop(w) \in 0 .. thread_count - 1
          /\ Cardinality((Busy \ {w}) \cup {w}) = ActiveAtTop(w) + 1
      BY <2>1, LoopTopCount
    <3> QED
      BY <1>0, <3>1, <2>1, <2>4
  <2>6. istate' \in [Items -> {"new", "adding", "failed", "queued", "running", "done"}]
    BY <2>1 DEF HistoryAtTop, TypeOK
  <2>7. item_count' = Len(queue') /\ item_count' \in Nat
    BY <2>1, <2>2, <2>3 DEF CountersAgree
  <2>8. queue_full' = {}
    BY <2>1 DEF ThrottledAdding
  <2>9. TypeOK'
    BY <2>1, <2>3, <2>5, <2>6, <2>7, <2>8 DEF TypeOK
  <2>10. CountersAgree' /\ NoSleeperWhileQueued'
    BY <2>1, <2>2, <2>5, <2>7 DEF CountersAgree, NoSleeperWhileQueued, Sleepers
  <2>11. Throttled' /\ ThrottledAdding'
    <3>1. Len(queue') <= Len(queue) /\ Len(queue') \in Nat
      BY <2>1, <2>3
    <3>2. max_queued > 0 => Len(queue) <= max_queued
      BY <2>2 DEF Throttled
    <3>3. max_queued > 0 => Len(queue') <= max_queued
      BY <1>0, <2>3, <3>1, <3>2
    <3> QED
      BY <2>1, <2>8, <3>3 DEF Throttled, ThrottledAdding
  <2>12. BusyAwake' /\ ClientsGone'
    BY <2>1, <2>2, <2>3 DEF TypeOK, BusyAwake, ClientsGone
  <2> QED
    BY <2>9, <2>10, <2>11, <2>12
<1>8. ASSUME NEW w \in Workers, SpuriousWakeup(w) PROVE CounterInv'
  <2>1. /\ UNCHANGED <<members, max_queued, queue, item_count, active_threads, item, adding, queue_full,
                       inline, istate, owner>>
        /\ wstate[w] = "wakeup" /\ InUse /\ InUse'
        /\ wstate' = [v \in Workers |-> IF v \in {w} THEN "awake" ELSE wstate[v]]
    BY <1>8 DEF SpuriousWakeup, Wake, params, pool, adders, InUse
  <2>2. TypeOK' /\ CountersAgree' /\ Throttled' /\ ThrottledAdding'
    BY <2>1 DEF TypeOK, CountersAgree, Throttled, ThrottledAdding, Busy
  <2>3. NoSleeperWhileQueued' /\ BusyAwake' /\ ClientsGone'
    BY <2>1 DEF TypeOK, NoSleeperWhileQueued, BusyAwake, ClientsGone, Sleepers
  <2> QED
    BY <2>2, <2>3
<1>9. ASSUME NEW t \in Threads, SpuriousQueueFull(t) PROVE CounterInv'
  <2>1. /\ UNCHANGED <<members, max_queued, queue, item_count, active_threads, wstate, item, adding,
                       inline, istate, owner>>
        /\ queue_full' = queue_full \ {t} /\ InUse /\ InUse'
    BY <1>9 DEF SpuriousQueueFull, params, pool, threads, InUse
  <2> QED
    BY <2>1 DEF TypeOK, CountersAgree, NoSleeperWhileQueued, Throttled, BusyAwake,
                ThrottledAdding, ClientsGone, Busy, Sleepers
<1>10. ASSUME NEW t \in Threads, AddRestart(t) PROVE CounterInv'
  <2>1. InUse /\ adding[t] \in Items /\ Put(t, adding[t]) /\ UNCHANGED <<inline, owner>>
    BY <1>10 DEF AddRestart, TypeOK
  <2>2. adding[t] # NoItem
    BY <1>10 DEF AddRestart
  <2>3. t \in Clients => owner = "open"
    BY <2>1, <2>2 DEF ClientsGone, InUse
  <2>4. t \in Workers => item[t] # NoItem
    BY <2>2 DEF BusyAwake
  <2> QED
    BY <2>1, <2>3, <2>4, PutCounters
<1>11. ASSUME NEW t \in Threads, NEW i \in Items, Add(t, i) PROVE CounterInv'
  <2>1. /\ thread_count > 0 /\ i \in Offers(t)
        /\ Put(t, i) /\ UNCHANGED <<inline, owner>>
    BY <1>11 DEF Add
  <2> QED
    BY <2>1, OffersOpen, PutCounters
<1>12. ASSUME NEW t \in Threads, NEW i \in Items, AddNoMemory(t, i) PROVE CounterInv'
  <2>1. /\ UNCHANGED <<members, max_queued, queue, item_count, active_threads, wstate, item, adding,
                       queue_full, inline, owner>>
        /\ istate' = [istate EXCEPT ![i] = "failed"]
    BY <1>12 DEF AddNoMemory, params, pool, threads, adders
  <2> QED
    BY <2>1 DEF TypeOK, CountersAgree, NoSleeperWhileQueued, Throttled, BusyAwake,
                ThrottledAdding, ClientsGone, Busy, Sleepers, InUse
<1>13. ASSUME NEW t \in Threads, NEW i \in Items, AddInline(t, i) PROVE CounterInv'
  <2>1. /\ UNCHANGED <<members, max_queued, queue, item_count, active_threads, wstate, item, adding,
                       queue_full, owner>>
        /\ istate' = [istate EXCEPT ![i] = "running"]
        /\ inline' = Append(inline, i)
        /\ thread_count = 0 /\ i \in Offers(t)
    BY <1>13 DEF AddInline, params, pool, threads
  <2>2. members = {}
    BY <1>0, <2>1, FS_EmptySet
  <2>3. owner = "open"
    BY <2>1, <2>2 DEF Offers, Executing, ClientsGone, BusyAwake, Threads
  <2>4. TypeOK'
    BY <2>1, AppendProperties DEF TypeOK
  <2>5. CountersAgree' /\ NoSleeperWhileQueued' /\ Throttled'
    BY <2>1 DEF CountersAgree, NoSleeperWhileQueued, Throttled, Busy, Sleepers, InUse
  <2>6. BusyAwake' /\ ThrottledAdding' /\ ClientsGone'
    BY <2>1, <2>2, <2>3 DEF BusyAwake, ThrottledAdding, ClientsGone, InUse
  <2> QED
    BY <2>4, <2>5, <2>6
<1>14. CASE InlineReturn
  <2>1. /\ UNCHANGED <<members, max_queued, queue, item_count, active_threads, wstate, item, adding,
                       queue_full, owner>>
        /\ istate' = [istate EXCEPT ![inline[Len(inline)]] = "done"]
        /\ inline # <<>> /\ inline' = SubSeq(inline, 1, Len(inline) - 1)
    BY <1>14 DEF InlineReturn, params, pool, threads
  <2>2. Len(inline) \in Nat \ {0} /\ \A k \in 1 .. Len(inline) - 1 : inline[k] \in Items
    BY <2>1, EmptySeq, ElementOfSeq, LenProperties DEF TypeOK
  <2>3. inline' \in Seq(Items)
    BY <2>1, <2>2, SubSeqProperties
  <2>4. TypeOK'
    BY <2>1, <2>3 DEF TypeOK
  <2>5. CountersAgree' /\ NoSleeperWhileQueued' /\ Throttled'
    BY <2>1 DEF CountersAgree, NoSleeperWhileQueued, Throttled, Busy, Sleepers, InUse
  <2>6. BusyAwake' /\ ThrottledAdding' /\ ClientsGone'
    BY <2>1 DEF BusyAwake, ThrottledAdding, ClientsGone, InUse
  <2> QED
    BY <2>4, <2>5, <2>6
<1>15. CASE UNCHANGED vars
  BY <1>15 DEF vars, params, pool, threads, adders, TypeOK, CountersAgree, NoSleeperWhileQueued,
               Throttled, BusyAwake, ThrottledAdding, ClientsGone, Busy, Sleepers, InUse
<1> QED
  BY <1>1, <1>2, <1>3, <1>4, <1>5, <1>6, <1>7, <1>8, <1>9, <1>10, <1>11, <1>12, <1>13,
     <1>14, <1>15 DEF Next, OwnerStep, WorkerStep, Finished

\* The type invariant, the counters, the wakeups and the throttle of workqueue.c
\* hold for any number of threads and items and any cap.
THEOREM Counters ==
  Spec => [](TypeOK /\ CountersAgree /\ NoSleeperWhileQueued /\ Throttled)
<1>1. CounterInv => TypeOK /\ CountersAgree /\ NoSleeperWhileQueued /\ Throttled
  BY DEF CounterInv
<1> QED
  BY <1>1, CounterInit, CounterNext, PTL DEF Spec
=============================================================================
