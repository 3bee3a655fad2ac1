-------------------------- MODULE WorkQueuePoolProofs --------------------------
(***************************************************************************)
(* Proof that workqueue.c implements TaskPool, as far as safety goes: the  *)
(* history of the items agrees with the list, the workers and the callers. *)
(***************************************************************************)
EXTENDS WorkQueueProofs

-----------------------------------------------------------------------------
(* The inductive invariant of the items' history. *)

\* The list holds exactly the queued items, each of them once.
QueueHistory ==
  /\ \A k \in 1 .. Len(queue) : istate[queue[k]] = "queued"
  /\ \A j, k \in 1 .. Len(queue) : queue[j] = queue[k] => j = k
  /\ \A i \in Items : istate[i] = "queued" => \E k \in 1 .. Len(queue) : queue[k] = i

\* Every running item is run by one worker, or by the caller on its stack.
RunHistory ==
  /\ \A w \in Workers : item[w] # NoItem => istate[item[w]] = "running"
  /\ \A v, w \in Workers : item[v] = item[w] /\ item[v] # NoItem => v = w
  /\ \A i \in Items : istate[i] = "running" =>
       \/ \E w \in Workers : item[w] = i
       \/ \E k \in 1 .. Len(inline) : inline[k] = i

\* The functions on the caller's stack are different ones, and run.
InlineHistory ==
  /\ \A k \in 1 .. Len(inline) : istate[inline[k]] = "running"
  /\ \A j, k \in 1 .. Len(inline) : inline[j] = inline[k] => j = k

\* Every throttled item belongs to one caller.
AddHistory ==
  /\ \A t \in Threads : adding[t] # NoItem => istate[adding[t]] = "adding"
  /\ \A t, u \in Threads : adding[t] = adding[u] /\ adding[t] # NoItem => t = u
  /\ \A i \in Items : istate[i] = "adding" => \E t \in Threads : adding[t] = i

\* Workers leave only on terminate, and not all of them while an item is queued.
Leaving ==
  /\ \A w \in Workers : wstate[w] = "exited" => terminate \/ owner = "destroyed"
  /\ InUse /\ queue # <<>> => \E w \in members : wstate[w] # "exited"
  /\ \A t \in Threads : adding[t] # NoItem => members # {}
  /\ owner = "destroyed" => queue = <<>>

HistoryInv ==
  /\ CounterInv
  /\ QueueHistory
  /\ RunHistory
  /\ InlineHistory
  /\ AddHistory
  /\ Leaving

LEMMA HistoryInit == Init => HistoryInv
<1> SUFFICES ASSUME Init PROVE HistoryInv
  OBVIOUS
<1>1. CounterInv
  BY CounterInit
<1>2. QueueHistory /\ RunHistory /\ InlineHistory
  BY EmptySeq DEF Init, QueueHistory, RunHistory, InlineHistory
<1>3. AddHistory /\ Leaving
  BY DEF Init, AddHistory, Leaving, Threads
<1> QED
  BY <1>1, <1>2, <1>3 DEF HistoryInv

\* Nothing is queued, running or being added when the list is empty, no worker is
\* inside a function and no client may call.
LEMMA Drained ==
  ASSUME HistoryInv, NEW i \in Items, owner # "open", queue = <<>>,
         \A w \in Workers : item[w] = NoItem
  PROVE  istate[i] \in {"new", "failed", "done"}
<1>1. \A t \in Threads : adding[t] = NoItem
  BY DEF HistoryInv, CounterInv, BusyAwake, ClientsGone, TypeOK, Threads
<1>2. inline = <<>>
  BY DEF HistoryInv, CounterInv, ClientsGone
<1>3. istate[i] # "adding"
  BY <1>1, NoItemAssumption DEF HistoryInv, AddHistory
<1>4. istate[i] # "running"
  BY <1>2, EmptySeq, NoItemAssumption DEF HistoryInv, RunHistory
<1>5. istate[i] # "queued"
  BY EmptySeq DEF HistoryInv, QueueHistory
<1> QED
  BY <1>3, <1>4, <1>5 DEF HistoryInv, CounterInv, TypeOK

\* When every member has left, the list is empty and no function is running.
LEMMA AllLeft ==
  ASSUME HistoryInv, \A w \in members : wstate[w] = "exited", InUse \/ owner = "destroyed"
  PROVE  queue = <<>> /\ \A w \in Workers : item[w] = NoItem
<1>1. queue = <<>>
  BY DEF HistoryInv, Leaving
<1>2. ASSUME NEW w \in Workers PROVE item[w] = NoItem
  <2>1. wstate[w] # "awake"
    BY DEF HistoryInv, CounterInv, BusyAwake
  <2> QED
    BY <2>1 DEF HistoryInv, CounterInv, BusyAwake
<1> QED
  BY <1>1, <1>2

-----------------------------------------------------------------------------
(* Each action and the history. *)

\* Steps that leave list, functions, callers and history alone.
LEMMA FrameHistory ==
  ASSUME HistoryInv, CounterInv',
         UNCHANGED <<queue, item, inline, adding, istate>>, Leaving'
  PROVE  HistoryInv'
BY DEF HistoryInv, QueueHistory, RunHistory, InlineHistory, AddHistory

\* workqueue_add under the lock, for an item that is new or that this thread has
\* been waiting with.
LEMMA PutHistory ==
  ASSUME HistoryInv, CounterInv', InUse, NEW t \in Threads, NEW i \in Items, Put(t, i),
         UNCHANGED <<inline, owner>>, members # {},
         t \in Workers => item[t] # NoItem,
         t \in Clients => owner = "open",
         \/ adding[t] = NoItem /\ istate[i] = "new"
         \/ adding[t] = i
  PROVE  HistoryInv'
<1> USE DEF HistoryInv
<1>0. TypeOK /\ i # NoItem /\ istate[i] \in {"new", "adding"} /\ members \in SUBSET Workers
  BY NoItemAssumption DEF CounterInv, AddHistory, TypeOK
<1>1. CASE QueueIsFull
  <2>1. /\ UNCHANGED <<members, queue, wstate, item, inline, owner>>
        /\ adding' = [adding EXCEPT ![t] = i]
        /\ istate' = [istate EXCEPT ![i] = "adding"]
    BY <1>1 DEF Put, params, pool, threads
  <2>2. QueueHistory'
    BY <1>0, <2>1, ElementOfSeq DEF QueueHistory, TypeOK
  <2>3. RunHistory' /\ InlineHistory'
    BY <1>0, <2>1, ElementOfSeq DEF RunHistory, InlineHistory, TypeOK
  <2>4. AddHistory'
    <3>0. \A u \in Threads : adding[u] \in Items \cup {NoItem}
      BY <1>0 DEF TypeOK
    <3>1. /\ adding'[t] = i /\ istate'[i] = "adding"
          /\ \A u \in Threads : u # t => adding'[u] = adding[u] /\ adding[u] # i
          /\ \A j \in Items : j # i => istate'[j] = istate[j] /\ adding[t] # j
      BY <1>0, <2>1, NoItemAssumption DEF AddHistory, TypeOK
    <3>2. \A u \in Threads : adding'[u] # NoItem => istate'[adding'[u]] = "adding"
      BY <3>0, <3>1 DEF AddHistory
    <3>3. \A u, v \in Threads : adding'[u] = adding'[v] /\ adding'[u] # NoItem => u = v
      BY <3>1 DEF AddHistory
    <3>4. \A j \in Items : istate'[j] = "adding" => \E u \in Threads : adding'[u] = j
      BY <3>1 DEF AddHistory
    <3> QED
      BY <3>2, <3>3, <3>4 DEF AddHistory
  <2>5. Leaving'
    BY <1>0, <2>1 DEF Leaving, TypeOK, InUse, terminate
  <2> QED
    BY <2>2, <2>3, <2>4, <2>5
<1>2. CASE ~QueueIsFull
  <2>1. /\ UNCHANGED <<members, item, inline, owner>>
        /\ queue' = Append(queue, i)
        /\ adding' = [adding EXCEPT ![t] = NoItem]
        /\ istate' = [istate EXCEPT ![i] = "queued"]
    BY <1>2 DEF Put, params
  <2>2. PICK W \in WakeSets : wstate' = [w \in Workers |-> IF w \in W THEN "awake" ELSE wstate[w]]
    BY <1>2 DEF Put, Wake
  <2>3. W \subseteq Sleepers
    BY WakeSetsSuffice
  <2>4. /\ Len(queue) \in Nat /\ Len(queue') = Len(queue) + 1
        /\ \A k \in 1 .. Len(queue) : queue'[k] = queue[k] /\ queue[k] \in Items
        /\ queue'[Len(queue) + 1] = i
    BY <1>0, <2>1, AppendProperties, LenProperties, ElementOfSeq DEF TypeOK
  <2>5. QueueHistory'
    BY <1>0, <2>1, <2>4 DEF QueueHistory, TypeOK
  <2>6. RunHistory' /\ InlineHistory'
    BY <1>0, <2>1, ElementOfSeq DEF RunHistory, InlineHistory, TypeOK
  <2>7. AddHistory'
    BY <1>0, <2>1 DEF AddHistory, TypeOK
  <2>8. \E w \in members : wstate'[w] # "exited"
    <3>1. CASE t \in Clients
      BY <1>0, <2>2, <3>1 DEF Leaving, terminate, TypeOK
    <3>2. CASE t \in Workers
      BY <1>0, <2>2, <3>2 DEF CounterInv, BusyAwake
    <3> QED
      BY <3>1, <3>2 DEF Threads
  <2>9. Leaving'
    BY <1>0, <2>1, <2>2, <2>3, <2>8 DEF Leaving, TypeOK, InUse, terminate, Sleepers
  <2> QED
    BY <2>5, <2>6, <2>7, <2>9
<1> QED
  BY <1>1, <1>2

\* What becomes of a worker's item at the top of its loop.
LEMMA FinishHistory ==
  ASSUME HistoryInv, NEW w \in Workers
  PROVE  LET h == HistoryAtTop(w) IN
         /\ h \in [Items -> {"new", "adding", "failed", "queued", "running", "done"}]
         /\ \A i \in Items : h[i] = IF i = item[w] THEN "done" ELSE istate[i]
         /\ item[w] \in Items => istate[item[w]] = "running"
BY NoItemAssumption DEF HistoryInv, CounterInv, TypeOK, HistoryAtTop, RunHistory

LEMMA IdleHistory ==
  ASSUME HistoryInv, CounterInv', NEW w \in Workers, WorkerIdle(w)
  PROVE  HistoryInv'
<1> USE DEF HistoryInv
<1>0. TypeOK /\ \A v \in Workers : item[v] \in Items \cup {NoItem}
  BY DEF CounterInv, TypeOK
<1>1. /\ UNCHANGED <<members, queue, adding, inline, owner>>
      /\ queue = <<>> /\ item' = [item EXCEPT ![w] = NoItem]
      /\ \/ wstate' = [wstate EXCEPT ![w] = "wakeup"]
         \/ wstate' = [wstate EXCEPT ![w] = "exited"] /\ terminate
  BY DEF WorkerIdle, LeavesLoop, params, adders
<1>2. /\ \A i \in Items : istate'[i] = IF i = item[w] THEN "done" ELSE istate[i]
      /\ item[w] \in Items => istate[item[w]] = "running"
  BY FinishHistory DEF WorkerIdle
<1>3. QueueHistory'
  BY <1>1, <1>2, EmptySeq DEF QueueHistory
<1>4. \A k \in 1 .. Len(inline) : inline[k] \in Items /\ inline[k] # item[w]
  <2>1. inline = <<>> \/ members = {}
    BY DEF CounterInv, ClientsGone
  <2>2. members = {} => item[w] = NoItem
    BY DEF CounterInv, BusyAwake
  <2> QED
    BY <1>0, <2>1, <2>2, EmptySeq, ElementOfSeq, NoItemAssumption DEF TypeOK
<1>5. InlineHistory'
  BY <1>1, <1>2, <1>4 DEF InlineHistory
<1>6. RunHistory'
  <2>1. \A v \in Workers : item'[v] # NoItem => v # w /\ item'[v] = item[v] /\ item[v] # item[w]
    BY <1>0, <1>1 DEF TypeOK, RunHistory
  <2>2. \A v \in Workers : item'[v] # NoItem => istate'[item'[v]] = "running"
    BY <1>0, <1>2, <2>1 DEF RunHistory
  <2>3. \A u, v \in Workers : item'[u] = item'[v] /\ item'[u] # NoItem => u = v
    BY <2>1 DEF RunHistory
  <2>4. ASSUME NEW i \in Items, istate'[i] = "running"
        PROVE  (\E v \in Workers : item'[v] = i) \/ (\E k \in 1 .. Len(inline') : inline'[k] = i)
    <3>1. i # item[w] /\ istate[i] = "running"
      BY <1>2, <2>4
    <3> QED
      BY <1>0, <1>1, <3>1 DEF RunHistory, TypeOK
  <2> QED
    BY <2>2, <2>3, <2>4 DEF RunHistory
<1>7. AddHistory'
  <2>1. \A t \in Threads : adding[t] \in Items \cup {NoItem}
    BY <1>0 DEF TypeOK
  <2> QED
    BY <1>1, <1>2, <2>1 DEF AddHistory
<1>8. Leaving'
  BY <1>0, <1>1 DEF Leaving, TypeOK, InUse, terminate
<1> QED
  BY <1>3, <1>5, <1>6, <1>7, <1>8

LEMMA DequeueHistory ==
  ASSUME HistoryInv, CounterInv', NEW w \in Workers, WorkerDequeue(w)
  PROVE  HistoryInv'
<1> USE DEF HistoryInv
<1> DEFINE new == Head(queue)
<1>0. TypeOK /\ \A v \in Workers : item[v] \in Items \cup {NoItem}
  BY DEF CounterInv, TypeOK
<1>1. /\ UNCHANGED <<members, wstate, adding, inline, owner>>
      /\ AtLoopTop(w) /\ queue # <<>> /\ queue' = Tail(queue)
      /\ item' = [item EXCEPT ![w] = new]
      /\ istate' = [HistoryAtTop(w) EXCEPT ![new] = "running"]
  BY DEF WorkerDequeue, params, Unlinked
<1>2. /\ Len(queue) \in Nat \ {0} /\ Len(queue') = Len(queue) - 1
      /\ new = queue[1] /\ new \in Items /\ new # NoItem
      /\ \A k \in 1 .. Len(queue') : queue'[k] = queue[k + 1]
      /\ \A k \in 1 .. Len(queue) : queue[k] \in Items
  BY <1>0, <1>1, HeadTailProperties, EmptySeq, ElementOfSeq, NoItemAssumption DEF TypeOK
<1>3. /\ istate[new] = "queued" /\ new # item[w]
      /\ item[w] \in Items => istate[item[w]] = "running"
  BY <1>0, <1>2, FinishHistory DEF QueueHistory, RunHistory
<1>4. /\ istate'[new] = "running"
      /\ \A i \in Items : i # new => istate'[i] = IF i = item[w] THEN "done" ELSE istate[i]
  BY <1>1, <1>2, FinishHistory
<1>5. QueueHistory'
  <2>1. \A k \in 1 .. Len(queue') : /\ k + 1 \in 1 .. Len(queue) /\ k + 1 # 1
    BY <1>2
  <2>2. \A k \in 1 .. Len(queue') : queue'[k] # new /\ istate'[queue'[k]] = "queued"
    <3> TAKE k \in 1 .. Len(queue')
    <3>1. queue'[k] = queue[k + 1] /\ queue[k + 1] \in Items /\ queue[k + 1] # queue[1]
      BY <1>2, <2>1 DEF QueueHistory
    <3>2. istate[queue[k + 1]] = "queued"
      BY <2>1 DEF QueueHistory
    <3> QED
      BY <1>2, <1>3, <1>4, <3>1, <3>2
  <2>3. \A j, k \in 1 .. Len(queue') : queue'[j] = queue'[k] => j = k
    BY <1>2, <2>1 DEF QueueHistory
  <2>4. ASSUME NEW i \in Items, istate'[i] = "queued" PROVE \E k \in 1 .. Len(queue') : queue'[k] = i
    <3>1. PICK k \in 1 .. Len(queue) : queue[k] = i
      BY <1>3, <1>4, <2>4 DEF QueueHistory
    <3>2. k # 1
      BY <1>2, <1>4, <2>4, <3>1
    <3>3. k - 1 \in 1 .. Len(queue') /\ queue'[k - 1] = i
      BY <1>2, <3>1, <3>2
    <3> QED
      BY <3>3
  <2> QED
    BY <2>2, <2>3, <2>4 DEF QueueHistory
<1>6. \A k \in 1 .. Len(inline) : inline[k] \in Items /\ inline[k] # item[w] /\ inline[k] # new
  <2>1. inline = <<>> \/ members = {}
    BY DEF CounterInv, ClientsGone
  <2>2. w \in members
    BY <1>1 DEF AtLoopTop, CounterInv, BusyAwake
  <2> QED
    BY <2>1, <2>2, EmptySeq
<1>7. InlineHistory'
  BY <1>1, <1>4, <1>6 DEF InlineHistory
<1>8. RunHistory'
  <2>1. item'[w] = new /\ \A v \in Workers : v # w => item'[v] = item[v] /\ item[v] # new
    BY <1>0, <1>1, <1>2, <1>3 DEF TypeOK, RunHistory
  <2>2. \A v \in Workers : v # w /\ item[v] # NoItem => item[v] # item[w]
    BY DEF RunHistory
  <2>3. \A v \in Workers : item'[v] # NoItem => istate'[item'[v]] = "running"
    <3>1. ASSUME NEW v \in Workers, item'[v] # NoItem, v # w PROVE istate'[item'[v]] = "running"
      <4>1. item'[v] = item[v] /\ item[v] \in Items /\ item[v] # new /\ item[v] # item[w]
        BY <1>0, <2>1, <2>2, <3>1
      <4>2. istate[item[v]] = "running"
        BY <4>1, NoItemAssumption DEF RunHistory
      <4> QED
        BY <1>4, <4>1, <4>2
    <3> QED
      BY <1>4, <2>1, <3>1
  <2>4. \A u, v \in Workers : item'[u] = item'[v] /\ item'[u] # NoItem => u = v
    BY <2>1 DEF RunHistory
  <2>5. ASSUME NEW i \in Items, istate'[i] = "running"
        PROVE  (\E v \in Workers : item'[v] = i) \/ (\E k \in 1 .. Len(inline') : inline'[k] = i)
    <3>1. CASE i = new
      BY <2>1, <3>1
    <3>2. CASE i # new
      <4>1. i # item[w] /\ istate[i] = "running"
        BY <1>4, <2>5, <3>2
      <4> QED
        BY <1>1, <2>1, <4>1 DEF RunHistory
    <3> QED
      BY <3>1, <3>2
  <2> QED
    BY <2>3, <2>4, <2>5 DEF RunHistory
<1>9. AddHistory'
  <2>1. \A t \in Threads : adding[t] \in Items \cup {NoItem}
    BY <1>0 DEF TypeOK
  <2>2. \A t \in Threads : adding[t] # NoItem => adding[t] # new /\ adding[t] # item[w]
    BY <1>3, <2>1 DEF AddHistory
  <2> QED
    BY <1>1, <1>3, <1>4, <2>1, <2>2 DEF AddHistory
<1>10. Leaving'
  <2>1. w \in members /\ wstate[w] # "exited"
    BY <1>1 DEF AtLoopTop, CounterInv, BusyAwake
  <2>2. InUse
    BY <1>1 DEF AtLoopTop
  <2> QED
    BY <1>1, <2>1, <2>2 DEF Leaving, InUse, terminate
<1> QED
  BY <1>5, <1>7, <1>8, <1>9, <1>10

\* The first n elements of a sequence.
LEMMA PrefixProperties ==
  ASSUME NEW S, NEW s, NEW n \in Nat, \A k \in 1 .. n : s[k] \in S
  PROVE  /\ Len(SubSeq(s, 1, n)) = n
         /\ \A k \in 1 .. n : SubSeq(s, 1, n)[k] = s[k]
<1>1. /\ Len(SubSeq(s, 1, n)) = IF 1 <= n THEN n - 1 + 1 ELSE 0
      /\ \A k \in 1 .. n - 1 + 1 : SubSeq(s, 1, n)[k] = s[1 + k - 1]
  BY SubSeqProperties
<1>2. n - 1 + 1 = n
  OBVIOUS
<1>3. Len(SubSeq(s, 1, n)) = n
  BY <1>1
<1>4. ASSUME NEW k \in 1 .. n PROVE SubSeq(s, 1, n)[k] = s[k]
  <2>1. 1 + k - 1 = k
    OBVIOUS
  <2> QED
    BY <1>1, <1>2, <2>1
<1> QED
  BY <1>3, <1>4

\* A function that the caller runs itself starts, or the innermost one returns.
LEMMA InlineStepHistory ==
  ASSUME HistoryInv, CounterInv',
         InlineReturn \/ \E t \in Threads, i \in Items : AddInline(t, i)
  PROVE  HistoryInv'
<1> USE DEF HistoryInv
<1>0. TypeOK /\ Len(inline) \in Nat /\ \A k \in 1 .. Len(inline) : inline[k] \in Items
  BY ElementOfSeq, LenProperties DEF CounterInv, TypeOK
<1>1. /\ UNCHANGED <<members, queue, wstate, item, adding, owner>>
  BY DEF InlineReturn, AddInline, params, pool, threads
<1>2. Leaving'
  BY <1>1 DEF Leaving, InUse, terminate
<1>3. CASE InlineReturn
  <2> DEFINE last == inline[Len(inline)]
  <2>1. /\ inline # <<>> /\ inline' = SubSeq(inline, 1, Len(inline) - 1)
        /\ istate' = [istate EXCEPT ![last] = "done"]
    BY <1>3 DEF InlineReturn
  <2>2. Len(inline) \in Nat \ {0} /\ last \in Items
    BY <1>0, <2>1, EmptySeq DEF TypeOK
  <2>3. /\ Len(inline') = Len(inline) - 1
        /\ \A k \in 1 .. Len(inline') : inline'[k] = inline[k]
    <3>1. Len(inline) - 1 \in Nat /\ \A k \in 1 .. Len(inline) - 1 : inline[k] \in Items
      BY <1>0, <2>2
    <3>2. /\ Len(SubSeq(inline, 1, Len(inline) - 1)) = Len(inline) - 1
          /\ \A k \in 1 .. Len(inline) - 1 : SubSeq(inline, 1, Len(inline) - 1)[k] = inline[k]
      BY <3>1, PrefixProperties
    <3> QED
      BY <2>1, <3>2
  <2>4. istate[last] = "running" /\ istate'[last] = "done"
        /\ \A i \in Items : i # last => istate'[i] = istate[i]
    BY <1>0, <2>1, <2>2 DEF InlineHistory, TypeOK
  <2>5. \A w \in Workers : item[w] = NoItem
    BY <2>1 DEF CounterInv, ClientsGone, BusyAwake
  <2>6. QueueHistory' /\ AddHistory'
    <3>1. \A k \in 1 .. Len(queue) : queue[k] \in Items
      BY <1>0, ElementOfSeq DEF TypeOK
    <3>2. \A t \in Threads : adding[t] \in Items \cup {NoItem}
      BY <1>0 DEF TypeOK
    <3> QED
      BY <1>1, <2>4, <3>1, <3>2 DEF QueueHistory, AddHistory
  <2>7. \A k \in 1 .. Len(inline') : inline[k] \in Items /\ inline[k] # last
    BY <1>0, <2>2, <2>3 DEF InlineHistory
  <2>8. InlineHistory'
    BY <1>0, <2>2, <2>3, <2>4, <2>7 DEF InlineHistory
  <2>9. ASSUME NEW i \in Items, istate'[i] = "running"
        PROVE  \E k \in 1 .. Len(inline') : inline'[k] = i
    <3>1. i # last /\ istate[i] = "running"
      BY <2>4, <2>9
    <3>2. PICK k \in 1 .. Len(inline) : inline[k] = i
      BY <2>5, <3>1, NoItemAssumption DEF RunHistory
    <3> QED
      BY <1>0, <2>2, <2>3, <3>1, <3>2
  <2>10. RunHistory'
    BY <1>1, <2>5, <2>9 DEF RunHistory
  <2> QED
    BY <1>2, <2>6, <2>8, <2>10
<1>4. ASSUME NEW t \in Threads, NEW i \in Items, AddInline(t, i) PROVE HistoryInv'
  <2>1. /\ thread_count = 0 /\ istate[i] = "new"
        /\ inline' = Append(inline, i) /\ istate' = [istate EXCEPT ![i] = "running"]
    BY <1>4 DEF AddInline, Offers
  <2>2. /\ Len(inline') = Len(inline) + 1 /\ inline'[Len(inline) + 1] = i
        /\ \A k \in 1 .. Len(inline) : inline'[k] = inline[k]
    BY <1>0, <2>1, AppendProperties DEF TypeOK
  <2>3. istate'[i] = "running" /\ \A j \in Items : j # i => istate'[j] = istate[j]
    BY <1>0, <2>1 DEF TypeOK
  <2>4. \A w \in Workers : item[w] = NoItem
    <3>1. members = {}
      BY <1>0, <2>1, ThreadCountType, FS_EmptySet DEF TypeOK, thread_count
    <3> QED
      BY <3>1 DEF CounterInv, BusyAwake
  <2>5. QueueHistory' /\ AddHistory'
    <3>1. \A k \in 1 .. Len(queue) : queue[k] \in Items
      BY <1>0, ElementOfSeq DEF TypeOK
    <3>2. \A u \in Threads : adding[u] \in Items \cup {NoItem}
      BY <1>0 DEF TypeOK
    <3> QED
      BY <1>1, <2>1, <2>3, <3>1, <3>2 DEF QueueHistory, AddHistory
  <2>6. InlineHistory'
    BY <1>0, <2>1, <2>2, <2>3 DEF InlineHistory
  <2>7. ASSUME NEW j \in Items, istate'[j] = "running"
        PROVE  \E k \in 1 .. Len(inline') : inline'[k] = j
    <3>1. CASE j = i
      BY <1>0, <2>2, <3>1
    <3>2. CASE j # i
      <4>1. PICK k \in 1 .. Len(inline) : inline[k] = j
        BY <2>3, <2>4, <2>7, <3>2, NoItemAssumption DEF RunHistory
      <4> QED
        BY <1>0, <2>2, <4>1
    <3> QED
      BY <3>1, <3>2
  <2>8. RunHistory'
    BY <1>1, <2>4, <2>7 DEF RunHistory
  <2> QED
    BY <1>2, <2>5, <2>6, <2>8
<1> QED
  BY <1>3, <1>4

\* An item without memory was new, so it is in no list.
LEMMA NoMemoryHistory ==
  ASSUME HistoryInv, CounterInv', NEW t \in Threads, NEW i \in Items, AddNoMemory(t, i)
  PROVE  HistoryInv'
<1> USE DEF HistoryInv
<1>0. TypeOK
  BY DEF CounterInv
<1>1. /\ UNCHANGED <<members, queue, wstate, item, adding, inline, owner>>
      /\ istate[i] = "new" /\ istate' = [istate EXCEPT ![i] = "failed"]
  BY DEF AddNoMemory, params, pool, threads, adders, Offers
<1>2. istate'[i] = "failed" /\ \A j \in Items : j # i => istate'[j] = istate[j]
  BY <1>0, <1>1 DEF TypeOK
<1>3. /\ \A k \in 1 .. Len(queue) : queue[k] \in Items
      /\ \A k \in 1 .. Len(inline) : inline[k] \in Items
      /\ \A u \in Threads : adding[u] \in Items \cup {NoItem}
      /\ \A w \in Workers : item[w] \in Items \cup {NoItem}
  BY <1>0, ElementOfSeq DEF TypeOK
<1>4. QueueHistory'
  BY <1>1, <1>2, <1>3 DEF QueueHistory
<1>5. RunHistory' /\ InlineHistory'
  BY <1>1, <1>2, <1>3 DEF RunHistory, InlineHistory
<1>6. AddHistory'
  BY <1>1, <1>2, <1>3 DEF AddHistory
<1>7. Leaving'
  BY <1>1 DEF Leaving, InUse, terminate
<1> QED
  BY <1>4, <1>5, <1>6, <1>7

\* The lists of a step that hands an item to Put.
LEMMA PutCalls ==
  ASSUME HistoryInv, NEW t \in Threads,
         AddRestart(t) \/ \E i \in Items : Add(t, i)
  PROVE  \E i \in Items :
           /\ Put(t, i) /\ UNCHANGED <<inline, owner>> /\ InUse /\ members # {}
           /\ t \in Workers => item[t] # NoItem
           /\ t \in Clients => owner = "open"
           /\ (adding[t] = NoItem /\ istate[i] = "new") \/ adding[t] = i
<1>0. CounterInv /\ TypeOK
  BY DEF HistoryInv, CounterInv
<1>1. CASE AddRestart(t)
  <2>1. /\ InUse /\ adding[t] \in Items /\ adding[t] # NoItem
        /\ Put(t, adding[t]) /\ UNCHANGED <<inline, owner>>
    BY <1>0, <1>1 DEF AddRestart, TypeOK
  <2>2. members # {}
    BY <2>1 DEF HistoryInv, Leaving
  <2>3. /\ t \in Workers => item[t] # NoItem
        /\ t \in Clients => owner = "open"
    BY <1>0, <2>1 DEF CounterInv, BusyAwake, ClientsGone, InUse
  <2> QED
    BY <2>1, <2>2, <2>3
<1>2. ASSUME NEW i \in Items, Add(t, i)
      PROVE  /\ Put(t, i) /\ UNCHANGED <<inline, owner>> /\ InUse /\ members # {}
             /\ t \in Workers => item[t] # NoItem
             /\ t \in Clients => owner = "open"
             /\ adding[t] = NoItem /\ istate[i] = "new"
  <2>1. /\ thread_count > 0 /\ i \in Offers(t) /\ adding[t] = NoItem
        /\ Put(t, i) /\ UNCHANGED <<inline, owner>>
    BY <1>2 DEF Add
  <2>2. members # {}
    BY <2>1, FS_EmptySet DEF thread_count
  <2> QED
    BY <1>0, <2>1, <2>2, OffersOpen
<1> QED
  BY <1>1, <1>2

LEMMA HistoryNext == HistoryInv /\ [Next]_vars => HistoryInv'
<1> SUFFICES ASSUME HistoryInv, [Next]_vars PROVE HistoryInv'
  OBVIOUS
<1>0. CounterInv /\ CounterInv'
  BY CounterNext DEF HistoryInv
<1>1. ASSUME NEW w \in Workers, CreateThread(w) PROVE HistoryInv'
  <2>1. /\ UNCHANGED <<members, queue, item, inline, adding, istate, owner>>
        /\ wstate' = [wstate EXCEPT ![w] = "awake"]
    BY <1>1 DEF CreateThread, params, pool, adders
  <2>2. Leaving'
    BY <1>0, <2>1 DEF HistoryInv, Leaving, InUse, terminate, CounterInv, TypeOK
  <2> QED
    BY <1>0, <2>1, <2>2, FrameHistory
<1>2. CASE CreateDone \/ Terminate
  <2>1. /\ UNCHANGED <<members, queue, wstate, item, inline, adding, istate>>
        /\ owner \in {"creating", "open"} /\ owner' \in {"open", "signal"}
    BY <1>2 DEF CreateDone, Terminate, params, pool, threads, adders
  <2>2. Leaving'
    BY <2>1 DEF HistoryInv, Leaving, InUse, terminate
  <2> QED
    BY <1>0, <2>1, <2>2, FrameHistory
<1>3. CASE TerminateBroadcast \/ TerminateJoined \/ \E w \in Workers : SpuriousWakeup(w)
  <2>1. /\ UNCHANGED <<members, queue, item, inline, adding, istate>> /\ InUse /\ InUse'
        /\ owner' \in {owner, "join", "terminated"}
        /\ \A w \in Workers : wstate'[w] \in {wstate[w], "awake"}
    BY <1>0, <1>3 DEF TerminateBroadcast, TerminateJoined, SpuriousWakeup, Wake, InUse,
                      params, pool, threads, adders, CounterInv, TypeOK
  <2>2. Leaving'
    <3>1. members \in SUBSET Workers
      BY <1>0 DEF CounterInv, TypeOK
    <3> QED
      BY <2>1, <3>1 DEF HistoryInv, Leaving, InUse, terminate
  <2> QED
    BY <1>0, <2>1, <2>2, FrameHistory
<1>4. CASE CreateFails \/ DestroyTerminated
  <2>1. /\ UNCHANGED <<members, wstate, item, inline, adding, istate>> /\ queue' = <<>>
        /\ \/ owner = "creating" /\ owner' = "aborted"
           \/ owner = "terminated" /\ owner' = "destroyed"
    BY <1>4 DEF CreateFails, DestroyTerminated, Destroy, params, threads, adders, terminated
  <2>2. queue = <<>>
    <3>1. CASE owner = "creating"
      BY <1>0, <3>1 DEF CounterInv, ClientsGone
    <3>2. CASE owner = "terminated"
      BY <1>0, <3>2, AllLeft DEF CounterInv, ClientsGone, InUse
    <3> QED
      BY <2>1, <3>1, <3>2
  <2>3. Leaving'
    BY <2>1 DEF HistoryInv, Leaving, InUse, terminate
  <2> QED
    BY <1>0, <2>1, <2>2, <2>3, FrameHistory
<1>5. ASSUME NEW t \in Threads, SpuriousQueueFull(t) PROVE HistoryInv'
  <2>1. UNCHANGED <<members, queue, wstate, item, inline, adding, istate, owner>>
    BY <1>5 DEF SpuriousQueueFull, params, pool, threads
  <2>2. Leaving'
    BY <2>1 DEF HistoryInv, Leaving, InUse, terminate
  <2> QED
    BY <1>0, <2>1, <2>2, FrameHistory
<1>6. ASSUME NEW t \in Threads, AddRestart(t) \/ \E i \in Items : Add(t, i) PROVE HistoryInv'
  BY <1>0, <1>6, PutCalls, PutHistory
<1>7. CASE UNCHANGED vars
  <2>1. UNCHANGED <<members, queue, wstate, item, inline, adding, istate, owner>>
    BY <1>7 DEF vars, params, pool, threads, adders
  <2>2. Leaving'
    BY <2>1 DEF HistoryInv, Leaving, InUse, terminate
  <2> QED
    BY <1>0, <2>1, <2>2, FrameHistory
<1>8. CASE InlineReturn \/ \E t \in Threads, i \in Items : AddInline(t, i)
  BY <1>0, <1>8, InlineStepHistory
<1> QED
  BY <1>0, <1>1, <1>2, <1>3, <1>4, <1>5, <1>6, <1>7, <1>8, IdleHistory, DequeueHistory,
     NoMemoryHistory DEF Next, OwnerStep, WorkerStep, Finished

LEMMA HistoryDrained == HistoryInv => DrainedAtTerminate
<1> SUFFICES ASSUME HistoryInv, owner \in {"terminated", "destroyed"}, NEW i \in Items
             PROVE  istate[i] \in {"new", "failed", "done"}
  BY DEF DrainedAtTerminate
<1>1. (InUse \/ owner = "destroyed") /\ \A w \in members : wstate[w] = "exited"
  BY DEF HistoryInv, CounterInv, ClientsGone, InUse
<1> QED
  BY <1>1, AllLeft, Drained

\* workqueue_terminate returns only when every item ever accepted has been run.
THEOREM TerminateDrains == Spec => []DrainedAtTerminate
BY HistoryDrained, HistoryInit, HistoryNext, PTL DEF Spec

-----------------------------------------------------------------------------
(* Every step is a step of the abstract pool. *)

\* Steps that change one item's history only, and no worker's item.
Moves(i, to) ==
  /\ istate' = [istate EXCEPT ![i] = to]
  /\ UNCHANGED <<item, owner>>

\* The pool's users see nothing: a call waits or fails.
Refused == \E i \in Items : /\ istate[i] \in {"new", "adding"}
                            /\ Moves(i, "adding") \/ Moves(i, "failed")

\* An item is handed over to the pool, or run by the caller itself.
HandedOver == \E i \in Items : /\ istate[i] \in {"new", "adding"}
                               /\ owner \notin {"terminated", "destroyed"}
                               /\ Moves(i, "queued") \/ Moves(i, "running")

\* A function that the caller runs returns.
CallerReturned == \E i \in Items : istate[i] = "running" /\ Moves(i, "done")

\* Only the owner moves; it declares the queue terminated once nothing is left.
OwnerMoved ==
  /\ UNCHANGED <<istate, item>>
  /\ owner' = "destroyed" => owner \in {"terminated", "destroyed"}
  /\ owner \in {"terminated", "destroyed"} => owner' \in {"terminated", "destroyed"}
  /\ owner' = "terminated" => \A i \in Items : istate[i] \in {"new", "failed", "done"}

LEMMA PutSteps ==
  ASSUME HistoryInv, NEW t \in Threads, AddRestart(t) \/ \E i \in Items : Add(t, i)
  PROVE  Refused \/ HandedOver
<1>1. PICK i \in Items :
           /\ Put(t, i) /\ UNCHANGED <<inline, owner>> /\ InUse /\ members # {}
           /\ t \in Workers => item[t] # NoItem
           /\ t \in Clients => owner = "open"
           /\ (adding[t] = NoItem /\ istate[i] = "new") \/ adding[t] = i
  BY PutCalls
<1>2. istate[i] \in {"new", "adding"}
  BY <1>1, NoItemAssumption DEF HistoryInv, AddHistory
<1>3. owner \notin {"terminated", "destroyed"}
  <2>1. CASE t \in Workers
    BY <1>1, <2>1 DEF HistoryInv, CounterInv, BusyAwake, ClientsGone
  <2> QED
    BY <1>1, <2>1 DEF Threads
<1>4. Moves(i, "adding") \/ Moves(i, "queued")
  BY <1>1 DEF Put, Moves, threads
<1> QED
  BY <1>2, <1>3, <1>4 DEF Refused, HandedOver

LEMMA InlineSteps ==
  ASSUME HistoryInv
  PROVE  /\ InlineReturn => CallerReturned
         /\ \A t \in Threads, i \in Items : AddInline(t, i) => HandedOver
         /\ \A t \in Threads, i \in Items : AddNoMemory(t, i) => Refused
<1>0. TypeOK /\ CounterInv
  BY DEF HistoryInv, CounterInv
<1>1. ASSUME InlineReturn PROVE CallerReturned
  <2>1. Len(inline) \in 1 .. Len(inline) /\ inline[Len(inline)] \in Items
    BY <1>0, <1>1, EmptySeq, ElementOfSeq, LenProperties DEF TypeOK, InlineReturn
  <2>2. istate[inline[Len(inline)]] = "running"
    BY <2>1 DEF HistoryInv, InlineHistory
  <2>3. Moves(inline[Len(inline)], "done")
    BY <1>1 DEF InlineReturn, Moves, threads
  <2> QED
    BY <2>1, <2>2, <2>3 DEF CallerReturned
<1>2. ASSUME NEW t \in Threads, NEW i \in Items, AddInline(t, i) PROVE HandedOver
  <2>1. istate[i] = "new" /\ Moves(i, "running") /\ i \in Offers(t)
    BY <1>2 DEF AddInline, Offers, Moves, threads
  <2>2. members = {}
    BY <1>0, <1>2, ThreadCountType, FS_EmptySet DEF TypeOK, thread_count, AddInline
  <2>3. t \in Clients /\ owner \notin {"terminated", "destroyed"}
    <3>1. \A w \in Workers : item[w] = NoItem
      BY <1>0, <2>2 DEF CounterInv, BusyAwake
    <3>2. inline # <<>> => owner = "open"
      BY <1>0 DEF CounterInv, ClientsGone
    <3> QED
      BY <2>1, <3>1, <3>2 DEF Offers, Executing, Threads
  <2> QED
    BY <2>1, <2>3 DEF HandedOver
<1>3. ASSUME NEW t \in Threads, NEW i \in Items, AddNoMemory(t, i) PROVE Refused
  <2>1. istate[i] = "new" /\ Moves(i, "failed")
    BY <1>3 DEF AddNoMemory, Offers, Moves, threads
  <2> QED
    BY <2>1 DEF Refused
<1> QED
  BY <1>1, <1>2, <1>3

\* The workers' steps.
LEMMA WorkerSteps ==
  ASSUME HistoryInv, NEW w \in Workers, WorkerStep(w)
  PROVE  /\ owner' = owner /\ InUse
         /\ \/ /\ \A i \in Items : istate'[i] = IF i = item[w] THEN "done" ELSE istate[i]
               /\ item' = [item EXCEPT ![w] = NoItem]
            \/ \E n \in Items :
                 /\ istate[n] = "queued" /\ istate'[n] = "running" /\ n # item[w]
                 /\ \A i \in Items \ {n} : istate'[i] = IF i = item[w] THEN "done" ELSE istate[i]
                 /\ item' = [item EXCEPT ![w] = n]
         /\ item[w] \in Items \cup {NoItem}
         /\ item[w] \in Items => istate[item[w]] = "running"
<1>0. TypeOK /\ item[w] \in Items \cup {NoItem}
  BY DEF HistoryInv, CounterInv, TypeOK
<1>1. CASE WorkerIdle(w)
  BY <1>0, <1>1, FinishHistory DEF WorkerIdle, LeavesLoop, AtLoopTop
<1>2. CASE WorkerDequeue(w)
  <2> DEFINE n == Head(queue)
  <2>1. /\ owner' = owner /\ InUse /\ queue # <<>> /\ item' = [item EXCEPT ![w] = n]
        /\ istate' = [HistoryAtTop(w) EXCEPT ![n] = "running"]
    BY <1>2 DEF WorkerDequeue, AtLoopTop
  <2>2. n \in Items /\ n = queue[1] /\ Len(queue) \in Nat \ {0}
    BY <1>0, <2>1, HeadTailProperties, EmptySeq DEF TypeOK
  <2>3. istate[n] = "queued"
    BY <2>2 DEF HistoryInv, QueueHistory
  <2>4. /\ HistoryAtTop(w) \in [Items -> {"new", "adding", "failed", "queued", "running", "done"}]
        /\ \A i \in Items : HistoryAtTop(w)[i] = IF i = item[w] THEN "done" ELSE istate[i]
        /\ item[w] \in Items => istate[item[w]] = "running"
    BY FinishHistory
  <2>5. istate'[n] = "running" /\ n # item[w]
        /\ \A i \in Items \ {n} : istate'[i] = IF i = item[w] THEN "done" ELSE istate[i]
    BY <2>1, <2>2, <2>3, <2>4
  <2> QED
    BY <1>0, <2>1, <2>2, <2>3, <2>4, <2>5
<1> QED
  BY <1>1, <1>2 DEF WorkerStep

\* The five kinds of steps.
LEMMA StepKinds ==
  ASSUME HistoryInv, [Next]_vars
  PROVE  \/ Refused \/ HandedOver \/ CallerReturned \/ OwnerMoved
         \/ \E w \in Workers : WorkerStep(w)
<1>1. CASE TerminateJoined
  <2>1. /\ UNCHANGED <<istate, item>> /\ owner = "join" /\ owner' = "terminated"
        /\ \A w \in members : wstate[w] = "exited"
    BY <1>1 DEF TerminateJoined, threads
  <2>2. queue = <<>> /\ \A w \in Workers : item[w] = NoItem
    BY <2>1, AllLeft DEF InUse
  <2>3. \A i \in Items : istate[i] \in {"new", "failed", "done"}
    BY <2>1, <2>2, Drained
  <2> QED
    BY <2>1, <2>3 DEF OwnerMoved
<1>2. CASE \/ CreateDone \/ Terminate \/ TerminateBroadcast \/ CreateFails \/ DestroyTerminated
           \/ \E w \in Workers : CreateThread(w)
  BY <1>2 DEF CreateDone, Terminate, TerminateBroadcast, CreateFails, DestroyTerminated,
              Destroy, CreateThread, OwnerMoved, threads, terminated
<1>3. CASE \/ \E w \in Workers : SpuriousWakeup(w)
           \/ \E t \in Threads : SpuriousQueueFull(t)
           \/ UNCHANGED vars
  <2>1. UNCHANGED <<istate, item, owner>>
    BY <1>3 DEF SpuriousWakeup, SpuriousQueueFull, vars, threads
  <2>2. owner = "terminated" => \A i \in Items : istate[i] \in {"new", "failed", "done"}
    BY HistoryDrained DEF DrainedAtTerminate
  <2> QED
    BY <2>1, <2>2 DEF OwnerMoved
<1> QED
  BY <1>1, <1>2, <1>3, PutSteps, InlineSteps DEF Next, OwnerStep, Finished

\* Every item's function is started at most once, by a thread that found it queued,
\* and no item is forgotten on the way (workqueue_add, workqueue_thread).
THEOREM EveryItemRunsOnce == Spec => RunsOnce
<1>1. HistoryInv /\ [Next]_vars => RunsOnceStep
  <2> SUFFICES ASSUME HistoryInv, [Next]_vars PROVE RunsOnceStep
    OBVIOUS
  <2>0. istate \in [Items -> {"new", "adding", "failed", "queued", "running", "done"}]
        /\ item \in [Workers -> Items \cup {NoItem}]
    BY DEF HistoryInv, CounterInv, TypeOK
  <2>1. CASE Refused \/ HandedOver \/ CallerReturned \/ OwnerMoved
    BY <2>0, <2>1 DEF Refused, HandedOver, CallerReturned, OwnerMoved, Moves, RunsOnceStep
  <2>2. ASSUME NEW w \in Workers, WorkerStep(w) PROVE RunsOnceStep
    <3>1. /\ \/ /\ \A i \in Items : istate'[i] = IF i = item[w] THEN "done" ELSE istate[i]
                /\ item' = [item EXCEPT ![w] = NoItem]
             \/ \E n \in Items :
                  /\ istate[n] = "queued" /\ istate'[n] = "running" /\ n # item[w]
                  /\ \A i \in Items \ {n} : istate'[i] = IF i = item[w] THEN "done" ELSE istate[i]
                  /\ item' = [item EXCEPT ![w] = n]
          /\ item[w] \in Items => istate[item[w]] = "running"
      BY <2>2, WorkerSteps
    <3> QED
      BY <2>0, <3>1 DEF RunsOnceStep
  <2> QED
    BY <2>1, <2>2, StepKinds
<1> QED
  BY <1>1, HistoryInit, HistoryNext, PTL DEF Spec, RunsOnce

\* workqueue.c implements the abstract pool, as far as safety goes.
THEOREM PoolRefinement == Spec => ImplementsPoolSafely
<1>1. Init => Pool!PoolInit
  BY DEF Init, Pool!PoolInit
<1>2. HistoryInv /\ [Next]_vars => [Pool!PoolNext]_(Pool!poolVars)
  <2> SUFFICES ASSUME HistoryInv, [Next]_vars
               PROVE  Pool!PoolNext \/ UNCHANGED Pool!poolVars
    OBVIOUS
  <2>0. istate \in [Items -> {"new", "adding", "failed", "queued", "running", "done"}]
    BY DEF HistoryInv, CounterInv, TypeOK
  <2>1. CASE Refused
    BY <2>0, <2>1 DEF Refused, Moves, Pool!poolVars
  <2>2. CASE HandedOver
    <3>1. PICK i \in Items : /\ istate[i] \in {"new", "adding"}
                             /\ owner \notin {"terminated", "destroyed"}
                             /\ Moves(i, "queued") \/ Moves(i, "running")
      BY <2>2 DEF HandedOver
    <3>2. Pool!Submit(i) \/ Pool!SubmitAndRun(i)
      BY <2>0, <3>1 DEF Moves, Pool!Submit, Pool!SubmitAndRun
    <3> QED
      BY <3>2 DEF Pool!PoolNext
  <2>3. CASE CallerReturned
    <3>1. PICK i \in Items : istate[i] = "running" /\ Moves(i, "done")
      BY <2>3 DEF CallerReturned
    <3>2. Pool!Finish(i)
      BY <2>0, <3>1 DEF Moves, Pool!Finish
    <3> QED
      BY <3>2 DEF Pool!PoolNext
  <2>4. CASE OwnerMoved
    <3>1. CASE owner' = "terminated"
      BY <2>4, <3>1 DEF OwnerMoved, Pool!PoolNext, Pool!Close
    <3>2. CASE owner' # "terminated"
      BY <2>4, <3>2 DEF OwnerMoved, Pool!poolVars
    <3> QED
      BY <3>1, <3>2
  <2>5. ASSUME NEW w \in Workers, WorkerStep(w) PROVE Pool!PoolNext \/ UNCHANGED Pool!poolVars
    <3>1. /\ owner' = owner
          /\ item[w] \in Items \cup {NoItem}
          /\ item[w] \in Items => istate[item[w]] = "running"
      BY <2>5, WorkerSteps
    <3>2. CASE \A i \in Items : istate'[i] = IF i = item[w] THEN "done" ELSE istate[i]
      <4>1. CASE item[w] \in Items
        <5>1. PICK i \in Items : i = item[w]
          BY <4>1
        <5>2. Pool!Finish(i)
          BY <3>1, <3>2, <5>1 DEF Pool!Finish
        <5> QED
          BY <5>2 DEF Pool!PoolNext
      <4>2. CASE item[w] \notin Items
        BY <3>1, <3>2, <4>2 DEF Pool!poolVars
      <4> QED
        BY <4>1, <4>2
    <3>3. ASSUME NEW n \in Items, istate[n] = "queued", istate'[n] = "running", n # item[w],
                 \A i \in Items \ {n} : istate'[i] = IF i = item[w] THEN "done" ELSE istate[i]
          PROVE  Pool!PoolNext
      <4>1. CASE item[w] \in Items
        <5>1. PICK i \in Items : i = item[w]
          BY <4>1
        <5>2. Pool!FinishAndStart(i, n)
          BY <3>1, <3>3, <5>1 DEF Pool!FinishAndStart
        <5> QED
          BY <5>2 DEF Pool!PoolNext
      <4>2. CASE item[w] \notin Items
        <5>1. Pool!Start(n)
          BY <3>1, <3>3, <4>2 DEF Pool!Start
        <5> QED
          BY <5>1 DEF Pool!PoolNext
      <4> QED
        BY <4>1, <4>2
    <3> QED
      BY <2>5, <3>2, <3>3, WorkerSteps
  <2> QED
    BY <2>1, <2>2, <2>3, <2>4, <2>5, StepKinds
<1> QED
  BY <1>1, <1>2, HistoryInit, HistoryNext, PTL DEF Spec, ImplementsPoolSafely, Pool!PoolSafety
=============================================================================
