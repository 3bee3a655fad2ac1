-------------------------------- MODULE Cache --------------------------------
(***************************************************************************)
(* The reference-counted node cache of libxfs/cache.c: hash chains, one    *)
(* MRU list per priority, and the shaker that reclaims unreferenced nodes  *)
(* when the cache is full.  The locks are explicit (one per chain, node    *)
(* and MRU list) and an action runs from one lock acquisition to the next. *)
(* Chains and MRU lists are sets: the order of a list is not modelled.     *)
(***************************************************************************)
EXTENDS Integers, FiniteSets

CONSTANTS
  Threads, Nodes, Keys,
  Buckets,         \* the hash chains
  Hash,            \* [Keys -> Buckets], cache->hash
  Conflicts,       \* pairs of keys that compare as CACHE_PURGE; none without
                   \* CACHE_MISCOMPARE_PURGE
  NoThread, NoNode, NoKey,
  CACHE_MAX_PRIORITY,
  CACHE_SHAKE_COUNT,
  InitialMax,      \* c_maxcount at cache_init
  MaxGets          \* bounds: calls of cache_node_get of each thread

CACHE_DIRTY_PRIORITY == CACHE_MAX_PRIORITY + 1
Priorities == 0 .. CACHE_DIRTY_PRIORITY

ASSUME NoneAssumption == NoThread \notin Threads /\ NoNode \notin Nodes /\ NoKey \notin Keys
ASSUME HashAssumption == Hash \in [Keys -> Buckets] /\ Conflicts \subseteq Keys \X Keys
ASSUME BoundsAssumption ==
  /\ CACHE_MAX_PRIORITY \in Nat /\ CACHE_SHAKE_COUNT \in Nat \ {0}
  /\ InitialMax \in Nat \ {0} /\ MaxGets \in [Threads -> Nat]
  /\ IsFiniteSet(Nodes) /\ IsFiniteSet(Threads)

VARIABLES
  node,                 \* struct cache_node: see Node below
  hlock, nlock, mlock,  \* owners of ch_mutex, cn_mutex and cm_mutex
  c_count, c_maxcount, c_max,
  th                    \* per thread: control state and locals, see Thread below

counts == <<c_count, c_maxcount, c_max>>
vars == <<node, hlock, nlock, mlock, counts, th>>

\* where: on the free list, new, in its hash chain, or unhashed by the shaker;
\* mru: the MRU list it is on, -1 for none; dirty: cache->flush has work to do.
Node == [where : {"free", "new", "cached", "temp"}, key : Keys \cup {NoKey},
         count : Nat, priority : Priorities \cup {-1}, old : Priorities \cup {-1},
         mru : Priorities \cup {-1}, dirty : BOOLEAN]

\* ref: the node cache_node_get returned; the others are locals of the functions.
Thread == [pc : {"idle", "hash", "visit", "hitmru", "purgemru", "alloc", "new",
                 "insert", "uncount", "shake", "scan", "park", "unhash", "relse",
                 "discount", "expand", "putmru", "purged", "corrupt"},
           key : Keys \cup {NoKey}, ref : Nodes \cup {NoNode}, cur : Nodes \cup {NoNode},
           todo : SUBSET Nodes, temp : SUBSET Nodes, priority : Priorities,
           purged : Nat, purge : BOOLEAN, gets : Nat]

TypeOK ==
  /\ node \in [Nodes -> Node]
  /\ hlock \in [Buckets -> Threads \cup {NoThread}]
  /\ nlock \in [Nodes -> Threads \cup {NoThread}]
  /\ mlock \in [Priorities -> Threads \cup {NoThread}]
  /\ c_count \in Nat /\ c_maxcount \in Nat /\ c_max \in Nat
  /\ th \in [Threads -> Thread]

FreeNode == [where |-> "free", key |-> NoKey, count |-> 0, priority |-> 0, old |-> -1,
             mru |-> -1, dirty |-> FALSE]

Init ==
  /\ node = [n \in Nodes |-> FreeNode]
  /\ hlock = [b \in Buckets |-> NoThread]
  /\ nlock = [n \in Nodes |-> NoThread]
  /\ mlock = [p \in Priorities |-> NoThread]
  /\ c_count = 0 /\ c_maxcount = InitialMax /\ c_max = 0
  /\ th = [t \in Threads |-> [pc |-> "idle", key |-> NoKey, ref |-> NoNode, cur |-> NoNode,
                              todo |-> {}, temp |-> {}, priority |-> 0, purged |-> 0,
                              purge |-> FALSE, gets |-> 0]]

Chain(b) == {n \in Nodes : node[n].where = "cached" /\ Hash[node[n].key] = b}
Mru(p) == {n \in Nodes : node[n].mru = p}
BucketOf(t) == Hash[th[t].key]

\* The thread leaves the cache with a reference to n, if any; its locals are gone.
Returned(t, n) ==
  [th EXCEPT ![t] = [@ EXCEPT !.pc = "idle", !.ref = n, !.key = NoKey, !.cur = NoNode,
                              !.todo = {}, !.temp = {}, !.priority = 0, !.purged = 0,
                              !.purge = FALSE]]

\* What cache->flush may return for a node: TRUE when nothing dirty is left.  The
\* write of a dirty buffer may fail, and a clean one may have an error on it.
FlushResults(n) == {TRUE, FALSE}

-----------------------------------------------------------------------------
(* cache_node_get: the walk of the hash chain *)

\* Programs call cache_purge between their phases, when no other thread calls the
\* cache.
NoPurge == \A t \in Threads : ~th[t].purge

Get(t, k) ==
  /\ th[t].pc = "idle" /\ th[t].ref = NoNode /\ th[t].gets < MaxGets[t]
  /\ NoPurge
  /\ th' = [th EXCEPT ![t].gets = @ + 1, ![t].key = k, ![t].priority = 0,
                      ![t].purged = 0, ![t].pc = "hash"]
  /\ UNCHANGED <<node, hlock, nlock, mlock, counts>>

\* Lock the chain; the nodes on it that do not compare as CACHE_MISS are visited.
GetLockHash(t) ==
  /\ th[t].pc = "hash" /\ hlock[BucketOf(t)] = NoThread
  /\ hlock' = [hlock EXCEPT ![BucketOf(t)] = t]
  /\ th' = [th EXCEPT ![t].pc = "visit", ![t].todo =
       {n \in Chain(BucketOf(t)) : \/ node[n].key = th[t].key
                                   \/ <<node[n].key, th[t].key>> \in Conflicts}]
  /\ UNCHANGED <<node, nlock, mlock, counts>>

Visits(t, n) == th[t].pc = "visit" /\ n \in th[t].todo /\ nlock[n] = NoThread

\* CACHE_HIT on a node in use: one more reference.
GetHitInUse(t, n) ==
  /\ Visits(t, n) /\ node[n].key = th[t].key /\ node[n].count > 0
  /\ node' = [node EXCEPT ![n].count = @ + 1]
  /\ hlock' = [hlock EXCEPT ![BucketOf(t)] = NoThread]
  /\ th' = Returned(t, n)
  /\ UNCHANGED <<nlock, mlock, counts>>

\* CACHE_HIT on an unreferenced node: the lock of its MRU list comes next.
GetHitUnused(t, n) ==
  /\ Visits(t, n) /\ node[n].key = th[t].key /\ node[n].count = 0
  /\ nlock' = [nlock EXCEPT ![n] = t]
  /\ th' = [th EXCEPT ![t].cur = n, ![t].pc = "hitmru"]
  /\ UNCHANGED <<node, hlock, mlock, counts>>

\* Mutant: the node is left on its MRU list.
KeptOnMru(n) == node[n].mru

\* list_del_init(&node->cn_mru): on no list any more.
OffMru(n) == -1

MruIsFree(p) == p >= 0 /\ mlock[p] = NoThread

\* The ASSERT on cn_priority is compiled out and there is no c_mrus[-1]: what the
\* process does from here on is undefined.
UseBadMru(t) ==
  /\ th[t].pc \in {"hitmru", "purgemru"} /\ node[th[t].cur].priority < 0
  /\ th' = [th EXCEPT ![t].pc = "corrupt"]
  /\ UNCHANGED <<node, hlock, nlock, mlock, counts>>

GetFromMru(t) ==
  LET n == th[t].cur
      p == node[n].priority IN
  /\ th[t].pc = "hitmru" /\ MruIsFree(p)
  /\ node' = [node EXCEPT ![n].mru = OffMru(n), ![n].count = @ + 1,
                          ![n].priority = IF node[n].old # -1 THEN node[n].old ELSE p,
                          ![n].old = -1]
  /\ nlock' = [nlock EXCEPT ![n] = NoThread]
  /\ hlock' = [hlock EXCEPT ![BucketOf(t)] = NoThread]
  /\ th' = Returned(t, n)
  /\ UNCHANGED <<mlock, counts>>

\* Mutant: a node in use is purged.
PurgeableInUse(n, ok) == ok

Purgeable(n, ok) == node[n].count = 0 /\ ok

\* CACHE_PURGE: __cache_node_purge gives up on a node in use or not flushable, else
\* it takes the lock of the MRU list.
GetMiscompare(t, n) ==
  /\ Visits(t, n) /\ node[n].key # th[t].key
  /\ \E ok \in FlushResults(n) :
       LET purging == Purgeable(n, ok) IN
       /\ node' = [node EXCEPT ![n].dirty = @ /\ ~purging]
       /\ nlock' = [nlock EXCEPT ![n] = IF purging THEN t ELSE NoThread]
       /\ th' = [th EXCEPT ![t].todo = @ \ {n}, ![t].cur = n,
                           ![t].pc = IF purging THEN "purgemru" ELSE "visit"]
  /\ UNCHANGED <<hlock, mlock, counts>>

GetPurge(t) ==
  LET n == th[t].cur IN
  /\ th[t].pc = "purgemru" /\ MruIsFree(node[n].priority)
  /\ node' = [node EXCEPT ![n] = FreeNode]
  /\ nlock' = [nlock EXCEPT ![n] = NoThread]
  /\ th' = [th EXCEPT ![t].purged = @ + 1, ![t].pc = "visit"]
  /\ UNCHANGED <<hlock, mlock, counts>>

GetNotFound(t) ==
  /\ th[t].pc = "visit" /\ th[t].todo = {}
  /\ hlock' = [hlock EXCEPT ![BucketOf(t)] = NoThread]
  /\ th' = [th EXCEPT ![t].pc = "alloc"]
  /\ UNCHANGED <<node, nlock, mlock, counts>>

-----------------------------------------------------------------------------
(* cache_node_get: a new node *)

\* Mutant: the cache size is not looked at.
RoomAlways == TRUE

NodesFree == c_count < c_maxcount

\* cache_node_allocate: a node is accounted for, or the shaker is called.
Allocate(t) ==
  /\ th[t].pc = "alloc"
  /\ IF NodesFree
       THEN /\ c_count' = c_count + 1
            /\ c_max' = IF c_count' > c_max THEN c_count' ELSE c_max
            /\ th' = [th EXCEPT ![t].pc = "new"]
       ELSE th' = [th EXCEPT ![t].pc = "shake"] /\ UNCHANGED <<c_count, c_max>>
  /\ UNCHANGED <<node, hlock, nlock, mlock, c_maxcount>>

AllocNode(t, n) ==
  /\ th[t].pc = "new" /\ node[n].where = "free"
  /\ node' = [node EXCEPT ![n] = [FreeNode EXCEPT !.where = "new", !.key = th[t].key, !.count = 1]]
  /\ th' = [th EXCEPT ![t].cur = n, ![t].pc = "insert"]
  /\ UNCHANGED <<hlock, nlock, mlock, counts>>

AllocFails(t) ==
  /\ th[t].pc = "new"
  /\ c_count' = c_count - 1
  /\ th' = [th EXCEPT ![t].pc = "shake"]
  /\ UNCHANGED <<node, hlock, nlock, mlock, c_maxcount, c_max>>

\* The chain is locked again, and not searched again.
Insert(t) ==
  LET n == th[t].cur IN
  /\ th[t].pc = "insert" /\ hlock[BucketOf(t)] = NoThread
  /\ node' = [node EXCEPT ![n].where = "cached"]
  /\ th' = IF th[t].purged > 0 THEN [th EXCEPT ![t].ref = n, ![t].pc = "uncount"]
           ELSE Returned(t, n)
  /\ UNCHANGED <<hlock, nlock, mlock, counts>>

UncountPurged(t) ==
  /\ th[t].pc = "uncount"
  /\ c_count' = c_count - th[t].purged
  /\ th' = Returned(t, th[t].ref)
  /\ UNCHANGED <<node, hlock, nlock, mlock, c_maxcount, c_max>>

AtBound == 2 * c_maxcount > Cardinality(Nodes)
Stopped(t) == AtBound /\ th[t].pc = "expand"

\* cache_expand, within the bound of the node supply.
Expand(t) ==
  /\ th[t].pc = "expand" /\ ~AtBound
  /\ c_maxcount' = 2 * c_maxcount
  /\ th' = [th EXCEPT ![t].priority = 0, ![t].pc = "hash"]
  /\ UNCHANGED <<node, hlock, nlock, mlock, c_count, c_max>>

-----------------------------------------------------------------------------
(* cache_shake, called by cache_node_get and cache_purge *)

ShakeLockMru(t) ==
  LET p == IF th[t].priority > CACHE_MAX_PRIORITY /\ ~th[t].purge THEN 0
           ELSE th[t].priority IN
  /\ th[t].pc = "shake" /\ mlock[p] = NoThread
  /\ mlock' = [mlock EXCEPT ![p] = t]
  /\ th' = [th EXCEPT ![t].priority = p, ![t].todo = Mru(p), ![t].temp = {},
                      ![t].pc = "scan"]
  /\ UNCHANGED <<node, hlock, nlock, counts>>

ScanIsOver(t) ==
  \/ th[t].todo = {}
  \/ ~th[t].purge /\ Cardinality(th[t].temp) = CACHE_SHAKE_COUNT

\* pthread_mutex_trylock on the node fails.
ShakeSkip(t, n) ==
  /\ th[t].pc = "scan" /\ ~ScanIsOver(t) /\ n \in th[t].todo /\ nlock[n] # NoThread
  /\ th' = [th EXCEPT ![t].todo = @ \ {n}]
  /\ UNCHANGED <<node, hlock, nlock, mlock, counts>>

\* Mutant: a failed flush is ignored.
NothingParked(t, ok) == FALSE

\* Memory pressure is not allowed to release a dirty node.
Parks(t, ok) == ~ok /\ ~th[t].purge

\* The node is locked and flushed.  One that stays dirty leaves this list and is
\* unlocked before it is put on another.
ShakeFlush(t, n) ==
  /\ th[t].pc = "scan" /\ ~ScanIsOver(t) /\ n \in th[t].todo /\ nlock[n] = NoThread
  /\ \E ok \in FlushResults(n) :
       IF Parks(t, ok)
         THEN /\ node' = [node EXCEPT ![n].mru = -1, ![n].priority = -1]
              /\ th' = [th EXCEPT ![t].todo = @ \ {n}, ![t].cur = n, ![t].pc = "park"]
              /\ UNCHANGED nlock
         ELSE /\ node' = [node EXCEPT ![n].dirty = @ /\ ~ok]
              /\ nlock' = [nlock EXCEPT ![n] = t]
              /\ th' = [th EXCEPT ![t].todo = @ \ {n}, ![t].cur = n, ![t].pc = "unhash"]
  /\ UNCHANGED <<hlock, mlock, counts>>

\* cache_add_to_dirty_mru
ShakePark(t) ==
  LET n == th[t].cur IN
  /\ th[t].pc = "park" /\ mlock[CACHE_DIRTY_PRIORITY] = NoThread
  /\ node' = [node EXCEPT ![n].old = node[n].priority, ![n].priority = CACHE_DIRTY_PRIORITY,
                          ![n].mru = CACHE_DIRTY_PRIORITY]
  /\ th' = [th EXCEPT ![t].pc = "scan"]
  /\ UNCHANGED <<hlock, nlock, mlock, counts>>

\* Mutant: the lock is never had.
HashNever(n) == FALSE

\* pthread_mutex_trylock on the chain of a node.
TryHash(n) == hlock[Hash[node[n].key]] = NoThread

\* Unlink the node from chain and MRU list, or leave it if the chain is locked.
ShakeUnhash(t) ==
  LET n == th[t].cur IN
  /\ th[t].pc = "unhash"
  /\ IF TryHash(n)
       THEN /\ node' = [node EXCEPT ![n].priority = -1, ![n].mru = -1, ![n].where = "temp"]
            /\ th' = [th EXCEPT ![t].temp = @ \cup {n}, ![t].pc = "scan"]
       ELSE /\ th' = [th EXCEPT ![t].pc = "scan"]
            /\ UNCHANGED node
  /\ nlock' = [nlock EXCEPT ![n] = NoThread]
  /\ UNCHANGED <<hlock, mlock, counts>>

\* Mutant: the next priority is never tried.
SamePriority(t) == th[t].priority

\* The value cache_shake returns.
ShakeReturns(t) ==
  IF Cardinality(th[t].temp) = CACHE_SHAKE_COUNT THEN th[t].priority ELSE th[t].priority + 1

\* Back in the caller: cache_node_get retries, after growing the cache if all
\* priorities were tried; cache_purge goes through all priorities.
AfterShake(t) ==
  LET next == IF th[t].purge THEN th[t].priority + 1 ELSE ShakeReturns(t) IN
  IF th[t].purge
    THEN IF next <= CACHE_DIRTY_PRIORITY
           THEN [th EXCEPT ![t].priority = next, ![t].pc = "shake"]
           ELSE [th EXCEPT ![t].pc = "purged"]
    ELSE [th EXCEPT ![t].priority = next,
                    ![t].pc = IF next > CACHE_MAX_PRIORITY THEN "expand" ELSE "hash"]

ShakeUnlockMru(t) ==
  /\ th[t].pc = "scan" /\ ScanIsOver(t)
  /\ mlock' = [mlock EXCEPT ![th[t].priority] = NoThread]
  /\ th' = IF th[t].temp = {} THEN AfterShake(t) ELSE [th EXCEPT ![t].pc = "relse"]
  /\ UNCHANGED <<node, hlock, nlock, counts>>

\* cache->bulkrelse: the nodes go back to the free list, dirty or not.
ShakeRelease(t) ==
  /\ th[t].pc = "relse"
  /\ node' = [n \in Nodes |-> IF n \in th[t].temp THEN FreeNode ELSE node[n]]
  /\ th' = [th EXCEPT ![t].pc = "discount"]
  /\ UNCHANGED <<hlock, nlock, mlock, counts>>

CountLess(t) == c_count - Cardinality(th[t].temp)

ShakeDiscount(t) ==
  /\ th[t].pc = "discount"
  /\ c_count' = CountLess(t)
  /\ th' = AfterShake(t)
  /\ UNCHANGED <<node, hlock, nlock, mlock, c_maxcount, c_max>>

-----------------------------------------------------------------------------
(* cache_node_put, cache_node_set_priority, cache_purge and cache_flush *)

\* The last reference goes to the MRU list of the node's priority, under its lock.
Put(t) ==
  LET n == th[t].ref IN
  /\ th[t].pc = "idle" /\ n # NoNode /\ nlock[n] = NoThread /\ NoPurge
  /\ node' = [node EXCEPT ![n].count = @ - 1]
  /\ nlock' = [nlock EXCEPT ![n] = IF node[n].count = 1 THEN t ELSE NoThread]
  /\ th' = IF node[n].count = 1
           THEN [th EXCEPT ![t].ref = NoNode, ![t].cur = n, ![t].pc = "putmru"]
           ELSE Returned(t, NoNode)
  /\ UNCHANGED <<hlock, mlock, counts>>

PutOnMru(t) ==
  LET n == th[t].cur IN
  /\ th[t].pc = "putmru" /\ MruIsFree(node[n].priority)
  /\ node' = [node EXCEPT ![n].mru = node[n].priority]
  /\ nlock' = [nlock EXCEPT ![n] = NoThread]
  /\ th' = Returned(t, NoNode)
  /\ UNCHANGED <<hlock, mlock, counts>>

SetPriority(t, p) ==
  LET n == th[t].ref IN
  /\ th[t].pc = "idle" /\ n # NoNode /\ nlock[n] = NoThread
  /\ node' = [node EXCEPT ![n].priority = p, ![n].old = -1]
  /\ UNCHANGED <<hlock, nlock, mlock, counts, th>>

\* The holder changes the data.
MarkDirty(t) ==
  LET n == th[t].ref IN
  /\ th[t].pc = "idle" /\ n # NoNode
  /\ node' = [node EXCEPT ![n].dirty = TRUE]
  /\ UNCHANGED <<hlock, nlock, mlock, counts, th>>

\* cache_flush, too, is called when no other thread is inside the cache.
Quiet == NoPurge /\ \A t \in Threads : th[t].pc = "idle"

Purge(t) ==
  /\ Quiet
  /\ th' = [th EXCEPT ![t].priority = 0, ![t].purge = TRUE, ![t].pc = "shake"]
  /\ UNCHANGED <<node, hlock, nlock, mlock, counts>>

\* Every node in a chain is flushed; what failed stays dirty.
FlushChains ==
  \E F \in SUBSET {n \in Nodes : FALSE \in FlushResults(n)} :
    node' = [n \in Nodes |-> [node[n] EXCEPT !.dirty = @ /\ n \in F]]

Flush ==
  /\ Quiet
  /\ FlushChains
  /\ UNCHANGED <<hlock, nlock, mlock, counts, th>>

\* Nodes left over (they are referenced) are flushed.
PurgeEnd(t) ==
  /\ th[t].pc = "purged"
  /\ IF c_count # 0 THEN FlushChains ELSE UNCHANGED node
  /\ th' = Returned(t, th[t].ref)
  /\ UNCHANGED <<hlock, nlock, mlock, counts>>

-----------------------------------------------------------------------------
Corrupt == \E t \in Threads : th[t].pc = "corrupt"

\* The step a thread inside the cache takes next.
Step(t) ==
  /\ ~Corrupt
  /\ \/ GetLockHash(t) \/ GetFromMru(t) \/ UseBadMru(t) \/ GetPurge(t) \/ GetNotFound(t)
     \/ \E n \in Nodes : \/ GetHitInUse(t, n) \/ GetHitUnused(t, n) \/ GetMiscompare(t, n)
                         \/ AllocNode(t, n) \/ ShakeSkip(t, n) \/ ShakeFlush(t, n)
     \/ Allocate(t) \/ AllocFails(t) \/ Insert(t) \/ UncountPurged(t) \/ Expand(t)
     \/ ShakeLockMru(t) \/ ShakePark(t) \/ ShakeUnhash(t) \/ ShakeUnlockMru(t)
     \/ ShakeRelease(t) \/ ShakeDiscount(t) \/ PurgeEnd(t) \/ PutOnMru(t)

\* The calls into the cache.
Call(t) ==
  /\ ~Corrupt
  /\ \/ Put(t) \/ MarkDirty(t) \/ Purge(t)
     \/ \E k \in Keys : Get(t, k)
     \/ \E p \in 0 .. CACHE_MAX_PRIORITY : SetPriority(t, p)

\* Nothing is left to do: every thread is idle, or stopped at the bound on the size
\* of the cache, or the process is corrupt.
Finished ==
  /\ Corrupt \/ \A t \in Threads : th[t].pc = "idle" \/ Stopped(t)
  /\ UNCHANGED vars

Next ==
  \/ \E t \in Threads : Step(t) \/ Call(t)
  \/ ~Corrupt /\ Flush
  \/ Finished

Spec == Init /\ [][Next]_vars

\* A thread inside the cache is scheduled, and gets a lock that stays free.
FairSpec == Spec /\ \A t \in Threads : WF_vars(Step(t))

-----------------------------------------------------------------------------
Cached == {n \in Nodes : node[n].where = "cached"}
Holders(n) == {t \in Threads : th[t].ref = n}

\* The reference count of a cached node is the number of its holders, whatever
\* gets, puts and shakes of other threads come in between; and the variables have
\* their types.
RefsCounted == TypeOK /\ \A n \in Cached : node[n].count = Cardinality(Holders(n))

\* An unlocked cached node is on an MRU list exactly when nobody holds it, and on
\* the list of its priority (except while the shaker parks it): what
\* cache_node_get and __cache_node_purge rely on when they lock
\* c_mrus[cn_priority] to unlink it.
MruExact ==
  \A n \in Cached :
    nlock[n] = NoThread /\ (\A t \in Threads : th[t].pc = "park" => th[t].cur # n) =>
      node[n].mru = IF node[n].count = 0 THEN node[n].priority ELSE -1

\* "a capped number of cache entries": the nodes taken from the free list are
\* covered by c_count, and c_count stays within c_maxcount.
CountBounds ==
  Cardinality({n \in Nodes : node[n].where # "free"}) <= c_count /\ c_count <= c_maxcount

\* cache_purge leaves only nodes that somebody holds, parked dirty ones included.
PurgeEmpties ==
  [][\A t \in Threads : th[t].purge /\ ~th'[t].purge =>
       \A n \in Cached : Holders(n) # {}]_vars

\* cache_node_get returns: flushing, parking, purging and growing end (as long as
\* the process is sane and the model's supply of nodes lets the cache grow).
GetReturns ==
  \A t \in Threads : (th[t].pc = "hash") ~> (th[t].pc = "idle" \/ Stopped(t) \/ Corrupt)

Abstract == INSTANCE NodeCache WITH
  content <- [n \in Nodes |-> IF node[n].where = "free" THEN NoKey ELSE node[n].key],
  refs <- [n \in Nodes |-> IF node[n].where = "new" THEN 1 ELSE Cardinality(Holders(n))],
  dirty <- [n \in Nodes |-> node[n].dirty],
  purge <- \E t \in Threads : th[t].purge

\* The cache keeps what it promises to a holder: the node is not reused or rekeyed
\* under it, and dirty data is not dropped to make room.
ImplementsNodeCache == Abstract!CacheSpec
=============================================================================
