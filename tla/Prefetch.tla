------------------------------ MODULE Prefetch ------------------------------
(***************************************************************************)
(* Inode prefetch of xfs_repair (repair/prefetch.c) with the processing    *)
(* thread that it runs ahead of (process_aginodes).  For each group there  *)
(* are a queuing thread, which locks the buffers of the inode clusters and *)
(* queues them, and I/O workers, which read the queued buffers, queue the  *)
(* directory blocks they find in them and release the locks.  The          *)
(* processing thread takes the groups in order, and a buffer it needs may  *)
(* be locked and queued.                                                   *)
(*                                                                         *)
(* args->lock is held from one step to the next only by a thread about to  *)
(* sleep; every other critical section is one step.  The file system has   *)
(* no cross-linked blocks, so no thread locks a buffer it already has.     *)
(***************************************************************************)
EXTENDS Integers, SequencesExt, FiniteSetsExt

CONSTANTS
  NAG,          \* groups 0..NAG-1 of the range
  Chunks,       \* the cluster buffer of each inode chunk, a sequence for each group
  Dirs, Bmap,   \* of each cluster: its directory blocks, and its bmap block or NoBlock
  Blocks,       \* all buffers, as file system block numbers (the keys of io_queue)
  Linear,       \* the disk block of each: groups need not have a power of two of blocks
  NoBlock,
  InitCached,   \* buffers that are in the cache and up to date at the start
  PF_THREAD_COUNT, \* I/O workers of each group
  MaxQueue,     \* max_queue: chunks the queuing thread may be ahead
  IO_THRESHOLD,
  pf_batch_fsbs

AG == 0..(NAG - 1)
Workers == 1..PF_THREAD_COUNT
Threads == {"P", "Q", "W"} \X AG \X (Workers \cup {NoBlock})
Unlocked == <<>>
Clusters == UNION {Range(Chunks[g]) : g \in AG}

ASSUME ConstantsOK ==
  /\ NAG \in Nat \ {0} /\ {PF_THREAD_COUNT, MaxQueue, IO_THRESHOLD, pf_batch_fsbs} \subseteq Nat
  /\ Blocks \subseteq Nat \ {0} /\ NoBlock \notin Blocks /\ InitCached \subseteq Blocks
  /\ Chunks \in [AG -> Seq(Blocks)]
  /\ Linear \in [Blocks -> Nat] /\ \A b \in Blocks : Linear[b] <= b
  /\ Dirs \in [Clusters -> Seq(Blocks)] /\ Bmap \in [Clusters -> Blocks \cup {NoBlock}]

VARIABLES
  args,    \* struct prefetch_args of each group (left: a worker has reset
           \* can_start_reading while buffers were queued, and nobody has set it since)
  has,     \* groups whose args the processing thread knows (not NULL)
  p, q, w, \* the processing thread, the queuing threads and the I/O workers
  locked,  \* the thread that locked each buffer
  cached   \* buffers that are LIBXFS_B_UPTODATE

vars == <<args, has, p, q, w, locked, cached>>

P == <<"P", 0, NoBlock>>
Q(g) == <<"Q", g, NoBlock>>
W(g, k) == <<"W", g, k>>

\* A worker outside of pf_batch_read.
Worker(pc) == [pc |-> pc, phase |-> "pri", batch |-> <<>>, todo |-> <<>>]

\* The args as start_inode_prefetch sets them up.
NewArgs == [reading |-> FALSE, processing |-> FALSE, done |-> FALSE, queued |-> FALSE,
            bufs |-> 0, last |-> 0, queue |-> {}, sem |-> MaxQueue, next |-> FALSE,
            live |-> TRUE, left |-> FALSE]

Init ==
  /\ args = [g \in AG |-> NewArgs]
  /\ has = {}
  /\ p = [pc |-> "first", ag |-> 0, i |-> 1, todo |-> <<>>]
  /\ q = [g \in AG |-> [pc |-> "none", i |-> 1, todo |-> <<>>]]
  /\ w = [g \in AG |-> [k \in Workers |-> Worker("none")]]
  /\ locked = [b \in Blocks |-> Unlocked]
  /\ cached = InitCached

-----------------------------------------------------------------------------
(* The lock of the args, and the two condition variables.                  *)

\* About to sleep: after the test of the flag, before the wait.
BeforeWait == {"tosleep", "toolate"}
Locked(g) ==
  \/ \E k \in Workers : w[g][k].pc \in {"recheck"} \cup BeforeWait
  \/ p.ag = g /\ p.pc \in BeforeWait

\* What a signal does to a thread.  One without args->lock may come too late for a
\* thread that is about to sleep and misses it.
Signalled(pc) ==
  CASE pc \in {"asleep", "missed"} -> "woken" [] pc = "tosleep" -> "toolate" [] OTHER -> pc
Asleep(pc) == IF pc = "toolate" THEN "missed" ELSE "asleep"

Woken(g, a, ww) ==
  IF ~a.reading \/ args[g].reading THEN ww
  ELSE [k \in Workers |-> [ww[k] EXCEPT !.pc = Signalled(@)]]
ProcWoken(g, a) ==
  IF p.ag = g /\ a.processing /\ ~args[g].processing THEN [p EXCEPT !.pc = Signalled(@)] ELSE p
Set(g, a, ww) ==
  /\ args' = [args EXCEPT ![g] = [a EXCEPT !.left = @ /\ ~a.reading]]
  /\ w' = [w EXCEPT ![g] = Woken(g, a, ww)]
  /\ p' = ProcWoken(g, a)

\* pf_skip_prefetch_thread.
Skipped(a) == [a EXCEPT !.done = TRUE, !.processing = TRUE, !.next = FALSE]

-----------------------------------------------------------------------------
(* Buffers.                                                                *)

\* What a thread does with the buffer of a cluster it has: pf_read_inode_dirs
\* reads the bmap block (pf_scan_lbtree) and queues the directory blocks, unless
\* the cluster or the bmap block is found bad.  A read ("read", or "fail" when it
\* fails) locks the buffer.
ReadDirs(c) ==
  LET each == [n \in DOMAIN Dirs[c] |-> <<"queue", Dirs[c][n]>>]
      b == Bmap[c] IN
  {<<>>} \cup IF b = NoBlock THEN {each}
              ELSE {<<<<"fail", b>>, <<"unlock", b>>>>, <<<<"read", b>>>> \o each \o <<<<"unlock", b>>>>}

\* What the processing thread reads of an inode: its bmap block (scan_lbtree) and
\* its directory blocks, one after the other (process_leaf_node_dir2).  It keeps
\* the cluster locked meanwhile (process_inode_chunk).
ScanLbtree(b) == IF b = NoBlock THEN <<>> ELSE <<<<"read", b>>, <<"unlock", b>>>>
ReadDirBlocks(dirs) ==
  FlattenSeq([n \in DOMAIN dirs |-> <<<<"read", dirs[n]>>, <<"unlock", dirs[n]>>>>])
ProcessChunk(c) ==
  <<<<"read", c>>>> \o ScanLbtree(Bmap[c]) \o ReadDirBlocks(Dirs[c]) \o <<<<"unlock", c>>>>

\* libxfs_buf_read and libxfs_buf_relse.
BufRead(t, b, ok) ==
  /\ locked[b] = Unlocked
  /\ locked' = [locked EXCEPT ![b] = t]
  /\ cached' = IF ok THEN cached \cup {b} ELSE cached
BufRelse(B) == [b \in Blocks |-> IF b \in B THEN Unlocked ELSE locked[b]]

\* pf_queue_io gets the buffer without waiting for its lock.  The mutant
\* counts directory blocks as well.
CountAll(a, b) == b > a.last
CountsAsInode(a, b) == b \in Clusters /\ b > a.last

Inserted(a, b) ==
  LET n == IF CountsAsInode(a, b) THEN a.bufs + 1 ELSE a.bufs IN
  [a EXCEPT !.queue = @ \cup {b}, !.bufs = n, !.processing = TRUE,
            !.reading = @ \/ (n # a.bufs /\ n = IO_THRESHOLD)]

QueueIo(g, t, b, ww) ==
  IF locked[b] # Unlocked \/ b \in cached
  THEN /\ w' = [w EXCEPT ![g] = ww]
       /\ UNCHANGED <<args, p, locked>>
  ELSE /\ ~Locked(g)
       /\ locked' = [locked EXCEPT ![b] = t]
       /\ Set(g, Inserted(args[g], b), ww)

\* One call of pf_read_inode_dirs on behalf of thread t of group g; ww are the
\* workers of the group after it.
DirStep(g, t, op, ww) ==
  \/ op[1] = "queue" /\ QueueIo(g, t, op[2], ww) /\ UNCHANGED cached
  \/ op[1] \in {"read", "fail"} /\ BufRead(t, op[2], op[1] = "read") /\ w' = [w EXCEPT ![g] = ww] /\ UNCHANGED <<args, p>>
  \/ /\ op[1] = "unlock" /\ locked' = BufRelse({op[2]}) /\ w' = [w EXCEPT ![g] = ww]
     /\ UNCHANGED <<args, p, cached>>

-----------------------------------------------------------------------------
(* The queuing thread of group g: pf_queuing_worker.                       *)

\* The first n workers could be created; without any, the group is skipped.
CreateWorkers(g, n) ==
  /\ q[g].pc = "create"
  /\ IF n = 0
     THEN /\ ~Locked(g) /\ Set(g, Skipped(args[g]), w[g])
          /\ q' = [q EXCEPT ![g].pc = IF args[g].next THEN "handover" ELSE "exit"]
     ELSE /\ w' = [w EXCEPT ![g] = [k \in Workers |-> IF k <= n THEN Worker("check") ELSE @[k]]]
          /\ q' = [q EXCEPT ![g].pc = "chunk"] /\ UNCHANGED <<args, p>>
  /\ UNCHANGED <<has, locked, cached>>

\* sem_trywait for the next chunk.
AtLimit(a) == a.sem = 0
TryChunk(g) ==
  /\ q[g].pc = "chunk" /\ q[g].i <= Len(Chunks[g])
  /\ IF AtLimit(args[g])
     THEN q' = [q EXCEPT ![g].pc = "kickio"] /\ UNCHANGED args
     ELSE q' = [q EXCEPT ![g].pc = "queue"] /\ args' = [args EXCEPT ![g].sem = @ - 1]
  /\ UNCHANGED <<has, p, w, locked, cached>>

\* The queue is kicked without args->lock.
KickIo(g) ==
  /\ q[g].pc = "kickio"
  /\ Set(g, [args[g] EXCEPT !.reading = TRUE], w[g])
  /\ q' = [q EXCEPT ![g].pc = "kickproc"]
  /\ UNCHANGED <<has, locked, cached>>
KickProcessing(g) ==
  /\ q[g].pc = "kickproc"
  /\ Set(g, [args[g] EXCEPT !.processing = TRUE], w[g])
  /\ q' = [q EXCEPT ![g].pc = "semwait"]
  /\ UNCHANGED <<has, locked, cached>>
SemWait(g) ==
  /\ q[g].pc = "semwait" /\ args[g].sem > 0
  /\ args' = [args EXCEPT ![g].sem = @ - 1]
  /\ q' = [q EXCEPT ![g].pc = "queue"]
  /\ UNCHANGED <<has, p, w, locked, cached>>

\* pf_queue_io of the chunk.  A cluster that is up to date is scanned at once.
QueueChunk(g) ==
  LET c == Chunks[g][q[g].i]  next == [q[g] EXCEPT !.pc = "chunk", !.i = @ + 1] IN
  /\ q[g].pc = "queue"
  /\ IF c \in cached /\ locked[c] = Unlocked
     THEN /\ locked' = [locked EXCEPT ![c] = Q(g)]
          /\ \E dirs \in ReadDirs(c) :
               q' = [q EXCEPT ![g] = [next EXCEPT !.pc = "dirs", !.todo = dirs \o <<<<"unlock", c>>>>]]
          /\ UNCHANGED <<args, p, w>>
     ELSE QueueIo(g, Q(g), c, w[g]) /\ q' = [q EXCEPT ![g] = next]
  /\ UNCHANGED <<has, cached>>
QueueDirs(g) ==
  /\ q[g].pc = "dirs"
  /\ DirStep(g, Q(g), Head(q[g].todo), w[g])
  /\ q' = [q EXCEPT ![g] = [@ EXCEPT !.todo = Tail(@), !.pc = IF Len(q[g].todo) = 1 THEN "chunk" ELSE "dirs"]]
  /\ UNCHANGED has

\* All chunks are queued.
QueuingDone(g) ==
  /\ q[g].pc = "chunk" /\ q[g].i > Len(Chunks[g]) /\ ~Locked(g)
  /\ Set(g, [args[g] EXCEPT !.queued = TRUE, !.reading = TRUE, !.processing = TRUE], w[g])
  /\ q' = [q EXCEPT ![g].pc = "join"]
  /\ UNCHANGED <<has, locked, cached>>

\* The readers have finished.  The mutant joins the first one only.
FirstOver(g) == w[g][1].pc \in {"none", "exit"}
ReadersOver(g) == \A k \in Workers : w[g][k].pc \in {"none", "exit"}
Joined(g) ==
  /\ q[g].pc = "join" /\ ~Locked(g) /\ ReadersOver(g)
  /\ args' = [args EXCEPT ![g].done = TRUE, ![g].next = FALSE]
  /\ q' = [q EXCEPT ![g].pc = IF args[g].next THEN "handover" ELSE "exit"]
  /\ UNCHANGED <<has, p, w, locked, cached>>

\* pf_create_prefetch_thread for the next group.
Handover(g, ok) ==
  /\ q[g].pc = "handover"
  /\ q' = [q EXCEPT ![g].pc = "exit", ![g + 1].pc = IF ok THEN "create" ELSE "failed"]
  /\ IF ok THEN UNCHANGED <<args, p, w>>
     ELSE ~Locked(g + 1) /\ Set(g + 1, Skipped(args[g + 1]), w[g + 1])
  /\ UNCHANGED <<has, locked, cached>>

-----------------------------------------------------------------------------
(* The I/O workers: pf_io_worker and pf_batch_read.                        *)

\* The queue of a pass of pf_batch_read: the primary pass, its nested metadata
\* and secondary passes, and the secondary pass at the end.
Eligible(a, phase) ==
  {b \in a.queue : CASE phase = "pri" -> b >= a.last
                     [] phase = "meta" -> b >= a.last /\ b \notin Clusters
                     [] OTHER -> b < a.last}
Passes(phase) ==
  CASE phase = "pri" -> <<"pri", "sec">>
    [] phase = "meta" -> <<"meta", "sec2", "pri", "sec">>
    [] phase = "sec2" -> <<"sec2", "pri", "sec">>
    [] OTHER -> <<"sec">>

MayLeave(a) == a.queued /\ a.queue = {}

\* A batch leaves the queue.
Taken(queue, batch) == queue \ Range(batch)

\* last_bno_read, after a batch that begins with b: a disk block.
LastRead(last, b) == IF Linear[b] > pf_batch_fsbs THEN Linear[b] ELSE last

\* Under the lock, from the given phase on: a batch is taken from the first
\* pass that has buffers, as many as are close enough together to be read at
\* once.  A metadata pass gives up when the first metadata buffer is too far
\* from the inode buffer it starts at.
TakeBatch(g, k, phase) ==
  LET a == args[g]  passes == Passes(phase) IN
  \E far \in BOOLEAN, n \in DOMAIN passes :
    LET Has(m) == Eligible(a, passes[m]) # {} /\ ~(far /\ passes[m] = "meta")
        bufs == SetToSortSeq(Eligible(a, passes[n]), <) IN
    /\ far => phase = "meta" /\ Eligible(a, "meta") # {} /\ Min(Eligible(a, "pri")) \in Clusters
    /\ Has(n) /\ \A m \in 1..(n - 1) : ~Has(m)
    /\ \E l \in DOMAIN bufs :
         LET batch == SubSeq(bufs, 1, l)
             inodes == Cardinality(Range(batch) \cap Clusters) IN
         /\ w' = [w EXCEPT ![g][k] = [pc |-> "read", phase |-> passes[n], batch |-> batch, todo |-> <<>>]]
         /\ args' = [args EXCEPT ![g] =
              [a EXCEPT !.queue = Taken(@, batch),
                        !.last = IF passes[n] = "pri" /\ inodes > 0 THEN LastRead(@, batch[1]) ELSE @,
                        !.bufs = IF passes[n] = "pri" THEN @ - inodes ELSE @]]

\* Nothing is left for any pass: the worker leaves, or waits for the next kick.
NothingLeft(g, k, phase) ==
  LET a == args[g] IN
  /\ \A n \in DOMAIN Passes(phase) : Eligible(a, Passes(phase)[n]) = {}
  /\ IF a.queued
     THEN IF MayLeave(a) THEN w' = [w EXCEPT ![g][k] = Worker("exit")] /\ UNCHANGED args
          ELSE TakeBatch(g, k, "pri")
     ELSE /\ args' = [args EXCEPT ![g].reading = FALSE, ![g].left = a.queue # {}]
          /\ w' = [w EXCEPT ![g][k] = Worker("recheck")]

\* The loops of pf_io_worker: the outer one at the start, the inner one when
\* it was woken or has found nothing.
WorkerLoop(g, k) ==
  LET a == args[g]  pc == w[g][k].pc IN
  /\ pc \in {"check", "woken", "recheck"} /\ (pc = "recheck" \/ ~Locked(g))
  /\ CASE pc = "check" /\ MayLeave(a) -> w' = [w EXCEPT ![g][k].pc = "exit"] /\ UNCHANGED args
       [] ~(pc = "check" /\ MayLeave(a)) /\ ~a.reading /\ ~a.queued ->
            w' = [w EXCEPT ![g][k].pc = "tosleep"] /\ UNCHANGED args
       [] OTHER -> TakeBatch(g, k, "pri") \/ NothingLeft(g, k, "pri")
  /\ UNCHANGED <<has, p, q, locked, cached>>

\* pthread_cond_wait(&args->start_reading, &args->lock).
WorkerSleep(g, k) ==
  /\ w[g][k].pc \in BeforeWait
  /\ w' = [w EXCEPT ![g][k].pc = Asleep(@)]
  /\ UNCHANGED <<args, has, p, q, locked, cached>>

\* The read of the batch: the first n buffers are up to date after it.  Each inode
\* cluster among them has its directories read.
ReadBatch(g, k, n) ==
  LET me == w[g][k]
      dirs(m) == IF me.batch[m] \in Clusters THEN ReadDirs(me.batch[m]) ELSE {<<>>} IN
  /\ me.pc = "read" /\ n \in 0..Len(me.batch)
  /\ cached' = cached \cup Range(SubSeq(me.batch, 1, n))
  /\ \E s \in [1..n -> UNION {dirs(m) : m \in 1..n}] :
       /\ \A m \in 1..n : s[m] \in dirs(m)
       /\ w' = [w EXCEPT ![g][k] = [me EXCEPT !.pc = "dirs", !.todo = FlattenSeq(s)]]
  /\ UNCHANGED <<args, has, p, q, locked>>

ReadDirsOf(g, k) ==
  LET me == w[g][k] IN
  /\ me.pc = "dirs" /\ me.todo # <<>>
  /\ DirStep(g, W(g, k), Head(me.todo), [w[g] EXCEPT ![k].todo = Tail(@)])
  /\ UNCHANGED <<has, q>>

ReleaseBatch(g, k) ==
  LET me == w[g][k] IN
  /\ me.pc = "dirs" /\ me.todo = <<>>
  /\ locked' = BufRelse(Range(me.batch))
  /\ w' = [w EXCEPT ![g][k].pc = "relock", ![g][k].batch = <<>>]
  /\ UNCHANGED <<args, has, p, q, cached>>

\* Back under the lock: when few inode buffers are queued, the directory blocks
\* of both queues go first.
Continue(g, k) ==
  LET a == args[g]
      starving == w[g][k].phase = "pri" /\ ~a.queued /\ a.bufs < IO_THRESHOLD
      phase == IF starving THEN "meta" ELSE w[g][k].phase IN
  /\ w[g][k].pc = "relock" /\ ~Locked(g)
  /\ TakeBatch(g, k, phase) \/ NothingLeft(g, k, phase)
  /\ UNCHANGED <<has, p, q, locked, cached>>

-----------------------------------------------------------------------------
(* The processing thread: prefetch_ag_range, calling process_ag_func.      *)

\* pf_create_prefetch_thread of group g by start_inode_prefetch.
StartThread(g, ok) ==
  /\ q' = [q EXCEPT ![g].pc = IF ok THEN "create" ELSE "failed"]
  /\ args' = IF ok THEN args ELSE [args EXCEPT ![g] = Skipped(@)]
  /\ has' = IF ok THEN has \cup {g} ELSE has

StartFirst(ok) ==
  /\ p.pc = "first" /\ p' = [p EXCEPT !.pc = "next"]
  /\ StartThread(0, ok)
  /\ UNCHANGED <<w, locked, cached>>

\* start_inode_prefetch of the group after the one to be processed.  The mutant
\* does not wait for the prefetch of this one.
StartAtOnce(g) == TRUE
PrevDone(g) == g \notin has \/ args[g].done

StartNext(ok) ==
  LET g == p.ag + 1 IN
  /\ p.pc = "next" /\ p' = [p EXCEPT !.pc = "wait"]
  /\ IF g \notin AG THEN UNCHANGED <<args, has, q>>
     ELSE IF PrevDone(p.ag) THEN StartThread(g, ok)
     ELSE /\ ~Locked(p.ag) /\ args' = [args EXCEPT ![p.ag].next = TRUE]
          /\ has' = has \cup {g} /\ UNCHANGED q
  /\ UNCHANGED <<w, locked, cached>>

\* wait_for_inode_prefetch.
WaitForPrefetch ==
  /\ p.pc \in {"wait", "woken"} /\ ~Locked(p.ag)
  /\ p' = [p EXCEPT !.pc = IF p.ag \in has /\ ~args[p.ag].processing THEN "tosleep" ELSE "chunk"]
  /\ UNCHANGED <<args, has, q, w, locked, cached>>
ProcSleep ==
  /\ p.pc \in BeforeWait /\ p' = [p EXCEPT !.pc = Asleep(@)]
  /\ UNCHANGED <<args, has, q, w, locked, cached>>

\* process_aginodes: sem_post and process_inode_chunk, chunk by chunk.
Post ==
  /\ p.pc = "chunk" /\ p.i <= Len(Chunks[p.ag])
  /\ args' = IF p.ag \in has THEN [args EXCEPT ![p.ag].sem = @ + 1] ELSE args
  /\ p' = [p EXCEPT !.pc = "process", !.i = @ + 1, !.todo = ProcessChunk(Chunks[p.ag][p.i])]
  /\ UNCHANGED <<has, q, w, locked, cached>>

\* Without its cluster or bmap block the program exits; a directory block that
\* cannot be read is passed over, and so is the rest of an inode found bad.
Process ==
  LET op == Head(p.todo)  b == op[2]
      next == [p EXCEPT !.todo = Tail(@), !.pc = IF Len(p.todo) = 1 THEN "chunk" ELSE "process"] IN
  /\ p.pc = "process"
  /\ \/ op[1] = "read" /\ BufRead(P, b, TRUE) /\ p' = next
     \/ /\ op[1] = "read" /\ b \notin cached /\ BufRead(P, b, FALSE)
        /\ p' = IF b \in UNION {Range(Dirs[c]) : c \in Clusters} THEN next
                ELSE [p EXCEPT !.pc = "exit", !.todo = <<>>]
     \/ /\ op[1] = "read" /\ b \notin Clusters /\ p' = [p EXCEPT !.todo = <<Last(@)>>]
        /\ UNCHANGED <<locked, cached>>
     \/ op[1] = "unlock" /\ locked' = BufRelse({b}) /\ p' = next /\ UNCHANGED cached
  /\ UNCHANGED <<args, has, q, w>>

\* cleanup_inode_prefetch joins the queuing thread, if there is one, and frees
\* the args.  The mutant does not join.
JoinNothing(g) == TRUE
ThreadOver(g) == q[g].pc \in {"exit", "failed"}

\* What the properties still look at.
Freed(a) == [NewArgs EXCEPT !.live = FALSE, !.done = a.done, !.queue = a.queue, !.next = a.next]

Cleanup ==
  /\ p.pc = "chunk" /\ p.i > Len(Chunks[p.ag])
  /\ p.ag \in has => ThreadOver(p.ag)
  /\ args' = IF p.ag \in has THEN [args EXCEPT ![p.ag] = Freed(@)] ELSE args
  /\ p' = IF p.ag + 1 \in AG THEN [pc |-> "next", ag |-> p.ag + 1, i |-> 1, todo |-> <<>>]
          ELSE [p EXCEPT !.pc = "end"]
  /\ UNCHANGED <<has, q, w, locked, cached>>

-----------------------------------------------------------------------------
QStep(g) ==
  \/ \E n \in 0..PF_THREAD_COUNT : CreateWorkers(g, n)
  \/ TryChunk(g) \/ KickIo(g) \/ KickProcessing(g) \/ SemWait(g)
  \/ QueueChunk(g) \/ QueueDirs(g) \/ QueuingDone(g) \/ Joined(g)
  \/ \E ok \in BOOLEAN : Handover(g, ok)

WStep(g, k) ==
  \/ WorkerLoop(g, k) \/ WorkerSleep(g, k)
  \/ \E n \in 0..Len(w[g][k].batch) : ReadBatch(g, k, n)
  \/ ReadDirsOf(g, k) \/ ReleaseBatch(g, k) \/ Continue(g, k)

PStep ==
  \/ \E ok \in BOOLEAN : StartFirst(ok) \/ StartNext(ok)
  \/ WaitForPrefetch \/ ProcSleep \/ Post \/ Process \/ Cleanup

\* Without the processing thread, which is the process, nothing goes on.
Next ==
  /\ p.pc # "exit"
  /\ \/ PStep
     \/ \E g \in AG : QStep(g) \/ (\E k \in Workers : WStep(g, k))

\* Every thread has ended, sleeps, or waits for the semaphore, for the end of other
\* threads or for the lock of a buffer: no step is possible.
Waits(pc) == pc \in {"none", "asleep", "missed", "failed", "exit", "end"}
NeedsLock(todo) == Head(todo)[1] \in {"read", "fail"} /\ locked[Head(todo)[2]] # Unlocked
AllWait ==
  p.pc = "exit" \/
  /\ \/ Waits(p.pc)
     \/ p.pc = "process" /\ Head(p.todo)[2] \in Clusters /\ NeedsLock(p.todo)
     \/ p.pc = "chunk" /\ p.i > Len(Chunks[p.ag]) /\ p.ag \in has /\ ~ThreadOver(p.ag)
  /\ \A g \in AG :
       \/ Waits(q[g].pc)
       \/ q[g].pc = "semwait" /\ args[g].sem = 0
       \/ q[g].pc = "join" /\ ~ReadersOver(g)
       \/ q[g].pc = "dirs" /\ NeedsLock(q[g].todo)
  /\ \A g \in AG, k \in Workers :
       Waits(w[g][k].pc) \/ (w[g][k].pc = "dirs" /\ w[g][k].todo # <<>> /\ NeedsLock(w[g][k].todo))

\* As long as some thread can run, one does: weak fairness of Next.  No more is
\* needed: no thread can run for ever by itself.
Fairness == []<>AllWait \/ []<><<TRUE>>_vars

Spec == Init /\ [][Next]_vars /\ Fairness

-----------------------------------------------------------------------------
(* Properties.                                                             *)

TypeOK ==
  LET Ops == Seq({"read", "fail", "unlock", "queue"} \X Blocks) IN
  /\ args \in [AG -> [reading : BOOLEAN, processing : BOOLEAN, done : BOOLEAN, queued : BOOLEAN,
                      bufs : Nat, last : Nat, queue : SUBSET Blocks, sem : Nat,
                      next : BOOLEAN, live : BOOLEAN, left : BOOLEAN]]
  /\ has \subseteq AG /\ cached \subseteq Blocks
  /\ locked \in [Blocks -> Threads \cup {Unlocked}]
  /\ p.ag \in AG /\ p.i \in Nat /\ p.todo \in Ops
  /\ \A g \in AG : q[g].i \in Nat /\ q[g].todo \in Ops
  /\ \A g \in AG, k \in Workers : w[g][k].batch \in Seq(Blocks) /\ w[g][k].todo \in Ops

Active(g) == q[g].pc \notin {"none", "failed", "exit"} /\ ~args[g].done

\* Every queued buffer is still locked by the prefetch thread that queued it, and
\* when the prefetch of a group is done its queue is empty and none of its threads
\* has a buffer locked, so that nothing the processing thread waits for is left
\* behind (the assertion in pf_queuing_worker).  The variables have their types.
QueueDrained ==
  /\ TypeOK
  /\ \A g \in AG : \A b \in args[g].queue : locked[b] \notin {Unlocked, P}
  /\ \A g \in AG : args[g].done =>
       /\ args[g].queue = {}
       /\ \A b \in Blocks : locked[b] = Unlocked \/ locked[b] = P \/ locked[b][2] # g

\* inode_bufs_queued counts the queued inode buffers, all of which lie ahead of
\* last_bno_read, whatever the order in which the passes take buffers (the
\* assertion in pf_queue_io).
InodesCounted ==
  \A g \in AG : LET inodes == args[g].queue \cap Clusters IN
    args[g].bufs = Cardinality(inodes) /\ \A b \in inodes : b > args[g].last

\* "There is only one prefetch taking place at a time" (prefetch_ag_range).
OnePrefetch == \A g, h \in AG : Active(g) /\ Active(h) => g = h

\* cleanup_inode_prefetch frees the args when no thread uses them and nobody is
\* queued behind them (its assertion on next_args).
FreedUnused ==
  \A g \in AG : ~args[g].live =>
    q[g].pc \in {"exit", "failed"} /\ ~args[g].next /\ ReadersOver(g)

\* Two ways to wait for ever.  A thread has missed its kick, which came between its
\* test and its wait because the queuing thread does not take args->lock, and nobody
\* signals a flag that is set.  Or a worker has reset can_start_reading while
\* buffers were queued, after a kick that had found the flag set.
MissedKick(g) == (p.ag = g /\ p.pc = "missed") \/ \E k \in Workers : w[g][k].pc = "missed"
ResetTooEarly(g) == args[g].left


\* With the kick at the limit the processing thread does not "get stuck on a buffer
\* that has been locked and added to the I/O queue but is waiting for the thread to
\* be woken" (the comment in pf_queuing_worker): when it waits for a queued buffer,
\* some thread can go on.
WaitsForQueued ==
  p.pc = "process" /\ NeedsLock(p.todo) /\ \E g \in AG : Head(p.todo)[2] \in args[g].queue
KickUnsticks == ~(WaitsForQueued /\ AllWait)
=============================================================================
