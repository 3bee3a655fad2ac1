------------------------------- MODULE DirScan -------------------------------
(***************************************************************************)
(* The parallel directory tree walk of xfs_scrub (scrub/vfs.c) on top of a *)
(* workqueue (libfrog/workqueue.c, see WorkQueue): each directory is a     *)
(* work item that queues one item for each subdirectory, and scan_fs_tree  *)
(* waits until none is left.                                               *)
(***************************************************************************)
EXTENDS Integers, SequencesExt, FiniteSets

CONSTANTS
  Dirs, Root, File, Entries,  \* the tree: what readdir returns for each directory
  OtherDev,                   \* directories on which another filesystem is mounted
  Workers, Main,              \* threads of the workqueue, and the caller
  NoDir

ASSUME ConstantsOK ==
  /\ Root \in Dirs \ OtherDev /\ Main \notin Workers /\ Workers # {}
  /\ File \notin Dirs /\ NoDir \notin Dirs \cup {File} /\ OtherDev \subseteq Dirs
  /\ Entries \in [Dirs -> Seq(Dirs \cup {File})]

VARIABLES
  sft,     \* struct scan_fs_tree: nr_dirs and aborted
  wq,      \* the queued items, and whether it is terminated
  th,      \* threads: where they are, their directory, its unread entries, the
           \* subdirectory being queued
  ret,     \* what scan_fs_tree returns
  visits,  \* times each directory was read
  missed   \* directories that an error kept from the scan: the open, fstatat or
           \* the readdir that should have returned them failed

vars == <<sft, wq, th, ret, visits, missed>>
Threads == Workers \cup {Main}

Init ==
  /\ sft = [nr_dirs |-> 0, aborted |-> FALSE]
  /\ wq = [items |-> <<>>, terminated |-> FALSE]
  /\ th = [t \in Threads |-> [pc |-> IF t = Main THEN "create" ELSE "idle", dir |-> NoDir,
                              left |-> <<>>, sub |-> IF t = Main THEN Root ELSE NoDir]]
  /\ ret = "none" /\ visits = [d \in Dirs |-> 0] /\ missed = {}

\* scan_fs_tree sets up the lock, the condition variable and the workqueue.
Create(ok) ==
  /\ th[Main].pc = "create"
  /\ th' = [th EXCEPT ![Main].pc = IF ok THEN "queue" ELSE "returned"]
  /\ ret' = IF ok THEN ret ELSE "error"
  /\ UNCHANGED <<sft, wq, visits, missed>>

-----------------------------------------------------------------------------
(* queue_subdir, by a worker for a subdirectory or by the caller for the   *)
(* root.                                                                   *)

\* Allocation and inc_nr_dirs.
IncNrDirs(t) ==
  /\ th[t].pc = "queue"
  /\ sft' = [sft EXCEPT !.nr_dirs = @ + 1]
  /\ th' = [th EXCEPT ![t].pc = "add"]
  /\ UNCHANGED <<wq, ret, visits, missed>>

\* Where a thread goes after queue_subdir: on with the entries, or to the wait.
\* The mutant reads no further entry.
OneEntry(t) == [th[t] EXCEPT !.pc = IF t = Main THEN "wait" ELSE "close", !.sub = NoDir]
Returned(t) == [th[t] EXCEPT !.pc = IF t = Main THEN "wait" ELSE "entry", !.sub = NoDir]
\* An error is the return value of the caller; a worker aborts the scan.
Failed(t) == [th[t] EXCEPT !.pc = IF t = Main THEN "destroy" ELSE "close", !.sub = NoDir]
Error(t) == ret' = IF t = Main THEN "error" ELSE ret

\* Without memory for the item, nothing was counted yet.
AllocFails(t) ==
  /\ th[t].pc = "queue"
  /\ th' = [th EXCEPT ![t] = Failed(t)]
  /\ sft' = [sft EXCEPT !.aborted = @ \/ t # Main] /\ Error(t)
  /\ UNCHANGED <<wq, visits, missed>>

\* workqueue_add.
WorkqueueAdd(t) ==
  /\ th[t].pc = "add"
  /\ wq' = [wq EXCEPT !.items = Append(@, th[t].sub)]
  /\ th' = [th EXCEPT ![t] = Returned(t)]
  /\ UNCHANGED <<sft, ret, visits, missed>>

\* dec_nr_dirs: the count, and the signal that moves a sleeping caller (in the
\* threads h) back to its test.  The mutants do not count, and signal one
\* directory early.
Uncounted(n) == n
Decremented(n) == n - 1
SignalEarly(h, n) == IF n = 1 /\ h[Main].pc = "asleep" THEN [h EXCEPT ![Main].pc = "wait"] ELSE h
Signalled(h, n) == IF n = 0 /\ h[Main].pc = "asleep" THEN [h EXCEPT ![Main].pc = "wait"] ELSE h

\* When workqueue_add fails the count is undone.
AddFails(t) ==
  /\ th[t].pc = "add"
  /\ sft' = [sft EXCEPT !.nr_dirs = Decremented(@), !.aborted = @ \/ t # Main]
  /\ th' = Signalled([th EXCEPT ![t] = Failed(t)], sft'.nr_dirs) /\ Error(t)
  /\ UNCHANGED <<wq, visits, missed>>

-----------------------------------------------------------------------------
(* scan_fs_dir, by a worker.                                               *)

\* workqueue_thread takes the next item.
TakeItem(t) ==
  /\ th[t].pc = "idle" /\ wq.items # <<>>
  /\ th' = [th EXCEPT ![t] = [@ EXCEPT !.pc = "open", !.dir = Head(wq.items)]]
  /\ wq' = [wq EXCEPT !.items = Tail(@)]
  /\ UNCHANGED <<sft, ret, visits, missed>>

OpenDir(t) ==
  /\ th[t].pc = "open"
  /\ th' = [th EXCEPT ![t] = [@ EXCEPT !.pc = "entry", !.left = Entries[th[t].dir]]]
  /\ visits' = [visits EXCEPT ![th[t].dir] = @ + 1]
  /\ UNCHANGED <<sft, wq, ret, missed>>

\* The open fails, or the callback or fdopendir does, which aborts.
OpenFails(t, abort) ==
  /\ th[t].pc = "open"
  /\ sft' = [sft EXCEPT !.aborted = @ \/ abort]
  /\ missed' = missed \cup {th[t].dir}
  /\ th' = [th EXCEPT ![t].pc = "dec"]
  /\ UNCHANGED <<wq, ret, visits>>

\* The readdir loop has another entry.
NextEntry(t) == th[t].pc = "entry" /\ th[t].left # <<>> /\ ~sft.aborted

\* One turn of it: a subdirectory of this filesystem is queued, a file and a
\* mount point are passed over.
Entry(t) ==
  /\ NextEntry(t)
  /\ LET e == Head(th[t].left)
     IN  th' = [th EXCEPT ![t] = IF e \in Dirs \ OtherDev
                                 THEN [@ EXCEPT !.pc = "queue", !.sub = e, !.left = Tail(@)]
                                 ELSE [@ EXCEPT !.left = Tail(@)]]
  /\ UNCHANGED <<sft, wq, ret, visits, missed>>

\* fstatat fails: reported, and the loop goes on.
StatFails(t) ==
  /\ NextEntry(t)
  /\ missed' = missed \cup ({Head(th[t].left)} \cap Dirs)
  /\ th' = [th EXCEPT ![t].left = Tail(@)]
  /\ UNCHANGED <<sft, wq, ret, visits>>

\* readdir fails, which the loop takes for the end of the directory.
ReaddirFails(t) ==
  /\ NextEntry(t)
  /\ missed' = missed \cup (ToSet(th[t].left) \cap Dirs)
  /\ th' = [th EXCEPT ![t] = [@ EXCEPT !.pc = "close", !.left = <<>>]]
  /\ UNCHANGED <<sft, wq, ret, visits>>

\* The callback for an entry of this filesystem fails, or too many errors were
\* reported.
EntryFails(t) ==
  /\ NextEntry(t) /\ Head(th[t].left) \notin OtherDev
  /\ sft' = [sft EXCEPT !.aborted = TRUE]
  /\ th' = [th EXCEPT ![t].pc = "close"]
  /\ UNCHANGED <<wq, ret, visits, missed>>

\* The end of the directory, or of the scan.
EndOfDir(t) ==
  /\ th[t].pc = "entry" /\ (th[t].left = <<>> \/ sft.aborted)
  /\ th' = [th EXCEPT ![t] = [@ EXCEPT !.pc = "close", !.left = <<>>]]
  /\ UNCHANGED <<sft, wq, ret, visits, missed>>

CloseDir(t) ==
  /\ th[t].pc = "close" /\ th' = [th EXCEPT ![t].pc = "dec"]
  /\ UNCHANGED <<sft, wq, ret, visits, missed>>

\* dec_nr_dirs, and then the return to workqueue_thread, which uses wq.
DecNrDirs(t) ==
  /\ th[t].pc = "dec"
  /\ sft' = [sft EXCEPT !.nr_dirs = Decremented(@)]
  /\ th' = Signalled([th EXCEPT ![t].pc = "free"], sft'.nr_dirs)
  /\ UNCHANGED <<wq, ret, visits, missed>>
ItemDone(t) ==
  /\ th[t].pc = "free"
  /\ th' = [th EXCEPT ![t] = [pc |-> "idle", dir |-> NoDir, left |-> <<>>, sub |-> NoDir]]
  /\ UNCHANGED <<sft, wq, ret, visits, missed>>

-----------------------------------------------------------------------------
(* scan_fs_tree, after the root was queued.                                *)

\* The test of the loop and the sleep are one step under sft.lock.
Wait ==
  /\ th[Main].pc = "wait"
  /\ th' = [th EXCEPT ![Main].pc = IF sft.nr_dirs > 0 THEN "asleep" ELSE "terminate"]
  /\ UNCHANGED <<sft, wq, ret, visits, missed>>

\* pthread_cond_wait may return without a signal; the loop tests again.  The
\* mutant has an if in the place of the while.
NoSecondTest ==
  /\ th[Main].pc = "asleep" /\ th' = [th EXCEPT ![Main].pc = "terminate"]
  /\ UNCHANGED <<sft, wq, ret, visits, missed>>
SpuriousWakeup ==
  /\ th[Main].pc = "asleep" /\ th' = [th EXCEPT ![Main].pc = "wait"]
  /\ UNCHANGED <<sft, wq, ret, visits, missed>>

\* workqueue_terminate returns when the workers have run out of items.
AllJoined == wq.items = <<>> /\ \A t \in Workers : th[t].pc = "idle"

Terminate ==
  /\ th[Main].pc = "terminate" /\ AllJoined
  /\ wq' = [wq EXCEPT !.terminated = TRUE]
  /\ ret' = IF sft.aborted THEN "error" ELSE "ok"
  /\ th' = [th EXCEPT ![Main].pc = "destroy"]
  /\ UNCHANGED <<sft, visits, missed>>

\* workqueue_destroy asserts that the queue was terminated.
Destroy ==
  /\ th[Main].pc = "destroy"
  /\ th' = [th EXCEPT ![Main].pc = IF wq.terminated THEN "returned" ELSE "abort"]
  /\ UNCHANGED <<sft, wq, ret, visits, missed>>

-----------------------------------------------------------------------------
WorkerStep(t) ==
  \/ TakeItem(t) \/ OpenDir(t) \/ Entry(t) \/ StatFails(t) \/ ReaddirFails(t) \/ EntryFails(t)
  \/ EndOfDir(t) \/ CloseDir(t) \/ DecNrDirs(t) \/ ItemDone(t)
  \/ \E abort \in BOOLEAN : OpenFails(t, abort)
QueueSubdir(t) == IncNrDirs(t) \/ AllocFails(t) \/ WorkqueueAdd(t) \/ AddFails(t)
MainStep ==
  \/ \E ok \in BOOLEAN : Create(ok)
  \/ QueueSubdir(Main) \/ Wait \/ Terminate \/ Destroy

\* The caller goes on without the workqueue, or the process has ended.
Finished == th[Main].pc \in {"returned", "abort"} /\ UNCHANGED vars

Next == MainStep \/ SpuriousWakeup \/ Finished \/ \E t \in Workers : WorkerStep(t) \/ QueueSubdir(t)

\* The threads are scheduled; nothing makes a wait return by itself.
Spec ==
  /\ Init /\ [][Next]_vars /\ WF_vars(MainStep)
  /\ \A t \in Workers : WF_vars(WorkerStep(t) \/ QueueSubdir(t))

-----------------------------------------------------------------------------
(* Properties.                                                             *)

TypeOK ==
  /\ sft \in [nr_dirs : Nat, aborted : BOOLEAN] /\ ret \in {"none", "ok", "error"}
  /\ wq.items \in Seq(Dirs) /\ wq.terminated \in BOOLEAN
  /\ \A t \in Threads : /\ {th[t].dir, th[t].sub} \subseteq Dirs \cup {NoDir}
                         /\ th[t].left \in Seq(Dirs \cup {File})
  /\ visits \in [Dirs -> Nat] /\ missed \subseteq Dirs

\* nr_dirs counts the directories queued, about to be queued and being scanned:
\* it is zero only when there is nothing left to do.  The variables have their types.
DirsCounted ==
  /\ TypeOK
  /\ sft.nr_dirs = Len(wq.items)    + Cardinality({t \in Threads : th[t].pc = "add"})
                                 + Cardinality({t \in Workers : th[t].pc \notin {"idle", "free"}})

\* A scan that returns 0 has read every directory of the filesystem exactly once,
\* except for those that an error kept from it, and what lies below them.  (Such
\* an error is not in the return value; one of readdir is not even reported.)
EveryDirVisited ==
  (th[Main].pc = "returned" /\ ret = "ok") =>
    LET found(d) == d = Root \/ \E e \in Dirs : visits[e] = 1 /\ Contains(Entries[e], d)
    IN  \A d \in Dirs : visits[d] = IF found(d) /\ d \notin missed \cup OtherDev THEN 1 ELSE 0

\* Once the caller has left its wait, no worker uses sft any more and none will:
\* nothing is queued, and a worker is at most on its way out of scan_fs_dir ("it's
\* no longer safe for any worker thread to access sft").
QuietAfterWait ==
  th[Main].pc \in {"terminate", "destroy", "returned"} =>
    wq.items = <<>> /\ \A t \in Workers : th[t].pc \in {"idle", "free"}

\* Once the root is queued, the caller is woken and returns, whatever fails and
\* whenever the last directory is done.
ScanReturns == (th[Main].pc = "wait") ~> (th[Main].pc = "returned")
=============================================================================
