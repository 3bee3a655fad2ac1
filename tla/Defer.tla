------------------------------- MODULE Defer -------------------------------
(***************************************************************************)
(* Deferred operations (libxfs/xfs_defer.c with the operation types of     *)
(* libxfs/defer_item.c).  A transaction collects work items in pending     *)
(* items, one for each run of equal types; xfs_defer_finish rolls the      *)
(* transaction and finishes one pending item after the other, and          *)
(* finishing may defer more work, ask for a fresh transaction or fail.     *)
(* Userspace logs nothing: every create_intent returns NULL, so no pending *)
(* item has an intent, relogging does nothing, and abort_intent is never   *)
(* called.                                                                 *)
(***************************************************************************)
EXTENDS Integers, SequencesExt, FiniteSets

CONSTANTS
  Items,            \* the work items a run may defer
  Types, TypeOf,    \* operation types, and the one of each item
  MaxItems,         \* max_items of each type, 0 for no limit
  GroupOf, Groups,  \* the allocation group of each item; groups are 1..Groups, and
                    \* 0 is that of the types that do not sort their items
  Barrier,          \* xfs_barrier_defer_type
  MaxSize,          \* transactions an item may need to finish
  MaxSpawn,         \* items finishing one item may defer
  MaxBarriers       \* bound on the barriers of a run

ASSUME ConstantsOK ==
  /\ TypeOf \in [Items -> Types] /\ Barrier \notin Types /\ MaxItems \in [Types -> Nat]
  /\ Groups \in Nat /\ GroupOf \in [Items -> 0..Groups]
  /\ MaxSize \in Nat \ {0} /\ {MaxSpawn, MaxBarriers} \subseteq Nat

VARIABLES
  t_dfops,  \* the pending items of the transaction, a sequence
  pending,  \* dop_pending of xfs_defer_finish_noroll
  paused,   \* dop_paused
  pc,       \* where xfs_defer_finish_noroll is; "idle" between calls
  mode,     \* the caller: "finish" for xfs_defer_finish, "commit" for a commit
  again,    \* its variable dfp is not NULL: it has finished a pending item
  dirty,    \* XFS_TRANS_DIRTY
  left,     \* transactions each item still needs
  istate,   \* what became of each item
  gen,      \* the call of xfs_defer_finish_one that deferred each item; 0: the caller
  calls,    \* calls of xfs_defer_finish_one that deferred work, this one included
  locked,   \* the group the current transaction has locked last, 0 for none
  barriers  \* barriers added so far

vars == <<t_dfops, pending, paused, pc, mode, again, dirty, left, istate, gen, calls, locked, barriers>>

WorkOf(list) == FlattenSeq([k \in DOMAIN list |-> list[k].work])

Init ==
  /\ t_dfops = <<>> /\ pending = <<>> /\ paused = <<>>
  /\ pc = "idle" /\ mode = "none" /\ again = FALSE /\ dirty = FALSE
  /\ left \in [Items -> 1..MaxSize]
  /\ istate = [i \in Items |-> "new"]
  /\ gen = [i \in Items |-> 0] /\ calls = 0 /\ locked = 0 /\ barriers = 0

-----------------------------------------------------------------------------
(* Deferring work.                                                         *)

\* xfs_defer_find_last and xfs_defer_can_append.
CanAppend(list, type) ==
  /\ list # <<>> /\ Last(list).type = type /\ ~Last(list).paused
  /\ MaxItems[type] = 0 \/ Len(Last(list).work) < MaxItems[type]

\* xfs_defer_add.
Added(list, i) ==
  IF CanAppend(list, TypeOf[i])
  THEN [list EXCEPT ![Len(list)].work = Append(@, i)]
  ELSE Append(list, [type |-> TypeOf[i], work |-> <<i>>, paused |-> FALSE])

Add(i) ==
  /\ pc = "idle" /\ istate[i] = "new"
  /\ t_dfops' = Added(t_dfops, i)
  /\ istate' = [istate EXCEPT ![i] = "queued"]
  /\ UNCHANGED <<pending, paused, pc, mode, again, dirty, left, gen, calls, locked, barriers>>

\* xfs_defer_add_barrier: two barriers in a row are one.
AddBarrier ==
  /\ pc = "idle" /\ barriers < MaxBarriers
  /\ t_dfops' = IF t_dfops # <<>> /\ Last(t_dfops).type = Barrier THEN t_dfops
                ELSE Append(t_dfops, [type |-> Barrier, work |-> <<>>, paused |-> FALSE])
  /\ barriers' = barriers + 1
  /\ UNCHANGED <<pending, paused, pc, mode, again, dirty, left, istate, gen, calls, locked>>

\* xfs_defer_item_pause and xfs_defer_item_unpause, of work items.
SetPaused(k, pause) ==
  /\ pc = "idle" /\ t_dfops[k].paused = ~pause /\ t_dfops[k].type # Barrier
  /\ t_dfops' = [t_dfops EXCEPT ![k].paused = pause]
  /\ UNCHANGED <<pending, paused, pc, mode, again, dirty, left, istate, gen, calls, locked, barriers>>

-----------------------------------------------------------------------------
(* Finishing it.                                                           *)

\* xfs_defer_finish, or the last commit of a permanent transaction, which
\* leaves no paused item behind.
Finish(m) ==
  /\ pc = "idle"
  /\ m = "commit" => \A k \in DOMAIN t_dfops : ~t_dfops[k].paused
  /\ pc' = "top" /\ mode' = m /\ again' = FALSE
  /\ UNCHANGED <<t_dfops, pending, paused, dirty, left, istate, gen, calls, locked, barriers>>

\* The mutants do not sort, and queue new work behind the old.
Unsorted(work) == work
NewWorkLast(new, old) == old \o new

\* create_intent sorts the work items by group; list_sort is stable.
Sorted(work) ==
  FlattenSeq([g \in 1..Groups + 1 |-> SelectSeq(work, LAMBDA i : GroupOf[i] = g - 1)])

\* list_splice_init puts the new work at the head of the pending list.
Spliced(new, old) == new \o old

\* xfs_defer_isolate_paused.
Isolated(list) == SelectSeq(list, LAMBDA d : d.paused)

\* The mutant rolls only when there are intents, which is never.
NeverRolls == FALSE
Rolls == again

\* The loop condition.  The mutant looks at the transaction only.
NewWork == t_dfops # <<>>
MoreWork == t_dfops # <<>> \/ pending # <<>>

\* The top of the loop: xfs_defer_create_intents, xfs_defer_isolate_paused and
\* the splice, or the end of the loop.
Collect ==
  LET sorted == [k \in DOMAIN t_dfops |-> [t_dfops[k] EXCEPT !.work = Sorted(@)]] IN
  /\ pc = "top"
  /\ IF ~MoreWork
     THEN pc' = "end" /\ UNCHANGED <<t_dfops, pending, paused>>
     ELSE /\ paused' = paused \o Isolated(sorted)
          /\ pending' = Spliced(SelectSeq(sorted, LAMBDA d : ~d.paused), pending)
          /\ t_dfops' = <<>>
          /\ pc' = IF Rolls THEN "roll" ELSE "one"
  /\ UNCHANGED <<mode, again, dirty, left, istate, gen, calls, locked, barriers>>

\* xfs_defer_trans_roll.  The new transaction is clean, whether or not the
\* commit of the old one fails.
Roll(fails) ==
  /\ pc = "roll"
  /\ pc' = IF fails THEN "shutdown" ELSE "one"
  /\ dirty' = FALSE /\ locked' = 0
  /\ UNCHANGED <<t_dfops, pending, paused, mode, again, left, istate, gen, calls, barriers>>

\* The first pending item, or the end of the loop if all of them are paused.
StartOne ==
  /\ pc = "one"
  /\ IF pending = <<>>
     THEN pc' = "end" /\ UNCHANGED <<again, calls>>
     ELSE /\ pc' = "items" /\ again' = TRUE
          /\ calls' = IF calls \in Range(gen) THEN calls + 1 ELSE calls
  /\ UNCHANGED <<t_dfops, pending, paused, mode, dirty, left, istate, gen, locked, barriers>>

\* An item that asks for a fresh transaction has recorded how far it got (the
\* remaining blocks of xfs_refcount_update_finish_item); the mutant records
\* nothing.
NoProgress(n) == n
Remaining(n) == n - 1

\* xfs_defer_cancel_list of dop_pending and dop_paused, and xfs_defer_cancel;
\* the mutant leaves out the latter.
CancelPending == Range(WorkOf(pending \o paused))
CancelAll == Range(WorkOf(pending \o paused \o t_dfops))

\* One turn of the loop of xfs_defer_finish_one: the item is unlinked and
\* finished, which may defer the items of new.  With -EAGAIN it goes back to
\* the head of the list.  Any other error frees it and ends the loop.  It locks
\* and logs the headers of its group; one without a group may log nothing.
FinishItem(new, result, logs) ==
  LET i == Head(pending[1].work) IN
  /\ pc = "items" /\ pending[1].work # <<>>
  /\ result = "again" <=> left[i] > 1 /\ result # "error"
  /\ \A j \in DOMAIN new : istate[new[j]] = "new"
  /\ t_dfops' = FoldLeft(Added, t_dfops, new)
  /\ gen' = [j \in Items |-> IF j \in Range(new) THEN calls ELSE gen[j]]
  /\ istate' = [j \in Items |-> IF j \in Range(new) THEN "queued"
                                ELSE IF j # i \/ result = "again" THEN istate[j]
                                ELSE IF result = "done" THEN "finished" ELSE "failed"]
  /\ left' = IF result = "again" THEN [left EXCEPT ![i] = Remaining(@)] ELSE left
  /\ pending' = IF result = "again" THEN pending
                ELSE [pending EXCEPT ![1].work = Tail(@)]
  /\ pc' = CASE result = "done" -> "items" [] result = "again" -> "top" [] OTHER -> "shutdown"
  /\ logs \/ GroupOf[i] = 0
  /\ dirty' = (dirty \/ logs)
  /\ locked' = IF GroupOf[i] = 0 THEN locked ELSE GroupOf[i]
  /\ UNCHANGED <<paused, mode, again, calls, barriers>>

\* A pending item without work left is freed.  A barrier never had any: the
\* variable error is then returned uninitialised, and unless it happens to be 0
\* or -EAGAIN the finishing fails.
FreePending(garbage) ==
  /\ pc = "items" /\ pending[1].work = <<>>
  /\ garbage => pending[1].type = Barrier
  /\ pending' = Tail(pending) /\ pc' = IF garbage THEN "shutdown" ELSE "top"
  /\ UNCHANGED <<t_dfops, paused, mode, again, dirty, left, istate, gen, calls, locked, barriers>>

\* The paused items return to the transaction.  xfs_defer_finish rolls a dirty
\* transaction once more; a commit ends it.
End(fails) ==
  /\ pc = "end"
  /\ t_dfops' = t_dfops \o paused /\ paused' = <<>>
  /\ pc' = IF fails /\ dirty THEN "failed" ELSE "idle"
  /\ locked' = IF dirty \/ mode = "commit" THEN 0 ELSE locked
  /\ dirty' = FALSE /\ mode' = "none" /\ again' = FALSE
  /\ gen' = [i \in Items |-> 0] /\ calls' = 0
  /\ UNCHANGED <<pending, left, istate, barriers>>

\* out_shutdown: every item that is left is cancelled, those the transaction
\* collected since the last splice included.
Shutdown ==
  /\ pc = "shutdown"
  /\ istate' = [i \in Items |-> IF i \in CancelAll
                                THEN "cancelled" ELSE istate[i]]
  /\ t_dfops' = <<>> /\ pending' = <<>> /\ paused' = <<>>
  /\ pc' = "failed" /\ mode' = "none" /\ again' = FALSE
  /\ UNCHANGED <<dirty, left, gen, calls, locked, barriers>>

\* The caller gives up: libxfs_trans_cancel ends the process if the transaction
\* is dirty or has deferred work.
Cancel ==
  /\ pc \in {"idle", "failed"}
  /\ pc' = IF dirty \/ t_dfops # <<>> THEN "aborted" ELSE "over"
  /\ UNCHANGED <<t_dfops, pending, paused, mode, again, dirty, left, istate, gen, calls, locked, barriers>>

Over == pc \in {"aborted", "over"} /\ UNCHANGED vars

\* One step of xfs_defer_finish_noroll or its caller's last roll or commit.
Step ==
  \/ Collect \/ StartOne \/ Shutdown
  \/ \E fails \in BOOLEAN : Roll(fails) \/ FreePending(fails) \/ End(fails)
  \/ \E new \in SeqOf(Items, MaxSpawn), r \in {"done", "again", "error"}, logs \in BOOLEAN :
       IsInjective(new) /\ FinishItem(new, r, logs)

Next ==
  \/ Step
  \/ \E i \in Items : Add(i)
  \/ AddBarrier
  \/ \E k \in DOMAIN t_dfops, p \in BOOLEAN : SetPaused(k, p)
  \/ \E m \in {"finish", "commit"} : Finish(m)
  \/ Cancel \/ Over

\* The library runs until it returns.
Spec == Init /\ [][Next]_vars /\ WF_vars(Step)

-----------------------------------------------------------------------------
(* Properties.                                                             *)

TypeOK ==
  LET Pending == [type : Types \cup {Barrier}, work : Seq(Items), paused : BOOLEAN] IN
  /\ {t_dfops, pending, paused} \subseteq Seq(Pending)
  /\ pc \in {"idle", "top", "roll", "one", "items", "end", "shutdown", "failed", "aborted", "over"}
  /\ mode \in {"none", "finish", "commit"} /\ again \in BOOLEAN /\ dirty \in BOOLEAN
  /\ left \in [Items -> 1..MaxSize]
  /\ istate \in [Items -> {"new", "queued", "finished", "failed", "cancelled"}]
  /\ gen \in [Items -> Nat] /\ calls \in Nat /\ locked \in 0..Groups /\ barriers \in 0..MaxBarriers

\* Every work item that was deferred and neither finished, failed nor cancelled
\* is on exactly one list, once: no splice, pause, requeue or error path of
\* xfs_defer_finish_noroll loses an item or works on it twice.  The variables have
\* their types.
ItemsAccounted ==
  LET work == WorkOf(t_dfops \o pending \o paused) IN
  /\ TypeOK
  /\ IsInjective(work)
  /\ Range(work) = {i \in Items : istate[i] = "queued"}

\* Work deferred while finishing other work is finished before any work that
\* was deferred earlier ("queued at the head of the pending list, which puts
\* them ahead of the deferred work that was created by the caller").
NewWorkFirst ==
  pc = "items" =>
    \A k, l \in DOMAIN pending : k < l =>
      \A i \in Range(pending[k].work), j \in Range(pending[l].work) : gen[i] >= gen[j]

\* The work items of a pending item are finished in the order of their groups,
\* which is the order in which the group headers are locked, however the item
\* was interrupted, paused or extended before, if its type sorts them by group.
GroupOrder ==
  pc = "items" =>
    \A k \in DOMAIN pending : \A m, n \in DOMAIN pending[k].work :
      m < n => GroupOf[pending[k].work[m]] <= GroupOf[pending[k].work[n]]

\* The deferred work of one transaction never locks a group after a higher one,
\* whichever pending items it comes from, in one finish or in several: the work
\* of a pending item is sorted, and between two of them the transaction is
\* rolled, which unlocks all.
LockOrder == [][locked' >= locked \/ locked' = 0]_vars

\* When xfs_defer_finish or a commit is done, the work that is left is exactly
\* that of paused items, all of it back on the transaction: nothing is stranded
\* on the local lists (the assertion at the end of xfs_defer_finish, and more).
OnlyPausedRemain ==
  [][pc = "end" =>
       /\ pending = <<>> /\ paused' = <<>>
       /\ \A k \in DOMAIN t_dfops' : t_dfops'[k].paused
       /\ Range(WorkOf(t_dfops')) = {i \in Items : istate[i] = "queued"}]_vars

\* xfs_defer_finish returns: spawned work, requeued work and paused work never
\* keep its loop going.
FinishReturns == pc = "top" ~> pc \in {"idle", "failed"}

=============================================================================
