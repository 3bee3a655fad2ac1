------------------------------- MODULE Trans -------------------------------
(***************************************************************************)
(* Transactions of libxfs (libxfs/trans.c, libxfs/logitem.c and            *)
(* libxfs/xfs_trans_inode.c): reservations, the buffers and inodes joined  *)
(* to a transaction, superblock deltas, commit, roll and cancel.  There is *)
(* no log in userspace: a commit marks the logged buffers dirty in the     *)
(* buffer cache.  One thread runs transactions; a second one (a prefetch   *)
(* thread of xfs_repair) gets and releases the same buffers.  A commit is  *)
(* split into one step for each log item, so that the other thread         *)
(* interleaves with it.  Deferred operations are in Defer; here t_dfops is *)
(* empty.                                                                  *)
(***************************************************************************)
EXTENDS Integers, FiniteSets, FiniteSetsExt

CONSTANTS
  Buffers, SbBuf,       \* the buffers, and the superblock's
  Inodes, Cluster,      \* inode numbers, and the buffer each one lives in
  NoBuf,
  UseBufLock,           \* use_xfs_buf_lock
  InitFdblocks, InitFrextents, InitRextents,
  CounterBits,          \* width of the unsigned counters of the superblock
  MaxRes, MaxMore,      \* bounds on the blocks or extents of one request
  MaxRefs,              \* bound on the references one thread owns to a buffer
  MaxRecur,             \* bound on bli_recur
  MaxOps                \* bound on reservations, joins and rolls of the program

ASSUME ConstantsOK ==
  /\ SbBuf \in Buffers /\ NoBuf \notin Buffers
  /\ Inodes \subseteq Nat /\ Cluster \in [Inodes -> Buffers]
  /\ UseBufLock \in BOOLEAN
  /\ {InitFdblocks, InitFrextents, InitRextents, MaxRes, MaxMore, MaxRefs, MaxRecur,
      MaxOps, CounterBits} \subseteq Nat

VARIABLES
  tp,     \* the current transaction
  ntp,    \* the transaction xfs_trans_dup made for a roll in progress
  buf,    \* buffers with their buf log items
  ino,    \* inode log items
  sb,     \* the free space counters of the in-core superblock
  own,    \* references each thread owns outside of the transaction
  todo,   \* inodes the running precommits still have to visit
  logged, \* buffers the program expects to be dirty once tp is committed
  grant,  \* blocks granted to the chain of transactions that are still unused
  over,   \* libxfs_trans_reserve_more has added to a reservation
  ops

vars == <<tp, ntp, buf, ino, sb, own, todo, logged, grant, over, ops>>

Thread == {"self", "other"}
NoThread == "nobody"

Trans == [phase : {"none", "open", "precommit", "commit", "unlock", "aborted"},
          dirty : BOOLEAN, sb_dirty : BOOLEAN, blk_res : Nat, blk_res_used : Nat,
          rtx_res : Nat, rtx_res_used : Nat, fdblocks_delta : Int, frextents_delta : Int]

NoTrans == [phase |-> "none", dirty |-> FALSE, sb_dirty |-> FALSE,
            blk_res |-> 0, blk_res_used |-> 0, rtx_res |-> 0, rtx_res_used |-> 0,
            fdblocks_delta |-> 0, frextents_delta |-> 0]

Buffer == [refs : Nat, holder : Thread \cup {NoThread}, b_recur : Nat, dirty : BOOLEAN,
           transp : BOOLEAN, listed : BOOLEAN, li_dirty : BOOLEAN, bli_dirty : BOOLEAN,
           hold : BOOLEAN, stale : BOOLEAN, bli_recur : Nat, stolen : BOOLEAN]

InodeItem == [listed : BOOLEAN, li_dirty : BOOLEAN, dirty_flags : BOOLEAN, fields : BOOLEAN,
              li_buf : Buffers \cup {NoBuf}, leaks : Nat]

Init ==
  /\ tp = NoTrans /\ ntp = NoTrans
  /\ buf = [b \in Buffers |->
              [refs |-> 0, holder |-> NoThread, b_recur |-> 0, dirty |-> FALSE, transp |-> FALSE,
               listed |-> FALSE, li_dirty |-> FALSE, bli_dirty |-> FALSE, hold |-> FALSE,
               stale |-> FALSE, bli_recur |-> 0, stolen |-> FALSE]]
  /\ ino = [i \in Inodes |-> [listed |-> FALSE, li_dirty |-> FALSE, dirty_flags |-> FALSE,
                              fields |-> FALSE, li_buf |-> NoBuf, leaks |-> 0]]
  /\ sb = [fdblocks |-> InitFdblocks, frextents |-> InitFrextents]
  /\ own = [t \in Thread |-> [b \in Buffers |-> 0]]
  /\ todo = {} /\ logged = {} /\ grant = 0 /\ over = FALSE /\ ops = 0

Open == tp.phase = "open"
Count == ops < MaxOps /\ ops' = ops + 1

-----------------------------------------------------------------------------
(* Buffer references and locks (libxfs/rdwr.c).                            *)

\* libxfs_buf_get: takes the lock, recursively if this thread holds it.
CanGet(b, t) == UseBufLock => buf[b].holder \in {NoThread, t}

Got(r, t) ==
  [r EXCEPT !.refs = @ + 1,
            !.holder = IF UseBufLock THEN t ELSE @,
            !.b_recur = IF UseBufLock /\ r.holder = t THEN @ + 1 ELSE @]

\* The mutant unlocks a buffer that was locked recursively.
UnlockAlways(r) == [r EXCEPT !.refs = @ - 1, !.holder = NoThread]

\* libxfs_buf_relse: one reference and one level of the lock.  The lock is
\* given up whoever holds it: pthread_mutex_unlock does not check the owner.
Relse(r) ==
  [r EXCEPT !.refs = @ - 1,
            !.b_recur = IF @ > 0 THEN @ - 1 ELSE @,
            !.holder = IF r.b_recur > 0 THEN @ ELSE NoThread]

\* A new buf log item on t_items (_libxfs_trans_bjoin, xfs_buf_item_init).
Joined(r) ==
  [r EXCEPT !.transp = TRUE, !.listed = TRUE, !.li_dirty = FALSE, !.bli_dirty = FALSE,
            !.hold = FALSE, !.stale = FALSE, !.bli_recur = 0]

\* The buf log item unlinked and freed (xfs_trans_del_item, xfs_buf_item_put).
Detached(r) == [Joined(r) EXCEPT !.transp = FALSE, !.listed = FALSE]

\* The transaction's thread is busy while it commits; abort() ends both.
MayCall(t) == tp.phase \in {"none", "open"} \/ (t = "other" /\ tp.phase # "aborted")

BufGet(t, b) ==
  /\ MayCall(t) /\ CanGet(b, t)
  /\ own[t][b] + (IF buf[b].hold THEN 1 ELSE 0) < MaxRefs
  /\ buf' = [buf EXCEPT ![b] = Got(@, t)]
  /\ own' = [own EXCEPT ![t][b] = @ + 1]
  /\ UNCHANGED <<tp, ntp, ino, sb, todo, logged, grant, over, ops>>

BufRelse(t, b) ==
  /\ MayCall(t)
  /\ own[t][b] > 0
  /\ buf' = [buf EXCEPT ![b] = Relse(@)]
  /\ own' = [own EXCEPT ![t][b] = @ - 1]
  /\ UNCHANGED <<tp, ntp, ino, sb, todo, logged, grant, over, ops>>

-----------------------------------------------------------------------------
(* Reservations and superblock deltas.                                     *)

Granted(blocks, rtextents) == sb.fdblocks >= blocks /\ InitRextents >= rtextents

Alloc(blocks, rtextents) ==
  /\ tp.phase = "none" /\ Count
  /\ IF Granted(blocks, rtextents)
     THEN /\ tp' = [NoTrans EXCEPT !.phase = "open", !.blk_res = blocks,
                                   !.rtx_res = rtextents]
          /\ grant' = blocks
     ELSE UNCHANGED <<tp, grant>>
  /\ logged' = {}
  /\ UNCHANGED <<ntp, buf, ino, sb, own, todo, over>>

\* libxfs_trans_reserve_more: the rt extents are checked but not recorded.
ReserveMore(blocks, rtextents) ==
  /\ Open /\ ~tp.dirty /\ Count
  /\ IF Granted(blocks, rtextents)
     THEN /\ tp' = [tp EXCEPT !.blk_res = @ + blocks]
          /\ grant' = grant + blocks
          /\ over' = (over \/ (blocks > 0 /\ tp.blk_res > 0))
     ELSE UNCHANGED <<tp, grant, over>>
  /\ UNCHANGED <<ntp, buf, ino, sb, own, todo, logged>>

\* libxfs_trans_mod_sb.  The program keeps to its reservation, as the
\* ASSERT(0) of both branches asks.
ModFdblocks(delta) ==
  LET used == tp.blk_res_used + (IF delta < 0 THEN -delta ELSE 0) IN
  /\ Open /\ Count /\ used <= tp.blk_res
  /\ tp' = [tp EXCEPT !.blk_res_used = used, !.fdblocks_delta = @ + delta,
                      !.sb_dirty = TRUE, !.dirty = TRUE]
  /\ grant' = grant - (used - tp.blk_res_used)
  /\ logged' = logged \cup {SbBuf}
  /\ UNCHANGED <<ntp, buf, ino, sb, own, todo, over>>

ModFrextents(delta) ==
  LET used == tp.rtx_res_used + (IF delta < 0 THEN -delta ELSE 0) IN
  /\ Open /\ Count /\ used <= tp.rtx_res
  /\ tp' = [tp EXCEPT !.rtx_res_used = used, !.frextents_delta = @ + delta,
                      !.sb_dirty = TRUE, !.dirty = TRUE]
  /\ logged' = logged \cup {SbBuf}
  /\ UNCHANGED <<ntp, buf, ino, sb, own, todo, grant, over>>

-----------------------------------------------------------------------------
(* Buffers of the transaction.                                             *)

\* libxfs_trans_get_buf_map, read_buf_map, getsb and getrtsb.
TransGetBuf(b) ==
  /\ Open
  /\ IF buf[b].listed
     THEN /\ buf[b].bli_recur < MaxRecur
          /\ buf' = [buf EXCEPT ![b].bli_recur = @ + 1]
     ELSE /\ CanGet(b, "self")
          /\ buf' = [buf EXCEPT ![b] = Joined(Got(@, "self"))]
  /\ UNCHANGED <<tp, ntp, ino, sb, own, todo, logged, grant, over, ops>>

\* libxfs_trans_bjoin: a reference of the program becomes the transaction's.
Bjoin(b) ==
  /\ Open /\ own["self"][b] > 0 /\ ~buf[b].transp
  /\ buf' = [buf EXCEPT ![b] = Joined(@)]
  /\ own' = [own EXCEPT !["self"][b] = @ - 1]
  /\ UNCHANGED <<tp, ntp, ino, sb, todo, logged, grant, over, ops>>

\* libxfs_trans_brelse.
Brelse(b) ==
  /\ Open /\ buf[b].transp
  /\ buf' = IF buf[b].bli_recur > 0 THEN [buf EXCEPT ![b].bli_recur = @ - 1]
            ELSE IF buf[b].li_dirty \/ buf[b].stale THEN buf
            ELSE [buf EXCEPT ![b] = Relse(Detached(@))]
  /\ UNCHANGED <<tp, ntp, ino, sb, own, todo, logged, grant, over, ops>>

\* libxfs_trans_bdetach: the reference goes back to the program.
Bdetach(b) ==
  /\ Open /\ buf[b].transp /\ own["self"][b] < MaxRefs
  /\ ~buf[b].li_dirty /\ ~buf[b].bli_dirty /\ ~buf[b].hold /\ ~buf[b].stale
  /\ buf' = [buf EXCEPT ![b] = Detached(@)]
  /\ own' = [own EXCEPT !["self"][b] = @ + 1]
  /\ UNCHANGED <<tp, ntp, ino, sb, todo, logged, grant, over, ops>>

\* libxfs_trans_bhold and libxfs_trans_bhold_release.
Bhold(b, hold) ==
  /\ Open /\ buf[b].transp /\ (hold => own["self"][b] < MaxRefs)
  /\ buf' = [buf EXCEPT ![b].hold = hold]
  /\ UNCHANGED <<tp, ntp, ino, sb, own, todo, logged, grant, over, ops>>

\* libxfs_trans_dirty_buf, and with it libxfs_trans_log_buf and ordered_buf.
DirtyBuf(b, log) ==
  /\ Open /\ buf[b].transp
  /\ tp' = [tp EXCEPT !.dirty = TRUE]
  /\ buf' = [buf EXCEPT ![b].li_dirty = TRUE, ![b].bli_dirty = @ \/ log]
  /\ logged' = IF log THEN logged \cup {b} ELSE logged
  /\ UNCHANGED <<ntp, ino, sb, own, todo, grant, over, ops>>

\* libxfs_trans_binval.
Binval(b) ==
  /\ Open /\ buf[b].transp
  /\ IF buf[b].stale THEN UNCHANGED <<tp, buf, logged>>
     ELSE /\ tp' = [tp EXCEPT !.dirty = TRUE]
          /\ buf' = [buf EXCEPT ![b].stale = TRUE, ![b].bli_dirty = FALSE,
                                ![b].li_dirty = TRUE, ![b].dirty = FALSE]
          /\ logged' = logged \ {b}
  /\ UNCHANGED <<ntp, ino, sb, own, todo, grant, over, ops>>

-----------------------------------------------------------------------------
(* Inodes of the transaction (xfs_trans_ijoin, xfs_trans_log_inode).       *)

Ijoin(i) ==
  /\ Open /\ ~ino[i].listed
  /\ ino' = [ino EXCEPT ![i] = [listed |-> TRUE, li_dirty |-> FALSE, dirty_flags |-> FALSE,
                                fields |-> FALSE, li_buf |-> NoBuf, leaks |-> @.leaks]]
  /\ UNCHANGED <<tp, ntp, buf, sb, own, todo, logged, grant, over, ops>>

LogInode(i) ==
  /\ Open /\ ino[i].listed
  /\ tp' = [tp EXCEPT !.dirty = TRUE]
  /\ ino' = [ino EXCEPT ![i].li_dirty = TRUE, ![i].dirty_flags = TRUE]
  /\ logged' = logged \cup {Cluster[i]}
  /\ UNCHANGED <<ntp, buf, sb, own, todo, grant, over, ops>>

-----------------------------------------------------------------------------
(* Commit, roll and cancel.                                                *)

\* The mutant lets the new transaction inherit the used blocks as well.
InheritAll(t) == t.blk_res
\* xfs_trans_dup: blocks left for the next transaction; rt extents are not.
Inherited(t) == t.blk_res - t.blk_res_used

\* __xfs_trans_commit, called by libxfs_trans_commit or by libxfs_trans_roll
\* after xfs_trans_dup: the precommits visit the dirty inode items.
Commit(regrant) ==
  /\ Open
  /\ IF regrant THEN /\ Count
                     /\ ntp' = [NoTrans EXCEPT !.phase = "open", !.blk_res = Inherited(tp)]
                     /\ tp' = [tp EXCEPT !.phase = "precommit", !.blk_res = tp.blk_res_used]
                ELSE /\ tp' = [tp EXCEPT !.phase = "precommit"]
                     /\ UNCHANGED <<ntp, ops>>
  /\ todo' = {i \in Inodes : ino[i].listed /\ ino[i].li_dirty}
  /\ UNCHANGED <<buf, ino, sb, own, logged, grant, over>>

\* xfs_inode_item_precommit: the cluster buffer is read through the
\* transaction, referenced once more, and given back to the transaction, which
\* unlocks it unless the buffer was joined before.  A buffer of the transaction,
\* or attached to another of its inodes, has been read.
Precommit(i, fails) ==
  LET b == Cluster[i] IN
  /\ tp.phase = "precommit" /\ todo # {} /\ i = Min(todo)
  /\ buf[b].listed \/ CanGet(b, "self")
  /\ fails => ~buf[b].listed /\ \A j \in Inodes : ino[j].li_buf # b
  /\ IF fails
     THEN /\ tp' = [tp EXCEPT !.phase = "unlock"]
          /\ todo' = {}
          /\ UNCHANGED <<buf, ino>>
     ELSE /\ buf' = [buf EXCEPT ![b].refs = @ + 1]
          /\ ino' = [ino EXCEPT ![i].li_buf = b, ![i].fields = ino[i].dirty_flags,
                                ![i].dirty_flags = FALSE]
          /\ todo' = todo \ {i}
          /\ UNCHANGED tp
  /\ UNCHANGED <<ntp, sb, own, logged, grant, over, ops>>

\* A delta added to an unsigned counter.
Wrapped(n) == n % 2^CounterBits

\* A clean transaction only unlocks its items.  Otherwise the deltas go to the
\* superblock, whose buffer xfs_log_sb joins and logs.
Apply ==
  /\ tp.phase = "precommit" /\ todo = {}
  /\ tp' = [tp EXCEPT !.phase = IF tp.dirty THEN "commit" ELSE "unlock"]
  /\ IF tp.sb_dirty
     THEN /\ buf[SbBuf].listed \/ CanGet(SbBuf, "self")
          /\ sb' = [fdblocks |-> Wrapped(sb.fdblocks + tp.fdblocks_delta),
                    frextents |-> Wrapped(sb.frextents + tp.frextents_delta)]
          /\ buf' = [buf EXCEPT ![SbBuf] =
                       [(IF @.listed THEN @ ELSE Joined(Got(@, "self")))
                          EXCEPT !.li_dirty = TRUE, !.bli_dirty = TRUE]]
     ELSE UNCHANGED <<sb, buf>>
  /\ UNCHANGED <<ntp, ino, own, todo, logged, grant, over, ops>>

\* xfs_inode_item_put.
Put(r) == [r EXCEPT !.listed = FALSE, !.li_dirty = FALSE]

\* The mutant keeps the reference.
KeepRef(r) == [r EXCEPT !.transp = FALSE, !.dirty = TRUE]
\* libxfs_iflush_int writes to the buffer, which is then marked and released: the
\* reference is the item's, but the precommit has already given up the lock, so
\* that a lock released here is somebody else's.
Flushed(r) ==
  Relse([r EXCEPT !.transp = FALSE, !.dirty = TRUE, !.stolen = @ \/ r.holder # NoThread])

\* inode_item_done: the inode is flushed into its cluster buffer.
InodeItemDone(i) ==
  LET b == ino[i].li_buf IN
  /\ tp.phase = "commit" /\ ino[i].listed /\ \A j \in Inodes : ino[j].listed => i <= j
  /\ IF ino[i].fields
     THEN /\ buf' = [buf EXCEPT ![b] = Flushed(@)]
          /\ ino' = [ino EXCEPT ![i] = [Put(@) EXCEPT !.li_buf = NoBuf]]
     ELSE /\ ino' = [ino EXCEPT ![i] = Put(@)]
          /\ UNCHANGED buf
  /\ UNCHANGED <<tp, ntp, sb, own, todo, logged, grant, over, ops>>


StaysHeld(b) == buf[b].hold
MarksDirty(b) == buf[b].bli_dirty

\* buf_item_done and buf_item_unlock.
BufItemGone(b, marks) ==
  LET r == [Detached(buf[b]) EXCEPT !.dirty = @ \/ marks] IN
  /\ buf[b].listed
  /\ buf' = [buf EXCEPT ![b] = IF StaysHeld(b) THEN r ELSE Relse(r)]
  /\ own' = IF buf[b].hold THEN [own EXCEPT !["self"][b] = @ + 1] ELSE own
  /\ UNCHANGED <<tp, ntp, ino, sb, todo, logged, grant, over, ops>>

BufItemDone(b) ==
  /\ tp.phase = "commit" /\ \A j \in Inodes : ~ino[j].listed
  /\ BufItemGone(b, MarksDirty(b))

BufItemUnlock(b) == tp.phase = "unlock" /\ BufItemGone(b, FALSE)

\* inode_item_unlock: the item is freed, and nothing drops the reference to the
\* buffer that an earlier precommit attached.
InodeItemUnlock(i) ==
  /\ tp.phase = "unlock" /\ ino[i].listed
  /\ ino' = [ino EXCEPT ![i] = [Put(@) EXCEPT !.li_buf = NoBuf,
                 !.leaks = IF ino[i].li_buf = NoBuf THEN @ ELSE @ + 1]]
  /\ UNCHANGED <<tp, ntp, buf, sb, own, todo, logged, grant, over, ops>>

\* The end of __xfs_trans_commit, libxfs_trans_cancel or a roll.
Free ==
  /\ tp.phase \in {"commit", "unlock"}
  /\ \A b \in Buffers : ~buf[b].listed
  /\ \A i \in Inodes : ~ino[i].listed
  /\ tp' = ntp /\ ntp' = NoTrans
  /\ logged' = {}
  /\ grant' = IF ntp = NoTrans THEN 0 ELSE grant
  /\ UNCHANGED <<buf, ino, sb, own, todo, over, ops>>

\* libxfs_trans_cancel: a dirty transaction ends the process.
Cancel ==
  /\ Open
  /\ tp' = [tp EXCEPT !.phase = IF tp.dirty THEN "aborted" ELSE "unlock"]
  /\ UNCHANGED <<ntp, buf, ino, sb, own, todo, logged, grant, over, ops>>

\* The process has ended, or the program has reached the bound of the model.
Stopped ==
  /\ tp.phase = "aborted" \/ (tp.phase = "none" /\ ops = MaxOps)
  /\ UNCHANGED vars

\* The calls that reserve and use space, those on a buffer or an inode, and the
\* steps that end a transaction.
SpaceCall(res, extra) ==
  \/ \E n, m \in 0..res : Alloc(n, m)
  \/ \E n, m \in 0..extra : ReserveMore(n, m)
  \/ \E d \in -res..res : ModFdblocks(d) \/ ModFrextents(d)
BufferCall(b) ==
  \/ \E t \in Thread : BufGet(t, b) \/ BufRelse(t, b)
  \/ TransGetBuf(b) \/ Bjoin(b) \/ Brelse(b) \/ Bdetach(b) \/ Binval(b)
  \/ \E f \in BOOLEAN : Bhold(b, f) \/ DirtyBuf(b, f)
InodeCall(i) == Ijoin(i) \/ LogInode(i)
EndStep ==
  \/ \E b \in Buffers : BufItemDone(b) \/ BufItemUnlock(b)
  \/ \E i \in Inodes :
       \/ InodeItemDone(i) \/ InodeItemUnlock(i)
       \/ \E fails \in BOOLEAN : Precommit(i, fails)
  \/ \E regrant \in BOOLEAN : Commit(regrant)
  \/ Apply \/ Free \/ Cancel \/ Stopped

Next ==
  \/ SpaceCall(MaxRes, MaxMore) \/ EndStep
  \/ \E b \in Buffers : BufferCall(b)
  \/ \E i \in Inodes : InodeCall(i)

Spec == Init /\ [][Next]_vars

-----------------------------------------------------------------------------
(* Properties.                                                             *)

TypeOK ==
  /\ tp \in Trans /\ ntp \in Trans
  /\ buf \in [Buffers -> Buffer] /\ ino \in [Inodes -> InodeItem]
  /\ sb \in [fdblocks : 0..2^CounterBits - 1, frextents : 0..2^CounterBits - 1]
  /\ own \in [Thread -> [Buffers -> Nat]]
  /\ todo \subseteq Inodes /\ logged \subseteq Buffers
  /\ grant \in Nat /\ over \in BOOLEAN /\ ops \in 0..MaxOps

\* The references inode items hold, or have lost, to a buffer.
InodeRefs(b) ==
  MapThenSumSet(LAMBDA i : ino[i].leaks + (IF ino[i].li_buf = b THEN 1 ELSE 0),
                {i \in Inodes : Cluster[i] = b})

\* Buffer references are conserved by every join, hold, detach, release, commit,
\* roll and cancel: cn_count is what the threads own, plus one for the buf item
\* of the transaction, plus one for each inode item with the buffer attached, plus
\* one for each attached item that a failed commit has freed.  The variables have
\* their types.
RefsBalanced ==
  TypeOK /\ \A b \in Buffers :
    buf[b].refs = own["self"][b] + own["other"][b] + (IF buf[b].listed THEN 1 ELSE 0)
                  + InodeRefs(b)

\* References a thread has with a lock: its own, and those of the transaction it
\* runs.
LockedRefs(t, b) == own[t][b] + (IF t = "self" /\ buf[b].listed THEN 1 ELSE 0)

\* With use_xfs_buf_lock, a thread holds the lock of a buffer, as many levels deep,
\* exactly as long as it has references got with it: no order of get, join, re-get,
\* hold, detach, release, commit, roll and cancel gives it up too early or keeps it
\* too long.  The one exception is an inode cluster whose lock the flush of an inode
\* has released although another user had it.
LockHeld ==
  UseBufLock => \A b \in Buffers : buf[b].stolen \/
    \A t \in Thread : LockedRefs(t, b) = IF buf[b].holder = t THEN buf[b].b_recur + 1 ELSE 0

\* The assertion of xfs_inode_item_put: an inode item is freed only when no buffer
\* is attached to it any more.
FreedDetached == \A i \in Inodes : ino[i].leaks = 0



\* Blocks reserved at the start of a chain of rolled transactions and not used
\* in it are still reserved in its current transaction.
ReservationConserved ==
  /\ Open => grant = tp.blk_res - tp.blk_res_used
  /\ ntp # NoTrans => grant = ntp.blk_res
=============================================================================
