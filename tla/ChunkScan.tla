------------------------------ MODULE ChunkScan ------------------------------
(***************************************************************************)
(* How a worker of xfs_scrub scans the inodes of one inode btree record    *)
(* (scrub/inodes.c: scan_ag_bulkstat and bulkstat_for_inumbers) in a       *)
(* mounted filesystem that other programs change in between its calls.     *)
(***************************************************************************)
EXTENDS Integers, FiniteSets, FiniteSetsExt, SequencesExt

CONSTANTS
  NrInodes,      \* inode numbers of the filesystem are 0..NrInodes-1
  StartIno,      \* xi_startino of the record
  ChunkSize,     \* LIBFROG_BULKSTAT_CHUNKSIZE
  ENOMEM,        \* the bits of that error number below ChunkSize
  StaleLimit,    \* the limit of stale_count
  MaxChanges,    \* bound on the changes by other programs
  Corrupt        \* inodes that may be corrupt from the beginning

ASSUME ConstantsOK ==
  /\ {NrInodes, StartIno, ChunkSize, StaleLimit, MaxChanges} \subseteq Nat /\ ChunkSize > 0
  /\ StartIno + ChunkSize <= NrInodes
  /\ Corrupt \subseteq 0..(NrInodes - 1) /\ ENOMEM \subseteq 0..(ChunkSize - 1)

VARIABLES
  fs,       \* the filesystem: the state and generation of each inode
  w,        \* the worker: where it is, and its local variables
  req,      \* breq and, in bulkstat_the_rest, new_breq: hdr.ino, ocount, records
  visited,  \* inodes the callback has seen
  kept,     \* allocated inodes of the record that nobody has changed so far
  events    \* which of the Events below have happened

\* canceled: the callback ends the scan of the record; first: the first bulkstat
\* call fails, and not for a corrupt inode; nomem: the request of
\* bulkstat_the_rest cannot be allocated; stale: the first bulkstat call of a
\* retry fails, and the array keeps the records of the call before.
Events == {"canceled", "first", "nomem", "stale"}
vars == <<fs, w, req, visited, kept, events>>
Inodes == 0..(NrInodes - 1)
LimitIno == StartIno + ChunkSize
InRecord == StartIno..(LimitIno - 1)
Rec(i) == [ino |-> i, gen |-> fs[i].gen]
NoRec == [ino |-> 0, gen |-> 0]

\* xi_allocmask.
AllocMask == {i - StartIno : i \in {j \in InRecord : fs[j].state # "free"}}

\* The arguments of the work item, from scan_ag_inumbers.
Init ==
  /\ \E a \in SUBSET Inodes : \E bad \in SUBSET (a \cap Corrupt) :
       fs = [i \in Inodes |-> [state |-> IF i \in bad THEN "bad" ELSE IF i \in a THEN "ok" ELSE "free",
                               gen |-> 1]]
  /\ AllocMask # {}
  /\ w = [pc |-> "first", alloc |-> AllocMask, seen |-> {}, error |-> "none", i |-> 0, bs |-> 0,
          last |-> 0, stale |-> 0, set |-> FALSE, aborted |-> FALSE, changes |-> 0]
  /\ req = [ino |-> StartIno, ocount |-> 0, rec |-> [k \in 0..(ChunkSize - 1) |-> NoRec],
            start |-> 0, icount |-> 0]
  /\ visited = {} /\ events = {}
  /\ kept = {StartIno + b : b \in AllocMask}

-----------------------------------------------------------------------------
(* Other programs free an inode, or allocate one with a new generation.    *)

Change(i) ==
  /\ w.pc \notin {"done", "assert"} /\ w.changes < MaxChanges /\ fs[i].state # "bad"
  /\ fs' = [fs EXCEPT ![i] = IF @.state = "ok" THEN [@ EXCEPT !.state = "free"]
                             ELSE [state |-> "ok", gen |-> @.gen + 1]]
  /\ kept' = kept \ {i}
  /\ w' = [w EXCEPT !.changes = @ + 1]
  /\ UNCHANGED <<req, visited, events>>

-----------------------------------------------------------------------------
(* xfrog_bulkstat: the records of up to n allocated inodes from ino on,    *)
(* and the inode number to go on with.  The kernel stops at an inode that  *)
(* it cannot load, and reports it when it is the first.  After any error   *)
(* of the v5 ioctl the v1 ioctl is tried, which is given ino - 1 and       *)
(* leaves that in hdr.ino when it fails; its set-up may fail before that.  *)

Loadable(ino, n) ==
  LET alloc == {i \in Inodes : i >= ino /\ fs[i].state # "free"}
      good  == {i \in alloc : \A j \in alloc : j <= i => fs[j].state = "ok"}
  IN  {i \in good : Cardinality({j \in good : j < i}) < n}
Kth(S, k) == CHOOSE i \in S : Cardinality({j \in S : j < i}) = k - 1
Before(ino) == IF ino > 0 THEN ino - 1 ELSE 0

XfrogBulkstat(ino, n) ==
  LET got == Loadable(ino, n)
      bad == got = {} /\ n > 0 /\ \E i \in Inodes : i >= ino /\ fs[i].state = "bad"
  IN  {IF bad THEN [error |-> "corrupted", recs |-> <<>>, ino |-> Before(ino)]
       ELSE [error |-> "none", recs |-> [k \in 1..Cardinality(got) |-> Rec(Kth(got, k))],
             ino |-> IF got = {} THEN ino ELSE Max(got) + 1]}
      \cup {[error |-> "other", recs |-> <<>>, ino |-> i] : i \in {ino, Before(ino)}}

\* seen_mask_from_bulkstat; bit numbers are taken modulo the width of the mask.
\* The mutant stops before the last inode.
ButLast(start, last) ==
  IF start > LimitIno \/ last < StartIno THEN {}
  ELSE {(i - StartIno) % ChunkSize : i \in {j \in start..(LimitIno - 1) : j <= last - 1}}
\* This one takes all of the record for seen.
WholeRecord(start, last) == 0..(ChunkSize - 1)
SeenMask(start, last) ==
  IF start > LimitIno \/ last < StartIno THEN {}
  ELSE {(i - StartIno) % ChunkSize : i \in {j \in start..(LimitIno - 1) : j <= last}}

LastBstatIno(r) == IF r.ocount > 0 THEN r.rec[r.ocount - 1].ino ELSE 0
LastAllocmaskIno == StartIno + Max(w.alloc)

\* Store records from index k on.
Stored(rec, k, recs) ==
  [j \in DOMAIN rec |-> IF j >= k /\ j < k + Len(recs) THEN recs[j - k + 1] ELSE rec[j]]

\* Drop the records past the end of the inode btree record.
Trimmed(r) ==
  [r EXCEPT !.ocount = Max({0} \cup {k \in 1..r.ocount : r.rec[k - 1].ino < LimitIno})]

-----------------------------------------------------------------------------
(* bulkstat_for_inumbers.                                                  *)

GoSingle(r, seen) ==
  /\ req' = Trimmed(r)
  /\ w' = [w EXCEPT !.pc = "single", !.seen = seen, !.i = 0]

First ==
  /\ w.pc = "first"
  /\ \E x \in XfrogBulkstat(StartIno, ChunkSize) :
       LET r == IF x.error = "none"
                THEN [req EXCEPT !.ino = x.ino, !.ocount = Len(x.recs), !.rec = Stored(@, 0, x.recs)]
                ELSE [req EXCEPT !.ino = x.ino]
           seen == IF x.error = "none" /\ x.recs # <<>>
                   THEN SeenMask(StartIno, Last(x.recs).ino) ELSE {}
       IN  /\ events' = events \cup {e \in {"first", "stale"} :
                 IF e = "first" THEN x.error = "other" ELSE x.error # "none" /\ req.ocount > 0}
           /\ IF x.error = "none" /\ x.recs = <<>>
              THEN req' = r /\ w' = [w EXCEPT !.pc = "visit", !.i = 0]
              ELSE IF LastAllocmaskIno > LastBstatIno(r)
              THEN req' = r /\ w' = [w EXCEPT !.pc = "the_rest", !.seen = seen, !.error = x.error]
              ELSE GoSingle(r, seen)
  /\ UNCHANGED <<fs, visited, kept>>

-----------------------------------------------------------------------------
(* bulkstat_the_rest.                                                      *)

\* Where to go on: past a corrupt inode.
RestartAt(ino, error) == IF error = "corrupted" THEN ino + 1 ELSE ino

AllocReq(fails) ==
  /\ w.pc = "the_rest"
  /\ LET start == RestartAt(req.ino, w.error)
     IN  IF req.ocount >= ChunkSize THEN w' = [w EXCEPT !.pc = "assert"] /\ UNCHANGED req
         ELSE IF start >= LimitIno THEN GoSingle(req, w.seen)
         ELSE IF fails THEN GoSingle(req, w.seen \cup ENOMEM)
         ELSE /\ req' = [req EXCEPT !.start = start, !.icount = ChunkSize - req.ocount]
              /\ w' = [w EXCEPT !.pc = "fill"]
  /\ events' = events \cup {e \in {"nomem"} : fails}
  /\ UNCHANGED <<fs, visited, kept>>

Fill ==
  /\ w.pc = "fill"
  /\ \E x \in XfrogBulkstat(req.start, req.icount) :
       LET n == Len(x.recs)
           r == [req EXCEPT !.start = IF x.error = "none" THEN x.ino ELSE RestartAt(@, x.error),
                            !.rec = Stored(@, req.ocount, x.recs), !.ocount = @ + n, !.icount = @ - n]
           seen == w.seen \cup (IF n = 0 THEN {} ELSE SeenMask(req.start, Last(x.recs).ino))
       IN  IF (n > 0 \/ x.error = "corrupted") /\ r.icount > 0 /\ r.start < LimitIno
           THEN req' = r /\ w' = [w EXCEPT !.seen = seen]
           ELSE GoSingle(r, seen)
  /\ UNCHANGED <<fs, visited, kept, events>>

-----------------------------------------------------------------------------
(* bulkstat_single_step: ask for each inode not seen, or make up a record. *)

\* The records sorted by inode number; those past the end stay.
Sorted(r) ==
  LET recs == [k \in 1..r.ocount |-> r.rec[k - 1]]
  IN  [r EXCEPT !.rec = Stored(@, 0, SortSeq(recs, LAMBDA a, b : a.ino < b.ino))]

Unseen == {b \in w.alloc \ w.seen : b >= w.i}

\* xfrog_bulkstat_single: the first inode from ino on, or an error.  What the v1
\* ioctl, tried after the v5 ioctl, says of an inode that is not there is up to
\* the kernel.
XfrogBulkstatSingle(ino) ==
  LET got == Loadable(ino, 1)
  IN  (IF got # {} THEN {[error |-> "none", rec |-> Rec(Min(got))]}
       ELSE {[error |-> e, rec |-> NoRec] : e \in {"other"} \cup (IF fs[ino].state = "bad" THEN {} ELSE {"noent"})})
      \cup {[error |-> "other", rec |-> NoRec]}

SingleStep ==
  /\ w.pc = "single" /\ Unseen # {}
  /\ LET b == Min(Unseen)
         ino == StartIno + b
         n == req.ocount
     IN  IF n >= ChunkSize THEN w' = [w EXCEPT !.pc = "assert"] /\ UNCHANGED req
         ELSE \E x \in XfrogBulkstatSingle(ino) :
           /\ req' = CASE x.error = "noent" -> req
                      [] x.error = "none" -> [req EXCEPT !.rec[n] = x.rec,
                                                         !.ocount = IF x.rec.ino = ino THEN n + 1 ELSE n]
                      [] OTHER -> [req EXCEPT !.rec[n] = [ino |-> ino, gen |-> 0], !.ocount = n + 1]
           /\ w' = [w EXCEPT !.i = b + 1]
  /\ UNCHANGED <<fs, visited, kept, events>>

\* The array is sorted when an inode was asked for.  The mutant leaves it.
Unsorted(r) == r
SortAdded(r) == IF w.i > 0 THEN Sorted(r) ELSE r
SingleDone ==
  /\ w.pc = "single" /\ Unseen = {}
  /\ req' = SortAdded(req)
  /\ w' = [w EXCEPT !.pc = "visit", !.i = 0]
  /\ UNCHANGED <<fs, visited, kept, events>>

-----------------------------------------------------------------------------
(* The loop of scan_ag_bulkstat.  Its variable bs is the index of the      *)
(* record it is at, which is not set to the first one for a retry.         *)

Done(aborted) == [w EXCEPT !.pc = "done", !.aborted = aborted]
Advanced == [w EXCEPT !.i = @ + 1, !.bs = @ + 1]

\* What the callback returns for a record; past the end of the array there is
\* anything.  A record that was made up is good enough for scrubbing by handle.
FnReturns ==
  LET r == req.rec[w.bs]
      stale == r.gen # 0 /\ fs[r.ino] # [state |-> "ok", gen |-> r.gen]
  IN  (IF w.bs >= ChunkSize THEN {"ok", "stale"} ELSE IF stale THEN {"stale"} ELSE {"ok"})
      \cup {"canceled", "error", "excessive"}

\* Records are passed over to make progress after a retry.
Skipped == w.bs < ChunkSize /\ req.rec[w.bs].ino < w.last
LastIno == IF w.bs < ChunkSize THEN req.rec[w.bs].ino ELSE w.last

Skip ==
  /\ w.pc = "visit" /\ ~w.aborted /\ w.i < req.ocount /\ Skipped
  /\ w' = Advanced
  /\ UNCHANGED <<fs, req, visited, kept, events>>

\* stale_count and its limit; the mutant does not count.
Uncounted(n) == n
StaleCount(n) == n + 1

Visit ==
  /\ w.pc = "visit" /\ ~w.aborted /\ w.i < req.ocount /\ ~Skipped
  /\ \E e \in FnReturns :
       /\ visited' = IF e \in {"ok", "excessive"} /\ w.bs < ChunkSize THEN visited \cup {req.rec[w.bs].ino} ELSE visited
       /\ w' = CASE e = "ok" -> [Advanced EXCEPT !.last = LastIno, !.set = TRUE]
                [] e = "stale" -> IF StaleCount(w.stale) < StaleLimit
                                  THEN [w EXCEPT !.stale = StaleCount(@), !.pc = "inumbers"]
                                  ELSE Done(TRUE)
                [] e = "canceled" -> Done(FALSE)
                [] OTHER -> Done(TRUE)
       /\ events' = events \cup {c \in {"canceled"} : e = c}
  /\ UNCHANGED <<fs, req, kept>>

\* The loop ends, and error is looked at although it may have no value yet.
LoopEnds ==
  /\ w.pc = "visit" /\ (w.aborted \/ w.i >= req.ocount)
  /\ \E e \in BOOLEAN : (w.set => ~e) /\ w' = Done(w.aborted \/ e)
  /\ UNCHANGED <<fs, req, visited, kept, events>>

\* Load the record again, and start over if there is still something in it.
Inumbers ==
  /\ w.pc = "inumbers"
  /\ w' = IF AllocMask = {} \/ w.aborted THEN Done(w.aborted)
          ELSE [w EXCEPT !.pc = "first", !.alloc = AllocMask, !.seen = {}, !.error = "none", !.set = TRUE]
  /\ UNCHANGED <<fs, req, visited, kept, events>>
InumbersFails ==
  /\ w.pc = "inumbers" /\ w' = Done(TRUE)
  /\ UNCHANGED <<fs, req, visited, kept, events>>

\* Another worker gives up, at any time before si->aborted is looked at.
OtherAborts ==
  /\ w.pc \in {"visit", "inumbers"} /\ ~w.aborted
  /\ w' = [w EXCEPT !.aborted = TRUE]
  /\ UNCHANGED <<fs, req, visited, kept, events>>

Step == First \/ (\E f \in BOOLEAN : AllocReq(f)) \/ Fill \/ SingleStep \/ SingleDone
        \/ Skip \/ Visit \/ LoopEnds \/ Inumbers \/ InumbersFails
\* The work item is done, or a failed assertion has ended the process.
Finished == w.pc \in {"done", "assert"} /\ UNCHANGED vars

Next == Step \/ OtherAborts \/ Finished \/ \E i \in Inodes : Change(i)

\* The worker is scheduled: weak fairness of Step, which is enabled until the work
\* item is done (TLC takes long to find that out by itself).
Fairness == []<>(w.pc \in {"done", "assert"}) \/ []<><<Step>>_vars

Spec == Init /\ [][Next]_vars /\ Fairness

-----------------------------------------------------------------------------
(* Properties.                                                             *)

TypeOK ==
  /\ w.pc \in {"first", "the_rest", "fill", "single", "visit", "inumbers", "done", "assert"}
  /\ req.ocount \in 0..ChunkSize /\ req.icount \in 0..ChunkSize
  /\ w.alloc \subseteq 0..(ChunkSize - 1) /\ w.seen \subseteq 0..(ChunkSize - 1)
  /\ \A k \in DOMAIN req.rec : req.rec[k].ino \in Inodes
  /\ visited \subseteq Inodes /\ events \subseteq Events

ScannedToTheEnd == w.pc = "done" /\ ~w.aborted /\ "canceled" \notin events

\* The inodes that two errors pass over.  An allocation that fails in
\* bulkstat_the_rest is returned as a mask, and the bits of the error number are
\* taken for inodes seen.  After a first call that fails, bulkstat_the_rest starts
\* before the record and shifts by -1, which sets the last bit.
PassedOver == {i \in InRecord : \/ "nomem" \in events /\ i - StartIno \in ENOMEM
                                \/ "first" \in events /\ i = LimitIno - 1}

\* An inode that was allocated when the record was loaded, and that nobody has
\* touched since, has been seen by the callback when a scan without a retry comes
\* to its end, be it corrupt or next to a corrupt one, whichever calls failed.
\* What an error passes over is at most what PassedOver says.
KeptVisited == ScannedToTheEnd /\ w.stale = 0 => kept \subseteq visited \cup PassedOver

\* The same after retries ("We want to scan as many of the inodes that the inobt
\* thinks there are", scrub/inodes.c).
KeptVisitedAlways == ScannedToTheEnd => kept \subseteq visited \cup PassedOver

\* There is room in the array for each inode that is added one by one, however
\* many calls have filled it before and whichever failed ("assert(breq->hdr.ocount
\* < LIBFROG_BULKSTAT_CHUNKSIZE)" in bulkstat_single_step, and the assertion of
\* bulkstat_the_rest).
RoomLeftAlways == w.pc # "assert"

\* The first bulkstat call succeeded or met a corrupt inode, and found the array
\* empty in the latter case: no records of an earlier call, or from before the
\* record, are in the array.
CleanArray == events \cap {"first", "stale"} = {}

\* The assertions hold when the array was clean, also when allocations fail and
\* when other inodes take the place of freed ones.
RoomLeft == w.pc = "assert" => ~CleanArray


\* The scan of the record ends, however often its inodes change (if by one of the
\* assertions that RoomLeft is about).
ScanEnds == <>(w.pc \in {"done", "assert"})
=============================================================================
