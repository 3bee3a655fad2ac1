------------------------------ MODULE PtCounter ------------------------------
(***************************************************************************)
(* Per-thread variables (libfrog/ptvar.c) and the counters of xfs_scrub    *)
(* built from them (scrub/counter.c): each thread adds to a slot of its    *)
(* own without a lock, and a reader sums up the slots.                     *)
(***************************************************************************)
EXTENDS Integers, Functions, FiniteSets

CONSTANTS
  Threads,        \* threads that add
  NrCounters,     \* nr_counters, the size of the array
  SizeMax,        \* the largest size_t
  MaxAdds         \* bound on the additions of each thread

ASSUME ConstantsOK ==
  /\ IsFiniteSet(Threads) /\ {NrCounters, MaxAdds} \subseteq Nat
  /\ SizeMax \in Nat /\ NrCounters <= SizeMax

VARIABLES
  nr_used,  \* slots handed out
  slot,     \* pthread_getspecific of each thread, -1 for NULL
  data,     \* the values of the slots
  th,       \* what each thread does, the value it loaded, the additions it made
  rd,       \* the reader: where it is, its sum, and the total when it began
  failed    \* pthread_setspecific has failed

vars == <<nr_used, slot, data, th, rd, failed>>
Slots == 0..(NrCounters - 1)
NoSlot == -1

Init ==
  /\ nr_used = 0 /\ slot = [t \in Threads |-> NoSlot] /\ data = [s \in Slots |-> 0]
  /\ th = [t \in Threads |-> [pc |-> "idle", loaded |-> 0, added |-> 0]]
  /\ rd = [pc |-> "idle", i |-> 0, sum |-> 0, before |-> 0] /\ failed = FALSE

\* Additions made so far.
Total == FoldFunction(LAMBDA r, n : r.added + n, 0, th)

-----------------------------------------------------------------------------
(* ptcounter_add.                                                          *)

\* ptvar_get of a thread that has a slot already.
GetAgain(t) ==
  /\ th[t].pc = "idle" /\ slot[t] # NoSlot /\ th[t].added < MaxAdds
  /\ th' = [th EXCEPT ![t].pc = "load"]
  /\ UNCHANGED <<nr_used, slot, data, rd, failed>>

\* The first time, under the lock (ptvar_foreach keeps it for its loop).  The
\* mutant forgets to count the slot.
StillUnused(n) == n
Incremented(n) == n + 1

GetFirst(t, fails) ==
  /\ th[t].pc = "idle" /\ slot[t] = NoSlot /\ th[t].added < MaxAdds /\ rd.pc # "sum"
  /\ IF nr_used >= NrCounters
     THEN th' = [th EXCEPT ![t].pc = "abort"] /\ UNCHANGED <<nr_used, slot, failed>>
     ELSE IF fails
     THEN /\ nr_used' = (nr_used - 1) % (SizeMax + 1) /\ failed' = TRUE
          /\ UNCHANGED <<slot, th>>
     ELSE /\ slot' = [slot EXCEPT ![t] = nr_used]
          /\ nr_used' = Incremented(nr_used)
          /\ th' = [th EXCEPT ![t].pc = "load"]
          /\ UNCHANGED failed
  /\ UNCHANGED <<data, rd>>

\* *p += nr, a load and a store.
Load(t) ==
  /\ th[t].pc = "load"
  /\ th' = [th EXCEPT ![t].pc = "store", ![t].loaded = data[slot[t]]]
  /\ UNCHANGED <<nr_used, slot, data, rd, failed>>
Store(t) ==
  /\ th[t].pc = "store"
  /\ data' = [data EXCEPT ![slot[t]] = th[t].loaded + 1]
  /\ th' = [th EXCEPT ![t].pc = "idle", ![t].added = @ + 1]
  /\ UNCHANGED <<nr_used, slot, rd, failed>>

-----------------------------------------------------------------------------
(* ptcounter_value: ptvar_foreach with ptcounter_val_helper.               *)

ReadBegin ==
  /\ rd.pc = "idle" /\ rd' = [pc |-> "sum", i |-> 0, sum |-> 0, before |-> Total]
  /\ UNCHANGED <<nr_used, slot, data, th, failed>>

\* The mutant starts at the second slot.
SkipFirst(i) == i > 0
Counts(i) == TRUE
ReadSlot ==
  /\ rd.pc = "sum" /\ rd.i < nr_used /\ rd.i \in Slots
  /\ rd' = [rd EXCEPT !.i = @ + 1, !.sum = @ + (IF Counts(rd.i) THEN data[rd.i] ELSE 0)]
  /\ UNCHANGED <<nr_used, slot, data, th, failed>>
\* Past the array: the process is in an undefined state from here on.
ReadBeyond ==
  /\ rd.pc = "sum" /\ rd.i < nr_used /\ rd.i \notin Slots
  /\ rd' = [rd EXCEPT !.pc = "undefined"]
  /\ UNCHANGED <<nr_used, slot, data, th, failed>>
ReadEnd ==
  /\ rd.pc = "sum" /\ rd.i >= nr_used /\ rd' = [rd EXCEPT !.pc = "value"]
  /\ UNCHANGED <<nr_used, slot, data, th, failed>>
ReadAgain ==
  /\ rd.pc = "value" /\ rd' = [rd EXCEPT !.pc = "idle"]
  /\ UNCHANGED <<nr_used, slot, data, th, failed>>

\* A failed assert or a read past the array ends what the model follows.
Ended == rd.pc = "undefined" \/ \E t \in Threads : th[t].pc = "abort"

Next ==
  \/ /\ ~Ended
     /\ \/ \E t \in Threads : \/ GetAgain(t) \/ Load(t) \/ Store(t)
                              \/ \E f \in BOOLEAN : GetFirst(t, f)
        \/ ReadBegin \/ ReadSlot \/ ReadBeyond \/ ReadEnd \/ ReadAgain
  \/ Ended /\ UNCHANGED vars

Spec == Init /\ [][Next]_vars

-----------------------------------------------------------------------------
(* Properties.                                                             *)

TypeOK ==
  /\ nr_used \in 0..SizeMax /\ slot \in [Threads -> Slots \cup {NoSlot}] /\ data \in [Slots -> Nat]
  /\ \A t \in Threads : /\ th[t].pc \in {"idle", "load", "store"} \cup (IF failed THEN {"abort"} ELSE {})
                        /\ th[t].loaded \in Nat /\ th[t].added \in 0..MaxAdds
  /\ rd.pc \in {"idle", "sum", "value"} \cup (IF failed THEN {"undefined"} ELSE {})
  /\ rd.i \in Nat /\ rd.sum \in Nat /\ rd.before \in Nat

\* No two threads share a slot ("each thread gets its own thread-specific
\* counter variable", counter.c), unless pthread_setspecific has failed: then
\* ptvar_get takes back a slot that another thread uses.
OwnSlot ==
  ~failed => \A t, u \in Threads : slot[t] = slot[u] /\ slot[t] # NoSlot => t = u

\* No addition is lost, although additions take no lock: the slots always sum
\* up to the additions made, and those handed out hold all of it.  The variables
\* have their types.
NothingLost ==
  /\ TypeOK
  /\ ~failed => /\ FoldFunction(+, 0, data) = Total
                /\ \A s \in Slots : s >= nr_used => data[s] = 0

\* The value read lies between the totals at the beginning and at the end of
\* the read, although the slots change while it runs.
ReadInBetween ==
  ~failed /\ rd.pc = "sum" /\ rd.i >= nr_used => rd.before <= rd.sum /\ rd.sum <= Total
=============================================================================
