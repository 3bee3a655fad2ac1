------------------------------ MODULE MCTrans ------------------------------
(***************************************************************************)
(* Instances of Trans.  A behaviour is one of two programs: one that uses  *)
(* buffers and inodes, and one that uses the free space counters.          *)
(***************************************************************************)
EXTENDS Trans

CONSTANTS b1, b2, b3,
          MaxItemOps    \* MaxOps of the first program

VARIABLE part

\* The inodes live in the second buffer, or the second of them in the third one;
\* the first buffer is the superblock's.
AllInOne == [i \in Inodes |-> b2]
OneEach == [i \in Inodes |-> IF i = 1 THEN b2 ELSE b3]

BothInit == part \in {"items", "space"} /\ Init

ItemsProgram ==
  /\ \/ SpaceCall(0, 0) \/ EndStep
     \/ \E b \in Buffers : BufferCall(b)
     \/ \E i \in Inodes : InodeCall(i)
  /\ ops' <= MaxItemOps
SpaceProgram == SpaceCall(MaxRes, MaxMore) \/ EndStep

BothNext ==
  \/ part = "items" /\ ItemsProgram /\ UNCHANGED part
  \/ part = "space" /\ SpaceProgram /\ UNCHANGED part

BothSpec == BothInit /\ [][BothNext]_<<part, vars>>
=============================================================================
