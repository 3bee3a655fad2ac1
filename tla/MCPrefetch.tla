---------------------------- MODULE MCPrefetch ----------------------------
(* An instance of Prefetch: groups of 14 blocks, numbered from 0 and from 16. *)
EXTENDS Prefetch

\* Group 0 has two chunks, which are in the cache, group 1 four.  The second cluster
\* of group 1 has a bmap block, and a directory block that lies before the first
\* cluster, but whose number is not less than the disk block of that cluster.
TwoGroups == [g \in AG |-> IF g = 0 THEN <<2, 4>> ELSE <<19, 21, 23, 25>>]
OneDir == [c \in Clusters |-> IF c = 21 THEN <<18>> ELSE <<>>]
OneBmap == [c \in Clusters |-> IF c = 21 THEN 20 ELSE NoBlock]
FourteenEach == [b \in Blocks |-> IF b < 16 THEN b ELSE b - 2]
=============================================================================
