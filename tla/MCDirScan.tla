----------------------------- MODULE MCDirScan -----------------------------
(* A tree of five directories: the root has three, one of which is a mount   *)
(* point and one of which has another one.  A file stands for the entries   *)
(* that are not scanned, "." and ".." among them.                           *)
EXTENDS DirScan

CONSTANTS d0, d1, d2, d3, d4

Tree ==
  [d \in Dirs |-> CASE d = d0 -> <<d1, d2, d3>> [] d = d1 -> <<File, d4>> [] OTHER -> <<File>>]
=============================================================================
