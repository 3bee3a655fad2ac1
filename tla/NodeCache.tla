------------------------------ MODULE NodeCache ------------------------------
(***************************************************************************)
(* What the reference-counted cache of libxfs/cache.c promises to its      *)
(* users: a node somebody holds stays theirs and keeps its key, and dirty  *)
(* data leaves the cache only while the whole cache is being purged.       *)
(***************************************************************************)
EXTENDS Naturals

CONSTANTS Nodes, Keys, NoKey

VARIABLES
  content,  \* per node: the key it caches, or NoKey when it is free
  refs,     \* per node: how many holders it has
  dirty,    \* per node: it holds data that is not on disk
  purge     \* the cache is being emptied (cache_purge)

cacheVars == <<content, refs, dirty, purge>>

CacheInit ==
  /\ content = [n \in Nodes |-> NoKey]
  /\ refs = [n \in Nodes |-> 0]
  /\ dirty = [n \in Nodes |-> FALSE]
  /\ purge = FALSE

\* A free node is filled for its first holder.
Fill(n, k) ==
  /\ content[n] = NoKey
  /\ content' = [content EXCEPT ![n] = k]
  /\ refs' = [refs EXCEPT ![n] = 1]
  /\ UNCHANGED <<dirty, purge>>

Take(n) ==
  /\ content[n] # NoKey
  /\ refs' = [refs EXCEPT ![n] = @ + 1]
  /\ UNCHANGED <<content, dirty, purge>>

Give(n) ==
  /\ refs[n] > 0
  /\ refs' = [refs EXCEPT ![n] = @ - 1]
  /\ UNCHANGED <<content, dirty, purge>>

Modify(n) ==
  /\ refs[n] > 0
  /\ dirty' = [dirty EXCEPT ![n] = TRUE]
  /\ UNCHANGED <<content, refs, purge>>

Write(N) ==
  /\ dirty' = [n \in Nodes |-> dirty[n] /\ n \notin N]
  /\ UNCHANGED <<content, refs, purge>>

\* Unreferenced nodes leave the cache.
Drop(N) ==
  /\ \A n \in N : refs[n] = 0 /\ (dirty[n] => purge)
  /\ content' = [n \in Nodes |-> IF n \in N THEN NoKey ELSE content[n]]
  /\ dirty' = [n \in Nodes |-> dirty[n] /\ n \notin N]
  /\ UNCHANGED <<refs, purge>>

\* The purge starts, or ends with writing what could not be dropped.
Purging(N) ==
  /\ purge' = ~purge
  /\ dirty' = [n \in Nodes |-> dirty[n] /\ n \notin N]
  /\ UNCHANGED <<content, refs>>

CacheNext ==
  \/ \E n \in Nodes : Take(n) \/ Give(n) \/ Modify(n) \/ \E k \in Keys : Fill(n, k)
  \/ \E N \in SUBSET Nodes : Write(N) \/ Drop(N) \/ Purging(N)

CacheSpec == CacheInit /\ [][CacheNext]_cacheVars
=============================================================================
