---------------------------- MODULE MCDentryCache -----------------------------
(***************************************************************************)
(* DentryCache for TLC.  Which heap node holds an entry does not matter,   *)
(* so states are told apart by what a walk over the pointers meets.        *)
(***************************************************************************)
EXTENDS DentryCache

\* What a walk along next_ from node n meets, once around the ring.
Met(n, Seen(_)) ==
  IF n = Null THEN << >>
  ELSE LET at == Follow(heap, n)
       IN  [k \in 0 .. RingBound |-> IF at[k] = Null THEN Null ELSE Seen(at[k])]

Leaf(m) == <<heap[m].name, heap[m].inode>>
Inner(m) == <<Leaf(m), Met(heap[m].childs, Leaf)>>

\* The tree, the rings, and the number of live nodes.
HeapView == <<tree, Met(heap[RootNode].childs, Inner), Cardinality(LiveNodes)>>
=============================================================================
