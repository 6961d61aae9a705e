-------------------------- MODULE TrpFiboRefinement --------------------------
(***************************************************************************)
(* The pointers of TrpFibo implement the priority queues of                *)
(* TrpPriorityQueue.  A heap's content is what its lists lead to.          *)
(***************************************************************************)
EXTENDS TrpFibo

\* The heaps are interchangeable.
Heaps == Permutations(Heap)

Queue == INSTANCE TrpPriorityQueue WITH
  content <- [h \in Heap |-> In(h)],
  key <- [x \in Node |-> node[x].key],
  last <- last

\* Every operation on the pointers is one on a set of nodes with keys: what
\* fibo-extract returns is a least node, and nothing else leaves or enters.
ImplementsQueue == Queue!ASpec
=============================================================================
