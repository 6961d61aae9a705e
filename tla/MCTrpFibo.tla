------------------------------ MODULE MCTrpFibo ------------------------------
(* The programs the runs of TrpFibo check. *)
EXTENDS TrpFiboRefinement

CONSTANTS h1, h2

Prog(heaps, nodes, insertKeys, keys, takes, rekeys, ops) ==
  [heaps |-> heaps, nodes |-> nodes, insertKeys |-> insertKeys, keys |-> keys,
   extractions |-> takes, decreases |-> rekeys, ops |-> ops, monotone |-> FALSE]

\* Two small heaps under every operation; one large heap whose trees are cut.
Queues == Prog({h1, h2}, 4, {1}, {0, 2}, 4, 3,
               {"insert", "extract", "merge", "delete", "decrease", "set_key", "detached"})
Cuts(h) == Prog({h}, 9, {1}, {0}, 1, 3, {"insert", "extract", "decrease"})
Careful == {Queues} \cup {Cuts(h) : h \in Heap}

Dijkstra == {[Prog({h1}, 6, {1, 3}, {2}, 4, 3, {"insert", "extract", "decrease"})
                EXCEPT !.monotone = TRUE]}
Trusting == {Prog({h1}, 3, {1}, {0, 2}, 3, 2, {"insert", "set_key", "trusting"})}
Deletions == {Prog({h1}, 9, {1}, {0}, 3, 0, {"insert", "extract", "delete"})}
=============================================================================
