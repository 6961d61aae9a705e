--------------------------- MODULE TrpDgraphSearch ---------------------------
(***************************************************************************)
(* The searches of src/trp/trp_t_dgraph.c, step by step as the code makes  *)
(* them, against what they are meant to find out.  Nodes are their         *)
(* addresses, by which the balanced trees order them: a loop over a tree   *)
(* takes the least node of those it still has to do, todo.                 *)
(*                                                                         *)
(* The recursions of the code are functions, of what is left of the loop   *)
(* and of what has been visited.                                           *)
(***************************************************************************)
EXTENDS TrpDgraph, SequencesExt

ASSUME AddressAssumption == Node \subseteq Nat

First(S) == CHOOSE n \in S : \A m \in S : n <= m

-----------------------------------------------------------------------------
(* Ways on from a node, and the search that visits every node it comes to.  *)

Forward == root_out

Backward == root_in

\* In which order a search takes the two makes no difference to how many it visits.
BothWays == [n \in Node |-> root_out[n] \cup root_in[n]]

\* Visits, from n on, what was not visited before, until one of the nodes found is
\* n2; Null is never found.  queue are the nodes visited after n, in order.
Search(ways, n, n2) ==
  LET visit[todo \in SUBSET Node] == [seen \in SUBSET Node |->
        LET m == First(todo)
            rest == todo \ {m}
        IN  IF todo = {} THEN [found |-> FALSE, seen |-> seen, queue |-> <<>>]
            ELSE IF m = n2 THEN [found |-> TRUE, seen |-> seen, queue |-> <<>>]
            ELSE IF m \in seen THEN visit[rest][seen]
            ELSE LET a == visit[ways[m]][seen \cup {m}]
                     b == visit[rest][a.seen]
                 IN  IF a.found THEN a
                     ELSE [b EXCEPT !.queue = <<m>> \o a.queue \o b.queue]]
  IN  visit[ways[n]][{n}]

CanReachLow(n1, n2) == n1 = n2 \/ Search(Forward, n1, n2).found

QueueSucc(n) == <<n>> \o Search(Forward, n, Null).queue
QueuePred(n) == <<n>> \o Search(Backward, n, Null).queue

\* The searches that count add one per visit.
ConnectedCnt(n) == 1 + Len(Search(BothWays, n, Null).queue)
SuccCnt(n) == Len(QueueSucc(n))
PredCnt(n) == Len(QueuePred(n))

IsConnected(g) ==
  len[g] = 0 \/ ConnectedCnt(First(root_nodes[g])) = len[g]

-----------------------------------------------------------------------------
(* root_if_is_tree. *)

\* Climbs against the links, at most len[g] nodes, to a node without a link into
\* it; Null when a node has two or the climb goes round.
Climb(g, n) ==
  LET climb[m \in Node] == [i \in 1 .. len[g] |->
        IF len_in[m] = 0 THEN m
        ELSE IF len_in[m] > 1 \/ i = len[g] THEN Null
        ELSE climb[First(root_in[m])][i + 1]]
  IN  climb[n][1]

RootIfIsTree(g) ==
  IF link_cnt[g] + 1 # len[g] THEN Null
  ELSE LET r == Climb(g, First(root_nodes[g]))
       IN  IF r # Null /\ SuccCnt(r) = len[g] THEN r ELSE Null

-----------------------------------------------------------------------------
(* is_acyclic. *)

\* Explores from n in the direction of ways.  In local are the nodes this search
\* came to, and it never leaves one again; in global those done with.  With keep
\* n itself is one of those afterwards.
DetectACycle(ways, keep, n, done) ==
  LET explore[todo \in SUBSET Node] == [local \in SUBSET Node |-> [global \in SUBSET Node |->
        LET m == First(todo)
            rest == todo \ {m}
        IN  IF todo = {} THEN [cycle |-> FALSE, local |-> local, global |-> global]
            ELSE IF m \in local THEN [cycle |-> TRUE, local |-> local, global |-> global]
            ELSE IF m \in global THEN explore[rest][local][global]
            ELSE LET a == explore[ways[m]][local \cup {m}][global]
                 IN  IF a.cycle THEN a ELSE explore[rest][a.local][a.global \cup {m}]]]
      c == explore[ways[n]][{n}][done]
  IN  IF c.cycle \/ ~keep THEN c ELSE [c EXCEPT !.global = @ \cup {n}]

\* From n forward, then backward.
SearchAround(global, n) ==
  LET f == DetectACycle(Forward, FALSE, n, global)
  IN  IF f.cycle THEN f ELSE DetectACycle(Backward, TRUE, n, f.global)

\* Mutant: a search in both directions is taken to see all that is connected.
IsAcyclic_FirstOnly(g) ==
  root_nodes[g] # {} => ~SearchAround({}, First(root_nodes[g])).cycle

IsAcyclic(g) ==
  LET acyclic[todo \in SUBSET Node] == [global \in SUBSET Node |->
        LET n == First(todo)
            rest == todo \ {n}
            a == SearchAround(global, n)
        IN  IF todo = {} THEN TRUE
            ELSE IF n \in global THEN acyclic[rest][global]
            ELSE ~a.cycle /\ acyclic[rest][a.global]]
  IN  acyclic[root_nodes[g]][{}]

-----------------------------------------------------------------------------
(* Properties. *)

\* No link leaves S or enters it.
Separate(S) == Closed(S) /\ Closed(Node \ S)

\* The comments at trp_t_dgraph.c:522, 685, 711, 791, 818 and 859: can_reach says
\* whether a path leads from one node to the other; the other searches find the
\* nodes that n can reach or that can reach it, n included, each once; and a graph
\* is connected when it is not two parts without links between them.
ReachExact ==
  \A g \in Graph :
    /\ \A n1, n2 \in root_nodes[g] : CanReachLow(n1, n2) <=> CanReach(n1, n2)
    /\ \A n \in root_nodes[g] :
         /\ ToSet(QueueSucc(n)) = {m \in Node : CanReach(n, m)}
         /\ ToSet(QueuePred(n)) = {m \in Node : CanReach(m, n)}
         /\ SuccCnt(n) = Cardinality({m \in Node : CanReach(n, m)})
         /\ PredCnt(n) = Cardinality({m \in Node : CanReach(m, n)})
    /\ IsConnected(g) <=> \A S \in SUBSET root_nodes[g] :
                            S # {} /\ Separate(S) => S = root_nodes[g]

IsRoot(g, r) ==
  /\ r \in root_nodes[g]
  /\ \A n \in root_nodes[g] :
       CanReach(r, n) /\ Cardinality(root_in[n]) = IF n = r THEN 0 ELSE 1

\* The comment at trp_t_dgraph.c:751: the root if the graph is a tree, and only
\* then.  The climb, from any node, ends.
TreeExact ==
  \A g \in Graph :
    IF \E r \in root_nodes[g] : IsRoot(g, r)
    THEN RootIfIsTree(g) # Null /\ IsRoot(g, RootIfIsTree(g))
    ELSE RootIfIsTree(g) = Null

HasCycle(g) == \E n \in root_nodes[g] : OnCycle(n)

\* is_acyclic does not overlook a cycle, although it goes through the graph in
\* both directions and takes what one search has done as done for the other.
NoCycleOverlooked == \A g \in Graph : IsAcyclic(g) => ~HasCycle(g)

\* Every search answers what its comment says, on every graph the calls can build.
SearchesExact == ReachExact /\ TreeExact /\ NoCycleOverlooked

\* A graph that link_acyclic alone has built, without a cycle by the comment at
\* trp_t_dgraph.c:552, is one that is_acyclic says has none.
AcyclicRecognised == \A g \in Graph : ~HasCycle(g) => IsAcyclic(g)
=============================================================================
