------------------------------ MODULE TrpDgraph ------------------------------
(***************************************************************************)
(* Directed graphs, src/trp/trp_t_dgraph.c.  A node keeps the ends of its  *)
(* links in two balanced trees, root_out and root_in, here sets, and the   *)
(* sizes of both; a graph keeps its nodes, their number, the number of     *)
(* links and the table of names.                                           *)
(*                                                                         *)
(* One action per call that changes a graph and succeeds; a call that      *)
(* fails changes nothing.  A node that was detached is referred to by no   *)
(* graph, so its memory may serve for a new one.  Values of nodes and      *)
(* links are left out.                                                     *)
(***************************************************************************)
EXTENDS Integers, FiniteSets

CONSTANTS
  Graph,      \* the graphs
  Node,       \* memory for nodes
  Name,       \* names of nodes
  Null        \* NULL, and UNDEF as a name

ASSUME NullAssumption == Null \notin Graph \cup Node \cup Name
ASSUME NodeAssumption == IsFiniteSet(Node)

VARIABLES
  dgraph,      \* dgraph[n]: the graph of node n, or Null
  name,        \* name[n]
  root_out,    \* root_out[n]: the nodes n has a link to
  root_in,     \* root_in[n]: the nodes that have a link to n
  len_out,     \* the sizes a node keeps of them
  len_in,
  root_nodes,  \* root_nodes[g]: the nodes of g
  len,         \* len[g]: how many g counts
  link_cnt,    \* link_cnt[g]: how many links g counts
  names        \* names[g][x]: the node of g with the name x

vars == <<dgraph, name, root_out, root_in, len_out, len_in,
          root_nodes, len, link_cnt, names>>

TypeOK ==
  /\ dgraph \in [Node -> Graph \cup {Null}]
  /\ name \in [Node -> Name \cup {Null}]
  /\ root_out \in [Node -> SUBSET Node]
  /\ root_in \in [Node -> SUBSET Node]
  /\ len_out \in [Node -> Int]
  /\ len_in \in [Node -> Int]
  /\ root_nodes \in [Graph -> SUBSET Node]
  /\ len \in [Graph -> Int]
  /\ link_cnt \in [Graph -> Int]
  /\ names \in [Graph -> [Name -> Node \cup {Null}]]

Init ==
  /\ dgraph = [n \in Node |-> Null]
  /\ name = [n \in Node |-> Null]
  /\ root_out = [n \in Node |-> {}]
  /\ root_in = [n \in Node |-> {}]
  /\ len_out = [n \in Node |-> 0]
  /\ len_in = [n \in Node |-> 0]
  /\ root_nodes = [g \in Graph |-> {}]
  /\ len = [g \in Graph |-> 0]
  /\ link_cnt = [g \in Graph |-> 0]
  /\ names = [g \in Graph |-> [x \in Name |-> Null]]

-----------------------------------------------------------------------------
(* Nodes and names. *)

\* The table of names when node n goes from one name to another; Null is none.
Renamed(table, n, old, new) ==
  [x \in Name |-> IF x = new THEN n ELSE IF x = old THEN Null ELSE table[x]]

\* dgraph-node without a name, or with one that no node of g has.
MakeNode(g, n, x) ==
  /\ dgraph[n] = Null
  /\ x # Null => names[g][x] = Null
  /\ dgraph' = [dgraph EXCEPT ![n] = g]
  /\ name' = [name EXCEPT ![n] = x]
  /\ names' = [names EXCEPT ![g] = Renamed(names[g], n, Null, x)]
  /\ root_out' = [root_out EXCEPT ![n] = {}]
  /\ root_in' = [root_in EXCEPT ![n] = {}]
  /\ len_out' = [len_out EXCEPT ![n] = 0]
  /\ len_in' = [len_in EXCEPT ![n] = 0]
  /\ root_nodes' = [root_nodes EXCEPT ![g] = @ \cup {n}]
  /\ len' = [len EXCEPT ![g] = @ + 1]
  /\ UNCHANGED link_cnt

SetName(n, x) ==
  /\ dgraph[n] # Null /\ x # name[n]
  /\ x # Null => names[dgraph[n]][x] = Null
  /\ names' = [names EXCEPT ![dgraph[n]] = Renamed(names[dgraph[n]], n, name[n], x)]
  /\ name' = [name EXCEPT ![n] = x]
  /\ UNCHANGED <<dgraph, root_out, root_in, len_out, len_in, root_nodes, len, link_cnt>>

-----------------------------------------------------------------------------
(* Links. *)

\* A set of nodes that no link leaves.
Closed(S) == \A n \in S : root_out[n] \subseteq S

\* Whether the search of can_reach, from n1 along the links, comes to n2: n2 is
\* in every closed set that n1 is in.  TrpDgraphSearch follows the search itself.
CanReach(n1, n2) == \A S \in SUBSET Node : n1 \in S /\ Closed(S) => n2 \in S

LinkLow(n1, n2) ==
  /\ n1 \notin root_in[n2] /\ n2 \notin root_out[n1]
  /\ root_out' = [root_out EXCEPT ![n1] = @ \cup {n2}]
  /\ root_in' = [root_in EXCEPT ![n2] = @ \cup {n1}]
  /\ len_out' = [len_out EXCEPT ![n1] = @ + 1]
  /\ len_in' = [len_in EXCEPT ![n2] = @ + 1]
  /\ link_cnt' = [link_cnt EXCEPT ![dgraph[n1]] = @ + 1]
  /\ UNCHANGED <<dgraph, name, root_nodes, len, names>>

SameGraph(n1, n2) == dgraph[n1] # Null /\ dgraph[n2] = dgraph[n1]

Link(n1, n2) == SameGraph(n1, n2) /\ LinkLow(n1, n2)

\* Mutant: the search starts at the wrong end.
LinkAcyclic_WrongEnd(n1, n2) ==
  SameGraph(n1, n2) /\ n1 # n2 /\ ~CanReach(n1, n2) /\ LinkLow(n1, n2)

LinkAcyclic(n1, n2) == SameGraph(n1, n2) /\ ~CanReach(n2, n1) /\ LinkLow(n1, n2)

DetachLink(n1, n2) ==
  /\ SameGraph(n1, n2)
  /\ n2 \in root_out[n1] /\ n1 \in root_in[n2]
  /\ root_out' = [root_out EXCEPT ![n1] = @ \ {n2}]
  /\ root_in' = [root_in EXCEPT ![n2] = @ \ {n1}]
  /\ len_out' = [len_out EXCEPT ![n1] = @ - 1]
  /\ len_in' = [len_in EXCEPT ![n2] = @ - 1]
  /\ link_cnt' = [link_cnt EXCEPT ![dgraph[n1]] = @ - 1]
  /\ UNCHANGED <<dgraph, name, root_nodes, len, names>>

\* Mutant: a link of n to itself is taken off twice.
LinksAt_Twice(n) == Cardinality(root_out[n]) + Cardinality(root_in[n])

\* The links of n: first those that leave it, itself included, then the others.
LinksAt(n) == Cardinality(root_out[n]) + Cardinality(root_in[n] \ {n})

Leave(g, n) ==
  /\ root_nodes' = [root_nodes EXCEPT ![g] = @ \ {n}]
  /\ len' = [len EXCEPT ![g] = @ - 1]
  /\ names' = [names EXCEPT ![g] = Renamed(names[g], n, name[n], Null)]
  /\ dgraph' = [dgraph EXCEPT ![n] = Null]
  /\ name' = [name EXCEPT ![n] = Null]

\* Every link of n is taken off, one after the other, then n leaves its graph.
DetachNode(n) ==
  /\ dgraph[n] # Null
  /\ link_cnt' = [link_cnt EXCEPT ![dgraph[n]] = @ - LinksAt(n)]
  /\ root_out' = [m \in Node |-> IF m = n THEN {} ELSE root_out[m] \ {n}]
  /\ root_in' = [m \in Node |-> IF m = n THEN {} ELSE root_in[m] \ {n}]
  /\ len_out' = [m \in Node |-> IF m = n THEN len_out[n] - Cardinality(root_out[n])
                                ELSE IF m \in root_in[n] THEN len_out[m] - 1 ELSE len_out[m]]
  /\ len_in' = [m \in Node |-> IF m = n THEN len_in[n] - Cardinality(root_in[n])
                               ELSE IF m \in root_out[n] THEN len_in[m] - 1 ELSE len_in[m]]
  /\ Leave(dgraph[n], n)

Next ==
  \/ \E g \in Graph, n \in Node, x \in Name \cup {Null} : MakeNode(g, n, x)
  \/ \E n \in Node, x \in Name \cup {Null} : SetName(n, x)
  \/ \E n1, n2 \in Node : Link(n1, n2)
  \/ \E n1, n2 \in Node : LinkAcyclic(n1, n2)
  \/ \E n1, n2 \in Node : DetachLink(n1, n2)
  \/ \E n \in Node : DetachNode(n)

Spec == Init /\ [][Next]_vars

-----------------------------------------------------------------------------
(* Properties. *)

\* A link is kept at both its ends, and both ends are nodes of one graph: the
\* lookups of detach_node, which are not tested for failure, always succeed.
LinksAgree ==
  \A n, m \in Node :
    /\ m \in root_out[n] <=> n \in root_in[m]
    /\ m \in root_out[n] => dgraph[n] # Null /\ dgraph[m] = dgraph[n]

\* A node is in the tree of the graph it names and in no other, the graph counts
\* its nodes, and dgraph-get-node finds one by a name exactly while it bears it.
MembersAgree ==
  \A g \in Graph :
    /\ root_nodes[g] = {n \in Node : dgraph[n] = g}
    /\ len[g] = Cardinality(root_nodes[g])
    /\ \A x \in Name, n \in Node : names[g][x] = n <=> dgraph[n] = g /\ name[n] = x

LinksOf(g) == {l \in Node \X Node : dgraph[l[1]] = g /\ l[2] \in root_out[l[1]]}

\* The counters of links, on which in_cnt, out_cnt and root_if_is_tree rely, are
\* exact after any sequence of calls, links of a node to itself included.
CountersExact ==
  /\ \A n \in Node : /\ len_out[n] = Cardinality(root_out[n])
                     /\ len_in[n] = Cardinality(root_in[n])
  /\ \A g \in Graph : link_cnt[g] = Cardinality(LinksOf(g))

\* What the calls rely on without a test: links, members, names and counters agree.
GraphConsistent == LinksAgree /\ MembersAgree /\ CountersExact

OnCycle(n) == \E m \in root_out[n] : CanReach(m, n)

\* The comment at trp_t_dgraph.c:552: link_acyclic makes no cycle, whatever the
\* graph has been through.  No step brings a node onto a cycle, but a dgraph-link
\* that link_acyclic would have refused.
NoNewCycle ==
  [][(\A n1, n2 \in Node : Link(n1, n2) => LinkAcyclic(n1, n2))
       => \A n \in Node : OnCycle(n)' => OnCycle(n)]_vars
=============================================================================
