--------------------------- MODULE TrpGraphProofs ---------------------------
(***************************************************************************)
(* Theorems about TrpDgraph, for any graphs, nodes and names: the types,   *)
(* the two ends of links, trees, tables and counters, and that             *)
(* link_acyclic, whatever the graph has been through, never closes a       *)
(* cycle; and about TrpDgraphSearch: that every search answers what it is  *)
(* meant to.                                                               *)
(***************************************************************************)
EXTENDS TrpDgraphSearch, FiniteSetTheorems, SequenceTheorems, WellFoundedInduction, TLAPS

-----------------------------------------------------------------------------
(* Reachability along links R, as a function of R. *)

Links == [Node -> SUBSET Node]

ClosedUnder(R, S) == \A n \in S : R[n] \subseteq S

Reaches(R, a, b) == \A S \in SUBSET Node : a \in S /\ ClosedUnder(R, S) => b \in S

Cyclic(R, n) == \E m \in R[n] : Reaches(R, m, n)

\* The nodes that a reaches.
Span(R, a) == {b \in Node : Reaches(R, a, b)}

\* The nodes that a reaches are a closed set with a in it.
LEMMA SpanClosed ==
  ASSUME NEW R \in Links, NEW a \in Node
  PROVE  a \in Span(R, a) /\ Span(R, a) \in SUBSET Node /\ ClosedUnder(R, Span(R, a))
<1>1. a \in Span(R, a) /\ Span(R, a) \in SUBSET Node
  BY DEF Span, Reaches
<1>2. ASSUME NEW n \in Span(R, a), NEW m \in R[n]
      PROVE  m \in Span(R, a)
  <2>1. n \in Node /\ m \in Node /\ Reaches(R, a, n)
    BY DEF Span, Links
  <2>2. ASSUME NEW S \in SUBSET Node, a \in S, ClosedUnder(R, S)
        PROVE  m \in S
    BY <2>1, <2>2 DEF Reaches, ClosedUnder
  <2> QED BY <2>1, <2>2 DEF Span, Reaches
<1> QED BY <1>1, <1>2 DEF ClosedUnder

\* Reachability composes.
LEMMA ReachesComposes ==
  ASSUME NEW R \in Links, NEW a \in Node, NEW b \in Node, NEW c \in Node,
         Reaches(R, a, b), Reaches(R, b, c)
  PROVE  Reaches(R, a, c)
BY DEF Reaches

\* Taking links off puts no node onto a cycle.
LEMMA FewerLinks ==
  ASSUME NEW R \in Links, NEW Q \in Links, \A k \in Node : Q[k] \subseteq R[k],
         NEW n \in Node, Cyclic(Q, n)
  PROVE  Cyclic(R, n)
<1>1. PICK m \in Q[n] : Reaches(Q, m, n)
  BY DEF Cyclic
<1>2. m \in Node /\ m \in R[n]
  BY DEF Links
<1>3. \A S \in SUBSET Node : ClosedUnder(R, S) => ClosedUnder(Q, S)
  BY DEF ClosedUnder
<1>4. Reaches(R, m, n)
  BY <1>1, <1>3 DEF Reaches
<1> QED BY <1>2, <1>4 DEF Cyclic

\* A link from n1 to n2 puts no node onto a cycle when n2 does not reach n1: of a
\* link of n, the nodes its end reaches, with those that n2 reaches if n1 is one of
\* them, are closed in the new graph, and n is one of them only if it was before.
LEMMA OneMoreLink ==
  ASSUME NEW R \in Links, NEW n1 \in Node, NEW n2 \in Node, ~Reaches(R, n2, n1),
         NEW Q \in Links,
         \A k \in Node : Q[k] = IF k = n1 THEN R[k] \cup {n2} ELSE R[k],
         NEW n \in Node, Cyclic(Q, n)
  PROVE  Cyclic(R, n)
<1> SUFFICES ASSUME ~Cyclic(R, n)
             PROVE  FALSE
  OBVIOUS
<1> PICK m \in Q[n] : Reaches(Q, m, n)
  BY DEF Cyclic
<1>0. m \in Node
  BY DEF Links
<1>1. ASSUME NEW S \in SUBSET Node, ClosedUnder(R, S), n1 \in S => n2 \in S, m \in S
      PROVE  n \in S
  <2>1. \A k \in S : k \in Node /\ Q[k] \subseteq S
    <3> TAKE k \in S
    <3>1. R[k] \subseteq S
      BY <1>1 DEF ClosedUnder
    <3>2. CASE k = n1
      BY <1>1, <3>1, <3>2 DEF Links
    <3>3. CASE k # n1
      BY <3>1, <3>3 DEF Links
    <3> QED BY <3>2, <3>3
  <2> QED BY <1>1, <2>1 DEF Reaches, ClosedUnder
<1>2. n1 \notin Span(R, n2) /\ n2 \in Span(R, n2)
      /\ Span(R, n2) \in SUBSET Node /\ ClosedUnder(R, Span(R, n2))
  BY SpanClosed DEF Span
<1>3. CASE m \in R[n]
  <2>1. ~Reaches(R, m, n)
    BY <1>3 DEF Cyclic
  <2>2. m \in Span(R, m) /\ Span(R, m) \in SUBSET Node /\ ClosedUnder(R, Span(R, m))
    BY <1>0, SpanClosed
  <2>3. n \notin Span(R, m)
    BY <2>1 DEF Span
  <2>4. CASE n1 \notin Span(R, m)
    BY <1>1, <2>2, <2>3, <2>4
  <2>5. CASE n1 \in Span(R, m)
    <3> DEFINE S == Span(R, m) \cup Span(R, n2)
    <3>1. S \in SUBSET Node /\ ClosedUnder(R, S) /\ n2 \in S /\ m \in S
      BY <1>2, <2>2 DEF ClosedUnder
    <3>2. n \in Span(R, n2)
      BY <1>1, <2>3, <3>1
    <3>3. Reaches(R, n2, m)
      BY <1>0, <1>2, <1>3, <3>2 DEF ClosedUnder, Span
    <3>4. Reaches(R, m, n1)
      BY <2>5 DEF Span
    <3> QED BY <1>0, <3>3, <3>4, ReachesComposes
  <2> QED BY <2>4, <2>5
<1>4. CASE m \notin R[n]
  <2>1. n = n1 /\ m = n2
    BY <1>4 DEF Links
  <2> QED BY <1>1, <1>2, <2>1
<1> QED BY <1>3, <1>4

-----------------------------------------------------------------------------
(* Types. *)

LEMMA LinksFinite ==
  ASSUME NEW S \in SUBSET Node
  PROVE  Cardinality(S) \in Int
<1>1. IsFiniteSet(S)
  BY NodeAssumption, FS_Subset
<1>2. Cardinality(S) \in Nat
  BY <1>1, FS_CardinalityType
<1> QED BY <1>2

LEMMA RenamedType ==
  ASSUME NEW table \in [Name -> Node \cup {Null}], NEW n \in Node, NEW old, NEW new
  PROVE  Renamed(table, n, old, new) \in [Name -> Node \cup {Null}]
BY DEF Renamed

LEMMA TypeInit == Init => TypeOK
BY DEF Init, TypeOK

LEMMA TypeNext == TypeOK /\ [Next]_vars => TypeOK'
<1> SUFFICES ASSUME TypeOK, [Next]_vars
             PROVE  TypeOK'
  OBVIOUS
<1>1. ASSUME NEW g \in Graph, NEW n \in Node, NEW x \in Name \cup {Null}, MakeNode(g, n, x)
      PROVE  TypeOK'
  <2>1. Renamed(names[g], n, Null, x) \in [Name -> Node \cup {Null}]
    BY RenamedType DEF TypeOK
  <2> QED BY <1>1, <2>1 DEF MakeNode, TypeOK
<1>2. ASSUME NEW n \in Node, NEW x \in Name \cup {Null}, SetName(n, x)
      PROVE  TypeOK'
  <2>1. dgraph[n] \in Graph
    BY <1>2 DEF SetName, TypeOK
  <2>2. Renamed(names[dgraph[n]], n, name[n], x) \in [Name -> Node \cup {Null}]
    BY <2>1, RenamedType DEF TypeOK
  <2> QED BY <1>2, <2>1, <2>2 DEF SetName, TypeOK
<1>3. ASSUME NEW n1 \in Node, NEW n2 \in Node, SameGraph(n1, n2), LinkLow(n1, n2)
      PROVE  TypeOK'
  BY <1>3 DEF SameGraph, LinkLow, TypeOK
<1>4. ASSUME NEW n1 \in Node, NEW n2 \in Node, DetachLink(n1, n2)
      PROVE  TypeOK'
  BY <1>4 DEF SameGraph, DetachLink, TypeOK
<1>5. ASSUME NEW n \in Node, DetachNode(n)
      PROVE  TypeOK'
  <2>1. dgraph[n] \in Graph
    BY <1>5 DEF DetachNode, TypeOK
  <2>2. Renamed(names[dgraph[n]], n, name[n], Null) \in [Name -> Node \cup {Null}]
    BY <2>1, RenamedType DEF TypeOK
  <2>3. /\ Cardinality(root_out[n]) \in Int
        /\ Cardinality(root_in[n]) \in Int
        /\ LinksAt(n) \in Int
    BY LinksFinite DEF LinksAt, TypeOK
  <2>4. dgraph' \in [Node -> Graph \cup {Null}] /\ name' \in [Node -> Name \cup {Null}]
    BY <1>5 DEF DetachNode, Leave, TypeOK
  <2>5. root_out' \in [Node -> SUBSET Node] /\ root_in' \in [Node -> SUBSET Node]
    BY <1>5 DEF DetachNode, TypeOK
  <2>6. len_out' \in [Node -> Int] /\ len_in' \in [Node -> Int]
    BY <1>5, <2>3 DEF DetachNode, TypeOK
  <2>7. /\ root_nodes' \in [Graph -> SUBSET Node] /\ len' \in [Graph -> Int]
        /\ link_cnt' \in [Graph -> Int]
    BY <1>5, <2>3 DEF DetachNode, Leave, TypeOK
  <2>8. names' \in [Graph -> [Name -> Node \cup {Null}]]
    BY <1>5, <2>2 DEF DetachNode, Leave, TypeOK
  <2> QED BY <2>4, <2>5, <2>6, <2>7, <2>8 DEF TypeOK
<1>6. CASE UNCHANGED vars
  BY <1>6 DEF vars, TypeOK
<1> QED BY <1>1, <1>2, <1>3, <1>4, <1>5, <1>6 DEF Next, Link, LinkAcyclic

\* Every variable keeps its type.
THEOREM DgraphTypes == Spec => []TypeOK
<1> QED BY TypeInit, TypeNext, PTL DEF Spec

-----------------------------------------------------------------------------
(* The two ends of a link. *)

LEMMA LinksInit == Init => LinksAgree
BY DEF Init, LinksAgree

LEMMA LinksNext == TypeOK /\ LinksAgree /\ [Next]_vars => LinksAgree'
<1> SUFFICES ASSUME TypeOK, LinksAgree, [Next]_vars
             PROVE  LinksAgree'
  OBVIOUS
<1>1. ASSUME NEW g \in Graph, NEW n \in Node, NEW x \in Name \cup {Null}, MakeNode(g, n, x)
      PROVE  LinksAgree'
  <2>1. root_out' = root_out /\ root_in' = root_in
    <3>1. root_out[n] = {} /\ root_in[n] = {}
      BY <1>1 DEF MakeNode, LinksAgree, TypeOK
    <3> QED BY <1>1, <3>1 DEF MakeNode, TypeOK
  <2>2. \A m, k \in Node : k \in root_out[m] => m # n /\ k # n
    BY <1>1, NullAssumption DEF MakeNode, LinksAgree
  <2>3. \A m \in Node : m # n => dgraph'[m] = dgraph[m]
    BY <1>1 DEF MakeNode, TypeOK
  <2> QED BY <2>1, <2>2, <2>3 DEF LinksAgree
<1>2. ASSUME NEW n \in Node, NEW x \in Name \cup {Null}, SetName(n, x)
      PROVE  LinksAgree'
  BY <1>2 DEF SetName, LinksAgree
<1>3. ASSUME NEW n1 \in Node, NEW n2 \in Node, SameGraph(n1, n2), LinkLow(n1, n2)
      PROVE  LinksAgree'
  BY <1>3 DEF SameGraph, LinkLow, LinksAgree, TypeOK
<1>4. ASSUME NEW n1 \in Node, NEW n2 \in Node, DetachLink(n1, n2)
      PROVE  LinksAgree'
  BY <1>4 DEF SameGraph, DetachLink, LinksAgree, TypeOK
<1>5. ASSUME NEW n \in Node, DetachNode(n)
      PROVE  LinksAgree'
  BY <1>5 DEF DetachNode, Leave, LinksAgree, TypeOK
<1>6. CASE UNCHANGED vars
  BY <1>6 DEF vars, LinksAgree
<1> QED BY <1>1, <1>2, <1>3, <1>4, <1>5, <1>6 DEF Next, Link, LinkAcyclic

\* The two ends of a link agree, in one graph: trp_dgraph_detach_node finds both.
THEOREM BothEndsKept == Spec => []LinksAgree
<1>1. TypeOK /\ LinksAgree /\ [Next]_vars => (TypeOK /\ LinksAgree)'
  BY TypeNext, LinksNext
<1> QED BY TypeInit, LinksInit, <1>1, PTL DEF Spec

-----------------------------------------------------------------------------
(* The table of names. *)

NamesAgree ==
  \A g \in Graph, x \in Name, n \in Node :
    names[g][x] = n <=> dgraph[n] = g /\ name[n] = x

LEMMA NamesInit == Init => NamesAgree
BY NullAssumption DEF Init, NamesAgree

LEMMA NamesNext == TypeOK /\ NamesAgree /\ [Next]_vars => NamesAgree'
<1> SUFFICES ASSUME TypeOK, NamesAgree, [Next]_vars
             PROVE  NamesAgree'
  OBVIOUS
<1> USE NullAssumption
<1>1. ASSUME NEW g \in Graph, NEW n \in Node, NEW x \in Name \cup {Null}, MakeNode(g, n, x)
      PROVE  NamesAgree'
  <2> SUFFICES ASSUME NEW h \in Graph, NEW y \in Name, NEW k \in Node
               PROVE  names'[h][y] = k <=> dgraph'[k] = h /\ name'[k] = y
    BY DEF NamesAgree
  <2>1. names[h][y] = k <=> dgraph[k] = h /\ name[k] = y
    BY DEF NamesAgree
  <2>2. dgraph[n] = Null /\ (x # Null => names[g][x] = Null)
        /\ dgraph'[n] = g /\ name'[n] = x
        /\ (k # n => dgraph'[k] = dgraph[k] /\ name'[k] = name[k])
    BY <1>1 DEF MakeNode, TypeOK
  <2>3. names'[h][y] = IF h = g /\ y = x THEN n ELSE names[h][y]
    BY <1>1 DEF MakeNode, TypeOK, Renamed
  <2> QED BY <2>1, <2>2, <2>3
<1>2. ASSUME NEW n \in Node, NEW x \in Name \cup {Null}, SetName(n, x)
      PROVE  NamesAgree'
  <2> SUFFICES ASSUME NEW h \in Graph, NEW y \in Name, NEW k \in Node
               PROVE  names'[h][y] = k <=> dgraph'[k] = h /\ name'[k] = y
    BY DEF NamesAgree
  <2>1. /\ names[h][y] = k <=> dgraph[k] = h /\ name[k] = y
        /\ names[h][y] = n <=> dgraph[n] = h /\ name[n] = y
    BY DEF NamesAgree
  <2>2. dgraph[n] \in Graph /\ x # name[n] /\ (x # Null => names[dgraph[n]][x] = Null)
        /\ dgraph' = dgraph /\ name'[n] = x /\ (k # n => name'[k] = name[k])
    BY <1>2 DEF SetName, TypeOK
  <2>3. names'[h][y] = IF h = dgraph[n] /\ y = x THEN n
                       ELSE IF h = dgraph[n] /\ y = name[n] THEN Null ELSE names[h][y]
    BY <1>2, <2>2 DEF SetName, TypeOK, Renamed
  <2> QED BY <2>1, <2>2, <2>3
<1>3. ASSUME NEW n1 \in Node, NEW n2 \in Node, LinkLow(n1, n2)
      PROVE  NamesAgree'
  BY <1>3 DEF LinkLow, NamesAgree
<1>4. ASSUME NEW n1 \in Node, NEW n2 \in Node, DetachLink(n1, n2)
      PROVE  NamesAgree'
  BY <1>4 DEF DetachLink, NamesAgree
<1>5. ASSUME NEW n \in Node, DetachNode(n)
      PROVE  NamesAgree'
  <2> SUFFICES ASSUME NEW h \in Graph, NEW y \in Name, NEW k \in Node
               PROVE  names'[h][y] = k <=> dgraph'[k] = h /\ name'[k] = y
    BY DEF NamesAgree
  <2>1. /\ names[h][y] = k <=> dgraph[k] = h /\ name[k] = y
        /\ names[h][y] = n <=> dgraph[n] = h /\ name[n] = y
    BY DEF NamesAgree
  <2>2. dgraph[n] \in Graph /\ dgraph'[n] = Null /\ name'[n] = Null
        /\ (k # n => dgraph'[k] = dgraph[k] /\ name'[k] = name[k])
    BY <1>5 DEF DetachNode, Leave, TypeOK
  <2>3. names'[h][y] = IF h = dgraph[n] /\ y = name[n] THEN Null ELSE names[h][y]
    BY <1>5, <2>2 DEF DetachNode, Leave, TypeOK, Renamed
  <2> QED BY <2>1, <2>2, <2>3
<1>6. CASE UNCHANGED vars
  BY <1>6 DEF vars, NamesAgree
<1> QED BY <1>1, <1>2, <1>3, <1>4, <1>5, <1>6 DEF Next, Link, LinkAcyclic

-----------------------------------------------------------------------------
(* The tree of nodes and the counters. *)

NodesAgree ==
  \A g \in Graph :
    /\ root_nodes[g] = {n \in Node : dgraph[n] = g}
    /\ len[g] = Cardinality(root_nodes[g])

LEMMA NodesInit == Init => NodesAgree
<1>1. Cardinality({}) = 0
  BY FS_EmptySet
<1> QED BY <1>1, NullAssumption DEF Init, NodesAgree

LEMMA NodesNext == TypeOK /\ NodesAgree /\ [Next]_vars => NodesAgree'
<1> SUFFICES ASSUME TypeOK, NodesAgree, [Next]_vars
             PROVE  NodesAgree'
  OBVIOUS
<1> USE NullAssumption
<1>0. ASSUME NEW h \in Graph
      PROVE  IsFiniteSet(root_nodes[h]) /\ Cardinality(root_nodes[h]) \in Int
  BY NodeAssumption, FS_Subset, LinksFinite DEF TypeOK
<1>1. ASSUME NEW g \in Graph, NEW n \in Node, NEW x \in Name \cup {Null}, MakeNode(g, n, x)
      PROVE  NodesAgree'
  <2> SUFFICES ASSUME NEW h \in Graph
               PROVE  /\ root_nodes'[h] = {k \in Node : dgraph'[k] = h}
                      /\ len'[h] = Cardinality(root_nodes'[h])
    BY DEF NodesAgree
  <2>1. root_nodes'[h] = {k \in Node : dgraph'[k] = h}
    BY <1>1 DEF MakeNode, NodesAgree, TypeOK
  <2>2. CASE h = g
    <3>1. n \notin root_nodes[g] /\ root_nodes'[g] = root_nodes[g] \cup {n}
      BY <1>1 DEF MakeNode, NodesAgree, TypeOK
    <3>2. Cardinality(root_nodes'[g]) = Cardinality(root_nodes[g]) + 1
      BY <1>0, <3>1, FS_AddElement
    <3> QED BY <1>1, <2>1, <2>2, <3>2 DEF MakeNode, NodesAgree, TypeOK
  <2>3. CASE h # g
    BY <1>1, <2>1, <2>3 DEF MakeNode, NodesAgree, TypeOK
  <2> QED BY <2>2, <2>3
<1>2. ASSUME NEW n \in Node, NEW x \in Name \cup {Null}, SetName(n, x)
      PROVE  NodesAgree'
  BY <1>2 DEF SetName, NodesAgree
<1>3. ASSUME NEW n1 \in Node, NEW n2 \in Node, LinkLow(n1, n2)
      PROVE  NodesAgree'
  BY <1>3 DEF LinkLow, NodesAgree
<1>4. ASSUME NEW n1 \in Node, NEW n2 \in Node, DetachLink(n1, n2)
      PROVE  NodesAgree'
  BY <1>4 DEF DetachLink, NodesAgree
<1>5. ASSUME NEW n \in Node, DetachNode(n)
      PROVE  NodesAgree'
  <2> SUFFICES ASSUME NEW h \in Graph
               PROVE  /\ root_nodes'[h] = {k \in Node : dgraph'[k] = h}
                      /\ len'[h] = Cardinality(root_nodes'[h])
    BY DEF NodesAgree
  <2>1. root_nodes'[h] = {k \in Node : dgraph'[k] = h}
    BY <1>5 DEF DetachNode, Leave, NodesAgree, TypeOK
  <2>2. CASE h = dgraph[n]
    <3>1. n \in root_nodes[h] /\ root_nodes'[h] = root_nodes[h] \ {n}
      BY <1>5, <2>2 DEF DetachNode, Leave, NodesAgree, TypeOK
    <3>2. Cardinality(root_nodes'[h]) = Cardinality(root_nodes[h]) - 1
      BY <1>0, <3>1, FS_RemoveElement
    <3> QED BY <1>5, <2>1, <2>2, <3>2 DEF DetachNode, Leave, NodesAgree, TypeOK
  <2>3. CASE h # dgraph[n]
    BY <1>5, <2>1, <2>3 DEF DetachNode, Leave, NodesAgree, TypeOK
  <2> QED BY <2>2, <2>3
<1>6. CASE UNCHANGED vars
  BY <1>6 DEF vars, NodesAgree
<1> QED BY <1>1, <1>2, <1>3, <1>4, <1>5, <1>6 DEF Next, Link, LinkAcyclic

\* A graph has as many links from n as n has ends of them, and likewise into n.
LEMMA Fan ==
  ASSUME NEW n \in Node, NEW S \in SUBSET Node
  PROVE  /\ IsFiniteSet({n} \X S) /\ Cardinality({n} \X S) = Cardinality(S)
         /\ IsFiniteSet(S \X {n}) /\ Cardinality(S \X {n}) = Cardinality(S)
<1>1. IsFiniteSet(S) /\ Cardinality(S) \in Int
  BY NodeAssumption, FS_Subset, LinksFinite
<1>2. IsFiniteSet({n}) /\ Cardinality({n}) = 1
  BY FS_Singleton, Zenon
<1> QED BY <1>1, <1>2, FS_Product

\* The size of two sets without common elements, and of what is left of a set.
LEMMA SizeOfDisjoint ==
  ASSUME NEW S, NEW T, IsFiniteSet(S), IsFiniteSet(T), S \cap T = {}
  PROVE  Cardinality(S \cup T) = Cardinality(S) + Cardinality(T)
<1>1. Cardinality(S \cap T) = 0
  BY FS_EmptySet
<1>2. Cardinality(S) \in Nat /\ Cardinality(T) \in Nat
  BY FS_CardinalityType
<1>3. Cardinality(S \cup T) = Cardinality(S) + Cardinality(T) - Cardinality(S \cap T)
  BY FS_Union, Zenon
<1> QED BY <1>1, <1>2, <1>3

LEMMA SizeOfRest ==
  ASSUME NEW S, NEW T, IsFiniteSet(S), T \subseteq S
  PROVE  Cardinality(S \ T) = Cardinality(S) - Cardinality(T)
<1>1. S \cap T = T
  OBVIOUS
<1>2. Cardinality(S \ T) = Cardinality(S) - Cardinality(S \cap T)
  BY FS_Difference, Zenon
<1> QED BY <1>1, <1>2

LEMMA LinksOfFinite ==
  ASSUME NEW g
  PROVE  IsFiniteSet(LinksOf(g)) /\ Cardinality(LinksOf(g)) \in Int
<1>1. IsFiniteSet(Node \X Node)
  BY NodeAssumption, FS_Product
<1>2. IsFiniteSet(LinksOf(g))
  BY <1>1, FS_Subset DEF LinksOf
<1> QED BY <1>2, FS_CardinalityType

LEMMA CountersInit == Init => CountersExact
<1> SUFFICES ASSUME Init PROVE CountersExact
  OBVIOUS
<1>1. Cardinality({}) = 0
  BY FS_EmptySet
<1>2. \A g \in Graph : LinksOf(g) = {}
  BY NullAssumption DEF Init, LinksOf
<1> QED BY <1>1, <1>2 DEF Init, CountersExact

LEMMA CountersNext == TypeOK /\ LinksAgree /\ CountersExact /\ [Next]_vars => CountersExact'
<1> SUFFICES ASSUME TypeOK, LinksAgree, CountersExact, [Next]_vars
             PROVE  CountersExact'
  OBVIOUS
<1> USE NullAssumption
<1>0. \A k \in Node : /\ IsFiniteSet(root_out[k]) /\ Cardinality(root_out[k]) \in Int
                      /\ IsFiniteSet(root_in[k]) /\ Cardinality(root_in[k]) \in Int
  BY NodeAssumption, FS_Subset, LinksFinite DEF TypeOK
<1>1. ASSUME NEW g \in Graph, NEW n \in Node, NEW x \in Name \cup {Null}, MakeNode(g, n, x)
      PROVE  CountersExact'
  <2>1. root_out[n] = {} /\ root_in[n] = {}
    BY <1>1 DEF MakeNode, LinksAgree, TypeOK
  <2>2. root_out' = root_out /\ root_in' = root_in /\ link_cnt' = link_cnt
    BY <1>1, <2>1 DEF MakeNode, TypeOK
  <2>3. Cardinality(root_out[n]) = 0 /\ Cardinality(root_in[n]) = 0
    BY <2>1, FS_EmptySet
  <2>4. len_out' = len_out /\ len_in' = len_in
    BY <1>1, <2>3 DEF MakeNode, CountersExact, TypeOK
  <2>5. \A h \in Graph : LinksOf(h)' = LinksOf(h)
    BY <1>1, <2>1, <2>2 DEF MakeNode, LinksOf, TypeOK
  <2> QED BY <2>2, <2>4, <2>5 DEF CountersExact
<1>2. ASSUME NEW n \in Node, NEW x \in Name \cup {Null}, SetName(n, x)
      PROVE  CountersExact'
  BY <1>2 DEF SetName, CountersExact, LinksOf
<1>3. ASSUME NEW n1 \in Node, NEW n2 \in Node, SameGraph(n1, n2), LinkLow(n1, n2)
      PROVE  CountersExact'
  <2>1. /\ Cardinality(root_out[n1] \cup {n2}) = Cardinality(root_out[n1]) + 1
        /\ Cardinality(root_in[n2] \cup {n1}) = Cardinality(root_in[n2]) + 1
    BY <1>0, <1>3, FS_AddElement DEF LinkLow
  <2>2. \A k \in Node : /\ len_out'[k] = Cardinality(root_out'[k])
                        /\ len_in'[k] = Cardinality(root_in'[k])
    BY <1>3, <2>1 DEF LinkLow, CountersExact, TypeOK
  <2>3. ASSUME NEW h \in Graph
        PROVE  link_cnt'[h] = Cardinality(LinksOf(h)')
    <3>1. CASE h = dgraph[n1]
      <4>1. LinksOf(h)' = LinksOf(h) \cup {<<n1, n2>>} /\ <<n1, n2>> \notin LinksOf(h)
        BY <1>3, <3>1 DEF LinkLow, LinksOf, TypeOK
      <4>2. Cardinality(LinksOf(h)') = Cardinality(LinksOf(h)) + 1
        BY <4>1, LinksOfFinite, FS_AddElement
      <4> QED BY <1>3, <3>1, <4>2 DEF LinkLow, CountersExact, TypeOK
    <3>2. CASE h # dgraph[n1]
      <4>1. LinksOf(h)' = LinksOf(h)
        BY <1>3, <3>2 DEF LinkLow, LinksOf, TypeOK
      <4> QED BY <1>3, <3>2, <4>1 DEF LinkLow, CountersExact, TypeOK
    <3> QED BY <3>1, <3>2
  <2> QED BY <2>2, <2>3 DEF CountersExact
<1>4. ASSUME NEW n1 \in Node, NEW n2 \in Node, DetachLink(n1, n2)
      PROVE  CountersExact'
  <2>1. /\ Cardinality(root_out[n1] \ {n2}) = Cardinality(root_out[n1]) - 1
        /\ Cardinality(root_in[n2] \ {n1}) = Cardinality(root_in[n2]) - 1
    BY <1>0, <1>4, FS_RemoveElement DEF DetachLink
  <2>2. \A k \in Node : /\ len_out'[k] = Cardinality(root_out'[k])
                        /\ len_in'[k] = Cardinality(root_in'[k])
    BY <1>4, <2>1 DEF DetachLink, CountersExact, TypeOK
  <2>3. ASSUME NEW h \in Graph
        PROVE  link_cnt'[h] = Cardinality(LinksOf(h)')
    <3>1. CASE h = dgraph[n1]
      <4>1. LinksOf(h)' = LinksOf(h) \ {<<n1, n2>>} /\ <<n1, n2>> \in LinksOf(h)
        BY <1>4, <3>1 DEF DetachLink, LinksOf, TypeOK
      <4>2. Cardinality(LinksOf(h)') = Cardinality(LinksOf(h)) - 1
        BY <4>1, LinksOfFinite, FS_RemoveElement
      <4> QED BY <1>4, <3>1, <4>2 DEF DetachLink, CountersExact, TypeOK
    <3>2. CASE h # dgraph[n1]
      <4>1. LinksOf(h)' = LinksOf(h)
        BY <1>4, <3>2 DEF DetachLink, LinksOf, TypeOK
      <4> QED BY <1>4, <3>2, <4>1 DEF DetachLink, CountersExact, TypeOK
    <3> QED BY <3>1, <3>2
  <2> QED BY <2>2, <2>3 DEF CountersExact
<1>5. ASSUME NEW n \in Node, DetachNode(n)
      PROVE  CountersExact'
  <2>1. ASSUME NEW k \in Node
        PROVE  /\ len_out'[k] = Cardinality(root_out'[k])
               /\ len_in'[k] = Cardinality(root_in'[k])
    <3>1. len_out[k] = Cardinality(root_out[k]) /\ len_in[k] = Cardinality(root_in[k])
      BY DEF CountersExact
    <3>2. CASE k = n
      <4>1. root_out'[k] = {} /\ root_in'[k] = {} /\ len_out'[k] = 0 /\ len_in'[k] = 0
        BY <1>0, <1>5, <3>1, <3>2 DEF DetachNode
      <4> QED BY <4>1, FS_EmptySet
    <3>3. CASE k # n
      <4>1. /\ Cardinality(root_out[k] \ {n}) = IF n \in root_out[k] THEN Cardinality(root_out[k]) - 1
                                                ELSE Cardinality(root_out[k])
            /\ Cardinality(root_in[k] \ {n}) = IF n \in root_in[k] THEN Cardinality(root_in[k]) - 1
                                               ELSE Cardinality(root_in[k])
        BY <1>0, FS_RemoveElement
      <4>2. (n \in root_out[k] <=> k \in root_in[n]) /\ (k \in root_out[n] <=> n \in root_in[k])
        BY DEF LinksAgree
      <4> QED BY <1>5, <3>1, <3>3, <4>1, <4>2 DEF DetachNode
    <3> QED BY <3>2, <3>3
  <2>2. ASSUME NEW h \in Graph
        PROVE  link_cnt'[h] = Cardinality(LinksOf(h)')
    <3> DEFINE Out == {n} \X root_out[n]
               In == (root_in[n] \ {n}) \X {n}
    <3>1. CASE h = dgraph[n]
      <4>1. Out \subseteq LinksOf(h) /\ In \subseteq LinksOf(h) /\ Out \cap In = {}
        BY <3>1 DEF LinksOf, LinksAgree, TypeOK
      <4>2. LinksOf(h)' = LinksOf(h) \ (Out \cup In)
        BY <1>5, <3>1 DEF DetachNode, Leave, LinksOf, LinksAgree, TypeOK
      <4>3. /\ IsFiniteSet(Out) /\ Cardinality(Out) = Cardinality(root_out[n])
            /\ IsFiniteSet(In) /\ Cardinality(In) = Cardinality(root_in[n] \ {n})
            /\ Cardinality(root_in[n] \ {n}) \in Int
        BY Fan, LinksFinite DEF TypeOK
      <4> HIDE DEF Out, In
      <4>4. Cardinality(Out \cup In) = LinksAt(n)
        BY <4>1, <4>3, SizeOfDisjoint DEF LinksAt
      <4>5. Cardinality(LinksOf(h)') = Cardinality(LinksOf(h)) - Cardinality(Out \cup In)
        BY <4>1, <4>2, LinksOfFinite, SizeOfRest
      <4>6. Cardinality(LinksOf(h)') = Cardinality(LinksOf(h)) - LinksAt(n)
        BY <4>4, <4>5
      <4> QED BY <1>5, <3>1, <4>6 DEF DetachNode, CountersExact, TypeOK
    <3>2. CASE h # dgraph[n]
      <4>1. LinksOf(h)' = LinksOf(h)
        BY <1>5, <3>2 DEF DetachNode, Leave, LinksOf, LinksAgree, TypeOK
      <4> QED BY <1>5, <3>2, <4>1 DEF DetachNode, CountersExact, TypeOK
    <3> QED BY <3>1, <3>2
  <2> QED BY <2>1, <2>2 DEF CountersExact
<1>6. CASE UNCHANGED vars
  BY <1>6 DEF vars, CountersExact, LinksOf
<1> QED BY <1>1, <1>2, <1>3, <1>4, <1>5, <1>6 DEF Next, Link, LinkAcyclic

\* The tree of nodes of a graph, its counter and its table of names agree with what
\* the nodes say: trp_dgraph_get_node finds a node by its name and by no other.
THEOREM MembersKept == Spec => []MembersAgree
<1>1. TypeOK /\ NodesAgree /\ NamesAgree /\ [Next]_vars
      => (TypeOK /\ NodesAgree /\ NamesAgree)'
  BY TypeNext, NodesNext, NamesNext
<1>2. NodesAgree /\ NamesAgree => MembersAgree
  BY DEF NodesAgree, NamesAgree, MembersAgree
<1> QED BY TypeInit, NodesInit, NamesInit, <1>1, <1>2, PTL DEF Spec

\* The counters of links, a node's and a graph's, are exact.
THEOREM LinksCounted == Spec => []CountersExact
<1>1. TypeOK /\ LinksAgree /\ CountersExact /\ [Next]_vars
      => (TypeOK /\ LinksAgree /\ CountersExact)'
  BY TypeNext, LinksNext, CountersNext
<1> QED BY TypeInit, LinksInit, CountersInit, <1>1, PTL DEF Spec

\* Links, members, names and counters stay in step, for any graphs and nodes.
THEOREM GraphKept == Spec => []GraphConsistent
<1>1. LinksAgree /\ MembersAgree /\ CountersExact => GraphConsistent
  BY DEF GraphConsistent
<1> QED BY BothEndsKept, MembersKept, LinksCounted, <1>1, PTL

-----------------------------------------------------------------------------
(* Cycles. *)

\* OnCycle in the terms of this module.
LEMMA OnCycleIsCyclic ==
  ASSUME NEW n \in Node
  PROVE  /\ OnCycle(n) <=> Cyclic(root_out, n)
         /\ OnCycle(n)' <=> Cyclic(root_out', n)
<1>1. OnCycle(n) <=> Cyclic(root_out, n)
  BY DEF OnCycle, CanReach, Closed, Cyclic, Reaches, ClosedUnder
<1>2. OnCycle(n)' <=> Cyclic(root_out', n)
  BY DEF OnCycle, CanReach, Closed, Cyclic, Reaches, ClosedUnder
<1> QED BY <1>1, <1>2

\* A step other than a link that link_acyclic would refuse.
LEMMA NoNewCycleStep ==
  ASSUME TypeOK, TypeOK', [Next]_vars,
         \A n1, n2 \in Node : Link(n1, n2) => LinkAcyclic(n1, n2),
         NEW n \in Node, OnCycle(n)'
  PROVE  OnCycle(n)
<1>0. root_out \in Links /\ root_out' \in Links /\ Cyclic(root_out', n)
  BY OnCycleIsCyclic DEF TypeOK, Links
<1> SUFFICES Cyclic(root_out, n)
  BY OnCycleIsCyclic
<1>1. ASSUME NEW n1 \in Node, NEW n2 \in Node, LinkAcyclic(n1, n2)
      PROVE  Cyclic(root_out, n)
  <2>1. ~Reaches(root_out, n2, n1)
    BY <1>1 DEF LinkAcyclic, CanReach, Closed, Reaches, ClosedUnder
  <2>2. \A k \in Node : root_out'[k] = IF k = n1 THEN root_out[k] \cup {n2} ELSE root_out[k]
    <3>1. root_out' = [root_out EXCEPT ![n1] = @ \cup {n2}]
      BY <1>1 DEF LinkAcyclic, LinkLow
    <3> QED BY <1>0, <3>1 DEF Links
  <2> QED BY <1>0, <2>1, <2>2, OneMoreLink, Zenon
<1>2. CASE \A k \in Node : root_out'[k] \subseteq root_out[k]
  BY <1>0, <1>2, FewerLinks
<1>3. ASSUME NEW g \in Graph, NEW k \in Node, NEW x \in Name \cup {Null}, MakeNode(g, k, x)
      PROVE  Cyclic(root_out, n)
  BY <1>2, <1>3 DEF MakeNode, TypeOK
<1>4. ASSUME NEW k \in Node, NEW x \in Name \cup {Null}, SetName(k, x)
      PROVE  Cyclic(root_out, n)
  BY <1>2, <1>4 DEF SetName
<1>5. ASSUME NEW n1 \in Node, NEW n2 \in Node, DetachLink(n1, n2)
      PROVE  Cyclic(root_out, n)
  BY <1>2, <1>5 DEF DetachLink, TypeOK
<1>6. ASSUME NEW k \in Node, DetachNode(k)
      PROVE  Cyclic(root_out, n)
  BY <1>2, <1>6 DEF DetachNode, TypeOK
<1>7. CASE UNCHANGED vars
  BY <1>2, <1>7 DEF vars
<1> QED BY <1>1, <1>3, <1>4, <1>5, <1>6, <1>7 DEF Next

\* The comment at trp_t_dgraph.c:552, for graphs of any size and any history: a
\* link that link_acyclic makes closes no cycle, and neither does any other step
\* but a dgraph-link that it would have refused.
THEOREM NoCycleMade == Spec => NoNewCycle
<1>1. TypeOK /\ [Next]_vars => TypeOK'
  BY TypeNext
<1>2. TypeOK /\ TypeOK' /\ [Next]_vars =>
      [(\A n1, n2 \in Node : Link(n1, n2) => LinkAcyclic(n1, n2))
         => \A n \in Node : OnCycle(n)' => OnCycle(n)]_vars
  BY NoNewCycleStep
<1> QED BY TypeInit, <1>1, <1>2, PTL DEF Spec, NoNewCycle

-----------------------------------------------------------------------------
(* The searches.  Each is the CHOOSE of a function that fits the equation   *)
(* of its recursion.  That one does is shown by the size of what is left    *)
(* to do: first the nodes not visited, then the rest of the loop.           *)

\* A set of numbers has a least element: < is well-founded on Nat.
LEMMA LeastNumber ==
  ASSUME NEW I \in SUBSET Nat, I # {}
  PROVE  \E k \in I : \A j \in I : ~ j < k
<1> DEFINE Lt == OpToRel(<, Nat)
<1>1. IsWellFoundedOn(Lt, Nat)
  BY NatLessThanWellFounded
<1>2. ASSUME NEW j \in Nat, NEW k \in Nat, j < k
      PROVE  <<j, k>> \in Lt
  <2>1. <<j, k>> \in Nat \X Nat
    OBVIOUS
  <2>2. <<j, k>>[1] < <<j, k>>[2]
    BY <1>2
  <2> QED
    BY <2>1, <2>2, Zenon DEF OpToRel
<1> HIDE DEF Lt
<1>3. \E k \in I : \A j \in I : ~ (<<j, k>> \in Lt)
  BY <1>1, WFMin
<1> QED BY <1>2, <1>3

LEMMA FirstIn ==
  ASSUME NEW S \in SUBSET Node, S # {}
  PROVE  First(S) \in S
<1>1. S \in SUBSET Nat
  BY AddressAssumption
<1>2. PICK k \in S : \A j \in S : ~ j < k
  BY <1>1, LeastNumber
<1>3. \A j \in S : k <= j
  BY <1>1, <1>2
<1> QED BY <1>3 DEF First

LEMMA NodesFinite ==
  ASSUME NEW S \in SUBSET Node
  PROVE  IsFiniteSet(S) /\ Cardinality(S) \in Nat /\ Cardinality(S) <= Cardinality(Node)
<1>1. IsFiniteSet(S) /\ Cardinality(S) <= Cardinality(Node)
  BY NodeAssumption, FS_Subset
<1> QED BY <1>1, FS_CardinalityType

LEMMA Smaller ==
  ASSUME NEW S \in SUBSET Node, NEW T \in SUBSET S, NEW x \in S, x \notin T
  PROVE  Cardinality(T) < Cardinality(S)
<1>1. /\ IsFiniteSet(S) /\ Cardinality(S) \in Nat
      /\ Cardinality(T) \in Nat
  BY NodesFinite
<1>2. Cardinality(T) <= Cardinality(S) /\ (Cardinality(S) = Cardinality(T) => S = T)
  BY <1>1, FS_Subset
<1> QED BY <1>1, <1>2

\* What is left of a loop over todo when the nodes of seen have been visited.
Left(todo, seen) ==
  Cardinality(Node \ seen) * (Cardinality(Node) + 1) + Cardinality(todo)

Weigh(a, w, x) == a * w + x

LEMMA WeighLess ==
  ASSUME NEW a \in Nat, NEW b \in Nat, NEW w \in Nat, NEW x \in Nat, NEW y \in Nat
  PROVE  /\ Weigh(a, w, x) \in Nat
         /\ a < b /\ x < w => Weigh(a, w, x) < Weigh(b, w, y)
         /\ a <= b /\ x < y => Weigh(a, w, x) < Weigh(b, w, y)
<1>1. a * w \in Nat /\ b * w \in Nat
  OBVIOUS
<1>2. a <= b => a * w <= b * w
  <2> SUFFICES ASSUME a <= b
               PROVE  a * w <= b * w
    OBVIOUS
  <2>1. PICK d \in Nat : b = a + d
    <3>1. b - a \in Nat /\ b = a + (b - a)
      OBVIOUS
    <3> QED BY <3>1
  <2>2. b * w = a * w + d * w /\ d * w \in Nat
    BY <2>1
  <2> QED BY <1>1, <2>2
<1>3. a < b => a * w + w <= b * w
  <2> SUFFICES ASSUME a < b
               PROVE  a * w + w <= b * w
    OBVIOUS
  <2>1. PICK d \in Nat : b = a + 1 + d
    <3>1. b - (a + 1) \in Nat /\ b = a + 1 + (b - (a + 1))
      OBVIOUS
    <3> QED BY <3>1
  <2>2. b * w = a * w + w + d * w /\ d * w \in Nat
    BY <2>1
  <2> QED BY <1>1, <2>2
<1> QED BY <1>1, <1>2, <1>3 DEF Weigh

LEMMA LeftType ==
  ASSUME NEW todo \in SUBSET Node, NEW seen \in SUBSET Node
  PROVE  Left(todo, seen) \in Nat
<1>1. Cardinality(Node \ seen) \in Nat /\ Cardinality(Node) + 1 \in Nat /\ Cardinality(todo) \in Nat
  BY NodesFinite
<1> QED BY <1>1, WeighLess DEF Left, Weigh

LEMMA LeftInLoop ==
  ASSUME NEW todo \in SUBSET Node, NEW seen \in SUBSET Node, NEW m \in todo,
         NEW later \in SUBSET Node, seen \subseteq later
  PROVE  Left(todo \ {m}, later) < Left(todo, seen)
<1>1. /\ Cardinality(Node \ seen) \in Nat /\ Cardinality(Node \ later) \in Nat
      /\ Cardinality(Node) + 1 \in Nat
      /\ Cardinality(todo) \in Nat /\ Cardinality(todo \ {m}) \in Nat
  BY NodesFinite
<1>2. Cardinality(todo \ {m}) < Cardinality(todo)
  BY Smaller
<1>3. Cardinality(Node \ later) <= Cardinality(Node \ seen)
  <2>1. Node \ later \in SUBSET (Node \ seen) /\ IsFiniteSet(Node \ seen)
    BY NodesFinite
  <2> QED BY <2>1, FS_Subset
<1> QED BY <1>1, <1>2, <1>3, WeighLess DEF Left, Weigh

LEMMA LeftInVisit ==
  ASSUME NEW todo \in SUBSET Node, NEW seen \in SUBSET Node, NEW m \in Node, m \notin seen,
         NEW ways \in SUBSET Node
  PROVE  Left(ways, seen \cup {m}) < Left(todo, seen)
<1>1. /\ Cardinality(Node \ seen) \in Nat /\ Cardinality(Node \ (seen \cup {m})) \in Nat
      /\ Cardinality(Node) + 1 \in Nat /\ Cardinality(ways) < Cardinality(Node) + 1
      /\ Cardinality(todo) \in Nat /\ Cardinality(ways) \in Nat
  <2>1. /\ Cardinality(Node) \in Nat /\ Cardinality(ways) \in Nat
        /\ Cardinality(ways) <= Cardinality(Node)
    BY NodesFinite
  <2> QED BY <2>1, NodesFinite
<1>2. Cardinality(Node \ (seen \cup {m})) < Cardinality(Node \ seen)
  <2>1. /\ Node \ seen \in SUBSET Node /\ Node \ (seen \cup {m}) \in SUBSET (Node \ seen)
        /\ m \in Node \ seen /\ m \notin Node \ (seen \cup {m})
    OBVIOUS
  <2> QED BY <2>1, Smaller
<1> QED BY <1>1, <1>2, WeighLess DEF Left, Weigh

\* Among loops for which something does not hold, one has the least left to do.
LEMMA LeastLoop ==
  ASSUME NEW B \in SUBSET ((SUBSET Node) \X (SUBSET Node)), B # {}
  PROVE  \E todo, seen \in SUBSET Node :
           /\ <<todo, seen>> \in B
           /\ \A t, s \in SUBSET Node : Left(t, s) < Left(todo, seen) => <<t, s>> \notin B
<1> DEFINE I == {Left(b[1], b[2]) : b \in B}
<1>1. I \in SUBSET Nat /\ I # {}
  BY LeftType
<1>2. PICK k \in I : \A j \in I : ~ j < k
  BY <1>1, LeastNumber
<1>3. PICK b \in B : k = Left(b[1], b[2])
  OBVIOUS
<1>4. b[1] \in SUBSET Node /\ b[2] \in SUBSET Node /\ <<b[1], b[2]>> = b
  OBVIOUS
<1>5. \A t, s \in SUBSET Node : <<t, s>> \in B => Left(t, s) \in I
  <2> SUFFICES ASSUME NEW t \in SUBSET Node, NEW s \in SUBSET Node, <<t, s>> \in B
               PROVE  Left(t, s) \in I
    OBVIOUS
  <2>1. <<t, s>>[1] = t /\ <<t, s>>[2] = s
    OBVIOUS
  <2> QED BY <2>1
<1> QED BY <1>2, <1>3, <1>4, <1>5

-----------------------------------------------------------------------------
(* The search that visits.  Its equation, the answers it may give, and a    *)
(* function that fits the equation wherever less than k is left to do.      *)

SearchAnswer == [found : BOOLEAN, seen : SUBSET Node, queue : Seq(Node)]

SearchTables == [SUBSET Node -> [SUBSET Node -> SearchAnswer]]

SearchRound(ways, n2, visit, todo, seen) ==
  LET m == First(todo)
      rest == todo \ {m}
  IN  IF todo = {} THEN [found |-> FALSE, seen |-> seen, queue |-> <<>>]
      ELSE IF m = n2 THEN [found |-> TRUE, seen |-> seen, queue |-> <<>>]
      ELSE IF m \in seen THEN visit[rest][seen]
      ELSE LET a == visit[ways[m]][seen \cup {m}]
               b == visit[rest][a.seen]
           IN  IF a.found THEN a
               ELSE [b EXCEPT !.queue = <<m>> \o a.queue \o b.queue]

SearchRounds(ways, n2, visit) ==
  [todo \in SUBSET Node |-> [seen \in SUBSET Node |-> SearchRound(ways, n2, visit, todo, seen)]]

SearchGood(ways, n2, visit, k) ==
  /\ visit \in SearchTables
  /\ \A todo, seen \in SUBSET Node :
       Left(todo, seen) < k =>
         /\ visit[todo][seen] = SearchRound(ways, n2, visit, todo, seen)
         /\ seen \subseteq visit[todo][seen].seen

LEMMA SearchTableType ==
  ASSUME NEW visit \in SearchTables, NEW todo \in SUBSET Node, NEW seen \in SUBSET Node
  PROVE  /\ visit[todo][seen] \in SearchAnswer
         /\ visit[todo][seen].found \in BOOLEAN
         /\ visit[todo][seen].seen \in SUBSET Node
         /\ visit[todo][seen].queue \in Seq(Node)
<1>1. visit[todo] \in [SUBSET Node -> SearchAnswer]
  BY DEF SearchTables
<1>2. visit[todo][seen] \in SearchAnswer
  BY <1>1
<1> QED BY <1>2 DEF SearchAnswer

LEMMA JoinedQueue ==
  ASSUME NEW m \in Node, NEW p \in Seq(Node), NEW q \in Seq(Node)
  PROVE  /\ <<m>> \o p \o q \in Seq(Node)
         /\ Len(<<m>> \o p \o q) = 1 + Len(p) + Len(q)
         /\ ToSet(<<m>> \o p \o q) = {m} \cup ToSet(p) \cup ToSet(q)
<1>1. ASSUME NEW s \in Seq(Node), NEW t \in Seq(Node)
      PROVE  /\ s \o t \in Seq(Node) /\ Len(s \o t) = Len(s) + Len(t)
             /\ ToSet(s \o t) = ToSet(s) \cup ToSet(t)
  <2>1. /\ s \o t \in Seq(Node) /\ Len(s \o t) = Len(s) + Len(t)
        /\ \A i \in 1 .. Len(s) + Len(t) :
             (s \o t)[i] = IF i <= Len(s) THEN s[i] ELSE t[i - Len(s)]
    BY ConcatProperties
  <2>2. /\ Len(s) \in Nat /\ DOMAIN s = 1 .. Len(s)
        /\ Len(t) \in Nat /\ DOMAIN t = 1 .. Len(t)
        /\ DOMAIN (s \o t) = 1 .. Len(s) + Len(t)
    BY <2>1, LenProperties
  <2> DEFINE u == s \o t
  <2> HIDE DEF u
  <2>3. \A x \in ToSet(u) : x \in ToSet(s) \cup ToSet(t)
    <3> SUFFICES ASSUME NEW i \in DOMAIN u
                 PROVE  u[i] \in ToSet(s) \cup ToSet(t)
      BY DEF ToSet
    <3>1. CASE i <= Len(s)
      BY <2>1, <2>2, <3>1 DEF ToSet, u
    <3>2. CASE i > Len(s)
      <4>1. i - Len(s) \in 1 .. Len(t)
        BY <2>2, <3>2 DEF u
      <4>2. u[i] = t[i - Len(s)]
        BY <2>1, <2>2, <3>2 DEF u
      <4> QED BY <2>2, <4>1, <4>2 DEF ToSet
    <3>3. i \in Nat
      BY <2>2 DEF u
    <3> QED BY <2>2, <3>1, <3>2, <3>3
  <2>4. \A x \in ToSet(s) : x \in ToSet(u)
    <3> SUFFICES ASSUME NEW i \in DOMAIN s
                 PROVE  s[i] \in ToSet(u)
      BY DEF ToSet
    <3>1. i \in DOMAIN u /\ u[i] = s[i]
      BY <2>1, <2>2 DEF u
    <3> QED BY <3>1 DEF ToSet
  <2>5. \A x \in ToSet(t) : x \in ToSet(u)
    <3> SUFFICES ASSUME NEW i \in DOMAIN t
                 PROVE  t[i] \in ToSet(u)
      BY DEF ToSet
    <3>1. i + Len(s) \in DOMAIN u /\ i + Len(s) - Len(s) = i /\ ~ (i + Len(s) <= Len(s))
      BY <2>2 DEF u
    <3>2. u[i + Len(s)] = t[i]
      BY <2>1, <2>2, <3>1 DEF u
    <3> QED BY <3>1, <3>2 DEF ToSet
  <2> QED BY <2>1, <2>3, <2>4, <2>5 DEF u
<1>2. <<m>> \in Seq(Node) /\ Len(<<m>>) = 1 /\ ToSet(<<m>>) = {m}
  BY DEF ToSet
<1>3. /\ <<m>> \o p \in Seq(Node) /\ Len(<<m>> \o p) = 1 + Len(p)
      /\ ToSet(<<m>> \o p) = {m} \cup ToSet(p)
  BY <1>1, <1>2
<1> DEFINE r == <<m>> \o p
<1> HIDE DEF r
<1>4. /\ r \o q \in Seq(Node) /\ Len(r \o q) = Len(r) + Len(q)
      /\ ToSet(r \o q) = ToSet(r) \cup ToSet(q)
  BY <1>1, <1>3 DEF r
<1> QED BY <1>3, <1>4 DEF r

\* One more round reaches one further.
LEMMA SearchGoodNext ==
  ASSUME NEW ways \in Links, NEW n2, NEW k \in Nat, NEW visit, SearchGood(ways, n2, visit, k)
  PROVE  SearchGood(ways, n2, SearchRounds(ways, n2, visit), k + 1)
<1> DEFINE next == SearchRounds(ways, n2, visit)
<1>0. visit \in SearchTables
  BY DEF SearchGood
<1>1. ASSUME NEW todo \in SUBSET Node, NEW seen \in SUBSET Node
      PROVE  /\ next[todo][seen] = SearchRound(ways, n2, visit, todo, seen)
             /\ next[todo][seen] \in SearchAnswer
             /\ Left(todo, seen) < k + 1 =>
                  /\ next[todo][seen] = SearchRound(ways, n2, next, todo, seen)
                  /\ seen \subseteq next[todo][seen].seen
  <2> DEFINE m == First(todo)
             rest == todo \ {m}
             a == visit[ways[m]][seen \cup {m}]
             b == visit[rest][a.seen]
             c == [b EXCEPT !.queue = <<m>> \o a.queue \o b.queue]
  <2>1. next[todo][seen] = SearchRound(ways, n2, visit, todo, seen)
    <3>1. next[todo] = [s \in SUBSET Node |-> SearchRound(ways, n2, visit, todo, s)]
      BY Zenon DEF SearchRounds
    <3> QED BY <3>1, Zenon
  <2> HIDE DEF next
  <2>2. CASE todo = {}
    <3>1. next[todo][seen] = [found |-> FALSE, seen |-> seen, queue |-> <<>>]
          /\ SearchRound(ways, n2, next, todo, seen) = [found |-> FALSE, seen |-> seen, queue |-> <<>>]
      BY <2>1, <2>2 DEF SearchRound
    <3> QED BY <2>1, <3>1 DEF SearchAnswer
  <2>3. CASE todo # {} /\ m = n2
    <3>1. next[todo][seen] = [found |-> TRUE, seen |-> seen, queue |-> <<>>]
          /\ SearchRound(ways, n2, next, todo, seen) = [found |-> TRUE, seen |-> seen, queue |-> <<>>]
      BY <2>1, <2>3 DEF SearchRound
    <3> QED BY <2>1, <3>1 DEF SearchAnswer
  <2>4. CASE todo # {} /\ m # n2
    <3>1. m \in todo /\ rest \in SUBSET Node /\ m \in Node
      BY <2>4, FirstIn
    <3>2. ASSUME NEW t \in SUBSET Node, NEW s \in SUBSET Node, Left(t, s) < Left(todo, seen),
                 Left(todo, seen) < k + 1
          PROVE  next[t][s] = visit[t][s] /\ s \subseteq visit[t][s].seen
      <4>1. Left(t, s) < k
        <5>1. Left(t, s) \in Nat /\ Left(todo, seen) \in Nat
          BY LeftType
        <5> QED BY <3>2, <5>1
      <4>2. next[t][s] = SearchRound(ways, n2, visit, t, s)
        <5>1. SearchRounds(ways, n2, visit)[t]
                = [x \in SUBSET Node |-> SearchRound(ways, n2, visit, t, x)]
          BY Zenon DEF SearchRounds
        <5> QED BY <5>1, Zenon DEF next
      <4> QED BY <4>1, <4>2 DEF SearchGood
    <3> HIDE DEF m
    <3>3. CASE m \in seen
      <4>1. /\ SearchRound(ways, n2, visit, todo, seen) = visit[rest][seen]
            /\ SearchRound(ways, n2, next, todo, seen) = next[rest][seen]
        BY <2>4, <3>3, Zenon DEF SearchRound, m
      <4>2. Left(rest, seen) < Left(todo, seen)
        BY <3>1, LeftInLoop
      <4>3. visit[rest][seen] \in SearchAnswer
        BY <1>0, <3>1, SearchTableType
      <4> QED BY <2>1, <3>1, <3>2, <4>1, <4>2, <4>3
    <3>4. CASE m \notin seen
      <4>1. ways[m] \in SUBSET Node /\ seen \cup {m} \in SUBSET Node
        BY <3>1 DEF Links
      <4>2. a \in SearchAnswer /\ a.found \in BOOLEAN /\ a.seen \in SUBSET Node /\ a.queue \in Seq(Node)
        BY <1>0, <4>1, SearchTableType
      <4>3. b \in SearchAnswer /\ b.seen \in SUBSET Node /\ b.queue \in Seq(Node)
        BY <1>0, <3>1, <4>2, SearchTableType
      <4>4. c \in SearchAnswer /\ c.seen = b.seen
        <5>1. <<m>> \o a.queue \o b.queue \in Seq(Node)
          BY <3>1, <4>2, <4>3, JoinedQueue
        <5> HIDE DEF a, b
        <5> QED BY <4>3, <5>1 DEF SearchAnswer
      <4>5. SearchRound(ways, n2, visit, todo, seen) = IF a.found THEN a ELSE c
        BY <2>4, <3>4, Zenon DEF SearchRound, m
      <4>6. ASSUME Left(todo, seen) < k + 1
            PROVE  /\ SearchRound(ways, n2, next, todo, seen) = IF a.found THEN a ELSE c
                   /\ seen \subseteq a.seen /\ a.seen \subseteq b.seen
        <5>1. next[ways[m]][seen \cup {m}] = a /\ seen \cup {m} \subseteq a.seen
          BY <3>1, <3>2, <3>4, <4>1, <4>6, LeftInVisit
        <5>2. Left(rest, a.seen) < Left(todo, seen)
          <6> HIDE DEF a
          <6> QED BY <3>1, <4>2, <5>1, LeftInLoop
        <5>3. next[rest][a.seen] = b /\ a.seen \subseteq b.seen
          BY <3>1, <3>2, <4>2, <4>6, <5>2
        <5>4. SearchRound(ways, n2, next, todo, seen)
                = LET aa == next[ways[m]][seen \cup {m}]
                      bb == next[rest][aa.seen]
                  IN  IF aa.found THEN aa
                      ELSE [bb EXCEPT !.queue = <<m>> \o aa.queue \o bb.queue]
          BY <2>4, <3>4, Zenon DEF SearchRound, m
        <5> QED BY <5>1, <5>3, <5>4, Zenon
      <4> HIDE DEF a, b, c
      <4> QED BY <2>1, <4>2, <4>4, <4>5, <4>6
    <3> QED BY <3>3, <3>4
  <2> QED BY <2>2, <2>3, <2>4
<1>2. next \in SearchTables
  <2>1. next = [todo \in SUBSET Node |-> [seen \in SUBSET Node |-> next[todo][seen]]]
    BY <1>1, Zenon DEF SearchRounds
  <2> HIDE DEF next
  <2> QED BY <1>1, <2>1, Zenon DEF SearchTables
<1> HIDE DEF next
<1> QED BY <1>1, <1>2 DEF SearchGood, next

LEMMA SearchGoodEvery ==
  ASSUME NEW ways \in Links, NEW n2, NEW k \in Nat
  PROVE  \E visit : SearchGood(ways, n2, visit, k)
<1> DEFINE I == {j \in Nat : ~ \E visit : SearchGood(ways, n2, visit, j)}
<1>1. SUFFICES ASSUME I # {}
               PROVE  FALSE
  OBVIOUS
<1>2. PICK j \in I : \A i \in I : ~ i < j
  BY <1>1, LeastNumber
<1>3. CASE j = 0
  <2> DEFINE none == [found |-> FALSE, seen |-> {}, queue |-> <<>>]
             empty == [todo \in SUBSET Node |-> [seen \in SUBSET Node |-> none]]
  <2>1. none \in SearchAnswer
    BY DEF SearchAnswer
  <2>2. empty \in SearchTables
    <3> HIDE DEF none
    <3> QED BY <2>1 DEF SearchTables
  <2> HIDE DEF empty
  <2>3. \A todo, seen \in SUBSET Node : ~ Left(todo, seen) < 0
    BY LeftType
  <2>4. SearchGood(ways, n2, empty, 0)
    BY <2>2, <2>3 DEF SearchGood
  <2> QED BY <1>2, <1>3, <2>4
<1>4. CASE j # 0
  <2>1. j - 1 \in Nat /\ j - 1 < j /\ j - 1 + 1 = j
    BY <1>4
  <2>2. PICK visit : SearchGood(ways, n2, visit, j - 1)
    BY <1>2, <2>1
  <2> DEFINE i == j - 1
  <2> HIDE DEF i
  <2>3. i \in Nat /\ SearchGood(ways, n2, visit, i) /\ i + 1 = j
    BY <2>1, <2>2 DEF i
  <2>4. SearchGood(ways, n2, SearchRounds(ways, n2, visit), i + 1)
    BY <2>3, SearchGoodNext
  <2> QED BY <1>2, <2>3, <2>4
<1> QED BY <1>3, <1>4

Most == Weigh(Cardinality(Node), Cardinality(Node) + 1, Cardinality(Node)) + 1

LEMMA LeftBounded ==
  /\ Most \in Nat
  /\ \A todo, seen \in SUBSET Node : Left(todo, seen) < Most
<1> DEFINE N == Cardinality(Node)
<1>1. N \in Nat
  BY NodesFinite
<1>2. Most \in Nat
  <2>1. Weigh(N, N + 1, N) \in Nat
    <3> HIDE DEF N
    <3>1. N + 1 \in Nat
      BY <1>1
    <3> QED BY <1>1, <3>1, WeighLess
  <2> QED BY <2>1 DEF Most
<1>3. ASSUME NEW todo \in SUBSET Node, NEW seen \in SUBSET Node
      PROVE  Left(todo, seen) < Most
  <2> DEFINE u == Cardinality(Node \ seen)
             t == Cardinality(todo)
  <2>1. u \in Nat /\ u <= N /\ t \in Nat /\ t <= N
    BY NodesFinite
  <2>2. Left(todo, seen) = Weigh(u, N + 1, t) /\ Most = Weigh(N, N + 1, N) + 1
    BY DEF Left, Weigh, Most
  <2> HIDE DEF u, t, N
  <2>3. N + 1 \in Nat
    BY <1>1
  <2>4. u <= N /\ t < N + 1 => Weigh(u, N + 1, t) < Weigh(N, N + 1, N + 1)
    BY <1>1, <2>1, <2>3, WeighLess
  <2>5. Weigh(N, N + 1, N + 1) = Weigh(N, N + 1, N) + 1
    BY <1>1 DEF Weigh
  <2> QED BY <1>1, <2>1, <2>2, <2>4, <2>5
<1> QED BY <1>2, <1>3

\* The recursion of a search is well-founded: its equation has a solution.
LEMMA SearchFits ==
  ASSUME NEW ways \in Links, NEW n2
  PROVE  \E visit : visit = SearchRounds(ways, n2, visit)
<1>1. PICK visit : SearchGood(ways, n2, visit, Most)
  BY LeftBounded, SearchGoodEvery
<1>2. visit \in SearchTables
      /\ \A todo, seen \in SUBSET Node :
           visit[todo][seen] = SearchRound(ways, n2, visit, todo, seen)
  BY <1>1, LeftBounded DEF SearchGood
<1>3. visit = [todo \in SUBSET Node |-> [seen \in SUBSET Node |-> visit[todo][seen]]]
  BY <1>2 DEF SearchTables
<1>4. visit = SearchRounds(ways, n2, visit)
  BY <1>2, <1>3, Zenon DEF SearchRounds
<1> QED BY <1>4

\* What an answer says of a loop over todo after the visits to seen.
SearchSays(ways, n2, todo, seen, s) ==
  /\ s \in SearchAnswer
  /\ seen \subseteq s.seen
  /\ \A S \in SUBSET Node :
       todo \subseteq S /\ ClosedUnder(ways, S) =>
         s.seen \subseteq seen \cup S /\ (s.found => n2 \in S)
  /\ ~ s.found =>
       /\ todo \subseteq s.seen /\ n2 \notin todo
       /\ \A x \in s.seen \ seen : ways[x] \subseteq s.seen /\ n2 \notin ways[x]
       /\ ToSet(s.queue) = s.seen \ seen
       /\ Len(s.queue) = Cardinality(s.seen \ seen)

LEMMA SearchSaysRight ==
  ASSUME NEW ways \in Links, NEW n2, NEW visit, visit = SearchRounds(ways, n2, visit),
         NEW todo \in SUBSET Node, NEW seen \in SUBSET Node
  PROVE  SearchSays(ways, n2, todo, seen, visit[todo][seen])
<1>0. \A t, s \in SUBSET Node : visit[t][s] = SearchRound(ways, n2, visit, t, s)
  <2> SUFFICES ASSUME NEW t \in SUBSET Node, NEW s \in SUBSET Node
               PROVE  visit[t][s] = SearchRound(ways, n2, visit, t, s)
    OBVIOUS
  <2>1. SearchRounds(ways, n2, visit)[t]
          = [x \in SUBSET Node |-> SearchRound(ways, n2, visit, t, x)]
    BY Zenon DEF SearchRounds
  <2> QED BY <2>1, Zenon
<1> DEFINE B == {b \in (SUBSET Node) \X (SUBSET Node) :
                   ~ SearchSays(ways, n2, b[1], b[2], visit[b[1]][b[2]])}
<1>1. SUFFICES ASSUME B # {}
               PROVE  FALSE
  <2>1. <<todo, seen>> \notin B
    BY <1>1
  <2> QED BY <2>1
<1>2. PICK t \in SUBSET Node, s \in SUBSET Node :
        /\ <<t, s>> \in B
        /\ \A t2, s2 \in SUBSET Node : Left(t2, s2) < Left(t, s) => <<t2, s2>> \notin B
  BY <1>1, LeastLoop
<1>3. \A t2, s2 \in SUBSET Node :
        Left(t2, s2) < Left(t, s) => SearchSays(ways, n2, t2, s2, visit[t2][s2])
  BY <1>2
<1>4. ~ SearchSays(ways, n2, t, s, visit[t][s])
  BY <1>2
<1> HIDE DEF B
<1> DEFINE m == First(t)
           rest == t \ {m}
           a == visit[ways[m]][s \cup {m}]
           b == visit[rest][a.seen]
           c == [b EXCEPT !.queue = <<m>> \o a.queue \o b.queue]
<1>5. CASE t = {}
  <2>1. visit[t][s] = [found |-> FALSE, seen |-> s, queue |-> <<>>]
    BY <1>0, <1>5 DEF SearchRound
  <2>2. Cardinality({}) = 0 /\ ToSet(<<>>) = {} /\ Len(<<>>) = 0 /\ <<>> \in Seq(Node)
    BY FS_EmptySet DEF ToSet
  <2> DEFINE none == [found |-> FALSE, seen |-> s, queue |-> <<>>]
  <2>3. none \in SearchAnswer /\ ~ none.found /\ none.seen = s /\ none.queue = <<>>
    BY <2>2 DEF SearchAnswer
  <2> HIDE DEF none
  <2>4. s \ s = {}
    OBVIOUS
  <2>5. SearchSays(ways, n2, t, s, none)
    BY <1>5, <2>2, <2>3, <2>4 DEF SearchSays
  <2> QED BY <1>4, <2>1, <2>5 DEF none
<1>6. CASE t # {}
  <2>1. m \in t /\ m \in Node /\ rest \in SUBSET Node /\ t = {m} \cup rest
    BY <1>6, FirstIn
  <2>2. CASE m = n2
    <3>1. visit[t][s] = [found |-> TRUE, seen |-> s, queue |-> <<>>]
      BY <1>0, <1>6, <2>2, Zenon DEF SearchRound
    <3> HIDE DEF m
    <3>2. [found |-> TRUE, seen |-> s, queue |-> <<>>] \in SearchAnswer
      BY DEF SearchAnswer
    <3> QED BY <1>4, <2>1, <2>2, <3>1, <3>2 DEF SearchSays
  <2>3. CASE m # n2 /\ m \in s
    <3>1. visit[t][s] = visit[rest][s]
      BY <1>0, <1>6, <2>3, Zenon DEF SearchRound
    <3>2. Left(rest, s) < Left(t, s)
      BY <2>1, LeftInLoop
    <3>3. SearchSays(ways, n2, rest, s, visit[rest][s])
      BY <1>3, <2>1, <3>2
    <3> HIDE DEF m
    <3> QED BY <1>4, <2>1, <2>3, <3>1, <3>3 DEF SearchSays
  <2>4. CASE m # n2 /\ m \notin s
    <3>1. visit[t][s] = IF a.found THEN a ELSE c
      BY <1>0, <1>6, <2>4, Zenon DEF SearchRound
    <3> HIDE DEF m
    <3>2. ways[m] \in SUBSET Node /\ s \cup {m} \in SUBSET Node
      BY <2>1 DEF Links
    <3>3. SearchSays(ways, n2, ways[m], s \cup {m}, a)
      BY <1>3, <2>1, <2>4, <3>2, LeftInVisit
    <3>4. /\ a \in SearchAnswer
          /\ a.found \in BOOLEAN /\ a.seen \in SUBSET Node /\ a.queue \in Seq(Node)
          /\ s \cup {m} \subseteq a.seen
      BY <3>3 DEF SearchSays, SearchAnswer
    <3> HIDE DEF a
    <3>5. CASE a.found
      <4>1. SearchSays(ways, n2, t, s, a)
        <5>1. ASSUME NEW S \in SUBSET Node, t \subseteq S, ClosedUnder(ways, S)
              PROVE  a.seen \subseteq s \cup S /\ n2 \in S
          <6>1. m \in S /\ ways[m] \subseteq S
            BY <2>1, <5>1 DEF ClosedUnder
          <6> QED BY <3>3, <3>5, <5>1, <6>1 DEF SearchSays
        <5> QED BY <3>4, <3>5, <5>1 DEF SearchSays
      <4> QED BY <1>4, <3>1, <3>5, <4>1
    <3>6. CASE ~ a.found
      <4>1. SearchSays(ways, n2, rest, a.seen, b)
        BY <1>3, <2>1, <3>4, LeftInLoop
      <4>2. /\ b \in SearchAnswer
            /\ b.found \in BOOLEAN /\ b.seen \in SUBSET Node /\ b.queue \in Seq(Node)
            /\ a.seen \subseteq b.seen
        BY <4>1 DEF SearchSays, SearchAnswer
      <4> HIDE DEF b
      <4>3. /\ <<m>> \o a.queue \o b.queue \in Seq(Node)
            /\ Len(<<m>> \o a.queue \o b.queue) = 1 + Len(a.queue) + Len(b.queue)
            /\ ToSet(<<m>> \o a.queue \o b.queue) = {m} \cup ToSet(a.queue) \cup ToSet(b.queue)
        BY <2>1, <3>4, <4>2, JoinedQueue
      <4> DEFINE q == <<m>> \o a.queue \o b.queue
      <4>4. c \in SearchAnswer /\ c.found = b.found /\ c.seen = b.seen /\ c.queue = q
        <5> HIDE DEF q
        <5>1. q \in Seq(Node) /\ c = [b EXCEPT !.queue = q]
          BY <4>3 DEF q
        <5> QED BY <4>2, <5>1 DEF SearchAnswer
      <4> HIDE DEF q, c
      <4>5. ASSUME NEW S \in SUBSET Node, t \subseteq S, ClosedUnder(ways, S)
            PROVE  b.seen \subseteq s \cup S /\ (b.found => n2 \in S)
        <5>1. m \in S /\ ways[m] \subseteq S /\ rest \subseteq S
          BY <2>1, <4>5 DEF ClosedUnder
        <5>2. a.seen \subseteq s \cup {m} \cup S
          BY <3>3, <4>5, <5>1 DEF SearchSays
        <5>3. b.seen \subseteq a.seen \cup S /\ (b.found => n2 \in S)
          BY <4>1, <4>5, <5>1 DEF SearchSays
        <5> QED BY <5>1, <5>2, <5>3
      <4>6. ASSUME ~ b.found
            PROVE  /\ t \subseteq b.seen /\ n2 \notin t
                   /\ \A x \in b.seen \ s : ways[x] \subseteq b.seen /\ n2 \notin ways[x]
                   /\ ToSet(q) = b.seen \ s
                   /\ Len(q) = Cardinality(b.seen \ s)
        <5>1. /\ ways[m] \subseteq a.seen /\ n2 \notin ways[m]
              /\ \A x \in a.seen \ (s \cup {m}) : ways[x] \subseteq a.seen /\ n2 \notin ways[x]
              /\ ToSet(a.queue) = a.seen \ (s \cup {m})
              /\ Len(a.queue) = Cardinality(a.seen \ (s \cup {m}))
          BY <3>3, <3>6 DEF SearchSays
        <5>2. /\ rest \subseteq b.seen /\ n2 \notin rest
              /\ \A x \in b.seen \ a.seen : ways[x] \subseteq b.seen /\ n2 \notin ways[x]
              /\ ToSet(b.queue) = b.seen \ a.seen
              /\ Len(b.queue) = Cardinality(b.seen \ a.seen)
          BY <4>1, <4>6 DEF SearchSays
        <5>3. t \subseteq b.seen /\ n2 \notin t
          BY <2>1, <2>4, <3>4, <4>2, <5>2
        <5>4. \A x \in b.seen \ s : ways[x] \subseteq b.seen /\ n2 \notin ways[x]
          BY <4>2, <5>1, <5>2
        <5> DEFINE A == a.seen \ (s \cup {m})
                   C == b.seen \ a.seen
        <5>5. b.seen \ s = (A \cup C) \cup {m} /\ m \notin A \cup C /\ A \cap C = {}
              /\ A \in SUBSET Node /\ C \in SUBSET Node
          BY <2>4, <3>4, <4>2
        <5>6. ToSet(q) = b.seen \ s
          BY <4>3, <5>1, <5>2, <5>5 DEF q
        <5> HIDE DEF A, C
        <5>7. /\ IsFiniteSet(A) /\ IsFiniteSet(C) /\ IsFiniteSet(A \cup C)
              /\ Cardinality(A) \in Nat /\ Cardinality(C) \in Nat
          BY <5>5, NodesFinite
        <5>8. Cardinality(A \cup C) = Cardinality(A) + Cardinality(C)
          BY <5>5, <5>7, SizeOfDisjoint
        <5>9. Cardinality((A \cup C) \cup {m}) = Cardinality(A \cup C) + 1
          BY <5>5, <5>7, FS_AddElement
        <5>10. Len(a.queue) = Cardinality(A) /\ Len(b.queue) = Cardinality(C)
          BY <5>1, <5>2 DEF A, C
        <5>11. Cardinality(b.seen \ s) = 1 + Cardinality(A) + Cardinality(C)
          <6>1. Cardinality(b.seen \ s) = Cardinality((A \cup C) \cup {m})
            BY <5>5
          <6> QED BY <5>7, <5>8, <5>9, <6>1
        <5>12. Len(q) = 1 + Len(a.queue) + Len(b.queue)
          BY <4>3 DEF q
        <5>13. Len(q) = Cardinality(b.seen \ s)
          BY <5>10, <5>11, <5>12
        <5> QED BY <5>3, <5>4, <5>6, <5>13
      <4>7. SearchSays(ways, n2, t, s, c)
        <5>1. s \subseteq c.seen
          BY <3>4, <4>2, <4>4
        <5> QED BY <4>4, <4>5, <4>6, <5>1 DEF SearchSays
      <4> QED BY <1>4, <3>1, <3>6, <4>7
    <3> QED BY <3>5, <3>6
  <2> QED BY <2>2, <2>3, <2>4
<1> QED BY <1>5, <1>6

-----------------------------------------------------------------------------
(* What the searches answer. *)

LEMMA SearchIs ==
  ASSUME NEW ways \in Links, NEW n \in Node, NEW n2
  PROVE  SearchSays(ways, n2, ways[n], {n}, Search(ways, n, n2))
<1> DEFINE Fits(v) == v = SearchRounds(ways, n2, v)
           visit == CHOOSE v : Fits(v)
<1>1. Search(ways, n, n2) = visit[ways[n]][{n}]
  BY Zenon DEF Search, SearchRounds, SearchRound
<1>2. \E v : Fits(v)
  BY SearchFits
<1>3. Fits(visit)
  BY <1>2, Zenon
<1>4. ways[n] \in SUBSET Node /\ {n} \in SUBSET Node
  BY DEF Links
<1>5. visit = SearchRounds(ways, n2, visit)
  BY <1>3
<1> HIDE DEF visit, Fits
<1>6. SearchSays(ways, n2, ways[n], {n}, visit[ways[n]][{n}])
  BY <1>4, <1>5, SearchSaysRight
<1> QED BY <1>1, <1>6

\* A search for nothing visits what n reaches, each node once.
LEMMA SearchAll ==
  ASSUME NEW ways \in Links, NEW n \in Node
  PROVE  /\ Search(ways, n, Null).queue \in Seq(Node)
         /\ ToSet(<<n>> \o Search(ways, n, Null).queue) = Span(ways, n)
         /\ Len(<<n>> \o Search(ways, n, Null).queue) = Cardinality(Span(ways, n))
         /\ 1 + Len(Search(ways, n, Null).queue) = Cardinality(Span(ways, n))
<1> DEFINE s == Search(ways, n, Null)
           V == Span(ways, n)
<1>1. SearchSays(ways, Null, ways[n], {n}, s)
  BY SearchIs
<1>2. n \in V /\ V \in SUBSET Node /\ ClosedUnder(ways, V)
  BY SpanClosed
<1>3. ways[n] \in SUBSET Node
  BY DEF Links
<1> HIDE DEF s
<1>4. s \in SearchAnswer /\ s.seen \in SUBSET Node /\ s.queue \in Seq(Node)
  BY <1>1 DEF SearchSays, SearchAnswer
<1>5. ~ s.found
  <2>1. ClosedUnder(ways, Node)
    BY DEF Links, ClosedUnder
  <2> QED BY <1>1, <1>3, <2>1, NullAssumption DEF SearchSays
<1>6. s.seen \subseteq V
  <2>1. ways[n] \subseteq V
    BY <1>2 DEF ClosedUnder
  <2> HIDE DEF V
  <2> QED BY <1>1, <1>2, <2>1 DEF SearchSays
<1>7. /\ n \in s.seen /\ ways[n] \subseteq s.seen
      /\ \A x \in s.seen \ {n} : ways[x] \subseteq s.seen
      /\ ToSet(s.queue) = s.seen \ {n}
      /\ Len(s.queue) = Cardinality(s.seen \ {n})
  BY <1>1, <1>5 DEF SearchSays
<1>8. V \subseteq s.seen
  <2>1. ClosedUnder(ways, s.seen)
    BY <1>7 DEF ClosedUnder
  <2> QED BY <1>4, <1>7, <2>1 DEF Span, Reaches
<1>9. s.seen = V
  BY <1>6, <1>8
<1> HIDE DEF V
<1>10. Cardinality(V) = 1 + Cardinality(V \ {n})
  <2>1. IsFiniteSet(V) /\ Cardinality(V) \in Nat /\ Cardinality(V \ {n}) \in Nat
    BY <1>2, NodesFinite
  <2>2. Cardinality(V \ {n}) = Cardinality(V) - 1
    BY <1>2, <2>1, FS_RemoveElement
  <2> QED BY <2>1, <2>2
<1>11. 1 + Len(s.queue) = Cardinality(V)
  BY <1>7, <1>9, <1>10
<1> DEFINE none == <<>>
<1>12. none \in Seq(Node) /\ Len(none) = 0 /\ ToSet(none) = {} /\ <<n>> \o none = <<n>>
  BY DEF ToSet
<1> HIDE DEF none
<1>13. /\ Len(<<n>> \o none \o s.queue) = 1 + Len(none) + Len(s.queue)
       /\ ToSet(<<n>> \o none \o s.queue) = {n} \cup ToSet(none) \cup ToSet(s.queue)
  BY <1>4, <1>12, JoinedQueue
<1>14. /\ Len(<<n>> \o s.queue) = 1 + 0 + Len(s.queue)
       /\ ToSet(<<n>> \o s.queue) = {n} \cup {} \cup ToSet(s.queue)
  BY <1>12, <1>13
<1>15. Len(s.queue) \in Nat
  BY <1>4, LenProperties
<1>16. ToSet(<<n>> \o s.queue) = V
  BY <1>2, <1>7, <1>9, <1>14
<1>17. Len(<<n>> \o s.queue) = Cardinality(V)
  BY <1>11, <1>14, <1>15
<1> QED BY <1>4, <1>11, <1>16, <1>17 DEF V, s

\* A search for another node finds it exactly when it is reached.
LEMMA SearchFinds ==
  ASSUME NEW ways \in Links, NEW n1 \in Node, NEW n2 \in Node, n1 # n2
  PROVE  Search(ways, n1, n2).found <=> Reaches(ways, n1, n2)
<1> DEFINE s == Search(ways, n1, n2)
           V == Span(ways, n1)
<1>1. SearchSays(ways, n2, ways[n1], {n1}, s)
  BY SearchIs
<1>2. n1 \in V /\ V \in SUBSET Node /\ ClosedUnder(ways, V)
  BY SpanClosed
<1>3. ways[n1] \in SUBSET Node
  BY DEF Links
<1> HIDE DEF s
<1>4. s \in SearchAnswer /\ s.seen \in SUBSET Node
  BY <1>1 DEF SearchSays, SearchAnswer
<1>5. CASE s.found
  <2>1. ways[n1] \subseteq V
    BY <1>2 DEF ClosedUnder
  <2>2. n2 \in V
    <3> HIDE DEF V
    <3> QED BY <1>1, <1>2, <1>5, <2>1 DEF SearchSays
  <2> QED BY <1>5, <2>2 DEF Span, s
<1>6. CASE ~ s.found
  <2>1. /\ n1 \in s.seen /\ ways[n1] \subseteq s.seen /\ n2 \notin ways[n1]
        /\ \A x \in s.seen \ {n1} : ways[x] \subseteq s.seen /\ n2 \notin ways[x]
    BY <1>1, <1>6 DEF SearchSays
  <2>2. ClosedUnder(ways, s.seen \ {n2})
    BY <2>1 DEF ClosedUnder
  <2>3. ~ Reaches(ways, n1, n2)
    BY <1>4, <2>1, <2>2 DEF Reaches
  <2> QED BY <1>6, <2>3 DEF s
<1> QED BY <1>5, <1>6

\* CanReach in the terms of reachability, in both directions.
LEMMA ReachTypes == TypeOK => Forward \in Links /\ Backward \in Links /\ BothWays \in Links
BY DEF TypeOK, Forward, Backward, BothWays, Links

LEMMA ReachIs ==
  ASSUME TypeOK, LinksAgree, NEW n \in Node, NEW m \in Node
  PROVE  /\ CanReach(n, m) <=> Reaches(Forward, n, m)
         /\ CanReach(n, m) <=> Reaches(Backward, m, n)
<1>1. \A S : Closed(S) <=> ClosedUnder(Forward, S)
  BY DEF Closed, ClosedUnder, Forward
<1>2. CanReach(n, m) <=> Reaches(Forward, n, m)
  BY <1>1 DEF CanReach, Reaches
<1>3. \A S \in SUBSET Node : ClosedUnder(Backward, Node \ S) <=> Closed(S)
  BY DEF TypeOK, LinksAgree, Closed, ClosedUnder, Backward
<1>4. \A S \in SUBSET Node : Node \ S \in SUBSET Node /\ Node \ (Node \ S) = S
  OBVIOUS
<1>5. CanReach(n, m) => Reaches(Backward, m, n)
  <2> SUFFICES ASSUME CanReach(n, m), NEW S \in SUBSET Node, m \in S, ClosedUnder(Backward, S)
               PROVE  n \in S
    BY DEF Reaches
  <2>1. Closed(Node \ S)
    BY <1>3, <1>4
  <2> QED BY <2>1 DEF CanReach
<1>6. Reaches(Backward, m, n) => CanReach(n, m)
  <2> SUFFICES ASSUME Reaches(Backward, m, n), NEW S \in SUBSET Node, n \in S, Closed(S)
               PROVE  m \in S
    BY DEF CanReach
  <2>1. ClosedUnder(Backward, Node \ S)
    BY <1>3
  <2> QED BY <2>1 DEF Reaches
<1> QED BY <1>2, <1>5, <1>6

LEMMA SpanIs ==
  ASSUME TypeOK, LinksAgree, NEW n \in Node
  PROVE  /\ Span(Forward, n) = {m \in Node : CanReach(n, m)}
         /\ Span(Backward, n) = {m \in Node : CanReach(m, n)}
BY ReachIs DEF Span

\* The nodes of a graph: a closed set in both directions, which the graph counts.
LEMMA GraphNodes ==
  ASSUME TypeOK, LinksAgree, MembersAgree, NEW g \in Graph
  PROVE  /\ root_nodes[g] \in SUBSET Node
         /\ len[g] = Cardinality(root_nodes[g]) /\ len[g] \in Nat
         /\ \A n \in root_nodes[g] : /\ n \in Node /\ dgraph[n] = g
                                     /\ root_out[n] \subseteq root_nodes[g]
                                     /\ root_in[n] \subseteq root_nodes[g]
<1>1. root_nodes[g] = {n \in Node : dgraph[n] = g} /\ len[g] = Cardinality(root_nodes[g])
  BY DEF MembersAgree
<1>2. Cardinality(root_nodes[g]) \in Nat
  BY <1>1, NodesFinite
<1>3. ASSUME NEW n \in Node, dgraph[n] = g
      PROVE  /\ \A m \in root_out[n] : m \in Node /\ dgraph[m] = g
             /\ \A m \in root_in[n] : m \in Node /\ dgraph[m] = g
  <2>1. root_out[n] \in SUBSET Node /\ root_in[n] \in SUBSET Node
    BY DEF TypeOK
  <2> QED BY <1>3, <2>1 DEF LinksAgree
<1> QED BY <1>1, <1>2, <1>3

LEMMA ConnectedIs ==
  ASSUME TypeOK, LinksAgree, MembersAgree, NEW g \in Graph
  PROVE  IsConnected(g) <=> \A S \in SUBSET root_nodes[g] :
                              S # {} /\ Separate(S) => S = root_nodes[g]
<1> DEFINE R == root_nodes[g]
<1>1. /\ R \in SUBSET Node /\ len[g] = Cardinality(R) /\ Cardinality(R) \in Nat
      /\ \A n \in R : root_out[n] \subseteq R /\ root_in[n] \subseteq R
  BY GraphNodes
<1>2. CASE R = {}
  <2>1. len[g] = 0
    BY <1>1, <1>2, FS_EmptySet
  <2> QED BY <1>2, <2>1 DEF IsConnected
<1>3. CASE R # {}
  <2> DEFINE n == First(R)
             V == Span(BothWays, n)
  <2>1. n \in R /\ n \in Node
    BY <1>1, <1>3, FirstIn
  <2>2. BothWays \in Links
    BY ReachTypes
  <2>3. \A S \in SUBSET Node : Separate(S) <=> ClosedUnder(BothWays, S)
    BY DEF Separate, Closed, ClosedUnder, BothWays, LinksAgree, TypeOK
  <2>4. \A S \in SUBSET Node : Separate(S) => Separate(Node \ S)
    <3>1. \A S \in SUBSET Node : Node \ (Node \ S) = S
      OBVIOUS
    <3> QED BY <3>1 DEF Separate
  <2>5. ConnectedCnt(n) = Cardinality(V)
    BY <2>1, <2>2, SearchAll DEF ConnectedCnt
  <2> HIDE DEF n
  <2>6. n \in V /\ V \in SUBSET Node /\ ClosedUnder(BothWays, V)
    BY <2>1, <2>2, SpanClosed
  <2>7. \A S \in SUBSET Node : n \in S /\ Separate(S) => V \subseteq S
    BY <2>3 DEF Span, Reaches
  <2> HIDE DEF V
  <2>8. V \subseteq R
    <3>1. ClosedUnder(BothWays, R)
      BY <1>1 DEF ClosedUnder, BothWays
    <3> QED BY <1>1, <2>1, <2>3, <2>7, <3>1
  <2>9. IsConnected(g) <=> V = R
    <3>1. len[g] # 0
      <4>1. Cardinality(R) # 0
        BY <1>1, <1>3, NodesFinite, FS_EmptySet
      <4> QED BY <1>1, <4>1
    <3>2. Cardinality(V) = Cardinality(R) => V = R
      <4>1. IsFiniteSet(R)
        BY <1>1, NodesFinite
      <4> QED BY <2>8, <4>1, FS_Subset
    <3> QED BY <1>1, <2>5, <3>1, <3>2 DEF IsConnected, n
  <2>10. ASSUME V = R, NEW S \in SUBSET R, S # {}, Separate(S)
         PROVE  S = R
    <3>1. S \in SUBSET Node /\ Separate(Node \ S) /\ Node \ S \in SUBSET Node
      BY <1>1, <2>4, <2>10
    <3>2. CASE n \in S
      BY <2>7, <2>10, <3>1, <3>2
    <3>3. CASE n \notin S
      <4>1. V \subseteq Node \ S
        BY <2>1, <2>7, <3>1, <3>3
      <4> QED BY <2>10, <4>1
    <3> QED BY <3>2, <3>3
  <2>11. ASSUME \A S \in SUBSET R : S # {} /\ Separate(S) => S = R
         PROVE  V = R
    BY <2>3, <2>6, <2>8, <2>11
  <2> QED BY <2>9, <2>10, <2>11
<1> QED BY <1>2, <1>3

LEMMA ReachRight == TypeOK /\ LinksAgree /\ MembersAgree => ReachExact
<1> SUFFICES ASSUME TypeOK, LinksAgree, MembersAgree, NEW g \in Graph
             PROVE  /\ \A n1, n2 \in root_nodes[g] : CanReachLow(n1, n2) <=> CanReach(n1, n2)
                    /\ \A n \in root_nodes[g] :
                         /\ ToSet(QueueSucc(n)) = {m \in Node : CanReach(n, m)}
                         /\ ToSet(QueuePred(n)) = {m \in Node : CanReach(m, n)}
                         /\ SuccCnt(n) = Cardinality({m \in Node : CanReach(n, m)})
                         /\ PredCnt(n) = Cardinality({m \in Node : CanReach(m, n)})
                    /\ IsConnected(g) <=> \A S \in SUBSET root_nodes[g] :
                                            S # {} /\ Separate(S) => S = root_nodes[g]
  BY DEF ReachExact
<1>1. \A n \in root_nodes[g] : n \in Node
  BY GraphNodes
<1>2. Forward \in Links /\ Backward \in Links
  BY ReachTypes
<1>3. ASSUME NEW n1 \in Node, NEW n2 \in Node
      PROVE  CanReachLow(n1, n2) <=> CanReach(n1, n2)
  <2>1. CASE n1 = n2
    BY <2>1 DEF CanReachLow, CanReach
  <2>2. CASE n1 # n2
    BY <1>2, <2>2, SearchFinds, ReachIs DEF CanReachLow
  <2> QED BY <2>1, <2>2
<1>4. ASSUME NEW n \in Node
      PROVE  /\ ToSet(QueueSucc(n)) = {m \in Node : CanReach(n, m)}
             /\ ToSet(QueuePred(n)) = {m \in Node : CanReach(m, n)}
             /\ SuccCnt(n) = Cardinality({m \in Node : CanReach(n, m)})
             /\ PredCnt(n) = Cardinality({m \in Node : CanReach(m, n)})
  <2>1. /\ ToSet(QueueSucc(n)) = Span(Forward, n) /\ SuccCnt(n) = Cardinality(Span(Forward, n))
        /\ ToSet(QueuePred(n)) = Span(Backward, n) /\ PredCnt(n) = Cardinality(Span(Backward, n))
    BY <1>2, SearchAll DEF QueueSucc, QueuePred, SuccCnt, PredCnt
  <2>2. /\ Span(Forward, n) = {m \in Node : CanReach(n, m)}
        /\ Span(Backward, n) = {m \in Node : CanReach(m, n)}
    BY SpanIs
  <2> QED BY <2>1, <2>2
<1>5. IsConnected(g) <=> \A S \in SUBSET root_nodes[g] :
                           S # {} /\ Separate(S) => S = root_nodes[g]
  BY ConnectedIs
<1> QED BY <1>1, <1>3, <1>4, <1>5, Zenon

-----------------------------------------------------------------------------
(* The climb to the root.  One round of it; how far it may still go bounds  *)
(* the recursion.                                                           *)

ClimbRound(g, climb, m, i) ==
  IF len_in[m] = 0 THEN m
  ELSE IF len_in[m] > 1 \/ i = len[g] THEN Null
  ELSE climb[First(root_in[m])][i + 1]

ClimbRounds(g, climb) == [m \in Node |-> [i \in 1 .. len[g] |-> ClimbRound(g, climb, m, i)]]

ClimbGood(g, climb, k) ==
  /\ climb \in [Node -> [1 .. len[g] -> Node \cup {Null}]]
  /\ \A m \in Node, i \in 1 .. len[g] :
       len[g] - i < k => climb[m][i] = ClimbRound(g, climb, m, i)

\* Above a node with links into it is another.
LEMMA OneUp ==
  ASSUME TypeOK, CountersExact, NEW m \in Node
  PROVE  /\ root_in[m] \in SUBSET Node /\ len_in[m] = Cardinality(root_in[m]) /\ len_in[m] \in Nat
         /\ len_in[m] = 0 <=> root_in[m] = {}
         /\ len_in[m] # 0 => First(root_in[m]) \in root_in[m] /\ First(root_in[m]) \in Node
<1>1. root_in[m] \in SUBSET Node
  BY DEF TypeOK
<1>2. len_in[m] = Cardinality(root_in[m])
  BY DEF CountersExact
<1>3. IsFiniteSet(root_in[m]) /\ Cardinality(root_in[m]) \in Nat
  BY <1>1, NodesFinite
<1>4. len_in[m] = 0 <=> root_in[m] = {}
  BY <1>2, <1>3, FS_EmptySet
<1>5. root_in[m] # {} => First(root_in[m]) \in root_in[m]
  BY <1>1, FirstIn
<1> QED BY <1>1, <1>2, <1>3, <1>4, <1>5

LEMMA ClimbGoodNext ==
  ASSUME TypeOK, CountersExact, NEW g \in Graph, len[g] \in Nat,
         NEW k \in Nat, NEW climb, ClimbGood(g, climb, k)
  PROVE  ClimbGood(g, ClimbRounds(g, climb), k + 1)
<1> DEFINE next == ClimbRounds(g, climb)
<1>1. ASSUME NEW m \in Node, NEW i \in 1 .. len[g]
      PROVE  next[m][i] = ClimbRound(g, climb, m, i)
  <2>1. next[m] = [j \in 1 .. len[g] |-> ClimbRound(g, climb, m, j)]
    BY Zenon DEF ClimbRounds
  <2> QED BY <2>1, Zenon
<1>2. climb \in [Node -> [1 .. len[g] -> Node \cup {Null}]]
  BY DEF ClimbGood
<1>3. ASSUME NEW m \in Node, NEW i \in 1 .. len[g]
      PROVE  /\ ClimbRound(g, climb, m, i) \in Node \cup {Null}
             /\ len[g] - i < k + 1 => ClimbRound(g, climb, m, i) = ClimbRound(g, next, m, i)
  <2> DEFINE p == First(root_in[m])
  <2>1. CASE len_in[m] = 0
    BY <2>1 DEF ClimbRound
  <2>2. CASE len_in[m] # 0 /\ (len_in[m] > 1 \/ i = len[g])
    BY <2>2 DEF ClimbRound
  <2>3. CASE len_in[m] # 0 /\ ~ (len_in[m] > 1 \/ i = len[g])
    <3>1. p \in Node /\ i + 1 \in 1 .. len[g]
      BY <2>3, OneUp
    <3>2. /\ ClimbRound(g, climb, m, i) = climb[p][i + 1]
          /\ ClimbRound(g, next, m, i) = next[p][i + 1]
      BY <2>3, Zenon DEF ClimbRound
    <3> HIDE DEF next, p
    <3>3. climb[p][i + 1] \in Node \cup {Null}
      BY <1>2, <3>1
    <3>4. len[g] - i < k + 1 => len[g] - (i + 1) < k
      OBVIOUS
    <3>5. len[g] - i < k + 1 => next[p][i + 1] = climb[p][i + 1]
      BY <1>1, <3>1, <3>4 DEF ClimbGood
    <3> QED BY <3>2, <3>3, <3>5
  <2> QED BY <2>1, <2>2, <2>3
<1>4. next = [m \in Node |-> [i \in 1 .. len[g] |-> next[m][i]]]
  BY <1>1, Zenon DEF ClimbRounds
<1> HIDE DEF next
<1>5. next \in [Node -> [1 .. len[g] -> Node \cup {Null}]]
  <2>1. ASSUME NEW m \in Node, NEW i \in 1 .. len[g]
        PROVE  next[m][i] \in Node \cup {Null}
    BY <1>1, <1>3
  <2>2. \A m \in Node : [i \in 1 .. len[g] |-> next[m][i]] \in [1 .. len[g] -> Node \cup {Null}]
    BY <2>1
  <2> QED BY <1>4, <2>2, Zenon
<1> QED BY <1>1, <1>3, <1>5 DEF ClimbGood, next

LEMMA ClimbFits ==
  ASSUME TypeOK, CountersExact, NEW g \in Graph, len[g] \in Nat
  PROVE  \E climb : climb = ClimbRounds(g, climb)
<1> DEFINE I == {j \in Nat : ~ \E climb : ClimbGood(g, climb, j)}
<1>1. I = {}
  <2> SUFFICES ASSUME I # {}
               PROVE  FALSE
    OBVIOUS
  <2>1. PICK j \in I : \A i \in I : ~ i < j
    BY LeastNumber
  <2>2. CASE j = 0
    <3> DEFINE empty == [m \in Node |-> [i \in 1 .. len[g] |-> Null]]
    <3>1. empty \in [Node -> [1 .. len[g] -> Node \cup {Null}]]
      OBVIOUS
    <3> HIDE DEF empty
    <3>2. \A i \in 1 .. len[g] : ~ len[g] - i < 0
      OBVIOUS
    <3>3. ClimbGood(g, empty, 0)
      BY <3>1, <3>2 DEF ClimbGood
    <3> QED BY <2>1, <2>2, <3>3
  <2>3. CASE j # 0
    <3>1. j - 1 \in Nat /\ j - 1 < j /\ j - 1 + 1 = j
      BY <2>3
    <3>2. PICK climb : ClimbGood(g, climb, j - 1)
      BY <2>1, <3>1
    <3> DEFINE i == j - 1
    <3> HIDE DEF i
    <3>3. i \in Nat /\ ClimbGood(g, climb, i) /\ i + 1 = j
      BY <3>1, <3>2 DEF i
    <3>4. ClimbGood(g, ClimbRounds(g, climb), i + 1)
      BY <3>3, ClimbGoodNext
    <3> QED BY <2>1, <3>3, <3>4
  <2> QED BY <2>2, <2>3
<1>2. PICK climb : ClimbGood(g, climb, len[g])
  BY <1>1
<1>3. \A m \in Node, i \in 1 .. len[g] : climb[m][i] = ClimbRound(g, climb, m, i)
  <2>1. \A i \in 1 .. len[g] : len[g] - i < len[g]
    OBVIOUS
  <2> QED BY <1>2, <2>1 DEF ClimbGood
<1>4. climb = [m \in Node |-> [i \in 1 .. len[g] |-> climb[m][i]]]
  BY <1>2 DEF ClimbGood
<1>5. climb = ClimbRounds(g, climb)
  BY <1>3, <1>4, Zenon DEF ClimbRounds
<1> QED BY <1>5

\* The climb is the result of a function that fits its equation.
LEMMA ClimbIs ==
  ASSUME TypeOK, CountersExact, NEW g \in Graph, len[g] \in Nat, NEW n \in Node
  PROVE  \E climb :
           /\ Climb(g, n) = climb[n][1]
           /\ \A m \in Node, i \in 1 .. len[g] : climb[m][i] = ClimbRound(g, climb, m, i)
<1> DEFINE Fits(c) == c = ClimbRounds(g, c)
           climb == CHOOSE c : Fits(c)
<1>1. Climb(g, n) = climb[n][1]
  BY Zenon DEF Climb, ClimbRounds, ClimbRound
<1>2. \E c : Fits(c)
  BY ClimbFits
<1>3. climb = ClimbRounds(g, climb)
  BY <1>2, Zenon
<1> HIDE DEF climb, Fits
<1>4. ASSUME NEW m \in Node, NEW i \in 1 .. len[g]
      PROVE  climb[m][i] = ClimbRound(g, climb, m, i)
  <2>1. ClimbRounds(g, climb)[m] = [j \in 1 .. len[g] |-> ClimbRound(g, climb, m, j)]
    BY Zenon DEF ClimbRounds
  <2> QED BY <1>3, <2>1, Zenon
<1> QED BY <1>1, <1>4

LEMMA SomeNode ==
  ASSUME TypeOK, LinksAgree, MembersAgree, NEW g \in Graph, NEW n \in root_nodes[g]
  PROVE  len[g] \in Nat /\ 1 \in 1 .. len[g]
<1>1. root_nodes[g] \in SUBSET Node /\ len[g] = Cardinality(root_nodes[g]) /\ len[g] \in Nat
  BY GraphNodes
<1>2. Cardinality(root_nodes[g]) # 0
  BY <1>1, NodesFinite, FS_EmptySet
<1> QED BY <1>1, <1>2

\* The climb ends at a node of the graph that no link enters, or nowhere.
LEMMA ClimbEnds ==
  ASSUME TypeOK, LinksAgree, MembersAgree, CountersExact, NEW g \in Graph, NEW n \in root_nodes[g]
  PROVE  Climb(g, n) = Null \/ (Climb(g, n) \in root_nodes[g] /\ len_in[Climb(g, n)] = 0)
<1> DEFINE R == root_nodes[g]
           Ends(x) == x = Null \/ (x \in R /\ len_in[x] = 0)
<1>1. R \in SUBSET Node /\ \A m \in R : m \in Node /\ root_in[m] \subseteq R
  BY GraphNodes
<1>2. len[g] \in Nat /\ 1 \in 1 .. len[g]
  BY SomeNode
<1>3. PICK climb : /\ Climb(g, n) = climb[n][1]
                   /\ \A m \in Node, i \in 1 .. len[g] : climb[m][i] = ClimbRound(g, climb, m, i)
  BY <1>1, <1>2, ClimbIs
<1> DEFINE I == {j \in Nat : \E m \in R, i \in 1 .. len[g] : j = len[g] - i /\ ~ Ends(climb[m][i])}
<1>4. SUFFICES ASSUME I # {}
               PROVE  FALSE
  <2>1. \A i \in 1 .. len[g] : len[g] - i \in Nat
    BY <1>2
  <2>2. Ends(climb[n][1])
    BY <1>2, <1>4, <2>1
  <2> QED BY <1>3, <2>2
<1>5. PICK j \in I : \A i \in I : ~ i < j
  BY <1>4, LeastNumber
<1>6. PICK m \in R, i \in 1 .. len[g] : j = len[g] - i /\ ~ Ends(climb[m][i])
  BY <1>5
<1>7. climb[m][i] = ClimbRound(g, climb, m, i)
  BY <1>1, <1>3
<1>8. CASE len_in[m] = 0
  BY <1>6, <1>7, <1>8 DEF ClimbRound
<1>9. CASE len_in[m] # 0 /\ (len_in[m] > 1 \/ i = len[g])
  BY <1>6, <1>7, <1>9 DEF ClimbRound
<1>10. CASE len_in[m] # 0 /\ ~ (len_in[m] > 1 \/ i = len[g])
  <2> DEFINE p == First(root_in[m])
  <2>1. p \in R
    BY <1>1, <1>10, OneUp
  <2>2. climb[m][i] = climb[p][i + 1]
    BY <1>7, <1>10, Zenon DEF ClimbRound
  <2> HIDE DEF p
  <2>3. i + 1 \in 1 .. len[g] /\ len[g] - (i + 1) \in Nat /\ len[g] - (i + 1) < j
    BY <1>2, <1>6, <1>10
  <2>4. ~ Ends(climb[p][i + 1])
    BY <1>6, <2>2
  <2>5. len[g] - (i + 1) \in I
    BY <2>1, <2>3, <2>4
  <2> QED BY <1>5, <2>3, <2>5
<1> QED BY <1>8, <1>9, <1>10

\* What a root says in terms of the links.
LEMMA RootSays ==
  ASSUME TypeOK, LinksAgree, MembersAgree, CountersExact, NEW g \in Graph, NEW r, IsRoot(g, r)
  PROVE  /\ r \in root_nodes[g] /\ r \in Node
         /\ \A n \in root_nodes[g] : Reaches(Forward, r, n) /\ Reaches(Backward, n, r)
         /\ root_in[r] = {} /\ len_in[r] = 0
         /\ \A n \in root_nodes[g] : n # r => len_in[n] = 1 /\ \E p \in Node : root_in[n] = {p}
<1>1. r \in root_nodes[g] /\ r \in Node /\ \A n \in root_nodes[g] : n \in Node
  BY GraphNodes DEF IsRoot
<1>2. \A n \in root_nodes[g] : Reaches(Forward, r, n) /\ Reaches(Backward, n, r)
  BY <1>1, ReachIs DEF IsRoot
<1>3. \A n \in root_nodes[g] : len_in[n] = IF n = r THEN 0 ELSE 1
  BY <1>1 DEF IsRoot, CountersExact
<1>4. root_in[r] = {}
  BY <1>1, <1>3, OneUp
<1>5. ASSUME NEW n \in root_nodes[g], n # r
      PROVE  \E p \in Node : root_in[n] = {p}
  <2>1. root_in[n] \in SUBSET Node /\ Cardinality(root_in[n]) = 1
    BY <1>1, <1>3, <1>5, OneUp
  <2>2. IsFiniteSet(root_in[n])
    BY <2>1, NodesFinite
  <2>3. \E p : root_in[n] = {p}
    BY <2>1, <2>2, FS_Singleton
  <2> QED BY <2>1, <2>3
<1> QED BY <1>1, <1>2, <1>3, <1>4, <1>5

\* In a tree no node reaches the one above it.
LEMMA NeverUp ==
  ASSUME TypeOK, LinksAgree, MembersAgree, CountersExact, NEW g \in Graph, NEW r, IsRoot(g, r),
         NEW m \in root_nodes[g], m # r, NEW p, root_in[m] = {p}
  PROVE  ~ Reaches(Forward, m, p)
<1> DEFINE R == root_nodes[g]
           S == {x \in R : ~ Reaches(Forward, m, x)}
<1>0. /\ R \in SUBSET Node /\ m \in Node
      /\ \A x \in R : x \in Node /\ root_out[x] \subseteq R
  BY GraphNodes
<1>1. /\ r \in R /\ r \in Node /\ root_in[r] = {}
      /\ Reaches(Forward, r, m)
      /\ \A n \in R : n # r => \E q \in Node : root_in[n] = {q}
  BY RootSays
<1>2. Forward \in Links /\ \A x \in Node : Forward[x] = root_out[x]
  BY ReachTypes DEF Forward
<1>3. \A x, y \in Node : y \in root_out[x] <=> x \in root_in[y]
  BY DEF LinksAgree
<1>4. SUFFICES ASSUME Reaches(Forward, m, p)
               PROVE  FALSE
  OBVIOUS
<1>5. r \in S
  <2>1. ClosedUnder(Forward, Node \ {r})
    BY <1>1, <1>2, <1>3 DEF ClosedUnder, Links
  <2> QED BY <1>0, <1>1, <2>1 DEF Reaches
<1>6. ClosedUnder(Forward, S)
  <2> SUFFICES ASSUME NEW x \in S, NEW y \in Forward[x], Reaches(Forward, m, y)
               PROVE  FALSE
    BY <1>0, <1>2 DEF ClosedUnder
  <2>1. x \in Node /\ y \in Node /\ y \in R /\ x \in root_in[y] /\ y # r
    BY <1>0, <1>1, <1>2, <1>3, <1>5 DEF Links
  <2>2. root_in[y] = {x}
    BY <1>1, <2>1
  <2>3. y # m
    BY <1>4, <2>2
  <2>4. ClosedUnder(Forward, Span(Forward, m) \ {y})
    <3>1. ClosedUnder(Forward, Span(Forward, m)) /\ Span(Forward, m) \in SUBSET Node
      BY <1>0, <1>2, SpanClosed
    <3>2. x \notin Span(Forward, m)
      BY DEF Span
    <3> QED BY <1>2, <1>3, <2>1, <2>2, <3>1, <3>2 DEF ClosedUnder
  <2>5. m \in Span(Forward, m) /\ Span(Forward, m) \in SUBSET Node
    BY <1>0, <1>2, SpanClosed
  <2> QED BY <2>3, <2>4, <2>5 DEF Reaches
<1>7. m \in S
  BY <1>0, <1>1, <1>5, <1>6 DEF Reaches
<1> QED BY <1>7 DEF Reaches

\* From every node of a tree the climb comes to the root.
LEMMA ClimbToRoot ==
  ASSUME TypeOK, LinksAgree, MembersAgree, CountersExact, NEW g \in Graph, NEW r, IsRoot(g, r),
         NEW n \in root_nodes[g]
  PROVE  Climb(g, n) = r
<1> DEFINE R == root_nodes[g]
           Up(m) == Span(Backward, m)
           Size(m) == Cardinality(Up(m))
<1>1. /\ R \in SUBSET Node /\ len[g] = Cardinality(R)
      /\ \A m \in R : m \in Node /\ root_in[m] \subseteq R
  BY GraphNodes
<1>2. len[g] \in Nat /\ 1 \in 1 .. len[g]
  BY SomeNode
<1>3. PICK climb : /\ Climb(g, n) = climb[n][1]
                   /\ \A m \in Node, i \in 1 .. len[g] : climb[m][i] = ClimbRound(g, climb, m, i)
  BY <1>1, <1>2, ClimbIs
<1>4. Backward \in Links /\ Forward \in Links /\ \A x \in Node : Backward[x] = root_in[x]
  BY ReachTypes DEF Backward
<1>5. ASSUME NEW m \in R
      PROVE  /\ Up(m) \in SUBSET Node /\ m \in Up(m) /\ r \in Up(m) /\ root_in[m] \subseteq Up(m)
             /\ Up(m) \subseteq R /\ Size(m) \in Nat /\ Size(m) <= len[g]
  <2>1. Up(m) \in SUBSET Node /\ m \in Up(m) /\ ClosedUnder(Backward, Up(m))
    BY <1>1, <1>4, SpanClosed
  <2>2. r \in Up(m)
    BY RootSays DEF Span
  <2>3. Up(m) \subseteq R
    <3>1. ClosedUnder(Backward, R)
      BY <1>1, <1>4 DEF ClosedUnder
    <3> QED BY <1>1, <3>1 DEF Span, Reaches
  <2>4. Size(m) \in Nat /\ Size(m) <= len[g]
    <3>1. IsFiniteSet(R) /\ Size(m) \in Nat
      BY <1>1, <2>1, NodesFinite
    <3> QED BY <1>1, <2>3, <3>1, FS_Subset
  <2> QED BY <1>1, <1>4, <2>1, <2>2, <2>3, <2>4 DEF ClosedUnder
<1>6. ASSUME NEW m \in R, m # r, NEW p, root_in[m] = {p}
      PROVE  p \in R /\ p \in Node /\ Size(p) < Size(m) /\ Size(m) > 1
  <2>1. p \in R /\ p \in Node
    BY <1>1, <1>6
  <2>2. Up(p) \subseteq Up(m)
    <3>1. ClosedUnder(Backward, Up(m)) /\ p \in Up(m)
      BY <1>1, <1>4, <1>5, <1>6, SpanClosed
    <3> HIDE DEF Size
    <3> QED BY <1>5, <3>1 DEF Span, Reaches
  <2>3. m \notin Up(p)
    BY <1>1, <1>6, <2>1, NeverUp, ReachIs DEF Span
  <2>4. Size(p) < Size(m)
    <3>1. Up(p) \in SUBSET Up(m) /\ Up(m) \in SUBSET Node /\ m \in Up(m)
      BY <1>5, <2>2
    <3> QED BY <2>3, <3>1, Smaller
  <2>5. Size(p) \in Nat /\ Size(m) \in Nat
    BY <1>5, <2>1
  <2>6. Size(p) # 0
    <3>1. p \in Up(p) /\ IsFiniteSet(Up(p))
      BY <1>5, <2>1, NodesFinite
    <3> HIDE DEF Up
    <3> QED BY <3>1, FS_EmptySet
  <2> QED BY <2>1, <2>4, <2>5, <2>6
<1> HIDE DEF Size, Up
<1> DEFINE I == {k \in Nat : \E m \in R, i \in 1 .. len[g] :
                   k = Size(m) /\ k <= len[g] - i + 1 /\ climb[m][i] # r}
<1>7. SUFFICES ASSUME I # {}
               PROVE  FALSE
  <2>1. Size(n) \in Nat /\ Size(n) <= len[g] - 1 + 1
    BY <1>2, <1>5
  <2> QED BY <1>2, <1>3, <1>7, <2>1
<1>8. PICK k \in I : \A j \in I : ~ j < k
  BY <1>7, LeastNumber
<1>9. PICK m \in R, i \in 1 .. len[g] :
        k = Size(m) /\ k <= len[g] - i + 1 /\ climb[m][i] # r
  BY <1>8
<1>10. climb[m][i] = ClimbRound(g, climb, m, i)
  BY <1>1, <1>3
<1>11. CASE m = r
  <2>1. len_in[m] = 0
    BY <1>11, RootSays
  <2> QED BY <1>9, <1>10, <1>11, <2>1 DEF ClimbRound
<1>12. CASE m # r
  <2>1. len_in[m] = 1 /\ \E p \in Node : root_in[m] = {p}
    BY <1>12, RootSays
  <2>2. PICK p \in Node : root_in[m] = {p}
    BY <2>1
  <2>3. p \in R /\ p \in Node /\ Size(p) < k /\ k > 1 /\ Size(p) \in Nat
    BY <1>5, <1>6, <1>9, <1>12, <2>2
  <2>4. First(root_in[m]) = p
    BY <1>1, <2>2, OneUp, <2>1
  <2>5. i + 1 \in 1 .. len[g] /\ i # len[g] /\ Size(p) <= len[g] - (i + 1) + 1
    <3>1. k \in Nat
      OBVIOUS
    <3> QED BY <1>2, <1>9, <2>3, <3>1
  <2>6. climb[m][i] = climb[p][i + 1]
    BY <1>10, <2>1, <2>4, <2>5 DEF ClimbRound
  <2>7. Size(p) \in I
    BY <1>9, <2>3, <2>5, <2>6
  <2> QED BY <1>8, <2>3, <2>7
<1> QED BY <1>11, <1>12

\* When no link enters r and some link enters every other node, a graph has one link
\* less than nodes exactly when no node is entered by two.
LEMMA OneLinkLess ==
  ASSUME TypeOK, LinksAgree, MembersAgree, CountersExact, NEW g \in Graph,
         NEW r \in root_nodes[g], root_in[r] = {},
         \A n \in root_nodes[g] : n # r => root_in[n] # {}
  PROVE  link_cnt[g] + 1 = len[g]
           <=> \A n \in root_nodes[g] : n # r => \A a, b \in root_in[n] : a = b
<1> DEFINE R == root_nodes[g]
           T == R \ {r}
           L == LinksOf(g)
           f == [l \in L |-> l[2]]
<1>1. R \in SUBSET Node /\ len[g] = Cardinality(R) /\ R = {n \in Node : dgraph[n] = g}
  BY GraphNodes DEF MembersAgree
<1>2. IsFiniteSet(R) /\ Cardinality(R) \in Nat /\ Cardinality(T) = Cardinality(R) - 1
  <2>1. IsFiniteSet(R) /\ Cardinality(R) \in Nat
    BY <1>1, NodesFinite
  <2> QED BY <2>1, FS_RemoveElement
<1>3. IsFiniteSet(L) /\ Cardinality(L) \in Int /\ link_cnt[g] = Cardinality(L)
  BY LinksOfFinite DEF CountersExact
<1>4. \A a \in Node, n \in R : <<a, n>> \in L <=> a \in root_in[n]
  <2>1. ASSUME NEW a \in Node, NEW n \in R
        PROVE  <<a, n>> \in L <=> a \in root_in[n]
    <3>1. <<a, n>> \in Node \X Node /\ <<a, n>>[1] = a /\ <<a, n>>[2] = n /\ dgraph[n] = g
      BY <1>1
    <3> QED BY <1>1, <3>1 DEF LinksOf, LinksAgree
  <2> QED BY <2>1
<1>5. ASSUME NEW l \in L
      PROVE  /\ l[1] \in Node /\ l[2] \in T /\ l[1] \in root_in[l[2]] /\ l = <<l[1], l[2]>>
  <2>1. /\ l[1] \in Node /\ l[2] \in Node /\ l = <<l[1], l[2]>>
        /\ dgraph[l[1]] = g /\ l[2] \in root_out[l[1]]
    BY DEF LinksOf
  <2>2. l[1] \in root_in[l[2]] /\ dgraph[l[2]] = g
    BY <2>1 DEF LinksAgree
  <2> QED BY <1>1, <2>1, <2>2
<1>6. \A n \in R : root_in[n] \subseteq Node
  BY <1>1 DEF TypeOK
<1>7. f \in Surjection(L, T)
  <2>1. f \in [L -> T]
    BY <1>5
  <2>2. ASSUME NEW n \in T
        PROVE  \E l \in L : f[l] = n
    <3>1. PICK a \in Node : a \in root_in[n]
      BY <1>6
    <3>2. <<a, n>> \in L /\ <<a, n>>[2] = n
      BY <1>4, <3>1
    <3> QED BY <3>2
  <2> QED BY <2>1, <2>2 DEF Surjection
<1>8. f \in Injection(L, T)
        <=> \A n \in R : n # r => \A a, b \in root_in[n] : a = b
  <2>1. f \in Injection(L, T) <=> \A k, l \in L : k[2] = l[2] => k = l
    <3>1. f \in [L -> T] /\ DOMAIN f = L /\ \A l \in L : f[l] = l[2]
      BY <1>7 DEF Surjection
    <3> HIDE DEF f, L, T
    <3> QED BY <3>1 DEF Injection, IsInjective
  <2>2. ASSUME \A k, l \in L : k[2] = l[2] => k = l,
               NEW n \in R, NEW a \in root_in[n], NEW b \in root_in[n]
        PROVE  a = b
    <3>1. <<a, n>> \in L /\ <<b, n>> \in L
      BY <1>4, <1>6
    <3>2. <<a, n>> = <<b, n>>
      BY <2>2, <3>1
    <3> QED BY <3>2
  <2>3. ASSUME \A n \in R : n # r => \A a, b \in root_in[n] : a = b,
               NEW k \in L, NEW l \in L, k[2] = l[2]
        PROVE  k = l
    <3>1. k[1] = l[1]
      BY <1>5, <2>3
    <3> QED BY <1>5, <2>3, <3>1
  <2> QED BY <2>1, <2>2, <2>3
<1> HIDE DEF f, L, T
<1>9. Cardinality(T) = Cardinality(L) <=> f \in Injection(L, T)
  BY <1>3, <1>7, FS_Surjection
<1>10. link_cnt[g] + 1 = len[g] <=> Cardinality(T) = Cardinality(L)
  BY <1>1, <1>2, <1>3
<1> QED BY <1>8, <1>9, <1>10

\* A root is found.
LEMMA RootFound ==
  ASSUME TypeOK, LinksAgree, MembersAgree, CountersExact, NEW g \in Graph, NEW r, IsRoot(g, r)
  PROVE  RootIfIsTree(g) = r
<1> DEFINE R == root_nodes[g]
<1>1. /\ R \in SUBSET Node /\ len[g] = Cardinality(R)
      /\ \A n \in R : n \in Node /\ root_out[n] \subseteq R
  BY GraphNodes
<1>2. /\ r \in R /\ r \in Node /\ root_in[r] = {}
      /\ \A n \in R : Reaches(Forward, r, n)
      /\ \A n \in R : n # r => \E p \in Node : root_in[n] = {p}
  BY RootSays
<1>3. link_cnt[g] + 1 = len[g]
  <2>1. \A n \in R : n # r => root_in[n] # {} /\ \A a, b \in root_in[n] : a = b
    BY <1>2
  <2> QED BY <1>2, <2>1, OneLinkLess
<1>4. First(R) \in R
  BY <1>1, <1>2, FirstIn
<1>5. Climb(g, First(R)) = r
  BY <1>4, ClimbToRoot
<1>6. Forward \in Links /\ \A n \in Node : Forward[n] = root_out[n]
  BY ReachTypes DEF Forward
<1>7. Span(Forward, r) = R
  <2>1. ClosedUnder(Forward, R)
    BY <1>1, <1>6 DEF ClosedUnder
  <2>2. Span(Forward, r) \subseteq R
    BY <1>1, <1>2, <2>1 DEF Span, Reaches
  <2>3. R \subseteq Span(Forward, r)
    BY <1>1, <1>2 DEF Span
  <2> QED BY <2>2, <2>3
<1>8. SuccCnt(r) = len[g]
  BY <1>1, <1>2, <1>6, <1>7, SearchAll DEF SuccCnt, QueueSucc
<1>9. r # Null
  BY <1>2, NullAssumption
<1> QED BY <1>3, <1>5, <1>8, <1>9 DEF RootIfIsTree

\* What is found is a root.
LEMMA FoundRoot ==
  ASSUME TypeOK, LinksAgree, MembersAgree, CountersExact, NEW g \in Graph,
         RootIfIsTree(g) # Null
  PROVE  IsRoot(g, RootIfIsTree(g))
<1> DEFINE R == root_nodes[g]
           r == Climb(g, First(R))
<1>1. /\ RootIfIsTree(g) = r /\ r # Null
      /\ link_cnt[g] + 1 = len[g] /\ SuccCnt(r) = len[g]
  BY DEF RootIfIsTree
<1>2. /\ R \in SUBSET Node /\ len[g] = Cardinality(R)
      /\ \A n \in R : n \in Node /\ root_out[n] \subseteq R
  BY GraphNodes
<1>3. R # {}
  <2>1. CASE R = {}
    <3>1. len[g] = 0
      BY <1>2, <2>1, FS_EmptySet
    <3>2. link_cnt[g] \in Nat
      <4>1. link_cnt[g] = Cardinality(LinksOf(g)) /\ IsFiniteSet(LinksOf(g))
        BY LinksOfFinite DEF CountersExact
      <4> QED BY <4>1, FS_CardinalityType
    <3> QED BY <1>1, <3>1, <3>2
  <2> QED BY <2>1
<1>4. First(R) \in R
  BY <1>2, <1>3, FirstIn
<1>5. r \in R /\ len_in[r] = 0
  BY <1>1, <1>4, ClimbEnds
<1> HIDE DEF r
<1>6. r \in Node /\ root_in[r] = {}
  BY <1>2, <1>5, OneUp
<1>7. Forward \in Links /\ \A n \in Node : Forward[n] = root_out[n]
  BY ReachTypes DEF Forward
<1>8. Span(Forward, r) = R
  <2>1. ClosedUnder(Forward, R)
    BY <1>2, <1>7 DEF ClosedUnder
  <2>2. Span(Forward, r) \subseteq R
    BY <1>2, <1>5, <2>1 DEF Span, Reaches
  <2>3. Cardinality(Span(Forward, r)) = Cardinality(R)
    BY <1>1, <1>2, <1>6, <1>7, SearchAll DEF SuccCnt, QueueSucc
  <2>4. IsFiniteSet(R)
    BY <1>2, NodesFinite
  <2> QED BY <2>2, <2>3, <2>4, FS_Subset
<1>9. ASSUME NEW n \in R, n # r
      PROVE  root_in[n] # {}
  <2> SUFFICES ASSUME root_in[n] = {}
               PROVE  FALSE
    OBVIOUS
  <2>1. ClosedUnder(Forward, Node \ {n})
    <3>1. \A x \in Node : n \notin root_out[x]
      BY <1>2 DEF LinksAgree
    <3> QED BY <1>7, <3>1 DEF ClosedUnder, Links
  <2>2. n \in Span(Forward, r)
    BY <1>8
  <2> QED BY <1>6, <1>9, <2>1, <2>2 DEF Span, Reaches
<1>10. \A n \in R : n # r => \A a, b \in root_in[n] : a = b
  BY <1>1, <1>5, <1>6, <1>9, OneLinkLess
<1>11. ASSUME NEW n \in R
       PROVE  CanReach(r, n) /\ Cardinality(root_in[n]) = IF n = r THEN 0 ELSE 1
  <2>1. CanReach(r, n)
    BY <1>2, <1>6, <1>8, ReachIs DEF Span
  <2>2. CASE n = r
    BY <1>6, <2>1, <2>2, FS_EmptySet
  <2>3. CASE n # r
    <3>1. PICK a : a \in root_in[n]
      BY <1>9, <2>3
    <3>2. root_in[n] = {a}
      BY <1>10, <2>3, <3>1
    <3>3. Cardinality({a}) = 1
      BY FS_Singleton, Zenon
    <3> QED BY <2>1, <2>3, <3>2, <3>3
  <2> QED BY <2>2, <2>3
<1> QED BY <1>1, <1>5, <1>11 DEF IsRoot

LEMMA TreeRight == TypeOK /\ LinksAgree /\ MembersAgree /\ CountersExact => TreeExact
<1> SUFFICES ASSUME TypeOK, LinksAgree, MembersAgree, CountersExact, NEW g \in Graph
             PROVE  IF \E r \in root_nodes[g] : IsRoot(g, r)
                    THEN RootIfIsTree(g) # Null /\ IsRoot(g, RootIfIsTree(g))
                    ELSE RootIfIsTree(g) = Null
  BY DEF TreeExact
<1>1. ASSUME NEW r \in root_nodes[g], IsRoot(g, r)
      PROVE  RootIfIsTree(g) # Null /\ IsRoot(g, RootIfIsTree(g))
  <2>1. RootIfIsTree(g) = r
    BY <1>1, RootFound
  <2>2. r # Null
    BY GraphNodes, NullAssumption
  <2> QED BY <1>1, <2>1, <2>2
<1>2. ASSUME RootIfIsTree(g) # Null
      PROVE  \E r \in root_nodes[g] : IsRoot(g, r)
  BY <1>2, FoundRoot DEF IsRoot
<1> QED BY <1>1, <1>2

-----------------------------------------------------------------------------
(* The search for a cycle. *)

ExploreAnswer == [cycle : BOOLEAN, local : SUBSET Node, global : SUBSET Node]

ExploreTables == [SUBSET Node -> [SUBSET Node -> [SUBSET Node -> ExploreAnswer]]]

ExploreRound(ways, explore, todo, local, global) ==
  LET m == First(todo)
      rest == todo \ {m}
  IN  IF todo = {} THEN [cycle |-> FALSE, local |-> local, global |-> global]
      ELSE IF m \in local THEN [cycle |-> TRUE, local |-> local, global |-> global]
      ELSE IF m \in global THEN explore[rest][local][global]
      ELSE LET a == explore[ways[m]][local \cup {m}][global]
           IN  IF a.cycle THEN a ELSE explore[rest][a.local][a.global \cup {m}]

ExploreRounds(ways, explore) ==
  [todo \in SUBSET Node |-> [local \in SUBSET Node |-> [global \in SUBSET Node |->
     ExploreRound(ways, explore, todo, local, global)]]]

ExploreGood(ways, explore, k) ==
  /\ explore \in ExploreTables
  /\ \A todo, local, global \in SUBSET Node :
       Left(todo, local) < k =>
         /\ explore[todo][local][global] = ExploreRound(ways, explore, todo, local, global)
         /\ local \subseteq explore[todo][local][global].local

LEMMA ExploreTableType ==
  ASSUME NEW explore \in ExploreTables,
         NEW todo \in SUBSET Node, NEW local \in SUBSET Node, NEW global \in SUBSET Node
  PROVE  /\ explore[todo][local][global] \in ExploreAnswer
         /\ explore[todo][local][global].cycle \in BOOLEAN
         /\ explore[todo][local][global].local \in SUBSET Node
         /\ explore[todo][local][global].global \in SUBSET Node
<1>1. explore[todo] \in [SUBSET Node -> [SUBSET Node -> ExploreAnswer]]
  BY DEF ExploreTables
<1>2. explore[todo][local] \in [SUBSET Node -> ExploreAnswer]
  BY <1>1
<1>3. explore[todo][local][global] \in ExploreAnswer
  BY <1>2
<1> QED BY <1>3 DEF ExploreAnswer

LEMMA ExploreRoundsAt ==
  ASSUME NEW ways, NEW explore,
         NEW todo \in SUBSET Node, NEW local \in SUBSET Node, NEW global \in SUBSET Node
  PROVE  ExploreRounds(ways, explore)[todo][local][global]
           = ExploreRound(ways, explore, todo, local, global)
<1>1. ExploreRounds(ways, explore)[todo]
        = [l \in SUBSET Node |-> [x \in SUBSET Node |-> ExploreRound(ways, explore, todo, l, x)]]
  BY Zenon DEF ExploreRounds
<1>2. ExploreRounds(ways, explore)[todo][local]
        = [x \in SUBSET Node |-> ExploreRound(ways, explore, todo, local, x)]
  BY <1>1, Zenon
<1> QED BY <1>2, Zenon

\* One more round reaches one further.
LEMMA ExploreGoodNext ==
  ASSUME NEW ways \in Links, NEW k \in Nat, NEW explore, ExploreGood(ways, explore, k)
  PROVE  ExploreGood(ways, ExploreRounds(ways, explore), k + 1)
<1> DEFINE next == ExploreRounds(ways, explore)
<1>0. explore \in ExploreTables
  BY DEF ExploreGood
<1>1. ASSUME NEW todo \in SUBSET Node, NEW local \in SUBSET Node, NEW global \in SUBSET Node
      PROVE  /\ next[todo][local][global] = ExploreRound(ways, explore, todo, local, global)
             /\ next[todo][local][global] \in ExploreAnswer
             /\ Left(todo, local) < k + 1 =>
                  /\ next[todo][local][global] = ExploreRound(ways, next, todo, local, global)
                  /\ local \subseteq next[todo][local][global].local
  <2> DEFINE m == First(todo)
             rest == todo \ {m}
             a == explore[ways[m]][local \cup {m}][global]
             b == explore[rest][a.local][a.global \cup {m}]
  <2>1. next[todo][local][global] = ExploreRound(ways, explore, todo, local, global)
    BY ExploreRoundsAt
  <2> HIDE DEF next
  <2>2. CASE todo = {}
    <3>1. next[todo][local][global] = [cycle |-> FALSE, local |-> local, global |-> global]
          /\ ExploreRound(ways, next, todo, local, global)
               = [cycle |-> FALSE, local |-> local, global |-> global]
      BY <2>1, <2>2 DEF ExploreRound
    <3> QED BY <2>1, <3>1 DEF ExploreAnswer
  <2>3. CASE todo # {} /\ m \in local
    <3>1. next[todo][local][global] = [cycle |-> TRUE, local |-> local, global |-> global]
          /\ ExploreRound(ways, next, todo, local, global)
               = [cycle |-> TRUE, local |-> local, global |-> global]
      BY <2>1, <2>3 DEF ExploreRound
    <3> QED BY <2>1, <3>1 DEF ExploreAnswer
  <2>4. CASE todo # {} /\ m \notin local
    <3>1. m \in todo /\ rest \in SUBSET Node /\ m \in Node
      BY <2>4, FirstIn
    <3>2. ASSUME NEW t \in SUBSET Node, NEW l \in SUBSET Node, NEW x \in SUBSET Node,
                 Left(t, l) < Left(todo, local), Left(todo, local) < k + 1
          PROVE  next[t][l][x] = explore[t][l][x] /\ l \subseteq explore[t][l][x].local
      <4>1. Left(t, l) < k
        <5>1. Left(t, l) \in Nat /\ Left(todo, local) \in Nat
          BY LeftType
        <5> QED BY <3>2, <5>1
      <4>2. next[t][l][x] = ExploreRound(ways, explore, t, l, x)
        BY ExploreRoundsAt DEF next
      <4> QED BY <4>1, <4>2 DEF ExploreGood
    <3> HIDE DEF m
    <3>3. CASE m \in global
      <4>1. /\ ExploreRound(ways, explore, todo, local, global) = explore[rest][local][global]
            /\ ExploreRound(ways, next, todo, local, global) = next[rest][local][global]
        BY <2>4, <3>3, Zenon DEF ExploreRound, m
      <4>2. Left(rest, local) < Left(todo, local)
        BY <3>1, LeftInLoop
      <4>3. explore[rest][local][global] \in ExploreAnswer
        BY <1>0, <3>1, ExploreTableType
      <4>4. Left(todo, local) < k + 1 =>
              /\ next[rest][local][global] = explore[rest][local][global]
              /\ local \subseteq explore[rest][local][global].local
        BY <3>1, <3>2, <4>2
      <4> QED BY <2>1, <4>1, <4>3, <4>4
    <3>4. CASE m \notin global
      <4>1. ways[m] \in SUBSET Node /\ local \cup {m} \in SUBSET Node
        BY <3>1 DEF Links
      <4>2. /\ a \in ExploreAnswer /\ a.cycle \in BOOLEAN
            /\ a.local \in SUBSET Node /\ a.global \in SUBSET Node /\ a.global \cup {m} \in SUBSET Node
        <5>1. /\ a \in ExploreAnswer /\ a.cycle \in BOOLEAN
              /\ a.local \in SUBSET Node /\ a.global \in SUBSET Node
          BY <1>0, <4>1, ExploreTableType
        <5> QED BY <3>1, <5>1
      <4>3. b \in ExploreAnswer /\ b.local \in SUBSET Node
        BY <1>0, <3>1, <4>2, ExploreTableType
      <4>4. ExploreRound(ways, explore, todo, local, global) = IF a.cycle THEN a ELSE b
        BY <2>4, <3>4, Zenon DEF ExploreRound, m
      <4>5. ASSUME Left(todo, local) < k + 1
            PROVE  /\ ExploreRound(ways, next, todo, local, global) = IF a.cycle THEN a ELSE b
                   /\ local \subseteq a.local /\ a.local \subseteq b.local
        <5>1. next[ways[m]][local \cup {m}][global] = a /\ local \cup {m} \subseteq a.local
          BY <2>4, <3>1, <3>2, <4>1, <4>5, LeftInVisit
        <5>2. Left(rest, a.local) < Left(todo, local)
          <6> HIDE DEF a
          <6> QED BY <3>1, <4>2, <5>1, LeftInLoop
        <5>3. next[rest][a.local][a.global \cup {m}] = b /\ a.local \subseteq b.local
          BY <3>1, <3>2, <4>2, <4>5, <5>2
        <5>4. ExploreRound(ways, next, todo, local, global)
                = LET aa == next[ways[m]][local \cup {m}][global]
                  IN  IF aa.cycle THEN aa ELSE next[rest][aa.local][aa.global \cup {m}]
          BY <2>4, <3>4, Zenon DEF ExploreRound, m
        <5> QED BY <5>1, <5>3, <5>4, Zenon
      <4> HIDE DEF a, b
      <4> QED BY <2>1, <4>2, <4>3, <4>4, <4>5
    <3> QED BY <3>3, <3>4
  <2> QED BY <2>2, <2>3, <2>4
<1>2. next \in ExploreTables
  <2>1. next = [todo \in SUBSET Node |-> [local \in SUBSET Node |-> [global \in SUBSET Node |->
                  next[todo][local][global]]]]
    BY <1>1, Zenon DEF ExploreRounds
  <2> HIDE DEF next
  <2>2. ASSUME NEW todo \in SUBSET Node, NEW local \in SUBSET Node
        PROVE  [global \in SUBSET Node |-> next[todo][local][global]]
                 \in [SUBSET Node -> ExploreAnswer]
    BY <1>1
  <2>3. ASSUME NEW todo \in SUBSET Node
        PROVE  [local \in SUBSET Node |-> [global \in SUBSET Node |-> next[todo][local][global]]]
                 \in [SUBSET Node -> [SUBSET Node -> ExploreAnswer]]
    BY <2>2
  <2> QED BY <2>1, <2>3, Zenon DEF ExploreTables
<1> HIDE DEF next
<1> QED BY <1>1, <1>2 DEF ExploreGood, next

LEMMA ExploreGoodEvery ==
  ASSUME NEW ways \in Links, NEW k \in Nat
  PROVE  \E explore : ExploreGood(ways, explore, k)
<1> DEFINE I == {j \in Nat : ~ \E explore : ExploreGood(ways, explore, j)}
<1>1. SUFFICES ASSUME I # {}
               PROVE  FALSE
  OBVIOUS
<1>2. PICK j \in I : \A i \in I : ~ i < j
  BY <1>1, LeastNumber
<1>3. CASE j = 0
  <2> DEFINE none == [cycle |-> FALSE, local |-> {}, global |-> {}]
             row == [global \in SUBSET Node |-> none]
             rows == [local \in SUBSET Node |-> row]
             empty == [todo \in SUBSET Node |-> rows]
  <2>1. none \in ExploreAnswer
    BY DEF ExploreAnswer
  <2>2. empty \in ExploreTables
    <3> HIDE DEF none
    <3>1. row \in [SUBSET Node -> ExploreAnswer]
      BY <2>1
    <3> HIDE DEF row
    <3>2. rows \in [SUBSET Node -> [SUBSET Node -> ExploreAnswer]]
      BY <3>1
    <3> HIDE DEF rows
    <3> QED BY <3>2 DEF ExploreTables
  <2> HIDE DEF empty
  <2>3. \A todo, local \in SUBSET Node : ~ Left(todo, local) < 0
    BY LeftType
  <2>4. ExploreGood(ways, empty, 0)
    BY <2>2, <2>3 DEF ExploreGood
  <2> QED BY <1>2, <1>3, <2>4
<1>4. CASE j # 0
  <2>1. j - 1 \in Nat /\ j - 1 < j /\ j - 1 + 1 = j
    BY <1>4
  <2>2. PICK explore : ExploreGood(ways, explore, j - 1)
    BY <1>2, <2>1
  <2> DEFINE i == j - 1
  <2> HIDE DEF i
  <2>3. i \in Nat /\ ExploreGood(ways, explore, i) /\ i + 1 = j
    BY <2>1, <2>2 DEF i
  <2>4. ExploreGood(ways, ExploreRounds(ways, explore), i + 1)
    BY <2>3, ExploreGoodNext
  <2> QED BY <1>2, <2>3, <2>4
<1> QED BY <1>3, <1>4

LEMMA ExploreFits ==
  ASSUME NEW ways \in Links
  PROVE  \E explore : explore = ExploreRounds(ways, explore)
<1>1. PICK explore : ExploreGood(ways, explore, Most)
  BY LeftBounded, ExploreGoodEvery
<1>2. explore \in ExploreTables
      /\ \A todo, local, global \in SUBSET Node :
           explore[todo][local][global] = ExploreRound(ways, explore, todo, local, global)
  BY <1>1, LeftBounded DEF ExploreGood
<1>3. explore = [todo \in SUBSET Node |-> [local \in SUBSET Node |-> [global \in SUBSET Node |->
                   explore[todo][local][global]]]]
  <2>1. \A todo \in SUBSET Node : explore[todo] \in [SUBSET Node -> [SUBSET Node -> ExploreAnswer]]
    BY <1>2 DEF ExploreTables
  <2>2. ASSUME NEW todo \in SUBSET Node, NEW local \in SUBSET Node
        PROVE  explore[todo][local] = [global \in SUBSET Node |-> explore[todo][local][global]]
    <3>1. explore[todo][local] \in [SUBSET Node -> ExploreAnswer]
      BY <2>1
    <3> QED BY <3>1
  <2>3. ASSUME NEW todo \in SUBSET Node
        PROVE  explore[todo] = [local \in SUBSET Node |-> [global \in SUBSET Node |->
                                  explore[todo][local][global]]]
    <3>1. explore[todo] = [local \in SUBSET Node |-> explore[todo][local]]
      BY <2>1
    <3> QED BY <2>2, <3>1, Zenon
  <2>4. explore = [todo \in SUBSET Node |-> explore[todo]]
    BY <1>2 DEF ExploreTables
  <2> QED BY <2>3, <2>4, Zenon
<1> DEFINE Round(todo, local, global) == ExploreRound(ways, explore, todo, local, global)
<1>4. \A todo, local, global \in SUBSET Node : explore[todo][local][global] = Round(todo, local, global)
  BY <1>2
<1> HIDE DEF Round
<1>5. [todo \in SUBSET Node |-> [local \in SUBSET Node |-> [global \in SUBSET Node |->
         explore[todo][local][global]]]]
      = [todo \in SUBSET Node |-> [local \in SUBSET Node |-> [global \in SUBSET Node |->
         Round(todo, local, global)]]]
  <2>1. ASSUME NEW todo \in SUBSET Node, NEW local \in SUBSET Node
        PROVE  [global \in SUBSET Node |-> explore[todo][local][global]]
                 = [global \in SUBSET Node |-> Round(todo, local, global)]
    BY <1>4
  <2>2. ASSUME NEW todo \in SUBSET Node
        PROVE  [local \in SUBSET Node |-> [global \in SUBSET Node |-> explore[todo][local][global]]]
                 = [local \in SUBSET Node |-> [global \in SUBSET Node |-> Round(todo, local, global)]]
    BY <2>1, Zenon
  <2> QED BY <2>2, Zenon
<1>6. explore = ExploreRounds(ways, explore)
  BY <1>3, <1>5, Zenon DEF ExploreRounds, Round
<1> QED BY <1>6

\* Every part of V has a node that no link from that part enters.
Layered(ways, V) == \A S \in SUBSET V : S # {} => \E x \in S : \A y \in S : x \notin ways[y]

\* What an answer says of a loop over todo, for a search that has been to local.
ExploreSays(ways, todo, local, global, s) ==
  /\ s \in ExploreAnswer
  /\ local \subseteq s.local
  /\ ~ s.cycle =>
       /\ s.global = global \cup (s.local \ local)
       /\ todo \subseteq s.global /\ todo \cap local = {}
       /\ \A x \in s.local \ local : ways[x] \subseteq s.global /\ ways[x] \cap local = {}
       /\ Layered(ways, s.local \ local)

LEMMA ExploreSaysRight ==
  ASSUME NEW ways \in Links, NEW explore, explore = ExploreRounds(ways, explore),
         NEW todo \in SUBSET Node, NEW local \in SUBSET Node, NEW global \in SUBSET Node
  PROVE  ExploreSays(ways, todo, local, global, explore[todo][local][global])
<1>0. \A t, l, x \in SUBSET Node : explore[t][l][x] = ExploreRound(ways, explore, t, l, x)
  BY ExploreRoundsAt
<1> DEFINE Fine(t, l) == \A x \in SUBSET Node : ExploreSays(ways, t, l, x, explore[t][l][x])
           B == {b \in (SUBSET Node) \X (SUBSET Node) : ~ Fine(b[1], b[2])}
<1>1. SUFFICES ASSUME B # {}
               PROVE  FALSE
  <2>1. <<todo, local>> \notin B
    BY <1>1
  <2>2. Fine(todo, local)
    BY <2>1
  <2> QED BY <2>2
<1> HIDE DEF Fine
<1>2. PICK t \in SUBSET Node, l \in SUBSET Node :
        /\ <<t, l>> \in B
        /\ \A t2, l2 \in SUBSET Node : Left(t2, l2) < Left(t, l) => <<t2, l2>> \notin B
  BY <1>1, LeastLoop
<1>3. \A t2, l2, x2 \in SUBSET Node :
        Left(t2, l2) < Left(t, l) => ExploreSays(ways, t2, l2, x2, explore[t2][l2][x2])
  <2>1. \A t2, l2 \in SUBSET Node : Left(t2, l2) < Left(t, l) => Fine(t2, l2)
    BY <1>2
  <2> QED BY <2>1 DEF Fine
<1>4. PICK x \in SUBSET Node : ~ ExploreSays(ways, t, l, x, explore[t][l][x])
  <2>1. ~ Fine(t, l)
    BY <1>2
  <2> QED BY <2>1 DEF Fine
<1> HIDE DEF B
<1> DEFINE m == First(t)
           rest == t \ {m}
           a == explore[ways[m]][l \cup {m}][x]
           b == explore[rest][a.local][a.global \cup {m}]
<1>5. explore[t][l][x] = ExploreRound(ways, explore, t, l, x)
  BY <1>0
<1>6. CASE t = {}
  <2> DEFINE none == [cycle |-> FALSE, local |-> l, global |-> x]
  <2>1. explore[t][l][x] = none
    BY <1>6, <1>5 DEF ExploreRound
  <2>2. none \in ExploreAnswer /\ ~ none.cycle /\ none.local = l /\ none.global = x
    BY DEF ExploreAnswer
  <2> HIDE DEF none
  <2>3. ExploreSays(ways, t, l, x, none)
    BY <1>6, <2>2 DEF ExploreSays, Layered
  <2> QED BY <1>4, <2>1, <2>3
<1>7. CASE t # {}
  <2>1. m \in t /\ m \in Node /\ rest \in SUBSET Node /\ t = {m} \cup rest
    BY <1>7, FirstIn
  <2>2. CASE m \in l
    <3> DEFINE flagged == [cycle |-> TRUE, local |-> l, global |-> x]
    <3>1. explore[t][l][x] = flagged
      BY <1>7, <1>5, <2>2, Zenon DEF ExploreRound
    <3>2. flagged \in ExploreAnswer /\ flagged.cycle /\ flagged.local = l
      BY DEF ExploreAnswer
    <3> HIDE DEF flagged
    <3> QED BY <1>4, <3>1, <3>2 DEF ExploreSays
  <2>3. CASE m \notin l /\ m \in x
    <3>1. explore[t][l][x] = explore[rest][l][x]
      BY <1>7, <1>5, <2>3, Zenon DEF ExploreRound
    <3>2. ExploreSays(ways, rest, l, x, explore[rest][l][x])
      BY <1>3, <2>1, LeftInLoop
    <3> HIDE DEF m
    <3> DEFINE s == explore[rest][l][x]
    <3> HIDE DEF s
    <3>3. ExploreSays(ways, rest, l, x, s)
      BY <3>2 DEF s
    <3>4. ExploreSays(ways, t, l, x, s)
      BY <2>1, <2>3, <3>3 DEF ExploreSays
    <3> QED BY <1>4, <3>1, <3>4 DEF s
  <2>4. CASE m \notin l /\ m \notin x
    <3>1. explore[t][l][x] = IF a.cycle THEN a ELSE b
      BY <1>7, <1>5, <2>4, Zenon DEF ExploreRound
    <3> HIDE DEF m
    <3>2. ways[m] \in SUBSET Node /\ l \cup {m} \in SUBSET Node
      BY <2>1 DEF Links
    <3>3. ExploreSays(ways, ways[m], l \cup {m}, x, a)
      BY <1>3, <2>1, <2>4, <3>2, LeftInVisit
    <3>4. /\ a \in ExploreAnswer /\ a.cycle \in BOOLEAN
          /\ a.local \in SUBSET Node /\ a.global \in SUBSET Node
          /\ l \cup {m} \subseteq a.local
      BY <3>3 DEF ExploreSays, ExploreAnswer
    <3> HIDE DEF a
    <3>5. CASE a.cycle
      <4>1. ExploreSays(ways, t, l, x, a)
        BY <3>4, <3>5 DEF ExploreSays
      <4> QED BY <1>4, <3>1, <3>5, <4>1
    <3>6. CASE ~ a.cycle
      <4>0. a.global \cup {m} \in SUBSET Node
        BY <2>1, <3>4
      <4>1. ExploreSays(ways, rest, a.local, a.global \cup {m}, b)
        BY <1>3, <2>1, <3>4, <4>0, LeftInLoop
      <4>2. /\ b \in ExploreAnswer /\ b.cycle \in BOOLEAN
            /\ b.local \in SUBSET Node /\ b.global \in SUBSET Node
            /\ a.local \subseteq b.local
        BY <4>1 DEF ExploreSays, ExploreAnswer
      <4> HIDE DEF b
      <4>3. ASSUME ~ b.cycle
            PROVE  /\ b.global = x \cup (b.local \ l)
                   /\ t \subseteq b.global /\ t \cap l = {}
                   /\ \A y \in b.local \ l : ways[y] \subseteq b.global /\ ways[y] \cap l = {}
                   /\ Layered(ways, b.local \ l)
        <5> DEFINE A == a.local \ (l \cup {m})
                   C == b.local \ a.local
        <5>1. /\ a.global = x \cup A
              /\ ways[m] \subseteq a.global /\ ways[m] \cap (l \cup {m}) = {}
              /\ \A y \in A : ways[y] \subseteq a.global /\ ways[y] \cap (l \cup {m}) = {}
              /\ Layered(ways, A)
          BY <3>3, <3>6 DEF ExploreSays
        <5>2. /\ b.global = a.global \cup {m} \cup C
              /\ rest \subseteq b.global /\ rest \cap a.local = {}
              /\ \A y \in C : ways[y] \subseteq b.global /\ ways[y] \cap a.local = {}
              /\ Layered(ways, C)
          BY <4>1, <4>3 DEF ExploreSays
        <5>3. b.local \ l = A \cup C \cup {m} /\ l \subseteq a.local /\ m \in a.local /\ A \subseteq a.local
          BY <2>4, <3>4, <4>2
        <5> HIDE DEF A, C
        <5>4. b.global = x \cup (b.local \ l)
          BY <5>1, <5>2, <5>3
        <5>5. t \subseteq b.global /\ t \cap l = {}
          BY <2>1, <2>4, <5>2, <5>3
        <5>6. \A y \in b.local \ l : ways[y] \subseteq b.global /\ ways[y] \cap l = {}
          BY <5>1, <5>2, <5>3
        <5>7. ASSUME NEW S \in SUBSET (b.local \ l), S # {}
              PROVE  \E z \in S : \A y \in S : z \notin ways[y]
          <6>1. CASE m \in S
            <7>1. \A y \in S : m \notin ways[y]
              BY <5>1, <5>2, <5>3
            <7> QED BY <6>1, <7>1
          <6>2. CASE m \notin S /\ S \cap A # {}
            <7>1. PICK z \in S \cap A : \A y \in S \cap A : z \notin ways[y]
              BY <5>1, <6>2 DEF Layered
            <7>2. \A y \in S \cap C : z \notin ways[y]
              BY <5>2, <5>3
            <7> QED BY <5>3, <6>2, <7>1, <7>2
          <6>3. CASE m \notin S /\ S \cap A = {}
            <7>1. S \in SUBSET C
              BY <5>3, <6>3
            <7> QED BY <5>2, <5>7, <7>1 DEF Layered
          <6> QED BY <6>1, <6>2, <6>3
        <5>8. Layered(ways, b.local \ l)
          BY <5>7 DEF Layered
        <5> QED BY <5>4, <5>5, <5>6, <5>8
      <4>4. ExploreSays(ways, t, l, x, b)
        <5>1. l \subseteq b.local
          BY <3>4, <4>2
        <5> QED BY <4>2, <4>3, <5>1 DEF ExploreSays
      <4> QED BY <1>4, <3>1, <3>6, <4>4
    <3> QED BY <3>5, <3>6
  <2> QED BY <2>2, <2>3, <2>4
<1> QED BY <1>6, <1>7

\* A reached node other than the start is reached over a link.
LEMMA LastLink ==
  ASSUME NEW R \in Links, NEW a \in Node, NEW b \in Node, a # b, Reaches(R, a, b)
  PROVE  \E c \in R[a] : Reaches(R, c, b)
<1> DEFINE S == {a} \cup UNION {Span(R, c) : c \in R[a]}
<1>0. R[a] \in SUBSET Node
  BY DEF Links
<1>1. \A c \in R[a] : c \in Span(R, c) /\ Span(R, c) \in SUBSET Node /\ ClosedUnder(R, Span(R, c))
  BY <1>0, SpanClosed
<1>2. S \in SUBSET Node /\ a \in S
  BY <1>1
<1>3. ClosedUnder(R, S)
  BY <1>1 DEF ClosedUnder
<1>4. b \in S
  BY <1>2, <1>3 DEF Reaches
<1> QED BY <1>4 DEF Span

\* When the links from V lead into V or to nodes on no cycle, and V is layered, no
\* node of V is on a cycle.
LEMMA LayeredClean ==
  ASSUME NEW R \in Links, NEW V \in SUBSET Node, NEW G \in SUBSET Node, Layered(R, V),
         \A x \in V : R[x] \subseteq V \cup G,
         \A x \in G : ~ Cyclic(R, x)
  PROVE  \A x \in V : ~ Cyclic(R, x)
<1> SUFFICES ASSUME NEW x \in V, Cyclic(R, x)
             PROVE  FALSE
  OBVIOUS
<1>1. PICK m \in R[x] : Reaches(R, m, x)
  BY DEF Cyclic
<1>2. x \in Node /\ m \in Node
  BY <1>1 DEF Links
\* The nodes on a way from x to x, and those from which no way leads back.
<1> DEFINE S == {y \in Node : Reaches(R, x, y) /\ Reaches(R, y, x)}
           W == {y \in Node : Reaches(R, x, y) /\ (y \in V \/ ~ Reaches(R, y, x))}
<1>3. x \in S /\ x \in W
  BY <1>2 DEF Reaches
<1>4. ASSUME NEW y \in S
      PROVE  Cyclic(R, y) /\ \E z \in S : y \in R[z]
  <2>1. y \in Node /\ Reaches(R, x, y) /\ Reaches(R, y, x)
    OBVIOUS
  <2>2. Cyclic(R, y)
    <3>1. CASE y = x
      BY <3>1
    <3>2. CASE y # x
      <4>1. PICK c \in R[y] : Reaches(R, c, x)
        BY <1>2, <2>1, <3>2, LastLink
      <4>2. c \in Node /\ Reaches(R, c, y)
        BY <1>2, <2>1, <4>1, ReachesComposes DEF Links
      <4> QED BY <4>1, <4>2 DEF Cyclic
    <3> QED BY <3>1, <3>2
  <2>3. PICK c \in R[y] : Reaches(R, c, y)
    BY <2>2 DEF Cyclic
  <2>4. c \in Node
    BY <2>1, <2>3 DEF Links
  <2>5. ASSUME \A z \in S : y \notin R[z]
        PROVE  FALSE
    <3> DEFINE T == {z \in Node : Reaches(R, y, z) /\ z # y}
    <3>1. Reaches(R, y, c) /\ c # y
      <4>1. ClosedUnder(R, Span(R, y)) /\ y \in Span(R, y)
        BY <2>1, SpanClosed
      <4>2. Reaches(R, y, c)
        BY <2>3, <4>1 DEF ClosedUnder, Span
      <4> QED BY <2>3, <2>5, <4>2
    <3>2. ClosedUnder(R, T \cup {z \in Node : ~ Reaches(R, z, y)})
      <4> SUFFICES ASSUME NEW z \in T \cup {u \in Node : ~ Reaches(R, u, y)}, NEW w \in R[z]
                   PROVE  w \in T \cup {u \in Node : ~ Reaches(R, u, y)}
        BY DEF ClosedUnder
      <4>1. z \in Node /\ w \in Node
        BY DEF Links
      <4>2. Reaches(R, z, w)
        BY <4>1 DEF Reaches, ClosedUnder
      <4>3. CASE z \in T /\ Reaches(R, w, y)
        <5>1. Reaches(R, y, z) /\ Reaches(R, z, y) /\ Reaches(R, y, w)
          BY <2>1, <4>1, <4>2, <4>3, ReachesComposes
        <5>2. z \in S
          BY <1>2, <2>1, <4>1, <5>1, ReachesComposes
        <5>3. w # y
          BY <2>5, <5>2
        <5> QED BY <4>1, <5>1, <5>3
      <4>4. CASE ~ Reaches(R, z, y)
        <5>1. ~ Reaches(R, w, y)
          BY <2>1, <4>1, <4>2, <4>4, ReachesComposes
        <5> QED BY <4>1, <5>1
      <4> QED BY <4>1, <4>3, <4>4
    <3>3. c \in T
      BY <2>4, <3>1
    <3>4. y \notin T \cup {z \in Node : ~ Reaches(R, z, y)}
      BY DEF Reaches
    <3> DEFINE U == T \cup {z \in Node : ~ Reaches(R, z, y)}
    <3>5. U \in SUBSET Node /\ c \in U /\ ClosedUnder(R, U) /\ y \notin U
      BY <3>2, <3>3, <3>4
    <3> HIDE DEF U
    <3> QED BY <2>3, <3>5 DEF Reaches
  <2> QED BY <2>2, <2>5
<1>5. ClosedUnder(R, W)
  <2> SUFFICES ASSUME NEW y \in W, NEW w \in R[y], ~ (w \in W)
               PROVE  FALSE
    BY DEF ClosedUnder
  <2>1. y \in Node /\ w \in Node
    BY DEF Links
  <2>2. Reaches(R, y, w)
    BY <2>1 DEF Reaches, ClosedUnder
  <2>3. Reaches(R, x, y)
    OBVIOUS
  <2>4. Reaches(R, x, w)
    BY <1>2, <2>1, <2>2, <2>3, ReachesComposes
  <2>5. Reaches(R, w, x) /\ w \notin V
    BY <2>1, <2>4
  <2>6. Reaches(R, y, x)
    BY <1>2, <2>1, <2>2, <2>5, ReachesComposes
  <2>7. y \in V
    BY <2>6
  <2>8. w \in G
    BY <2>5, <2>7
  <2>9. Cyclic(R, w)
    BY <1>4, <2>1, <2>4, <2>5
  <2> QED BY <2>8, <2>9
<1>6. S \in SUBSET V
  BY <1>2, <1>3, <1>5 DEF Reaches
<1>7. PICK z \in S : \A y \in S : z \notin R[y]
  BY <1>3, <1>6 DEF Layered
<1> QED BY <1>4, <1>7

\* What an answer says of the search from n, after which n is done with when keep
\* says so: when nothing done before is on a cycle, then nothing done now is.
DetectSays(ways, keep, n, done, d) ==
  /\ d \in ExploreAnswer
  /\ ~ d.cycle =>
       /\ done \subseteq d.global
       /\ keep => n \in d.global
       /\ (\A x \in done : ~ Cyclic(ways, x)) => \A x \in d.global \cup {n} : ~ Cyclic(ways, x)

LEMMA DetectSaysRight ==
  ASSUME NEW ways \in Links, NEW keep \in BOOLEAN, NEW n \in Node, NEW done \in SUBSET Node
  PROVE  DetectSays(ways, keep, n, done, DetectACycle(ways, keep, n, done))
<1> DEFINE Fits(e) == e = ExploreRounds(ways, e)
           explore == CHOOSE e : Fits(e)
           c == explore[ways[n]][{n}][done]
           k == [c EXCEPT !.global = @ \cup {n}]
           d == DetectACycle(ways, keep, n, done)
<1>1. d = IF c.cycle \/ ~ keep THEN c ELSE k
  BY Zenon DEF DetectACycle, ExploreRounds, ExploreRound
<1>2. explore = ExploreRounds(ways, explore)
  <2>1. \E e : Fits(e)
    BY ExploreFits
  <2> QED BY <2>1, Zenon
<1> HIDE DEF explore, Fits
<1>3. ways[n] \in SUBSET Node /\ {n} \in SUBSET Node
  BY DEF Links
<1>4. ExploreSays(ways, ways[n], {n}, done, c)
  BY <1>2, <1>3, ExploreSaysRight
<1> HIDE DEF c
<1>5. /\ c \in ExploreAnswer /\ c.cycle \in BOOLEAN
      /\ c.local \in SUBSET Node /\ c.global \in SUBSET Node /\ n \in c.local
  BY <1>4 DEF ExploreSays, ExploreAnswer
<1>6. k \in ExploreAnswer /\ k.cycle = c.cycle /\ k.global = c.global \cup {n}
  BY <1>5 DEF ExploreAnswer
<1> HIDE DEF k, d
<1>7. /\ d \in ExploreAnswer /\ d.cycle = c.cycle
      /\ ~ d.cycle => d.global = IF keep THEN c.global \cup {n} ELSE c.global
  BY <1>1, <1>5, <1>6
<1>8. ASSUME ~ c.cycle
      PROVE  /\ done \subseteq c.global
             /\ (\A x \in done : ~ Cyclic(ways, x))
                  => \A x \in c.global \cup {n} : ~ Cyclic(ways, x)
  <2> DEFINE A == c.local \ {n}
             V == c.local
  <2>1. /\ c.global = done \cup A
        /\ ways[n] \subseteq c.global /\ ways[n] \cap {n} = {}
        /\ \A x \in A : ways[x] \subseteq c.global /\ ways[x] \cap {n} = {}
        /\ Layered(ways, A)
    BY <1>4, <1>8 DEF ExploreSays
  <2>2. V = A \cup {n} /\ V \in SUBSET Node
    BY <1>5
  <2> HIDE DEF A, V
  <2>3. ASSUME NEW S \in SUBSET V, S # {}
        PROVE  \E x \in S : \A y \in S : x \notin ways[y]
    <3>1. CASE n \in S
      <4>1. \A y \in S : n \notin ways[y]
        BY <2>1, <2>2
      <4> QED BY <3>1, <4>1
    <3>2. CASE n \notin S
      <4>1. S \in SUBSET A
        BY <2>2, <3>2
      <4> QED BY <2>1, <2>3, <4>1 DEF Layered
    <3> QED BY <3>1, <3>2
  <2>4. Layered(ways, V)
    BY <2>3 DEF Layered
  <2>5. \A x \in V : ways[x] \subseteq V \cup done
    BY <2>1, <2>2
  <2>6. (\A x \in done : ~ Cyclic(ways, x)) => \A x \in V : ~ Cyclic(ways, x)
    BY <2>2, <2>4, <2>5, LayeredClean
  <2> QED BY <2>1, <2>2, <2>6
<1>9. ~ d.cycle =>
        /\ done \subseteq d.global
        /\ keep => n \in d.global
        /\ (\A x \in done : ~ Cyclic(ways, x)) => \A x \in d.global \cup {n} : ~ Cyclic(ways, x)
  BY <1>7, <1>8
<1> QED BY <1>7, <1>9 DEF d, DetectSays

\* A node is on a cycle in one direction when it is in the other.
LEMMA BothDirections ==
  ASSUME TypeOK, LinksAgree, NEW n \in Node
  PROVE  /\ OnCycle(n) <=> Cyclic(Forward, n)
         /\ Cyclic(Forward, n) <=> Cyclic(Backward, n)
<1>1. OnCycle(n) <=> Cyclic(Forward, n)
  BY OnCycleIsCyclic DEF Forward
<1>2. Forward \in Links /\ Backward \in Links
  BY ReachTypes
<1>3. \A x, y \in Node : /\ y \in Forward[x] <=> x \in Backward[y]
                         /\ Reaches(Forward, x, y) <=> Reaches(Backward, y, x)
  BY ReachIs DEF LinksAgree, Forward, Backward
<1>4. ASSUME NEW R \in Links, NEW Q \in Links,
             \A x, y \in Node : /\ y \in R[x] <=> x \in Q[y]
                                /\ Reaches(R, x, y) <=> Reaches(Q, y, x),
             Cyclic(R, n)
      PROVE  Cyclic(Q, n)
  <2>1. PICK m \in R[n] : Reaches(R, m, n)
    BY <1>4 DEF Cyclic
  <2>2. m \in Node /\ n \in Q[m] /\ Reaches(Q, n, m)
    BY <1>4, <2>1 DEF Links
  <2>3. CASE m = n
    BY <2>2, <2>3 DEF Cyclic
  <2>4. CASE m # n
    <3>1. PICK c \in Q[n] : Reaches(Q, c, m)
      BY <2>2, <2>4, LastLink
    <3>2. c \in Node /\ Reaches(Q, m, n)
      <4>1. ClosedUnder(Q, Span(Q, m)) /\ m \in Span(Q, m)
        BY <2>2, SpanClosed
      <4> QED BY <2>2, <3>1, <4>1 DEF ClosedUnder, Span, Links
    <3>3. Reaches(Q, c, n)
      BY <2>2, <3>1, <3>2, ReachesComposes
    <3> QED BY <3>1, <3>3 DEF Cyclic
  <2> QED BY <2>3, <2>4
<1>5. Cyclic(Forward, n) => Cyclic(Backward, n)
  BY <1>2, <1>3, <1>4
<1>6. Cyclic(Backward, n) => Cyclic(Forward, n)
  BY <1>2, <1>3, <1>4
<1> QED BY <1>1, <1>5, <1>6

\* What an answer says of the search in both directions around n.
AroundSays(global, n, a) ==
  /\ a \in ExploreAnswer
  /\ ~ a.cycle =>
       /\ n \in a.global
       /\ (\A x \in global : ~ OnCycle(x)) => \A x \in a.global : ~ OnCycle(x)

LEMMA AroundSaysRight ==
  ASSUME TypeOK, LinksAgree, NEW n \in Node, NEW global \in SUBSET Node
  PROVE  AroundSays(global, n, SearchAround(global, n))
<1> DEFINE f == DetectACycle(Forward, FALSE, n, global)
           b == DetectACycle(Backward, TRUE, n, f.global)
           a == SearchAround(global, n)
<1>1. Forward \in Links /\ Backward \in Links
  BY ReachTypes
<1>2. DetectSays(Forward, FALSE, n, global, f)
  BY <1>1, DetectSaysRight
<1>3. a = IF f.cycle THEN f ELSE b
  BY Zenon DEF SearchAround
<1> HIDE DEF f
<1>4. f.cycle \in BOOLEAN /\ f.global \in SUBSET Node
  BY <1>2 DEF DetectSays, ExploreAnswer
<1>5. DetectSays(Backward, TRUE, n, f.global, b)
  BY <1>1, <1>4, DetectSaysRight
<1> HIDE DEF b, a
<1>6. a \in ExploreAnswer
  BY <1>2, <1>3, <1>4, <1>5 DEF DetectSays
<1>7. b.global \in SUBSET Node
  BY <1>5 DEF DetectSays, ExploreAnswer
<1>8. ASSUME ~ a.cycle
      PROVE  /\ n \in a.global
             /\ (\A x \in global : ~ OnCycle(x)) => \A x \in a.global : ~ OnCycle(x)
  <2>1. ~ f.cycle /\ a = b
    BY <1>3, <1>8
  <2>2. \A x \in Node : /\ OnCycle(x) <=> Cyclic(Forward, x)
                        /\ OnCycle(x) <=> Cyclic(Backward, x)
    BY BothDirections
  <2>3. (\A x \in global : ~ OnCycle(x)) => \A x \in f.global : ~ OnCycle(x)
    BY <1>2, <1>4, <2>1, <2>2 DEF DetectSays
  <2>4. (\A x \in f.global : ~ OnCycle(x)) => \A x \in b.global : ~ OnCycle(x)
    BY <1>4, <1>5, <1>7, <1>8, <2>1, <2>2 DEF DetectSays
  <2> QED BY <1>5, <1>8, <2>1, <2>3, <2>4 DEF DetectSays
<1> QED BY <1>6, <1>8 DEF a, AroundSays

AcyclicTables == [SUBSET Node -> [SUBSET Node -> BOOLEAN]]

AcyclicRound(acyclic, todo, global) ==
  LET n == First(todo)
      rest == todo \ {n}
      a == SearchAround(global, n)
  IN  IF todo = {} THEN TRUE
      ELSE IF n \in global THEN acyclic[rest][global]
      ELSE ~ a.cycle /\ acyclic[rest][a.global]

AcyclicRounds(acyclic) ==
  [todo \in SUBSET Node |-> [global \in SUBSET Node |-> AcyclicRound(acyclic, todo, global)]]

AcyclicGood(acyclic, k) ==
  /\ acyclic \in AcyclicTables
  /\ \A todo, global \in SUBSET Node :
       Cardinality(todo) < k => acyclic[todo][global] = AcyclicRound(acyclic, todo, global)

LEMMA AcyclicRoundsAt ==
  ASSUME NEW acyclic, NEW todo \in SUBSET Node, NEW global \in SUBSET Node
  PROVE  AcyclicRounds(acyclic)[todo][global] = AcyclicRound(acyclic, todo, global)
<1>1. AcyclicRounds(acyclic)[todo]
        = [x \in SUBSET Node |-> AcyclicRound(acyclic, todo, x)]
  BY Zenon DEF AcyclicRounds
<1> QED BY <1>1, Zenon

LEMMA AcyclicGoodNext ==
  ASSUME TypeOK, LinksAgree, NEW k \in Nat, NEW acyclic, AcyclicGood(acyclic, k)
  PROVE  AcyclicGood(AcyclicRounds(acyclic), k + 1)
<1> DEFINE next == AcyclicRounds(acyclic)
<1>0. acyclic \in [SUBSET Node -> [SUBSET Node -> BOOLEAN]]
  BY DEF AcyclicGood, AcyclicTables
<1>1. ASSUME NEW todo \in SUBSET Node, NEW global \in SUBSET Node
      PROVE  /\ next[todo][global] = AcyclicRound(acyclic, todo, global)
             /\ next[todo][global] \in BOOLEAN
             /\ Cardinality(todo) < k + 1 =>
                  next[todo][global] = AcyclicRound(next, todo, global)
  <2> DEFINE n == First(todo)
             rest == todo \ {n}
             a == SearchAround(global, n)
  <2>1. next[todo][global] = AcyclicRound(acyclic, todo, global)
    BY AcyclicRoundsAt
  <2> HIDE DEF next
  <2>2. CASE todo = {}
    <3>1. /\ AcyclicRound(acyclic, todo, global) = TRUE
          /\ AcyclicRound(next, todo, global) = TRUE
      BY <2>2, Zenon DEF AcyclicRound
    <3> QED BY <2>1, <3>1
  <2>3. CASE todo # {}
    <3>1. n \in todo /\ rest \in SUBSET Node /\ n \in Node
      BY <2>3, FirstIn
    <3>2. AroundSays(global, n, a)
      BY <3>1, AroundSaysRight
    <3>3. ASSUME Cardinality(todo) < k + 1, NEW x \in SUBSET Node
          PROVE  next[rest][x] = acyclic[rest][x]
      <4>1. Cardinality(rest) < k
        <5>1. Cardinality(rest) < Cardinality(todo)
          BY <3>1, Smaller
        <5>2. Cardinality(rest) \in Nat /\ Cardinality(todo) \in Nat
          BY <3>1, NodesFinite
        <5> HIDE DEF rest
        <5> QED BY <3>3, <5>1, <5>2
      <4>2. next[rest][x] = AcyclicRound(acyclic, rest, x)
        BY <3>1, AcyclicRoundsAt DEF next
      <4> QED BY <3>1, <4>1, <4>2 DEF AcyclicGood
    <3> HIDE DEF n
    <3>4. CASE n \in global
      <4>1. /\ AcyclicRound(acyclic, todo, global) = acyclic[rest][global]
            /\ AcyclicRound(next, todo, global) = next[rest][global]
        BY <2>3, <3>4, Zenon DEF AcyclicRound, n
      <4>2. acyclic[rest][global] \in BOOLEAN
        BY <1>0, <3>1
      <4>3. Cardinality(todo) < k + 1 => next[rest][global] = acyclic[rest][global]
        BY <3>3
      <4> QED BY <2>1, <4>1, <4>2, <4>3, Zenon
    <3>5. CASE n \notin global
      <4>1. /\ AcyclicRound(acyclic, todo, global) = (~ a.cycle /\ acyclic[rest][a.global])
            /\ AcyclicRound(next, todo, global) = (~ a.cycle /\ next[rest][a.global])
        BY <2>3, <3>5, Zenon DEF AcyclicRound, n
      <4> HIDE DEF a
      <4>2. a.global \in SUBSET Node
        BY <3>2 DEF AroundSays, ExploreAnswer
      <4>3. Cardinality(todo) < k + 1 => next[rest][a.global] = acyclic[rest][a.global]
        BY <3>3, <4>2
      <4>4. (~ a.cycle /\ acyclic[rest][a.global]) \in BOOLEAN
        OBVIOUS
      <4> QED BY <2>1, <4>1, <4>3, <4>4, Zenon
    <3> QED BY <3>4, <3>5
  <2> QED BY <2>2, <2>3
<1>2. next \in AcyclicTables
  <2>1. next = [todo \in SUBSET Node |-> [global \in SUBSET Node |-> next[todo][global]]]
    BY <1>1, Zenon DEF AcyclicRounds
  <2> HIDE DEF next
  <2> QED BY <1>1, <2>1, Zenon DEF AcyclicTables
<1> HIDE DEF next
<1> QED BY <1>1, <1>2 DEF AcyclicGood, next

LEMMA AcyclicGoodEvery ==
  ASSUME TypeOK, LinksAgree, NEW k \in Nat
  PROVE  \E acyclic : AcyclicGood(acyclic, k)
<1> DEFINE I == {j \in Nat : ~ \E acyclic : AcyclicGood(acyclic, j)}
<1>1. SUFFICES ASSUME I # {}
               PROVE  FALSE
  OBVIOUS
<1>2. PICK j \in I : \A i \in I : ~ i < j
  BY <1>1, LeastNumber
<1>3. CASE j = 0
  <2> DEFINE empty == [todo \in SUBSET Node |-> [global \in SUBSET Node |-> TRUE]]
  <2>1. empty \in AcyclicTables
    BY DEF AcyclicTables
  <2> HIDE DEF empty
  <2>2. \A todo \in SUBSET Node : ~ Cardinality(todo) < 0
    BY NodesFinite
  <2>3. AcyclicGood(empty, 0)
    BY <2>1, <2>2 DEF AcyclicGood
  <2> QED BY <1>2, <1>3, <2>3
<1>4. CASE j # 0
  <2>1. j - 1 \in Nat /\ j - 1 < j /\ j - 1 + 1 = j
    BY <1>4
  <2>2. PICK acyclic : AcyclicGood(acyclic, j - 1)
    BY <1>2, <2>1
  <2> DEFINE i == j - 1
  <2> HIDE DEF i
  <2>3. i \in Nat /\ AcyclicGood(acyclic, i) /\ i + 1 = j
    BY <2>1, <2>2 DEF i
  <2>4. AcyclicGood(AcyclicRounds(acyclic), i + 1)
    BY <2>3, AcyclicGoodNext
  <2> QED BY <1>2, <2>3, <2>4
<1> QED BY <1>3, <1>4

LEMMA AcyclicFits ==
  ASSUME TypeOK, LinksAgree
  PROVE  \E acyclic : acyclic = AcyclicRounds(acyclic)
<1>1. Cardinality(Node) + 1 \in Nat
      /\ \A todo \in SUBSET Node : Cardinality(todo) < Cardinality(Node) + 1
  <2>1. /\ Cardinality(Node) \in Nat
        /\ \A todo \in SUBSET Node :
             Cardinality(todo) \in Nat /\ Cardinality(todo) <= Cardinality(Node)
    BY NodesFinite
  <2> QED BY <2>1
<1>2. PICK acyclic : AcyclicGood(acyclic, Cardinality(Node) + 1)
  BY <1>1, AcyclicGoodEvery
<1>3. acyclic \in AcyclicTables
      /\ \A todo, global \in SUBSET Node : acyclic[todo][global] = AcyclicRound(acyclic, todo, global)
  BY <1>1, <1>2 DEF AcyclicGood
<1>4. acyclic = [todo \in SUBSET Node |-> [global \in SUBSET Node |-> acyclic[todo][global]]]
  BY <1>3 DEF AcyclicTables
<1>5. acyclic = AcyclicRounds(acyclic)
  BY <1>3, <1>4, Zenon DEF AcyclicRounds
<1> QED BY <1>5

\* When the loop over todo finds no cycle and none of global is on one, none of todo is.
LEMMA AcyclicSaysRight ==
  ASSUME TypeOK, LinksAgree, NEW acyclic, acyclic = AcyclicRounds(acyclic),
         NEW todo \in SUBSET Node, NEW global \in SUBSET Node, acyclic[todo][global],
         \A x \in global : ~ OnCycle(x)
  PROVE  \A x \in todo : ~ OnCycle(x)
<1> DEFINE Wrong(t, l) == /\ acyclic[t][l]
                          /\ \A x \in l : ~ OnCycle(x)
                          /\ \E x \in t : OnCycle(x)
           I == {k \in Nat : \E t, l \in SUBSET Node : k = Cardinality(t) /\ Wrong(t, l)}
<1>1. SUFFICES ASSUME I # {}
               PROVE  FALSE
  <2>1. Cardinality(todo) \in Nat
    BY NodesFinite
  <2> QED BY <1>1, <2>1
<1>2. PICK k \in I : \A j \in I : ~ j < k
  BY <1>1, LeastNumber
<1>3. PICK t \in SUBSET Node, l \in SUBSET Node : k = Cardinality(t) /\ Wrong(t, l)
  BY <1>2
<1> DEFINE n == First(t)
           rest == t \ {n}
           a == SearchAround(l, n)
<1>4. t # {}
  BY <1>3
<1>5. n \in t /\ n \in Node /\ rest \in SUBSET Node /\ t = {n} \cup rest
  BY <1>4, FirstIn
<1>6. \A x \in SUBSET Node : ~ Wrong(rest, x)
  <2>1. Cardinality(rest) < k /\ Cardinality(rest) \in Nat
    BY <1>3, <1>5, Smaller, NodesFinite
  <2> HIDE DEF rest, Wrong
  <2> QED BY <1>2, <1>5, <2>1
<1>7. acyclic[t][l] = AcyclicRound(acyclic, t, l)
  BY AcyclicRoundsAt, Zenon
<1>8. AroundSays(l, n, a)
  BY <1>5, AroundSaysRight
<1> HIDE DEF n
<1>9. CASE n \in l
  <2>1. acyclic[t][l] = acyclic[rest][l]
    BY <1>4, <1>7, <1>9, Zenon DEF AcyclicRound, n
  <2>2. ~ Wrong(rest, l)
    BY <1>6
  <2> QED BY <1>3, <1>5, <1>9, <2>1, <2>2
<1>10. CASE n \notin l
  <2>1. acyclic[t][l] = (~ a.cycle /\ acyclic[rest][a.global])
    BY <1>4, <1>7, <1>10, Zenon DEF AcyclicRound, n
  <2> HIDE DEF a
  <2>2. ~ a.cycle /\ acyclic[rest][a.global]
    BY <1>3, <2>1, Zenon
  <2>3. a.global \in SUBSET Node
    BY <1>8 DEF AroundSays, ExploreAnswer
  <2>4. n \in a.global /\ \A x \in a.global : ~ OnCycle(x)
    BY <1>3, <1>8, <2>2 DEF AroundSays
  <2>5. ~ Wrong(rest, a.global)
    BY <1>6, <2>3
  <2> QED BY <1>3, <1>5, <2>2, <2>4, <2>5
<1> QED BY <1>9, <1>10

LEMMA NoneOverlooked == TypeOK /\ LinksAgree /\ MembersAgree => NoCycleOverlooked
<1> SUFFICES ASSUME TypeOK, LinksAgree, MembersAgree, NEW g \in Graph, IsAcyclic(g)
             PROVE  ~ HasCycle(g)
  BY DEF NoCycleOverlooked
<1> DEFINE Fits(c) == c = AcyclicRounds(c)
           acyclic == CHOOSE c : Fits(c)
<1>1. acyclic[root_nodes[g]][{}]
  BY Zenon DEF IsAcyclic, AcyclicRounds, AcyclicRound
<1>2. acyclic = AcyclicRounds(acyclic)
  <2>1. \E c : Fits(c)
    BY AcyclicFits
  <2> QED BY <2>1, Zenon
<1> HIDE DEF acyclic, Fits
<1>3. root_nodes[g] \in SUBSET Node /\ {} \in SUBSET Node /\ \A x \in {} : ~ OnCycle(x)
  BY GraphNodes
<1>4. \A x \in root_nodes[g] : ~ OnCycle(x)
  BY <1>1, <1>2, <1>3, AcyclicSaysRight
<1> QED BY <1>4 DEF HasCycle

\* Every search answers what it is meant to: what is reached and from where, how many
\* nodes, whether a graph is connected, the root of a tree, and that is_acyclic finds
\* every cycle, for any graphs and nodes and after any sequence of calls.
THEOREM SearchesRight == Spec => []SearchesExact
<1>1. TypeOK /\ GraphConsistent => SearchesExact
  BY ReachRight, TreeRight, NoneOverlooked DEF GraphConsistent, SearchesExact
<1> QED BY DgraphTypes, GraphKept, <1>1, PTL
=============================================================================
