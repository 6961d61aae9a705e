------------------------------- MODULE TrpTree -------------------------------
(***************************************************************************)
(* Trees with ordered children, src/trp/trp_t_tree.c.  A node keeps its    *)
(* value, its parent and the array of its children; every part of a tree   *)
(* can be reached from every other, and a program may keep any node.       *)
(*                                                                         *)
(* One action per call that changes something: a call whose arguments are  *)
(* refused changes nothing, but the constructor, which attaches children   *)
(* up to the one it refuses.  Positions are those of the code, from 0.     *)
(***************************************************************************)
EXTENDS Integers, FiniteSets, SequencesExt

CONSTANTS
  TreeNode,    \* memory for nodes
  Value,       \* what a node can hold
  Undef,       \* UNDEF, a value and no tree
  MaxChildren  \* how many children a call of the constructor is given

ASSUME UndefAssumption == Undef \notin TreeNode
ASSUME MemoryAssumption == IsFiniteSet(TreeNode)

VARIABLES
  made,      \* the nodes that trees are built of
  val,       \* val[n]
  parent,    \* parent[n]: a node, or Undef
  children   \* children[n]: a sequence of nodes

treeVars == <<made, val, parent, children>>

TreeTypes ==
  /\ made \in SUBSET TreeNode
  /\ val \in [TreeNode -> Value \cup {Undef}]
  /\ parent \in [TreeNode -> made \cup {Undef}]
  /\ children \in [TreeNode -> Seq(made)]
  /\ \A n \in TreeNode \ made : parent[n] = Undef /\ children[n] = <<>>

TreeInit ==
  /\ made = {}
  /\ val = [n \in TreeNode |-> Undef]
  /\ parent = [n \in TreeNode |-> Undef]
  /\ children = [n \in TreeNode |-> <<>>]

-----------------------------------------------------------------------------
(* Positions and ancestors. *)

Pos(n) == 0 .. Len(children[n]) - 1

Nth(n, i) == children[n][i + 1]

\* s with c put before what was at position i.
With(s, i, c) == SubSeq(s, 1, i) \o <<c>> \o SubSeq(s, i + 1, Len(s))

\* Mutant: the last element is moved into the gap.
Without_LastMoved(s, i) ==
  [j \in 1 .. Len(s) - 1 |-> IF j = i + 1 THEN s[Len(s)] ELSE s[j]]

\* s without what is at position i.
Without(s, i) == SubSeq(s, 1, i) \o SubSeq(s, i + 2, Len(s))

\* A set of nodes with the parents of its members.
Upward(S) == \A n \in S : parent[n] # Undef => parent[n] \in S

\* The way from n up over the parents leads through a, n itself included.
Above(a, n) == \A S \in SUBSET TreeNode : n \in S /\ Upward(S) => a \in S

\* Mutant: the root is not looked at.
Attachable_Anywhere(n, c) == n \in made /\ c \in made /\ parent[c] = Undef

\* c can become a child of n: it is nobody's, and not the root of n.
Attachable(n, c) ==
  n \in made /\ c \in made /\ parent[c] = Undef /\ ~Above(c, n)

-----------------------------------------------------------------------------
(* Operations. *)

\* The first k of the nodes cs can be attached to a new node one after the other.
Accepted(cs, k) ==
  \A i \in 1 .. k : /\ cs[i] \in made /\ parent[cs[i]] = Undef
                    /\ \A j \in 1 .. i - 1 : cs[j] # cs[i]

\* tree(v, cs...).  When a child is refused the caller gets UNDEF, but the
\* children before it have a parent now, through which the node lives on.
Make(n, v, cs) ==
  /\ n \notin made
  /\ \E k \in 0 .. Len(cs) :
       /\ Accepted(cs, k)
       /\ k < Len(cs) => k > 0 /\ ~Accepted(cs, k + 1)
       /\ made' = made \cup {n}
       /\ val' = [val EXCEPT ![n] = v]
       /\ children' = [children EXCEPT ![n] = SubSeq(cs, 1, k)]
       /\ parent' = [m \in TreeNode |-> IF \E i \in 1 .. k : cs[i] = m THEN n ELSE parent[m]]

TreeSet(n, v) ==
  /\ n \in made
  /\ val' = [val EXCEPT ![n] = v]
  /\ UNCHANGED <<made, parent, children>>

\* tree-insert, and tree-append at the last position.
Insert(n, i, c) ==
  /\ Attachable(n, c)
  /\ children' = [children EXCEPT ![n] = With(@, i, c)]
  /\ parent' = [parent EXCEPT ![c] = n]
  /\ UNCHANGED <<made, val>>

\* Both forms of tree-detach: a position is given, or found for the child.
Detach(n, i) ==
  /\ children' = [children EXCEPT ![n] = Without(@, i)]
  /\ parent' = [parent EXCEPT ![Nth(n, i)] = Undef]
  /\ UNCHANGED <<made, val>>

\* Both forms of tree-replace.
Replace(n, i, c) ==
  /\ Attachable(n, c)
  /\ children' = [children EXCEPT ![n][i + 1] = c]
  /\ parent' = [parent EXCEPT ![Nth(n, i)] = Undef, ![c] = n]
  /\ UNCHANGED <<made, val>>

Swap(n, i, j) ==
  /\ children' = [children EXCEPT ![n][i + 1] = Nth(n, j), ![n][j + 1] = Nth(n, i)]
  /\ UNCHANGED <<made, val, parent>>

Below(n) == {m \in made : Above(n, m)}

\* What encode makes of the tree under n, decoded into new nodes: f[m] is the copy
\* of m.  The copy of n has no parent.
Decode(n, f) ==
  LET back == [x \in Range(f) |-> CHOOSE m \in DOMAIN f : f[m] = x] IN
  /\ made' = made \cup Range(f)
  /\ val' = [x \in TreeNode |-> IF x \in Range(f) THEN val[back[x]] ELSE val[x]]
  /\ children' = [x \in TreeNode |->
       IF x \in Range(f) THEN [i \in DOMAIN children[back[x]] |-> f[children[back[x]][i]]]
       ELSE children[x]]
  /\ parent' = [x \in TreeNode |->
       IF x \in Range(f) \ {f[n]} THEN f[parent[back[x]]] ELSE parent[x]]

Copies(n) == {f \in [Below(n) -> TreeNode \ made] : IsInjective(f)}

TreeNext ==
  \/ \E n \in TreeNode, v \in Value \cup {Undef}, cs \in SeqOf(made \cup {Undef}, MaxChildren) :
       Make(n, v, cs)
  \/ \E n \in made, v \in Value : TreeSet(n, v)
  \/ \E n, c \in made : \E i \in 0 .. Len(children[n]) : Insert(n, i, c)
  \/ \E n \in made : \E i \in Pos(n) : Detach(n, i)
  \/ \E n, c \in made : \E i \in Pos(n) : Replace(n, i, c)
  \/ \E n \in made : \E i, j \in Pos(n) : Swap(n, i, j)
  \/ \E n \in made : \E f \in Copies(n) : Decode(n, f)

TreeSpec == TreeInit /\ [][TreeNext]_treeVars

-----------------------------------------------------------------------------
(* Walks.  Their loops and recursions are recursive functions here. *)

Root(n) ==
  LET up[m \in TreeNode] == IF parent[m] = Undef THEN m ELSE up[parent[m]]
  IN  up[n]

Level(n) ==
  LET up[m \in TreeNode] == IF parent[m] = Undef THEN 0 ELSE 1 + up[parent[m]]
  IN  up[n]

\* Mutant: every node counts its children instead of itself.
Counted_Children(n, cnt) ==
  LET sum[i \in 0 .. Len(children[n])] ==
        IF i = Len(children[n]) THEN i ELSE sum[i + 1] + cnt[Nth(n, i)]
  IN  sum[0]

\* n and what cnt says of its children, from the last one down to the first.
Counted(n, cnt) ==
  LET sum[i \in 0 .. Len(children[n])] ==
        IF i = Len(children[n]) THEN 1 ELSE sum[i + 1] + cnt[Nth(n, i)]
  IN  sum[0]

NodeCnt(n) ==
  LET cnt[m \in TreeNode] == Counted(m, cnt)
  IN  cnt[n]

-----------------------------------------------------------------------------
(* Properties. *)

\* A node is among the children of the node it calls its parent, once, and among
\* those of no other: the three lookups of trp_t_tree.c that are said never to fail
\* never do, also after a constructor that failed half way.
FamilyAgree ==
  \A p \in TreeNode :
    /\ \A c \in TreeNode : parent[c] = p <=> c \in Range(children[p])
    /\ IsInjective(children[p])

\* No sequence of inserts, detaches and replaces closes a cycle: the loops of
\* trp_tree_root and trp_tree_level end, and so do the recursions.
Acyclic == \A S \in SUBSET TreeNode : S # {} => \E n \in S : parent[n] \notin S

\* The nodes are trees: parents and children agree, and no way up returns.
TreeShape == FamilyAgree /\ Acyclic

\* The walks for root, level and the number of nodes answer what the shape of the tree says.
WalksExact ==
  \A n \in made :
    /\ parent[Root(n)] = Undef /\ Above(Root(n), n)
    /\ Level(n) = Cardinality({m \in made : Above(m, n)}) - 1
    /\ NodeCnt(n) = Cardinality(Below(n))

Before(s, a, b) == \E i, j \in DOMAIN s : i < j /\ s[i] = a /\ s[j] = b

\* Whatever happens to other nodes, two children of a node that both stay keep
\* their order, unless they are swapped; children are never shuffled by the moves
\* of the array that holds them.
OrderKept ==
  [][\A n, a, b \in made :
       Before(children[n], a, b) /\ Before(children'[n], b, a)
         => \E i, j \in Pos(n) : {Nth(n, i), Nth(n, j)} \cap {a, b} # {} /\ Swap(n, i, j)]_treeVars
=============================================================================
