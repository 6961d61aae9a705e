------------------------------- MODULE TrpFibo -------------------------------
(***************************************************************************)
(* Fibonacci heaps, src/trp/trp_t_fibo.c, pointer by pointer.  A node      *)
(* keeps its parent p, one child, its left and right neighbours in a       *)
(* circular list, its degree and its mark; a heap keeps its minimum, which *)
(* is also the entry to its list of roots, and its length.                 *)
(*                                                                         *)
(* The operators on a record m with the fields node, heap and overrun      *)
(* translate the functions that change memory; the actions apply them.     *)
(* The program is what varies.  A program of Program is a record:          *)
(*   heaps, nodes           the heaps it uses and the nodes it inserts;    *)
(*   insertKeys, keys       the keys it gives to fibo-insert, and to       *)
(*                          fibo-decrease-key and fibo-set-key;            *)
(*   extractions, decreases bounds of the calls of trp_fibo_extract, those *)
(*                          of delete included, and of the calls that      *)
(*                          change a key;                                  *)
(*   ops                    the operations it uses;                        *)
(*   monotone               whether it uses no key below the last one      *)
(*                          extracted, as dgraph-dijkstra in               *)
(*                          src/common/common-dgraph.tin.                  *)
(***************************************************************************)
EXTENDS Integers, FiniteSets, SequencesExt

CONSTANTS
  Heap,      \* the heaps
  MaxNodes,  \* bound: nodes in memory
  Program,   \* the programs
  Null

ASSUME NullAssumption == Null \notin Heap \cup Nat
ASSUME ProgramAssumption ==
  \A p \in Program : /\ p.heaps \subseteq Heap /\ p.nodes \in 0 .. MaxNodes
                     /\ p.insertKeys \cup p.keys \subseteq Nat

VARIABLES
  program,      \* the program that runs
  node,         \* the nodes
  heap,         \* the heaps
  overrun,      \* whether consolidate used its table beyond its end
  used,         \* nodes 1 .. used have been inserted
  extractions,  \* calls of trp_fibo_extract so far
  decreases,    \* calls of fibo-decrease-key and fibo-set-key so far
  last          \* the node the last fibo-extract returned, or Null

vars == <<program, node, heap, overrun, used, extractions, decreases, last>>

Node == 1 .. MaxNodes

\* The NULL key that delete and set_key pass to decrease_key.
MinusInfinity == -1

NodeType ==
  [fibo : Heap \cup {Null}, key : Nat \cup {MinusInfinity},
   p : Node \cup {Null}, child : Node \cup {Null},
   left : Node \cup {Null}, right : Node \cup {Null},
   degree : Int, marked : BOOLEAN]

HeapType == [min : Node \cup {Null}, len : Nat]

TypeOK ==
  /\ program \in Program
  /\ node \in [Node -> NodeType]
  /\ heap \in [Heap -> HeapType]
  /\ overrun \in BOOLEAN
  /\ used \in 0 .. program.nodes
  /\ extractions \in 0 .. program.extractions
  /\ decreases \in 0 .. program.decreases
  /\ last \in Node \cup {Null}

FreshNode ==
  [fibo |-> Null, key |-> 0, p |-> Null, child |-> Null, left |-> Null,
   right |-> Null, degree |-> 0, marked |-> FALSE]

Init ==
  /\ program \in Program
  /\ node = [x \in Node |-> FreshNode]
  /\ heap = [h \in Heap |-> [min |-> Null, len |-> 0]]
  /\ overrun = FALSE
  /\ used = 0
  /\ extractions = 0
  /\ decreases = 0
  /\ last = Null

Memory == [node |-> node, heap |-> heap, overrun |-> overrun]

-----------------------------------------------------------------------------
(* Reading the lists. *)

\* Whether fibo_cmp puts key a before key b.
Less(a, b) == a = MinusInfinity \/ (b # MinusInfinity /\ a < b)

RECURSIVE Walk(_, _, _)
Walk(m, x, end) == IF x = end THEN <<x>> ELSE <<x>> \o Walk(m, m.node[x].right, end)

\* The circular list of x, from x rightwards.
Ring(m, x) == Walk(m, x, m.node[x].left)

\* The nodes of h, as fibo-queue lists them: leftwards and down from the minimum,
\* from which no node is farther than nodes have been inserted.
Members(m, h) ==
  LET Within[n \in 0 .. used] ==
        IF n = 0 THEN {m.heap[h].min} \ {Null}
        ELSE UNION {{x, m.node[x].left, m.node[x].child} \ {Null} : x \in Within[n - 1]}
  IN  Within[used]

-----------------------------------------------------------------------------
(* Insertion. *)

\* x goes to the right of y; written in the order of the code, which matters
\* when x and y are the same node.
PutRight(m, x, y) ==
  LET a == [m EXCEPT !.node[x].left = y, !.node[x].right = m.node[y].right]
      b == [a EXCEPT !.node[y].right = x]
  IN  [b EXCEPT !.node[b.node[x].right].left = x]

\* The node as insert_low puts it into an empty heap, and counted.
Single(m, h, x) ==
  [m EXCEPT !.node[x] = [@ EXCEPT !.p = Null, !.child = Null, !.left = x, !.right = x,
                                  !.degree = 0, !.marked = FALSE],
            !.heap[h].len = @ + 1]

InsertLow(m, h, x) ==
  LET min == m.heap[h].min
      s == IF min = Null THEN Single(m, h, x) ELSE PutRight(Single(m, h, x), x, min)
  IN  IF min = Null \/ Less(m.node[x].key, m.node[min].key)
      THEN [s EXCEPT !.heap[h].min = x] ELSE s

-----------------------------------------------------------------------------
(* Extraction. *)

Unlink(m, y) ==
  [m EXCEPT !.node[m.node[y].left].right = m.node[y].right,
            !.node[m.node[y].right].left = m.node[y].left]

\* y leaves the list of roots and becomes a child of x.
Link(m, y, x) ==
  LET u == Unlink(m, y)
      c == m.node[x].child
      v == IF c = Null
           THEN [u EXCEPT !.node[x].child = y, !.node[y].left = y, !.node[y].right = y]
           ELSE PutRight(u, y, c)
  IN  [v EXCEPT !.node[y].p = x, !.node[y].marked = FALSE, !.node[x].degree = @ + 1]

\* The length of the table A: the integer part of log2 len, plus one.
TableSize(len) == 1 + (CHOOSE k \in 0 .. len : 2 ^ k <= len /\ len < 2 ^ (k + 1))

\* Of two roots of one degree, y found and x settling: whether y becomes the parent.
Wins(m, y, x) == Less(m.node[y].key, m.node[x].key)

\* Root x looks for a place in the table of degrees, a.table; it absorbs, or is
\* absorbed by, the root it finds there.  Places beyond the table are taken to
\* hold NULL and to be harmless: the mildest of the outcomes the build can have.
RECURSIVE Settle(_, _, _)
Settle(a, x, d) ==
  LET m == [a.m EXCEPT !.overrun = @ \/ d >= a.size]
      y == a.table[d]
      top == IF Wins(m, y, x) THEN y ELSE x
      low == IF top = x THEN y ELSE x
  IN  IF y = Null
      THEN [a EXCEPT !.m = m, !.table[d] = x]
      ELSE Settle([a EXCEPT !.m = Link(m, low, top), !.table[d] = Null], top, d + 1)

\* The roots, from the minimum rightwards, are settled one after the other; the
\* lists change only behind the walk.
Settled(m, h, size) ==
  FoldLeft(LAMBDA a, x : Settle(a, x, a.m.node[x].degree),
           [m |-> m, size |-> size, table |-> [d \in 0 .. MaxNodes |-> Null]],
           Ring(m, m.heap[h].min))

\* The new minimum is looked for in the table.
Consolidate(m, h) ==
  LET size == TableSize(m.heap[h].len)
      a == Settled(m, h, size)
      Better(x, y) == IF y # Null /\ (x = Null \/ Less(a.m.node[y].key, a.m.node[x].key))
                      THEN y ELSE x
  IN  [a.m EXCEPT !.heap[h].min = FoldLeft(Better, Null, [i \in 1 .. size |-> a.table[i - 1]])]

\* The children of z go to the list of roots, each to the right of z.  p is
\* cleared in the first child and, one step late, in the sibling after the one
\* that was moved: the sibling right of the first child keeps its p.
Promote(m, z) ==
  LET kids == Ring(m, m.node[z].child)
      first == [PutRight(m, kids[1], z) EXCEPT !.node[kids[1]].p = Null]
      Move(b, y) == [PutRight(b, y, z) EXCEPT !.node[m.node[y].right].p = Null]
  IN  IF m.node[z].child = Null THEN m ELSE FoldLeft(Move, first, Tail(kids))

\* Extraction of the minimum z.  When z has no neighbour after the promotion it
\* had no child either.
ExtractMin(m, h) ==
  LET z == m.heap[h].min
      u == Unlink(Promote(m, z), z)
      v == IF u.node[z].right = z
           THEN [u EXCEPT !.heap[h].min = Null]
           ELSE Consolidate([u EXCEPT !.heap[h].min = u.node[z].right], h)
  IN  [v EXCEPT !.heap[h].len = @ - 1,
                !.node[z] = [@ EXCEPT !.fibo = Null, !.p = Null, !.child = Null,
                                      !.left = Null, !.right = Null, !.degree = 0]]

-----------------------------------------------------------------------------
(* Cuts. *)

\* Mutant: y keeps its degree.
Cut_DegreeKept(m, h, x, y) ==
  LET u == IF m.node[y].degree = 1
           THEN [m EXCEPT !.node[y].child = Null]
           ELSE LET w == Unlink(m, x) IN [w EXCEPT !.node[y].child = w.node[x].right]
      v == PutRight(u, x, u.heap[h].min)
  IN  [v EXCEPT !.node[x].p = Null, !.node[x].marked = FALSE]

\* x leaves the children of y for the list of roots.  (A degree of 0 becomes
\* 2^32 - 1, written -1 here.)
Cut(m, h, x, y) ==
  LET u == IF m.node[y].degree = 1
           THEN [m EXCEPT !.node[y].child = Null]
           ELSE LET w == Unlink(m, x) IN [w EXCEPT !.node[y].child = w.node[x].right]
      v == PutRight(u, x, u.heap[h].min)
  IN  [v EXCEPT !.node[x].p = Null, !.node[x].marked = FALSE, !.node[y].degree = @ - 1]

\* Mutant: the mark is set, never obeyed.
CascadingCut_OnlyMarks(m, h, y) ==
  IF m.node[y].p = Null THEN m ELSE [m EXCEPT !.node[y].marked = TRUE]

RECURSIVE CascadingCut(_, _, _)
CascadingCut(m, h, y) ==
  LET z == m.node[y].p
  IN  IF z = Null THEN m
      ELSE IF m.node[y].marked THEN CascadingCut(Cut(m, h, y, z), h, z)
      ELSE [m EXCEPT !.node[y].marked = TRUE]

Refused(x, key) == Less(node[x].key, key)

\* Mutant: the minimum stays.
Decrease_KeepsMin(m, h, x, key) ==
  LET a == [m EXCEPT !.node[x].key = key]
      y == a.node[x].p
  IN  IF y # Null /\ Less(key, a.node[y].key)
      THEN CascadingCut(Cut(a, h, x, y), h, y) ELSE a

\* decrease_key of a node of h, when it is not refused.
Decrease(m, h, x, key) ==
  LET a == [m EXCEPT !.node[x].key = key]
      y == a.node[x].p
      b == IF y # Null /\ Less(key, a.node[y].key)
           THEN CascadingCut(Cut(a, h, x, y), h, y) ELSE a
  IN  IF Less(key, b.node[b.heap[h].min].key) THEN [b EXCEPT !.heap[h].min = x] ELSE b

-----------------------------------------------------------------------------
(* The operations. *)

Becomes(m) == node' = m.node /\ heap' = m.heap /\ overrun' = m.overrun

\* What a monotone program asks of the keys it uses.
Usable(key) == program.monotone /\ last # Null => key >= node[last].key

Insert(h, key) ==
  /\ "insert" \in program.ops /\ used < program.nodes /\ Usable(key)
  /\ LET x == used + 1
     IN  Becomes(InsertLow([Memory EXCEPT !.node[x].fibo = h, !.node[x].key = key], h, x))
  /\ used' = used + 1
  /\ UNCHANGED <<program, extractions, decreases, last>>

Extract(h) ==
  /\ "extract" \in program.ops /\ extractions < program.extractions
  /\ heap[h].min # Null
  /\ Becomes(ExtractMin(Memory, h))
  /\ last' = heap[h].min
  /\ extractions' = extractions + 1
  /\ UNCHANGED <<program, used, decreases>>

\* A node without a heap only takes the key.  A careful program does this to nodes
\* it has taken out; one that trusts fibo-set-key does it to others as well.
SetDetached(x, key) ==
  /\ node[x].fibo = Null
  /\ \/ "detached" \in program.ops /\ \A h \in Heap : x \notin Members(Memory, h)
     \/ "trusting" \in program.ops
  /\ Becomes([Memory EXCEPT !.node[x].key = key])

DecreaseKey(x, key) ==
  /\ "decrease" \in program.ops /\ decreases < program.decreases /\ x <= used /\ Usable(key)
  /\ \/ SetDetached(x, key)
     \/ /\ node[x].fibo # Null /\ ~Refused(x, key)
        /\ Becomes(Decrease(Memory, node[x].fibo, x, key))
  /\ decreases' = decreases + 1
  /\ UNCHANGED <<program, used, extractions, last>>

\* Below every key, x is extracted next; it keeps its own key.
Delete(x) ==
  /\ "delete" \in program.ops /\ extractions < program.extractions
  /\ x <= used /\ node[x].fibo # Null
  /\ LET h == node[x].fibo
     IN  Becomes([ExtractMin(Decrease(Memory, h, x, MinusInfinity), h)
                    EXCEPT !.node[x].key = node[x].key])
  /\ extractions' = extractions + 1
  /\ UNCHANGED <<program, used, decreases, last>>

\* A larger key takes the node out and in again; its field fibo, cleared by the
\* extraction, is not set again.
SetKey(x, key) ==
  /\ "set_key" \in program.ops /\ decreases < program.decreases /\ x <= used
  /\ \/ SetDetached(x, key) /\ UNCHANGED extractions
     \/ /\ node[x].fibo # Null /\ ~Refused(x, key)
        /\ Becomes(Decrease(Memory, node[x].fibo, x, key))
        /\ UNCHANGED extractions
     \/ /\ node[x].fibo # Null /\ Refused(x, key) /\ extractions < program.extractions
        /\ LET h == node[x].fibo
               m == ExtractMin(Decrease(Memory, h, x, MinusInfinity), h)
           IN  Becomes(InsertLow([m EXCEPT !.node[x].key = key], h, x))
        /\ extractions' = extractions + 1
  /\ decreases' = decreases + 1
  /\ UNCHANGED <<program, used, last>>

\* merge_add: every node of g is told its new heap.
Moved(m, g, h) ==
  LET moving == Members(m, g)
  IN  [m EXCEPT !.node = [x \in Node |-> IF x \in moving THEN [@[x] EXCEPT !.fibo = h] ELSE @[x]]]

\* The lists of roots are opened after their minima and joined.
Joined(m, h, g) ==
  LET a == m.heap[h].min
      b == m.heap[g].min
      ar == m.node[a].right
      br == m.node[b].right
      c == [m EXCEPT !.node[a].right = br, !.node[br].left = a]
      d == [c EXCEPT !.node[b].right = ar, !.node[ar].left = b]
  IN  IF a = Null THEN [m EXCEPT !.heap[h].min = b]
      ELSE IF Less(m.node[b].key, m.node[a].key) THEN [d EXCEPT !.heap[h].min = b] ELSE d

Merge(h, g) ==
  /\ "merge" \in program.ops /\ h # g /\ heap[g].min # Null
  /\ Becomes([Joined(Moved(Memory, g, h), h, g)
                EXCEPT !.heap[h].len = @ + heap[g].len,
                       !.heap[g].len = 0, !.heap[g].min = Null])
  /\ UNCHANGED <<program, used, extractions, decreases, last>>

Next ==
  \/ \E h \in program.heaps, key \in program.insertKeys : Insert(h, key)
  \/ \E h \in Heap : Extract(h)
  \/ \E x \in Node, key \in program.keys : DecreaseKey(x, key)
  \/ \E x \in Node : Delete(x)
  \/ \E x \in Node, key \in program.keys : SetKey(x, key)
  \/ \E h, g \in Heap : Merge(h, g)

Spec == Init /\ [][Next]_vars

-----------------------------------------------------------------------------
(* Properties. *)

In(h) == Members(Memory, h)

\* The nodes of the circular list of x.
Siblings(x) == ToSet(Ring(Memory, x))
Children(y) == IF node[y].child = Null THEN {} ELSE Siblings(node[y].child)

\* Every circular list can be walked both ways, also after a merge, an extraction
\* or a cut has spliced it, and the field degree of trp.h:348 is the length of the
\* list of children: consolidation goes by it, and so does a cut that may empty it.
\* The heap counts the nodes its lists lead to: the size of the table depends on it.
Linked ==
  \A h \in Heap : heap[h].len = Cardinality(In(h)) /\ \A x \in In(h) :
    /\ node[x].left # Null /\ node[x].right # Null
    /\ node[node[x].left].right = x
    /\ node[node[x].right].left = x
    /\ node[x].degree = Cardinality(Children(x))

\* A child knows its parent and does not come before it, and a root has none: the
\* minimum is a root, and the cuts go by the field p.
HeapOrdered ==
  \A h \in Heap :
    /\ \A y \in In(h) : \A x \in Children(y) :
         node[x].p = y /\ ~Less(node[x].key, node[y].key)
    /\ heap[h].min # Null => \A x \in Siblings(heap[h].min) : node[x].p = Null

\* What an operation finds is a heap again after any sequence of operations.
WellFormed == TypeOK /\ Linked /\ HeapOrdered

\* A node says it belongs to a heap (fibo-fibo, the comment at trp_t_fibo.c:226)
\* exactly when the heap's lists lead to it: no operation loses a node, puts it
\* into two heaps or leaves it in one it has left.
Accounted == \A h \in Heap : In(h) = {x \in Node : node[x].fibo = h}

\* The field min of trp.h:356: no node of the heap comes before it.
MinIsMinimum ==
  \A h \in Heap : In(h) # {} \/ heap[h].len > 0 =>
    /\ heap[h].min # Null
    /\ \A x \in In(h) : ~Less(node[x].key, node[heap[h].min].key)

RECURSIVE Weight(_)
Weight(y) == 1 + FoldSet(LAMBDA x, n : n + Weight(x), 0, Children(y))

Fibonacci[n \in 0 .. MaxNodes + 2] ==
  IF n < 2 THEN n ELSE Fibonacci[n - 1] + Fibonacci[n - 2]

\* The bound that gives the heap its name: a node of degree d carries at least
\* as many nodes as the Fibonacci number d + 2, because a node that loses its
\* second child is cut as well.
FibonacciBound ==
  \A h \in Heap : \A y \in In(h) : Weight(y) >= Fibonacci[node[y].degree + 2]

\* trp_fibo_consolidate stays inside its table of degrees.
TableLargeEnough == ~overrun

\* Degrees stay as small as the sizes of trees make them, and the table has a
\* place for each.
DegreesBounded == FibonacciBound /\ TableLargeEnough
=============================================================================
