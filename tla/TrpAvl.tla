------------------------------- MODULE TrpAvl -------------------------------
(***************************************************************************)
(* The AVL trees under sets and associative arrays, src/trp/avl_tree.c and *)
(* avl_tree.h.  A tree is a record: its root and, for every node, the two  *)
(* children, the parent and the balance factor, which the code packs into  *)
(* one word.  Left and right are the signs -1 and 1, as in the code.       *)
(*                                                                         *)
(* Nodes are memory: a node is named after the element stored in it, Cell  *)
(* is what there is room for.  Compare(x, y) is what the comparison        *)
(* callback returns.                                                       *)
(***************************************************************************)
EXTENDS Integers, Sequences

CONSTANTS Cell, Null, Compare(_, _)

Side == {-1, 1}

Empty ==
  [ root   |-> Null,
    child  |-> [n \in Cell |-> [s \in Side |-> Null]],
    parent |-> [n \in Cell |-> Null],
    bal    |-> [n \in Cell |-> 0] ]

-----------------------------------------------------------------------------
(* Pointers. *)

SideOf(t, p, n) == IF t.child[p][-1] = n THEN -1 ELSE 1

\* n, or nothing, becomes the child of p on side s.
Hang(t, p, s, n) ==
  [t EXCEPT !.child[p][s] = n,
            !.parent = IF n = Null THEN @ ELSE [@ EXCEPT ![n] = p]]

\* n takes the place of old under p, or at the root.
ReplaceChild(t, p, old, n) ==
  IF p # Null THEN Hang(t, p, SideOf(t, p, old), n)
  ELSE [t EXCEPT !.root = n,
                 !.parent = IF n = Null THEN @ ELSE [@ EXCEPT ![n] = Null]]

Adjust(t, n, amount) == [t EXCEPT !.bal[n] = @ + amount]

\* a goes down on side s, the child on the other side comes up.
Rotate(t, a, s) ==
  LET b == t.child[a][-s]
  IN  ReplaceChild(Hang(Hang(t, a, -s, t.child[b][s]), b, s, a), t.parent[a], a, b)

\* Mutant: the balance factors of the two halves are exchanged.
DoubleRotate_Crossed(t, b, a, s) ==
  LET e == t.child[b][s]
      up == ReplaceChild(t, t.parent[a], a, e)
      x == t.bal[e]
  IN  [Hang(Hang(Hang(Hang(up, a, -s, t.child[e][s]), b, s, t.child[e][-s]), e, s, a), e, -s, b)
        EXCEPT !.bal[b] = IF s * x >= 0 THEN 0 ELSE -x,
               !.bal[a] = IF s * x <= 0 THEN 0 ELSE -x,
               !.bal[e] = 0]

\* The grandchild e of a comes up, between its parent b and a.
DoubleRotate(t, b, a, s) ==
  LET e == t.child[b][s]
      up == ReplaceChild(t, t.parent[a], a, e)
      x == t.bal[e]
  IN  [Hang(Hang(Hang(Hang(up, a, -s, t.child[e][s]), b, s, t.child[e][-s]), e, s, a), e, -s, b)
        EXCEPT !.bal[a] = IF s * x >= 0 THEN 0 ELSE -x,
               !.bal[b] = IF s * x <= 0 THEN 0 ELSE -x,
               !.bal[e] = 0]

-----------------------------------------------------------------------------
(* Lookup and insertion. *)

RECURSIVE LookupFrom(_, _, _)
LookupFrom(t, n, x) ==
  IF n = Null THEN Null
  ELSE LET c == Compare(x, n)
       IN  IF c = 0 THEN n ELSE LookupFrom(t, t.child[n][c], x)

Lookup(t, x) == LookupFrom(t, t.root, x)

\* The node under which x is inserted, in a tree that is not empty and has no x.
RECURSIVE Slot(_, _, _)
Slot(t, n, x) ==
  LET c == Compare(x, n)
  IN  IF t.child[n][c] = Null THEN n ELSE Slot(t, t.child[n][c], x)

\* The subtree under n has become one higher.
RECURSIVE Grown(_, _)
Grown(t, n) ==
  LET p == t.parent[n]
      s == SideOf(t, p, n)
  IN  IF p = Null THEN t
      ELSE IF t.bal[p] = 0 THEN Grown(Adjust(t, p, s), p)
      ELSE IF t.bal[p] = -s THEN Adjust(t, p, s)
      ELSE IF t.bal[n] = s THEN Adjust(Adjust(Rotate(t, p, -s), p, -s), n, -s)
      ELSE DoubleRotate(t, n, p, -s)

\* A new node for x, unless an element compares equal.
Insert(t, x) ==
  IF t.root = Null THEN [t EXCEPT !.root = x]
  ELSE IF Lookup(t, x) # Null THEN t
  ELSE LET p == Slot(t, t.root, x) IN Grown(Hang(t, p, Compare(x, p), x), x)

-----------------------------------------------------------------------------
(* Removal. *)

\* The subtree of p on the side other than s has become one lower.
RECURSIVE Shrunk(_, _, _)
Shrunk(t, p, s) ==
  LET n == t.child[p][s]
      above(u, m) ==
        LET q == u.parent[m] IN IF q = Null THEN u ELSE Shrunk(u, q, -SideOf(u, q, m))
  IN  IF t.bal[p] = 0 THEN Adjust(t, p, s)
      ELSE IF t.bal[p] = -s THEN above(Adjust(t, p, s), p)
      ELSE IF t.bal[n] = 0 THEN Adjust(Rotate(t, p, -s), n, -s)
      ELSE IF t.bal[n] = s THEN above(Adjust(Adjust(Rotate(t, p, -s), p, -s), n, -s), n)
      ELSE above(DoubleRotate(t, n, p, -s), t.child[n][-s])

RECURSIVE Outermost(_, _, _)
Outermost(t, n, s) == IF t.child[n][s] = Null THEN n ELSE Outermost(t, t.child[n][s], s)

\* Mutant: the right child of the successor is forgotten.
SwapWithSuccessor_ChildLost(t, x) ==
  LET y == Outermost(t, t.child[x][1], -1)
      q == t.parent[y]
      far == IF q = x THEN t ELSE Hang(Hang(t, q, -1, Null), y, 1, t.child[x][1])
      moved == [Hang(far, y, -1, t.child[x][-1]) EXCEPT !.bal[y] = t.bal[x]]
      done == ReplaceChild(moved, t.parent[x], x, y)
  IN  IF q = x THEN Shrunk(done, y, -1) ELSE Shrunk(done, q, 1)

\* A node with two children gives its place to its successor y.  The subtree that
\* has become lower is the right one of y, or the left one of y's old parent.
SwapWithSuccessor(t, x) ==
  LET y == Outermost(t, t.child[x][1], -1)
      q == t.parent[y]
      far == IF q = x THEN t ELSE Hang(Hang(t, q, -1, t.child[y][1]), y, 1, t.child[x][1])
      moved == [Hang(far, y, -1, t.child[x][-1]) EXCEPT !.bal[y] = t.bal[x]]
      done == ReplaceChild(moved, t.parent[x], x, y)
  IN  IF q = x THEN Shrunk(done, y, -1) ELSE Shrunk(done, q, 1)

Unlink(t, x) ==
  LET p == t.parent[x]
      c == IF t.child[x][-1] # Null THEN t.child[x][-1] ELSE t.child[x][1]
      done == ReplaceChild(t, p, x, c)
  IN  IF p = Null THEN done ELSE Shrunk(done, p, -SideOf(t, p, x))

\* The memory of a node that is removed is no longer looked at.
Forget(t, x) ==
  [t EXCEPT !.child[x] = Empty.child[x], !.parent[x] = Null, !.bal[x] = 0]

Remove(t, x) ==
  Forget(IF \A s \in Side : t.child[x][s] # Null THEN SwapWithSuccessor(t, x) ELSE Unlink(t, x), x)

-----------------------------------------------------------------------------
(* Walks over the elements, from the first to the last (s = 1) or back. *)

RECURSIVE Climb(_, _, _)
Climb(t, n, s) ==
  LET p == t.parent[n]
  IN  IF p # Null /\ t.child[p][s] = n THEN Climb(t, p, s) ELSE p

NextInOrder(t, n, s) ==
  IF t.child[n][s] # Null THEN Outermost(t, t.child[n][s], -s) ELSE Climb(t, n, s)

RECURSIVE WalkFrom(_, _, _)
WalkFrom(t, n, s) == IF n = Null THEN <<>> ELSE <<n>> \o WalkFrom(t, NextInOrder(t, n, s), s)

Walk(t, s) == IF t.root = Null THEN <<>> ELSE WalkFrom(t, Outermost(t, t.root, -s), s)

-----------------------------------------------------------------------------
(* What the pointers and balance factors must be. *)

RECURSIVE Height(_, _)
Height(t, n) ==
  IF n = Null THEN 0
  ELSE LET l == Height(t, t.child[n][-1])
           r == Height(t, t.child[n][1])
       IN  1 + (IF l > r THEN l ELSE r)

Members(t) == {n \in Cell : n = t.root \/ t.parent[n] # Null}

\* Parents and children agree, every node is balanced and says so.
WellFormed(t) ==
  /\ t.root # Null => t.parent[t.root] = Null
  /\ \A n \in Members(t), s \in Side :
       t.child[n][s] # Null => t.child[n][s] \in Members(t) /\ t.parent[t.child[n][s]] = n
  /\ \A n \in Members(t) \ {t.root} :
       \E s \in Side : t.child[t.parent[n]][s] = n
  /\ \A n \in Members(t) :
       /\ t.bal[n] \in -1 .. 1
       /\ t.bal[n] = Height(t, t.child[n][1]) - Height(t, t.child[n][-1])
=============================================================================
