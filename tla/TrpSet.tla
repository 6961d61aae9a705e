------------------------------- MODULE TrpSet -------------------------------
(***************************************************************************)
(* Sets and associative arrays, src/trp/trp_t_set.c and trp_t_assoc.c: an  *)
(* AVL tree of elements, or of keys with their values, and a length that   *)
(* is counted apart.  Elements are compared with trp_equal and trp_less of *)
(* src/trp/trp_relations.c, keys by their printed text.                    *)
(*                                                                         *)
(* The program keeps its objects in the variables Var; a call that returns *)
(* a new object assigns it.  The memory of a node is named after what is   *)
(* in it, so that there is one node for an element at a time: where the    *)
(* order is no order an element could be entered twice, and the model      *)
(* stops before that.                                                      *)
(***************************************************************************)
EXTENDS Integers, FiniteSets, SequencesExt

CONSTANTS
  Element,     \* what is put in sets, and the texts of keys
  Rank,        \* Rank[x]: trp_less compares ranks; those of texts are distinct
  Program,     \* what programs there are: [start |-> the elements its variables
               \* start with, in their order; pool |-> the elements it inserts and removes;
               \* copies |-> whether it makes new objects of old ones]
  MaxNumber,   \* the numbers that values are
  MaxOperands, \* how many sets are intersected
  Set, Assoc,  \* variables of the program
  Null

Var == Set \cup Assoc

Other == -1    \* a value trp_cat can join with nothing
Values == {Other} \cup 1 .. MaxNumber

VARIABLES
  prog,  \* the program that runs
  tree,  \* tree[o], of TrpAvl
  len,   \* len[o]
  val    \* val[o][x]: the value stored under the key x

vars == <<prog, tree, len, val>>

-----------------------------------------------------------------------------
(* Comparison. *)

Equal(x, y) == x = y
Less(x, y) == Rank[x] < Rank[y]

Compare(x, y) == IF Equal(x, y) THEN 0 ELSE IF Less(x, y) THEN -1 ELSE 1

A == INSTANCE TrpAvl WITH Cell <- Element, Compare <- Compare

Found(o, x) == A!Lookup(tree[o], x) # Null

\* Room for a node: in an order that is one, the same as ~Found(o, x).
Fresh(o, x) == x \notin A!Members(tree[o])

FromSeq(s) == FoldLeft(A!Insert, A!Empty, s)

Init ==
  /\ prog \in Program
  /\ LET s == prog.start IN
     /\ tree = [o \in Var |-> IF o \in DOMAIN s THEN FromSeq(s[o]) ELSE A!Empty]
     /\ len = [o \in Var |-> IF o \in DOMAIN s THEN Len(s[o]) ELSE 0]
     /\ val = [o \in Assoc |-> [x \in Element |->
          IF o \in DOMAIN s /\ x \in Range(s[o]) THEN 1 ELSE Null]]

-----------------------------------------------------------------------------
(* Sets. *)

SetInsert(o, x) ==
  /\ ~Found(o, x) /\ Fresh(o, x)
  /\ tree' = [tree EXCEPT ![o] = A!Insert(@, x)]
  /\ len' = [len EXCEPT ![o] = @ + 1]
  /\ UNCHANGED val

SetRemove(o, x) ==
  /\ Found(o, x)
  /\ tree' = [tree EXCEPT ![o] = A!Remove(@, A!Lookup(@, x))]
  /\ len' = [len EXCEPT ![o] = @ - 1]
  /\ UNCHANGED val

\* o becomes a new set, of the elements of s that are not in it yet.
Assign(o, s) ==
  /\ tree' = [tree EXCEPT ![o] = FromSeq(s)]
  /\ len' = [len EXCEPT ![o] = Cardinality(A!Members(FromSeq(s)))]
  /\ UNCHANGED val

Union(p, q) == A!Walk(tree[p], 1) \o A!Walk(tree[q], 1)

\* The smallest of the sets, the first of them when several are.
Smallest(args) ==
  LET least == Min({len[t] : t \in Range(args)})
  IN  args[Min({i \in DOMAIN args : len[args[i]] = least})]

\* Mutant: the first of the sets is taken for the smallest.
Common_FirstWalked(args) ==
  LET others == Range(args) \ {Smallest(args)}
  IN  SelectSeq(A!Walk(tree[args[1]], 1), LAMBDA x : \A t \in others : Found(t, x))

\* The smallest of the sets is walked, and its elements are looked up in all others.
Common(args) ==
  LET others == Range(args) \ {Smallest(args)}
  IN  SelectSeq(A!Walk(tree[Smallest(args)], 1), LAMBDA x : \A t \in others : Found(t, x))

Without(p, q) == SelectSeq(A!Walk(tree[p], 1), LAMBDA x : ~Found(q, x))

Cat(o, p, q) == Assign(o, Union(p, q))
Intersection(o, args) == Assign(o, Common(args))
Difference(o, p, q) == Assign(o, Without(p, q))

\* The length is taken from the encoding, not counted; so are keys and values.
Decode(o, p) ==
  /\ tree' = [tree EXCEPT ![o] = FromSeq(A!Walk(tree[p], 1))]
  /\ len' = [len EXCEPT ![o] = len[p]]
  /\ val' = IF o \in Assoc THEN [val EXCEPT ![o] = val[p]] ELSE val

-----------------------------------------------------------------------------
(* Associative arrays. *)

AssocSet(o, x, v) ==
  /\ tree' = [tree EXCEPT ![o] = IF Found(o, x) THEN @ ELSE A!Insert(@, x)]
  /\ len' = [len EXCEPT ![o] = IF Found(o, x) THEN @ ELSE @ + 1]
  /\ val' = [val EXCEPT ![o][x] = v]

\* assoc-clr, and assoc-set and assoc-inc of UNDEF: a key that is not there is no error.
AssocClr(o, x) ==
  /\ Found(o, x)
  /\ tree' = [tree EXCEPT ![o] = A!Remove(@, A!Lookup(@, x))]
  /\ len' = [len EXCEPT ![o] = @ - 1]
  /\ val' = [val EXCEPT ![o][x] = Null]

CanCat(v, w) == Other \notin {v, w}

\* What cannot be joined leaves the old value.
AssocInc(o, x, v) ==
  IF ~Found(o, x) THEN AssocSet(o, x, v)
  ELSE /\ CanCat(val[o][x], v)
       /\ val' = [val EXCEPT ![o][x] = @ + v]
       /\ UNCHANGED <<tree, len>>

-----------------------------------------------------------------------------
Operands(sets) == SeqOf(sets, MaxOperands) \ {<<>>}

\* Sums of values stay in Values.
Step(sets, assocs, pool, copies) ==
  \/ \E o \in sets, x \in pool : SetInsert(o, x) \/ SetRemove(o, x)
  \/ copies /\ \E o, p, q \in sets : Cat(o, p, q) \/ Difference(o, p, q)
  \/ copies /\ \E o \in sets, args \in Operands(sets) : Intersection(o, args)
  \/ copies /\ \E o, p \in sets : Decode(o, p)
  \/ copies /\ \E o, p \in assocs : Decode(o, p)
  \/ \E o \in assocs, x \in pool :
       \/ AssocClr(o, x)
       \/ \E v \in Values :
            \/ AssocSet(o, x, v)
            \/ /\ v # Other /\ Found(o, x) => val[o][x] = Other \/ val[o][x] + v \in Values
               /\ AssocInc(o, x, v)

\* A program works with the variables it starts with.
Next ==
  /\ Step(Set \cap DOMAIN prog.start, Assoc \cap DOMAIN prog.start, prog.pool, prog.copies)
  /\ UNCHANGED prog

Spec == Init /\ [][Next]_vars

-----------------------------------------------------------------------------
(* What calls answer. *)

SetEqual(o, p) ==
  len[o] = len[p] /\ \A x \in Range(A!Walk(tree[o], 1)) : Found(p, x)

AssocEqual(o, p) ==
  /\ len[o] = len[p]
  /\ \A x \in Range(A!Walk(tree[o], 1)) : Found(p, x) /\ val[o][x] = val[p][x]

AreDisjoint(o, p) ==
  LET small == IF len[p] < len[o] THEN p ELSE o
      other == IF small = o THEN p ELSE o
  IN  \A x \in Range(A!Walk(tree[small], 1)) : ~Found(other, x)

-----------------------------------------------------------------------------
(* Properties. *)

\* Parents and children agree, the tree is balanced and its factors say so, the length
\* is the number of nodes, and the loops over it meet every node in order: after any
\* sequence of insertions and removals, with all the rotations up the tree.
Balanced ==
  \A o \in Var :
    /\ A!WellFormed(tree[o])
    /\ LET w == A!Walk(tree[o], 1) IN
       /\ Range(w) = A!Members(tree[o]) /\ Len(w) = len[o]
       /\ \A i \in 1 .. Len(w) - 1 : Less(w[i], w[i + 1])
       /\ A!Walk(tree[o], -1) = Reverse(w)

\* Every element that was put into a set, and not removed, is found.
ElementsFound == \A o \in Var : \A x \in A!Members(tree[o]) : Found(o, x)

Elements(o) == {x \in Element : Found(o, x)}

\* Union, difference and the intersection of any number of sets, which walk one tree
\* and look up in others, are those of sets, and so are the answers about two sets.
AlgebraExact ==
  LET sets == Set \cap DOMAIN prog.start IN
  /\ \A args \in Operands(sets) :
       Range(Common(args)) = {x \in Element : \A p \in Range(args) : x \in Elements(p)}
  /\ \A p, q \in sets :
       LET S == Elements(p)
           T == Elements(q)
       IN  /\ Range(Union(p, q)) = S \cup T
           /\ Range(Without(p, q)) = S \ T
           /\ SetEqual(p, q) <=> S = T
           /\ AreDisjoint(p, q) <=> S \cap T = {}

\* What the objects are: the elements, or keys with values, that are found in them.
Content ==
  [o \in Var |-> [x \in {y \in Element : Found(o, y)} |-> IF o \in Assoc THEN val[o][x] ELSE x]]

M == INSTANCE TrpMap WITH content <- Content

\* The trees implement sets and maps.
ImplementsMap == M!Spec
=============================================================================
