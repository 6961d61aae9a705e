----------------------------- MODULE TrpLinked -----------------------------
(***************************************************************************)
(* Queues, stacks and lists, src/trp/trp_t_queue.c, trp_t_stack.c and      *)
(* trp_t_list.c: chains of cells in one memory.  A queue knows both ends   *)
(* of its chain and its length, a stack the top and the length.  Cells of  *)
(* lists never change once the list is made, and lists share them.         *)
(*                                                                         *)
(* What no variable of the program reaches is collected at the end of a    *)
(* call; queues, stacks and lists that turn out not to be needed also give *)
(* cells back themselves.                                                  *)
(***************************************************************************)
EXTENDS Integers, FiniteSets, SequencesExt

CONSTANTS
  Cell,                \* memory for cells
  Held,                \* what is in them
  Queue, Stack, List,  \* variables of programs
  Program,             \* programs: [vars |-> the variables they have,
                       \* cells |-> the memory they find]
  NoCell,              \* NULL where a cell is expected
  Nil,                 \* the end of a list
  Atom                 \* what is no list, as the last cdr

Var == Queue \cup Stack \cup List
End == {NoCell, Nil, Atom}

ASSUME LinkedAssumption ==
  /\ IsFiniteSet(Cell) /\ Cell \cap End = {} /\ Nil # Atom /\ NoCell \notin {Nil, Atom}
  /\ Queue \cap Stack = {} /\ List \cap (Queue \cup Stack) = {}
  /\ \A p \in Program : p.cells \subseteq Cell

VARIABLES
  prog,          \* the program that runs
  holds, next,   \* of a cell: what it holds, and the cell behind it
  used,          \* the cells that are allocated
  first, last,   \* first[o]: of a queue, a stack or a list; last[q]
  length         \* length[o]: of a queue or a stack

chainVars == <<prog, holds, next, used, first, last, length>>

-----------------------------------------------------------------------------
(* Chains. *)

\* The cells from c on, as far as they are followed by another.
Chain(nx, c) ==
  LET at[k \in Nat] ==
        IF k = 0 THEN c ELSE IF at[k - 1] \in End THEN at[k - 1] ELSE nx[at[k - 1]]
      n == CHOOSE k \in 0 .. Cardinality(Cell) :
             at[k] \in End /\ \A j \in 0 .. k - 1 : at[j] \notin End
  IN  IF c \in End THEN <<>> ELSE [i \in 1 .. n |-> at[i - 1]]

\* What ends the chain that begins with c.
EndOf(nx, c) == LET cs == Chain(nx, c) IN IF cs = <<>> THEN c ELSE nx[Last(cs)]

\* What the chain that begins with c holds, in the memory m.
Items(m, c) == LET cs == Chain(m.next, c) IN [i \in DOMAIN cs |-> m.holds[cs[i]]]

Memory == [holds |-> holds, next |-> next]
Contents(o) == Items(Memory, first[o])

\* The next k cells the allocator hands out.
Free == prog.cells \ used
Room(k) == Cardinality(Free) >= k
Fresh(k) == CHOOSE cs \in [1 .. k -> Free] : IsInjective(cs)

\* The memory after the cells cs are filled with xs and chained up, ending with e.
Filled(cs, xs, e) ==
  LET at(c) == CHOOSE i \in DOMAIN cs : cs[i] = c IN
  [ holds |-> [c \in Cell |-> IF c \in Range(cs) THEN xs[at(c)] ELSE holds[c]],
    next  |-> [c \in Cell |-> IF c \notin Range(cs) THEN next[c]
                             ELSE IF at(c) = Len(cs) THEN e ELSE cs[at(c) + 1]] ]

\* The call ends: memory m, of which the program's variables are f; free was given back.
\* Nothing is known of cells that are not allocated.
Done(m, f, taken, free) ==
  LET reached == UNION {Range(Chain(m.next, f[o])) : o \in Var}
      kept == ((used \cup taken) \cap reached) \ free
  IN  /\ holds' = [c \in Cell |-> IF c \in kept THEN m.holds[c] ELSE NoCell]
      /\ next' = [c \in Cell |-> IF c \in kept THEN m.next[c] ELSE NoCell]
      /\ first' = f
      /\ used' = kept

-----------------------------------------------------------------------------
(* Queues. *)

Put(q, x) ==
  /\ Room(1)
  /\ LET c == Fresh(1)[1]
         m == Filled(<<c>>, <<x>>, NoCell)
         linked == [m EXCEPT !.next = IF length[q] > 0 THEN [@ EXCEPT ![last[q]] = c] ELSE @]
     IN  Done(linked, IF length[q] > 0 THEN first ELSE [first EXCEPT ![q] = c], {c}, {})
  /\ last' = [last EXCEPT ![q] = Fresh(1)[1]]
  /\ length' = [length EXCEPT ![q] = @ + 1]

\* Mutant: the queue keeps the pointer to the last element that is given back.
Get_LastKept(q) ==
  /\ length[q] > 0
  /\ Done(Memory, [first EXCEPT ![q] = next[@]], {}, {first[q]})
  /\ length' = [length EXCEPT ![q] = @ - 1]
  /\ UNCHANGED last

Get(q) ==
  /\ length[q] > 0
  /\ Done(Memory, [first EXCEPT ![q] = next[@]], {}, {first[q]})
  /\ length' = [length EXCEPT ![q] = @ - 1]
  /\ last' = IF length[q] = 1 THEN [last EXCEPT ![q] = NoCell] ELSE last

\* queue-close, one element after the other.
Close(q) ==
  /\ Done(Memory, [first EXCEPT ![q] = NoCell], {}, Range(Chain(next, first[q])))
  /\ length' = [length EXCEPT ![q] = 0]
  /\ last' = [last EXCEPT ![q] = NoCell]

NthCell(o, i) == Chain(next, first[o])[i + 1]

\* The elements change places, not the cells.
Exchange(q, i, j) ==
  /\ Done([Memory EXCEPT !.holds = [@ EXCEPT ![NthCell(q, i)] = holds[NthCell(q, j)],
                                             ![NthCell(q, j)] = holds[NthCell(q, i)]]], first, {}, {})
  /\ UNCHANGED <<length, last>>

-----------------------------------------------------------------------------
(* Stacks. *)

Push(s, x) ==
  /\ Room(1)
  /\ LET c == Fresh(1)[1]
     IN  Done(Filled(<<c>>, <<x>>, first[s]), [first EXCEPT ![s] = c], {c}, {})
  /\ length' = [length EXCEPT ![s] = @ + 1]
  /\ UNCHANGED last

Pop(s) ==
  /\ length[s] > 0
  /\ Done(Memory, [first EXCEPT ![s] = next[@]], {}, {first[s]})
  /\ length' = [length EXCEPT ![s] = @ - 1]
  /\ UNCHANGED last

-----------------------------------------------------------------------------
(* decode(encode(o)) of a queue or a stack, assigned to one: queues are refilled in
   order, stacks through a second stack, which turns them round twice. *)

DecodeChain(p, o) ==
  LET k == length[o] IN
  /\ Room(k)
  /\ LET cs == Fresh(k)
     IN  /\ Done(Filled(cs, Contents(o), NoCell),
                 [first EXCEPT ![p] = IF k = 0 THEN NoCell ELSE cs[1]], Range(cs), {})
         /\ last' = IF p \in Queue
                    THEN [last EXCEPT ![p] = IF k = 0 THEN NoCell ELSE cs[k]] ELSE last
  /\ length' = [length EXCEPT ![p] = k]

-----------------------------------------------------------------------------
(* Lists.  Every call leaves the cells that are there and makes l a new list. *)

\* xs, copied into new cells, and then the list that begins with e.
MakeList(l, xs, e) ==
  /\ Room(Len(xs))
  /\ LET cs == Fresh(Len(xs))
     IN  Done(Filled(cs, xs, e), [first EXCEPT ![l] = IF cs = <<>> THEN e ELSE cs[1]], Range(cs), {})
  /\ UNCHANGED <<length, last>>

ListCons(l, x, e) == MakeList(l, <<x>>, e)

ListCdr(l, k) ==
  /\ first[k] \notin End
  /\ MakeList(l, <<>>, next[first[k]])

\* Mutant: the cells of the list are turned round where they are.
Reverse_InPlace(l, k) ==
  LET cs == Chain(next, first[k])
      turned == [c \in Cell |-> IF c \notin Range(cs) THEN next[c]
                                ELSE IF c = cs[1] THEN Nil
                                ELSE cs[(CHOOSE i \in DOMAIN cs : cs[i] = c) - 1]]
  IN  /\ EndOf(next, first[k]) = Nil
      /\ Done([Memory EXCEPT !.next = turned],
              [first EXCEPT ![l] = IF cs = <<>> THEN Nil ELSE cs[Len(cs)]], {}, {})
      /\ UNCHANGED <<length, last>>

ReverseList(l, k) == EndOf(next, first[k]) = Nil /\ MakeList(l, Reverse(Contents(k)), Nil)

\* cat of two lists: the first is copied, the second is shared.
ListCat(l, j, k) ==
  /\ EndOf(next, first[j]) = Nil
  /\ first[k] # Atom
  /\ MakeList(l, Contents(j), first[k])

\* The part of a list from position i: a copy of cnt elements, but when the list ends
\* before they are all there the copy is given back and the rest of the list shared.
ListSub(l, k, i, cnt) ==
  LET cs == Chain(next, first[k])
      rest == IF i = Len(cs) THEN EndOf(next, first[k]) ELSE cs[i + 1]
      left == Len(cs) - i
  IN  \/ /\ cnt <= left
         /\ MakeList(l, SubSeq(Contents(k), i + 1, i + cnt), Nil)
      \/ /\ cnt > left /\ EndOf(next, first[k]) = Nil
         /\ Room(left)
         /\ MakeList(l, <<>>, rest)

-----------------------------------------------------------------------------
ChainInit ==
  /\ prog \in Program
  /\ holds = [c \in Cell |-> NoCell]
  /\ next = [c \in Cell |-> NoCell]
  /\ used = {}
  /\ first = [o \in Var |-> IF o \in List THEN Nil ELSE NoCell]
  /\ last = [q \in Queue |-> NoCell]
  /\ length = [o \in Queue \cup Stack |-> 0]

QueueCall(q) ==
  \/ \E x \in Held : Put(q, x)
  \/ Get(q)
  \/ Close(q)
  \/ \E i, j \in 0 .. length[q] - 1 : i # j /\ Exchange(q, i, j)
  \/ \E p \in Queue \cap prog.vars : DecodeChain(p, q)

StackCall(s) ==
  \/ \E x \in Held : Push(s, x)
  \/ Pop(s)
  \/ \E p \in Stack \cap prog.vars : DecodeChain(p, s)

ListCall(l) ==
  \E k \in List \cap prog.vars :
    \/ \E x \in Held, e \in {first[k], Nil, Atom} : ListCons(l, x, e)
    \/ ListCdr(l, k) \/ ReverseList(l, k)
    \/ \E i \in 0 .. Len(Contents(k)) :
         \E cnt \in 0 .. Len(Contents(k)) - i + 1 : ListSub(l, k, i, cnt)
    \/ \E j \in List \cap prog.vars : ListCat(l, j, k)

ChainNext ==
  /\ \/ \E q \in Queue \cap prog.vars : QueueCall(q)
     \/ \E s \in Stack \cap prog.vars : StackCall(s)
     \/ \E l \in List \cap prog.vars : ListCall(l)
  /\ UNCHANGED prog

ChainSpec == ChainInit /\ [][ChainNext]_chainVars

-----------------------------------------------------------------------------
(* Properties. *)

\* A chain has as many cells as the length says, the last of a queue is its end, no
\* two queues or stacks share a cell with anything, and no cell that can be reached
\* has been given back.
ChainsApart ==
  /\ \A o \in Var : Range(Chain(next, first[o])) \subseteq used
  /\ \A o \in Queue \cup Stack :
       LET cs == Chain(next, first[o]) IN
       /\ Len(cs) = length[o] /\ EndOf(next, first[o]) = NoCell
       /\ \A p \in Var \ {o} : Range(cs) \cap Range(Chain(next, first[p])) = {}
       /\ o \in Queue => last[o] = IF cs = <<>> THEN NoCell ELSE cs[Len(cs)]

Content ==
  [o \in Var |-> [items |-> Contents(o), end |-> IF o \in List THEN EndOf(next, first[o]) ELSE Nil]]

S == INSTANCE TrpSequences WITH Value <- Held, content <- Content

\* The chains implement sequences, each object apart, though lists share cells.
ImplementsSequences == S!Spec
=============================================================================
