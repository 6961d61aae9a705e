---------------------------- MODULE TrpSequences ----------------------------
(***************************************************************************)
(* What queues, stacks and lists promise: finite sequences, of which a     *)
(* call changes one.  A list also has an end, Nil unless it was built on   *)
(* something that is no list.                                              *)
(***************************************************************************)
EXTENDS Integers, SequencesExt

CONSTANTS Value, Queue, Stack, List, Nil, Atom

VARIABLE content   \* content[o]: [items, end]

Init == \A o \in Queue \cup Stack \cup List : content[o] = [items |-> <<>>, end |-> Nil]

\* What a call can make of the items of the queue q, when the objects are c.
QueueCall(c, q, new) ==
  LET s == c[q].items IN
  \/ \E x \in Value : new = Append(s, x)
  \/ new = <<>>
  \/ s # <<>> /\ new = Tail(s)
  \/ \E i, j \in DOMAIN s : new = [s EXCEPT ![i] = s[j], ![j] = s[i]]
  \/ \E p \in Queue : new = c[p].items

StackCall(c, t, new) ==
  LET s == c[t].items IN
  \/ \E x \in Value : new = <<x>> \o s
  \/ s # <<>> /\ new = Tail(s)
  \/ \E p \in Stack : new = c[p].items

Proper(c, k) == c[k].end = Nil

\* cons, cdr, sub, reverse and cat.
ListCall(c, new) ==
  \/ \E x \in Value, e \in {Nil, Atom} : new = [items |-> <<x>>, end |-> e]
  \/ \E k \in List :
       LET s == c[k].items IN
       \/ \E x \in Value : new = [c[k] EXCEPT !.items = <<x>> \o s]
       \/ s # <<>> /\ new = [c[k] EXCEPT !.items = Tail(s)]
       \/ new.end = Nil /\ \E i, j \in 0 .. Len(s) : new.items = SubSeq(s, i + 1, j)
       \/ Proper(c, k) /\ new = [c[k] EXCEPT !.items = Reverse(s)]
       \/ /\ s # <<>> \/ Proper(c, k)
          /\ \E j \in List : Proper(c, j) /\ new = [c[k] EXCEPT !.items = c[j].items \o s]

\* The values of content are bound: a refinement mapping is evaluated once a step.
Next ==
  \E old \in {content}, new \in {content'} : \E o \in Queue \cup Stack \cup List :
    /\ \A p \in (Queue \cup Stack \cup List) \ {o} : new[p] = old[p]
    /\ o \in List => ListCall(old, new[o])
    /\ o \in Queue => QueueCall(old, o, new[o].items)
    /\ o \in Stack => StackCall(old, o, new[o].items)

Spec == Init /\ [][Next]_content
=============================================================================
