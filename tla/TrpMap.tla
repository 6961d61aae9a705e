------------------------------- MODULE TrpMap -------------------------------
(***************************************************************************)
(* What sets and associative arrays promise: finite sets, and functions    *)
(* from keys to values.  A set is the function that maps each element to   *)
(* itself.                                                                 *)
(***************************************************************************)
EXTENDS Integers

CONSTANTS Element, Set, Assoc, Values

VARIABLE content   \* content[o]

Elements(S) == [x \in S |-> x]

Init == \A o \in Set \cup Assoc : DOMAIN content[o] \subseteq Element

\* What a call can make of the set o, when the sets have the elements has.
SetCall(has, o, new) ==
  \/ \E x \in Element : new = has[o] \cup {x} \/ new = has[o] \ {x}
  \/ \E p, q \in Set : new = has[p] \cup has[q] \/ new = has[p] \ has[q]
  \/ \E P \in SUBSET Set \ {{}} : new = {x \in Element : \A p \in P : x \in has[p]}

\* What a call can make of the associative array o, when the objects are c.
AssocCall(c, o, new) ==
  LET keys == DOMAIN c[o] IN
  \/ \E x \in Element, v \in Values :
       new = [y \in keys \cup {x} |-> IF y = x THEN v ELSE c[o][y]]
  \/ \E x \in keys : new = [y \in keys \ {x} |-> c[o][y]]
  \/ \E p \in Assoc : new = c[p]

\* The values of content are bound: a refinement mapping is evaluated once a step.
Next ==
  \E old \in {content}, new \in {content'} : \E o \in Set \cup Assoc :
    /\ \A p \in (Set \cup Assoc) \ {o} : new[p] = old[p]
    /\ o \in Set => /\ new[o] = Elements(DOMAIN new[o])
                    /\ SetCall([p \in Set |-> DOMAIN old[p]], o, DOMAIN new[o])
    /\ o \in Assoc => AssocCall(old, o, new[o])

Spec == Init /\ [][Next]_content
=============================================================================
