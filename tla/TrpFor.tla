------------------------------- MODULE TrpFor -------------------------------
(***************************************************************************)
(* The loops of for: trp_for_init, trp_for_next and trp_for_break of       *)
(* src/trp/trp_support.c.  A loop goes over numbers or characters from one *)
(* bound to another, over the characters of a string, or over what a       *)
(* container holds when the loop starts, copied into a queue or, for some  *)
(* containers taken backwards, onto a stack.  The body may change the      *)
(* container and assign the variable of the loop.                          *)
(***************************************************************************)
EXTENDS Integers, SequencesExt

CONSTANTS
  Number,      \* the numbers given as bounds and steps
  Char,        \* the codes given as bounds of characters
  Byte,        \* how many codes there are: characters are counted modulo Byte
  Item,        \* what a container may hold
  MaxItems,    \* bound: items in a container
  MaxChanges,  \* bound: changes the body makes to the variable or the container
  None

VARIABLES
  items,    \* the container the program goes over
  loop,     \* the record of the loop, or None
  var,      \* its variable
  changes,  \* changes so far
  visited,  \* the values the loop gave to its variable
  due,      \* the values it has to give
  ended     \* how the last loop ended: "no", "skipped", "done", "break"

forVars == <<items, loop, var, changes, visited, due, ended>>

ForInit ==
  /\ items \in SeqOf(Item, MaxItems)
  /\ loop = None
  /\ var = None
  /\ changes = 0
  /\ visited = <<>> /\ due = <<>> /\ ended = "no"

\* kind tells which of the fields step, queue, stack and cordpos is not NULL, "char"
\* that none is; rest is the queue or the stack, or the string with a position.
LoopType ==
  [kind : {"step", "char", "queue", "stack", "cord"}, act : Int \cup Item,
   target : Int \cup Item, step : Int, rest : Seq(Int \cup Item), max : Nat, pos : Nat]

\* Bounds of characters are codes.
ASSUME ForAssumption ==
  /\ Number \subseteq Int /\ Byte \in Nat /\ Char \subseteq 0 .. Byte - 1
  /\ MaxItems \in Nat /\ None \notin LoopType

Loop(kind, act) ==
  [kind |-> kind, act |-> act, target |-> act, step |-> 0, rest |-> <<>>, max |-> 0, pos |-> 0]

-----------------------------------------------------------------------------
(* trp_for_init. *)

\* What a loop from a to b has to visit.
Span(a, b, step, rev) ==
  LET up == IF step < 1 \/ b < a THEN <<>>
            ELSE [k \in 1 .. (b - a) \div step + 1 |-> a + (k - 1) * step]
  IN  IF rev THEN Reverse(up) ELSE up

\* Mutant: the last number is taken as it is.
Aligned_Not(a, b, step) == b

\* The last number of a, a + step, ... that is not beyond b: the end of the loop is
\* found by equality.
Aligned(a, b, step) == IF step = 1 THEN b ELSE a + step * ((b - a) \div step)

Numbers(a, b, step, rev) ==
  IF step = 0 \/ b < a \/ step < 0 THEN None
  ELSE LET last == Aligned(a, b, step)
       IN  IF rev
           THEN [Loop("step", last) EXCEPT !.step = -step, !.target = a]
           ELSE [Loop("step", a) EXCEPT !.step = step, !.target = last]

\* Characters go by a difference of one of theirs: step, but no step when the loop
\* has one value only.
Chars(a, b, step, rev) ==
  IF step < 1 \/ b < a THEN None
  ELSE LET last == a + ((b - a) \div step) * step
           chstep == IF a + step < last THEN step ELSE last - a
       IN  IF rev
           THEN [Loop("char", last) EXCEPT !.step = -chstep, !.target = a]
           ELSE [Loop("char", a) EXCEPT !.step = chstep, !.target = last]

Directed(s, rev) == IF rev THEN Reverse(s) ELSE s

\* The items are copied: by arrays, sets, associative arrays and graphs in the
\* order of the loop, by lists and queues taken backwards on a stack.
Queued(s, rev) ==
  IF s = <<>> THEN None
  ELSE LET d == Directed(s, rev) IN [Loop("queue", Head(d)) EXCEPT !.rest = Tail(d)]

Stacked(s) ==
  IF s = <<>> THEN None
  ELSE [Loop("stack", Last(s)) EXCEPT !.rest = Front(s)]

\* A string is not copied; a position moves over it.
Cord(s, rev) ==
  IF s = <<>> THEN None
  ELSE [Loop("cord", Head(Directed(s, rev))) EXCEPT !.rest = Directed(s, rev), !.max = Len(s) - 1]

\* The loop f, or none if the bounds or the container leave nothing to visit.
Start(f, s) ==
  /\ loop' = f
  /\ var' = IF f = None THEN var ELSE f.act
  /\ visited' = IF f = None THEN <<>> ELSE <<f.act>>
  /\ due' = s
  /\ ended' = IF f = None THEN "skipped" ELSE "no"
  /\ UNCHANGED <<items, changes>>

\* One loop: what is left of it when it is over means nothing to the next.
Begin ==
  /\ ended = "no" /\ loop = None
  /\ \/ \E a, b, step \in Number, rev \in BOOLEAN :
          Start(Numbers(a, b, step, rev), Span(a, b, step, rev))
     \/ \E a, b \in Char, step \in Number, rev \in BOOLEAN :
          Start(Chars(a, b, step, rev), Span(a, b, step, rev))
     \/ \E rev \in BOOLEAN : Start(Queued(items, rev), Directed(items, rev))
     \/ Start(Stacked(items), Reverse(items))
     \/ \E rev \in BOOLEAN : Start(Cord(items, rev), Directed(items, rev))

-----------------------------------------------------------------------------
(* trp_for_next and trp_for_break. *)

More(f) ==
  CASE f.kind \in {"step", "char"} -> f.act # f.target
    [] f.kind = "cord" -> f.pos < f.max
    [] OTHER -> f.rest # <<>>

Stepped(f) ==
  CASE f.kind = "step" -> [f EXCEPT !.act = @ + f.step]
    [] f.kind = "char" -> [f EXCEPT !.act = (@ + f.step) % Byte]
    [] f.kind = "cord" -> [f EXCEPT !.act = f.rest[f.pos + 2]]
    [] f.kind = "queue" -> [f EXCEPT !.act = Head(f.rest), !.rest = Tail(@)]
    [] f.kind = "stack" -> [f EXCEPT !.act = Last(f.rest), !.rest = Front(@)]

NextValue ==
  /\ loop # None /\ More(loop)
  /\ loop' = [Stepped(loop) EXCEPT !.pos = @ + 1]
  /\ var' = loop'.act
  /\ visited' = Append(visited, loop'.act)
  /\ UNCHANGED <<items, changes, due, ended>>

\* What the variable is when the loop is over, whatever the body did to it.
LastValue == loop.act

EndLoop(how) ==
  /\ loop' = None
  /\ var' = LastValue
  /\ ended' = how
  /\ UNCHANGED <<items, changes, visited, due>>

Exhausted == loop # None /\ ~More(loop) /\ EndLoop("done")
Break == loop # None /\ EndLoop("break")

-----------------------------------------------------------------------------

\* The body, or the program between two loops.
Assign ==
  /\ changes < MaxChanges
  /\ loop # None
  /\ var' = None
  /\ changes' = changes + 1
  /\ UNCHANGED <<items, loop, visited, due, ended>>

Change(s) ==
  /\ changes < MaxChanges
  /\ items' = s /\ items' # items
  /\ changes' = changes + 1
  /\ UNCHANGED <<loop, var, visited, due, ended>>

ForNext ==
  \/ Begin \/ NextValue \/ Exhausted \/ Break \/ Assign
  \/ \E s \in SeqOf(Item, MaxItems) : Change(s)

ForSpec == ForInit /\ [][ForNext]_forVars

-----------------------------------------------------------------------------
(* Properties. *)

\* A loop gives its variable what it has to visit, in order, and nothing else: what
\* the container held when it started, whatever the body does to the container and
\* to the variable, and the numbers or characters up to the last that is not beyond
\* the bound.  for-pos counts them, and when the loop is over the variable has the
\* last value it was given.
LoopExact ==
  /\ IsPrefix(visited, due)
  /\ ended = "skipped" => due = <<>>
  /\ ended = "done" => visited = due
  /\ loop # None => loop.act = Last(visited) /\ loop.pos = Len(visited) - 1
  /\ ended \in {"done", "break"} => var = Last(visited)
=============================================================================
