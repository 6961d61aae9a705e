--------------------------- MODULE TrpPriorityQueue ---------------------------
(***************************************************************************)
(* What fibo-insert, fibo-extract, fibo-decrease-key, fibo-set-key,        *)
(* fibo-delete and fibo-merge promise to a program: every heap is a set of *)
(* nodes with keys, and extraction removes one whose key is least.         *)
(***************************************************************************)
EXTENDS Integers

CONSTANTS Heap, Node, Null

VARIABLES
  content,  \* content[h]: the nodes of h
  key,      \* key[x]: the key of node x
  last      \* what the last extraction returned

avars == <<content, key, last>>

AInit ==
  /\ content = [h \in Heap |-> {}]
  /\ key = [x \in Node |-> 0]
  /\ last = Null

\* In each operation now and next are the contents before and after it.

Insert(now, next, h, x, k) ==
  /\ key' = [key EXCEPT ![x] = k]
  /\ UNCHANGED last
  /\ \A g \in Heap : x \notin now[g]
  /\ next = [now EXCEPT ![h] = @ \cup {x}]

Extract(now, next, h, x) ==
  /\ last' = x
  /\ UNCHANGED key
  /\ x \in now[h]
  /\ \A y \in now[h] : key[x] <= key[y]
  /\ next = [now EXCEPT ![h] = @ \ {x}]

\* fibo-decrease-key, and fibo-set-key, which also raises a key.
Rekey(now, next, x, k) ==
  /\ key' = [key EXCEPT ![x] = k]
  /\ UNCHANGED last
  /\ next = now

Delete(now, next, h, x) ==
  /\ UNCHANGED <<key, last>>
  /\ x \in now[h]
  /\ next = [now EXCEPT ![h] = @ \ {x}]

Merge(now, next, h, g) ==
  /\ h # g
  /\ UNCHANGED <<key, last>>
  /\ next = [now EXCEPT ![h] = @ \cup now[g], ![g] = {}]

\* The contents are bound: a refinement mapping is evaluated once a step.
ANext ==
  \E now \in {content}, next \in {content'} :
    \/ \E h \in Heap, x \in Node :
         \/ Extract(now, next, h, x) \/ Delete(now, next, h, x)
         \/ Insert(now, next, h, x, key'[x])
    \/ \E x \in Node : Rekey(now, next, x, key'[x])
    \/ \E h, g \in Heap : Merge(now, next, h, g)

ASpec == AInit /\ [][ANext]_avars
=============================================================================
