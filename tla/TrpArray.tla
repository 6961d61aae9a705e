------------------------------ MODULE TrpArray ------------------------------
(***************************************************************************)
(* Arrays, src/trp/trp_t_array.c: elements in one block of memory that is  *)
(* taken in multiples of incr.  Positions are those of the code, from 0.   *)
(* The size of the block is never stored, trp_array_max computes it from   *)
(* the length.  The algorithms of the sorts are in TrpArraySorts.          *)
(***************************************************************************)
EXTENDS Integers, SequencesExt

CONSTANTS
  Elem,        \* what is in arrays, in the order of the comparison
  Increments,  \* steps of growth
  Word,        \* uns32b counts modulo Word
  MaxLen,      \* bound: arrays are inserted into up to this length
  MaxArgs,     \* bound: how many elements a call inserts
  Array,       \* variables of the program
  Blank        \* memory nobody has written, or that was cleared

\* No length and step together exceed a word.
ASSUME ArrayAssumption ==
  /\ Elem \subseteq Int /\ Blank \notin Elem
  /\ Increments \subseteq Nat \ {0}
  /\ Word \in Nat /\ MaxLen \in Nat /\ MaxArgs \in Nat
  /\ \A i \in Increments : MaxLen + i <= Word /\ MaxArgs + i <= Word

VARIABLES
  arrayLen,  \* len[a]
  incr,      \* incr[a]
  data       \* data[a][i]: the memory at position i of the block of a

arrayVars == <<arrayLen, incr, data>>

\* trp_array_max: the places in the block of an array of length l.
ArrayMax(l, i) == (((l + i - 1) % Word) \div i) * i

\* The positions among n.
Places(n) == 0 .. n - 1

NoBlock == [k \in {} |-> Blank]

Elements(a) == [i \in 1 .. arrayLen[a] |-> data[a][i - 1]]

\* The array in variable a becomes this one.
Turns(a, l, i, d) ==
  /\ arrayLen' = [arrayLen EXCEPT ![a] = l]
  /\ incr' = [incr EXCEPT ![a] = i]
  /\ data' = [data EXCEPT ![a] = d]

-----------------------------------------------------------------------------
(* Calls. *)

\* array-ext.
ArrayNew(a, v, i, l) ==
  Turns(a, l, i, IF l = 0 THEN NoBlock
                 ELSE [k \in Places(ArrayMax(l, i)) |-> IF k < l THEN v ELSE Blank])

\* The elements from n on move up by the number of new ones; the block is made or
\* enlarged when they do not fit.
ArrayInsert(a, n, xs) ==
  LET l == arrayLen[a]
      c == Len(xs)
      m == ArrayMax(l, incr[a])
      size == IF l = 0 \/ c > m - l THEN ArrayMax(l + c, incr[a]) ELSE m
  IN  Turns(a, l + c, incr[a],
            [k \in Places(size) |-> IF k < n THEN data[a][k]
                                    ELSE IF k < n + c THEN xs[k - n + 1]
                                    ELSE IF k < l + c THEN data[a][k - c]
                                    ELSE IF l > 0 /\ k < m THEN data[a][k] ELSE Blank])

\* Mutant: as many are moved down as are removed.
ArrayRemove_MovesRemoved(a, n, cnt) ==
  LET c == IF cnt < arrayLen[a] - n THEN cnt ELSE arrayLen[a] - n
      l == arrayLen[a] - c
  IN  Turns(a, l, incr[a],
            IF l = 0 THEN NoBlock
            ELSE [k \in Places(ArrayMax(l, incr[a])) |->
                    IF k < n \/ k >= n + c THEN data[a][k]
                    ELSE IF k < l THEN data[a][k + c] ELSE Blank])

\* At most cnt elements from n on go, those behind them move down, the rest of the
\* block is cleared; it shrinks, or is given back, with the length.
ArrayRemove(a, n, cnt) ==
  LET c == IF cnt < arrayLen[a] - n THEN cnt ELSE arrayLen[a] - n
      l == arrayLen[a] - c
  IN  Turns(a, l, incr[a],
            IF l = 0 THEN NoBlock
            ELSE [k \in Places(ArrayMax(l, incr[a])) |->
                    IF k < n THEN data[a][k]
                    ELSE IF k < l THEN data[a][k + c]
                    ELSE IF k < l + c THEN Blank ELSE data[a][k]])

ArraySet(a, n, v) == Turns(a, arrayLen[a], incr[a], [data[a] EXCEPT ![n] = v])

\* array-close.
ArrayClose(a) == Turns(a, 0, incr[a], NoBlock)

\* b becomes a new array of what is between two positions of a; decode(encode(a))
\* is the whole of it.
ArraySub(b, a, start, cnt) ==
  LET l == IF cnt < arrayLen[a] - start THEN cnt ELSE arrayLen[a] - start
  IN  Turns(b, l, incr[a],
            IF l = 0 THEN NoBlock
            ELSE [k \in Places(ArrayMax(l, incr[a])) |->
                    IF k < l THEN data[a][start + k] ELSE Blank])

\* The first n elements of d in order: what each of the sorts makes of them, see
\* SortsExact.
Arranged(d, n) ==
  LET values == {d[k] : k \in Places(n)}
      InOrder(e) == \A k \in 1 .. n - 1 : e[k - 1] <= e[k]
      Count(e, v) == Cardinality({k \in Places(n) : e[k] = v})
  IN  {[k \in DOMAIN d |-> IF k < n THEN e[k] ELSE d[k]] :
         e \in {e \in [Places(n) -> values] : InOrder(e) /\ \A v \in values : Count(e, v) = Count(d, v)}}

ArraySort(a) == \E d \in Arranged(data[a], arrayLen[a]) : Turns(a, arrayLen[a], incr[a], d)

-----------------------------------------------------------------------------
ArrayInit ==
  /\ arrayLen = [a \in Array |-> 0]
  /\ incr \in [Array -> Increments]
  /\ data = [a \in Array |-> NoBlock]

ArrayNext ==
  \E a \in Array :
    \/ \E v \in Elem, i \in Increments, l \in 0 .. MaxArgs : ArrayNew(a, v, i, l)
    \/ \E n \in 0 .. arrayLen[a], xs \in SeqOf(Elem, MaxArgs) :
         xs # <<>> /\ arrayLen[a] + Len(xs) <= MaxLen /\ ArrayInsert(a, n, xs)
    \/ \E n \in 0 .. arrayLen[a] - 1, cnt \in 1 .. MaxLen : ArrayRemove(a, n, cnt)
    \/ \E n \in 0 .. arrayLen[a] - 1, v \in Elem : ArraySet(a, n, v)
    \/ ArrayClose(a)
    \/ \E b \in Array : \E n \in 0 .. arrayLen[b], cnt \in 0 .. MaxLen : ArraySub(a, b, n, cnt)
    \/ ArraySort(a)

ArraySpec == ArrayInit /\ [][ArrayNext]_arrayVars

-----------------------------------------------------------------------------
(* Properties. *)

\* The block has the size trp_array_max computes for the length of the moment, which
\* is what the next call takes it to have, and the elements fit; all that is not an
\* element but was one is cleared.
BlockFits ==
  \A a \in Array :
    /\ DOMAIN data[a] = Places(ArrayMax(arrayLen[a], incr[a]))
    /\ arrayLen[a] <= ArrayMax(arrayLen[a], incr[a])
    /\ \A i \in DOMAIN data[a] : data[a][i] = Blank <=> i >= arrayLen[a]

\* At most c elements of s, from position i on.
Slice(s, i, c) == SubSeq(s, i + 1, IF i + c < Len(s) THEN i + c ELSE Len(s))

\* Calls do to the elements what they say, however they move and the block grows and
\* shrinks around them, and leave a block the next call can take for granted.
CallExact ==
  BlockFits' /\ \A a \in Array :
    LET s == Elements(a)
        t == Elements(a)'
    IN  /\ \A n \in 0 .. arrayLen[a], xs \in SeqOf(Elem, MaxArgs) :
             xs # <<>> /\ arrayLen'[a] = arrayLen[a] + Len(xs) /\ ArrayInsert(a, n, xs)
               => t = SubSeq(s, 1, n) \o xs \o SubSeq(s, n + 1, Len(s))
        /\ \A n \in 0 .. arrayLen[a] - 1, cnt \in 1 .. MaxLen :
             arrayLen'[a] < arrayLen[a] /\ ArrayRemove(a, n, cnt)
               => t = Slice(s, 0, n) \o Slice(s, n + cnt, Len(s))
        /\ \A b \in Array : \A n \in 0 .. arrayLen[b], cnt \in 0 .. MaxLen :
             ArraySub(a, b, n, cnt) => t = Slice(Elements(b), n, cnt)

CallsExact == [][CallExact]_arrayVars
=============================================================================
