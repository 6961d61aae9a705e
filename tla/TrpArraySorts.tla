---------------------------- MODULE TrpArraySorts ----------------------------
(***************************************************************************)
(* The three algorithms that sort the arrays of TrpArray,                  *)
(* src/trp/trp_t_array.c.                                                  *)
(***************************************************************************)
EXTENDS TrpArray

-----------------------------------------------------------------------------
(* The first n elements of a block d are sorted, with any comparison       *)
(* function Cmp(x, y) of a program.                                        *)

Exchange(d, i, j) == [d EXCEPT ![i] = d[j], ![j] = d[i]]

Least(S) == CHOOSE i \in S : \A j \in S : i <= j
Greatest(S) == CHOOSE i \in S : \A j \in S : i >= j

\* The two ends of a partition meet; the pivot is at fr.
RECURSIVE Cross(_, _, _, _, _)
Cross(Cmp, d, fr, i1, i2) ==
  LET a == IF i1 < i2 THEN Least({i \in i1 .. i2 - 1 : <<d[fr], d[i]>> \in Cmp} \cup {i2}) ELSE i1
      b == Greatest({i \in a .. i2 : <<d[i], d[fr]>> \in Cmp} \cup {a - 1})
  IN  IF a >= b THEN [d |-> Exchange(d, fr, b), pos |-> b]
      ELSE Cross(Cmp, Exchange(d, a, b), fr, a + 1, b - 1)

Perno(Cmp, d, fr, to) == Cross(Cmp, Exchange(d, fr, (fr + to) \div 2), fr, fr + 1, to)

\* Mutant: parts of two elements are left as they are.
RECURSIVE QuicksortRec_PairsLeft(_, _, _, _)
QuicksortRec_PairsLeft(Cmp, d, fr, to) ==
  LET p == Perno(Cmp, d, fr, to)
      low == IF p.pos - fr > 2 THEN QuicksortRec_PairsLeft(Cmp, p.d, fr, p.pos - 1) ELSE p.d
  IN  IF to - p.pos > 2 THEN QuicksortRec_PairsLeft(Cmp, low, p.pos + 1, to) ELSE low

RECURSIVE QuicksortRec(_, _, _, _)
QuicksortRec(Cmp, d, fr, to) ==
  LET p == Perno(Cmp, d, fr, to)
      low == IF p.pos - fr > 1 THEN QuicksortRec(Cmp, p.d, fr, p.pos - 1) ELSE p.d
  IN  IF to - p.pos > 1 THEN QuicksortRec(Cmp, low, p.pos + 1, to) ELSE low

Quicksort(Cmp, d, n) == IF n <= 1 THEN d ELSE QuicksortRec(Cmp, d, 0, n - 1)

RECURSIVE Up(_, _, _)
Up(Cmp, d, j) ==
  LET k == (j - 1) \div 2
  IN  IF j = 0 \/ <<d[k], d[j]>> \notin Cmp THEN d ELSE Up(Cmp, Exchange(d, k, j), k)

\* From i down, in a heap of n elements.
RECURSIVE Down(_, _, _, _)
Down(Cmp, d, i, n) ==
  LET l == 2 * i + 1
      j == IF l + 1 < n /\ <<d[l], d[l + 1]>> \in Cmp THEN l + 1 ELSE l
  IN  IF l >= n \/ <<d[i], d[j]>> \notin Cmp THEN d ELSE Down(Cmp, Exchange(d, i, j), j, n)

Heapsort(Cmp, d, n) ==
  LET heap == FoldLeft(LAMBDA e, j : Up(Cmp, e, j), d, [j \in 1 .. n - 1 |-> j])
  IN  FoldLeft(LAMBDA e, k : Down(Cmp, Exchange(e, 0, n - k), 0, n - k), heap,
               [k \in 1 .. n - 1 |-> k])

RECURSIVE Merge(_, _, _)
Merge(Cmp, s, t) ==
  IF s = <<>> THEN t
  ELSE IF t = <<>> THEN s
  ELSE IF <<Head(s), Head(t)>> \in Cmp THEN <<Head(s)>> \o Merge(Cmp, Tail(s), t)
  ELSE <<Head(t)>> \o Merge(Cmp, s, Tail(t))

\* Blocks of sz elements, in order, become blocks of twice as many.
RECURSIVE Pass(_, _, _)
Pass(Cmp, s, sz) ==
  IF Len(s) <= sz THEN s
  ELSE LET max == IF 2 * sz > Len(s) THEN Len(s) ELSE 2 * sz
       IN  Merge(Cmp, SubSeq(s, 1, sz), SubSeq(s, sz + 1, max))
             \o Pass(Cmp, SubSeq(s, max + 1, Len(s)), sz)

RECURSIVE Passes(_, _, _)
Passes(Cmp, s, sz) == IF sz >= Len(s) THEN s ELSE Passes(Cmp, Pass(Cmp, s, sz), 2 * sz)

\* The passes go back and forth between the array and a buffer.
Mergesort(Cmp, d, n) ==
  LET s == Passes(Cmp, [i \in 1 .. n |-> d[i - 1]], 1)
  IN  [i \in DOMAIN d |-> IF i < n THEN s[i + 1] ELSE d[i]]

Less == {r \in Elem \X Elem : r[1] < r[2]}

Sorts(Cmp, d, n) == {Quicksort(Cmp, d, n), Heapsort(Cmp, d, n), Mergesort(Cmp, d, n)}

-----------------------------------------------------------------------------
(* Properties. *)

\* All functions that order elements of rank r[v]: weak orders with ties.
Orders == {{p \in Elem \X Elem : r[p[1]] < r[p[2]]} : r \in [Elem -> Elem]}

\* Each sort leaves the elements as they are in some order, whatever the comparison
\* answers, and in the order the comparison asks for if it is one, ties or not; and
\* nothing behind them is touched.  So much TrpArray takes for granted.
SortsExact ==
  /\ \A a \in Array : Sorts(Less, data[a], arrayLen[a]) \subseteq Arranged(data[a], arrayLen[a])
  /\ \A a \in Array, Cmp \in Orders \cup {Elem \X Elem, {<<v, w>> \in Elem \X Elem : v <= w}} :
       \A d \in Sorts(Cmp, data[a], arrayLen[a]) :
         /\ \A v \in Elem \cup {Blank} :
              Cardinality({i \in DOMAIN d : d[i] = v}) = Cardinality({i \in DOMAIN d : data[a][i] = v})
         /\ \A i \in DOMAIN d : i >= arrayLen[a] => d[i] = data[a][i]
         /\ Cmp \in Orders => \A i \in 1 .. arrayLen[a] - 1 : <<d[i], d[i - 1]>> \notin Cmp
=============================================================================
