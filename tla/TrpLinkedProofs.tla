--------------------------- MODULE TrpLinkedProofs ---------------------------
(***************************************************************************)
(* Theorems about the chains of TrpLinked, for any memory, any values and  *)
(* any queues, stacks and lists: no cell has two owners, and the chains    *)
(* implement the sequences of TrpSequences.                                *)
(***************************************************************************)
EXTENDS TrpLinked, SequenceTheorems, FiniteSetTheorems, WellFoundedInduction, TLAPS

-----------------------------------------------------------------------------
(* Numbers and sequences *)

\* A set of positions has a least element: < is well-founded on Nat.
LEMMA LeastPosition ==
  ASSUME NEW I \in SUBSET Nat, I # {}
  PROVE  \E k \in I : \A j \in I : ~ j < k
<1> DEFINE Lt == OpToRel(<, Nat)
<1>1. IsWellFoundedOn(Lt, Nat)
  BY NatLessThanWellFounded
<1>2. ASSUME NEW j \in Nat, NEW k \in Nat, j < k
      PROVE  <<j, k>> \in Lt
  <2>1. <<j, k>> \in Nat \X Nat
    OBVIOUS
  <2>2. <<j, k>>[1] < <<j, k>>[2]
    BY <1>2
  <2> QED
    BY <2>1, <2>2, Zenon DEF OpToRel
<1> HIDE DEF Lt
<1>3. \E k \in I : \A j \in I : ~ (<<j, k>> \in Lt)
  BY <1>1, WFMin
<1> QED
  BY <1>2, <1>3

\* The range of a sequence is what stands at its positions.
LEMMA RangeOf ==
  ASSUME NEW T, NEW s \in Seq(T)
  PROVE  /\ \A i \in 1 .. Len(s) : s[i] \in Range(s)
         /\ \A x \in Range(s) : \E i \in 1 .. Len(s) : x = s[i]
         /\ Range(s) \subseteq T
BY LenProperties, ElementOfSeq DEF Range

-----------------------------------------------------------------------------
(* Chains *)

\* s is the chain of cells that begins with c when nx says what follows.
IsChain(nx, c, s) ==
  /\ s \in Seq(Cell)
  /\ s = <<>> => c \in End
  /\ s # <<>> => s[1] = c /\ nx[s[Len(s)]] \in End
  /\ \A i \in 1 .. Len(s) - 1 : nx[s[i]] = s[i + 1]

\* A chain passes no cell twice: from there it would never end.
LEMMA ChainInjective ==
  ASSUME NEW nx, NEW c, NEW s, IsChain(nx, c, s)
  PROVE  \A i, j \in 1 .. Len(s) : s[i] = s[j] => i = j
<1> USE DEF IsChain
<1>1. s \in Seq(Cell) /\ Len(s) \in Nat /\ \A i \in 1 .. Len(s) : s[i] \in Cell
  BY LenProperties, ElementOfSeq
<1> SUFFICES ASSUME NEW i0 \in 1 .. Len(s), NEW j0 \in 1 .. Len(s), i0 < j0, s[i0] = s[j0]
             PROVE  FALSE
  BY <1>1
<1> DEFINE D == {m \in Nat : \E i, j \in 1 .. Len(s) : i < j /\ s[i] = s[j] /\ m = Len(s) - j}
<1>2. D \in SUBSET Nat /\ D # {}
  <2>1. Len(s) - j0 \in D
    BY <1>1
  <2> QED BY <2>1
<1>3. PICK m \in D : \A k \in D : ~ k < m
  BY <1>2, LeastPosition
<1>4. PICK i \in 1 .. Len(s), j \in 1 .. Len(s) : i < j /\ s[i] = s[j] /\ m = Len(s) - j
  BY <1>3
<1>5. i \in 1 .. Len(s) - 1 /\ nx[s[i]] = s[i + 1] /\ i + 1 \in 1 .. Len(s) /\ s[i + 1] \in Cell
  BY <1>1, <1>4
<1>6. CASE j = Len(s)
  <2>1. nx[s[j]] \in End
    BY <1>1, <1>6, EmptySeq
  <2> QED BY <1>4, <1>5, <2>1, LinkedAssumption
<1>7. CASE j # Len(s)
  <2>1. j \in 1 .. Len(s) - 1 /\ j + 1 \in 1 .. Len(s) /\ nx[s[j]] = s[j + 1]
    BY <1>1, <1>7
  <2>2. i + 1 < j + 1 /\ s[i + 1] = s[j + 1]
    BY <1>4, <1>5, <2>1
  <2>3. Len(s) - (j + 1) \in Nat
    BY <1>1, <2>1
  <2>4. Len(s) - (j + 1) \in D
    BY <1>5, <2>1, <2>2, <2>3
  <2>5. Len(s) - (j + 1) < m
    BY <1>1, <1>4
  <2> QED BY <1>3, <2>4, <2>5
<1> QED BY <1>6, <1>7

\* A chain is no longer than the memory.
LEMMA ChainFits ==
  ASSUME NEW nx, NEW c, NEW s, IsChain(nx, c, s)
  PROVE  Cardinality(Cell) \in Nat /\ Len(s) \in 0 .. Cardinality(Cell)
<1>1. s \in Seq(Cell) /\ Len(s) \in Nat /\ s \in [1 .. Len(s) -> Cell]
  BY LenProperties DEF IsChain
<1>2. s \in Injection(1 .. Len(s), Cell)
  BY <1>1, ChainInjective DEF Injection, IsInjective
<1>3. Cardinality(1 .. Len(s)) <= Cardinality(Cell)
  BY <1>2, FS_Injection, LinkedAssumption
<1>4. Cardinality(1 .. Len(s)) = Len(s)
  BY <1>1, FS_Interval
<1>5. Cardinality(Cell) \in Nat
  BY FS_CardinalityType, LinkedAssumption
<1> QED BY <1>1, <1>3, <1>4, <1>5

\* What Chain computes is the chain, where there is one.
LEMMA ChainIs ==
  ASSUME NEW nx, NEW c, NEW s, IsChain(nx, c, s)
  PROVE  Chain(nx, c) = s
<1> DEFINE e == IF s = <<>> THEN c ELSE nx[s[Len(s)]]
           G(g) == [k \in Nat |-> IF k = 0 THEN c
                                  ELSE IF g[k - 1] \in End THEN g[k - 1] ELSE nx[g[k - 1]]]
           h == [k \in Nat |-> IF k < Len(s) THEN s[k + 1] ELSE e]
           at == CHOOSE g : g = G(g)
           last0(k) == at[k] \in End /\ \A j \in 0 .. k - 1 : at[j] \notin End
           n == CHOOSE k \in 0 .. Cardinality(Cell) : last0(k)
<1>1. s \in Seq(Cell) /\ Len(s) \in Nat /\ \A i \in 1 .. Len(s) : s[i] \in Cell /\ s[i] \notin End
  BY LenProperties, ElementOfSeq, LinkedAssumption DEF IsChain
<1>2. e \in End
  BY DEF IsChain
<1>3. \A k \in 0 .. Len(s) - 1 : k + 1 \in 1 .. Len(s)
  BY <1>1
<1>4. ASSUME NEW k \in Nat \ {0}
      PROVE  h[k] = IF h[k - 1] \in End THEN h[k - 1] ELSE nx[h[k - 1]]
  <2>1. k - 1 \in Nat /\ h[k] = (IF k < Len(s) THEN s[k + 1] ELSE e)
        /\ h[k - 1] = (IF k - 1 < Len(s) THEN s[(k - 1) + 1] ELSE e)
    OBVIOUS
  <2> HIDE DEF h, e
  <2>2. CASE k < Len(s)
    <3>1. h[k] = s[k + 1] /\ h[k - 1] = s[k] /\ k \in 1 .. Len(s) - 1 /\ k \in 1 .. Len(s)
      BY <1>1, <2>1, <2>2
    <3> QED BY <1>1, <3>1 DEF IsChain
  <2>3. CASE k = Len(s)
    <3>1. h[k] = e /\ h[k - 1] = s[k] /\ k \in 1 .. Len(s)
      BY <1>1, <2>1, <2>3
    <3>2. e = nx[s[k]]
      BY <1>1, <2>3, EmptySeq DEF e
    <3> QED BY <1>1, <3>1, <3>2
  <2>4. CASE k > Len(s)
    <3>1. h[k] = e /\ h[k - 1] = e
      BY <1>1, <2>1, <2>4
    <3> QED BY <1>2, <3>1
  <2> QED BY <1>1, <2>2, <2>3, <2>4
<1>5. h[0] = c
  <2>1. s # <<>> => s[1] = c /\ 0 < Len(s)
    BY <1>1, EmptySeq DEF IsChain
  <2>2. s = <<>> => Len(s) = 0
    BY EmptySeq
  <2> QED BY <2>1, <2>2
<1>6. h = G(h)
  BY <1>4, <1>5
<1>7. at = G(at)
  <2> HIDE DEF G, h
  <2> QED BY <1>6
<1>8. at[0] = c /\ \A k \in Nat \ {0} :
        at[k] = IF at[k - 1] \in End THEN at[k - 1] ELSE nx[at[k - 1]]
  <2>1. \A k \in Nat : at[k] = G(at)[k]
    BY <1>7
  <2> HIDE DEF at
  <2> QED BY <2>1
<1>9. \A k \in Nat : at[k] = h[k]
  <2> DEFINE D == {k \in Nat : at[k] # h[k]}
  <2> HIDE DEF at, h
  <2> SUFFICES ASSUME D # {} PROVE FALSE
    OBVIOUS
  <2>1. PICK k \in D : \A j \in D : ~ j < k
    BY LeastPosition
  <2>2. k # 0
    BY <1>5, <1>8
  <2>3. k - 1 \in Nat /\ at[k - 1] = h[k - 1]
    BY <2>1, <2>2
  <2> QED BY <1>4, <1>8, <2>2, <2>3
<1>10. last0(Len(s))
  <2>1. at[Len(s)] = e
    BY <1>1, <1>9
  <2>2. ASSUME NEW j \in 0 .. Len(s) - 1 PROVE at[j] \notin End
    <3>1. at[j] = s[j + 1]
      BY <1>1, <1>9
    <3> QED BY <1>1, <1>3, <3>1
  <2> QED BY <1>2, <2>1, <2>2
<1>11. \A k \in 0 .. Cardinality(Cell) : last0(k) => k = Len(s)
  <2> SUFFICES ASSUME NEW k \in 0 .. Cardinality(Cell), last0(k) PROVE k = Len(s)
    OBVIOUS
  <2>1. ~ k < Len(s)
    BY <1>1, <1>10
  <2>2. ~ Len(s) < k
    BY <1>1, <1>10
  <2>3. k \in Nat
    BY ChainFits
  <2> QED BY <1>1, <2>1, <2>2, <2>3
<1>12. n = Len(s)
  <2>1. Len(s) \in 0 .. Cardinality(Cell)
    BY ChainFits
  <2> HIDE DEF last0
  <2> QED BY <1>10, <1>11, <2>1
<1>13. Chain(nx, c) = IF c \in End THEN <<>> ELSE [i \in 1 .. n |-> at[i - 1]]
  BY DEF Chain
<1>14. \A i \in 1 .. Len(s) : at[i - 1] = s[i]
  <2> SUFFICES ASSUME NEW i \in 1 .. Len(s) PROVE at[i - 1] = s[i]
    OBVIOUS
  <2>1. i - 1 \in Nat /\ i - 1 < Len(s) /\ (i - 1) + 1 = i
    BY <1>1
  <2> QED BY <1>9, <2>1
<1>15. s = [i \in 1 .. Len(s) |-> s[i]]
  BY <1>1, LenProperties
<1>16. s # <<>> => c \in Cell /\ c \notin End
  BY <1>1, EmptySeq DEF IsChain
<1> HIDE DEF at, n
<1>17. s # <<>> => Chain(nx, c) = s
  BY <1>12, <1>13, <1>14, <1>15, <1>16
<1>18. s = <<>> => Chain(nx, c) = s
  BY <1>13 DEF IsChain
<1> QED BY <1>17, <1>18

\* A chain stays one where none of its cells changes.
LEMMA ChainFrame ==
  ASSUME NEW nx, NEW c, NEW s, IsChain(nx, c, s), NEW nx2, \A d \in Range(s) : nx2[d] = nx[d]
  PROVE  IsChain(nx2, c, s) /\ EndOf(nx2, c) = EndOf(nx, c)
<1>1. s \in Seq(Cell) /\ Len(s) \in Nat /\ \A i \in 1 .. Len(s) : s[i] \in Range(s)
  BY RangeOf, LenProperties DEF IsChain
<1>2. s # <<>> => Len(s) \in 1 .. Len(s)
  BY <1>1, EmptySeq
<1>3. \A i \in 1 .. Len(s) - 1 : i \in 1 .. Len(s)
  BY <1>1
<1>4. IsChain(nx2, c, s)
  BY <1>1, <1>2, <1>3 DEF IsChain
<1>5. Chain(nx2, c) = s /\ Chain(nx, c) = s
  BY <1>4, ChainIs
<1>6. s # <<>> => nx2[s[Len(s)]] = nx[s[Len(s)]]
  BY <1>1, <1>2
<1>7. /\ EndOf(nx, c) = IF s = <<>> THEN c ELSE nx[s[Len(s)]]
      /\ EndOf(nx2, c) = IF s = <<>> THEN c ELSE nx2[s[Len(s)]]
  BY <1>5 DEF EndOf, Last
<1> QED BY <1>4, <1>6, <1>7

\* The end of a chain.
LEMMA ChainEnd ==
  ASSUME NEW nx, NEW c, NEW s, IsChain(nx, c, s)
  PROVE  /\ EndOf(nx, c) = IF s = <<>> THEN c ELSE nx[s[Len(s)]]
         /\ EndOf(nx, c) \in End
         /\ s = <<>> <=> c \in End
<1>1. s # <<>> => s[1] \in Cell
  BY EmptySeq, ElementOfSeq DEF IsChain
<1>2. EndOf(nx, c) = IF s = <<>> THEN c ELSE nx[s[Len(s)]]
  BY ChainIs DEF EndOf, Last
<1>3. s = <<>> => c \in End
  BY DEF IsChain
<1>4. s # <<>> => c \in Cell /\ nx[s[Len(s)]] \in End
  BY <1>1 DEF IsChain
<1> QED BY <1>2, <1>3, <1>4, LinkedAssumption

\* A chain without its first cells is the chain from there on.
LEMMA ChainDrop ==
  ASSUME NEW nx, NEW c, NEW s, IsChain(nx, c, s), NEW i \in 0 .. Len(s)
  PROVE  LET rest == IF i = Len(s) THEN EndOf(nx, c) ELSE s[i + 1]
             t == SubSeq(s, i + 1, Len(s))
         IN  /\ IsChain(nx, rest, t) /\ EndOf(nx, rest) = EndOf(nx, c)
             /\ Len(t) = Len(s) - i /\ \A j \in 1 .. Len(t) : t[j] = s[i + j]
             /\ Range(t) \subseteq Range(s)
<1> DEFINE rest == IF i = Len(s) THEN EndOf(nx, c) ELSE s[i + 1]
           t == SubSeq(s, i + 1, Len(s))
<1>1. s \in Seq(Cell) /\ Len(s) \in Nat /\ \A k \in 1 .. Len(s) : s[k] \in Cell
  BY LenProperties, ElementOfSeq DEF IsChain
<1>2. t \in Seq(Cell) /\ Len(t) = Len(s) - i /\ \A j \in 1 .. Len(t) : t[j] = s[i + j]
  <2>1. \A k \in (i + 1) .. Len(s) : s[k] \in Cell
    BY <1>1
  <2>2. /\ t \in Seq(Cell) /\ Len(t) = (IF i + 1 <= Len(s) THEN Len(s) - (i + 1) + 1 ELSE 0)
        /\ \A j \in 1 .. Len(s) - (i + 1) + 1 : t[j] = s[(i + 1) + j - 1]
    BY <1>1, <2>1, SubSeqProperties
  <2> HIDE DEF t
  <2>3. Len(t) = Len(s) - i /\ Len(s) - (i + 1) + 1 = Len(s) - i
    BY <1>1, <2>2
  <2>4. ASSUME NEW j \in 1 .. Len(t) PROVE t[j] = s[i + j]
    <3>1. j \in 1 .. Len(s) - (i + 1) + 1 /\ (i + 1) + j - 1 = i + j
      BY <1>1, <2>3
    <3> QED BY <2>2, <3>1
  <2> QED BY <2>2, <2>3, <2>4
<1> HIDE DEF t
<1>3. EndOf(nx, c) \in End
  BY ChainEnd
<1>4. IsChain(nx, rest, t) /\ EndOf(nx, rest) = EndOf(nx, c)
  <2>1. CASE i = Len(s)
    <3>1. t = <<>> /\ Len(t) = 0
      BY <1>1, <1>2, <2>1, EmptySeq
    <3>2. IsChain(nx, rest, t)
      BY <1>2, <1>3, <2>1, <3>1 DEF IsChain
    <3> QED BY <2>1, <3>1, <3>2, ChainEnd
  <2>2. CASE i # Len(s)
    <3>1. Len(t) \in 1 .. Len(s) /\ Len(t) = Len(s) - i /\ t # <<>> /\ s # <<>>
      BY <1>1, <1>2, <2>2, EmptySeq
    <3>2. t[1] = s[i + 1] /\ t[Len(t)] = s[Len(s)]
      BY <1>1, <1>2, <3>1
    <3>3. \A j \in 1 .. Len(t) - 1 : nx[t[j]] = t[j + 1]
      <4> SUFFICES ASSUME NEW j \in 1 .. Len(t) - 1 PROVE nx[t[j]] = t[j + 1]
        OBVIOUS
      <4>1. /\ j \in 1 .. Len(t) /\ j + 1 \in 1 .. Len(t) /\ i + j \in 1 .. Len(s) - 1
            /\ i + (j + 1) = (i + j) + 1
        BY <1>1, <3>1
      <4> QED BY <1>2, <4>1 DEF IsChain
    <3>4. IsChain(nx, rest, t)
      BY <1>2, <2>2, <3>1, <3>2, <3>3 DEF IsChain
    <3> QED BY <3>1, <3>2, <3>4, ChainEnd
  <2> QED BY <2>1, <2>2
<1>5. Range(t) \subseteq Range(s)
  <2> SUFFICES ASSUME NEW x \in Range(t) PROVE x \in Range(s)
    OBVIOUS
  <2>1. PICK j \in 1 .. Len(t) : x = t[j]
    BY <1>2, RangeOf
  <2>2. i + j \in 1 .. Len(s)
    BY <1>1, <1>2
  <2> QED BY <1>1, <1>2, <2>1, <2>2, RangeOf
<1> QED BY <1>2, <1>4, <1>5 DEF t

\* Cells in front of a chain, each followed by the next and the last one by the chain.
LEMMA ChainJoin ==
  ASSUME NEW nx, NEW cs \in Seq(Cell), NEW e, NEW t, IsChain(nx, e, t),
         \A i \in 1 .. Len(cs) : nx[cs[i]] = IF i = Len(cs) THEN e ELSE cs[i + 1]
  PROVE  LET c == IF cs = <<>> THEN e ELSE cs[1]
         IN  IsChain(nx, c, cs \o t) /\ EndOf(nx, c) = EndOf(nx, e)
<1> DEFINE c == IF cs = <<>> THEN e ELSE cs[1]
           s == cs \o t
<1>1. t \in Seq(Cell) /\ Len(t) \in Nat /\ Len(cs) \in Nat
  BY LenProperties DEF IsChain
<1>2. /\ s \in Seq(Cell) /\ Len(s) = Len(cs) + Len(t)
      /\ \A i \in 1 .. Len(cs) + Len(t) : s[i] = IF i <= Len(cs) THEN cs[i] ELSE t[i - Len(cs)]
  BY <1>1, ConcatProperties
<1> HIDE DEF s
<1>3. CASE cs = <<>>
  <2>1. s = t
    BY <1>1, <1>3, ConcatEmptySeq DEF s
  <2> QED BY <1>3, <2>1 DEF s
<1>4. CASE cs # <<>>
  <2>1. Len(cs) \in Nat \ {0} /\ s # <<>> /\ c = cs[1] /\ s[1] = c
    BY <1>1, <1>2, <1>4, EmptySeq
  <2>2. CASE t = <<>>
    <3>1. Len(t) = 0 /\ e \in End /\ EndOf(nx, e) = e
      BY <2>2, ChainEnd, EmptySeq DEF IsChain
    <3>2. Len(s) = Len(cs) /\ \A i \in 1 .. Len(s) : s[i] = cs[i]
      BY <1>1, <1>2, <3>1
    <3>3. nx[s[Len(s)]] = e
      BY <2>1, <3>2
    <3>4. \A i \in 1 .. Len(s) - 1 : nx[s[i]] = s[i + 1]
      <4> SUFFICES ASSUME NEW i \in 1 .. Len(s) - 1 PROVE nx[s[i]] = s[i + 1]
        OBVIOUS
      <4>1. i \in 1 .. Len(cs) /\ i + 1 \in 1 .. Len(s) /\ i \in 1 .. Len(s) /\ i # Len(cs)
        BY <2>1, <3>2
      <4> QED BY <3>2, <4>1
    <3>5. IsChain(nx, c, s)
      BY <1>2, <2>1, <3>1, <3>3, <3>4 DEF IsChain
    <3>6. EndOf(nx, c) = e
      BY <2>1, <3>3, <3>5, ChainEnd
    <3> QED BY <3>1, <3>5, <3>6 DEF s
  <2>3. CASE t # <<>>
    <3>1. Len(t) \in Nat \ {0} /\ t[1] = e /\ nx[t[Len(t)]] = EndOf(nx, e)
      <4>1. nx[t[Len(t)]] = EndOf(nx, e)
        BY <2>3, ChainEnd
      <4> QED BY <1>1, <2>3, <4>1, EmptySeq DEF IsChain
    <3>2. s[Len(s)] = t[Len(t)] /\ nx[t[Len(t)]] \in End
      <4>1. Len(s) - Len(cs) = Len(t) /\ Len(s) \in 1 .. Len(cs) + Len(t) /\ ~(Len(s) <= Len(cs))
        BY <1>1, <1>2, <3>1
      <4> QED BY <1>2, <2>3, <4>1 DEF IsChain
    <3>3. \A i \in 1 .. Len(s) - 1 : nx[s[i]] = s[i + 1]
      <4> SUFFICES ASSUME NEW i \in 1 .. Len(s) - 1 PROVE nx[s[i]] = s[i + 1]
        OBVIOUS
      <4>1. CASE i < Len(cs)
        <5>1. i \in 1 .. Len(cs) /\ s[i] = cs[i] /\ s[i + 1] = cs[i + 1] /\ i # Len(cs)
          BY <1>1, <1>2, <4>1
        <5> QED BY <5>1
      <4>2. CASE i = Len(cs)
        <5>1. i \in 1 .. Len(cs) /\ s[i] = cs[i] /\ s[i + 1] = t[(i + 1) - Len(cs)] /\ (i + 1) - Len(cs) = 1
          BY <1>1, <1>2, <3>1, <4>2
        <5> QED BY <3>1, <4>2, <5>1
      <4>3. CASE i > Len(cs)
        <5>1. /\ s[i] = t[i - Len(cs)] /\ s[i + 1] = t[(i + 1) - Len(cs)]
              /\ i - Len(cs) \in 1 .. Len(t) - 1 /\ (i + 1) - Len(cs) = (i - Len(cs)) + 1
          BY <1>1, <1>2, <4>3
        <5> QED BY <5>1 DEF IsChain
      <4> QED BY <1>1, <1>2, <4>1, <4>2, <4>3
    <3>4. IsChain(nx, c, s)
      BY <1>2, <2>1, <3>2, <3>3 DEF IsChain
    <3>5. EndOf(nx, c) = EndOf(nx, e)
      BY <2>1, <3>1, <3>2, <3>4, ChainEnd
    <3> QED BY <3>4, <3>5 DEF s
  <2> QED BY <2>2, <2>3
<1> QED BY <1>3, <1>4

-----------------------------------------------------------------------------
(* The invariant *)

Datum == Held \cup {NoCell}
Link == Cell \cup End
Cells(o) == Chain(next, first[o])

LinkedTypes ==
  /\ prog \in Program
  /\ holds \in [Cell -> Datum]
  /\ next \in [Cell -> Link]
  /\ used \subseteq prog.cells
  /\ first \in [Var -> Link]
  /\ last \in [Queue -> Link]
  /\ length \in [Queue \cup Stack -> Nat]

\* Every variable leads to a chain of allocated cells.
ChainsEnd == \A o \in Var : IsChain(next, first[o], Cells(o)) /\ Range(Cells(o)) \subseteq used

\* What queues and stacks own, and what they know of it.
Owned ==
  /\ \A o \in Queue \cup Stack :
       /\ Len(Cells(o)) = length[o] /\ EndOf(next, first[o]) = NoCell
       /\ \A p \in Var \ {o} : Range(Cells(o)) \cap Range(Cells(p)) = {}
  /\ \A q \in Queue : last[q] = IF Cells(q) = <<>> THEN NoCell ELSE Cells(q)[Len(Cells(q))]

\* A list is proper or ends with an atom.
ListsEnd == \A l \in List : EndOf(next, first[l]) \in {Nil, Atom}

LinkedInv == LinkedTypes /\ ChainsEnd /\ Owned /\ ListsEnd

LEMMA InitLinked == ChainInit => LinkedInv
<1> SUFFICES ASSUME ChainInit PROVE LinkedInv
  OBVIOUS
<1> USE LinkedAssumption DEF ChainInit
<1>1. LinkedTypes
  BY DEF LinkedTypes, Datum, Link, End, Var
<1>2. ASSUME NEW o \in Var
      PROVE  IsChain(next, first[o], <<>>) /\ Cells(o) = <<>> /\ EndOf(next, first[o]) = first[o]
  <2>1. IsChain(next, first[o], <<>>)
    <3>1. first[o] \in End /\ <<>> \in Seq(Cell) /\ Len(<<>>) = 0
      BY EmptySeq DEF End
    <3> QED BY <3>1 DEF IsChain
  <2> QED BY <2>1, ChainIs, ChainEnd DEF Cells
<1>3. Range(<<>>) = {}
  BY DEF Range
<1>4. ChainsEnd
  BY <1>2, <1>3 DEF ChainsEnd
<1>5. Owned
  BY <1>2, <1>3, EmptySeq DEF Owned, Var
<1>6. ListsEnd
  BY <1>2 DEF ListsEnd, Var
<1> QED BY <1>1, <1>4, <1>5, <1>6 DEF LinkedInv

LEMMA InvApart == LinkedInv => ChainsApart
<1> SUFFICES ASSUME LinkedInv PROVE ChainsApart
  OBVIOUS
<1>1. \A q \in Queue : q \in Queue \cup Stack
  OBVIOUS
<1> QED BY <1>1 DEF LinkedInv, ChainsEnd, Owned, ChainsApart, Cells, Last

-----------------------------------------------------------------------------
(* The end of a call *)

\* In the memory m the chains K[o] begin with f[o], and their cells stay allocated.
Given(m, f, taken, free, K) ==
  /\ m.holds \in [Cell -> Datum] /\ m.next \in [Cell -> Link]
  /\ f \in [Var -> Link] /\ taken \subseteq prog.cells
  /\ \A o \in Var : IsChain(m.next, f[o], K[o]) /\ Range(K[o]) \subseteq (used \cup taken) \ free

\* They are the chains afterwards, and hold what they held in m.
Kept(m, f, K) ==
  /\ holds' \in [Cell -> Datum] /\ next' \in [Cell -> Link]
  /\ first' = f /\ used' \subseteq prog.cells
  /\ \A o \in Var : /\ IsChain(next', f[o], K[o]) /\ Range(K[o]) \subseteq used'
                    /\ EndOf(next', f[o]) = EndOf(m.next, f[o])
                    /\ \A c \in Range(K[o]) : holds'[c] = m.holds[c]

LEMMA DoneKeeps ==
  ASSUME LinkedTypes, NEW m, NEW f, NEW taken, NEW free, NEW K, Given(m, f, taken, free, K),
         Done(m, f, taken, free)
  PROVE  Kept(m, f, K)
<1> USE DEF Given
<1> DEFINE reached == UNION {Range(Chain(m.next, f[o])) : o \in Var}
           kept == ((used \cup taken) \cap reached) \ free
<1>1. /\ holds' = [c \in Cell |-> IF c \in kept THEN m.holds[c] ELSE NoCell]
      /\ next' = [c \in Cell |-> IF c \in kept THEN m.next[c] ELSE NoCell]
      /\ first' = f
      /\ used' = kept
  BY DEF Done
<1>2. \A o \in Var : Chain(m.next, f[o]) = K[o]
  BY ChainIs
<1>3. \A o \in Var : Range(K[o]) \subseteq kept
  BY <1>2
<1>4. kept \subseteq prog.cells /\ prog.cells \subseteq Cell
  BY LinkedAssumption DEF LinkedTypes
<1> HIDE DEF kept
<1>5. holds' \in [Cell -> Datum] /\ next' \in [Cell -> Link]
  BY <1>1 DEF Datum, Link, End
<1>6. ASSUME NEW o \in Var
      PROVE  /\ IsChain(next', f[o], K[o]) /\ Range(K[o]) \subseteq used'
             /\ EndOf(next', f[o]) = EndOf(m.next, f[o])
             /\ \A c \in Range(K[o]) : holds'[c] = m.holds[c]
  <2>1. Range(K[o]) \subseteq kept /\ Range(K[o]) \subseteq Cell
    BY <1>3, <1>4
  <2>2. \A c \in Range(K[o]) : next'[c] = m.next[c] /\ holds'[c] = m.holds[c]
    BY <1>1, <2>1
  <2> QED BY <1>1, <2>1, <2>2, ChainFrame
<1> QED BY <1>1, <1>4, <1>5, <1>6 DEF Kept

\* A call has made s the chain of o, with the end e, and xs what it holds, and
\* changed no other variable.
Changed(o, s, e, xs) ==
  /\ holds' \in [Cell -> Datum] /\ next' \in [Cell -> Link]
  /\ first' \in [Var -> Link] /\ used' \subseteq prog.cells
  /\ \A p \in Var \ {o} :
       /\ IsChain(next', first'[p], Cells(p)) /\ Cells(p)' = Cells(p)
       /\ EndOf(next', first'[p]) = EndOf(next, first[p])
       /\ Contents(p)' = Contents(p)
  /\ IsChain(next', first'[o], s) /\ Cells(o)' = s /\ EndOf(next', first'[o]) = e
  /\ Contents(o)' = xs
  /\ \A p \in Var : Range(Cells(p)') \subseteq used'

LEMMA ContentsAre ==
  ASSUME NEW o
  PROVE  /\ Contents(o) = [i \in DOMAIN Cells(o) |-> holds[Cells(o)[i]]]
         /\ Contents(o)' = [i \in DOMAIN Cells(o)' |-> holds'[Cells(o)'[i]]]
BY DEF Contents, Items, Memory, Cells

\* The memory m leaves all chains but that of o as they are, and free is none of theirs.
Leaves(m, o, free) ==
  /\ m.holds \in [Cell -> Datum] /\ m.next \in [Cell -> Link]
  /\ \A p \in Var \ {o} :
       /\ Range(Cells(p)) \cap free = {}
       /\ \A d \in Range(Cells(p)) : m.next[d] = next[d] /\ m.holds[d] = holds[d]

LEMMA ChangeOne ==
  ASSUME LinkedInv, NEW o \in Var, NEW c \in Link, NEW s, NEW m, NEW taken, NEW free,
         taken \subseteq prog.cells, Leaves(m, o, free),
         Done(m, [first EXCEPT ![o] = c], taken, free),
         IsChain(m.next, c, s), Range(s) \subseteq (used \cup taken) \ free
  PROVE  Changed(o, s, EndOf(m.next, c), [i \in 1 .. Len(s) |-> m.holds[s[i]]])
<1> DEFINE f == [first EXCEPT ![o] = c]
           K == [p \in Var |-> IF p = o THEN s ELSE Cells(p)]
<1> USE DEF Leaves
<1>1. LinkedTypes /\ ChainsEnd
  BY DEF LinkedInv
<1>2. f \in [Var -> Link] /\ f[o] = c /\ \A p \in Var \ {o} : f[p] = first[p]
  BY <1>1 DEF LinkedTypes
<1>3. K[o] = s /\ \A p \in Var \ {o} : K[p] = Cells(p)
  OBVIOUS
<1> HIDE DEF f, K
<1>4. ASSUME NEW p \in Var \ {o}
      PROVE  /\ IsChain(m.next, f[p], K[p]) /\ Range(K[p]) \subseteq (used \cup taken) \ free
             /\ EndOf(m.next, f[p]) = EndOf(next, first[p])
  <2>1. IsChain(next, first[p], Cells(p)) /\ Range(Cells(p)) \subseteq used
    BY <1>1 DEF ChainsEnd
  <2>2. IsChain(m.next, first[p], Cells(p)) /\ EndOf(m.next, first[p]) = EndOf(next, first[p])
    BY <2>1, ChainFrame
  <2> QED BY <1>2, <1>3, <2>1, <2>2
<1>5. \A p \in Var : IsChain(m.next, f[p], K[p]) /\ Range(K[p]) \subseteq (used \cup taken) \ free
  BY <1>2, <1>3, <1>4
<1>6. Done(m, f, taken, free)
  BY DEF f
<1>7. /\ holds' \in [Cell -> Datum] /\ next' \in [Cell -> Link]
      /\ first' = f /\ used' \subseteq prog.cells
      /\ \A p \in Var : /\ IsChain(next', f[p], K[p]) /\ Range(K[p]) \subseteq used'
                        /\ EndOf(next', f[p]) = EndOf(m.next, f[p])
                        /\ \A d \in Range(K[p]) : holds'[d] = m.holds[d]
  <2>1. Given(m, f, taken, free, K)
    BY <1>2, <1>5 DEF Given
  <2>2. Kept(m, f, K)
    BY <1>1, <1>6, <2>1, DoneKeeps
  <2> QED BY <2>2 DEF Kept
<1>8. \A p \in Var : Cells(p)' = K[p]
  BY <1>7, ChainIs DEF Cells
<1>9. \A p \in Var : Contents(p)' = [i \in DOMAIN K[p] |-> holds'[K[p][i]]]
  BY <1>8, ContentsAre
<1>10. ASSUME NEW p \in Var
       PROVE  \A i \in DOMAIN K[p] : holds'[K[p][i]] = m.holds[K[p][i]]
  BY <1>7 DEF Range
<1>11. Contents(o)' = [i \in 1 .. Len(s) |-> m.holds[s[i]]]
  <2>1. DOMAIN s = 1 .. Len(s)
    BY LenProperties DEF IsChain
  <2> QED BY <1>3, <1>9, <1>10, <2>1
<1>12. ASSUME NEW p \in Var \ {o}
       PROVE  Contents(p)' = Contents(p)
  <2>1. \A i \in DOMAIN Cells(p) : m.holds[Cells(p)[i]] = holds[Cells(p)[i]]
    BY DEF Range
  <2>2. \A i \in DOMAIN Cells(p) : holds'[Cells(p)[i]] = holds[Cells(p)[i]]
    BY <1>3, <1>10, <2>1
  <2> QED BY <1>3, <1>9, <2>2, ContentsAre
<1>13. \A p \in Var \ {o} : /\ IsChain(next', first'[p], Cells(p)) /\ Cells(p)' = Cells(p)
                            /\ EndOf(next', first'[p]) = EndOf(next, first[p])
  BY <1>3, <1>4, <1>7, <1>8
<1>14. IsChain(next', first'[o], s) /\ Cells(o)' = s /\ EndOf(next', first'[o]) = EndOf(m.next, c)
  BY <1>2, <1>3, <1>7, <1>8
<1>15. \A p \in Var : Range(Cells(p)') \subseteq used'
  BY <1>7, <1>8
<1> QED BY <1>2, <1>7, <1>11, <1>12, <1>13, <1>14, <1>15 DEF Changed

\* The invariant after a call that has changed o.
LEMMA ChangeKeeps ==
  ASSUME LinkedInv, NEW o \in Var, NEW s, NEW e, NEW xs, Changed(o, s, e, xs), UNCHANGED prog,
         o \in Queue \cup Stack =>
           /\ length' = [length EXCEPT ![o] = Len(s)] /\ e = NoCell
           /\ \A p \in Var \ {o} : Range(s) \cap Range(Cells(p)) = {}
           /\ o \in Queue => last' = [last EXCEPT ![o] = IF s = <<>> THEN NoCell ELSE s[Len(s)]]
           /\ o \in Stack => last' = last,
         o \in List =>
           /\ UNCHANGED <<length, last>> /\ e \in {Nil, Atom}
           /\ \A p \in Queue \cup Stack : Range(s) \cap Range(Cells(p)) = {}
  PROVE  LinkedInv'
<1>1. /\ o \in Queue => o \notin Stack /\ o \notin List
      /\ o \in Stack => o \notin Queue /\ o \notin List
      /\ o \in List => o \notin Queue /\ o \notin Stack
      /\ o \in Queue \/ o \in Stack \/ o \in List
      /\ Queue \subseteq Var /\ Stack \subseteq Var /\ List \subseteq Var
  BY LinkedAssumption DEF Var
<1>2. LinkedTypes /\ ChainsEnd /\ Owned /\ ListsEnd
  BY DEF LinkedInv
<1>3. Len(s) \in Nat /\ (s # <<>> => s[Len(s)] \in Cell)
  <2>1. s \in Seq(Cell)
    BY DEF Changed, IsChain
  <2>2. s # <<>> => Len(s) \in 1 .. Len(s)
    BY <2>1, EmptySeq
  <2> QED BY <2>1, <2>2, LenProperties, ElementOfSeq
<1>4. LinkedTypes'
  <2>1. length' \in [Queue \cup Stack -> Nat]
    BY <1>1, <1>2, <1>3 DEF LinkedTypes
  <2>2. last' \in [Queue -> Link]
    BY <1>1, <1>2, <1>3 DEF LinkedTypes, Link, End
  <2> QED BY <1>2, <2>1, <2>2 DEF LinkedTypes, Changed
<1>5. /\ Cells(o)' = s /\ IsChain(next', first'[o], s) /\ EndOf(next', first'[o]) = e
      /\ \A p \in Var \ {o} : /\ IsChain(next', first'[p], Cells(p)) /\ Cells(p)' = Cells(p)
                              /\ EndOf(next', first'[p]) = EndOf(next, first[p])
      /\ \A p \in Var : Range(Cells(p)') \subseteq used'
  BY DEF Changed
<1>6. ChainsEnd'
  BY <1>5 DEF ChainsEnd
<1>7. Owned'
  <2>1. ASSUME NEW p \in Queue \cup Stack
        PROVE  Len(Cells(p)') = length'[p] /\ EndOf(next', first'[p]) = NoCell
    <3>1. CASE p = o
      BY <1>2, <1>5, <3>1 DEF LinkedTypes
    <3>2. CASE p # o
      <4>1. Len(Cells(p)) = length[p] /\ EndOf(next, first[p]) = NoCell /\ p \in Var \ {o}
        BY <1>1, <1>2, <3>2 DEF Owned
      <4>2. length'[p] = length[p]
        BY <1>1, <1>2, <3>2 DEF LinkedTypes
      <4> QED BY <1>5, <4>1, <4>2
    <3> QED BY <3>1, <3>2
  <2>2. ASSUME NEW p \in Queue \cup Stack, NEW r \in Var \ {p}
        PROVE  Range(Cells(p)') \cap Range(Cells(r)') = {}
    <3>1. p \in Var /\ Range(Cells(p)) \cap Range(Cells(r)) = {}
      BY <1>1, <1>2 DEF Owned
    <3>2. CASE p = o
      <4>1. Cells(p)' = s /\ Cells(r)' = Cells(r) /\ r \in Var \ {o}
        BY <1>5, <3>2
      <4> QED BY <3>2, <4>1
    <3>3. CASE r = o
      <4>1. Cells(r)' = s /\ Cells(p)' = Cells(p) /\ p \in Var \ {o}
        BY <1>5, <3>1, <3>3
      <4>2. Range(s) \cap Range(Cells(p)) = {}
        BY <1>1, <4>1
      <4> QED BY <4>1, <4>2
    <3>4. CASE p # o /\ r # o
      BY <1>5, <3>1, <3>4
    <3> QED BY <3>2, <3>3, <3>4
  <2>3. ASSUME NEW q \in Queue
        PROVE  last'[q] = IF Cells(q)' = <<>> THEN NoCell ELSE (Cells(q)[Len(Cells(q))])'
    <3>1. CASE q = o
      BY <1>2, <1>5, <3>1 DEF LinkedTypes
    <3>2. CASE q # o
      <4>1. last'[q] = last[q] /\ q \in Var \ {o}
        BY <1>1, <1>2, <3>2 DEF LinkedTypes
      <4> QED BY <1>2, <1>5, <4>1 DEF Owned
    <3> QED BY <3>1, <3>2
  <2> QED BY <2>1, <2>2, <2>3 DEF Owned
<1>8. ListsEnd'
  <2> SUFFICES ASSUME NEW l \in List PROVE EndOf(next', first'[l]) \in {Nil, Atom}
    BY DEF ListsEnd
  <2>1. CASE l = o
    BY <1>5, <2>1
  <2>2. CASE l # o
    BY <1>1, <1>2, <1>5, <2>2 DEF ListsEnd
  <2> QED BY <2>1, <2>2
<1> QED BY <1>4, <1>6, <1>7, <1>8 DEF LinkedInv

-----------------------------------------------------------------------------
(* New cells *)

\* The allocator hands out different cells, none of them in use.
LEMMA FreshIs ==
  ASSUME LinkedTypes, NEW k \in Nat, Room(k)
  PROVE  /\ Fresh(k) \in Seq(Cell) /\ Len(Fresh(k)) = k
         /\ \A i, j \in 1 .. k : Fresh(k)[i] = Fresh(k)[j] => i = j
         /\ Range(Fresh(k)) \subseteq prog.cells /\ Range(Fresh(k)) \cap used = {}
<1>1. Free \subseteq Cell /\ Free \subseteq prog.cells /\ Free \cap used = {}
  BY LinkedAssumption DEF LinkedTypes, Free
<1>2. IsFiniteSet(Free)
  BY <1>1, FS_Subset, LinkedAssumption
<1>3. Cardinality(Free) \in Nat /\ k <= Cardinality(Free)
  BY <1>2, FS_CardinalityType DEF Room
<1>4. \E cs \in [1 .. k -> Free] : IsInjective(cs)
  <2>1. PICK f \in [1 .. Cardinality(Free) -> Free] : IsInjective(f)
    BY <1>2, FS_CardinalityType DEF ExistsBijection, Bijection, Injection
  <2> DEFINE cs == [i \in 1 .. k |-> f[i]]
  <2>2. 1 .. k \subseteq 1 .. Cardinality(Free)
    BY <1>3
  <2>3. cs \in [1 .. k -> Free] /\ IsInjective(cs)
    BY <2>1, <2>2 DEF IsInjective
  <2> QED BY <2>3
<1>5. Fresh(k) \in [1 .. k -> Free] /\ IsInjective(Fresh(k))
  BY <1>4 DEF Fresh
<1> HIDE DEF Fresh
<1>6. Fresh(k) \in Seq(Cell) /\ Len(Fresh(k)) = k
  BY <1>1, <1>5
<1>7. Range(Fresh(k)) \subseteq Free
  BY <1>5 DEF Range
<1> QED BY <1>1, <1>5, <1>6, <1>7 DEF IsInjective

\* The memory with the cells cs chained up: nothing else in it changes.
LEMMA FilledIs ==
  ASSUME LinkedTypes, NEW cs \in Seq(Cell), \A i, j \in 1 .. Len(cs) : cs[i] = cs[j] => i = j,
         NEW xs \in Seq(Datum), Len(xs) = Len(cs), NEW e \in Link
  PROVE  LET m == Filled(cs, xs, e)
         IN  /\ m.holds \in [Cell -> Datum] /\ m.next \in [Cell -> Link]
             /\ \A i \in 1 .. Len(cs) : /\ m.holds[cs[i]] = xs[i]
                                        /\ m.next[cs[i]] = IF i = Len(cs) THEN e ELSE cs[i + 1]
             /\ \A c \in Cell : c \notin Range(cs) => m.holds[c] = holds[c] /\ m.next[c] = next[c]
<1> DEFINE at(c) == CHOOSE i \in DOMAIN cs : cs[i] = c
           v == [c \in Cell |-> IF c \in Range(cs) THEN xs[at(c)] ELSE holds[c]]
           n == [c \in Cell |-> IF c \notin Range(cs) THEN next[c]
                                ELSE IF at(c) = Len(cs) THEN e ELSE cs[at(c) + 1]]
<1>1. Filled(cs, xs, e).holds = v /\ Filled(cs, xs, e).next = n
  BY DEF Filled
<1>2. Len(cs) \in Nat /\ DOMAIN cs = 1 .. Len(cs) /\ \A i \in 1 .. Len(cs) : cs[i] \in Cell /\ xs[i] \in Datum
  BY LenProperties, ElementOfSeq
<1>3. \A i \in 1 .. Len(cs) : at(cs[i]) = i /\ cs[i] \in Range(cs)
  BY <1>2, RangeOf
<1>4. \A c \in Range(cs) : at(c) \in 1 .. Len(cs) /\ (at(c) # Len(cs) => at(c) + 1 \in 1 .. Len(cs))
  <2> SUFFICES ASSUME NEW c \in Range(cs)
               PROVE  at(c) \in 1 .. Len(cs) /\ (at(c) # Len(cs) => at(c) + 1 \in 1 .. Len(cs))
    OBVIOUS
  <2>1. PICK i \in 1 .. Len(cs) : c = cs[i]
    BY RangeOf
  <2>2. at(c) = i
    BY <1>3, <2>1
  <2> HIDE DEF at
  <2> QED BY <1>2, <2>2
<1> HIDE DEF at
<1>5. v \in [Cell -> Datum]
  BY <1>2, <1>4 DEF LinkedTypes
<1>6. n \in [Cell -> Link]
  BY <1>2, <1>4 DEF LinkedTypes, Link
<1>7. \A i \in 1 .. Len(cs) : /\ v[cs[i]] = xs[i]
                              /\ n[cs[i]] = IF i = Len(cs) THEN e ELSE cs[i + 1]
  BY <1>2, <1>3
<1>8. \A c \in Cell : c \notin Range(cs) => v[c] = holds[c] /\ n[c] = next[c]
  OBVIOUS
<1> HIDE DEF v, n
<1> QED BY <1>1, <1>5, <1>6, <1>7, <1>8

\* A call fills the new cells cs with xs, lets e follow, and makes that the chain of o.
Built(o, xs, e, cs) ==
  /\ Room(Len(xs)) /\ cs = Fresh(Len(xs))
  /\ Done(Filled(cs, xs, e), [first EXCEPT ![o] = IF cs = <<>> THEN e ELSE cs[1]], Range(cs), {})

LEMMA NewChain ==
  ASSUME LinkedInv, NEW o \in Var, NEW xs \in Seq(Datum), NEW e \in Link, NEW t, IsChain(next, e, t),
         Range(t) \subseteq used, NEW cs, Built(o, xs, e, cs)
  PROVE  /\ Changed(o, cs \o t, EndOf(next, e), xs \o [i \in 1 .. Len(t) |-> holds[t[i]]])
         /\ cs \in Seq(Cell) /\ Len(cs) = Len(xs) /\ Range(cs) \cap used = {}
<1> DEFINE m == Filled(cs, xs, e)
           c == IF cs = <<>> THEN e ELSE cs[1]
           s == cs \o t
           ys == [i \in 1 .. Len(t) |-> holds[t[i]]]
<1>1. LinkedTypes /\ ChainsEnd /\ Len(xs) \in Nat
  BY LenProperties DEF LinkedInv
<1> USE DEF Built
<1>2. /\ cs \in Seq(Cell) /\ Len(cs) = Len(xs) /\ \A i, j \in 1 .. Len(cs) : cs[i] = cs[j] => i = j
      /\ Range(cs) \subseteq prog.cells /\ Range(cs) \cap used = {}
  BY <1>1, FreshIs
<1>3. /\ m.holds \in [Cell -> Datum] /\ m.next \in [Cell -> Link]
      /\ \A i \in 1 .. Len(cs) : /\ m.holds[cs[i]] = xs[i]
                                 /\ m.next[cs[i]] = IF i = Len(cs) THEN e ELSE cs[i + 1]
      /\ \A d \in Cell : d \notin Range(cs) => m.holds[d] = holds[d] /\ m.next[d] = next[d]
  BY <1>1, <1>2, FilledIs
<1>4. Done(m, [first EXCEPT ![o] = c], Range(cs), {})
  OBVIOUS
<1> HIDE DEF m, s
<1>5. \A d \in used : d \in Cell /\ d \notin Range(cs)
  BY <1>1, <1>2, LinkedAssumption DEF LinkedTypes
<1>6. IsChain(m.next, e, t) /\ EndOf(m.next, e) = EndOf(next, e)
  BY <1>3, <1>5, ChainFrame
<1>7. IsChain(m.next, c, s) /\ EndOf(m.next, c) = EndOf(next, e)
  <2>1. IsChain(m.next, c, s) /\ EndOf(m.next, c) = EndOf(m.next, e)
    <3>1. cs \in Seq(Cell) /\ IsChain(m.next, e, t)
      BY <1>2, <1>6
    <3>2. \A i \in 1 .. Len(cs) : m.next[cs[i]] = IF i = Len(cs) THEN e ELSE cs[i + 1]
      BY <1>3
    <3> QED BY <3>1, <3>2, ChainJoin DEF s
  <2> QED BY <1>6, <2>1
<1> HIDE DEF c
<1>8. t \in Seq(Cell) /\ Len(t) \in Nat /\ Len(cs) \in Nat
  BY <1>2, LenProperties DEF IsChain
<1>9. Range(s) = Range(cs) \cup Range(t)
  BY <1>2, <1>8, RangeConcatenation DEF s
<1>10. \A p \in Var \ {o} :
         /\ Range(Cells(p)) \cap {} = {}
         /\ \A d \in Range(Cells(p)) : m.next[d] = next[d] /\ m.holds[d] = holds[d]
  BY <1>1, <1>3, <1>5 DEF ChainsEnd
<1>11. c \in Link
  <2>1. cs # <<>> => cs[1] \in Cell
    BY <1>2, EmptySeq, ElementOfSeq
  <2> QED BY <2>1 DEF Link, c
<1>12. Changed(o, s, EndOf(m.next, c), [i \in 1 .. Len(s) |-> m.holds[s[i]]])
  <2>1. Range(s) \subseteq (used \cup Range(cs)) \ {}
    BY <1>9
  <2>2. Leaves(m, o, {})
    BY <1>3, <1>10 DEF Leaves
  <2>3. Range(cs) \subseteq prog.cells
    BY <1>2
  <2> QED BY <1>4, <1>7, <1>11, <2>1, <2>2, <2>3, ChangeOne
<1>13. [i \in 1 .. Len(s) |-> m.holds[s[i]]] = xs \o ys
  <2>1. /\ Len(s) = Len(cs) + Len(t)
        /\ \A i \in 1 .. Len(cs) + Len(t) : s[i] = IF i <= Len(cs) THEN cs[i] ELSE t[i - Len(cs)]
    <3>1. cs \in Seq(Cell) /\ t \in Seq(Cell)
      BY <1>2, <1>8
    <3> QED BY <3>1, ConcatProperties, Zenon DEF s
  <2>2. \A i \in 1 .. Len(t) : t[i] \in Cell /\ t[i] \in Range(t)
    BY <1>8, RangeOf
  <2>3. ys \in Seq(Datum) /\ Len(ys) = Len(t)
    BY <1>1, <1>8, <2>2 DEF LinkedTypes
  <2>4. /\ xs \o ys \in Seq(Datum) /\ Len(xs \o ys) = Len(cs) + Len(t)
        /\ \A i \in 1 .. Len(cs) + Len(t) : (xs \o ys)[i] = IF i <= Len(cs) THEN xs[i] ELSE ys[i - Len(cs)]
    <3> HIDE DEF ys
    <3>1. /\ xs \o ys \in Seq(Datum) /\ Len(xs \o ys) = Len(xs) + Len(ys)
          /\ \A i \in 1 .. Len(xs) + Len(ys) : (xs \o ys)[i] = IF i <= Len(xs) THEN xs[i] ELSE ys[i - Len(xs)]
      BY <2>3, ConcatProperties, Zenon
    <3> QED BY <1>2, <2>3, <3>1
  <2>5. ASSUME NEW i \in 1 .. Len(s) PROVE m.holds[s[i]] = (xs \o ys)[i]
    <3>1. CASE i <= Len(cs)
      <4>1. i \in 1 .. Len(cs) /\ s[i] = cs[i] /\ (xs \o ys)[i] = xs[i]
        BY <1>8, <2>1, <2>4, <3>1
      <4> QED BY <1>3, <4>1
    <3>2. CASE ~(i <= Len(cs))
      <4>1. /\ i - Len(cs) \in 1 .. Len(t) /\ s[i] = t[i - Len(cs)]
            /\ (xs \o ys)[i] = ys[i - Len(cs)]
        BY <1>8, <2>1, <2>4, <3>2
      <4>2. (xs \o ys)[i] = holds[t[i - Len(cs)]]
        BY <4>1
      <4>3. m.holds[s[i]] = holds[s[i]]
        BY <1>3, <1>5, <2>2, <4>1
      <4> QED BY <4>1, <4>2, <4>3
    <3> QED BY <3>1, <3>2
  <2> HIDE DEF ys
  <2>6. xs \o ys = [i \in 1 .. Len(s) |-> (xs \o ys)[i]]
    BY <2>1, <2>4, LenProperties
  <2> QED BY <2>5, <2>6
<1> QED BY <1>2, <1>7, <1>12, <1>13 DEF s

-----------------------------------------------------------------------------
(* The calls *)

\* o holds xs now and ends with e, all others what they held.
OneChanged(o, xs, e) ==
  /\ Contents(o)' = xs /\ EndOf(next', first'[o]) = e
  /\ \A p \in Var \ {o} : /\ Contents(p)' = Contents(p)
                          /\ EndOf(next', first'[p]) = EndOf(next, first[p])

\* What a variable leads to.
LEMMA ChainOf ==
  ASSUME LinkedInv, NEW o \in Var
  PROVE  /\ IsChain(next, first[o], Cells(o)) /\ Cells(o) \in Seq(Cell) /\ Len(Cells(o)) \in Nat
         /\ first[o] \in Link /\ Range(Cells(o)) \subseteq used
         /\ \A i \in 1 .. Len(Cells(o)) : Cells(o)[i] \in Cell /\ Cells(o)[i] \in Range(Cells(o))
         /\ Contents(o) \in Seq(Datum) /\ Len(Contents(o)) = Len(Cells(o))
         /\ Contents(o) = [i \in 1 .. Len(Cells(o)) |-> holds[Cells(o)[i]]]
         /\ Cells(o) = <<>> => first[o] = EndOf(next, first[o])
         /\ Cells(o) # <<>> => first[o] = Cells(o)[1] /\ Len(Cells(o)) > 0
<1>1. IsChain(next, first[o], Cells(o)) /\ Range(Cells(o)) \subseteq used
  BY DEF LinkedInv, ChainsEnd
<1>2. Cells(o) \in Seq(Cell)
  BY <1>1 DEF IsChain
<1>3. Len(Cells(o)) \in Nat /\ DOMAIN Cells(o) = 1 .. Len(Cells(o))
  BY <1>2, LenProperties
<1>4. \A i \in 1 .. Len(Cells(o)) : Cells(o)[i] \in Cell /\ Cells(o)[i] \in Range(Cells(o))
  BY <1>2, RangeOf, ElementOfSeq
<1>5. Contents(o) = [i \in 1 .. Len(Cells(o)) |-> holds[Cells(o)[i]]]
  BY <1>3, ContentsAre
<1>6. Contents(o) \in Seq(Datum) /\ Len(Contents(o)) = Len(Cells(o))
  BY <1>3, <1>4, <1>5 DEF LinkedInv, LinkedTypes
<1>7. Cells(o) = <<>> => first[o] = EndOf(next, first[o])
  BY <1>1, ChainEnd
<1>8. Cells(o) # <<>> => first[o] = Cells(o)[1] /\ Len(Cells(o)) > 0
  BY <1>1, <1>2, EmptySeq DEF IsChain
<1>9. first[o] \in Link
  BY DEF LinkedInv, LinkedTypes
<1> QED BY <1>1, <1>2, <1>3, <1>4, <1>5, <1>6, <1>7, <1>8, <1>9

\* A chain without cells.
LEMMA NoCells ==
  ASSUME NEW nx, NEW e \in End
  PROVE  IsChain(nx, e, <<>>) /\ EndOf(nx, e) = e /\ Range(<<>>) = {} /\ Len(<<>>) = 0
<1>1. IsChain(nx, e, <<>>)
  <2>1. <<>> \in Seq(Cell) /\ Len(<<>>) = 0
    BY EmptySeq
  <2> QED BY <2>1 DEF IsChain
<1>2. EndOf(nx, e) = e
  BY <1>1, ChainEnd
<1> QED BY <1>1, <1>2 DEF Range

\* queue-get and stack-pop: the first cell is given back.
LEMMA DropFirst ==
  ASSUME LinkedInv, NEW o \in Queue \cup Stack, length[o] > 0,
         Done(Memory, [first EXCEPT ![o] = next[first[o]]], {}, {first[o]})
  PROVE  \E s : /\ Changed(o, s, NoCell, Tail(Contents(o)))
                /\ Len(s) = length[o] - 1 /\ Range(s) \subseteq Range(Cells(o))
                /\ s = <<>> <=> length[o] = 1
                /\ s # <<>> => s[Len(s)] = Cells(o)[Len(Cells(o))]
<1> DEFINE cs == Cells(o)
           rest == IF 1 = Len(cs) THEN EndOf(next, first[o]) ELSE cs[2]
           s == SubSeq(cs, 2, Len(cs))
<1>1. o \in Var
  BY DEF Var
<1>2. /\ IsChain(next, first[o], cs) /\ cs \in Seq(Cell) /\ Len(cs) \in Nat
      /\ Range(cs) \subseteq used /\ Contents(o) \in Seq(Datum) /\ Len(Contents(o)) = Len(cs)
      /\ Contents(o) = [i \in 1 .. Len(cs) |-> holds[cs[i]]]
      /\ \A i \in 1 .. Len(cs) : cs[i] \in Cell /\ cs[i] \in Range(cs)
  BY <1>1, ChainOf
<1>3. /\ Len(cs) = length[o] /\ EndOf(next, first[o]) = NoCell
      /\ \A p \in Var \ {o} : Range(cs) \cap Range(Cells(p)) = {}
  BY DEF LinkedInv, Owned
<1> HIDE DEF cs
<1>4. Len(cs) \in Nat \ {0} /\ cs # <<>> /\ first[o] = cs[1] /\ 1 \in 0 .. Len(cs)
  BY <1>2, <1>3, EmptySeq DEF IsChain
<1>5. rest = next[first[o]] /\ rest \in Link
  <2>1. CASE Len(cs) = 1
    BY <1>2, <1>3, <1>4, <2>1, ChainEnd DEF Link, End
  <2>2. CASE Len(cs) # 1
    <3>1. 1 \in 1 .. Len(cs) - 1 /\ 2 \in 1 .. Len(cs) /\ 1 + 1 = 2
      <4> HIDE DEF rest, s
      <4> DEFINE n == Len(cs)
      <4>1. n \in Nat /\ n # 0 /\ n # 1
        BY <1>4, <2>2
      <4> HIDE DEF n
      <4>2. n >= 2
        BY <4>1
      <4>3. 1 \in 1 .. n - 1
        BY <4>1, <4>2
      <4>4. 2 \in 1 .. n
        BY <4>1, <4>2
      <4> QED BY <4>3, <4>4 DEF n
    <3>2. next[cs[1]] = cs[1 + 1]
      BY <1>2, <3>1 DEF IsChain
    <3>3. rest = cs[2] /\ cs[2] \in Cell
      BY <1>2, <2>2, <3>1
    <3> HIDE DEF rest
    <3> QED BY <1>4, <3>1, <3>2, <3>3 DEF Link
  <2> QED BY <2>1, <2>2
<1>6. /\ IsChain(next, rest, s) /\ EndOf(next, rest) = NoCell
      /\ Len(s) = Len(cs) - 1 /\ \A j \in 1 .. Len(s) : s[j] = cs[1 + j]
      /\ Range(s) \subseteq Range(cs)
  BY <1>2, <1>3, <1>4, ChainDrop
<1> HIDE DEF s, rest
<1>7. s \in Seq(Cell)
  BY <1>6 DEF IsChain
<1>8. first[o] \notin Range(s)
  <2> SUFFICES ASSUME first[o] \in Range(s) PROVE FALSE
    OBVIOUS
  <2>1. PICK j \in 1 .. Len(s) : cs[1] = s[j]
    BY <1>4, <1>7, RangeOf
  <2>2. 1 + j \in 1 .. Len(cs) /\ 1 \in 1 .. Len(cs) /\ cs[1] = cs[1 + j] /\ 1 # 1 + j
    BY <1>4, <1>6, <2>1
  <2> QED BY <1>2, <2>2, ChainInjective
<1>9. Memory.holds = holds /\ Memory.next = next
  BY DEF Memory
<1>10. Leaves(Memory, o, {first[o]})
  <2>1. \A p \in Var \ {o} : Range(Cells(p)) \cap {first[o]} = {}
    <3>1. first[o] \in Range(cs)
      BY <1>2, <1>4
    <3> QED BY <1>3, <3>1
  <2> QED BY <1>9, <2>1 DEF Leaves, LinkedInv, LinkedTypes
<1>11. Changed(o, s, NoCell, [i \in 1 .. Len(s) |-> holds[s[i]]])
  <2>1. Range(s) \subseteq (used \cup {}) \ {first[o]}
    BY <1>2, <1>6, <1>8
  <2>2. Done(Memory, [first EXCEPT ![o] = rest], {}, {first[o]})
    BY <1>5
  <2>3. IsChain(Memory.next, rest, s)
    BY <1>6, <1>9
  <2>4. Changed(o, s, EndOf(Memory.next, rest), [i \in 1 .. Len(s) |-> Memory.holds[s[i]]])
    BY <1>1, <1>5, <1>10, <2>1, <2>2, <2>3, ChangeOne
  <2> QED BY <1>6, <1>9, <2>4
<1>12. [i \in 1 .. Len(s) |-> holds[s[i]]] = Tail(Contents(o))
  <2>1. Contents(o) # <<>>
    BY <1>2, <1>4, EmptySeq
  <2>2. /\ Tail(Contents(o)) \in Seq(Datum) /\ Len(Tail(Contents(o))) = Len(s)
        /\ \A i \in 1 .. Len(s) : Tail(Contents(o))[i] = Contents(o)[i + 1]
    BY <1>2, <1>6, <2>1, HeadTailProperties
  <2>3. \A i \in 1 .. Len(s) : Tail(Contents(o))[i] = holds[s[i]]
    <3> SUFFICES ASSUME NEW i \in 1 .. Len(s) PROVE Tail(Contents(o))[i] = holds[s[i]]
      OBVIOUS
    <3>1. i + 1 \in 1 .. Len(cs) /\ i + 1 = 1 + i
      BY <1>4, <1>6
    <3> QED BY <1>2, <1>6, <2>2, <3>1
  <2>4. Tail(Contents(o)) = [i \in 1 .. Len(s) |-> Tail(Contents(o))[i]]
    BY <2>2, LenProperties
  <2> QED BY <2>3, <2>4
<1>13. s = <<>> <=> Len(s) = 0
  BY <1>7, EmptySeq
<1>14. s # <<>> => s[Len(s)] = cs[Len(cs)]
  <2>1. s # <<>> => Len(s) \in 1 .. Len(s) /\ 1 + Len(s) = Len(cs)
    BY <1>4, <1>6, <1>7, EmptySeq
  <2> QED BY <1>6, <2>1
<1>15. Changed(o, s, NoCell, Tail(Contents(o)))
  BY <1>11, <1>12
<1>16. Len(s) = length[o] - 1 /\ Range(s) \subseteq Range(cs) /\ (s = <<>> <=> length[o] = 1)
  BY <1>3, <1>4, <1>6, <1>13
<1> QED BY <1>14, <1>15, <1>16 DEF cs

LEMMA GetStep ==
  ASSUME LinkedInv, UNCHANGED prog, NEW q \in Queue, Get(q)
  PROVE  LinkedInv' /\ Contents(q) # <<>> /\ OneChanged(q, Tail(Contents(q)), NoCell)
<1>1. length[q] > 0 /\ length \in [Queue \cup Stack -> Nat] /\ last \in [Queue -> Link] /\ q \in Var
      /\ first \in [Var -> Link]
  BY DEF Get, LinkedInv, LinkedTypes, Var
<1>2. Done(Memory, [first EXCEPT ![q] = next[first[q]]], {}, {first[q]})
  BY <1>1 DEF Get
<1>3. PICK s : /\ Changed(q, s, NoCell, Tail(Contents(q)))
               /\ Len(s) = length[q] - 1 /\ Range(s) \subseteq Range(Cells(q))
               /\ s = <<>> <=> length[q] = 1
               /\ s # <<>> => s[Len(s)] = Cells(q)[Len(Cells(q))]
  BY <1>1, <1>2, DropFirst
<1>4. /\ Len(Cells(q)) = length[q] /\ \A p \in Var \ {q} : Range(Cells(q)) \cap Range(Cells(p)) = {}
      /\ last[q] = IF Cells(q) = <<>> THEN NoCell ELSE Cells(q)[Len(Cells(q))]
  BY DEF LinkedInv, Owned
<1>5. Cells(q) # <<>> /\ Contents(q) # <<>>
  BY <1>1, <1>4, ChainOf, EmptySeq
<1>6. last' = [last EXCEPT ![q] = IF s = <<>> THEN NoCell ELSE s[Len(s)]]
  <2>1. CASE length[q] = 1
    BY <1>3, <2>1 DEF Get
  <2>2. CASE length[q] # 1
    BY <1>1, <1>3, <1>4, <1>5, <2>2 DEF Get
  <2> QED BY <2>1, <2>2
<1>7. length' = [length EXCEPT ![q] = Len(s)]
  BY <1>1, <1>3 DEF Get
<1>8. q \notin List /\ q \notin Stack /\ \A p \in Var \ {q} : Range(s) \cap Range(Cells(p)) = {}
  BY <1>3, <1>4, LinkedAssumption
<1>9. LinkedInv'
  BY <1>1, <1>3, <1>6, <1>7, <1>8, ChangeKeeps
<1> QED BY <1>3, <1>5, <1>9 DEF Changed, OneChanged

LEMMA PopStep ==
  ASSUME LinkedInv, UNCHANGED prog, NEW t \in Stack, Pop(t)
  PROVE  LinkedInv' /\ Contents(t) # <<>> /\ OneChanged(t, Tail(Contents(t)), NoCell)
<1>1. length[t] > 0 /\ length \in [Queue \cup Stack -> Nat] /\ t \in Var /\ first \in [Var -> Link]
  BY DEF Pop, LinkedInv, LinkedTypes, Var
<1>2. Done(Memory, [first EXCEPT ![t] = next[first[t]]], {}, {first[t]})
  BY <1>1 DEF Pop
<1>3. PICK s : /\ Changed(t, s, NoCell, Tail(Contents(t)))
               /\ Len(s) = length[t] - 1 /\ Range(s) \subseteq Range(Cells(t))
  BY <1>1, <1>2, DropFirst
<1>4. Len(Cells(t)) = length[t] /\ \A p \in Var \ {t} : Range(Cells(t)) \cap Range(Cells(p)) = {}
  BY DEF LinkedInv, Owned
<1>5. Contents(t) # <<>>
  BY <1>1, <1>4, ChainOf, EmptySeq
<1>6. length' = [length EXCEPT ![t] = Len(s)] /\ last' = last
  BY <1>1, <1>3 DEF Pop
<1>7. t \notin List /\ t \notin Queue /\ \A p \in Var \ {t} : Range(s) \cap Range(Cells(p)) = {}
  BY <1>3, <1>4, LinkedAssumption
<1>8. LinkedInv'
  BY <1>1, <1>3, <1>6, <1>7, ChangeKeeps
<1> QED BY <1>3, <1>5, <1>8 DEF Changed, OneChanged

\* queue-close: all cells are given back.
LEMMA CloseStep ==
  ASSUME LinkedInv, UNCHANGED prog, NEW q \in Queue, Close(q)
  PROVE  LinkedInv' /\ OneChanged(q, <<>>, NoCell)
<1>1. q \in Var /\ NoCell \in End /\ NoCell \in Link /\ q \notin List /\ q \notin Stack
  BY LinkedAssumption DEF Var, End, Link
<1>2. Memory.holds = holds /\ Memory.next = next
  BY DEF Memory
<1>3. Chain(next, first[q]) = Cells(q)
  BY DEF Cells
<1>4. Leaves(Memory, q, Range(Cells(q)))
  BY <1>2 DEF Leaves, LinkedInv, LinkedTypes, Owned
<1>5. IsChain(Memory.next, NoCell, <<>>) /\ EndOf(Memory.next, NoCell) = NoCell /\ Range(<<>>) = {} /\ Len(<<>>) = 0
  BY <1>1, NoCells
<1>6. Done(Memory, [first EXCEPT ![q] = NoCell], {}, Range(Cells(q)))
  BY <1>3 DEF Close
<1>7. Changed(q, <<>>, EndOf(Memory.next, NoCell), [i \in 1 .. Len(<<>>) |-> Memory.holds[<<>>[i]]])
  <2>1. Range(<<>>) \subseteq (used \cup {}) \ Range(Cells(q)) /\ {} \subseteq prog.cells
    BY <1>5
  <2> QED BY <1>1, <1>4, <1>5, <1>6, <2>1, ChangeOne
<1>8. [i \in 1 .. Len(<<>>) |-> Memory.holds[<<>>[i]]] = <<>>
  BY <1>5
<1>9. Changed(q, <<>>, NoCell, <<>>)
  BY <1>5, <1>7, <1>8
<1>10. length' = [length EXCEPT ![q] = Len(<<>>)] /\ last' = [last EXCEPT ![q] = NoCell]
  BY <1>5 DEF Close
<1>11. \A p \in Var \ {q} : Range(<<>>) \cap Range(Cells(p)) = {}
  BY <1>5
<1>12. LinkedInv'
  BY <1>1, <1>9, <1>10, <1>11, ChangeKeeps
<1> QED BY <1>9, <1>12 DEF Changed, OneChanged

\* Two elements of a queue change places.
LEMMA SwapStep ==
  ASSUME LinkedInv, UNCHANGED prog, NEW q \in Queue, NEW i \in 0 .. length[q] - 1,
         NEW j \in 0 .. length[q] - 1, Exchange(q, i, j)
  PROVE  /\ LinkedInv' /\ i + 1 \in DOMAIN Contents(q) /\ j + 1 \in DOMAIN Contents(q)
         /\ OneChanged(q, [Contents(q) EXCEPT ![i + 1] = Contents(q)[j + 1],
                                              ![j + 1] = Contents(q)[i + 1]], NoCell)
<1> DEFINE cs == Cells(q)
           xs == Contents(q)
           v == [holds EXCEPT ![cs[i + 1]] = holds[cs[j + 1]], ![cs[j + 1]] = holds[cs[i + 1]]]
           m == [Memory EXCEPT !.holds = v]
           ys == [xs EXCEPT ![i + 1] = xs[j + 1], ![j + 1] = xs[i + 1]]
<1>1. q \in Var /\ q \notin List /\ q \notin Stack
  BY LinkedAssumption DEF Var
<1>2. /\ IsChain(next, first[q], cs) /\ cs \in Seq(Cell) /\ Len(cs) \in Nat /\ first[q] \in Link
      /\ Range(cs) \subseteq used
      /\ \A k \in 1 .. Len(cs) : cs[k] \in Cell /\ cs[k] \in Range(cs)
      /\ xs \in Seq(Datum) /\ Len(xs) = Len(cs) /\ xs = [k \in 1 .. Len(cs) |-> holds[cs[k]]]
  BY <1>1, ChainOf
<1>3. /\ Len(cs) = length[q] /\ EndOf(next, first[q]) = NoCell
      /\ \A p \in Var \ {q} : Range(cs) \cap Range(Cells(p)) = {}
      /\ last[q] = IF cs = <<>> THEN NoCell ELSE cs[Len(cs)]
  BY DEF LinkedInv, Owned
<1>4. NthCell(q, i) = cs[i + 1] /\ NthCell(q, j) = cs[j + 1]
  BY DEF NthCell, Cells
<1>5. /\ holds \in [Cell -> Datum] /\ next \in [Cell -> Link] /\ first \in [Var -> Link]
      /\ length \in [Queue \cup Stack -> Nat] /\ last \in [Queue -> Link]
  BY DEF LinkedInv, LinkedTypes
<1> HIDE DEF cs, xs
<1>6. i + 1 \in 1 .. Len(cs) /\ j + 1 \in 1 .. Len(cs)
  BY <1>2, <1>3
<1>7. \A k, l \in 1 .. Len(cs) : cs[k] = cs[l] => k = l
  BY <1>2, ChainInjective
<1>8. m.holds = v /\ m.next = next /\ v \in [Cell -> Datum]
  BY <1>2, <1>5, <1>6 DEF Memory
<1>9. /\ v[cs[j + 1]] = holds[cs[i + 1]]
      /\ i # j => v[cs[i + 1]] = holds[cs[j + 1]]
      /\ \A c \in Cell \ {cs[i + 1], cs[j + 1]} : v[c] = holds[c]
  BY <1>2, <1>5, <1>6, <1>7
<1>10. Done(m, [first EXCEPT ![q] = first[q]], {}, {})
  <2>1. [first EXCEPT ![q] = first[q]] = first
    BY <1>5
  <2>2. [Memory EXCEPT !.holds = [@ EXCEPT ![NthCell(q, i)] = holds[NthCell(q, j)], ![NthCell(q, j)] = holds[NthCell(q, i)]]] = m
    BY <1>4 DEF Memory
  <2> HIDE DEF m
  <2> QED BY <2>1, <2>2 DEF Exchange
<1> HIDE DEF m, v
<1>11. Leaves(m, q, {})
  <2>1. \A p \in Var \ {q} : \A d \in Range(Cells(p)) : v[d] = holds[d]
    <3> SUFFICES ASSUME NEW p \in Var \ {q}, NEW d \in Range(Cells(p)) PROVE v[d] = holds[d]
      OBVIOUS
    <3>1. d \in Cell
      <4>1. Cells(p) \in Seq(Cell)
        BY ChainOf
      <4> QED BY <4>1, RangeOf
    <3>2. d # cs[i + 1] /\ d # cs[j + 1]
      BY <1>2, <1>3, <1>6
    <3> QED BY <1>9, <3>1, <3>2
  <2> QED BY <1>5, <1>8, <2>1 DEF Leaves
<1>12. Changed(q, cs, NoCell, [k \in 1 .. Len(cs) |-> v[cs[k]]])
  <2>1. Range(cs) \subseteq (used \cup {}) \ {} /\ {} \subseteq prog.cells
    BY <1>2
  <2>2. IsChain(m.next, first[q], cs)
    BY <1>2, <1>8
  <2>3. Changed(q, cs, EndOf(m.next, first[q]), [k \in 1 .. Len(cs) |-> m.holds[cs[k]]])
    <3>1. q \in Var /\ first[q] \in Link
      BY <1>1, <1>2
    <3> QED BY <1>10, <1>11, <2>1, <2>2, <3>1, ChangeOne
  <2> QED BY <1>3, <1>8, <2>3
<1>13. [k \in 1 .. Len(cs) |-> v[cs[k]]] = ys
  <2>1. xs \in [1 .. Len(cs) -> Datum] /\ DOMAIN xs = 1 .. Len(cs)
    BY <1>2, LenProperties
  <2>2. ys = [k \in 1 .. Len(cs) |-> ys[k]]
    BY <2>1
  <2>3. ASSUME NEW k \in 1 .. Len(cs) PROVE v[cs[k]] = ys[k]
    <3>1. k = j + 1 => ys[k] = xs[i + 1] /\ v[cs[k]] = holds[cs[i + 1]]
      BY <1>6, <1>9, <2>1
    <3>2. k = i + 1 /\ i # j => ys[k] = xs[j + 1] /\ v[cs[k]] = holds[cs[j + 1]]
      BY <1>6, <1>9, <2>1
    <3>3. k # j + 1 /\ k # i + 1 => ys[k] = xs[k] /\ v[cs[k]] = holds[cs[k]]
      <4>1. k # j + 1 /\ k # i + 1 => cs[k] \in Cell \ {cs[i + 1], cs[j + 1]}
        BY <1>2, <1>6, <1>7
      <4> QED BY <1>6, <1>9, <2>1, <4>1
    <3>4. xs[k] = holds[cs[k]] /\ xs[i + 1] = holds[cs[i + 1]] /\ xs[j + 1] = holds[cs[j + 1]]
      BY <1>2, <1>6
    <3> HIDE DEF ys
    <3> QED BY <3>1, <3>2, <3>3, <3>4
  <2> HIDE DEF ys
  <2> QED BY <2>2, <2>3
<1> HIDE DEF ys
<1>14. Changed(q, cs, NoCell, ys)
  BY <1>12, <1>13
<1>15. length' = [length EXCEPT ![q] = Len(cs)]
       /\ last' = [last EXCEPT ![q] = IF cs = <<>> THEN NoCell ELSE cs[Len(cs)]]
  BY <1>3, <1>5 DEF Exchange
<1>16. LinkedInv'
  BY <1>1, <1>3, <1>14, <1>15, ChangeKeeps
<1>17. DOMAIN xs = 1 .. Len(cs)
  BY <1>2, LenProperties
<1>18. OneChanged(q, ys, NoCell)
  BY <1>14 DEF Changed, OneChanged
<1> QED BY <1>6, <1>16, <1>17, <1>18 DEF ys, xs

\* The chain o begins with new cells and has nothing behind them.
LEMMA NewCells ==
  ASSUME LinkedInv, NEW o \in Var, NEW xs \in Seq(Datum), NEW e \in End,
         NEW cs, Built(o, xs, e, cs)
  PROVE  /\ Changed(o, cs, e, xs)
         /\ cs \in Seq(Cell) /\ Len(cs) = Len(xs)
         /\ \A p \in Var : Range(cs) \cap Range(Cells(p)) = {}
<1>0. PICK t : t = <<>>
  OBVIOUS
<1>1. IsChain(next, e, t) /\ EndOf(next, e) = e /\ Range(t) = {} /\ Len(t) = 0
  BY <1>0, NoCells
<1>2. e \in Link
  BY DEF Link
<1>3. /\ Changed(o, cs \o t, EndOf(next, e), xs \o [i \in 1 .. Len(t) |-> holds[t[i]]])
      /\ cs \in Seq(Cell) /\ Len(cs) = Len(xs) /\ Range(cs) \cap used = {}
  <2>1. Range(t) \subseteq used
    BY <1>1
  <2> QED BY <1>1, <1>2, <2>1, NewChain
<1>4. cs \o t = cs /\ xs \o <<>> = xs
  BY <1>0, <1>3, ConcatEmptySeq
<1>5. [i \in 1 .. Len(t) |-> holds[t[i]]] = <<>>
  BY <1>1
<1>6. \A p \in Var : Range(Cells(p)) \subseteq used
  BY ChainOf
<1> QED BY <1>1, <1>3, <1>4, <1>5, <1>6

\* decode(encode(o)), assigned to p: a copy in new cells.
LEMMA DecodeStep ==
  ASSUME LinkedInv, UNCHANGED prog, NEW o \in Queue \cup Stack, NEW p \in Queue \cup Stack,
         o \in Queue <=> p \in Queue, DecodeChain(p, o)
  PROVE  LinkedInv' /\ OneChanged(p, Contents(o), NoCell)
<1> DEFINE xs == Contents(o)
           cs == Fresh(Len(xs))
           c == IF cs = <<>> THEN NoCell ELSE cs[1]
<1>1. o \in Var /\ p \in Var /\ p \notin List /\ NoCell \in End /\ (p \in Queue => p \notin Stack)
  BY LinkedAssumption DEF Var, End
<1>2. xs \in Seq(Datum) /\ Len(xs) = length[o] /\ length[o] \in Nat
  <2>1. Len(Cells(o)) = length[o]
    BY DEF LinkedInv, Owned
  <2> QED BY <1>1, <2>1, ChainOf
<1>3. Room(Len(xs)) /\ cs = Fresh(length[o])
  BY <1>2 DEF DecodeChain
<1>4. cs \in Seq(Cell) /\ Len(cs) = length[o]
  BY <1>2, <1>3, FreshIs DEF LinkedInv
<1>5. cs = <<>> <=> length[o] = 0
  BY <1>4, EmptySeq
<1>6. Done(Filled(cs, xs, NoCell), [first EXCEPT ![p] = c], Range(cs), {})
  BY <1>3, <1>5 DEF DecodeChain
<1> HIDE DEF cs, c, xs
<1>7. /\ Changed(p, cs, NoCell, xs)
      /\ \A r \in Var : Range(cs) \cap Range(Cells(r)) = {}
  <2>1. Built(p, xs, NoCell, cs)
    BY <1>2, <1>3, <1>6 DEF Built, c, cs
  <2> QED BY <1>1, <1>2, <2>1, NewCells
<1>8. length' = [length EXCEPT ![p] = Len(cs)]
      /\ last' = IF p \in Queue THEN [last EXCEPT ![p] = IF cs = <<>> THEN NoCell ELSE cs[Len(cs)]] ELSE last
  BY <1>3, <1>4, <1>5 DEF DecodeChain
<1>9. LinkedInv'
  BY <1>1, <1>7, <1>8, ChangeKeeps
<1> QED BY <1>7, <1>9 DEF Changed, OneChanged, xs

\* One new cell.
LEMMA OneCell ==
  ASSUME LinkedInv, Room(1)
  PROVE  LET c == Fresh(1)[1]
         IN  c \in Cell /\ c \in prog.cells /\ c \notin used /\ Fresh(1) = <<c>> /\ Range(Fresh(1)) = {c}
             /\ Fresh(1) # <<>>
<1> DEFINE cs == Fresh(1)
<1>1. /\ cs \in Seq(Cell) /\ Len(cs) = 1
      /\ Range(cs) \subseteq prog.cells /\ Range(cs) \cap used = {}
  BY FreshIs DEF LinkedInv
<1> HIDE DEF cs
<1>2. cs = <<cs[1]>> /\ cs[1] \in Cell
  BY <1>1, ElementOfSeq
<1>3. cs[1] \in Range(cs) /\ \A x \in Range(cs) : x = cs[1]
  BY <1>1, RangeOf
<1>4. Range(cs) = {cs[1]}
  BY <1>3
<1>5. cs # <<>>
  BY <1>1, EmptySeq
<1> QED BY <1>1, <1>2, <1>3, <1>4, <1>5 DEF cs

LEMMA PushStep ==
  ASSUME LinkedInv, UNCHANGED prog, NEW s \in Stack, NEW x \in Held, Push(s, x)
  PROVE  LinkedInv' /\ OneChanged(s, <<x>> \o Contents(s), NoCell)
<1> DEFINE cs == Fresh(1)
           t == Cells(s)
<1>1. s \in Var /\ s \notin List /\ s \notin Queue
  BY LinkedAssumption DEF Var
<1>2. /\ IsChain(next, first[s], t) /\ t \in Seq(Cell) /\ Len(t) \in Nat /\ Range(t) \subseteq used
      /\ first[s] \in Link /\ Contents(s) = [i \in 1 .. Len(t) |-> holds[t[i]]]
      /\ t = <<>> => first[s] = EndOf(next, first[s])
  BY <1>1, ChainOf
<1>3. /\ Len(t) = length[s] /\ EndOf(next, first[s]) = NoCell
      /\ \A p \in Var \ {s} : Range(t) \cap Range(Cells(p)) = {}
  BY DEF LinkedInv, Owned
<1>4. Room(1) /\ cs = <<cs[1]>> /\ Range(cs) = {cs[1]}
  BY OneCell DEF Push
<1>5. Done(Filled(cs, <<x>>, first[s]), [first EXCEPT ![s] = cs[1]], Range(cs), {})
  BY <1>4 DEF Push
<1>6. <<x>> \in Seq(Datum) /\ Len(<<x>>) = 1
  BY DEF Datum
<1> HIDE DEF cs, t
<1>7. PICK xs \in Seq(Datum) : xs = <<x>> /\ Len(xs) = 1
  BY <1>6
<1>8. Built(s, xs, first[s], cs)
  <2>1. cs # <<>>
    BY <1>4
  <2> QED BY <1>4, <1>5, <1>7, <2>1 DEF Built, cs
<1>9. /\ Changed(s, cs \o t, EndOf(next, first[s]), xs \o [i \in 1 .. Len(t) |-> holds[t[i]]])
      /\ cs \in Seq(Cell) /\ Len(cs) = Len(xs) /\ Range(cs) \cap used = {}
  BY <1>1, <1>2, <1>8, NewChain
<1>10. Changed(s, cs \o t, NoCell, <<x>> \o Contents(s))
  BY <1>2, <1>3, <1>7, <1>9
<1>11. Len(cs \o t) = length[s] + 1 /\ Range(cs \o t) = Range(cs) \cup Range(t)
  <2>1. Len(cs \o t) = Len(cs) + Len(t)
    BY <1>2, <1>9, ConcatProperties
  <2>2. Range(cs \o t) = Range(cs) \cup Range(t)
    BY <1>2, <1>9, RangeConcatenation
  <2> QED BY <1>2, <1>3, <1>7, <1>9, <2>1, <2>2
<1>12. \A p \in Var \ {s} : Range(cs \o t) \cap Range(Cells(p)) = {}
  <2>1. \A p \in Var : Range(Cells(p)) \subseteq used
    BY ChainOf
  <2> QED BY <1>3, <1>9, <1>11, <2>1
<1>13. length' = [length EXCEPT ![s] = Len(cs \o t)] /\ last' = last
  BY <1>11 DEF Push, LinkedInv, LinkedTypes
<1>14. LinkedInv'
  BY <1>1, <1>10, <1>12, <1>13, ChangeKeeps
<1> QED BY <1>10, <1>14 DEF Changed, OneChanged

\* The cells behind position i of a chain hold what the sequence has behind it.
LEMMA RestOf ==
  ASSUME LinkedInv, NEW o \in Var, NEW i \in 0 .. Len(Cells(o)), NEW t, t \in Seq(Cell),
         Len(t) = Len(Cells(o)) - i, \A j \in 1 .. Len(t) : t[j] = Cells(o)[i + j]
  PROVE  [j \in 1 .. Len(t) |-> holds[t[j]]] = SubSeq(Contents(o), i + 1, Len(Contents(o)))
<1> DEFINE n == Len(Cells(o))
           xs == Contents(o)
           ys == SubSeq(xs, i + 1, n)
<1>1. n \in Nat /\ xs \in Seq(Datum) /\ Len(xs) = n /\ xs = [j \in 1 .. n |-> holds[Cells(o)[j]]]
  BY ChainOf
<1>2. \A j \in (i + 1) .. n : xs[j] \in Datum
  BY <1>1, ElementOfSeq
<1>3. /\ ys \in Seq(Datum) /\ Len(ys) = (IF i + 1 <= n THEN n - (i + 1) + 1 ELSE 0)
      /\ \A j \in 1 .. n - (i + 1) + 1 : ys[j] = xs[(i + 1) + j - 1]
  <2>1. i + 1 \in Int /\ n \in Int
    BY <1>1
  <2> HIDE DEF xs, n
  <2> QED BY <1>2, <2>1, SubSeqProperties
<1> HIDE DEF ys, n, xs
<1>4. Len(ys) = Len(t) /\ n - (i + 1) + 1 = Len(t)
  BY <1>1, <1>3 DEF n
<1>5. \A j \in 1 .. Len(t) : ys[j] = holds[t[j]]
  <2> SUFFICES ASSUME NEW j \in 1 .. Len(t) PROVE ys[j] = holds[t[j]]
    OBVIOUS
  <2>1. j \in 1 .. n - (i + 1) + 1 /\ (i + 1) + j - 1 = i + j /\ i + j \in 1 .. n
    BY <1>1, <1>4 DEF n
  <2>2. ys[j] = xs[i + j]
    BY <1>3, <2>1
  <2>3. xs[i + j] = holds[Cells(o)[i + j]]
    BY <1>1, <2>1
  <2> QED BY <2>2, <2>3
<1>6. ys = [j \in 1 .. Len(ys) |-> ys[j]]
  BY <1>3, LenProperties
<1>7. ys = SubSeq(xs, i + 1, Len(xs))
  BY <1>1 DEF ys
<1> QED BY <1>4, <1>5, <1>6, <1>7 DEF xs

\* A new list: the elements xs, and behind them cells that the list k has.
LEMMA ListMade ==
  ASSUME LinkedInv, UNCHANGED prog, NEW l \in List, NEW k \in List, NEW xs \in Seq(Datum),
         NEW e \in Link, NEW t, IsChain(next, e, t), Range(t) \subseteq Range(Cells(k)),
         EndOf(next, e) \in {Nil, Atom}, MakeList(l, xs, e)
  PROVE  LinkedInv' /\ OneChanged(l, xs \o [i \in 1 .. Len(t) |-> holds[t[i]]], EndOf(next, e))
<1> DEFINE cs == Fresh(Len(xs))
           ys == xs \o [i \in 1 .. Len(t) |-> holds[t[i]]]
<1>1. l \in Var /\ k \in Var /\ l \notin Queue /\ l \notin Stack
      /\ \A p \in Queue \cup Stack : p \in Var /\ k \in Var \ {p}
  BY LinkedAssumption DEF Var
<1>2. Built(l, xs, e, cs)
  BY DEF MakeList, Built
<1>3. \A p \in Var : Range(Cells(p)) \subseteq used
  BY ChainOf
<1> HIDE DEF cs
<1>4. /\ Changed(l, cs \o t, EndOf(next, e), ys)
      /\ cs \in Seq(Cell) /\ Range(cs) \cap used = {}
  <2>1. Range(t) \subseteq used
    BY <1>1, <1>3
  <2>2. l \in Var
    BY <1>1
  <2> QED BY <1>2, <2>1, <2>2, NewChain
<1> HIDE DEF ys
<1>5. Range(cs \o t) = Range(cs) \cup Range(t)
  <2>1. t \in Seq(Cell)
    BY DEF IsChain
  <2> QED BY <1>4, <2>1, RangeConcatenation
<1>6. \A p \in Queue \cup Stack : Range(cs \o t) \cap Range(Cells(p)) = {}
  BY <1>1, <1>3, <1>4, <1>5 DEF LinkedInv, Owned
<1>7. UNCHANGED <<length, last>>
  BY DEF MakeList
<1>8. LinkedInv'
  BY <1>1, <1>4, <1>6, <1>7, ChangeKeeps
<1> QED BY <1>4, <1>8 DEF Changed, OneChanged, ys

\* A list of new cells only.
LEMMA ListCopied ==
  ASSUME LinkedInv, UNCHANGED prog, NEW l \in List, NEW xs \in Seq(Datum), NEW e \in {Nil, Atom},
         MakeList(l, xs, e)
  PROVE  LinkedInv' /\ OneChanged(l, xs, e)
<1>1. PICK t : t = <<>>
  OBVIOUS
<1>2. IsChain(next, e, t) /\ EndOf(next, e) = e /\ Range(t) = {} /\ Len(t) = 0 /\ e \in Link
  BY <1>1, NoCells DEF End, Link
<1>3. LinkedInv' /\ OneChanged(l, xs \o [i \in 1 .. Len(t) |-> holds[t[i]]], EndOf(next, e))
  <2>1. Range(t) \subseteq Range(Cells(l))
    BY <1>2
  <2> QED BY <1>2, <2>1, ListMade
<1>4. [i \in 1 .. Len(t) |-> holds[t[i]]] = <<>>
  BY <1>2
<1>5. xs \o <<>> = xs
  BY ConcatEmptySeq
<1> QED BY <1>2, <1>3, <1>4, <1>5

\* A list of new cells in front of the list k.
LEMMA ListShared ==
  ASSUME LinkedInv, UNCHANGED prog, NEW l \in List, NEW k \in List, NEW xs \in Seq(Datum),
         MakeList(l, xs, first[k])
  PROVE  LinkedInv' /\ OneChanged(l, xs \o Contents(k), EndOf(next, first[k]))
<1>1. k \in Var
  BY DEF Var
<1>2. /\ IsChain(next, first[k], Cells(k)) /\ first[k] \in Link
      /\ Contents(k) = [i \in 1 .. Len(Cells(k)) |-> holds[Cells(k)[i]]]
  BY <1>1, ChainOf
<1>3. EndOf(next, first[k]) \in {Nil, Atom}
  BY DEF LinkedInv, ListsEnd
<1>4. PICK t : t = Cells(k)
  OBVIOUS
<1>5. LinkedInv' /\ OneChanged(l, xs \o [i \in 1 .. Len(t) |-> holds[t[i]]], EndOf(next, first[k]))
  <2>1. IsChain(next, first[k], t) /\ Range(t) \subseteq Range(Cells(k))
    BY <1>2, <1>4
  <2> QED BY <1>2, <1>3, <2>1, ListMade
<1> QED BY <1>2, <1>4, <1>5

\* What is behind position i of the list k.
LEMMA ListBehind ==
  ASSUME LinkedInv, UNCHANGED prog, NEW l \in List, NEW k \in List, NEW i \in 0 .. Len(Cells(k)),
         NEW e, e = IF i = Len(Cells(k)) THEN EndOf(next, first[k]) ELSE Cells(k)[i + 1],
         MakeList(l, <<>>, e)
  PROVE  LinkedInv' /\ OneChanged(l, SubSeq(Contents(k), i + 1, Len(Contents(k))), EndOf(next, first[k]))
<1> DEFINE cs == Cells(k)
           t == SubSeq(cs, i + 1, Len(cs))
           ys == [j \in 1 .. Len(t) |-> holds[t[j]]]
<1>1. k \in Var
  BY DEF Var
<1>2. /\ IsChain(next, first[k], cs) /\ Len(cs) \in Nat /\ \A j \in 1 .. Len(cs) : cs[j] \in Cell
      /\ holds \in [Cell -> Datum]
  BY <1>1, ChainOf DEF LinkedInv, LinkedTypes
<1>3. EndOf(next, first[k]) \in {Nil, Atom}
  BY DEF LinkedInv, ListsEnd
<1>4. /\ IsChain(next, e, t) /\ EndOf(next, e) = EndOf(next, first[k])
      /\ Len(t) = Len(cs) - i /\ \A j \in 1 .. Len(t) : t[j] = cs[i + j]
      /\ Range(t) \subseteq Range(cs)
  <2> HIDE DEF cs
  <2> QED BY <1>2, ChainDrop DEF cs
<1>5. e \in Link
  BY <1>2, <1>3 DEF Link, End
<1> HIDE DEF t
<1>6. t \in Seq(Cell)
  BY <1>4 DEF IsChain
<1>7. PICK xs \in Seq(Datum) : xs = <<>>
  BY EmptySeq
<1>8. LinkedInv' /\ OneChanged(l, xs \o ys, EndOf(next, e))
  <2>1. MakeList(l, xs, e)
    BY <1>7
  <2> QED BY <1>3, <1>4, <1>5, <2>1, ListMade
<1>9. ys = SubSeq(Contents(k), i + 1, Len(Contents(k)))
  BY <1>1, <1>4, <1>6, RestOf
<1>10. ys \in Seq(Datum)
  <2>1. Len(t) \in Nat /\ \A j \in 1 .. Len(t) : t[j] \in Cell
    BY <1>6, LenProperties, ElementOfSeq
  <2> QED BY <1>2, <2>1
<1> HIDE DEF ys
<1>11. xs \o ys = ys
  BY <1>7, <1>10, ConcatEmptySeq
<1> QED BY <1>4, <1>8, <1>9, <1>11

\* queue-put into an empty queue: the new cell is the first and the last.
LEMMA PutFirst ==
  ASSUME LinkedInv, UNCHANGED prog, NEW q \in Queue, NEW x \in Held, Put(q, x), length[q] = 0
  PROVE  LinkedInv' /\ OneChanged(q, Append(Contents(q), x), NoCell)
<1> DEFINE cs == Fresh(1)
<1>1. q \in Var /\ q \notin List /\ q \notin Stack /\ NoCell \in End
  BY LinkedAssumption DEF Var, End
<1>2. Room(1) /\ cs = <<cs[1]>> /\ Range(cs) = {cs[1]}
  BY OneCell DEF Put
<1>0. cs # <<>>
  BY <1>2, OneCell
<1>3. Done(Filled(cs, <<x>>, NoCell), [first EXCEPT ![q] = cs[1]], Range(cs), {})
  <2> DEFINE m == Filled(cs, <<x>>, NoCell)
  <2>1. ~(length[q] > 0)
    OBVIOUS
  <2>2. Done([m EXCEPT !.next = @], [first EXCEPT ![q] = cs[1]], {cs[1]}, {})
    BY <1>2, <2>1 DEF Put
  <2>3. [m EXCEPT !.next = @] = m
    BY DEF Filled
  <2> HIDE DEF m
  <2> QED BY <1>2, <2>2, <2>3 DEF m
<1>4. last' = [last EXCEPT ![q] = cs[1]] /\ length' = [length EXCEPT ![q] = 1]
  BY DEF Put
<1>5. PICK xs \in Seq(Datum) : xs = <<x>> /\ Len(xs) = 1
  <2>1. <<x>> \in Seq(Datum) /\ Len(<<x>>) = 1
    BY DEF Datum
  <2> QED BY <2>1
<1> HIDE DEF cs
<1>6. Built(q, xs, NoCell, cs)
  <2> QED BY <1>0, <1>2, <1>3, <1>5 DEF Built, cs
<1>7. /\ Changed(q, cs, NoCell, xs) /\ cs \in Seq(Cell) /\ Len(cs) = 1
      /\ \A p \in Var : Range(cs) \cap Range(Cells(p)) = {}
  BY <1>1, <1>5, <1>6, NewCells
<1>8. last' = [last EXCEPT ![q] = IF cs = <<>> THEN NoCell ELSE cs[Len(cs)]] /\ length' = [length EXCEPT ![q] = Len(cs)]
  BY <1>0, <1>4, <1>7
<1>9. LinkedInv'
  BY <1>1, <1>7, <1>8, ChangeKeeps
<1>10. xs = Append(Contents(q), x)
  <2>1. Contents(q) \in Seq(Datum) /\ Len(Contents(q)) = 0
    BY <1>1, ChainOf DEF LinkedInv, Owned
  <2>2. Contents(q) = <<>>
    BY <2>1, EmptySeq
  <2> QED BY <1>5, <2>2
<1> QED BY <1>7, <1>9, <1>10 DEF Changed, OneChanged

\* queue-put behind the last cell.
LEMMA PutBehind ==
  ASSUME LinkedInv, UNCHANGED prog, NEW q \in Queue, NEW x \in Held, Put(q, x), length[q] > 0
  PROVE  LinkedInv' /\ OneChanged(q, Append(Contents(q), x), NoCell)
<1> DEFINE cs == Cells(q)
           n == Len(cs)
           c == Fresh(1)[1]
           m == Filled(<<c>>, <<x>>, NoCell)
           M == [m EXCEPT !.next = [@ EXCEPT ![last[q]] = c]]
           s == cs \o <<c>>
<1>1. q \in Var /\ q \notin List /\ q \notin Stack /\ NoCell \in End /\ NoCell \in Link
  BY LinkedAssumption DEF Var, End, Link
<1>2. /\ IsChain(next, first[q], cs) /\ cs \in Seq(Cell) /\ n \in Nat /\ first[q] \in Link
      /\ Range(cs) \subseteq used
      /\ \A k \in 1 .. n : cs[k] \in Cell /\ cs[k] \in Range(cs)
      /\ Contents(q) \in Seq(Datum) /\ Len(Contents(q)) = n
      /\ Contents(q) = [k \in 1 .. n |-> holds[cs[k]]]
  BY <1>1, ChainOf
<1>3. /\ n = length[q] /\ EndOf(next, first[q]) = NoCell
      /\ \A p \in Var \ {q} : Range(cs) \cap Range(Cells(p)) = {}
      /\ last[q] = IF cs = <<>> THEN NoCell ELSE cs[n]
  BY DEF LinkedInv, Owned
<1>4. /\ holds \in [Cell -> Datum] /\ next \in [Cell -> Link] /\ first \in [Var -> Link]
      /\ length \in [Queue \cup Stack -> Nat] /\ last \in [Queue -> Link] /\ LinkedTypes
  BY DEF LinkedInv, LinkedTypes
<1>5. c \in Cell /\ c \in prog.cells /\ c \notin used
  BY OneCell DEF Put
<1>6. Done(M, first, {c}, {}) /\ last' = [last EXCEPT ![q] = c] /\ length' = [length EXCEPT ![q] = @ + 1]
  BY DEF Put
<1> HIDE DEF c
<1>7. /\ m.holds \in [Cell -> Datum] /\ m.next \in [Cell -> Link]
      /\ m.holds[c] = x /\ m.next[c] = NoCell
      /\ \A d \in Cell : d # c => m.holds[d] = holds[d] /\ m.next[d] = next[d]
  <2>1. PICK ds \in Seq(Cell), xs \in Seq(Datum) : ds = <<c>> /\ xs = <<x>> /\ Len(ds) = 1 /\ Len(xs) = 1
    <3>1. <<c>> \in Seq(Cell) /\ <<x>> \in Seq(Datum) /\ Len(<<c>>) = 1 /\ Len(<<x>>) = 1
      BY <1>5 DEF Datum
    <3> QED BY <3>1
  <2>2. /\ \A i, j \in 1 .. Len(ds) : ds[i] = ds[j] => i = j
        /\ ds[1] = c /\ xs[1] = x /\ 1 \in 1 .. Len(ds) /\ 1 = Len(ds)
    BY <2>1
  <2>3. \A d \in Cell : d # c => d \notin Range(ds)
    <3>1. \A i \in 1 .. Len(ds) : i = 1
      BY <2>1
    <3>2. \A d \in Range(ds) : \E i \in 1 .. Len(ds) : d = ds[i]
      BY RangeOf
    <3> QED BY <2>2, <3>1, <3>2
  <2>4. LET mm == Filled(ds, xs, NoCell)
        IN  /\ mm.holds \in [Cell -> Datum] /\ mm.next \in [Cell -> Link]
            /\ \A i \in 1 .. Len(ds) : /\ mm.holds[ds[i]] = xs[i]
                                       /\ mm.next[ds[i]] = IF i = Len(ds) THEN NoCell ELSE ds[i + 1]
            /\ \A d \in Cell : d \notin Range(ds) => mm.holds[d] = holds[d] /\ mm.next[d] = next[d]
    <3>1. Len(xs) = Len(ds)
      BY <2>1
    <3>2. \A i, j \in 1 .. Len(ds) : ds[i] = ds[j] => i = j
      BY <2>2
    <3>3. LinkedTypes /\ NoCell \in Link
      BY <1>1, <1>4
    <3> HIDE DEF m, M
    <3> QED BY <3>1, <3>2, <3>3, FilledIs
  <2>5. m = Filled(ds, xs, NoCell)
    BY <2>1
  <2> HIDE DEF m
  <2> QED BY <2>2, <2>3, <2>4, <2>5
<1>8. M.holds = m.holds /\ M.next = [m.next EXCEPT ![last[q]] = c]
  BY DEF Filled
<1> HIDE DEF m, M, cs
<1>9. n \in 1 .. n /\ cs # <<>> /\ last[q] = cs[n] /\ first[q] = cs[1] /\ cs[n] \in Cell /\ cs[n] # c
  <2>1. n \in 1 .. n
    BY <1>2, <1>3
  <2>2. cs # <<>>
    BY <1>2, <2>1, EmptySeq
  <2>3. cs[n] \in used /\ cs[n] \in Cell
    BY <1>2, <2>1
  <2> QED BY <1>2, <1>3, <1>5, <2>1, <2>2, <2>3 DEF IsChain
<1>10. /\ M.next \in [Cell -> Link] /\ M.next[cs[n]] = c /\ M.next[c] = NoCell
       /\ \A d \in used : d \in Cell /\ m.holds[d] = holds[d] /\ (d # cs[n] => M.next[d] = next[d])
  <2>1. \A d \in used : d \in Cell /\ d # c
    BY <1>4, <1>5, LinkedAssumption DEF LinkedTypes
  <2>2. c \in Link
    BY <1>5 DEF Link
  <2> QED BY <1>5, <1>7, <1>8, <1>9, <2>1, <2>2
<1>11. Leaves(M, q, {})
  <2>1. ASSUME NEW p \in Var \ {q}, NEW d \in Range(Cells(p))
        PROVE  M.next[d] = next[d] /\ M.holds[d] = holds[d]
    <3>1. d \in used
      BY ChainOf
    <3>2. d # cs[n]
      BY <1>2, <1>3, <1>9
    <3> QED BY <1>8, <1>10, <3>1, <3>2
  <2> QED BY <1>7, <1>8, <1>10, <2>1 DEF Leaves
<1>12. PICK t \in Seq(Cell) : t = <<c>> /\ Len(t) = 1 /\ t[1] = c
  <2>1. <<c>> \in Seq(Cell) /\ Len(<<c>>) = 1
    BY <1>5
  <2> QED BY <2>1
<1>13. IsChain(M.next, c, t) /\ EndOf(M.next, c) = NoCell
  <2>1. IsChain(M.next, c, t)
    BY <1>1, <1>10, <1>12, EmptySeq DEF IsChain
  <2>2. t # <<>>
    BY <1>12, EmptySeq
  <2>3. EndOf(M.next, c) = IF t = <<>> THEN c ELSE M.next[t[Len(t)]]
    BY <2>1, ChainEnd
  <2> QED BY <1>10, <1>12, <2>1, <2>2, <2>3
<1>14. \A i \in 1 .. Len(cs) : M.next[cs[i]] = IF i = Len(cs) THEN c ELSE cs[i + 1]
  <2> SUFFICES ASSUME NEW i \in 1 .. Len(cs)
               PROVE  M.next[cs[i]] = IF i = Len(cs) THEN c ELSE cs[i + 1]
    OBVIOUS
  <2>1. CASE i = Len(cs)
    BY <1>10, <2>1
  <2>2. CASE i # Len(cs)
    <3>1. i \in 1 .. Len(cs) - 1 /\ cs[i] \in used
      <4>1. Len(cs) \in Nat
        BY <1>2
      <4>2. i \in 1 .. Len(cs) - 1
        BY <2>2, <4>1
      <4> QED BY <1>2, <4>2
    <3>2. next[cs[i]] = cs[i + 1] /\ cs[i] # cs[n]
      <4>1. \A k, l \in 1 .. Len(cs) : cs[k] = cs[l] => k = l
        BY <1>2, ChainInjective
      <4> QED BY <1>2, <1>9, <2>2, <3>1, <4>1 DEF IsChain
    <3> QED BY <1>10, <2>2, <3>1, <3>2
  <2> QED BY <2>1, <2>2
<1>15. IsChain(M.next, first[q], cs \o t) /\ EndOf(M.next, first[q]) = NoCell
  <2>1. LET a == IF cs = <<>> THEN c ELSE cs[1]
        IN  IsChain(M.next, a, cs \o t) /\ EndOf(M.next, a) = EndOf(M.next, c)
    <3>1. cs \in Seq(Cell) /\ IsChain(M.next, c, t)
      BY <1>2, <1>13
    <3> QED BY <1>14, <3>1, ChainJoin
  <2> QED BY <1>9, <1>13, <2>1
<1>16. PICK r : r = cs \o t
  OBVIOUS
<1>17. /\ Range(r) = Range(cs) \cup {c} /\ Len(r) = n + 1 /\ r \in Seq(Cell)
       /\ \A i \in 1 .. n : r[i] = cs[i]
       /\ r[n + 1] = c
  <2>1. Range(t) = {c}
    <3>1. 1 \in 1 .. Len(t) /\ t[1] = c /\ \A i \in 1 .. Len(t) : i = 1
      BY <1>12
    <3>2. /\ \A i \in 1 .. Len(t) : t[i] \in Range(t)
          /\ \A y \in Range(t) : \E i \in 1 .. Len(t) : y = t[i]
      BY RangeOf
    <3> QED BY <3>1, <3>2
  <2>2. Range(r) = Range(cs) \cup Range(t)
    BY <1>2, <1>16, RangeConcatenation
  <2>3. /\ r \in Seq(Cell) /\ Len(r) = Len(cs) + Len(t)
        /\ \A i \in 1 .. Len(cs) + Len(t) : r[i] = IF i <= Len(cs) THEN cs[i] ELSE t[i - Len(cs)]
    BY <1>2, <1>16, ConcatProperties
  <2>4. \A i \in 1 .. n : i \in 1 .. n + 1 /\ i <= n
    BY <1>2
  <2>5. n + 1 \in 1 .. n + 1 /\ ~(n + 1 <= n) /\ (n + 1) - n = 1
    BY <1>2
  <2> QED BY <1>12, <2>1, <2>2, <2>3, <2>4, <2>5
<1>18. Changed(q, r, NoCell, [i \in 1 .. Len(r) |-> M.holds[r[i]]])
  <2>1. Done(M, [first EXCEPT ![q] = first[q]], {c}, {})
    <3>1. [first EXCEPT ![q] = first[q]] = first
      BY <1>4
    <3> QED BY <1>6, <3>1
  <2>2. Range(r) \subseteq (used \cup {c}) \ {} /\ {c} \subseteq prog.cells
    BY <1>2, <1>5, <1>16, <1>17
  <2>3. IsChain(M.next, first[q], r) /\ EndOf(M.next, first[q]) = NoCell
    BY <1>15, <1>16
  <2>4. q \in Var /\ first[q] \in Link
    BY <1>1, <1>2
  <2>5. Changed(q, r, EndOf(M.next, first[q]), [i \in 1 .. Len(r) |-> M.holds[r[i]]])
    BY <1>11, <2>1, <2>2, <2>3, <2>4, ChangeOne
  <2> QED BY <2>3, <2>5
<1>19. [i \in 1 .. Len(r) |-> M.holds[r[i]]] = Append(Contents(q), x)
  <2>1. /\ Append(Contents(q), x) \in Seq(Datum) /\ Len(Append(Contents(q), x)) = n + 1
        /\ \A i \in 1 .. n : Append(Contents(q), x)[i] = Contents(q)[i]
        /\ Append(Contents(q), x)[n + 1] = x
    <3>1. x \in Datum
      BY DEF Datum
    <3> QED BY <1>2, <3>1, AppendProperties
  <2>2. ASSUME NEW i \in 1 .. n + 1 PROVE M.holds[r[i]] = Append(Contents(q), x)[i]
    <3>1. CASE i = n + 1
      <4>1. r[n + 1] = c
        BY <1>17
      <4>2. M.holds[r[i]] = x
        BY <1>7, <1>8, <3>1, <4>1
      <4> QED BY <2>1, <3>1, <4>2
    <3>2. CASE i # n + 1
      <4>1. i \in 1 .. n
        BY <1>2, <3>2
      <4>2. r[i] = cs[i] /\ cs[i] \in used
        BY <1>2, <1>16, <1>17, <4>1
      <4>3. M.holds[r[i]] = holds[cs[i]]
        BY <1>8, <1>10, <4>2
      <4> QED BY <1>2, <2>1, <4>1, <4>3
    <3> QED BY <3>1, <3>2
  <2>3. Append(Contents(q), x) = [i \in 1 .. n + 1 |-> Append(Contents(q), x)[i]]
    BY <2>1, LenProperties
  <2>4. Len(r) = n + 1
    BY <1>16, <1>17
  <2> QED BY <2>2, <2>3, <2>4
<1>20. Changed(q, r, NoCell, Append(Contents(q), x))
  BY <1>18, <1>19
<1>21. length' = [length EXCEPT ![q] = Len(r)]
       /\ last' = [last EXCEPT ![q] = IF r = <<>> THEN NoCell ELSE r[Len(r)]]
  <2>1. Len(r) = n + 1 /\ r[n + 1] = c /\ r \in Seq(Cell)
    BY <1>17
  <2>2. r # <<>>
    BY <1>2, <2>1, EmptySeq
  <2> QED BY <1>3, <1>4, <1>6, <2>1, <2>2
<1>22. \A p \in Var \ {q} : Range(r) \cap Range(Cells(p)) = {}
  <2>1. \A p \in Var : Range(Cells(p)) \subseteq used
    BY ChainOf
  <2> QED BY <1>3, <1>5, <1>16, <1>17, <2>1
<1>23. LinkedInv'
  BY <1>1, <1>20, <1>21, <1>22, ChangeKeeps
<1> QED BY <1>20, <1>23 DEF Changed, OneChanged

LEMMA PutStep ==
  ASSUME LinkedInv, UNCHANGED prog, NEW q \in Queue, NEW x \in Held, Put(q, x)
  PROVE  LinkedInv' /\ OneChanged(q, Append(Contents(q), x), NoCell)
<1>1. length[q] = 0 \/ length[q] > 0
  BY DEF LinkedInv, LinkedTypes
<1> QED BY <1>1, PutFirst, PutBehind

LEMMA ConsStep ==
  ASSUME LinkedInv, UNCHANGED prog, NEW l \in List, NEW k \in List, NEW x \in Held,
         NEW e \in {first[k], Nil, Atom}, ListCons(l, x, e)
  PROVE  /\ LinkedInv'
         /\ \/ OneChanged(l, <<x>> \o Contents(k), EndOf(next, first[k]))
            \/ e \in {Nil, Atom} /\ OneChanged(l, <<x>>, e)
<1>1. PICK xs \in Seq(Datum) : xs = <<x>>
  <2>1. <<x>> \in Seq(Datum)
    BY DEF Datum
  <2> QED BY <2>1
<1>2. MakeList(l, xs, e)
  BY <1>1 DEF ListCons
<1>3. CASE e = first[k]
  BY <1>1, <1>2, <1>3, ListShared
<1>4. CASE e \in {Nil, Atom}
  BY <1>1, <1>2, <1>4, ListCopied
<1> QED BY <1>3, <1>4

LEMMA CdrStep ==
  ASSUME LinkedInv, UNCHANGED prog, NEW l \in List, NEW k \in List, ListCdr(l, k)
  PROVE  /\ LinkedInv' /\ Contents(k) # <<>>
         /\ OneChanged(l, Tail(Contents(k)), EndOf(next, first[k]))
<1> DEFINE cs == Cells(k)
           n == Len(cs)
           e == next[first[k]]
<1>1. /\ IsChain(next, first[k], cs) /\ cs \in Seq(Cell) /\ n \in Nat
      /\ Contents(k) \in Seq(Datum) /\ Len(Contents(k)) = n
      /\ EndOf(next, first[k]) = IF cs = <<>> THEN first[k] ELSE next[cs[n]]
      /\ cs = <<>> <=> first[k] \in End
  <2>1. k \in Var
    BY DEF Var
  <2> QED BY <2>1, ChainOf, ChainEnd
<1>2. first[k] \notin End /\ MakeList(l, <<>>, e)
  BY DEF ListCdr
<1> HIDE DEF cs
<1>3. cs # <<>> /\ n # 0 /\ first[k] = cs[1]
  BY <1>1, <1>2, EmptySeq DEF IsChain
<1>4. 1 \in 0 .. n
  BY <1>1, <1>3
<1>5. e = IF 1 = n THEN EndOf(next, first[k]) ELSE cs[1 + 1]
  <2>1. CASE n = 1
    BY <1>1, <1>3, <2>1
  <2>2. CASE n # 1
    <3>1. 1 \in 1 .. n - 1
      BY <1>1, <1>3, <2>2
    <3>2. next[cs[1]] = cs[1 + 1]
      BY <1>1, <3>1 DEF IsChain
    <3> QED BY <1>3, <2>2, <3>2
  <2> QED BY <2>1, <2>2
<1> HIDE DEF e
<1>6. LinkedInv' /\ OneChanged(l, SubSeq(Contents(k), 1 + 1, Len(Contents(k))), EndOf(next, first[k]))
  BY <1>2, <1>4, <1>5, ListBehind DEF cs
<1>7. Contents(k) # <<>>
  BY <1>1, <1>3, EmptySeq
<1>8. Tail(Contents(k)) = SubSeq(Contents(k), 1 + 1, Len(Contents(k)))
  <2>1. Tail(Contents(k)) = SubSeq(Contents(k), 2, Len(Contents(k)))
    BY <1>1, <1>7, TailIsSubSeq
  <2>2. 1 + 1 = 2
    OBVIOUS
  <2> QED BY <2>1, <2>2
<1> QED BY <1>6, <1>7, <1>8

LEMMA ReverseStep ==
  ASSUME LinkedInv, UNCHANGED prog, NEW l \in List, NEW k \in List, ReverseList(l, k)
  PROVE  LinkedInv' /\ EndOf(next, first[k]) = Nil /\ OneChanged(l, Reverse(Contents(k)), Nil)
<1>1. Contents(k) \in Seq(Datum)
  BY ChainOf DEF Var
<1>2. Reverse(Contents(k)) \in Seq(Datum)
  <2>1. PICK xs \in Seq(Datum) : xs = Contents(k)
    BY <1>1
  <2>2. Len(xs) \in Nat /\ \A i \in 1 .. Len(xs) : xs[i] \in Datum
    BY LenProperties, ElementOfSeq
  <2>3. \A i \in 1 .. Len(xs) : (Len(xs) - i) + 1 \in 1 .. Len(xs)
    BY <2>2
  <2>4. [i \in 1 .. Len(xs) |-> xs[(Len(xs) - i) + 1]] \in Seq(Datum)
    BY <2>2, <2>3
  <2> QED BY <2>1, <2>4 DEF Reverse
<1>3. EndOf(next, first[k]) = Nil /\ MakeList(l, Reverse(Contents(k)), Nil)
  BY DEF ReverseList
<1> QED BY <1>2, <1>3, ListCopied

LEMMA CatStep ==
  ASSUME LinkedInv, UNCHANGED prog, NEW l \in List, NEW j \in List, NEW k \in List, ListCat(l, j, k)
  PROVE  /\ LinkedInv' /\ EndOf(next, first[j]) = Nil
         /\ Contents(k) # <<>> \/ EndOf(next, first[k]) = Nil
         /\ OneChanged(l, Contents(j) \o Contents(k), EndOf(next, first[k]))
<1>1. Contents(j) \in Seq(Datum) /\ k \in Var
  BY ChainOf DEF Var
<1>2. EndOf(next, first[j]) = Nil /\ first[k] # Atom /\ MakeList(l, Contents(j), first[k])
  BY DEF ListCat
<1>3. Contents(k) # <<>> \/ EndOf(next, first[k]) = Nil
  <2>1. CASE Cells(k) = <<>>
    <3>1. first[k] = EndOf(next, first[k])
      BY <1>1, <2>1, ChainOf
    <3> QED BY <1>2, <3>1 DEF LinkedInv, ListsEnd
  <2>2. CASE Cells(k) # <<>>
    <3>1. Len(Contents(k)) > 0
      BY <1>1, <2>2, ChainOf
    <3> QED BY <1>1, <3>1, ChainOf, EmptySeq
  <2> QED BY <2>1, <2>2
<1>4. LinkedInv' /\ OneChanged(l, Contents(j) \o Contents(k), EndOf(next, first[k]))
  BY <1>1, <1>2, ListShared
<1> QED BY <1>2, <1>3, <1>4

LEMMA SubStep ==
  ASSUME LinkedInv, UNCHANGED prog, NEW l \in List, NEW k \in List,
         NEW i \in 0 .. Len(Contents(k)), NEW cnt \in 0 .. Len(Contents(k)) - i + 1, ListSub(l, k, i, cnt)
  PROVE  /\ LinkedInv'
         /\ \E j \in 0 .. Len(Contents(k)) : OneChanged(l, SubSeq(Contents(k), i + 1, j), Nil)
<1> DEFINE cs == Chain(next, first[k])
           rest == IF i = Len(cs) THEN EndOf(next, first[k]) ELSE cs[i + 1]
           left == Len(cs) - i
           n == Len(Contents(k))
<1>1. cs = Cells(k)
  BY DEF Cells
<1>2. Contents(k) \in Seq(Datum) /\ n \in Nat /\ Len(cs) = n
  <2>1. k \in Var
    BY DEF Var
  <2> QED BY <1>1, <2>1, ChainOf
<1>3. CASE cnt <= left /\ MakeList(l, SubSeq(Contents(k), i + 1, i + cnt), Nil)
  <2>1. i + cnt \in 0 .. n /\ i + 1 \in Int /\ i + cnt \in Int
    BY <1>2, <1>3
  <2>2. SubSeq(Contents(k), i + 1, i + cnt) \in Seq(Datum)
    <3>1. \A p \in (i + 1) .. (i + cnt) : p \in 1 .. n
      BY <1>2, <2>1
    <3>2. \A p \in (i + 1) .. (i + cnt) : Contents(k)[p] \in Datum
      BY <1>2, <3>1, ElementOfSeq
    <3> HIDE DEF n
    <3> QED BY <2>1, <3>2, SubSeqProperties
  <2>3. LinkedInv' /\ OneChanged(l, SubSeq(Contents(k), i + 1, i + cnt), Nil)
    BY <1>3, <2>2, ListCopied
  <2> QED BY <2>1, <2>3
<1>4. CASE EndOf(next, first[k]) = Nil /\ MakeList(l, <<>>, rest)
  <2>1. rest = IF i = Len(Cells(k)) THEN EndOf(next, first[k]) ELSE Cells(k)[i + 1]
    BY <1>1
  <2>2. i \in 0 .. Len(Cells(k))
    BY <1>1, <1>2
  <2> HIDE DEF rest
  <2>3. LinkedInv' /\ OneChanged(l, SubSeq(Contents(k), i + 1, n), EndOf(next, first[k]))
    BY <1>4, <2>1, <2>2, ListBehind
  <2>4. n \in 0 .. n
    BY <1>2
  <2> QED BY <1>4, <2>3, <2>4
<1> QED BY <1>3, <1>4 DEF ListSub

-----------------------------------------------------------------------------
(* The sequences *)

\* What the refinement mapping gives for one variable, before and after.
LEMMA ContentOf ==
  ASSUME NEW o \in Var
  PROVE  /\ Content[o] = [items |-> Contents(o), end |-> IF o \in List THEN EndOf(next, first[o]) ELSE Nil]
         /\ Content'[o] = [items |-> Contents(o)',
                           end |-> IF o \in List THEN EndOf(next', first'[o]) ELSE Nil]
BY DEF Content

\* A call changes the content of one variable.
LEMMA OneContent ==
  ASSUME NEW o \in Var, NEW xs, NEW e, OneChanged(o, xs, e)
  PROVE  /\ Content'[o] = [items |-> xs, end |-> IF o \in List THEN e ELSE Nil]
         /\ \A p \in Var \ {o} : Content'[p] = Content[p]
<1>1. \A p \in Var \ {o} : Content'[p] = Content[p]
  BY ContentOf DEF OneChanged
<1>2. Content'[o] = [items |-> xs, end |-> IF o \in List THEN e ELSE Nil]
  BY ContentOf DEF OneChanged
<1> QED BY <1>1, <1>2

LEMMA QueueMaps ==
  ASSUME NEW q \in Queue, NEW xs, OneChanged(q, xs, NoCell), S!QueueCall(Content, q, xs)
  PROVE  S!Next
<1>1. q \in Var /\ q \notin Stack /\ q \notin List
  BY LinkedAssumption DEF Var
<1>2. /\ Content'[q] = [items |-> xs, end |-> Nil]
      /\ \A p \in Var \ {q} : Content'[p] = Content[p]
  BY <1>1, OneContent
<1>3. Content'[q].items = xs
  BY <1>2
<1> QED BY <1>1, <1>2, <1>3 DEF S!Next, Var

LEMMA StackMaps ==
  ASSUME NEW t \in Stack, NEW xs, OneChanged(t, xs, NoCell), S!StackCall(Content, t, xs)
  PROVE  S!Next
<1>1. t \in Var /\ t \notin Queue /\ t \notin List
  BY LinkedAssumption DEF Var
<1>2. /\ Content'[t] = [items |-> xs, end |-> Nil]
      /\ \A p \in Var \ {t} : Content'[p] = Content[p]
  BY <1>1, OneContent
<1>3. Content'[t].items = xs
  BY <1>2
<1> QED BY <1>1, <1>2, <1>3 DEF S!Next, Var

LEMMA ListMaps ==
  ASSUME NEW l \in List, NEW xs, NEW e, OneChanged(l, xs, e),
         S!ListCall(Content, [items |-> xs, end |-> e])
  PROVE  S!Next
<1>1. l \in Var /\ l \notin Queue /\ l \notin Stack
  BY LinkedAssumption DEF Var
<1>2. Content'[l] = [items |-> xs, end |-> e] /\ \A p \in Var \ {l} : Content'[p] = Content[p]
  BY <1>1, OneContent
<1> QED BY <1>1, <1>2 DEF S!Next, Var

\* Every call keeps the invariant and is one of a sequence.
LEMMA QueueStep ==
  ASSUME LinkedInv, UNCHANGED prog, NEW q \in Queue, QueueCall(q)
  PROVE  LinkedInv' /\ S!Next
<1>1. Content[q].items = Contents(q)
  <2>1. q \in Var
    BY DEF Var
  <2>2. Content[q] = [items |-> Contents(q), end |-> IF q \in List THEN EndOf(next, first[q]) ELSE Nil]
    BY <2>1, ContentOf
  <2> QED BY <2>2
<1>2. ASSUME NEW x \in Held, Put(q, x) PROVE LinkedInv' /\ S!Next
  <2>1. LinkedInv' /\ OneChanged(q, Append(Contents(q), x), NoCell)
    BY <1>2, PutStep
  <2>2. S!QueueCall(Content, q, Append(Contents(q), x))
    BY <1>1 DEF S!QueueCall
  <2> QED BY <2>1, <2>2, QueueMaps
<1>3. CASE Get(q)
  <2>1. LinkedInv' /\ Contents(q) # <<>> /\ OneChanged(q, Tail(Contents(q)), NoCell)
    BY <1>3, GetStep
  <2>2. S!QueueCall(Content, q, Tail(Contents(q)))
    BY <1>1, <2>1 DEF S!QueueCall
  <2> QED BY <2>1, <2>2, QueueMaps
<1>4. CASE Close(q)
  <2>1. LinkedInv' /\ OneChanged(q, <<>>, NoCell)
    BY <1>4, CloseStep
  <2>2. S!QueueCall(Content, q, <<>>)
    BY DEF S!QueueCall
  <2> QED BY <2>1, <2>2, QueueMaps
<1>5. ASSUME NEW i \in 0 .. length[q] - 1, NEW j \in 0 .. length[q] - 1, Exchange(q, i, j)
      PROVE  LinkedInv' /\ S!Next
  <2> DEFINE new == [Contents(q) EXCEPT ![i + 1] = Contents(q)[j + 1], ![j + 1] = Contents(q)[i + 1]]
  <2>1. /\ LinkedInv' /\ i + 1 \in DOMAIN Contents(q) /\ j + 1 \in DOMAIN Contents(q)
        /\ OneChanged(q, new, NoCell)
    BY <1>5, SwapStep
  <2>2. S!QueueCall(Content, q, new)
    BY <1>1, <2>1 DEF S!QueueCall
  <2> QED BY <2>1, <2>2, QueueMaps
<1>6. ASSUME NEW p \in Queue, DecodeChain(p, q) PROVE LinkedInv' /\ S!Next
  <2>1. LinkedInv' /\ OneChanged(p, Contents(q), NoCell)
    BY <1>6, DecodeStep
  <2>2. S!QueueCall(Content, p, Contents(q))
    BY <1>1 DEF S!QueueCall
  <2> QED BY <2>1, <2>2, QueueMaps
<1> QED BY <1>2, <1>3, <1>4, <1>5, <1>6 DEF QueueCall

LEMMA StackStep ==
  ASSUME LinkedInv, UNCHANGED prog, NEW t \in Stack, StackCall(t)
  PROVE  LinkedInv' /\ S!Next
<1>1. Content[t].items = Contents(t)
  <2>1. t \in Var
    BY DEF Var
  <2>2. Content[t] = [items |-> Contents(t), end |-> IF t \in List THEN EndOf(next, first[t]) ELSE Nil]
    BY <2>1, ContentOf
  <2> QED BY <2>2
<1>2. ASSUME NEW x \in Held, Push(t, x) PROVE LinkedInv' /\ S!Next
  <2>1. LinkedInv' /\ OneChanged(t, <<x>> \o Contents(t), NoCell)
    BY <1>2, PushStep
  <2>2. S!StackCall(Content, t, <<x>> \o Contents(t))
    BY <1>1 DEF S!StackCall
  <2> QED BY <2>1, <2>2, StackMaps
<1>3. CASE Pop(t)
  <2>1. LinkedInv' /\ Contents(t) # <<>> /\ OneChanged(t, Tail(Contents(t)), NoCell)
    BY <1>3, PopStep
  <2>2. S!StackCall(Content, t, Tail(Contents(t)))
    BY <1>1, <2>1 DEF S!StackCall
  <2> QED BY <2>1, <2>2, StackMaps
<1>4. ASSUME NEW p \in Stack, DecodeChain(p, t) PROVE LinkedInv' /\ S!Next
  <2>1. LinkedInv' /\ OneChanged(p, Contents(t), NoCell)
    <3>1. t \notin Queue /\ p \notin Queue
      BY LinkedAssumption
    <3> QED BY <1>4, <3>1, DecodeStep
  <2>2. S!StackCall(Content, p, Contents(t))
    BY <1>1 DEF S!StackCall
  <2> QED BY <2>1, <2>2, StackMaps
<1> QED BY <1>2, <1>3, <1>4 DEF StackCall

LEMMA ListStep ==
  ASSUME LinkedInv, UNCHANGED prog, NEW l \in List, ListCall(l)
  PROVE  LinkedInv' /\ S!Next
<1>1. PICK k \in List :
        \/ \E x \in Held, e \in {first[k], Nil, Atom} : ListCons(l, x, e)
        \/ ListCdr(l, k) \/ ReverseList(l, k)
        \/ \E i \in 0 .. Len(Contents(k)) :
             \E cnt \in 0 .. Len(Contents(k)) - i + 1 : ListSub(l, k, i, cnt)
        \/ \E j \in List : ListCat(l, j, k)
  BY DEF ListCall
<1>2. ASSUME NEW j \in List
      PROVE  /\ Content[j].items = Contents(j) /\ Content[j].end = EndOf(next, first[j])
             /\ \A ys : [Content[j] EXCEPT !.items = ys] = [items |-> ys, end |-> EndOf(next, first[j])]
  <2>1. j \in Var
    BY DEF Var
  <2>2. Content[j] = [items |-> Contents(j), end |-> EndOf(next, first[j])]
    BY <2>1, ContentOf
  <2> QED BY <2>2
<1>3. ASSUME NEW x \in Held, NEW e \in {first[k], Nil, Atom}, ListCons(l, x, e)
      PROVE  LinkedInv' /\ S!Next
  <2>1. /\ LinkedInv'
        /\ \/ OneChanged(l, <<x>> \o Contents(k), EndOf(next, first[k]))
           \/ e \in {Nil, Atom} /\ OneChanged(l, <<x>>, e)
    BY <1>3, ConsStep
  <2>2. CASE OneChanged(l, <<x>> \o Contents(k), EndOf(next, first[k]))
    <3>1. S!ListCall(Content, [items |-> <<x>> \o Contents(k), end |-> EndOf(next, first[k])])
      <4> DEFINE new == [Content[k] EXCEPT !.items = <<x>> \o Content[k].items]
      <4>1. S!ListCall(Content, new)
        BY Zenon DEF S!ListCall
      <4>2. new = [items |-> <<x>> \o Contents(k), end |-> EndOf(next, first[k])]
        BY <1>2, Zenon
      <4> HIDE DEF new
      <4> QED BY <4>1, <4>2
    <3> QED BY <2>1, <2>2, <3>1, ListMaps
  <2>3. CASE e \in {Nil, Atom} /\ OneChanged(l, <<x>>, e)
    <3>1. S!ListCall(Content, [items |-> <<x>>, end |-> e])
      BY <2>3 DEF S!ListCall
    <3> QED BY <2>1, <2>3, <3>1, ListMaps
  <2> QED BY <2>1, <2>2, <2>3
<1>4. CASE ListCdr(l, k)
  <2>1. /\ LinkedInv' /\ Contents(k) # <<>>
        /\ OneChanged(l, Tail(Contents(k)), EndOf(next, first[k]))
    BY <1>4, CdrStep
  <2>2. S!ListCall(Content, [items |-> Tail(Contents(k)), end |-> EndOf(next, first[k])])
    BY <1>2, <2>1 DEF S!ListCall
  <2> QED BY <2>1, <2>2, ListMaps
<1>5. CASE ReverseList(l, k)
  <2>1. LinkedInv' /\ EndOf(next, first[k]) = Nil /\ OneChanged(l, Reverse(Contents(k)), Nil)
    BY <1>5, ReverseStep
  <2>2. S!ListCall(Content, [items |-> Reverse(Contents(k)), end |-> Nil])
    <3> DEFINE new == [Content[k] EXCEPT !.items = Reverse(Content[k].items)]
    <3>1. S!Proper(Content, k)
      BY <1>2, <2>1 DEF S!Proper
    <3>2. S!ListCall(Content, new)
      <4>1. new = [Content[k] EXCEPT !.items = S!Reverse(Content[k].items)]
        BY DEF Reverse, S!Reverse
      <4> HIDE DEF new
      <4> QED BY <3>1, <4>1, Zenon DEF S!ListCall
    <3>3. new = [items |-> Reverse(Contents(k)), end |-> Nil]
      BY <1>2, <2>1, Zenon
    <3> HIDE DEF new
    <3> QED BY <3>2, <3>3
  <2> QED BY <2>1, <2>2, ListMaps
<1>6. ASSUME NEW i \in 0 .. Len(Contents(k)), NEW cnt \in 0 .. Len(Contents(k)) - i + 1, ListSub(l, k, i, cnt)
      PROVE  LinkedInv' /\ S!Next
  <2>1. LinkedInv' /\ \E j \in 0 .. Len(Contents(k)) : OneChanged(l, SubSeq(Contents(k), i + 1, j), Nil)
    BY <1>6, SubStep
  <2>2. PICK j \in 0 .. Len(Contents(k)) : OneChanged(l, SubSeq(Contents(k), i + 1, j), Nil)
    BY <2>1
  <2>3. S!ListCall(Content, [items |-> SubSeq(Contents(k), i + 1, j), end |-> Nil])
    BY <1>2 DEF S!ListCall
  <2> QED BY <2>1, <2>2, <2>3, ListMaps
<1>7. ASSUME NEW j \in List, ListCat(l, j, k)
      PROVE  LinkedInv' /\ S!Next
  <2>1. /\ LinkedInv' /\ EndOf(next, first[j]) = Nil
        /\ Contents(k) # <<>> \/ EndOf(next, first[k]) = Nil
        /\ OneChanged(l, Contents(j) \o Contents(k), EndOf(next, first[k]))
    BY <1>7, CatStep
  <2>2. S!ListCall(Content, [items |-> Contents(j) \o Contents(k), end |-> EndOf(next, first[k])])
    <3> DEFINE new == [Content[k] EXCEPT !.items = Content[j].items \o Content[k].items]
    <3>1. S!Proper(Content, j)
      BY <1>2, <2>1 DEF S!Proper
    <3>2. Content[k].items # <<>> \/ S!Proper(Content, k)
      BY <1>2, <2>1 DEF S!Proper
    <3>3. S!ListCall(Content, new)
      BY <3>1, <3>2, Zenon DEF S!ListCall
    <3>4. new = [items |-> Contents(j) \o Contents(k), end |-> EndOf(next, first[k])]
      BY <1>2, Zenon
    <3> HIDE DEF new
    <3> QED BY <3>3, <3>4
  <2> QED BY <2>1, <2>2, ListMaps
<1> QED BY <1>1, <1>3, <1>4, <1>5, <1>6, <1>7

LEMMA CallStep ==
  ASSUME LinkedInv, ChainNext
  PROVE  LinkedInv' /\ S!Next
<1>1. UNCHANGED prog
  BY DEF ChainNext
<1>2. CASE \E q \in Queue \cap prog.vars : QueueCall(q)
  BY <1>1, <1>2, QueueStep
<1>3. CASE \E t \in Stack \cap prog.vars : StackCall(t)
  BY <1>1, <1>3, StackStep
<1>4. CASE \E l \in List \cap prog.vars : ListCall(l)
  BY <1>1, <1>4, ListStep
<1> QED BY <1>2, <1>3, <1>4 DEF ChainNext

LEMMA NoCall ==
  ASSUME UNCHANGED chainVars
  PROVE  /\ LinkedInv => LinkedInv'
         /\ Content' = Content
<1> USE DEF chainVars
<1>1. LinkedInv => LinkedInv'
  BY DEF LinkedInv, LinkedTypes, ChainsEnd, Owned, ListsEnd, Cells
<1>2. Content' = Content
  BY DEF Content, Contents, Memory
<1> QED BY <1>1, <1>2

\* The invariant of the chains holds in every state.
THEOREM LinkedCorrect == ChainSpec => []LinkedInv
<1>1. LinkedInv /\ [ChainNext]_chainVars => LinkedInv'
  BY CallStep, NoCall
<1> QED BY <1>1, InitLinked, PTL DEF ChainSpec

\* Whatever is put, got, closed, copied, pushed, popped, shared and given back, and for
\* any memory: a queue or a stack owns its cells alone, its length and the last cell a
\* queue knows are those of its chain, and no cell that is reached was given back
\* (trp_t_queue.c, trp_t_stack.c, trp_t_list.c).
THEOREM ChainsStayApart == ChainSpec => []ChainsApart
BY LinkedCorrect, InvApart, PTL

\* Each call has the effect on one sequence that it promises, and none on the others,
\* though lists share cells and cells are given back.
THEOREM ChainsAreSequences == ChainSpec => ImplementsSequences
<1>1. ChainInit => S!Init
  <2> SUFFICES ASSUME ChainInit PROVE S!Init
    OBVIOUS
  <2>1. ASSUME NEW o \in Var PROVE Content[o] = [items |-> <<>>, end |-> Nil]
    <3>1. first[o] = IF o \in List THEN Nil ELSE NoCell
      BY DEF ChainInit
    <3>2. first[o] \in End
      BY <3>1 DEF End
    <3>3. EndOf(next, first[o]) = first[o] /\ Cells(o) = <<>>
      BY <3>2, NoCells, ChainIs DEF Cells
    <3>4. Contents(o) = <<>>
      BY <3>3, ContentsAre
    <3> QED BY <3>1, <3>3, <3>4, ContentOf
  <2> QED BY <2>1 DEF S!Init, Var
<1>2. LinkedInv /\ [ChainNext]_chainVars => [S!Next]_Content
  BY CallStep, NoCall
<1> QED BY <1>1, <1>2, LinkedCorrect, PTL DEF ChainSpec, ImplementsSequences, S!Spec

=============================================================================
