------------------------- MODULE TrpContainerProofs -------------------------
(***************************************************************************)
(* Theorems about TrpTree, for any nodes and values and any arguments of   *)
(* the constructor: the types, that parents and children agree, that no    *)
(* sequence of calls closes a cycle, that the order of children stays and  *)
(* that the walks are exact; and about the calls of TrpArray, for any      *)
(* arrays, elements, steps of growth and bounds: the block has the size    *)
(* the next call takes it to have, and the elements are moved as the call  *)
(* says.                                                                   *)
(***************************************************************************)
EXTENDS TrpTree, TrpArray, FiniteSetTheorems, SequenceTheorems, WellFoundedInduction, TLAPS

-----------------------------------------------------------------------------
(* Numbers and sizes. *)

\* A set of numbers has a least element: < is well-founded on Nat.
LEMMA LeastNumber ==
  ASSUME NEW I \in SUBSET Nat, I # {}
  PROVE  \E k \in I : \A j \in I : ~ j < k
<1> DEFINE Lt == OpToRel(<, Nat)
<1>1. IsWellFoundedOn(Lt, Nat)
  BY NatLessThanWellFounded
<1>2. ASSUME NEW j \in Nat, NEW k \in Nat, j < k
      PROVE  <<j, k>> \in Lt
  <2>1. <<j, k>> \in Nat \X Nat
    OBVIOUS
  <2>2. <<j, k>>[1] < <<j, k>>[2]
    BY <1>2
  <2> QED
    BY <2>1, <2>2, Zenon DEF OpToRel
<1> HIDE DEF Lt
<1>3. \E k \in I : \A j \in I : ~ (<<j, k>> \in Lt)
  BY <1>1, WFMin
<1> QED BY <1>2, <1>3

\* The size of two sets without common elements.
LEMMA SizeOfDisjoint ==
  ASSUME NEW S, NEW T, IsFiniteSet(S), IsFiniteSet(T), S \cap T = {}
  PROVE  Cardinality(S \cup T) = Cardinality(S) + Cardinality(T)
<1>1. Cardinality(S \cap T) = 0
  BY FS_EmptySet
<1>2. Cardinality(S) \in Nat /\ Cardinality(T) \in Nat
  BY FS_CardinalityType
<1>3. Cardinality(S \cup T) = Cardinality(S) + Cardinality(T) - Cardinality(S \cap T)
  BY FS_Union, Zenon
<1> QED BY <1>1, <1>2, <1>3

-----------------------------------------------------------------------------
(* Sequences of children. *)

\* What is where after an insertion.
LEMMA WithElements ==
  ASSUME NEW S, NEW s \in Seq(S), NEW i \in 0 .. Len(s), NEW c \in S
  PROVE  /\ With(s, i, c) \in Seq(S)
         /\ DOMAIN With(s, i, c) = 1 .. Len(s) + 1
         /\ \A j \in 1 .. i : With(s, i, c)[j] = s[j]
         /\ With(s, i, c)[i + 1] = c
         /\ \A j \in i + 2 .. Len(s) + 1 : With(s, i, c)[j] = s[j - 1]
<1> DEFINE a == SubSeq(s, 1, i)
           b == SubSeq(s, i + 1, Len(s))
           ac == a \o <<c>>
<1>0. Len(s) \in Nat /\ i \in Nat /\ i <= Len(s) /\ i - 1 + 1 = i
  OBVIOUS
<1>1. a \in Seq(S) /\ Len(a) = i /\ \A j \in 1 .. i : a[j] = s[j]
  <2>1. \A j \in 1 .. i : j \in 1 .. Len(s)
    BY <1>0
  <2> QED BY <1>0, <2>1, SubSeqProperties
<1>2. /\ b \in Seq(S) /\ Len(b) = Len(s) - i
      /\ \A k \in 1 .. Len(s) - i : b[k] = s[i + k]
  <2>1. \A j \in i + 1 .. Len(s) : j \in 1 .. Len(s)
    BY <1>0
  <2> QED BY <1>0, <2>1, SubSeqProperties
<1> HIDE DEF a, b
<1>3. /\ ac \in Seq(S) /\ Len(ac) = i + 1 /\ ac[i + 1] = c
      /\ \A j \in 1 .. i : ac[j] = s[j]
  BY <1>0, <1>1
<1> HIDE DEF ac
<1>4. /\ ac \o b \in Seq(S) /\ Len(ac \o b) = Len(s) + 1
      /\ \A j \in 1 .. i + 1 : (ac \o b)[j] = ac[j]
      /\ \A j \in i + 2 .. Len(s) + 1 : (ac \o b)[j] = b[j - (i + 1)]
  BY <1>0, <1>2, <1>3
<1>5. ASSUME NEW j \in i + 2 .. Len(s) + 1
      PROVE  b[j - (i + 1)] = s[j - 1]
  <2>1. j - (i + 1) \in 1 .. Len(s) - i /\ i + (j - (i + 1)) = j - 1
    BY <1>0
  <2> QED BY <1>2, <2>1
<1>6. With(s, i, c) = ac \o b
  BY DEF With, a, b, ac
<1> QED BY <1>0, <1>3, <1>4, <1>5, <1>6

\* What is where after a removal.
LEMMA WithoutElements ==
  ASSUME NEW S, NEW s \in Seq(S), NEW i \in 0 .. Len(s) - 1
  PROVE  /\ Without(s, i) \in Seq(S)
         /\ DOMAIN Without(s, i) = 1 .. Len(s) - 1
         /\ \A j \in 1 .. i : Without(s, i)[j] = s[j]
         /\ \A j \in i + 1 .. Len(s) - 1 : Without(s, i)[j] = s[j + 1]
<1> DEFINE a == SubSeq(s, 1, i)
           b == SubSeq(s, i + 2, Len(s))
<1>0. Len(s) \in Nat /\ i \in Nat /\ i < Len(s)
  OBVIOUS
<1>1. a \in Seq(S) /\ Len(a) = i /\ \A j \in 1 .. i : a[j] = s[j]
  <2>1. \A j \in 1 .. i : j \in 1 .. Len(s)
    BY <1>0
  <2> QED BY <1>0, <2>1, SubSeqProperties
<1>2. /\ b \in Seq(S) /\ Len(b) = Len(s) - i - 1
      /\ \A k \in 1 .. Len(s) - i - 1 : b[k] = s[i + 1 + k]
  <2>1. \A j \in i + 2 .. Len(s) : j \in 1 .. Len(s)
    BY <1>0
  <2> QED BY <1>0, <2>1, SubSeqProperties
<1> HIDE DEF a, b
<1>3. /\ a \o b \in Seq(S) /\ Len(a \o b) = Len(s) - 1
      /\ \A j \in 1 .. i : (a \o b)[j] = a[j]
      /\ \A j \in i + 1 .. Len(s) - 1 : (a \o b)[j] = b[j - i]
  <2>1. Len(a) + Len(b) = Len(s) - 1
    BY <1>0, <1>1, <1>2
  <2> QED BY <1>0, <1>1, <1>2, <2>1, ConcatProperties
<1>4. ASSUME NEW j \in i + 1 .. Len(s) - 1
      PROVE  b[j - i] = s[j + 1]
  <2>1. j - i \in 1 .. Len(s) - i - 1 /\ i + 1 + (j - i) = j + 1
    BY <1>0
  <2> QED BY <1>2, <2>1
<1>5. Without(s, i) = a \o b
  BY DEF Without, a, b
<1> QED BY <1>0, <1>1, <1>3, <1>4, <1>5

LEMMA WithRange ==
  ASSUME NEW S, NEW s \in Seq(S), NEW i \in 0 .. Len(s), NEW c \in S
  PROVE  /\ Range(With(s, i, c)) = Range(s) \cup {c}
         /\ IsInjective(s) /\ c \notin Range(s) => IsInjective(With(s, i, c))
<1> DEFINE w == With(s, i, c)
<1>1. /\ w \in Seq(S) /\ DOMAIN w = 1 .. Len(s) + 1
      /\ \A j \in 1 .. i : w[j] = s[j]
      /\ w[i + 1] = c
      /\ \A j \in i + 2 .. Len(s) + 1 : w[j] = s[j - 1]
  BY WithElements
<1> HIDE DEF w
<1>2. ASSUME NEW j \in DOMAIN w
      PROVE  w[j] \in Range(s) \cup {c}
  <2>1. CASE j <= i
    BY <1>1, <2>1 DEF Range
  <2>2. CASE j = i + 1
    BY <1>1, <2>2
  <2>3. CASE j > i + 1
    <3>1. j - 1 \in DOMAIN s /\ w[j] = s[j - 1]
      BY <1>1, <2>3
    <3> QED BY <3>1 DEF Range
  <2> QED BY <1>1, <2>1, <2>2, <2>3
<1>3. ASSUME NEW j \in DOMAIN s
      PROVE  s[j] \in Range(w)
  <2>1. CASE j <= i
    BY <1>1, <2>1 DEF Range
  <2>2. CASE j > i
    <3>1. j + 1 \in DOMAIN w /\ w[j + 1] = s[j]
      BY <1>1, <2>2
    <3> QED BY <3>1 DEF Range
  <2> QED BY <2>1, <2>2
<1>4. i + 1 \in DOMAIN w
  BY <1>1
<1>5. Range(w) = Range(s) \cup {c}
  BY <1>1, <1>2, <1>3, <1>4 DEF Range
<1>6. ASSUME IsInjective(s), c \notin Range(s), NEW j \in DOMAIN w, NEW k \in DOMAIN w,
             w[j] = w[k]
      PROVE  j = k
  <2> DEFINE from(x) == IF x <= i THEN x ELSE x - 1
  <2>1. ASSUME NEW x \in DOMAIN w, x # i + 1
        PROVE  from(x) \in DOMAIN s /\ w[x] = s[from(x)]
    <3>1. CASE x <= i
      BY <1>1, <2>1, <3>1
    <3>2. CASE x > i + 1
      BY <1>1, <2>1, <3>2
    <3> QED BY <1>1, <2>1, <3>1, <3>2
  <2>2. CASE j = i + 1 \/ k = i + 1
    BY <1>1, <1>6, <2>1, <2>2 DEF Range
  <2>3. CASE j # i + 1 /\ k # i + 1
    <3>1. from(j) = from(k)
      BY <1>6, <2>1, <2>3 DEF IsInjective
    <3> QED BY <1>1, <2>3, <3>1
  <2> QED BY <2>2, <2>3
<1> QED BY <1>5, <1>6 DEF IsInjective, w

LEMMA WithoutRange ==
  ASSUME NEW S, NEW s \in Seq(S), NEW i \in 0 .. Len(s) - 1, IsInjective(s)
  PROVE  /\ Range(Without(s, i)) = Range(s) \ {s[i + 1]}
         /\ IsInjective(Without(s, i))
<1> DEFINE w == Without(s, i)
           from(x) == IF x <= i THEN x ELSE x + 1
<1>1. /\ DOMAIN w = 1 .. Len(s) - 1
      /\ \A j \in 1 .. i : w[j] = s[j]
      /\ \A j \in i + 1 .. Len(s) - 1 : w[j] = s[j + 1]
  BY WithoutElements
<1> HIDE DEF w
<1>2. ASSUME NEW x \in DOMAIN w
      PROVE  from(x) \in DOMAIN s /\ w[x] = s[from(x)] /\ from(x) # i + 1
  BY <1>1, <1>2
<1>3. i + 1 \in DOMAIN s
  OBVIOUS
<1>4. ASSUME NEW x \in DOMAIN w
      PROVE  w[x] \in Range(s) \ {s[i + 1]}
  BY <1>2, <1>3 DEF IsInjective, Range
<1>5. ASSUME NEW y \in DOMAIN s, y # i + 1
      PROVE  s[y] \in Range(w)
  <2>0. Len(s) \in Nat /\ y \in 1 .. Len(s)
    BY <1>5
  <2>1. CASE y <= i
    <3>1. y \in DOMAIN w /\ w[y] = s[y]
      BY <1>1, <2>0, <2>1
    <3> QED BY <3>1 DEF Range
  <2>2. CASE y > i + 1
    <3>1. y - 1 \in i + 1 .. Len(s) - 1 /\ y - 1 + 1 = y
      BY <2>0, <2>2
    <3>2. y - 1 \in DOMAIN w /\ w[y - 1] = s[y]
      BY <1>1, <2>0, <3>1
    <3> QED BY <3>2 DEF Range
  <2> QED BY <1>5, <2>1, <2>2
<1>6. Range(w) = Range(s) \ {s[i + 1]}
  BY <1>4, <1>5 DEF Range
<1>7. ASSUME NEW j \in DOMAIN w, NEW k \in DOMAIN w, w[j] = w[k]
      PROVE  j = k
  <2>1. from(j) = from(k)
    BY <1>2, <1>7 DEF IsInjective
  <2> QED BY <1>1, <2>1
<1> QED BY <1>6, <1>7 DEF IsInjective, w

\* One element of a sequence replaced by one that was not in it.
LEMMA ReplacedRange ==
  ASSUME NEW S, NEW s \in Seq(S), NEW i \in 0 .. Len(s) - 1, NEW c \in S,
         IsInjective(s), c \notin Range(s)
  PROVE  LET w == [s EXCEPT ![i + 1] = c] IN
         /\ w \in Seq(S)
         /\ Range(w) = (Range(s) \ {s[i + 1]}) \cup {c}
         /\ IsInjective(w)
<1> DEFINE w == [s EXCEPT ![i + 1] = c]
<1>1. w \in Seq(S) /\ DOMAIN w = DOMAIN s /\ i + 1 \in DOMAIN s
  BY ExceptSeq
<1>2. \A j \in DOMAIN s : w[j] = IF j = i + 1 THEN c ELSE s[j]
  OBVIOUS
<1> HIDE DEF w
<1>3. Range(w) = (Range(s) \ {s[i + 1]}) \cup {c}
  BY <1>1, <1>2 DEF Range, IsInjective
<1>4. IsInjective(w)
  BY <1>1, <1>2 DEF Range, IsInjective
<1> QED BY <1>1, <1>3, <1>4 DEF w

LEMMA SwappedRange ==
  ASSUME NEW S, NEW s \in Seq(S), NEW i \in 0 .. Len(s) - 1, NEW j \in 0 .. Len(s) - 1,
         IsInjective(s)
  PROVE  LET w == [s EXCEPT ![i + 1] = s[j + 1], ![j + 1] = s[i + 1]] IN
         /\ w \in Seq(S)
         /\ Range(w) = Range(s)
         /\ IsInjective(w)
<1> DEFINE w == [s EXCEPT ![i + 1] = s[j + 1], ![j + 1] = s[i + 1]]
<1>1. DOMAIN w = DOMAIN s /\ i + 1 \in DOMAIN s /\ j + 1 \in DOMAIN s
  OBVIOUS
<1>2. \A k \in DOMAIN s : w[k] = IF k = j + 1 THEN s[i + 1]
                                 ELSE IF k = i + 1 THEN s[j + 1] ELSE s[k]
  OBVIOUS
<1>3. w \in Seq(S)
  <2> DEFINE u == [s EXCEPT ![i + 1] = s[j + 1]]
  <2>1. s[i + 1] \in S /\ s[j + 1] \in S
    OBVIOUS
  <2>2. u \in Seq(S) /\ Len(u) = Len(s)
    BY <2>1, ExceptSeq
  <2>3. w = [u EXCEPT ![j + 1] = s[i + 1]]
    OBVIOUS
  <2> HIDE DEF u, w
  <2>4. j + 1 \in 1 .. Len(u)
    BY <2>2
  <2> QED BY <2>1, <2>2, <2>3, <2>4, ExceptSeq
<1> HIDE DEF w
<1>4. ASSUME NEW k \in DOMAIN s
      PROVE  s[k] \in Range(w)
  <2>1. CASE k = i + 1
    BY <1>1, <1>2, <2>1 DEF Range
  <2>2. CASE k = j + 1
    BY <1>1, <1>2, <2>2 DEF Range
  <2> QED BY <1>1, <1>2, <2>1, <2>2 DEF Range
<1>5. Range(w) = Range(s)
  BY <1>1, <1>2, <1>4 DEF Range
<1>6. IsInjective(w)
  BY <1>1, <1>2 DEF IsInjective
<1> QED BY <1>3, <1>5, <1>6 DEF w

-----------------------------------------------------------------------------
(* Ways up. *)

Parents == [TreeNode -> TreeNode \cup {Undef}]

\* Acyclic, as a function of the parents.
Rooted(P) == \A S \in SUBSET TreeNode : S # {} => \E n \in S : P[n] \notin S

\* A node attached to one that is not below it closes no cycle: of a set that has
\* both, the part in the upward set that excludes c has its old way out.
LEMMA AttachRooted ==
  ASSUME NEW n \in TreeNode, NEW c \in TreeNode, parent \in Parents, Rooted(parent),
         parent[c] = Undef, ~Above(c, n),
         NEW Q \in Parents, \A x \in TreeNode : x # c => Q[x] \in {parent[x], Undef}, Q[c] = n
  PROVE  Rooted(Q)
<1> SUFFICES ASSUME NEW S \in SUBSET TreeNode, S # {}, \A x \in S : Q[x] \in S
             PROVE  FALSE
  BY DEF Rooted
<1>1. Undef \notin S
  BY UndefAssumption
<1>2. PICK U \in SUBSET TreeNode : n \in U /\ Upward(U) /\ c \notin U
  BY DEF Above
<1>3. PICK x \in S : parent[x] \notin S
  BY DEF Rooted
<1>4. x = c
  BY <1>1, <1>3
<1>5. n \in S \cap U
  BY <1>2, <1>4
<1>6. PICK y \in S \cap U : parent[y] \notin S \cap U
  BY <1>5 DEF Rooted
<1>7. y \in TreeNode /\ y # c /\ parent[y] \in S
  BY <1>1, <1>2, <1>6
<1>8. parent[y] \in U
  BY <1>1, <1>2, <1>6, <1>7 DEF Upward
<1> QED BY <1>6, <1>7, <1>8

\* Above m, but for m itself, is above the parent of m.
LEMMA AboveParent ==
  ASSUME NEW n \in TreeNode, NEW m \in TreeNode, parent \in Parents, Above(n, m), n # m
  PROVE  parent[m] \in TreeNode /\ Above(n, parent[m])
<1>1. parent[m] # Undef
  <2> SUFFICES ASSUME parent[m] = Undef
               PROVE  FALSE
    OBVIOUS
  <2>1. {m} \in SUBSET TreeNode /\ Upward({m})
    BY DEF Upward
  <2> QED BY <2>1 DEF Above
<1>2. parent[m] \in TreeNode
  BY <1>1 DEF Parents
<1>3. ASSUME NEW S \in SUBSET TreeNode, parent[m] \in S, Upward(S)
      PROVE  n \in S
  <2>1. S \cup {m} \in SUBSET TreeNode /\ m \in S \cup {m} /\ Upward(S \cup {m})
    BY <1>3 DEF Upward
  <2>2. n \in S \cup {m}
    BY <2>1 DEF Above
  <2> QED BY <2>2
<1> QED BY <1>2, <1>3 DEF Above

LEMMA AboveChild ==
  ASSUME NEW n \in TreeNode, NEW m \in TreeNode, NEW c \in TreeNode, Above(n, m), parent[c] = m
  PROVE  Above(n, c)
<1> SUFFICES ASSUME NEW S \in SUBSET TreeNode, c \in S, Upward(S)
             PROVE  n \in S
  BY DEF Above
<1>1. m # Undef
  BY UndefAssumption
<1>2. m \in S
  BY <1>1 DEF Upward
<1> QED BY <1>2 DEF Above

\* Nothing below n is the parent of n.
LEMMA NotBelowItself ==
  ASSUME NEW n \in TreeNode, NEW m \in TreeNode, parent \in Parents, Rooted(parent), Above(n, m)
  PROVE  parent[n] # m
<1> SUFFICES ASSUME parent[n] = m
             PROVE  FALSE
  OBVIOUS
<1> DEFINE C == {x \in TreeNode : Above(n, x)}
<1>1. \A x \in C : parent[x] \in C
  BY AboveParent
<1>2. C \in SUBSET TreeNode /\ m \in C
  OBVIOUS
<1> QED BY <1>1, <1>2 DEF Rooted

-----------------------------------------------------------------------------
(* The invariant, step by step. *)

IInv == TreeTypes /\ FamilyAgree /\ Acyclic

LEMMA InitIInv == TreeInit => IInv
<1> SUFFICES ASSUME TreeInit
             PROVE  IInv
  OBVIOUS
<1> USE DEF TreeInit
<1>1. TreeTypes
  BY DEF TreeTypes
<1>2. FamilyAgree
  BY UndefAssumption DEF FamilyAgree, Range, IsInjective
<1>3. Acyclic
  BY UndefAssumption DEF Acyclic
<1> QED BY <1>1, <1>2, <1>3 DEF IInv

LEMMA MakeIInv ==
  ASSUME IInv, NEW n \in TreeNode, NEW v \in Value \cup {Undef},
         NEW cs \in Seq(made \cup {Undef}), Make(n, v, cs)
  PROVE  IInv'
<1> USE UndefAssumption
<1>0. PICK k \in 0 .. Len(cs) :
        /\ Accepted(cs, k)
        /\ made' = made \cup {n}
        /\ val' = [val EXCEPT ![n] = v]
        /\ children' = [children EXCEPT ![n] = SubSeq(cs, 1, k)]
        /\ parent' = [m \in TreeNode |-> IF \E i \in 1 .. k : cs[i] = m THEN n ELSE parent[m]]
  BY DEF Make
<1> DEFINE s == SubSeq(cs, 1, k)
<1>1. /\ n \notin made /\ parent[n] = Undef
      /\ made \in SUBSET TreeNode /\ parent \in Parents
      /\ children \in [TreeNode -> Seq(made)]
      /\ parent \in [TreeNode -> made \cup {Undef}]
  BY DEF IInv, TreeTypes, Make, Parents
<1>2. /\ s \in [1 .. k -> made \cup {Undef}]
      /\ \A i \in 1 .. k : s[i] = cs[i]
  <2>1. s \in Seq(made \cup {Undef}) /\ Len(s) = k /\ \A i \in 1 .. k : s[i] = cs[i]
    OBVIOUS
  <2> HIDE DEF s
  <2> QED BY <2>1, ElementOfSeq
<1>3. \A i \in 1 .. k : cs[i] \in made /\ parent[cs[i]] = Undef
  BY <1>0 DEF Accepted
<1>9. children' = [children EXCEPT ![n] = s]
  BY <1>0
<1> HIDE DEF s
<1>4. s \in Seq(made)
  <2>1. s \in [1 .. k -> made]
    BY <1>2, <1>3
  <2> QED BY <2>1, SeqDef
<1>5. IsInjective(s)
  <2>1. ASSUME NEW i \in 1 .. k, NEW j \in 1 .. k, cs[i] = cs[j], i < j
        PROVE  FALSE
    BY <1>0, <2>1 DEF Accepted
  <2> QED BY <1>2, <2>1 DEF IsInjective
<1>6. Range(s) = {m \in TreeNode : \E i \in 1 .. k : cs[i] = m}
  <2>1. \A m : m \in Range(s) <=> \E i \in 1 .. k : cs[i] = m
    BY <1>2 DEF Range
  <2> QED BY <1>1, <1>3, <2>1
<1>7. parent' = [m \in TreeNode |-> IF m \in Range(s) THEN n ELSE parent[m]]
  BY <1>0, <1>6
<1>8. Range(s) \subseteq made /\ \A m \in Range(s) : parent[m] = Undef
  BY <1>1, <1>3, <1>6
<1>10. TreeTypes'
  <2>1. made' \in SUBSET TreeNode /\ val' \in [TreeNode -> Value \cup {Undef}]
    BY <1>0, <1>1 DEF IInv, TreeTypes
  <2>2. parent' \in [TreeNode -> made' \cup {Undef}]
    BY <1>0, <1>1, <1>7
  <2>3. children' \in [TreeNode -> Seq(made')]
    <3>1. Seq(made) \subseteq Seq(made')
      BY <1>0, SeqMonotonic
    <3> QED BY <1>1, <1>4, <1>9, <3>1
  <2>4. \A x \in TreeNode \ made' : parent'[x] = Undef /\ children'[x] = <<>>
    BY <1>0, <1>7, <1>8, <1>9 DEF IInv, TreeTypes
  <2> QED BY <2>1, <2>2, <2>3, <2>4 DEF TreeTypes
<1>11. FamilyAgree'
  <2>1. \A c \in TreeNode : parent'[c] = n <=> c \in Range(s)
    BY <1>1, <1>7
  <2>2. \A p \in TreeNode, c \in TreeNode : p # n => (parent'[c] = p <=> parent[c] = p)
    BY <1>7, <1>8
  <2>3. children'[n] = s /\ \A p \in TreeNode : p # n => children'[p] = children[p]
    BY <1>1, <1>9
  <2> QED BY <1>5, <2>1, <2>2, <2>3 DEF IInv, FamilyAgree
<1>12. Acyclic'
  <2> SUFFICES ASSUME NEW S \in SUBSET TreeNode, S # {}
               PROVE  \E x \in S : parent'[x] \notin S
    BY DEF Acyclic
  <2>1. PICK x \in S : parent[x] \notin S
    BY DEF IInv, Acyclic
  <2>2. parent'[n] = Undef
    BY <1>1, <1>7, <1>8
  <2> QED BY <1>7, <2>1, <2>2
<1> QED BY <1>10, <1>11, <1>12 DEF IInv

LEMMA SetIInv ==
  ASSUME IInv, NEW n \in TreeNode, NEW v \in Value, TreeSet(n, v)
  PROVE  IInv'
<1>1. /\ val' = [val EXCEPT ![n] = v]
      /\ made' = made /\ parent' = parent /\ children' = children
  BY DEF TreeSet
<1>2. TreeTypes'
  BY <1>1 DEF IInv, TreeTypes
<1>3. FamilyAgree' /\ Acyclic'
  BY <1>1 DEF IInv, FamilyAgree, Acyclic
<1> QED BY <1>2, <1>3 DEF IInv

\* What TreeTypes and FamilyAgree say of one node.
LEMMA ChildrenOf ==
  ASSUME IInv, NEW n \in TreeNode
  PROVE  /\ children[n] \in Seq(made) /\ IsInjective(children[n])
         /\ \A i \in Pos(n) : Nth(n, i) \in made /\ parent[Nth(n, i)] = n
         /\ parent \in Parents /\ made \subseteq TreeNode
<1>1. children[n] \in Seq(made) /\ IsInjective(children[n]) /\ made \subseteq TreeNode
  BY DEF IInv, TreeTypes, FamilyAgree
<1>2. ASSUME NEW i \in Pos(n)
      PROVE  Nth(n, i) \in made /\ parent[Nth(n, i)] = n
  <2>1. i + 1 \in DOMAIN children[n]
    BY <1>1 DEF Pos
  <2>2. Nth(n, i) \in Range(children[n]) /\ Nth(n, i) \in made
    BY <1>1, <2>1 DEF Nth, Range
  <2> QED BY <1>1, <2>2 DEF IInv, FamilyAgree
<1> QED BY <1>1, <1>2 DEF IInv, TreeTypes, Parents

\* A step that changes the children of n and the parents of nodes among them.
LEMMA ShapeIInv ==
  ASSUME IInv, NEW n \in made, NEW s \in Seq(made), IsInjective(s),
         made' = made, val' = val,
         children' = [children EXCEPT ![n] = s],
         parent' \in [TreeNode -> made \cup {Undef}],
         \A x \in TreeNode \ made : parent'[x] = Undef,
         \A c \in TreeNode : parent'[c] = n <=> c \in Range(s),
         \A c \in TreeNode, p \in TreeNode \ {n} : parent'[c] = p <=> parent[c] = p
  PROVE  TreeTypes' /\ FamilyAgree'
<1>0. n \in TreeNode /\ children \in [TreeNode -> Seq(made)]
  BY DEF IInv, TreeTypes
<1>1. TreeTypes'
  BY <1>0 DEF IInv, TreeTypes
<1>2. children'[n] = s /\ \A p \in TreeNode \ {n} : children'[p] = children[p]
  BY <1>0
<1>3. FamilyAgree'
  BY <1>2 DEF IInv, FamilyAgree
<1> QED BY <1>1, <1>3

LEMMA InsertIInv ==
  ASSUME IInv, NEW n \in made, NEW c \in made, NEW i \in 0 .. Len(children[n]), Insert(n, i, c)
  PROVE  IInv'
<1> DEFINE s == With(children[n], i, c)
<1>0. n \in TreeNode /\ c \in TreeNode /\ parent \in [TreeNode -> made \cup {Undef}]
  BY DEF IInv, TreeTypes
<1>1. /\ parent[c] = Undef /\ ~Above(c, n)
      /\ children' = [children EXCEPT ![n] = s]
      /\ parent' = [parent EXCEPT ![c] = n]
      /\ made' = made /\ val' = val
  BY DEF Insert, Attachable
<1>2. c \notin Range(children[n])
  BY <1>0, <1>1, UndefAssumption DEF IInv, FamilyAgree
<1>3. s \in Seq(made) /\ Range(s) = Range(children[n]) \cup {c} /\ IsInjective(s)
  <2>1. children[n] \in Seq(made) /\ IsInjective(children[n])
    BY <1>0, ChildrenOf
  <2>2. s \in Seq(made)
    BY <2>1, WithElements
  <2>3. Range(s) = Range(children[n]) \cup {c} /\ IsInjective(s)
    BY <1>2, <2>1, WithRange
  <2> QED BY <2>2, <2>3
<1> HIDE DEF s
<1>4. TreeTypes' /\ FamilyAgree'
  <2>1. parent' \in [TreeNode -> made \cup {Undef}] /\ \A x \in TreeNode \ made : parent'[x] = Undef
    BY <1>0, <1>1 DEF IInv, TreeTypes
  <2>2. \A x \in TreeNode : parent'[x] = n <=> x \in Range(s)
    BY <1>0, <1>1, <1>3 DEF IInv, FamilyAgree
  <2>3. \A x \in TreeNode, p \in TreeNode \ {n} : parent'[x] = p <=> parent[x] = p
    BY <1>0, <1>1, UndefAssumption
  <2> QED BY <1>1, <1>3, <2>1, <2>2, <2>3, ShapeIInv
<1>5. Acyclic'
  <2>1. parent \in Parents /\ parent' \in Parents /\ Rooted(parent)
    BY <1>0, <1>1 DEF Parents, Rooted, IInv, Acyclic, TreeTypes
  <2>2. Rooted(parent')
    BY <1>0, <1>1, <2>1, AttachRooted
  <2> QED BY <2>2 DEF Rooted, Acyclic
<1> QED BY <1>4, <1>5 DEF IInv

LEMMA DetachIInv ==
  ASSUME IInv, NEW n \in made, NEW i \in Pos(n), Detach(n, i)
  PROVE  IInv'
<1> DEFINE s == Without(children[n], i)
           c == Nth(n, i)
<1>0. n \in TreeNode /\ c \in made /\ c \in TreeNode /\ parent[c] = n
      /\ parent \in [TreeNode -> made \cup {Undef}]
  BY ChildrenOf DEF IInv, TreeTypes
<1>1. /\ children' = [children EXCEPT ![n] = s]
      /\ parent' = [parent EXCEPT ![c] = Undef]
      /\ made' = made /\ val' = val
  BY DEF Detach
<1>2. i \in 0 .. Len(children[n]) - 1
  BY DEF Pos
<1>3. s \in Seq(made) /\ Range(s) = Range(children[n]) \ {c} /\ IsInjective(s)
  BY <1>0, <1>2, ChildrenOf, WithoutElements, WithoutRange DEF Nth
<1> HIDE DEF s, c
<1>4. TreeTypes' /\ FamilyAgree'
  <2>1. parent' \in [TreeNode -> made \cup {Undef}] /\ \A x \in TreeNode \ made : parent'[x] = Undef
    BY <1>0, <1>1 DEF IInv, TreeTypes
  <2>2. \A x \in TreeNode : parent'[x] = n <=> x \in Range(s)
    BY <1>0, <1>1, <1>3, UndefAssumption DEF IInv, FamilyAgree
  <2>3. \A x \in TreeNode, p \in TreeNode \ {n} : parent'[x] = p <=> parent[x] = p
    BY <1>0, <1>1, UndefAssumption
  <2> QED BY <1>1, <1>3, <2>1, <2>2, <2>3, ShapeIInv
<1>5. Acyclic'
  <2> SUFFICES ASSUME NEW S \in SUBSET TreeNode, S # {}
               PROVE  \E x \in S : parent'[x] \notin S
    BY DEF Acyclic
  <2>1. PICK x \in S : parent[x] \notin S
    BY DEF IInv, Acyclic
  <2> QED BY <1>0, <1>1, <2>1, UndefAssumption
<1> QED BY <1>4, <1>5 DEF IInv

LEMMA ReplaceIInv ==
  ASSUME IInv, NEW n \in made, NEW c \in made, NEW i \in Pos(n), Replace(n, i, c)
  PROVE  IInv'
<1> DEFINE s == [children[n] EXCEPT ![i + 1] = c]
           old == Nth(n, i)
<1>0. n \in TreeNode /\ c \in TreeNode /\ old \in TreeNode /\ parent[old] = n
      /\ parent \in [TreeNode -> made \cup {Undef}]
  BY ChildrenOf DEF IInv, TreeTypes
<1>1. /\ parent[c] = Undef /\ ~Above(c, n)
      /\ children' = [children EXCEPT ![n] = s]
      /\ parent' = [parent EXCEPT ![old] = Undef, ![c] = n]
      /\ made' = made /\ val' = val
  BY DEF Replace, Attachable
<1>2. c \notin Range(children[n]) /\ old # c
  BY <1>0, <1>1, UndefAssumption DEF IInv, FamilyAgree
<1>3. s \in Seq(made) /\ Range(s) = (Range(children[n]) \ {old}) \cup {c} /\ IsInjective(s)
  <2>1. /\ children[n] \in Seq(made) /\ IsInjective(children[n])
        /\ i \in 0 .. Len(children[n]) - 1
    BY <1>0, ChildrenOf DEF Pos
  <2>2. old = children[n][i + 1]
    BY DEF Nth
  <2> HIDE DEF old
  <2> QED BY <1>2, <2>1, <2>2, ReplacedRange
<1> HIDE DEF s, old
<1>4. TreeTypes' /\ FamilyAgree'
  <2>1. parent' \in [TreeNode -> made \cup {Undef}] /\ \A x \in TreeNode \ made : parent'[x] = Undef
    BY <1>0, <1>1 DEF IInv, TreeTypes
  <2>2. \A x \in TreeNode : parent'[x] = n <=> x \in Range(s)
    BY <1>0, <1>1, <1>2, <1>3, UndefAssumption DEF IInv, FamilyAgree
  <2>3. \A x \in TreeNode, p \in TreeNode \ {n} : parent'[x] = p <=> parent[x] = p
    BY <1>0, <1>1, UndefAssumption
  <2> QED BY <1>1, <1>3, <2>1, <2>2, <2>3, ShapeIInv
<1>5. Acyclic'
  <2>1. parent \in Parents /\ parent' \in Parents /\ Rooted(parent)
    BY <1>0, <1>1 DEF Parents, Rooted, IInv, Acyclic, TreeTypes
  <2>2. parent'[c] = n /\ \A x \in TreeNode : x # c => parent'[x] \in {parent[x], Undef}
    BY <1>0, <1>1, <1>2
  <2>3. Rooted(parent')
    BY <1>0, <1>1, <2>1, <2>2, AttachRooted
  <2> QED BY <2>3 DEF Rooted, Acyclic
<1> QED BY <1>4, <1>5 DEF IInv

LEMMA SwapIInv ==
  ASSUME IInv, NEW n \in made, NEW i \in Pos(n), NEW j \in Pos(n), Swap(n, i, j)
  PROVE  IInv'
<1> DEFINE s == [children[n] EXCEPT ![i + 1] = children[n][j + 1], ![j + 1] = children[n][i + 1]]
<1>0. n \in TreeNode /\ children \in [TreeNode -> Seq(made)]
  BY DEF IInv, TreeTypes
<1>1. children' = [children EXCEPT ![n] = s] /\ UNCHANGED <<made, val, parent>>
  BY <1>0 DEF Swap, Nth
<1>2. i \in 0 .. Len(children[n]) - 1 /\ j \in 0 .. Len(children[n]) - 1
  BY DEF Pos
<1>3. s \in Seq(made) /\ Range(s) = Range(children[n]) /\ IsInjective(s)
  BY <1>0, <1>2, ChildrenOf, SwappedRange
<1> HIDE DEF s
<1>4. TreeTypes' /\ FamilyAgree'
  BY <1>0, <1>1, <1>3, ShapeIInv DEF IInv, TreeTypes, FamilyAgree
<1>5. Acyclic'
  BY <1>1 DEF IInv, Acyclic
<1> QED BY <1>4, <1>5 DEF IInv

\* The nodes below n are those of a tree: their children are below n, and so are
\* their parents, but that of n.
LEMMA BelowTree ==
  ASSUME IInv, NEW n \in made
  PROVE  /\ n \in Below(n)
         /\ \A m \in Below(n) : \A c \in Range(children[m]) : c \in Below(n) /\ c # n /\ parent[c] = m
         /\ \A m \in Below(n) \ {n} : parent[m] \in Below(n)
<1>1. /\ made \subseteq TreeNode /\ parent \in Parents /\ Rooted(parent)
      /\ parent \in [TreeNode -> made \cup {Undef}]
  BY DEF IInv, TreeTypes, Acyclic, Rooted, Parents
<1>2. n \in Below(n)
  BY DEF Below, Above
<1>3. ASSUME NEW m \in Below(n), NEW c \in Range(children[m])
      PROVE  c \in Below(n) /\ c # n /\ parent[c] = m
  <2>1. m \in made /\ m \in TreeNode /\ Above(n, m)
    BY <1>1 DEF Below
  <2>2. c \in made /\ c \in TreeNode
    BY <1>1, <2>1, ChildrenOf DEF Range
  <2>3. parent[c] = m
    BY <2>1, <2>2 DEF IInv, FamilyAgree
  <2>4. Above(n, c)
    BY <1>1, <2>1, <2>2, <2>3, AboveChild
  <2>5. c # n
    BY <1>1, <2>1, <2>3, NotBelowItself
  <2> QED BY <2>2, <2>3, <2>4, <2>5 DEF Below
<1>4. ASSUME NEW m \in Below(n) \ {n}
      PROVE  parent[m] \in Below(n)
  <2>1. m \in TreeNode /\ Above(n, m) /\ n \in TreeNode
    BY <1>1 DEF Below
  <2>2. parent[m] \in TreeNode /\ Above(n, parent[m])
    BY <1>1, <1>4, <2>1, AboveParent
  <2>3. parent[m] \in made
    BY <1>1, <2>1, <2>2, UndefAssumption
  <2> QED BY <2>2, <2>3 DEF Below
<1> QED BY <1>2, <1>3, <1>4

\* What Decode does, said of the nodes that are copied and of the others.
Copied(n, f) ==
  /\ f \in [Below(n) -> TreeNode \ made]
  /\ made' = made \cup Range(f)
  /\ \A m \in Below(n) :
       /\ f[m] \in TreeNode \ made
       /\ val'[f[m]] = val[m]
       /\ children'[f[m]] = [i \in DOMAIN children[m] |-> f[children[m][i]]]
       /\ parent'[f[m]] = IF m = n THEN parent[f[n]] ELSE f[parent[m]]
       /\ \A l \in Below(n) : f[m] = f[l] => m = l
  /\ \A x \in TreeNode \ Range(f) :
       val'[x] = val[x] /\ children'[x] = children[x] /\ parent'[x] = parent[x]
  /\ val' = [x \in TreeNode |-> val'[x]]
  /\ children' = [x \in TreeNode |-> children'[x]]
  /\ parent' = [x \in TreeNode |-> parent'[x]]

LEMMA DecodeIs ==
  ASSUME IInv, NEW n \in made, NEW f \in Copies(n), Decode(n, f)
  PROVE  Copied(n, f)
<1> DEFINE back == [x \in Range(f) |-> CHOOSE m \in DOMAIN f : f[m] = x]
<1>1. f \in [Below(n) -> TreeNode \ made] /\ IsInjective(f)
  BY DEF Copies
<1>2. \A m \in Below(n), l \in Below(n) : f[m] = f[l] => m = l
  BY <1>1 DEF IsInjective
<1>3. \A m \in Below(n) : f[m] \in Range(f)
  BY <1>1 DEF Range
<1>4. \A m \in Below(n) : back[f[m]] = m
  BY <1>1, <1>2, <1>3
<1>5. /\ made' = made \cup Range(f)
      /\ val' = [x \in TreeNode |-> IF x \in Range(f) THEN val[back[x]] ELSE val[x]]
      /\ children' = [x \in TreeNode |->
           IF x \in Range(f) THEN [i \in DOMAIN children[back[x]] |-> f[children[back[x]][i]]]
           ELSE children[x]]
      /\ parent' = [x \in TreeNode |->
           IF x \in Range(f) \ {f[n]} THEN f[parent[back[x]]] ELSE parent[x]]
  BY DEF Decode
<1> HIDE DEF back
<1>6. ASSUME NEW m \in Below(n)
      PROVE  /\ f[m] \in TreeNode \ made
             /\ val'[f[m]] = val[m]
             /\ children'[f[m]] = [i \in DOMAIN children[m] |-> f[children[m][i]]]
             /\ parent'[f[m]] = IF m = n THEN parent[f[n]] ELSE f[parent[m]]
  <2>1. f[m] \in TreeNode \ made /\ f[m] \in Range(f) /\ back[f[m]] = m
    BY <1>1, <1>3, <1>4
  <2>2. n \in Below(n)
    BY BelowTree
  <2>3. f[m] = f[n] <=> m = n
    BY <1>2, <2>2
  <2> QED BY <1>5, <2>1, <2>3
<1>7. \A x \in TreeNode \ Range(f) :
        val'[x] = val[x] /\ children'[x] = children[x] /\ parent'[x] = parent[x]
  BY <1>5
<1>8. /\ val' = [x \in TreeNode |-> val'[x]] /\ children' = [x \in TreeNode |-> children'[x]]
      /\ parent' = [x \in TreeNode |-> parent'[x]]
  BY <1>5
<1> QED BY <1>1, <1>2, <1>5, <1>6, <1>7, <1>8 DEF Copied

LEMMA DecodeIInv ==
  ASSUME IInv, NEW n \in made, NEW f \in Copies(n), Decode(n, f)
  PROVE  IInv'
<1> USE UndefAssumption
<1>0. /\ made \subseteq TreeNode /\ n \in TreeNode
      /\ parent \in [TreeNode -> made \cup {Undef}] /\ val \in [TreeNode -> Value \cup {Undef}]
      /\ children \in [TreeNode -> Seq(made)]
      /\ \A x \in TreeNode \ made : parent[x] = Undef /\ children[x] = <<>>
      /\ Below(n) \subseteq made /\ n \in Below(n)
  BY BelowTree DEF IInv, TreeTypes, Below
<1>C. Copied(n, f)
  BY DecodeIs
<1>1. /\ f \in [Below(n) -> TreeNode \ made]
      /\ made' = made \cup Range(f)
      /\ \A m \in Below(n) :
           /\ f[m] \in TreeNode \ made
           /\ val'[f[m]] = val[m]
           /\ children'[f[m]] = [i \in DOMAIN children[m] |-> f[children[m][i]]]
           /\ parent'[f[m]] = IF m = n THEN parent[f[n]] ELSE f[parent[m]]
           /\ \A l \in Below(n) : f[m] = f[l] => m = l
      /\ \A x \in TreeNode \ Range(f) :
           val'[x] = val[x] /\ children'[x] = children[x] /\ parent'[x] = parent[x]
  BY <1>C DEF Copied
<1>2. /\ val' = [x \in TreeNode |-> val'[x]]
      /\ children' = [x \in TreeNode |-> children'[x]]
      /\ parent' = [x \in TreeNode |-> parent'[x]]
  BY <1>C DEF Copied
<1>3. Range(f) = {f[m] : m \in Below(n)} /\ Range(f) \cap made = {} /\ Range(f) \subseteq TreeNode
  BY <1>1 DEF Range
<1>4. /\ \A m \in Below(n) : \A c \in Range(children[m]) :
           c \in Below(n) /\ c # n /\ parent[c] = m
      /\ \A m \in Below(n) \ {n} : parent[m] \in Below(n)
  BY BelowTree
<1>5. parent'[f[n]] = Undef
  BY <1>0, <1>1
<1>6. \A m \in Below(n) \ {n} : parent'[f[m]] = f[parent[m]] /\ f[parent[m]] \in Range(f)
  BY <1>1, <1>3, <1>4
<1>7. \A m \in Below(n) : parent'[f[m]] \in Range(f) \cup {Undef}
  BY <1>5, <1>6
<1>8. ASSUME NEW m \in Below(n)
      PROVE  /\ children'[f[m]] \in Seq(made') /\ IsInjective(children'[f[m]])
             /\ Range(children'[f[m]]) = {f[c] : c \in Range(children[m])}
  <2> DEFINE s == children[m]
             w == [i \in DOMAIN s |-> f[s[i]]]
  <2>1. s \in [1 .. Len(s) -> made] /\ Len(s) \in Nat /\ IsInjective(s)
    BY <1>0, ChildrenOf, ElementOfSeq
  <2>2. \A i \in DOMAIN s : s[i] \in Range(s) /\ s[i] \in Below(n)
    BY <1>4 DEF Range
  <2>3. children'[f[m]] = w
    BY <1>1
  <2> HIDE DEF s
  <2>4. w \in [1 .. Len(s) -> made']
    BY <1>1, <1>3, <2>1, <2>2
  <2>5. w \in Seq(made')
    BY <2>1, <2>4, SeqDef
  <2>6. IsInjective(w)
    BY <1>1, <2>1, <2>2 DEF IsInjective
  <2>7. Range(w) = {f[c] : c \in Range(s)}
    BY DEF Range
  <2> QED BY <2>3, <2>5, <2>6, <2>7 DEF s
<1>9. TreeTypes'
  <2>1. made' \in SUBSET TreeNode
    BY <1>0, <1>1, <1>3
  <2>2. ASSUME NEW x \in TreeNode
        PROVE  /\ val'[x] \in Value \cup {Undef}
               /\ parent'[x] \in made' \cup {Undef}
               /\ children'[x] \in Seq(made')
               /\ x \notin made' => parent'[x] = Undef /\ children'[x] = <<>>
    <3>1. CASE x \in Range(f)
      <4>1. PICK m \in Below(n) : x = f[m]
        BY <1>3, <3>1
      <4>2. val'[x] \in Value \cup {Undef}
        <5>1. val'[f[m]] = val[m]
          BY <1>1
        <5>2. m \in TreeNode
          BY <1>0
        <5> QED BY <1>0, <4>1, <5>1, <5>2
      <4>3. parent'[x] \in made' \cup {Undef}
        BY <1>1, <1>7, <4>1
      <4>4. children'[x] \in Seq(made')
        BY <1>8, <4>1
      <4> QED BY <1>1, <3>1, <4>2, <4>3, <4>4
    <3>2. CASE x \notin Range(f)
      <4>1. val'[x] = val[x] /\ children'[x] = children[x] /\ parent'[x] = parent[x]
        BY <1>1, <3>2
      <4>2. children[x] \in Seq(made')
        BY <1>0, <1>1, SeqMonotonic
      <4> QED BY <1>0, <1>1, <4>1, <4>2
    <3> QED BY <3>1, <3>2
  <2>3. val' \in [TreeNode -> Value \cup {Undef}] /\ parent' \in [TreeNode -> made' \cup {Undef}]
    BY <1>2, <2>2
  <2>4. children' \in [TreeNode -> Seq(made')]
    BY <1>2, <2>2
  <2>5. \A x \in TreeNode \ made' : parent'[x] = Undef /\ children'[x] = <<>>
    BY <2>2
  <2> QED BY <2>1, <2>3, <2>4, <2>5 DEF TreeTypes
<1>10. FamilyAgree'
  <2> SUFFICES ASSUME NEW p \in TreeNode
               PROVE  /\ \A c \in TreeNode : parent'[c] = p <=> c \in Range(children'[p])
                      /\ IsInjective(children'[p])
    BY DEF FamilyAgree
  <2>1. CASE p \in Range(f)
    <3>1. PICK m \in Below(n) : p = f[m]
      BY <1>3, <2>1
    <3>2. p # Undef /\ p \notin made
      BY <1>1, <3>1
    <3>3. ASSUME NEW c \in TreeNode, parent'[c] = p
          PROVE  c \in Range(children'[p])
      <4>1. c \in Range(f)
        BY <1>0, <1>1, <3>2, <3>3
      <4>2. PICK l \in Below(n) : c = f[l]
        BY <1>3, <4>1
      <4>3. l # n
        BY <1>5, <3>2, <3>3, <4>2
      <4>4. parent[l] \in Below(n) /\ f[parent[l]] = f[m]
        BY <1>4, <1>6, <3>1, <3>3, <4>2, <4>3
      <4>5. parent[l] = m
        BY <1>1, <4>4
      <4>6. l \in Range(children[m])
        BY <1>0, <4>5 DEF IInv, FamilyAgree
      <4> QED BY <1>8, <3>1, <4>2, <4>6
    <3>4. ASSUME NEW c \in Range(children'[p])
          PROVE  parent'[c] = p
      <4>1. PICK l \in Range(children[m]) : c = f[l]
        BY <1>8, <3>1
      <4>2. l \in Below(n) /\ l # n /\ parent[l] = m
        BY <1>4
      <4> QED BY <1>6, <3>1, <4>1, <4>2
    <3> QED BY <1>8, <3>1, <3>3, <3>4
  <2>2. CASE p \notin Range(f)
    <3>1. children'[p] = children[p]
      BY <1>1, <2>2
    <3>2. \A c \in TreeNode : parent'[c] = p <=> parent[c] = p
      <4> SUFFICES ASSUME NEW c \in TreeNode
                   PROVE  parent'[c] = p <=> parent[c] = p
        OBVIOUS
      <4>1. CASE c \in Range(f)
        <5>1. parent'[c] \in Range(f) \cup {Undef}
          BY <1>3, <1>7, <4>1
        <5>2. parent[c] = Undef
          BY <1>0, <1>3, <4>1
        <5> QED BY <2>2, <5>1, <5>2
      <4>2. CASE c \notin Range(f)
        BY <1>1, <4>2
      <4> QED BY <4>1, <4>2
    <3> QED BY <3>1, <3>2 DEF IInv, FamilyAgree
  <2> QED BY <2>1, <2>2
<1>11. Acyclic'
  <2> SUFFICES ASSUME NEW S \in SUBSET TreeNode, S # {}, \A x \in S : parent'[x] \in S
               PROVE  FALSE
    BY DEF Acyclic
  <2> DEFINE old == S \ Range(f)
             new == {m \in Below(n) : f[m] \in S}
  <2>1. CASE old # {}
    <3>1. PICK x \in old : parent[x] \notin old
      BY <2>1 DEF IInv, Acyclic
    <3>2. parent'[x] = parent[x]
      BY <1>1
    <3>3. parent[x] \in made
      BY <1>0, <3>2
    <3> QED BY <1>3, <3>1, <3>2, <3>3
  <2>2. CASE old = {}
    <3>0. PICK x \in S : x \in Range(f)
      BY <2>2
    <3>1. new \in SUBSET TreeNode /\ new # {}
      <4>1. \E m \in Below(n) : f[m] = x
        BY <1>3, <3>0
      <4> QED BY <1>0, <3>0, <4>1
    <3>2. PICK m \in new : parent[m] \notin new
      BY <3>1 DEF IInv, Acyclic
    <3>3. m # n
      BY <1>5
    <3>4. parent[m] \in Below(n) /\ parent'[f[m]] = f[parent[m]]
      BY <1>4, <1>6, <3>3
    <3> QED BY <3>2, <3>4
  <2> QED BY <2>1, <2>2
<1> QED BY <1>9, <1>10, <1>11 DEF IInv

-----------------------------------------------------------------------------
(* The order of children. *)

LEMMA OrderOnce ==
  ASSUME NEW S, NEW s \in Seq(S), IsInjective(s), NEW a, NEW b, Before(s, a, b)
  PROVE  ~Before(s, b, a) /\ a \in Range(s) /\ b \in Range(s)
<1>1. PICK i \in DOMAIN s, j \in DOMAIN s : i < j /\ s[i] = a /\ s[j] = b
  BY DEF Before
<1>2. ASSUME NEW k \in DOMAIN s, NEW l \in DOMAIN s, k < l, s[k] = b, s[l] = a
      PROVE  FALSE
  <2>1. l = i /\ k = j
    BY <1>1, <1>2 DEF IsInjective
  <2> QED BY <1>1, <1>2, <2>1
<1> QED BY <1>1, <1>2 DEF Before, Range

LEMMA WithOrder ==
  ASSUME NEW S, NEW s \in Seq(S), IsInjective(s), NEW i \in 0 .. Len(s),
         NEW c \in S, c \notin Range(s), NEW a, NEW b, Before(s, a, b)
  PROVE  ~Before(With(s, i, c), b, a)
<1> DEFINE w == With(s, i, c)
           up(x) == IF x <= i THEN x ELSE x + 1
<1>1. /\ w \in Seq(S) /\ DOMAIN w = 1 .. Len(s) + 1
      /\ \A j \in 1 .. i : w[j] = s[j]
      /\ \A j \in i + 2 .. Len(s) + 1 : w[j] = s[j - 1]
  BY WithElements
<1>2. IsInjective(w)
  BY WithRange
<1> HIDE DEF w
<1>3. ASSUME NEW x \in DOMAIN s
      PROVE  up(x) \in DOMAIN w /\ w[up(x)] = s[x]
  <2>1. CASE x <= i
    BY <1>1, <2>1
  <2>2. CASE x > i
    <3>1. x + 1 \in i + 2 .. Len(s) + 1 /\ x + 1 - 1 = x
      BY <2>2
    <3> QED BY <1>1, <2>2, <3>1
  <2> QED BY <2>1, <2>2
<1>4. PICK p \in DOMAIN s, q \in DOMAIN s : p < q /\ s[p] = a /\ s[q] = b
  BY DEF Before
<1>5. up(p) < up(q)
  BY <1>4
<1>6. Before(w, a, b)
  BY <1>3, <1>4, <1>5 DEF Before
<1> QED BY <1>1, <1>2, <1>6, OrderOnce DEF w

LEMMA WithoutOrder ==
  ASSUME NEW S, NEW s \in Seq(S), IsInjective(s), NEW i \in 0 .. Len(s) - 1,
         NEW a, NEW b, Before(s, a, b)
  PROVE  ~Before(Without(s, i), b, a)
<1> DEFINE w == Without(s, i)
           from(x) == IF x <= i THEN x ELSE x + 1
<1>1. /\ DOMAIN w = 1 .. Len(s) - 1
      /\ \A j \in 1 .. i : w[j] = s[j]
      /\ \A j \in i + 1 .. Len(s) - 1 : w[j] = s[j + 1]
  BY WithoutElements
<1> HIDE DEF w
<1>2. SUFFICES ASSUME NEW k \in DOMAIN w, NEW l \in DOMAIN w, k < l, w[k] = b, w[l] = a
               PROVE  FALSE
  BY DEF Before, w
<1>3. \A x \in DOMAIN w : from(x) \in DOMAIN s /\ w[x] = s[from(x)]
  BY <1>1
<1>4. from(k) < from(l)
  BY <1>1, <1>2
<1>5. Before(s, b, a)
  BY <1>2, <1>3, <1>4 DEF Before
<1> QED BY <1>5, OrderOnce

\* Elements in places where two sequences agree have the same order in both.
LEMMA ElsewhereOrder ==
  ASSUME NEW S, NEW s \in Seq(S), IsInjective(s), NEW w, DOMAIN w = DOMAIN s,
         NEW a, NEW b, Before(s, a, b),
         \A k \in DOMAIN s : w[k] \in {a, b} => w[k] = s[k]
  PROVE  ~Before(w, b, a)
<1>1. SUFFICES ASSUME NEW k \in DOMAIN s, NEW l \in DOMAIN s, k < l, w[k] = b, w[l] = a
               PROVE  FALSE
  BY DEF Before
<1>2. Before(s, b, a)
  BY <1>1 DEF Before
<1> QED BY <1>2, OrderOnce

\* The step swaps a or b with another child of n.
Swapped(n, a, b) == \E i, j \in Pos(n) : {Nth(n, i), Nth(n, j)} \cap {a, b} # {} /\ Swap(n, i, j)

LEMMA OrderStep ==
  ASSUME IInv, TreeNext, NEW n \in made, NEW a \in made, NEW b \in made,
         Before(children[n], a, b), Before(children'[n], b, a)
  PROVE  Swapped(n, a, b)
<1>0. /\ made \subseteq TreeNode /\ n \in TreeNode /\ children \in [TreeNode -> Seq(made)]
      /\ children[n] \in Seq(made) /\ IsInjective(children[n])
  BY ChildrenOf DEF IInv, TreeTypes
<1>1. children'[n] # children[n]
  BY <1>0, OrderOnce
<1>2. ASSUME NEW m \in TreeNode, NEW v \in Value \cup {Undef},
             NEW cs \in SeqOf(made \cup {Undef}, MaxChildren), Make(m, v, cs)
      PROVE  FALSE
  BY <1>0, <1>1, <1>2 DEF Make
<1>3. ASSUME NEW m \in made, NEW v \in Value, TreeSet(m, v)
      PROVE  FALSE
  BY <1>1, <1>3 DEF TreeSet
<1>4. ASSUME NEW m \in made, NEW c \in made, NEW i \in 0 .. Len(children[m]), Insert(m, i, c)
      PROVE  FALSE
  <2>1. m = n /\ children'[n] = With(children[n], i, c)
    BY <1>0, <1>1, <1>4 DEF Insert
  <2>2. c \notin Range(children[n])
    BY <1>0, <1>4, UndefAssumption DEF Insert, Attachable, IInv, FamilyAgree
  <2> QED BY <1>0, <2>1, <2>2, WithOrder
<1>5. ASSUME NEW m \in made, NEW i \in Pos(m), Detach(m, i)
      PROVE  FALSE
  <2>1. m = n /\ children'[n] = Without(children[n], i)
    BY <1>0, <1>1, <1>5 DEF Detach
  <2> QED BY <1>0, <2>1, WithoutOrder DEF Pos
<1>6. ASSUME NEW m \in made, NEW c \in made, NEW i \in Pos(m), Replace(m, i, c)
      PROVE  FALSE
  <2> DEFINE w == [children[n] EXCEPT ![i + 1] = c]
  <2>1. m = n /\ children'[n] = w
    BY <1>0, <1>1, <1>6 DEF Replace
  <2>2. c \notin Range(children[n])
    BY <1>0, <1>6, UndefAssumption DEF Replace, Attachable, IInv, FamilyAgree
  <2>3. c \notin {a, b}
    BY <1>0, <2>2, OrderOnce
  <2>4. /\ DOMAIN w = DOMAIN children[n]
        /\ \A k \in DOMAIN children[n] : w[k] \in {a, b} => w[k] = children[n][k]
    BY <2>3
  <2> HIDE DEF w
  <2> QED BY <1>0, <2>1, <2>4, ElsewhereOrder
<1>7. ASSUME NEW m \in made, NEW i \in Pos(m), NEW j \in Pos(m), Swap(m, i, j)
      PROVE  Swapped(n, a, b)
  <2> DEFINE w == [children[n] EXCEPT ![i + 1] = Nth(n, j), ![j + 1] = Nth(n, i)]
  <2>1. m = n /\ children'[n] = w
    BY <1>0, <1>1, <1>7 DEF Swap
  <2>2. SUFFICES ASSUME {Nth(n, i), Nth(n, j)} \cap {a, b} = {}
                 PROVE  FALSE
    BY <1>7, <2>1 DEF Swapped
  <2>3. /\ DOMAIN w = DOMAIN children[n]
        /\ \A k \in DOMAIN children[n] : w[k] \in {a, b} => w[k] = children[n][k]
    BY <2>2
  <2> HIDE DEF w
  <2> QED BY <1>0, <2>1, <2>3, ElsewhereOrder
<1>8. ASSUME NEW m \in made, NEW f \in Copies(m), Decode(m, f)
      PROVE  FALSE
  <2>1. n \notin Range(f)
    BY <1>0 DEF Copies, Range
  <2> QED BY <1>0, <1>1, <1>8, <2>1 DEF Decode
<1> QED BY <1>2, <1>3, <1>4, <1>5, <1>6, <1>7, <1>8 DEF TreeNext

-----------------------------------------------------------------------------
(* The walks.  A recursive definition is the CHOOSE of a function that fits *)
(* its equation: one that fits is shown, then that every one that fits      *)
(* answers the same.                                                        *)

LEMMA AboveComposes ==
  ASSUME NEW a, NEW b, NEW c, Above(a, b), Above(b, c)
  PROVE  Above(a, c)
BY DEF Above

\* The way up from m, and the nodes from which the way up leads through m.
Chain(m) == {x \in TreeNode : Above(x, m)}

Under(m) == {x \in TreeNode : Above(m, x)}

LEMMA ChainStep ==
  ASSUME IInv, NEW m \in TreeNode
  PROVE  /\ m \in Chain(m)
         /\ parent[m] = Undef => Chain(m) = {m}
         /\ parent[m] # Undef => /\ parent[m] \in TreeNode /\ m \notin Chain(parent[m])
                                 /\ Chain(m) = Chain(parent[m]) \cup {m}
<1>1. parent \in Parents /\ Rooted(parent)
  BY DEF IInv, TreeTypes, Acyclic, Rooted, Parents
<1>2. m \in Chain(m)
  BY DEF Chain, Above
<1>3. ASSUME NEW x \in Chain(m), x # m
      PROVE  parent[m] \in TreeNode /\ x \in Chain(parent[m])
  BY <1>1, <1>3, AboveParent DEF Chain
<1>4. CASE parent[m] = Undef
  BY <1>2, <1>3, <1>4, UndefAssumption
<1>5. CASE parent[m] # Undef
  <2>1. parent[m] \in TreeNode
    BY <1>1, <1>5 DEF Parents
  <2>2. \A x \in Chain(parent[m]) : x \in Chain(m)
    BY <2>1, AboveChild DEF Chain
  <2>3. m \notin Chain(parent[m])
    BY <1>1, <2>1, NotBelowItself DEF Chain
  <2> QED BY <1>2, <1>3, <1>5, <2>1, <2>2, <2>3
<1> QED BY <1>2, <1>4, <1>5

\* trp_tree_root answers a node without parent on the way up.
LEMMA RootWalk ==
  ASSUME IInv, NEW n \in TreeNode
  PROVE  parent[Root(n)] = Undef /\ Root(n) \in Chain(n)
<1> DEFINE Fits(u) == u = [m \in TreeNode |-> IF parent[m] = Undef THEN m ELSE u[parent[m]]]
           up == CHOOSE u : Fits(u)
           Top(m) == {r \in Chain(m) : parent[r] = Undef}
           found == [m \in TreeNode |-> CHOOSE r : r \in Top(m)]
<1>1. Root(n) = up[n]
  BY DEF Root
<1>2. Fits(found)
  <2> SUFFICES ASSUME NEW m \in TreeNode
               PROVE  found[m] = IF parent[m] = Undef THEN m ELSE found[parent[m]]
    OBVIOUS
  <2>1. CASE parent[m] = Undef
    <3>1. Top(m) = {m}
      BY <2>1, ChainStep
    <3> QED BY <2>1, <3>1
  <2>2. CASE parent[m] # Undef
    <3>1. Top(m) = Top(parent[m]) /\ parent[m] \in TreeNode
      BY <2>2, ChainStep
    <3> QED BY <2>2, <3>1
  <2> QED BY <2>1, <2>2
<1>3. Fits(up)
  BY <1>2
<1>4. \A m \in TreeNode : up[m] = IF parent[m] = Undef THEN m ELSE up[parent[m]]
  BY <1>3
<1> HIDE DEF up, Fits
<1> DEFINE W == {m \in TreeNode : ~ (parent[up[m]] = Undef /\ up[m] \in Chain(m))}
<1>5. SUFFICES ASSUME W # {}
               PROVE  FALSE
  BY <1>1
<1>6. PICK m \in W : parent[m] \notin W
  BY <1>5 DEF IInv, Acyclic
<1>7. CASE parent[m] = Undef
  BY <1>4, <1>7, ChainStep
<1>8. CASE parent[m] # Undef
  <2>1. parent[m] \in TreeNode /\ up[parent[m]] \in Chain(m) /\ parent[up[parent[m]]] = Undef
    BY <1>6, <1>8, ChainStep
  <2> QED BY <1>4, <1>8, <2>1
<1> QED BY <1>7, <1>8

LEMMA ChainFinite ==
  ASSUME NEW S \in SUBSET TreeNode
  PROVE  IsFiniteSet(S) /\ Cardinality(S) \in Nat
BY MemoryAssumption, FS_Subset, FS_CardinalityType

\* trp_tree_level answers how many nodes are above n.
LEMMA LevelWalk ==
  ASSUME IInv, NEW n \in TreeNode
  PROVE  Level(n) = Cardinality(Chain(n)) - 1
<1> DEFINE Fits(u) == u = [m \in TreeNode |-> IF parent[m] = Undef THEN 0 ELSE 1 + u[parent[m]]]
           up == CHOOSE u : Fits(u)
           height == [m \in TreeNode |-> Cardinality(Chain(m)) - 1]
<1>1. Level(n) = up[n]
  BY DEF Level
<1>2. ASSUME NEW m \in TreeNode
      PROVE  height[m] \in Int /\ height[m] = IF parent[m] = Undef THEN 0 ELSE 1 + height[parent[m]]
  <2>1. IsFiniteSet(Chain(m)) /\ Cardinality(Chain(m)) \in Nat
    BY ChainFinite DEF Chain
  <2>2. CASE parent[m] = Undef
    <3>1. Cardinality(Chain(m)) = 1
      BY <2>2, ChainStep, FS_Singleton
    <3> QED BY <2>2, <3>1
  <2>3. CASE parent[m] # Undef
    <3>1. parent[m] \in TreeNode /\ m \notin Chain(parent[m]) /\ Chain(m) = Chain(parent[m]) \cup {m}
      BY <2>3, ChainStep
    <3>2. IsFiniteSet(Chain(parent[m])) /\ Cardinality(Chain(parent[m])) \in Nat
      BY ChainFinite DEF Chain
    <3>3. Cardinality(Chain(m)) = Cardinality(Chain(parent[m])) + 1
      BY <3>1, <3>2, FS_AddElement
    <3>4. /\ height[m] = Cardinality(Chain(m)) - 1
          /\ height[parent[m]] = Cardinality(Chain(parent[m])) - 1
      BY <3>1
    <3> HIDE DEF height
    <3> QED BY <2>3, <3>2, <3>3, <3>4
  <2> QED BY <2>1, <2>2, <2>3
<1> HIDE DEF height
<1>3. Fits(height)
  <2>1. height = [m \in TreeNode |-> height[m]]
    BY DEF height
  <2> QED BY <1>2, <2>1
<1>4. Fits(up)
  BY <1>3
<1>5. \A m \in TreeNode : up[m] = IF parent[m] = Undef THEN 0 ELSE 1 + up[parent[m]]
  BY <1>4
<1> HIDE DEF up, Fits
<1> DEFINE W == {m \in TreeNode : up[m] # height[m]}
<1>6. SUFFICES ASSUME W # {}
               PROVE  FALSE
  BY <1>1 DEF height
<1>7. PICK m \in W : parent[m] \notin W
  BY <1>6 DEF IInv, Acyclic
<1>8. parent[m] # Undef => up[parent[m]] = height[parent[m]]
  BY <1>7, ChainStep
<1> QED BY <1>2, <1>5, <1>7, <1>8

\* The nodes under m are m and those under its children, each under one of them.
LEMMA UnderChildren ==
  ASSUME IInv, NEW m \in TreeNode
  PROVE  /\ Under(m) = {m} \cup UNION {Under(Nth(m, i)) : i \in Pos(m)}
         /\ \A i \in Pos(m) : m \notin Under(Nth(m, i))
         /\ \A i, j \in Pos(m) : i # j => Under(Nth(m, i)) \cap Under(Nth(m, j)) = {}
<1>1. parent \in Parents /\ Rooted(parent)
  BY DEF IInv, TreeTypes, Acyclic, Rooted, Parents
<1>2. \A i \in Pos(m) : Nth(m, i) \in TreeNode /\ parent[Nth(m, i)] = m
  BY ChildrenOf
<1>3. \A c \in TreeNode : parent[c] = m => \E i \in Pos(m) : Nth(m, i) = c
  <2> SUFFICES ASSUME NEW c \in TreeNode, parent[c] = m
               PROVE  \E i \in Pos(m) : Nth(m, i) = c
    OBVIOUS
  <2>1. c \in Range(children[m])
    BY DEF IInv, FamilyAgree
  <2>2. PICK j \in DOMAIN children[m] : children[m][j] = c
    BY <2>1 DEF Range
  <2>3. children[m] \in Seq(made)
    BY ChildrenOf
  <2>4. j - 1 \in Pos(m) /\ j - 1 + 1 = j
    BY <2>2, <2>3 DEF Pos
  <2> QED BY <2>2, <2>4 DEF Nth
<1>4. ASSUME NEW x \in Under(m), x # m
      PROVE  \E i \in Pos(m) : x \in Under(Nth(m, i))
  <2> DEFINE S == {y \in TreeNode : Above(y, x) /\ y # m /\ Above(m, y)}
  <2>1. S \in SUBSET TreeNode /\ x \in S
    BY <1>4 DEF Under, Above
  <2>2. PICK y \in S : parent[y] \notin S
    BY <1>1, <2>1 DEF Rooted
  <2>3. parent[y] \in TreeNode /\ Above(m, parent[y])
    BY <1>1, AboveParent
  <2>4. Above(parent[y], parent[y])
    BY DEF Above
  <2>5. Above(parent[y], y)
    BY <2>3, <2>4, AboveChild
  <2>6. Above(parent[y], x)
    BY <2>5, AboveComposes
  <2>7. parent[y] = m
    BY <2>2, <2>3, <2>6
  <2> QED BY <1>3, <2>7, <1>4 DEF Under
<1>5. ASSUME NEW i \in Pos(m), NEW x \in Under(Nth(m, i))
      PROVE  x \in Under(m)
  <2>1. Above(m, m)
    BY DEF Above
  <2>2. Above(m, Nth(m, i))
    BY <1>2, <2>1, AboveChild
  <2> QED BY <2>2, AboveComposes DEF Under
<1>6. m \in Under(m)
  BY DEF Under, Above
<1>7. ASSUME NEW i \in Pos(m)
      PROVE  m \notin Under(Nth(m, i))
  BY <1>1, <1>2, NotBelowItself DEF Under
<1>8. ASSUME NEW c \in TreeNode, NEW d \in TreeNode, c # d, parent[c] = m, parent[d] = m, Above(d, c)
      PROVE  FALSE
  <2>1. Above(d, m)
    BY <1>1, <1>8, AboveParent
  <2> QED BY <1>1, <1>8, <2>1, NotBelowItself
<1>9. ASSUME NEW i \in Pos(m), NEW j \in Pos(m), i # j, NEW x \in Under(Nth(m, i)) \cap Under(Nth(m, j))
      PROVE  FALSE
  <2> DEFINE c == Nth(m, i)
             d == Nth(m, j)
             S == {y \in TreeNode : Above(c, y) /\ Above(d, y)}
  <2>1. c # d
    <3>1. children[m] \in Seq(made) /\ IsInjective(children[m])
      BY ChildrenOf
    <3>2. i + 1 \in DOMAIN children[m] /\ j + 1 \in DOMAIN children[m] /\ i + 1 # j + 1
      BY <1>9, <3>1 DEF Pos
    <3> QED BY <3>1, <3>2 DEF Nth, IsInjective
  <2>2. c \in TreeNode /\ d \in TreeNode /\ parent[c] = m /\ parent[d] = m
    BY <1>2
  <2>3. S \in SUBSET TreeNode /\ x \in S
    BY DEF Under
  <2> HIDE DEF c, d
  <2>4. PICK y \in S : parent[y] \notin S
    BY <1>1, <2>3 DEF Rooted
  <2>5. y = c \/ y = d
    <3> SUFFICES ASSUME y # c, y # d
                 PROVE  FALSE
      OBVIOUS
    <3>1. parent[y] \in TreeNode /\ Above(c, parent[y]) /\ Above(d, parent[y])
      BY <1>1, <2>2, AboveParent
    <3> QED BY <2>4, <3>1
  <2> QED BY <1>8, <2>1, <2>2, <2>5
<1> QED BY <1>4, <1>5, <1>6, <1>7, <1>9

\* One round of trp_tree_node_cnt_low, when it is right about the children.
LEMMA CountRound ==
  ASSUME IInv, NEW m \in TreeNode, NEW cnt,
         \A i \in Pos(m) : cnt[Nth(m, i)] = Cardinality(Under(Nth(m, i)))
  PROVE  Counted(m, cnt) = Cardinality(Under(m))
<1> DEFINE L == Len(children[m])
           Fits(s) == s = [i \in 0 .. L |-> IF i = L THEN 1 ELSE s[i + 1] + cnt[Nth(m, i)]]
           sum == CHOOSE s : Fits(s)
           Part(i) == {m} \cup UNION {Under(Nth(m, j)) : j \in i .. L - 1}
           size == [i \in 0 .. L |-> Cardinality(Part(i))]
<1>0. L \in Nat /\ Pos(m) = 0 .. L - 1
  <2>1. children[m] \in Seq(made)
    BY ChildrenOf
  <2> QED BY <2>1 DEF Pos
<1>1. Counted(m, cnt) = sum[0]
  BY DEF Counted
<1> HIDE DEF L
<1>2. ASSUME NEW i \in 0 .. L
      PROVE  IsFiniteSet(Part(i)) /\ Cardinality(Part(i)) \in Nat
  <2>1. Part(i) \in SUBSET TreeNode
    BY DEF Under
  <2> QED BY <2>1, ChainFinite
<1>3. ASSUME NEW i \in 0 .. L
      PROVE  size[i] \in Int /\ size[i] = IF i = L THEN 1 ELSE size[i + 1] + cnt[Nth(m, i)]
  <2>1. CASE i = L
    <3>1. Part(i) = {m}
      <4>1. i .. L - 1 = {}
        BY <1>0, <2>1
      <4> QED BY <4>1
    <3>2. Cardinality(Part(i)) = 1
      BY <3>1, FS_Singleton
    <3> QED BY <2>1, <3>2
  <2>2. CASE i # L
    <3>1. i \in Pos(m) /\ i + 1 \in 0 .. L /\ i .. L - 1 = (i + 1 .. L - 1) \cup {i}
      BY <1>0, <2>2
    <3>2. Part(i) = Part(i + 1) \cup Under(Nth(m, i))
      BY <3>1
    <3>3. Part(i + 1) \cap Under(Nth(m, i)) = {}
      <4>1. \A j \in i + 1 .. L - 1 : j \in Pos(m) /\ j # i
        BY <1>0, <3>1
      <4> QED BY <3>1, <4>1, UnderChildren
    <3>4. IsFiniteSet(Under(Nth(m, i))) /\ Cardinality(Under(Nth(m, i))) \in Nat
      BY ChainFinite DEF Under
    <3>5. Cardinality(Part(i)) = Cardinality(Part(i + 1)) + Cardinality(Under(Nth(m, i)))
      BY <1>2, <3>1, <3>2, <3>3, <3>4, SizeOfDisjoint
    <3>6. size[i] = Cardinality(Part(i)) /\ size[i + 1] = Cardinality(Part(i + 1))
      BY <3>1
    <3>7. Cardinality(Part(i + 1)) \in Nat /\ cnt[Nth(m, i)] = Cardinality(Under(Nth(m, i)))
      BY <1>2, <3>1
    <3> HIDE DEF size, Part
    <3> QED BY <2>2, <3>4, <3>5, <3>6, <3>7
  <2> QED BY <2>1, <2>2, <1>2
<1>4. size[0] = Cardinality(Under(m))
  <2>1. Part(0) = Under(m)
    BY <1>0, UnderChildren
  <2>2. size[0] = Cardinality(Part(0))
    BY <1>0
  <2> QED BY <2>1, <2>2
<1> HIDE DEF size, Part
<1>5. Fits(size)
  <2>1. size = [i \in 0 .. L |-> size[i]]
    BY DEF size
  <2> QED BY <1>3, <2>1
<1>6. Fits(sum)
  BY <1>5
<1>7. \A i \in 0 .. L : sum[i] = IF i = L THEN 1 ELSE sum[i + 1] + cnt[Nth(m, i)]
  BY <1>6
<1> HIDE DEF sum, Fits
<1> DEFINE W == {i \in 0 .. L : sum[L - i] # size[L - i]}
<1>8. W = {}
  <2>1. SUFFICES ASSUME W # {}
                 PROVE  FALSE
    OBVIOUS
  <2>2. W \in SUBSET Nat
    OBVIOUS
  <2>3. PICK k \in W : \A j \in W : ~ j < k
    BY <2>1, <2>2, LeastNumber
  <2>4. k \in 0 .. L /\ L - k \in 0 .. L
    BY <1>0
  <2>5. k # 0
    BY <1>0, <1>3, <1>7, <2>3, <2>4
  <2>6. k - 1 \in 0 .. L /\ k - 1 < k /\ L - (k - 1) = (L - k) + 1 /\ L - k # L
    BY <1>0, <2>4, <2>5
  <2>7. sum[(L - k) + 1] = size[(L - k) + 1]
    BY <2>3, <2>6
  <2> QED BY <1>3, <1>7, <2>3, <2>4, <2>6, <2>7
<1>9. sum[0] = size[0]
  <2>1. L \in 0 .. L /\ L - L = 0
    BY <1>0
  <2> QED BY <1>8, <2>1
<1> QED BY <1>1, <1>4, <1>9

\* trp_tree_node_cnt answers how many nodes are under n.
LEMMA CountWalk ==
  ASSUME IInv, NEW n \in TreeNode
  PROVE  NodeCnt(n) = Cardinality(Under(n))
<1> DEFINE Fits(c) == c = [m \in TreeNode |-> Counted(m, c)]
           cnt == CHOOSE c : Fits(c)
           size == [m \in TreeNode |-> Cardinality(Under(m))]
<1>1. NodeCnt(n) = cnt[n]
  BY DEF NodeCnt
<1>0. \A m \in TreeNode : \A i \in Pos(m) : Nth(m, i) \in TreeNode
  BY ChildrenOf
<1>2. Fits(size)
  <2> SUFFICES ASSUME NEW m \in TreeNode
               PROVE  Cardinality(Under(m)) = Counted(m, size)
    OBVIOUS
  <2>1. \A i \in Pos(m) : size[Nth(m, i)] = Cardinality(Under(Nth(m, i)))
    BY <1>0
  <2> HIDE DEF size
  <2> QED BY <2>1, CountRound
<1>3. Fits(cnt)
  BY <1>2
<1>4. \A m \in TreeNode : cnt[m] = Counted(m, cnt)
  BY <1>3
<1> HIDE DEF cnt, Fits
<1> DEFINE W == {m \in TreeNode : cnt[m] # Cardinality(Under(m))}
           Sizes == {Cardinality(Under(m)) : m \in W}
<1>5. SUFFICES ASSUME W # {}
               PROVE  FALSE
  BY <1>1
<1>6. \A m \in TreeNode : IsFiniteSet(Under(m)) /\ Cardinality(Under(m)) \in Nat
  BY ChainFinite DEF Under
<1>7. Sizes \in SUBSET Nat /\ Sizes # {}
  BY <1>5, <1>6
<1>8. PICK k \in Sizes : \A j \in Sizes : ~ j < k
  BY <1>7, LeastNumber
<1>9. PICK m \in W : k = Cardinality(Under(m))
  OBVIOUS
<1>10. ASSUME NEW i \in Pos(m)
       PROVE  cnt[Nth(m, i)] = Cardinality(Under(Nth(m, i)))
  <2> DEFINE c == Nth(m, i)
  <2>1. c \in TreeNode
    BY <1>0
  <2>2. Under(c) \in SUBSET Under(m) /\ m \in Under(m) /\ m \notin Under(c)
    BY UnderChildren
  <2>3. Cardinality(Under(c)) <= Cardinality(Under(m))
        /\ (Cardinality(Under(m)) = Cardinality(Under(c)) => Under(m) = Under(c))
    BY <1>6, <2>2, FS_Subset
  <2>4. Cardinality(Under(c)) < k
    BY <1>6, <1>9, <2>1, <2>2, <2>3
  <2> HIDE DEF c
  <2>5. c \notin W
    BY <1>8, <2>4
  <2> QED BY <2>1, <2>5 DEF c
<1>11. Counted(m, cnt) = Cardinality(Under(m))
  BY <1>10, CountRound
<1> QED BY <1>4, <1>11

LEMMA WalksRight == IInv => WalksExact
<1> SUFFICES ASSUME IInv, NEW n \in made
             PROVE  /\ parent[Root(n)] = Undef /\ Above(Root(n), n)
                    /\ Level(n) = Cardinality({m \in made : Above(m, n)}) - 1
                    /\ NodeCnt(n) = Cardinality(Below(n))
  BY DEF WalksExact
<1>1. /\ made \in SUBSET TreeNode /\ n \in TreeNode /\ parent \in Parents
      /\ \A m \in TreeNode : parent[m] \in TreeNode => parent[m] \in made /\ m \in made
  BY UndefAssumption DEF IInv, TreeTypes, Parents
<1>2. Chain(n) = {m \in made : Above(m, n)}
  <2>1. Upward(made)
    BY <1>1 DEF Upward, Parents
  <2> QED BY <1>1, <2>1 DEF Chain, Above
<1>3. Under(n) = Below(n)
  <2>1. \A m \in Under(n) : m \in made
    BY <1>1, AboveParent DEF Under
  <2> QED BY <1>1, <2>1 DEF Under, Below
<1>4. parent[Root(n)] = Undef /\ Above(Root(n), n)
  BY <1>1, RootWalk DEF Chain
<1> QED BY <1>1, <1>2, <1>3, <1>4, LevelWalk, CountWalk

-----------------------------------------------------------------------------
(* The theorems. *)

LEMMA NextIInv == IInv /\ [TreeNext]_treeVars => IInv'
<1> SUFFICES ASSUME IInv, [TreeNext]_treeVars
             PROVE  IInv'
  OBVIOUS
<1>0. made \subseteq TreeNode
  BY DEF IInv, TreeTypes
<1>1. ASSUME NEW n \in TreeNode, NEW v \in Value \cup {Undef},
             NEW cs \in SeqOf(made \cup {Undef}, MaxChildren), Make(n, v, cs)
      PROVE  IInv'
  <2>1. cs \in Seq(made \cup {Undef})
    <3>1. PICK k \in 0 .. MaxChildren : cs \in [1 .. k -> made \cup {Undef}]
      BY DEF SeqOf
    <3>2. k \in Nat
      BY <3>1
    <3> QED BY <3>1, <3>2, SeqDef
  <2> QED BY <1>1, <2>1, MakeIInv
<1>2. ASSUME NEW n \in made, NEW v \in Value, TreeSet(n, v)
      PROVE  IInv'
  BY <1>0, <1>2, SetIInv
<1>3. ASSUME NEW n \in made, NEW c \in made, NEW i \in 0 .. Len(children[n]), Insert(n, i, c)
      PROVE  IInv'
  BY <1>3, InsertIInv
<1>4. ASSUME NEW n \in made, NEW i \in Pos(n), Detach(n, i)
      PROVE  IInv'
  BY <1>4, DetachIInv
<1>5. ASSUME NEW n \in made, NEW c \in made, NEW i \in Pos(n), Replace(n, i, c)
      PROVE  IInv'
  BY <1>5, ReplaceIInv
<1>6. ASSUME NEW n \in made, NEW i \in Pos(n), NEW j \in Pos(n), Swap(n, i, j)
      PROVE  IInv'
  BY <1>6, SwapIInv
<1>7. ASSUME NEW n \in made, NEW f \in Copies(n), Decode(n, f)
      PROVE  IInv'
  BY <1>7, DecodeIInv
<1>8. CASE UNCHANGED treeVars
  <2>1. TreeTypes'
    BY <1>8 DEF treeVars, IInv, TreeTypes
  <2>2. FamilyAgree' /\ Acyclic'
    BY <1>8 DEF treeVars, IInv, FamilyAgree, Acyclic
  <2> QED BY <2>1, <2>2 DEF IInv
<1> QED BY <1>1, <1>2, <1>3, <1>4, <1>5, <1>6, <1>7, <1>8 DEF TreeNext

\* The conjuncts of IInv together are inductive: a refused child, a detached
\* subtree and a decoded copy all leave parents and children in agreement.
THEOREM TreeInvariant == TreeSpec => []IInv
<1>1. TreeInit => IInv
  BY InitIInv
<1>2. IInv /\ [TreeNext]_treeVars => IInv'
  BY NextIInv
<1> QED BY <1>1, <1>2, PTL DEF TreeSpec

\* TreeTypes, for any nodes, values and arguments.
THEOREM TreeTypeOK == TreeSpec => []TreeTypes
<1>1. IInv => TreeTypes
  BY DEF IInv
<1> QED BY <1>1, TreeInvariant, PTL

\* The lookups of trp_tree_pos, trp_tree_detach and trp_tree_replace never fail.
THEOREM TreeFamilyAgree == TreeSpec => []FamilyAgree
<1>1. IInv => FamilyAgree
  BY DEF IInv
<1> QED BY <1>1, TreeInvariant, PTL

\* The walks up from a node end, for any number of nodes.
THEOREM TreeAcyclic == TreeSpec => []Acyclic
<1>1. IInv => Acyclic
  BY DEF IInv
<1> QED BY <1>1, TreeInvariant, PTL

\* The nodes are trees after any calls, refused ones included.
THEOREM TreeShapeKept == TreeSpec => []TreeShape
<1>1. FamilyAgree /\ Acyclic => TreeShape
  BY DEF TreeShape
<1> QED BY <1>1, TreeFamilyAgree, TreeAcyclic, PTL

\* The recursions for the root, the level and the number of nodes end, and answer
\* what the shape of the tree says, in any forest that calls can build.
THEOREM TreeWalksExact == TreeSpec => []WalksExact
<1>1. IInv => WalksExact
  BY WalksRight
<1> QED BY <1>1, TreeInvariant, PTL

\* The moves inside the array of children never change the order of two that stay.
THEOREM TreeOrderKept == TreeSpec => OrderKept
<1>1. IInv /\ [TreeNext]_treeVars
        => [\A n, a, b \in made :
              Before(children[n], a, b) /\ Before(children'[n], b, a)
                => \E i, j \in Pos(n) : {Nth(n, i), Nth(n, j)} \cap {a, b} # {} /\ Swap(n, i, j)]_treeVars
  BY OrderStep DEF Swapped
<1> QED BY <1>1, TreeInvariant, PTL DEF TreeSpec, OrderKept

-----------------------------------------------------------------------------
(* The size of a block *)

\* Lengths that leave room for a step in a word.
Lengths == {l \in Nat : \A i \in Increments : l + i <= Word}

\* What a call asks for is a length.
LEMMA LengthsAre ==
  /\ 0 .. MaxArgs \subseteq Lengths /\ 0 .. MaxLen \subseteq Lengths
  /\ \A l \in Lengths : l \in Nat /\ \A k \in 0 .. l : k \in Lengths
<1>1. MaxLen \in Nat /\ MaxArgs \in Nat /\ Increments \subseteq Nat /\ Word \in Nat
  BY ArrayAssumption
<1>2. \A k \in 0 .. MaxArgs, i \in Increments : k \in Nat /\ k + i <= Word
  BY <1>1, ArrayAssumption
<1>3. \A k \in 0 .. MaxLen, i \in Increments : k \in Nat /\ k + i <= Word
  BY <1>1, ArrayAssumption
<1>4. ASSUME NEW l \in Lengths, NEW k \in 0 .. l
      PROVE  k \in Lengths
  <2>1. l \in Nat /\ k \in Nat /\ k <= l
    BY DEF Lengths
  <2>2. ASSUME NEW i \in Increments PROVE k + i <= Word
    <3>1. l + i <= Word /\ i \in Nat
      BY <1>1 DEF Lengths
    <3> QED BY <1>1, <2>1, <3>1
  <2> QED BY <2>1, <2>2 DEF Lengths
<1>5. 0 .. MaxArgs \subseteq Lengths
  BY <1>2 DEF Lengths
<1>6. 0 .. MaxLen \subseteq Lengths
  BY <1>3 DEF Lengths
<1>7. \A l \in Lengths : l \in Nat
  BY DEF Lengths
<1> QED BY <1>4, <1>5, <1>6, <1>7

\* Multiples of i are in the order of their factors.
LEMMA Multiples ==
  ASSUME NEW p \in Int, NEW q \in Int, NEW i \in Nat \ {0}
  PROVE  /\ p * i \in Int /\ q * i \in Int
         /\ p <= q => p * i <= q * i
         /\ p * i < q * i + i => p <= q
<1>1. ASSUME p <= q PROVE p * i <= q * i
  <2>1. q - p \in Nat /\ q * i = p * i + (q - p) * i
    BY <1>1
  <2>2. (q - p) * i >= 0
    BY <2>1
  <2> QED BY <2>1, <2>2
<1>2. ASSUME p > q PROVE p * i >= q * i + i
  <2>1. p - q - 1 \in Nat /\ p * i = q * i + i + (p - q - 1) * i
    BY <1>2
  <2>2. (p - q - 1) * i >= 0
    BY <2>1
  <2> QED BY <2>1, <2>2
<1> QED BY <1>1, <1>2

\* trp_array_max rounds up to a multiple of the step.
LEMMA MaxIs ==
  ASSUME NEW l \in Lengths, NEW i \in Increments
  PROVE  \E q \in Nat : /\ ArrayMax(l, i) = q * i
                        /\ l <= q * i /\ q * i < l + i
<1>1. l \in Nat /\ i \in Nat \ {0} /\ Word \in Nat /\ l + i <= Word
  BY ArrayAssumption DEF Lengths
<1> DEFINE s == l + i - 1
           q == s \div i
           r == s % i
<1>2. s \in Nat /\ s % Word = s
  BY <1>1
<1>3. q \in Int /\ r \in 0 .. i - 1 /\ s = i * q + r
  BY <1>1, <1>2
<1>4. q \in Nat
  BY <1>1, <1>2
<1>5. ArrayMax(l, i) = q * i
  BY <1>2 DEF ArrayMax
<1> HIDE DEF q, r
<1>6. q * i = l + i - 1 - r
  BY <1>1, <1>3, <1>4
<1>7. l <= q * i /\ q * i < l + i
  BY <1>1, <1>3, <1>6
<1> QED BY <1>4, <1>5, <1>7

\* So the elements fit, no block is kept for none, a shorter array has no larger
\* block, and one that still fits has the same.
LEMMA MaxProperties ==
  ASSUME NEW l \in Lengths, NEW m \in Lengths, NEW i \in Increments
  PROVE  /\ ArrayMax(l, i) \in Nat /\ l <= ArrayMax(l, i)
         /\ ArrayMax(0, i) = 0
         /\ l <= m => ArrayMax(l, i) <= ArrayMax(m, i)
         /\ l > 0 /\ l <= m /\ m <= ArrayMax(l, i) => ArrayMax(m, i) = ArrayMax(l, i)
<1>1. l \in Nat /\ m \in Nat /\ 0 \in Lengths /\ i \in Nat \ {0}
  BY LengthsAre, ArrayAssumption
<1>2. PICK p \in Nat : ArrayMax(l, i) = p * i /\ l <= p * i /\ p * i < l + i
  BY MaxIs
<1>3. PICK q \in Nat : ArrayMax(m, i) = q * i /\ m <= q * i /\ q * i < m + i
  BY MaxIs
<1>4. PICK z \in Nat : ArrayMax(0, i) = z * i /\ 0 <= z * i /\ z * i < 0 + i
  BY <1>1, MaxIs
<1>5. p * i \in Nat /\ q * i \in Nat /\ 0 * i = 0
  BY <1>1, <1>2, <1>3
<1>6. z = 0
  <2>1. z * i < 0 * i + i
    BY <1>1, <1>4, <1>5
  <2> QED BY <1>1, <2>1, Multiples
<1>7. ASSUME l <= m PROVE p * i <= q * i
  <2>1. p * i < q * i + i
    BY <1>1, <1>2, <1>3, <1>5, <1>7
  <2> QED BY <1>1, <2>1, Multiples
<1>8. ASSUME l > 0, l <= m, m <= p * i PROVE q * i <= p * i
  <2>1. q * i < p * i + i
    BY <1>1, <1>3, <1>5, <1>8
  <2> QED BY <1>1, <2>1, Multiples
<1> QED BY <1>2, <1>3, <1>4, <1>5, <1>6, <1>7, <1>8

-----------------------------------------------------------------------------
(* The invariant *)

\* d is the block of an array of length l that grows by i.
IsBlock(d, l, i) ==
  /\ d \in [Places(ArrayMax(l, i)) -> Elem \cup {Blank}]
  /\ \A k \in Places(ArrayMax(l, i)) : d[k] = Blank <=> k >= l

ArrayInv ==
  /\ arrayLen \in [Array -> Lengths] /\ incr \in [Array -> Increments]
  /\ data = [a \in Array |-> data[a]]
  /\ \A a \in Array : IsBlock(data[a], arrayLen[a], incr[a])

\* The invariant is more than what the property says of blocks.
LEMMA InvGivesFits == ArrayInv => BlockFits
<1> SUFFICES ASSUME ArrayInv, NEW a \in Array
             PROVE  /\ DOMAIN data[a] = Places(ArrayMax(arrayLen[a], incr[a]))
                    /\ arrayLen[a] <= ArrayMax(arrayLen[a], incr[a])
                    /\ \A i \in DOMAIN data[a] : data[a][i] = Blank <=> i >= arrayLen[a]
  BY DEF BlockFits
<1>1. /\ IsBlock(data[a], arrayLen[a], incr[a])
      /\ arrayLen[a] \in Lengths /\ incr[a] \in Increments
  BY DEF ArrayInv
<1> QED BY <1>1, MaxProperties DEF IsBlock

\* An array that turns into one with a block of its own keeps the invariant.
LEMMA TurnsIs ==
  ASSUME ArrayInv, NEW a \in Array, NEW l \in Lengths, NEW i \in Increments, NEW d,
         IsBlock(d, l, i), Turns(a, l, i, d)
  PROVE  ArrayInv' /\ arrayLen'[a] = l /\ incr'[a] = i /\ data'[a] = d
<1>1. /\ arrayLen \in [Array -> Lengths] /\ incr \in [Array -> Increments]
      /\ data = [b \in Array |-> data[b]]
      /\ \A b \in Array : IsBlock(data[b], arrayLen[b], incr[b])
  BY DEF ArrayInv
<1>2. DOMAIN data = Array
  BY <1>1
<1>3. /\ arrayLen' = [arrayLen EXCEPT ![a] = l] /\ incr' = [incr EXCEPT ![a] = i]
      /\ data' = [data EXCEPT ![a] = d]
  BY DEF Turns
<1>4. /\ arrayLen' \in [Array -> Lengths] /\ incr' \in [Array -> Increments]
      /\ arrayLen'[a] = l /\ incr'[a] = i
      /\ \A b \in Array \ {a} : arrayLen'[b] = arrayLen[b] /\ incr'[b] = incr[b]
  BY <1>1, <1>3
<1>5. /\ data' = [b \in Array |-> data'[b]] /\ data'[a] = d
      /\ \A b \in Array \ {a} : data'[b] = data[b]
  BY <1>1, <1>2, <1>3
<1>6. ASSUME NEW b \in Array
      PROVE  IsBlock(data'[b], arrayLen'[b], incr'[b])
  <2>1. CASE b = a
    BY <1>4, <1>5, <2>1
  <2>2. CASE b # a
    BY <1>1, <1>4, <1>5, <2>2
  <2> QED BY <2>1, <2>2
<1>7. (\A b \in Array : IsBlock(data[b], arrayLen[b], incr[b]))'
  BY <1>6 DEF IsBlock
<1> QED BY <1>4, <1>5, <1>7 DEF ArrayInv

\* A block that is given back is one of length 0.
LEMMA NoBlockIs ==
  ASSUME NEW i \in Increments
  PROVE  0 \in Lengths /\ IsBlock(NoBlock, 0, i)
<1>1. 0 \in Lengths
  BY LengthsAre, ArrayAssumption
<1>2. ArrayMax(0, i) = 0
  BY <1>1, MaxProperties
<1>3. Places(ArrayMax(0, i)) = {}
  BY <1>2 DEF Places
<1>4. NoBlock \in [{} -> Elem \cup {Blank}]
  BY DEF NoBlock
<1> QED BY <1>1, <1>3, <1>4 DEF IsBlock

\* The elements of a block are a sequence.
LEMMA ElementsAre ==
  ASSUME NEW l \in Lengths, NEW i \in Increments, NEW d, IsBlock(d, l, i)
  PROVE  LET s == [k \in 1 .. l |-> d[k - 1]]
         IN  /\ s \in Seq(Elem) /\ Len(s) = l
             /\ \A k \in 1 .. l : s[k] = d[k - 1]
             /\ \A k \in 0 .. l - 1 : d[k] \in Elem
<1> DEFINE s == [k \in 1 .. l |-> d[k - 1]]
           m == ArrayMax(l, i)
<1>1. l \in Nat /\ m \in Nat /\ l <= m
  BY LengthsAre, MaxProperties
<1> HIDE DEF m
<1>2. /\ d \in [Places(m) -> Elem \cup {Blank}]
      /\ \A k \in Places(m) : d[k] = Blank <=> k >= l
  BY DEF IsBlock, m
<1>3. ASSUME NEW k \in 0 .. l - 1 PROVE d[k] \in Elem
  <2>1. k \in Places(m) /\ ~ k >= l
    BY <1>1 DEF Places
  <2> QED BY <1>2, <2>1
<1>4. \A k \in 1 .. l : d[k - 1] \in Elem
  <2>1. \A k \in 1 .. l : k - 1 \in 0 .. l - 1
    BY <1>1
  <2> QED BY <1>3, <2>1
<1>5. s \in [1 .. l -> Elem]
  BY <1>4
<1>6. s \in Seq(Elem) /\ Len(s) = l
  BY <1>1, <1>5
<1> QED BY <1>3, <1>6
-----------------------------------------------------------------------------
(* The calls *)

\* What the invariant says of one array.
LEMMA ArrayAt ==
  ASSUME ArrayInv, NEW a \in Array
  PROVE  LET s == Elements(a)
             l == arrayLen[a]
             m == ArrayMax(l, incr[a])
         IN  /\ l \in Lengths /\ l \in Nat /\ incr[a] \in Increments
             /\ m \in Nat /\ l <= m
             /\ s \in Seq(Elem) /\ Len(s) = l
             /\ \A k \in 1 .. l : s[k] = data[a][k - 1]
             /\ data[a] \in [Places(m) -> Elem \cup {Blank}]
             /\ \A k \in Places(m) : data[a][k] = Blank <=> k >= l
             /\ \A k \in 0 .. l - 1 : data[a][k] \in Elem
             /\ IsBlock(data[a], l, incr[a])
<1>1. /\ arrayLen[a] \in Lengths /\ incr[a] \in Increments
      /\ IsBlock(data[a], arrayLen[a], incr[a])
  BY DEF ArrayInv
<1>2. arrayLen[a] \in Nat
  BY <1>1, LengthsAre
<1>3. /\ ArrayMax(arrayLen[a], incr[a]) \in Nat /\ arrayLen[a] <= ArrayMax(arrayLen[a], incr[a])
  BY <1>1, MaxProperties
<1>4. /\ Elements(a) \in Seq(Elem) /\ Len(Elements(a)) = arrayLen[a]
      /\ \A k \in 1 .. arrayLen[a] : Elements(a)[k] = data[a][k - 1]
      /\ \A k \in 0 .. arrayLen[a] - 1 : data[a][k] \in Elem
  BY <1>1, ElementsAre DEF Elements
<1> QED BY <1>1, <1>2, <1>3, <1>4 DEF IsBlock

\* After a call, the elements are those of the new block.
LEMMA ElementsAfter ==
  ASSUME ArrayInv, NEW a \in Array, NEW l \in Lengths, NEW i \in Increments, NEW d,
         IsBlock(d, l, i), Turns(a, l, i, d)
  PROVE  /\ ArrayInv'
         /\ Elements(a)' \in Seq(Elem) /\ Len(Elements(a)') = l
         /\ \A k \in 1 .. l : Elements(a)'[k] = d[k - 1]
<1>1. ArrayInv' /\ arrayLen'[a] = l /\ data'[a] = d
  BY TurnsIs
<1> DEFINE s == [k \in 1 .. l |-> d[k - 1]]
<1>2. Elements(a)' = s
  BY <1>1 DEF Elements
<1>3. s \in Seq(Elem) /\ Len(s) = l /\ \A k \in 1 .. l : s[k] = d[k - 1]
  BY ElementsAre
<1> HIDE DEF s
<1> QED BY <1>1, <1>2, <1>3

\* Some elements of a sequence.
LEMMA SomeElements ==
  ASSUME NEW s \in Seq(Elem), NEW m \in Nat \ {0}, NEW n \in Nat, n <= Len(s), m <= n + 1
  PROVE  /\ SubSeq(s, m, n) \in Seq(Elem) /\ Len(SubSeq(s, m, n)) = n - m + 1
         /\ \A k \in 1 .. n - m + 1 : SubSeq(s, m, n)[k] = s[m + k - 1]
<1>1. \A k \in m .. n : s[k] \in Elem
  OBVIOUS
<1> QED BY <1>1, SubSeqProperties

\* Equal lengths and elements make equal sequences.
LEMMA SameSequence ==
  ASSUME NEW s \in Seq(Elem), NEW t \in Seq(Elem), NEW l \in Nat, Len(s) = l, Len(t) = l,
         \A k \in 1 .. l : s[k] = t[k]
  PROVE  s = t
BY SeqEqual

LEMMA InsertIs ==
  ASSUME ArrayInv, NEW a \in Array, NEW n \in 0 .. arrayLen[a], NEW xs \in Seq(Elem), xs # <<>>,
         arrayLen[a] + Len(xs) \in Lengths, ArrayInsert(a, n, xs)
  PROVE  /\ ArrayInv'
         /\ LET s == Elements(a)
            IN  Elements(a)' = SubSeq(s, 1, n) \o xs \o SubSeq(s, n + 1, Len(s))
<1> DEFINE s == Elements(a)
           l == arrayLen[a]
           i == incr[a]
           c == Len(xs)
           m == ArrayMax(l, i)
           size == IF l = 0 \/ c > m - l THEN ArrayMax(l + c, i) ELSE m
           d == [k \in Places(size) |-> IF k < n THEN data[a][k]
                                        ELSE IF k < n + c THEN xs[k - n + 1]
                                        ELSE IF k < l + c THEN data[a][k - c]
                                        ELSE IF l > 0 /\ k < m THEN data[a][k] ELSE Blank]
<1>1. /\ l \in Lengths /\ l \in Nat /\ i \in Increments /\ m \in Nat /\ l <= m
      /\ s \in Seq(Elem) /\ Len(s) = l
      /\ \A k \in 1 .. l : s[k] = data[a][k - 1]
      /\ data[a] \in [Places(m) -> Elem \cup {Blank}]
      /\ \A k \in Places(m) : data[a][k] = Blank <=> k >= l
      /\ \A k \in 0 .. l - 1 : data[a][k] \in Elem
  BY ArrayAt
<1>2. c \in Nat /\ c > 0 /\ n \in Nat /\ n <= l
  BY <1>1
<1>3. size = ArrayMax(l + c, i) /\ size \in Nat /\ l + c <= size
  <2>1. ArrayMax(l + c, i) \in Nat /\ l + c <= ArrayMax(l + c, i)
    BY <1>1, MaxProperties
  <2>2. l > 0 /\ l <= l + c /\ l + c <= m => ArrayMax(l + c, i) = m
    BY <1>1, MaxProperties
  <2> QED BY <1>1, <1>2, <2>1, <2>2
<1>4. Turns(a, l + c, i, d)
  BY DEF ArrayInsert
<1>5. Blank \notin Elem
  BY ArrayAssumption
<1>6. \A k \in 1 .. c : xs[k] \in Elem
  OBVIOUS
<1> HIDE DEF size, m
<1>7. ASSUME NEW k \in Places(size)
      PROVE  d[k] \in Elem \cup {Blank} /\ (d[k] = Blank <=> k >= l + c)
  <2>1. k \in Nat /\ k < size
    BY <1>3 DEF Places
  <2>2. CASE k < n
    <3>1. k \in 0 .. l - 1 /\ ~ k >= l + c
      BY <1>1, <1>2, <2>1, <2>2
    <3> QED BY <1>1, <1>5, <2>2, <3>1
  <2>3. CASE k >= n /\ k < n + c
    <3>1. k - n + 1 \in 1 .. c /\ ~ k >= l + c /\ ~ k < n
      BY <1>1, <1>2, <2>1, <2>3
    <3>2. d[k] = xs[k - n + 1]
      BY <2>3, <3>1
    <3> QED BY <1>5, <1>6, <3>1, <3>2
  <2>4. CASE k >= n + c /\ k < l + c
    <3>1. k - c \in 0 .. l - 1 /\ ~ k >= l + c /\ ~ k < n /\ ~ k < n + c
      BY <1>1, <1>2, <2>1, <2>4
    <3>2. d[k] = data[a][k - c]
      BY <2>4, <3>1
    <3> QED BY <1>1, <1>5, <3>1, <3>2
  <2>5. CASE k >= l + c
    <3>1. ~ k < n /\ ~ k < n + c /\ ~ k < l + c /\ k >= l
      BY <1>1, <1>2, <2>1, <2>5
    <3>2. d[k] = IF l > 0 /\ k < m THEN data[a][k] ELSE Blank
      BY <3>1
    <3>3. k < m => k \in Places(m)
      BY <1>1, <2>1 DEF Places
    <3> QED BY <1>1, <2>5, <3>1, <3>2, <3>3
  <2> QED BY <1>1, <1>2, <2>1, <2>2, <2>3, <2>4, <2>5
<1>8. IsBlock(d, l + c, i)
  BY <1>3, <1>7 DEF IsBlock
<1>9. /\ ArrayInv'
      /\ Elements(a)' \in Seq(Elem) /\ Len(Elements(a)') = l + c
      /\ \A k \in 1 .. l + c : Elements(a)'[k] = d[k - 1]
  <2> HIDE DEF d
  <2> QED BY <1>1, <1>4, <1>8, ElementsAfter
<1> DEFINE u == SubSeq(s, 1, n)
           v == SubSeq(s, n + 1, Len(s))
<1>10. /\ u \in Seq(Elem) /\ Len(u) = n
       /\ \A k \in 1 .. n : u[k] = s[k]
  <2>1. /\ u \in Seq(Elem) /\ Len(u) = n - 1 + 1
        /\ \A k \in 1 .. n - 1 + 1 : u[k] = s[1 + k - 1]
    BY <1>1, <1>2, SomeElements
  <2> QED BY <1>2, <2>1
<1>11. /\ v \in Seq(Elem) /\ Len(v) = l - n
       /\ \A k \in 1 .. l - n : v[k] = s[n + k]
  <2>1. /\ v \in Seq(Elem) /\ Len(v) = l - (n + 1) + 1
        /\ \A k \in 1 .. l - (n + 1) + 1 : v[k] = s[(n + 1) + k - 1]
    BY <1>1, <1>2, SomeElements
  <2> QED BY <1>1, <1>2, <2>1
<1> HIDE DEF s, u, v, d
<1> DEFINE ux == u \o xs
           t == ux \o v
<1>12. /\ ux \in Seq(Elem) /\ Len(ux) = n + c
       /\ \A k \in 1 .. n + c : ux[k] = IF k <= n THEN u[k] ELSE xs[k - n]
  BY <1>10, ConcatProperties
<1> HIDE DEF ux
<1>13. /\ t \in Seq(Elem) /\ Len(t) = l + c
       /\ \A k \in 1 .. l + c : t[k] = IF k <= n + c THEN ux[k] ELSE v[k - (n + c)]
  <2>1. n + c + (l - n) = l + c
    BY <1>1, <1>2
  <2>2. /\ t \in Seq(Elem) /\ Len(t) = Len(ux) + Len(v)
        /\ \A k \in 1 .. Len(ux) + Len(v) : t[k] = IF k <= Len(ux) THEN ux[k] ELSE v[k - Len(ux)]
    BY <1>11, <1>12, ConcatProperties
  <2> HIDE DEF t
  <2> QED BY <1>11, <1>12, <2>1, <2>2
<1> HIDE DEF t
<1>14. ASSUME NEW k \in 1 .. l + c
       PROVE  d[k - 1] = t[k]
  <2>1. k - 1 \in Places(size) /\ k \in Nat
    BY <1>1, <1>2, <1>3 DEF Places
  <2>2. CASE k <= n
    <3>1. k - 1 < n /\ k \in 1 .. n /\ k \in 1 .. n + c /\ k \in 1 .. l /\ k <= n + c
      BY <1>1, <1>2, <2>1, <2>2
    <3>2. d[k - 1] = data[a][k - 1]
      BY <2>1, <3>1 DEF d
    <3> QED BY <1>1, <1>10, <1>12, <1>13, <2>2, <3>1, <3>2
  <2>3. CASE k > n /\ k <= n + c
    <3>1. /\ ~ k - 1 < n /\ k - 1 < n + c /\ (k - 1) - n + 1 = k - n /\ ~ k <= n
          /\ k \in 1 .. n + c
      BY <1>1, <1>2, <2>1, <2>3
    <3>2. d[k - 1] = xs[k - n]
      BY <2>1, <3>1 DEF d
    <3> QED BY <1>12, <1>13, <2>3, <3>1, <3>2
  <2>4. CASE k > n + c
    <3>1. /\ ~ k - 1 < n /\ ~ k - 1 < n + c /\ k - 1 < l + c /\ ~ k <= n + c
          /\ k - (n + c) \in 1 .. l - n /\ n + (k - (n + c)) = k - c /\ k - c \in 1 .. l
          /\ (k - c) - 1 = (k - 1) - c
      BY <1>1, <1>2, <2>1, <2>4
    <3>2. d[k - 1] = data[a][(k - 1) - c]
      BY <2>1, <3>1 DEF d
    <3>3. t[k] = s[k - c]
      BY <1>11, <1>13, <3>1
    <3> QED BY <1>1, <3>1, <3>2, <3>3
  <2> QED BY <1>1, <1>2, <2>1, <2>2, <2>3, <2>4
<1>15. Elements(a)' = t
  <2>1. l + c \in Nat /\ \A k \in 1 .. l + c : Elements(a)'[k] = t[k]
    BY <1>1, <1>2, <1>9, <1>14
  <2> QED BY <1>9, <1>13, <2>1, SameSequence
<1> QED BY <1>9, <1>15 DEF t, ux, u, v, s
\* What a slice is.
LEMMA SliceIs ==
  ASSUME NEW s \in Seq(Elem), NEW i \in Nat, NEW c \in Nat
  PROVE  LET l == IF i >= Len(s) THEN 0 ELSE IF i + c < Len(s) THEN c ELSE Len(s) - i
         IN  /\ l \in Nat /\ Slice(s, i, c) \in Seq(Elem) /\ Len(Slice(s, i, c)) = l
             /\ \A k \in 1 .. l : Slice(s, i, c)[k] = s[i + k]
<1> DEFINE l == IF i >= Len(s) THEN 0 ELSE IF i + c < Len(s) THEN c ELSE Len(s) - i
           n == IF i + c < Len(s) THEN i + c ELSE Len(s)
           t == SubSeq(s, i + 1, n)
<1>1. Len(s) \in Nat /\ n \in Nat /\ n <= Len(s) /\ l \in Nat
  OBVIOUS
<1>2. \A k \in i + 1 .. n : s[k] \in Elem
  <2>1. \A k \in i + 1 .. n : k \in 1 .. Len(s)
    BY <1>1
  <2> QED BY <2>1
<1>3. /\ t \in Seq(Elem) /\ Len(t) = IF i + 1 <= n THEN n - (i + 1) + 1 ELSE 0
      /\ \A k \in 1 .. n - (i + 1) + 1 : t[k] = s[i + 1 + k - 1]
  <2> HIDE DEF n
  <2> QED BY <1>1, <1>2, SubSeqProperties
<1> HIDE DEF t
<1>4. Len(t) = l
  BY <1>1, <1>3
<1>5. ASSUME NEW k \in 1 .. l
      PROVE  t[k] = s[i + k]
  <2>1. k \in 1 .. n - (i + 1) + 1 /\ i + 1 + k - 1 = i + k
    BY <1>1
  <2> QED BY <1>3, <2>1
<1>6. Slice(s, i, c) = t
  BY DEF Slice, t
<1> QED BY <1>1, <1>3, <1>4, <1>5, <1>6

LEMMA RemoveIs ==
  ASSUME ArrayInv, NEW a \in Array, NEW n \in 0 .. arrayLen[a] - 1, NEW cnt \in Nat \ {0},
         ArrayRemove(a, n, cnt)
  PROVE  /\ ArrayInv'
         /\ LET s == Elements(a)
            IN  Elements(a)' = Slice(s, 0, n) \o Slice(s, n + cnt, Len(s))
<1> DEFINE s == Elements(a)
           i == incr[a]
           m == ArrayMax(arrayLen[a], i)
           c == IF cnt < arrayLen[a] - n THEN cnt ELSE arrayLen[a] - n
           l == arrayLen[a] - c
           size == ArrayMax(l, i)
           f == [k \in Places(size) |-> IF k < n THEN data[a][k]
                                        ELSE IF k < l THEN data[a][k + c]
                                        ELSE IF k < l + c THEN Blank ELSE data[a][k]]
           d == IF l = 0 THEN NoBlock ELSE f
<1>1. /\ arrayLen[a] \in Lengths /\ arrayLen[a] \in Nat /\ i \in Increments
      /\ m \in Nat /\ arrayLen[a] <= m
      /\ s \in Seq(Elem) /\ Len(s) = arrayLen[a]
      /\ \A k \in 1 .. arrayLen[a] : s[k] = data[a][k - 1]
      /\ data[a] \in [Places(m) -> Elem \cup {Blank}]
      /\ \A k \in Places(m) : data[a][k] = Blank <=> k >= arrayLen[a]
      /\ \A k \in 0 .. arrayLen[a] - 1 : data[a][k] \in Elem
  BY ArrayAt
<1>2. n \in Nat /\ n < arrayLen[a] /\ c \in Nat /\ c > 0 /\ l \in Nat /\ n <= l /\ l <= arrayLen[a]
  BY <1>1
<1>3. l \in Lengths
  <2>1. l \in 0 .. arrayLen[a]
    BY <1>1, <1>2
  <2> QED BY <1>1, <2>1, LengthsAre
<1>4. size \in Nat /\ l <= size /\ size <= m
  BY <1>1, <1>2, <1>3, MaxProperties
<1>5. Turns(a, l, i, d)
  BY DEF ArrayRemove
<1>6. Blank \notin Elem
  BY ArrayAssumption
<1>7. l + c = arrayLen[a]
  BY <1>1, <1>2
<1> HIDE DEF size, m, l
<1>8. ASSUME NEW k \in Places(size)
      PROVE  f[k] \in Elem \cup {Blank} /\ (f[k] = Blank <=> k >= l)
  <2>1. k \in Nat /\ k < size /\ k \in Places(m)
    BY <1>1, <1>4 DEF Places
  <2>2. CASE k < n
    <3>1. k \in 0 .. arrayLen[a] - 1 /\ ~ k >= l
      BY <1>1, <1>2, <2>1, <2>2
    <3> QED BY <1>1, <1>6, <2>2, <3>1
  <2>3. CASE k >= n /\ k < l
    <3>1. k + c \in 0 .. arrayLen[a] - 1 /\ ~ k >= l /\ ~ k < n
      BY <1>1, <1>2, <1>7, <2>1, <2>3
    <3>2. f[k] = data[a][k + c]
      BY <2>3, <3>1
    <3> QED BY <1>1, <1>6, <3>1, <3>2
  <2>4. CASE k >= l
    <3>1. ~ k < n /\ ~ k < l
      BY <1>2, <2>1, <2>4
    <3>2. f[k] = IF k < arrayLen[a] THEN Blank ELSE data[a][k]
      BY <1>7, <3>1
    <3> QED BY <1>1, <2>1, <2>4, <3>2
  <2> QED BY <1>2, <2>1, <2>2, <2>3, <2>4
<1>9. IsBlock(d, l, i)
  <2>1. CASE l = 0
    BY <1>1, <2>1, NoBlockIs
  <2>2. CASE l # 0
    <3>1. d = f
      BY <2>2
    <3> HIDE DEF d
    <3> QED BY <1>8, <3>1 DEF IsBlock, size
  <2> QED BY <2>1, <2>2
<1>10. /\ ArrayInv'
       /\ Elements(a)' \in Seq(Elem) /\ Len(Elements(a)') = l
       /\ \A k \in 1 .. l : Elements(a)'[k] = d[k - 1]
  <2> HIDE DEF d
  <2> QED BY <1>1, <1>3, <1>5, <1>9, ElementsAfter
<1> DEFINE u == Slice(s, 0, n)
           v == Slice(s, n + cnt, Len(s))
           t == u \o v
<1>0. s \in Seq(Elem)
  BY <1>1
<1>11. u \in Seq(Elem) /\ Len(u) = n /\ \A k \in 1 .. n : u[k] = s[k]
  <2> HIDE DEF s
  <2> DEFINE e == IF 0 >= Len(s) THEN 0 ELSE IF 0 + n < Len(s) THEN n ELSE Len(s) - 0
  <2>1. u \in Seq(Elem) /\ Len(u) = e /\ \A k \in 1 .. e : u[k] = s[0 + k]
    <3> DEFINE z == 0
    <3>1. z \in Nat /\ z = 0 /\ n \in Nat
      OBVIOUS
    <3> HIDE DEF z
    <3>2. LET e0 == IF z >= Len(s) THEN 0 ELSE IF z + n < Len(s) THEN n ELSE Len(s) - z
          IN  /\ Slice(s, z, n) \in Seq(Elem) /\ Len(Slice(s, z, n)) = e0
              /\ \A k \in 1 .. e0 : Slice(s, z, n)[k] = s[z + k]
      BY <1>0, <3>1, SliceIs
    <3> QED BY <3>1, <3>2
  <2>2. e = n
    BY <1>1, <1>2
  <2>3. \A k \in 1 .. n : 0 + k = k
    BY <1>2
  <2> HIDE DEF e, u
  <2> QED BY <2>1, <2>2, <2>3
<1>12. v \in Seq(Elem) /\ Len(v) = l - n /\ \A k \in 1 .. l - n : v[k] = s[n + c + k]
  <2> DEFINE e == IF n + cnt >= Len(s) THEN 0
                  ELSE IF n + cnt + Len(s) < Len(s) THEN Len(s) ELSE Len(s) - (n + cnt)
  <2> HIDE DEF s
  <2>1. v \in Seq(Elem) /\ Len(v) = e /\ \A k \in 1 .. e : v[k] = s[n + cnt + k]
    <3> DEFINE p == n + cnt
               q == Len(s)
    <3>1. p \in Nat /\ q \in Nat
      BY <1>1, <1>2
    <3> HIDE DEF p, q
    <3>2. LET e0 == IF p >= Len(s) THEN 0 ELSE IF p + q < Len(s) THEN q ELSE Len(s) - p
          IN  /\ Slice(s, p, q) \in Seq(Elem) /\ Len(Slice(s, p, q)) = e0
              /\ \A k \in 1 .. e0 : Slice(s, p, q)[k] = s[p + k]
      BY <1>0, <3>1, SliceIs
    <3> QED BY <3>2 DEF p, q
  <2>2. e = l - n
    BY <1>1, <1>2 DEF l
  <2>3. e > 0 => c = cnt
    BY <1>1, <1>2
  <2> HIDE DEF e, v, c
  <2>4. ASSUME NEW k \in 1 .. l - n PROVE v[k] = s[n + c + k]
    <3>1. k \in 1 .. e /\ e > 0
      BY <1>2, <2>2
    <3> QED BY <2>1, <2>3, <3>1
  <2> QED BY <2>1, <2>2, <2>4
<1> HIDE DEF s, u, v, d, c
<1>13. /\ t \in Seq(Elem) /\ Len(t) = l
       /\ \A k \in 1 .. l : t[k] = IF k <= n THEN u[k] ELSE v[k - n]
  <2>1. n + (l - n) = l
    BY <1>2
  <2>2. /\ t \in Seq(Elem) /\ Len(t) = Len(u) + Len(v)
        /\ \A k \in 1 .. Len(u) + Len(v) : t[k] = IF k <= Len(u) THEN u[k] ELSE v[k - Len(u)]
    BY <1>11, <1>12, ConcatProperties
  <2> HIDE DEF t
  <2> QED BY <1>11, <1>12, <2>1, <2>2
<1> HIDE DEF t
<1>14. ASSUME NEW k \in 1 .. l
       PROVE  d[k - 1] = t[k]
  <2>1. k - 1 \in Places(size) /\ k \in Nat /\ l # 0 /\ k - 1 < l
    BY <1>2, <1>4 DEF Places
  <2>2. d[k - 1] = IF k - 1 < n THEN data[a][k - 1] ELSE data[a][(k - 1) + c]
    BY <2>1 DEF d
  <2>3. CASE k <= n
    <3>1. k - 1 < n /\ k \in 1 .. n /\ k \in 1 .. arrayLen[a]
      BY <1>1, <1>2, <2>1, <2>3
    <3> QED BY <1>1, <1>11, <1>13, <2>2, <2>3, <3>1
  <2>4. CASE k > n
    <3>1. /\ ~ k - 1 < n /\ ~ k <= n /\ k - n \in 1 .. l - n /\ n + c + (k - n) = k + c
          /\ k + c \in 1 .. arrayLen[a] /\ (k + c) - 1 = (k - 1) + c
      BY <1>1, <1>2, <1>7, <2>1, <2>4
    <3>2. t[k] = s[k + c]
      BY <1>12, <1>13, <3>1
    <3> QED BY <1>1, <2>2, <3>1, <3>2
  <2> QED BY <1>2, <2>1, <2>3, <2>4
<1>15. Elements(a)' = t
  <2>1. \A k \in 1 .. l : Elements(a)'[k] = t[k]
    BY <1>10, <1>14
  <2> QED BY <1>2, <1>10, <1>13, <2>1, SameSequence
<1> QED BY <1>10, <1>15 DEF t, u, v, s

LEMMA SubIs ==
  ASSUME ArrayInv, NEW b \in Array, NEW a \in Array, NEW start \in 0 .. arrayLen[a], NEW cnt \in Nat,
         ArraySub(b, a, start, cnt)
  PROVE  ArrayInv' /\ Elements(b)' = Slice(Elements(a), start, cnt)
<1> DEFINE s == Elements(a)
           i == incr[a]
           m == ArrayMax(arrayLen[a], i)
           l == IF cnt < arrayLen[a] - start THEN cnt ELSE arrayLen[a] - start
           size == ArrayMax(l, i)
           f == [k \in Places(size) |-> IF k < l THEN data[a][start + k] ELSE Blank]
           d == IF l = 0 THEN NoBlock ELSE f
           t == Slice(s, start, cnt)
<1>1. /\ arrayLen[a] \in Lengths /\ arrayLen[a] \in Nat /\ i \in Increments
      /\ s \in Seq(Elem) /\ Len(s) = arrayLen[a]
      /\ \A k \in 1 .. arrayLen[a] : s[k] = data[a][k - 1]
      /\ \A k \in 0 .. arrayLen[a] - 1 : data[a][k] \in Elem
  BY ArrayAt
<1>2. start \in Nat /\ start <= arrayLen[a] /\ l \in Nat /\ start + l <= arrayLen[a]
  BY <1>1
<1>3. l \in Lengths
  <2>1. l \in 0 .. arrayLen[a]
    BY <1>1, <1>2
  <2> QED BY <1>1, <2>1, LengthsAre
<1>4. size \in Nat /\ l <= size
  BY <1>1, <1>3, MaxProperties
<1>5. Turns(b, l, i, d)
  BY DEF ArraySub
<1>6. t \in Seq(Elem) /\ Len(t) = l /\ \A k \in 1 .. l : t[k] = s[start + k]
  <2> DEFINE e == IF start >= Len(s) THEN 0 ELSE IF start + cnt < Len(s) THEN cnt ELSE Len(s) - start
  <2>1. t \in Seq(Elem) /\ Len(t) = e /\ \A k \in 1 .. e : t[k] = s[start + k]
    BY <1>1, <1>2, SliceIs
  <2>2. e = l
    BY <1>1, <1>2
  <2> QED BY <2>1, <2>2
<1>7. Blank \notin Elem
  BY ArrayAssumption
<1> HIDE DEF size, l, t, s
<1>8. ASSUME NEW k \in Places(size)
      PROVE  f[k] \in Elem \cup {Blank} /\ (f[k] = Blank <=> k >= l)
  <2>1. k \in Nat /\ k < size
    BY <1>4 DEF Places
  <2>2. CASE k < l
    <3>1. start + k \in 0 .. arrayLen[a] - 1 /\ ~ k >= l
      BY <1>1, <1>2, <2>1, <2>2
    <3> QED BY <1>1, <1>7, <2>2, <3>1
  <2>3. CASE k >= l
    BY <1>2, <2>1, <2>3
  <2> QED BY <1>2, <2>1, <2>2, <2>3
<1>9. IsBlock(d, l, i)
  <2>1. CASE l = 0
    BY <1>1, <2>1, NoBlockIs
  <2>2. CASE l # 0
    <3>1. d = f
      BY <2>2
    <3> HIDE DEF d
    <3> QED BY <1>8, <3>1 DEF IsBlock, size
  <2> QED BY <2>1, <2>2
<1>10. ASSUME NEW k \in 1 .. l
       PROVE  d[k - 1] = t[k]
  <2>1. /\ k - 1 \in Places(size) /\ l # 0 /\ k - 1 < l
        /\ start + k \in 1 .. arrayLen[a] /\ (start + k) - 1 = start + (k - 1)
    BY <1>1, <1>2, <1>4 DEF Places
  <2>2. d[k - 1] = data[a][start + (k - 1)]
    BY <2>1
  <2> QED BY <1>1, <1>6, <2>1, <2>2
<1> HIDE DEF d
<1>11. /\ ArrayInv'
       /\ Elements(b)' \in Seq(Elem) /\ Len(Elements(b)') = l
       /\ \A k \in 1 .. l : Elements(b)'[k] = d[k - 1]
  BY <1>1, <1>3, <1>5, <1>9, ElementsAfter
<1>12. Elements(b)' = t
  <2>1. \A k \in 1 .. l : Elements(b)'[k] = t[k]
    BY <1>10, <1>11
  <2> QED BY <1>2, <1>6, <1>11, <2>1, SameSequence
<1> QED BY <1>11, <1>12 DEF t, s
LEMMA NewIs ==
  ASSUME ArrayInv, NEW a \in Array, NEW v \in Elem, NEW i \in Increments, NEW l \in Lengths,
         ArrayNew(a, v, i, l)
  PROVE  ArrayInv'
<1> DEFINE f == [k \in Places(ArrayMax(l, i)) |-> IF k < l THEN v ELSE Blank]
           d == IF l = 0 THEN NoBlock ELSE f
<1>1. l \in Nat /\ ArrayMax(l, i) \in Nat /\ Blank \notin Elem
  BY LengthsAre, MaxProperties, ArrayAssumption
<1>2. ASSUME NEW k \in Places(ArrayMax(l, i))
      PROVE  f[k] \in Elem \cup {Blank} /\ (f[k] = Blank <=> k >= l)
  <2>1. k \in Nat
    BY <1>1 DEF Places
  <2> QED BY <1>1, <2>1
<1>3. IsBlock(d, l, i)
  <2>1. CASE l = 0
    BY <2>1, NoBlockIs
  <2>2. CASE l # 0
    BY <1>2, <2>2 DEF IsBlock
  <2> QED BY <2>1, <2>2
<1>4. Turns(a, l, i, d)
  BY DEF ArrayNew
<1> HIDE DEF d
<1> QED BY <1>3, <1>4, TurnsIs

\* A block whose elements are exchanged for others is one still.
LEMMA OtherElements ==
  ASSUME ArrayInv, NEW a \in Array, NEW d, DOMAIN d = DOMAIN data[a], d = [k \in DOMAIN d |-> d[k]],
         \A k \in 0 .. arrayLen[a] - 1 : d[k] \in Elem,
         \A k \in DOMAIN d : k >= arrayLen[a] => d[k] = data[a][k],
         Turns(a, arrayLen[a], incr[a], d)
  PROVE  ArrayInv'
<1> DEFINE l == arrayLen[a]
           m == ArrayMax(l, incr[a])
<1>1. /\ l \in Lengths /\ l \in Nat /\ incr[a] \in Increments /\ m \in Nat /\ l <= m
      /\ data[a] \in [Places(m) -> Elem \cup {Blank}]
      /\ \A k \in Places(m) : data[a][k] = Blank <=> k >= l
  BY ArrayAt
<1>2. Blank \notin Elem
  BY ArrayAssumption
<1> HIDE DEF m
<1>3. DOMAIN d = Places(m)
  BY <1>1
<1>4. ASSUME NEW k \in Places(m)
      PROVE  d[k] \in Elem \cup {Blank} /\ (d[k] = Blank <=> k >= l)
  <2>1. k \in Nat
    BY <1>1 DEF Places
  <2>2. k < l => k \in 0 .. l - 1
    BY <1>1, <2>1
  <2> QED BY <1>1, <1>2, <1>3, <2>1, <2>2
<1>5. d \in [Places(m) -> Elem \cup {Blank}]
  BY <1>3, <1>4
<1>6. IsBlock(d, l, incr[a])
  BY <1>4, <1>5 DEF IsBlock, m
<1> QED BY <1>1, <1>6, TurnsIs

LEMMA SetIs ==
  ASSUME ArrayInv, NEW a \in Array, NEW n \in 0 .. arrayLen[a] - 1, NEW v \in Elem, ArraySet(a, n, v)
  PROVE  ArrayInv'
<1> DEFINE d == [data[a] EXCEPT ![n] = v]
<1>1. /\ arrayLen[a] \in Nat /\ \A k \in 0 .. arrayLen[a] - 1 : data[a][k] \in Elem
      /\ arrayLen[a] <= ArrayMax(arrayLen[a], incr[a]) /\ ArrayMax(arrayLen[a], incr[a]) \in Nat
      /\ DOMAIN data[a] = Places(ArrayMax(arrayLen[a], incr[a]))
  BY ArrayAt
<1>2. \A k \in 0 .. arrayLen[a] - 1 : k \in DOMAIN data[a]
  BY <1>1 DEF Places
<1>3. DOMAIN d = DOMAIN data[a] /\ d = [k \in DOMAIN d |-> d[k]]
  OBVIOUS
<1>4. \A k \in 0 .. arrayLen[a] - 1 : d[k] \in Elem
  BY <1>1, <1>2
<1>5. \A k \in DOMAIN d : k >= arrayLen[a] => d[k] = data[a][k]
  BY <1>1
<1>6. Turns(a, arrayLen[a], incr[a], d)
  BY DEF ArraySet
<1> HIDE DEF d
<1> QED BY <1>3, <1>4, <1>5, <1>6, OtherElements

LEMMA SortIs ==
  ASSUME ArrayInv, NEW a \in Array, ArraySort(a)
  PROVE  ArrayInv'
<1>1. PICK d \in Arranged(data[a], arrayLen[a]) : Turns(a, arrayLen[a], incr[a], d)
  BY DEF ArraySort
<1>2. PICK e \in [Places(arrayLen[a]) -> {data[a][k] : k \in Places(arrayLen[a])}] :
        d = [k \in DOMAIN data[a] |-> IF k < arrayLen[a] THEN e[k] ELSE data[a][k]]
  BY <1>1 DEF Arranged
<1>3. \A k \in Places(arrayLen[a]) : \E j \in Places(arrayLen[a]) : e[k] = data[a][j]
  OBVIOUS
<1>4. /\ arrayLen[a] \in Nat /\ \A k \in 0 .. arrayLen[a] - 1 : data[a][k] \in Elem
      /\ arrayLen[a] <= ArrayMax(arrayLen[a], incr[a]) /\ ArrayMax(arrayLen[a], incr[a]) \in Nat
      /\ DOMAIN data[a] = Places(ArrayMax(arrayLen[a], incr[a]))
  BY ArrayAt
<1>5. DOMAIN d = DOMAIN data[a] /\ d = [k \in DOMAIN d |-> d[k]]
  BY <1>2
<1>6. ASSUME NEW k \in 0 .. arrayLen[a] - 1
      PROVE  d[k] \in Elem
  <2>1. k \in DOMAIN data[a] /\ k < arrayLen[a] /\ k \in Places(arrayLen[a])
    BY <1>4 DEF Places
  <2>2. PICK j \in Places(arrayLen[a]) : e[k] = data[a][j]
    BY <1>3, <2>1
  <2>3. e[k] \in Elem
    BY <1>4, <2>2 DEF Places
  <2> QED BY <1>2, <2>1, <2>3
<1>7. ASSUME NEW k \in DOMAIN d, k >= arrayLen[a]
      PROVE  d[k] = data[a][k]
  <2>1. k \in DOMAIN data[a] /\ ~ k < arrayLen[a]
    BY <1>4, <1>5, <1>7 DEF Places
  <2> QED BY <1>2, <2>1
<1> QED BY <1>1, <1>5, <1>6, <1>7, OtherElements

-----------------------------------------------------------------------------
(* The theorems *)

\* What a call may insert is a sequence.
LEMMA ArgumentsAre == \A xs \in SeqOf(Elem, MaxArgs) : xs \in Seq(Elem)
<1> SUFFICES ASSUME NEW xs \in SeqOf(Elem, MaxArgs) PROVE xs \in Seq(Elem)
  OBVIOUS
<1>1. PICK m \in 0 .. MaxArgs : xs \in [1 .. m -> Elem]
  BY DEF SeqOf
<1> QED BY <1>1

LEMMA ArrayInv_Step ==
  ASSUME ArrayInv, ArrayNext
  PROVE  ArrayInv'
<1>1. PICK a \in Array :
        \/ \E v \in Elem, i \in Increments, l \in 0 .. MaxArgs : ArrayNew(a, v, i, l)
        \/ \E n \in 0 .. arrayLen[a], xs \in SeqOf(Elem, MaxArgs) :
             xs # <<>> /\ arrayLen[a] + Len(xs) <= MaxLen /\ ArrayInsert(a, n, xs)
        \/ \E n \in 0 .. arrayLen[a] - 1, cnt \in 1 .. MaxLen : ArrayRemove(a, n, cnt)
        \/ \E n \in 0 .. arrayLen[a] - 1, v \in Elem : ArraySet(a, n, v)
        \/ ArrayClose(a)
        \/ \E b \in Array : \E n \in 0 .. arrayLen[b], cnt \in 0 .. MaxLen : ArraySub(a, b, n, cnt)
        \/ ArraySort(a)
  BY DEF ArrayNext
<1>2. arrayLen[a] \in Nat /\ incr[a] \in Increments /\ MaxLen \in Nat
  BY ArrayAt, ArrayAssumption
<1>3. ASSUME NEW v \in Elem, NEW i \in Increments, NEW l \in 0 .. MaxArgs, ArrayNew(a, v, i, l)
      PROVE  ArrayInv'
  <2>1. l \in Lengths
    BY LengthsAre
  <2> QED BY <1>3, <2>1, NewIs
<1>4. ASSUME NEW n \in 0 .. arrayLen[a], NEW xs \in SeqOf(Elem, MaxArgs), xs # <<>>,
             arrayLen[a] + Len(xs) <= MaxLen, ArrayInsert(a, n, xs)
      PROVE  ArrayInv'
  <2>1. xs \in Seq(Elem)
    BY ArgumentsAre
  <2>2. arrayLen[a] + Len(xs) \in 0 .. MaxLen
    BY <1>2, <1>4, <2>1
  <2>3. arrayLen[a] + Len(xs) \in Lengths
    BY <2>2, LengthsAre
  <2> QED BY <1>4, <2>1, <2>3, InsertIs
<1>5. ASSUME NEW n \in 0 .. arrayLen[a] - 1, NEW cnt \in 1 .. MaxLen, ArrayRemove(a, n, cnt)
      PROVE  ArrayInv'
  <2>1. cnt \in Nat \ {0}
    BY <1>2
  <2> QED BY <1>5, <2>1, RemoveIs
<1>6. ASSUME NEW n \in 0 .. arrayLen[a] - 1, NEW v \in Elem, ArraySet(a, n, v)
      PROVE  ArrayInv'
  BY <1>6, SetIs
<1>7. ASSUME ArrayClose(a) PROVE ArrayInv'
  <2>1. Turns(a, 0, incr[a], NoBlock) /\ 0 \in Lengths /\ IsBlock(NoBlock, 0, incr[a])
    BY <1>2, <1>7, NoBlockIs DEF ArrayClose
  <2> QED BY <1>2, <2>1, TurnsIs
<1>8. ASSUME NEW b \in Array, NEW n \in 0 .. arrayLen[b], NEW cnt \in 0 .. MaxLen, ArraySub(a, b, n, cnt)
      PROVE  ArrayInv'
  <2>1. cnt \in Nat
    BY <1>2
  <2> QED BY <1>8, <2>1, SubIs
<1>9. ASSUME ArraySort(a) PROVE ArrayInv'
  BY <1>9, SortIs
<1> QED BY <1>1, <1>3, <1>4, <1>5, <1>6, <1>7, <1>8, <1>9

\* In every state each array has a block of the size that trp_array_max computes,
\* with its elements in front and nothing behind them.
THEOREM ArrayInvariant == ArraySpec => []ArrayInv
<1>1. ArrayInit => ArrayInv
  <2> SUFFICES ASSUME ArrayInit PROVE ArrayInv
    OBVIOUS
  <2>1. /\ arrayLen = [a \in Array |-> 0] /\ incr \in [Array -> Increments]
        /\ data = [a \in Array |-> NoBlock]
    BY DEF ArrayInit
  <2>2. \A a \in Array : 0 \in Lengths /\ IsBlock(NoBlock, 0, incr[a])
    BY <2>1, NoBlockIs
  <2>3. \A a \in Array : arrayLen[a] = 0 /\ data[a] = NoBlock
    BY <2>1
  <2>4. arrayLen \in [Array -> Lengths] /\ data = [a \in Array |-> data[a]]
    BY <2>1, <2>2
  <2> QED BY <2>1, <2>2, <2>3, <2>4 DEF ArrayInv
<1>2. ArrayInv /\ [ArrayNext]_arrayVars => ArrayInv'
  <2>1. ASSUME ArrayInv, UNCHANGED arrayVars PROVE ArrayInv'
    BY <2>1 DEF ArrayInv, IsBlock, arrayVars
  <2> QED BY <2>1, ArrayInv_Step
<1> QED BY <1>1, <1>2, PTL DEF ArraySpec

\* Insertion, removal and the making of a part move the elements as they say, and
\* whatever is called leaves a block the next call can take for granted: for any
\* lengths and steps whose sum fits in a word.
THEOREM CallsKeepElements == ArraySpec => CallsExact
<1>0. ArrayInv' => BlockFits'
  BY InvGivesFits, PTL
<1>1. ASSUME ArrayInv, ArrayInv' PROVE CallExact
  <2>1. BlockFits'
    BY <1>0, <1>1
  <2>2. ASSUME NEW a \in Array, NEW n \in 0 .. arrayLen[a], NEW xs \in SeqOf(Elem, MaxArgs),
               xs # <<>>, arrayLen'[a] = arrayLen[a] + Len(xs), ArrayInsert(a, n, xs)
        PROVE  Elements(a)' = SubSeq(Elements(a), 1, n) \o xs \o SubSeq(Elements(a), n + 1, Len(Elements(a)))
    <3>1. xs \in Seq(Elem)
      BY ArgumentsAre
    <3>2. arrayLen[a] + Len(xs) \in Lengths
      BY <1>1, <2>2 DEF ArrayInv
    <3> QED BY <1>1, <2>2, <3>1, <3>2, InsertIs
  <2>3. ASSUME NEW a \in Array, NEW n \in 0 .. arrayLen[a] - 1, NEW cnt \in 1 .. MaxLen,
               ArrayRemove(a, n, cnt)
        PROVE  Elements(a)' = Slice(Elements(a), 0, n) \o Slice(Elements(a), n + cnt, Len(Elements(a)))
    <3>1. cnt \in Nat \ {0}
      BY ArrayAssumption
    <3> QED BY <1>1, <2>3, <3>1, RemoveIs
  <2>4. ASSUME NEW a \in Array, NEW b \in Array, NEW n \in 0 .. arrayLen[b], NEW cnt \in 0 .. MaxLen,
               ArraySub(a, b, n, cnt)
        PROVE  Elements(a)' = Slice(Elements(b), n, cnt)
    <3>1. cnt \in Nat
      BY ArrayAssumption
    <3> QED BY <1>1, <2>4, <3>1, SubIs
  <2> QED BY <2>1, <2>2, <2>3, <2>4 DEF CallExact
<1>2. ArrayInv /\ ArrayInv' /\ [ArrayNext]_arrayVars => [CallExact]_arrayVars
  BY <1>1
<1> QED BY <1>2, ArrayInvariant, PTL DEF ArraySpec, CallsExact
=============================================================================
