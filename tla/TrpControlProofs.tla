-------------------------- MODULE TrpControlProofs --------------------------
(***************************************************************************)
(* Theorems about the loops of TrpFor, for any bounds, steps and items,    *)
(* and about the alternatives of TrpEnv, for any program: any nets, with   *)
(* any parameters and variables.                                           *)
(***************************************************************************)
EXTENDS TrpFor, TrpEnv, SequenceTheorems, WellFoundedInduction, TLAPS

-----------------------------------------------------------------------------
(* Loops *)

Thing == Int \cup Item

\* s goes by equal steps and never returns to where it was.
Progression(s, step) ==
  /\ \A k \in 1 .. Len(s) : s[k] \in Int
  /\ \A k \in 1 .. Len(s) - 1 : s[k + 1] = s[k] + step
  /\ \A j, k \in 1 .. Len(s) : j # k => s[j] # s[k]

\* A record of a loop that has the values s to visit and stands at the n-th.
Stands(f, s, n) ==
  /\ f \in LoopType /\ s \in Seq(Thing) /\ n \in 1 .. Len(s)
  /\ f.act = s[n] /\ f.pos = n - 1
  /\ f.kind \in {"step", "char"} => f.target = s[Len(s)] /\ (Len(s) > 1 => Progression(s, f.step))
  /\ f.kind = "char" => \A k \in 1 .. Len(s) : s[k] \in 0 .. Byte - 1
  /\ f.kind = "cord" => f.rest = s /\ f.max = Len(s) - 1
  /\ f.kind = "queue" => /\ Len(f.rest) = Len(s) - n
                         /\ \A k \in 1 .. Len(f.rest) : f.rest[k] = s[n + k]
  /\ f.kind = "stack" => /\ Len(f.rest) = Len(s) - n
                         /\ \A k \in 1 .. Len(f.rest) : f.rest[k] = s[Len(s) + 1 - k]

\* What starts a loop that has s to visit: a record at the first, or None.
Starts(f, s) == IF f = None THEN s = <<>> ELSE Stands(f, s, 1)

LEMMA DivSmall ==
  ASSUME NEW x \in Nat, NEW step \in Nat \ {0}
  PROVE  /\ x \div step \in Nat /\ step * (x \div step) <= x
         /\ step = 1 => x \div step = x
OBVIOUS

\* The values from a upwards.
Up(a, m, step) == [k \in 1 .. m + 1 |-> a + (k - 1) * step]

LEMMA UpProgression ==
  ASSUME NEW a \in Int, NEW m \in Nat, NEW step \in Nat \ {0}
  PROVE  /\ Up(a, m, step) \in Seq(Int) /\ Len(Up(a, m, step)) = m + 1
         /\ Up(a, m, step)[1] = a /\ Up(a, m, step)[m + 1] = a + step * m
         /\ Progression(Up(a, m, step), step)
<1> DEFINE u == Up(a, m, step)
<1>1. u \in Seq(Int) /\ Len(u) = m + 1
  BY DEF Up
<1>2. u[1] = a /\ u[m + 1] = a + step * m
  BY DEF Up
<1>3. \A k \in 1 .. Len(u) : u[k] \in Int
  BY <1>1 DEF Up
<1>4. \A k \in 1 .. Len(u) - 1 : u[k + 1] = u[k] + step
  BY <1>1 DEF Up
<1>5. ASSUME NEW j \in 1 .. Len(u), NEW k \in 1 .. Len(u), j < k
      PROVE  u[j] # u[k]
  <2>1. (k - j) * step > 0
    BY <1>1, <1>5
  <2>2. (k - 1) * step = (j - 1) * step + (k - j) * step
    BY <1>1
  <2> QED BY <1>1, <2>1, <2>2 DEF Up
<1>6. \A j, k \in 1 .. Len(u) : j # k => u[j] # u[k]
  BY <1>1, <1>5
<1> QED BY <1>1, <1>2, <1>3, <1>4, <1>6 DEF Progression

LEMMA ReverseSeq ==
  ASSUME NEW S, NEW s \in Seq(S)
  PROVE  /\ Reverse(s) \in Seq(S) /\ Len(Reverse(s)) = Len(s)
         /\ \A k \in 1 .. Len(s) : Reverse(s)[k] = s[Len(s) - k + 1]
<1>1. Len(s) \in Nat /\ \A k \in 1 .. Len(s) : s[k] \in S
  OBVIOUS
<1>2. \A k \in 1 .. Len(s) : Len(s) - k + 1 \in 1 .. Len(s)
  BY <1>1
<1> QED BY <1>1, <1>2 DEF Reverse

LEMMA ReverseOf ==
  ASSUME NEW s \in Seq(Int), NEW n \in Nat, Len(s) = n
  PROVE  /\ Reverse(s) \in Seq(Int) /\ Len(Reverse(s)) = n
         /\ \A k \in 1 .. n : n - k + 1 \in 1 .. n /\ Reverse(s)[k] = s[n - k + 1]
         /\ n > 0 => Reverse(s)[1] = s[n] /\ Reverse(s)[n] = s[1]
<1> DEFINE r == Reverse(s)
<1>1. r \in Seq(Int) /\ Len(r) = n /\ \A k \in 1 .. n : r[k] = s[n - k + 1]
  BY ReverseSeq
<1> HIDE DEF r
<1>2. \A k \in 1 .. n : n - k + 1 \in 1 .. n
  OBVIOUS
<1>3. ASSUME n > 0 PROVE r[1] = s[n] /\ r[n] = s[1]
  <2>1. 1 \in 1 .. n /\ n \in 1 .. n /\ n - 1 + 1 = n /\ n - n + 1 = 1
    BY <1>3
  <2> QED BY <1>1, <2>1
<1> QED BY <1>1, <1>2, <1>3 DEF r

LEMMA ReverseProgression ==
  ASSUME NEW s \in Seq(Int), NEW step \in Int, Progression(s, step)
  PROVE  Progression(Reverse(s), -step)
<1> DEFINE r == Reverse(s)
           l == Len(s)
<1>1. Len(r) = l /\ l \in Nat /\ \A k \in 1 .. l : r[k] = s[l - k + 1] /\ s[k] \in Int
  BY ReverseSeq
<1> HIDE DEF r
<1>2. \A k \in 1 .. l : r[k] \in Int
  BY <1>1
<1>3. ASSUME NEW k \in 1 .. l - 1 PROVE r[k + 1] = r[k] + -step
  <2>1. /\ l - k \in 1 .. l - 1 /\ k + 1 \in 1 .. l /\ k \in 1 .. l
        /\ l - (k + 1) + 1 = l - k
    BY <1>1, <1>3
  <2>2. s[(l - k) + 1] = s[l - k] + step
    BY <2>1 DEF Progression
  <2>3. r[k] = s[(l - k) + 1] /\ r[k + 1] = s[l - k] /\ s[l - k] \in Int
    BY <1>1, <2>1
  <2>4. r[k] \in Int /\ r[k + 1] \in Int
    BY <1>2, <2>1
  <2>5. \A x, y \in Int : x = y + step => y = x + -step
    OBVIOUS
  <2> QED BY <2>2, <2>3, <2>4, <2>5, Zenon
<1>4. ASSUME NEW j \in 1 .. l, NEW k \in 1 .. l, j # k PROVE r[j] # r[k]
  <2>1. l - j + 1 \in 1 .. l /\ l - k + 1 \in 1 .. l /\ l - j + 1 # l - k + 1
    BY <1>1, <1>4
  <2>2. r[j] = s[l - j + 1] /\ r[k] = s[l - k + 1]
    BY <1>1
  <2> QED BY <2>1, <2>2 DEF Progression
<1>5. Progression(r, -step)
  BY <1>1, <1>2, <1>3, <1>4 DEF Progression
<1> QED BY <1>5 DEF r

LEMMA LoopRecord ==
  ASSUME NEW S, NEW kind \in {"step", "char", "queue", "stack", "cord"}, NEW act \in S,
         NEW target \in S, NEW step \in Int, NEW rest \in Seq(S), NEW max \in Nat, NEW pos \in Nat
  PROVE  [kind |-> kind, act |-> act, target |-> target, step |-> step, rest |-> rest,
          max |-> max, pos |-> pos]
         \in [kind : {"step", "char", "queue", "stack", "cord"}, act : S, target : S,
              step : Int, rest : Seq(S), max : Nat, pos : Nat]
OBVIOUS

\* The record of a loop over numbers or characters.
Paced(kind, act, step, target) == [Loop(kind, act) EXCEPT !.step = step, !.target = target]

IsPaced(f, kind, act, step, target) ==
  /\ f \in LoopType /\ f # None /\ f.kind = kind /\ f.act = act
  /\ f.target = target /\ f.step = step /\ f.pos = 0

LEMMA StepLoop ==
  ASSUME NEW kind \in {"step", "char"}, NEW act \in Int, NEW step \in Int, NEW target \in Int
  PROVE  IsPaced(Paced(kind, act, step, target), kind, act, step, target)
<1> DEFINE f == Paced(kind, act, step, target)
<1> DEFINE r == Loop(kind, act)
<1>1. <<>> \in Seq(Thing) /\ act \in Thing /\ target \in Thing
  BY EmptySeq DEF Thing
<1>2. r \in LoopType /\ r.kind = kind /\ r.act = act /\ r.pos = 0
  BY <1>1, LoopRecord DEF LoopType, Thing, Loop
<1> HIDE DEF r, f
<1>3. /\ f = [r EXCEPT !.step = step, !.target = target]
      /\ r \in [kind : {"step", "char", "queue", "stack", "cord"}, act : Thing, target : Thing,
                step : Int, rest : Seq(Thing), max : Nat, pos : Nat]
  BY <1>2 DEF r, f, Paced, LoopType, Thing
<1>4. /\ f \in [kind : {"step", "char", "queue", "stack", "cord"}, act : Thing, target : Thing,
                step : Int, rest : Seq(Thing), max : Nat, pos : Nat]
      /\ f.kind = kind /\ f.act = act /\ f.target = target /\ f.step = step /\ f.pos = 0
  BY <1>1, <1>2, <1>3
<1>5. f \in LoopType
  BY <1>4 DEF LoopType, Thing
<1>6. f # None
  BY <1>5, ForAssumption
<1> QED BY <1>4, <1>5, <1>6 DEF f, IsPaced

LEMMA PacedStarts ==
  ASSUME NEW kind \in {"step", "char"}, NEW step \in Int, NEW s \in Seq(Int), s # <<>>,
         Len(s) > 1 => Progression(s, step),
         kind = "char" => \A k \in 1 .. Len(s) : s[k] \in 0 .. Byte - 1,
         NEW f, f = Paced(kind, s[1], step, s[Len(s)])
  PROVE  Starts(f, s)
<1>1. Len(s) \in Nat \ {0} /\ s[1] \in Int /\ s[Len(s)] \in Int
  BY EmptySeq
<1>2. /\ f \in LoopType /\ f # None /\ f.kind = kind /\ f.act = s[1]
      /\ f.target = s[Len(s)] /\ f.step = step /\ f.pos = 0
  <2>1. IsPaced(Paced(kind, s[1], step, s[Len(s)]), kind, s[1], step, s[Len(s)])
    BY Zenon, <1>1, StepLoop
  <2> QED BY <2>1 DEF IsPaced
<1>3. s \in Seq(Thing)
  BY SeqMonotonic DEF Thing
<1> QED BY <1>1, <1>2, <1>3 DEF Starts, Stands

\* s goes in m steps from a up to at most b, or the same way back.
Spans(s, a, b, m, step, rev) ==
  /\ m \in Nat /\ step * m <= b - a /\ s \in Seq(Int) /\ Len(s) = m + 1
  /\ ~rev => s[1] = a /\ s[m + 1] = a + step * m /\ Progression(s, step)
  /\ rev => s[1] = a + step * m /\ s[m + 1] = a /\ Progression(s, -step)
  /\ \A k \in 1 .. m + 1 : s[k] \in a .. b

LEMMA SpanSpans ==
  ASSUME NEW a \in Int, NEW b \in Int, NEW step \in Int, NEW rev \in BOOLEAN, step >= 1, a <= b
  PROVE  Spans(Span(a, b, step, rev), a, b, (b - a) \div step, step, rev)
<1> DEFINE m == (b - a) \div step
           s == Span(a, b, step, rev)
<1> DEFINE u == Up(a, m, step)
<1>1. m \in Nat /\ step * m <= b - a
  BY DivSmall
<1>3. s = IF rev THEN Reverse(u) ELSE u
  BY DEF Span, Up
<1> HIDE DEF m, s
<1>2. /\ u \in Seq(Int) /\ Len(u) = m + 1 /\ u[1] = a /\ u[m + 1] = a + step * m
      /\ Progression(u, step)
  <2>1. step \in Nat \ {0}
    OBVIOUS
  <2> QED BY <1>1, <2>1, UpProgression, Zenon
<1>4. \A k \in 1 .. m + 1 : u[k] \in a .. b
  <2> TAKE k \in 1 .. m + 1
  <2>1. 0 <= (k - 1) * step /\ (k - 1) * step <= m * step
    BY <1>1
  <2>2. u[k] = a + (k - 1) * step
    BY DEF Up
  <2> QED BY <1>1, <2>1, <2>2
<1> HIDE DEF u
<1>5. /\ s \in Seq(Int) /\ Len(s) = m + 1
      /\ ~rev => s[1] = a /\ s[m + 1] = a + step * m /\ Progression(s, step)
      /\ rev => s[1] = a + step * m /\ s[m + 1] = a /\ Progression(s, -step)
      /\ \A k \in 1 .. m + 1 : s[k] \in a .. b
  <2>1. CASE rev
    <3>1. s = Reverse(u) /\ m + 1 \in Nat /\ m + 1 > 0
      BY <1>1, <1>3, <2>1
    <3>2. /\ s \in Seq(Int) /\ Len(s) = m + 1 /\ s[m + 1] = u[1] /\ s[1] = u[m + 1]
          /\ \A k \in 1 .. m + 1 : (m + 1) - k + 1 \in 1 .. m + 1 /\ s[k] = u[(m + 1) - k + 1]
      BY <1>2, <3>1, ReverseOf
    <3>3. Progression(s, -step)
      BY <1>2, <3>1, ReverseProgression
    <3>4. \A k \in 1 .. m + 1 : s[k] \in a .. b
      BY <1>4, <3>2
    <3> QED BY <1>2, <2>1, <3>2, <3>3, <3>4
  <2>2. CASE ~rev
    BY <1>2, <1>3, <1>4, <2>2
  <2> QED BY <2>1, <2>2
<1>6. Spans(s, a, b, m, step, rev)
  BY <1>1, <1>5 DEF Spans
<1> QED BY <1>6 DEF m, s

LEMMA SpanEmpty ==
  ASSUME NEW a, NEW b, NEW step, NEW rev \in BOOLEAN, step < 1 \/ b < a
  PROVE  Span(a, b, step, rev) = <<>>
BY DEF Span, Reverse

LEMMA NumbersStart ==
  ASSUME NEW a \in Int, NEW b \in Int, NEW step \in Int, NEW rev \in BOOLEAN
  PROVE  Starts(Numbers(a, b, step, rev), Span(a, b, step, rev))
<1>1. CASE step < 1 \/ b < a
  <2>1. Numbers(a, b, step, rev) = None
    BY <1>1 DEF Numbers
  <2> QED BY <1>1, <2>1, SpanEmpty DEF Starts
<1>2. CASE step >= 1 /\ b >= a
  <2> DEFINE m == (b - a) \div step
             s == Span(a, b, step, rev)
             st == IF rev THEN -step ELSE step
  <2>1. Spans(s, a, b, m, step, rev)
    BY <1>2, SpanSpans
  <2>2. Aligned(a, b, step) = a + step * m
    BY <1>2, DivSmall DEF Aligned
  <2>3. Numbers(a, b, step, rev) = IF rev THEN Paced("step", a + step * m, -step, a)
                                          ELSE Paced("step", a, step, a + step * m)
    BY <1>2, <2>2 DEF Numbers, Paced
  <2> HIDE DEF m, s
  <2>4. /\ s \in Seq(Int) /\ s # <<>> /\ st \in Int /\ Progression(s, st)
        /\ rev => s[1] = a + step * m /\ s[Len(s)] = a
        /\ ~rev => s[1] = a /\ s[Len(s)] = a + step * m
    BY <2>1 DEF Spans
  <2>5. Numbers(a, b, step, rev) = Paced("step", s[1], st, s[Len(s)])
    BY <2>3, <2>4
  <2>6. Starts(Numbers(a, b, step, rev), s)
    BY <2>4, <2>5, PacedStarts
  <2> QED BY <2>6 DEF s
<1> QED BY <1>1, <1>2

\* A loop of one character has no step; the others keep theirs.
LEMMA CharsStart ==
  ASSUME NEW a \in Char, NEW b \in Char, NEW step \in Int, NEW rev \in BOOLEAN
  PROVE  Starts(Chars(a, b, step, rev), Span(a, b, step, rev))
<1>0. a \in 0 .. Byte - 1 /\ b \in 0 .. Byte - 1 /\ Byte \in Nat
  BY ForAssumption
<1>1. CASE step < 1 \/ b < a
  <2>1. Chars(a, b, step, rev) = None
    BY <1>1 DEF Chars
  <2> QED BY <1>0, <1>1, <2>1, SpanEmpty DEF Starts
<1>2. CASE step >= 1 /\ b >= a
  <2> DEFINE m == (b - a) \div step
             s == Span(a, b, step, rev)
             last == a + m * step
             chstep == IF a + step < last THEN step ELSE last - a
             st == IF rev THEN -chstep ELSE chstep
  <2>1. Spans(s, a, b, m, step, rev)
    BY <1>0, <1>2, SpanSpans
  <2>2. Chars(a, b, step, rev) = IF rev THEN Paced("char", last, -chstep, a)
                                        ELSE Paced("char", a, chstep, last)
    <3>1. ~(step < 1 \/ b < a)
      BY <1>0, <1>2
    <3> QED BY <3>1, Zenon DEF Chars, Paced
  <2> HIDE DEF m, s
  <2>3. m \in Nat /\ step * m <= b - a
    BY <2>1 DEF Spans
  <2>4. last = a + step * m /\ last \in Int
    BY <1>0, <2>3
  <2>5. chstep \in Int /\ (m > 0 => chstep = step)
    <3>1. CASE m = 0
      BY <1>0, <3>1
    <3>2. CASE m = 1
      BY <1>0, <1>2, <3>2
    <3>3. CASE m > 1
      <4>1. m * step > step
        BY <1>2, <2>3, <3>3
      <4> QED BY <1>0, <1>2, <2>3, <3>3, <4>1
    <3> QED BY <2>3, <3>1, <3>2, <3>3
  <2> HIDE DEF last, chstep
  <2>6. /\ s \in Seq(Int) /\ s # <<>> /\ Len(s) = m + 1 /\ st \in Int
        /\ rev => s[1] = last /\ s[Len(s)] = a
        /\ ~rev => s[1] = a /\ s[Len(s)] = last
    BY <2>1, <2>4, <2>5 DEF Spans
  <2>7. \A k \in 1 .. Len(s) : s[k] \in 0 .. Byte - 1
    BY <1>0, <2>1 DEF Spans
  <2>8. Len(s) > 1 => Progression(s, st)
    BY <2>1, <2>3, <2>5, <2>6 DEF Spans
  <2>9. Chars(a, b, step, rev) = Paced("char", s[1], st, s[Len(s)])
    BY <2>2, <2>6
  <2> HIDE DEF st
  <2>10. Starts(Chars(a, b, step, rev), s)
    BY <2>6, <2>7, <2>8, <2>9, PacedStarts
  <2> QED BY <2>10 DEF s
<1> QED BY <1>0, <1>1, <1>2

\* Loops over what a container holds, and over a string.
Held(kind, act, rest, max) == [Loop(kind, act) EXCEPT !.rest = rest, !.max = max]

LEMMA HeldStarts ==
  ASSUME NEW kind \in {"queue", "stack", "cord"}, NEW s \in Seq(Item), s # <<>>,
         NEW rest \in Seq(Item), NEW max \in Nat,
         kind = "cord" => rest = s /\ max = Len(s) - 1,
         kind \in {"queue", "stack"} => Len(rest) = Len(s) - 1,
         kind = "queue" => \A k \in 1 .. Len(rest) : rest[k] = s[1 + k],
         kind = "stack" => \A k \in 1 .. Len(rest) : rest[k] = s[Len(s) + 1 - k]
  PROVE  Starts(Held(kind, s[1], rest, max), s)
<1>1. Len(s) \in Nat \ {0} /\ s[1] \in Thing /\ s \in Seq(Thing) /\ rest \in Seq(Thing)
  BY EmptySeq, SeqMonotonic DEF Thing
<1> DEFINE r == Loop(kind, s[1])
           f == Held(kind, s[1], rest, max)
<1>2. r \in LoopType /\ r.kind = kind /\ r.act = s[1] /\ r.pos = 0
  <2>1. <<>> \in Seq(Thing)
    BY EmptySeq
  <2> QED BY <1>1, <2>1, LoopRecord DEF LoopType, Thing, Loop
<1> HIDE DEF r, f
<1>3. f = [r EXCEPT !.rest = rest, !.max = max]
  BY DEF r, f, Held
<1>4. f \in LoopType /\ f.kind = kind /\ f.act = s[1] /\ f.pos = 0 /\ f.rest = rest /\ f.max = max
  BY <1>1, <1>2, <1>3 DEF LoopType, Thing
<1>5. Stands(f, s, 1) /\ f # None
  BY <1>1, <1>4, ForAssumption DEF Stands
<1> QED BY <1>5 DEF Starts, f

LEMMA DirectedSeq ==
  ASSUME NEW s \in Seq(Item), NEW rev \in BOOLEAN
  PROVE  /\ Directed(s, rev) \in Seq(Item) /\ Len(Directed(s, rev)) = Len(s)
         /\ Directed(s, rev) = <<>> <=> s = <<>>
BY ReverseSeq DEF Directed

LEMMA QueuedStart ==
  ASSUME NEW s \in Seq(Item), NEW rev \in BOOLEAN
  PROVE  Starts(Queued(s, rev), Directed(s, rev))
<1> DEFINE d == Directed(s, rev)
<1>1. CASE s = <<>>
  BY <1>1, DirectedSeq DEF Queued, Starts
<1>2. CASE s # <<>>
  <2>1. d \in Seq(Item) /\ d # <<>>
    BY <1>2, DirectedSeq
  <2>2. Queued(s, rev) = [Loop("queue", Head(d)) EXCEPT !.rest = Tail(d)]
    BY <1>2, Zenon DEF Queued
  <2> HIDE DEF d
  <2>3. /\ Head(d) = d[1] /\ Tail(d) \in Seq(Item) /\ Len(Tail(d)) = Len(d) - 1
        /\ \A k \in 1 .. Len(Tail(d)) : Tail(d)[k] = d[1 + k]
    BY <2>1, HeadTailProperties
  <2>4. Queued(s, rev) = Held("queue", d[1], Tail(d), 0)
    BY <2>2, <2>3 DEF Loop, Held
  <2>5. Starts(Queued(s, rev), d)
    BY <2>1, <2>3, <2>4, HeldStarts
  <2> QED BY <2>5 DEF d
<1> QED BY <1>1, <1>2

LEMMA FrontSeq ==
  ASSUME NEW S, NEW s \in Seq(S), s # <<>>
  PROVE  /\ Front(s) \in Seq(S) /\ Len(Front(s)) = Len(s) - 1
         /\ \A k \in 1 .. Len(s) - 1 : Front(s)[k] = s[k]
<1>1. Len(s) \in Nat \ {0} /\ \A k \in 1 .. Len(s) - 1 : s[k] \in S
  BY EmptySeq
<1> DEFINE m == Len(s) - 1
<1> HIDE DEF m
<1>2. m \in Nat /\ \A k \in 1 .. m : s[k] \in S
  BY <1>1 DEF m
<1>3. /\ SubSeq(s, 1, m) \in Seq(S)
      /\ Len(SubSeq(s, 1, m)) = IF 1 <= m THEN m - 1 + 1 ELSE 0
      /\ \A k \in 1 .. m - 1 + 1 : SubSeq(s, 1, m)[k] = s[1 + k - 1]
  BY <1>2, SubSeqProperties
<1>4. SubSeq(s, 1, m) = Front(s)
  BY DEF m, Front
<1>5. Len(Front(s)) = m /\ \A k \in 1 .. m : Front(s)[k] = s[k]
  BY <1>2, <1>3, <1>4
<1> QED BY <1>3, <1>4, <1>5 DEF m

LEMMA StackedStart ==
  ASSUME NEW s \in Seq(Item)
  PROVE  Starts(Stacked(s), Reverse(s))
<1> DEFINE d == Reverse(s)
           n == Len(s)
<1>1. CASE s = <<>>
  BY <1>1 DEF Stacked, Starts, Reverse
<1>2. CASE s # <<>>
  <2>1. n \in Nat \ {0} /\ \A k \in 1 .. n : s[k] \in Item
    BY <1>2, EmptySeq
  <2>2. d \in Seq(Item) /\ Len(d) = n /\ \A k \in 1 .. n : d[k] = s[n - k + 1]
    BY ReverseSeq
  <2>3. /\ Front(s) \in Seq(Item) /\ Len(Front(s)) = n - 1
        /\ \A k \in 1 .. n - 1 : Front(s)[k] = s[k]
    BY <1>2, FrontSeq
  <2>4. Stacked(s) = [Loop("stack", Last(s)) EXCEPT !.rest = Front(s)] /\ Last(s) = s[n]
    BY <1>2, Zenon DEF Stacked, Last
  <2> HIDE DEF d, n
  <2>5. d[1] = s[n]
    BY <2>1, <2>2
  <2>6. ASSUME NEW k \in 1 .. n - 1 PROVE Front(s)[k] = d[n + 1 - k]
    <3>1. n + 1 - k \in 1 .. n /\ n - (n + 1 - k) + 1 = k
      BY <2>1
    <3>2. d[n + 1 - k] = s[n - (n + 1 - k) + 1]
      BY <2>2, <3>1
    <3> QED BY <2>3, <3>1, <3>2
  <2>7. Stacked(s) = Held("stack", d[1], Front(s), 0)
    BY <2>4, <2>5 DEF Loop, Held
  <2>8. Starts(Stacked(s), d)
    <3>1. d # <<>> /\ Len(Front(s)) = Len(d) - 1
      BY <2>1, <2>2, <2>3
    <3>2. \A k \in 1 .. Len(Front(s)) : Front(s)[k] = d[Len(d) + 1 - k]
      BY <2>2, <2>3, <2>6
    <3>3. Front(s) \in Seq(Item) /\ d \in Seq(Item)
      BY <2>2, <2>3
    <3>4. Starts(Held("stack", d[1], Front(s), 0), d)
      BY <3>1, <3>2, <3>3, HeldStarts
    <3> QED BY <2>7, <3>4
  <2> QED BY <2>8 DEF d
<1> QED BY <1>1, <1>2

LEMMA CordStart ==
  ASSUME NEW s \in Seq(Item), NEW rev \in BOOLEAN
  PROVE  Starts(Cord(s, rev), Directed(s, rev))
<1> DEFINE d == Directed(s, rev)
<1>1. CASE s = <<>>
  BY <1>1, DirectedSeq DEF Cord, Starts
<1>2. CASE s # <<>>
  <2>1. d \in Seq(Item) /\ d # <<>> /\ Len(d) = Len(s) /\ Len(s) \in Nat \ {0}
    BY <1>2, DirectedSeq, EmptySeq
  <2>2. Cord(s, rev) = Held("cord", Head(d), d, Len(s) - 1)
    BY <1>2, Zenon DEF Cord, Held
  <2> HIDE DEF d
  <2>3. Head(d) = d[1]
    BY <2>1
  <2>4. Cord(s, rev) = Held("cord", d[1], d, Len(d) - 1) /\ Len(d) - 1 \in Nat
    BY <2>1, <2>2, <2>3
  <2>5. Starts(Cord(s, rev), d)
    BY <2>1, <2>4, HeldStarts
  <2> QED BY <2>5 DEF d
<1> QED BY <1>1, <1>2

\* trp_for_next: a loop that is not at its end goes on to the next value.
LEMMA MoreLeft ==
  ASSUME NEW f, NEW s, NEW n, Stands(f, s, n)
  PROVE  More(f) <=> n < Len(s)
<1>1. /\ f \in [kind : {"step", "char", "queue", "stack", "cord"}, act : Thing, target : Thing,
                step : Int, rest : Seq(Thing), max : Nat, pos : Nat]
      /\ Len(s) \in Nat /\ n \in 1 .. Len(s)
  BY DEF Stands, LoopType, Thing
<1>2. CASE f.kind \in {"step", "char"}
  <2>1. f.act = s[n] /\ f.target = s[Len(s)] /\ (Len(s) > 1 => Progression(s, f.step))
    BY <1>2 DEF Stands
  <2>2. n < Len(s) => s[n] # s[Len(s)]
    <3> SUFFICES ASSUME n < Len(s) PROVE s[n] # s[Len(s)]
      OBVIOUS
    <3>1. Len(s) > 1 /\ n # Len(s) /\ Len(s) \in 1 .. Len(s)
      BY <1>1
    <3> QED BY <1>1, <2>1, <3>1 DEF Progression
  <2>3. More(f) <=> f.act # f.target
    BY <1>2 DEF More
  <2> QED BY <1>1, <2>1, <2>2, <2>3
<1>3. CASE f.kind = "cord"
  <2>1. (More(f) <=> f.pos < f.max) /\ f.pos = n - 1 /\ f.max = Len(s) - 1
    BY <1>3 DEF More, Stands
  <2> QED BY <1>1, <2>1
<1>4. CASE f.kind \in {"queue", "stack"}
  <2>1. (More(f) <=> f.rest # <<>>) /\ Len(f.rest) = Len(s) - n
    BY <1>4 DEF More, Stands
  <2>2. f.rest # <<>> <=> Len(f.rest) > 0
    BY <1>1
  <2> QED BY <1>1, <2>1, <2>2
<1> QED BY <1>1, <1>2, <1>3, <1>4

Advanced(f) == [Stepped(f) EXCEPT !.pos = @ + 1]

\* Its record, when only the value changes, and when something is taken.
Given(f, e) == [[f EXCEPT !.act = e] EXCEPT !.pos = @ + 1]
Taken(f, e, r) == [[f EXCEPT !.act = e, !.rest = r] EXCEPT !.pos = @ + 1]

LoopRecords(S) ==
  [kind : {"step", "char", "queue", "stack", "cord"}, act : S, target : S,
   step : Int, rest : Seq(S), max : Nat, pos : Nat]

LEMMA GivenRecord ==
  ASSUME NEW S, NEW f \in LoopRecords(S), NEW e \in S
  PROVE  /\ Given(f, e) \in LoopRecords(S)
         /\ Given(f, e).kind = f.kind /\ Given(f, e).target = f.target
         /\ Given(f, e).step = f.step /\ Given(f, e).max = f.max
         /\ Given(f, e).pos = f.pos + 1 /\ Given(f, e).act = e
         /\ Given(f, e).rest = f.rest
<1> DEFINE h == [f EXCEPT !.act = e]
<1>1. /\ h \in LoopRecords(S) /\ h.kind = f.kind /\ h.target = f.target /\ h.step = f.step
      /\ h.max = f.max /\ h.pos = f.pos /\ h.act = e /\ h.rest = f.rest
  BY DEF LoopRecords
<1>2. Given(f, e) = [h EXCEPT !.pos = h.pos + 1]
  BY DEF Given
<1> HIDE DEF h
<1> QED BY <1>1, <1>2 DEF LoopRecords

LEMMA TakenRecord ==
  ASSUME NEW S, NEW f \in LoopRecords(S), NEW e \in S, NEW r \in Seq(S)
  PROVE  /\ Taken(f, e, r) \in LoopRecords(S)
         /\ Taken(f, e, r).kind = f.kind /\ Taken(f, e, r).target = f.target
         /\ Taken(f, e, r).step = f.step /\ Taken(f, e, r).max = f.max
         /\ Taken(f, e, r).pos = f.pos + 1 /\ Taken(f, e, r).act = e
         /\ Taken(f, e, r).rest = r
<1> DEFINE h == [f EXCEPT !.act = e, !.rest = r]
<1>1. /\ h \in LoopRecords(S) /\ h.kind = f.kind /\ h.target = f.target /\ h.step = f.step
      /\ h.max = f.max /\ h.pos = f.pos /\ h.act = e /\ h.rest = r
  BY DEF LoopRecords
<1>2. Taken(f, e, r) = [h EXCEPT !.pos = h.pos + 1]
  BY DEF Taken
<1> HIDE DEF h
<1> QED BY <1>1, <1>2 DEF LoopRecords

LEMMA ModSmall ==
  ASSUME NEW b \in Nat, NEW x \in 0 .. b - 1
  PROVE  x % b = x
OBVIOUS

LEMMA StepStands ==
  ASSUME NEW f, NEW s, NEW n, Stands(f, s, n), n < Len(s)
  PROVE  Advanced(f) # None /\ Stands(Advanced(f), s, n + 1)
<1> DEFINE g == Advanced(f)
           T == LoopRecords(Thing)
<1> SUFFICES g # None /\ Stands(g, s, n + 1)
  OBVIOUS
<1> HIDE DEF g
<1>1. /\ f \in T /\ s \in Seq(Thing) /\ Len(s) \in Nat /\ n \in 1 .. Len(s) /\ n + 1 \in 1 .. Len(s)
      /\ f.act = s[n] /\ f.pos = n - 1 /\ s[n + 1] \in Thing
  BY DEF Stands, LoopType, Thing, LoopRecords
\* What every loop does with its record.
<1>2. ASSUME g \in T, g.kind = f.kind, g.target = f.target, g.step = f.step, g.max = f.max,
             g.pos = f.pos + 1, g.act = s[n + 1],
             f.kind \notin {"queue", "stack"} => g.rest = f.rest,
             f.kind \in {"queue", "stack"} => Len(g.rest) = Len(f.rest) - 1,
             f.kind = "queue" => \A k \in 1 .. Len(g.rest) : g.rest[k] = f.rest[k + 1],
             f.kind = "stack" => \A k \in 1 .. Len(g.rest) : g.rest[k] = f.rest[k]
      PROVE  g # None /\ Stands(g, s, n + 1)
  <2>1. g \in LoopType /\ g # None
    BY <1>2, ForAssumption DEF LoopType, Thing, LoopRecords
  <2>2. ASSUME g.kind = "queue"
        PROVE  /\ Len(g.rest) = Len(s) - (n + 1)
               /\ \A k \in 1 .. Len(g.rest) : g.rest[k] = s[(n + 1) + k]
    <3>1. Len(f.rest) = Len(s) - n /\ \A k \in 1 .. Len(f.rest) : f.rest[k] = s[n + k]
      BY <1>2, <2>2 DEF Stands
    <3>2. Len(g.rest) = Len(s) - (n + 1)
      BY <1>1, <1>2, <2>2, <3>1
    <3>3. ASSUME NEW k \in 1 .. Len(g.rest) PROVE g.rest[k] = s[(n + 1) + k]
      <4>1. k + 1 \in 1 .. Len(f.rest) /\ n + (k + 1) = (n + 1) + k
        BY <1>1, <3>1, <3>2, <3>3
      <4>2. g.rest[k] = f.rest[k + 1]
        BY <1>2, <2>2
      <4> QED BY <3>1, <4>1, <4>2
    <3> QED BY <3>2, <3>3
  <2>5. ASSUME g.kind = "stack"
        PROVE  /\ Len(g.rest) = Len(s) - (n + 1)
               /\ \A k \in 1 .. Len(g.rest) : g.rest[k] = s[Len(s) + 1 - k]
    <3>1. Len(f.rest) = Len(s) - n /\ \A k \in 1 .. Len(f.rest) : f.rest[k] = s[Len(s) + 1 - k]
      BY <1>2, <2>5 DEF Stands
    <3>2. Len(g.rest) = Len(s) - (n + 1)
      BY <1>1, <1>2, <2>5, <3>1
    <3>3. ASSUME NEW k \in 1 .. Len(g.rest) PROVE g.rest[k] = s[Len(s) + 1 - k]
      <4>1. k \in 1 .. Len(f.rest)
        BY <1>1, <3>1, <3>2, <3>3
      <4>2. g.rest[k] = f.rest[k]
        BY <1>2, <2>5
      <4> QED BY <3>1, <4>1, <4>2
    <3> QED BY <3>2, <3>3
  <2>3. /\ g.kind \in {"step", "char"} => g.target = s[Len(s)] /\ (Len(s) > 1 => Progression(s, g.step))
        /\ g.kind = "char" => \A k \in 1 .. Len(s) : s[k] \in 0 .. Byte - 1
        /\ g.kind = "cord" => g.rest = s /\ g.max = Len(s) - 1
    BY <1>2 DEF Stands
  <2>4. g.act = s[n + 1] /\ g.pos = (n + 1) - 1
    BY <1>1, <1>2
  <2> QED BY <1>1, <2>1, <2>2, <2>3, <2>4, <2>5 DEF Stands
<1>7. f \in LoopRecords(Thing) /\ s[n + 1] \in Thing
  BY <1>1
<1>8. ASSUME g = Given(f, s[n + 1])
      PROVE  /\ g \in T /\ g.kind = f.kind /\ g.target = f.target /\ g.step = f.step
             /\ g.max = f.max /\ g.pos = f.pos + 1 /\ g.act = s[n + 1] /\ g.rest = f.rest
  <2>1. PICK e : e = s[n + 1]
    OBVIOUS
  <2>2. e \in Thing
    BY <1>7, <2>1
  <2>3. g = Given(f, e)
    BY <1>8, <2>1
  <2>4. /\ Given(f, e) \in LoopRecords(Thing)
        /\ Given(f, e).kind = f.kind /\ Given(f, e).target = f.target
        /\ Given(f, e).step = f.step /\ Given(f, e).max = f.max
        /\ Given(f, e).pos = f.pos + 1 /\ Given(f, e).act = e
        /\ Given(f, e).rest = f.rest
    BY <1>7, <2>2, GivenRecord
  <2> QED BY <2>1, <2>3, <2>4
<1>9. ASSUME NEW r \in Seq(Thing), g = Taken(f, s[n + 1], r)
      PROVE  /\ g \in T /\ g.kind = f.kind /\ g.target = f.target /\ g.step = f.step
             /\ g.max = f.max /\ g.pos = f.pos + 1 /\ g.act = s[n + 1] /\ g.rest = r
  <2>1. PICK e : e = s[n + 1]
    OBVIOUS
  <2>2. e \in Thing
    BY <1>7, <2>1
  <2>3. g = Taken(f, e, r)
    BY <1>9, <2>1
  <2>4. /\ Taken(f, e, r) \in LoopRecords(Thing)
        /\ Taken(f, e, r).kind = f.kind /\ Taken(f, e, r).target = f.target
        /\ Taken(f, e, r).step = f.step /\ Taken(f, e, r).max = f.max
        /\ Taken(f, e, r).pos = f.pos + 1 /\ Taken(f, e, r).act = e
        /\ Taken(f, e, r).rest = r
    BY <1>7, <2>2, TakenRecord
  <2> QED BY <2>1, <2>3, <2>4
<1>3. CASE f.kind \in {"step", "char"}
  <2>1. s[n + 1] = s[n] + f.step /\ s[n] \in Int
    BY <1>1, <1>3 DEF Stands, Progression
  <2>2. CASE f.kind = "step"
    <3>1. g = Given(f, f.act + f.step)
      BY <2>2 DEF g, Advanced, Stepped, Given
    <3>2. f.act + f.step = s[n + 1]
      BY <1>1, <2>1
    <3>3. g = Given(f, s[n + 1])
      BY <3>1, <3>2
    <3>4. /\ g \in T /\ g.kind = f.kind /\ g.target = f.target /\ g.step = f.step /\ g.max = f.max
          /\ g.pos = f.pos + 1 /\ g.act = s[n + 1] /\ g.rest = f.rest
      BY <3>3, <1>8
    <3> QED BY <1>2, <2>2, <3>4
  <2>3. CASE f.kind = "char"
    <3>1. g = Given(f, (f.act + f.step) % Byte)
      BY <2>3 DEF g, Advanced, Stepped, Given
    <3>2. s[n + 1] \in 0 .. Byte - 1
      BY <1>1, <2>3 DEF Stands
    <3>3. (f.act + f.step) % Byte = s[n + 1]
      <4>1. f.act + f.step = s[n + 1]
        BY <1>1, <2>1
      <4> QED BY <3>2, <4>1, ModSmall, ForAssumption
    <3>4. g = Given(f, s[n + 1])
      BY <3>1, <3>3
    <3>5. /\ g \in T /\ g.kind = f.kind /\ g.target = f.target /\ g.step = f.step /\ g.max = f.max
          /\ g.pos = f.pos + 1 /\ g.act = s[n + 1] /\ g.rest = f.rest
      BY <3>4, <1>8
    <3> QED BY <1>2, <2>3, <3>5
  <2> QED BY <1>3, <2>2, <2>3
<1>4. CASE f.kind = "cord"
  <2>1. g = Given(f, f.rest[f.pos + 2])
    BY <1>4 DEF g, Advanced, Stepped, Given
  <2>2. f.rest[f.pos + 2] = s[n + 1]
    BY <1>1, <1>4 DEF Stands
  <2>3. g = Given(f, s[n + 1])
    BY <2>1, <2>2
  <2>4. /\ g \in T /\ g.kind = f.kind /\ g.target = f.target /\ g.step = f.step /\ g.max = f.max
        /\ g.pos = f.pos + 1 /\ g.act = s[n + 1] /\ g.rest = f.rest
    BY <2>3, <1>8
  <2> QED BY <1>2, <1>4, <2>4
<1>5. CASE f.kind = "queue"
  <2>1. g = Taken(f, Head(f.rest), Tail(f.rest))
    BY <1>5 DEF g, Advanced, Stepped, Taken
  <2>2. /\ f.rest \in Seq(Thing) /\ f.rest # <<>> /\ Len(f.rest) = Len(s) - n
        /\ f.rest[1] = s[n + 1]
    BY <1>1, <1>5 DEF Stands, LoopRecords
  <2>3. /\ Head(f.rest) = s[n + 1] /\ Tail(f.rest) \in Seq(Thing)
        /\ Len(Tail(f.rest)) = Len(f.rest) - 1
        /\ \A k \in 1 .. Len(Tail(f.rest)) : Tail(f.rest)[k] = f.rest[k + 1]
    BY <2>2, HeadTailProperties
  <2>4. g = Taken(f, s[n + 1], Tail(f.rest))
    BY <2>1, <2>3
  <2>5. /\ g \in T /\ g.kind = f.kind /\ g.target = f.target /\ g.step = f.step /\ g.max = f.max
        /\ g.pos = f.pos + 1 /\ g.act = s[n + 1] /\ g.rest = Tail(f.rest)
    BY <2>3, <2>4, <1>9
  <2> QED BY <1>2, <1>5, <2>3, <2>5
<1>6. CASE f.kind = "stack"
  <2>1. g = Taken(f, Last(f.rest), Front(f.rest))
    BY <1>6 DEF g, Advanced, Stepped, Taken
  <2>2. /\ f.rest \in Seq(Thing) /\ f.rest # <<>> /\ Len(f.rest) = Len(s) - n
        /\ f.rest[Len(f.rest)] = s[n + 1]
    <3>1. /\ f.rest \in Seq(Thing) /\ Len(f.rest) = Len(s) - n
          /\ \A k \in 1 .. Len(f.rest) : f.rest[k] = s[Len(s) + 1 - k]
      BY <1>1, <1>6 DEF Stands, LoopRecords
    <3>2. Len(s) - n \in 1 .. Len(s) - n /\ Len(s) + 1 - (Len(s) - n) = n + 1
      BY <1>1
    <3>3. f.rest # <<>>
      BY <3>1, <3>2
    <3> QED BY <3>1, <3>2, <3>3
  <2>3. /\ Last(f.rest) = s[n + 1] /\ Front(f.rest) \in Seq(Thing)
        /\ Len(Front(f.rest)) = Len(f.rest) - 1
        /\ \A k \in 1 .. Len(Front(f.rest)) : Front(f.rest)[k] = f.rest[k]
    BY <2>2, FrontSeq DEF Last
  <2>4. g = Taken(f, s[n + 1], Front(f.rest))
    BY <2>1, <2>3
  <2>5. /\ g \in T /\ g.kind = f.kind /\ g.target = f.target /\ g.step = f.step /\ g.max = f.max
        /\ g.pos = f.pos + 1 /\ g.act = s[n + 1] /\ g.rest = Front(f.rest)
    BY <2>3, <2>4, <1>9
  <2> QED BY <1>2, <1>6, <2>3, <2>5
<1> QED BY <1>1, <1>3, <1>4, <1>5, <1>6 DEF LoopRecords

\* What holds of a loop all the time: it has visited what it had to, as far as it
\* came, and its record stands at the last of these.
ForInv ==
  /\ items \in Seq(Item) /\ visited \in Seq(Thing) /\ due \in Seq(Thing)
  /\ Len(visited) <= Len(due)
  /\ \A k \in 1 .. Len(visited) : visited[k] = due[k]
  /\ loop # None => ended = "no" /\ Stands(loop, due, Len(visited))
  /\ ended = "skipped" => due = <<>>
  /\ ended = "done" => visited = due
  /\ ended \in {"done", "break"} => loop = None /\ var = Last(visited)

LEMMA ForInitInv == ForInit => ForInv
<1> SUFFICES ASSUME ForInit PROVE ForInv
  OBVIOUS
<1>1. items \in Seq(Item)
  BY ForAssumption DEF ForInit, SeqOf
<1>2. <<>> \in Seq(Thing) /\ Len(<<>>) = 0
  BY EmptySeq
<1> QED BY <1>1, <1>2 DEF ForInit, ForInv

LEMMA StartInv ==
  ASSUME NEW f, NEW s \in Seq(Thing), ForInv, Starts(f, s), Start(f, s)
  PROVE  ForInv'
<1>1. CASE f = None
  <2>1. /\ visited' = <<>> /\ due' = <<>> /\ s = <<>> /\ loop' = None
        /\ ended' = "skipped" /\ items' = items
    BY <1>1 DEF Start, Starts
  <2>2. <<>> \in Seq(Thing) /\ Len(<<>>) = 0
    BY EmptySeq
  <2> QED BY <2>1, <2>2 DEF ForInv
<1>2. CASE f # None
  <2>1. /\ visited' = <<f.act>> /\ due' = s /\ loop' = f /\ ended' = "no" /\ items' = items
        /\ Stands(f, s, 1)
    BY <1>2 DEF Start, Starts
  <2>2. s \in Seq(Thing) /\ f.act = s[1] /\ 1 <= Len(s) /\ s[1] \in Thing
    BY <2>1 DEF Stands
  <2>3. /\ visited' \in Seq(Thing) /\ Len(visited') = 1 /\ visited'[1] = s[1]
    BY <2>1, <2>2
  <2>4. Stands(f, s, Len(visited'))
    BY <2>1, <2>3
  <2>5. /\ Len(visited') <= Len(due')
        /\ \A k \in 1 .. Len(visited') : visited'[k] = due'[k]
    BY <2>1, <2>2, <2>3
  <2>6. loop' # None => ended' = "no" /\ Stands(loop', due', Len(visited'))
    BY <2>1, <2>4
  <2> QED BY <2>1, <2>2, <2>3, <2>5, <2>6 DEF ForInv, Stands
<1> QED BY <1>1, <1>2

\* Each loop starts at the first of what it has to visit.
LEMMA BeginInv == ForInv /\ Begin => ForInv'
<1> SUFFICES ASSUME ForInv, Begin PROVE ForInv'
  OBVIOUS
<1>1. items \in Seq(Item)
  BY DEF ForInv
<1>2. \A a, b, step \in Int, rev \in BOOLEAN : Span(a, b, step, rev) \in Seq(Thing)
  <2> SUFFICES ASSUME NEW a \in Int, NEW b \in Int, NEW step \in Int, NEW rev \in BOOLEAN
               PROVE  Span(a, b, step, rev) \in Seq(Thing)
    OBVIOUS
  <2>1. CASE step < 1 \/ b < a
    BY <2>1, SpanEmpty, EmptySeq
  <2>2. CASE ~(step < 1 \/ b < a)
    <3>1. Span(a, b, step, rev) \in Seq(Int)
      BY <2>2, SpanSpans DEF Spans
    <3> QED BY <3>1 DEF Thing
  <2> QED BY <2>1, <2>2
<1>3. Number \subseteq Int /\ Char \subseteq Int
  BY ForAssumption
<1>4. ASSUME NEW a \in Number, NEW b \in Number, NEW step \in Number, NEW rev \in BOOLEAN,
             Start(Numbers(a, b, step, rev), Span(a, b, step, rev))
      PROVE  ForInv'
  <2>1. a \in Int /\ b \in Int /\ step \in Int
    BY <1>3
  <2>2. Starts(Numbers(a, b, step, rev), Span(a, b, step, rev))
    BY <2>1, NumbersStart
  <2> QED BY <1>2, <1>4, <2>1, <2>2, StartInv
<1>5. ASSUME NEW a \in Char, NEW b \in Char, NEW step \in Number, NEW rev \in BOOLEAN,
             Start(Chars(a, b, step, rev), Span(a, b, step, rev))
      PROVE  ForInv'
  <2>1. a \in Int /\ b \in Int /\ step \in Int
    BY <1>3
  <2>2. Starts(Chars(a, b, step, rev), Span(a, b, step, rev))
    BY <2>1, CharsStart
  <2> QED BY <1>2, <1>5, <2>1, <2>2, StartInv
<1>6. \A rev \in BOOLEAN : Directed(items, rev) \in Seq(Thing)
  BY <1>1, DirectedSeq DEF Thing
<1>7. Reverse(items) \in Seq(Thing)
  BY <1>1, ReverseSeq DEF Thing
<1>8. ASSUME NEW rev \in BOOLEAN, Start(Queued(items, rev), Directed(items, rev))
      PROVE  ForInv'
  BY <1>1, <1>6, <1>8, QueuedStart, StartInv
<1>9. ASSUME Start(Stacked(items), Reverse(items))
      PROVE  ForInv'
  BY <1>1, <1>7, <1>9, StackedStart, StartInv
<1>10. ASSUME NEW rev \in BOOLEAN, Start(Cord(items, rev), Directed(items, rev))
       PROVE  ForInv'
  BY <1>1, <1>6, <1>10, CordStart, StartInv
<1> QED BY <1>4, <1>5, <1>8, <1>9, <1>10 DEF Begin

\* Where a loop stands, its last value is the last it visited.
LEMMA StandsLast ==
  ASSUME ForInv, loop # None
  PROVE  /\ Len(visited) \in 1 .. Len(due) /\ Len(due) \in Nat
         /\ loop.act = Last(visited) /\ loop.pos = Len(visited) - 1
         /\ Stands(loop, due, Len(visited))
<1>1. Stands(loop, due, Len(visited))
  BY DEF ForInv
<1>2. /\ Len(visited) \in 1 .. Len(due) /\ Len(due) \in Nat
      /\ loop.act = due[Len(visited)] /\ loop.pos = Len(visited) - 1
  BY <1>1 DEF Stands
<1>3. visited[Len(visited)] = due[Len(visited)]
  BY <1>2 DEF ForInv
<1> QED BY <1>1, <1>2, <1>3 DEF Last

\* A loop that has more to visit goes on to it.
LEMMA NextValueInv == ForInv /\ NextValue => ForInv'
<1> SUFFICES ASSUME ForInv, NextValue PROVE ForInv'
  OBVIOUS
<1> DEFINE n == Len(visited)
<1>1. /\ loop # None /\ More(loop) /\ loop' = Advanced(loop)
      /\ visited' = Append(visited, loop'.act)
      /\ items' = items /\ due' = due /\ ended' = ended
  BY DEF NextValue, Advanced
<1>2. n \in 1 .. Len(due) /\ Len(due) \in Nat /\ Stands(loop, due, n)
  BY <1>1, StandsLast
<1>3. n < Len(due)
  BY <1>1, <1>2, MoreLeft
<1>4. loop' # None /\ Stands(loop', due, n + 1)
  BY <1>1, <1>2, <1>3, StepStands
<1>5. loop'.act = due[n + 1] /\ due[n + 1] \in Thing
  BY <1>2, <1>3, <1>4 DEF Stands, ForInv
<1>6. /\ visited' \in Seq(Thing) /\ Len(visited') = n + 1
      /\ \A k \in 1 .. n : visited'[k] = visited[k]
      /\ visited'[n + 1] = due[n + 1]
  BY <1>1, <1>5, AppendProperties DEF ForInv
<1>7. \A k \in 1 .. Len(visited') : visited'[k] = due'[k]
  BY <1>1, <1>2, <1>6 DEF ForInv
<1>8. Stands(loop', due', Len(visited'))
  BY <1>1, <1>4, <1>6
<1> QED BY <1>1, <1>2, <1>3, <1>6, <1>7, <1>8 DEF ForInv

\* Two sequences of one length with the same elements are the same.
LEMMA SameSeq ==
  ASSUME NEW S, NEW s \in Seq(S), NEW t \in Seq(S), Len(s) = Len(t),
         \A k \in 1 .. Len(s) : s[k] = t[k]
  PROVE  s = t
BY SeqEqual

LEMMA EndInv == ForInv /\ (Exhausted \/ Break) => ForInv'
<1> SUFFICES ASSUME ForInv, Exhausted \/ Break PROVE ForInv'
  OBVIOUS
<1>1. /\ loop # None /\ loop' = None /\ var' = loop.act
      /\ items' = items /\ visited' = visited /\ due' = due
      /\ (ended' = "done" /\ ~More(loop)) \/ ended' = "break"
  BY DEF Exhausted, Break, EndLoop, LastValue
<1>2. /\ Len(visited) \in 1 .. Len(due) /\ Len(due) \in Nat
      /\ loop.act = Last(visited) /\ Stands(loop, due, Len(visited))
  BY <1>1, StandsLast
<1>3. var' = Last(visited')
  BY <1>1, <1>2
<1>4. ASSUME ended' = "done" PROVE visited = due
  <2>1. ~(Len(visited) < Len(due))
    BY <1>1, <1>2, <1>4, MoreLeft
  <2>2. Len(visited) = Len(due)
    BY <1>2, <2>1
  <2> QED BY <2>2, SameSeq DEF ForInv
<1> QED BY <1>1, <1>3, <1>4 DEF ForInv

LEMMA BodyInv ==
  ASSUME ForInv, Assign \/ \E s \in SeqOf(Item, MaxItems) : Change(s)
  PROVE  ForInv'
<1>1. CASE Assign
  <2>1. /\ loop # None /\ items' = items /\ loop' = loop /\ visited' = visited /\ due' = due
        /\ ended' = ended
    BY <1>1 DEF Assign
  <2>2. ended = "no"
    BY <2>1 DEF ForInv
  <2> QED BY <2>1, <2>2 DEF ForInv
<1>2. ASSUME NEW s \in SeqOf(Item, MaxItems), Change(s) PROVE ForInv'
  <2>1. s \in Seq(Item)
    BY ForAssumption DEF SeqOf
  <2>2. /\ items' = s /\ loop' = loop /\ var' = var /\ visited' = visited /\ due' = due
        /\ ended' = ended
    BY <1>2 DEF Change
  <2> QED BY <2>1, <2>2 DEF ForInv
<1> QED BY <1>1, <1>2

LEMMA ForNextInv == ForInv /\ [ForNext]_forVars => ForInv'
<1> SUFFICES ASSUME ForInv, [ForNext]_forVars PROVE ForInv'
  OBVIOUS
<1>1. CASE UNCHANGED forVars
  BY <1>1 DEF forVars, ForInv
<1> QED BY <1>1, BeginInv, NextValueInv, EndInv, BodyInv DEF ForNext

LEMMA ForInvExact == ForInv => LoopExact
<1> SUFFICES ASSUME ForInv PROVE LoopExact
  OBVIOUS
<1>1. IsPrefix(visited, due)
  <2>1. SubSeq(visited, 1, Len(visited)) = visited /\ Len(visited) \in Nat /\ Len(due) \in Nat
    BY DEF ForInv
  <2>2. Len(SubSeq(due, 1, Len(visited))) = Len(visited)
        /\ SubSeq(due, 1, Len(visited)) \in Seq(Thing)
        /\ \A k \in 1 .. Len(visited) : SubSeq(due, 1, Len(visited))[k] = due[k]
    BY <2>1 DEF ForInv
  <2>3. SubSeq(due, 1, Len(visited)) = visited
    BY <2>2, SameSeq DEF ForInv
  <2> QED BY <2>1, <2>3 DEF IsPrefix, ForInv
<1>2. loop # None => loop.act = Last(visited) /\ loop.pos = Len(visited) - 1
  BY StandsLast
<1> QED BY <1>1, <1>2 DEF LoopExact, ForInv

\* A loop of trp_for_init, trp_for_next and trp_for_break visits what its bounds
\* or its container named when it started, in order, and its variable ends with the
\* last of it, for any numbers, codes, containers and changes by the body.
THEOREM LoopsExact == ForSpec => []LoopExact
<1> QED BY ForInitInv, ForNextInv, ForInvExact, PTL DEF ForSpec

-----------------------------------------------------------------------------
(* What a net can see *)

Content == Datum \cup {Unset}
GlobalVariable == {<<0, x>> : x \in Range(Globals)}

\* Saved(d), of the net n with the references r.
SavedOf(d, n, r) ==
  LET own == Params[n] \o Locals[n]
  IN  [i \in DOMAIN Globals |-> <<0, Globals[i]>>]
      \o [i \in DOMAIN own |-> IF own[i] \in ByRef THEN r[own[i]] ELSE <<d, own[i]>>]

References(n) == [Range(Params[n]) \cap ByRef -> Variable]

LEMMA SavedIs == \A d : Saved(d) = SavedOf(d, frames[d].net, frames[d].ref)
BY DEF Saved, SavedOf, Local

\* The elements of a sequence.
LEMMA RangeOf ==
  ASSUME NEW S, NEW s \in Seq(S)
  PROVE  /\ \A i \in 1 .. Len(s) : s[i] \in Range(s)
         /\ \A x \in Range(s) : \E i \in 1 .. Len(s) : x = s[i]
         /\ Range(s) \subseteq S
BY LenProperties, ElementOfSeq DEF Range

\* A net saves the globals, what is in its own frame, and what it has references to.
LEMMA SavedVariables ==
  ASSUME NEW d \in 1 .. MaxDepth, NEW n \in Net, NEW r \in References(n)
  PROVE  /\ SavedOf(d, n, r) \in Seq(Variable)
         /\ GlobalVariable \subseteq Range(SavedOf(d, n, r))
         /\ \A v \in Range(SavedOf(d, n, r)) :
              v \in GlobalVariable \/ v[1] = d \/ \E p \in DOMAIN r : v = r[p]
<1> DEFINE own == Params[n] \o Locals[n]
           N == Range(Params[n]) \cup Range(Locals[n])
           g == [i \in 1 .. Len(Globals) |-> <<0, Globals[i]>>]
           V(x) == IF x \in ByRef THEN r[x] ELSE <<d, x>>
           o == [i \in 1 .. Len(own) |-> V(own[i])]
           s == SavedOf(d, n, r)
<1>1. own \in Seq(N) /\ Len(own) \in Nat
  <2>1. Params[n] \in Seq(N) /\ Locals[n] \in Seq(N)
    BY EnvAssumption, SeqMonotonic
  <2> QED BY <2>1, ConcatProperties, LenProperties
<1>2. Len(Globals) \in Nat /\ \A i \in 1 .. Len(Globals) : Globals[i] \in Range(Globals)
  BY EnvAssumption, RangeOf, LenProperties
<1>3. ASSUME NEW x \in N
      PROVE  V(x) \in Variable /\ (V(x)[1] = d \/ \E p \in DOMAIN r : V(x) = r[p])
  <2>1. CASE x \in ByRef
    <3>1. x \in Range(Params[n]) \cap ByRef
      BY <1>3, <2>1, EnvAssumption
    <3>2. x \in DOMAIN r /\ r[x] \in Variable
      BY <3>1 DEF References
    <3>3. V(x) = r[x]
      BY <2>1
    <3> QED BY <3>2, <3>3
  <2>2. CASE x \notin ByRef
    <3>1. x \in (Range(Params[n]) \ ByRef) \cup Range(Locals[n])
      BY <1>3, <2>2
    <3>2. V(x) = <<d, x>>
      BY <2>2
    <3>3. <<d, x>> \in (1 .. MaxDepth) \X ((Range(Params[n]) \ ByRef) \cup Range(Locals[n]))
      BY <3>1
    <3>4. <<d, x>> \in Variable
      BY <3>3 DEF Variable
    <3> QED BY <3>2, <3>4
  <2> QED BY <2>1, <2>2
<1>4. \A i \in 1 .. Len(own) : own[i] \in N
  BY <1>1, ElementOfSeq
<1>5. \A i \in 1 .. Len(Globals) : <<0, Globals[i]>> \in GlobalVariable
  BY <1>2 DEF GlobalVariable
<1>6. GlobalVariable \subseteq Variable
  BY DEF GlobalVariable, Variable
<1> HIDE DEF own, V
<1>7. s = g \o o
  <2>1. DOMAIN own = 1 .. Len(own) /\ DOMAIN Globals = 1 .. Len(Globals)
    BY <1>1, EnvAssumption, LenProperties
  <2> QED BY <2>1 DEF SavedOf, own, V
<1>8. g \in Seq(Variable) /\ Len(g) = Len(Globals)
  <2>1. g \in [1 .. Len(Globals) -> Variable]
    BY <1>5, <1>6
  <2> QED BY <1>2, <2>1
<1>9. o \in Seq(Variable) /\ Len(o) = Len(own)
  <2>1. o \in [1 .. Len(own) -> Variable]
    BY <1>3, <1>4
  <2> QED BY <1>1, <2>1
<1>10. \A i \in 1 .. Len(Globals) : g[i] = <<0, Globals[i]>>
  OBVIOUS
<1>11. \A i \in 1 .. Len(own) : o[i] = V(own[i])
  OBVIOUS
<1> HIDE DEF g, o, s
<1>12. /\ s \in Seq(Variable) /\ Len(s) = Len(g) + Len(o)
       /\ \A i \in 1 .. Len(s) : s[i] = IF i <= Len(g) THEN g[i] ELSE o[i - Len(g)]
  <2>1. /\ g \o o \in Seq(Variable) /\ Len(g \o o) = Len(g) + Len(o)
        /\ \A i \in 1 .. Len(g) + Len(o) :
             (g \o o)[i] = IF i <= Len(g) THEN g[i] ELSE o[i - Len(g)]
    BY <1>8, <1>9, ConcatProperties
  <2> QED BY <1>7, <2>1
<1>13. GlobalVariable \subseteq Range(s)
  <2> SUFFICES ASSUME NEW x \in Range(Globals) PROVE <<0, x>> \in Range(s)
    BY DEF GlobalVariable
  <2>1. PICK i \in 1 .. Len(Globals) : x = Globals[i]
    BY EnvAssumption, RangeOf
  <2>2. i \in 1 .. Len(s) /\ s[i] = g[i]
    BY <1>1, <1>2, <1>8, <1>9, <1>12
  <2>3. s[i] = <<0, x>>
    BY <1>10, <2>1, <2>2
  <2>4. s[i] \in Range(s)
    BY <1>12, <2>2, RangeOf
  <2> QED BY <2>3, <2>4
<1>14. ASSUME NEW v \in Range(s)
       PROVE  v \in GlobalVariable \/ v[1] = d \/ \E p \in DOMAIN r : v = r[p]
  <2>1. PICK i \in 1 .. Len(s) : v = s[i]
    BY <1>12, RangeOf
  <2>2. CASE i <= Len(g)
    <3>1. i \in 1 .. Len(Globals) /\ v = g[i]
      BY <1>2, <1>8, <1>12, <2>1, <2>2
    <3> QED BY <1>5, <1>10, <3>1
  <2>3. CASE ~(i <= Len(g))
    <3>1. i - Len(g) \in 1 .. Len(own) /\ v = o[i - Len(g)]
      BY <1>1, <1>2, <1>8, <1>9, <1>12, <2>1, <2>3
    <3> QED BY <1>3, <1>4, <1>11, <3>1
  <2> QED BY <2>2, <2>3
<1> QED BY <1>12, <1>13, <1>14 DEF s

\* A set of positions has a least element: < is well-founded on Nat.
LEMMA LeastPosition ==
  ASSUME NEW I \in SUBSET Nat, I # {}
  PROVE  \E k \in I : \A j \in I : ~ j < k
<1> DEFINE Lt == OpToRel(<, Nat)
<1>1. IsWellFoundedOn(Lt, Nat)
  BY NatLessThanWellFounded
<1>2. ASSUME NEW j \in Nat, NEW k \in Nat, j < k
      PROVE  <<j, k>> \in Lt
  <2>1. <<j, k>> \in Nat \X Nat
    OBVIOUS
  <2>2. <<j, k>>[1] < <<j, k>>[2]
    BY <1>2
  <2> QED
    BY <2>1, <2>2, Zenon DEF OpToRel
<1> HIDE DEF Lt
<1>3. \E k \in I : \A j \in I : ~ (<<j, k>> \in Lt)
  BY <1>1, WFMin
<1> QED
  BY <1>2, <1>3

-----------------------------------------------------------------------------
(* Values of several alternatives one after the other *)

Place(b, w, k) == b + k * w

LEMMA Places ==
  ASSUME NEW b \in Nat, NEW w \in Nat, NEW k \in Nat
  PROVE  /\ Place(b, w, k) \in Nat /\ b <= Place(b, w, k)
         /\ Place(b, w, 0) = b
         /\ Place(b, w, k + 1) = Place(b, w, k) + w
         /\ \A n \in Nat : k <= n => Place(b, w, k) <= Place(b, w, n)
<1>1. k * w \in Nat /\ (k + 1) * w = k * w + w /\ 0 * w = 0
  OBVIOUS
<1>2. ASSUME NEW n \in Nat, k <= n PROVE k * w <= n * w
  <2>1. n - k \in Nat /\ (n - k) * w \in Nat
    BY <1>2
  <2>2. n * w = k * w + (n - k) * w
    BY <2>1
  <2> QED BY <1>1, <2>1, <2>2
<1>3. \A n \in Nat : n * w \in Nat
  OBVIOUS
<1> QED BY <1>1, <1>2, <1>3 DEF Place

LEMMA LastPlace ==
  \A b, w \in Nat : \A n \in Nat \ {0} :
    /\ Place(b, w, n) = Place(b, w, n - 1) + w
    /\ Place(b, w, n - 1) \in Nat /\ b <= Place(b, w, n - 1)
<1> TAKE b, w \in Nat
<1> TAKE n \in Nat \ {0}
<1>1. PICK m \in Nat : m = n - 1
  OBVIOUS
<1>2. m + 1 = n
  BY <1>1
<1>3. Place(b, w, m + 1) = Place(b, w, m) + w /\ Place(b, w, m) \in Nat /\ b <= Place(b, w, m)
  BY Places
<1> QED BY <1>1, <1>2, <1>3

\* The values of one alternative lie below the place of the next.
LEMMA Inside ==
  ASSUME NEW b \in Nat, NEW w \in Nat, NEW n \in Nat, NEW k \in 1 .. n, NEW i \in 1 .. w
  PROVE  Place(b, w, k - 1) + i \in 1 .. Place(b, w, n)
<1>1. PICK j \in Nat : j = k - 1
  OBVIOUS
<1>2. PICK m \in Nat : m = j + 1 /\ m <= n /\ m = k
  BY <1>1
<1>3. /\ Place(b, w, m) = Place(b, w, j) + w /\ Place(b, w, j) \in Nat
      /\ Place(b, w, m) <= Place(b, w, n) /\ Place(b, w, n) \in Nat
  <2>1. Place(b, w, j + 1) = Place(b, w, j) + w /\ Place(b, w, j) \in Nat
    BY Places
  <2>2. Place(b, w, m) <= Place(b, w, n) /\ Place(b, w, n) \in Nat
    BY <1>2, Places
  <2> QED BY <1>2, <2>1, <2>2
<1>4. Place(b, w, j) + i \in 1 .. Place(b, w, n)
  BY <1>3
<1> QED BY <1>1, <1>4

Alternative == [kind : {"alt", "opt", "opt*"}, left : {0, 1}, seen : [Variable -> Content]]

\* From position b on, the stack st holds the variables sv as the alternatives o
\* have seen them.
Segment(st, b, sv, o) ==
  \A k \in 1 .. Len(o), i \in 1 .. Len(sv) :
    st[Place(b, Len(sv), k - 1) + i] = o[k].seen[sv[i]]

\* The stack without the values of the variables sv on its top.
Without(st, sv) == SubSeq(st, 1, Len(st) - Len(sv))

\* And they are its last values.
Filled(st, b, sv, o) == Len(st) = Place(b, Len(sv), Len(o)) /\ Segment(st, b, sv, o)

LEMMA Concatenated ==
  ASSUME NEW S, NEW s \in Seq(S), NEW t \in Seq(S)
  PROVE  /\ s \o t \in Seq(S) /\ Len(s \o t) = Len(s) + Len(t)
         /\ \A j \in 1 .. Len(s) : (s \o t)[j] = s[j]
         /\ \A i \in 1 .. Len(t) : (s \o t)[Len(s) + i] = t[i]
<1>1. /\ s \o t \in Seq(S) /\ Len(s \o t) = Len(s) + Len(t)
      /\ \A j \in 1 .. Len(s) + Len(t) :
           (s \o t)[j] = IF j <= Len(s) THEN s[j] ELSE t[j - Len(s)]
  BY ConcatProperties
<1>2. PICK m \in Nat, n \in Nat : m = Len(s) /\ n = Len(t)
  BY LenProperties
<1>3. PICK r : r = s \o t
  OBVIOUS
<1>4. \A j \in 1 .. m + n : r[j] = IF j <= m THEN s[j] ELSE t[j - m]
  BY <1>1, <1>2, <1>3
<1>5. \A j \in 1 .. m : r[j] = s[j]
  BY <1>4
<1>6. \A i \in 1 .. n : r[m + i] = t[i]
  <2> TAKE i \in 1 .. n
  <2>1. m + i \in 1 .. m + n /\ ~(m + i <= m) /\ (m + i) - m = i
    OBVIOUS
  <2> QED BY <1>4, <2>1
<1> QED BY <1>1, <1>2, <1>3, <1>5, <1>6

\* The values of the variables sv, as the alternative e has seen them.
Values(vals, e, sv) ==
  Len(vals) = Len(sv) /\ \A i \in 1 .. Len(sv) : vals[i] = e.seen[sv[i]]

\* One more alternative, and its values on the top.
LEMMA PushSegment ==
  ASSUME NEW st \in Seq(Content), NEW b \in Nat, NEW sv \in Seq(Variable),
         NEW o \in Seq(Alternative), NEW e \in Alternative, NEW vals \in Seq(Content),
         Filled(st, b, sv, o), Values(vals, e, sv)
  PROVE  /\ st \o vals \in Seq(Content)
         /\ Filled(st \o vals, b, sv, Append(o, e))
         /\ \A j \in 1 .. Len(st) : (st \o vals)[j] = st[j]
<1>1. PICK w \in Nat, n \in Nat, m \in Nat : w = Len(sv) /\ n = Len(o) /\ m = Len(st)
  BY LenProperties
<1>2. PICK s : s = st \o vals
  OBVIOUS
<1>3. PICK a : a = Append(o, e)
  OBVIOUS
<1>4. /\ s \in Seq(Content) /\ Len(s) = m + w
      /\ \A j \in 1 .. m : s[j] = st[j]
      /\ \A i \in 1 .. w : s[m + i] = vals[i]
  <2>1. Len(vals) = w
    BY <1>1 DEF Values
  <2>2. /\ st \o vals \in Seq(Content) /\ Len(st \o vals) = Len(st) + Len(vals)
        /\ \A j \in 1 .. Len(st) : (st \o vals)[j] = st[j]
        /\ \A i \in 1 .. Len(vals) : (st \o vals)[Len(st) + i] = vals[i]
    BY Concatenated
  <2> QED BY <1>1, <1>2, <2>1, <2>2
<1>5. /\ a \in Seq(Alternative) /\ Len(a) = n + 1 /\ a[n + 1] = e
      /\ \A k \in 1 .. n : a[k] = o[k]
  BY <1>1, <1>3, AppendProperties
<1>6. /\ m = Place(b, w, n)
      /\ \A k \in 1 .. n, i \in 1 .. w : st[Place(b, w, k - 1) + i] = o[k].seen[sv[i]]
  BY <1>1 DEF Filled, Segment
<1>7. \A i \in 1 .. w : vals[i] = e.seen[sv[i]]
  BY <1>1 DEF Values
<1>8. Place(b, w, n + 1) = Place(b, w, n) + w
  BY Places
<1>9. ASSUME NEW k \in 1 .. n + 1, NEW i \in 1 .. w
      PROVE  s[Place(b, w, k - 1) + i] = a[k].seen[sv[i]]
  <2>1. CASE k = n + 1
    <3>1. k - 1 = n
      BY <2>1
    <3>2. Place(b, w, k - 1) = m
      BY <1>6, <3>1
    <3> QED BY <1>4, <1>5, <1>7, <2>1, <3>2
  <2>2. CASE k # n + 1
    <3>1. k \in 1 .. n
      BY <2>2
    <3>2. Place(b, w, k - 1) + i \in 1 .. m
      BY <1>6, <3>1, Inside
    <3>3. s[Place(b, w, k - 1) + i] = st[Place(b, w, k - 1) + i]
      BY <1>4, <3>2
    <3> QED BY <1>5, <1>6, <3>1, <3>3
  <2> QED BY <2>1, <2>2
<1>10. Filled(s, b, sv, a)
  <2>1. Len(s) = Place(b, w, n + 1)
    BY <1>4, <1>6, <1>8
  <2> QED BY <1>1, <1>5, <1>9, <2>1 DEF Filled, Segment
<1> QED BY <1>1, <1>2, <1>3, <1>4, <1>10

\* The values on the top are those of the last alternative, and without them the
\* stack holds the others.
LEMMA DropSegment ==
  ASSUME NEW st \in Seq(Content), NEW b \in Nat, NEW sv \in Seq(Variable),
         NEW o \in Seq(Alternative), o # <<>>, Filled(st, b, sv, o)
  PROVE  /\ Without(st, sv) \in Seq(Content) /\ Len(Without(st, sv)) = Len(st) - Len(sv)
         /\ b <= Len(Without(st, sv))
         /\ Filled(Without(st, sv), b, sv, Front(o))
         /\ \A j \in 1 .. Len(Without(st, sv)) : Without(st, sv)[j] = st[j]
         /\ \A i \in 1 .. Len(sv) : st[Len(st) - Len(sv) + i] = Last(o).seen[sv[i]]
<1>1. PICK w \in Nat, n \in Nat, l \in Nat : w = Len(sv) /\ n = Len(o) /\ l = Len(st)
  BY LenProperties
<1>2. n # 0
  BY <1>1, EmptySeq
<1>3. PICK q \in Nat : q = n - 1 /\ q + 1 = n
  BY <1>2
<1>4. /\ l = Place(b, w, n)
      /\ \A k \in 1 .. n, i \in 1 .. w : st[Place(b, w, k - 1) + i] = o[k].seen[sv[i]]
  BY <1>1 DEF Filled, Segment
<1>5. Place(b, w, q + 1) = Place(b, w, q) + w /\ Place(b, w, q) \in Nat /\ b <= Place(b, w, q)
  BY ZenonT(40), Places
<1>6. PICK m \in Nat : m = Place(b, w, q)
  BY <1>5
<1>7. l = m + w
  <2>1. l = Place(b, w, q + 1)
    BY <1>3, <1>4
  <2> QED BY <1>5, <1>6, <2>1
<1>8. m = l - w /\ m <= l
  BY <1>7
<1>9. 1 .. m \subseteq 1 .. l
  BY <1>8
<1>10. m = Place(b, w, q) /\ b <= m /\ m = l - w
  BY <1>5, <1>6, <1>8
<1>11. PICK s : s = Without(st, sv)
  OBVIOUS
<1>12. s \in Seq(Content) /\ Len(s) = m /\ \A j \in 1 .. m : s[j] = st[j]
  <2>1. \A i \in 1 .. m : st[i] \in Content
    BY <1>1, <1>9, ElementOfSeq
  <2>2. /\ SubSeq(st, 1, m) \in Seq(Content)
        /\ Len(SubSeq(st, 1, m)) = IF 1 <= m THEN m - 1 + 1 ELSE 0
        /\ \A i \in 1 .. m - 1 + 1 : SubSeq(st, 1, m)[i] = st[1 + i - 1]
    BY <2>1, SubSeqProperties
  <2>3. s = SubSeq(st, 1, m)
    BY <1>1, <1>10, <1>11 DEF Without
  <2> QED BY <2>2, <2>3
<1>13. PICK f : f = Front(o)
  OBVIOUS
<1>14. f \in Seq(Alternative) /\ Len(f) = q /\ \A k \in 1 .. q : f[k] = o[k]
  BY <1>1, <1>3, <1>13, FrontSeq
<1>15. ASSUME NEW k \in 1 .. q, NEW i \in 1 .. w
       PROVE  s[Place(b, w, k - 1) + i] = f[k].seen[sv[i]]
  <2>1. k \in 1 .. n
    BY <1>3
  <2>2. Place(b, w, k - 1) + i \in 1 .. m
    BY <1>10, Inside
  <2>3. s[Place(b, w, k - 1) + i] = st[Place(b, w, k - 1) + i]
    BY <1>12, <2>2
  <2> QED BY <1>4, <1>14, <2>1, <2>3
<1>16. Filled(s, b, sv, f)
  BY <1>1, <1>10, <1>12, <1>14, <1>15 DEF Filled, Segment
<1>17. \A i \in 1 .. w : st[m + i] = o[n].seen[sv[i]]
  <2>1. n \in 1 .. n /\ n - 1 = q
    BY <1>2, <1>3
  <2> QED BY <1>4, <1>10, <2>1
<1>18. Last(o) = o[n]
  BY <1>1 DEF Last
<1> QED BY <1>1, <1>10, <1>11, <1>12, <1>13, <1>16, <1>17, <1>18

-----------------------------------------------------------------------------
(* The nets being called *)

FrameType ==
  [net : Net, ref : UNION {References(n) : n \in Net}, open : Seq(Alternative)]

\* What the net of frame d can see.
Sees(fr, d) == SavedOf(d, fr[d].net, fr[d].ref)

\* The stack has a segment for each frame, from at[d] on.
Layout(st, fr, at) ==
  /\ at \in [1 .. Len(fr) + 1 -> Nat]
  /\ at[1] = 0 /\ at[Len(fr) + 1] = Len(st)
  /\ \A d, e \in 1 .. Len(fr) + 1 : d <= e => at[d] <= at[e]
  /\ \A d \in 1 .. Len(fr) :
       /\ at[d + 1] = Place(at[d], Len(Sees(fr, d)), Len(fr[d].open))
       /\ Segment(st, at[d], Sees(fr, d), fr[d].open)

\* References lead to what the caller sees, so that what a net sees of outer frames
\* their nets see as well.
FramesAgree(fr) ==
  /\ fr \in Seq(FrameType) /\ Len(fr) \in 1 .. MaxDepth
  /\ \A d \in 1 .. Len(fr) : fr[d].ref \in References(fr[d].net)
  /\ \A d, e \in 1 .. Len(fr) :
       d <= e => \A v \in Range(Sees(fr, e)) : v[1] <= d => v \in Range(Sees(fr, d))

\* What a net does not see does not change while it has alternatives open.
UnseenKept(s, fr) ==
  \A d \in 1 .. Len(fr) : \A k \in 1 .. Len(fr[d].open) : \A v \in Variable :
    v[1] <= d /\ v \notin Range(Sees(fr, d)) => fr[d].open[k].seen[v] = s[v]

Restorable(s, st, fr) ==
  /\ s \in [Variable -> Content] /\ st \in Seq(Content)
  /\ FramesAgree(fr) /\ UnseenKept(s, fr)
  /\ \E at : Layout(st, fr, at)

EnvInv == Restorable(store, stack, frames)

LEMMA FrameFacts ==
  ASSUME NEW fr, FramesAgree(fr), NEW d \in 1 .. Len(fr)
  PROVE  /\ Len(fr) \in Nat \ {0} /\ d \in 1 .. MaxDepth
         /\ fr[d] \in FrameType /\ fr[d].net \in Net /\ fr[d].open \in Seq(Alternative)
         /\ Sees(fr, d) \in Seq(Variable) /\ Len(Sees(fr, d)) \in Nat
         /\ Range(Sees(fr, d)) \subseteq Variable
<1>1. Len(fr) \in Nat \ {0} /\ MaxDepth \in Nat
  BY EnvAssumption DEF FramesAgree
<1>2. fr[d] \in FrameType
  BY ElementOfSeq DEF FramesAgree
<1>3. fr[d].net \in Net /\ fr[d].open \in Seq(Alternative)
  BY <1>2 DEF FrameType
<1>4. d \in 1 .. MaxDepth
  BY <1>1 DEF FramesAgree
<1>5. Sees(fr, d) \in Seq(Variable)
  BY <1>3, <1>4, SavedVariables DEF FramesAgree, Sees
<1>6. Len(Sees(fr, d)) \in Nat
  BY <1>5, LenProperties
<1> QED BY <1>1, <1>2, <1>3, <1>4, <1>5, <1>6, RangeOf

LEMMA EnvInitInv == EnvInit => EnvInv
<1> SUFFICES ASSUME EnvInit PROVE EnvInv
  OBVIOUS
<1> DEFINE f == Frame(Main, <<>>)
<1>1. Range(Params[Main]) = {}
  BY EnvAssumption DEF Range
<1>2. <<>> \in References(Main)
  BY <1>1 DEF References
<1>3. f = [net |-> Main, ref |-> <<>>, open |-> <<>>]
  BY DEF Frame
<1>4. f \in FrameType /\ f.net = Main /\ f.ref = <<>> /\ f.open = <<>>
  BY <1>2, <1>3, EnvAssumption, EmptySeq DEF FrameType
<1>5. store = [v \in Variable |-> Unset] /\ stack = <<>> /\ frames = <<f>>
  BY DEF EnvInit
<1> HIDE DEF f
<1>6. frames \in Seq(FrameType) /\ Len(frames) = 1 /\ frames[1] = f
  BY <1>4, <1>5
<1>7. FramesAgree(frames)
  <2>1. \A d \in 1 .. Len(frames) : d = 1
    BY <1>6
  <2> QED BY <1>2, <1>4, <1>6, <2>1, EnvAssumption DEF FramesAgree
<1>8. store \in [Variable -> Content] /\ stack \in Seq(Content) /\ Len(stack) = 0
  BY <1>5, EmptySeq DEF Content
<1>9. UnseenKept(store, frames)
  BY <1>4, <1>6, EmptySeq DEF UnseenKept
<1>10. Layout(stack, frames, [i \in 1 .. 2 |-> 0])
  <2> DEFINE at == [i \in 1 .. 2 |-> 0]
             w == Len(Sees(frames, 1))
  <2>1. at \in [1 .. 2 -> Nat] /\ \A i \in 1 .. 2 : at[i] = 0
    OBVIOUS
  <2>2. w \in Nat
    BY <1>6, <1>7, FrameFacts
  <2>3. Place(0, w, 0) = 0
    BY <2>2, Places
  <2>4. Len(frames[1].open) = 0 /\ Len(frames) + 1 = 2
    BY <1>4, <1>6, EmptySeq
  <2> HIDE DEF at
  <2>5. \A d \in 1 .. Len(frames) : d = 1 /\ at[d] = 0 /\ at[d + 1] = 0
    BY <1>6, <2>1
  <2>6. \A d \in 1 .. Len(frames) :
          /\ at[d + 1] = Place(at[d], Len(Sees(frames, d)), Len(frames[d].open))
          /\ Segment(stack, at[d], Sees(frames, d), frames[d].open)
    BY <2>3, <2>4, <2>5 DEF Segment
  <2>7. Layout(stack, frames, at)
    BY <1>6, <1>8, <2>1, <2>4, <2>6 DEF Layout
  <2> QED BY <2>7 DEF at
<1> QED BY <1>7, <1>8, <1>9, <1>10 DEF EnvInv, Restorable

\* The frame at the top with other alternatives.
Opened(fr, o) == [fr EXCEPT ![Len(fr)].open = o]

LEMMA OpenedFrames ==
  ASSUME NEW fr, FramesAgree(fr), NEW o \in Seq(Alternative)
  PROVE  /\ FramesAgree(Opened(fr, o)) /\ Len(Opened(fr, o)) = Len(fr)
         /\ Opened(fr, o)[Len(fr)].open = o
         /\ \A d \in 1 .. Len(fr) : Sees(Opened(fr, o), d) = Sees(fr, d)
         /\ \A d \in 1 .. Len(fr) - 1 : Opened(fr, o)[d] = fr[d]
<1> DEFINE n == Len(fr)
           g == [fr[n] EXCEPT !.open = o]
           h == Opened(fr, o)
<1>1. fr \in Seq(FrameType) /\ n \in Nat \ {0} /\ n \in 1 .. n
  BY FrameFacts DEF FramesAgree
<1>2. fr[n] \in FrameType
  BY <1>1, FrameFacts
<1>3. g \in FrameType /\ g.net = fr[n].net /\ g.ref = fr[n].ref /\ g.open = o
  BY <1>2 DEF FrameType
<1>4. h = [fr EXCEPT ![n] = g]
  BY DEF Opened
<1> HIDE DEF g, h
<1>5. /\ h \in Seq(FrameType) /\ Len(h) = n /\ h[n] = g
      /\ \A d \in 1 .. n : d # n => h[d] = fr[d]
  BY <1>1, <1>3, <1>4, ExceptSeq
<1>6. \A d \in 1 .. n : h[d].net = fr[d].net /\ h[d].ref = fr[d].ref
  BY <1>3, <1>5
<1>7. \A d \in 1 .. n : Sees(h, d) = Sees(fr, d)
  BY <1>6 DEF Sees
<1>8. FramesAgree(h)
  BY <1>5, <1>6, <1>7 DEF FramesAgree
<1>9. \A d \in 1 .. n - 1 : h[d] = fr[d]
  BY <1>1, <1>5
<1> QED BY <1>3, <1>5, <1>7, <1>8, <1>9 DEF h

\* The same values up to position n.
SameBelow(st2, st, n) == \A j \in 1 .. n : st2[j] = st[j]

\* When only the alternatives of the top and their part of the stack change, the
\* rest of the stack is where it was.
LEMMA TopLayout ==
  ASSUME NEW st \in Seq(Content), NEW fr, FramesAgree(fr), NEW at, Layout(st, fr, at),
         NEW st2 \in Seq(Content), NEW o \in Seq(Alternative),
         Filled(st2, at[Len(fr)], Sees(fr, Len(fr)), o),
         SameBelow(st2, st, at[Len(fr)])
  PROVE  \E at2 : Layout(st2, Opened(fr, o), at2)
<1> DEFINE n == Len(fr)
           h == Opened(fr, o)
           a == [at EXCEPT ![n + 1] = Len(st2)]
<1>1. /\ n \in Nat \ {0} /\ n \in 1 .. n /\ Len(st2) \in Nat
      /\ at \in [1 .. n + 1 -> Nat]
  BY FrameFacts, LenProperties DEF Layout, FramesAgree
<1>2. /\ at[1] = 0
      /\ \A d, e \in 1 .. n + 1 : d <= e => at[d] <= at[e]
      /\ \A d \in 1 .. n :
           /\ at[d + 1] = Place(at[d], Len(Sees(fr, d)), Len(fr[d].open))
           /\ Segment(st, at[d], Sees(fr, d), fr[d].open)
      /\ Len(st2) = Place(at[n], Len(Sees(fr, n)), Len(o))
      /\ Segment(st2, at[n], Sees(fr, n), o)
      /\ \A j \in 1 .. at[n] : st2[j] = st[j]
  BY DEF Layout, Filled, SameBelow
<1>3. Len(Sees(fr, n)) \in Nat /\ Len(o) \in Nat
  BY <1>1, FrameFacts, LenProperties
<1>4. /\ FramesAgree(h) /\ Len(h) = n /\ h[n].open = o
      /\ \A d \in 1 .. n : Sees(h, d) = Sees(fr, d)
      /\ \A d \in 1 .. n - 1 : h[d] = fr[d]
  BY OpenedFrames
<1> HIDE DEF h
<1>5. /\ a \in [1 .. n + 1 -> Nat] /\ a[n + 1] = Len(st2)
      /\ \A d \in 1 .. n : a[d] = at[d]
  BY <1>1
<1> HIDE DEF a, n
<1>6. at[n] <= Len(st2)
  <2>1. at[n] \in Nat
    BY <1>1
  <2>2. \A w, m \in Nat : at[n] <= Place(at[n], w, m)
    BY <2>1, Places
  <2> QED BY <1>2, <1>3, <2>2
<1>7. \A d, e \in 1 .. n + 1 : d <= e => a[d] <= a[e]
  <2> SUFFICES ASSUME NEW d \in 1 .. n + 1, NEW e \in 1 .. n + 1, d <= e
               PROVE  a[d] <= a[e]
    OBVIOUS
  <2>1. CASE e \in 1 .. n
    <3>1. d \in 1 .. n
      BY <1>1, <2>1
    <3> QED BY <1>2, <1>5, <2>1, <3>1
  <2>2. CASE e = n + 1 /\ d = n + 1
    BY <1>1, <1>5, <2>2
  <2>3. CASE e = n + 1 /\ d \in 1 .. n
    <3>1. at[d] <= at[n] /\ at[d] \in Nat /\ at[n] \in Nat
      <4>1. n \in 1 .. n + 1 /\ d <= n
        BY <1>1, <2>3
      <4> QED BY <1>2, <1>1, <4>1
    <3>2. PICK x \in Nat, y \in Nat, z \in Nat : x = at[d] /\ y = at[n] /\ z = Len(st2)
      BY <1>1, <3>1
    <3>3. x <= z
      BY <1>6, <3>1, <3>2
    <3>4. a[d] = x /\ a[e] = z
      BY <1>5, <2>3, <3>2
    <3> QED BY <3>3, <3>4
  <2> QED BY <1>1, <2>1, <2>2, <2>3
<1>8. ASSUME NEW d \in 1 .. n
      PROVE  /\ a[d + 1] = Place(a[d], Len(Sees(h, d)), Len(h[d].open))
             /\ Segment(st2, a[d], Sees(h, d), h[d].open)
  <2>1. CASE d = n
    BY <1>2, <1>1, <1>4, <1>5, <2>1
  <2>2. CASE d # n
    <3> DEFINE w == Len(Sees(fr, d))
               q == fr[d].open
    <3>1. d \in 1 .. n - 1 /\ d + 1 \in 1 .. n /\ h[d] = fr[d] /\ Sees(h, d) = Sees(fr, d)
          /\ a[d] = at[d] /\ a[d + 1] = at[d + 1]
      <4>1. n \in Nat \ {0}
        BY <1>1
      <4>2. d \in 1 .. n - 1 /\ d + 1 \in 1 .. n
        BY <2>2, <4>1
      <4> QED BY <1>4, <1>5, <4>2
    <3>2. at[d + 1] = Place(at[d], w, Len(q)) /\ Segment(st, at[d], Sees(fr, d), q)
      BY <1>2
    <3>3. at[d + 1] <= at[n] /\ at[d] \in Nat /\ at[d + 1] \in Nat /\ at[n] \in Nat
      <4>1. d + 1 \in 1 .. n + 1 /\ n \in 1 .. n + 1 /\ d \in 1 .. n + 1 /\ d + 1 <= n
        BY <1>1, <3>1
      <4> QED BY <1>2, <1>1, <4>1
    <3>4. w \in Nat /\ Len(q) \in Nat
      BY FrameFacts, LenProperties DEF n
    <3>5. \A k \in 1 .. Len(q), i \in 1 .. w :
            st[Place(at[d], w, k - 1) + i] = q[k].seen[Sees(fr, d)[i]]
      BY <3>2 DEF Segment
    <3> HIDE DEF w
    <3>6. ASSUME NEW k \in 1 .. Len(q), NEW i \in 1 .. w
          PROVE  st2[Place(at[d], w, k - 1) + i] = q[k].seen[Sees(fr, d)[i]]
      <4>1. PICK b \in Nat, t \in Nat, u \in Nat, m \in Nat :
              b = at[d] /\ t = at[d + 1] /\ u = at[n] /\ m = Len(q)
        BY <3>3, <3>4
      <4>2. Place(b, w, k - 1) + i \in 1 .. Place(b, w, m)
        BY <3>4, <4>1, Inside
      <4>3. Place(at[d], w, k - 1) + i \in 1 .. at[n]
        <5>1. Place(b, w, m) = t /\ t <= u
          BY <3>2, <3>3, <4>1
        <5>2. 1 .. t \subseteq 1 .. u
          BY <5>1
        <5>3. Place(b, w, k - 1) + i \in 1 .. t
          BY Zenon, <4>2, <5>1
        <5>4. Place(b, w, k - 1) + i \in 1 .. u
          BY Zenon, <5>2, <5>3
        <5> QED BY Zenon, <4>1, <5>4
      <4> QED BY <1>2, <3>5, <4>3
    <3>7. Segment(st2, at[d], Sees(fr, d), q)
      BY <3>6 DEF Segment, w
    <3>8. /\ a[d + 1] = Place(a[d], Len(Sees(h, d)), Len(h[d].open))
          /\ Segment(st2, a[d], Sees(h, d), h[d].open)
      BY <3>1, <3>2, <3>7 DEF w
    <3> QED BY <3>8
  <2> QED BY <2>1, <2>2
<1>9. a[1] = 0
  <2>1. 1 \in 1 .. n
    BY <1>1
  <2> QED BY <1>2, <1>5, <2>1
<1>10. Layout(st2, h, a)
  BY <1>4, <1>5, <1>7, <1>8, <1>9 DEF Layout
<1> QED BY <1>10 DEF h

\* Variables the net at the top can see get other values.
LEMMA StoreStep ==
  ASSUME NEW s, NEW st, NEW fr, Restorable(s, st, fr), NEW s2 \in [Variable -> Content],
         \A v \in Variable : v \notin Range(Sees(fr, Len(fr))) => s2[v] = s[v]
  PROVE  Restorable(s2, st, fr)
<1>1. FramesAgree(fr) /\ UnseenKept(s, fr)
  BY DEF Restorable
<1>2. Len(fr) \in Nat \ {0} /\ Len(fr) \in 1 .. Len(fr)
  BY <1>1 DEF FramesAgree
<1>3. UnseenKept(s2, fr)
  <2> SUFFICES ASSUME NEW d \in 1 .. Len(fr), NEW k \in 1 .. Len(fr[d].open), NEW v \in Variable,
                      v[1] <= d, v \notin Range(Sees(fr, d))
               PROVE  fr[d].open[k].seen[v] = s2[v]
    BY DEF UnseenKept
  <2>1. d <= Len(fr)
    BY <1>2
  <2>2. v \notin Range(Sees(fr, Len(fr)))
    BY <1>1, <1>2, <2>1 DEF FramesAgree
  <2>3. fr[d].open[k].seen[v] = s[v]
    BY <1>1 DEF UnseenKept
  <2> QED BY <2>2, <2>3
<1> QED BY <1>1, <1>3 DEF Restorable

\* The net at the top has other alternatives open, entered with what is outside its
\* sight as it is now.
LEMMA OpenStep ==
  ASSUME NEW s, NEW st, NEW fr, Restorable(s, st, fr),
         NEW st2 \in Seq(Content), NEW o \in Seq(Alternative),
         \A k \in 1 .. Len(o) : \A v \in Variable :
           v[1] <= Len(fr) /\ v \notin Range(Sees(fr, Len(fr))) => o[k].seen[v] = s[v],
         \E at : Layout(st2, Opened(fr, o), at)
  PROVE  Restorable(s, st2, Opened(fr, o))
<1> DEFINE n == Len(fr)
           h == Opened(fr, o)
<1>1. FramesAgree(fr) /\ UnseenKept(s, fr) /\ s \in [Variable -> Content]
  BY DEF Restorable
<1>2. n \in Nat \ {0}
  BY <1>1 DEF FramesAgree
<1>3. /\ FramesAgree(h) /\ Len(h) = n /\ h[n].open = o
      /\ \A d \in 1 .. n : Sees(h, d) = Sees(fr, d)
      /\ \A d \in 1 .. n - 1 : h[d] = fr[d]
  BY <1>1, OpenedFrames
<1> HIDE DEF h
<1>4. UnseenKept(s, h)
  <2> SUFFICES ASSUME NEW d \in 1 .. n, NEW k \in 1 .. Len(h[d].open), NEW v \in Variable,
                      v[1] <= d, v \notin Range(Sees(h, d))
               PROVE  h[d].open[k].seen[v] = s[v]
    BY <1>3 DEF UnseenKept
  <2>1. v \notin Range(Sees(fr, d))
    BY <1>3
  <2>2. CASE d = n
    BY <1>3, <2>1, <2>2
  <2>3. CASE d # n
    <3>1. d \in 1 .. n - 1
      BY <1>2, <2>3
    <3>2. h[d] = fr[d]
      BY <1>3, <3>1
    <3> QED BY <1>1, <2>1, <3>2 DEF UnseenKept
  <2> QED BY <2>2, <2>3
<1> QED BY <1>1, <1>3, <1>4 DEF Restorable, h

LEMMA OpenedTwice ==
  ASSUME NEW fr, FramesAgree(fr), NEW o \in Seq(Alternative), NEW p \in Seq(Alternative)
  PROVE  Opened(Opened(fr, o), p) = Opened(fr, p)
<1> DEFINE n == Len(fr)
           f == fr[n]
           g == [f EXCEPT !.open = o]
           h == [f EXCEPT !.open = p]
<1>1. fr \in Seq(FrameType) /\ n \in Nat \ {0} /\ n \in 1 .. n
  BY FrameFacts DEF FramesAgree
<1>2. f \in FrameType
  BY <1>1, FrameFacts
<1>3. [g EXCEPT !.open = p] = h /\ g \in FrameType /\ h \in FrameType
  BY <1>2 DEF FrameType
<1>4. Opened(fr, o) = [fr EXCEPT ![n] = g] /\ Opened(fr, p) = [fr EXCEPT ![n] = h]
  BY DEF Opened
<1> HIDE DEF g, h
<1>5. PICK fo : fo = [fr EXCEPT ![n] = g]
  OBVIOUS
<1>6. fo \in Seq(FrameType) /\ Len(fo) = n /\ fo[n] = g
  BY <1>1, <1>3, <1>5, ExceptSeq
<1>7. Opened(fo, p) = [fo EXCEPT ![n] = h]
  BY <1>3, <1>6 DEF Opened
<1>8. [fo EXCEPT ![n] = h] = [fr EXCEPT ![n] = h]
  BY <1>1, <1>5
<1> QED BY <1>4, <1>5, <1>7, <1>8

\* trp_push_env: one more alternative.
LEMMA PushStep ==
  ASSUME NEW s, NEW st, NEW fr, Restorable(s, st, fr), NEW e \in Alternative,
         \A v \in Variable :
           v[1] <= Len(fr) /\ v \notin Range(Sees(fr, Len(fr))) => e.seen[v] = s[v],
         NEW vals,
         vals = [i \in DOMAIN Sees(fr, Len(fr)) |-> e.seen[Sees(fr, Len(fr))[i]]]
  PROVE  Restorable(s, st \o vals, Opened(fr, Append(fr[Len(fr)].open, e)))
<1> DEFINE n == Len(fr)
           sv == Sees(fr, n)
           o == fr[n].open
           a == Append(o, e)
           st2 == st \o vals
<1>1. /\ FramesAgree(fr) /\ UnseenKept(s, fr) /\ s \in [Variable -> Content]
      /\ st \in Seq(Content)
  BY DEF Restorable
<1>2. n \in Nat \ {0} /\ n \in 1 .. n
  BY <1>1 DEF FramesAgree
<1>3. o \in Seq(Alternative) /\ sv \in Seq(Variable) /\ Len(sv) \in Nat
  BY <1>1, <1>2, FrameFacts
<1>4. PICK at : Layout(st, fr, at)
  BY DEF Restorable
<1>5. /\ at \in [1 .. n + 1 -> Nat] /\ at[n + 1] = Len(st) /\ at[n] \in Nat
      /\ at[n + 1] = Place(at[n], Len(sv), Len(o)) /\ Segment(st, at[n], sv, o)
      /\ at[n] <= Len(st)
  BY <1>2, <1>4 DEF Layout
<1>6. vals \in Seq(Content) /\ Len(vals) = Len(sv) /\ \A i \in 1 .. Len(sv) : vals[i] = e.seen[sv[i]]
  <2>1. DOMAIN sv = 1 .. Len(sv)
    BY <1>3, LenProperties
  <2>2. \A i \in 1 .. Len(sv) : sv[i] \in Variable
    BY <1>3, ElementOfSeq
  <2>3. e.seen \in [Variable -> Content]
    BY DEF Alternative
  <2>4. vals = [i \in 1 .. Len(sv) |-> e.seen[sv[i]]]
    BY <2>1
  <2> HIDE DEF sv
  <2>5. \A i \in 1 .. Len(sv) : e.seen[sv[i]] \in Content
    BY <2>2, <2>3
  <2>6. vals \in [1 .. Len(sv) -> Content]
    BY <2>4, <2>5
  <2> QED BY <1>3, <2>4, <2>6
<1>7. /\ a \in Seq(Alternative) /\ Len(a) = Len(o) + 1 /\ a[Len(o) + 1] = e
      /\ \A k \in 1 .. Len(o) : a[k] = o[k]
  BY <1>3, AppendProperties
<1>8. PICK b \in Nat : b = at[n]
  BY <1>5
<1> HIDE DEF sv, o, n
<1>9. st2 \in Seq(Content) /\ Filled(st2, b, sv, a) /\ \A j \in 1 .. Len(st) : st2[j] = st[j]
  <2>1. st \in Seq(Content) /\ Filled(st, b, sv, o)
    BY <1>1, <1>5, <1>8 DEF Filled
  <2>2. vals \in Seq(Content) /\ Values(vals, e, sv)
    BY <1>6 DEF Values
  <2> QED BY <1>3, <2>1, <2>2, PushSegment
<1> HIDE DEF st2, a
<1>10. SameBelow(st2, st, at[n])
  <2>1. 1 .. at[n] \subseteq 1 .. Len(st)
    <3>1. PICK m \in Nat : m = Len(st)
      BY <1>1, LenProperties
    <3>2. b <= m
      BY <1>5, <1>8, <3>1
    <3> QED BY <1>8, <3>1, <3>2
  <2> QED BY <1>9, <2>1 DEF SameBelow
<1>11. \E at2 : Layout(st2, Opened(fr, a), at2)
  BY <1>1, <1>4, <1>7, <1>8, <1>9, <1>10, TopLayout DEF sv, n
<1>12. ASSUME NEW k \in 1 .. Len(a), NEW v \in Variable, v[1] <= n, v \notin Range(sv)
       PROVE  a[k].seen[v] = s[v]
  <2>1. Len(o) \in Nat
    BY <1>3, LenProperties
  <2>2. CASE k = Len(o) + 1
    BY <1>7, <1>12, <2>2 DEF n, sv
  <2>3. CASE k # Len(o) + 1
    <3>1. k \in 1 .. Len(o)
      BY <1>7, <2>1, <2>3
    <3>2. o[k].seen[v] = s[v]
      BY <1>1, <1>2, <1>12, <3>1 DEF UnseenKept, o, sv, n
    <3> QED BY <1>7, <3>1, <3>2
  <2> QED BY <2>2, <2>3
<1>13. Restorable(s, st2, Opened(fr, a))
  BY <1>7, <1>9, <1>11, <1>12, OpenStep DEF sv, n
<1> QED BY <1>13 DEF st2, a, o, n

\* trp_pop_env, trp_pop_env_void: one alternative less.  What is dropped from the
\* stack are the values it was entered with.
LEMMA PopStep ==
  ASSUME NEW s, NEW st, NEW fr, Restorable(s, st, fr), fr[Len(fr)].open # <<>>
  PROVE  /\ Restorable(s, Without(st, Sees(fr, Len(fr))), Opened(fr, Front(fr[Len(fr)].open)))
         /\ Len(st) - Len(Sees(fr, Len(fr))) \in Nat
         /\ \A i \in 1 .. Len(Sees(fr, Len(fr))) :
              st[Len(st) - Len(Sees(fr, Len(fr))) + i]
                = Last(fr[Len(fr)].open).seen[Sees(fr, Len(fr))[i]]
         /\ Last(fr[Len(fr)].open) \in Alternative
         /\ \A v \in Variable :
              v[1] <= Len(fr) /\ v \notin Range(Sees(fr, Len(fr)))
                => Last(fr[Len(fr)].open).seen[v] = s[v]
<1> DEFINE n == Len(fr)
           sv == Sees(fr, n)
           o == fr[n].open
           f == Front(o)
           st2 == Without(st, sv)
<1>1. /\ FramesAgree(fr) /\ UnseenKept(s, fr) /\ s \in [Variable -> Content]
      /\ st \in Seq(Content)
  BY DEF Restorable
<1>2. n \in Nat \ {0} /\ n \in 1 .. n
  BY <1>1 DEF FramesAgree
<1>3. o \in Seq(Alternative) /\ sv \in Seq(Variable) /\ Len(sv) \in Nat
  BY <1>1, <1>2, FrameFacts
<1>4. PICK at : Layout(st, fr, at)
  BY DEF Restorable
<1>5. /\ at \in [1 .. n + 1 -> Nat] /\ at[n + 1] = Len(st) /\ at[n] \in Nat
      /\ at[n + 1] = Place(at[n], Len(sv), Len(o)) /\ Segment(st, at[n], sv, o)
  BY <1>2, <1>4 DEF Layout
<1>6. PICK b \in Nat : b = at[n]
  BY <1>5
<1>7. /\ f \in Seq(Alternative) /\ Len(f) = Len(o) - 1
      /\ \A k \in 1 .. Len(o) - 1 : f[k] = o[k]
  BY <1>3, FrontSeq
<1>8. o # <<>>
  OBVIOUS
<1>9. \A k \in 1 .. Len(o) : \A v \in Variable :
        v[1] <= n /\ v \notin Range(sv) => o[k].seen[v] = s[v]
  BY <1>1, <1>2 DEF UnseenKept
<1> HIDE DEF sv, o, n
<1>10. /\ st2 \in Seq(Content) /\ Len(st2) = Len(st) - Len(sv) /\ b <= Len(st2)
       /\ Filled(st2, b, sv, f)
       /\ \A j \in 1 .. Len(st2) : st2[j] = st[j]
       /\ \A i \in 1 .. Len(sv) : st[Len(st) - Len(sv) + i] = Last(o).seen[sv[i]]
  <2>1. st \in Seq(Content) /\ Filled(st, b, sv, o)
    BY <1>1, <1>5, <1>6 DEF Filled
  <2> QED BY Zenon, <1>3, <1>8, <2>1, DropSegment
<1> HIDE DEF f, st2
<1>11. SameBelow(st2, st, at[n])
  <2>1. 1 .. b \subseteq 1 .. Len(st2)
    BY <1>10, LenProperties
  <2> QED BY <1>6, <1>10, <2>1 DEF SameBelow
<1>12. \E at2 : Layout(st2, Opened(fr, f), at2)
  <2>1. /\ Filled(st2, at[n], sv, f)
        /\ st2 \in Seq(Content) /\ st \in Seq(Content)
    BY <1>1, <1>6, <1>10
  <2> QED BY Zenon, <1>1, <1>4, <1>7, <1>11, <2>1, TopLayout DEF sv, n
<1>13. Len(o) \in 1 .. Len(o) /\ 1 .. Len(o) - 1 \subseteq 1 .. Len(o)
  BY <1>3, <1>8, EmptySeq, LenProperties
<1>14. \A k \in 1 .. Len(f) : \A v \in Variable :
         v[1] <= n /\ v \notin Range(sv) => f[k].seen[v] = s[v]
  BY <1>7, <1>9, <1>13
<1>15. Restorable(s, st2, Opened(fr, f))
  BY <1>7, <1>10, <1>12, <1>14, OpenStep DEF sv, n
<1>16. Last(o) = o[Len(o)] /\ Last(o) \in Alternative
  BY <1>3, <1>13, ElementOfSeq DEF Last
<1>17. Len(st) - Len(sv) \in Nat
  BY <1>10, LenProperties
<1>18. \A v \in Variable : v[1] <= n /\ v \notin Range(sv) => Last(o).seen[v] = s[v]
  BY <1>9, <1>13, <1>16
<1> QED BY <1>10, <1>15, <1>16, <1>17, <1>18 DEF st2, f, sv, o, n

\* The frame a variable is in.
LEMMA VariableFrame == \A v \in Variable : v[1] \in 0 .. MaxDepth
<1> TAKE v \in Variable
<1>1. CASE v \in {<<0, x>> : x \in Range(Globals)}
  BY <1>1, EnvAssumption
<1>2. ASSUME NEW n \in Net,
             v \in (1 .. MaxDepth) \X ((Range(Params[n]) \ ByRef) \cup Range(Locals[n]))
      PROVE  v[1] \in 0 .. MaxDepth
  <2>1. v[1] \in 1 .. MaxDepth
    BY <1>2
  <2> QED BY <2>1, EnvAssumption
<1> QED BY <1>1, <1>2 DEF Variable

\* A net is called with references to what its caller can see.
LEMMA CallStep ==
  ASSUME NEW s, NEW st, NEW fr, Restorable(s, st, fr), Len(fr) < MaxDepth,
         NEW n \in Net, NEW ref \in References(n),
         \A p \in DOMAIN ref : ref[p] \in Range(Sees(fr, Len(fr))),
         NEW s2 \in [Variable -> Content],
         \A v \in Variable : v[1] # Len(fr) + 1 => s2[v] = s[v]
  PROVE  Restorable(s2, st, Append(fr, Frame(n, ref)))
<1>1. /\ FramesAgree(fr) /\ UnseenKept(s, fr) /\ s \in [Variable -> Content]
      /\ st \in Seq(Content)
  BY DEF Restorable
<1>2. PICK m \in Nat \ {0} : m = Len(fr) /\ m \in 1 .. m /\ m + 1 \in 1 .. MaxDepth
  BY <1>1, EnvAssumption DEF FramesAgree
<1>3. PICK f : f = Frame(n, ref)
  OBVIOUS
<1>4. f \in FrameType /\ f.net = n /\ f.ref = ref /\ f.open = <<>>
  BY <1>3, EmptySeq DEF Frame, FrameType
<1>5. PICK h : h = Append(fr, f)
  OBVIOUS
<1>6. fr \in Seq(FrameType)
  BY <1>1 DEF FramesAgree
<1>7. /\ h \in Seq(FrameType) /\ Len(h) = m + 1 /\ h[m + 1] = f
      /\ \A d \in 1 .. m : h[d] = fr[d]
  BY <1>2, <1>4, <1>5, <1>6, AppendProperties
<1>8. /\ \A d \in 1 .. m : Sees(h, d) = Sees(fr, d)
      /\ Sees(h, m + 1) = SavedOf(m + 1, n, ref)
  BY <1>4, <1>7 DEF Sees
<1>9. \A v \in Range(Sees(h, m + 1)) :
        v \in GlobalVariable \/ v[1] = m + 1 \/ v \in Range(Sees(fr, m))
  <2>1. \A v \in Range(SavedOf(m + 1, n, ref)) :
          v \in GlobalVariable \/ v[1] = m + 1 \/ \E p \in DOMAIN ref : v = ref[p]
    BY <1>2, SavedVariables
  <2> QED BY <1>2, <1>8, <2>1
<1>10. \A d \in 1 .. m : GlobalVariable \subseteq Range(Sees(fr, d))
  <2> TAKE d \in 1 .. m
  <2>1. d \in 1 .. MaxDepth /\ fr[d].net \in Net
    BY <1>1, <1>2, FrameFacts
  <2>2. fr[d].ref \in References(fr[d].net)
    BY <1>1, <1>2 DEF FramesAgree
  <2> QED BY <2>1, <2>2, SavedVariables DEF Sees
<1>11. ASSUME NEW d \in 1 .. m + 1, NEW e \in 1 .. m + 1, d <= e,
              NEW v \in Range(Sees(h, e)), v[1] <= d
       PROVE  v \in Range(Sees(h, d))
  <2>1. CASE e # m + 1
    <3>1. e \in 1 .. m /\ d \in 1 .. m
      BY <1>11, <2>1
    <3> QED BY <1>1, <1>2, <1>8, <1>11, <3>1 DEF FramesAgree
  <2>2. CASE e = m + 1 /\ d = m + 1
    BY <2>2
  <2>3. CASE e = m + 1 /\ d # m + 1
    <3>1. d \in 1 .. m /\ d <= m /\ ~(m + 1 <= d)
      BY <2>3
    <3>2. v[1] # m + 1
      BY <1>11, <3>1
    <3>3. v \in GlobalVariable \/ v \in Range(Sees(fr, m))
      BY <1>9, <2>3, <3>2
    <3>4. v \in Range(Sees(fr, m)) => v \in Range(Sees(fr, d))
      BY <1>1, <1>2, <1>11, <3>1 DEF FramesAgree
    <3>5. v \in Range(Sees(fr, d))
      BY <1>10, <3>1, <3>3, <3>4
    <3> QED BY <1>8, <3>1, <3>5
  <2> QED BY <2>1, <2>2, <2>3
<1>12. FramesAgree(h)
  <2>1. \A d \in 1 .. m + 1 : h[d].ref \in References(h[d].net)
    <3> TAKE d \in 1 .. m + 1
    <3>1. CASE d = m + 1
      BY <1>4, <1>7, <3>1
    <3>2. CASE d # m + 1
      <4>1. d \in 1 .. m
        BY <3>2
      <4> QED BY <1>1, <1>2, <1>7, <4>1 DEF FramesAgree
    <3> QED BY <3>1, <3>2
  <2>2. \A d, e \in 1 .. m + 1 :
          d <= e => \A v \in Range(Sees(h, e)) : v[1] <= d => v \in Range(Sees(h, d))
    BY <1>11
  <2>3. Len(h) \in 1 .. MaxDepth
    BY <1>2, <1>7
  <2> QED BY <1>7, <2>1, <2>2, <2>3 DEF FramesAgree
<1>13. UnseenKept(s2, h)
  <2> SUFFICES ASSUME NEW d \in 1 .. m + 1, NEW k \in 1 .. Len(h[d].open), NEW v \in Variable,
                      v[1] <= d, v \notin Range(Sees(h, d))
               PROVE  h[d].open[k].seen[v] = s2[v]
    BY <1>7 DEF UnseenKept
  <2>1. CASE d = m + 1
    <3>1. h[d].open = <<>>
      BY <1>4, <1>7, <2>1
    <3>2. 1 .. Len(h[d].open) = {}
      BY <3>1, EmptySeq
    <3> QED BY <3>2
  <2>2. CASE d # m + 1
    <3>1. d \in 1 .. m /\ ~(m + 1 <= d)
      BY <2>2
    <3>2. s2[v] = s[v]
      BY <1>2, <3>1
    <3>3. k \in 1 .. Len(fr[d].open) /\ v \notin Range(Sees(fr, d)) /\ h[d] = fr[d]
      BY <1>7, <1>8, <3>1
    <3> QED BY <1>1, <1>2, <3>1, <3>2, <3>3 DEF UnseenKept
  <2> QED BY <2>1, <2>2
<1>14. PICK at : Layout(st, fr, at)
  BY DEF Restorable
<1>15. /\ at \in [1 .. m + 1 -> Nat] /\ at[1] = 0 /\ at[m + 1] = Len(st)
       /\ \A d, e \in 1 .. m + 1 : d <= e => at[d] <= at[e]
       /\ \A d \in 1 .. m :
            /\ at[d + 1] = Place(at[d], Len(Sees(fr, d)), Len(fr[d].open))
            /\ Segment(st, at[d], Sees(fr, d), fr[d].open)
  BY <1>2, <1>14 DEF Layout
<1>16. PICK l \in Nat : l = Len(st)
  BY <1>1, LenProperties
<1> DEFINE a == [i \in 1 .. m + 2 |-> IF i <= m + 1 THEN at[i] ELSE l]
<1>17. /\ a \in [1 .. m + 2 -> Nat] /\ a[m + 2] = l
       /\ \A i \in 1 .. m + 1 : a[i] = at[i]
  BY <1>15
<1> HIDE DEF a
<1>18. \A d, e \in 1 .. m + 2 : d <= e => a[d] <= a[e]
  <2> SUFFICES ASSUME NEW d \in 1 .. m + 2, NEW e \in 1 .. m + 2, d <= e
               PROVE  a[d] <= a[e]
    OBVIOUS
  <2>1. CASE e # m + 2
    <3>1. e \in 1 .. m + 1 /\ d \in 1 .. m + 1
      BY <2>1
    <3> QED BY <1>15, <1>17, <3>1
  <2>2. CASE e = m + 2 /\ d = m + 2
    BY <1>17, <2>2
  <2>3. CASE e = m + 2 /\ d # m + 2
    <3>1. d \in 1 .. m + 1 /\ m + 1 \in 1 .. m + 1 /\ d <= m + 1
      BY <2>3
    <3>2. at[d] <= at[m + 1]
      BY <1>15, <3>1
    <3> QED BY <1>15, <1>16, <1>17, <2>3, <3>1, <3>2
  <2> QED BY <2>1, <2>2, <2>3
<1>19. ASSUME NEW d \in 1 .. m + 1
       PROVE  /\ a[d + 1] = Place(a[d], Len(Sees(h, d)), Len(h[d].open))
              /\ Segment(st, a[d], Sees(h, d), h[d].open)
  <2>1. CASE d = m + 1
    <3>1. a[d] = l /\ a[d + 1] = l
      BY <1>15, <1>16, <1>17, <2>1
    <3>2. Len(h[d].open) = 0
      BY <1>4, <1>7, <2>1, EmptySeq
    <3>3. Len(Sees(h, d)) \in Nat
      BY <1>7, <1>12, FrameFacts
    <3>4. \A w \in Nat : Place(l, w, 0) = l
      BY Places
    <3> QED BY <3>1, <3>2, <3>3, <3>4 DEF Segment
  <2>2. CASE d # m + 1
    <3>1. d \in 1 .. m /\ d + 1 \in 1 .. m + 1
      BY <2>2
    <3>2. h[d] = fr[d] /\ Sees(h, d) = Sees(fr, d) /\ a[d] = at[d] /\ a[d + 1] = at[d + 1]
      BY <1>7, <1>8, <1>17, <3>1
    <3> QED BY <1>15, <3>1, <3>2
  <2> QED BY <2>1, <2>2
<1>20. Layout(st, h, a)
  <2>1. a[1] = 0 /\ Len(h) + 1 = m + 2
    BY <1>7, <1>15, <1>17
  <2> QED BY <1>7, <1>16, <1>17, <1>18, <1>19, <2>1 DEF Layout
<1> QED BY <1>1, <1>3, <1>5, <1>12, <1>13, <1>20 DEF Restorable

\* The net at the top is over, with no alternative open: its own variables do not
\* matter any more.
LEMMA LeaveStep ==
  ASSUME NEW s, NEW st, NEW fr, Restorable(s, st, fr), Len(fr) > 1, fr[Len(fr)].open = <<>>,
         NEW s2 \in [Variable -> Content],
         \A v \in Variable : v[1] # Len(fr) => s2[v] = s[v]
  PROVE  Restorable(s2, st, Front(fr))
<1>1. /\ FramesAgree(fr) /\ UnseenKept(s, fr) /\ s \in [Variable -> Content]
      /\ st \in Seq(Content)
  BY DEF Restorable
<1>2. fr \in Seq(FrameType) /\ Len(fr) \in 1 .. MaxDepth /\ MaxDepth \in Nat
  BY <1>1, EnvAssumption DEF FramesAgree
<1>3. PICK m \in Nat \ {0} : m + 1 = Len(fr) /\ m \in 1 .. MaxDepth
  <2>1. PICK l \in 1 .. MaxDepth : l = Len(fr)
    BY <1>2
  <2>2. l > 1 /\ l - 1 \in Nat \ {0} /\ (l - 1) + 1 = l /\ l - 1 \in 1 .. MaxDepth
    BY <1>2, <2>1
  <2> QED BY <2>1, <2>2
<1>4. PICK h : h = Front(fr)
  OBVIOUS
<1>5. fr # <<>>
  BY <1>3, EmptySeq
<1>6. h \in Seq(FrameType) /\ Len(h) = m /\ \A d \in 1 .. m : h[d] = fr[d]
  <2>1. /\ h \in Seq(FrameType) /\ Len(h) = (m + 1) - 1
        /\ \A k \in 1 .. (m + 1) - 1 : h[k] = fr[k]
    BY <1>2, <1>3, <1>4, <1>5, FrontSeq
  <2> QED BY <2>1
<1>7. \A d \in 1 .. m : Sees(h, d) = Sees(fr, d)
  BY <1>6 DEF Sees
<1>8. 1 .. m \subseteq 1 .. m + 1 /\ \A d \in 1 .. m : d + 1 \in 1 .. m + 1 /\ ~(m + 1 <= d)
  OBVIOUS
<1>9. FramesAgree(h)
  BY <1>1, <1>3, <1>6, <1>7, <1>8 DEF FramesAgree
<1>10. UnseenKept(s2, h)
  <2> SUFFICES ASSUME NEW d \in 1 .. m, NEW k \in 1 .. Len(h[d].open), NEW v \in Variable,
                      v[1] <= d, v \notin Range(Sees(h, d))
               PROVE  h[d].open[k].seen[v] = s2[v]
    BY <1>6 DEF UnseenKept
  <2>1. s2[v] = s[v]
    BY <1>3, <1>8
  <2>2. k \in 1 .. Len(fr[d].open) /\ v \notin Range(Sees(fr, d)) /\ h[d] = fr[d]
    BY <1>6, <1>7
  <2> QED BY <1>1, <1>3, <1>8, <2>1, <2>2 DEF UnseenKept
<1>11. PICK at : Layout(st, fr, at)
  BY DEF Restorable
<1>12. /\ at \in [1 .. m + 2 -> Nat] /\ at[1] = 0 /\ at[m + 2] = Len(st)
       /\ \A d, e \in 1 .. m + 2 : d <= e => at[d] <= at[e]
       /\ \A d \in 1 .. m + 1 :
            /\ at[d + 1] = Place(at[d], Len(Sees(fr, d)), Len(fr[d].open))
            /\ Segment(st, at[d], Sees(fr, d), fr[d].open)
  <2>1. Len(fr) + 1 = m + 2
    BY <1>3
  <2> QED BY <1>3, <1>11, <2>1 DEF Layout
<1> DEFINE a == [i \in 1 .. m + 1 |-> at[i]]
<1>13. a \in [1 .. m + 1 -> Nat] /\ \A i \in 1 .. m + 1 : a[i] = at[i]
  BY <1>12
<1> HIDE DEF a
<1>14. a[m + 1] = Len(st)
  <2>1. m + 1 \in 1 .. m + 1 /\ m + 1 \in 1 .. m + 2 /\ (m + 1) + 1 = m + 2
    OBVIOUS
  <2>2. Len(fr[m + 1].open) = 0
    BY <1>3, EmptySeq
  <2>3. Len(Sees(fr, m + 1)) \in Nat
    BY <1>1, <1>3, <2>1, FrameFacts
  <2>4. \A b, w \in Nat : Place(b, w, 0) = b
    BY Places
  <2>5. at[m + 1] \in Nat
    BY <1>12, <2>1
  <2>6. at[m + 2] = Place(at[m + 1], Len(Sees(fr, m + 1)), Len(fr[m + 1].open))
    BY <1>12, <2>1
  <2>7. at[m + 2] = at[m + 1]
    BY <2>2, <2>3, <2>4, <2>5, <2>6
  <2> QED BY <1>12, <1>13, <2>1, <2>7
<1>15. /\ \A d, e \in 1 .. m + 1 : d <= e => a[d] <= a[e]
       /\ a[1] = 0
       /\ \A d \in 1 .. m :
            /\ a[d + 1] = Place(a[d], Len(Sees(h, d)), Len(h[d].open))
            /\ Segment(st, a[d], Sees(h, d), h[d].open)
  <2>1. 1 .. m + 1 \subseteq 1 .. m + 2 /\ 1 \in 1 .. m + 1
    OBVIOUS
  <2>2. \A d, e \in 1 .. m + 1 : d <= e => a[d] <= a[e]
    BY <1>12, <1>13, <2>1
  <2>3. ASSUME NEW d \in 1 .. m
        PROVE  /\ a[d + 1] = Place(a[d], Len(Sees(h, d)), Len(h[d].open))
               /\ Segment(st, a[d], Sees(h, d), h[d].open)
    <3>1. d \in 1 .. m + 1 /\ d + 1 \in 1 .. m + 1
      BY <1>8
    <3> QED BY <1>6, <1>7, <1>12, <1>13, <3>1
  <2> QED BY <1>12, <1>13, <2>1, <2>2, <2>3
<1>16. Layout(st, h, a)
  BY <1>6, <1>13, <1>14, <1>15 DEF Layout
<1> QED BY <1>1, <1>4, <1>9, <1>10, <1>16 DEF Restorable

-----------------------------------------------------------------------------
(* The steps of the program *)

LEMMA TopFacts ==
  ASSUME EnvInv
  PROVE  /\ FramesAgree(frames) /\ UnseenKept(store, frames)
         /\ store \in [Variable -> Content] /\ stack \in Seq(Content)
         /\ Top \in Nat \ {0} /\ Top \in 1 .. Top /\ Top \in 1 .. MaxDepth
         /\ Open \in Seq(Alternative)
         /\ Saved(Top) = Sees(frames, Top)
         /\ Saved(Top) \in Seq(Variable) /\ Len(Saved(Top)) \in Nat
         /\ Seen \subseteq Variable
<1>1. /\ FramesAgree(frames) /\ UnseenKept(store, frames)
      /\ store \in [Variable -> Content] /\ stack \in Seq(Content)
  BY DEF EnvInv, Restorable
<1>2. Top \in Nat \ {0} /\ Top \in 1 .. Top /\ Top \in 1 .. MaxDepth
  BY <1>1, EnvAssumption DEF FramesAgree, Top
<1>3. Saved(Top) = Sees(frames, Top)
  BY SavedIs DEF Sees
<1>4. /\ Sees(frames, Top) \in Seq(Variable) /\ Len(Sees(frames, Top)) \in Nat
      /\ Range(Sees(frames, Top)) \subseteq Variable
      /\ frames[Top].open \in Seq(Alternative)
  BY <1>1, <1>2, FrameFacts DEF Top
<1> QED BY <1>1, <1>2, <1>3, <1>4 DEF Open, Seen

LEMMA SetVarStep ==
  ASSUME EnvInv, NEW v \in Variable, NEW x \in Datum, SetVar(v, x)
  PROVE  EnvInv'
<1>1. /\ store \in [Variable -> Content] /\ Saved(Top) = Sees(frames, Top)
      /\ Top = Len(frames)
  BY TopFacts DEF Top
<1>2. /\ v \in Range(Saved(Top)) /\ store' = [store EXCEPT ![v] = x]
      /\ stack' = stack /\ frames' = frames
  BY DEF SetVar
<1>3. store' \in [Variable -> Content]
  BY <1>1, <1>2 DEF Content
<1>4. \A u \in Variable : u \notin Range(Sees(frames, Len(frames))) => store'[u] = store[u]
  BY <1>1, <1>2
<1>5. Restorable(store', stack, frames)
  BY <1>3, <1>4, StoreStep DEF EnvInv
<1> QED BY <1>2, <1>5 DEF EnvInv

LEMMA CalledStep ==
  ASSUME EnvInv, NEW n \in Net, NEW ref \in Refs(n), NEW value \in Arguments(n),
         Call(n, ref, value)
  PROVE  EnvInv'
<1>1. /\ store \in [Variable -> Content] /\ Saved(Top) = Sees(frames, Top)
      /\ Top = Len(frames) /\ Seen \subseteq Variable
  BY TopFacts DEF Top
<1>2. /\ Top < MaxDepth
      /\ \A p \in DOMAIN ref : ref[p] \in Range(Saved(Top))
      /\ frames' = Append(frames, Frame(n, ref)) /\ stack' = stack
      /\ store' = [v \in Variable |-> IF v[1] = Top + 1 /\ v[2] \in DOMAIN value
                                      THEN value[v[2]] ELSE store[v]]
  BY DEF Call
<1>3. ref \in References(n)
  BY <1>1 DEF Refs, References
<1>4. \A y \in DOMAIN value : value[y] \in Content
  BY DEF Arguments, Content
<1>5. store' \in [Variable -> Content]
  BY <1>1, <1>2, <1>4
<1>6. \A v \in Variable : v[1] # Len(frames) + 1 => store'[v] = store[v]
  BY <1>1, <1>2
<1>7. Restorable(store', stack, Append(frames, Frame(n, ref)))
  BY <1>1, <1>2, <1>3, <1>5, <1>6, CallStep DEF EnvInv
<1> QED BY <1>2, <1>7 DEF EnvInv

LEMMA LeftStep ==
  ASSUME EnvInv, Open = <<>>, Top > 1, frames' = Front(frames), store' = Forgotten(store),
         stack' = stack
  PROVE  EnvInv'
<1>1. store \in [Variable -> Content]
  BY TopFacts
<1>2. store' \in [Variable -> Content] /\ \A v \in Variable : v[1] # Top => store'[v] = store[v]
  BY <1>1 DEF Forgotten, Content
<1>3. Restorable(store', stack, Front(frames))
  BY <1>2, LeaveStep DEF EnvInv, Open, Top
<1> QED BY <1>3 DEF EnvInv

LEMMA EnterStep ==
  ASSUME EnvInv, NEW kind \in {"alt", "opt", "opt*"}, NEW left \in {0, 1}, Enter(kind, left)
  PROVE  EnvInv'
<1>1. store \in [Variable -> Content] /\ Saved(Top) = Sees(frames, Top)
  BY TopFacts
<1>2. PICK e : e = [kind |-> kind, left |-> left, seen |-> store]
  OBVIOUS
<1>3. e \in Alternative /\ e.seen = store
  BY <1>1, <1>2 DEF Alternative
<1>4. stack' = Pushed(stack, store) /\ store' = store
  BY DEF Enter
<1>5. frames' = Opened(frames, Append(Open, e))
  <2>1. frames' = [frames EXCEPT ![Top].open =
                     Append(@, [kind |-> kind, left |-> left, seen |-> store])]
    BY DEF Enter
  <2> QED BY <1>2, <2>1 DEF Opened, Open, Top
<1>6. stack' = stack \o [i \in DOMAIN Sees(frames, Top) |-> e.seen[Sees(frames, Top)[i]]]
  BY <1>1, <1>3, <1>4 DEF Pushed
<1>7. Restorable(store, stack', frames')
  BY <1>3, <1>5, <1>6, PushStep DEF EnvInv, Open, Top
<1> QED BY <1>4, <1>7 DEF EnvInv

LEMMA DroppedIs ==
  ASSUME EnvInv, Open # <<>>
  PROVE  /\ Restorable(store, Dropped, Opened(frames, Front(Open)))
         /\ Len(stack) - Len(Saved(Top)) \in Nat
         /\ \A i \in 1 .. Len(Saved(Top)) :
              stack[Len(stack) - Len(Saved(Top)) + i] = Last(Open).seen[Saved(Top)[i]]
         /\ Last(Open) \in Alternative
         /\ \A v \in Variable : v[1] <= Top /\ v \notin Seen => Last(Open).seen[v] = store[v]
<1>1. Saved(Top) = Sees(frames, Top)
  BY TopFacts
<1>2. Dropped = Without(stack, Sees(frames, Len(frames)))
  BY <1>1 DEF Dropped, Without, Top
<1> QED BY <1>1, <1>2, PopStep DEF EnvInv, Open, Top, Seen

\* An alternative in the place of the last one.
LEMMA ReplacedLast ==
  ASSUME NEW o \in Seq(Alternative), o # <<>>, NEW e \in Alternative
  PROVE  [o EXCEPT ![Len(o)] = e] = Append(Front(o), e)
<1>1. PICK q \in Nat : Len(o) = q + 1
  <2>1. Len(o) \in Nat \ {0}
    BY EmptySeq, LenProperties
  <2>2. \A l \in Nat \ {0} : \E q \in Nat : l = q + 1
    <3> TAKE l \in Nat \ {0}
    <3> WITNESS l - 1 \in Nat
    <3> QED OBVIOUS
  <2> QED BY <2>1, <2>2
<1>2. PICK f : f = Front(o)
  OBVIOUS
<1>3. f \in Seq(Alternative) /\ Len(f) = q /\ \A k \in 1 .. q : f[k] = o[k]
  <2>1. /\ f \in Seq(Alternative) /\ Len(f) = (q + 1) - 1
        /\ \A k \in 1 .. (q + 1) - 1 : f[k] = o[k]
    BY <1>1, <1>2, FrontSeq
  <2> QED BY <2>1
<1>4. PICK a : a = Append(f, e)
  OBVIOUS
<1>5. /\ a \in Seq(Alternative) /\ Len(a) = q + 1 /\ a[q + 1] = e
      /\ \A k \in 1 .. q : a[k] = f[k]
  BY <1>3, <1>4, AppendProperties
<1>6. PICK r : r = [o EXCEPT ![q + 1] = e]
  OBVIOUS
<1>7. /\ r \in Seq(Alternative) /\ Len(r) = q + 1 /\ r[q + 1] = e
      /\ \A k \in 1 .. q + 1 : k # q + 1 => r[k] = o[k]
  <2>1. q + 1 \in 1 .. Len(o)
    BY <1>1
  <2> QED BY <1>1, <1>6, <2>1, ExceptSeq
<1>8. \A k \in 1 .. q + 1 : r[k] = a[k]
  <2> TAKE k \in 1 .. q + 1
  <2>1. CASE k = q + 1
    BY <1>5, <1>7, <2>1
  <2>2. CASE k # q + 1
    <3>1. k \in 1 .. q
      BY <2>2
    <3> QED BY <1>3, <1>5, <1>7, <2>2, <3>1
  <2> QED BY <2>1, <2>2
<1>9. r = a
  BY <1>5, <1>7, <1>8, SeqEqual
<1> QED BY <1>1, <1>2, <1>4, <1>6, <1>9

LEMMA RestoredIs ==
  ASSUME EnvInv, Open # <<>>
  PROVE  /\ Restored \in [Variable -> Content]
         /\ \A v \in Seen : Restored[v] = Last(Open).seen[v]
         /\ \A v \in Variable : v \notin Seen => Restored[v] = store[v]
<1> DEFINE saved == Saved(Top)
           taken == SubSeq(stack, Len(stack) - Len(saved) + 1, Len(stack))
           First(v) == CHOOSE i \in DOMAIN saved :
                         saved[i] = v /\ \A j \in 1 .. i - 1 : saved[j] # v
<1>1. /\ store \in [Variable -> Content] /\ stack \in Seq(Content)
      /\ saved \in Seq(Variable) /\ Seen = Range(saved) /\ Seen \subseteq Variable
  BY TopFacts DEF Seen
<1>2. /\ Len(stack) - Len(saved) \in Nat
      /\ \A i \in 1 .. Len(saved) :
           stack[Len(stack) - Len(saved) + i] = Last(Open).seen[saved[i]]
      /\ Last(Open) \in Alternative
  BY DroppedIs
<1>3. Restored = [v \in Variable |-> IF v \in Range(saved) THEN taken[First(v)] ELSE store[v]]
  BY DEF Restored
<1> HIDE DEF saved
<1>4. PICK w \in Nat, l \in Nat, m \in Nat : w = Len(saved) /\ l = Len(stack) /\ m = l - w
  BY <1>1, <1>2, LenProperties
<1>5. \A i \in 1 .. w : taken[i] = stack[m + i]
  <2>1. taken = SubSeq(stack, m + 1, l)
    BY <1>4
  <2>2. m + 1 \in 1 .. l + 1 /\ l \in m .. l /\ l - (m + 1) + 1 = w
    BY <1>4
  <2>3. \A i \in (m + 1) .. l : stack[i] \in Content
    <3>1. (m + 1) .. l \subseteq 1 .. l
      OBVIOUS
    <3> QED BY <1>1, <1>4, <3>1, ElementOfSeq
  <2>4. \A i \in 1 .. w : taken[i] = stack[(m + 1) + i - 1]
    BY <2>1, <2>2, <2>3, SubSeqProperties
  <2>5. \A i \in 1 .. w : (m + 1) + i - 1 = m + i
    OBVIOUS
  <2> QED BY <2>4, <2>5
<1>6. ASSUME NEW v \in Range(saved)
      PROVE  First(v) \in 1 .. w /\ saved[First(v)] = v
  <2> DEFINE I == {i \in 1 .. w : saved[i] = v}
  <2>1. DOMAIN saved = 1 .. w
    BY <1>1, <1>4, LenProperties
  <2>2. I \in SUBSET Nat /\ I # {}
    <3>1. \E i \in 1 .. Len(saved) : v = saved[i]
      BY <1>1, RangeOf
    <3>2. I # {}
      BY <1>4, <3>1
    <3>3. 1 .. w \in SUBSET Nat
      OBVIOUS
    <3> QED BY <3>2, <3>3
  <2>3. PICK k \in I : \A j \in I : ~ j < k
    BY <2>2, LeastPosition
  <2>4. \A j \in 1 .. k - 1 : saved[j] # v
    <3> SUFFICES ASSUME NEW j \in 1 .. k - 1, saved[j] = v PROVE FALSE
      OBVIOUS
    <3>1. j \in 1 .. w /\ j < k
      BY <2>3
    <3> QED BY <2>3, <3>1
  <2>5. \E i \in DOMAIN saved : saved[i] = v /\ \A j \in 1 .. i - 1 : saved[j] # v
    BY <2>1, <2>3, <2>4
  <2>6. First(v) \in DOMAIN saved /\ saved[First(v)] = v
    BY <2>5, Zenon
  <2> QED BY <2>1, <2>6
<1> HIDE DEF taken, First
<1>7. ASSUME NEW v \in Seen
      PROVE  Restored[v] = Last(Open).seen[v]
  <2>1. PICK i \in 1 .. w : i = First(v) /\ saved[i] = v
    BY <1>1, <1>6
  <2>2. Restored[v] = taken[i]
    BY <1>1, <1>3, <2>1
  <2>3. taken[i] = Last(Open).seen[saved[i]]
    BY <1>2, <1>4, <1>5
  <2> QED BY <2>1, <2>2, <2>3
<1>8. \A v \in Variable : v \notin Seen => Restored[v] = store[v]
  BY <1>1, <1>3
<1>9. \A v \in Variable : Restored[v] \in Content
  <2> TAKE v \in Variable
  <2>1. Last(Open).seen \in [Variable -> Content]
    BY <1>2 DEF Alternative
  <2>2. CASE v \in Seen
    BY <1>7, <2>1, <2>2
  <2>3. CASE v \notin Seen
    BY <1>1, <1>8, <2>3
  <2> QED BY <2>2, <2>3
<1>10. \E f : Restored = [v \in Variable |-> f[v]]
  <2> WITNESS Restored
  <2> QED BY <1>3
<1> QED BY <1>7, <1>8, <1>9, <1>10

\* The last alternative begins again, with what is on the stack at that moment and
\* the variables as s has them.
LEMMA AgainStep ==
  ASSUME EnvInv, Open # <<>>, NEW e \in Alternative, NEW s,
         s = store \/ s = Restored,
         \A v \in Variable : v[1] <= Top /\ v \notin Seen => e.seen[v] = store[v],
         \A v \in Seen : e.seen[v] = s[v]
  PROVE  Restorable(s, Pushed(Dropped, s), Opened(frames, Append(Front(Open), e)))
<1>1. /\ FramesAgree(frames) /\ store \in [Variable -> Content]
      /\ Saved(Top) = Sees(frames, Top) /\ Top = Len(frames)
      /\ Seen = Range(Sees(frames, Top)) /\ Open \in Seq(Alternative)
      /\ Top \in Nat \ {0} /\ Saved(Top) \in Seq(Variable)
  BY TopFacts DEF Seen, Top
<1>2. /\ s \in [Variable -> Content]
      /\ \A v \in Variable : v \notin Seen => s[v] = store[v]
  BY <1>1, RestoredIs
<1>3. Restorable(store, Dropped, Opened(frames, Front(Open)))
  BY DroppedIs
<1>4. PICK h : h = Opened(frames, Front(Open))
  OBVIOUS
<1>5. Front(Open) \in Seq(Alternative)
  BY <1>1, FrontSeq
<1>6. /\ Len(h) = Top /\ h[Top].open = Front(Open) /\ Sees(h, Top) = Sees(frames, Top)
  <2>1. Top \in 1 .. Top
    BY <1>1
  <2> QED BY <1>1, <1>4, <1>5, <2>1, OpenedFrames
<1>7. Restorable(s, Dropped, h)
  <2>1. \A v \in Variable : v \notin Range(Sees(h, Len(h))) => s[v] = store[v]
    BY <1>1, <1>2, <1>6
  <2>2. Restorable(store, Dropped, h)
    BY <1>3, <1>4
  <2> QED BY <1>2, <2>1, <2>2, StoreStep
<1>8. PICK vals : vals = [i \in DOMAIN Sees(h, Len(h)) |-> e.seen[Sees(h, Len(h))[i]]]
  OBVIOUS
<1>9. Restorable(s, Dropped \o vals, Opened(h, Append(h[Len(h)].open, e)))
  <2>1. \A v \in Variable :
          v[1] <= Len(h) /\ v \notin Range(Sees(h, Len(h))) => e.seen[v] = s[v]
    BY <1>1, <1>2, <1>6
  <2> QED BY <1>7, <1>8, <2>1, PushStep
<1>10. Pushed(Dropped, s) = Dropped \o vals
  <2>1. vals = [i \in DOMAIN Saved(Top) |-> e.seen[Saved(Top)[i]]]
    BY <1>1, <1>6, <1>8
  <2>2. DOMAIN Saved(Top) = 1 .. Len(Saved(Top))
    BY <1>1, LenProperties
  <2>3. \A i \in DOMAIN Saved(Top) : Saved(Top)[i] \in Seen
    BY <1>1, <2>2, RangeOf
  <2>4. \A i \in DOMAIN Saved(Top) : e.seen[Saved(Top)[i]] = s[Saved(Top)[i]]
    BY <2>3
  <2>5. vals = [i \in DOMAIN Saved(Top) |-> s[Saved(Top)[i]]]
    BY <2>1, <2>4
  <2> QED BY <2>5 DEF Pushed
<1>11. Opened(h, Append(h[Len(h)].open, e)) = Opened(frames, Append(Front(Open), e))
  <2>1. Append(Front(Open), e) \in Seq(Alternative)
    BY <1>5, AppendProperties
  <2>2. Opened(Opened(frames, Front(Open)), Append(Front(Open), e))
          = Opened(frames, Append(Front(Open), e))
    BY <1>1, <1>5, <2>1, OpenedTwice
  <2> QED BY <1>4, <1>6, <2>2
<1> QED BY <1>9, <1>10, <1>11

\* frames', when only the last alternative of the top changes.
LEMMA LastChanged ==
  ASSUME EnvInv, Open # <<>>, NEW e \in Alternative
  PROVE  Opened(frames, [Open EXCEPT ![Len(Open)] = e]) = Opened(frames, Append(Front(Open), e))
BY TopFacts, ReplacedLast

LEMMA SucceedStep == EnvInv /\ Succeed => EnvInv'
<1> SUFFICES ASSUME EnvInv, Succeed PROVE EnvInv'
  OBVIOUS
<1>1. Open # <<>> /\ store' = store
  BY DEF Succeed
<1>2. CASE stack' = Dropped /\ frames' = [frames EXCEPT ![Top].open = Front(@)]
  <2>1. frames' = Opened(frames, Front(Open))
    BY <1>2 DEF Opened, Open, Top
  <2>2. Restorable(store, Dropped, Opened(frames, Front(Open)))
    BY <1>1, DroppedIs
  <2> QED BY <1>1, <1>2, <2>1, <2>2 DEF EnvInv
<1>3. CASE /\ stack' = Pushed(Dropped, store)
           /\ frames' = [frames EXCEPT ![Top].open[Len(Open)].seen = store]
  <2>1. PICK l : l = Open[Len(Open)]
    OBVIOUS
  <2>2. Last(Open) = l /\ l \in Alternative
    BY <1>1, <2>1, DroppedIs DEF Last
  <2>3. PICK e : e = [l EXCEPT !.seen = store]
    OBVIOUS
  <2>4. e \in Alternative /\ e.seen = store
    BY <2>2, <2>3, TopFacts DEF Alternative
  <2>5. frames' = Opened(frames, [Open EXCEPT ![Len(Open)] = e])
    BY <1>3, <2>1, <2>3 DEF Opened, Open, Top
  <2>6. frames' = Opened(frames, Append(Front(Open), e))
    BY <1>1, <2>4, <2>5, LastChanged
  <2>7. Restorable(store, Pushed(Dropped, store), Opened(frames, Append(Front(Open), e)))
    BY <1>1, <2>4, AgainStep, TopFacts
  <2> QED BY <1>1, <1>3, <2>6, <2>7 DEF EnvInv
<1> QED BY <1>2, <1>3 DEF Succeed

LEMMA BacktrackStep == EnvInv /\ Backtrack => EnvInv'
<1> SUFFICES ASSUME EnvInv, Backtrack PROVE EnvInv'
  OBVIOUS
<1>1. Open # <<>> /\ store' = Restored
  BY DEF Backtrack
<1>2. PICK l : l = Open[Len(Open)]
  OBVIOUS
<1>3. Last(Open) = l /\ l \in Alternative
  BY <1>1, <1>2, DroppedIs DEF Last
<1>4. CASE /\ l.left > 0
           /\ stack' = Pushed(Dropped, Restored)
           /\ frames' = [frames EXCEPT ![Top].open[Len(Open)].left = @ - 1]
  <2>1. PICK e : e = [l EXCEPT !.left = @ - 1]
    OBVIOUS
  <2>2. e \in Alternative /\ e.seen = l.seen
    <3>1. l.left \in {0, 1} /\ l.left - 1 \in {0, 1}
      BY <1>3, <1>4 DEF Alternative
    <3> QED BY <1>3, <2>1, <3>1 DEF Alternative
  <2>3. frames' = Opened(frames, [Open EXCEPT ![Len(Open)] = e])
    BY <1>2, <1>4, <2>1 DEF Opened, Open, Top
  <2>4. frames' = Opened(frames, Append(Front(Open), e))
    BY <1>1, <2>2, <2>3, LastChanged
  <2>5. /\ \A v \in Variable : v[1] <= Top /\ v \notin Seen => e.seen[v] = store[v]
        /\ \A v \in Seen : e.seen[v] = Restored[v]
    BY <1>1, <1>3, <2>2, DroppedIs, RestoredIs
  <2>6. Restorable(Restored, Pushed(Dropped, Restored), Opened(frames, Append(Front(Open), e)))
    BY <1>1, <2>2, <2>5, AgainStep
  <2> QED BY <1>1, <1>4, <2>4, <2>6 DEF EnvInv
<1>5. CASE stack' = Dropped /\ frames' = [frames EXCEPT ![Top].open = Front(@)]
  <2>1. frames' = Opened(frames, Front(Open))
    BY <1>5 DEF Opened, Open, Top
  <2>2. Restorable(store, Dropped, Opened(frames, Front(Open)))
    BY <1>1, DroppedIs
  <2>3. /\ FramesAgree(frames) /\ Front(Open) \in Seq(Alternative)
        /\ Top = Len(frames) /\ Top \in 1 .. Top /\ Seen = Range(Sees(frames, Top))
    BY <1>1, TopFacts, FrontSeq DEF Top, Seen
  <2>4. PICK h : h = Opened(frames, Front(Open))
    OBVIOUS
  <2>5. Len(h) = Top /\ Sees(h, Top) = Sees(frames, Top)
    BY <2>3, <2>4, OpenedFrames
  <2>6. /\ Restored \in [Variable -> Content]
        /\ \A v \in Variable : v \notin Range(Sees(h, Len(h))) => Restored[v] = store[v]
    BY <1>1, <2>3, <2>5, RestoredIs
  <2>7. Restorable(Restored, Dropped, h)
    BY <2>2, <2>4, <2>6, StoreStep
  <2> QED BY <1>1, <1>5, <2>1, <2>4, <2>7 DEF EnvInv
<1> QED BY <1>3, <1>4, <1>5 DEF Backtrack

LEMMA EnvNextInv == EnvInv /\ [EnvNext]_envVars => EnvInv'
<1> SUFFICES ASSUME EnvInv, [EnvNext]_envVars PROVE EnvInv'
  OBVIOUS
<1>1. ASSUME NEW v \in Variable, NEW x \in Datum, SetVar(v, x) PROVE EnvInv'
  BY <1>1, SetVarStep
<1>2. ASSUME NEW n \in Net, NEW ref \in Refs(n), NEW value \in Arguments(n), Call(n, ref, value)
      PROVE  EnvInv'
  BY <1>2, CalledStep
<1>3. CASE Return
  BY <1>3, LeftStep DEF Return
<1>4. ASSUME NEW left \in {0, 1}, Enter("alt", left) PROVE EnvInv'
  BY <1>4, EnterStep
<1>5. ASSUME NEW kind \in {"opt", "opt*"}, Enter(kind, 0) PROVE EnvInv'
  BY <1>5, EnterStep
<1>6. CASE Succeed
  BY <1>6, SucceedStep
<1>7. CASE Fail
  BY <1>7 DEF Fail, EnvInv
<1>8. CASE Backtrack
  BY <1>8, BacktrackStep
<1>9. CASE FailNet
  <2>1. CASE Top > 1 /\ frames' = Front(frames) /\ store' = Forgotten(store)
    BY <1>9, <2>1, LeftStep DEF FailNet
  <2>2. CASE UNCHANGED <<store, frames>>
    BY <1>9, <2>2 DEF FailNet, EnvInv
  <2> QED BY <1>9, <2>1, <2>2 DEF FailNet
<1>10. CASE UNCHANGED envVars
  BY <1>10 DEF envVars, EnvInv
<1> QED BY <1>1, <1>2, <1>3, <1>4, <1>5, <1>6, <1>7, <1>8, <1>9, <1>10 DEF EnvNext

\* EnvInv holds in every state.
LEMMA EnvInvariant == EnvSpec => []EnvInv
BY EnvInitInv, EnvNextInv, PTL DEF EnvSpec

\* A failing branch leaves no trace: every variable of the nets being called has again
\* the value it had when the branch was entered (trp_pop_env).
THEOREM FailureUndone == EnvSpec => FailureRestores
<1>1. EnvInv /\ [EnvNext]_envVars => [FailureRestored]_envVars
  <2> SUFFICES ASSUME EnvInv, EnvNext, mode = "fail", Open # <<>>,
                      NEW v \in Variable, v[1] <= Top
               PROVE  store'[v] = Last(Open).seen[v]
    BY DEF FailureRestored
  <2>1. Backtrack
    <3>1. /\ \A u \in Variable, x \in Datum : ~SetVar(u, x)
          /\ \A n \in Net : \A ref \in Refs(n), value \in Arguments(n) : ~Call(n, ref, value)
          /\ \A kind, left : ~Enter(kind, left)
          /\ ~Return /\ ~Succeed /\ ~Fail /\ ~FailNet
      BY DEF SetVar, Call, Enter, Return, Succeed, Fail, FailNet
    <3> QED BY <3>1 DEF EnvNext
  <2>2. store' = Restored
    BY <2>1 DEF Backtrack
  <2>3. CASE v \in Seen
    BY <2>2, <2>3, RestoredIs
  <2>4. CASE v \notin Seen
    BY <2>2, <2>4, RestoredIs, DroppedIs
  <2> QED BY <2>3, <2>4
<1> QED BY <1>1, EnvInvariant, PTL DEF EnvSpec, FailureRestores

\* The positions of a layout are what StackBalanced sums up.
LEMMA LayoutBalanced ==
  ASSUME EnvInv
  PROVE  StackBalanced
<1> DEFINE P(d) == Len(frames[d].open) * Len(Saved(d))
           sum(f) == [d \in 0 .. Top |-> IF d = 0 THEN 0 ELSE f[d - 1] + P(d)]
           pushed == CHOOSE f : f = sum(f)
<1>1. Top \in Nat \ {0} /\ FramesAgree(frames) /\ Top = Len(frames)
  BY TopFacts DEF Top
<1>2. PICK at : Layout(stack, frames, at)
  BY DEF EnvInv, Restorable
<1>3. /\ at \in [1 .. Top + 1 -> Nat] /\ at[1] = 0 /\ at[Top + 1] = Len(stack)
      /\ \A d \in 1 .. Top : at[d + 1] = at[d] + P(d)
  <2>1. \A d : Saved(d) = Sees(frames, d)
    BY SavedIs DEF Sees
  <2> QED BY <1>1, <1>2, <2>1 DEF Layout, Place
<1> HIDE DEF P
<1>4. PICK g : g = [d \in 0 .. Top |-> at[d + 1]]
  OBVIOUS
<1>5. g = sum(g)
  <2>1. \A d \in 0 .. Top : g[d] = IF d = 0 THEN 0 ELSE g[d - 1] + P(d)
    <3> TAKE d \in 0 .. Top
    <3>1. CASE d = 0
      BY <1>3, <1>4, <3>1
    <3>2. CASE d # 0
      <4>1. d \in 1 .. Top /\ d - 1 \in 0 .. Top /\ (d - 1) + 1 = d
        BY <1>1, <3>2
      <4>2. g[d] = at[d + 1] /\ g[d - 1] = at[d]
        BY <1>4, <4>1
      <4> QED BY <1>3, <3>2, <4>1, <4>2
    <3> QED BY <3>1, <3>2
  <2> QED BY <1>4, <2>1
<1>6. pushed = sum(pushed)
  BY <1>5
<1> HIDE DEF pushed
<1>7. \A d \in 0 .. Top : pushed[d] = IF d = 0 THEN 0 ELSE pushed[d - 1] + P(d)
  BY <1>6
<1>8. \A d \in 0 .. Top : pushed[d] = g[d]
  <2> DEFINE I == {d \in 0 .. Top : pushed[d] # g[d]}
  <2> SUFFICES ASSUME I # {} PROVE FALSE
    OBVIOUS
  <2>1. PICK k \in I : \A j \in I : ~ j < k
    <3>1. I \in SUBSET Nat
      OBVIOUS
    <3> QED BY <3>1, LeastPosition
  <2>2. k # 0
    BY <1>3, <1>4, <1>7, <2>1
  <2>3. k - 1 \in 0 .. Top /\ k - 1 < k /\ (k - 1) + 1 = k /\ k \in 1 .. Top
    BY <1>1, <2>1, <2>2
  <2>4. pushed[k - 1] = g[k - 1]
    BY <2>1, <2>3
  <2>5. pushed[k] = at[k] + P(k)
    BY <1>4, <1>7, <2>2, <2>3, <2>4
  <2> QED BY <1>3, <1>4, <2>1, <2>3, <2>5
<1>9. pushed[Top] = Len(stack)
  BY <1>1, <1>3, <1>4, <1>8
<1> QED BY <1>9 DEF StackBalanced, pushed, P

\* The flat stack of trp_push_env holds exactly what the open alternatives of all the
\* nets have pushed.
THEOREM StackExact == EnvSpec => []StackBalanced
<1>1. EnvInv => StackBalanced
  BY LayoutBalanced
<1> QED BY <1>1, EnvInvariant, PTL
=============================================================================
