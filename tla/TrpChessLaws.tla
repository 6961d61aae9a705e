---------------------------- MODULE TrpChessLaws -----------------------------
(***************************************************************************)
(* What src/trpchess/trpchess.c promises: the game of chess, by its rules, *)
(* from squares, lines and men, without bitboards and without any field    *)
(* that is kept up to date from move to move.                              *)
(***************************************************************************)
EXTENDS Integers, FiniteSets, FiniteSetsExt

Square == 0 .. 63
Col(s) == s % 8
Row(s) == s \div 8

\* A man is its kind, plus 8 if it is black.
Empty == 16
NoSquare == 64
Pawn == 0
Knight == 1
Bishop == 2
Rook == 3
Queen == 4
King == 5
Kind(x) == x % 8
Side(x) == x \div 8
Belongs(x, side) == x # Empty /\ Side(x) = side

Gap(i, j) == IF i < j THEN j - i ELSE i - j
Across(s, t) == Gap(Col(s), Col(t))
Along(s, t) == Gap(Row(s), Row(t))

\* The squares a man may reach on an empty board, and those in between.
Orthogonal == [s \in Square |-> {t \in Square \ {s} : Across(s, t) = 0 \/ Along(s, t) = 0}]
Diagonal == [s \in Square |-> {t \in Square \ {s} : Across(s, t) = Along(s, t)}]
Hops == [s \in Square |-> {t \in Square : {Across(s, t), Along(s, t)} = {1, 2}}]
Steps == [s \in Square |-> {t \in Square \ {s} : Across(s, t) <= 1 /\ Along(s, t) <= 1}]
Ahead(side) == IF side = 0 THEN 1 ELSE -1
Strikes ==
  [side \in {0, 1} |-> [s \in Square |->
    {t \in Square : Across(s, t) = 1 /\ Row(t) = Row(s) + Ahead(side)}]]

Sign(i) == IF i < 0 THEN -1 ELSE IF i = 0 THEN 0 ELSE 1
Between ==
  [s \in Square |-> [t \in Orthogonal[s] \cup Diagonal[s] |->
    LET d == Sign(Col(t) - Col(s)) + 8 * Sign(Row(t) - Row(s))
        k == IF Across(s, t) = 0 THEN Along(s, t) ELSE Across(s, t)
    IN  {s + d * i : i \in 1 .. k - 1}]]

Sees(men, s, lines) == {t \in lines : \A u \in Between[s][t] : men[u] = Empty}

\* The squares the man on s attacks.
Attacks(men, s) == LET x == men[s] IN
  CASE Kind(x) = Pawn -> Strikes[Side(x)][s]
    [] Kind(x) = Knight -> Hops[s]
    [] Kind(x) = Bishop -> Sees(men, s, Diagonal[s])
    [] Kind(x) = Rook -> Sees(men, s, Orthogonal[s])
    [] Kind(x) = Queen -> Sees(men, s, Diagonal[s] \cup Orthogonal[s])
    [] OTHER -> Steps[s]

Men(men, side) == {s \in Square : Belongs(men[s], side)}
Attackers(men, t, side) == {s \in Men(men, side) : t \in Attacks(men, s)}
KingOf(men, side) == CHOOSE s \in Square : men[s] = King + 8 * side
Checkers(g) == Attackers(g.men, KingOf(g.men, g.turn), 1 - g.turn)
InCheck(g) == Checkers(g) # {}

\* A castling right is the square of its rook.
KingHome(side) == 4 + 56 * side
RookHomes(side) == {56 * side, 7 + 56 * side}

\* A move is its two squares and the kind its pawn becomes, Pawn if it stays one.
IsCastling(men, m) == Kind(men[m.from]) = King /\ Across(m.from, m.to) = 2
EnPassant(men, m) == Kind(men[m.from]) = Pawn /\ Across(m.from, m.to) = 1 /\ men[m.to] = Empty
PassedBy(m) == Col(m.to) + 8 * Row(m.from)

RookFrom(m) == IF m.to > m.from THEN m.from + 3 ELSE m.from - 4
RookTo(m) == (m.from + m.to) \div 2

After(men, m) ==
  LET placed == [men EXCEPT ![m.from] = Empty, ![m.to] = men[m.from] + m.prom] IN
  IF EnPassant(men, m) THEN [placed EXCEPT ![PassedBy(m)] = Empty]
  ELSE IF IsCastling(men, m)
  THEN [placed EXCEPT ![RookFrom(m)] = Empty, ![RookTo(m)] = men[RookFrom(m)]]
  ELSE placed

Destinations(g, s) ==
  LET men == g.men
      side == g.turn
      one == s + 8 * Ahead(side)
      two == s + 16 * Ahead(side)
      enemy == {t \in Attacks(men, s) : Belongs(men[t], 1 - side)}
  IN  IF Kind(men[s]) = Pawn
      THEN enemy \cup (Attacks(men, s) \cap {g.ep})
             \cup {t \in {one} : men[t] = Empty}
             \cup {t \in {two} : Row(s) = 1 + 5 * side /\ men[one] = Empty /\ men[two] = Empty}
      ELSE enemy \cup {t \in Attacks(men, s) : men[t] = Empty}

LastRow(side) == 7 - 7 * side

Candidates(g) ==
  UNION { { [from |-> s, to |-> t, prom |-> p] :
              t \in Destinations(g, s),
              p \in IF Kind(g.men[s]) = Pawn /\ Row(s) + Ahead(g.turn) = LastRow(g.turn)
                    THEN Knight .. Queen ELSE {Pawn} } : s \in Men(g.men, g.turn) }

\* Nothing stands between king and rook, and the king crosses no attack.
Castlings(g) ==
  { [from |-> KingHome(g.turn), to |-> IF r > KingHome(g.turn) THEN r - 1 ELSE r + 2, prom |-> Pawn] :
      r \in { r \in g.rights \cap RookHomes(g.turn) :
                LET k == KingHome(g.turn)
                    to == IF r > k THEN r - 1 ELSE r + 2
                IN  /\ \A s \in Between[k][r] : g.men[s] = Empty
                    /\ \A s \in {k, to} \cup Between[k][to] : Attackers(g.men, s, 1 - g.turn) = {} } }

Legal(g) ==
  {m \in Candidates(g) \cup Castlings(g) :
     LET men == After(g.men, m) IN Attackers(men, KingOf(men, g.turn), 1 - g.turn) = {}}

Play(g, m) ==
  LET men == After(g.men, m)
      pawn == Kind(g.men[m.from]) = Pawn
      double == pawn /\ Along(m.from, m.to) = 2
      beside == {s \in Steps[m.to] : Row(s) = Row(m.to)}
      moved == {m.from, m.to}
  IN  [ men |-> men,
        turn |-> 1 - g.turn,
        rights |-> {r \in g.rights : r \notin moved /\ KingHome(r \div 56) \notin moved},
        ep |-> IF double /\ \E s \in beside : men[s] = Pawn + 8 * (1 - g.turn)
               THEN (m.from + m.to) \div 2 ELSE NoSquare,
        clock |-> IF pawn \/ g.men[m.to] # Empty THEN 0 ELSE g.clock + 1,
        number |-> g.number + g.turn ]

\* The other side moves as if it were its turn.
Passed(g) == [g EXCEPT !.turn = 1 - @, !.ep = NoSquare]

Mate(g) == InCheck(g) /\ Legal(g) = {}
Stalemate(g) == ~InCheck(g) /\ Legal(g) = {}

\* No mate is possible: bare kings, one minor piece, or one bishop each on
\* squares of one shade.
InsufficientMaterial(men) ==
  LET rest == {s \in Square : men[s] # Empty /\ Kind(men[s]) # King} IN
  \/ Cardinality(rest) <= 1 /\ \A s \in rest : Kind(men[s]) \in {Knight, Bishop}
  \/ /\ {<<Kind(men[s]), Side(men[s])>> : s \in rest} = {<<Bishop, 0>>, <<Bishop, 1>>}
     /\ Cardinality(rest) = 2
     /\ \A s, t \in rest : (Col(s) + Row(s) + Col(t) + Row(t)) % 2 = 0

\* The side to move mates with move m and n - 1 more, whatever the answers.
RECURSIVE MatesWith(_, _, _)
MatesWith(g, m, n) ==
  LET h == Play(g, m) IN
  \/ Mate(h)
  \/ /\ n > 1
     /\ Legal(h) # {}
     /\ \A r \in Legal(h) :
          LET k == Play(h, r) IN \E s \in Legal(k) : MatesWith(k, s, n - 1)

MateIn(g, n) == n > 0 /\ \E m \in Legal(g) : MatesWith(g, m, n)

=============================================================================
