--------------------------- MODULE MCTrpPositions ---------------------------
(* The positions the runs of TrpChess start from, with their bounds. *)
EXTENDS Integers

\* Columns a to h are 0 to 7.
At(men) ==
  [s \in 0 .. 63 |-> IF \E p \in men : p[1] = s THEN (CHOOSE p \in men : p[1] = s)[2] ELSE 16]

From(men, color, rights, moves) ==
  [ start |-> [board |-> At(men), color |-> color, rights |-> rights,
               enp |-> 64, ply |-> 0, mov |-> 1],
    moves |-> moves, mate |-> 0, stops |-> {} ]

\* All castlings, a bishop that forbids one of them, rooks that take rooks.
Castlings == From({<<4, 5>>, <<0, 3>>, <<7, 3>>, <<60, 13>>, <<56, 11>>, <<63, 11>>, <<40, 10>>},
                  0, {0, 7, 56, 63}, 1)
Rights == From({<<4, 5>>, <<7, 3>>, <<15, 0>>, <<60, 13>>, <<56, 11>>, <<48, 8>>}, 1, {7, 56}, 2)

\* A pawn passes another one, which may take it, or just did and may not be taken, as
\* that opens the line to a king.
Passing == [From({<<32, 5>>, <<36, 0>>, <<39, 11>>, <<63, 13>>, <<35, 8>>}, 0, {}, 1)
              EXCEPT !.start.enp = 43]
PassingBoth == From({<<4, 5>>, <<11, 0>>, <<13, 0>>, <<28, 8>>, <<62, 13>>}, 0, {}, 2)

\* A pawn becomes a piece, also by taking a rook that could castle, on a1 or d1.
Promotions == From({<<14, 5>>, <<49, 0>>, <<56, 11>>, <<60, 13>>}, 0, {56}, 1)
Corner == From({<<6, 5>>, <<3, 1>>, <<8, 8>>, <<10, 8>>, <<62, 13>>}, 1, {}, 1)

\* Discovered and double checks; three knights on one square; bishops alone.
Discovered == From({<<4, 5>>, <<12, 3>>, <<28, 1>>, <<60, 13>>}, 0, {}, 1)
Alike == From({<<0, 5>>, <<33, 1>>, <<37, 1>>, <<49, 1>>, <<63, 13>>}, 0, {}, 1)
TwoBishops == From({<<4, 5>>, <<2, 2>>, <<60, 13>>, <<61, 10>>, <<16, 9>>}, 0, {}, 1)

\* The side to move could take the king: refused.
Attacked == From({<<4, 5>>, <<12, 3>>, <<60, 13>>}, 0, {}, 1)

\* A clock that passes 255; mate, stalemate or a threat of mate in one move.
Long == [From({<<4, 5>>, <<0, 3>>, <<60, 13>>, <<8, 8>>}, 0, {}, 1) EXCEPT !.start.ply = 255]
Nearly == [From({<<53, 5>>, <<8, 3>>, <<38, 0>>, <<63, 13>>}, 0, {}, 1) EXCEPT !.mate = 1]

\* Taking in passing would be mate, were it the other side's turn.
NoThreat == [From({<<53, 5>>, <<55, 13>>, <<39, 0>>, <<29, 8>>, <<30, 0>>, <<31, 3>>}, 1, {}, 1)
               EXCEPT !.start.enp = 22]

\* Mate in two; in two and in three by different moves, twice; in one, two and three.
Searched(men, color, mate, stops) ==
  [From(men, color, {}, 0) EXCEPT !.mate = mate, !.stops = stops]
Tens(n) == {10 * k : k \in 1 .. n}
Waiting == Searched({<<45, 5>>, <<0, 3>>, <<62, 13>>}, 0, 2, 1 .. 40)
Breakthrough ==
  Searched({<<47, 5>>, <<43, 0>>, <<45, 0>>, <<50, 8>>, <<51, 8>>, <<63, 13>>}, 0, 3, Tens(21))
Race ==
  Searched({<<2, 13>>, <<25, 8>>, <<17, 8>>, <<21, 8>>, <<43, 0>>, <<0, 5>>}, 1, 3, Tens(19))
OneTwoThree ==
  Searched({<<40, 5>>, <<41, 0>>, <<42, 0>>, <<48, 2>>, <<54, 8>>, <<56, 13>>}, 0, 3, Tens(8))

Positions ==
  { Castlings, Rights, Passing, PassingBoth, Promotions, Corner, Discovered, Alike, TwoBishops,
    Attacked, Long, Nearly, NoThreat, Waiting, Breakthrough, Race, OneTwoThree }
=============================================================================
