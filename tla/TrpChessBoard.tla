---------------------------- MODULE TrpChessBoard ----------------------------
(***************************************************************************)
(* The bitboards of src/trpchess/trpchess.c: generation of moves, the test *)
(* of their legality, moves on the board and the search of a mate.  A      *)
(* bitboard is the set of its squares.  A position is seen by the side to  *)
(* move, whose first row is row 0.                                         *)
(***************************************************************************)
EXTENDS Integers, FiniteSets, FiniteSetsExt

Square == 0 .. 63
Rank(r) == 8 * r .. 8 * r + 7
File(c) == {8 * r + c : r \in 0 .. 7}

Xor(A, B) == (A \ B) \cup (B \ A)
Shift(A, d) == {s + d : s \in A} \cap Square
OppSq(s) == 8 * (7 - (s \div 8)) + (s % 8)
RevBB(A) == {OppSq(s) : s \in A}

PAWN == 1
KNIGHT == 2
BISHOP == 3
ROOK == 4
QUEEN == 5
KING == 6

Occupation(pos) == pos.P0 \cup pos.P1 \cup pos.P2
Pawns(pos) == pos.P0 \ (pos.P1 \cup pos.P2)
Knights(pos) == pos.P1 \ (pos.P0 \cup pos.P2)
Bishops(pos) == pos.P0 \cap pos.P1
Rooks(pos) == pos.P2 \ (pos.P0 \cup pos.P1)
Queens(pos) == pos.P0 \cap pos.P2
Kings(pos) == pos.P1 \cap pos.P2
Opposing(pos) == Xor(pos.PM, Occupation(pos))

BBPieces(pos, piece) ==
  CASE piece = KNIGHT -> Knights(pos) [] piece = BISHOP -> Bishops(pos)
    [] piece = ROOK -> Rooks(pos) [] piece = QUEEN -> Queens(pos)
    [] piece = KING -> Kings(pos)

\* CastleFlags as the corners of the rooks: 7 and 0 of the side to move, 63 and 56.
ChangeSide(pos) ==
  [pos EXCEPT !.PM = RevBB(Xor(@, Occupation(pos))),
              !.P0 = RevBB(@), !.P1 = RevBB(@), !.P2 = RevBB(@),
              !.castle = RevBB(@), !.stm = 1 - @]

-----------------------------------------------------------------------------
(* Destinations *)

Apart(s, t) == {(s % 8) - (t % 8), (t % 8) - (s % 8)}
Above(s, t) == {(s \div 8) - (t \div 8), (t \div 8) - (s \div 8)}
KnightDest ==
  [s \in Square |-> {t \in Square : \/ 1 \in Apart(s, t) /\ 2 \in Above(s, t)
                                    \/ 2 \in Apart(s, t) /\ 1 \in Above(s, t)}]
KingDest ==
  [s \in Square |-> {t \in Square \ {s} : /\ Apart(s, t) \cap {0, 1} # {}
                                          /\ Above(s, t) \cap {0, 1} # {}}]

\* A mask shifted to a square; it runs on round the edges of the board.
Ray ==
  [s \in Square |-> [d \in {1, 7, 8, 9, -1, -7, -8, -9} |->
    {s + d * k : k \in 0 .. (IF d \in {7, -7} THEN 9 ELSE 7)} \cap Square]]

\* From the first piece or edge in each direction a mask in the opposite one.
Slide(s, d, occ, top, bottom) ==
  LET hi == Min(Ray[s][d] \cap (occ \cup top))
      lo == Max(Ray[s][-d] \cap (occ \cup bottom))
  IN  Ray[hi][-d] \cap Ray[lo][d]

GenRook(s, occupation) ==
  LET occ == Xor(occupation, {s}) IN
  Xor(Slide(s, 8, occ, Rank(7), Rank(0)) \cup Slide(s, 1, occ, File(7), File(0)), {s})

GenBishop(s, occupation) ==
  LET occ == Xor(occupation, {s}) IN
  Xor(Slide(s, 9, occ, Rank(7) \cup File(7), Rank(0) \cup File(0))
        \cup Slide(s, 7, occ, Rank(7) \cup File(0), Rank(0) \cup File(7)), {s})

BBDestinations(piece, s, occ) ==
  CASE piece = KNIGHT -> KnightDest[s] [] piece = BISHOP -> GenBishop(s, occ)
    [] piece = ROOK -> GenRook(s, occ) [] piece = KING -> KingDest[s]
    [] piece = QUEEN -> GenRook(s, occ) \cup GenBishop(s, occ)

\* Pieces, of either side, that move to square s but for pawns, and pawns of the opponent.
NotPawnsTo(pos, s, occ) ==
  (KnightDest[s] \cap Knights(pos))
    \cup (GenRook(s, occ) \cap (Rooks(pos) \cup Queens(pos)))
    \cup (GenBishop(s, occ) \cap (Bishops(pos) \cup Queens(pos)))
    \cup (KingDest[s] \cap Kings(pos))
PawnSources(s) == (Shift({s}, 9) \ File(0)) \cup (Shift({s}, 7) \ File(7))
PiecesTo(pos, s, occ) == NotPawnsTo(pos, s, occ) \cup (PawnSources(s) \cap Pawns(pos))

InCheck(pos) ==
  PiecesTo(pos, Min(Kings(pos) \cap pos.PM), Occupation(pos)) \cap Opposing(pos)

\* Mutant: a pawn taken in passing still covers its king.
Illegal_PassedStays(pos, m) ==
  LET occ == (Occupation(pos) \ {m.from}) \cup {m.to}
      king == IF m.piece = KING THEN m.to ELSE Min(Kings(pos) \cap pos.PM)
  IN  PiecesTo(pos, king, occ) \cap (Opposing(pos) \ {m.to})

\* The pieces that would attack the king after the move.
Illegal(pos, m) ==
  LET passed == IF "EP" \in m.flags THEN {m.to - 8} ELSE {}
      occ == Xor((Occupation(pos) \ {m.from}) \cup {m.to}, passed)
      king == IF m.piece = KING THEN m.to ELSE Min(Kings(pos) \cap pos.PM)
  IN  PiecesTo(pos, king, occ) \cap Xor(Opposing(pos) \ {m.to}, passed)

-----------------------------------------------------------------------------
(* Generation of moves *)

Mv(piece, flags, from, to, prom) ==
  [piece |-> piece, flags |-> flags, from |-> from, to |-> to, prom |-> prom]

PieceMoves(pos, flags, targets) ==
  UNION { UNION { {Mv(piece, flags, s, t, 0) :
                     t \in targets \cap BBDestinations(piece, s, Occupation(pos))} :
                  s \in BBPieces(pos, piece) \cap pos.PM } : piece \in KNIGHT .. KING }

First(A) == {s \in A : \A t \in A : s <= t}
Column(s) == Ray[s][8] \ {s}
ToLeft(s) == {t \in Ray[s][7] : t % 8 < s % 8}
ToRight(s) == {t \in Ray[s][9] : t % 8 > s % 8}

FirstOn(lines, occ) == UNION {First(l \cap occ) : l \in lines}

Unattacked(pos, roo, bis, knights, pawns, kings) ==
  Opposing(pos) \cap ( (roo \cap (Rooks(pos) \cup Queens(pos)))
                         \cup (bis \cap (Bishops(pos) \cup Queens(pos)))
                         \cup (knights \cap Knights(pos)) \cup (pawns \cap Pawns(pos))
                         \cup (kings \cap Kings(pos)) ) = {}

LongCastling(pos) == LET occ == Occupation(pos) IN
  {Mv(KING, {"CASTLE"}, 4, 2, 0) : x \in
     { x \in {0} \cap pos.castle :
         /\ occ \cap {1, 2, 3} = {}
         /\ Unattacked(pos, FirstOn({Column(4), Column(3), Column(2), {5, 6, 7}}, occ),
                       FirstOn({ToLeft(4), ToLeft(3), ToLeft(2),
                                ToRight(4), ToRight(3), ToRight(2)}, occ),
                       {8, 9, 10, 12, 13, 14} \cup 17 .. 21, 9 .. 13, {9, 10}) }}

ShortCastling(pos) == LET occ == Occupation(pos) IN
  {Mv(KING, {"CASTLE"}, 4, 6, 0) : x \in
     { x \in {7} \cap pos.castle :
         /\ occ \cap {5, 6} = {}
         /\ Unattacked(pos, FirstOn({Column(4), Column(5), Column(6)}, occ)
                              \cup {Max(0 .. 3 \cap (occ \cup {0}))},
                       FirstOn({ToLeft(4), ToLeft(5), ToLeft(6), ToRight(4), ToRight(5)}, occ)
                         \cup {15},
                       {10, 11, 12, 14, 15} \cup 19 .. 23, 11 .. 15, {14}) }}

GenerateQuiets(pos) ==
  LET occ == Occupation(pos)
      push1 == Shift(Pawns(pos) \cap pos.PM, 8) \ (occ \cup Rank(7))
      push2 == (Shift(push1, 8) \ occ) \cap Rank(3)
  IN  PieceMoves(pos, {}, Square \ occ)
        \cup {Mv(PAWN, {}, t - 8, t, 0) : t \in push1}
        \cup {Mv(PAWN, {}, t - 16, t, 0) : t \in push2}
        \cup LongCastling(pos) \cup ShortCastling(pos)

GenerateCapture2(pos) ==
  LET pawns == Pawns(pos) \cap pos.PM
      right == (Shift(pawns, 9) \ File(0)) \cap Opposing(pos)
      left == (Shift(pawns, 7) \ File(7)) \cap Opposing(pos)
      Become(flags, targets, d) ==
        {Mv(PAWN, {"PROMO"} \cup flags, t - d, t, prom) :
           t \in targets \cap Rank(7), prom \in KNIGHT .. QUEEN}
  IN  PieceMoves(pos, {"CAPTURE"}, Opposing(pos))
        \cup {Mv(PAWN, {"CAPTURE"}, t - 9, t, 0) : t \in right \ Rank(7)}
        \cup {Mv(PAWN, {"CAPTURE"}, t - 7, t, 0) : t \in left \ Rank(7)}
        \cup Become({"CAPTURE"}, right, 9) \cup Become({"CAPTURE"}, left, 7)
        \cup Become({}, Shift(pawns, 8) \ Occupation(pos), 8)
        \cup {Mv(PAWN, {"EP", "CAPTURE"}, s, 40 + pos.ep, 0) :
                s \in {s \in pawns \cap Rank(4) : pos.ep # 8 /\ 1 \in Apart(s, pos.ep)}}

LegalMoves(pos) ==
  {m \in GenerateQuiets(pos) \cup GenerateCapture2(pos) : Illegal(pos, m) = {}}

-----------------------------------------------------------------------------
(* Moves on the board *)

Without(pos, dest) == [pos EXCEPT !.P0 = @ \ dest, !.P1 = @ \ dest, !.P2 = @ \ dest]

\* The piece moves in the planes its number has a bit in.
Moved(pos, piece, both) ==
  [pos EXCEPT !.PM = Xor(@, both),
              !.P0 = IF piece % 2 = 1 THEN Xor(@, both) ELSE @,
              !.P1 = IF (piece \div 2) % 2 = 1 THEN Xor(@, both) ELSE @,
              !.P2 = IF piece \div 4 = 1 THEN Xor(@, both) ELSE @]

Promoted(pos, m) ==
  [pos EXCEPT !.PM = Xor(@, {m.from, m.to}),
              !.P0 = Xor(@, {m.from}) \cup {t \in {m.to} : m.prom % 2 = 1},
              !.P1 = @ \cup {t \in {m.to} : (m.prom \div 2) % 2 = 1},
              !.P2 = @ \cup {t \in {m.to} : m.prom \div 4 = 1}]

\* The column of a pawn that has just gone two squares past one of the opponent.
EpAfter(pos, m) ==
  IF m.to = m.from + 16
     /\ \E s \in Rank(3) \cap Pawns(pos) \cap Opposing(pos) : 1 \in Apart(s, m.to)
  THEN m.to % 8 ELSE 8

MovePawn(pos, m) ==
  IF "EP" \in m.flags
  THEN [Moved(pos, PAWN, {m.from, m.to}) EXCEPT !.P0 = Xor(@, {m.to - 8}), !.ep = 8]
  ELSE LET taken == IF "CAPTURE" \in m.flags THEN Without(pos, {m.to}) ELSE pos
           moved == IF "PROMO" \in m.flags THEN Promoted(taken, m)
                    ELSE Moved(taken, PAWN, {m.from, m.to})
       IN  [moved EXCEPT !.ep = IF "PROMO" \in m.flags THEN 8 ELSE EpAfter(moved, m)]

MovePiece(pos, m) ==
  LET taken == IF "CAPTURE" \in m.flags THEN Without(pos, {m.to}) ELSE pos
      moved == Moved(taken, m.piece, {m.from, m.to})
      rook == IF m.to = 6 THEN {5, 7} ELSE {0, 3}
  IN  IF "CASTLE" \in m.flags
      THEN [moved EXCEPT !.PM = Xor(@, rook), !.P2 = Xor(@, rook), !.ep = 8]
      ELSE [moved EXCEPT !.ep = 8]

RightsLost(m) ==
  (IF m.piece = ROOK THEN {m.from} \cap {0, 7} ELSE IF m.piece = KING THEN {0, 7} ELSE {})
    \cup (IF "CAPTURE" \in m.flags /\ "EP" \notin m.flags THEN {m.to} \cap {56, 63} ELSE {})

MakeMove(pos, m) ==
  LET moved == IF m.piece = PAWN THEN MovePawn(pos, m) ELSE MovePiece(pos, m) IN
  ChangeSide([moved EXCEPT !.castle = @ \ RightsLost(m),
                           !.mov = (@ + pos.stm) % 2^16,
                           !.count50 = IF m.piece = PAWN \/ "CAPTURE" \in m.flags THEN 0
                                       ELSE (@ + 1) % 2^8])

-----------------------------------------------------------------------------
(* Search of a mate *)

NotFound == [acts |-> 0, move |-> Mv(0, {}, 0, 0, 0), positions |-> 0, over |-> FALSE]

\* Mutant: a mate that was found does not shorten the search for others.
Depth_Same(n, best) == n - 1

\* How long a mate after the next move may be: shorter than the best so far.
Depth(n, best) == IF best = 0 THEN n - 1 ELSE best - 2

\* The function of the caller, asked at count stop, ends the search; 0 if it never does.
Interrupted(positions, stop) == stop # 0 /\ positions >= stop

\* Mutant: an interruption ends the replies only, with those answered so far.
Judged_Answered(best, m, t) ==
  IF t.ended = "escaped" \/ t.acts = 0 THEN [best EXCEPT !.positions = t.positions]
  ELSE [best EXCEPT !.positions = t.positions, !.acts = t.acts + 1, !.move = m]

\* What the replies say of move m: a mate if there is one after each of them.
Judged(best, m, t) ==
  CASE t.ended = "escaped" -> [best EXCEPT !.positions = t.positions]
    [] t.ended = "interrupted" -> [best EXCEPT !.positions = t.positions, !.over = TRUE]
    [] t.ended = "no" -> [best EXCEPT !.positions = t.positions, !.acts = t.acts + 1, !.move = m]

\* positions counts the moves looked at; acts is the length of the mate, 0 for none.
RECURSIVE SearchMate(_, _, _, _)
SearchMate(pos, n, stop, positions) ==
  LET Reply(next, depth, r, t) ==
        LET found == SearchMate(MakeMove(next, r), depth, stop, t.positions + 1) IN
        CASE t.ended # "no" -> t
          [] t.ended = "no" /\ Interrupted(t.positions + 1, stop) ->
               [t EXCEPT !.positions = @ + 1, !.ended = "interrupted"]
          [] OTHER -> [ acts |-> Max({t.acts, found.acts}), positions |-> found.positions,
                        ended |-> IF found.acts = 0 THEN "escaped" ELSE "no" ]
      Try(m, best) ==
        LET next == MakeMove(pos, m)
            replies == LegalMoves(next)
            depth == Depth(n, best.acts)
            Step(r, t) == Reply(next, depth, r, t)
            seen == [best EXCEPT !.positions = @ + 1]
        IN  CASE best.over -> best
              [] ~best.over /\ replies = {} ->
                   IF InCheck(next) = {} THEN seen
                   ELSE [seen EXCEPT !.acts = 1, !.move = m, !.over = TRUE]
              [] ~best.over /\ replies # {} ->
                   IF n <= 1 \/ depth = 0 THEN seen
                   ELSE Judged(best, m, FoldSet(Step, [acts |-> 0, positions |-> seen.positions,
                                                       ended |-> "no"], replies))
  IN  FoldSet(Try, [NotFound EXCEPT !.positions = positions], LegalMoves(pos))
=============================================================================
