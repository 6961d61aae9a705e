------------------------------ MODULE TrpChess ------------------------------
(***************************************************************************)
(* The chess object of src/trpchess/trpchess.c: the board square by        *)
(* square, the counters and squares of kings that every move keeps up to   *)
(* date, and the answers that are computed once and forgotten by the next  *)
(* move.  Moves are generated on the bitboards of TrpChessBoard and made   *)
(* on the board of the object.                                             *)
(***************************************************************************)
EXTENDS TrpChessBoard

CONSTANTS
  Program,  \* start: the position of a FEN; moves: bound on the moves made;
            \* mate: bound on the search of a mate, 0 for none; stops: counts
            \* of positions at which that search is interrupted
  Unknown   \* an answer not computed yet

VARIABLES st, prog, left

cvars == <<st, prog, left>>

NoSquare == 64
Empty == 16
Color(x) == x \div 8
Men(board, color) == {s \in Square : board[s] # Empty /\ Color(board[s]) = color}
King(color) == 5 + 8 * color

\* The object of a FEN: its men, the side to move, the corners of the rights
\* (bits 1 to 4 of flags), enp, ply and mov, and what is counted on the way.
\* The counts leave the kings out; nothing is answered yet.
ObjectOf(b) ==
  LET count(color) == Cardinality(Men(b.board, color)) - 1
      king(color) == Min({s \in Square : b.board[s] = King(color)})
  IN  [ board |-> b.board, color |-> b.color, rights |-> b.rights, enp |-> b.enp,
        ply |-> b.ply, mov |-> b.mov,
        pw |-> count(0), pb |-> count(1), kw |-> king(0), kb |-> king(1),
        check |-> Unknown, domin |-> Unknown, moves |-> Unknown ]

\* Four bits of a man in the stored forms.
Pack(x) == CASE x = Empty -> 12 [] x # Empty /\ x >= 8 -> x - 2 [] OTHER -> x
Unpack(x) == CASE x = 12 -> Empty [] x # 12 /\ x >= 6 -> x + 2 [] OTHER -> x

Encoded(o) ==
  [ men |-> [s \in Square |-> Pack(o.board[s])], color |-> o.color, rights |-> o.rights,
    enp |-> o.enp, ply |-> o.ply, mov |-> o.mov ]

Decoded(b) ==
  LET count(kinds) == Cardinality({s \in Square : b.men[s] \in kinds})
      place(king) == Max({s \in Square : b.men[s] = king})
  IN  [ board |-> [s \in Square |-> Unpack(b.men[s])], color |-> b.color, rights |-> b.rights,
        enp |-> b.enp, ply |-> b.ply, mov |-> b.mov,
        pw |-> count(0 .. 4), pb |-> count(6 .. 10), kw |-> place(5), kb |-> place(11),
        check |-> Unknown, domin |-> Unknown, moves |-> Unknown ]

-----------------------------------------------------------------------------
(* The position as bitboards *)

OldToNew(o) ==
  LET Plane(k) == {s \in Square : o.board[s] < 14 /\ (((o.board[s] % 8) + 1) \div k) % 2 = 1}
      pos == [ PM |-> Men(o.board, 0), P0 |-> Plane(1), P1 |-> Plane(2), P2 |-> Plane(4),
               castle |-> o.rights, stm |-> 0,
               ep |-> IF o.enp = NoSquare THEN 8 ELSE o.enp % 8,
               count50 |-> o.ply % 2^8, mov |-> o.mov ]
  IN  IF o.color = 1 THEN ChangeSide(pos) ELSE pos

\* A move as the program sees it: squares of the board, and what a pawn becomes.
MoveOf(pos, m) ==
  LET sq(s) == IF pos.stm = 1 THEN OppSq(s) ELSE s IN
  <<sq(m.from), sq(m.to) + 64 * (IF m.prom = 0 THEN 0 ELSE m.prom - PAWN)>>

LegalMovesOf(o) == LET pos == OldToNew(o) IN {MoveOf(pos, m) : m \in LegalMoves(pos)}

Check(o) == IF InCheck(OldToNew(o)) = {} THEN 0 ELSE 1

\* How often the side to move attacks each square.
Dominated(pos) ==
  LET pieces == UNION { {<<piece, s>> : s \in BBPieces(pos, piece) \cap pos.PM} :
                          piece \in KNIGHT .. KING }
      pawns == Pawns(pos) \cap pos.PM
      blows == UNION { {<<x, t>> : t \in BBDestinations(x[1], x[2], Occupation(pos))} : x \in pieces }
                 \cup {<<<<PAWN, 9>>, t>> : t \in Shift(pawns, 9) \ File(0)}
                 \cup {<<<<PAWN, 7>>, t>> : t \in Shift(pawns, 7) \ File(7)}
  IN  [t \in Square |-> Cardinality({x \in blows : x[2] = t})]

Dominance(o) ==
  LET pos == OldToNew(o)
      own == Dominated(pos)
      other == Dominated(ChangeSide(pos))
      seen(d, color) == [t \in Square |-> d[IF color = 1 THEN OppSq(t) ELSE t]]
  IN  [c \in {0, 1} |-> seen(IF c = o.color THEN own ELSE other, c)]

\* The bitboards with color as the opponent, and the square as seen there.
Facing(o, idx, color) ==
  LET pos == OldToNew(o)
      sq == IF pos.stm = 1 THEN OppSq(idx) ELSE idx
  IN  IF color = o.color THEN [pos |-> ChangeSide(pos), sq |-> OppSq(sq)]
      ELSE [pos |-> pos, sq |-> sq]

\* The kings are attacked by the side to move: no position of a game.
Refused(b) ==
  LET o == ObjectOf(b)
      f == Facing(o, IF o.color = 1 THEN o.kw ELSE o.kb, o.color)
  IN  PiecesTo(f.pos, f.sq, Occupation(f.pos) \cup {f.sq}) \cap Opposing(f.pos) # {}

-----------------------------------------------------------------------------
(* A move on the object *)

\* Mutant: a rook taken in its corner leaves its right behind.
LostRights_Own(p1, p2, color, idx1, idx2) ==
  CASE p1 = 3 + 8 * color -> {idx1} \cap {56 * color, 56 * color + 7}
    [] p1 = King(color) -> {56 * color, 56 * color + 7}
    [] OTHER -> {}

LostRights(p1, p2, color, idx1, idx2) ==
  LostRights_Own(p1, p2, color, idx1, idx2)
    \cup (IF p2 \in {3, 11} THEN {idx2} \cap {56 * Color(p2), 56 * Color(p2) + 7} ELSE {})

\* Mutant: a pawn taken in passing is not counted out.
Taken_Square(pawn, p2, d, idx1, idx2) == IF p2 < Empty THEN idx2 ELSE NoSquare

\* The square of the man taken.
Taken(pawn, p2, d, idx1, idx2) ==
  CASE p2 < Empty -> idx2
    [] p2 = Empty /\ pawn /\ d \notin {8, 16} -> 8 * (idx1 \div 8) + (idx2 % 8)
    [] OTHER -> NoSquare

Forget(o) == [o EXCEPT !.check = Unknown, !.domin = Unknown, !.moves = Unknown]

NextLow(o, idx1, to) ==
  LET color == o.color
      idx2 == to % 64
      p1 == o.board[idx1]
      p2 == o.board[idx2]
      pawn == p1 = 8 * color
      d == IF color = 1 THEN idx1 - idx2 ELSE idx2 - idx1
      taken == Taken(pawn, p2, d, idx1, idx2)
      quiet == taken = NoSquare /\ ~pawn
      moved == [o.board EXCEPT ![idx1] = Empty, ![idx2] = p1]
      home == 4 + 56 * color
      board ==
        CASE pawn /\ p2 = Empty /\ taken # NoSquare -> [moved EXCEPT ![taken] = Empty]
          [] pawn /\ d # 16 /\ (p2 # Empty \/ taken = NoSquare) ->
               [moved EXCEPT ![idx2] = @ + (to \div 64)]
          [] p1 = King(color) /\ idx1 = home /\ idx2 = home + 2 ->
               [moved EXCEPT ![home + 1] = 3 + 8 * color, ![home + 3] = Empty]
          [] p1 = King(color) /\ idx1 = home /\ idx2 = home - 2 ->
               [moved EXCEPT ![home - 1] = 3 + 8 * color, ![home - 4] = Empty]
          [] OTHER -> moved
      beside == (IF idx1 % 8 > 0 THEN {idx2 - 1} ELSE {}) \cup (IF idx1 % 8 < 7 THEN {idx2 + 1} ELSE {})
      gone(c) == IF taken # NoSquare /\ color = 1 - c THEN 1 ELSE 0
  IN  Forget([o EXCEPT
        !.board = board,
        !.color = 1 - color,
        !.rights = @ \ LostRights(p1, p2, color, idx1, idx2),
        !.enp = IF pawn /\ d = 16 /\ \E s \in beside : board[s] = 8 * (1 - color)
                THEN (idx1 + idx2) \div 2 ELSE NoSquare,
        !.ply = IF quiet THEN (@ + 1) % 2^16 ELSE 0,
        !.mov = (@ + color) % 2^16,
        !.kw = IF p1 = King(0) THEN idx2 ELSE @,
        !.kb = IF p1 = King(1) THEN idx2 ELSE @,
        !.pw = @ - gone(0),
        !.pb = @ - gone(1)])

-----------------------------------------------------------------------------
(* Questions about a position and about one of its moves *)

\* An answer is computed when it is first asked for.
Answered(o, q) ==
  CASE q = "check" -> [o EXCEPT !.check = IF @ = Unknown THEN Check(o) ELSE @]
    [] q = "domin" -> [o EXCEPT !.domin = IF @ = Unknown THEN Dominance(o) ELSE @]
    [] q = "moves" -> [o EXCEPT !.moves = IF @ = Unknown THEN LegalMovesOf(o) ELSE @]

After(o, m) == NextLow(o, m[1], m[2])

Checkmate(o) == Check(o) = 1 /\ LegalMovesOf(o) = {}
Stalemate(o) == Check(o) = 0 /\ LegalMovesOf(o) = {}
DoubleCheck(o) == Cardinality(InCheck(OldToNew(o))) >= 2

MinorPiece(x) == x \in {1, 2, 9, 10}
InsufficientMaterial(o) ==
  LET bishops == {s \in Square : o.board[s] \in {2, 10}}
      shades == {((s % 8) + (s \div 8)) % 2 : s \in bishops}
  IN  CASE o.pw = 1 /\ o.pb = 1 -> Cardinality(bishops) >= 2 /\ Cardinality(shades) = 1
        [] o.pw = 0 /\ o.pb = 0 -> TRUE
        [] {o.pw, o.pb} = {0, 1} -> \E s \in Square : MinorPiece(o.board[s])
        [] OTHER -> FALSE

\* Mutant: a capture in passing is taken for a quiet move.
IsCapture_Square(o, m) == o.board[m[2] % 64] # Empty

IsCapture(o, m) ==
  o.board[m[2] % 64] # Empty \/ (m[2] % 64 = o.enp /\ o.board[m[1]] % 8 = 0)
IsCaptureEp(o, m) == m[2] = o.enp /\ o.board[m[1]] % 8 = 0
IsCastle(o, m) == (m[2] % 64) - m[1] \in {2, -2} /\ o.board[m[1]] % 8 = 5

\* The king is attacked as often with a pawn of its own in place of the man moved.
IsDiscoveryCheck(o, m) ==
  LET next == After(o, m)
      attacks(x) == Dominance(x)[1 - x.color][IF x.color = 1 THEN x.kb ELSE x.kw]
  IN  /\ attacks(next) # 0
      /\ attacks([next EXCEPT !.board[m[2] % 64] = 8 * next.color]) = attacks(next)

IsDoubleCheck(o, m) == DoubleCheck(After(o, m))

\* Mutant: the side that may not take in passing keeps the column of the other.
ThreatOfCheckmate_KeepsColumn(o) ==
  /\ LegalMovesOf(o) # {}
  /\ SearchMate(ChangeSide(OldToNew(o)), 1, 0, 0).acts # 0

\* Mate if the side that has just moved could move again; asked out of check.
ThreatOfCheckmate(o) ==
  /\ LegalMovesOf(o) # {}
  /\ SearchMate([ChangeSide(OldToNew(o)) EXCEPT !.ep = 8], 1, 0, 0).acts # 0

\* The parts of the algebraic notation of a move: piece, column and row it comes
\* from where they are written, capture, destination, promotion, check or mate.
MoveAlg(o, m) ==
  LET next == After(o, m)
      from == m[1]
      p == o.board[from]
      capture == next.pw + next.pb < o.pw + o.pb
      others == {s \in Square \ {from} : o.board[s] = p /\ <<s, m[2]>> \in Answered(o, "moves").moves}
      column == \A s \in others : s % 8 # from % 8
      row == \A s \in others : s \div 8 # from \div 8
      mark == IF Check(next) = 0 THEN "" ELSE IF LegalMovesOf(next) = {} THEN "#" ELSE "+"
  IN  IF IsCastle(o, m)
      THEN [castle |-> (m[2] % 64) > from, mark |-> mark]
      ELSE [ piece |-> p % 8,
             column |-> IF IF p % 8 = 0 THEN capture ELSE others # {} /\ (column \/ ~row)
                        THEN from % 8 ELSE 8,
             row |-> IF p % 8 # 0 /\ others # {} /\ ~column THEN from \div 8 ELSE 8,
             capture |-> capture, to |-> m[2], mark |-> mark ]

-----------------------------------------------------------------------------
(* Operations *)

CInit ==
  /\ prog \in {p \in Program : ~Refused(p.start)}
  /\ st = ObjectOf(prog.start)
  /\ left = prog.moves

Ask ==
  /\ \E q \in {"check", "domin", "moves"} : st' = Answered(st, q)
  /\ UNCHANGED <<prog, left>>

\* trp_chess_clone fills all answers before it copies them.
Clone ==
  /\ st' = Answered(Answered(Answered(st, "domin"), "check"), "moves")
  /\ UNCHANGED <<prog, left>>

\* trp_chess_next: a move that is not among the legal ones is refused.
Next ==
  /\ left > 0
  /\ \E m \in Answered(st, "moves").moves : st' = After(st, m)
  /\ left' = left - 1
  /\ UNCHANGED prog

\* trp_chess_next_fun without a move: the other side is to move.  The program
\* does not pass in check, where its king could be taken.
PassMove ==
  /\ left > 0
  /\ Check(st) = 0
  /\ st' = Forget([st EXCEPT !.enp = NoSquare, !.color = 1 - @])
  /\ left' = left - 1
  /\ UNCHANGED prog

Decode ==
  /\ st' = Decoded(Encoded(st))
  /\ UNCHANGED <<prog, left>>

\* The short form leaves the clocks out.
DecodeShort ==
  /\ st' = Decoded([Encoded(st) EXCEPT !.ply = 0, !.mov = 1])
  /\ UNCHANGED <<prog, left>>

CNext == Ask \/ Clone \/ Next \/ PassMove \/ Decode \/ DecodeShort

CSpec == CInit /\ [][CNext]_cvars

-----------------------------------------------------------------------------
(* Properties *)

Game ==
  [ men |-> st.board, turn |-> st.color, rights |-> st.rights, ep |-> st.enp,
    clock |-> st.ply, number |-> st.mov ]

R == INSTANCE TrpChessLaws

Chess == INSTANCE TrpChessRules WITH game <- Game

Shown(m) == <<m.from, m.to + 64 * m.prom>>

\* No answer is remembered.  What does not depend on the answers is checked
\* here; FieldsAgree compares those that are remembered.
Fresh == st = Forget(st)

(* The moves the bitboards yield are the legal ones: none too many, which  *)
(* would leave the king attacked, none missing, in every position that     *)
(* moves, passes and stored forms lead to.                                 *)
MovesExact == Fresh => LegalMovesOf(st) = {Shown(m) : m \in R!Legal(Game)}

(* What is kept up to date from move to move is what the board says: the   *)
(* counts, the squares of the kings and every answer that is remembered.   *)
(* The object and its bitboards agree on what each legal move leads to,    *)
(* and no two lead to the same: trp_chess_diff finds the move between two  *)
(* positions.                                                              *)
FieldsAgree ==
  /\ Forget(st) = ObjectOf(st)
  /\ \A q \in {"check", "domin", "moves"} :
       st[q] # Unknown => st[q] = Answered(Forget(st), q)[q]
  /\ Fresh =>
       LET pos == OldToNew(st)
           legal == LegalMoves(pos)
       IN  /\ \A m \in legal : MakeMove(pos, m) = OldToNew(After(st, MoveOf(pos, m)))
           /\ Cardinality({MakeMove(pos, m) : m \in legal}) = Cardinality(legal)

(* A pawn that becomes a knight on a1 goes to 64, where enp says none.     *)
KnightOnA1(m) == m.prom = R!Knight /\ m.to = 0 /\ st.enp = NoSquare

(* What trp_chess_move_is_capture_ep calls a capture in passing is a       *)
(* capture for trp_chess_move_is_capture too, which looks for the same     *)
(* case and says of it "è una presa al varco".                             *)
CaptureEpIsCapture ==
  \A m \in LegalMovesOf(st) : IsCaptureEp(st, m) => IsCapture(st, m)

(* The questions about a position and its moves are answered by the rules, *)
(* but for the move that CaptureEpIsCapture is about, and no two moves of  *)
(* a position have the same algebraic notation.                            *)
AnswersExact ==
  Fresh =>
    /\ (Check(st) = 1) = R!InCheck(Game)
    /\ Checkmate(st) = R!Mate(Game)
    /\ Stalemate(st) = R!Stalemate(Game)
    /\ InsufficientMaterial(st) = R!InsufficientMaterial(st.board)
    /\ Dominance(st) = [color \in {0, 1} |-> [s \in Square |->
                          Cardinality(R!Attackers(st.board, s, color))]]
    /\ \A m \in R!Legal(Game) :
         LET next == R!Play(Game, m) IN
         /\ IsCapture(st, Shown(m)) = (st.board[m.to] # Empty \/ R!EnPassant(st.board, m))
         /\ IsCaptureEp(st, Shown(m)) = (R!EnPassant(st.board, m) \/ KnightOnA1(m))
         /\ IsCastle(st, Shown(m)) = R!IsCastling(st.board, m)
         /\ IsDoubleCheck(st, Shown(m)) = (Cardinality(R!Checkers(next)) >= 2)
         /\ IsDiscoveryCheck(st, Shown(m)) = (R!InCheck(next) /\ m.to \notin R!Checkers(next))
    /\ LET known == Answered(st, "moves") IN
       Cardinality({MoveAlg(known, m) : m \in known.moves}) = Cardinality(known.moves)

\* A move is given only if it mates in the number of moves given, or in fewer.
Mates(found) ==
  found.acts # 0 =>
    \E m \in R!Legal(Game) :
      Shown(m) = MoveOf(OldToNew(st), found.move) /\ R!MatesWith(Game, m, found.acts)

Searching == Fresh /\ prog.mate > 0 /\ left = prog.moves

(* The search of a mate finds the shortest one within its bound, and a     *)
(* first move of it, or says rightly that there is none, also where longer *)
(* mates are found before or after it, which change the bound.             *)
SearchExact ==
  Searching =>
    LET lengths == {k \in 1 .. prog.mate : R!MateIn(Game, k)} IN
    \A n \in 1 .. prog.mate :
      LET found == SearchMate(OldToNew(st), n, 0, 0)
      IN  /\ found.acts = Min({k \in lengths : k <= n} \cup {n + 1}) % (n + 1)
          /\ Mates(found)

(* A search that is interrupted, at whatever position, says nothing false: *)
(* replies it has not looked at do not count as answered.  It may miss a   *)
(* mate or give one that is not the shortest.                              *)
InterruptionSound ==
  Searching =>
    \A stop \in prog.stops : Mates(SearchMate(OldToNew(st), prog.mate, stop, 0))

(* A threat of mate is what the side that has just moved would do if it    *)
(* could move again: no stalemate is one, and no capture in passing that   *)
(* only the side to move may make.                                         *)
ThreatExact ==
  Fresh /\ Check(st) = 0 =>
    ThreatOfCheckmate(st) = (R!Legal(Game) # {} /\ R!MateIn(R!Passed(Game), 1))

(* What is said of mates is right: the search finds the shortest one, what *)
(* it gives when it is interrupted is a mate, and a threat of mate is one. *)
MateExact == SearchExact /\ InterruptionSound /\ ThreatExact

(* The object plays chess: whatever is asked, cloned or stored in between, *)
(* it changes by legal moves and passed turns only.                        *)
ImplementsChess == Chess!RSpec
=============================================================================
