---------------------------- MODULE TrpChessRules ----------------------------
(***************************************************************************)
(* What src/trpchess/trpchess.c promises: a game of chess by the laws of   *)
(* TrpChessLaws.                                                           *)
(***************************************************************************)
LOCAL INSTANCE TrpChessLaws

VARIABLE game    \* men, turn, rights, ep, clock, number

Move == \E m \in Legal(game) : game' = Play(game, m)

Pass == ~InCheck(game) /\ game' = Passed(game)

\* A position written without its clocks starts them again.
Restart == game' = [game EXCEPT !.clock = 0, !.number = 1]

RNext == Move \/ Pass \/ Restart

RSpec == [][RNext]_game
=============================================================================
