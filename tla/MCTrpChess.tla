----------------------------- MODULE MCTrpChess -----------------------------
(* Instances of TrpChess on its own. *)
EXTENDS TrpChess, MCTrpPositions

CornerOnly == {Corner}
=============================================================================
