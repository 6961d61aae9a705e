--------------------------- MODULE MCTrpThreadWake ---------------------------
(***************************************************************************)
(* The instances of MCTrpThread with the invariant of TrpThreadWake and    *)
(* the mailboxes of TrpThreadRefinement.                                   *)
(***************************************************************************)
EXTENDS MCTrpThread, TrpThreadWake, TrpThreadRefinement
=============================================================================
