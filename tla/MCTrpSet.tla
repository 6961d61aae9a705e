------------------------------ MODULE MCTrpSet ------------------------------
(***************************************************************************)
(* A set of objects without an order.                                      *)
(***************************************************************************)
EXTENDS TrpSet

\* Distinct arrays of one length: equal for trp_less, and not for trp_equal.
SameSize == [x \in Element |-> 0]

OneSet == {[start |-> [sa |-> <<>>], pool |-> Element, copies |-> FALSE]}
=============================================================================
