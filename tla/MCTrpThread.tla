----------------------------- MODULE MCTrpThread -----------------------------
(***************************************************************************)
(* Small instances of TrpThread for TLC.                                   *)
(***************************************************************************)
EXTENDS TrpThread

CONSTANTS tm, ta, tb   \* three threads, model values

\* No thread-case.
NoCases == {}

\* Two alternatives for the two created threads, in either order.
WaitingCases == {<<From({ta}), From({tb})>>, <<From({tb}), From({ta})>>}

\* The same with a default between them: these never wait.
DefaultCases == {<<c[1], Default, c[2]>> : c \in WaitingCases}

\* The created threads are interchangeable.
Created == Permutations({ta, tb})
=============================================================================
