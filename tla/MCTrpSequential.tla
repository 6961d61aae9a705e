--------------------------- MODULE MCTrpSequential ---------------------------
(***************************************************************************)
(* Instances of the modules about objects one thread works with.  They     *)
(* share no state: a behaviour chooses one of them, kind, and the others   *)
(* stay as they are.                                                       *)
(***************************************************************************)
EXTENDS TrpDgraphSearch, TrpTree, TrpLinked, TrpEnv, TrpFor, TrpDate, TrpArray, TLC

VARIABLES
  kind,
  setProg, tree, setLen, setVal,   \* TrpSet
  game, gameProg, movesLeft        \* TrpChess

-----------------------------------------------------------------------------
(* Sets and associative arrays: the AVL tree of five levels that has the   *)
(* fewest nodes, with some of its leaves and inner nodes taken out and put *)
(* back; one set that grows; two and three sets; two associative arrays.   *)

Deep == <<8, 5, 11, 3, 7, 10, 12, 2, 4, 6, 9, 1>>
SetElements == 1 .. 12
Ranks == [x \in SetElements |-> x]
SetPrograms ==
  { [start |-> [sa |-> Deep], pool |-> {1, 2, 5, 8, 11, 12}, copies |-> FALSE],
    [start |-> [sa |-> <<>>], pool |-> 1 .. 7, copies |-> TRUE],
    [start |-> [sa |-> <<>>, sb |-> <<>>], pool |-> 1 .. 3, copies |-> TRUE],
    [start |-> [sa |-> <<>>, sb |-> <<>>, sc |-> <<>>], pool |-> 1 .. 2, copies |-> TRUE],
    [start |-> [aa |-> <<>>, ab |-> <<>>], pool |-> 1 .. 2, copies |-> TRUE] }

Sets == INSTANCE TrpSet WITH
  Element <- SetElements, Rank <- Ranks, Program <- SetPrograms, MaxNumber <- 2, MaxOperands <- 3,
  Set <- {"sa", "sb", "sc"}, Assoc <- {"aa", "ab"},
  prog <- setProg, len <- setLen, val <- setVal

(* The three sorts of one array. *)
Sorting == INSTANCE TrpArraySorts

(* Two queues, one stack, two lists: a program has variables of one kind. *)
CellPrograms ==
  { [vars |-> {"qa", "qb"}, cells |-> 1 .. 3],
    [vars |-> {"sa"}, cells |-> 1 .. 4],
    [vars |-> {"la", "lb"}, cells |-> 1 .. 3] }

(* A net that may call itself or one with a parameter by reference. *)
Nets == {"main", "sub"}
NetParams == [n \in Nets |-> IF n = "main" THEN <<>> ELSE <<"@r", "i">>]
NetLocals == [n \in Nets |-> IF n = "main" THEN <<"j">> ELSE <<>>]

GlobalNames == <<"g">>

(* Bounds and steps of loops. *)
Bounds == {-1, 0, 1, 2, 5}

(* The date of behaviours about something else. *)
Epoch == Date(0, 1, 1, 0, 0, 0, East)

(* Chess, from the positions of a module of their own. *)
Opening == INSTANCE MCTrpPositions
Boards == INSTANCE TrpChess WITH
  Program <- Opening!Positions, Unknown <- Unset,
  st <- game, prog <- gameProg, left <- movesLeft

-----------------------------------------------------------------------------
setVars == <<setProg, tree, setLen, setVal>>
gameVars == <<game, gameProg, movesLeft>>

Kinds == {"graph", "tree", "set", "array", "chain", "alternative", "loop", "date", "chess"}

MCInit ==
  /\ kind \in Kinds
  /\ Init /\ TreeInit
  /\ IF kind = "set" THEN Sets!Init
     ELSE setProg = None /\ tree = None /\ setLen = None /\ setVal = None
  /\ ArrayInit
  /\ kind # "array" => incr = [a \in Array |-> CHOOSE i \in Increments : TRUE]
  /\ ChainInit
  /\ kind # "chain" => prog = CHOOSE p \in CellPrograms : TRUE
  /\ EnvInit
  /\ IF kind = "loop" THEN items \in SeqOf(Item, MaxItems) ELSE items = <<>>
  /\ ForInit
  /\ IF kind = "date" THEN DateInit
     ELSE date = Epoch /\ spoilt = FALSE /\ origin = Epoch /\ elapsed = 0 /\ shown = Epoch /\ calls = 0
  /\ IF kind = "chess" THEN Boards!CInit
     ELSE game = None /\ gameProg = None /\ movesLeft = None

MCNext ==
  /\ UNCHANGED kind
  /\ \/ /\ kind = "graph" /\ Next
        /\ UNCHANGED <<treeVars, setVars, arrayVars, chainVars, envVars, forVars, dateVars, gameVars>>
     \/ /\ kind = "tree" /\ TreeNext
        /\ UNCHANGED <<vars, setVars, arrayVars, chainVars, envVars, forVars, dateVars, gameVars>>
     \/ /\ kind = "set" /\ Sets!Next
        /\ UNCHANGED <<vars, treeVars, arrayVars, chainVars, envVars, forVars, dateVars, gameVars>>
     \/ /\ kind = "array" /\ ArrayNext
        /\ UNCHANGED <<vars, treeVars, setVars, chainVars, envVars, forVars, dateVars, gameVars>>
     \/ /\ kind = "chain" /\ ChainNext
        /\ UNCHANGED <<vars, treeVars, setVars, arrayVars, envVars, forVars, dateVars, gameVars>>
     \/ /\ kind = "alternative" /\ EnvNext
        /\ UNCHANGED <<vars, treeVars, setVars, arrayVars, chainVars, forVars, dateVars, gameVars>>
     \/ /\ kind = "loop" /\ ForNext
        /\ UNCHANGED <<vars, treeVars, setVars, arrayVars, chainVars, envVars, dateVars, gameVars>>
     \/ /\ kind = "date" /\ DateNext
        /\ UNCHANGED <<vars, treeVars, setVars, arrayVars, chainVars, envVars, forVars, gameVars>>
     \/ /\ kind = "chess" /\ Boards!CNext
        /\ UNCHANGED <<vars, treeVars, setVars, arrayVars, chainVars, envVars, forVars, dateVars>>

allVars == <<kind, vars, treeVars, setVars, arrayVars, chainVars, envVars, forVars, dateVars, gameVars>>

MCSpec == MCInit /\ [][MCNext]_allVars

-----------------------------------------------------------------------------
(* Properties of the instances, each for the kind it is about; those of    *)
(* TrpDgraphSearch, TrpTree, TrpLinked, TrpEnv, TrpFor, TrpDate and        *)
(* TrpArray go by their own names.                                         *)

(* The rebalancing of avl_tree.c leaves a search tree whose balance        *)
(* factors are the differences of heights, none beyond one.                *)
Balanced == kind = "set" => Sets!Balanced

(* Cat, intersection, difference, equality and disjointness of             *)
(* trp_t_set.c agree with those of the sets of members.                    *)
AlgebraExact == kind = "set" => Sets!AlgebraExact

(* Sets and associative arrays over the AVL tree implement the sets and    *)
(* maps of TrpMap.                                                         *)
ImplementsMap ==
  (kind = "set" => Sets!M!Init) /\ [][kind = "set" => Sets!M!Next]_(Sets!Content)

(* The three sorts of trp_t_array.c order every array that can be built,   *)
(* without losing or doubling an element.                                  *)
SortsExact == kind = "array" => Sorting!SortsExact

(* The bitboards of trpchess.c yield exactly the legal moves.              *)
MovesExact == kind = "chess" => Boards!MovesExact

(* Counts, squares of kings and remembered answers match the board, and    *)
(* the object and its bitboards make the same moves.                       *)
FieldsAgree == kind = "chess" => Boards!FieldsAgree

(* Checks, mates, attacks, kinds of moves and their notation are what the  *)
(* rules say.                                                              *)
AnswersExact == kind = "chess" => Boards!AnswersExact

(* The search of a mate finds the shortest one there is within its bound,  *)
(* gives none that is not one when it is interrupted, and a threat of mate *)
(* is one by the rules.                                                    *)
MateExact == kind = "chess" => Boards!MateExact

(* The object changes by legal moves and passed turns only.                *)
ImplementsChess == [][kind = "chess" => Boards!Chess!RNext]_(Boards!Game)
=============================================================================
