------------------------------- MODULE TrpEnv -------------------------------
(***************************************************************************)
(* Alternatives: what a thread does when a test of alt, opt or opt* fails. *)
(* The code the compiler generates (src/compiler/test.tin) saves the       *)
(* variables its net can see on one stack of the thread (trp_push_env,     *)
(* src/trp/trp_support.c), takes them back when a test fails (trp_pop_env) *)
(* and drops them when the branch succeeds (trp_pop_env_void).  The stack  *)
(* is flat: nothing on it says where the values of one alternative end.    *)
(*                                                                         *)
(* A net can see the globals, its parameters and its locals; a parameter   *)
(* by reference is a variable of a caller.  One thread is modelled: the    *)
(* comment at trp_support.c:167 warns that others may share the globals.   *)
(***************************************************************************)
EXTENDS Integers, SequencesExt

CONSTANTS
  Net, Main,  \* the nets, and the one the program starts with, without parameters
  Globals,    \* the names of the globals, a sequence
  Params,     \* Params[n], Locals[n]: the names of the parameters and locals of n
  Locals,
  ByRef,      \* the parameters by reference
  Datum, Unset,
  MaxDepth,   \* bound: nested calls
  MaxOpen,    \* bound: alternatives open at one time
  MaxSets     \* bound: assignments

\* A variable is a name in a frame, counted from 1, or a global, in frame 0.
Variable ==
  {<<0, x>> : x \in Range(Globals)}
  \cup UNION {(1 .. MaxDepth) \X ((Range(Params[n]) \ ByRef) \cup Range(Locals[n])) : n \in Net}

\* A parameter by reference is no local.
ASSUME EnvAssumption ==
  /\ Main \in Net /\ Params[Main] = <<>> /\ MaxDepth \in Nat \ {0}
  /\ Globals \in Seq(Range(Globals))
  /\ \A n \in Net : /\ Params[n] \in Seq(Range(Params[n])) /\ Locals[n] \in Seq(Range(Locals[n]))
                    /\ Range(Locals[n]) \cap ByRef = {}

VARIABLES
  store,   \* store[v]: the value of the variable v
  stack,   \* the stack of the environment, its top last
  frames,  \* the nets being called: [net, ref, open]
  mode,    \* "run"; "fail" on the way to the label of failure; "end"
  sets     \* assignments so far

envVars == <<store, stack, frames, mode, sets>>

\* ref[p]: the variable the parameter p stands for; open: the alternatives the net
\* is in, each with the branches it has left and, for the properties only, the
\* store it was entered with.
Frame(n, ref) == [net |-> n, ref |-> ref, open |-> <<>>]

EnvInit ==
  /\ store = [v \in Variable |-> Unset]
  /\ stack = <<>>
  /\ frames = <<Frame(Main, <<>>)>>
  /\ mode = "run"
  /\ sets = 0

-----------------------------------------------------------------------------

Top == Len(frames)
Open == frames[Top].open

Local(d, x) == IF x \in ByRef THEN frames[d].ref[x] ELSE <<d, x>>

\* What the net of frame d saves, in the order of the pushes.
Saved(d) ==
  LET n == frames[d].net
      own == Params[n] \o Locals[n]
  IN  [i \in DOMAIN Globals |-> <<0, Globals[i]>>] \o [i \in DOMAIN own |-> Local(d, own[i])]

\* trp_push_env on the stack st, when the variables have the values s.
Pushed(st, s) == st \o [i \in DOMAIN Saved(Top) |-> s[Saved(Top)[i]]]

\* Mutant: the globals stay on the stack.
Dropped_GlobalsStay == SubSeq(stack, 1, Len(stack) - Len(Saved(Top)) + Len(Globals))

\* The stack after trp_pop_env or trp_pop_env_void.
Dropped == SubSeq(stack, 1, Len(stack) - Len(Saved(Top)))

\* Mutant: the variables are popped in the order they were pushed.
Restored_PushOrder ==
  LET saved == Saved(Top)
      taken == Reverse(SubSeq(stack, Len(stack) - Len(saved) + 1, Len(stack)))
  IN  [v \in Variable |->
         IF v \in Range(saved) THEN taken[CHOOSE i \in DOMAIN saved : saved[i] = v] ELSE store[v]]

\* The variables after trp_pop_env.  Of two names of one variable the one pushed
\* first is assigned last.
Restored ==
  LET saved == Saved(Top)
      taken == SubSeq(stack, Len(stack) - Len(saved) + 1, Len(stack))
      First(v) == CHOOSE i \in DOMAIN saved : saved[i] = v /\ \A j \in 1 .. i - 1 : saved[j] # v
  IN  [v \in Variable |-> IF v \in Range(saved) THEN taken[First(v)] ELSE store[v]]

-----------------------------------------------------------------------------
(* The program. *)

SetVar(v, x) ==
  /\ mode = "run" /\ sets < MaxSets
  /\ v \in Range(Saved(Top))
  /\ store' = [store EXCEPT ![v] = x]
  /\ sets' = sets + 1
  /\ UNCHANGED <<stack, frames, mode>>

\* A parameter by reference gets a variable its caller sees, any other a value.
Call(n, ref, value) ==
  /\ mode = "run" /\ Top < MaxDepth
  /\ \A p \in DOMAIN ref : ref[p] \in Range(Saved(Top))
  /\ frames' = Append(frames, Frame(n, ref))
  /\ store' = [v \in Variable |-> IF v[1] = Top + 1 /\ v[2] \in DOMAIN value
                                  THEN value[v[2]] ELSE store[v]]
  /\ UNCHANGED <<stack, mode, sets>>

\* The variables of a frame that is gone do not matter.
Forgotten(s) == [v \in Variable |-> IF v[1] = Top THEN Unset ELSE s[v]]

Return ==
  /\ mode = "run" /\ Open = <<>> /\ Top > 1
  /\ frames' = Front(frames)
  /\ store' = Forgotten(store)
  /\ UNCHANGED <<stack, mode, sets>>

\* The alternatives all the nets are in.
AllOpen == FoldLeft(LAMBDA n, f : n + Len(f.open), 0, frames)

\* Into the first branch of alt, of which left others follow, of opt or of opt*.
Enter(kind, left) ==
  /\ mode = "run"
  /\ AllOpen < MaxOpen
  /\ stack' = Pushed(stack, store)
  /\ frames' = [frames EXCEPT ![Top].open =
                  Append(@, [kind |-> kind, left |-> left, seen |-> store])]
  /\ UNCHANGED <<store, mode, sets>>

\* A branch comes to its end; opt* begins it again.
Succeed ==
  /\ mode = "run" /\ Open # <<>>
  /\ \/ /\ Last(Open).kind # "opt*"
        /\ stack' = Dropped
        /\ frames' = [frames EXCEPT ![Top].open = Front(@)]
     \/ /\ Last(Open).kind = "opt*"
        /\ stack' = Pushed(Dropped, store)
        /\ frames' = [frames EXCEPT ![Top].open[Len(Open)].seen = store]
  /\ UNCHANGED <<store, mode, sets>>

-----------------------------------------------------------------------------
(* Failure. *)

Fail ==
  /\ mode = "run"
  /\ mode' = "fail"
  /\ UNCHANGED <<store, stack, frames, sets>>

\* At the label of failure the variables are restored.  The next branch of alt
\* begins, opt and opt* are over, and after its last branch alt fails as well.
Backtrack ==
  /\ mode = "fail" /\ Open # <<>>
  /\ store' = Restored
  /\ \/ /\ Last(Open).left > 0
        /\ stack' = Pushed(Dropped, Restored)
        /\ frames' = [frames EXCEPT ![Top].open[Len(Open)].left = @ - 1]
        /\ mode' = "run"
     \/ /\ Last(Open).left = 0
        /\ stack' = Dropped
        /\ frames' = [frames EXCEPT ![Top].open = Front(@)]
        /\ mode' = IF Last(Open).kind = "alt" THEN "fail" ELSE "run"
  /\ UNCHANGED sets

\* Outside every alternative the net fails, and with it the test that called it.
FailNet ==
  /\ mode = "fail" /\ Open = <<>>
  /\ \/ /\ Top > 1
        /\ frames' = Front(frames)
        /\ store' = Forgotten(store)
        /\ UNCHANGED mode
     \/ Top = 1 /\ mode' = "end" /\ UNCHANGED <<store, frames>>
  /\ UNCHANGED <<stack, sets>>

Seen == Range(Saved(Top))
Refs(n) == [Range(Params[n]) \cap ByRef -> Seen]
Arguments(n) ==
  {f \in [Range(Params[n] \o Locals[n]) \ ByRef -> Datum \cup {Unset}] :
     \A x \in Range(Locals[n]) : f[x] = Unset}

EnvNext ==
  \/ \E v \in Variable, x \in Datum : SetVar(v, x)
  \/ \E n \in Net : \E ref \in Refs(n), value \in Arguments(n) : Call(n, ref, value)
  \/ Return
  \/ \E left \in {0, 1} : Enter("alt", left)
  \/ \E kind \in {"opt", "opt*"} : Enter(kind, 0)
  \/ Succeed \/ Fail \/ Backtrack \/ FailNet

EnvSpec == EnvInit /\ [][EnvNext]_envVars

-----------------------------------------------------------------------------
(* Properties. *)

\* The flat stack holds exactly what the open alternatives of all the nets have
\* pushed, so that each pops its own values, and a net leaves it as it found it,
\* whether it fails or not.
StackBalanced ==
  LET pushed[d \in 0 .. Top] ==
        IF d = 0 THEN 0 ELSE pushed[d - 1] + Len(frames[d].open) * Len(Saved(d))
  IN  Len(stack) = pushed[Top]

\* A failing branch leaves no trace in any variable, not only in those its net has
\* saved: what the nets it called did to variables of outer frames went through
\* parameters by reference the net can see, and is undone too.
FailureRestored ==
  mode = "fail" /\ Open # <<>> =>
    \A v \in Variable : v[1] <= Top => store'[v] = Last(Open).seen[v]

FailureRestores == [][FailureRestored]_envVars
=============================================================================
