------------------------------ MODULE TrpThread ------------------------------
(***************************************************************************)
(* The thread and mailbox primitives of the TreeP runtime                  *)
(* (src/trpthread/trpthread.c): thread-create, send / sendnb / sendbuf,    *)
(* receive / receivenb, thread-case, the termination of a thread and the   *)
(* registration of foreign threads.                                        *)
(*                                                                         *)
(* A step is the code between two points at which another thread can       *)
(* interfere.  Taking a mutex is a step of its own; the body of a critical *)
(* section is one step with the unlock that ends it, as long as it reads   *)
(* at most one field that others write without the mutex (the field        *)
(* "stato").  Where it reads several (the loop that builds the queue of    *)
(* senders) every read is a step and the mutex stays held in between.      *)
(* pthread_cond_wait releases the mutex and blocks in one step; the woken  *)
(* thread needs the mutex again before it goes on.                         *)
(***************************************************************************)
EXTENDS Integers, SequencesExt

CONSTANTS
  Thread,       \* the trp_thread_t structures that may ever be allocated
  Main,         \* the structure of the initial thread
  External,     \* those allocated by trp_thread_register_my_thread
  Null,         \* the NULL pointer
  Bsize,        \* values of the buffer-size argument (send passes 0)
  Cases,        \* argument lists a thread-case may be called with
  MaxCalls,     \* bound: sends, receives and cases the threads may start
  CreateFails,  \* may pthread_create fail?
  Spurious      \* may pthread_cond_wait return without a signal?

ASSUME ThreadAssumption ==
  /\ Main \in Thread
  /\ External \subseteq Thread \ {Main}
  /\ Null \notin Thread
ASSUME BsizeAssumption == Bsize \subseteq Nat
ASSUME BoundAssumption == MaxCalls \in Nat
ASSUME SwitchAssumption == CreateFails \in BOOLEAN /\ Spurious \in BOOLEAN

\* One alternative of a thread-case: the senders it accepts, or the default.
\* A receive is a case of one alternative; receivenb adds a default.
Alternative == [from : SUBSET Thread, dflt : BOOLEAN]
From(S) == [from |-> S, dflt |-> FALSE]
Default == [from |-> {}, dflt |-> TRUE]

ASSUME CasesAssumption == Cases \subseteq Seq(Alternative)

\* A message is its sender and its number among those the sender got
\* accepted by the same destination; the payload is never looked at.
Msg   == [mitt : Thread, n : Nat]
Entry == [mitt : Thread, n : Nat, susp : BOOLEAN]

ASSUME NullAssumption == Null \notin Msg

Stato == {"STOPPED", "RUNNING", "WAITING_ON_RECEIVE", "WAITING_ON_SEND",
          "WAITING_ON_SEND_TERM_DEST"}

Control ==
  { "none", "new", "start", "run", "done", "freed",
    "create", "create_undo", "create_max",
    "send_lock", "send", "send_signal", "send_blocked", "send_woken", "send_ret",
    "recv_lock", "recv_scan", "recv_signal", "recv_build", "recv_blocked",
    "recv_woken",
    "exit_lock", "exit_swap", "exit_drain", "exit_drain_signal",
    "exit_qlock", "exit_walk", "exit_visit", "exit_wake" }

VARIABLES
  stato, msgq, mitt, slot,  \* fields stato, msgq, mitt, (msg, msg_mitt)
  mutex,                    \* holder of the field mutex, or Null
  registry, len, max,       \* _trp_thread_q, its len, _trp_thread_max
  qmutex,                   \* holder of _trp_thread_q_mutex, or Null
  pc,                       \* where each thread is
  peer,                     \* the other thread of the current operation
  alts,                     \* the alternatives of the current receive
  todo,                     \* threads a loop has still to visit
  drain,                    \* trp_thread_exit's local copy of msgq
  calls,                    \* calls started so far (bounded by MaxCalls)
  accepted,                 \* history: messages of s accepted by d
  received                  \* history: number of the last one d got from s

fields  == <<stato, msgq, mitt, slot>>
globals == <<registry, len, max>>
locals  == <<peer, alts, todo, drain>>
history == <<calls, accepted, received>>
vars == <<fields, mutex, globals, qmutex, pc, locals, history>>

-----------------------------------------------------------------------------
(* Helpers *)

\* Threads a program can name: a create returned it, the thread itself handed out
\* thread-self, or thread-list showed it, as it does from the registration on.  If
\* creations fail, the program leaves alone what only thread-list has shown it:
\* CreateUndo frees the structure.
Known ==
  {x \in Thread : /\ pc[x] \notin {"none", "freed"}
                  /\ pc[x] = "new" => ~CreateFails}

Senders(al) == UNION {al[i].from : i \in DOMAIN al}

Matches(S, q) == {i \in DOMAIN q : q[i].mitt \in S}

Ready(a, q) == a.dflt \/ Matches(a.from, q) # {}

ReadyAlts(al, q) == {i \in DOMAIN al : Ready(al[i], q)}

\* The first member of a set of positions.
First(I) == CHOOSE i \in I : \A j \in I : i <= j

Goto(t, there) == pc' = [pc EXCEPT ![t] = there]

\* Return to the program; the call's locals are dead.
Return(t) ==
  /\ Goto(t, "run")
  /\ peer' = [peer EXCEPT ![t] = t]
  /\ alts' = [alts EXCEPT ![t] = <<>>]

Lock(x, t) == mutex[x] = Null /\ mutex' = [mutex EXCEPT ![x] = t]
Unlock(x) == mutex' = [mutex EXCEPT ![x] = Null]

\* pthread_cond_signal: wakes x if it waits, is lost if it does not.
Woken(p, x) ==
  CASE p[x] = "send_blocked" -> [p EXCEPT ![x] = "send_woken"]
    [] p[x] = "recv_blocked" -> [p EXCEPT ![x] = "recv_woken"]
    [] OTHER -> p

SignalPeer(t, next) == pc' = Woken([pc EXCEPT ![t] = next], peer[t])

-----------------------------------------------------------------------------
(* Creation and registration *)

InitBut(firstSlot) ==
  /\ stato = [t \in Thread |-> IF t = Main THEN "RUNNING" ELSE "STOPPED"]
  /\ msgq = [t \in Thread |-> <<>>]
  /\ mitt = [t \in Thread |-> {}]
  /\ slot = firstSlot
  /\ mutex = [t \in Thread |-> Null]
  /\ registry = {Main} /\ len = 1 /\ max = 1
  /\ qmutex = Null
  /\ pc = [t \in Thread |-> IF t = Main THEN "run" ELSE "none"]
  /\ peer = [t \in Thread |-> t]
  /\ alts = [t \in Thread |-> <<>>]
  /\ todo = [t \in Thread |-> {}]
  /\ drain = [t \in Thread |-> <<>>]
  /\ calls = 0
  /\ accepted = [s \in Thread |-> [d \in Thread |-> 0]]
  /\ received = [d \in Thread |-> [s \in Thread |-> 0]]

\* Mutant: the field msg is left as allocated.
Init_MsgNotCleared == InitBut([t \in Thread |-> t])

Init == InitBut([t \in Thread |-> Null])

\* A fresh structure, put into the queue of threads under its mutex.
CreateInternal(c) ==
  /\ pc[c] = "none"
  /\ qmutex = Null
  /\ stato' = [stato EXCEPT ![c] = "RUNNING"]
  /\ registry' = registry \cup {c}
  /\ len' = len + 1
  /\ UNCHANGED <<msgq, mitt, slot, mutex, max, qmutex, alts, todo, drain, history>>

Create(t, c) ==
  /\ pc[t] = "run"
  /\ c \notin External
  /\ CreateInternal(c)
  /\ pc' = [pc EXCEPT ![t] = "create", ![c] = "new"]
  /\ peer' = [peer EXCEPT ![t] = c]

\* pthread_create succeeds: the child may run, and end, before its creator
\* takes another step.
PthreadCreate(t) ==
  /\ pc[t] = "create"
  /\ pc' = [pc EXCEPT ![t] = "create_max", ![peer[t]] = "start"]
  /\ UNCHANGED <<fields, mutex, globals, qmutex, locals, history>>

PthreadCreateFails(t) ==
  /\ CreateFails
  /\ pc[t] = "create"
  /\ Goto(t, "create_undo")
  /\ UNCHANGED <<fields, mutex, globals, qmutex, locals, history>>

\* Mutant: the length of the queue is not decremented.
LenAfterUndo_Kept == len
LenAfterUndo == len - 1

CreateUndo(t) ==
  /\ pc[t] = "create_undo"
  /\ qmutex = Null
  /\ registry' = registry \ {peer[t]}
  /\ len' = LenAfterUndo
  /\ pc' = [pc EXCEPT ![t] = "run", ![peer[t]] = "freed"]
  /\ peer' = [peer EXCEPT ![t] = t]
  /\ UNCHANGED <<fields, mutex, max, qmutex, alts, todo, drain, history>>

NewMax == IF len > max THEN len ELSE max

CreateMax(t) ==
  /\ pc[t] = "create_max"
  /\ qmutex = Null
  /\ max' = NewMax
  /\ Return(t)
  /\ UNCHANGED <<fields, mutex, registry, len, qmutex, todo, drain, history>>

\* trp_thread_start_routine up to the call of the net.
StartRoutine(t) ==
  /\ pc[t] = "start"
  /\ Goto(t, "run")
  /\ UNCHANGED <<fields, mutex, globals, qmutex, locals, history>>

\* A foreign thread (an SDL callback) gets a structure of its own.
Register(t) ==
  /\ t \in External
  /\ CreateInternal(t)
  /\ Goto(t, "run")
  /\ UNCHANGED peer

-----------------------------------------------------------------------------
(* send, sendnb, sendbuf *)

\* The number the next message of t accepted by d gets.
Next_n(t, d) == accepted[t][d] + 1

Accept(t, d) == accepted' = [accepted EXCEPT ![t][d] = @ + 1]

Call(t) ==
  /\ pc[t] = "run"
  /\ calls < MaxCalls
  /\ calls' = calls + 1

\* A send to oneself returns 1 at once and is left out.
SendCall(t, d) ==
  /\ Call(t)
  /\ d \in Known \ {t}
  /\ peer' = [peer EXCEPT ![t] = d]
  /\ Goto(t, "send_lock")
  /\ UNCHANGED <<fields, mutex, globals, qmutex, alts, todo, drain, accepted, received>>

SendLock(t) ==
  /\ pc[t] = "send_lock"
  /\ Lock(peer[t], t)
  /\ Goto(t, "send")
  /\ UNCHANGED <<fields, globals, qmutex, locals, history>>

\* Mutant: a message already handed over is not looked at.
Expected_SlotIgnored(t, d) == stato[d] = "WAITING_ON_RECEIVE" /\ t \in mitt[d]

\* The destination is blocked in a receive, nobody has woken it yet, and it
\* waits for a message of t.
Expected(t, d) ==
  /\ stato[d] = "WAITING_ON_RECEIVE"
  /\ slot[d] = Null
  /\ t \in mitt[d]

SendDirect(t) == LET d == peer[t] IN
  /\ pc[t] = "send"
  /\ Expected(t, d)
  /\ slot' = [slot EXCEPT ![d] = [mitt |-> t, n |-> Next_n(t, d)]]
  /\ Accept(t, d)
  /\ Unlock(d)
  /\ Goto(t, "send_signal")
  /\ UNCHANGED <<stato, msgq, mitt, globals, qmutex, locals, calls, received>>

\* Mutant: the destination is taken to be alive.
Terminated_Ignored(d) == FALSE
Terminated(d) == stato[d] = "STOPPED"

\* flags & 1 (sendnb), or the destination has terminated.
SendRefuse(t, nb) == LET d == peer[t] IN
  /\ pc[t] = "send"
  /\ ~Expected(t, d)
  /\ nb \/ Terminated(d)
  /\ Unlock(d)
  /\ Return(t)
  /\ UNCHANGED <<fields, globals, qmutex, todo, drain, history>>

\* Mutant: the length is compared before the message is put.
MustWait_LenBefore(q, b) == Len(q) > b
MustWait(q, b) == Len(q) + 1 > b

\* The message joins the mailbox of d; t goes on if the mailbox then holds
\* at most b messages and waits for it to be consumed otherwise.
SendQueue(t, b) == LET d == peer[t] IN
  /\ pc[t] = "send"
  /\ ~Expected(t, d)
  /\ ~Terminated(d)
  /\ LET susp == MustWait(msgq[d], b) IN
     /\ msgq' = [msgq EXCEPT ![d] =
                   Append(@, [mitt |-> t, n |-> Next_n(t, d), susp |-> susp])]
     /\ IF susp
        THEN /\ stato' = [stato EXCEPT ![t] = "WAITING_ON_SEND"]
             /\ Goto(t, "send_blocked")
             /\ UNCHANGED <<peer, alts>>
        ELSE /\ Return(t)
             /\ UNCHANGED stato
  /\ Accept(t, d)
  /\ Unlock(d)
  /\ UNCHANGED <<mitt, slot, globals, qmutex, todo, drain, calls, received>>

SendSignal(t) ==
  /\ pc[t] = "send_signal"
  /\ SignalPeer(t, "run")
  /\ peer' = [peer EXCEPT ![t] = t]
  /\ UNCHANGED <<fields, mutex, globals, qmutex, alts, todo, drain, history>>

\* pthread_cond_wait takes the destination's mutex back, which is released.
SendWoken(t) ==
  /\ pc[t] = "send_woken"
  /\ mutex[peer[t]] = Null
  /\ Goto(t, "send_ret")
  /\ UNCHANGED <<fields, mutex, globals, qmutex, locals, history>>

\* res is 0 if stato is still WAITING_ON_SEND, else 1.
SendRet(t) ==
  /\ pc[t] = "send_ret"
  /\ stato' = [stato EXCEPT ![t] = "RUNNING"]
  /\ Return(t)
  /\ UNCHANGED <<msgq, mitt, slot, mutex, globals, qmutex, todo, drain, history>>

-----------------------------------------------------------------------------
(* receive, receivenb, thread-case *)

\* trp_thread_receive builds mittq without the caller; if nothing is left it
\* returns 1 at once, which is left out.
ReceiveCall(t, S, nb) ==
  /\ Call(t)
  /\ S \subseteq Known \ {t} /\ S # {}
  /\ alts' = [alts EXCEPT ![t] = IF nb THEN <<From(S), Default>> ELSE <<From(S)>>]
  /\ Goto(t, "recv_lock")
  /\ UNCHANGED <<fields, mutex, globals, qmutex, peer, todo, drain, accepted, received>>

\* trp_thread_case, its alternatives sorted by priority: the caller is no
\* sender.  The code drops an alternative left without senders; here it stays
\* and never matches.
CaseAlts(t, args) ==
  [i \in DOMAIN args |-> [from |-> args[i].from \ {t}, dflt |-> args[i].dflt]]

CaseCall(t, args) == LET al == CaseAlts(t, args) IN
  /\ Call(t)
  /\ Senders(args) \subseteq Known
  /\ \E i \in DOMAIN al : al[i].dflt \/ al[i].from # {}
  /\ alts' = [alts EXCEPT ![t] = al]
  /\ Goto(t, "recv_lock")
  /\ UNCHANGED <<fields, mutex, globals, qmutex, peer, todo, drain, accepted, received>>

RecvLock(t) ==
  /\ pc[t] = "recv_lock"
  /\ Lock(t, t)
  /\ Goto(t, "recv_scan")
  /\ UNCHANGED <<fields, globals, qmutex, locals, history>>

Receives(t, m) == received' = [received EXCEPT ![t][m.mitt] = m.n]

WakesSender(e) == e.susp

\* The first alternative with a message takes the oldest message it accepts.
RecvTake(t) ==
  /\ pc[t] = "recv_scan"
  /\ ReadyAlts(alts[t], msgq[t]) # {}
  /\ LET a == alts[t][First(ReadyAlts(alts[t], msgq[t]))]
         k == First(Matches(a.from, msgq[t]))
         e == msgq[t][k]
     IN
     /\ ~a.dflt
     /\ msgq' = [msgq EXCEPT ![t] = RemoveAt(@, k)]
     /\ Receives(t, e)
     /\ IF WakesSender(e)
        THEN /\ Goto(t, "recv_signal")
             /\ peer' = [peer EXCEPT ![t] = e.mitt]
             /\ UNCHANGED alts
        ELSE Return(t)
  /\ Unlock(t)
  /\ UNCHANGED <<stato, mitt, slot, globals, qmutex, todo, drain, calls, accepted>>

\* Mutant: the default returns with the mutex.
RecvDefault_KeepsMutex(t) ==
  /\ pc[t] = "recv_scan"
  /\ ReadyAlts(alts[t], msgq[t]) # {}
  /\ alts[t][First(ReadyAlts(alts[t], msgq[t]))].dflt
  /\ Return(t)
  /\ UNCHANGED <<fields, mutex, globals, qmutex, todo, drain, history>>

RecvDefault(t) ==
  /\ pc[t] = "recv_scan"
  /\ ReadyAlts(alts[t], msgq[t]) # {}
  /\ alts[t][First(ReadyAlts(alts[t], msgq[t]))].dflt
  /\ Unlock(t)
  /\ Return(t)
  /\ UNCHANGED <<fields, globals, qmutex, todo, drain, history>>

\* Mutant: the mutex is given up between the scan and the wait.
RecvNone_Unlocks(t) ==
  /\ pc[t] = "recv_scan"
  /\ ReadyAlts(alts[t], msgq[t]) = {}
  /\ todo' = [todo EXCEPT ![t] = Senders(alts[t])]
  /\ Goto(t, "recv_build")
  /\ Unlock(t)
  /\ UNCHANGED <<fields, globals, qmutex, peer, alts, drain, history>>

Awaited(al) == Senders(al)

RecvNone(t) ==
  /\ pc[t] = "recv_scan"
  /\ ReadyAlts(alts[t], msgq[t]) = {}
  /\ todo' = [todo EXCEPT ![t] = Awaited(alts[t])]
  /\ Goto(t, "recv_build")
  /\ UNCHANGED <<fields, mutex, globals, qmutex, peer, alts, drain, history>>

\* The sender wakes that was suspended on the message just taken.
RecvSignal(t) ==
  /\ pc[t] = "recv_signal"
  /\ SignalPeer(t, "run")
  /\ peer' = [peer EXCEPT ![t] = t]
  /\ alts' = [alts EXCEPT ![t] = <<>>]
  /\ UNCHANGED <<fields, mutex, globals, qmutex, todo, drain, history>>

\* Mutant: stopped senders are queued as well.
CanSend_Always(s) == TRUE
CanSend(s) == stato[s] # "STOPPED"

\* The queue of awaited senders leaves out those already stopped.  Duplicates
\* and order do not matter: trp_thread_exit removes every occurrence.
RecvBuild(t, s) ==
  /\ pc[t] = "recv_build"
  /\ s \in todo[t]
  /\ todo' = [todo EXCEPT ![t] = @ \ {s}]
  /\ mitt' = IF CanSend(s) THEN [mitt EXCEPT ![t] = @ \cup {s}] ELSE mitt
  /\ UNCHANGED <<stato, msgq, slot, mutex, globals, qmutex, pc, peer, alts, drain, history>>

\* Mutant: the early return forgets the mutex.
RecvNobody_KeepsMutex(t) ==
  /\ pc[t] = "recv_build"
  /\ todo[t] = {}
  /\ mitt[t] = {}
  /\ Return(t)
  /\ UNCHANGED <<fields, mutex, globals, qmutex, todo, drain, history>>

RecvNobody(t) ==
  /\ pc[t] = "recv_build"
  /\ todo[t] = {}
  /\ mitt[t] = {}
  /\ Unlock(t)
  /\ Return(t)
  /\ UNCHANGED <<fields, globals, qmutex, todo, drain, history>>

RecvWait(t) ==
  /\ pc[t] = "recv_build"
  /\ todo[t] = {}
  /\ mitt[t] # {}
  /\ stato' = [stato EXCEPT ![t] = "WAITING_ON_RECEIVE"]
  /\ Unlock(t)
  /\ Goto(t, "recv_blocked")
  /\ UNCHANGED <<msgq, mitt, slot, globals, qmutex, locals, history>>

MittAfterWait(t) == [mitt EXCEPT ![t] = {}]

\* Mutant: the message taken stays in the slot.
RecvWoken_SlotKept(t) ==
  /\ pc[t] = "recv_woken"
  /\ mutex[t] = Null
  /\ mitt' = MittAfterWait(t)
  /\ IF slot[t] # Null THEN Receives(t, slot[t]) ELSE UNCHANGED received
  /\ stato' = [stato EXCEPT ![t] = "RUNNING"]
  /\ Return(t)
  /\ UNCHANGED <<msgq, slot, mutex, globals, qmutex, todo, drain, calls, accepted>>

\* Awake, with its mutex back: the message is in the slot, or (result 1, ZERO)
\* every awaited sender is gone.
RecvWoken(t) ==
  /\ pc[t] = "recv_woken"
  /\ mutex[t] = Null
  /\ mitt' = MittAfterWait(t)
  /\ IF slot[t] # Null THEN Receives(t, slot[t]) ELSE UNCHANGED received
  /\ slot' = [slot EXCEPT ![t] = Null]
  /\ stato' = [stato EXCEPT ![t] = "RUNNING"]
  /\ Return(t)
  /\ UNCHANGED <<msgq, mutex, globals, qmutex, todo, drain, calls, accepted>>

-----------------------------------------------------------------------------
(* trp_thread_exit: end of a net, or trp_thread_unregister_my_thread *)

\* stato is written without the mutex.  The initial thread never gets here:
\* the process ends with it.
ExitCall(t) ==
  /\ pc[t] = "run"
  /\ t # Main
  /\ stato' = [stato EXCEPT ![t] = "STOPPED"]
  /\ Goto(t, "exit_lock")
  /\ UNCHANGED <<msgq, mitt, slot, mutex, globals, qmutex, locals, history>>

ExitLock(t) ==
  /\ pc[t] = "exit_lock"
  /\ Lock(t, t)
  /\ Goto(t, "exit_swap")
  /\ UNCHANGED <<fields, globals, qmutex, locals, history>>

ExitSwap(t) ==
  /\ pc[t] = "exit_swap"
  /\ drain' = [drain EXCEPT ![t] = msgq[t]]
  /\ msgq' = [msgq EXCEPT ![t] = <<>>]
  /\ Unlock(t)
  /\ Goto(t, "exit_drain")
  /\ UNCHANGED <<stato, mitt, slot, globals, qmutex, peer, alts, todo, history>>

\* Mutant: every sender is told, suspended or not.
StatoAfterDrain_All(e) == [stato EXCEPT ![e.mitt] = "WAITING_ON_SEND_TERM_DEST"]

\* Mutant: the suspended sender is woken but not told.
StatoAfterDrain_Kept(e) == stato

StatoAfterDrain(e) ==
  IF e.susp THEN [stato EXCEPT ![e.mitt] = "WAITING_ON_SEND_TERM_DEST"] ELSE stato

\* The next unconsumed message is dropped; its sender, if suspended, learns
\* from stato (written without its mutex) that nobody will receive it.
ExitDrain(t) ==
  /\ pc[t] = "exit_drain"
  /\ drain[t] # <<>>
  /\ LET e == Head(drain[t]) IN
     /\ stato' = StatoAfterDrain(e)
     /\ IF e.susp
        THEN peer' = [peer EXCEPT ![t] = e.mitt] /\ Goto(t, "exit_drain_signal")
        ELSE UNCHANGED <<peer, pc>>
  /\ drain' = [drain EXCEPT ![t] = Tail(@)]
  /\ UNCHANGED <<msgq, mitt, slot, mutex, globals, qmutex, alts, todo, history>>

\* Mutant: the suspended sender is told but not woken.
ExitDrainSignal_Left(t) ==
  /\ pc[t] = "exit_drain_signal"
  /\ Goto(t, "exit_drain")
  /\ UNCHANGED <<fields, mutex, globals, qmutex, locals, history>>

ExitDrainSignal(t) ==
  /\ pc[t] = "exit_drain_signal"
  /\ SignalPeer(t, "exit_drain")
  /\ UNCHANGED <<fields, mutex, globals, qmutex, locals, history>>

ExitDrained(t) ==
  /\ pc[t] = "exit_drain"
  /\ drain[t] = <<>>
  /\ peer' = [peer EXCEPT ![t] = t]
  /\ Goto(t, "exit_qlock")
  /\ UNCHANGED <<fields, mutex, globals, qmutex, alts, todo, drain, history>>

ExitQLock(t) ==
  /\ pc[t] = "exit_qlock"
  /\ qmutex = Null
  /\ qmutex' = t
  /\ todo' = [todo EXCEPT ![t] = registry]
  /\ Goto(t, "exit_walk")
  /\ UNCHANGED <<fields, mutex, globals, peer, alts, drain, history>>

ExitSelf(t) ==
  /\ pc[t] = "exit_walk"
  /\ t \in todo[t]
  /\ todo' = [todo EXCEPT ![t] = @ \ {t}]
  /\ registry' = registry \ {t}
  /\ UNCHANGED <<fields, mutex, len, max, qmutex, pc, peer, alts, drain, history>>

ExitVisit(t, x) ==
  /\ pc[t] = "exit_walk"
  /\ x \in todo[t] \ {t}
  /\ Lock(x, t)
  /\ todo' = [todo EXCEPT ![t] = @ \ {x}]
  /\ peer' = [peer EXCEPT ![t] = x]
  /\ Goto(t, "exit_visit")
  /\ UNCHANGED <<fields, globals, qmutex, alts, drain, history>>

\* A receiver nobody has served yet that waits for t.
AwaitedBy(x, t) == stato[x] = "WAITING_ON_RECEIVE" /\ slot[x] = Null /\ t \in mitt[x]

\* Mutant: the receiver wakes at the end of any of its senders.
Sveglia_AnySender(t, x) == AwaitedBy(x, t)

\* x waited for nobody but t.
Sveglia(t, x) == AwaitedBy(x, t) /\ mitt[x] = {t}

ExitRemove(t) == LET x == peer[t] IN
  /\ pc[t] = "exit_visit"
  /\ mitt' = IF AwaitedBy(x, t) THEN [mitt EXCEPT ![x] = @ \ {t}] ELSE mitt
  /\ Unlock(x)
  /\ IF Sveglia(t, x)
     THEN Goto(t, "exit_wake") /\ UNCHANGED peer
     ELSE Goto(t, "exit_walk") /\ peer' = [peer EXCEPT ![t] = t]
  /\ UNCHANGED <<stato, msgq, slot, globals, qmutex, alts, todo, drain, history>>

ExitWake(t) ==
  /\ pc[t] = "exit_wake"
  /\ SignalPeer(t, "exit_walk")
  /\ peer' = [peer EXCEPT ![t] = t]
  /\ UNCHANGED <<fields, mutex, globals, qmutex, alts, todo, drain, history>>

ExitDone(t) ==
  /\ pc[t] = "exit_walk"
  /\ todo[t] = {}
  /\ len' = len - 1
  /\ qmutex' = Null
  /\ Goto(t, "done")
  /\ UNCHANGED <<fields, mutex, registry, max, locals, history>>

\* A wait that ends without a signal (POSIX allows it).
SpuriousWakeup(t) ==
  /\ Spurious
  /\ pc[t] \in {"send_blocked", "recv_blocked"}
  /\ pc' = Woken(pc, t)
  /\ UNCHANGED <<fields, mutex, globals, qmutex, locals, history>>

-----------------------------------------------------------------------------
\* What the program decides to do.
Program(t) ==
  \/ \E c \in Thread : Create(t, c)
  \/ Register(t)
  \/ \E d \in Thread : SendCall(t, d)
  \/ \E S \in SUBSET Thread, nb \in BOOLEAN : ReceiveCall(t, S, nb)
  \/ \E args \in Cases : CaseCall(t, args)
  \/ ExitCall(t)

\* What the runtime does once a call has started.
Creating(t) ==
  \/ PthreadCreate(t) \/ PthreadCreateFails(t) \/ CreateUndo(t)
  \/ CreateMax(t) \/ StartRoutine(t)

Sending(t) ==
  \/ SendLock(t) \/ SendDirect(t)
  \/ \E nb \in BOOLEAN : SendRefuse(t, nb)
  \/ \E b \in Bsize : SendQueue(t, b)
  \/ SendSignal(t) \/ SendWoken(t) \/ SendRet(t)

Receiving(t) ==
  \/ RecvLock(t) \/ RecvTake(t) \/ RecvDefault(t) \/ RecvNone(t)
  \/ RecvSignal(t)
  \/ \E s \in Thread : RecvBuild(t, s)
  \/ RecvNobody(t) \/ RecvWait(t) \/ RecvWoken(t)

Exiting(t) ==
  \/ ExitLock(t) \/ ExitSwap(t) \/ ExitDrain(t) \/ ExitDrainSignal(t)
  \/ ExitDrained(t) \/ ExitQLock(t) \/ ExitSelf(t)
  \/ \E x \in Thread : ExitVisit(t, x)
  \/ ExitRemove(t) \/ ExitWake(t) \/ ExitDone(t)

Runtime(t) == Creating(t) \/ Sending(t) \/ Receiving(t) \/ Exiting(t)

Next == \E t \in Thread : Program(t) \/ Runtime(t) \/ SpuriousWakeup(t)

Spec == Init /\ [][Next]_vars

\* The operating system keeps running every thread that can run; nothing
\* obliges a program to start a call, or to end.
FairSpec == Spec /\ \A t \in Thread : WF_vars(Runtime(t))

-----------------------------------------------------------------------------
(* Properties *)

\* Every variable keeps the type its field has in the code.
TypeOK ==
  /\ stato \in [Thread -> Stato]
  /\ msgq \in [Thread -> Seq(Entry)]
  /\ mitt \in [Thread -> SUBSET Thread]
  /\ slot \in [Thread -> Msg \cup {Null}]
  /\ mutex \in [Thread -> Thread \cup {Null}]
  /\ registry \in SUBSET Thread /\ len \in Int /\ max \in Nat
  /\ qmutex \in Thread \cup {Null}
  /\ pc \in [Thread -> Control]
  /\ peer \in [Thread -> Thread]
  /\ alts \in [Thread -> Seq(Alternative)]
  /\ todo \in [Thread -> SUBSET Thread]
  /\ drain \in [Thread -> Seq(Entry)]
  /\ calls \in Nat
  /\ accepted \in [Thread -> [Thread -> Nat]]
  /\ received \in [Thread -> [Thread -> Nat]]

Holds(t, x) ==
  \/ pc[t] \in {"recv_scan", "recv_build", "exit_swap"} /\ x = t
  \/ pc[t] \in {"send", "exit_visit"} /\ x = peer[t]

HoldsQ(t) == pc[t] \in {"exit_walk", "exit_visit", "exit_wake"}

\* A mutex is held by exactly the thread whose code is inside the critical
\* section it guards, and every path out of a section releases it.
LockDiscipline ==
  /\ \A t, x \in Thread : mutex[x] = t <=> Holds(t, x)
  /\ \A t \in Thread : qmutex = t <=> HoldsQ(t)

\* A structure handed to pthread_create belongs to one creator, and nothing
\* runs on it yet.
Creating_pc == {"create", "create_undo"}
CreationOwned ==
  \A t, u \in Thread :
    pc[t] \in Creating_pc =>
      /\ pc[peer[t]] = "new"
      /\ pc[u] \in Creating_pc /\ peer[u] = peer[t] => u = t

Drained == {"exit_drain", "exit_drain_signal", "exit_qlock", "exit_walk",
            "exit_visit", "exit_wake", "done"}
Ending == Drained \cup {"exit_lock", "exit_swap"}

\* STOPPED is written without the mutex, and senders test it under the mutex:
\* no message is ever put into a mailbox trp_thread_exit has emptied, where
\* its sender would wait for ever.
MailboxClosed == \A t \in Thread : pc[t] \in Drained => msgq[t] = <<>>

\* STOPPED is final: no late write of another thread revives the state of a
\* thread that is ending.
StoppedForGood == \A t \in Thread : pc[t] \in Ending => stato[t] = "STOPPED"

\* A receiver that is building its queue of senders or is asleep and unserved
\* has no message of one of them in its mailbox: the window between the scan
\* of the mailbox and the wait loses nothing.
NoMissedMessage ==
  \A t \in Thread :
    pc[t] \in {"recv_build", "recv_blocked", "recv_woken"} /\ slot[t] = Null
      => Matches(Senders(alts[t]), msgq[t]) = {}

\* Threads about to signal the condition variable of t.
Signallers(t) ==
  {x \in Thread : /\ pc[x] \in {"send_signal", "recv_signal",
                                "exit_drain_signal", "exit_wake"}
                  /\ peer[x] = t}

\* Every wait gets one signal: whoever is about to signal t finds it waiting,
\* and nobody else is about to signal it (a second signal would end a later
\* wait of t, for another reason).
OneSignalPerWait ==
  \A t \in Thread :
    /\ Cardinality(Signallers(t)) <= 1
    /\ Signallers(t) # {} => pc[t] \in {"send_blocked", "recv_blocked"}

\* s has gone through the queue of threads and will not look at t again.
HasPassed(s, t) ==
  \/ pc[s] = "done"
  \/ HoldsQ(s) /\ t \notin todo[s] /\ ~(pc[s] = "exit_visit" /\ peer[s] = t)

\* A sleeping receiver is never forgotten: its signal is on its way, or nobody
\* has served it and each thread it waits for can still send or tell it of
\* its end.
ReceiverNotForgotten ==
  \A t \in Thread : pc[t] = "recv_blocked" /\ Signallers(t) = {} =>
    /\ slot[t] = Null
    /\ mitt[t] # {}
    /\ \A s \in mitt[t] : ~HasPassed(s, t)

Suspended(t, q) == {i \in DOMAIN q : q[i].susp /\ q[i].mitt = t}

\* A suspended sender is one that sleeps, has exactly one message that says so
\* in the mailbox of its destination (or in the copy a terminating destination
\* drains), or has its signal on the way; and no such message belongs to a
\* thread that is awake.
SenderNotForgotten ==
  \A t \in Thread :
    LET marks(d) == Cardinality(Suspended(t, msgq[d])) + Cardinality(Suspended(t, drain[d]))
    IN  /\ \A d \in Thread : marks(d) > 0 => pc[t] = "send_blocked" /\ peer[t] = d
        /\ pc[t] = "send_blocked" => marks(peer[t]) + Cardinality(Signallers(t)) = 1

\* Nobody sleeps on when what it waits for has come, or can no longer come.
NobodyForgotten == ReceiverNotForgotten /\ SenderNotForgotten

\* What a blocking send returns is true: 0 says the destination has taken the
\* message, 1 says it ended without taking it.
SendResultTrue ==
  \A t \in Thread : pc[t] \in {"send_woken", "send_ret"} =>
    LET d == peer[t]
        taken == received[d][t] = accepted[t][d]
    IN  IF stato[t] = "WAITING_ON_SEND" THEN taken
        ELSE ~taken /\ stato[d] = "STOPPED"

\* A receive fails after its wait only if all its senders have terminated
\* (trpthread.c says so where it sets the result).
ReceiveResultTrue ==
  \A t \in Thread : pc[t] = "recv_woken" /\ slot[t] = Null =>
    \A s \in Senders(alts[t]) : stato[s] = "STOPPED"

\* The numbers of the messages of s in a mailbox, and whether they are in order.
Numbers(q, s) == {q[i].n : i \in Matches({s}, q)}
InOrder(q, s) == \A i, j \in Matches({s}, q) : i < j => q[i].n < q[j].n

\* The number of a message of s handed over directly to d.
Direct(s, d) == IF slot[d] # Null /\ slot[d].mitt = s THEN {slot[d].n} ELSE {}

\* As long as a destination does not end nothing is lost, duplicated or overtaken,
\* by whichever path (direct hand-over or mailbox) each message travels: it has
\* still to take exactly what it accepted and has not received, in that order.
NothingLost ==
  \A s, d \in Thread : pc[d] \notin Drained =>
    /\ Direct(s, d) \cup Numbers(msgq[d], s) = received[d][s] + 1 .. accepted[s][d]
    /\ InOrder(msgq[d], s)
    /\ \A n \in Direct(s, d), k \in Numbers(msgq[d], s) : n < k

\* Outside the critical section of the queue of threads, its members are the
\* threads alive and its length counts them, also after a creation that failed;
\* thread-max, read after the child may have ended, is no less than the number of
\* created threads alive when no creation is under way.
RegistryExact ==
  /\ qmutex = Null =>
       /\ registry = {t \in Thread : pc[t] \notin {"none", "freed", "done"}}
       /\ len = Cardinality(registry)
  /\ (\A t \in Thread : pc[t] \notin {"create", "create_undo", "create_max"})
       => Cardinality(registry \ External) <= max

\* Whoever starts to terminate gets through, whatever the others do.
ExitCompletes == \A t \in Thread \ {Main} : pc[t] = "exit_lock" ~> pc[t] = "done"

\* Suspended for a reason: the destination, or one of the senders, is alive.
WaitsForTheLiving(t) ==
  \/ pc[t] = "send_blocked" /\ stato[peer[t]] # "STOPPED"
  \/ pc[t] = "recv_blocked" /\ \E s \in Senders(alts[t]) : stato[s] # "STOPPED"

Calling ==
  { "send_lock", "send", "send_signal", "send_blocked", "send_woken", "send_ret",
    "recv_lock", "recv_scan", "recv_signal", "recv_build", "recv_blocked", "recv_woken" }

\* A send or a receive gets the mutex it asks for and returns, unless it waits for
\* a thread that is alive: a sender suspended on a destination that terminates, and
\* a receiver whose last sender terminates, are woken.
CallsReturn ==
  \A t \in Thread : pc[t] \in Calling ~> pc[t] = "run" \/ WaitsForTheLiving(t)
=============================================================================
