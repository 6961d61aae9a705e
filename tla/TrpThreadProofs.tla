--------------------------- MODULE TrpThreadProofs ---------------------------
(***************************************************************************)
(* Theorems about the threads and mailboxes of TrpThread, for any set of   *)
(* threads, buffer sizes and argument lists of thread-case.                *)
(***************************************************************************)
EXTENDS TrpThread, SequenceTheorems, FiniteSetTheorems, WellFoundedInduction, TLAPS

-----------------------------------------------------------------------------
(* Operators on sequences *)

\* Taking a message out of a mailbox leaves a mailbox.
LEMMA RemoveAtType ==
  ASSUME NEW S, NEW s \in Seq(S), NEW k \in DOMAIN s
  PROVE  RemoveAt(s, k) \in Seq(S)
<1>1. k \in 1 .. Len(s) /\ Len(s) \in Nat
  BY LenProperties
<1>2. \A j \in 1 .. Len(s) : s[j] \in S
  BY ElementOfSeq
<1>3. SubSeq(s, 1, k - 1) \in Seq(S)
  BY <1>1, <1>2, SubSeqProperties
<1>4. SubSeq(s, k + 1, Len(s)) \in Seq(S)
  BY <1>1, <1>2, SubSeqProperties
<1> QED
  BY <1>3, <1>4, ConcatProperties DEF RemoveAt

\* A function on an initial segment is a sequence.
LEMMA FunctionIsSeq ==
  ASSUME NEW S, NEW n \in Nat, NEW f \in [1 .. n -> S]
  PROVE  f \in Seq(S)
OBVIOUS

\* A set of positions has a least element: < is well-founded on Nat.
LEMMA LeastPosition ==
  ASSUME NEW I \in SUBSET Nat, I # {}
  PROVE  \E k \in I : \A j \in I : ~ j < k
<1> DEFINE Lt == OpToRel(<, Nat)
<1>1. IsWellFoundedOn(Lt, Nat)
  BY NatLessThanWellFounded
<1>2. ASSUME NEW j \in Nat, NEW k \in Nat, j < k
      PROVE  <<j, k>> \in Lt
  <2>1. <<j, k>> \in Nat \X Nat
    OBVIOUS
  <2>2. <<j, k>>[1] < <<j, k>>[2]
    BY <1>2
  <2> QED
    BY <2>1, <2>2, Zenon DEF OpToRel
<1> HIDE DEF Lt
<1>3. \E k \in I : \A j \in I : ~ (<<j, k>> \in Lt)
  BY <1>1, WFMin
<1> QED
  BY <1>2, <1>3

\* First is one of the positions, and no other comes before it.
LEMMA FirstIn ==
  ASSUME NEW I \in SUBSET Nat, I # {}
  PROVE  First(I) \in I /\ \A j \in I : First(I) <= j
<1>1. \E k \in I : \A j \in I : k <= j
  BY LeastPosition
<1> QED
  BY <1>1 DEF First

-----------------------------------------------------------------------------
(* Types *)

LEMMA InitType == Init => TypeOK
<1> SUFFICES ASSUME Init PROVE TypeOK
  OBVIOUS
<1> USE ThreadAssumption DEF Init, InitBut
<1>1. stato \in [Thread -> Stato] /\ pc \in [Thread -> Control]
  BY DEF Stato, Control
<1>2. /\ msgq \in [Thread -> Seq(Entry)]
      /\ alts \in [Thread -> Seq(Alternative)]
      /\ drain \in [Thread -> Seq(Entry)]
  OBVIOUS
<1> QED
  BY <1>1, <1>2 DEF TypeOK

\* Every place the code can be at is a place of Control.
LEMMA WokenType ==
  ASSUME NEW p \in [Thread -> Control], NEW x \in Thread
  PROVE  Woken(p, x) \in [Thread -> Control]
BY DEF Woken, Control

\* What the common parts of the actions leave well-typed.
LEMMA ReturnType ==
  ASSUME TypeOK, NEW t \in Thread, Return(t)
  PROVE  /\ pc' \in [Thread -> Control]
         /\ peer' \in [Thread -> Thread]
         /\ alts' \in [Thread -> Seq(Alternative)]
<1>1. pc' \in [Thread -> Control]
  BY DEF TypeOK, Return, Goto, Control
<1>2. peer' \in [Thread -> Thread]
  BY DEF TypeOK, Return
<1>3. alts' \in [Thread -> Seq(Alternative)]
  <2>1. <<>> \in Seq(Alternative)
    OBVIOUS
  <2> QED
    BY <2>1 DEF TypeOK, Return
<1> QED
  BY <1>1, <1>2, <1>3

LEMMA LockType ==
  ASSUME TypeOK, NEW t \in Thread, NEW x \in Thread, Lock(x, t) \/ Unlock(x)
  PROVE  mutex' \in [Thread -> Thread \cup {Null}]
<1>1. mutex \in [Thread -> Thread \cup {Null}]
  BY DEF TypeOK
<1> QED
  BY <1>1 DEF Lock, Unlock

LEMMA NumberType ==
  ASSUME TypeOK, NEW s \in Thread, NEW d \in Thread
  PROVE  /\ Next_n(s, d) \in Nat
         /\ Accept(s, d) => accepted' \in [Thread -> [Thread -> Nat]]
<1>1. accepted \in [Thread -> [Thread -> Nat]]
  BY DEF TypeOK
<1> QED
  BY <1>1 DEF Next_n, Accept

LEMMA ReceivesType ==
  ASSUME TypeOK, NEW t \in Thread, NEW e, e.mitt \in Thread, e.n \in Nat,
         Receives(t, e)
  PROVE  received' \in [Thread -> [Thread -> Nat]]
<1>1. received \in [Thread -> [Thread -> Nat]]
  BY DEF TypeOK
<1> QED
  BY <1>1 DEF Receives

LEMMA SignalType ==
  ASSUME TypeOK, NEW t \in Thread, NEW next \in Control, SignalPeer(t, next)
  PROVE  pc' \in [Thread -> Control]
<1>1. peer[t] \in Thread /\ [pc EXCEPT ![t] = next] \in [Thread -> Control]
  BY DEF TypeOK
<1> QED
  BY <1>1, WokenType DEF SignalPeer

LEMMA ProgramType ==
  ASSUME TypeOK, NEW t \in Thread, Program(t)
  PROVE  TypeOK'
<1> USE DEF TypeOK, fields, globals, locals, history, Goto
<1>1. CASE \E c \in Thread : Create(t, c)
  <2> PICK c \in Thread : Create(t, c)
    BY <1>1
  <2>1. pc' \in [Thread -> Control]
    BY DEF Create, Control
  <2>2. stato' \in [Thread -> Stato]
    BY DEF Create, CreateInternal, Stato
  <2>3. len' \in Int
    BY DEF Create, CreateInternal
  <2> QED
    BY <2>1, <2>2, <2>3 DEF Create, CreateInternal
<1>2. CASE Register(t)
  <2>1. pc' \in [Thread -> Control]
    BY <1>2 DEF Register, Control
  <2>2. stato' \in [Thread -> Stato]
    BY <1>2 DEF Register, CreateInternal, Stato
  <2>3. len' \in Int
    BY <1>2 DEF Register, CreateInternal
  <2> QED
    BY <1>2, <2>1, <2>2, <2>3 DEF Register, CreateInternal
<1>3. CASE \E d \in Thread : SendCall(t, d)
  <2> PICK d \in Thread : SendCall(t, d)
    BY <1>3
  <2>1. pc' \in [Thread -> Control]
    BY DEF SendCall, Control
  <2>2. calls' \in Nat
    BY DEF SendCall, Call
  <2> QED
    BY <2>1, <2>2 DEF SendCall
<1>4. CASE \E S \in SUBSET Thread, nb \in BOOLEAN : ReceiveCall(t, S, nb)
  <2> PICK S \in SUBSET Thread, nb \in BOOLEAN : ReceiveCall(t, S, nb)
    BY <1>4
  <2>1. pc' \in [Thread -> Control]
    BY DEF ReceiveCall, Control
  <2>2. calls' \in Nat
    BY DEF ReceiveCall, Call
  <2>3. From(S) \in Alternative /\ Default \in Alternative
    BY DEF From, Default, Alternative
  <2>4. alts' \in [Thread -> Seq(Alternative)]
    BY <2>3 DEF ReceiveCall
  <2> QED
    BY <2>1, <2>2, <2>4 DEF ReceiveCall
<1>5. CASE \E args \in Cases : CaseCall(t, args)
  <2> PICK args \in Cases : CaseCall(t, args)
    BY <1>5
  <2>1. pc' \in [Thread -> Control]
    BY DEF CaseCall, Control
  <2>2. calls' \in Nat
    <3>1. Call(t)
      BY DEF CaseCall
    <3> QED
      BY <3>1 DEF Call
  <2>3. args \in Seq(Alternative)
    BY CasesAssumption
  <2>4. DOMAIN args = 1 .. Len(args) /\ Len(args) \in Nat
    BY <2>3
  <2>5. ASSUME NEW i \in DOMAIN args
        PROVE  [from |-> args[i].from \ {t}, dflt |-> args[i].dflt] \in Alternative
    <3>1. args[i] \in Alternative
      BY <2>3, <2>4, ElementOfSeq
    <3>2. args[i].from \subseteq Thread /\ args[i].dflt \in BOOLEAN
      BY <3>1 DEF Alternative
    <3> QED
      BY <3>2, Zenon DEF Alternative
  <2>6. CaseAlts(t, args) \in [1 .. Len(args) -> Alternative]
    BY <2>4, <2>5, Zenon DEF CaseAlts
  <2>7. CaseAlts(t, args) \in Seq(Alternative)
    BY <2>4, <2>6, FunctionIsSeq, Zenon
  <2> QED
    BY <2>1, <2>2, <2>7 DEF CaseCall
<1>6. CASE ExitCall(t)
  <2>1. pc' \in [Thread -> Control]
    BY <1>6 DEF ExitCall, Control
  <2>2. stato' \in [Thread -> Stato]
    BY <1>6 DEF ExitCall, Stato
  <2> QED
    BY <1>6, <2>1, <2>2 DEF ExitCall
<1> QED
  BY <1>1, <1>2, <1>3, <1>4, <1>5, <1>6 DEF Program

LEMMA CreatingType ==
  ASSUME TypeOK, NEW t \in Thread, Creating(t)
  PROVE  TypeOK'
<1> USE DEF TypeOK, fields, globals, locals, history, Goto, Return
<1>1. CASE PthreadCreate(t)
  <2>1. pc' \in [Thread -> Control]
    BY <1>1 DEF PthreadCreate, Control
  <2> QED
    BY <1>1, <2>1 DEF PthreadCreate
<1>2. CASE PthreadCreateFails(t)
  <2>1. pc' \in [Thread -> Control]
    BY <1>2 DEF PthreadCreateFails, Control
  <2> QED
    BY <1>2, <2>1 DEF PthreadCreateFails
<1>3. CASE CreateUndo(t)
  <2>1. pc' \in [Thread -> Control]
    BY <1>3 DEF CreateUndo, Control
  <2>2. len' \in Int
    BY <1>3 DEF CreateUndo, LenAfterUndo
  <2> QED
    BY <1>3, <2>1, <2>2 DEF CreateUndo
<1>4. CASE CreateMax(t)
  <2>1. pc' \in [Thread -> Control]
    BY <1>4 DEF CreateMax, Control
  <2>2. max' \in Nat
    BY <1>4 DEF CreateMax, NewMax
  <2> QED
    BY <1>4, <2>1, <2>2 DEF CreateMax
<1>5. CASE StartRoutine(t)
  <2>1. pc' \in [Thread -> Control]
    BY <1>5 DEF StartRoutine, Control
  <2> QED
    BY <1>5, <2>1 DEF StartRoutine
<1> QED
  BY <1>1, <1>2, <1>3, <1>4, <1>5 DEF Creating

\* The two ways a message joins a mailbox.
LEMMA SendQueueSteps ==
  ASSUME NEW t \in Thread, NEW b \in Bsize, SendQueue(t, b)
  PROVE  /\ pc[t] = "send"
         /\ \/ /\ stato' = [stato EXCEPT ![t] = "WAITING_ON_SEND"]
               /\ Goto(t, "send_blocked")
               /\ UNCHANGED <<peer, alts>>
            \/ /\ Return(t)
               /\ UNCHANGED stato
         /\ Accept(t, peer[t])
         /\ Unlock(peer[t])
         /\ UNCHANGED <<mitt, slot, globals, qmutex, todo, drain, calls, received>>
BY DEF SendQueue

LEMMA SendingType ==
  ASSUME TypeOK, NEW t \in Thread, Sending(t)
  PROVE  TypeOK'
<1> USE DEF fields, globals, locals, history
<1>0. peer[t] \in Thread
  BY DEF TypeOK
<1>1. CASE SendLock(t)
  <2>1. pc' \in [Thread -> Control]
    BY <1>1 DEF TypeOK, SendLock, Goto, Control
  <2> QED
    BY <1>0, <1>1, <2>1, LockType DEF TypeOK, SendLock
<1>2. CASE SendDirect(t)
  <2>1. pc' \in [Thread -> Control]
    BY <1>2 DEF TypeOK, SendDirect, Goto, Control
  <2>2. [mitt |-> t, n |-> Next_n(t, peer[t])] \in Msg
    BY <1>0, NumberType DEF Msg
  <2>3. slot' \in [Thread -> Msg \cup {Null}]
    BY <1>2, <2>2 DEF TypeOK, SendDirect
  <2>4. accepted' \in [Thread -> [Thread -> Nat]]
    BY <1>0, <1>2, NumberType DEF SendDirect
  <2> QED
    BY <1>0, <1>2, <2>1, <2>3, <2>4, LockType DEF TypeOK, SendDirect
<1>3. CASE \E nb \in BOOLEAN : SendRefuse(t, nb)
  <2> PICK nb \in BOOLEAN : SendRefuse(t, nb)
    BY <1>3
  <2>1. /\ Unlock(peer[t])
        /\ Return(t)
        /\ UNCHANGED <<fields, globals, qmutex, todo, drain, history>>
    BY DEF SendRefuse
  <2> QED
    BY <1>0, <2>1, ReturnType, LockType DEF TypeOK
<1>4. CASE \E b \in Bsize : SendQueue(t, b)
  <2> PICK b \in Bsize : SendQueue(t, b)
    BY <1>4
  <2> DEFINE susp == MustWait(msgq[peer[t]], b)
             e == [mitt |-> t, n |-> Next_n(t, peer[t]), susp |-> susp]
  <2>1. susp \in BOOLEAN
    BY DEF MustWait
  <2>2. msgq' = [msgq EXCEPT ![peer[t]] = Append(@, e)]
    BY DEF SendQueue
  <2>3. e \in Entry
    BY <1>0, <2>1, NumberType, Zenon DEF Entry
  <2> HIDE DEF e
  <2>4. msgq' \in [Thread -> Seq(Entry)]
    BY <1>0, <2>2, <2>3 DEF TypeOK
  <2>5. /\ pc' \in [Thread -> Control]
        /\ peer' \in [Thread -> Thread]
        /\ alts' \in [Thread -> Seq(Alternative)]
    <3>1. CASE Return(t)
      BY <3>1, ReturnType
    <3>2. CASE Goto(t, "send_blocked") /\ UNCHANGED <<peer, alts>>
      BY <3>2 DEF TypeOK, Goto, Control
    <3> QED
      BY SendQueueSteps, <3>1, <3>2
  <2>6. stato' \in [Thread -> Stato]
    BY SendQueueSteps DEF TypeOK, Stato
  <2> QED
    BY <1>0, <2>4, <2>5, <2>6, SendQueueSteps, NumberType, LockType DEF TypeOK
<1>5. CASE SendSignal(t)
  <2>1. pc' \in [Thread -> Control]
    BY <1>5, SignalType DEF SendSignal, Control
  <2>2. peer' \in [Thread -> Thread]
    BY <1>5 DEF TypeOK, SendSignal
  <2> QED
    BY <1>5, <2>1, <2>2 DEF TypeOK, SendSignal
<1>6. CASE SendWoken(t)
  <2>1. pc' \in [Thread -> Control]
    BY <1>6 DEF TypeOK, SendWoken, Goto, Control
  <2> QED
    BY <1>6, <2>1 DEF TypeOK, SendWoken
<1>7. CASE SendRet(t)
  <2>1. stato' \in [Thread -> Stato]
    BY <1>7 DEF TypeOK, SendRet, Stato
  <2> QED
    BY <1>7, <2>1, ReturnType DEF TypeOK, SendRet
<1> QED
  BY <1>1, <1>2, <1>3, <1>4, <1>5, <1>6, <1>7 DEF Sending

\* What a successful scan finds: an alternative, and, unless it is the
\* default, a message of the mailbox that one of its senders sent.
LEMMA ScanFinds ==
  ASSUME TypeOK, NEW t \in Thread, ReadyAlts(alts[t], msgq[t]) # {},
         NEW i, i = First(ReadyAlts(alts[t], msgq[t])),
         NEW k, k = First(Matches(alts[t][i].from, msgq[t]))
  PROVE  /\ i \in DOMAIN alts[t]
         /\ Ready(alts[t][i], msgq[t])
         /\ ~alts[t][i].dflt => /\ k \in Matches(alts[t][i].from, msgq[t])
                               /\ k \in DOMAIN msgq[t]
                               /\ msgq[t][k] \in Entry
<1>1. alts[t] \in Seq(Alternative) /\ msgq[t] \in Seq(Entry)
  BY DEF TypeOK
<1>2. DOMAIN alts[t] \subseteq Nat /\ DOMAIN msgq[t] \subseteq Nat
  BY <1>1
<1>3. ReadyAlts(alts[t], msgq[t]) \in SUBSET Nat
  BY <1>2 DEF ReadyAlts
<1>4. i \in ReadyAlts(alts[t], msgq[t])
  BY <1>3, FirstIn
<1>5. i \in DOMAIN alts[t] /\ Ready(alts[t][i], msgq[t])
  BY <1>4 DEF ReadyAlts
<1>6. ASSUME ~alts[t][i].dflt
      PROVE  k \in Matches(alts[t][i].from, msgq[t])
  <2>1. Matches(alts[t][i].from, msgq[t]) # {}
    BY <1>5, <1>6 DEF Ready
  <2>2. Matches(alts[t][i].from, msgq[t]) \in SUBSET Nat
    BY <1>2 DEF Matches
  <2> QED
    BY <2>1, <2>2, FirstIn
<1>7. ASSUME k \in Matches(alts[t][i].from, msgq[t])
      PROVE  k \in DOMAIN msgq[t] /\ msgq[t][k] \in Entry
  <2>1. k \in DOMAIN msgq[t]
    BY <1>7 DEF Matches
  <2>2. k \in 1 .. Len(msgq[t])
    BY <1>1, <2>1
  <2> QED
    BY <1>1, <2>1, <2>2, ElementOfSeq
<1> QED
  BY <1>5, <1>6, <1>7

LEMMA ReceivingType ==
  ASSUME TypeOK, NEW t \in Thread, Receiving(t)
  PROVE  TypeOK'
<1> USE DEF fields, globals, locals, history
<1>1. CASE RecvLock(t)
  <2>1. pc' \in [Thread -> Control]
    BY <1>1 DEF TypeOK, RecvLock, Goto, Control
  <2> QED
    BY <1>1, <2>1, LockType DEF TypeOK, RecvLock
<1>2. CASE RecvTake(t)
  <2> DEFINE i == First(ReadyAlts(alts[t], msgq[t]))
             k == First(Matches(alts[t][i].from, msgq[t]))
             e == msgq[t][k]
  <2>1. /\ ReadyAlts(alts[t], msgq[t]) # {}
        /\ ~alts[t][i].dflt
        /\ msgq' = [msgq EXCEPT ![t] = RemoveAt(@, k)]
        /\ Receives(t, e)
        /\ \/ /\ Goto(t, "recv_signal")
              /\ peer' = [peer EXCEPT ![t] = e.mitt]
              /\ UNCHANGED alts
           \/ Return(t)
        /\ Unlock(t)
        /\ UNCHANGED <<stato, mitt, slot, globals, qmutex, todo, drain, calls, accepted>>
    BY <1>2 DEF RecvTake
  <2>2. k \in DOMAIN msgq[t] /\ e \in Entry
    BY <2>1, ScanFinds
  <2>3. e.mitt \in Thread /\ e.n \in Nat
    BY <2>2 DEF Entry
  <2> HIDE DEF k, e
  <2>4. msgq' \in [Thread -> Seq(Entry)]
    <3>1. msgq \in [Thread -> Seq(Entry)]
      BY DEF TypeOK
    <3>2. RemoveAt(msgq[t], k) \in Seq(Entry)
      BY <2>2, <3>1, RemoveAtType
    <3> QED
      BY <2>1, <3>1, <3>2
  <2>5. /\ pc' \in [Thread -> Control]
        /\ peer' \in [Thread -> Thread]
        /\ alts' \in [Thread -> Seq(Alternative)]
    <3>1. CASE Return(t)
      BY <3>1, ReturnType
    <3>2. CASE /\ Goto(t, "recv_signal")
               /\ peer' = [peer EXCEPT ![t] = e.mitt]
               /\ UNCHANGED alts
      BY <2>3, <3>2 DEF TypeOK, Goto, Control
    <3> QED
      BY <2>1, <3>1, <3>2
  <2> QED
    BY <2>1, <2>3, <2>4, <2>5, ReceivesType, LockType DEF TypeOK
<1>3. CASE RecvDefault(t)
  BY <1>3, ReturnType, LockType DEF TypeOK, RecvDefault
<1>4. CASE RecvNone(t)
  <2>1. pc' \in [Thread -> Control]
    BY <1>4 DEF TypeOK, RecvNone, Goto, Control
  <2>2. Awaited(alts[t]) \in SUBSET Thread
    <3>1. alts[t] \in Seq(Alternative)
      BY DEF TypeOK
    <3>2. ASSUME NEW j \in DOMAIN alts[t] PROVE alts[t][j] \in Alternative
      BY <3>1, ElementOfSeq
    <3> QED
      BY <3>2 DEF Awaited, Senders, Alternative
  <2> QED
    BY <1>4, <2>1, <2>2 DEF TypeOK, RecvNone
<1>5. CASE RecvSignal(t)
  <2>1. pc' \in [Thread -> Control]
    BY <1>5, SignalType DEF RecvSignal, Control
  <2>2. peer' \in [Thread -> Thread]
    BY <1>5 DEF TypeOK, RecvSignal
  <2>3. alts' \in [Thread -> Seq(Alternative)]
    <3>1. <<>> \in Seq(Alternative)
      OBVIOUS
    <3> QED
      BY <1>5, <3>1 DEF TypeOK, RecvSignal
  <2> QED
    BY <1>5, <2>1, <2>2, <2>3 DEF TypeOK, RecvSignal
<1>6. CASE \E s \in Thread : RecvBuild(t, s)
  <2> PICK s \in Thread : RecvBuild(t, s)
    BY <1>6
  <2>1. mitt' \in [Thread -> SUBSET Thread] /\ todo' \in [Thread -> SUBSET Thread]
    BY DEF TypeOK, RecvBuild
  <2> QED
    BY <2>1 DEF TypeOK, RecvBuild
<1>7. CASE RecvNobody(t)
  BY <1>7, ReturnType, LockType DEF TypeOK, RecvNobody
<1>8. CASE RecvWait(t)
  <2>1. pc' \in [Thread -> Control]
    BY <1>8 DEF TypeOK, RecvWait, Goto, Control
  <2>2. stato' \in [Thread -> Stato]
    BY <1>8 DEF TypeOK, RecvWait, Stato
  <2> QED
    BY <1>8, <2>1, <2>2, LockType DEF TypeOK, RecvWait
<1>9. CASE RecvWoken(t)
  <2>1. stato' \in [Thread -> Stato]
    BY <1>9 DEF TypeOK, RecvWoken, Stato
  <2>2. slot' \in [Thread -> Msg \cup {Null}] /\ mitt' \in [Thread -> SUBSET Thread]
    BY <1>9 DEF TypeOK, RecvWoken, MittAfterWait
  <2>3. received' \in [Thread -> [Thread -> Nat]]
    <3>1. CASE slot[t] # Null
      <4>1. slot[t].mitt \in Thread /\ slot[t].n \in Nat
        BY <3>1 DEF TypeOK, Msg
      <4> QED
        BY <1>9, <3>1, <4>1, ReceivesType DEF RecvWoken
    <3>2. CASE slot[t] = Null
      BY <1>9, <3>2 DEF TypeOK, RecvWoken
    <3> QED
      BY <3>1, <3>2
  <2> QED
    BY <1>9, <2>1, <2>2, <2>3, ReturnType DEF TypeOK, RecvWoken
<1> QED
  BY <1>1, <1>2, <1>3, <1>4, <1>5, <1>6, <1>7, <1>8, <1>9 DEF Receiving

LEMMA ExitingType ==
  ASSUME TypeOK, NEW t \in Thread, Exiting(t)
  PROVE  TypeOK'
<1> USE DEF fields, globals, locals, history
<1>1. CASE ExitLock(t)
  <2>1. pc' \in [Thread -> Control]
    BY <1>1 DEF TypeOK, ExitLock, Goto, Control
  <2> QED
    BY <1>1, <2>1, LockType DEF TypeOK, ExitLock
<1>2. CASE ExitSwap(t)
  <2>1. pc' \in [Thread -> Control]
    BY <1>2 DEF TypeOK, ExitSwap, Goto, Control
  <2>2. msgq' \in [Thread -> Seq(Entry)] /\ drain' \in [Thread -> Seq(Entry)]
    <3>1. <<>> \in Seq(Entry)
      OBVIOUS
    <3> QED
      BY <1>2, <3>1 DEF TypeOK, ExitSwap
  <2> QED
    BY <1>2, <2>1, <2>2, LockType DEF TypeOK, ExitSwap
<1>3. CASE ExitDrain(t)
  <2> DEFINE e == Head(drain[t])
  <2>1. /\ drain[t] # <<>>
        /\ stato' = StatoAfterDrain(e)
        /\ \/ peer' = [peer EXCEPT ![t] = e.mitt] /\ Goto(t, "exit_drain_signal")
           \/ UNCHANGED <<peer, pc>>
        /\ drain' = [drain EXCEPT ![t] = Tail(@)]
        /\ UNCHANGED <<msgq, mitt, slot, mutex, globals, qmutex, alts, todo, history>>
    BY <1>3 DEF ExitDrain
  <2>2. drain \in [Thread -> Seq(Entry)]
    BY DEF TypeOK
  <2>3. e \in Entry /\ Tail(drain[t]) \in Seq(Entry)
    BY <2>1, <2>2, HeadTailProperties
  <2>4. e.mitt \in Thread
    BY <2>3 DEF Entry
  <2> HIDE DEF e
  <2>5. stato' \in [Thread -> Stato]
    BY <2>1, <2>4 DEF TypeOK, StatoAfterDrain, Stato
  <2>6. drain' \in [Thread -> Seq(Entry)]
    BY <2>1, <2>2, <2>3
  <2>7. peer' \in [Thread -> Thread]
    BY <2>1, <2>4 DEF TypeOK
  <2>8. pc' \in [Thread -> Control]
    BY <2>1 DEF TypeOK, Goto, Control
  <2> QED
    BY <2>1, <2>5, <2>6, <2>7, <2>8 DEF TypeOK
<1>4. CASE ExitDrainSignal(t)
  <2>1. pc' \in [Thread -> Control]
    BY <1>4, SignalType DEF ExitDrainSignal, Control
  <2> QED
    BY <1>4, <2>1 DEF TypeOK, ExitDrainSignal
<1>5. CASE ExitDrained(t)
  <2>1. pc' \in [Thread -> Control]
    BY <1>5 DEF TypeOK, ExitDrained, Goto, Control
  <2> QED
    BY <1>5, <2>1 DEF TypeOK, ExitDrained
<1>6. CASE ExitQLock(t)
  <2>1. pc' \in [Thread -> Control]
    BY <1>6 DEF TypeOK, ExitQLock, Goto, Control
  <2> QED
    BY <1>6, <2>1 DEF TypeOK, ExitQLock
<1>7. CASE ExitSelf(t)
  BY <1>7 DEF TypeOK, ExitSelf
<1>8. CASE \E x \in Thread : ExitVisit(t, x)
  <2> PICK x \in Thread : ExitVisit(t, x)
    BY <1>8
  <2>1. pc' \in [Thread -> Control]
    BY DEF TypeOK, ExitVisit, Goto, Control
  <2> QED
    BY <2>1, LockType DEF TypeOK, ExitVisit
<1>9. CASE ExitRemove(t)
  <2>1. pc' \in [Thread -> Control] /\ peer' \in [Thread -> Thread]
    <3>1. pc \in [Thread -> Control] /\ peer \in [Thread -> Thread]
      BY DEF TypeOK
    <3>2. \/ Goto(t, "exit_wake") /\ UNCHANGED peer
          \/ Goto(t, "exit_walk") /\ peer' = [peer EXCEPT ![t] = t]
      BY <1>9 DEF ExitRemove
    <3> QED
      BY <3>1, <3>2 DEF Goto, Control
  <2>2. mitt' \in [Thread -> SUBSET Thread]
    BY <1>9 DEF TypeOK, ExitRemove
  <2>3. peer[t] \in Thread
    BY DEF TypeOK
  <2> QED
    BY <1>9, <2>1, <2>2, <2>3, LockType DEF TypeOK, ExitRemove
<1>10. CASE ExitWake(t)
  <2>1. pc' \in [Thread -> Control]
    BY <1>10, SignalType DEF ExitWake, Control
  <2>2. peer' \in [Thread -> Thread]
    BY <1>10 DEF TypeOK, ExitWake
  <2> QED
    BY <1>10, <2>1, <2>2 DEF TypeOK, ExitWake
<1>11. CASE ExitDone(t)
  <2>1. pc' \in [Thread -> Control]
    BY <1>11 DEF TypeOK, ExitDone, Goto, Control
  <2>2. len' \in Int
    BY <1>11 DEF TypeOK, ExitDone
  <2> QED
    BY <1>11, <2>1, <2>2 DEF TypeOK, ExitDone
<1> QED
  BY <1>1, <1>2, <1>3, <1>4, <1>5, <1>6, <1>7, <1>8, <1>9, <1>10, <1>11 DEF Exiting

LEMMA SpuriousType ==
  ASSUME TypeOK, NEW t \in Thread, SpuriousWakeup(t)
  PROVE  TypeOK'
<1>1. pc' \in [Thread -> Control]
  BY WokenType DEF TypeOK, SpuriousWakeup
<1> QED
  BY <1>1 DEF TypeOK, SpuriousWakeup, fields, globals, locals, history

\* Every variable keeps its type.
THEOREM TypeCorrect == Spec => []TypeOK
<1>1. TypeOK /\ [Next]_vars => TypeOK'
  <2> SUFFICES ASSUME TypeOK, [Next]_vars PROVE TypeOK'
    OBVIOUS
  <2>1. CASE Next
    BY <2>1, ProgramType, CreatingType, SendingType, ReceivingType, ExitingType,
       SpuriousType DEF Next, Runtime
  <2>2. CASE UNCHANGED vars
    BY <2>2 DEF TypeOK, vars, fields, globals, locals, history
  <2> QED
    BY <2>1, <2>2
<1> QED
  BY <1>1, InitType, PTL DEF Spec

-----------------------------------------------------------------------------
(* Mutual exclusion *)

LockTypes ==
  /\ pc \in [Thread -> Control]
  /\ peer \in [Thread -> Thread]
  /\ mutex \in [Thread -> Thread \cup {Null}]
  /\ qmutex \in Thread \cup {Null}

\* LockDiscipline alone is not inductive: a second creator of a structure
\* already running could put its thread back at its start, inside or outside
\* of a critical section.
LockInv == LockTypes /\ LockDiscipline /\ CreationOwned

LEMMA ProgramLocks ==
  ASSUME LockInv, NEW t \in Thread, Program(t), LockTypes'
  PROVE  LockInv'
<1> USE ThreadAssumption DEF LockInv, LockTypes, LockDiscipline, CreationOwned,
        Creating_pc, Holds, HoldsQ, Goto, Return, Lock, Unlock, SignalPeer, Woken, locals
<1>1. CASE \E c \in Thread : Create(t, c)
  BY <1>1 DEF Create, CreateInternal
<1>2. CASE Register(t)
  BY <1>2 DEF Register, CreateInternal
<1>3. CASE \E d \in Thread : SendCall(t, d)
  BY <1>3 DEF SendCall, Call
<1>4. CASE \E S \in SUBSET Thread, nb \in BOOLEAN : ReceiveCall(t, S, nb)
  BY <1>4 DEF ReceiveCall, Call
<1>5. CASE \E args \in Cases : CaseCall(t, args)
  BY <1>5 DEF CaseCall, Call
<1>6. CASE ExitCall(t)
  BY <1>6 DEF ExitCall
<1> QED
  BY <1>1, <1>2, <1>3, <1>4, <1>5, <1>6 DEF Program

LEMMA CreatingLocks ==
  ASSUME LockInv, NEW t \in Thread, Creating(t), LockTypes'
  PROVE  LockInv'
<1> USE ThreadAssumption DEF LockInv, LockTypes, LockDiscipline, CreationOwned,
        Creating_pc, Holds, HoldsQ, Goto, Return, Lock, Unlock, SignalPeer, Woken, locals
<1>1. CASE PthreadCreate(t)
  BY <1>1 DEF PthreadCreate
<1>2. CASE PthreadCreateFails(t)
  BY <1>2 DEF PthreadCreateFails
<1>3. CASE CreateUndo(t)
  BY <1>3 DEF CreateUndo
<1>4. CASE CreateMax(t)
  BY <1>4 DEF CreateMax
<1>5. CASE StartRoutine(t)
  BY <1>5 DEF StartRoutine
<1> QED
  BY <1>1, <1>2, <1>3, <1>4, <1>5 DEF Creating

LEMMA SendingLocks ==
  ASSUME LockInv, NEW t \in Thread, Sending(t), LockTypes'
  PROVE  LockInv'
<1> USE ThreadAssumption DEF LockInv, LockTypes, LockDiscipline, CreationOwned,
        Creating_pc, Holds, HoldsQ, Goto, Return, Lock, Unlock, SignalPeer, Woken, locals
<1>1. CASE SendLock(t)
  BY <1>1 DEF SendLock
<1>2. CASE SendDirect(t)
  BY <1>2 DEF SendDirect
<1>3. CASE \E nb \in BOOLEAN : SendRefuse(t, nb)
  BY <1>3 DEF SendRefuse
<1>4. CASE \E b \in Bsize : SendQueue(t, b)
  BY <1>4, SendQueueSteps
<1>5. CASE SendSignal(t)
  BY <1>5 DEF SendSignal
<1>6. CASE SendWoken(t)
  BY <1>6 DEF SendWoken
<1>7. CASE SendRet(t)
  BY <1>7 DEF SendRet
<1> QED
  BY <1>1, <1>2, <1>3, <1>4, <1>5, <1>6, <1>7 DEF Sending

LEMMA ReceivingLocks ==
  ASSUME LockInv, NEW t \in Thread, Receiving(t), LockTypes'
  PROVE  LockInv'
<1> USE ThreadAssumption DEF LockInv, LockTypes, LockDiscipline, CreationOwned,
        Creating_pc, Holds, HoldsQ, Goto, Return, Lock, Unlock, SignalPeer, Woken, locals
<1>1. CASE RecvLock(t)
  BY <1>1 DEF RecvLock
<1>2. CASE RecvTake(t)
  BY <1>2, SMTT(30) DEF RecvTake
<1>3. CASE RecvDefault(t)
  BY <1>3 DEF RecvDefault
<1>4. CASE RecvNone(t)
  BY <1>4 DEF RecvNone
<1>5. CASE RecvSignal(t)
  BY <1>5 DEF RecvSignal
<1>6. CASE \E s \in Thread : RecvBuild(t, s)
  BY <1>6 DEF RecvBuild
<1>7. CASE RecvNobody(t)
  BY <1>7 DEF RecvNobody
<1>8. CASE RecvWait(t)
  BY <1>8 DEF RecvWait
<1>9. CASE RecvWoken(t)
  BY <1>9 DEF RecvWoken
<1> QED
  BY <1>1, <1>2, <1>3, <1>4, <1>5, <1>6, <1>7, <1>8, <1>9 DEF Receiving

LEMMA ExitingLocks ==
  ASSUME LockInv, NEW t \in Thread, Exiting(t), LockTypes'
  PROVE  LockInv'
<1> USE ThreadAssumption DEF LockInv, LockTypes, LockDiscipline, CreationOwned,
        Creating_pc, Holds, HoldsQ, Goto, Return, Lock, Unlock, SignalPeer, Woken, locals
<1>1. CASE ExitLock(t)
  BY <1>1 DEF ExitLock
<1>2. CASE ExitSwap(t)
  BY <1>2 DEF ExitSwap
<1>3. CASE ExitDrain(t)
  BY <1>3 DEF ExitDrain
<1>4. CASE ExitDrainSignal(t)
  BY <1>4 DEF ExitDrainSignal
<1>5. CASE ExitDrained(t)
  BY <1>5 DEF ExitDrained
<1>6. CASE ExitQLock(t)
  BY <1>6 DEF ExitQLock
<1>7. CASE ExitSelf(t)
  BY <1>7 DEF ExitSelf
<1>8. CASE \E x \in Thread : ExitVisit(t, x)
  BY <1>8 DEF ExitVisit
<1>9. CASE ExitRemove(t)
  BY <1>9 DEF ExitRemove
<1>10. CASE ExitWake(t)
  BY <1>10 DEF ExitWake
<1>11. CASE ExitDone(t)
  BY <1>11 DEF ExitDone
<1> QED
  BY <1>1, <1>2, <1>3, <1>4, <1>5, <1>6, <1>7, <1>8, <1>9, <1>10, <1>11 DEF Exiting

LEMMA SpuriousLocks ==
  ASSUME LockInv, NEW t \in Thread, SpuriousWakeup(t), LockTypes'
  PROVE  LockInv'
BY DEF LockInv, LockTypes, LockDiscipline, CreationOwned, Creating_pc, Holds,
       HoldsQ, Woken, SpuriousWakeup, locals

\* The lock discipline, with the types it speaks of and the ownership of
\* creations, is inductive.
LEMMA LocksCorrect == Spec => []LockInv
<1>1. Init => LockInv
  BY InitType, ThreadAssumption DEF TypeOK, Init, InitBut, LockInv, LockTypes,
     LockDiscipline, CreationOwned, Creating_pc, Holds, HoldsQ
<1>2. TypeOK' => LockTypes'
  BY DEF TypeOK, LockTypes
<1>3. LockInv /\ TypeOK' /\ [Next]_vars => LockInv'
  <2> SUFFICES ASSUME LockInv, TypeOK', [Next]_vars PROVE LockInv'
    OBVIOUS
  <2>1. CASE Next
    BY <1>2, <2>1, ProgramLocks, CreatingLocks, SendingLocks, ReceivingLocks,
       ExitingLocks, SpuriousLocks DEF Next, Runtime
  <2>2. CASE UNCHANGED vars
    BY <2>2 DEF vars, fields, globals, locals, history, LockInv, LockTypes,
       LockDiscipline, CreationOwned, Creating_pc, Holds, HoldsQ
  <2> QED
    BY <2>1, <2>2
<1> QED
  BY <1>1, <1>3, TypeCorrect, PTL DEF Spec

\* Every mutex is held by exactly the thread inside the section it guards,
\* on every path through trpthread.c.
THEOREM MutualExclusion == Spec => []LockDiscipline
<1>1. LockInv => LockDiscipline
  BY DEF LockInv
<1> QED
  BY <1>1, LocksCorrect, PTL

-----------------------------------------------------------------------------
(* The queue of threads, its length and thread-max, for any number of threads *)
(* that create, register, run and end concurrently *)

Alive == {x \in Thread : pc[x] \notin {"none", "freed", "done"}}

\* Threads that have left the queue and not yet unlocked it.
Leaving == {x \in Thread : HoldsQ(x) /\ x \notin todo[x]}

\* Calls of thread-create that have not compared the length with thread-max.
Measuring == {x \in Thread : pc[x] \in {"create", "create_undo", "create_max"}}

\* The length counts the threads alive all the time, the queue holds them but
\* for one that is leaving, and each creation under way lets the number of
\* created threads be at most one more than thread-max.
RegInv ==
  /\ IsFiniteSet(Alive)
  /\ registry = Alive \ Leaving
  /\ len = Cardinality(Alive)
  /\ Cardinality(Alive \ External) <= max + Cardinality(Measuring)
  /\ \A x \in External : pc[x] # "new"

\* Most steps touch nothing of this.
Quiet ==
  /\ Alive' = Alive /\ Leaving' = Leaving /\ Measuring' = Measuring
  /\ registry' = registry /\ len' = len /\ max' = max
  /\ \A x \in Thread : pc'[x] = "new" => pc[x] = "new"

LEMMA QuietKeeps ==
  ASSUME RegInv, Quiet
  PROVE  RegInv'
BY ThreadAssumption DEF RegInv, Quiet

\* A thread that goes from one place of a call to another does not.
InCall == {"run", "send_lock", "send", "send_blocked", "recv_scan", "recv_signal"}

LEMMA MoveQuiet ==
  ASSUME TypeOK, NEW t \in Thread, NEW there \in InCall, pc[t] \in InCall, Goto(t, there),
         UNCHANGED <<globals, todo>>
  PROVE  Quiet
BY DEF TypeOK, Quiet, Alive, Leaving, Measuring, HoldsQ, Goto, InCall, globals

LEMMA ProgramQuiet ==
  ASSUME TypeOK, LockInv, NEW t \in Thread,
         \/ \E d \in Thread : SendCall(t, d)
         \/ \E S \in SUBSET Thread, nb \in BOOLEAN : ReceiveCall(t, S, nb)
         \/ \E args \in Cases : CaseCall(t, args)
         \/ ExitCall(t)
  PROVE  Quiet
<1> USE DEF TypeOK, Quiet, Alive, Leaving, Measuring, HoldsQ, Goto, Call, globals, locals
<1>1. CASE \E d \in Thread : SendCall(t, d)
  <2>1. pc[t] = "run" /\ Goto(t, "send_lock") /\ UNCHANGED <<globals, todo>>
    BY <1>1 DEF SendCall
  <2> QED BY <2>1, MoveQuiet DEF InCall
<1>2. CASE \E S \in SUBSET Thread, nb \in BOOLEAN : ReceiveCall(t, S, nb)
  BY <1>2 DEF ReceiveCall
<1>3. CASE \E args \in Cases : CaseCall(t, args)
  BY <1>3 DEF CaseCall
<1>4. CASE ExitCall(t)
  BY <1>4 DEF ExitCall
<1> QED
  BY <1>1, <1>2, <1>3, <1>4

LEMMA CreatingQuiet ==
  ASSUME TypeOK, LockInv, NEW t \in Thread,
         PthreadCreate(t) \/ PthreadCreateFails(t) \/ StartRoutine(t)
  PROVE  Quiet
<1> USE DEF TypeOK, Quiet, Alive, Leaving, Measuring, HoldsQ, Goto, globals, locals
<1>1. CASE PthreadCreate(t)
  <2>1. pc[peer[t]] = "new" /\ peer[t] \in Thread
    BY <1>1 DEF PthreadCreate, LockInv, CreationOwned, Creating_pc
  <2> QED
    BY <1>1, <2>1 DEF PthreadCreate
<1>2. CASE PthreadCreateFails(t)
  BY <1>2 DEF PthreadCreateFails
<1>3. CASE StartRoutine(t)
  BY <1>3 DEF StartRoutine
<1> QED
  BY <1>1, <1>2, <1>3

LEMMA SendingQuiet ==
  ASSUME TypeOK, NEW t \in Thread, Sending(t)
  PROVE  Quiet
<1> USE DEF TypeOK, Quiet, Alive, Leaving, Measuring, HoldsQ, Goto, Return, SignalPeer,
        Woken, globals, locals
<1>1. CASE SendLock(t)
  BY <1>1 DEF SendLock
<1>2. CASE SendDirect(t)
  BY <1>2 DEF SendDirect
<1>3. CASE \E nb \in BOOLEAN : SendRefuse(t, nb)
  BY <1>3 DEF SendRefuse
<1>4. CASE \E b \in Bsize : SendQueue(t, b)
  <2>1. /\ pc[t] = "send" /\ UNCHANGED <<globals, todo>>
        /\ Goto(t, "send_blocked") \/ Goto(t, "run")
    BY <1>4, SendQueueSteps DEF Return
  <2> QED BY <2>1, MoveQuiet DEF InCall
<1>5. CASE SendSignal(t)
  BY <1>5 DEF SendSignal
<1>6. CASE SendWoken(t)
  BY <1>6 DEF SendWoken
<1>7. CASE SendRet(t)
  BY <1>7 DEF SendRet
<1> QED
  BY <1>1, <1>2, <1>3, <1>4, <1>5, <1>6, <1>7 DEF Sending

LEMMA ReceivingQuiet ==
  ASSUME TypeOK, NEW t \in Thread, Receiving(t)
  PROVE  Quiet
<1> USE DEF TypeOK, Quiet, Alive, Leaving, Measuring, HoldsQ, Goto, Return, SignalPeer,
        Woken, globals, locals
<1>1. CASE RecvLock(t)
  BY <1>1 DEF RecvLock
<1>2. CASE RecvTake(t)
  <2>1. /\ pc[t] = "recv_scan" /\ UNCHANGED <<globals, todo>>
        /\ Goto(t, "recv_signal") \/ Goto(t, "run")
    BY <1>2 DEF RecvTake, Return
  <2> QED BY <2>1, MoveQuiet DEF InCall
<1>3. CASE RecvDefault(t)
  BY <1>3 DEF RecvDefault
<1>4. CASE RecvNone(t)
  BY <1>4 DEF RecvNone
<1>5. CASE RecvSignal(t)
  BY <1>5 DEF RecvSignal
<1>6. CASE \E s \in Thread : RecvBuild(t, s)
  BY <1>6 DEF RecvBuild
<1>7. CASE RecvNobody(t)
  BY <1>7 DEF RecvNobody
<1>8. CASE RecvWait(t)
  BY <1>8 DEF RecvWait
<1>9. CASE RecvWoken(t)
  BY <1>9 DEF RecvWoken
<1> QED
  BY <1>1, <1>2, <1>3, <1>4, <1>5, <1>6, <1>7, <1>8, <1>9 DEF Receiving

LEMMA ExitingQuiet ==
  ASSUME TypeOK, NEW t \in Thread,
         \/ ExitLock(t) \/ ExitSwap(t) \/ ExitDrain(t) \/ ExitDrainSignal(t)
         \/ ExitDrained(t) \/ \E x \in Thread : ExitVisit(t, x)
         \/ ExitRemove(t) \/ ExitWake(t)
  PROVE  Quiet
<1> USE DEF TypeOK, Quiet, Alive, Leaving, Measuring, HoldsQ, Goto, Return, SignalPeer,
        Woken, globals, locals
<1>1. CASE ExitLock(t)
  BY <1>1 DEF ExitLock
<1>2. CASE ExitSwap(t)
  BY <1>2 DEF ExitSwap
<1>3. CASE ExitDrain(t)
  <2>1. /\ pc[t] = "exit_drain" /\ UNCHANGED <<globals, todo>>
        /\ pc' = [pc EXCEPT ![t] = "exit_drain_signal"] \/ UNCHANGED pc
    BY <1>3 DEF ExitDrain
  <2> QED BY <2>1
<1>4. CASE ExitDrainSignal(t)
  BY <1>4 DEF ExitDrainSignal
<1>5. CASE ExitDrained(t)
  BY <1>5 DEF ExitDrained
<1>6. CASE \E x \in Thread : ExitVisit(t, x)
  <2>1. PICK x \in Thread : /\ pc[t] = "exit_walk" /\ x # t
                            /\ pc' = [pc EXCEPT ![t] = "exit_visit"]
                            /\ todo' = [todo EXCEPT ![t] = @ \ {x}]
                            /\ UNCHANGED globals
    BY <1>6 DEF ExitVisit
  <2>2. pc \in [Thread -> Control] /\ todo \in [Thread -> SUBSET Thread]
    OBVIOUS
  <2> QED BY <2>1, <2>2
<1>7. CASE ExitRemove(t)
  BY <1>7 DEF ExitRemove
<1>8. CASE ExitWake(t)
  BY <1>8 DEF ExitWake
<1> QED
  BY <1>1, <1>2, <1>3, <1>4, <1>5, <1>6, <1>7, <1>8

LEMMA SpuriousQuiet ==
  ASSUME TypeOK, NEW t \in Thread, SpuriousWakeup(t)
  PROVE  Quiet
BY DEF TypeOK, Quiet, Alive, Leaving, Measuring, HoldsQ, Woken, SpuriousWakeup, globals, locals

-----------------------------------------------------------------------------
\* Nobody is leaving a queue that is not locked.
LEMMA UnlockedComplete ==
  ASSUME LockInv, RegInv, qmutex = Null
  PROVE  Leaving = {} /\ registry = Alive
BY ThreadAssumption DEF LockInv, LockDiscipline, RegInv, Leaving

\* Those that create are alive, so they can be counted.
LEMMA Counts ==
  ASSUME RegInv
  PROVE  /\ IsFiniteSet(Measuring) /\ Cardinality(Measuring) \in Nat
         /\ IsFiniteSet(Alive \ External) /\ Cardinality(Alive \ External) \in Nat
         /\ Cardinality(Alive \ External) <= Cardinality(Alive)
         /\ Cardinality(Alive) \in Nat
<1>1. Measuring \in SUBSET Alive /\ Alive \ External \in SUBSET Alive
  BY DEF Measuring, Alive
<1> QED
  BY <1>1, FS_Subset, FS_CardinalityType DEF RegInv

LEMMA CreateCounts ==
  ASSUME TypeOK, LockInv, RegInv, NEW t \in Thread, NEW c \in Thread, Create(t, c)
  PROVE  RegInv'
<1>1. /\ pc[t] = "run" /\ pc[c] = "none" /\ c \notin External /\ qmutex = Null
      /\ pc' = [pc EXCEPT ![t] = "create", ![c] = "new"]
      /\ registry' = registry \cup {c} /\ len' = len + 1 /\ max' = max /\ todo' = todo
  BY DEF Create, CreateInternal
<1>2. pc \in [Thread -> Control] /\ max \in Nat
  BY DEF TypeOK
<1>3. /\ c \notin Alive /\ Alive' = Alive \cup {c}
      /\ t \notin Measuring /\ Measuring' = Measuring \cup {t}
  BY <1>1, <1>2 DEF Alive, Measuring
<1>4. Leaving = {} /\ Leaving' = {} /\ registry = Alive
  <2>1. Leaving' = Leaving
    BY <1>1, <1>2 DEF Leaving, HoldsQ
  <2> QED BY <1>1, <2>1, UnlockedComplete
<1>5. IsFiniteSet(Alive') /\ len' = Cardinality(Alive')
  BY <1>1, <1>3, FS_AddElement DEF RegInv
<1>6. Cardinality(Alive' \ External) <= max' + Cardinality(Measuring')
  <2>1. Alive' \ External = (Alive \ External) \cup {c} /\ c \notin Alive \ External
    BY <1>1, <1>3
  <2>2. Cardinality(Alive' \ External) = Cardinality(Alive \ External) + 1
    BY <2>1, Counts, FS_AddElement
  <2>3. Cardinality(Measuring') = Cardinality(Measuring) + 1
    BY <1>3, Counts, FS_AddElement
  <2> QED BY <1>1, <1>2, <2>2, <2>3, Counts DEF RegInv
<1>7. \A x \in External : pc'[x] # "new"
  BY <1>1, <1>2, ThreadAssumption DEF RegInv
<1> QED BY <1>1, <1>3, <1>4, <1>5, <1>6, <1>7 DEF RegInv

LEMMA RegisterCounts ==
  ASSUME TypeOK, LockInv, RegInv, NEW t \in Thread, Register(t)
  PROVE  RegInv'
<1>1. /\ pc[t] = "none" /\ t \in External /\ qmutex = Null
      /\ pc' = [pc EXCEPT ![t] = "run"]
      /\ registry' = registry \cup {t} /\ len' = len + 1 /\ max' = max /\ todo' = todo
  BY DEF Register, CreateInternal, Goto
<1>2. pc \in [Thread -> Control] /\ max \in Nat
  BY DEF TypeOK
<1>3. t \notin Alive /\ Alive' = Alive \cup {t} /\ Measuring' = Measuring
  BY <1>1, <1>2 DEF Alive, Measuring
<1>4. Leaving = {} /\ Leaving' = {} /\ registry = Alive
  <2>1. Leaving' = Leaving
    BY <1>1, <1>2 DEF Leaving, HoldsQ
  <2> QED BY <1>1, <2>1, UnlockedComplete
<1>5. IsFiniteSet(Alive') /\ len' = Cardinality(Alive')
  BY <1>1, <1>3, FS_AddElement DEF RegInv
<1>6. Alive' \ External = Alive \ External
  BY <1>1, <1>3
<1>7. \A x \in External : pc'[x] # "new"
  BY <1>1, <1>2, ThreadAssumption DEF RegInv
<1> QED BY <1>1, <1>3, <1>4, <1>5, <1>6, <1>7 DEF RegInv

LEMMA CreateUndoCounts ==
  ASSUME TypeOK, LockInv, RegInv, NEW t \in Thread, CreateUndo(t)
  PROVE  RegInv'
<1> DEFINE c == peer[t]
<1>1. /\ pc[t] = "create_undo" /\ qmutex = Null
      /\ pc' = [pc EXCEPT ![t] = "run", ![c] = "freed"]
      /\ registry' = registry \ {c} /\ len' = len - 1 /\ max' = max /\ todo' = todo
  BY DEF CreateUndo, LenAfterUndo
<1>2. pc \in [Thread -> Control] /\ max \in Nat /\ c \in Thread
  BY DEF TypeOK
<1>3. pc[c] = "new" /\ c # t /\ c \notin External
  BY <1>1, <1>2 DEF LockInv, CreationOwned, Creating_pc, RegInv
<1> HIDE DEF c
<1>4. /\ c \in Alive /\ Alive' = Alive \ {c}
      /\ t \in Measuring /\ Measuring' = Measuring \ {t}
  BY <1>1, <1>2, <1>3 DEF Alive, Measuring
<1>5. Leaving = {} /\ Leaving' = {} /\ registry = Alive
  <2>1. Leaving' = Leaving
    BY <1>1, <1>2, <1>3 DEF Leaving, HoldsQ
  <2> QED BY <1>1, <2>1, UnlockedComplete
<1>6. IsFiniteSet(Alive') /\ len' = Cardinality(Alive')
  BY <1>1, <1>4, FS_RemoveElement DEF RegInv
<1>7. Cardinality(Alive' \ External) <= max' + Cardinality(Measuring')
  <2>1. Alive' \ External = (Alive \ External) \ {c} /\ c \in Alive \ External
    BY <1>3, <1>4
  <2>2. Cardinality(Alive' \ External) = Cardinality(Alive \ External) - 1
    <3>1. IsFiniteSet(Alive \ External)
      BY Counts
    <3>2. Cardinality((Alive \ External) \ {c}) = Cardinality(Alive \ External) - 1
      BY <2>1, <3>1, FS_RemoveElement
    <3> QED BY <2>1, <3>2
  <2>3. Cardinality(Measuring') = Cardinality(Measuring) - 1
    BY <1>4, Counts, FS_RemoveElement
  <2> QED BY <1>1, <1>2, <2>2, <2>3, Counts DEF RegInv
<1>8. \A x \in External : pc'[x] # "new"
  BY <1>1, <1>2, <1>3, ThreadAssumption DEF RegInv
<1> QED BY <1>1, <1>4, <1>5, <1>6, <1>7, <1>8 DEF RegInv

LEMMA CreateMaxCounts ==
  ASSUME TypeOK, RegInv, NEW t \in Thread, CreateMax(t)
  PROVE  RegInv'
<1>1. /\ pc[t] = "create_max" /\ pc' = [pc EXCEPT ![t] = "run"]
      /\ registry' = registry /\ len' = len /\ max' = NewMax /\ todo' = todo
  BY DEF CreateMax, Return, Goto
<1>2. pc \in [Thread -> Control] /\ max \in Nat
  BY DEF TypeOK
<1>3. /\ Alive' = Alive /\ Leaving' = Leaving
      /\ t \in Measuring /\ Measuring' = Measuring \ {t}
      /\ \A x \in Thread : pc'[x] = "new" => pc[x] = "new"
  BY <1>1, <1>2 DEF Alive, Measuring, Leaving, HoldsQ
<1>4. Cardinality(Measuring') \in Nat
  BY <1>3, Counts, FS_RemoveElement, FS_CardinalityType
<1>5. len <= max' /\ max' \in Nat
  BY <1>1, <1>2, Counts DEF NewMax, RegInv
<1>6. Cardinality(Alive' \ External) <= max' + Cardinality(Measuring')
  BY <1>3, <1>4, <1>5, Counts DEF RegInv
<1> QED BY <1>1, <1>3, <1>6, ThreadAssumption DEF RegInv

LEMMA LeaveCounts ==
  ASSUME TypeOK, LockInv, RegInv, NEW t \in Thread,
         ExitQLock(t) \/ ExitSelf(t) \/ ExitDone(t)
  PROVE  RegInv'
<1>1. pc \in [Thread -> Control] /\ todo \in [Thread -> SUBSET Thread] /\ max \in Nat
  BY DEF TypeOK
<1>2. CASE ExitQLock(t)
  <2>1. /\ pc[t] = "exit_qlock" /\ qmutex = Null
        /\ pc' = [pc EXCEPT ![t] = "exit_walk"]
        /\ todo' = [todo EXCEPT ![t] = registry]
        /\ registry' = registry /\ len' = len /\ max' = max
    BY <1>2 DEF ExitQLock, Goto, globals
  <2>2. registry = Alive /\ Leaving = {}
    BY <2>1, UnlockedComplete
  <2>3. /\ Alive' = Alive /\ Measuring' = Measuring
        /\ \A x \in Thread : pc'[x] = "new" => pc[x] = "new"
    BY <1>1, <2>1 DEF Alive, Measuring
  <2>4. Leaving' = Leaving
    <3>1. t \in registry
      BY <2>1, <2>2 DEF Alive
    <3> QED BY <1>1, <2>1, <3>1 DEF Leaving, HoldsQ
  <2> QED BY <2>1, <2>3, <2>4, QuietKeeps DEF Quiet
<1>3. CASE ExitSelf(t)
  <2>1. /\ pc[t] = "exit_walk" /\ pc' = pc
        /\ todo' = [todo EXCEPT ![t] = @ \ {t}]
        /\ registry' = registry \ {t} /\ len' = len /\ max' = max
    BY <1>3 DEF ExitSelf
  <2>2. Alive' = Alive /\ Measuring' = Measuring
    BY <2>1 DEF Alive, Measuring
  <2>3. Leaving' = Leaving \cup {t}
    BY <1>1, <2>1 DEF Leaving, HoldsQ
  <2>4. registry' = Alive' \ Leaving'
    BY <2>1, <2>2, <2>3 DEF RegInv
  <2> QED BY <2>1, <2>2, <2>4 DEF RegInv
<1>4. CASE ExitDone(t)
  <2>1. /\ pc[t] = "exit_walk" /\ todo[t] = {} /\ pc' = [pc EXCEPT ![t] = "done"]
        /\ registry' = registry /\ len' = len - 1 /\ max' = max /\ todo' = todo
    BY <1>4 DEF ExitDone, Goto, locals
  <2>2. t \in Alive /\ Alive' = Alive \ {t} /\ Measuring' = Measuring
    BY <1>1, <2>1 DEF Alive, Measuring
  <2>3. t \in Leaving /\ Leaving' = Leaving \ {t}
    BY <1>1, <2>1 DEF Leaving, HoldsQ
  <2>4. registry' = Alive' \ Leaving'
    BY <2>1, <2>2, <2>3 DEF RegInv
  <2>5. IsFiniteSet(Alive') /\ len' = Cardinality(Alive')
    BY <2>1, <2>2, FS_RemoveElement DEF RegInv
  <2>6. Cardinality(Alive' \ External) <= max' + Cardinality(Measuring')
    <3>1. (Alive' \ External) \in SUBSET (Alive \ External)
      BY <2>2
    <3>2. /\ Cardinality(Alive' \ External) <= Cardinality(Alive \ External)
          /\ Cardinality(Alive' \ External) \in Nat
      BY <3>1, Counts, FS_Subset, FS_CardinalityType
    <3> QED BY <1>1, <2>1, <2>2, <3>2, Counts DEF RegInv
  <2>7. \A x \in External : pc'[x] # "new"
    BY <1>1, <2>1, ThreadAssumption DEF RegInv
  <2> QED BY <2>4, <2>5, <2>6, <2>7 DEF RegInv
<1> QED BY <1>2, <1>3, <1>4

LEMMA RegStep ==
  ASSUME TypeOK, LockInv, RegInv, [Next]_vars
  PROVE  RegInv'
<1>1. ASSUME NEW t \in Thread, Program(t)
      PROVE  RegInv'
  BY <1>1, CreateCounts, RegisterCounts, ProgramQuiet, QuietKeeps DEF Program
<1>2. ASSUME NEW t \in Thread, Creating(t)
      PROVE  RegInv'
  BY <1>2, CreatingQuiet, CreateUndoCounts, CreateMaxCounts, QuietKeeps DEF Creating
<1>3. ASSUME NEW t \in Thread, Exiting(t)
      PROVE  RegInv'
  BY <1>3, ExitingQuiet, LeaveCounts, QuietKeeps DEF Exiting
<1>4. ASSUME NEW t \in Thread, Sending(t) \/ Receiving(t) \/ SpuriousWakeup(t)
      PROVE  RegInv'
  BY <1>4, SendingQuiet, ReceivingQuiet, SpuriousQuiet, QuietKeeps
<1>5. CASE UNCHANGED vars
  <2>1. Quiet
    BY <1>5 DEF vars, globals, locals, Quiet, Alive, Leaving, Measuring, HoldsQ
  <2> QED BY <2>1, QuietKeeps
<1> QED BY <1>1, <1>2, <1>3, <1>4, <1>5 DEF Next, Runtime

\* RegInv is inductive next to the types and the lock discipline.
LEMMA RegistryInvariant == Spec => []RegInv
<1>1. Init => RegInv
  <2> SUFFICES ASSUME Init PROVE RegInv
    OBVIOUS
  <2>1. /\ registry = {Main} /\ len = 1 /\ max = 1
        /\ pc = [t \in Thread |-> IF t = Main THEN "run" ELSE "none"]
    BY DEF Init, InitBut
  <2>2. Alive = {Main} /\ Leaving = {} /\ Measuring = {} /\ Alive \ External = {Main}
    BY <2>1, ThreadAssumption DEF Alive, Leaving, Measuring, HoldsQ
  <2>3. \A x \in External : pc[x] # "new"
    BY <2>1, ThreadAssumption
  <2>4. /\ IsFiniteSet({Main}) /\ Cardinality({Main}) = 1
        /\ Cardinality({}) = 0
    BY FS_Singleton, FS_EmptySet
  <2> QED BY <2>1, <2>2, <2>3, <2>4 DEF RegInv
<1>2. TypeOK /\ LockInv /\ RegInv /\ [Next]_vars => RegInv'
  BY RegStep
<1> QED BY <1>1, <1>2, TypeCorrect, LocksCorrect, PTL DEF Spec

\* thread-list, the number of threads and thread-max are right whenever the
\* queue of threads is not locked, however many threads are created and end,
\* and whichever creations fail.
THEOREM RegistryCorrect == Spec => []RegistryExact
<1>1. TypeOK /\ LockInv /\ RegInv => RegistryExact
  <2> SUFFICES ASSUME TypeOK, LockInv, RegInv PROVE RegistryExact
    OBVIOUS
  <2>1. qmutex = Null => registry = Alive /\ len = Cardinality(registry)
    BY UnlockedComplete DEF RegInv
  <2>2. ASSUME \A t \in Thread : pc[t] \notin {"create", "create_undo", "create_max"}
        PROVE  Cardinality(registry \ External) <= max
    <3>1. Measuring = {} /\ Cardinality(Measuring) = 0
      BY <2>2, FS_EmptySet DEF Measuring
    <3>2. registry \ External \in SUBSET (Alive \ External)
      BY DEF RegInv
    <3>3. /\ Cardinality(registry \ External) <= Cardinality(Alive \ External)
          /\ Cardinality(registry \ External) \in Nat
      BY <3>2, Counts, FS_Subset, FS_CardinalityType
    <3>4. Cardinality(Alive \ External) <= max
      BY <3>1, Counts DEF RegInv, TypeOK
    <3> QED BY <3>3, <3>4, Counts DEF TypeOK
  <2> QED BY <2>1, <2>2 DEF RegistryExact, Alive
<1> QED BY <1>1, RegistryInvariant, TypeCorrect, LocksCorrect, PTL
=============================================================================
