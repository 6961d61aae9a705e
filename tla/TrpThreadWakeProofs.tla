------------------------- MODULE TrpThreadWakeProofs -------------------------
(***************************************************************************)
(* The wake-up protocol of TrpThread: as long as pthread_cond_wait returns *)
(* only when signalled, every signal finds the wait it is meant for, the   *)
(* state of a terminating thread stays STOPPED, no message enters an       *)
(* emptied mailbox, no receiver sleeps on a message it asked for, and no   *)
(* wake-up is lost.                                                        *)
(***************************************************************************)
EXTENDS TrpThreadWake, TrpThreadProofs, FiniteSetTheorems

-----------------------------------------------------------------------------
(* Suspended senders: each is marked by one message of the mailbox of its  *)
(* destination, or of the copy a terminating destination drains, until the *)
(* signal to it starts.                                                    *)

\* No message, no mark.
LEMMA NoMarks == MarkedBy(<<>>) = {} /\ MarkedOnce(<<>>)
BY DEF MarkedBy, MarkedOnce, Marks

\* A message put at the end marks its sender, and only if it says so.
LEMMA AppendMarks ==
  ASSUME NEW q \in Seq(Entry), NEW e \in Entry
  PROVE  /\ MarkedBy(Append(q, e)) \subseteq MarkedBy(q) \cup {e.mitt}
         /\ ~e.susp => MarkedBy(Append(q, e)) \subseteq MarkedBy(q)
         /\ MarkedOnce(q) /\ e.mitt \notin MarkedBy(q) => MarkedOnce(Append(q, e))
<1> DEFINE r == Append(q, e)
           n == Len(q) + 1
<1>1. /\ n \notin DOMAIN q
      /\ \A i \in DOMAIN r : i \in DOMAIN q \/ i = n
      /\ \A i \in DOMAIN q : r[i] = q[i]
      /\ r[n] = e
  BY AppendProperties
<1> HIDE DEF r, n
<1>2. \A i \in Marks(r) : \/ i \in Marks(q) /\ r[i] = q[i]
                          \/ i = n /\ r[i] = e /\ e.susp
  BY <1>1 DEF Marks
<1>3. \A i \in Marks(r) : \/ r[i].mitt \in MarkedBy(q)
                          \/ r[i].mitt = e.mitt /\ e.susp
  BY <1>2 DEF MarkedBy
<1>4. \A m \in MarkedBy(r) : m \in MarkedBy(q) \/ (m = e.mitt /\ e.susp)
  BY <1>3, Zenon DEF MarkedBy
<1>5. ASSUME MarkedOnce(q), e.mitt \notin MarkedBy(q)
      PROVE  MarkedOnce(r)
  <2>1. \A i \in Marks(q) : q[i].mitt # e.mitt
    BY <1>5 DEF MarkedBy
  <2> QED
    BY <1>2, <1>5, <2>1, Zenon DEF MarkedOnce
<1> QED
  BY <1>4, <1>5, Zenon DEF r

\* The messages that stay keep their order.
LEMMA RemoveAtElements ==
  ASSUME NEW S, NEW q \in Seq(S), NEW k \in DOMAIN q
  PROVE  /\ RemoveAt(q, k) \in Seq(S)
         /\ Len(RemoveAt(q, k)) = Len(q) - 1
         /\ \A i \in 1 .. Len(q) - 1 :
              RemoveAt(q, k)[i] = q[IF i < k THEN i ELSE i + 1]
<1>1. k \in 1 .. Len(q) /\ Len(q) \in Nat
  BY LenProperties
<1>2. \A j \in 1 .. Len(q) : q[j] \in S
  BY ElementOfSeq
<1>3. /\ SubSeq(q, 1, k - 1) \in Seq(S)
      /\ Len(SubSeq(q, 1, k - 1)) = k - 1
      /\ \A i \in 1 .. k - 1 : SubSeq(q, 1, k - 1)[i] = q[i]
  BY <1>1, <1>2, SubSeqProperties
<1>4. /\ SubSeq(q, k + 1, Len(q)) \in Seq(S)
      /\ Len(SubSeq(q, k + 1, Len(q))) = Len(q) - k
      /\ \A i \in 1 .. Len(q) - k : SubSeq(q, k + 1, Len(q))[i] = q[k + i]
  BY <1>1, <1>2, SubSeqProperties
<1> DEFINE a == SubSeq(q, 1, k - 1)
           b == SubSeq(q, k + 1, Len(q))
<1> HIDE DEF a, b
<1>5. a \o b \in Seq(S) /\ Len(a \o b) = Len(q) - 1
  <2>1. /\ a \in Seq(S) /\ b \in Seq(S) /\ Len(a) = k - 1 /\ Len(b) = Len(q) - k
    BY <1>3, <1>4 DEF a, b
  <2> QED BY <1>1, <2>1, ConcatProperties
<1>6. ASSUME NEW i \in 1 .. Len(q) - 1
      PROVE  (a \o b)[i] = q[IF i < k THEN i ELSE i + 1]
  <2>1. /\ a \in Seq(S) /\ b \in Seq(S) /\ Len(a) = k - 1 /\ Len(b) = Len(q) - k
    BY <1>3, <1>4 DEF a, b
  <2>2. (a \o b)[i] = IF i <= Len(a) THEN a[i] ELSE b[i - Len(a)]
    BY <1>1, <2>1, ConcatProperties
  <2>3. CASE i < k
    BY <1>1, <1>3, <2>1, <2>2, <2>3 DEF a
  <2>4. CASE ~(i < k)
    <3>1. i - (k - 1) \in 1 .. Len(q) - k
      BY <1>1, <2>4
    <3>2. b[i - (k - 1)] = q[k + (i - (k - 1))]
      BY <1>4, <3>1 DEF b
    <3> QED BY <1>1, <2>1, <2>2, <2>4, <3>2, SMTT(30)
  <2> QED BY <2>3, <2>4
<1> QED
  BY <1>5, <1>6 DEF RemoveAt, a, b

\* Taking a message takes its mark with it.
LEMMA RemoveMarks ==
  ASSUME NEW q \in Seq(Entry), NEW k \in DOMAIN q, MarkedOnce(q)
  PROVE  /\ MarkedBy(RemoveAt(q, k)) \subseteq MarkedBy(q)
         /\ MarkedOnce(RemoveAt(q, k))
         /\ q[k].susp => /\ q[k].mitt \in MarkedBy(q)
                         /\ q[k].mitt \notin MarkedBy(RemoveAt(q, k))
<1> DEFINE r == RemoveAt(q, k)
           at(i) == IF i < k THEN i ELSE i + 1
<1>0. k \in 1 .. Len(q) /\ Len(q) \in Nat /\ DOMAIN q = 1 .. Len(q)
  BY LenProperties
<1>1. DOMAIN r = 1 .. Len(q) - 1 /\ \A i \in 1 .. Len(q) - 1 : r[i] = q[at(i)]
  <2>1. /\ r \in Seq(Entry) /\ Len(r) = Len(q) - 1
        /\ \A i \in 1 .. Len(q) - 1 : r[i] = q[at(i)]
    BY RemoveAtElements
  <2> HIDE DEF r, at
  <2> QED BY <2>1, LenProperties
<1>2. \A i \in 1 .. Len(q) - 1 : at(i) \in 1 .. Len(q) /\ at(i) # k
  BY <1>0
<1>3. \A i, j \in 1 .. Len(q) - 1 : at(i) = at(j) => i = j
  BY <1>0
<1> HIDE DEF r, at
<1>4. \A i \in Marks(r) : /\ i \in 1 .. Len(q) - 1 /\ at(i) \in Marks(q)
                          /\ at(i) # k /\ r[i] = q[at(i)]
  BY <1>0, <1>1, <1>2 DEF Marks
<1>5. q[k].susp => k \in Marks(q)
  BY DEF Marks
<1>6. MarkedBy(r) \subseteq MarkedBy(q)
  BY <1>4 DEF MarkedBy
<1>7. MarkedOnce(r)
  BY <1>3, <1>4 DEF MarkedOnce
<1>8. q[k].susp => q[k].mitt \in MarkedBy(q) /\ q[k].mitt \notin MarkedBy(r)
  BY <1>4, <1>5 DEF MarkedBy, MarkedOnce
<1> QED BY <1>6, <1>7, <1>8 DEF r

\* So does dropping the first one.
LEMMA TailMarks ==
  ASSUME NEW q \in Seq(Entry), q # <<>>, MarkedOnce(q)
  PROVE  /\ MarkedBy(Tail(q)) \subseteq MarkedBy(q)
         /\ MarkedOnce(Tail(q))
         /\ Head(q).susp => /\ Head(q).mitt \in MarkedBy(q)
                            /\ Head(q).mitt \notin MarkedBy(Tail(q))
<1>0. 1 \in 1 .. Len(q) /\ Len(q) \in Nat /\ DOMAIN q = 1 .. Len(q) /\ Head(q) = q[1]
  BY EmptySeq, LenProperties
<1>1. DOMAIN Tail(q) = 1 .. Len(q) - 1 /\ \A i \in 1 .. Len(q) - 1 : Tail(q)[i] = q[i + 1]
  BY <1>0, HeadTailProperties
<1>4. \A i \in Marks(Tail(q)) : /\ i \in 1 .. Len(q) - 1 /\ i + 1 \in Marks(q)
                                /\ i + 1 # 1 /\ Tail(q)[i] = q[i + 1]
  BY <1>0, <1>1 DEF Marks
<1>5. q[1].susp => 1 \in Marks(q)
  BY <1>0 DEF Marks
<1>6. MarkedBy(Tail(q)) \subseteq MarkedBy(q)
  BY <1>4 DEF MarkedBy
<1>7. MarkedOnce(Tail(q))
  BY <1>4 DEF MarkedOnce
<1>8. Head(q).susp => /\ Head(q).mitt \in MarkedBy(q)
                      /\ Head(q).mitt \notin MarkedBy(Tail(q))
  BY <1>0, <1>4, <1>5 DEF MarkedBy, MarkedOnce
<1> QED BY <1>6, <1>7, <1>8

-----------------------------------------------------------------------------
\* What the steps below need of TypeOK.
WakeTypes ==
  /\ stato \in [Thread -> Stato]
  /\ msgq \in [Thread -> Seq(Entry)]
  /\ mitt \in [Thread -> SUBSET Thread]
  /\ slot \in [Thread -> Msg \cup {Null}]
  /\ pc \in [Thread -> Control]
  /\ peer \in [Thread -> Thread]
  /\ drain \in [Thread -> Seq(Entry)]

\* What sending to a mailbox does, with the message it puts there.
LEMMA SendQueueMessage ==
  ASSUME TypeOK, NEW t \in Thread, NEW b \in Bsize, SendQueue(t, b)
  PROVE  \E e \in Entry :
           /\ e.mitt = t
           /\ msgq' = [msgq EXCEPT ![peer[t]] = Append(@, e)]
           /\ \/ /\ e.susp
                 /\ Goto(t, "send_blocked")
                 /\ stato' = [stato EXCEPT ![t] = "WAITING_ON_SEND"]
                 /\ UNCHANGED <<peer, alts>>
              \/ /\ ~e.susp
                 /\ Return(t)
                 /\ UNCHANGED stato
<1> DEFINE susp == MustWait(msgq[peer[t]], b)
           e == [mitt |-> t, n |-> Next_n(t, peer[t]), susp |-> susp]
<1>1. susp \in BOOLEAN
  BY DEF MustWait
<1>2. e \in Entry
  <2>1. peer[t] \in Thread BY DEF TypeOK
  <2> QED BY <1>1, <2>1, NumberType, Zenon DEF Entry
<1>3. /\ msgq' = [msgq EXCEPT ![peer[t]] = Append(@, e)]
      /\ IF susp
         THEN /\ Goto(t, "send_blocked")
              /\ stato' = [stato EXCEPT ![t] = "WAITING_ON_SEND"]
              /\ UNCHANGED <<peer, alts>>
         ELSE /\ Return(t)
              /\ UNCHANGED stato
  BY DEF SendQueue
<1>4. e.mitt = t /\ e.susp = susp
  BY Zenon
<1> HIDE DEF e, susp
<1> QED
  BY <1>2, <1>3, <1>4, Zenon

\* What taking a message does, with the position it is taken from.
LEMMA RecvTakeMessage ==
  ASSUME TypeOK, NEW t \in Thread, RecvTake(t)
  PROVE  \E k \in DOMAIN msgq[t] :
           /\ msgq' = [msgq EXCEPT ![t] = RemoveAt(@, k)]
           /\ \/ /\ msgq[t][k].susp
                 /\ Goto(t, "recv_signal")
                 /\ peer' = [peer EXCEPT ![t] = msgq[t][k].mitt]
                 /\ UNCHANGED alts
              \/ /\ ~msgq[t][k].susp
                 /\ Return(t)
<1> DEFINE i == First(ReadyAlts(alts[t], msgq[t]))
           k == First(Matches(alts[t][i].from, msgq[t]))
<1>1. /\ ReadyAlts(alts[t], msgq[t]) # {}
      /\ ~alts[t][i].dflt
      /\ msgq' = [msgq EXCEPT ![t] = RemoveAt(@, k)]
      /\ IF WakesSender(msgq[t][k])
         THEN /\ Goto(t, "recv_signal")
              /\ peer' = [peer EXCEPT ![t] = msgq[t][k].mitt]
              /\ UNCHANGED alts
         ELSE Return(t)
  BY DEF RecvTake
<1>2. k \in DOMAIN msgq[t]
  BY <1>1, ScanFinds
<1> HIDE DEF k
<1> QED
  BY <1>1, <1>2, Zenon DEF WakesSender

\* What dropping a message of an emptied mailbox does.
LEMMA ExitDrainMessage ==
  ASSUME TypeOK, NEW t \in Thread, ExitDrain(t)
  PROVE  \E e \in Entry :
           /\ drain[t] # <<>> /\ e = Head(drain[t])
           /\ drain' = [drain EXCEPT ![t] = Tail(@)]
           /\ \/ /\ e.susp
                 /\ stato' = [stato EXCEPT ![e.mitt] = "WAITING_ON_SEND_TERM_DEST"]
                 /\ peer' = [peer EXCEPT ![t] = e.mitt]
                 /\ Goto(t, "exit_drain_signal")
              \/ /\ ~e.susp
                 /\ UNCHANGED <<stato, peer, pc>>
<1> DEFINE e == Head(drain[t])
<1>1. /\ drain[t] # <<>>
      /\ drain' = [drain EXCEPT ![t] = Tail(@)]
      /\ stato' = StatoAfterDrain(e)
      /\ IF e.susp
         THEN peer' = [peer EXCEPT ![t] = e.mitt] /\ Goto(t, "exit_drain_signal")
         ELSE UNCHANGED <<peer, pc>>
  BY DEF ExitDrain
<1>2. e \in Entry
  <2>1. drain[t] \in Seq(Entry) BY DEF TypeOK
  <2> QED BY <1>1, <2>1, HeadTailProperties
<1> HIDE DEF e
<1>3. drain[t] # <<>> /\ e = Head(drain[t])
  BY <1>1 DEF e
<1> QED
  BY <1>1, <1>2, <1>3, Zenon DEF StatoAfterDrain

-----------------------------------------------------------------------------
\* The types the protocol needs.
LEMMA TypesGiveWakeTypes == TypeOK => WakeTypes
BY DEF TypeOK, WakeTypes

\* Only threads are marked.
LEMMA MarkedThreads == ASSUME NEW q \in Seq(Entry) PROVE MarkedBy(q) \subseteq Thread
<1>1. \A i \in DOMAIN q : q[i] \in Entry
  BY LenProperties, ElementOfSeq
<1> QED
  BY <1>1 DEF MarkedBy, Marks, Entry

\* Marks stay good when the mailboxes do not change and no marked sender wakes.
LEMMA MarksFrame ==
  ASSUME MarksAgree, UNCHANGED <<msgq, drain>>,
         \A d \in Thread : \A m \in MarkedBy(msgq[d]) \cup MarkedBy(drain[d]) :
           pc'[m] = pc[m] /\ peer'[m] = peer[m]
  PROVE  MarksAgree'
BY DEF MarksAgree

\* The program writes no mailbox.
LEMMA ProgramKeepsMail ==
  ASSUME NEW t \in Thread, Program(t)
  PROVE  UNCHANGED <<msgq, drain>>
<1>1. ASSUME NEW c \in Thread, CreateInternal(c) PROVE UNCHANGED <<msgq, drain>>
  BY <1>1 DEF CreateInternal
<1>2. ASSUME ExitCall(t) PROVE UNCHANGED <<msgq, drain>>
  BY <1>2 DEF ExitCall, locals
<1>3. ASSUME NEW d \in Thread, SendCall(t, d) PROVE UNCHANGED <<msgq, drain>>
  BY <1>3 DEF SendCall, fields
<1>4. ASSUME NEW S \in SUBSET Thread, NEW nb \in BOOLEAN, ReceiveCall(t, S, nb)
      PROVE  UNCHANGED <<msgq, drain>>
  BY <1>4 DEF ReceiveCall, fields
<1>5. ASSUME NEW args \in Cases, CaseCall(t, args) PROVE UNCHANGED <<msgq, drain>>
  BY <1>5 DEF CaseCall, fields
<1> QED BY <1>1, <1>2, <1>3, <1>4, <1>5, Zenon DEF Program, Create, Register

\* The marks agree after every step that starts an operation, ...
LEMMA MarksProgram ==
  ASSUME WakeTypes, MarksAgree, NEW t \in Thread, Program(t)
  PROVE  MarksAgree'
<1>1. UNCHANGED <<msgq, drain>>
  BY ProgramKeepsMail
<1>2. \A m \in Thread : pc[m] = "send_blocked" => pc'[m] = pc[m] /\ peer'[m] = peer[m]
  <2> USE DEF WakeTypes, Goto
  <2>1. CASE \E c \in Thread : Create(t, c)
    BY <2>1 DEF Create, CreateInternal
  <2>2. CASE Register(t)
    BY <2>2 DEF Register, CreateInternal
  <2>3. CASE \E d \in Thread : SendCall(t, d)
    BY <2>3 DEF SendCall, Call
  <2>4. CASE \E S \in SUBSET Thread, nb \in BOOLEAN : ReceiveCall(t, S, nb)
    BY <2>4 DEF ReceiveCall, Call
  <2>5. CASE \E args \in Cases : CaseCall(t, args)
    BY <2>5 DEF CaseCall, Call
  <2>6. CASE ExitCall(t)
    BY <2>6 DEF ExitCall, locals
  <2> QED
    BY <2>1, <2>2, <2>3, <2>4, <2>5, <2>6 DEF Program
<1>3. \A d \in Thread : MarkedBy(msgq[d]) \cup MarkedBy(drain[d]) \subseteq Thread
  BY MarkedThreads DEF WakeTypes
<1> QED
  BY <1>1, <1>2, <1>3, MarksFrame DEF MarksAgree

\* ... every step of a creation, ...
LEMMA MarksCreating ==
  ASSUME WakeTypes, MarksAgree, CreationOwned, NEW t \in Thread, Creating(t)
  PROVE  MarksAgree'
<1>1. UNCHANGED <<msgq, drain>>
  BY DEF Creating, PthreadCreate, PthreadCreateFails, CreateUndo, CreateMax,
     StartRoutine, fields, locals
<1>2. \A m \in Thread : pc[m] = "send_blocked" => pc'[m] = pc[m] /\ peer'[m] = peer[m]
  BY DEF WakeTypes, Goto, Return, CreationOwned, Creating_pc, Creating,
     PthreadCreate, PthreadCreateFails, CreateUndo, CreateMax, StartRoutine,
     fields, locals
<1>3. \A d \in Thread : MarkedBy(msgq[d]) \cup MarkedBy(drain[d]) \subseteq Thread
  BY MarkedThreads DEF WakeTypes
<1> QED
  BY <1>1, <1>2, <1>3, MarksFrame DEF MarksAgree

\* ... of a send, which may mark the sender, ...
LEMMA MarksSending ==
  ASSUME TypeOK, MarksAgree, SignalsAgree, NEW t \in Thread, Sending(t)
  PROVE  /\ MarksAgree'
         /\ \A y \in Thread : /\ MarkedBy(msgq'[y]) \subseteq MarkedBy(msgq[y]) \cup {t}
                              /\ MarkedBy(drain'[y]) \subseteq MarkedBy(drain[y])
<1> USE TypesGiveWakeTypes
<1>0. \A d \in Thread : MarkedBy(msgq[d]) \cup MarkedBy(drain[d]) \subseteq Thread
  BY MarkedThreads DEF WakeTypes
<1>1. CASE \E b \in Bsize : SendQueue(t, b)
  <2> PICK b \in Bsize : SendQueue(t, b)
    BY <1>1
  <2>1. PICK e \in Entry :
           /\ e.mitt = t
           /\ msgq' = [msgq EXCEPT ![peer[t]] = Append(@, e)]
           /\ \/ /\ e.susp
                 /\ Goto(t, "send_blocked")
                 /\ stato' = [stato EXCEPT ![t] = "WAITING_ON_SEND"]
                 /\ UNCHANGED <<peer, alts>>
              \/ /\ ~e.susp
                 /\ Return(t)
                 /\ UNCHANGED stato
    BY SendQueueMessage, Zenon
  <2>2. peer[t] \in Thread /\ msgq[peer[t]] \in Seq(Entry)
    BY DEF WakeTypes
  <2>3. pc[t] = "send" /\ drain' = drain
    BY SendQueueSteps
  <2>4. \A d \in Thread : t \notin MarkedBy(msgq[d]) \cup MarkedBy(drain[d])
    BY <2>3 DEF MarksAgree
  <2>5. /\ MarkedOnce(Append(msgq[peer[t]], e))
        /\ MarkedBy(Append(msgq[peer[t]], e)) \subseteq MarkedBy(msgq[peer[t]]) \cup {t}
        /\ ~e.susp => MarkedBy(Append(msgq[peer[t]], e)) \subseteq MarkedBy(msgq[peer[t]])
    BY <2>1, <2>2, <2>4, AppendMarks DEF MarksAgree
  <2>6. /\ msgq'[peer[t]] = Append(msgq[peer[t]], e)
        /\ \A d \in Thread \ {peer[t]} : msgq'[d] = msgq[d]
    BY <2>1, <2>2 DEF WakeTypes
  <2>7. \A m \in Thread \ {t} : pc'[m] = pc[m] /\ peer'[m] = peer[m]
    BY <2>1 DEF WakeTypes, Goto, Return
  <2>8. e.susp => pc'[t] = "send_blocked" /\ peer'[t] = peer[t]
    BY <2>1 DEF WakeTypes, Goto
  <2>9. ASSUME NEW d \in Thread
        PROVE  /\ MarkedOnce(msgq'[d])
               /\ MarkedBy(msgq'[d]) \subseteq MarkedBy(msgq[d]) \cup {t}
               /\ t \in MarkedBy(msgq'[d]) => e.susp /\ d = peer[t]
    <3>1. CASE d = peer[t]
      BY <2>4, <2>5, <2>6, <3>1
    <3>2. CASE d # peer[t]
      BY <2>4, <2>6, <3>2 DEF MarksAgree
    <3> QED
      BY <3>1, <3>2
  <2>10. ASSUME NEW d \in Thread, NEW m \in MarkedBy(msgq'[d]) \cup MarkedBy(drain'[d])
         PROVE  pc'[m] = "send_blocked" /\ peer'[m] = d
    <3>1. CASE m = t
      BY <2>3, <2>4, <2>8, <2>9, <3>1
    <3>2. CASE m # t
      BY <1>0, <2>3, <2>7, <2>9, <3>2 DEF MarksAgree
    <3> QED
      BY <3>1, <3>2
  <2>11. ASSUME NEW d \in Thread
         PROVE  /\ MarkedOnce(drain'[d])
                /\ MarkedBy(msgq'[d]) \cap MarkedBy(drain'[d]) = {}
    BY <2>3, <2>4, <2>9 DEF MarksAgree
  <2> QED
    BY <2>3, <2>9, <2>10, <2>11 DEF MarksAgree
<1>2. CASE ~ \E b \in Bsize : SendQueue(t, b)
  <2>1. UNCHANGED <<msgq, drain>>
    BY <1>2 DEF Sending, SendLock, SendDirect, SendRefuse, SendSignal,
       SendWoken, SendRet, fields, locals
  <2>2. \A d \in Thread : \A m \in MarkedBy(msgq[d]) \cup MarkedBy(drain[d]) :
           pc'[m] = pc[m] /\ peer'[m] = peer[m]
    BY <1>0, <1>2 DEF Sending, SendLock, SendDirect, SendRefuse, SendSignal,
       SendWoken, SendRet,
        fields, locals, Goto, Return, SignalPeer, Woken, WakeTypes, MarksAgree,
        SignalsAgree, SignalAgrees
  <2> QED
    BY <2>1, <2>2, MarksFrame
<1> QED
  BY <1>1, <1>2

\* Only taking a message changes a mailbox.
LEMMA ReceivingKeepsMail ==
  ASSUME NEW t \in Thread, Receiving(t), ~RecvTake(t)
  PROVE  UNCHANGED <<msgq, drain>>
BY DEF Receiving, RecvLock, RecvDefault, RecvNone, RecvSignal, RecvBuild,
   RecvNobody,
   RecvWait, RecvWoken, fields, locals

\* ... of a receive, ...
LEMMA MarksReceiving ==
  ASSUME TypeOK, MarksAgree, SignalsAgree, NEW t \in Thread, Receiving(t)
  PROVE  MarksAgree'
<1> USE TypesGiveWakeTypes
<1>0. \A d \in Thread : MarkedBy(msgq[d]) \cup MarkedBy(drain[d]) \subseteq Thread
  BY MarkedThreads DEF WakeTypes
<1>1. CASE RecvTake(t)
  <2>1. PICK k \in DOMAIN msgq[t] :
          /\ msgq' = [msgq EXCEPT ![t] = RemoveAt(@, k)]
          /\ Goto(t, "recv_signal") \/ Return(t)
          /\ \A m \in Thread \ {t} : peer'[m] = peer[m]
    <3>1. PICK k \in DOMAIN msgq[t] :
          /\ msgq' = [msgq EXCEPT ![t] = RemoveAt(@, k)]
          /\ \/ /\ Goto(t, "recv_signal")
                /\ peer' = [peer EXCEPT ![t] = msgq[t][k].mitt]
             \/ Return(t)
      BY <1>1, RecvTakeMessage, Zenon
    <3> QED
      BY <3>1 DEF WakeTypes, Return
  <2>2. pc[t] = "recv_scan" /\ drain' = drain
    BY <1>1 DEF RecvTake
  <2>3. /\ MarkedOnce(RemoveAt(msgq[t], k))
        /\ MarkedBy(RemoveAt(msgq[t], k)) \subseteq MarkedBy(msgq[t])
    BY RemoveMarks DEF WakeTypes, MarksAgree
  <2>4. /\ msgq'[t] = RemoveAt(msgq[t], k)
        /\ \A d \in Thread \ {t} : msgq'[d] = msgq[d]
    BY <2>1 DEF WakeTypes
  <2>5. \A d \in Thread : /\ MarkedOnce(msgq'[d])
                          /\ MarkedBy(msgq'[d]) \subseteq MarkedBy(msgq[d])
    BY <2>3, <2>4 DEF MarksAgree
  <2>6. \A m \in Thread \ {t} : pc'[m] = pc[m] /\ peer'[m] = peer[m]
    BY <2>1 DEF WakeTypes, Goto, Return
  <2>7. \A d \in Thread : t \notin MarkedBy(msgq[d]) \cup MarkedBy(drain[d])
    BY <2>2 DEF MarksAgree
  <2> QED
    BY <1>0, <2>2, <2>5, <2>6, <2>7 DEF MarksAgree
<1>2. CASE ~RecvTake(t)
  <2>1. UNCHANGED <<msgq, drain>>
    BY <1>2, ReceivingKeepsMail
  <2>2. \A d \in Thread : \A m \in MarkedBy(msgq[d]) \cup MarkedBy(drain[d]) :
           pc'[m] = pc[m] /\ peer'[m] = peer[m]
    BY <1>0, <1>2 DEF Receiving, RecvLock, RecvDefault, RecvNone, RecvSignal,
       RecvBuild, RecvNobody, RecvWait, RecvWoken,
        fields, locals, Goto, Return, SignalPeer, Woken, WakeTypes, MarksAgree,
        SignalsAgree, SignalAgrees
  <2> QED
    BY <2>1, <2>2, MarksFrame
<1> QED
  BY <1>1, <1>2

\* ... and of a termination.
LEMMA MarksExiting ==
  ASSUME TypeOK, MarksAgree, SignalsAgree, NEW t \in Thread, Exiting(t)
  PROVE  /\ MarksAgree'
         /\ \A y \in Thread :
              MarkedBy(msgq'[y]) \cup MarkedBy(drain'[y])
                \subseteq MarkedBy(msgq[y]) \cup MarkedBy(drain[y])
<1> USE TypesGiveWakeTypes
<1>0. \A d \in Thread : MarkedBy(msgq[d]) \cup MarkedBy(drain[d]) \subseteq Thread
  BY MarkedThreads DEF WakeTypes
<1>1. CASE ExitSwap(t)
  <2>1. /\ drain'[t] = msgq[t] /\ msgq'[t] = <<>>
        /\ \A d \in Thread \ {t} : drain'[d] = drain[d] /\ msgq'[d] = msgq[d]
        /\ pc[t] = "exit_swap" /\ \A m \in Thread \ {t} : pc'[m] = pc[m]
        /\ peer' = peer
    BY <1>1 DEF ExitSwap, WakeTypes, Goto
  <2>2. \A m \in Thread : pc[m] = "send_blocked" => pc'[m] = pc[m] /\ peer'[m] = peer[m]
    BY <2>1
  <2> QED
    BY <1>0, <2>1, <2>2, NoMarks DEF MarksAgree
<1>2. CASE ExitDrain(t)
  <2>1. /\ drain[t] # <<>> /\ pc[t] = "exit_drain" /\ msgq' = msgq
        /\ drain' = [drain EXCEPT ![t] = Tail(@)]
    BY <1>2 DEF ExitDrain
  <2>2. \A m \in Thread \ {t} : pc'[m] = pc[m] /\ peer'[m] = peer[m]
    BY <1>2 DEF ExitDrain, WakeTypes, Goto
  <2>3. /\ drain'[t] = Tail(drain[t])
        /\ \A d \in Thread \ {t} : drain'[d] = drain[d]
    BY <2>1 DEF WakeTypes
  <2>4. /\ MarkedOnce(Tail(drain[t]))
        /\ MarkedBy(Tail(drain[t])) \subseteq MarkedBy(drain[t])
    BY <2>1, TailMarks DEF WakeTypes, MarksAgree
  <2>5. \A d \in Thread : /\ MarkedOnce(drain'[d])
                          /\ MarkedBy(drain'[d]) \subseteq MarkedBy(drain[d])
    BY <2>3, <2>4 DEF MarksAgree
  <2>6. \A d \in Thread : t \notin MarkedBy(msgq[d]) \cup MarkedBy(drain[d])
    BY <2>1 DEF MarksAgree
  <2> QED
    BY <1>0, <2>1, <2>2, <2>5, <2>6 DEF MarksAgree
<1>3. CASE ~ExitSwap(t) /\ ~ExitDrain(t)
  <2>1. UNCHANGED <<msgq, drain>>
    BY <1>3 DEF Exiting, ExitLock, ExitDrainSignal, ExitDrained, ExitQLock,
       ExitSelf, ExitVisit, ExitRemove, ExitWake, ExitDone, fields, locals
  <2>2. \A d \in Thread : \A m \in MarkedBy(msgq[d]) \cup MarkedBy(drain[d]) :
           pc'[m] = pc[m] /\ peer'[m] = peer[m]
    BY <1>0, <1>3 DEF Exiting, ExitLock, ExitDrainSignal, ExitDrained,
       ExitQLock, ExitSelf, ExitVisit, ExitRemove, ExitWake, ExitDone,
        fields, locals, Goto, SignalPeer, Woken, WakeTypes, MarksAgree,
        SignalsAgree, SignalAgrees
  <2> QED
    BY <2>1, <2>2, MarksFrame
<1> QED
  BY <1>1, <1>2, <1>3

-----------------------------------------------------------------------------
(* Signals and waits *)

\* A signal on its way keeps its aim as long as the wait it ends lasts.
LEMMA SignalFrame ==
  ASSUME NEW x \in Thread, SignalAgrees(x), NEW d, d = peer[x],
         pc'[x] = pc[x], peer'[x] = d,
         pc'[d] = pc[d], peer'[d] = peer[d], slot'[d] = slot[d],
         mitt[d] = {} => mitt'[d] = {},
         \A y \in Thread : d \in MarkedBy(msgq'[y]) \cup MarkedBy(drain'[y])
                            => d \in MarkedBy(msgq[y]) \cup MarkedBy(drain[y])
  PROVE  SignalAgrees(x)'
BY DEF SignalAgrees

\* Between the unlock and pthread_cond_signal.
Signalling == {"send_signal", "exit_wake", "recv_signal", "exit_drain_signal"}

\* Who is not about to signal has nothing to agree with.
LEMMA NoSignal ==
  ASSUME NEW x \in Thread, pc'[x] \notin Signalling
  PROVE  SignalAgrees(x)'
BY DEF SignalAgrees, Signalling

\* The peer of a thread about to signal sleeps.
LEMMA PeerSleeps ==
  ASSUME SignalsAgree, NEW x \in Thread, pc[x] \in Signalling
  PROVE  pc[peer[x]] \in {"send_blocked", "recv_blocked"}
BY DEF SignalsAgree, SignalAgrees, Signalling

\* Signals keep their aim when an operation starts, ...
LEMMA SignalsProgram ==
  ASSUME WakeTypes, SignalsAgree, UNCHANGED <<msgq, drain>>, NEW t \in Thread, Program(t)
  PROVE  SignalsAgree'
<1> USE DEF WakeTypes, SignalsAgree, SignalAgrees, Goto, fields, locals
<1>1. CASE \E c \in Thread : Create(t, c)
  BY <1>1 DEF Create, CreateInternal
<1>2. CASE Register(t)
  BY <1>2 DEF Register, CreateInternal
<1>3. CASE \E d \in Thread : SendCall(t, d)
  BY <1>3 DEF SendCall, Call
<1>4. CASE \E S \in SUBSET Thread, nb \in BOOLEAN : ReceiveCall(t, S, nb)
  BY <1>4 DEF ReceiveCall, Call
<1>5. CASE \E args \in Cases : CaseCall(t, args)
  BY <1>5 DEF CaseCall, Call
<1>6. CASE ExitCall(t)
  BY <1>6 DEF ExitCall
<1> QED
  BY <1>1, <1>2, <1>3, <1>4, <1>5, <1>6 DEF Program

\* ... during a creation, ...
LEMMA SignalsCreating ==
  ASSUME WakeTypes, SignalsAgree, CreationOwned, NEW t \in Thread, Creating(t)
  PROVE  SignalsAgree'
<1> USE DEF WakeTypes, SignalsAgree, SignalAgrees, Goto, Return, fields,
   locals, CreationOwned, Creating_pc
<1>1. CASE PthreadCreate(t)
  BY <1>1 DEF PthreadCreate
<1>2. CASE PthreadCreateFails(t)
  BY <1>2 DEF PthreadCreateFails
<1>3. CASE CreateUndo(t)
  BY <1>3 DEF CreateUndo
<1>4. CASE CreateMax(t)
  BY <1>4 DEF CreateMax
<1>5. CASE StartRoutine(t)
  BY <1>5 DEF StartRoutine
<1> QED
  BY <1>1, <1>2, <1>3, <1>4, <1>5 DEF Creating

\* ... during a send, whose direct hand-over starts one, ...
LEMMA SignalsSending ==
  ASSUME TypeOK, WakeTypes, SignalsAgree, StatoAgrees, SlotAgrees,
         NEW t \in Thread, Sending(t),
         \A y \in Thread : /\ MarkedBy(msgq'[y]) \subseteq MarkedBy(msgq[y]) \cup {t}
                           /\ MarkedBy(drain'[y]) \subseteq MarkedBy(drain[y])
  PROVE  SignalsAgree'
<1> USE DEF WakeTypes, SignalsAgree, SignalAgrees, Goto, Return, fields, locals
<1>1. CASE SendLock(t)
  BY <1>1 DEF SendLock
<1>2. CASE SendDirect(t)
  <2> DEFINE d == peer[t]
  <2>1. d \in Thread /\ pc[t] = "send" /\ pc[d] = "recv_blocked" /\ slot[d] = Null
        /\ d # t /\ mitt[d] # {}
    BY <1>2 DEF SendDirect, Expected, StatoAgrees, SlotAgrees, RecvWaits
  <2>2. /\ slot'[d] # Null /\ slot'[d].mitt = t
        /\ \A y \in Thread \ {d} : slot'[y] = slot[y]
    <3>1. slot' = [slot EXCEPT ![d] = [mitt |-> t, n |-> Next_n(t, d)]]
      BY <1>2 DEF SendDirect
    <3>2. [mitt |-> t, n |-> Next_n(t, d)] \in Msg
      BY <2>1, NumberType DEF Msg
    <3> QED
      BY <2>1, <3>1, <3>2, NullAssumption
  <2>3. /\ pc'[t] = "send_signal" /\ \A x \in Thread \ {t} : pc'[x] = pc[x]
        /\ UNCHANGED <<peer, mitt, msgq, drain>>
    BY <1>2 DEF SendDirect
  <2>4. ASSUME NEW x \in Thread, pc[x] \in {"send_signal", "exit_wake"}, peer[x] = d
        PROVE  FALSE
    BY <2>1, <2>4
  <2>5. SignalAgrees(t)'
    BY <2>1, <2>2, <2>3
  <2>6. ASSUME NEW x \in Thread, x # t
        PROVE  SignalAgrees(x)'
    <3>1. CASE pc[x] \in Signalling
      <4>1. peer[x] # d /\ peer[x] # t
        BY <2>1, <2>4, <3>1, PeerSleeps DEF Signalling
      <4> QED
        BY <2>2, <2>3, <2>6, <4>1, SignalFrame
    <3>2. CASE pc[x] \notin Signalling
      BY <2>3, <2>6, <3>2, NoSignal
    <3> QED
      BY <3>1, <3>2
  <2> QED
    BY <2>5, <2>6
<1>3. CASE \E nb \in BOOLEAN : SendRefuse(t, nb)
  BY <1>3 DEF SendRefuse
<1>4. CASE \E b \in Bsize : SendQueue(t, b)
  <2>1. /\ pc[t] = "send" /\ UNCHANGED <<slot, mitt>>
        /\ \/ Goto(t, "send_blocked") /\ UNCHANGED peer
           \/ Goto(t, "run") /\ peer' = [peer EXCEPT ![t] = t]
    BY <1>4, SendQueueSteps
  <2>2. /\ \A x \in Thread \ {t} : pc'[x] = pc[x] /\ peer'[x] = peer[x]
        /\ pc'[t] \in {"send_blocked", "run"}
    BY <2>1
  <2>3. SignalAgrees(t)'
    BY <2>2, NoSignal DEF Signalling
  <2>4. ASSUME NEW x \in Thread, x # t
        PROVE  SignalAgrees(x)'
    <3>1. CASE pc[x] \in Signalling
      <4>1. peer[x] # t
        BY <2>1, <3>1, PeerSleeps
      <4> QED
        BY <2>1, <2>2, <2>4, <4>1, SignalFrame
    <3>2. CASE pc[x] \notin Signalling
      BY <2>2, <2>4, <3>2, NoSignal
    <3> QED
      BY <3>1, <3>2
  <2> QED
    BY <2>3, <2>4
<1>5. CASE SendSignal(t)
  BY <1>5 DEF SendSignal, SignalPeer, Woken
<1>6. CASE SendWoken(t)
  BY <1>6 DEF SendWoken
<1>7. CASE SendRet(t)
  BY <1>7 DEF SendRet
<1> QED
  BY <1>1, <1>2, <1>3, <1>4, <1>5, <1>6, <1>7 DEF Sending

\* ... during a receive, ...
LEMMA SignalsReceiving ==
  ASSUME WakeTypes, SignalsAgree, MarksAgree,
         NEW t \in Thread, Receiving(t), ~RecvTake(t),
         UNCHANGED <<msgq, drain>>
  PROVE  SignalsAgree'
<1> USE DEF WakeTypes, SignalsAgree, SignalAgrees, Goto, Return, fields, locals
<1>1. CASE RecvLock(t)
  BY <1>1 DEF RecvLock
<1>3. CASE RecvDefault(t)
  BY <1>3 DEF RecvDefault
<1>4. CASE RecvNone(t)
  BY <1>4 DEF RecvNone
<1>5. CASE RecvSignal(t)
  BY <1>5 DEF RecvSignal, SignalPeer, Woken
<1>6. CASE \E s \in Thread : RecvBuild(t, s)
  BY <1>6 DEF RecvBuild
<1>7. CASE RecvNobody(t)
  BY <1>7 DEF RecvNobody
<1>8. CASE RecvWait(t)
  BY <1>8 DEF RecvWait
<1>9. CASE RecvWoken(t)
  BY <1>9 DEF RecvWoken, MittAfterWait
<1> QED
  BY <1>1, <1>3, <1>4, <1>5, <1>6, <1>7, <1>8, <1>9 DEF Receiving

\* ... and during a termination, whose walk starts one.
LEMMA SignalsExiting ==
  ASSUME WakeTypes, LockInv, SignalsAgree, StatoAgrees, SlotAgrees,
         NEW t \in Thread, Exiting(t), ~ExitDrain(t),
         \A y \in Thread :
           MarkedBy(msgq'[y]) \cup MarkedBy(drain'[y])
             \subseteq MarkedBy(msgq[y]) \cup MarkedBy(drain[y])
  PROVE  SignalsAgree'
<1> USE DEF WakeTypes, SignalsAgree, SignalAgrees, Goto, Return, fields, locals
<1>1. CASE ExitLock(t)
  BY <1>1 DEF ExitLock
<1>2. CASE ExitSwap(t)
  BY <1>2 DEF ExitSwap
<1>4. CASE ExitDrainSignal(t)
  BY <1>4 DEF ExitDrainSignal, SignalPeer, Woken
<1>5. CASE ExitDrained(t)
  BY <1>5 DEF ExitDrained
<1>6. CASE ExitQLock(t)
  BY <1>6 DEF ExitQLock
<1>7. CASE ExitSelf(t)
  BY <1>7 DEF ExitSelf
<1>8. CASE \E x \in Thread : ExitVisit(t, x)
  BY <1>8 DEF ExitVisit
<1>9. CASE ExitRemove(t)
  <2> DEFINE d == peer[t]
  <2>1. /\ pc[t] = "exit_visit" /\ d \in Thread
        /\ mitt' = IF AwaitedBy(d, t) THEN [mitt EXCEPT ![d] = @ \ {t}] ELSE mitt
        /\ \/ Sveglia(t, d) /\ Goto(t, "exit_wake") /\ UNCHANGED peer
           \/ Goto(t, "exit_walk") /\ peer' = [peer EXCEPT ![t] = t]
        /\ UNCHANGED <<slot, msgq, drain>>
    BY <1>9 DEF ExitRemove
  <2>2. /\ \A x \in Thread \ {t} : pc'[x] = pc[x] /\ peer'[x] = peer[x]
        /\ \/ pc'[t] = "exit_wake" /\ peer'[t] = d /\ Sveglia(t, d)
           \/ pc'[t] = "exit_walk"
    BY <2>1
  <2>3. Sveglia(t, d) => pc[d] = "recv_blocked" /\ slot[d] = Null /\ mitt'[d] = {}
    <3> SUFFICES ASSUME Sveglia(t, d)
                 PROVE  pc[d] = "recv_blocked" /\ slot[d] = Null /\ mitt'[d] = {}
      OBVIOUS
    <3>1. /\ stato[d] = "WAITING_ON_RECEIVE" /\ slot[d] = Null
          /\ mitt[d] = {t} /\ AwaitedBy(d, t)
      BY DEF Sveglia, AwaitedBy
    <3>2. pc[d] = "recv_blocked"
      BY <2>1, <3>1 DEF StatoAgrees, SlotAgrees, RecvWaits
    <3> QED
      BY <2>1, <3>1, <3>2
  <2>4. \A x \in Thread : mitt[x] = {} => mitt'[x] = {}
    BY <2>1
  <2> HIDE DEF d
  <2>5. SignalAgrees(t)'
    <3>1. CASE pc'[t] = "exit_wake" /\ peer'[t] = d /\ Sveglia(t, d)
      <4>1. d # t
        BY <2>1, <2>3, <3>1
      <4> QED
        BY <2>1, <2>2, <2>3, <3>1, <4>1
    <3>2. CASE pc'[t] = "exit_walk"
      BY <3>2, NoSignal DEF Signalling
    <3> QED
      BY <2>2, <3>1, <3>2
  <2>6. ASSUME NEW x \in Thread, x # t
        PROVE  SignalAgrees(x)'
    <3>1. CASE pc[x] \in Signalling
      <4>1. peer[x] # t
        BY <2>1, <3>1, PeerSleeps
      <4> QED
        BY <2>1, <2>2, <2>4, <2>6, <4>1, SignalFrame
    <3>2. CASE pc[x] \notin Signalling
      BY <2>2, <2>6, <3>2, NoSignal
    <3> QED
      BY <3>1, <3>2
  <2> QED
    BY <2>5, <2>6
<1>10. CASE ExitWake(t)
  BY <1>10 DEF ExitWake, SignalPeer, Woken, LockInv, LockDiscipline, HoldsQ
<1>11. CASE ExitDone(t)
  BY <1>11 DEF ExitDone
<1> QED
  BY <1>1, <1>2, <1>4, <1>5, <1>6, <1>7, <1>8, <1>9, <1>10, <1>11 DEF Exiting

\* Taking the message of a suspended sender starts the signal to it.
LEMMA SignalsTake ==
  ASSUME TypeOK, MarksAgree, SignalsAgree, NEW t \in Thread, RecvTake(t)
  PROVE  SignalsAgree'
<1> USE TypesGiveWakeTypes
<1>1. PICK k \in DOMAIN msgq[t] :
        /\ msgq' = [msgq EXCEPT ![t] = RemoveAt(@, k)]
        /\ \/ /\ msgq[t][k].susp
              /\ Goto(t, "recv_signal")
              /\ peer' = [peer EXCEPT ![t] = msgq[t][k].mitt]
              /\ UNCHANGED alts
           \/ /\ ~msgq[t][k].susp
              /\ Return(t)
  BY RecvTakeMessage, Zenon
<1>2. pc[t] = "recv_scan" /\ UNCHANGED <<slot, mitt, drain>>
  BY DEF RecvTake
<1> DEFINE m == msgq[t][k].mitt
           q == RemoveAt(msgq[t], k)
<1>3. /\ MarkedBy(q) \subseteq MarkedBy(msgq[t])
      /\ msgq[t][k].susp => m \in MarkedBy(msgq[t]) /\ m \notin MarkedBy(q)
  BY RemoveMarks DEF WakeTypes, MarksAgree
<1>4. msgq'[t] = q /\ \A y \in Thread \ {t} : msgq'[y] = msgq[y]
  BY <1>1 DEF WakeTypes
<1>5. \A x \in Thread \ {t} : pc'[x] = pc[x] /\ peer'[x] = peer[x]
  BY <1>1 DEF WakeTypes, Goto, Return
<1> HIDE DEF q, m
<1>6. \A y \in Thread : MarkedBy(msgq'[y]) \subseteq MarkedBy(msgq[y])
  BY <1>3, <1>4
<1>7. SignalAgrees(t)'
  <2>1. CASE msgq[t][k].susp
    <3>1. m \in MarkedBy(msgq[t]) /\ m \notin MarkedBy(q) /\ m \in Thread
      BY <1>3, <2>1, MarkedThreads DEF WakeTypes
    <3>2. pc[m] = "send_blocked" /\ peer[m] = t /\ m \notin MarkedBy(drain[t])
      BY <3>1 DEF MarksAgree
    <3>3. \A y \in Thread \ {t} : m \notin MarkedBy(msgq[y]) \cup MarkedBy(drain[y])
      BY <3>2 DEF MarksAgree
    <3>4. pc'[t] = "recv_signal" /\ peer'[t] = m
      BY <1>1, <2>1 DEF WakeTypes, Goto, m
    <3>5. m # t
      BY <1>2, <3>2
    <3>6. \A y \in Thread : m \notin MarkedBy(msgq'[y]) \cup MarkedBy(drain'[y])
      BY <1>2, <1>4, <3>1, <3>2, <3>3
    <3> QED
      BY <1>5, <3>1, <3>2, <3>4, <3>5, <3>6 DEF SignalAgrees
  <2>2. CASE ~msgq[t][k].susp
    <3>1. pc'[t] = "run"
      BY <1>1, <2>2 DEF WakeTypes, Goto, Return
    <3> QED
      BY <3>1, NoSignal DEF Signalling
  <2> QED
    BY <2>1, <2>2
<1>8. ASSUME NEW x \in Thread, x # t
      PROVE  SignalAgrees(x)'
  <2>1. CASE pc[x] \in Signalling
    <3>1. peer[x] # t /\ peer[x] \in Thread /\ SignalAgrees(x)
      BY <1>2, <2>1, PeerSleeps DEF WakeTypes, SignalsAgree
    <3> QED
      BY <1>2, <1>5, <1>6, <1>8, <3>1, SignalFrame
  <2>2. CASE pc[x] \notin Signalling
    BY <1>5, <1>8, <2>2, NoSignal
  <2> QED
    BY <2>1, <2>2
<1> QED
  BY <1>7, <1>8 DEF SignalsAgree

\* Dropping the message of a suspended sender does so too.
LEMMA SignalsDrain ==
  ASSUME TypeOK, MarksAgree, SignalsAgree, NEW t \in Thread, ExitDrain(t)
  PROVE  SignalsAgree'
<1> USE TypesGiveWakeTypes
<1>1. PICK e \in Entry :
        /\ drain[t] # <<>> /\ e = Head(drain[t])
        /\ drain' = [drain EXCEPT ![t] = Tail(@)]
        /\ \/ /\ e.susp
              /\ stato' = [stato EXCEPT ![e.mitt] = "WAITING_ON_SEND_TERM_DEST"]
              /\ peer' = [peer EXCEPT ![t] = e.mitt]
              /\ Goto(t, "exit_drain_signal")
           \/ /\ ~e.susp
              /\ UNCHANGED <<stato, peer, pc>>
  BY ExitDrainMessage, Zenon
<1>2. pc[t] = "exit_drain" /\ UNCHANGED <<slot, mitt, msgq>>
  BY DEF ExitDrain
<1> DEFINE m == e.mitt
           q == Tail(drain[t])
<1>3. /\ MarkedBy(q) \subseteq MarkedBy(drain[t])
      /\ e.susp => m \in MarkedBy(drain[t]) /\ m \notin MarkedBy(q)
  BY <1>1, TailMarks DEF WakeTypes, MarksAgree
<1>4. drain'[t] = q /\ \A y \in Thread \ {t} : drain'[y] = drain[y]
  BY <1>1 DEF WakeTypes
<1>5. \A x \in Thread \ {t} : pc'[x] = pc[x] /\ peer'[x] = peer[x]
  BY <1>1 DEF WakeTypes, Goto
<1> HIDE DEF q, m
<1>6. \A y \in Thread : MarkedBy(drain'[y]) \subseteq MarkedBy(drain[y])
  BY <1>3, <1>4
<1>7. SignalAgrees(t)'
  <2>1. CASE e.susp
    <3>1. m \in MarkedBy(drain[t]) /\ m \notin MarkedBy(q) /\ m \in Thread
      BY <1>3, <2>1, MarkedThreads DEF WakeTypes
    <3>2. pc[m] = "send_blocked" /\ peer[m] = t /\ m \notin MarkedBy(msgq[t])
      BY <3>1 DEF MarksAgree
    <3>3. \A y \in Thread \ {t} : m \notin MarkedBy(msgq[y]) \cup MarkedBy(drain[y])
      BY <3>2 DEF MarksAgree
    <3>4. pc'[t] = "exit_drain_signal" /\ peer'[t] = m
      BY <1>1, <2>1 DEF WakeTypes, Goto, m
    <3>5. m # t
      BY <1>2, <3>2
    <3>6. \A y \in Thread : m \notin MarkedBy(msgq'[y]) \cup MarkedBy(drain'[y])
      BY <1>2, <1>4, <3>1, <3>2, <3>3
    <3> QED
      BY <1>5, <3>1, <3>2, <3>4, <3>5, <3>6 DEF SignalAgrees
  <2>2. CASE ~e.susp
    <3>1. pc'[t] = "exit_drain"
      BY <1>1, <1>2, <2>2
    <3> QED
      BY <3>1, NoSignal DEF Signalling
  <2> QED
    BY <2>1, <2>2
<1>8. ASSUME NEW x \in Thread, x # t
      PROVE  SignalAgrees(x)'
  <2>1. CASE pc[x] \in Signalling
    <3>1. peer[x] # t /\ peer[x] \in Thread /\ SignalAgrees(x)
      BY <1>2, <2>1, PeerSleeps DEF WakeTypes, SignalsAgree
    <3> QED
      BY <1>2, <1>5, <1>6, <1>8, <3>1, SignalFrame
  <2>2. CASE pc[x] \notin Signalling
    BY <1>5, <1>8, <2>2, NoSignal
  <2> QED
    BY <2>1, <2>2
<1> QED
  BY <1>7, <1>8 DEF SignalsAgree

-----------------------------------------------------------------------------
\* The field stato agrees with the control state after every step.
LEMMA StatoProgram ==
  ASSUME WakeTypes, StatoAgrees, NEW t \in Thread, Program(t)
  PROVE  StatoAgrees'
<1> USE DEF WakeTypes, StatoAgrees, RecvWaits, Ending, Drained, Goto, fields
<1>1. CASE \E c \in Thread : Create(t, c)
  BY <1>1 DEF Create, CreateInternal
<1>2. CASE Register(t)
  BY <1>2 DEF Register, CreateInternal
<1>3. CASE \E d \in Thread : SendCall(t, d)
  BY <1>3 DEF SendCall, Call
<1>4. CASE \E S \in SUBSET Thread, nb \in BOOLEAN : ReceiveCall(t, S, nb)
  BY <1>4 DEF ReceiveCall, Call
<1>5. CASE \E args \in Cases : CaseCall(t, args)
  BY <1>5 DEF CaseCall, Call
<1>6. CASE ExitCall(t)
  BY <1>6 DEF ExitCall
<1> QED
  BY <1>1, <1>2, <1>3, <1>4, <1>5, <1>6 DEF Program

LEMMA StatoCreating ==
  ASSUME WakeTypes, StatoAgrees, CreationOwned, NEW t \in Thread, Creating(t)
  PROVE  StatoAgrees'
<1> USE DEF WakeTypes, StatoAgrees, RecvWaits, Ending, Drained, Goto, Return,
        CreationOwned, Creating_pc, fields
<1>1. CASE PthreadCreate(t)
  BY <1>1 DEF PthreadCreate
<1>2. CASE PthreadCreateFails(t)
  BY <1>2 DEF PthreadCreateFails
<1>3. CASE CreateUndo(t)
  BY <1>3 DEF CreateUndo
<1>4. CASE CreateMax(t)
  BY <1>4 DEF CreateMax
<1>5. CASE StartRoutine(t)
  BY <1>5 DEF StartRoutine
<1> QED
  BY <1>1, <1>2, <1>3, <1>4, <1>5 DEF Creating

LEMMA StatoSending ==
  ASSUME WakeTypes, StatoAgrees, NEW t \in Thread, Sending(t)
  PROVE  StatoAgrees'
<1> USE DEF WakeTypes, StatoAgrees, RecvWaits, Ending, Drained, Goto, Return,
   fields
<1>1. CASE SendLock(t)
  BY <1>1 DEF SendLock
<1>2. CASE SendDirect(t)
  BY <1>2 DEF SendDirect
<1>3. CASE \E nb \in BOOLEAN : SendRefuse(t, nb)
  BY <1>3 DEF SendRefuse
<1>4. CASE \E b \in Bsize : SendQueue(t, b)
  <2>1. /\ pc[t] = "send"
        /\ \/ /\ stato' = [stato EXCEPT ![t] = "WAITING_ON_SEND"]
              /\ Goto(t, "send_blocked")
           \/ Goto(t, "run") /\ UNCHANGED stato
    BY <1>4, SendQueueSteps
  <2>2. CASE stato' = [stato EXCEPT ![t] = "WAITING_ON_SEND"] /\ Goto(t, "send_blocked")
    BY <2>1, <2>2
  <2>3. CASE Goto(t, "run") /\ UNCHANGED stato
    BY <2>1, <2>3
  <2> QED
    BY <2>1, <2>2, <2>3
<1>5. CASE SendSignal(t)
  BY <1>5 DEF SendSignal, SignalPeer, Woken
<1>6. CASE SendWoken(t)
  BY <1>6 DEF SendWoken
<1>7. CASE SendRet(t)
  BY <1>7 DEF SendRet
<1> QED
  BY <1>1, <1>2, <1>3, <1>4, <1>5, <1>6, <1>7 DEF Sending

LEMMA StatoReceiving ==
  ASSUME WakeTypes, StatoAgrees, NEW t \in Thread, Receiving(t)
  PROVE  StatoAgrees'
<1> USE DEF WakeTypes, StatoAgrees, RecvWaits, Ending, Drained, Goto, Return,
   fields
<1>1. CASE RecvLock(t)
  BY <1>1 DEF RecvLock
<1>2. CASE RecvTake(t)
  <2>1. pc[t] = "recv_scan" /\ UNCHANGED stato
    BY <1>2 DEF RecvTake
  <2>2. \/ pc' = [pc EXCEPT ![t] = "recv_signal"]
        \/ pc' = [pc EXCEPT ![t] = "run"]
    BY <1>2 DEF RecvTake
  <2>3. CASE pc' = [pc EXCEPT ![t] = "recv_signal"]
    BY <2>1, <2>3
  <2>4. CASE pc' = [pc EXCEPT ![t] = "run"]
    BY <2>1, <2>4
  <2> QED
    BY <2>2, <2>3, <2>4
<1>3. CASE RecvDefault(t)
  BY <1>3 DEF RecvDefault
<1>4. CASE RecvNone(t)
  BY <1>4 DEF RecvNone
<1>5. CASE RecvSignal(t)
  BY <1>5 DEF RecvSignal, SignalPeer, Woken
<1>6. CASE \E s \in Thread : RecvBuild(t, s)
  BY <1>6 DEF RecvBuild
<1>7. CASE RecvNobody(t)
  BY <1>7 DEF RecvNobody
<1>8. CASE RecvWait(t)
  BY <1>8 DEF RecvWait
<1>9. CASE RecvWoken(t)
  BY <1>9 DEF RecvWoken
<1> QED
  BY <1>1, <1>2, <1>3, <1>4, <1>5, <1>6, <1>7, <1>8, <1>9 DEF Receiving

LEMMA StatoExiting ==
  ASSUME TypeOK, StatoAgrees, MarksAgree, NEW t \in Thread, Exiting(t)
  PROVE  StatoAgrees'
<1> USE TypesGiveWakeTypes
<1>1. CASE ExitDrain(t)
  <2>1. PICK e \in Entry :
        /\ drain[t] # <<>> /\ e = Head(drain[t])
        /\ drain' = [drain EXCEPT ![t] = Tail(@)]
        /\ \/ /\ e.susp
              /\ stato' = [stato EXCEPT ![e.mitt] = "WAITING_ON_SEND_TERM_DEST"]
              /\ peer' = [peer EXCEPT ![t] = e.mitt]
              /\ Goto(t, "exit_drain_signal")
           \/ /\ ~e.susp
              /\ UNCHANGED <<stato, peer, pc>>
    BY <1>1, ExitDrainMessage, Zenon
  <2>2. pc[t] = "exit_drain"
    BY <1>1 DEF ExitDrain
  <2>3. CASE e.susp
    <3> DEFINE m == e.mitt
    <3>1. m \in MarkedBy(drain[t])
      BY <2>1, <2>3, TailMarks DEF WakeTypes, MarksAgree
    <3>2. m \in Thread /\ pc[m] = "send_blocked"
      BY <3>1, MarkedThreads DEF MarksAgree, WakeTypes
    <3>3. /\ stato' = [stato EXCEPT ![m] = "WAITING_ON_SEND_TERM_DEST"]
          /\ pc' = [pc EXCEPT ![t] = "exit_drain_signal"]
      BY <2>1, <2>3 DEF Goto
    <3> HIDE DEF m
    <3> QED
      BY <2>2, <3>2, <3>3 DEF StatoAgrees, WakeTypes, RecvWaits, Ending, Drained
  <2>4. CASE ~e.susp
    BY <2>1, <2>4 DEF StatoAgrees
  <2> QED
    BY <2>3, <2>4
<1>2. CASE ~ExitDrain(t)
  BY <1>2, SMTT(30) DEF WakeTypes, StatoAgrees, RecvWaits, Ending, Drained, Goto,
     Exiting, SignalPeer, Woken,
     ExitLock, ExitSwap, ExitDrainSignal, ExitDrained, ExitQLock,
     ExitSelf, ExitVisit, ExitRemove, ExitWake, ExitDone, fields
<1> QED
  BY <1>1, <1>2

LEMMA SlotProgram ==
  ASSUME WakeTypes, SlotAgrees, NEW t \in Thread, Program(t)
  PROVE  SlotAgrees'
<1> USE DEF WakeTypes, SlotAgrees, RecvWaits, Goto, fields
<1>1. CASE \E c \in Thread : Create(t, c)
  <2>1. PICK c \in Thread : Create(t, c)
    BY <1>1
  <2>2. /\ pc[t] = "run" /\ pc[c] = "none" /\ UNCHANGED <<slot, mitt>>
        /\ pc' = [pc EXCEPT ![t] = "create", ![c] = "new"]
    BY <2>1 DEF Create, CreateInternal
  <2> QED
    BY <2>2
<1>2. CASE Register(t)
  BY <1>2 DEF Register, CreateInternal
<1>3. CASE \E d \in Thread : SendCall(t, d)
  BY <1>3 DEF SendCall, Call
<1>4. CASE \E S \in SUBSET Thread, nb \in BOOLEAN : ReceiveCall(t, S, nb)
  BY <1>4 DEF ReceiveCall, Call
<1>5. CASE \E args \in Cases : CaseCall(t, args)
  BY <1>5 DEF CaseCall, Call
<1>6. CASE ExitCall(t)
  BY <1>6 DEF ExitCall
<1> QED
  BY <1>1, <1>2, <1>3, <1>4, <1>5, <1>6 DEF Program

LEMMA SlotCreating ==
  ASSUME WakeTypes, SlotAgrees, CreationOwned, NEW t \in Thread, Creating(t)
  PROVE  SlotAgrees'
<1> USE DEF WakeTypes, SlotAgrees, RecvWaits, Goto, Return,
        CreationOwned, Creating_pc, fields
<1>1. CASE PthreadCreate(t)
  BY <1>1 DEF PthreadCreate
<1>2. CASE PthreadCreateFails(t)
  BY <1>2 DEF PthreadCreateFails
<1>3. CASE CreateUndo(t)
  BY <1>3 DEF CreateUndo
<1>4. CASE CreateMax(t)
  BY <1>4 DEF CreateMax
<1>5. CASE StartRoutine(t)
  BY <1>5 DEF StartRoutine
<1> QED
  BY <1>1, <1>2, <1>3, <1>4, <1>5 DEF Creating

LEMMA SlotSending ==
  ASSUME WakeTypes, StatoAgrees, SignalsAgree, SlotAgrees, NEW t \in Thread, Sending(t)
  PROVE  SlotAgrees'
<1> USE DEF WakeTypes, SlotAgrees, RecvWaits, Goto, Return, fields
<1>1. CASE SendLock(t)
  BY <1>1 DEF SendLock
<1>2. CASE SendDirect(t)
  BY <1>2 DEF SendDirect, Expected, StatoAgrees
<1>3. CASE \E nb \in BOOLEAN : SendRefuse(t, nb)
  BY <1>3 DEF SendRefuse
<1>4. CASE \E b \in Bsize : SendQueue(t, b)
  BY <1>4, SendQueueSteps
<1>5. CASE SendSignal(t)
  BY <1>5 DEF SendSignal, SignalPeer, Woken, SignalsAgree, SignalAgrees
<1>6. CASE SendWoken(t)
  BY <1>6 DEF SendWoken
<1>7. CASE SendRet(t)
  BY <1>7 DEF SendRet
<1> QED
  BY <1>1, <1>2, <1>3, <1>4, <1>5, <1>6, <1>7 DEF Sending

LEMMA SlotReceiving ==
  ASSUME WakeTypes, SignalsAgree, SlotAgrees, NEW t \in Thread, Receiving(t)
  PROVE  SlotAgrees'
<1> USE DEF WakeTypes, SlotAgrees, RecvWaits, Goto, Return, fields
<1>1. CASE RecvLock(t)
  BY <1>1 DEF RecvLock
<1>2. CASE RecvTake(t)
  BY <1>2 DEF RecvTake
<1>3. CASE RecvDefault(t)
  BY <1>3 DEF RecvDefault
<1>4. CASE RecvNone(t)
  BY <1>4 DEF RecvNone
<1>5. CASE RecvSignal(t)
  BY <1>5 DEF RecvSignal, SignalPeer, Woken, SignalsAgree, SignalAgrees
<1>6. CASE \E s \in Thread : RecvBuild(t, s)
  BY <1>6 DEF RecvBuild
<1>7. CASE RecvNobody(t)
  BY <1>7 DEF RecvNobody
<1>8. CASE RecvWait(t)
  BY <1>8 DEF RecvWait
<1>9. CASE RecvWoken(t)
  BY <1>9 DEF RecvWoken, MittAfterWait
<1> QED
  BY <1>1, <1>2, <1>3, <1>4, <1>5, <1>6, <1>7, <1>8, <1>9 DEF Receiving

LEMMA SlotExiting ==
  ASSUME WakeTypes, SignalsAgree, SlotAgrees, NEW t \in Thread, Exiting(t)
  PROVE  SlotAgrees'
<1> USE DEF WakeTypes, SlotAgrees, RecvWaits, Goto, Return, fields, locals
<1>1. CASE ExitLock(t)
  BY <1>1 DEF ExitLock
<1>2. CASE ExitSwap(t)
  BY <1>2 DEF ExitSwap
<1>3. CASE ExitDrain(t)
  BY <1>3 DEF ExitDrain
<1>4. CASE ExitDrainSignal(t)
  BY <1>4 DEF ExitDrainSignal, SignalPeer, Woken, SignalsAgree, SignalAgrees
<1>5. CASE ExitDrained(t)
  BY <1>5 DEF ExitDrained
<1>6. CASE ExitQLock(t)
  BY <1>6 DEF ExitQLock
<1>7. CASE ExitSelf(t)
  BY <1>7 DEF ExitSelf
<1>8. CASE \E x \in Thread : ExitVisit(t, x)
  BY <1>8 DEF ExitVisit
<1>9. CASE ExitRemove(t)
  BY <1>9 DEF ExitRemove
<1>10. CASE ExitWake(t)
  BY <1>10 DEF ExitWake, SignalPeer, Woken, SignalsAgree, SignalAgrees
<1>11. CASE ExitDone(t)
  BY <1>11 DEF ExitDone
<1> QED
  BY <1>1, <1>2, <1>3, <1>4, <1>5, <1>6, <1>7, <1>8, <1>9, <1>10, <1>11 DEF
     Exiting

-----------------------------------------------------------------------------
\* What they need to speak of awaited senders.
AwaitTypes ==
  /\ pc \in [Thread -> Control]
  /\ peer \in [Thread -> Thread]
  /\ mitt \in [Thread -> SUBSET Thread]
  /\ todo \in [Thread -> SUBSET Thread]
  /\ DOMAIN alts = Thread /\ alts = [x \in Thread |-> alts[x]]
  /\ \A x \in Thread : Senders(alts[x]) \subseteq Thread

\* The types the awaited senders need.
LEMMA TypesGiveAwaitTypes == ASSUME TypeOK PROVE AwaitTypes
<1>1. ASSUME NEW al \in Seq(Alternative)
      PROVE  Senders(al) \subseteq Thread
  <2>1. \A i \in DOMAIN al : al[i] \in Alternative
    BY LenProperties, ElementOfSeq
  <2> QED
    BY <2>1 DEF Senders, Alternative
<1>2. \A x \in Thread : alts[x] \in Seq(Alternative)
  BY DEF TypeOK
<1> QED
  BY <1>1, <1>2 DEF TypeOK, AwaitTypes

\* No alternative, no sender.
LEMMA SendersNone == Senders(<<>>) = {}
BY DEF Senders

\* A sender no longer awaited is terminating, after every step.
LEMMA AwaitedProgram ==
  ASSUME AwaitTypes, AwaitedAgrees, NEW t \in Thread, Program(t)
  PROVE  AwaitedAgrees'
<1> USE SendersNone DEF AwaitTypes, AwaitedAgrees, RecvWaits, Ending, Drained,
   Goto, Return,
        fields, locals
<1>1. CASE \E c \in Thread : Create(t, c)
  BY <1>1 DEF Create, CreateInternal
<1>2. CASE Register(t)
  BY <1>2 DEF Register, CreateInternal
<1>3. CASE \E d \in Thread : SendCall(t, d)
  BY <1>3 DEF SendCall, Call, Known
<1>4. CASE \E S \in SUBSET Thread, nb \in BOOLEAN : ReceiveCall(t, S, nb)
  <2>1. PICK S \in SUBSET Thread, nb \in BOOLEAN : ReceiveCall(t, S, nb)
    BY <1>4
  <2>2. /\ pc[t] = "run" /\ Goto(t, "recv_lock")
        /\ UNCHANGED <<slot, mitt, todo>>
        /\ \A x \in Thread \ {t} : alts'[x] = alts[x]
        /\ alts'[t] = IF nb THEN <<From(S), Default>> ELSE <<From(S)>>
        /\ S \subseteq Known
    BY <2>1 DEF ReceiveCall, Call
  <2>3. Senders(alts'[t]) = S
    BY <2>2 DEF Senders, From, Default
  <2> QED
    BY <2>2, <2>3 DEF Known
<1>5. CASE \E args \in Cases : CaseCall(t, args)
  <2>1. PICK args \in Cases : CaseCall(t, args)
    BY <1>5
  <2>2. /\ pc[t] = "run" /\ Goto(t, "recv_lock")
        /\ UNCHANGED <<slot, mitt, todo>>
        /\ \A x \in Thread \ {t} : alts'[x] = alts[x]
        /\ alts'[t] = CaseAlts(t, args)
        /\ Senders(args) \subseteq Known
    BY <2>1 DEF CaseCall, Call
  <2>3. Senders(CaseAlts(t, args)) \subseteq Senders(args)
    BY DEF Senders, CaseAlts
  <2> QED
    BY <2>2, <2>3 DEF Known
<1>6. CASE ExitCall(t)
  BY <1>6 DEF ExitCall
<1> QED
  BY <1>1, <1>2, <1>3, <1>4, <1>5, <1>6 DEF Program

LEMMA AwaitedCreating ==
  ASSUME AwaitTypes, AwaitedAgrees, CreationOwned, NEW t \in Thread, Creating(t)
  PROVE  AwaitedAgrees'
<1> USE SendersNone DEF AwaitTypes, AwaitedAgrees, RecvWaits, Ending, Drained,
   Goto, Return,
        fields, locals, CreationOwned, Creating_pc
<1>1. CASE PthreadCreate(t)
  BY <1>1, SMTT(30) DEF PthreadCreate
<1>2. CASE PthreadCreateFails(t)
  BY <1>2 DEF PthreadCreateFails
<1>3. CASE CreateUndo(t)
  BY <1>3 DEF CreateUndo
<1>4. CASE CreateMax(t)
  BY <1>4 DEF CreateMax
<1>5. CASE StartRoutine(t)
  BY <1>5 DEF StartRoutine
<1> QED
  BY <1>1, <1>2, <1>3, <1>4, <1>5 DEF Creating

\* The direct hand-over fills the slot of the destination alone.
LEMMA DirectFills ==
  ASSUME TypeOK, NEW t \in Thread, SendDirect(t)
  PROVE  /\ slot'[peer[t]] # Null /\ slot'[peer[t]].mitt = t
         /\ \A y \in Thread \ {peer[t]} : slot'[y] = slot[y]
<1> DEFINE d == peer[t]
           m == [mitt |-> t, n |-> Next_n(t, d)]
<1>1. d \in Thread /\ slot \in [Thread -> Msg \cup {Null}]
  BY DEF TypeOK
<1>2. slot' = [slot EXCEPT ![d] = m]
  BY DEF SendDirect
<1>3. m \in Msg /\ m.mitt = t
  BY <1>1, NumberType DEF Msg
<1> HIDE DEF d, m
<1> QED
  BY <1>1, <1>2, <1>3, NullAssumption DEF d

LEMMA AwaitedSending ==
  ASSUME TypeOK, AwaitTypes, AwaitedAgrees, NEW t \in Thread, Sending(t)
  PROVE  AwaitedAgrees'
<1> USE SendersNone DEF AwaitTypes, AwaitedAgrees, RecvWaits, Ending, Drained,
   Goto, Return,
        fields, locals
<1>1. CASE SendLock(t)
  BY <1>1 DEF SendLock
<1>2. CASE SendDirect(t)
  <2>1. /\ \A y \in Thread : slot'[y] = Null => slot[y] = Null
        /\ pc[t] = "send" /\ Goto(t, "send_signal") /\ UNCHANGED <<alts, mitt, todo>>
    BY <1>2, DirectFills DEF SendDirect
  <2> QED
    BY <2>1
<1>3. CASE \E nb \in BOOLEAN : SendRefuse(t, nb)
  BY <1>3 DEF SendRefuse
<1>4. CASE \E b \in Bsize : SendQueue(t, b)
  <2>1. /\ pc[t] = "send"
        /\ \/ Goto(t, "send_blocked") /\ UNCHANGED alts
           \/ Goto(t, "run") /\ alts' = [alts EXCEPT ![t] = <<>>]
        /\ UNCHANGED <<slot, mitt, todo>>
    BY <1>4, SendQueueSteps
  <2> QED
    BY <2>1
<1>5. CASE SendSignal(t)
  BY <1>5 DEF SendSignal, SignalPeer, Woken
<1>6. CASE SendWoken(t)
  BY <1>6 DEF SendWoken
<1>7. CASE SendRet(t)
  BY <1>7 DEF SendRet
<1> QED
  BY <1>1, <1>2, <1>3, <1>4, <1>5, <1>6, <1>7 DEF Sending

LEMMA AwaitedReceiving ==
  ASSUME AwaitTypes, StatoAgrees, AwaitedAgrees, NEW t \in Thread, Receiving(t)
  PROVE  AwaitedAgrees'
<1> USE SendersNone DEF AwaitTypes, AwaitedAgrees, RecvWaits, Ending, Drained,
   Goto, Return,
        fields, locals
<1>1. CASE RecvLock(t)
  BY <1>1 DEF RecvLock
<1>2. CASE RecvTake(t)
  BY <1>2, SMTT(30) DEF RecvTake
<1>3. CASE RecvDefault(t)
  BY <1>3 DEF RecvDefault
<1>4. CASE RecvNone(t)
  BY <1>4 DEF RecvNone, Awaited
<1>5. CASE RecvSignal(t)
  BY <1>5 DEF RecvSignal, SignalPeer, Woken
<1>6. CASE \E s \in Thread : RecvBuild(t, s)
  BY <1>6 DEF RecvBuild, CanSend, StatoAgrees
<1>7. CASE RecvNobody(t)
  BY <1>7 DEF RecvNobody
<1>8. CASE RecvWait(t)
  BY <1>8 DEF RecvWait
<1>9. CASE RecvWoken(t)
  BY <1>9 DEF RecvWoken, MittAfterWait
<1> QED
  BY <1>1, <1>2, <1>3, <1>4, <1>5, <1>6, <1>7, <1>8, <1>9 DEF Receiving

LEMMA AwaitedExiting ==
  ASSUME AwaitTypes, AwaitedAgrees, NEW t \in Thread, Exiting(t)
  PROVE  AwaitedAgrees'
<1> USE SendersNone DEF AwaitTypes, AwaitedAgrees, RecvWaits, Ending, Drained,
   Goto, Return,
        fields, locals
<1>1. CASE ExitLock(t)
  BY <1>1 DEF ExitLock
<1>2. CASE ExitSwap(t)
  BY <1>2 DEF ExitSwap
<1>3. CASE ExitDrain(t)
  BY <1>3, SMTT(30) DEF ExitDrain
<1>4. CASE ExitDrainSignal(t)
  BY <1>4 DEF ExitDrainSignal, SignalPeer, Woken
<1>5. CASE ExitDrained(t)
  BY <1>5 DEF ExitDrained
<1>6. CASE ExitQLock(t)
  BY <1>6 DEF ExitQLock
<1>7. CASE ExitSelf(t)
  BY <1>7 DEF ExitSelf
<1>8. CASE \E x \in Thread : ExitVisit(t, x)
  BY <1>8 DEF ExitVisit
<1>9. CASE ExitRemove(t)
  BY <1>9 DEF ExitRemove
<1>10. CASE ExitWake(t)
  BY <1>10 DEF ExitWake, SignalPeer, Woken
<1>11. CASE ExitDone(t)
  BY <1>11 DEF ExitDone
<1> QED
  BY <1>1, <1>2, <1>3, <1>4, <1>5, <1>6, <1>7, <1>8, <1>9, <1>10, <1>11 DEF
     Exiting

-----------------------------------------------------------------------------
\* A message of another sender does not match.
LEMMA AppendMatches ==
  ASSUME NEW S, NEW q \in Seq(Entry), NEW e \in Entry, e.mitt \notin S, Matches(S, q) = {}
  PROVE  Matches(S, Append(q, e)) = {}
<1> DEFINE r == Append(q, e)
           n == Len(q) + 1
<1>1. /\ n \notin DOMAIN q
      /\ \A i \in DOMAIN r : i \in DOMAIN q \/ i = n
      /\ \A i \in DOMAIN q : r[i] = q[i]
      /\ r[n] = e
  BY AppendProperties
<1> HIDE DEF r, n
<1>2. Matches(S, r) = {}
  BY <1>1 DEF Matches
<1> QED
  BY <1>2 DEF r

\* A message joins the mailbox of a thread that is not ending and, if it waits,
\* not for its sender.
LEMMA QueuedUnawaited ==
  ASSUME TypeOK, LockInv, StatoAgrees, AwaitedAgrees,
         NEW t \in Thread, NEW b \in Bsize, SendQueue(t, b)
  PROVE  /\ pc[peer[t]] \notin Ending
         /\ pc[peer[t]] # "recv_build"
         /\ pc[peer[t]] \in RecvWaits /\ slot[peer[t]] = Null =>
              t \notin Senders(alts[peer[t]])
<1> DEFINE d == peer[t]
<1>1. d \in Thread
  BY DEF TypeOK
<1>2. pc[t] = "send" /\ ~Expected(t, d) /\ stato[d] # "STOPPED"
  BY DEF SendQueue, Terminated
<1>3. pc[d] \notin Ending
  BY <1>1, <1>2 DEF StatoAgrees
<1>4. pc[d] # "recv_build"
  BY <1>1, <1>2 DEF LockInv, LockDiscipline, Holds
<1>5. ASSUME pc[d] \in RecvWaits, slot[d] = Null
      PROVE  t \notin Senders(alts[d])
  <2>1. t \notin mitt[d] /\ todo[d] = {}
    BY <1>1, <1>2, <1>5 DEF Expected, StatoAgrees, AwaitedAgrees
  <2>2. pc[t] \notin Ending
    BY <1>2 DEF Ending, Drained
  <2> QED
    BY <1>1, <1>5, <2>1, <2>2 DEF AwaitedAgrees
<1> QED
  BY <1>3, <1>4, <1>5

\* The steps that change no mailbox.
MailFrame(t) ==
  /\ UNCHANGED msgq
  /\ \A x \in Thread : pc'[x] \in Drained => pc[x] \in Drained
  /\ \A x \in Thread :
       pc'[x] \in RecvWaits \cup {"recv_build"} /\ slot'[x] = Null =>
         /\ pc[x] \in RecvWaits \cup {"recv_build"} /\ slot[x] = Null
         /\ alts'[x] = alts[x]

\* They keep the mailboxes closed and miss no message.
LEMMA MailKept ==
  ASSUME MailboxClosed, NoMissedMessage, NEW t \in Thread, MailFrame(t)
  PROVE  MailboxClosed' /\ NoMissedMessage'
BY DEF MailFrame, MailboxClosed, NoMissedMessage, RecvWaits

\* All steps but sending to a mailbox, taking a message, ending the scan and
\* emptying the mailbox are of that kind.
LEMMA MailProgram ==
  ASSUME AwaitTypes, NEW t \in Thread, Program(t)
  PROVE  MailFrame(t)
<1> USE DEF AwaitTypes, MailFrame, RecvWaits, Drained, Goto, Return, fields,
   locals
<1>1. CASE \E c \in Thread : Create(t, c)
  BY <1>1 DEF Create, CreateInternal
<1>2. CASE Register(t)
  BY <1>2 DEF Register, CreateInternal
<1>3. CASE \E d \in Thread : SendCall(t, d)
  BY <1>3 DEF SendCall, Call, Known
<1>4. CASE \E S \in SUBSET Thread, nb \in BOOLEAN : ReceiveCall(t, S, nb)
  BY <1>4 DEF ReceiveCall, Call
<1>5. CASE \E args \in Cases : CaseCall(t, args)
  BY <1>5 DEF CaseCall, Call
<1>6. CASE ExitCall(t)
  BY <1>6 DEF ExitCall
<1> QED
  BY <1>1, <1>2, <1>3, <1>4, <1>5, <1>6 DEF Program

LEMMA MailCreating ==
  ASSUME AwaitTypes, CreationOwned, NEW t \in Thread, Creating(t)
  PROVE  MailFrame(t)
<1> USE DEF CreationOwned, Creating_pc, AwaitTypes, MailFrame, RecvWaits,
   Drained, Goto, Return, fields, locals
<1>1. CASE PthreadCreate(t)
  BY <1>1 DEF PthreadCreate
<1>2. CASE PthreadCreateFails(t)
  BY <1>2 DEF PthreadCreateFails
<1>3. CASE CreateUndo(t)
  BY <1>3 DEF CreateUndo
<1>4. CASE CreateMax(t)
  BY <1>4 DEF CreateMax
<1>5. CASE StartRoutine(t)
  BY <1>5 DEF StartRoutine
<1> QED
  BY <1>1, <1>2, <1>3, <1>4, <1>5 DEF Creating

LEMMA MailSending ==
  ASSUME TypeOK, AwaitTypes, NEW t \in Thread, Sending(t),
         ~ \E b \in Bsize : SendQueue(t, b)
  PROVE  MailFrame(t)
<1> USE DEF AwaitTypes, MailFrame, RecvWaits, Drained, Goto, Return, fields,
   locals
<1>1. CASE SendLock(t)
  BY <1>1 DEF SendLock
<1>2. CASE SendDirect(t)
  <2>1. /\ \A y \in Thread : slot'[y] = Null => slot[y] = Null
        /\ pc[t] = "send" /\ Goto(t, "send_signal") /\ UNCHANGED <<alts, msgq>>
    BY <1>2, DirectFills DEF SendDirect
  <2> QED
    BY <2>1
<1>3. CASE \E nb \in BOOLEAN : SendRefuse(t, nb)
  BY <1>3 DEF SendRefuse
<1>4. CASE SendSignal(t)
  BY <1>4 DEF SendSignal, SignalPeer, Woken
<1>5. CASE SendWoken(t)
  BY <1>5 DEF SendWoken
<1>6. CASE SendRet(t)
  BY <1>6 DEF SendRet
<1> QED
  BY <1>1, <1>2, <1>3, <1>4, <1>5, <1>6 DEF Sending

LEMMA MailReceiving ==
  ASSUME AwaitTypes, NEW t \in Thread, Receiving(t),
         ~RecvTake(t), ~RecvNone(t)
  PROVE  MailFrame(t)
<1> USE DEF AwaitTypes, MailFrame, RecvWaits, Drained, Goto, Return, fields,
   locals
<1>1. CASE RecvLock(t)
  BY <1>1 DEF RecvLock
<1>2. CASE RecvDefault(t)
  BY <1>2 DEF RecvDefault
<1>3. CASE RecvSignal(t)
  BY <1>3 DEF RecvSignal, SignalPeer, Woken
<1>4. CASE \E s \in Thread : RecvBuild(t, s)
  BY <1>4 DEF RecvBuild
<1>5. CASE RecvNobody(t)
  BY <1>5 DEF RecvNobody
<1>6. CASE RecvWait(t)
  BY <1>6 DEF RecvWait
<1>7. CASE RecvWoken(t)
  BY <1>7 DEF RecvWoken, MittAfterWait
<1> QED
  BY <1>1, <1>2, <1>3, <1>4, <1>5, <1>6, <1>7 DEF Receiving

LEMMA MailExiting ==
  ASSUME AwaitTypes, NEW t \in Thread, Exiting(t),
         ~ExitSwap(t)
  PROVE  MailFrame(t)
<1> USE DEF AwaitTypes, MailFrame, RecvWaits, Drained, Goto, Return, fields,
   locals
<1>1. CASE ExitLock(t)
  BY <1>1 DEF ExitLock
<1>2. CASE ExitDrain(t)
  BY <1>2 DEF ExitDrain
<1>3. CASE ExitDrainSignal(t)
  BY <1>3 DEF ExitDrainSignal, SignalPeer, Woken
<1>4. CASE ExitDrained(t)
  BY <1>4 DEF ExitDrained
<1>5. CASE ExitQLock(t)
  BY <1>5 DEF ExitQLock
<1>6. CASE ExitSelf(t)
  BY <1>6 DEF ExitSelf
<1>7. CASE \E x \in Thread : ExitVisit(t, x)
  BY <1>7 DEF ExitVisit
<1>8. CASE ExitRemove(t)
  BY <1>8 DEF ExitRemove
<1>9. CASE ExitWake(t)
  BY <1>9 DEF ExitWake, SignalPeer, Woken
<1>10. CASE ExitDone(t)
  BY <1>10 DEF ExitDone
<1> QED
  BY <1>1, <1>2, <1>3, <1>4, <1>5, <1>6, <1>7, <1>8, <1>9, <1>10 DEF Exiting

\* Sending to a mailbox does not hurt either, ...
LEMMA MailQueued ==
  ASSUME TypeOK, LockInv, StatoAgrees, AwaitedAgrees, MailboxClosed, NoMissedMessage,
         NEW t \in Thread, NEW b \in Bsize, SendQueue(t, b)
  PROVE  MailboxClosed' /\ NoMissedMessage'
<1> DEFINE d == peer[t]
<1>1. /\ d \in Thread /\ pc \in [Thread -> Control] /\ msgq \in [Thread -> Seq(Entry)]
      /\ alts = [x \in Thread |-> alts[x]]
  BY DEF TypeOK
<1>2. PICK e \in Entry : e.mitt = t /\ msgq' = [msgq EXCEPT ![d] = Append(@, e)]
  BY SendQueueMessage, Zenon
<1>3. /\ pc[t] = "send" /\ UNCHANGED slot
      /\ Goto(t, "send_blocked") \/ Goto(t, "run")
      /\ \A x \in Thread \ {t} : alts'[x] = alts[x]
  BY <1>1, SendQueueSteps DEF Return
<1>4. /\ \A x \in Thread \ {t} : pc'[x] = pc[x]
      /\ pc'[t] \in {"send_blocked", "run"}
  BY <1>1, <1>3 DEF Goto
<1>5. /\ msgq'[d] = Append(msgq[d], e)
      /\ \A x \in Thread \ {d} : msgq'[x] = msgq[x]
      /\ msgq[d] \in Seq(Entry)
  BY <1>1, <1>2
<1>6. /\ pc[d] \notin Ending /\ pc[d] # "recv_build"
      /\ pc[d] \in RecvWaits /\ slot[d] = Null => t \notin Senders(alts[d])
  BY QueuedUnawaited
<1> HIDE DEF d
<1>7. MailboxClosed'
  BY <1>4, <1>5, <1>6 DEF MailboxClosed, Ending, Drained
<1>8. ASSUME NEW x \in Thread, pc'[x] \in RecvWaits \cup {"recv_build"}, slot'[x] = Null
      PROVE  Matches(Senders(alts'[x]), msgq'[x]) = {}
  <2>1. x # t /\ pc'[x] = pc[x] /\ alts'[x] = alts[x] /\ slot[x] = Null
    BY <1>3, <1>4, <1>8 DEF RecvWaits
  <2>2. Matches(Senders(alts[x]), msgq[x]) = {}
    BY <1>8, <2>1 DEF NoMissedMessage, RecvWaits
  <2>3. CASE x = d
    <3>1. t \notin Senders(alts[d])
      BY <1>6, <1>8, <2>1, <2>3
    <3> QED
      BY <1>2, <1>5, <2>1, <2>2, <2>3, <3>1, AppendMatches, SMTT(30)
  <2>4. CASE x # d
    BY <1>5, <2>1, <2>2, <2>4
  <2> QED
    BY <2>3, <2>4
<1> QED
  BY <1>7, <1>8 DEF NoMissedMessage, RecvWaits

\* ... nor does taking a message, ...
LEMMA MailTaken ==
  ASSUME TypeOK, MailboxClosed, NoMissedMessage, NEW t \in Thread, RecvTake(t)
  PROVE  MailboxClosed' /\ NoMissedMessage'
<1>1. /\ pc[t] = "recv_scan" /\ UNCHANGED slot
      /\ pc'[t] \in {"recv_signal", "run"}
      /\ \A x \in Thread \ {t} : /\ pc'[x] = pc[x] /\ msgq'[x] = msgq[x]
                                  /\ alts'[x] = alts[x]
  BY DEF RecvTake, TypeOK, Goto, Return
<1> QED
  BY <1>1 DEF MailboxClosed, NoMissedMessage, Drained

\* ... nor ending the scan without one, ...
LEMMA MailScanned ==
  ASSUME TypeOK, MailboxClosed, NoMissedMessage, NEW t \in Thread, RecvNone(t)
  PROVE  MailboxClosed' /\ NoMissedMessage'
<1>1. /\ ReadyAlts(alts[t], msgq[t]) = {}
      /\ UNCHANGED <<slot, msgq, alts>>
      /\ pc'[t] = "recv_build"
      /\ \A x \in Thread \ {t} : pc'[x] = pc[x]
  BY DEF RecvNone, TypeOK, Goto, fields
<1>2. Matches(Senders(alts[t]), msgq[t]) = {}
  BY <1>1 DEF ReadyAlts, Ready, Matches, Senders
<1> QED
  BY <1>1, <1>2 DEF MailboxClosed, NoMissedMessage, Drained

\* ... nor emptying the mailbox of a terminating thread.
LEMMA MailSwapped ==
  ASSUME TypeOK, MailboxClosed, NoMissedMessage, NEW t \in Thread, ExitSwap(t)
  PROVE  MailboxClosed' /\ NoMissedMessage'
<1>1. /\ UNCHANGED <<slot, alts>>
      /\ pc'[t] = "exit_drain" /\ msgq'[t] = <<>>
      /\ \A x \in Thread \ {t} : pc'[x] = pc[x] /\ msgq'[x] = msgq[x]
  BY DEF ExitSwap, TypeOK, Goto
<1> QED
  BY <1>1 DEF MailboxClosed, NoMissedMessage, Drained

-----------------------------------------------------------------------------
(* The invariant holds at the start and every step keeps it *)

\* The initial state satisfies the invariant.
LEMMA WakeInit == Init => WakeInv
<1> SUFFICES ASSUME Init PROVE WakeInv
  OBVIOUS
<1>1. /\ \A t \in Thread : /\ msgq[t] = <<>> /\ drain[t] = <<>> /\ alts[t] = <<>>
                           /\ slot[t] = Null
      /\ \A t \in Thread : \/ pc[t] = "none" /\ stato[t] = "STOPPED"
                           \/ pc[t] = "run" /\ stato[t] = "RUNNING"
  BY DEF Init, InitBut
<1>2. StatoAgrees /\ SlotAgrees /\ MailboxClosed /\ NoMissedMessage
  BY <1>1 DEF StatoAgrees, SlotAgrees, MailboxClosed, NoMissedMessage,
     RecvWaits,
     Ending, Drained
<1>3. MarksAgree
  BY <1>1, NoMarks DEF MarksAgree
<1>4. SignalsAgree
  BY <1>1 DEF SignalsAgree, SignalAgrees
<1>5. AwaitedAgrees
  BY <1>1, SendersNone DEF AwaitedAgrees, RecvWaits
<1> QED
  BY <1>2, <1>3, <1>4, <1>5 DEF WakeInv

\* One lemma for each group of actions.
LEMMA ProgramWakes ==
  ASSUME TypeOK, LockInv, WakeInv, NEW t \in Thread, Program(t)
  PROVE  WakeInv'
<1>1. WakeTypes /\ AwaitTypes /\ UNCHANGED <<msgq, drain>>
  BY TypesGiveWakeTypes, TypesGiveAwaitTypes, ProgramKeepsMail
<1>2. MailFrame(t)
  BY <1>1, MailProgram
<1> QED
  BY <1>1, <1>2, MarksProgram, SignalsProgram, StatoProgram, SlotProgram,
     AwaitedProgram, MailKept DEF WakeInv

LEMMA CreatingWakes ==
  ASSUME TypeOK, LockInv, WakeInv, NEW t \in Thread, Creating(t)
  PROVE  WakeInv'
<1>1. WakeTypes /\ AwaitTypes /\ CreationOwned
  BY TypesGiveWakeTypes, TypesGiveAwaitTypes DEF LockInv
<1>2. MailFrame(t)
  BY <1>1, MailCreating
<1> QED
  BY <1>1, <1>2, MarksCreating, SignalsCreating, StatoCreating, SlotCreating,
     AwaitedCreating, MailKept DEF WakeInv

LEMMA SendingWakes ==
  ASSUME TypeOK, LockInv, WakeInv, NEW t \in Thread, Sending(t)
  PROVE  WakeInv'
<1>1. WakeTypes /\ AwaitTypes
  BY TypesGiveWakeTypes, TypesGiveAwaitTypes
<1>2. MailboxClosed' /\ NoMissedMessage'
  <2>1. CASE \E b \in Bsize : SendQueue(t, b)
    BY <2>1, MailQueued DEF WakeInv
  <2>2. CASE ~ \E b \in Bsize : SendQueue(t, b)
    <3>1. MailFrame(t)
      BY <1>1, <2>2, MailSending
    <3> QED
      BY <3>1, MailKept DEF WakeInv
  <2> QED
    BY <2>1, <2>2
<1>3. /\ MarksAgree'
      /\ \A y \in Thread : /\ MarkedBy(msgq'[y]) \subseteq MarkedBy(msgq[y]) \cup {t}
                           /\ MarkedBy(drain'[y]) \subseteq MarkedBy(drain[y])
  BY MarksSending DEF WakeInv
<1>4. SignalsAgree'
  BY <1>1, <1>3, SignalsSending DEF WakeInv
<1>5. StatoAgrees' /\ SlotAgrees' /\ AwaitedAgrees'
  BY <1>1, StatoSending, SlotSending, AwaitedSending DEF WakeInv
<1> QED
  BY <1>2, <1>3, <1>4, <1>5 DEF WakeInv

LEMMA ReceivingWakes ==
  ASSUME TypeOK, LockInv, WakeInv, NEW t \in Thread, Receiving(t)
  PROVE  WakeInv'
<1>1. WakeTypes /\ AwaitTypes
  BY TypesGiveWakeTypes, TypesGiveAwaitTypes
<1>2. MailboxClosed' /\ NoMissedMessage'
  <2>1. CASE RecvTake(t)
    BY <2>1, MailTaken DEF WakeInv
  <2>2. CASE RecvNone(t)
    BY <2>2, MailScanned DEF WakeInv
  <2>3. CASE ~RecvTake(t) /\ ~RecvNone(t)
    <3>1. MailFrame(t)
      BY <1>1, <2>3, MailReceiving
    <3> QED
      BY <3>1, MailKept DEF WakeInv
  <2> QED
    BY <2>1, <2>2, <2>3
<1>3. SignalsAgree'
  <2>1. CASE RecvTake(t)
    BY <2>1, SignalsTake DEF WakeInv
  <2>2. CASE ~RecvTake(t)
    BY <1>1, <2>2, ReceivingKeepsMail, SignalsReceiving DEF WakeInv
  <2> QED
    BY <2>1, <2>2
<1>4. MarksAgree' /\ StatoAgrees' /\ SlotAgrees' /\ AwaitedAgrees'
  BY <1>1, MarksReceiving, StatoReceiving, SlotReceiving, AwaitedReceiving DEF
     WakeInv
<1> QED
  BY <1>2, <1>3, <1>4 DEF WakeInv

LEMMA ExitingWakes ==
  ASSUME TypeOK, LockInv, WakeInv, NEW t \in Thread, Exiting(t)
  PROVE  WakeInv'
<1>1. WakeTypes /\ AwaitTypes
  BY TypesGiveWakeTypes, TypesGiveAwaitTypes
<1>2. MailboxClosed' /\ NoMissedMessage'
  <2>1. CASE ExitSwap(t)
    BY <2>1, MailSwapped DEF WakeInv
  <2>2. CASE ~ExitSwap(t)
    <3>1. MailFrame(t)
      BY <1>1, <2>2, MailExiting
    <3> QED
      BY <3>1, MailKept DEF WakeInv
  <2> QED
    BY <2>1, <2>2
<1>3. /\ MarksAgree'
      /\ \A y \in Thread :
           MarkedBy(msgq'[y]) \cup MarkedBy(drain'[y])
             \subseteq MarkedBy(msgq[y]) \cup MarkedBy(drain[y])
  BY MarksExiting DEF WakeInv
<1>4. SignalsAgree'
  <2>1. CASE ExitDrain(t)
    BY <2>1, SignalsDrain DEF WakeInv
  <2>2. CASE ~ExitDrain(t)
    BY <1>1, <1>3, <2>2, SignalsExiting DEF WakeInv
  <2> QED
    BY <2>1, <2>2
<1>5. StatoAgrees' /\ SlotAgrees' /\ AwaitedAgrees'
  BY <1>1, StatoExiting, SlotExiting, AwaitedExiting DEF WakeInv
<1> QED
  BY <1>3, <1>2, <1>4, <1>5 DEF WakeInv

\* Without spurious wake-ups the protocol invariant always holds, next to the
\* types and the lock discipline it rests on.
THEOREM WakeProtocol ==
  ASSUME ~Spurious PROVE Spec => [](TypeOK /\ LockInv /\ WakeInv)
<1>1. Init => WakeInv
  BY WakeInit
<1>2. TypeOK /\ LockInv /\ WakeInv /\ [Next]_vars => WakeInv'
  <2> SUFFICES ASSUME TypeOK, LockInv, WakeInv, [Next]_vars
               PROVE  WakeInv'
    OBVIOUS
  <2>1. ASSUME NEW t \in Thread, Program(t) \/ Runtime(t) \/ SpuriousWakeup(t)
        PROVE  WakeInv'
    <3>1. ~SpuriousWakeup(t)
      BY DEF SpuriousWakeup
    <3> QED
      BY <2>1, <3>1, ProgramWakes, CreatingWakes, SendingWakes, ReceivingWakes,
         ExitingWakes DEF Runtime
  <2>2. CASE UNCHANGED vars
    <3>1. UNCHANGED <<stato, msgq, mitt, slot, pc, peer, alts, todo, drain>>
      BY <2>2 DEF vars, fields, locals
    <3>2. StatoAgrees' /\ SlotAgrees'
      BY <3>1 DEF WakeInv, StatoAgrees, SlotAgrees
    <3>3. MarksAgree'
      BY <3>1 DEF WakeInv, MarksAgree
    <3>4. SignalsAgree'
      BY <3>1 DEF WakeInv, SignalsAgree, SignalAgrees
    <3>5. AwaitedAgrees' /\ MailboxClosed' /\ NoMissedMessage'
      BY <3>1 DEF WakeInv, AwaitedAgrees, MailboxClosed, NoMissedMessage
    <3> QED
      BY <3>2, <3>3, <3>4, <3>5 DEF WakeInv
  <2> QED
    BY <2>1, <2>2 DEF Next
<1> QED
  BY <1>1, <1>2, TypeCorrect, LocksCorrect, PTL DEF Spec

\* No message enters the mailbox of a thread after trp_thread_exit emptied it.
THEOREM NothingAfterExit == ASSUME ~Spurious PROVE Spec => []MailboxClosed
<1>1. WakeInv => MailboxClosed
  BY DEF WakeInv
<1> QED
  BY <1>1, WakeProtocol, PTL

\* The window between the scan of the mailbox and the wait of thread-case
\* loses no message.
THEOREM NoMessageMissed == ASSUME ~Spurious PROVE Spec => []NoMissedMessage
<1>1. WakeInv => NoMissedMessage
  BY DEF WakeInv
<1> QED
  BY <1>1, WakeProtocol, PTL

\* No late write of another thread revives the stato of a terminating one.
THEOREM StoppedIsFinal == ASSUME ~Spurious PROVE Spec => []StoppedForGood
<1>1. WakeInv => StoppedForGood
  BY DEF WakeInv, StatoAgrees, StoppedForGood
<1> QED
  BY <1>1, WakeProtocol, PTL

\* A receive that fails after its wait tells the truth: all its senders have
\* terminated.
THEOREM ReceiveTellsTruth == ASSUME ~Spurious PROVE Spec => []ReceiveResultTrue
<1>1. TypeOK /\ WakeInv => ReceiveResultTrue
  <2> SUFFICES ASSUME TypeOK, WakeInv,
                      NEW t \in Thread, pc[t] = "recv_woken", slot[t] = Null,
                      NEW s \in Senders(alts[t])
               PROVE  stato[s] = "STOPPED"
    BY DEF ReceiveResultTrue
  <2>1. s \in Thread
    BY TypesGiveAwaitTypes DEF AwaitTypes
  <2>2. mitt[t] = {} /\ todo[t] = {}
    BY DEF WakeInv, SlotAgrees, AwaitedAgrees, RecvWaits
  <2>3. pc[s] \in Ending
    BY <2>2 DEF WakeInv, AwaitedAgrees, RecvWaits
  <2> QED
    BY <2>1, <2>3 DEF WakeInv, StatoAgrees
<1> QED
  BY <1>1, WakeProtocol, PTL

\* Whoever is about to signal a thread finds it waiting, and nobody else is
\* about to signal it.
THEOREM SignalsMeetWaits == ASSUME ~Spurious PROVE Spec => []OneSignalPerWait
<1>1. TypeOK /\ LockInv /\ WakeInv => OneSignalPerWait
  <2> SUFFICES ASSUME TypeOK, LockInv, WakeInv, NEW t \in Thread
               PROVE  /\ Cardinality(Signallers(t)) <= 1
                      /\ Signallers(t) # {} => pc[t] \in {"send_blocked", "recv_blocked"}
    BY DEF OneSignalPerWait
  <2>1. \A x \in Signallers(t) : x \in Thread /\ pc[x] \in Signalling /\ peer[x] = t
    BY DEF Signallers, Signalling
  <2>2. Signallers(t) # {} => pc[t] \in {"send_blocked", "recv_blocked"}
    BY <2>1, PeerSleeps DEF WakeInv
  <2>3. \A x, y \in Signallers(t) : x = y
    <3> SUFFICES ASSUME NEW x \in Signallers(t), NEW y \in Signallers(t)
                 PROVE  x = y
      OBVIOUS
    <3>1. SignalAgrees(x) /\ SignalAgrees(y)
      BY <2>1 DEF WakeInv, SignalsAgree
    <3>2. pc[x] = "exit_wake" /\ pc[y] = "exit_wake" => x = y
      BY <2>1 DEF LockInv, LockDiscipline, HoldsQ
    <3>3. CASE pc[x] = "send_signal"
      BY <2>1, <3>1, <3>3 DEF SignalAgrees, Signalling
    <3>4. CASE pc[x] = "exit_wake"
      BY <2>1, <3>1, <3>2, <3>4 DEF SignalAgrees, Signalling
    <3>5. CASE pc[x] \in {"recv_signal", "exit_drain_signal"}
      BY <2>1, <3>1, <3>5 DEF SignalAgrees, Signalling
    <3> QED
      BY <2>1, <3>3, <3>4, <3>5 DEF Signalling
  <2>4. Cardinality(Signallers(t)) <= 1
    <3>1. CASE Signallers(t) = {}
      BY <3>1, FS_EmptySet
    <3>2. CASE Signallers(t) # {}
      <4>1. PICK x : x \in Signallers(t)
        BY <3>2
      <4>2. Signallers(t) = {x}
        BY <2>3, <4>1
      <4>3. Cardinality({x}) = 1
        BY FS_Singleton, Zenon
      <4> QED
        BY <4>2, <4>3
    <3> QED
      BY <3>1, <3>2
  <2> QED
    BY <2>2, <2>4
<1> QED
  BY <1>1, WakeProtocol, PTL

-----------------------------------------------------------------------------
(* No wake-up is lost: a receiver asleep is served or told of the end of   *)
(* its last sender, a suspended sender is woken when its message is taken  *)
(* or dropped.                                                             *)

\* What the steps below need of TypeOK.
RestTypes ==
  /\ stato \in [Thread -> Stato]
  /\ msgq \in [Thread -> Seq(Entry)]
  /\ mitt \in [Thread -> SUBSET Thread]
  /\ slot \in [Thread -> Msg \cup {Null}]
  /\ pc \in [Thread -> Control]
  /\ peer \in [Thread -> Thread]
  /\ todo \in [Thread -> SUBSET Thread]
  /\ drain \in [Thread -> Seq(Entry)]

LEMMA TypesGiveRestTypes == TypeOK => RestTypes /\ WakeTypes
BY DEF TypeOK, RestTypes, WakeTypes

-----------------------------------------------------------------------------
(* Signals on their way *)

\* A signal stays on its way until it is sent, and then its thread is awake.
KeepsAim ==
  \A x \in Thread : pc[x] \in Signalling =>
    \/ pc'[x] = pc[x] /\ peer'[x] = peer[x]
    \/ pc'[peer[x]] \notin {"send_blocked", "recv_blocked"}

LEMMA StillSignalled ==
  ASSUME KeepsAim, NEW t \in Thread, Signallers(t) # {},
         pc'[t] \in {"send_blocked", "recv_blocked"}
  PROVE  Signallers(t)' # {}
<1>1. PICK x \in Thread : pc[x] \in Signalling /\ peer[x] = t
  BY DEF Signallers, Signalling
<1>2. pc'[x] = pc[x] /\ peer'[x] = peer[x]
  BY <1>1 DEF KeepsAim
<1>3. x \in Signallers(t)'
  BY <1>1, <1>2 DEF Signallers, Signalling
<1> QED BY <1>3

LEMMA AimProgram ==
  ASSUME RestTypes, NEW t \in Thread, Program(t)
  PROVE  KeepsAim
<1> USE DEF RestTypes, KeepsAim, Signalling, Goto, fields, locals
<1>1. CASE \E c \in Thread : Create(t, c)
  BY <1>1 DEF Create, CreateInternal
<1>2. CASE Register(t)
  BY <1>2 DEF Register, CreateInternal
<1>3. CASE \E d \in Thread : SendCall(t, d)
  BY <1>3 DEF SendCall, Call
<1>4. CASE \E S \in SUBSET Thread, nb \in BOOLEAN : ReceiveCall(t, S, nb)
  BY <1>4 DEF ReceiveCall, Call
<1>5. CASE \E args \in Cases : CaseCall(t, args)
  BY <1>5 DEF CaseCall, Call
<1>6. CASE ExitCall(t)
  BY <1>6 DEF ExitCall
<1> QED
  BY <1>1, <1>2, <1>3, <1>4, <1>5, <1>6 DEF Program

LEMMA AimCreating ==
  ASSUME RestTypes, CreationOwned, NEW t \in Thread, Creating(t)
  PROVE  KeepsAim
<1> USE DEF RestTypes, KeepsAim, Signalling, Goto, Return, fields, locals,
            CreationOwned, Creating_pc
<1>1. CASE PthreadCreate(t)
  BY <1>1 DEF PthreadCreate
<1>2. CASE PthreadCreateFails(t)
  BY <1>2 DEF PthreadCreateFails
<1>3. CASE CreateUndo(t)
  BY <1>3 DEF CreateUndo
<1>4. CASE CreateMax(t)
  BY <1>4 DEF CreateMax
<1>5. CASE StartRoutine(t)
  BY <1>5 DEF StartRoutine
<1> QED
  BY <1>1, <1>2, <1>3, <1>4, <1>5 DEF Creating

\* Sending the signal wakes its peer.
LEMMA AimSent ==
  ASSUME RestTypes, SignalsAgree, NEW t \in Thread, pc[t] \in Signalling,
         NEW next \in Control, SignalPeer(t, next),
         \A x \in Thread \ {t} : peer'[x] = peer[x]
  PROVE  KeepsAim
<1>1. pc[peer[t]] \in {"send_blocked", "recv_blocked"}
  BY PeerSleeps
<1>2. peer[t] \in Thread /\ peer[t] # t
  BY <1>1 DEF RestTypes, Signalling
<1>3. pc'[peer[t]] \in {"send_woken", "recv_woken"}
  BY <1>1, <1>2 DEF RestTypes, SignalPeer, Woken
<1>4. \A x \in Thread \ {t} : x # peer[t] => pc'[x] = pc[x]
  BY <1>1 DEF RestTypes, SignalPeer, Woken
<1>5. ASSUME NEW x \in Thread, pc[x] \in Signalling
      PROVE  \/ pc'[x] = pc[x] /\ peer'[x] = peer[x]
             \/ pc'[peer[x]] \notin {"send_blocked", "recv_blocked"}
  BY <1>1, <1>3, <1>4, <1>5 DEF Signalling
<1> QED BY <1>5 DEF KeepsAim

LEMMA AimSending ==
  ASSUME RestTypes, SignalsAgree, NEW t \in Thread, Sending(t)
  PROVE  KeepsAim
<1> USE DEF RestTypes
<1>1. CASE SendLock(t)
  BY <1>1 DEF SendLock, KeepsAim, Signalling, Goto, locals
<1>2. CASE SendDirect(t)
  BY <1>2 DEF SendDirect, KeepsAim, Signalling, Goto, locals
<1>3. CASE \E nb \in BOOLEAN : SendRefuse(t, nb)
  BY <1>3 DEF SendRefuse, KeepsAim, Signalling, Goto, Return
<1>4. CASE \E b \in Bsize : SendQueue(t, b)
  <2>1. /\ pc[t] = "send"
        /\ \/ Goto(t, "send_blocked") /\ UNCHANGED peer
           \/ Goto(t, "run") /\ peer' = [peer EXCEPT ![t] = t]
    BY <1>4, SendQueueSteps DEF Return
  <2> QED BY <2>1 DEF KeepsAim, Signalling, Goto
<1>5. CASE SendSignal(t)
  <2>1. pc[t] \in Signalling /\ SignalPeer(t, "run") /\ "run" \in Control
        /\ \A x \in Thread \ {t} : peer'[x] = peer[x]
    BY <1>5 DEF SendSignal, Signalling, Control
  <2> QED BY <2>1, AimSent
<1>6. CASE SendWoken(t)
  BY <1>6 DEF SendWoken, KeepsAim, Signalling, Goto, locals
<1>7. CASE SendRet(t)
  BY <1>7 DEF SendRet, KeepsAim, Signalling, Goto, Return
<1> QED
  BY <1>1, <1>2, <1>3, <1>4, <1>5, <1>6, <1>7 DEF Sending

LEMMA AimReceiving ==
  ASSUME TypeOK, RestTypes, SignalsAgree, NEW t \in Thread, Receiving(t)
  PROVE  KeepsAim
<1>1. CASE RecvTake(t)
  <2>1. PICK k \in DOMAIN msgq[t] :
          \/ /\ Goto(t, "recv_signal")
             /\ peer' = [peer EXCEPT ![t] = msgq[t][k].mitt]
          \/ Return(t)
    BY <1>1, RecvTakeMessage, Zenon
  <2>2. pc[t] = "recv_scan"
    BY <1>1 DEF RecvTake
  <2>3. \A x \in Thread \ {t} : pc'[x] = pc[x] /\ peer'[x] = peer[x]
    BY <2>1 DEF RestTypes, Goto, Return
  <2> QED BY <2>2, <2>3 DEF KeepsAim, Signalling
<1>2. CASE RecvSignal(t)
  <2>1. pc[t] \in Signalling /\ SignalPeer(t, "run") /\ "run" \in Control
        /\ \A x \in Thread \ {t} : peer'[x] = peer[x]
    BY <1>2 DEF RecvSignal, Signalling, Control, RestTypes
  <2> QED BY <2>1, AimSent
<1>3. CASE \/ RecvLock(t) \/ RecvDefault(t) \/ RecvNone(t)
           \/ \E s \in Thread : RecvBuild(t, s)
           \/ RecvNobody(t) \/ RecvWait(t) \/ RecvWoken(t)
  BY <1>3 DEF RecvLock, RecvDefault, RecvNone, RecvBuild, RecvNobody, RecvWait, RecvWoken,
     RestTypes, KeepsAim, Signalling, Goto, Return, locals
<1> QED
  BY <1>1, <1>2, <1>3 DEF Receiving

LEMMA AimExiting ==
  ASSUME TypeOK, RestTypes, SignalsAgree, NEW t \in Thread, Exiting(t)
  PROVE  KeepsAim
<1>1. CASE ExitDrain(t)
  <2>1. pc[t] = "exit_drain" /\ \A x \in Thread \ {t} : pc'[x] = pc[x] /\ peer'[x] = peer[x]
    BY <1>1 DEF ExitDrain, RestTypes, Goto
  <2> QED BY <2>1 DEF KeepsAim, Signalling
<1>2. CASE ExitDrainSignal(t)
  <2>1. pc[t] \in Signalling /\ SignalPeer(t, "exit_drain") /\ "exit_drain" \in Control
        /\ \A x \in Thread \ {t} : peer'[x] = peer[x]
    BY <1>2 DEF ExitDrainSignal, Signalling, Control, locals
  <2> QED BY <2>1, AimSent
<1>3. CASE ExitRemove(t)
  <2>1. pc[t] = "exit_visit" /\ \A x \in Thread \ {t} : pc'[x] = pc[x] /\ peer'[x] = peer[x]
    BY <1>3 DEF ExitRemove, RestTypes, Goto
  <2> QED BY <2>1 DEF KeepsAim, Signalling
<1>4. CASE ExitWake(t)
  <2>1. pc[t] \in Signalling /\ SignalPeer(t, "exit_walk") /\ "exit_walk" \in Control
        /\ \A x \in Thread \ {t} : peer'[x] = peer[x]
    BY <1>4 DEF ExitWake, Signalling, Control, RestTypes
  <2> QED BY <2>1, AimSent
<1>5. CASE \/ ExitLock(t) \/ ExitSwap(t) \/ ExitDrained(t) \/ ExitQLock(t) \/ ExitSelf(t)
           \/ \E x \in Thread : ExitVisit(t, x)
           \/ ExitDone(t)
  BY <1>5 DEF ExitLock, ExitSwap, ExitDrained, ExitQLock, ExitSelf, ExitVisit, ExitDone,
     RestTypes, KeepsAim, Signalling, Goto, locals
<1> QED
  BY <1>1, <1>2, <1>3, <1>4, <1>5 DEF Exiting

-----------------------------------------------------------------------------
(* Receivers asleep *)

\* Steps that serve nobody, start and end no wait, and go past nobody awaited.
ReceiverFrame ==
  /\ mitt' = mitt /\ slot' = slot
  /\ \A x \in Thread : pc'[x] = "recv_blocked" => pc[x] = "recv_blocked"
  /\ \A x \in Thread : mitt[x] # {} => pc'[x] \in RecvWaits \cup {"recv_build"}
  /\ \A s, x \in Thread : mitt[x] # {} /\ HasPassed(s, x)' => HasPassed(s, x)

ReceiversRest == ServedSignalled /\ AwaitingReceives /\ AwaitedComes

LEMMA ReceiverKept ==
  ASSUME RestTypes, KeepsAim, ReceiversRest, ReceiverFrame
  PROVE  ReceiversRest'
<1>1. ServedSignalled'
  <2> SUFFICES ASSUME NEW t \in Thread, pc'[t] = "recv_blocked",
                      slot'[t] # Null \/ mitt'[t] = {}
               PROVE  Signallers(t)' # {}
    BY DEF ServedSignalled
  <2>1. Signallers(t) # {}
    BY DEF ReceiverFrame, ReceiversRest, ServedSignalled
  <2> QED BY <2>1, StillSignalled
<1>2. AwaitingReceives'
  BY DEF ReceiverFrame, AwaitingReceives
<1>3. AwaitedComes'
  <2> SUFFICES ASSUME NEW t \in Thread, slot'[t] = Null, NEW s \in mitt'[t],
                      HasPassed(s, t)'
               PROVE  FALSE
    BY DEF AwaitedComes
  <2>1. slot[t] = Null /\ s \in mitt[t] /\ s \in Thread
    BY DEF ReceiverFrame, RestTypes
  <2>2. HasPassed(s, t)
    BY <2>1 DEF ReceiverFrame
  <2> QED BY <2>1, <2>2 DEF ReceiversRest, AwaitedComes
<1> QED BY <1>1, <1>2, <1>3 DEF ReceiversRest

\* Whoever moves is neither receiving nor walking, and does not start to.
LEMMA FrameMoves ==
  ASSUME AwaitingReceives, UNCHANGED <<mitt, slot, todo>>,
         \A x \in Thread :
           \/ pc'[x] = pc[x] /\ peer'[x] = peer[x]
           \/ /\ pc[x] \notin RecvWaits \cup {"recv_build"}
              /\ pc'[x] \notin {"recv_blocked", "done"} /\ ~HoldsQ(x)'
  PROVE  ReceiverFrame
BY DEF AwaitingReceives, RecvWaits, ReceiverFrame, HasPassed, HoldsQ

LEMMA FrameProgram ==
  ASSUME RestTypes, AwaitingReceives, NEW t \in Thread, Program(t)
  PROVE  ReceiverFrame
<1> USE DEF RestTypes, AwaitingReceives, RecvWaits, ReceiverFrame, HasPassed, HoldsQ,
            Goto, fields, locals
<1>1. CASE \E c \in Thread : Create(t, c)
  <2>1. PICK c \in Thread :
          /\ pc[t] = "run" /\ pc[c] = "none"
          /\ pc' = [pc EXCEPT ![t] = "create", ![c] = "new"]
          /\ peer' = [peer EXCEPT ![t] = c]
          /\ UNCHANGED <<mitt, slot, todo>>
    BY <1>1 DEF Create, CreateInternal
  <2>2. \A x \in Thread \ {t, c} : pc'[x] = pc[x] /\ peer'[x] = peer[x]
    BY <2>1
  <2>3. pc'[t] \in {"create", "new"} /\ pc'[c] = "new"
    BY <2>1
  <2> QED BY <2>1, <2>2, <2>3, FrameMoves
<1>2. CASE Register(t)
  BY <1>2 DEF Register, CreateInternal
<1>3. CASE \E d \in Thread : SendCall(t, d)
  BY <1>3 DEF SendCall, Call
<1>4. CASE \E S \in SUBSET Thread, nb \in BOOLEAN : ReceiveCall(t, S, nb)
  BY <1>4 DEF ReceiveCall, Call
<1>5. CASE \E args \in Cases : CaseCall(t, args)
  BY <1>5 DEF CaseCall, Call
<1>6. CASE ExitCall(t)
  BY <1>6 DEF ExitCall
<1> QED
  BY <1>1, <1>2, <1>3, <1>4, <1>5, <1>6 DEF Program

LEMMA FrameCreating ==
  ASSUME RestTypes, AwaitingReceives, CreationOwned, NEW t \in Thread, Creating(t)
  PROVE  ReceiverFrame
<1> USE DEF RestTypes, AwaitingReceives, RecvWaits, ReceiverFrame, HasPassed, HoldsQ,
            Goto, Return, fields, locals, CreationOwned, Creating_pc
<1>1. CASE PthreadCreate(t)
  <2>1. /\ pc[t] = "create" /\ pc[peer[t]] = "new" /\ peer[t] \in Thread
        /\ pc' = [pc EXCEPT ![t] = "create_max", ![peer[t]] = "start"]
        /\ UNCHANGED <<mitt, slot, todo, peer>>
    BY <1>1 DEF PthreadCreate
  <2> QED BY <2>1, FrameMoves
<1>2. CASE PthreadCreateFails(t)
  BY <1>2 DEF PthreadCreateFails
<1>3. CASE CreateUndo(t)
  <2>1. /\ pc[t] = "create_undo" /\ pc[peer[t]] = "new" /\ peer[t] \in Thread
        /\ pc' = [pc EXCEPT ![t] = "run", ![peer[t]] = "freed"]
        /\ peer' = [peer EXCEPT ![t] = t]
        /\ UNCHANGED <<mitt, slot, todo>>
    BY <1>3 DEF CreateUndo
  <2> QED BY <2>1, FrameMoves
<1>4. CASE CreateMax(t)
  BY <1>4 DEF CreateMax
<1>5. CASE StartRoutine(t)
  BY <1>5 DEF StartRoutine
<1> QED
  BY <1>1, <1>2, <1>3, <1>4, <1>5 DEF Creating

LEMMA FrameSending ==
  ASSUME RestTypes, AwaitingReceives, NEW t \in Thread, Sending(t), ~SendDirect(t)
  PROVE  ReceiverFrame
<1> USE DEF RestTypes, AwaitingReceives, RecvWaits, ReceiverFrame, HasPassed, HoldsQ,
            Goto, Return, fields, locals
<1>1. CASE SendLock(t)
  BY <1>1 DEF SendLock
<1>3. CASE \E nb \in BOOLEAN : SendRefuse(t, nb)
  BY <1>3 DEF SendRefuse
<1>4. CASE \E b \in Bsize : SendQueue(t, b)
  <2>1. /\ pc[t] = "send" /\ UNCHANGED <<mitt, slot, todo>>
        /\ \/ Goto(t, "send_blocked") /\ UNCHANGED peer
           \/ Goto(t, "run") /\ peer' = [peer EXCEPT ![t] = t]
    BY <1>4, SendQueueSteps DEF Return
  <2>2. \A x \in Thread \ {t} : pc'[x] = pc[x] /\ peer'[x] = peer[x]
    BY <2>1
  <2>3. pc'[t] \in {"send_blocked", "run"}
    BY <2>1
  <2> QED BY <2>1, <2>2, <2>3, FrameMoves
<1>5. CASE SendSignal(t)
  BY <1>5 DEF SendSignal, SignalPeer, Woken
<1>6. CASE SendWoken(t)
  BY <1>6 DEF SendWoken
<1>7. CASE SendRet(t)
  BY <1>7 DEF SendRet
<1> QED
  BY <1>1, <1>3, <1>4, <1>5, <1>6, <1>7 DEF Sending

LEMMA FrameReceiving ==
  ASSUME TypeOK, RestTypes, AwaitingReceives, NEW t \in Thread, Receiving(t),
         \A s \in Thread : ~RecvBuild(t, s), ~RecvWait(t), ~RecvWoken(t)
  PROVE  ReceiverFrame
<1> USE DEF RestTypes, AwaitingReceives, RecvWaits, ReceiverFrame, HasPassed, HoldsQ,
            Goto, Return, fields, locals
<1>1. CASE RecvLock(t)
  BY <1>1 DEF RecvLock
<1>2. CASE RecvTake(t)
  <2>1. /\ pc[t] = "recv_scan" /\ UNCHANGED <<mitt, slot, todo>>
        /\ Goto(t, "recv_signal") \/ Goto(t, "run")
        /\ \A x \in Thread \ {t} : peer'[x] = peer[x]
    BY <1>2 DEF RecvTake
  <2> QED BY <2>1
<1>3. CASE RecvDefault(t)
  BY <1>3 DEF RecvDefault
<1>4. CASE RecvNone(t)
  BY <1>4 DEF RecvNone
<1>5. CASE RecvSignal(t)
  BY <1>5 DEF RecvSignal, SignalPeer, Woken
<1>6. CASE RecvNobody(t)
  BY <1>6 DEF RecvNobody
<1> QED
  BY <1>1, <1>2, <1>3, <1>4, <1>5, <1>6 DEF Receiving

\* The walk of a terminating thread visits everybody who awaits it: who receives
\* is in the queue of threads when the walk starts.
LEMMA FrameExiting ==
  ASSUME TypeOK, RestTypes, LockInv, RegInv, AwaitingReceives,
         NEW t \in Thread, Exiting(t), ~ExitRemove(t)
  PROVE  ReceiverFrame
<1> USE DEF RestTypes, AwaitingReceives, RecvWaits, ReceiverFrame, HasPassed, HoldsQ,
            Goto, fields, locals
<1>1. CASE ExitLock(t)
  BY <1>1 DEF ExitLock
<1>2. CASE ExitSwap(t)
  BY <1>2 DEF ExitSwap
<1>3. CASE ExitDrain(t)
  <2>1. /\ pc[t] = "exit_drain" /\ UNCHANGED <<mitt, slot, todo>>
        /\ \A x \in Thread \ {t} : pc'[x] = pc[x] /\ peer'[x] = peer[x]
        /\ pc'[t] \in {"exit_drain", "exit_drain_signal"}
    BY <1>3 DEF ExitDrain
  <2> QED BY <2>1
<1>4. CASE ExitDrainSignal(t)
  BY <1>4 DEF ExitDrainSignal, SignalPeer, Woken
<1>5. CASE ExitDrained(t)
  BY <1>5 DEF ExitDrained
<1>6. CASE ExitQLock(t)
  <2>1. /\ pc[t] = "exit_qlock" /\ pc' = [pc EXCEPT ![t] = "exit_walk"]
        /\ todo' = [todo EXCEPT ![t] = registry]
        /\ UNCHANGED <<mitt, slot, peer>> /\ qmutex = Null
    BY <1>6 DEF ExitQLock
  <2>2. registry = Alive
    BY <2>1, UnlockedComplete
  <2>3. \A x \in Thread : mitt[x] # {} => x \in registry /\ x # t
    BY <2>1, <2>2 DEF Alive
  <2> QED BY <2>1, <2>3
<1>7. CASE ExitSelf(t)
  BY <1>7 DEF ExitSelf
<1>8. CASE \E x \in Thread : ExitVisit(t, x)
  <2>1. PICK y \in Thread : /\ pc[t] = "exit_walk"
                            /\ pc' = [pc EXCEPT ![t] = "exit_visit"]
                            /\ peer' = [peer EXCEPT ![t] = y]
                            /\ todo' = [todo EXCEPT ![t] = @ \ {y}]
                            /\ UNCHANGED <<mitt, slot>>
    BY <1>8 DEF ExitVisit
  <2> QED BY <2>1
<1>9. CASE ExitWake(t)
  BY <1>9 DEF ExitWake, SignalPeer, Woken
<1>10. CASE ExitDone(t)
  BY <1>10 DEF ExitDone
<1> QED
  BY <1>1, <1>2, <1>3, <1>4, <1>5, <1>6, <1>7, <1>8, <1>9, <1>10 DEF Exiting

\* A direct hand-over fills the slot of a receiver asleep, and signals it.
LEMMA ReceiverServed ==
  ASSUME TypeOK, RestTypes, StatoAgrees, SlotAgrees, KeepsAim, ReceiversRest,
         NEW t \in Thread, SendDirect(t)
  PROVE  ReceiversRest'
<1> DEFINE d == peer[t]
<1>1. /\ pc[t] = "send" /\ pc' = [pc EXCEPT ![t] = "send_signal"]
      /\ slot' = [slot EXCEPT ![d] = [mitt |-> t, n |-> Next_n(t, d)]]
      /\ UNCHANGED <<mitt, peer, todo>>
  BY DEF SendDirect, Goto, locals
<1>2. d \in Thread /\ slot[d] = Null
  BY DEF RestTypes, SendDirect, Expected
<1>3. slot'[d] # Null /\ \A x \in Thread \ {d} : slot'[x] = slot[x]
  <2>1. [mitt |-> t, n |-> Next_n(t, d)] \in Msg
    BY <1>2, NumberType DEF Msg
  <2> QED BY <1>1, <1>2, <2>1, NullAssumption DEF RestTypes
<1>4. pc'[t] = "send_signal" /\ \A x \in Thread \ {t} : pc'[x] = pc[x]
  BY <1>1 DEF RestTypes
<1> HIDE DEF d
<1>5. ASSUME NEW x \in Thread, pc'[x] = "recv_blocked", slot'[x] # Null \/ mitt'[x] = {}
      PROVE  Signallers(x)' # {}
  <2>1. CASE x = d
    <3>1. t \in Signallers(x)'
      BY <1>1, <1>4, <2>1 DEF Signallers, d
    <3> QED BY <3>1
  <2>2. CASE x # d
    <3>1. Signallers(x) # {}
      BY <1>1, <1>3, <1>4, <1>5, <2>2 DEF ReceiversRest, ServedSignalled
    <3> QED BY <1>5, <3>1, StillSignalled
  <2> QED BY <2>1, <2>2
<1>6. AwaitingReceives'
  BY <1>1, <1>4 DEF ReceiversRest, AwaitingReceives, RecvWaits
<1>7. ASSUME NEW x \in Thread, slot'[x] = Null, NEW s \in mitt'[x], HasPassed(s, x)'
      PROVE  FALSE
  <2>1. slot[x] = Null /\ s \in mitt[x] /\ s \in Thread
    BY <1>1, <1>3, <1>7 DEF RestTypes
  <2>2. HasPassed(s, x)
    BY <1>1, <1>4, <1>7, <2>1 DEF HasPassed, HoldsQ
  <2> QED BY <2>1, <2>2 DEF ReceiversRest, AwaitedComes
<1> QED BY <1>5, <1>6, <1>7 DEF ReceiversRest, ServedSignalled, AwaitedComes

\* A sender that joins the queue of a receiver is not terminating.
LEMMA ReceiverBuilds ==
  ASSUME RestTypes, StatoAgrees, SlotAgrees, KeepsAim, ReceiversRest,
         NEW t \in Thread, NEW s \in Thread, RecvBuild(t, s)
  PROVE  ReceiversRest'
<1>1. /\ pc[t] = "recv_build" /\ todo' = [todo EXCEPT ![t] = @ \ {s}]
      /\ mitt' = IF CanSend(s) THEN [mitt EXCEPT ![t] = @ \cup {s}] ELSE mitt
      /\ UNCHANGED <<slot, pc, peer>>
  BY DEF RecvBuild
<1>2. CanSend(s) => ~ \E x \in Thread : HasPassed(s, x)
  BY DEF CanSend, StatoAgrees, HasPassed, HoldsQ, Ending, Drained
<1>3. ASSUME NEW x \in Thread, NEW r \in Thread
      PROVE  HasPassed(r, x)' => HasPassed(r, x)
  BY <1>1 DEF RestTypes, HasPassed, HoldsQ
<1>4. \A x \in Thread : x # t => mitt'[x] = mitt[x]
  BY <1>1 DEF RestTypes
<1>5. ASSUME NEW x \in Thread, pc'[x] = "recv_blocked", slot'[x] # Null \/ mitt'[x] = {}
      PROVE  Signallers(x)' # {}
  <2>1. Signallers(x) # {}
    BY <1>1, <1>4, <1>5 DEF ReceiversRest, ServedSignalled
  <2> QED BY <1>5, <2>1, StillSignalled
<1>6. AwaitingReceives'
  BY <1>1, <1>4 DEF ReceiversRest, AwaitingReceives
<1>7. ASSUME NEW x \in Thread, slot'[x] = Null, NEW r \in mitt'[x], HasPassed(r, x)'
      PROVE  FALSE
  <2>1. r \in mitt[x] \/ (CanSend(s) /\ r = s)
    BY <1>1, <1>7 DEF RestTypes
  <2>2. r \in Thread /\ slot[x] = Null
    BY <1>1, <1>7, <2>1 DEF RestTypes
  <2>3. HasPassed(r, x)
    BY <1>3, <1>7, <2>2
  <2> QED BY <1>2, <2>1, <2>2, <2>3 DEF ReceiversRest, AwaitedComes
<1> QED BY <1>5, <1>6, <1>7 DEF ReceiversRest, ServedSignalled, AwaitedComes

\* Who falls asleep awaits somebody and is not served yet.
LEMMA ReceiverWaits ==
  ASSUME RestTypes, SlotAgrees, KeepsAim, ReceiversRest, NEW t \in Thread, RecvWait(t)
  PROVE  ReceiversRest'
<1>1. /\ pc[t] = "recv_build" /\ mitt[t] # {}
      /\ pc' = [pc EXCEPT ![t] = "recv_blocked"]
      /\ UNCHANGED <<mitt, slot, peer, todo>>
  BY DEF RecvWait, Goto, locals
<1>2. slot[t] = Null
  BY <1>1 DEF SlotAgrees, RecvWaits
<1>3. pc'[t] = "recv_blocked" /\ \A x \in Thread \ {t} : pc'[x] = pc[x]
  BY <1>1 DEF RestTypes
<1>4. ASSUME NEW x \in Thread, pc'[x] = "recv_blocked", slot'[x] # Null \/ mitt'[x] = {}
      PROVE  Signallers(x)' # {}
  <2>1. Signallers(x) # {}
    BY <1>1, <1>2, <1>3, <1>4 DEF ReceiversRest, ServedSignalled
  <2> QED BY <1>4, <2>1, StillSignalled
<1>5. AwaitingReceives'
  BY <1>1, <1>3 DEF ReceiversRest, AwaitingReceives, RecvWaits
<1>6. ASSUME NEW x \in Thread, slot'[x] = Null, NEW s \in mitt'[x], HasPassed(s, x)'
      PROVE  FALSE
  <2>1. slot[x] = Null /\ s \in mitt[x] /\ s \in Thread
    BY <1>1, <1>6 DEF RestTypes
  <2>2. HasPassed(s, x)
    BY <1>1, <1>3, <1>6, <2>1 DEF HasPassed, HoldsQ
  <2> QED BY <2>1, <2>2 DEF ReceiversRest, AwaitedComes
<1> QED BY <1>4, <1>5, <1>6 DEF ReceiversRest, ServedSignalled, AwaitedComes

\* Who wakes awaits nobody any more.
LEMMA ReceiverWakes ==
  ASSUME RestTypes, KeepsAim, ReceiversRest, NEW t \in Thread, RecvWoken(t)
  PROVE  ReceiversRest'
<1>1. /\ pc[t] = "recv_woken" /\ mitt' = [mitt EXCEPT ![t] = {}]
      /\ slot' = [slot EXCEPT ![t] = Null]
      /\ pc' = [pc EXCEPT ![t] = "run"] /\ peer' = [peer EXCEPT ![t] = t]
      /\ todo' = todo
  BY DEF RecvWoken, MittAfterWait, Return, Goto
<1>2. /\ mitt'[t] = {} /\ pc'[t] = "run"
      /\ \A x \in Thread \ {t} : /\ mitt'[x] = mitt[x] /\ slot'[x] = slot[x]
                                 /\ pc'[x] = pc[x] /\ peer'[x] = peer[x]
  BY <1>1 DEF RestTypes
<1>3. ASSUME NEW x \in Thread, pc'[x] = "recv_blocked", slot'[x] # Null \/ mitt'[x] = {}
      PROVE  Signallers(x)' # {}
  <2>1. Signallers(x) # {}
    BY <1>2, <1>3 DEF ReceiversRest, ServedSignalled
  <2> QED BY <1>3, <2>1, StillSignalled
<1>4. AwaitingReceives'
  BY <1>2 DEF ReceiversRest, AwaitingReceives
<1>5. ASSUME NEW x \in Thread, slot'[x] = Null, NEW s \in mitt'[x], HasPassed(s, x)'
      PROVE  FALSE
  <2>1. x # t /\ slot[x] = Null /\ s \in mitt[x] /\ s \in Thread
    BY <1>2, <1>5 DEF RestTypes
  <2>2. HasPassed(s, x)
    BY <1>1, <1>2, <1>5, <2>1 DEF HasPassed, HoldsQ
  <2> QED BY <2>1, <2>2 DEF ReceiversRest, AwaitedComes
<1> QED BY <1>3, <1>4, <1>5 DEF ReceiversRest, ServedSignalled, AwaitedComes

\* A terminating thread leaves the queue of a receiver it visits, and signals it
\* if it was the last: a receiver is either building its queue, and then holds
\* the mutex the visitor needs, or says that it waits.
LEMMA ReceiverVisited ==
  ASSUME RestTypes, LockInv, StatoAgrees, KeepsAim, ReceiversRest,
         NEW t \in Thread, ExitRemove(t)
  PROVE  ReceiversRest'
<1> DEFINE d == peer[t]
<1>1. /\ pc[t] = "exit_visit" /\ d \in Thread
      /\ mitt' = IF AwaitedBy(d, t) THEN [mitt EXCEPT ![d] = @ \ {t}] ELSE mitt
      /\ UNCHANGED <<slot, todo>>
  BY DEF RestTypes, ExitRemove, locals
<1>2. /\ \A x \in Thread \ {t} : pc'[x] = pc[x] /\ peer'[x] = peer[x]
      /\ IF Sveglia(t, d) THEN pc'[t] = "exit_wake" /\ peer'[t] = d
                          ELSE pc'[t] = "exit_walk"
  BY DEF RestTypes, ExitRemove, Goto
<1> HIDE DEF d
<1>3. \A x \in Thread : mitt'[x] \subseteq mitt[x] /\ (x # d => mitt'[x] = mitt[x])
  BY <1>1 DEF RestTypes
<1>4. mitt[t] = {}
  BY <1>1 DEF ReceiversRest, AwaitingReceives, RecvWaits
<1>5. ASSUME NEW x \in Thread, pc'[x] = "recv_blocked", slot'[x] # Null \/ mitt'[x] = {}
      PROVE  Signallers(x)' # {}
  <2>0. x # t /\ pc[x] = "recv_blocked" /\ slot'[x] = slot[x]
    BY <1>1, <1>2, <1>5
  <2>1. CASE slot[x] # Null \/ mitt[x] = {}
    <3>1. Signallers(x) # {}
      BY <2>0, <2>1 DEF ReceiversRest, ServedSignalled
    <3> QED BY <1>5, <3>1, StillSignalled
  <2>2. CASE slot[x] = Null /\ mitt[x] # {}
    <3>1. x = d /\ mitt'[x] = {}
      BY <1>3, <1>5, <2>0, <2>2
    <3>2. AwaitedBy(d, t) /\ mitt[d] = {t}
      BY <1>1, <2>2, <3>1 DEF RestTypes, AwaitedBy
    <3>3. t \in Signallers(x)'
      BY <1>2, <3>1, <3>2 DEF Sveglia, Signallers
    <3> QED BY <3>3
  <2> QED BY <2>1, <2>2
<1>6. AwaitingReceives'
  BY <1>2, <1>3, <1>4 DEF ReceiversRest, AwaitingReceives
<1>7. ASSUME NEW x \in Thread, slot'[x] = Null, NEW s \in mitt'[x], HasPassed(s, x)'
      PROVE  FALSE
  <2>1. slot[x] = Null /\ s \in mitt[x] /\ s \in Thread
    BY <1>1, <1>3, <1>7 DEF RestTypes
  <2>2. ~HasPassed(s, x)
    BY <2>1 DEF ReceiversRest, AwaitedComes
  <2>3. CASE s # t
    BY <1>1, <1>2, <1>7, <2>1, <2>2, <2>3 DEF HasPassed, HoldsQ
  <2>4. CASE s = t /\ x # d
    BY <1>1, <1>2, <1>7, <2>2, <2>4 DEF HasPassed, HoldsQ, d
  <2>5. CASE s = t /\ x = d
    <3>1. ~AwaitedBy(d, t)
      BY <1>1, <1>7, <2>5 DEF RestTypes
    <3>2. stato[d] # "WAITING_ON_RECEIVE"
      BY <2>1, <2>5, <3>1 DEF AwaitedBy
    <3>3. pc[d] = "recv_build"
      BY <1>1, <2>1, <2>5, <3>2
         DEF StatoAgrees, ReceiversRest, AwaitingReceives
    <3>4. mutex[d] = d /\ mutex[d] = t
      BY <1>1, <3>3 DEF LockInv, LockDiscipline, Holds, d
    <3> QED BY <1>1, <3>3, <3>4
  <2> QED BY <2>3, <2>4, <2>5
<1> QED BY <1>5, <1>6, <1>7 DEF ReceiversRest, ServedSignalled, AwaitedComes

-----------------------------------------------------------------------------
(* Suspended senders *)

\* Appending keeps the marks, and adds that of a message that says so.
LEMMA AppendKeeps ==
  ASSUME NEW q \in Seq(Entry), NEW e \in Entry
  PROVE  /\ MarkedBy(q) \subseteq MarkedBy(Append(q, e))
         /\ e.susp => e.mitt \in MarkedBy(Append(q, e))
<1> DEFINE r == Append(q, e)
           n == Len(q) + 1
<1>1. /\ n \in DOMAIN r /\ r[n] = e
      /\ \A i \in DOMAIN q : i \in DOMAIN r /\ r[i] = q[i]
  BY AppendProperties
<1> HIDE DEF r, n
<1>2. \A i \in Marks(q) : i \in Marks(r) /\ r[i].mitt = q[i].mitt
  BY <1>1 DEF Marks
<1>3. MarkedBy(q) \subseteq MarkedBy(r)
  BY <1>2 DEF MarkedBy
<1>4. e.susp => e.mitt \in MarkedBy(r)
  BY <1>1 DEF MarkedBy, Marks
<1> QED BY <1>3, <1>4 DEF r

\* Taking a message takes no other mark.
LEMMA RemoveKeeps ==
  ASSUME NEW q \in Seq(Entry), NEW k \in DOMAIN q, NEW m \in MarkedBy(q)
  PROVE  m \in MarkedBy(RemoveAt(q, k)) \/ (q[k].susp /\ m = q[k].mitt)
<1> DEFINE r == RemoveAt(q, k)
           from(j) == IF j < k THEN j ELSE j - 1
<1>1. PICK j \in DOMAIN q : q[j].susp /\ q[j].mitt = m
  BY DEF MarkedBy, Marks
<1>2. /\ j \in 1 .. Len(q) /\ k \in 1 .. Len(q) /\ Len(q) \in Nat
      /\ DOMAIN r = 1 .. Len(q) - 1
      /\ \A i \in 1 .. Len(q) - 1 : r[i] = q[IF i < k THEN i ELSE i + 1]
  <2>1. /\ r \in Seq(Entry) /\ Len(r) = Len(q) - 1
        /\ \A i \in 1 .. Len(q) - 1 : r[i] = q[IF i < k THEN i ELSE i + 1]
    BY RemoveAtElements
  <2> HIDE DEF r
  <2> QED BY <2>1, LenProperties
<1> HIDE DEF r
<1>3. CASE j = k
  BY <1>1, <1>3
<1>4. CASE j # k
  <2>1. from(j) \in 1 .. Len(q) - 1
    BY <1>2, <1>4
  <2>2. r[from(j)] = q[j]
    BY <1>2, <1>4, <2>1
  <2> HIDE DEF from
  <2>3. from(j) \in Marks(r)
    BY <1>1, <1>2, <2>1, <2>2 DEF Marks
  <2> QED BY <1>1, <2>2, <2>3 DEF MarkedBy, r
<1> QED BY <1>3, <1>4

\* Nor does dropping the first one.
LEMMA TailKeeps ==
  ASSUME NEW q \in Seq(Entry), q # <<>>, NEW m \in MarkedBy(q)
  PROVE  m \in MarkedBy(Tail(q)) \/ (Head(q).susp /\ m = Head(q).mitt)
<1>0. 1 \in 1 .. Len(q) /\ Len(q) \in Nat /\ DOMAIN q = 1 .. Len(q) /\ Head(q) = q[1]
  BY EmptySeq, LenProperties
<1>1. DOMAIN Tail(q) = 1 .. Len(q) - 1 /\ \A i \in 1 .. Len(q) - 1 : Tail(q)[i] = q[i + 1]
  BY <1>0, HeadTailProperties
<1>2. PICK j \in DOMAIN q : q[j].susp /\ q[j].mitt = m
  BY DEF MarkedBy, Marks
<1>3. CASE j = 1
  BY <1>0, <1>2, <1>3
<1>4. CASE j # 1
  <2>1. j - 1 \in 1 .. Len(q) - 1 /\ j - 1 + 1 = j
    BY <1>0, <1>4
  <2>2. Tail(q)[j - 1] = q[j]
    BY <1>1, <2>1
  <2>3. j - 1 \in Marks(Tail(q))
    BY <1>1, <1>2, <2>1, <2>2 DEF Marks
  <2> QED BY <1>2, <2>2, <2>3 DEF MarkedBy
<1> QED BY <1>3, <1>4

\* Steps that touch no mailbox, suspend nobody and end no life of a thread.
SenderFrame ==
  /\ msgq' = msgq /\ drain' = drain
  /\ \A x \in Thread : /\ pc'[x] = "send_blocked" => pc[x] = "send_blocked" /\ peer'[x] = peer[x]
                       /\ pc'[x] \notin Drained => pc[x] \notin Drained

SendersRest == CopyEmpty /\ MarkedSignalled

LEMMA SenderKept ==
  ASSUME KeepsAim, SendersRest, SenderFrame
  PROVE  SendersRest'
<1>1. CopyEmpty'
  BY DEF SenderFrame, SendersRest, CopyEmpty
<1>2. ASSUME NEW t \in Thread, pc'[t] = "send_blocked",
             t \notin MarkedBy(msgq'[peer'[t]]) \cup MarkedBy(drain'[peer'[t]])
      PROVE  Signallers(t)' # {}
  <2>1. Signallers(t) # {}
    BY <1>2 DEF SenderFrame, SendersRest, MarkedSignalled
  <2> QED BY <1>2, <2>1, StillSignalled
<1> QED BY <1>1, <1>2 DEF SendersRest, MarkedSignalled

LEMMA SendersProgram ==
  ASSUME RestTypes, NEW t \in Thread, Program(t)
  PROVE  SenderFrame
<1>0. UNCHANGED <<msgq, drain>>
  BY ProgramKeepsMail
<1> USE <1>0 DEF RestTypes, SenderFrame, Drained, Goto, fields, locals
<1>1. CASE \E c \in Thread : Create(t, c)
  BY <1>1 DEF Create, CreateInternal
<1>2. CASE Register(t)
  BY <1>2 DEF Register, CreateInternal
<1>3. CASE \E d \in Thread : SendCall(t, d)
  BY <1>3 DEF SendCall, Call
<1>4. CASE \E S \in SUBSET Thread, nb \in BOOLEAN : ReceiveCall(t, S, nb)
  BY <1>4 DEF ReceiveCall, Call
<1>5. CASE \E args \in Cases : CaseCall(t, args)
  BY <1>5 DEF CaseCall, Call
<1>6. CASE ExitCall(t)
  BY <1>6 DEF ExitCall
<1> QED
  BY <1>1, <1>2, <1>3, <1>4, <1>5, <1>6 DEF Program

LEMMA SendersCreating ==
  ASSUME RestTypes, CreationOwned, NEW t \in Thread, Creating(t)
  PROVE  SenderFrame
<1> USE DEF RestTypes, SenderFrame, Drained, Goto, Return, fields, locals,
            CreationOwned, Creating_pc
<1>1. CASE PthreadCreate(t)
  BY <1>1 DEF PthreadCreate
<1>2. CASE PthreadCreateFails(t)
  BY <1>2 DEF PthreadCreateFails
<1>3. CASE CreateUndo(t)
  BY <1>3 DEF CreateUndo
<1>4. CASE CreateMax(t)
  BY <1>4 DEF CreateMax
<1>5. CASE StartRoutine(t)
  BY <1>5 DEF StartRoutine
<1> QED
  BY <1>1, <1>2, <1>3, <1>4, <1>5 DEF Creating

LEMMA SendersSending ==
  ASSUME RestTypes, NEW t \in Thread, Sending(t), \A b \in Bsize : ~SendQueue(t, b)
  PROVE  SenderFrame
<1> USE DEF RestTypes, SenderFrame, Drained, Goto, Return, SignalPeer, Woken, fields, locals
<1>1. CASE SendLock(t)
  BY <1>1 DEF SendLock
<1>2. CASE SendDirect(t)
  BY <1>2 DEF SendDirect
<1>3. CASE \E nb \in BOOLEAN : SendRefuse(t, nb)
  BY <1>3 DEF SendRefuse
<1>5. CASE SendSignal(t)
  BY <1>5 DEF SendSignal
<1>6. CASE SendWoken(t)
  BY <1>6 DEF SendWoken
<1>7. CASE SendRet(t)
  BY <1>7 DEF SendRet
<1> QED
  BY <1>1, <1>2, <1>3, <1>5, <1>6, <1>7 DEF Sending

LEMMA SendersReceiving ==
  ASSUME RestTypes, NEW t \in Thread, Receiving(t), ~RecvTake(t)
  PROVE  SenderFrame
<1>0. UNCHANGED <<msgq, drain>>
  BY ReceivingKeepsMail
<1> USE <1>0 DEF RestTypes, SenderFrame, Drained, Goto, Return, SignalPeer, Woken, locals
<1>1. CASE RecvLock(t)
  BY <1>1 DEF RecvLock
<1>3. CASE RecvDefault(t)
  BY <1>3 DEF RecvDefault
<1>4. CASE RecvNone(t)
  BY <1>4 DEF RecvNone
<1>5. CASE RecvSignal(t)
  BY <1>5 DEF RecvSignal
<1>6. CASE \E s \in Thread : RecvBuild(t, s)
  BY <1>6 DEF RecvBuild
<1>7. CASE RecvNobody(t)
  BY <1>7 DEF RecvNobody
<1>8. CASE RecvWait(t)
  BY <1>8 DEF RecvWait
<1>9. CASE RecvWoken(t)
  BY <1>9 DEF RecvWoken
<1> QED
  BY <1>1, <1>3, <1>4, <1>5, <1>6, <1>7, <1>8, <1>9 DEF Receiving

LEMMA SendersExiting ==
  ASSUME RestTypes, NEW t \in Thread, Exiting(t), ~ExitSwap(t), ~ExitDrain(t)
  PROVE  SenderFrame
<1> USE DEF RestTypes, SenderFrame, Drained, Goto, SignalPeer, Woken, fields, locals
<1>1. CASE ExitLock(t)
  BY <1>1 DEF ExitLock
<1>4. CASE ExitDrainSignal(t)
  BY <1>4 DEF ExitDrainSignal
<1>5. CASE ExitDrained(t)
  BY <1>5 DEF ExitDrained
<1>6. CASE ExitQLock(t)
  BY <1>6 DEF ExitQLock
<1>7. CASE ExitSelf(t)
  BY <1>7 DEF ExitSelf
<1>8. CASE \E x \in Thread : ExitVisit(t, x)
  BY <1>8 DEF ExitVisit
<1>9. CASE ExitRemove(t)
  BY <1>9 DEF ExitRemove
<1>10. CASE ExitWake(t)
  BY <1>10 DEF ExitWake
<1>11. CASE ExitDone(t)
  BY <1>11 DEF ExitDone
<1> QED
  BY <1>1, <1>4, <1>5, <1>6, <1>7, <1>8, <1>9, <1>10, <1>11 DEF Exiting

\* A sender is suspended on the message that marks it.
LEMMA SenderSuspended ==
  ASSUME TypeOK, RestTypes, KeepsAim, SendersRest,
         NEW t \in Thread, NEW b \in Bsize, SendQueue(t, b)
  PROVE  SendersRest'
<1>1. PICK e \in Entry :
        /\ e.mitt = t
        /\ msgq' = [msgq EXCEPT ![peer[t]] = Append(@, e)]
        /\ \/ e.susp /\ Goto(t, "send_blocked") /\ UNCHANGED peer
           \/ ~e.susp /\ Return(t)
  BY SendQueueMessage, Zenon
<1>2. pc[t] = "send" /\ drain' = drain /\ peer[t] \in Thread
  BY SendQueueSteps DEF RestTypes
<1>3. \A x \in Thread \ {t} : pc'[x] = pc[x] /\ peer'[x] = peer[x]
  BY <1>1 DEF RestTypes, Goto, Return
<1>4. \/ pc'[t] = "run"
      \/ e.susp /\ pc'[t] = "send_blocked" /\ peer'[t] = peer[t]
  BY <1>1 DEF RestTypes, Goto, Return
<1>5. /\ msgq'[peer[t]] = Append(msgq[peer[t]], e)
      /\ \A d \in Thread \ {peer[t]} : msgq'[d] = msgq[d]
  BY <1>1, <1>2 DEF RestTypes
<1>6. /\ \A d \in Thread : MarkedBy(msgq[d]) \subseteq MarkedBy(msgq'[d])
      /\ e.susp => t \in MarkedBy(msgq'[peer[t]])
  BY <1>1, <1>2, <1>5, AppendKeeps DEF RestTypes
<1>7. CopyEmpty'
  BY <1>2, <1>3, <1>4 DEF SendersRest, CopyEmpty, Drained
<1>8. ASSUME NEW x \in Thread, pc'[x] = "send_blocked",
             x \notin MarkedBy(msgq'[peer'[x]]) \cup MarkedBy(drain'[peer'[x]])
      PROVE  Signallers(x)' # {}
  <2>1. x # t
    BY <1>4, <1>6, <1>8
  <2>2. Signallers(x) # {}
    BY <1>2, <1>3, <1>6, <1>8, <2>1 DEF SendersRest, MarkedSignalled, RestTypes
  <2> QED BY <1>8, <2>2, StillSignalled
<1> QED BY <1>7, <1>8 DEF SendersRest, MarkedSignalled

\* Who takes a message that marks its sender is about to signal it.
LEMMA SenderTaken ==
  ASSUME TypeOK, RestTypes, KeepsAim, SendersRest, NEW t \in Thread, RecvTake(t)
  PROVE  SendersRest'
<1>1. PICK k \in DOMAIN msgq[t] :
        /\ msgq' = [msgq EXCEPT ![t] = RemoveAt(@, k)]
        /\ \/ /\ msgq[t][k].susp
              /\ Goto(t, "recv_signal")
              /\ peer' = [peer EXCEPT ![t] = msgq[t][k].mitt]
           \/ ~msgq[t][k].susp /\ Return(t)
  BY RecvTakeMessage, Zenon
<1>2. pc[t] = "recv_scan" /\ drain' = drain
  BY DEF RecvTake
<1>3. \A x \in Thread \ {t} : pc'[x] = pc[x] /\ peer'[x] = peer[x]
  BY <1>1 DEF RestTypes, Goto, Return
<1>4. \/ ~msgq[t][k].susp /\ pc'[t] = "run"
      \/ pc'[t] = "recv_signal" /\ peer'[t] = msgq[t][k].mitt
  BY <1>1 DEF RestTypes, Goto, Return
<1>5. /\ msgq'[t] = RemoveAt(msgq[t], k)
      /\ \A d \in Thread \ {t} : msgq'[d] = msgq[d]
  BY <1>1 DEF RestTypes
<1>6. CopyEmpty'
  BY <1>2, <1>3, <1>4 DEF SendersRest, CopyEmpty, Drained
<1>7. ASSUME NEW x \in Thread, pc'[x] = "send_blocked",
             x \notin MarkedBy(msgq'[peer'[x]]) \cup MarkedBy(drain'[peer'[x]])
      PROVE  Signallers(x)' # {}
  <2>1. x # t
    BY <1>4, <1>7
  <2>2. pc[x] = "send_blocked" /\ peer'[x] = peer[x] /\ peer[x] \in Thread
    BY <1>3, <1>7, <2>1 DEF RestTypes
  <2>3. CASE Signallers(x) # {}
    BY <1>7, <2>3, StillSignalled
  <2>4. CASE Signallers(x) = {}
    <3>1. x \in MarkedBy(msgq[peer[x]]) \cup MarkedBy(drain[peer[x]])
      BY <2>2, <2>4 DEF SendersRest, MarkedSignalled
    <3>2. peer[x] = t /\ x \in MarkedBy(msgq[t])
      BY <1>2, <1>5, <1>7, <2>2, <3>1
    <3>3. msgq[t] \in Seq(Entry)
      BY DEF RestTypes
    <3>4. msgq[t][k].susp /\ x = msgq[t][k].mitt
      BY <1>5, <1>7, <2>2, <3>2, <3>3, RemoveKeeps
    <3>5. t \in Signallers(x)'
      BY <1>4, <3>4 DEF Signallers
    <3> QED BY <3>5
  <2> QED BY <2>3, <2>4
<1> QED BY <1>6, <1>7 DEF SendersRest, MarkedSignalled

\* The marks of a mailbox go over to the copy, which was empty.
LEMMA SenderSwapped ==
  ASSUME RestTypes, KeepsAim, SendersRest, NEW t \in Thread, ExitSwap(t)
  PROVE  SendersRest'
<1>1. /\ pc[t] = "exit_swap" /\ pc' = [pc EXCEPT ![t] = "exit_drain"]
      /\ drain' = [drain EXCEPT ![t] = msgq[t]]
      /\ msgq' = [msgq EXCEPT ![t] = <<>>] /\ peer' = peer
  BY DEF ExitSwap, Goto
<1>2. drain[t] = <<>> /\ MarkedBy(drain[t]) = {}
  BY <1>1, NoMarks DEF SendersRest, CopyEmpty, Drained
<1>3. /\ drain'[t] = msgq[t] /\ pc'[t] = "exit_drain"
      /\ \A x \in Thread \ {t} : /\ drain'[x] = drain[x] /\ msgq'[x] = msgq[x]
                                 /\ pc'[x] = pc[x]
  BY <1>1 DEF RestTypes
<1>4. CopyEmpty'
  BY <1>3 DEF SendersRest, CopyEmpty, Drained
<1>5. ASSUME NEW x \in Thread, pc'[x] = "send_blocked",
             x \notin MarkedBy(msgq'[peer'[x]]) \cup MarkedBy(drain'[peer'[x]])
      PROVE  Signallers(x)' # {}
  <2>1. pc[x] = "send_blocked" /\ peer'[x] = peer[x] /\ peer[x] \in Thread
    BY <1>1, <1>3, <1>5 DEF RestTypes
  <2>2. x \notin MarkedBy(msgq[peer[x]]) \cup MarkedBy(drain[peer[x]])
    BY <1>2, <1>3, <1>5, <2>1
  <2>3. Signallers(x) # {}
    BY <2>1, <2>2 DEF SendersRest, MarkedSignalled
  <2> QED BY <1>5, <2>3, StillSignalled
<1> QED BY <1>4, <1>5 DEF SendersRest, MarkedSignalled

\* Who drops a message that marks its sender is about to signal it.
LEMMA SenderDropped ==
  ASSUME TypeOK, RestTypes, KeepsAim, SendersRest, NEW t \in Thread, ExitDrain(t)
  PROVE  SendersRest'
<1>1. PICK e \in Entry :
        /\ drain[t] # <<>> /\ e = Head(drain[t])
        /\ drain' = [drain EXCEPT ![t] = Tail(@)]
        /\ \/ /\ e.susp
              /\ peer' = [peer EXCEPT ![t] = e.mitt]
              /\ Goto(t, "exit_drain_signal")
           \/ ~e.susp /\ UNCHANGED <<peer, pc>>
  BY ExitDrainMessage, Zenon
<1>2. pc[t] = "exit_drain" /\ msgq' = msgq
  BY DEF ExitDrain
<1>3. \A x \in Thread \ {t} : pc'[x] = pc[x] /\ peer'[x] = peer[x]
  BY <1>1 DEF RestTypes, Goto
<1>4. \/ ~e.susp /\ pc'[t] = "exit_drain"
      \/ pc'[t] = "exit_drain_signal" /\ peer'[t] = e.mitt
  BY <1>1, <1>2 DEF RestTypes, Goto
<1>5. /\ drain'[t] = Tail(drain[t])
      /\ \A d \in Thread \ {t} : drain'[d] = drain[d]
  BY <1>1 DEF RestTypes
<1>6. CopyEmpty'
  BY <1>3, <1>4, <1>5 DEF SendersRest, CopyEmpty, Drained
<1>7. ASSUME NEW x \in Thread, pc'[x] = "send_blocked",
             x \notin MarkedBy(msgq'[peer'[x]]) \cup MarkedBy(drain'[peer'[x]])
      PROVE  Signallers(x)' # {}
  <2>1. x # t
    BY <1>4, <1>7
  <2>2. pc[x] = "send_blocked" /\ peer'[x] = peer[x] /\ peer[x] \in Thread
    BY <1>3, <1>7, <2>1 DEF RestTypes
  <2>3. CASE Signallers(x) # {}
    BY <1>7, <2>3, StillSignalled
  <2>4. CASE Signallers(x) = {}
    <3>1. x \in MarkedBy(msgq[peer[x]]) \cup MarkedBy(drain[peer[x]])
      BY <2>2, <2>4 DEF SendersRest, MarkedSignalled
    <3>2. peer[x] = t /\ x \in MarkedBy(drain[t])
      BY <1>2, <1>5, <1>7, <2>2, <3>1
    <3>3. drain[t] \in Seq(Entry) /\ drain[t] # <<>>
      BY <1>1 DEF RestTypes
    <3>4. e.susp /\ x = e.mitt
      BY <1>1, <1>5, <1>7, <2>2, <3>2, <3>3, TailKeeps
    <3>5. t \in Signallers(x)'
      BY <1>4, <3>4 DEF Signallers
    <3> QED BY <3>5
  <2> QED BY <2>3, <2>4
<1> QED BY <1>6, <1>7 DEF SendersRest, MarkedSignalled

-----------------------------------------------------------------------------
(* The protocol *)

LEMMA RestInit == Init => RestInv
<1> SUFFICES ASSUME Init PROVE RestInv
  OBVIOUS
<1>1. /\ pc = [t \in Thread |-> IF t = Main THEN "run" ELSE "none"]
      /\ mitt = [t \in Thread |-> {}] /\ drain = [t \in Thread |-> <<>>]
  BY DEF Init, InitBut
<1>2. \A t \in Thread : pc[t] \in {"run", "none"} /\ mitt[t] = {} /\ drain[t] = <<>>
  BY <1>1
<1> QED
  BY <1>2 DEF RestInv, ServedSignalled, AwaitingReceives, AwaitedComes, CopyEmpty,
     MarkedSignalled

LEMMA RestStep ==
  ASSUME TypeOK, LockInv, WakeInv, RegInv, RestInv,
         NEW t \in Thread, Program(t) \/ Runtime(t)
  PROVE  RestInv'
<1>0. /\ RestTypes /\ ReceiversRest /\ SendersRest /\ AwaitingReceives
      /\ CreationOwned /\ StatoAgrees /\ SlotAgrees /\ SignalsAgree
  BY TypesGiveRestTypes DEF RestInv, ReceiversRest, SendersRest, LockInv, WakeInv
<1>1. KeepsAim
  BY <1>0, AimProgram, AimCreating, AimSending, AimReceiving, AimExiting DEF Runtime
<1>2. ReceiversRest'
  <2>1. CASE Program(t)
    BY <1>0, <1>1, <2>1, FrameProgram, ReceiverKept
  <2>2. CASE Creating(t)
    BY <1>0, <1>1, <2>2, FrameCreating, ReceiverKept
  <2>3. CASE Sending(t)
    BY <1>0, <1>1, <2>3, FrameSending, ReceiverKept, ReceiverServed
  <2>4. CASE Receiving(t)
    BY <1>0, <1>1, <2>4, FrameReceiving, ReceiverKept, ReceiverBuilds, ReceiverWaits,
       ReceiverWakes
  <2>5. CASE Exiting(t)
    BY <1>0, <1>1, <2>5, FrameExiting, ReceiverKept, ReceiverVisited
  <2> QED BY <2>1, <2>2, <2>3, <2>4, <2>5 DEF Runtime
<1>3. SendersRest'
  <2>1. CASE Program(t)
    BY <1>0, <1>1, <2>1, SendersProgram, SenderKept
  <2>2. CASE Creating(t)
    BY <1>0, <1>1, <2>2, SendersCreating, SenderKept
  <2>3. CASE Sending(t)
    BY <1>0, <1>1, <2>3, SendersSending, SenderKept, SenderSuspended
  <2>4. CASE Receiving(t)
    BY <1>0, <1>1, <2>4, SendersReceiving, SenderKept, SenderTaken
  <2>5. CASE Exiting(t)
    BY <1>0, <1>1, <2>5, SendersExiting, SenderKept, SenderSwapped, SenderDropped
  <2> QED BY <2>1, <2>2, <2>3, <2>4, <2>5 DEF Runtime
<1> QED BY <1>2, <1>3 DEF RestInv, ReceiversRest, SendersRest

\* A wait gets its signal, and a signal finds its wait: the invariant of the wake-up
\* protocol, next to the queue of threads whose walk it rests on.
LEMMA SleepersCorrect ==
  ASSUME ~Spurious PROVE Spec => [](TypeOK /\ RegInv /\ SleepInv)
<1>1. TypeOK /\ LockInv /\ WakeInv /\ RegInv /\ RestInv /\ [Next]_vars => RestInv'
  <2> SUFFICES ASSUME TypeOK, LockInv, WakeInv, RegInv, RestInv, [Next]_vars
               PROVE  RestInv'
    OBVIOUS
  <2>1. CASE Next
    <3>1. PICK t \in Thread : Program(t) \/ Runtime(t)
      BY <2>1 DEF Next, SpuriousWakeup
    <3> QED BY <3>1, RestStep
  <2>2. CASE UNCHANGED vars
    <3>1. UNCHANGED <<msgq, mitt, slot, pc, peer, todo, drain>>
      BY <2>2 DEF vars, fields, locals
    <3>2. \A t \in Thread : Signallers(t)' = Signallers(t)
      BY <3>1 DEF Signallers
    <3>3. \A s, t \in Thread : HasPassed(s, t)' = HasPassed(s, t)
      BY <3>1 DEF HasPassed, HoldsQ
    <3>4. ServedSignalled' /\ AwaitingReceives' /\ CopyEmpty' /\ MarkedSignalled'
      BY <3>1, <3>2 DEF RestInv, ServedSignalled, AwaitingReceives, CopyEmpty,
         MarkedSignalled
    <3>5. AwaitedComes'
      BY <3>1, <3>3 DEF RestInv, AwaitedComes, TypeOK
    <3> QED BY <3>4, <3>5 DEF RestInv
  <2> QED BY <2>1, <2>2
<1>2. WakeInv /\ RestInv => SleepInv
  BY DEF SleepInv
<1> QED BY <1>1, <1>2, RestInit, WakeProtocol, RegistryInvariant, PTL DEF Spec

\* A mailbox whose senders are marked once holds one message of a marked sender.
LEMMA CountMarks ==
  ASSUME NEW q, NEW t, MarkedOnce(q)
  PROVE  Cardinality(Suspended(t, q)) = IF t \in MarkedBy(q) THEN 1 ELSE 0
<1>1. CASE t \in MarkedBy(q)
  <2>1. PICK i \in Marks(q) : q[i].mitt = t
    BY <1>1 DEF MarkedBy
  <2>2. Suspended(t, q) = {i}
    BY <2>1 DEF Suspended, Marks, MarkedOnce
  <2>3. Cardinality({i}) = 1
    BY FS_Singleton, Zenon
  <2> QED BY <1>1, <2>2, <2>3
<1>2. CASE t \notin MarkedBy(q)
  <2>1. Suspended(t, q) = {}
    BY <1>2 DEF Suspended, Marks, MarkedBy
  <2> QED BY <1>2, <2>1, FS_EmptySet
<1> QED BY <1>1, <1>2

\* Nobody sleeps on when what it waits for has come or can no longer come: no
\* wake-up of a receive, a send or a termination is lost, for any number of threads.
THEOREM NoWakeupLost == ASSUME ~Spurious PROVE Spec => []NobodyForgotten
<1>1. TypeOK /\ SleepInv => ReceiverNotForgotten
  <2> SUFFICES ASSUME TypeOK, SleepInv, NEW t \in Thread,
                      pc[t] = "recv_blocked", Signallers(t) = {}
               PROVE  slot[t] = Null /\ mitt[t] # {} /\ \A s \in mitt[t] : ~HasPassed(s, t)
    BY DEF ReceiverNotForgotten
  <2>1. slot[t] = Null /\ mitt[t] # {}
    BY DEF SleepInv, RestInv, ServedSignalled
  <2> QED BY <2>1 DEF SleepInv, RestInv, AwaitedComes
<1>2. TypeOK /\ RegInv /\ SleepInv /\ OneSignalPerWait => SenderNotForgotten
  <2> SUFFICES ASSUME TypeOK, RegInv, SleepInv, OneSignalPerWait, NEW t \in Thread
               PROVE  LET marks(d) == Cardinality(Suspended(t, msgq[d]))
                                        + Cardinality(Suspended(t, drain[d]))
                      IN  /\ \A d \in Thread :
                               marks(d) > 0 => pc[t] = "send_blocked" /\ peer[t] = d
                          /\ pc[t] = "send_blocked" =>
                               marks(peer[t]) + Cardinality(Signallers(t)) = 1
    BY Zenon DEF SenderNotForgotten
  <2> DEFINE marks(d) == Cardinality(Suspended(t, msgq[d]))
                           + Cardinality(Suspended(t, drain[d]))
  <2>1. MarksAgree /\ SignalsAgree /\ MarkedSignalled
    BY DEF SleepInv, WakeInv, RestInv
  <2>2. \A d \in Thread :
          marks(d) = IF t \in MarkedBy(msgq[d]) \cup MarkedBy(drain[d]) THEN 1 ELSE 0
    BY <2>1, CountMarks DEF MarksAgree
  <2> HIDE DEF marks
  <2>3. ASSUME NEW d \in Thread, marks(d) > 0
        PROVE  pc[t] = "send_blocked" /\ peer[t] = d
    BY <2>1, <2>2, <2>3 DEF MarksAgree
  <2>4. ASSUME pc[t] = "send_blocked"
        PROVE  marks(peer[t]) + Cardinality(Signallers(t)) = 1
    <3>1. peer[t] \in Thread
      BY DEF TypeOK
    <3>2. CASE Signallers(t) = {}
      <4>1. marks(peer[t]) = 1
        BY <2>1, <2>2, <2>4, <3>1, <3>2 DEF MarkedSignalled
      <4>2. Cardinality(Signallers(t)) = 0
        BY <3>2, FS_EmptySet
      <4> QED BY <4>1, <4>2
    <3>3. CASE Signallers(t) # {}
      <4>1. PICK x \in Thread : pc[x] \in Signalling /\ peer[x] = t
        BY <3>3 DEF Signallers, Signalling
      <4>2. marks(peer[t]) = 0
        BY <2>1, <2>2, <2>4, <3>1, <4>1 DEF SignalsAgree, SignalAgrees, Signalling
      <4>3. Signallers(t) \in SUBSET Alive
        BY DEF Signallers, Alive
      <4>4. IsFiniteSet(Signallers(t)) /\ Cardinality(Signallers(t)) \in Nat
        BY <4>3, FS_Subset, FS_CardinalityType DEF RegInv
      <4>5. Cardinality(Signallers(t)) # 0
        BY <3>3, <4>4, FS_EmptySet
      <4>6. Cardinality(Signallers(t)) <= 1
        BY DEF OneSignalPerWait
      <4> QED BY <4>2, <4>4, <4>5, <4>6
    <3> QED BY <3>2, <3>3
  <2> QED BY <2>3, <2>4 DEF marks
<1>3. ReceiverNotForgotten /\ SenderNotForgotten => NobodyForgotten
  BY DEF NobodyForgotten
<1> QED BY <1>1, <1>2, <1>3, SleepersCorrect, SignalsMeetWaits, PTL
=============================================================================
