------------------------- MODULE TrpThreadMailProofs -------------------------
(***************************************************************************)
(* What becomes of messages in TrpThread, for any number of threads: none  *)
(* is lost, doubled or overtaken on its way to a destination that goes on, *)
(* whatever waits return without a signal; and as long as none does, what  *)
(* a blocking send returns is true, and the threads implement the          *)
(* mailboxes of TrpMailbox.                                                *)
(***************************************************************************)
EXTENDS TrpThreadWakeProofs, TrpThreadRefinement

-----------------------------------------------------------------------------
(* Numbers in mailboxes *)

\* A message put at the end adds its number; the order stays if that is the greatest
\* of its sender.
LEMMA AppendNumbers ==
  ASSUME NEW q \in Seq(Entry), NEW e \in Entry, NEW s, InOrder(q, s),
         e.mitt = s => \A n \in Numbers(q, s) : n < e.n
  PROVE  /\ Numbers(Append(q, e), s) =
              Numbers(q, s) \cup (IF e.mitt = s THEN {e.n} ELSE {})
         /\ InOrder(Append(q, e), s)
<1> DEFINE r == Append(q, e)
           l == Len(q) + 1
<1>1. /\ Len(q) \in Nat /\ DOMAIN q = 1 .. Len(q)
      /\ DOMAIN r = 1 .. l /\ r[l] = e
      /\ \A i \in 1 .. Len(q) : r[i] = q[i]
  BY AppendProperties, LenProperties
<1> HIDE DEF r
<1>2. Matches({s}, r) = Matches({s}, q) \cup (IF e.mitt = s THEN {l} ELSE {})
  BY <1>1 DEF Matches
<1>3. \A i \in Matches({s}, q) : i \in 1 .. Len(q) /\ r[i] = q[i]
  BY <1>1 DEF Matches
<1>4. Numbers(r, s) = Numbers(q, s) \cup (IF e.mitt = s THEN {e.n} ELSE {})
  BY <1>1, <1>2, <1>3 DEF Numbers
<1>5. ASSUME NEW i \in Matches({s}, r), NEW j \in Matches({s}, r), i < j
      PROVE  r[i].n < r[j].n
  <2>0. i \in 1 .. l /\ j \in 1 .. l
    BY <1>1 DEF Matches
  <2>1. i \in Matches({s}, q)
    <3>1. i # l
      BY <1>1, <1>5, <2>0
    <3> QED BY <1>2, <3>1
  <2>2. CASE j \in Matches({s}, q)
    BY <1>3, <1>5, <2>1, <2>2 DEF InOrder
  <2>3. CASE j = l /\ e.mitt = s
    <3>1. q[i].n \in Numbers(q, s)
      BY <2>1 DEF Numbers
    <3> QED BY <1>1, <1>3, <2>1, <2>3, <3>1
  <2> QED BY <1>2, <1>5, <2>2, <2>3
<1> QED BY <1>4, <1>5 DEF InOrder, r

\* Taking a message out leaves the others, in their order.
LEMMA RemoveMoves ==
  ASSUME NEW q \in Seq(Entry), NEW k \in DOMAIN q, NEW r, r = RemoveAt(q, k)
  PROVE  /\ \A i, j \in DOMAIN r : i < j =>
              \E u, v \in DOMAIN q \ {k} : u < v /\ r[i] = q[u] /\ r[j] = q[v]
         /\ \A i \in DOMAIN r : \E u \in DOMAIN q \ {k} : r[i] = q[u]
         /\ \A u \in DOMAIN q \ {k} : \E i \in DOMAIN r : r[i] = q[u]
<1> DEFINE up(i) == IF i < k THEN i ELSE i + 1
           from(u) == IF u < k THEN u ELSE u - 1
<1>1. /\ k \in 1 .. Len(q) /\ Len(q) \in Nat /\ DOMAIN q = 1 .. Len(q)
      /\ r \in Seq(Entry) /\ Len(r) = Len(q) - 1
      /\ \A i \in 1 .. Len(q) - 1 : r[i] = q[up(i)]
  BY RemoveAtElements, LenProperties
<1>2. DOMAIN r = 1 .. Len(q) - 1
  BY <1>1, LenProperties
<1>3. \A i \in DOMAIN r : up(i) \in DOMAIN q \ {k} /\ r[i] = q[up(i)]
  BY <1>1, <1>2
<1>4. \A i, j \in DOMAIN r : i < j => up(i) < up(j)
  BY <1>1, <1>2
<1>5. \A u \in DOMAIN q \ {k} : from(u) \in DOMAIN r /\ up(from(u)) = u
  BY <1>1, <1>2
<1> QED BY <1>3, <1>4, <1>5

\* ... and so their numbers.
LEMMA RemoveNumbers ==
  ASSUME NEW q \in Seq(Entry), NEW k \in DOMAIN q, NEW s, InOrder(q, s)
  PROVE  /\ InOrder(RemoveAt(q, k), s)
         /\ q[k].mitt # s => Numbers(RemoveAt(q, k), s) = Numbers(q, s)
         /\ q[k].mitt = s => Numbers(RemoveAt(q, k), s) = Numbers(q, s) \ {q[k].n}
<1> DEFINE r == RemoveAt(q, k)
<1>0. /\ \A i, j \in DOMAIN r : i < j =>
           \E u, v \in DOMAIN q \ {k} : u < v /\ r[i] = q[u] /\ r[j] = q[v]
      /\ \A i \in DOMAIN r : \E u \in DOMAIN q \ {k} : r[i] = q[u]
      /\ \A u \in DOMAIN q \ {k} : \E i \in DOMAIN r : r[i] = q[u]
  BY RemoveMoves
<1> HIDE DEF r
<1>1. InOrder(r, s)
  <2> SUFFICES ASSUME NEW i \in Matches({s}, r), NEW j \in Matches({s}, r), i < j
               PROVE  r[i].n < r[j].n
    BY DEF InOrder
  <2>1. PICK u \in DOMAIN q \ {k}, v \in DOMAIN q \ {k} :
          u < v /\ r[i] = q[u] /\ r[j] = q[v]
    BY <1>0 DEF Matches
  <2> QED BY <2>1 DEF InOrder, Matches
<1>2. Numbers(r, s) = {q[u].n : u \in Matches({s}, q) \ {k}}
  <2>1. \A i \in Matches({s}, r) : \E u \in Matches({s}, q) \ {k} : r[i].n = q[u].n
    BY <1>0 DEF Matches
  <2>2. \A u \in Matches({s}, q) \ {k} : \E i \in Matches({s}, r) : r[i].n = q[u].n
    BY <1>0 DEF Matches
  <2>3. ASSUME NEW n \in Numbers(r, s)
        PROVE  n \in {q[u].n : u \in Matches({s}, q) \ {k}}
    <3>1. PICK i \in Matches({s}, r) : n = r[i].n
      BY DEF Numbers
    <3> QED BY <2>1, <3>1
  <2>4. ASSUME NEW u \in Matches({s}, q) \ {k}
        PROVE  q[u].n \in Numbers(r, s)
    <3>1. PICK i \in Matches({s}, r) : r[i].n = q[u].n
      BY <2>2
    <3> QED BY <3>1 DEF Numbers
  <2> QED BY <2>3, <2>4
<1>3. ASSUME q[k].mitt # s
      PROVE  Numbers(r, s) = Numbers(q, s)
  <2>1. Matches({s}, q) \ {k} = Matches({s}, q)
    BY <1>3 DEF Matches
  <2> QED BY <1>2, <2>1 DEF Numbers
<1>4. ASSUME q[k].mitt = s
      PROVE  Numbers(r, s) = Numbers(q, s) \ {q[k].n}
  <2>1. k \in Matches({s}, q) /\ Matches({s}, q) \subseteq Nat
    BY <1>4, LenProperties DEF Matches
  <2>2. \A u \in Matches({s}, q) : q[u].n \in Nat
    <3>1. \A u \in DOMAIN q : q[u] \in Entry
      BY LenProperties, ElementOfSeq
    <3> QED BY <3>1 DEF Matches, Entry
  <2>3. \A u \in Matches({s}, q) \ {k} : q[u].n # q[k].n
    <3> SUFFICES ASSUME NEW u \in Matches({s}, q) \ {k} PROVE q[u].n # q[k].n
      OBVIOUS
    <3>1. u < k \/ k < u
      BY <2>1
    <3>2. q[u].n < q[k].n \/ q[k].n < q[u].n
      BY <2>1, <3>1, Zenon DEF InOrder
    <3>3. q[u].n \in Nat /\ q[k].n \in Nat
      BY <2>1, <2>2, Zenon
    <3> QED BY <3>2, <3>3
  <2> QED BY <1>2, <2>1, <2>3 DEF Numbers
<1> QED BY <1>1, <1>3, <1>4 DEF r

\* The first message of a sender has its least number.
LEMMA FirstLeast ==
  ASSUME NEW q \in Seq(Entry), NEW k \in DOMAIN q, NEW s, InOrder(q, s),
         q[k].mitt = s, \A j \in Matches({s}, q) : k <= j
  PROVE  /\ q[k].n \in Numbers(q, s)
         /\ \A n \in Numbers(q, s) : q[k].n <= n
<1>1. k \in Matches({s}, q) /\ Matches({s}, q) \subseteq Nat
  BY LenProperties DEF Matches
<1>2. \A u \in Matches({s}, q) : q[u].n \in Nat
  <2>1. \A u \in DOMAIN q : q[u] \in Entry
    BY LenProperties, ElementOfSeq
  <2> QED BY <2>1 DEF Matches, Entry
<1>3. ASSUME NEW j \in Matches({s}, q)
      PROVE  q[k].n <= q[j].n
  <2>1. j = k \/ k < j
    <3>1. k \in Nat /\ j \in Nat /\ k <= j
      BY <1>1
    <3> QED BY <3>1
  <2>2. j = k \/ q[k].n < q[j].n
    BY <1>1, <2>1, Zenon DEF InOrder
  <2>3. q[k].n \in Nat /\ q[j].n \in Nat
    BY <1>1, <1>2, Zenon
  <2> QED BY <2>2, <2>3
<1> QED BY <1>1, <1>3 DEF Numbers

-----------------------------------------------------------------------------
(* The way of a message *)

MailTypes ==
  /\ stato \in [Thread -> Stato]
  /\ msgq \in [Thread -> Seq(Entry)]
  /\ mitt \in [Thread -> SUBSET Thread]
  /\ slot \in [Thread -> Msg \cup {Null}]
  /\ pc \in [Thread -> Control]
  /\ peer \in [Thread -> Thread]
  /\ todo \in [Thread -> SUBSET Thread]
  /\ accepted \in [Thread -> [Thread -> Nat]]
  /\ received \in [Thread -> [Thread -> Nat]]

\* They are part of the type invariant.
LEMMA TypesGiveMailTypes == TypeOK => MailTypes
BY DEF TypeOK, MailTypes

\* Steps that move no message, start no wait and queue nobody.
MailUntouched ==
  /\ UNCHANGED <<msgq, slot, accepted, received>>
  /\ \A x \in Thread :
       /\ mitt'[x] \subseteq mitt[x]
       /\ stato'[x] = "WAITING_ON_RECEIVE" => stato[x] = "WAITING_ON_RECEIVE"
       /\ pc'[x] = "recv_build" => pc[x] = "recv_build" /\ todo'[x] \subseteq todo[x]
       /\ pc[x] \in RecvWaits => pc'[x] \in RecvWaits
       /\ pc[x] = "recv_build" => pc'[x] = "recv_build" \/ mitt'[x] = {}
       /\ pc'[x] \notin Drained => pc[x] \notin Drained

\* Such steps keep the invariant.
LEMMA MailStays ==
  ASSUME MailInv, MailUntouched
  PROVE  MailInv'
<1>1. PathsAgree'
  BY DEF MailInv, MailUntouched, PathsAgree, Matches, RecvWaits
<1>2. NotAhead'
  BY DEF MailInv, MailUntouched, NotAhead
<1>3. \A s, d \in Thread : Direct(s, d)' = Direct(s, d)
  BY DEF MailUntouched, Direct
<1>4. NothingLost'
  BY <1>3 DEF MailInv, MailUntouched, NothingLost
<1> QED BY <1>1, <1>2, <1>4 DEF MailInv

\* Starting an operation is one, ...
LEMMA KeptProgram ==
  ASSUME MailTypes, PathsAgree, NEW t \in Thread, Program(t)
  PROVE  MailUntouched
<1> USE DEF MailTypes, MailUntouched, RecvWaits, Drained, Goto, fields, locals, history
<1>1. CASE \E c \in Thread : Create(t, c)
  <2>1. PICK c \in Thread : Create(t, c)
    BY <1>1
  <2> QED BY <2>1 DEF Create, CreateInternal
<1>2. CASE Register(t)
  BY <1>2 DEF Register, CreateInternal
<1>3. CASE \E d \in Thread : SendCall(t, d)
  <2>1. PICK d \in Thread : SendCall(t, d)
    BY <1>3
  <2> QED BY <2>1 DEF SendCall, Call
<1>4. CASE \E S \in SUBSET Thread, nb \in BOOLEAN : ReceiveCall(t, S, nb)
  <2>1. PICK S \in SUBSET Thread, nb \in BOOLEAN : ReceiveCall(t, S, nb)
    BY <1>4
  <2> QED BY <2>1 DEF ReceiveCall, Call
<1>5. CASE \E args \in Cases : CaseCall(t, args)
  BY <1>5 DEF CaseCall, Call
<1>6. CASE ExitCall(t)
  BY <1>6 DEF ExitCall
<1> QED
  BY <1>1, <1>2, <1>3, <1>4, <1>5, <1>6 DEF Program

\* ... every step of a creation, ...
LEMMA KeptCreating ==
  ASSUME MailTypes, CreationOwned, NEW t \in Thread, Creating(t)
  PROVE  MailUntouched
<1> USE DEF MailTypes, MailUntouched, RecvWaits, Drained, Goto, Return, fields, locals, history,
            CreationOwned, Creating_pc
<1>1. CASE PthreadCreate(t)
  BY <1>1 DEF PthreadCreate
<1>2. CASE PthreadCreateFails(t)
  BY <1>2 DEF PthreadCreateFails
<1>3. CASE CreateUndo(t)
  BY <1>3 DEF CreateUndo
<1>4. CASE CreateMax(t)
  BY <1>4 DEF CreateMax
<1>5. CASE StartRoutine(t)
  BY <1>5 DEF StartRoutine
<1> QED
  BY <1>1, <1>2, <1>3, <1>4, <1>5 DEF Creating

\* ... of a send but the two that deliver, ...
LEMMA KeptSending ==
  ASSUME MailTypes, NEW t \in Thread, Sending(t), ~SendDirect(t),
         \A b \in Bsize : ~SendQueue(t, b)
  PROVE  MailUntouched
<1> USE DEF MailTypes, MailUntouched, RecvWaits, Drained, Goto, Return, SignalPeer, Woken,
            fields, locals, history
<1>1. CASE SendLock(t)
  BY <1>1 DEF SendLock
<1>2. CASE \E nb \in BOOLEAN : SendRefuse(t, nb)
  BY <1>2 DEF SendRefuse
<1>3. CASE SendSignal(t)
  BY <1>3 DEF SendSignal
<1>4. CASE SendWoken(t)
  BY <1>4 DEF SendWoken
<1>5. CASE SendRet(t)
  BY <1>5 DEF SendRet
<1> QED
  BY <1>1, <1>2, <1>3, <1>4, <1>5 DEF Sending

\* ... of a receive that neither takes a message nor waits, ...
LEMMA KeptReceiving ==
  ASSUME MailTypes, NEW t \in Thread,
         \/ RecvLock(t) \/ RecvDefault(t) \/ RecvSignal(t) \/ RecvNobody(t)
  PROVE  MailUntouched
<1> USE DEF MailTypes, MailUntouched, RecvWaits, Drained, Goto, Return, SignalPeer, Woken,
            fields, locals, history
<1>1. CASE RecvLock(t)
  BY <1>1 DEF RecvLock
<1>2. CASE RecvDefault(t)
  BY <1>2 DEF RecvDefault
<1>3. CASE RecvSignal(t)
  BY <1>3 DEF RecvSignal
<1>4. CASE RecvNobody(t)
  BY <1>4 DEF RecvNobody
<1> QED BY <1>1, <1>2, <1>3, <1>4

\* ... of a termination but the emptying of the mailbox, ...
LEMMA KeptExiting ==
  ASSUME MailTypes, NEW t \in Thread, Exiting(t), ~ExitSwap(t)
  PROVE  MailUntouched
<1> USE DEF MailTypes, MailUntouched, RecvWaits, Drained, Goto, SignalPeer, Woken, fields,
            locals, history
<1>1. CASE ExitLock(t)
  BY <1>1 DEF ExitLock
<1>2. CASE ExitDrain(t)
  BY <1>2 DEF ExitDrain, StatoAfterDrain
<1>3. CASE ExitDrainSignal(t)
  BY <1>3 DEF ExitDrainSignal
<1>4. CASE ExitDrained(t)
  BY <1>4 DEF ExitDrained
<1>5. CASE ExitQLock(t)
  BY <1>5 DEF ExitQLock
<1>6. CASE ExitSelf(t)
  BY <1>6 DEF ExitSelf
<1>7. CASE \E x \in Thread : ExitVisit(t, x)
  <2>1. PICK x \in Thread : ExitVisit(t, x)
    BY <1>7
  <2> QED BY <2>1 DEF ExitVisit
<1>8. CASE ExitRemove(t)
  BY <1>8 DEF ExitRemove
<1>9. CASE ExitWake(t)
  BY <1>9 DEF ExitWake
<1>10. CASE ExitDone(t)
  BY <1>10 DEF ExitDone
<1> QED
  BY <1>1, <1>2, <1>3, <1>4, <1>5, <1>6, <1>7, <1>8, <1>9, <1>10 DEF Exiting

\* ... and a wait that ends without a signal.
LEMMA KeptSpurious ==
  ASSUME MailTypes, NEW t \in Thread, SpuriousWakeup(t)
  PROVE  MailUntouched
BY DEF MailTypes, MailUntouched, RecvWaits, Drained, SpuriousWakeup, Woken, fields, locals,
   history

-----------------------------------------------------------------------------
(* Steps that move a message or begin a wait *)

\* One sender, one destination: what NothingLost says of them.
Whole(s, d) ==
  /\ Direct(s, d) \cup Numbers(msgq[d], s) = received[d][s] + 1 .. accepted[s][d]
  /\ InOrder(msgq[d], s)
  /\ \A n \in Direct(s, d), k \in Numbers(msgq[d], s) : n < k

\* It stays where nothing changes.
LEMMA WholeUntouched ==
  ASSUME NothingLost, NEW s \in Thread, NEW d \in Thread, pc[d] \notin Drained,
         slot'[d] = slot[d], msgq'[d] = msgq[d],
         accepted'[s][d] = accepted[s][d], received'[d][s] = received[d][s]
  PROVE  Whole(s, d)'
BY DEF NothingLost, Whole, Direct

\* A message is handed over only if nothing of its sender is left to take before it.
LEMMA SendDirectMail ==
  ASSUME MailTypes, MailInv, NEW t \in Thread, SendDirect(t)
  PROVE  MailInv'
<1> DEFINE d == peer[t]
           n == accepted[t][d] + 1
           m == [mitt |-> t, n |-> n]
<1>1. d \in Thread /\ n \in Nat
  BY DEF MailTypes
<1>2. /\ stato[d] = "WAITING_ON_RECEIVE" /\ slot[d] = Null /\ t \in mitt[d]
      /\ UNCHANGED <<stato, msgq, mitt, todo, received>>
      /\ pc[t] = "send" /\ pc'[t] = "send_signal"
      /\ \A x \in Thread \ {t} : pc'[x] = pc[x]
      /\ slot'[d] = m
      /\ \A x \in Thread \ {d} : slot'[x] = slot[x]
      /\ accepted'[t][d] = n
      /\ \A s, x \in Thread : s # t \/ x # d => accepted'[s][x] = accepted[s][x]
  BY <1>1 DEF SendDirect, Expected, Next_n, Accept, Goto, locals, MailTypes
<1>3. m.mitt = t /\ m.n = n /\ m # Null
  <2>1. m \in Msg
    BY <1>1, Zenon DEF Msg
  <2> QED BY <2>1, NullAssumption
<1> HIDE DEF d, n, m
<1>4. pc[d] \in RecvWaits /\ d # t /\ pc[d] \notin Drained
  BY <1>1, <1>2 DEF MailInv, PathsAgree, RecvWaits, Drained
<1>5. PathsAgree'
  <2> SUFFICES ASSUME NEW x \in Thread
               PROVE  /\ stato'[x] = "WAITING_ON_RECEIVE" => pc'[x] \in RecvWaits
                      /\ slot'[x] # Null => pc'[x] \in RecvWaits
                      /\ mitt'[x] # {} => pc'[x] \in RecvWaits \cup {"recv_build"}
                      /\ pc'[x] = "recv_build" => Matches(mitt'[x] \cup todo'[x], msgq'[x]) = {}
                      /\ stato'[x] = "WAITING_ON_RECEIVE" /\ slot'[x] = Null =>
                           Matches(mitt'[x], msgq'[x]) = {}
    BY DEF PathsAgree
  <2>1. CASE x = d
    BY <1>1, <1>2, <1>3, <1>4, <2>1 DEF MailInv, PathsAgree, RecvWaits
  <2>2. CASE x = t
    BY <1>1, <1>2, <1>4, <2>2 DEF MailInv, PathsAgree, RecvWaits
  <2>3. CASE x # d /\ x # t
    BY <1>1, <1>2, <2>3 DEF MailInv, PathsAgree, RecvWaits
  <2> QED BY <2>1, <2>2, <2>3
<1>6. \A x \in Thread : pc'[x] \notin Drained => pc[x] \notin Drained
  BY <1>2 DEF Drained
<1>7. NotAhead'
  <2> SUFFICES ASSUME NEW s \in Thread, NEW x \in Thread, pc'[x] \notin Drained
               PROVE  received'[x][s] <= accepted'[s][x]
    BY DEF NotAhead
  <2>1. received[x][s] <= accepted[s][x] /\ received[x][s] \in Nat /\ accepted[s][x] \in Nat
    BY <1>6 DEF MailInv, NotAhead, MailTypes
  <2>2. accepted'[s][x] = accepted[s][x] \/ accepted'[s][x] = accepted[s][x] + 1
    BY <1>2, <1>3 DEF d, n
  <2>3. received'[x][s] = received[x][s]
    BY <1>2
  <2> QED BY <2>1, <2>2, <2>3
<1>8. ASSUME NEW s \in Thread, NEW x \in Thread, pc'[x] \notin Drained
      PROVE  Whole(s, x)'
  <2>1. CASE x # d
    BY <1>2, <1>6, <1>8, <2>1, WholeUntouched DEF MailInv
  <2>2. CASE x = d /\ s # t
    <3>1. Direct(s, d) = {} /\ Direct(s, x)' = {}
      BY <1>2, <1>3, <2>2 DEF Direct
    <3>2. accepted'[s][d] = accepted[s][d]
      BY <1>1, <1>2, <2>2
    <3>3. Whole(s, d)
      BY <1>1, <1>4 DEF MailInv, NothingLost, Whole
    <3> QED BY <1>2, <2>2, <3>1, <3>2, <3>3 DEF Whole
  <2>3. CASE x = d /\ s = t
    <3>1. Direct(t, d) = {} /\ Direct(s, x)' = {n}
      BY <1>2, <1>3, <2>3 DEF Direct
    <3>2. Matches({t}, msgq[d]) = {}
      BY <1>1, <1>2 DEF MailInv, PathsAgree, Matches
    <3>3. Numbers(msgq[d], t) = {} /\ InOrder(msgq[d], t)
      BY <3>2 DEF Numbers, InOrder
    <3>4. {} = received[d][t] + 1 .. accepted[t][d]
      BY <1>1, <1>4, <3>1, <3>3 DEF MailInv, NothingLost
    <3>5. received[d][t] \in Nat /\ accepted[t][d] \in Nat /\ n = accepted[t][d] + 1
      BY <1>1 DEF MailTypes, n, d
    <3>6. received[d][t] <= accepted[t][d]
      BY <1>1, <1>4 DEF MailInv, NotAhead
    <3>7. {n} = received[d][t] + 1 .. n
      BY <3>4, <3>5, <3>6
    <3> QED BY <1>2, <2>3, <3>1, <3>3, <3>7 DEF Whole
  <2> QED BY <2>1, <2>2, <2>3
<1>9. NothingLost'
  BY <1>8 DEF NothingLost, Whole
<1> QED BY <1>5, <1>7, <1>9 DEF MailInv

\* The message a send puts into a mailbox, with its number.
LEMMA SendQueueEntry ==
  ASSUME TypeOK, NEW t \in Thread, NEW b \in Bsize, SendQueue(t, b)
  PROVE  \E e \in Entry :
           /\ e.mitt = t /\ e.n = accepted[t][peer[t]] + 1
           /\ msgq' = [msgq EXCEPT ![peer[t]] = Append(@, e)]
           /\ \/ /\ e.susp
                 /\ Goto(t, "send_blocked")
                 /\ stato' = [stato EXCEPT ![t] = "WAITING_ON_SEND"]
                 /\ UNCHANGED peer
              \/ /\ ~e.susp
                 /\ Return(t)
                 /\ UNCHANGED stato
<1> DEFINE susp == MustWait(msgq[peer[t]], b)
           e == [mitt |-> t, n |-> Next_n(t, peer[t]), susp |-> susp]
<1>1. susp \in BOOLEAN
  BY DEF MustWait
<1>2. e \in Entry
  <2>1. peer[t] \in Thread BY DEF TypeOK
  <2> QED BY <1>1, <2>1, NumberType, Zenon DEF Entry
<1>3. e.mitt = t /\ e.n = accepted[t][peer[t]] + 1 /\ e.susp = susp
  BY DEF Next_n
<1>4. /\ msgq' = [msgq EXCEPT ![peer[t]] = Append(@, e)]
      /\ IF susp
         THEN /\ Goto(t, "send_blocked")
              /\ stato' = [stato EXCEPT ![t] = "WAITING_ON_SEND"]
              /\ UNCHANGED peer
         ELSE Return(t) /\ UNCHANGED stato
  BY DEF SendQueue
<1> HIDE DEF e
<1> QED BY <1>2, <1>3, <1>4

\* It follows the others, and nobody waits for it.
LEMMA SendQueueMail ==
  ASSUME TypeOK, LockDiscipline, MailInv, NEW t \in Thread, NEW b \in Bsize, SendQueue(t, b)
  PROVE  MailInv'
<1> DEFINE d == peer[t]
           n == accepted[t][d] + 1
<1>0. MailTypes
  BY TypesGiveMailTypes
<1>1. d \in Thread /\ n \in Nat /\ msgq[d] \in Seq(Entry)
  BY <1>0 DEF MailTypes
<1>2. PICK e \in Entry : /\ e.mitt = t /\ e.n = n
                         /\ msgq' = [msgq EXCEPT ![d] = Append(@, e)]
  BY SendQueueEntry
<1>3. /\ pc[t] = "send" /\ pc'[t] \in {"send_blocked", "run"}
      /\ \A x \in Thread \ {t} : pc'[x] = pc[x] /\ stato'[x] = stato[x]
      /\ stato'[t] = "WAITING_ON_RECEIVE" => stato[t] = "WAITING_ON_RECEIVE"
      /\ UNCHANGED <<mitt, slot, todo, received>>
      /\ accepted'[t][d] = n
      /\ \A s, x \in Thread : s # t \/ x # d => accepted'[s][x] = accepted[s][x]
  <2>1. /\ pc[t] = "send"
        /\ \/ stato' = [stato EXCEPT ![t] = "WAITING_ON_SEND"] /\ Goto(t, "send_blocked")
           \/ Goto(t, "run") /\ stato' = stato
        /\ accepted' = [accepted EXCEPT ![t][d] = @ + 1]
        /\ UNCHANGED <<mitt, slot, todo, received>>
    BY SendQueueSteps, Zenon DEF Return, Accept
  <2>2. /\ accepted'[t][d] = n
        /\ \A s, x \in Thread : s # t \/ x # d => accepted'[s][x] = accepted[s][x]
    BY <1>0, <1>1, <2>1 DEF MailTypes
  <2> QED BY <1>0, <2>1, <2>2 DEF MailTypes, Goto
<1>4. /\ msgq'[d] = Append(msgq[d], e)
      /\ \A x \in Thread \ {d} : msgq'[x] = msgq[x]
  BY <1>0, <1>1, <1>2 DEF MailTypes
<1>5. ~Expected(t, d)
  BY DEF SendQueue
<1>6. pc[d] # "recv_build"
  <2>1. mutex[d] = t
    BY <1>1, <1>3 DEF LockDiscipline, Holds
  <2>2. pc[d] = "recv_build" => mutex[d] = d
    BY <1>1 DEF LockDiscipline, Holds
  <2> QED BY <1>3, <2>1, <2>2
<1> HIDE DEF d, n
<1>7. PathsAgree'
  <2> SUFFICES ASSUME NEW x \in Thread
               PROVE  /\ stato'[x] = "WAITING_ON_RECEIVE" => pc'[x] \in RecvWaits
                      /\ slot'[x] # Null => pc'[x] \in RecvWaits
                      /\ mitt'[x] # {} => pc'[x] \in RecvWaits \cup {"recv_build"}
                      /\ pc'[x] = "recv_build" => Matches(mitt'[x] \cup todo'[x], msgq'[x]) = {}
                      /\ stato'[x] = "WAITING_ON_RECEIVE" /\ slot'[x] = Null =>
                           Matches(mitt'[x], msgq'[x]) = {}
    BY DEF PathsAgree
  <2>1. CASE x = t
    BY <1>1, <1>3, <2>1 DEF MailInv, PathsAgree, RecvWaits
  <2>2. CASE x # t /\ x # d
    BY <1>1, <1>3, <1>4, <2>2 DEF MailInv, PathsAgree, RecvWaits
  <2>3. CASE x # t /\ x = d
    <3>1. /\ pc'[x] = pc[x] /\ stato'[x] = stato[x] /\ slot'[x] = slot[x]
          /\ mitt'[x] = mitt[x]
      BY <1>3, <2>3
    <3>2. ASSUME stato[d] = "WAITING_ON_RECEIVE", slot[d] = Null
          PROVE  Matches(mitt[d], msgq'[d]) = {}
      <4>1. t \notin mitt[d]
        BY <1>5, <3>2 DEF Expected
      <4>2. Matches(mitt[d], msgq[d]) = {}
        BY <1>1, <3>2 DEF MailInv, PathsAgree
      <4> QED BY <1>1, <1>2, <1>4, <4>1, <4>2, AppendMatches
    <3> QED BY <1>1, <1>6, <2>3, <3>1, <3>2 DEF MailInv, PathsAgree
  <2> QED BY <2>1, <2>2, <2>3
<1>8. \A x \in Thread : pc'[x] \notin Drained => pc[x] \notin Drained
  BY <1>3 DEF Drained
<1>9. NotAhead'
  <2> SUFFICES ASSUME NEW s \in Thread, NEW x \in Thread, pc'[x] \notin Drained
               PROVE  received'[x][s] <= accepted'[s][x]
    BY DEF NotAhead
  <2>1. received[x][s] <= accepted[s][x] /\ received[x][s] \in Nat /\ accepted[s][x] \in Nat
    BY <1>0, <1>8 DEF MailInv, NotAhead, MailTypes
  <2>2. accepted'[s][x] = accepted[s][x] \/ accepted'[s][x] = accepted[s][x] + 1
    BY <1>3 DEF d, n
  <2>3. received'[x][s] = received[x][s]
    BY <1>3
  <2> QED BY <2>1, <2>2, <2>3
<1>10. ASSUME NEW s \in Thread, NEW x \in Thread, pc'[x] \notin Drained
       PROVE  Whole(s, x)'
  <2>1. CASE x # d
    BY <1>3, <1>4, <1>8, <1>10, <2>1, WholeUntouched DEF MailInv
  <2>2. CASE x = d
    <3>1. Whole(s, d)
      BY <1>1, <1>8, <1>10, <2>2 DEF MailInv, NothingLost, Whole
    <3>2. /\ received[d][s] \in Nat /\ accepted[s][d] \in Nat /\ n = accepted[t][d] + 1
          /\ received[d][s] <= accepted[s][d]
      BY <1>0, <1>1, <1>8, <1>10, <2>2 DEF MailInv, NotAhead, MailTypes, n, d
    <3>3. Direct(s, x)' = Direct(s, d)
      BY <1>3, <2>2 DEF Direct
    <3>4. s = t => \A k \in Direct(s, d) \cup Numbers(msgq[d], s) : k < n
      BY <3>1, <3>2 DEF Whole
    <3>5. /\ Numbers(msgq'[d], s) =
               Numbers(msgq[d], s) \cup (IF t = s THEN {n} ELSE {})
          /\ InOrder(msgq'[d], s)
      BY <1>1, <1>2, <1>4, <3>1, <3>4, AppendNumbers DEF Whole
    <3>6. CASE s # t
      <4>1. accepted'[s][d] = accepted[s][d] /\ received'[d][s] = received[d][s]
        BY <1>1, <1>3, <3>6
      <4> QED BY <2>2, <3>1, <3>3, <3>5, <3>6, <4>1 DEF Whole
    <3>7. CASE s = t
      <4>1. accepted'[s][d] = n /\ received'[d][s] = received[d][s]
        BY <1>1, <1>3, <3>7
      <4>2. received[d][s] + 1 .. n = (received[d][s] + 1 .. accepted[s][d]) \cup {n}
        BY <3>2, <3>7
      <4>3. Direct(s, x)' \cup Numbers(msgq'[x], s) = received'[x][s] + 1 .. accepted'[s][x]
        BY <2>2, <3>1, <3>3, <3>5, <3>7, <4>1, <4>2 DEF Whole
      <4>4. \A i \in Direct(s, x)', k \in Numbers(msgq'[x], s) : i < k
        BY <2>2, <3>1, <3>3, <3>4, <3>5, <3>7 DEF Whole
      <4> QED BY <2>2, <3>5, <4>3, <4>4 DEF Whole
    <3> QED BY <3>6, <3>7
  <2> QED BY <2>1, <2>2
<1>11. NothingLost'
  BY <1>10 DEF NothingLost, Whole
<1> QED BY <1>7, <1>9, <1>11 DEF MailInv

\* The message a scan takes is the first of its sender.
LEMMA RecvTakeEntry ==
  ASSUME TypeOK, NEW t \in Thread, RecvTake(t)
  PROVE  \E k \in DOMAIN msgq[t] :
           /\ msgq[t][k] \in Entry
           /\ \A j \in Matches({msgq[t][k].mitt}, msgq[t]) : k <= j
           /\ msgq' = [msgq EXCEPT ![t] = RemoveAt(@, k)]
           /\ Receives(t, msgq[t][k])
           /\ \/ /\ msgq[t][k].susp
                 /\ Goto(t, "recv_signal")
                 /\ peer' = [peer EXCEPT ![t] = msgq[t][k].mitt]
              \/ /\ ~msgq[t][k].susp
                 /\ Return(t)
<1> DEFINE i == First(ReadyAlts(alts[t], msgq[t]))
           S == alts[t][i].from
           k == First(Matches(S, msgq[t]))
<1>1. /\ ReadyAlts(alts[t], msgq[t]) # {}
      /\ ~alts[t][i].dflt
      /\ msgq' = [msgq EXCEPT ![t] = RemoveAt(@, k)]
      /\ Receives(t, msgq[t][k])
      /\ \/ /\ msgq[t][k].susp
            /\ Goto(t, "recv_signal")
            /\ peer' = [peer EXCEPT ![t] = msgq[t][k].mitt]
         \/ /\ ~msgq[t][k].susp
            /\ Return(t)
  BY DEF RecvTake, WakesSender
<1>2. k \in Matches(S, msgq[t]) /\ k \in DOMAIN msgq[t] /\ msgq[t][k] \in Entry
  BY <1>1, ScanFinds
<1>3. Matches(S, msgq[t]) \in SUBSET Nat
  <2>1. msgq[t] \in Seq(Entry)
    BY DEF TypeOK
  <2> QED BY <2>1, LenProperties DEF Matches
<1>4. \A j \in Matches(S, msgq[t]) : k <= j
  BY <1>2, <1>3, FirstIn
<1> HIDE DEF k, S
<1>5. Matches({msgq[t][k].mitt}, msgq[t]) \subseteq Matches(S, msgq[t])
  BY <1>2 DEF Matches
<1> QED BY <1>1, <1>2, <1>4, <1>5

\* The lower end of an interval, taken out of it.
LEMMA IntervalTail ==
  ASSUME NEW a \in Nat, NEW b \in Nat, NEW n \in a + 1 .. b, \A k \in a + 1 .. b : n <= k
  PROVE  n = a + 1 /\ (a + 1 .. b) \ {n} = n + 1 .. b
<1>1. a + 1 \in a + 1 .. b
  OBVIOUS
<1>2. n = a + 1
  BY <1>1
<1> QED BY <1>2

\* It is the next one to be received.
LEMMA RecvTakeMail ==
  ASSUME TypeOK, MailInv, NEW t \in Thread, RecvTake(t)
  PROVE  MailInv'
<1>0. MailTypes
  BY TypesGiveMailTypes
<1>1. PICK k \in DOMAIN msgq[t] :
           /\ msgq[t][k] \in Entry
           /\ \A j \in Matches({msgq[t][k].mitt}, msgq[t]) : k <= j
           /\ msgq' = [msgq EXCEPT ![t] = RemoveAt(@, k)]
           /\ Receives(t, msgq[t][k])
           /\ \/ /\ msgq[t][k].susp
                 /\ Goto(t, "recv_signal")
                 /\ peer' = [peer EXCEPT ![t] = msgq[t][k].mitt]
              \/ /\ ~msgq[t][k].susp
                 /\ Return(t)
  BY RecvTakeEntry
<1> DEFINE e == msgq[t][k]
           m == e.mitt
           n == e.n
<1>2. m \in Thread /\ n \in Nat /\ msgq[t] \in Seq(Entry)
  BY <1>0, <1>1 DEF MailTypes, Entry
<1>3. /\ pc[t] = "recv_scan"
      /\ UNCHANGED <<stato, mitt, slot, todo, accepted>>
  BY DEF RecvTake
<1>4. /\ pc'[t] \in {"recv_signal", "run"}
      /\ \A x \in Thread \ {t} : pc'[x] = pc[x]
  BY <1>0, <1>1 DEF MailTypes, Goto, Return
<1>5. /\ msgq'[t] = RemoveAt(msgq[t], k)
      /\ \A x \in Thread \ {t} : msgq'[x] = msgq[x]
  BY <1>0, <1>1 DEF MailTypes
<1>6. /\ received'[t][m] = n
      /\ \A x, s \in Thread : x # t \/ s # m => received'[x][s] = received[x][s]
  <2>1. received' = [received EXCEPT ![t][m] = n]
    BY <1>1, Zenon DEF Receives
  <2> QED BY <1>0, <1>2, <2>1 DEF MailTypes
<1>7. slot[t] = Null /\ stato[t] # "WAITING_ON_RECEIVE" /\ mitt[t] = {}
  BY <1>3 DEF MailInv, PathsAgree, RecvWaits
<1>8. pc[t] \notin Drained /\ \A x \in Thread : pc'[x] \notin Drained => pc[x] \notin Drained
  BY <1>3, <1>4 DEF Drained
<1>9. Whole(m, t) /\ Direct(m, t) = {}
  BY <1>2, <1>7, <1>8 DEF MailInv, NothingLost, Whole, Direct
<1>10. n \in Numbers(msgq[t], m) /\ \A i \in Numbers(msgq[t], m) : n <= i
  BY <1>1, <1>2, <1>9, FirstLeast DEF Whole
<1> HIDE DEF m, n
<1>11. /\ n = received[t][m] + 1 /\ n <= accepted[m][t]
       /\ (received[t][m] + 1 .. accepted[m][t]) \ {n} = n + 1 .. accepted[m][t]
  <2>1. Numbers(msgq[t], m) = received[t][m] + 1 .. accepted[m][t]
    BY <1>9 DEF Whole
  <2>2. received[t][m] \in Nat /\ accepted[m][t] \in Nat
    BY <1>0, <1>2 DEF MailTypes
  <2>3. n \in received[t][m] + 1 .. accepted[m][t]
    BY <1>10, <2>1
  <2>4. \A i \in received[t][m] + 1 .. accepted[m][t] : n <= i
    BY <1>10, <2>1
  <2>5. n <= accepted[m][t]
    BY <2>2, <2>3
  <2> QED BY <2>2, <2>3, <2>4, <2>5, IntervalTail
<1>12. PathsAgree'
  <2> SUFFICES ASSUME NEW x \in Thread
               PROVE  /\ stato'[x] = "WAITING_ON_RECEIVE" => pc'[x] \in RecvWaits
                      /\ slot'[x] # Null => pc'[x] \in RecvWaits
                      /\ mitt'[x] # {} => pc'[x] \in RecvWaits \cup {"recv_build"}
                      /\ pc'[x] = "recv_build" => Matches(mitt'[x] \cup todo'[x], msgq'[x]) = {}
                      /\ stato'[x] = "WAITING_ON_RECEIVE" /\ slot'[x] = Null =>
                           Matches(mitt'[x], msgq'[x]) = {}
    BY DEF PathsAgree
  <2>1. CASE x = t
    BY <1>3, <1>4, <1>7, <2>1
  <2>2. CASE x # t
    BY <1>3, <1>4, <1>5, <2>2 DEF MailInv, PathsAgree
  <2> QED BY <2>1, <2>2
<1>13. NotAhead'
  <2> SUFFICES ASSUME NEW s \in Thread, NEW x \in Thread, pc'[x] \notin Drained
               PROVE  received'[x][s] <= accepted'[s][x]
    BY DEF NotAhead
  <2>1. CASE x = t /\ s = m
    BY <1>3, <1>6, <1>11, <2>1
  <2>2. CASE ~(x = t /\ s = m)
    BY <1>3, <1>6, <1>8, <2>2 DEF MailInv, NotAhead
  <2> QED BY <2>1, <2>2
<1>14. ASSUME NEW s \in Thread, NEW x \in Thread, pc'[x] \notin Drained
       PROVE  Whole(s, x)'
  <2>1. CASE x # t
    BY <1>3, <1>5, <1>6, <1>8, <1>14, <2>1, WholeUntouched DEF MailInv
  <2>2. CASE x = t
    <3>1. Whole(s, t) /\ Direct(s, t) = {} /\ Direct(s, x)' = {}
      BY <1>3, <1>7, <1>8, <2>2 DEF MailInv, NothingLost, Whole, Direct
    <3>2. InOrder(msgq[t], s)
      BY <3>1 DEF Whole
    <3>3. /\ InOrder(msgq'[t], s)
          /\ m # s => Numbers(msgq'[t], s) = Numbers(msgq[t], s)
          /\ m = s => Numbers(msgq'[t], s) = Numbers(msgq[t], s) \ {n}
      BY <1>1, <1>2, <1>5, <3>2, RemoveNumbers DEF m, n
    <3>4. Numbers(msgq'[t], s) = received'[t][s] + 1 .. accepted'[s][t]
      <4>1. CASE s = m
        BY <1>3, <1>6, <1>11, <3>1, <3>3, <4>1 DEF Whole
      <4>2. CASE s # m
        BY <1>3, <1>6, <3>1, <3>3, <4>2 DEF Whole
      <4> QED BY <4>1, <4>2
    <3> QED BY <2>2, <3>1, <3>3, <3>4 DEF Whole
  <2> QED BY <2>1, <2>2
<1>15. NothingLost'
  BY <1>14 DEF NothingLost, Whole
<1> QED BY <1>12, <1>13, <1>15 DEF MailInv

\* The steps of a receiver that finds nothing up to its wait.
LEMMA WaitMail ==
  ASSUME MailTypes, MailInv, NEW t \in Thread,
         RecvNone(t) \/ (\E s \in Thread : RecvBuild(t, s)) \/ RecvWait(t)
  PROVE  MailInv'
<1>1. /\ UNCHANGED <<msgq, slot, accepted, received>>
      /\ pc[t] \in {"recv_scan", "recv_build"} /\ pc'[t] \in {"recv_build", "recv_blocked"}
      /\ \A x \in Thread \ {t} : /\ pc'[x] = pc[x] /\ stato'[x] = stato[x]
                                  /\ mitt'[x] = mitt[x] /\ todo'[x] = todo[x]
      /\ stato'[t] = "WAITING_ON_RECEIVE" => stato[t] = stato'[t] \/ pc'[t] = "recv_blocked"
  <2>1. CASE RecvNone(t)
    BY <2>1 DEF RecvNone, MailTypes, Goto, fields, history
  <2>2. CASE \E s \in Thread : RecvBuild(t, s)
    BY <2>2 DEF RecvBuild, MailTypes, history
  <2>3. CASE RecvWait(t)
    BY <2>3 DEF RecvWait, MailTypes, Goto, locals, history
  <2> QED BY <2>1, <2>2, <2>3
<1>2. Matches(mitt'[t] \cup todo'[t], msgq[t]) = {}
  <2>1. CASE RecvNone(t)
    <3>1. ReadyAlts(alts[t], msgq[t]) = {} /\ todo'[t] = Senders(alts[t]) /\ mitt' = mitt
          /\ pc[t] = "recv_scan"
      BY <2>1 DEF RecvNone, MailTypes, fields, Awaited
    <3>2. mitt[t] = {}
      BY <3>1 DEF MailInv, PathsAgree, RecvWaits
    <3>3. Matches(Senders(alts[t]), msgq[t]) = {}
      BY <3>1 DEF ReadyAlts, Ready, Matches, Senders
    <3> QED BY <3>1, <3>2, <3>3
  <2>2. CASE (\E s \in Thread : RecvBuild(t, s)) \/ RecvWait(t)
    <3>1. pc[t] = "recv_build" /\ mitt'[t] \cup todo'[t] \subseteq mitt[t] \cup todo[t]
      <4>1. CASE \E s \in Thread : RecvBuild(t, s)
        BY <4>1 DEF RecvBuild, MailTypes
      <4>2. CASE RecvWait(t)
        BY <4>2 DEF RecvWait, MailTypes, locals
      <4> QED BY <2>2, <4>1, <4>2
    <3>2. Matches(mitt[t] \cup todo[t], msgq[t]) = {}
      BY <3>1 DEF MailInv, PathsAgree
    <3> QED BY <3>1, <3>2 DEF Matches
  <2> QED BY <2>1, <2>2
<1>3. stato[t] # "WAITING_ON_RECEIVE" /\ slot[t] = Null
  BY <1>1 DEF MailInv, PathsAgree, RecvWaits
<1>4. PathsAgree'
  <2> SUFFICES ASSUME NEW x \in Thread
               PROVE  /\ stato'[x] = "WAITING_ON_RECEIVE" => pc'[x] \in RecvWaits
                      /\ slot'[x] # Null => pc'[x] \in RecvWaits
                      /\ mitt'[x] # {} => pc'[x] \in RecvWaits \cup {"recv_build"}
                      /\ pc'[x] = "recv_build" => Matches(mitt'[x] \cup todo'[x], msgq'[x]) = {}
                      /\ stato'[x] = "WAITING_ON_RECEIVE" /\ slot'[x] = Null =>
                           Matches(mitt'[x], msgq'[x]) = {}
    BY DEF PathsAgree
  <2>1. CASE x = t
    <3>1. Matches(mitt'[t], msgq[t]) = {}
      BY <1>2 DEF Matches
    <3> QED BY <1>1, <1>2, <1>3, <2>1, <3>1 DEF RecvWaits
  <2>2. CASE x # t
    BY <1>1, <2>2 DEF MailInv, PathsAgree
  <2> QED BY <2>1, <2>2
<1>5. \A x \in Thread : pc'[x] \notin Drained => pc[x] \notin Drained
  BY <1>1 DEF Drained
<1>6. NotAhead'
  BY <1>1, <1>5 DEF MailInv, NotAhead
<1>7. \A s, d \in Thread : pc'[d] \notin Drained => Whole(s, d)'
  BY <1>1, <1>5, WholeUntouched DEF MailInv
<1>8. NothingLost'
  BY <1>7 DEF NothingLost, Whole
<1> QED BY <1>4, <1>6, <1>8 DEF MailInv

\* So is the one handed over, as those in the mailbox come later.
LEMMA RecvWokenMail ==
  ASSUME MailTypes, MailInv, NEW t \in Thread, RecvWoken(t)
  PROVE  MailInv'
<1>1. /\ UNCHANGED <<msgq, todo, accepted>>
      /\ pc[t] = "recv_woken" /\ pc'[t] = "run"
      /\ mitt'[t] = {} /\ slot'[t] = Null /\ stato'[t] = "RUNNING"
      /\ \A x \in Thread \ {t} : /\ pc'[x] = pc[x] /\ stato'[x] = stato[x]
                                  /\ mitt'[x] = mitt[x] /\ slot'[x] = slot[x]
  BY DEF RecvWoken, MailTypes, Goto, Return, MittAfterWait
<1>2. PathsAgree'
  BY <1>1 DEF MailInv, PathsAgree, RecvWaits
<1>3. pc[t] \notin Drained /\ \A x \in Thread : pc'[x] \notin Drained => pc[x] \notin Drained
  BY <1>1 DEF Drained
<1>4. CASE slot[t] = Null
  <2>1. received' = received
    BY <1>4 DEF RecvWoken
  <2>2. \A x \in Thread : slot'[x] = slot[x]
    BY <1>1, <1>4
  <2>3. NotAhead'
    BY <1>1, <1>3, <2>1 DEF MailInv, NotAhead
  <2>4. \A s, d \in Thread : pc'[d] \notin Drained => Whole(s, d)'
    BY <1>1, <1>3, <2>1, <2>2, WholeUntouched DEF MailInv
  <2>5. NothingLost'
    BY <2>4 DEF NothingLost, Whole
  <2> QED BY <1>2, <2>3, <2>5 DEF MailInv
<1>5. CASE slot[t] # Null
  <2> DEFINE m == slot[t].mitt
             n == slot[t].n
  <2>1. m \in Thread /\ n \in Nat
    BY <1>5 DEF MailTypes, Msg
  <2>2. /\ received'[t][m] = n
        /\ \A x, s \in Thread : x # t \/ s # m => received'[x][s] = received[x][s]
    <3>1. received' = [received EXCEPT ![t][m] = n]
      BY <1>5 DEF RecvWoken, Receives
    <3> QED BY <2>1, <3>1 DEF MailTypes
  <2>3. Direct(m, t) = {n}
    BY <1>5 DEF Direct
  <2>4. \A s \in Thread \ {m} : Direct(s, t) = {}
    BY <1>5 DEF Direct
  <2>5. \A s \in Thread : Direct(s, t)' = {}
    BY <1>1 DEF Direct
  <2> HIDE DEF m, n
  <2>6. Whole(m, t)
    BY <1>3, <2>1 DEF MailInv, NothingLost, Whole
  <2>7. /\ n = received[t][m] + 1 /\ n <= accepted[m][t]
        /\ Numbers(msgq[t], m) = n + 1 .. accepted[m][t]
    <3>1. {n} \cup Numbers(msgq[t], m) = received[t][m] + 1 .. accepted[m][t]
      BY <2>3, <2>6 DEF Whole
    <3>2. \A k \in Numbers(msgq[t], m) : n < k
      BY <2>3, <2>6 DEF Whole
    <3>3. received[t][m] \in Nat /\ accepted[m][t] \in Nat
      BY <2>1 DEF MailTypes
    <3>4. n \in received[t][m] + 1 .. accepted[m][t]
      BY <3>1
    <3>5. ASSUME NEW k \in received[t][m] + 1 .. accepted[m][t]
          PROVE  n <= k
      BY <2>1, <3>1, <3>2, <3>3
    <3>6. n \notin Numbers(msgq[t], m)
      BY <2>1, <3>2
    <3>7. Numbers(msgq[t], m) = (received[t][m] + 1 .. accepted[m][t]) \ {n}
      BY <3>1, <3>6
    <3>8. n <= accepted[m][t]
      BY <3>3, <3>4
    <3> QED BY <3>3, <3>4, <3>5, <3>7, <3>8, IntervalTail
  <2>8. NotAhead'
    <3> SUFFICES ASSUME NEW s \in Thread, NEW x \in Thread, pc'[x] \notin Drained
                 PROVE  received'[x][s] <= accepted'[s][x]
      BY DEF NotAhead
    <3>1. CASE x = t /\ s = m
      BY <1>1, <2>2, <2>7, <3>1
    <3>2. CASE ~(x = t /\ s = m)
      BY <1>1, <1>3, <2>2, <3>2 DEF MailInv, NotAhead
    <3> QED BY <3>1, <3>2
  <2>9. ASSUME NEW s \in Thread, NEW x \in Thread, pc'[x] \notin Drained
        PROVE  Whole(s, x)'
    <3>1. CASE x # t
      BY <1>1, <1>3, <2>2, <2>9, <3>1, WholeUntouched DEF MailInv
    <3>2. CASE x = t /\ s = m
      BY <1>1, <2>1, <2>2, <2>5, <2>6, <2>7, <3>2 DEF Whole
    <3>3. CASE x = t /\ s # m
      <4>1. Whole(s, t)
        BY <1>3 DEF MailInv, NothingLost, Whole
      <4> QED BY <1>1, <2>2, <2>4, <2>5, <3>3, <4>1 DEF Whole
    <3> QED BY <3>1, <3>2, <3>3
  <2>10. NothingLost'
    BY <2>9 DEF NothingLost, Whole
  <2> QED BY <1>2, <2>8, <2>10 DEF MailInv
<1> QED BY <1>4, <1>5

\* A thread that empties its mailbox receives nothing any more.
LEMMA ExitSwapMail ==
  ASSUME MailTypes, MailInv, NEW t \in Thread, ExitSwap(t)
  PROVE  MailInv'
<1>1. /\ UNCHANGED <<stato, mitt, slot, todo, accepted, received>>
      /\ pc[t] = "exit_swap" /\ pc'[t] = "exit_drain" /\ msgq'[t] = <<>>
      /\ \A x \in Thread \ {t} : pc'[x] = pc[x] /\ msgq'[x] = msgq[x]
  BY DEF ExitSwap, MailTypes, Goto, history
<1>2. PathsAgree'
  BY <1>1 DEF MailInv, PathsAgree, RecvWaits
<1>3. \A x \in Thread : pc'[x] \notin Drained => pc[x] \notin Drained /\ x # t
  BY <1>1 DEF Drained
<1>4. NotAhead'
  BY <1>1, <1>3 DEF MailInv, NotAhead
<1>5. \A s, d \in Thread : pc'[d] \notin Drained => Whole(s, d)'
  BY <1>1, <1>3, WholeUntouched DEF MailInv
<1>6. NothingLost'
  BY <1>5 DEF NothingLost, Whole
<1> QED BY <1>2, <1>4, <1>6 DEF MailInv

-----------------------------------------------------------------------------
(* Nothing is lost *)

\* Nothing is under way at the start.
LEMMA MailInit == Init => MailInv
<1> SUFFICES ASSUME Init PROVE MailInv
  OBVIOUS
<1>1. \A t \in Thread : /\ pc[t] \in {"run", "none"} /\ mitt[t] = {} /\ slot[t] = Null
                        /\ stato[t] # "WAITING_ON_RECEIVE" /\ msgq[t] = <<>>
  BY DEF Init, InitBut
<1>2. \A s, d \in Thread : received[d][s] = 0 /\ accepted[s][d] = 0
  BY DEF Init, InitBut
<1>3. \A s : Numbers(<<>>, s) = {} /\ InOrder(<<>>, s)
  BY DEF Numbers, InOrder, Matches
<1>4. \A s, d \in Thread : Direct(s, d) = {}
  BY <1>1 DEF Direct
<1>5. PathsAgree
  BY <1>1 DEF PathsAgree
<1>6. NotAhead
  BY <1>2 DEF NotAhead
<1>7. NothingLost
  BY <1>1, <1>2, <1>3, <1>4 DEF NothingLost
<1> QED BY <1>5, <1>6, <1>7 DEF MailInv

\* Every step keeps it.
LEMMA MailStep ==
  ASSUME TypeOK, LockInv, MailInv, NEW t \in Thread,
         Program(t) \/ Runtime(t) \/ SpuriousWakeup(t)
  PROVE  MailInv'
<1>0. MailTypes /\ LockDiscipline /\ CreationOwned /\ PathsAgree
  BY TypesGiveMailTypes DEF LockInv, MailInv
<1>1. CASE Program(t)
  BY <1>0, <1>1, KeptProgram, MailStays
<1>2. CASE Creating(t)
  BY <1>0, <1>2, KeptCreating, MailStays
<1>3. CASE Sending(t)
  BY <1>0, <1>3, KeptSending, MailStays, SendDirectMail, SendQueueMail
<1>4. CASE Receiving(t)
  BY <1>0, <1>4, KeptReceiving, MailStays, RecvTakeMail, WaitMail, RecvWokenMail
     DEF Receiving
<1>5. CASE Exiting(t)
  BY <1>0, <1>5, KeptExiting, MailStays, ExitSwapMail
<1>6. CASE SpuriousWakeup(t)
  BY <1>0, <1>6, KeptSpurious, MailStays
<1> QED BY <1>1, <1>2, <1>3, <1>4, <1>5, <1>6 DEF Runtime

\* The invariant needs the lock discipline: the mailbox of a thread that builds its
\* queue of senders does not change.
LEMMA MailInvariant == Spec => []MailInv
<1>1. TypeOK /\ LockInv /\ MailInv /\ [Next]_vars => MailInv'
  <2> SUFFICES ASSUME TypeOK, LockInv, MailInv, [Next]_vars
               PROVE  MailInv'
    OBVIOUS
  <2>1. CASE Next
    BY <2>1, MailStep DEF Next
  <2>2. CASE UNCHANGED vars
    <3>1. MailUntouched
      BY <2>2 DEF MailUntouched, vars, fields, locals, history
    <3> QED BY <3>1, MailStays
  <2> QED BY <2>1, <2>2
<1> QED BY <1>1, MailInit, TypeCorrect, LocksCorrect, PTL DEF Spec

\* As long as a destination goes on, no message sent to it is lost, doubled or
\* overtaken, whether it is handed over directly or left in the mailbox: also if
\* waits return without a signal.
THEOREM MessagesArrive == Spec => []NothingLost
<1>1. MailInv => NothingLost
  BY DEF MailInv
<1> QED BY <1>1, MailInvariant, PTL

-----------------------------------------------------------------------------
(* What a suspended sender is told *)

TellTypes == MailTypes /\ drain \in [Thread -> Seq(Entry)]

\* Nothing more is received from a sender whose last message was taken, nor by a
\* thread that is ending or about to wake a sender.
ReceivedKept ==
  \A d, x \in Thread :
    \/ received'[d][x] = received[d][x]
    \/ pc[d] \notin Ending \cup {"recv_signal"} /\ received[d][x] # accepted[x][d]

\* What x knows, or is about to tell, stays as it is.
KnowsOn(x) ==
  /\ pc'[x] \in Knowing =>
       /\ pc[x] \in Knowing /\ peer'[x] = peer[x]
       /\ stato'[x] = stato[x] /\ accepted'[x] = accepted[x]
  /\ pc'[x] \in Telling =>
       /\ pc'[x] = pc[x] /\ peer'[x] = peer[x]
       /\ stato'[peer[x]] = stato[peer[x]] /\ accepted'[peer[x]] = accepted[peer[x]]

EndingKept == \A x \in Thread : pc[x] \in Ending => pc'[x] \in Ending

\* What is known or about to be told stays true.
LEMMA ResultStays ==
  ASSUME TellTypes, NEW x \in Thread, ResultAgrees(x), KnowsOn(x), ReceivedKept, EndingKept
  PROVE  ResultAgrees(x)'
<1>0. peer[x] \in Thread
  BY DEF TellTypes, MailTypes
<1>1. ASSUME pc'[x] \in Knowing PROVE Result(x, peer[x])'
  <2>1. /\ Result(x, peer[x]) /\ pc[x] \in Knowing
        /\ stato'[x] = stato[x] /\ accepted'[x] = accepted[x] /\ peer'[x] = peer[x]
    BY <1>1 DEF ResultAgrees, KnowsOn
  <2>2. pc[peer[x]] \in Ending => pc'[peer[x]] \in Ending
    BY <1>0 DEF EndingKept
  <2>3. received'[peer[x]][x] = received[peer[x]][x]
    BY <1>0, <2>1 DEF ReceivedKept, Result
  <2> QED BY <2>1, <2>2, <2>3 DEF Result
<1>2. ASSUME pc'[x] \in Telling
      PROVE  received'[x][peer[x]] = received[x][peer[x]]
  <2>1. pc[x] \in Ending \cup {"recv_signal"}
    BY <1>2 DEF KnowsOn, Telling, Ending, Drained
  <2> QED BY <1>0, <2>1 DEF ReceivedKept
<1> QED BY <1>1, <1>2 DEF ResultAgrees, KnowsOn, Knowing, Telling

\* No message is marked anew, and the senders of those marked stay as they are.
MarkFrame ==
  \A d \in Thread :
    /\ ToSet(msgq'[d]) \subseteq ToSet(msgq[d])
    /\ ToSet(drain'[d]) \subseteq ToSet(drain[d])
    /\ \A e \in ToSet(msgq'[d]) \cup ToSet(drain'[d]) :
         e.susp => stato'[e.mitt] = stato[e.mitt] /\ accepted'[e.mitt] = accepted[e.mitt]

\* A marked message marks its sender.
LEMMA ElementsMarked ==
  ASSUME NEW q, NEW e \in ToSet(q), e.susp
  PROVE  e.mitt \in MarkedBy(q)
BY DEF ToSet, MarkedBy, Marks

\* The sender of a marked message sleeps.
LEMMA MarkedAsleep ==
  ASSUME MarksAgree, NEW d \in Thread, NEW e \in ToSet(msgq[d]) \cup ToSet(drain[d]),
         e.susp
  PROVE  pc[e.mitt] = "send_blocked" /\ peer[e.mitt] = d
<1>1. e.mitt \in MarkedBy(msgq[d]) \cup MarkedBy(drain[d])
  BY ElementsMarked
<1> QED BY <1>1 DEF MarksAgree

\* The messages of a mailbox have their types.
LEMMA ElementTypes ==
  ASSUME NEW q \in Seq(Entry)
  PROVE  \A e \in ToSet(q) : e \in Entry /\ e.mitt \in Thread /\ e.n \in Nat
<1>1. \A i \in DOMAIN q : q[i] \in Entry
  BY LenProperties, ElementOfSeq
<1> QED BY <1>1 DEF ToSet, Entry

\* The marks that are left stay true.
LEMMA MarksStay ==
  ASSUME TellTypes, CopyEmpty, MarksTold, MarkFrame, ReceivedKept
  PROVE  MarksTold'
<1> SUFFICES ASSUME NEW d \in Thread
             PROVE  /\ \A e \in ToSet(msgq'[d]) \cup ToSet(drain'[d]) : Told(d, e)'
                    /\ \A e \in ToSet(drain'[d]) :
                         e.susp => received'[d][e.mitt] < e.n
  BY DEF MarksTold, ToSet
<1>1. \A e \in ToSet(msgq'[d]) \cup ToSet(drain'[d]) : Told(d, e)'
  BY DEF MarkFrame, MarksTold, Told
<1>2. ASSUME NEW e \in ToSet(drain'[d]), e.susp
      PROVE  received'[d][e.mitt] < e.n
  <2>1. e \in ToSet(drain[d]) /\ received[d][e.mitt] < e.n
    BY <1>2 DEF MarkFrame, MarksTold
  <2>2. e.mitt \in Thread
    BY <2>1, ElementTypes DEF TellTypes
  <2>3. pc[d] \in Ending
    <3>1. drain[d] # <<>>
      BY <2>1 DEF ToSet
    <3> QED BY <3>1 DEF CopyEmpty, Ending
  <2> QED BY <2>1, <2>2, <2>3 DEF ReceivedKept
<1> QED BY <1>1, <1>2

\* Steps that take no message and tell nobody.
TellQuiet ==
  /\ UNCHANGED <<msgq, drain, received>>
  /\ \A x \in Thread :
       /\ pc'[x] \in Knowing => pc[x] \in Knowing /\ peer'[x] = peer[x]
       /\ pc'[x] \in Telling => pc'[x] = pc[x] /\ peer'[x] = peer[x]
       /\ pc'[x] \in Knowing \/ pc[x] = "send_blocked" =>
            stato'[x] = stato[x] /\ accepted'[x] = accepted[x]
  /\ EndingKept

\* Such steps keep what suspended senders are told.
LEMMA TellStays ==
  ASSUME TellTypes, MarksAgree, SignalsAgree, CopyEmpty, TellInv, TellQuiet
  PROVE  TellInv'
<1>1. ReceivedKept
  BY DEF ReceivedKept, TellQuiet
<1>2. ASSUME NEW x \in Thread PROVE KnowsOn(x)
  <2>1. pc[x] \in Telling => pc[peer[x]] = "send_blocked" /\ peer[x] \in Thread
    BY DEF Telling, SignalsAgree, SignalAgrees, TellTypes, MailTypes
  <2> QED BY <2>1 DEF KnowsOn, TellQuiet
<1>3. MarkFrame
  <2>1. ASSUME NEW d \in Thread, NEW e \in ToSet(msgq[d]) \cup ToSet(drain[d]), e.susp
        PROVE  stato'[e.mitt] = stato[e.mitt] /\ accepted'[e.mitt] = accepted[e.mitt]
    <3>1. e.mitt \in Thread
      BY ElementTypes DEF TellTypes, MailTypes
    <3> QED BY <2>1, <3>1, MarkedAsleep DEF TellQuiet
  <2> QED BY <2>1 DEF MarkFrame, TellQuiet
<1>4. MarksTold'
  BY <1>1, <1>3, MarksStay DEF TellInv
<1>5. ResultsAgree'
  BY <1>1, <1>2, ResultStays DEF TellInv, ResultsAgree, TellQuiet
<1> QED BY <1>4, <1>5 DEF TellInv

\* Starting an operation is such a step, ...
LEMMA TellProgram ==
  ASSUME TellTypes, NEW t \in Thread, Program(t)
  PROVE  TellQuiet
<1>0. UNCHANGED <<msgq, drain>>
  BY ProgramKeepsMail
<1> USE <1>0 DEF TellTypes, MailTypes, TellQuiet, EndingKept, Ending, Drained, Knowing,
                 Telling, Goto, fields, locals, history
<1>1. CASE \E c \in Thread : Create(t, c)
  <2>1. PICK c \in Thread : Create(t, c)
    BY <1>1
  <2> QED BY <2>1 DEF Create, CreateInternal
<1>2. CASE Register(t)
  BY <1>2 DEF Register, CreateInternal
<1>3. CASE \E d \in Thread : SendCall(t, d)
  <2>1. PICK d \in Thread : SendCall(t, d)
    BY <1>3
  <2> QED BY <2>1 DEF SendCall, Call
<1>4. CASE \E S \in SUBSET Thread, nb \in BOOLEAN : ReceiveCall(t, S, nb)
  <2>1. PICK S \in SUBSET Thread, nb \in BOOLEAN : ReceiveCall(t, S, nb)
    BY <1>4
  <2> QED BY <2>1 DEF ReceiveCall, Call
<1>5. CASE \E args \in Cases : CaseCall(t, args)
  BY <1>5 DEF CaseCall, Call
<1>6. CASE ExitCall(t)
  BY <1>6 DEF ExitCall
<1> QED
  BY <1>1, <1>2, <1>3, <1>4, <1>5, <1>6 DEF Program

\* ... every step of a creation, ...
LEMMA TellCreating ==
  ASSUME TellTypes, CreationOwned, NEW t \in Thread, Creating(t)
  PROVE  TellQuiet
<1> USE DEF TellTypes, MailTypes, TellQuiet, EndingKept, Ending, Drained, Knowing, Telling,
            Goto, Return, fields, locals, history, CreationOwned, Creating_pc
<1>1. CASE PthreadCreate(t)
  BY <1>1 DEF PthreadCreate
<1>2. CASE PthreadCreateFails(t)
  BY <1>2 DEF PthreadCreateFails
<1>3. CASE CreateUndo(t)
  BY <1>3 DEF CreateUndo
<1>4. CASE CreateMax(t)
  BY <1>4 DEF CreateMax
<1>5. CASE StartRoutine(t)
  BY <1>5 DEF StartRoutine
<1> QED
  BY <1>1, <1>2, <1>3, <1>4, <1>5 DEF Creating

\* ... of a send but the joining of a mailbox, ...
LEMMA TellSending ==
  ASSUME TellTypes, SignalsAgree, NEW t \in Thread, Sending(t),
         \A b \in Bsize : ~SendQueue(t, b)
  PROVE  TellQuiet
<1> USE DEF TellTypes, MailTypes, TellQuiet, EndingKept, Ending, Drained, Knowing, Telling,
            Goto, Return, fields, locals, history
<1>1. CASE SendLock(t)
  BY <1>1 DEF SendLock
<1>2. CASE SendDirect(t)
  BY <1>2 DEF SendDirect, Accept
<1>3. CASE \E nb \in BOOLEAN : SendRefuse(t, nb)
  BY <1>3 DEF SendRefuse
<1>4. CASE SendSignal(t)
  <2>1. pc[t] = "send_signal" /\ pc[peer[t]] = "recv_blocked" /\ peer[t] \in Thread
    BY <1>4 DEF SendSignal, SignalsAgree, SignalAgrees
  <2> QED BY <1>4, <2>1 DEF SendSignal, SignalPeer, Woken
<1>5. CASE SendWoken(t)
  BY <1>5 DEF SendWoken
<1>6. CASE SendRet(t)
  BY <1>6 DEF SendRet
<1> QED
  BY <1>1, <1>2, <1>3, <1>4, <1>5, <1>6 DEF Sending

\* ... of a receive that takes nothing and wakes nobody, ...
LEMMA TellReceiving ==
  ASSUME TellTypes, NEW t \in Thread, Receiving(t),
         ~RecvTake(t), ~RecvSignal(t), ~RecvWoken(t)
  PROVE  TellQuiet
<1>0. UNCHANGED <<msgq, drain>>
  BY ReceivingKeepsMail
<1> USE <1>0 DEF TellTypes, MailTypes, TellQuiet, EndingKept, Ending, Drained, Knowing,
                 Telling, Goto, Return, locals, history
<1>1. CASE RecvLock(t)
  BY <1>1 DEF RecvLock, fields
<1>2. CASE RecvDefault(t)
  BY <1>2 DEF RecvDefault, fields
<1>3. CASE RecvNone(t)
  BY <1>3 DEF RecvNone, fields
<1>4. CASE \E s \in Thread : RecvBuild(t, s)
  BY <1>4 DEF RecvBuild
<1>5. CASE RecvNobody(t)
  BY <1>5 DEF RecvNobody, fields
<1>6. CASE RecvWait(t)
  BY <1>6 DEF RecvWait
<1> QED
  BY <1>1, <1>2, <1>3, <1>4, <1>5, <1>6 DEF Receiving

\* ... and of a termination but the treatment of the mailbox.
LEMMA TellExiting ==
  ASSUME TellTypes, SignalsAgree, NEW t \in Thread, Exiting(t),
         ~ExitSwap(t), ~ExitDrain(t), ~ExitDrainSignal(t)
  PROVE  TellQuiet
<1> USE DEF TellTypes, MailTypes, TellQuiet, EndingKept, Ending, Drained, Knowing, Telling,
            Goto, fields, locals, history
<1>1. CASE ExitLock(t)
  BY <1>1 DEF ExitLock
<1>2. CASE ExitDrained(t)
  BY <1>2 DEF ExitDrained
<1>3. CASE ExitQLock(t)
  BY <1>3 DEF ExitQLock
<1>4. CASE ExitSelf(t)
  BY <1>4 DEF ExitSelf
<1>5. CASE \E x \in Thread : ExitVisit(t, x)
  <2>1. PICK x \in Thread : ExitVisit(t, x)
    BY <1>5
  <2> QED BY <2>1 DEF ExitVisit
<1>6. CASE ExitRemove(t)
  BY <1>6 DEF ExitRemove
<1>7. CASE ExitWake(t)
  <2>1. pc[t] = "exit_wake" /\ pc[peer[t]] = "recv_blocked" /\ peer[t] \in Thread
    BY <1>7 DEF ExitWake, SignalsAgree, SignalAgrees
  <2> QED BY <1>7, <2>1 DEF ExitWake, SignalPeer, Woken
<1>8. CASE ExitDone(t)
  BY <1>8 DEF ExitDone
<1> QED
  BY <1>1, <1>2, <1>3, <1>4, <1>5, <1>6, <1>7, <1>8 DEF Exiting

\* A message in a mailbox that is still open has not been received.
LEMMA QueuedAhead ==
  ASSUME MailTypes, NothingLost, NEW d \in Thread, pc[d] \notin Drained,
         NEW e \in ToSet(msgq[d])
  PROVE  received[d][e.mitt] < e.n /\ e.n <= accepted[e.mitt][d]
<1>1. e.mitt \in Thread /\ e.n \in Nat
  BY ElementTypes DEF MailTypes
<1>2. e.n \in Numbers(msgq[d], e.mitt)
  BY DEF ToSet, Numbers, Matches
<1>3. e.n \in received[d][e.mitt] + 1 .. accepted[e.mitt][d]
  BY <1>1, <1>2 DEF NothingLost
<1>4. received[d][e.mitt] \in Nat /\ accepted[e.mitt][d] \in Nat
  BY <1>1 DEF MailTypes
<1> QED BY <1>1, <1>3, <1>4

\* A sender that suspends itself is marked on its last message.
LEMMA SendQueueTells ==
  ASSUME TypeOK, TellTypes, MarksAgree, SignalsAgree, TellInv,
         NEW t \in Thread, NEW b \in Bsize, SendQueue(t, b)
  PROVE  TellInv'
<1> DEFINE d == peer[t]
<1>1. d \in Thread /\ msgq[d] \in Seq(Entry)
  BY DEF TellTypes, MailTypes
<1>2. PICK e \in Entry :
           /\ e.mitt = t /\ e.n = accepted[t][d] + 1
           /\ msgq' = [msgq EXCEPT ![d] = Append(@, e)]
           /\ \/ /\ e.susp
                 /\ Goto(t, "send_blocked")
                 /\ stato' = [stato EXCEPT ![t] = "WAITING_ON_SEND"]
                 /\ UNCHANGED peer
              \/ /\ ~e.susp
                 /\ Return(t)
                 /\ UNCHANGED stato
  BY SendQueueEntry
<1>3. /\ pc[t] = "send" /\ UNCHANGED <<drain, received>>
      /\ accepted' = [accepted EXCEPT ![t][d] = @ + 1]
  BY SendQueueSteps, Zenon DEF Accept
<1>4. /\ accepted'[t][d] = e.n
      /\ \A x \in Thread \ {t} : accepted'[x] = accepted[x]
  BY <1>1, <1>2, <1>3 DEF TellTypes, MailTypes
<1>5. /\ pc'[t] \in {"send_blocked", "run"}
      /\ \A x \in Thread \ {t} : /\ pc'[x] = pc[x] /\ stato'[x] = stato[x]
                                  /\ peer'[x] = peer[x]
      /\ e.susp => stato'[t] = "WAITING_ON_SEND"
  <2>1. CASE e.susp
    <3>1. /\ Goto(t, "send_blocked") /\ UNCHANGED peer
          /\ stato' = [stato EXCEPT ![t] = "WAITING_ON_SEND"]
      BY <1>2, <2>1
    <3> QED BY <3>1 DEF TellTypes, MailTypes, Goto
  <2>2. CASE ~e.susp
    <3>1. Return(t) /\ UNCHANGED stato
      BY <1>2, <2>2
    <3> QED BY <2>2, <3>1 DEF TellTypes, MailTypes, Goto, Return
  <2> QED BY <2>1, <2>2
<1>6. /\ msgq'[d] = Append(msgq[d], e)
      /\ \A x \in Thread \ {d} : msgq'[x] = msgq[x]
  BY <1>1, <1>2 DEF TellTypes, MailTypes
<1> HIDE DEF d
<1>7. ToSet(msgq'[d]) \subseteq ToSet(msgq[d]) \cup {e}
  <2>1. \A i \in DOMAIN msgq'[d] : msgq'[d][i] = e \/ (i \in DOMAIN msgq[d] /\ msgq'[d][i] = msgq[d][i])
    BY <1>1, <1>6, AppendProperties
  <2> QED BY <2>1 DEF ToSet
<1>8. ASSUME NEW x \in Thread, NEW f \in ToSet(msgq[x]) \cup ToSet(drain[x]), f.susp
      PROVE  Told(x, f)'
  <2>1. f.mitt \in Thread
    BY ElementTypes DEF TellTypes, MailTypes
  <2>2. f.mitt # t
    BY <1>3, <1>8, MarkedAsleep
  <2> QED BY <1>4, <1>5, <2>1, <2>2 DEF TellInv, MarksTold, Told
<1>9. ASSUME NEW x \in Thread, x = d
      PROVE  Told(x, e)'
  BY <1>2, <1>4, <1>5, <1>9 DEF Told
<1>10. MarksTold'
  <2> SUFFICES ASSUME NEW x \in Thread
               PROVE  /\ \A f \in ToSet(msgq'[x]) \cup ToSet(drain'[x]) : Told(x, f)'
                      /\ \A f \in ToSet(drain'[x]) :
                           f.susp => received'[x][f.mitt] < f.n
    BY DEF MarksTold, ToSet
  <2>1. ASSUME NEW f \in ToSet(msgq[x]) \cup ToSet(drain[x])
        PROVE  Told(x, f)'
    <3>1. CASE f.susp
      BY <1>8, <3>1
    <3>2. CASE ~f.susp
      BY <3>2 DEF Told
    <3> QED BY <3>1, <3>2
  <2>2. ASSUME NEW f \in ToSet(msgq'[x])
        PROVE  Told(x, f)'
    <3>1. CASE f \in ToSet(msgq[x])
      BY <2>1, <3>1
    <3>2. CASE x = d /\ f = e
      BY <1>9, <3>2
    <3> QED BY <1>6, <1>7, <3>1, <3>2
  <2> QED BY <1>3, <2>1, <2>2 DEF TellInv, MarksTold
<1>11. ReceivedKept /\ EndingKept
  BY <1>3, <1>5 DEF ReceivedKept, EndingKept, Ending, Drained
<1>12. ASSUME NEW x \in Thread PROVE KnowsOn(x)
  <2>1. pc[x] \in Telling => pc[peer[x]] = "send_blocked" /\ peer[x] \in Thread
    BY DEF Telling, SignalsAgree, SignalAgrees, TellTypes, MailTypes
  <2> QED BY <1>3, <1>4, <1>5, <2>1 DEF KnowsOn, Knowing, Telling
<1>13. ResultsAgree'
  BY <1>11, <1>12, ResultStays DEF TellInv, ResultsAgree
<1> QED BY <1>10, <1>13 DEF TellInv

\* Taking a marked message is what its sender is about to be told.
LEMMA RecvTakeTells ==
  ASSUME TypeOK, TellTypes, CopyEmpty, MarksAgree, SignalsAgree, MailInv, TellInv,
         NEW t \in Thread, RecvTake(t)
  PROVE  TellInv'
<1>1. PICK k \in DOMAIN msgq[t] :
           /\ msgq[t][k] \in Entry
           /\ \A j \in Matches({msgq[t][k].mitt}, msgq[t]) : k <= j
           /\ msgq' = [msgq EXCEPT ![t] = RemoveAt(@, k)]
           /\ Receives(t, msgq[t][k])
           /\ \/ /\ msgq[t][k].susp
                 /\ Goto(t, "recv_signal")
                 /\ peer' = [peer EXCEPT ![t] = msgq[t][k].mitt]
              \/ /\ ~msgq[t][k].susp
                 /\ Return(t)
  BY RecvTakeEntry
<1> DEFINE e == msgq[t][k]
<1>2. e \in ToSet(msgq[t]) /\ e.mitt \in Thread /\ e.n \in Nat /\ msgq[t] \in Seq(Entry)
  BY <1>1 DEF ToSet, Entry, TellTypes, MailTypes
<1>3. /\ pc[t] = "recv_scan"
      /\ UNCHANGED <<stato, drain, accepted>>
  BY DEF RecvTake
<1>4. /\ msgq'[t] = RemoveAt(msgq[t], k)
      /\ \A x \in Thread \ {t} : msgq'[x] = msgq[x]
  BY <1>1 DEF TellTypes, MailTypes
<1>5. /\ received'[t][e.mitt] = e.n
      /\ \A x, s \in Thread : x # t \/ s # e.mitt => received'[x][s] = received[x][s]
  <2>1. received' = [received EXCEPT ![t][e.mitt] = e.n]
    BY <1>1, Zenon DEF Receives
  <2> QED BY <1>2, <2>1 DEF TellTypes, MailTypes
<1> HIDE DEF e
<1>6. /\ \A x \in Thread \ {t} : pc'[x] = pc[x] /\ peer'[x] = peer[x]
      /\ \/ e.susp /\ pc'[t] = "recv_signal" /\ peer'[t] = e.mitt
         \/ ~e.susp /\ pc'[t] = "run"
  BY <1>1 DEF TellTypes, MailTypes, Goto, Return, e
<1>7. received[t][e.mitt] < e.n /\ e.n <= accepted[e.mitt][t]
  BY <1>2, <1>3, QueuedAhead DEF TellTypes, MailInv, Drained
<1>8. ReceivedKept
  <2>1. received[t][e.mitt] # accepted[e.mitt][t]
    <3>1. received[t][e.mitt] \in Nat /\ accepted[e.mitt][t] \in Nat
      BY <1>2 DEF TellTypes, MailTypes
    <3> QED BY <1>2, <1>7, <3>1
  <2>2. pc[t] \notin Ending \cup {"recv_signal"}
    BY <1>3 DEF Ending, Drained
  <2> QED BY <1>5, <2>1, <2>2 DEF ReceivedKept
<1>9. EndingKept
  BY <1>3, <1>6 DEF EndingKept, Ending, Drained
<1>10. MarkFrame
  <2>1. ToSet(msgq'[t]) \subseteq ToSet(msgq[t])
    <3>1. \A i \in DOMAIN msgq'[t] : \E u \in DOMAIN msgq[t] : msgq'[t][i] = msgq[t][u]
      BY <1>2, <1>4, RemoveMoves
    <3> QED BY <3>1 DEF ToSet
  <2> QED BY <1>3, <1>4, <2>1 DEF MarkFrame
<1>11. MarksTold'
  BY <1>8, <1>10, MarksStay DEF TellInv
<1>12. ASSUME NEW x \in Thread PROVE ResultAgrees(x)'
  <2>1. CASE x # t
    <3>1. KnowsOn(x)
      BY <1>3, <1>6, <2>1 DEF KnowsOn
    <3> QED BY <1>8, <1>9, <3>1, ResultStays DEF TellInv, ResultsAgree
  <2>2. CASE x = t /\ e.susp
    <3>1. e.n = accepted[e.mitt][t] /\ stato[e.mitt] = "WAITING_ON_SEND"
      BY <1>2, <2>2 DEF TellInv, MarksTold, Told
    <3> QED BY <1>3, <1>5, <1>6, <2>2, <3>1 DEF ResultAgrees, Knowing
  <2>3. CASE x = t /\ ~e.susp
    BY <1>6, <2>3 DEF ResultAgrees, Knowing
  <2> QED BY <2>1, <2>2, <2>3
<1> QED BY <1>11, <1>12 DEF TellInv, ResultsAgree

\* A message handed over concerns no suspended sender.
LEMMA RecvWokenTells ==
  ASSUME TellTypes, CopyEmpty, MarksAgree, SignalsAgree, MailInv, TellInv,
         NEW t \in Thread, RecvWoken(t)
  PROVE  TellInv'
<1>1. /\ UNCHANGED <<msgq, drain, accepted>>
      /\ pc[t] = "recv_woken" /\ pc'[t] = "run"
      /\ \A x \in Thread \ {t} : /\ pc'[x] = pc[x] /\ stato'[x] = stato[x]
                                  /\ peer'[x] = peer[x]
  BY ReceivingKeepsMail DEF RecvWoken, TellTypes, MailTypes, Goto, Return
<1>2. pc[t] \notin Ending \cup {"recv_signal"} /\ pc[t] \notin Drained
  BY <1>1 DEF Ending, Drained
<1>3. ReceivedKept
  <2>1. CASE slot[t] = Null
    BY <2>1 DEF RecvWoken, ReceivedKept
  <2>2. CASE slot[t] # Null
    <3> DEFINE m == slot[t].mitt
    <3>1. m \in Thread
      BY <2>2 DEF TellTypes, MailTypes, Msg
    <3>2. \A x, s \in Thread : x # t \/ s # m => received'[x][s] = received[x][s]
      <4>1. received' = [received EXCEPT ![t][m] = slot[t].n]
        BY <2>2 DEF RecvWoken, Receives
      <4> QED BY <3>1, <4>1 DEF TellTypes, MailTypes
    <3>3. slot[t].n \in Direct(m, t)
      BY <2>2 DEF Direct
    <3> HIDE DEF m
    <3>4. slot[t].n \in received[t][m] + 1 .. accepted[m][t]
      BY <1>2, <3>1, <3>3 DEF MailInv, NothingLost
    <3>5. received[t][m] # accepted[m][t]
      <4>1. received[t][m] \in Nat /\ accepted[m][t] \in Nat
        BY <3>1 DEF TellTypes, MailTypes
      <4> QED BY <3>4, <4>1
    <3> QED BY <1>2, <3>2, <3>5 DEF ReceivedKept
  <2> QED BY <2>1, <2>2
<1>4. EndingKept
  BY <1>1, <1>2 DEF EndingKept
<1>5. MarkFrame
  <2>1. ASSUME NEW d \in Thread, NEW e \in ToSet(msgq[d]) \cup ToSet(drain[d]), e.susp
        PROVE  stato'[e.mitt] = stato[e.mitt]
    <3>1. e.mitt \in Thread
      BY ElementTypes DEF TellTypes, MailTypes
    <3> QED BY <1>1, <2>1, <3>1, MarkedAsleep
  <2> QED BY <1>1, <2>1 DEF MarkFrame
<1>6. ASSUME NEW x \in Thread PROVE KnowsOn(x)
  <2>1. pc[x] \in Telling => pc[peer[x]] = "send_blocked" /\ peer[x] \in Thread
    BY DEF Telling, SignalsAgree, SignalAgrees, TellTypes, MailTypes
  <2> QED BY <1>1, <2>1 DEF KnowsOn, Knowing, Telling
<1>7. MarksTold'
  BY <1>3, <1>5, MarksStay DEF TellInv
<1>8. ResultsAgree'
  BY <1>3, <1>4, <1>6, ResultStays DEF TellInv, ResultsAgree
<1> QED BY <1>7, <1>8 DEF TellInv

\* The sender woken knows what the thread that wakes it was to tell.
LEMMA SignalTells ==
  ASSUME TellTypes, CopyEmpty, MarksAgree, SignalsAgree, TellInv,
         NEW t \in Thread, RecvSignal(t) \/ ExitDrainSignal(t)
  PROVE  TellInv'
<1> DEFINE y == peer[t]
<1>1. /\ pc[t] \in Telling /\ y \in Thread
      /\ UNCHANGED <<stato, msgq, drain, accepted, received>>
  BY DEF RecvSignal, ExitDrainSignal, Telling, TellTypes, MailTypes, fields, locals, history
<1>2. pc[y] = "send_blocked" /\ peer[y] = t /\ y # t
  BY <1>1 DEF Telling, SignalsAgree, SignalAgrees
<1>3. /\ pc'[y] = "send_woken" /\ peer'[y] = t
      /\ pc'[t] \in {"run", "exit_drain"}
      /\ pc[t] = "exit_drain_signal" => pc'[t] = "exit_drain"
      /\ \A x \in Thread \ {t, y} : pc'[x] = pc[x] /\ peer'[x] = peer[x]
  <2>1. CASE RecvSignal(t)
    BY <1>1, <1>2, <2>1 DEF RecvSignal, SignalPeer, Woken, TellTypes, MailTypes
  <2>2. CASE ExitDrainSignal(t)
    BY <1>1, <1>2, <2>2 DEF ExitDrainSignal, SignalPeer, Woken, TellTypes, MailTypes, locals
  <2> QED BY <2>1, <2>2
<1> HIDE DEF y
<1>4. ReceivedKept /\ MarkFrame
  BY <1>1 DEF ReceivedKept, MarkFrame
<1>5. EndingKept
  BY <1>1, <1>2, <1>3 DEF EndingKept, Ending, Drained, Telling
<1>6. ASSUME NEW x \in Thread PROVE ResultAgrees(x)'
  <2>1. CASE x = y
    <3>1. CASE pc[t] = "recv_signal"
      <4>1. stato[y] = "WAITING_ON_SEND" /\ received[t][y] = accepted[y][t]
        BY <3>1 DEF TellInv, ResultsAgree, ResultAgrees, y
      <4> QED BY <1>1, <1>3, <2>1, <4>1 DEF ResultAgrees, Result, Knowing
    <3>2. CASE pc[t] = "exit_drain_signal"
      <4>1. stato[y] # "WAITING_ON_SEND" /\ received[t][y] # accepted[y][t]
        BY <3>2 DEF TellInv, ResultsAgree, ResultAgrees, y
      <4>2. pc'[t] \in Ending
        BY <1>3, <3>2 DEF Ending, Drained
      <4> QED BY <1>1, <1>3, <2>1, <4>1, <4>2 DEF ResultAgrees, Result, Knowing
    <3> QED BY <1>1, <3>1, <3>2 DEF Telling
  <2>2. CASE x = t
    BY <1>3, <2>2 DEF ResultAgrees, Knowing
  <2>3. CASE x # y /\ x # t
    <3>1. KnowsOn(x)
      BY <1>1, <1>3, <2>3 DEF KnowsOn
    <3> QED BY <1>4, <1>5, <3>1, ResultStays DEF TellInv, ResultsAgree
  <2> QED BY <2>1, <2>2, <2>3
<1>7. MarksTold'
  BY <1>4, MarksStay DEF TellInv
<1> QED BY <1>6, <1>7 DEF TellInv, ResultsAgree

\* The marks move with the mailbox, whose messages were not received.
LEMMA ExitSwapTells ==
  ASSUME TellTypes, CopyEmpty, MailInv, TellInv, NEW t \in Thread, ExitSwap(t)
  PROVE  TellInv'
<1>1. /\ UNCHANGED <<stato, peer, accepted, received>>
      /\ pc[t] = "exit_swap" /\ pc'[t] = "exit_drain"
      /\ msgq'[t] = <<>> /\ drain'[t] = msgq[t]
      /\ \A x \in Thread \ {t} : /\ pc'[x] = pc[x] /\ msgq'[x] = msgq[x]
                                  /\ drain'[x] = drain[x]
  BY DEF ExitSwap, TellTypes, MailTypes, Goto, history
<1>2. MarksTold'
  <2> SUFFICES ASSUME NEW x \in Thread
               PROVE  /\ \A f \in ToSet(msgq'[x]) \cup ToSet(drain'[x]) : Told(x, f)'
                      /\ \A f \in ToSet(drain'[x]) :
                           f.susp => received'[x][f.mitt] < f.n
    BY DEF MarksTold, ToSet
  <2>1. \A f : Told(x, f) => Told(x, f)'
    BY <1>1 DEF Told
  <2>2. CASE x = t
    <3>1. ToSet(msgq'[x]) = {} /\ ToSet(drain'[x]) = ToSet(msgq[t])
      BY <1>1, <2>2 DEF ToSet
    <3>2. \A f \in ToSet(msgq[t]) : received[t][f.mitt] < f.n
      BY <1>1, QueuedAhead DEF TellTypes, MailInv, Drained
    <3> QED BY <1>1, <2>1, <2>2, <3>1, <3>2 DEF TellInv, MarksTold
  <2>3. CASE x # t
    BY <1>1, <2>1, <2>3 DEF TellInv, MarksTold
  <2> QED BY <2>2, <2>3
<1>3. ReceivedKept /\ EndingKept
  BY <1>1 DEF ReceivedKept, EndingKept, Ending, Drained
<1>4. \A x \in Thread : KnowsOn(x)
  BY <1>1 DEF KnowsOn, Knowing, Telling
<1>5. ResultsAgree'
  BY <1>3, <1>4, ResultStays DEF TellInv, ResultsAgree
<1> QED BY <1>2, <1>5 DEF TellInv

\* Dropping a marked message is what its sender, and no other, is told.
LEMMA ExitDrainTells ==
  ASSUME TypeOK, TellTypes, CopyEmpty, MarksAgree, SignalsAgree, TellInv,
         NEW t \in Thread, ExitDrain(t)
  PROVE  TellInv'
<1>1. PICK e \in Entry :
           /\ drain[t] # <<>> /\ e = Head(drain[t])
           /\ drain' = [drain EXCEPT ![t] = Tail(@)]
           /\ \/ /\ e.susp
                 /\ stato' = [stato EXCEPT ![e.mitt] = "WAITING_ON_SEND_TERM_DEST"]
                 /\ peer' = [peer EXCEPT ![t] = e.mitt]
                 /\ Goto(t, "exit_drain_signal")
              \/ /\ ~e.susp
                 /\ UNCHANGED <<stato, peer, pc>>
  BY ExitDrainMessage
<1>2. /\ UNCHANGED <<msgq, accepted, received>> /\ pc[t] = "exit_drain"
      /\ drain'[t] = Tail(drain[t])
      /\ \A x \in Thread \ {t} : drain'[x] = drain[x]
  BY <1>1 DEF ExitDrain, TellTypes, history
<1>3. /\ drain[t] \in Seq(Entry) /\ e.mitt \in Thread
      /\ e \in ToSet(drain[t]) /\ ToSet(drain'[t]) \subseteq ToSet(drain[t])
  <2>1. drain[t] \in Seq(Entry) /\ e.mitt \in Thread
    BY DEF TellTypes, Entry
  <2>2. 1 \in 1 .. Len(drain[t]) /\ Len(drain[t]) \in Nat
        /\ DOMAIN drain[t] = 1 .. Len(drain[t]) /\ Head(drain[t]) = drain[t][1]
    BY <1>1, <2>1, EmptySeq, LenProperties
  <2>3. /\ DOMAIN Tail(drain[t]) = 1 .. Len(drain[t]) - 1
        /\ \A i \in 1 .. Len(drain[t]) - 1 : Tail(drain[t])[i] = drain[t][i + 1]
    BY <1>1, <2>1, HeadTailProperties
  <2>4. \A i \in 1 .. Len(drain[t]) - 1 : i + 1 \in DOMAIN drain[t]
    BY <2>2
  <2> QED BY <1>1, <1>2, <2>1, <2>2, <2>3, <2>4 DEF ToSet
<1>4. \A x \in Thread \ {t} : pc'[x] = pc[x] /\ peer'[x] = peer[x]
  <2>1. CASE e.susp
    <3>1. Goto(t, "exit_drain_signal") /\ peer' = [peer EXCEPT ![t] = e.mitt]
      BY <1>1, <2>1
    <3> QED BY <3>1 DEF TellTypes, MailTypes, Goto
  <2>2. CASE ~e.susp
    BY <1>1, <2>2
  <2> QED BY <2>1, <2>2
<1>5. ReceivedKept
  BY <1>2 DEF ReceivedKept
<1>6. EndingKept
  BY <1>1, <1>2, <1>4 DEF EndingKept, Ending, Drained, Goto, TellTypes, MailTypes
<1>7. CASE ~e.susp
  <2>1. UNCHANGED <<stato, peer, pc>>
    BY <1>1, <1>7
  <2>2. MarkFrame
    BY <1>2, <1>3, <2>1 DEF MarkFrame
  <2>3. \A x \in Thread : KnowsOn(x)
    BY <1>2, <2>1 DEF KnowsOn
  <2>4. MarksTold'
    BY <1>5, <2>2, MarksStay DEF TellInv
  <2> QED BY <1>5, <1>6, <2>3, <2>4, ResultStays DEF TellInv, ResultsAgree
<1>8. CASE e.susp
  <2> DEFINE m == e.mitt
  <2>1. /\ stato'[m] = "WAITING_ON_SEND_TERM_DEST"
        /\ \A x \in Thread \ {m} : stato'[x] = stato[x]
        /\ pc'[t] = "exit_drain_signal" /\ peer'[t] = m
    <3>1. /\ stato' = [stato EXCEPT ![m] = "WAITING_ON_SEND_TERM_DEST"]
          /\ peer' = [peer EXCEPT ![t] = m]
          /\ Goto(t, "exit_drain_signal")
      BY <1>1, <1>8
    <3> QED BY <1>3, <3>1 DEF TellTypes, MailTypes, Goto
  <2>2. m \in MarkedBy(drain[t]) /\ m \notin MarkedBy(Tail(drain[t]))
    BY <1>1, <1>3, <1>8, TailMarks DEF MarksAgree
  <2>3. pc[m] = "send_blocked" /\ peer[m] = t
    BY <2>2 DEF MarksAgree
  <2> HIDE DEF m
  <2>4. ASSUME NEW d \in Thread, NEW f \in ToSet(msgq'[d]) \cup ToSet(drain'[d]), f.susp
        PROVE  stato'[f.mitt] = stato[f.mitt]
    <3>1. f \in ToSet(msgq[d]) \cup ToSet(drain[d])
      BY <1>2, <1>3, <2>4
    <3>2. f.mitt \in Thread
      BY <3>1, ElementTypes DEF TellTypes, MailTypes
    <3>3. ASSUME f.mitt = m PROVE FALSE
      <4>1. d = t
        BY <2>3, <2>4, <3>1, <3>3, MarkedAsleep
      <4>2. m \notin MarkedBy(msgq[t])
        BY <2>2 DEF MarksAgree
      <4>3. m \in MarkedBy(msgq[t]) \cup MarkedBy(Tail(drain[t]))
        BY <1>2, <2>4, <3>3, <4>1, ElementsMarked
      <4> QED BY <2>2, <4>2, <4>3
    <3> QED BY <2>1, <3>2, <3>3
  <2>5. MarkFrame
    BY <1>2, <1>3, <2>4 DEF MarkFrame
  <2>6. MarksTold'
    BY <1>5, <2>5, MarksStay DEF TellInv
  <2>7. ASSUME NEW x \in Thread PROVE ResultAgrees(x)'
    <3>1. CASE x # t
      <4>1. pc[x] \in Telling => peer[x] \in Thread /\ peer[x] # m
        <5>1. pc[x] \in Telling => peer[x] \notin MarkedBy(drain[t])
          BY DEF Telling, SignalsAgree, SignalAgrees
        <5> QED BY <2>2, <5>1 DEF TellTypes, MailTypes
      <4>2. pc[x] \in Knowing => x # m
        BY <2>3 DEF Knowing
      <4>3. KnowsOn(x)
        BY <1>2, <1>4, <2>1, <3>1, <4>1, <4>2 DEF KnowsOn
      <4> QED BY <1>5, <1>6, <4>3, ResultStays DEF TellInv, ResultsAgree
    <3>2. CASE x = t
      <4>1. received[t][m] < e.n /\ e.n = accepted[m][t]
        BY <1>3, <1>8 DEF TellInv, MarksTold, Told, m
      <4>2. received[t][m] # accepted[m][t]
        <5>1. received[t][m] \in Nat /\ accepted[m][t] \in Nat
          BY <1>3 DEF TellTypes, MailTypes, m
        <5> QED BY <4>1, <5>1
      <4> QED BY <1>2, <2>1, <3>2, <4>2 DEF ResultAgrees, Knowing
    <3> QED BY <3>1, <3>2
  <2> QED BY <2>6, <2>7 DEF TellInv, ResultsAgree
<1> QED BY <1>7, <1>8

-----------------------------------------------------------------------------
(* The result of a send is true *)

\* Nobody is suspended at the start.
LEMMA TellInit == Init => TellInv
<1> SUFFICES ASSUME Init PROVE TellInv
  OBVIOUS
<1>1. \A t \in Thread : pc[t] \in {"run", "none"} /\ msgq[t] = <<>> /\ drain[t] = <<>>
  BY DEF Init, InitBut
<1>2. ToSet(<<>>) = {}
  BY DEF ToSet
<1>3. MarksTold
  BY <1>1, <1>2 DEF MarksTold
<1>4. ResultsAgree
  BY <1>1 DEF ResultsAgree, ResultAgrees, Knowing
<1> QED BY <1>3, <1>4 DEF TellInv

\* Every step keeps it, as long as no wait ends without a signal.
LEMMA TellStep ==
  ASSUME TypeOK, CreationOwned, MarksAgree, SignalsAgree, CopyEmpty, MailInv, TellInv,
         NEW t \in Thread, Program(t) \/ Runtime(t)
  PROVE  TellInv'
<1>0. TellTypes
  BY TypesGiveMailTypes DEF TellTypes, TypeOK
<1>1. CASE Program(t)
  BY <1>0, <1>1, TellProgram, TellStays
<1>2. CASE Creating(t)
  BY <1>0, <1>2, TellCreating, TellStays
<1>3. CASE Sending(t)
  BY <1>0, <1>3, TellSending, TellStays, SendQueueTells
<1>4. CASE Receiving(t)
  BY <1>0, <1>4, TellReceiving, TellStays, RecvTakeTells, RecvWokenTells, SignalTells
<1>5. CASE Exiting(t)
  BY <1>0, <1>5, TellExiting, TellStays, ExitSwapTells, ExitDrainTells, SignalTells
<1> QED BY <1>1, <1>2, <1>3, <1>4, <1>5 DEF Runtime

-----------------------------------------------------------------------------
(* Whom calls name *)

NameTypes ==
  /\ mitt \in [Thread -> SUBSET Thread]
  /\ slot \in [Thread -> Msg \cup {Null}]
  /\ pc \in [Thread -> Control]
  /\ peer \in [Thread -> Thread]
  /\ alts \in [Thread -> Seq(Alternative)]
  /\ todo \in [Thread -> SUBSET Thread]

Waiting == RecvWaits \cup {"recv_build"}

\* Steps that begin neither a send nor the wait of a receive; nobody is forgotten.
NamesQuiet ==
  /\ Known \subseteq Known'
  /\ \A x \in Thread :
       /\ pc'[x] = "create_undo" => pc[x] = "create_undo" \/ CreateFails
       /\ pc'[x] \in {"send_lock", "send"} =>
            pc[x] \in {"send_lock", "send"} /\ peer'[x] = peer[x]
       /\ pc'[x] \in Waiting =>
            /\ pc[x] \in Waiting /\ alts'[x] = alts[x]
            /\ mitt'[x] \cup todo'[x] \subseteq mitt[x] \cup todo[x]
            /\ slot'[x] = slot[x] \/ slot'[x].mitt \in mitt[x]

\* Such steps keep the names.
LEMMA NamesStay ==
  ASSUME NamesAgree, NamesQuiet
  PROVE  NamesAgree'
<1> SUFFICES ASSUME NEW x \in Thread
             PROVE  /\ pc'[x] = "create_undo" => CreateFails
                    /\ pc'[x] \in {"send_lock", "send"} => peer'[x] \in Known' \ {x}
                    /\ pc'[x] \in Waiting =>
                         /\ mitt'[x] \cup todo'[x] \subseteq Senders(alts'[x])
                         /\ slot'[x] # Null => slot'[x].mitt \in Senders(alts'[x])
  BY DEF NamesAgree, Waiting, Senders
<1>1. /\ pc[x] = "create_undo" => CreateFails
      /\ pc[x] \in {"send_lock", "send"} => peer[x] \in Known \ {x}
      /\ pc[x] \in Waiting =>
           /\ mitt[x] \cup todo[x] \subseteq Senders(alts[x])
           /\ slot[x] # Null => slot[x].mitt \in Senders(alts[x])
  BY DEF NamesAgree, Waiting
<1> QED BY <1>1 DEF NamesQuiet

\* A send names a thread that is known, ...
LEMMA NamesProgram ==
  ASSUME NameTypes, NamesAgree, NEW t \in Thread, Program(t)
  PROVE  NamesAgree'
<1> USE DEF NameTypes, Goto, fields, locals, history, RecvWaits, Known
<1>1. CASE \E c \in Thread : Create(t, c)
  <2>1. PICK c \in Thread : Create(t, c)
    BY <1>1
  <2>2. NamesQuiet
    BY <2>1 DEF Create, CreateInternal, NamesQuiet, Waiting
  <2> QED BY <2>2, NamesStay
<1>2. CASE Register(t)
  <2>1. NamesQuiet
    BY <1>2 DEF Register, CreateInternal, NamesQuiet, Waiting
  <2> QED BY <2>1, NamesStay
<1>3. CASE \E d \in Thread : SendCall(t, d)
  <2>1. PICK d \in Thread : SendCall(t, d)
    BY <1>3
  <2>2. Known' = Known
    BY <2>1 DEF SendCall, Call
  <2> HIDE DEF Known
  <2>3. ASSUME NEW x \in Thread
        PROVE  /\ pc'[x] = "create_undo" => CreateFails
               /\ pc'[x] \in {"send_lock", "send"} => peer'[x] \in Known' \ {x}
               /\ pc'[x] \in Waiting =>
                    /\ mitt'[x] \cup todo'[x] \subseteq Senders(alts'[x])
                    /\ slot'[x] # Null => slot'[x].mitt \in Senders(alts'[x])
    BY <2>1, <2>2 DEF SendCall, Call, NamesAgree, Waiting
  <2> QED BY <2>3 DEF NamesAgree, Waiting, Senders
<1>4. CASE \E S \in SUBSET Thread, nb \in BOOLEAN : ReceiveCall(t, S, nb)
  <2>1. PICK S \in SUBSET Thread, nb \in BOOLEAN : ReceiveCall(t, S, nb)
    BY <1>4
  <2>2. NamesQuiet
    BY <2>1 DEF ReceiveCall, Call, NamesQuiet, Waiting
  <2> QED BY <2>2, NamesStay
<1>5. CASE \E args \in Cases : CaseCall(t, args)
  <2>1. PICK args \in Cases : CaseCall(t, args)
    BY <1>5
  <2>2. NamesQuiet
    BY <2>1 DEF CaseCall, Call, NamesQuiet, Waiting
  <2> QED BY <2>2, NamesStay
<1>6. CASE ExitCall(t)
  <2>1. NamesQuiet
    BY <1>6 DEF ExitCall, NamesQuiet, Waiting
  <2> QED BY <2>1, NamesStay
<1> QED
  BY <1>1, <1>2, <1>3, <1>4, <1>5, <1>6 DEF Program

\* ... which a creation that fails does not take back, ...
LEMMA NamesCreating ==
  ASSUME NameTypes, NamesAgree, CreationOwned, NEW t \in Thread, Creating(t)
  PROVE  NamesAgree'
<1> USE DEF NameTypes, NamesQuiet, Goto, Return, fields, locals, history, RecvWaits, Known,
            Waiting, CreationOwned, Creating_pc
<1>1. CASE PthreadCreate(t)
  BY <1>1, NamesStay DEF PthreadCreate
<1>2. CASE PthreadCreateFails(t)
  BY <1>2, NamesStay DEF PthreadCreateFails
<1>3. CASE CreateUndo(t)
  <2>1. CreateFails /\ pc[peer[t]] = "new"
    BY <1>3 DEF CreateUndo, NamesAgree
  <2> QED BY <1>3, <2>1, NamesStay DEF CreateUndo
<1>4. CASE CreateMax(t)
  BY <1>4, NamesStay DEF CreateMax
<1>5. CASE StartRoutine(t)
  BY <1>5, NamesStay DEF StartRoutine
<1> QED
  BY <1>1, <1>2, <1>3, <1>4, <1>5 DEF Creating

\* ... a message is handed to a receiver that queues its sender, ...
LEMMA NamesSending ==
  ASSUME NameTypes, NamesAgree, NEW t \in Thread, Sending(t)
  PROVE  NamesAgree'
<1> USE DEF NameTypes, NamesQuiet, Goto, Return, SignalPeer, Woken, fields, locals, history,
            RecvWaits, Known, Waiting
<1>1. CASE SendLock(t)
  BY <1>1, NamesStay DEF SendLock
<1>2. CASE SendDirect(t)
  BY <1>2, NamesStay DEF SendDirect, Expected
<1>3. CASE \E nb \in BOOLEAN : SendRefuse(t, nb)
  BY <1>3, NamesStay DEF SendRefuse
<1>4. CASE \E b \in Bsize : SendQueue(t, b)
  <2>1. PICK b \in Bsize : SendQueue(t, b)
    BY <1>4
  <2>2. /\ pc[t] = "send"
        /\ UNCHANGED <<mitt, slot, todo>>
        /\ \/ Goto(t, "send_blocked") /\ UNCHANGED <<peer, alts>>
           \/ Return(t)
    BY <2>1, SendQueueSteps
  <2> QED BY <2>2, NamesStay
<1>5. CASE SendSignal(t)
  BY <1>5, NamesStay DEF SendSignal
<1>6. CASE SendWoken(t)
  BY <1>6, NamesStay DEF SendWoken
<1>7. CASE SendRet(t)
  BY <1>7, NamesStay DEF SendRet
<1> QED
  BY <1>1, <1>2, <1>3, <1>4, <1>5, <1>6, <1>7 DEF Sending

\* ... a receiver queues the senders it names, ...
LEMMA NamesReceiving ==
  ASSUME NameTypes, NamesAgree, PathsAgree, NEW t \in Thread, Receiving(t)
  PROVE  NamesAgree'
<1> USE DEF NameTypes, NamesQuiet, Goto, Return, SignalPeer, Woken, fields, locals, history,
            RecvWaits, Known, Waiting
<1>1. CASE RecvLock(t)
  BY <1>1, NamesStay DEF RecvLock
<1>2. CASE RecvTake(t)
  BY <1>2, NamesStay DEF RecvTake
<1>3. CASE RecvDefault(t)
  BY <1>3, NamesStay DEF RecvDefault
<1>4. CASE RecvNone(t)
  <2>1. Known' = Known
    BY <1>4 DEF RecvNone
  <2>2. mitt[t] = {} /\ slot[t] = Null
    BY <1>4 DEF RecvNone, PathsAgree
  <2> HIDE DEF Known
  <2>3. ASSUME NEW x \in Thread
        PROVE  /\ pc'[x] = "create_undo" => CreateFails
               /\ pc'[x] \in {"send_lock", "send"} => peer'[x] \in Known' \ {x}
               /\ pc'[x] \in Waiting =>
                    /\ mitt'[x] \cup todo'[x] \subseteq Senders(alts'[x])
                    /\ slot'[x] # Null => slot'[x].mitt \in Senders(alts'[x])
    <3> HIDE DEF Senders
    <3> QED BY <1>4, <2>1, <2>2 DEF RecvNone, Awaited, NamesAgree
  <2> QED BY <2>3 DEF NamesAgree, Senders
<1>5. CASE RecvSignal(t)
  BY <1>5, NamesStay DEF RecvSignal
<1>6. CASE \E s \in Thread : RecvBuild(t, s)
  <2>1. PICK s \in Thread : RecvBuild(t, s)
    BY <1>6
  <2> QED BY <2>1, NamesStay DEF RecvBuild
<1>7. CASE RecvNobody(t)
  BY <1>7, NamesStay DEF RecvNobody
<1>8. CASE RecvWait(t)
  BY <1>8, NamesStay DEF RecvWait
<1>9. CASE RecvWoken(t)
  BY <1>9, NamesStay DEF RecvWoken, MittAfterWait
<1> QED
  BY <1>1, <1>2, <1>3, <1>4, <1>5, <1>6, <1>7, <1>8, <1>9 DEF Receiving

\* ... and a terminating thread only takes itself out of a queue.
LEMMA NamesExiting ==
  ASSUME NameTypes, NamesAgree, NEW t \in Thread, Exiting(t)
  PROVE  NamesAgree'
<1> USE DEF NameTypes, NamesQuiet, Goto, SignalPeer, Woken, fields, locals, history,
            RecvWaits, Known, Waiting
<1>1. CASE ExitLock(t)
  BY <1>1, NamesStay DEF ExitLock
<1>2. CASE ExitSwap(t)
  BY <1>2, NamesStay DEF ExitSwap
<1>3. CASE ExitDrain(t)
  BY <1>3, NamesStay DEF ExitDrain
<1>4. CASE ExitDrainSignal(t)
  BY <1>4, NamesStay DEF ExitDrainSignal
<1>5. CASE ExitDrained(t)
  BY <1>5, NamesStay DEF ExitDrained
<1>6. CASE ExitQLock(t)
  BY <1>6, NamesStay DEF ExitQLock
<1>7. CASE ExitSelf(t)
  BY <1>7, NamesStay DEF ExitSelf
<1>8. CASE \E x \in Thread : ExitVisit(t, x)
  BY <1>8, NamesStay DEF ExitVisit
<1>9. CASE ExitRemove(t)
  BY <1>9, NamesStay DEF ExitRemove
<1>10. CASE ExitWake(t)
  BY <1>10, NamesStay DEF ExitWake
<1>11. CASE ExitDone(t)
  BY <1>11, NamesStay DEF ExitDone
<1> QED
  BY <1>1, <1>2, <1>3, <1>4, <1>5, <1>6, <1>7, <1>8, <1>9, <1>10, <1>11 DEF Exiting

\* So the names agree, whatever waits return without a signal.
LEMMA NamesInvariant == Spec => []NamesAgree
<1>1. Init => NamesAgree
  BY DEF Init, InitBut, NamesAgree, RecvWaits
<1>2. TypeOK /\ CreationOwned /\ PathsAgree /\ NamesAgree /\ [Next]_vars => NamesAgree'
  <2> SUFFICES ASSUME TypeOK, CreationOwned, PathsAgree, NamesAgree, [Next]_vars
               PROVE  NamesAgree'
    OBVIOUS
  <2>0. NameTypes
    BY DEF TypeOK, NameTypes
  <2>1. CASE Next
    <3>1. PICK t \in Thread : Program(t) \/ Runtime(t) \/ SpuriousWakeup(t)
      BY <2>1 DEF Next
    <3>2. CASE SpuriousWakeup(t)
      <4>1. NamesQuiet
        BY <2>0, <3>2 DEF SpuriousWakeup, Woken, NameTypes, NamesQuiet, Known, Waiting,
           RecvWaits, fields, locals, history
      <4> QED BY <4>1, NamesStay
    <3> QED
      BY <2>0, <3>1, <3>2, NamesProgram, NamesCreating, NamesSending, NamesReceiving,
         NamesExiting DEF Runtime
  <2>2. CASE UNCHANGED vars
    <3>1. NamesQuiet
      BY <2>2 DEF vars, fields, locals, history, NamesQuiet, Known, Waiting, RecvWaits
    <3> QED BY <3>1, NamesStay
  <2> QED BY <2>1, <2>2
<1>3. LockInv => CreationOwned
  BY DEF LockInv
<1>4. MailInv => PathsAgree
  BY DEF MailInv
<1> QED
  BY <1>1, <1>2, <1>3, <1>4, TypeCorrect, LocksCorrect, MailInvariant, PTL DEF Spec

\* The invariant of the whole protocol holds: nobody sleeps on for nothing, nothing is
\* lost on the way, and every suspended sender is told the truth.
THEOREM Protocol == ASSUME ~Spurious PROVE Spec => []ProtocolInv
<1>1. TypeOK /\ LockInv /\ SleepInv /\ MailInv /\ TellInv /\ [Next]_vars => TellInv'
  <2> SUFFICES ASSUME TypeOK, LockInv, SleepInv, MailInv, TellInv, [Next]_vars
               PROVE  TellInv'
    OBVIOUS
  <2>0. CreationOwned /\ MarksAgree /\ SignalsAgree /\ CopyEmpty
    BY DEF LockInv, SleepInv, WakeInv, RestInv
  <2>1. CASE Next
    <3>1. PICK t \in Thread : Program(t) \/ Runtime(t)
      BY <2>1 DEF Next, SpuriousWakeup
    <3> QED BY <2>0, <3>1, TellStep
  <2>2. CASE UNCHANGED vars
    <3>1. TellQuiet
      BY <2>2 DEF TellQuiet, EndingKept, vars, fields, locals, history
    <3>2. TellTypes
      BY TypesGiveMailTypes DEF TellTypes, TypeOK
    <3> QED BY <2>0, <3>1, <3>2, TellStays
  <2> QED BY <2>1, <2>2
<1>2. SleepInv /\ MailInv /\ TellInv /\ NamesAgree => ProtocolInv
  BY DEF ProtocolInv
<1> QED
  BY <1>1, <1>2, TellInit, SleepersCorrect, LocksCorrect, MailInvariant, NamesInvariant,
     PTL DEF Spec

\* What a blocking send returns is true, for any number of threads: 0 if its message
\* was taken, 1 if the destination ended without taking it.
THEOREM SendTellsTruth == ASSUME ~Spurious PROVE Spec => []SendResultTrue
<1>1. TypeOK /\ ProtocolInv => SendResultTrue
  <2> SUFFICES ASSUME TypeOK, ProtocolInv,
                      NEW t \in Thread, pc[t] \in {"send_woken", "send_ret"}
               PROVE  IF stato[t] = "WAITING_ON_SEND"
                      THEN received[peer[t]][t] = accepted[t][peer[t]]
                      ELSE /\ received[peer[t]][t] # accepted[t][peer[t]]
                           /\ stato[peer[t]] = "STOPPED"
    BY DEF SendResultTrue
  <2>1. Result(t, peer[t])
    BY DEF ProtocolInv, TellInv, ResultsAgree, ResultAgrees, Knowing
  <2>2. peer[t] \in Thread
    BY DEF TypeOK
  <2>3. pc[peer[t]] \in Ending => stato[peer[t]] = "STOPPED"
    BY <2>2 DEF ProtocolInv, SleepInv, WakeInv, StatoAgrees
  <2> QED BY <2>1, <2>3 DEF Result
<1> QED BY <1>1, Protocol, TypeCorrect, PTL

-----------------------------------------------------------------------------
(* Mailboxes without marks *)

\* The mailbox without its marks has the same messages in the same places.
LEMMA PlainMessages ==
  ASSUME NEW q \in Seq(Entry)
  PROVE  /\ Plain(q) \in Seq(Msg) /\ Len(Plain(q)) = Len(q)
         /\ \A i \in 1 .. Len(q) : Plain(q)[i] = [mitt |-> q[i].mitt, n |-> q[i].n]
<1>1. Len(q) \in Nat /\ DOMAIN q = 1 .. Len(q)
  BY LenProperties
<1>2. \A i \in 1 .. Len(q) : q[i] \in Entry
  BY ElementOfSeq
<1>3. Plain(q) = [i \in 1 .. Len(q) |-> [mitt |-> q[i].mitt, n |-> q[i].n]]
  BY <1>1 DEF Plain
<1>4. \A i \in 1 .. Len(q) : [mitt |-> q[i].mitt, n |-> q[i].n] \in Msg
  BY <1>2 DEF Msg, Entry
<1>5. Plain(q) \in [1 .. Len(q) -> Msg]
  BY <1>3, <1>4
<1>6. Plain(q) \in Seq(Msg)
  BY <1>1, <1>5, FunctionIsSeq
<1>7. Len(Plain(q)) = Len(q)
  BY <1>1, <1>5, <1>6
<1> QED BY <1>3, <1>6, <1>7

\* Putting a message at the end and leaving its mark out can be swapped, ...
LEMMA PlainAppend ==
  ASSUME NEW q \in Seq(Entry), NEW e \in Entry
  PROVE  Plain(Append(q, e)) = Append(Plain(q), [mitt |-> e.mitt, n |-> e.n])
<1> DEFINE m == [mitt |-> e.mitt, n |-> e.n]
           a == Append(q, e)
           b == Append(Plain(q), m)
<1>1. m \in Msg
  BY DEF Msg, Entry
<1>2. /\ a \in Seq(Entry) /\ Len(a) = Len(q) + 1 /\ Len(q) \in Nat
      /\ \A i \in 1 .. Len(q) : a[i] = q[i]
      /\ a[Len(q) + 1] = e
  BY AppendProperties, LenProperties
<1>3. /\ Plain(q) \in Seq(Msg) /\ Len(Plain(q)) = Len(q)
      /\ \A i \in 1 .. Len(q) : Plain(q)[i] = [mitt |-> q[i].mitt, n |-> q[i].n]
  BY PlainMessages
<1> HIDE DEF a, m
<1>4. /\ b \in Seq(Msg) /\ Len(b) = Len(q) + 1
      /\ \A i \in 1 .. Len(q) : b[i] = Plain(q)[i]
      /\ b[Len(q) + 1] = m
  BY <1>1, <1>3, AppendProperties
<1>5. /\ Plain(a) \in Seq(Msg) /\ Len(Plain(a)) = Len(a)
      /\ \A i \in 1 .. Len(a) : Plain(a)[i] = [mitt |-> a[i].mitt, n |-> a[i].n]
  BY <1>2, PlainMessages
<1> HIDE DEF b
<1>6. ASSUME NEW i \in 1 .. Len(q) + 1
      PROVE  Plain(a)[i] = b[i]
  <2>1. Plain(a)[i] = [mitt |-> a[i].mitt, n |-> a[i].n]
    BY <1>2, <1>5
  <2>2. CASE i = Len(q) + 1
    BY <1>2, <1>4, <2>1, <2>2 DEF m
  <2>3. CASE i # Len(q) + 1
    <3>1. i \in 1 .. Len(q)
      BY <1>2, <2>3
    <3> QED BY <1>2, <1>3, <1>4, <2>1, <3>1
  <2> QED BY <2>2, <2>3
<1>7. Plain(a) = b
  BY <1>2, <1>4, <1>5, <1>6, SeqEqual
<1> QED BY <1>7 DEF a, b, m

\* ... as can taking a message out.
LEMMA PlainRemove ==
  ASSUME NEW q \in Seq(Entry), NEW k \in DOMAIN q
  PROVE  Plain(RemoveAt(q, k)) = RemoveAt(Plain(q), k)
<1> DEFINE a == RemoveAt(q, k)
           b == RemoveAt(Plain(q), k)
           up(i) == IF i < k THEN i ELSE i + 1
<1>1. k \in 1 .. Len(q) /\ Len(q) \in Nat
  BY LenProperties
<1>2. /\ a \in Seq(Entry) /\ Len(a) = Len(q) - 1
      /\ \A i \in 1 .. Len(q) - 1 : a[i] = q[up(i)]
  BY RemoveAtElements
<1>3. /\ Plain(q) \in Seq(Msg) /\ Len(Plain(q)) = Len(q)
      /\ \A i \in 1 .. Len(q) : Plain(q)[i] = [mitt |-> q[i].mitt, n |-> q[i].n]
  BY PlainMessages
<1>4. k \in DOMAIN Plain(q)
  BY <1>1, <1>3, LenProperties
<1>5. /\ b \in Seq(Msg) /\ Len(b) = Len(q) - 1
      /\ \A i \in 1 .. Len(q) - 1 : b[i] = Plain(q)[up(i)]
  BY <1>3, <1>4, RemoveAtElements
<1> HIDE DEF a, b
<1>6. /\ Plain(a) \in Seq(Msg) /\ Len(Plain(a)) = Len(a)
      /\ \A i \in 1 .. Len(a) : Plain(a)[i] = [mitt |-> a[i].mitt, n |-> a[i].n]
  BY <1>2, PlainMessages
<1>7. \A i \in 1 .. Len(q) - 1 : up(i) \in 1 .. Len(q)
  BY <1>1
<1>8. \A i \in 1 .. Len(q) - 1 : Plain(a)[i] = b[i]
  BY <1>2, <1>3, <1>5, <1>6, <1>7
<1>9. Plain(a) = b
  BY <1>2, <1>5, <1>6, <1>8, SeqEqual
<1> QED BY <1>9 DEF a, b

\* A message in front of a mailbox.
LEMMA InFront ==
  ASSUME NEW m \in Msg, NEW p \in Seq(Msg)
  PROVE  /\ <<m>> \o p \in Seq(Msg) /\ Len(<<m>> \o p) = Len(p) + 1
         /\ (<<m>> \o p)[1] = m
         /\ \A i \in 1 .. Len(p) : (<<m>> \o p)[i + 1] = p[i]
<1>1. <<m>> \in Seq(Msg) /\ Len(<<m>>) = 1 /\ <<m>>[1] = m /\ Len(p) \in Nat
  BY LenProperties
<1> DEFINE f == <<m>>
<1> HIDE DEF f
<1>2. /\ f \o p \in Seq(Msg) /\ Len(f \o p) = Len(f) + Len(p)
      /\ \A i \in 1 .. Len(f) + Len(p) :
           (f \o p)[i] = IF i <= Len(f) THEN f[i] ELSE p[i - Len(f)]
  BY <1>1, ConcatProperties DEF f
<1>3. f \in Seq(Msg) /\ Len(f) = 1 /\ f[1] = m
  BY <1>1 DEF f
<1>4. \A i \in 1 .. Len(p) : (f \o p)[i + 1] = p[i]
  <2> SUFFICES ASSUME NEW i \in 1 .. Len(p) PROVE (f \o p)[i + 1] = p[i]
    OBVIOUS
  <2>1. i + 1 \in 1 .. Len(f) + Len(p) /\ ~(i + 1 <= Len(f)) /\ i + 1 - Len(f) = i
    BY <1>1, <1>3
  <2> QED BY <1>2, <2>1
<1>5. (f \o p)[1] = m
  BY <1>1, <1>2, <1>3
<1> QED BY <1>1, <1>2, <1>3, <1>4, <1>5 DEF f

\* It stays there when another one is put at the end, ...
LEMMA FrontAppend ==
  ASSUME NEW m \in Msg, NEW p \in Seq(Msg), NEW e \in Msg
  PROVE  <<m>> \o Append(p, e) = Append(<<m>> \o p, e)
<1> DEFINE a == <<m>> \o Append(p, e)
           b == Append(<<m>> \o p, e)
           r == <<m>> \o p
           s == Append(p, e)
<1>1. /\ r \in Seq(Msg) /\ Len(r) = Len(p) + 1 /\ Len(p) \in Nat /\ r[1] = m
      /\ \A i \in 1 .. Len(p) : r[i + 1] = p[i]
  BY InFront, LenProperties
<1>2. /\ s \in Seq(Msg) /\ Len(s) = Len(p) + 1 /\ s[Len(p) + 1] = e
      /\ \A i \in 1 .. Len(p) : s[i] = p[i]
  BY AppendProperties
<1> HIDE DEF r, s
<1>3. /\ <<m>> \o s \in Seq(Msg) /\ Len(<<m>> \o s) = Len(s) + 1 /\ (<<m>> \o s)[1] = m
      /\ \A i \in 1 .. Len(s) : (<<m>> \o s)[i + 1] = s[i]
  BY <1>2, InFront
<1>4. /\ Append(r, e) \in Seq(Msg) /\ Len(Append(r, e)) = Len(r) + 1
      /\ \A i \in 1 .. Len(r) : Append(r, e)[i] = r[i]
      /\ Append(r, e)[Len(r) + 1] = e
  BY <1>1, AppendProperties
<1>5. ASSUME NEW i \in 1 .. Len(p) + 2
      PROVE  (<<m>> \o s)[i] = Append(r, e)[i]
  <2>1. CASE i = 1
    BY <1>1, <1>3, <1>4, <2>1
  <2>2. CASE i = Len(p) + 2
    <3>1. (<<m>> \o s)[Len(p) + 1 + 1] = s[Len(p) + 1]
      BY <1>1, <1>2, <1>3
    <3> QED BY <1>1, <1>2, <1>4, <2>2, <3>1
  <2>3. CASE i # 1 /\ i # Len(p) + 2
    <3>1. PICK j \in 1 .. Len(p) : i = j + 1
      <4>1. i - 1 \in 1 .. Len(p) /\ i = (i - 1) + 1
        BY <1>1, <2>3
      <4> QED BY <4>1
    <3>2. j \in 1 .. Len(s) /\ i \in 1 .. Len(r)
      BY <1>1, <1>2, <3>1
    <3>3. (<<m>> \o s)[i] = p[j]
      BY <1>2, <1>3, <3>1, <3>2
    <3>4. Append(r, e)[i] = p[j]
      BY <1>1, <1>4, <3>1, <3>2
    <3> QED BY <3>3, <3>4
  <2> QED BY <2>1, <2>2, <2>3
<1>6. <<m>> \o s = Append(r, e)
  <2> DEFINE x == <<m>> \o s
             y == Append(r, e)
  <2>1. /\ x \in Seq(Msg) /\ y \in Seq(Msg) /\ Len(x) = Len(p) + 2 /\ Len(y) = Len(p) + 2
        /\ \A i \in 1 .. Len(p) + 2 : x[i] = y[i]
    BY <1>1, <1>2, <1>3, <1>4, <1>5
  <2> HIDE DEF x, y
  <2>2. x = y
    BY <2>1, SeqEqual
  <2> QED BY <2>2 DEF x, y
<1> QED BY <1>6 DEF r, s

\* ... and leaves the mailbox as it was when it is taken.
LEMMA FrontRemove ==
  ASSUME NEW m \in Msg, NEW p \in Seq(Msg)
  PROVE  RemoveAt(<<m>> \o p, 1) = p
<1> DEFINE r == <<m>> \o p
<1>1. /\ r \in Seq(Msg) /\ Len(r) = Len(p) + 1 /\ Len(p) \in Nat
      /\ \A i \in 1 .. Len(p) : r[i + 1] = p[i]
  BY InFront, LenProperties
<1> HIDE DEF r
<1>2. 1 \in DOMAIN r
  BY <1>1, LenProperties
<1>3. /\ RemoveAt(r, 1) \in Seq(Msg) /\ Len(RemoveAt(r, 1)) = Len(p)
      /\ \A i \in 1 .. Len(p) : RemoveAt(r, 1)[i] = r[i + 1]
  <2>1. /\ RemoveAt(r, 1) \in Seq(Msg) /\ Len(RemoveAt(r, 1)) = Len(r) - 1
        /\ \A i \in 1 .. Len(r) - 1 : RemoveAt(r, 1)[i] = r[IF i < 1 THEN i ELSE i + 1]
    BY <1>1, <1>2, RemoveAtElements
  <2> QED BY <1>1, <2>1
<1>4. RemoveAt(r, 1) = p
  BY <1>1, <1>3, SeqEqual
<1> QED BY <1>4 DEF r

-----------------------------------------------------------------------------
(* What a step leaves as it is *)

ViewTypes ==
  /\ msgq \in [Thread -> Seq(Entry)]
  /\ slot \in [Thread -> Msg \cup {Null}]
  /\ pc \in [Thread -> Control]
  /\ peer \in [Thread -> Thread]
  /\ stato \in [Thread -> Stato]
  /\ accepted \in [Thread -> [Thread -> Nat]]
  /\ received \in [Thread -> [Thread -> Nat]]
  /\ \A x \in Thread : Senders(alts[x]) \subseteq Thread

\* They are part of the type invariant.
LEMMA TypesGiveViewTypes == ASSUME TypeOK PROVE ViewTypes
BY TypesGiveAwaitTypes DEF TypeOK, ViewTypes, AwaitTypes

\* Where a thread is that can be named.
Nameable(p) == p \notin {"none", "freed"} /\ (p = "new" => ~CreateFails)

Lives(x) ==
  (Nameable(pc'[x]) <=> Nameable(pc[x])) /\ (pc'[x] \in Ending <=> pc[x] \in Ending)
KeepsBox(x) ==
  /\ pc'[x] \in Ending <=> pc[x] \in Ending
  /\ pc[x] \notin Ending => msgq'[x] = msgq[x] /\ slot'[x] = slot[x]
KeepsOn(x)  ==
  /\ pc'[x] \in Waiting <=> pc[x] \in Waiting
  /\ pc[x] \in Waiting => alts'[x] = alts[x]
  /\ pc'[x] = "send_blocked" <=> pc[x] = "send_blocked"
  /\ pc[x] = "send_blocked" => peer'[x] = peer[x]
  /\ pc'[x] \in Knowing <=> pc[x] \in Knowing
  /\ pc[x] \in Knowing => stato'[x] = stato[x]

\* What the mailboxes show of a thread stays if the state behind it does.
LEMMA ViewStays ==
  ASSUME NEW x \in Thread
  PROVE  /\ Lives(x) => Life(x)' = Life(x)
         /\ KeepsBox(x) => Box(x)' = Box(x)
         /\ KeepsOn(x) => Want(x)' = Want(x) /\ Waits(x)' = Waits(x) /\ Answer(x)' = Answer(x)
<1>1. Lives(x) => Life(x)' = Life(x)
  BY DEF Lives, Nameable, Known, Life
<1>2. KeepsBox(x) => Box(x)' = Box(x)
  BY DEF KeepsBox, Box, Plain
<1>3. KeepsOn(x) => Want(x)' = Want(x)
  BY DEF KeepsOn, Want, Waiting, RecvWaits, Senders
<1>4. KeepsOn(x) => Waits(x)' = Waits(x) /\ Answer(x)' = Answer(x)
  BY DEF KeepsOn, Waits, Answer, Knowing
<1> QED BY <1>1, <1>2, <1>3, <1>4

\* A step that shows nothing.
Hidden ==
  /\ UNCHANGED <<accepted, received>>
  /\ \A x \in Thread : Lives(x) /\ KeepsBox(x) /\ KeepsOn(x)

\* It is no step of the mailboxes.
LEMMA HiddenStutters ==
  ASSUME Hidden
  PROVE  UNCHANGED Mailbox!avars
<1>1. \A x \in Thread : /\ Life(x)' = Life(x) /\ Box(x)' = Box(x) /\ Want(x)' = Want(x)
                        /\ Waits(x)' = Waits(x) /\ Answer(x)' = Answer(x)
  BY ViewStays DEF Hidden
<1> QED BY <1>1 DEF Hidden, Mailbox!avars

\* Places of a thread that is alive, and neither waits nor returns from a wait.
AtWork == Control \ ({"none", "freed", "new", "send_blocked"} \cup Ending \cup Waiting \cup Knowing)

\* Going from one to another is hidden.
LEMMA MoveHidden ==
  ASSUME ViewTypes, NEW t \in Thread, NEW p \in AtWork, pc[t] \in AtWork,
         pc' = [pc EXCEPT ![t] = p], UNCHANGED <<msgq, slot, accepted, received>>,
         \A x \in Thread \ {t} :
           alts'[x] = alts[x] /\ peer'[x] = peer[x] /\ stato'[x] = stato[x]
  PROVE  Hidden
<1> USE DEF AtWork, Nameable, Lives, KeepsBox, KeepsOn
<1>1. Lives(t) /\ KeepsBox(t) /\ KeepsOn(t)
  BY DEF ViewTypes
<1>2. \A x \in Thread \ {t} : Lives(x) /\ KeepsBox(x) /\ KeepsOn(x)
  BY DEF ViewTypes
<1> QED BY <1>1, <1>2 DEF Hidden

\* Starting a call is one, ...
LEMMA HiddenProgram ==
  ASSUME ViewTypes, NEW t \in Thread,
         \/ \E d \in Thread : SendCall(t, d)
         \/ \E S \in SUBSET Thread, nb \in BOOLEAN : ReceiveCall(t, S, nb)
         \/ \E args \in Cases : CaseCall(t, args)
  PROVE  Hidden
<1> USE DEF ViewTypes, Hidden, Lives, KeepsBox, KeepsOn, Nameable, Ending, Drained, Waiting,
            RecvWaits, Knowing, Goto, Call, fields, history
<1>1. CASE \E d \in Thread : SendCall(t, d)
  <2>1. PICK d \in Thread : SendCall(t, d)
    BY <1>1
  <2> QED BY <2>1 DEF SendCall
<1>2. CASE \E S \in SUBSET Thread, nb \in BOOLEAN : ReceiveCall(t, S, nb)
  <2>1. PICK S \in SUBSET Thread, nb \in BOOLEAN : ReceiveCall(t, S, nb)
    BY <1>2
  <2>2. /\ pc[t] = "run" /\ pc' = [pc EXCEPT ![t] = "recv_lock"]
        /\ UNCHANGED <<stato, msgq, slot, peer, accepted, received>>
        /\ \A x \in Thread \ {t} : alts'[x] = alts[x]
    BY <2>1 DEF ReceiveCall
  <2> QED BY <2>2, MoveHidden DEF AtWork, Control
<1>3. CASE \E args \in Cases : CaseCall(t, args)
  <2>1. PICK args \in Cases : CaseCall(t, args)
    BY <1>3
  <2> QED BY <2>1 DEF CaseCall
<1> QED BY <1>1, <1>2, <1>3

\* ... what a creation does but for the birth of the thread, ...
LEMMA HiddenCreating ==
  ASSUME ViewTypes, CreationOwned, NamesAgree, NEW t \in Thread,
         \/ CreateFails /\ \E c \in Thread : Create(t, c)
         \/ ~CreateFails /\ PthreadCreate(t)
         \/ PthreadCreateFails(t) \/ CreateUndo(t) \/ CreateMax(t) \/ StartRoutine(t)
  PROVE  Hidden
<1> USE DEF ViewTypes, Hidden, Lives, KeepsBox, KeepsOn, Nameable, Ending, Drained, Waiting,
            RecvWaits, Knowing, Goto, Return, fields, history, locals, CreationOwned,
            Creating_pc
<1>1. CASE CreateFails /\ \E c \in Thread : Create(t, c)
  <2>1. PICK c \in Thread : Create(t, c)
    BY <1>1
  <2>2. /\ pc[t] = "run" /\ pc[c] = "none" /\ c # t
        /\ pc' = [pc EXCEPT ![t] = "create", ![c] = "new"]
        /\ UNCHANGED <<msgq, slot, alts, accepted, received>>
        /\ peer' = [peer EXCEPT ![t] = c]
        /\ stato' = [stato EXCEPT ![c] = "RUNNING"]
    BY <2>1 DEF Create, CreateInternal
  <2> QED BY <1>1, <2>2
<1>2. CASE ~CreateFails /\ PthreadCreate(t)
  BY <1>2 DEF PthreadCreate
<1>3. CASE PthreadCreateFails(t)
  BY <1>3 DEF PthreadCreateFails
<1>4. CASE CreateUndo(t)
  <2>1. CreateFails
    BY <1>4 DEF CreateUndo, NamesAgree
  <2> QED BY <1>4, <2>1 DEF CreateUndo
<1>5. CASE CreateMax(t)
  BY <1>5 DEF CreateMax
<1>6. CASE StartRoutine(t)
  BY <1>6 DEF StartRoutine
<1> QED BY <1>1, <1>2, <1>3, <1>4, <1>5, <1>6

\* ... of a send but to deliver and to return, ...
LEMMA HiddenSending ==
  ASSUME ViewTypes, SignalsAgree, NEW t \in Thread,
         \/ SendLock(t) \/ (\E nb \in BOOLEAN : SendRefuse(t, nb))
         \/ SendSignal(t) \/ SendWoken(t)
  PROVE  Hidden
<1> USE DEF ViewTypes, Hidden, Lives, KeepsBox, KeepsOn, Nameable, Ending, Drained, Waiting,
            RecvWaits, Knowing, Goto, Return, fields, history, locals
<1>1. CASE SendLock(t)
  BY <1>1 DEF SendLock
<1>2. CASE \E nb \in BOOLEAN : SendRefuse(t, nb)
  <2>1. /\ pc[t] = "send" /\ pc' = [pc EXCEPT ![t] = "run"]
        /\ UNCHANGED <<stato, msgq, slot, accepted, received>>
        /\ \A x \in Thread \ {t} : alts'[x] = alts[x] /\ peer'[x] = peer[x]
    BY <1>2 DEF SendRefuse
  <2> QED BY <2>1, MoveHidden DEF AtWork, Control
<1>3. CASE SendSignal(t)
  <2>1. pc[peer[t]] = "recv_blocked" /\ peer[t] \in Thread
    BY <1>3 DEF SendSignal, SignalsAgree, SignalAgrees
  <2> QED BY <1>3, <2>1 DEF SendSignal, SignalPeer, Woken
<1>4. CASE SendWoken(t)
  BY <1>4 DEF SendWoken
<1> QED BY <1>1, <1>2, <1>3, <1>4

\* ... of a receive but to begin a wait, to end it and to take a message, ...
LEMMA HiddenReceiving ==
  ASSUME ViewTypes, NEW t \in Thread,
         \/ RecvLock(t) \/ RecvDefault(t) \/ RecvWait(t)
         \/ \E s \in Thread : RecvBuild(t, s)
  PROVE  Hidden
<1> USE DEF ViewTypes, Hidden, Lives, KeepsBox, KeepsOn, Nameable, Ending, Drained, Waiting,
            RecvWaits, Knowing, Goto, Return, fields, history, locals
<1>1. CASE RecvLock(t)
  BY <1>1 DEF RecvLock
<1>2. CASE RecvDefault(t)
  <2>1. /\ pc[t] = "recv_scan" /\ pc' = [pc EXCEPT ![t] = "run"]
        /\ UNCHANGED <<stato, msgq, slot, accepted, received>>
        /\ \A x \in Thread \ {t} : alts'[x] = alts[x] /\ peer'[x] = peer[x]
    BY <1>2 DEF RecvDefault
  <2> QED BY <2>1, MoveHidden DEF AtWork, Control
<1>3. CASE RecvWait(t)
  BY <1>3 DEF RecvWait
<1>4. CASE \E s \in Thread : RecvBuild(t, s)
  <2>1. PICK s \in Thread : RecvBuild(t, s)
    BY <1>4
  <2> QED BY <2>1 DEF RecvBuild
<1> QED BY <1>1, <1>2, <1>3, <1>4

\* ... and all of a termination that tells no sender.
LEMMA HiddenExiting ==
  ASSUME TypeOK, ViewTypes, MarksAgree, SignalsAgree, NEW t \in Thread, Exiting(t),
         ~ExitDrainSignal(t)
  PROVE  Hidden
<1> USE DEF ViewTypes, Hidden, Lives, KeepsBox, KeepsOn, Nameable, Ending, Drained, Waiting,
            RecvWaits, Knowing, Goto, Return, fields, history, locals
<1>1. CASE ExitLock(t)
  BY <1>1 DEF ExitLock
<1>2. CASE ExitSwap(t)
  BY <1>2 DEF ExitSwap
<1>3. CASE ExitDrain(t)
  <2>1. \A x \in Thread : pc[x] \in Knowing => stato'[x] = stato[x]
    <3>1. PICK e \in Entry :
            /\ drain[t] # <<>> /\ e = Head(drain[t])
            /\ \/ e.susp /\ stato' = [stato EXCEPT ![e.mitt] = "WAITING_ON_SEND_TERM_DEST"]
               \/ UNCHANGED stato
      BY <1>3, ExitDrainMessage
    <3>2. e.susp => pc[e.mitt] = "send_blocked"
      <4>1. drain[t] \in Seq(Entry)
        BY DEF TypeOK
      <4>2. e.susp => e.mitt \in MarkedBy(drain[t])
        <5>1. MarkedOnce(drain[t])
          BY DEF MarksAgree
        <5> QED BY <3>1, <4>1, <5>1, TailMarks
      <4> QED BY <4>2 DEF MarksAgree
    <3>3. e.mitt \in Thread
      BY DEF Entry
    <3> QED BY <3>1, <3>2, <3>3
  <2>2. /\ pc[t] = "exit_drain"
        /\ pc' = pc \/ pc' = [pc EXCEPT ![t] = "exit_drain_signal"]
        /\ \A x \in Thread \ {t} : peer'[x] = peer[x]
        /\ UNCHANGED <<msgq, slot, alts, accepted, received>>
    BY <1>3 DEF ExitDrain
  <2> QED BY <2>1, <2>2
<1>4. CASE ExitDrained(t)
  BY <1>4 DEF ExitDrained
<1>5. CASE ExitQLock(t)
  BY <1>5 DEF ExitQLock
<1>6. CASE ExitSelf(t)
  BY <1>6 DEF ExitSelf
<1>7. CASE \E x \in Thread : ExitVisit(t, x)
  <2>1. PICK x \in Thread : ExitVisit(t, x)
    BY <1>7
  <2> QED BY <2>1 DEF ExitVisit
<1>8. CASE ExitRemove(t)
  <2>1. /\ pc[t] = "exit_visit"
        /\ \E p \in {"exit_wake", "exit_walk"} : pc' = [pc EXCEPT ![t] = p]
        /\ \A x \in Thread \ {t} : peer'[x] = peer[x]
        /\ UNCHANGED <<stato, msgq, slot, alts, accepted, received>>
    BY <1>8 DEF ExitRemove
  <2> QED BY <2>1
<1>9. CASE ExitWake(t)
  <2>1. pc[peer[t]] = "recv_blocked" /\ peer[t] \in Thread
    BY <1>9 DEF ExitWake, SignalsAgree, SignalAgrees
  <2> QED BY <1>9, <2>1 DEF ExitWake, SignalPeer, Woken
<1>10. CASE ExitDone(t)
  BY <1>10 DEF ExitDone
<1> QED
  BY <1>1, <1>2, <1>3, <1>4, <1>5, <1>6, <1>7, <1>8, <1>9, <1>10 DEF Exiting

-----------------------------------------------------------------------------
(* Births, ends, waits and returns *)

\* A thread at work can start a call of the mailboxes.
LEMMA AtWorkIdle ==
  ASSUME NEW t \in Thread, pc[t] \in AtWork
  PROVE  Mailbox!Idle(t)
<1>1. Life(t) = "live"
  BY DEF Life, Known, AtWork
<1>2. Want(t) = {} /\ Waits(t) = Null /\ Answer(t) = "none"
  BY DEF Want, Waits, Answer, AtWork, Waiting, RecvWaits, Knowing
<1> QED BY <1>1, <1>2 DEF Mailbox!Idle

\* A thread is born once it can be named.
LEMMA BirthSeen ==
  ASSUME NEW t \in Thread, UNCHANGED <<accepted, received>>,
         ~Nameable(pc[t]), Nameable(pc'[t]), pc'[t] \notin Ending,
         \A x \in Thread \ {t} : Lives(x),
         \A x \in Thread : KeepsBox(x) /\ KeepsOn(x)
  PROVE  Mailbox!Born(t)
<1>1. Life(t) = "none" /\ Life(t)' = "live"
  BY DEF Life, Known, Nameable
<1>2. \A x \in Thread \ {t} : Life(x)' = Life(x)
  BY ViewStays
<1>3. \A x \in Thread : /\ Box(x)' = Box(x) /\ Want(x)' = Want(x)
                        /\ Waits(x)' = Waits(x) /\ Answer(x)' = Answer(x)
  BY ViewStays
<1> QED BY <1>1, <1>2, <1>3 DEF Mailbox!Born

\* A creation that cannot fail shows the thread when it registers it, ...
LEMMA CreateBirth ==
  ASSUME ViewTypes, ~CreateFails, NEW t \in Thread, NEW c \in Thread, Create(t, c)
  PROVE  Mailbox!Born(c)
<1>1. /\ pc[t] = "run" /\ pc[c] = "none" /\ c # t
      /\ pc' = [pc EXCEPT ![t] = "create", ![c] = "new"]
      /\ UNCHANGED <<msgq, slot, alts, accepted, received>>
      /\ peer' = [peer EXCEPT ![t] = c]
      /\ stato' = [stato EXCEPT ![c] = "RUNNING"]
  BY DEF Create, CreateInternal, history
<1> QED
  BY <1>1, BirthSeen DEF ViewTypes, Lives, KeepsBox, KeepsOn, Nameable, Ending, Drained,
     Waiting, RecvWaits, Knowing

\* ... one that can fail when it has succeeded, ...
LEMMA PthreadCreateBirth ==
  ASSUME ViewTypes, CreationOwned, CreateFails, NEW t \in Thread, PthreadCreate(t)
  PROVE  Mailbox!Born(peer[t])
<1>1. /\ pc[t] = "create" /\ pc[peer[t]] = "new" /\ peer[t] \in Thread /\ peer[t] # t
      /\ pc' = [pc EXCEPT ![t] = "create_max", ![peer[t]] = "start"]
      /\ UNCHANGED <<stato, msgq, slot, alts, peer, accepted, received>>
  BY DEF PthreadCreate, ViewTypes, fields, locals, history, CreationOwned, Creating_pc
<1> QED
  BY <1>1, BirthSeen DEF ViewTypes, Lives, KeepsBox, KeepsOn, Nameable, Ending, Drained,
     Waiting, RecvWaits, Knowing

\* ... and a foreign thread shows itself.
LEMMA RegisterBirth ==
  ASSUME ViewTypes, NEW t \in Thread, Register(t)
  PROVE  Mailbox!Born(t)
<1>1. /\ pc[t] = "none" /\ pc' = [pc EXCEPT ![t] = "run"]
      /\ UNCHANGED <<msgq, slot, alts, peer, accepted, received>>
      /\ stato' = [stato EXCEPT ![t] = "RUNNING"]
  BY DEF Register, CreateInternal, Goto, history
<1> QED
  BY <1>1, BirthSeen DEF ViewTypes, Lives, KeepsBox, KeepsOn, Nameable, Ending, Drained,
     Waiting, RecvWaits, Knowing

\* The mailbox of a thread that ends is closed at once, emptied or not.
LEMMA ExitCallEnds ==
  ASSUME ViewTypes, NEW t \in Thread, ExitCall(t)
  PROVE  Mailbox!End(t)
<1>1. /\ pc[t] = "run" /\ t # Main /\ pc' = [pc EXCEPT ![t] = "exit_lock"]
      /\ UNCHANGED <<msgq, slot, alts, peer, accepted, received>>
      /\ stato' = [stato EXCEPT ![t] = "STOPPED"]
  BY DEF ExitCall, Goto, locals, history
<1>2. pc[t] \in AtWork
  BY <1>1 DEF AtWork, Control, Ending, Drained, Waiting, RecvWaits, Knowing
<1>3. Mailbox!Idle(t)
  BY <1>2, AtWorkIdle
<1>4. \A x \in Thread \ {t} : Life(x)' = Life(x) /\ Box(x)' = Box(x)
  BY <1>1, ViewStays DEF ViewTypes, Lives, KeepsBox
<1>5. \A x \in Thread : Want(x)' = Want(x) /\ Waits(x)' = Waits(x) /\ Answer(x)' = Answer(x)
  BY <1>1, ViewStays DEF ViewTypes, KeepsOn, Waiting, RecvWaits, Knowing
<1>6. Life(t)' = "ended" /\ Box(t)' = <<>>
  BY <1>1 DEF ViewTypes, Life, Known, Box, Ending
<1> QED BY <1>1, <1>3, <1>4, <1>5, <1>6 DEF Mailbox!End

\* Nothing changes but what t waits for.
OnlyWant(t) ==
  /\ UNCHANGED <<accepted, received>>
  /\ \A x \in Thread : Lives(x) /\ KeepsBox(x)
  /\ \A x \in Thread \ {t} : KeepsOn(x)
  /\ pc[t] \in AtWork \cup Waiting /\ pc'[t] \in AtWork \cup Waiting

\* That is what the mailboxes see.
LEMMA WantSeen ==
  ASSUME NEW t \in Thread, OnlyWant(t)
  PROVE  /\ \A x \in Thread : /\ Life(x)' = Life(x) /\ Box(x)' = Box(x)
                              /\ Waits(x)' = Waits(x) /\ Answer(x)' = Answer(x)
         /\ \A x \in Thread \ {t} : Want(x)' = Want(x)
<1>1. \A x \in Thread : Life(x)' = Life(x) /\ Box(x)' = Box(x)
  BY ViewStays DEF OnlyWant
<1>2. \A x \in Thread \ {t} :
        Want(x)' = Want(x) /\ Waits(x)' = Waits(x) /\ Answer(x)' = Answer(x)
  BY ViewStays DEF OnlyWant
<1>3. Waits(t)' = Waits(t) /\ Answer(t)' = Answer(t)
  BY DEF OnlyWant, AtWork, Waits, Answer, Waiting, RecvWaits, Knowing
<1> QED BY <1>1, <1>2, <1>3

\* A mailbox has nothing from some senders if neither the message handed over nor
\* one of the others is theirs.
LEMMA NothingSeen ==
  ASSUME ViewTypes, NEW t \in Thread, pc[t] \notin Ending, slot[t] = Null, NEW S,
         Matches(S, msgq[t]) = {}
  PROVE  Mailbox!NothingFrom(t, S)
<1>1. msgq[t] \in Seq(Entry)
  BY DEF ViewTypes
<1>2. Box(t) = Plain(msgq[t])
  <2>1. Plain(msgq[t]) \in Seq(Msg)
    BY <1>1, PlainMessages
  <2>2. <<>> \o Plain(msgq[t]) = Plain(msgq[t])
    BY <2>1, ConcatEmptySeq
  <2> QED BY <2>2 DEF Box
<1>3. \A k \in DOMAIN Box(t) : k \in DOMAIN msgq[t] /\ Box(t)[k].mitt = msgq[t][k].mitt
  BY <1>1, <1>2 DEF Plain
<1>4. \A k \in DOMAIN Box(t) : Box(t)[k].mitt \notin S
  BY <1>3 DEF Matches
<1> QED BY <1>4 DEF Mailbox!NothingFrom

\* A receiver that finds nothing begins to wait, ...
LEMMA RecvNoneWaits ==
  ASSUME ViewTypes, SlotAgrees, NEW t \in Thread, RecvNone(t)
  PROVE  Mailbox!StartWait(t, Want(t)') \/ UNCHANGED Mailbox!avars
<1>1. /\ pc[t] = "recv_scan" /\ pc' = [pc EXCEPT ![t] = "recv_build"]
      /\ UNCHANGED <<stato, msgq, slot, alts, peer, accepted, received>>
      /\ ReadyAlts(alts[t], msgq[t]) = {}
  BY DEF RecvNone, Goto, fields, history
<1>2. pc[t] \in AtWork /\ OnlyWant(t)
  BY <1>1 DEF ViewTypes, OnlyWant, Lives, KeepsBox, KeepsOn, Nameable, Ending, Drained,
     AtWork, Control, Waiting, RecvWaits, Knowing
<1>3. /\ \A x \in Thread : /\ Life(x)' = Life(x) /\ Box(x)' = Box(x)
                           /\ Waits(x)' = Waits(x) /\ Answer(x)' = Answer(x)
      /\ \A x \in Thread \ {t} : Want(x)' = Want(x)
  BY <1>2, WantSeen
<1>4. Want(t) = {} /\ Want(t)' = Senders(alts[t])
  BY <1>1 DEF ViewTypes, Want, Senders
<1>5. Matches(Senders(alts[t]), msgq[t]) = {}
  BY <1>1 DEF ReadyAlts, Ready, Matches, Senders
<1>6. Mailbox!NothingFrom(t, Senders(alts[t]))
  BY <1>1, <1>5, NothingSeen DEF SlotAgrees, RecvWaits, Ending, Drained
<1>7. CASE Senders(alts[t]) = {}
  BY <1>1, <1>3, <1>4, <1>7 DEF Mailbox!avars
<1>8. CASE Senders(alts[t]) # {}
  <2>1. Mailbox!Idle(t)
    BY <1>2, AtWorkIdle
  <2> QED BY <1>1, <1>3, <1>4, <1>6, <1>8, <2>1 DEF Mailbox!StartWait
<1> QED BY <1>7, <1>8

\* ... and gives up when the senders it named have all ended.
LEMMA GivesUp ==
  ASSUME ViewTypes, SlotAgrees, AwaitedAgrees, NoMissedMessage, NEW t \in Thread,
         pc[t] \in Waiting, slot[t] = Null, mitt[t] = {}, todo[t] = {},
         OnlyWant(t), Want(t)' = {}
  PROVE  Mailbox!GiveUp(t) \/ UNCHANGED Mailbox!avars
<1>1. /\ \A x \in Thread : /\ Life(x)' = Life(x) /\ Box(x)' = Box(x)
                           /\ Waits(x)' = Waits(x) /\ Answer(x)' = Answer(x)
      /\ \A x \in Thread \ {t} : Want(x)' = Want(x)
  BY WantSeen
<1>2. Want(t) = Senders(alts[t])
  BY DEF Want, Waiting, RecvWaits
<1>3. Mailbox!NothingFrom(t, Senders(alts[t]))
  <2>1. Matches(Senders(alts[t]), msgq[t]) = {} /\ pc[t] \notin Ending
    BY DEF NoMissedMessage, Waiting, RecvWaits, Ending, Drained
  <2> QED BY <2>1, NothingSeen
<1>4. \A s \in Senders(alts[t]) : s \in Thread /\ Life(s) = "ended"
  <2>1. \A s \in Senders(alts[t]) : s \in Thread /\ pc[s] \in Ending
    BY DEF ViewTypes, AwaitedAgrees, Waiting
  <2> QED BY <2>1 DEF Life, Known, Ending, Drained
<1>5. UNCHANGED <<accepted, received>>
  BY DEF OnlyWant
<1>6. CASE Senders(alts[t]) = {}
  BY <1>1, <1>2, <1>5, <1>6 DEF Mailbox!avars
<1>7. CASE Senders(alts[t]) # {}
  BY <1>1, <1>2, <1>3, <1>4, <1>5, <1>7 DEF Mailbox!GiveUp
<1> QED BY <1>6, <1>7

\* At once, ...
LEMMA RecvNobodyGivesUp ==
  ASSUME ViewTypes, SlotAgrees, AwaitedAgrees, NoMissedMessage, NEW t \in Thread,
         RecvNobody(t)
  PROVE  Mailbox!GiveUp(t) \/ UNCHANGED Mailbox!avars
<1>1. /\ pc[t] = "recv_build" /\ pc' = [pc EXCEPT ![t] = "run"]
      /\ UNCHANGED <<stato, msgq, slot, accepted, received>>
      /\ \A x \in Thread \ {t} : alts'[x] = alts[x] /\ peer'[x] = peer[x]
      /\ todo[t] = {} /\ mitt[t] = {}
  BY DEF RecvNobody, Return, Goto, fields, history, ViewTypes
<1>2. OnlyWant(t) /\ Want(t)' = {}
  BY <1>1 DEF ViewTypes, OnlyWant, Lives, KeepsBox, KeepsOn, Nameable, Ending, Drained,
     AtWork, Control, Waiting, RecvWaits, Knowing, Want
<1>3. slot[t] = Null /\ pc[t] \in Waiting
  BY <1>1 DEF SlotAgrees, RecvWaits, Waiting
<1> QED BY <1>1, <1>2, <1>3, GivesUp

\* A suspended sender goes on with what became of its message, ...
LEMMA ResolveSeen ==
  ASSUME ViewTypes, ResultsAgree, NEW t \in Thread, NEW s \in Thread, s # t,
         pc[s] = "send_blocked", peer[s] = t, pc'[s] = "send_woken", stato'[s] = stato[s],
         UNCHANGED <<accepted, received>>,
         \A x \in Thread : Lives(x) /\ KeepsBox(x),
         \A x \in Thread \ {s} : KeepsOn(x),
         \/ stato[s] = "WAITING_ON_SEND" /\ received[t][s] = accepted[s][t]
         \/ /\ stato[s] # "WAITING_ON_SEND" /\ received[t][s] # accepted[s][t]
            /\ pc[t] \in Ending
  PROVE  Mailbox!Resolve(s)
<1>1. \A x \in Thread : Life(x)' = Life(x) /\ Box(x)' = Box(x)
  BY ViewStays
<1>2. \A x \in Thread \ {s} :
        Want(x)' = Want(x) /\ Waits(x)' = Waits(x) /\ Answer(x)' = Answer(x)
  BY ViewStays
<1>3. Waits(s) = t /\ Waits(s)' = Null /\ Want(s)' = Want(s)
  BY DEF Waits, Want
<1>4. Answer(s)' = IF stato[s] = "WAITING_ON_SEND" THEN "taken" ELSE "ended"
  BY DEF Answer
<1>5. pc[t] \in Ending => Life(t) = "ended"
  BY DEF Life, Known, Ending, Drained
<1>6. t # Null
  BY ThreadAssumption
<1>7. CASE stato[s] = "WAITING_ON_SEND" /\ received[t][s] = accepted[s][t]
  BY <1>1, <1>2, <1>3, <1>4, <1>6, <1>7 DEF Mailbox!Resolve
<1>8. CASE /\ stato[s] # "WAITING_ON_SEND" /\ received[t][s] # accepted[s][t]
           /\ pc[t] \in Ending
  BY <1>1, <1>2, <1>3, <1>4, <1>5, <1>6, <1>8 DEF Mailbox!Resolve
<1> QED BY <1>7, <1>8

\* ... when it is told that it was taken ...
LEMMA RecvSignalResolves ==
  ASSUME ViewTypes, SignalsAgree, ResultsAgree, NEW t \in Thread, RecvSignal(t)
  PROVE  Mailbox!Resolve(peer[t])
<1>1. /\ pc[t] = "recv_signal"
      /\ pc' = Woken([pc EXCEPT ![t] = "run"], peer[t])
      /\ UNCHANGED <<stato, msgq, slot, accepted, received>>
      /\ \A x \in Thread \ {t} : alts'[x] = alts[x] /\ peer'[x] = peer[x]
  BY DEF RecvSignal, SignalPeer, fields, history, ViewTypes
<1>2. peer[t] \in Thread /\ pc[peer[t]] = "send_blocked" /\ peer[peer[t]] = t
  BY <1>1 DEF SignalsAgree, SignalAgrees, ViewTypes
<1>3. /\ stato[peer[t]] = "WAITING_ON_SEND"
      /\ received[t][peer[t]] = accepted[peer[t]][t]
  BY <1>1 DEF ResultsAgree, ResultAgrees
<1>4. pc' = [pc EXCEPT ![t] = "run", ![peer[t]] = "send_woken"]
  BY <1>1, <1>2 DEF Woken, ViewTypes
<1>5. /\ \A x \in Thread : Lives(x) /\ KeepsBox(x)
      /\ \A x \in Thread \ {peer[t]} : KeepsOn(x)
  BY <1>1, <1>2, <1>4 DEF ViewTypes, Lives, KeepsBox, KeepsOn, Nameable, Ending, Drained,
     Waiting, RecvWaits, Knowing
<1>6. peer[t] # t /\ pc'[peer[t]] = "send_woken"
  BY <1>1, <1>2, <1>4 DEF ViewTypes
<1> QED BY <1>1, <1>2, <1>3, <1>5, <1>6, ResolveSeen

\* ... or dropped, ...
LEMMA ExitDrainSignalResolves ==
  ASSUME ViewTypes, SignalsAgree, ResultsAgree, NEW t \in Thread, ExitDrainSignal(t)
  PROVE  Mailbox!Resolve(peer[t])
<1>1. /\ pc[t] = "exit_drain_signal"
      /\ pc' = Woken([pc EXCEPT ![t] = "exit_drain"], peer[t])
      /\ UNCHANGED <<stato, msgq, slot, alts, peer, accepted, received>>
  BY DEF ExitDrainSignal, SignalPeer, fields, locals, history
<1>2. peer[t] \in Thread /\ pc[peer[t]] = "send_blocked" /\ peer[peer[t]] = t
  BY <1>1 DEF SignalsAgree, SignalAgrees, ViewTypes
<1>3. /\ stato[peer[t]] # "WAITING_ON_SEND"
      /\ received[t][peer[t]] # accepted[peer[t]][t]
      /\ pc[t] \in Ending
  BY <1>1 DEF ResultsAgree, ResultAgrees, Ending, Drained
<1>4. pc' = [pc EXCEPT ![t] = "exit_drain", ![peer[t]] = "send_woken"]
  BY <1>1, <1>2 DEF Woken, ViewTypes
<1>5. /\ \A x \in Thread : Lives(x) /\ KeepsBox(x)
      /\ \A x \in Thread \ {peer[t]} : KeepsOn(x)
  <2>1. \A x \in Thread \ {t, peer[t]} : pc'[x] = pc[x]
    BY <1>4 DEF ViewTypes
  <2>2. pc'[t] = "exit_drain" /\ pc'[peer[t]] = "send_woken"
    BY <1>1, <1>2, <1>4 DEF ViewTypes
  <2> USE DEF Nameable, Ending, Drained, Waiting, RecvWaits, Knowing
  <2>3. \A x \in Thread : Lives(x) /\ KeepsBox(x)
    BY <1>1, <1>2, <2>1, <2>2 DEF Lives, KeepsBox
  <2>4. \A x \in Thread \ {peer[t]} : KeepsOn(x)
    BY <1>1, <2>1, <2>2 DEF KeepsOn
  <2> QED BY <2>3, <2>4
<1>6. peer[t] # t /\ pc'[peer[t]] = "send_woken"
  BY <1>1, <1>2, <1>4 DEF ViewTypes
<1> QED BY <1>1, <1>2, <1>3, <1>5, <1>6, ResolveSeen

\* ... and returns it.
LEMMA SendRetReturns ==
  ASSUME ViewTypes, NEW t \in Thread, SendRet(t)
  PROVE  Mailbox!Returned(t)
<1>1. /\ pc[t] = "send_ret" /\ pc' = [pc EXCEPT ![t] = "run"]
      /\ UNCHANGED <<msgq, slot, accepted, received>>
      /\ \A x \in Thread \ {t} :
           stato'[x] = stato[x] /\ alts'[x] = alts[x] /\ peer'[x] = peer[x]
  BY DEF SendRet, Return, Goto, history, ViewTypes
<1>2. \A x \in Thread : Life(x)' = Life(x) /\ Box(x)' = Box(x)
  BY <1>1, ViewStays DEF ViewTypes, Lives, Nameable, KeepsBox, Ending, Drained
<1>3. \A x \in Thread \ {t} :
        Want(x)' = Want(x) /\ Waits(x)' = Waits(x) /\ Answer(x)' = Answer(x)
  BY <1>1, ViewStays DEF ViewTypes, KeepsOn
<1>4. /\ Want(t)' = Want(t) /\ Waits(t)' = Waits(t)
      /\ Answer(t) # "none" /\ Answer(t)' = "none"
  BY <1>1 DEF ViewTypes, Want, Waits, Answer
<1> QED BY <1>1, <1>2, <1>3, <1>4 DEF Mailbox!Returned

-----------------------------------------------------------------------------
(* Messages given and taken *)

\* The mailbox of a thread that goes on.
LEMMA BoxIs ==
  ASSUME ViewTypes, NEW t \in Thread, pc[t] \notin Ending
  PROVE  /\ slot[t] = Null => Box(t) = Plain(msgq[t])
         /\ slot[t] # Null => slot[t] \in Msg /\ Box(t) = <<slot[t]>> \o Plain(msgq[t])
<1>1. msgq[t] \in Seq(Entry)
  BY DEF ViewTypes
<1>2. Plain(msgq[t]) \in Seq(Msg)
  BY <1>1, PlainMessages
<1>3. <<>> \o Plain(msgq[t]) = Plain(msgq[t])
  BY <1>2, ConcatEmptySeq
<1>4. slot[t] # Null => slot[t] \in Msg
  BY DEF ViewTypes
<1> QED BY <1>3, <1>4 DEF Box

\* ... after a step.
LEMMA NextBoxIs ==
  ASSUME NEW t \in Thread, pc'[t] \notin Ending, msgq'[t] \in Seq(Entry)
  PROVE  /\ slot'[t] = Null => Box(t)' = Plain(msgq'[t])
         /\ slot'[t] # Null => Box(t)' = <<slot'[t]>> \o Plain(msgq'[t])
<1>1. Plain(msgq'[t]) \in Seq(Msg)
  BY PlainMessages
<1>2. <<>> \o Plain(msgq'[t]) = Plain(msgq'[t])
  BY <1>1, ConcatEmptySeq
<1>3. Box(t)' = (IF slot'[t] = Null THEN <<>> ELSE <<slot'[t]>>) \o Plain(msgq'[t])
  BY DEF Box, Plain
<1> QED BY <1>2, <1>3

\* A message is taken where one leaves the mailbox and is counted.
LEMMA TakeSeen ==
  ASSUME NEW t \in Thread, NEW k \in DOMAIN Box(t), NEW S \in SUBSET Thread,
         Mailbox!FirstFrom(S, Box(t), k),
         Mailbox!Idle(t) \/ (Want(t) = S /\ Life(t) = "live"),
         received' = [received EXCEPT ![t][Box(t)[k].mitt] = Box(t)[k].n],
         Box(t)' = RemoveAt(Box(t), k), Want(t)' = {}, UNCHANGED accepted,
         \A x \in Thread : /\ Life(x)' = Life(x) /\ Waits(x)' = Waits(x)
                           /\ Answer(x)' = Answer(x),
         \A x \in Thread \ {t} : Box(x)' = Box(x) /\ Want(x)' = Want(x)
  PROVE  Mailbox!Take(t)
<1> DEFINE box == [x \in Thread |-> Box(x)]
           want == [x \in Thread |-> Want(x)]
           life == [x \in Thread |-> Life(x)]
<1>1. box' = [box EXCEPT ![t] = RemoveAt(@, k)]
  OBVIOUS
<1>2. want' = [want EXCEPT ![t] = {}]
  OBVIOUS
<1>3. /\ life' = life
      /\ [x \in Thread |-> Waits(x)]' = [x \in Thread |-> Waits(x)]
      /\ [x \in Thread |-> Answer(x)]' = [x \in Thread |-> Answer(x)]
  OBVIOUS
<1>4. box[t] = Box(t) /\ want[t] = Want(t) /\ life[t] = Life(t)
  OBVIOUS
<1>5. received' = [received EXCEPT ![t][box[t][k].mitt] = box[t][k].n]
  BY <1>4
<1>6. k \in DOMAIN box[t] /\ Mailbox!FirstFrom(S, box[t], k)
  BY <1>4
<1>7. Mailbox!Idle(t) \/ (want[t] = S /\ life[t] = "live")
  BY <1>4
<1> HIDE DEF box, want, life
<1>8. \E R \in SUBSET Thread :
        /\ Mailbox!FirstFrom(R, box[t], k)
        /\ (Mailbox!Idle(t) \/ (want[t] = R /\ life[t] = "live"))
  BY <1>6, <1>7
<1> QED BY <1>1, <1>2, <1>3, <1>5, <1>6, <1>8 DEF Mailbox!Take, RemoveAt,
     Mailbox!RemoveAt, box, want, life

\* A scan takes a message out of the mailbox.
LEMMA RecvTakeTakes ==
  ASSUME TypeOK, ViewTypes, SlotAgrees, NEW t \in Thread, RecvTake(t)
  PROVE  Mailbox!Take(t)
<1>1. PICK k \in DOMAIN msgq[t] :
        /\ msgq[t][k] \in Entry
        /\ \A j \in Matches({msgq[t][k].mitt}, msgq[t]) : k <= j
        /\ msgq' = [msgq EXCEPT ![t] = RemoveAt(@, k)]
        /\ Receives(t, msgq[t][k])
        /\ \/ Goto(t, "recv_signal")
              /\ peer' = [peer EXCEPT ![t] = msgq[t][k].mitt]
           \/ Return(t)
  BY RecvTakeEntry
<1> DEFINE q == msgq[t]
           s == q[k].mitt
<1>2. /\ pc[t] = "recv_scan" /\ slot[t] = Null
      /\ \E p \in {"recv_signal", "run"} : pc' = [pc EXCEPT ![t] = p]
      /\ UNCHANGED <<stato, slot, accepted>>
      /\ \A x \in Thread \ {t} : alts'[x] = alts[x] /\ peer'[x] = peer[x]
  <2>1. pc[t] = "recv_scan" /\ UNCHANGED <<stato, slot, accepted>>
    BY DEF RecvTake
  <2>2. \A x \in Thread \ {t} : alts'[x] = alts[x] /\ peer'[x] = peer[x]
    <3>1. UNCHANGED alts \/ alts' = [alts EXCEPT ![t] = <<>>]
      BY DEF RecvTake, Return
    <3>2. \/ peer' = [peer EXCEPT ![t] = msgq[t][k].mitt]
          \/ peer' = [peer EXCEPT ![t] = t]
      BY <1>1 DEF Return
    <3>3. DOMAIN alts = Thread /\ peer \in [Thread -> Thread]
      BY DEF TypeOK
    <3>4. \A x \in Thread \ {t} : peer'[x] = peer[x]
      BY <3>2, <3>3
    <3>5. \A x \in Thread \ {t} : alts'[x] = alts[x]
      BY <3>1, <3>3
    <3> QED BY <3>4, <3>5
  <2>3. \E p \in {"recv_signal", "run"} : pc' = [pc EXCEPT ![t] = p]
    BY <1>1 DEF Goto, Return
  <2> QED BY <2>1, <2>2, <2>3 DEF SlotAgrees, RecvWaits
<1>3. q \in Seq(Entry) /\ RemoveAt(q, k) \in Seq(Entry) /\ msgq'[t] = RemoveAt(q, k)
  BY <1>1, RemoveAtType DEF ViewTypes
<1>4. Box(t) = Plain(q) /\ Box(t)' = RemoveAt(Plain(q), k)
  <2>1. pc[t] \notin Ending /\ pc'[t] \notin Ending /\ slot'[t] = Null
    BY <1>2 DEF ViewTypes, Ending, Drained
  <2> QED BY <1>2, <1>3, <2>1, BoxIs, NextBoxIs, PlainRemove
<1>5. \A i \in DOMAIN q : Plain(q)[i].mitt = q[i].mitt /\ Plain(q)[i].n = q[i].n
  BY DEF Plain
<1>6. DOMAIN Plain(q) = DOMAIN q /\ DOMAIN q = 1 .. Len(q) /\ Len(q) \in Nat
  BY <1>3, LenProperties DEF Plain
<1>7. Mailbox!FirstFrom({s}, Box(t), k)
  <2>1. ASSUME NEW j \in 1 .. k - 1 PROVE Plain(q)[j].mitt # s
    <3>1. j \in DOMAIN q /\ ~(k <= j)
      BY <1>6
    <3>2. j \notin Matches({s}, q)
      BY <1>1, <3>1
    <3> QED BY <1>5, <3>1, <3>2 DEF Matches
  <2> QED BY <1>4, <1>5, <1>6, <2>1 DEF Mailbox!FirstFrom
<1>8. pc[t] \in AtWork
  BY <1>2 DEF AtWork, Control, Ending, Drained, Waiting, RecvWaits, Knowing
<1>9. Mailbox!Idle(t)
  BY <1>8, AtWorkIdle
<1>10. /\ \A x \in Thread : Lives(x) /\ KeepsOn(x)
       /\ \A x \in Thread \ {t} : KeepsBox(x)
  BY <1>1, <1>2 DEF ViewTypes, Lives, KeepsBox, KeepsOn, Nameable, Ending, Drained,
     Waiting, RecvWaits, Knowing
<1>11. /\ \A x \in Thread : /\ Life(x)' = Life(x) /\ Want(x)' = Want(x)
                            /\ Waits(x)' = Waits(x) /\ Answer(x)' = Answer(x)
       /\ \A x \in Thread \ {t} : Box(x)' = Box(x)
  BY <1>10, ViewStays
<1>12. s \in Thread
  BY <1>1 DEF Entry
<1>13. Want(t) = {}
  BY <1>2 DEF Want
<1>14. received' = [received EXCEPT ![t][s] = q[k].n]
  BY <1>1 DEF Receives
<1> HIDE DEF q
<1>15. k \in DOMAIN Box(t) /\ Box(t)[k].mitt = s /\ Box(t)[k].n = q[k].n
  BY <1>4, <1>5, <1>6 DEF q
<1>16. /\ Box(t)' = RemoveAt(Box(t), k) /\ Want(t)' = {}
       /\ received' = [received EXCEPT ![t][Box(t)[k].mitt] = Box(t)[k].n]
  BY <1>4, <1>11, <1>13, <1>14, <1>15
<1>17. {s} \in SUBSET Thread
  BY <1>12
<1> HIDE DEF s
<1> QED
  BY <1>2, <1>7, <1>9, <1>11, <1>15, <1>16, <1>17, TakeSeen

\* A wait ends with the message handed over, or with the end of all senders.
LEMMA RecvWokenTakes ==
  ASSUME ViewTypes, SlotAgrees, AwaitedAgrees, NoMissedMessage, NamesAgree,
         NEW t \in Thread, RecvWoken(t)
  PROVE  Mailbox!Take(t) \/ Mailbox!GiveUp(t) \/ UNCHANGED Mailbox!avars
<1>1. /\ pc[t] = "recv_woken" /\ pc' = [pc EXCEPT ![t] = "run"]
      /\ UNCHANGED <<msgq, accepted>>
      /\ slot' = [slot EXCEPT ![t] = Null]
      /\ \A x \in Thread \ {t} :
           stato'[x] = stato[x] /\ alts'[x] = alts[x] /\ peer'[x] = peer[x]
  BY DEF RecvWoken, Return, Goto, ViewTypes
<1>2. IF slot[t] # Null THEN Receives(t, slot[t]) ELSE UNCHANGED received
  BY DEF RecvWoken
<1>3. /\ \A x \in Thread : Lives(x)
      /\ \A x \in Thread \ {t} : KeepsBox(x) /\ KeepsOn(x)
      /\ slot[t] = Null => KeepsBox(t)
  BY <1>1 DEF ViewTypes, Lives, KeepsBox, KeepsOn, Nameable, Ending, Drained
<1>4. pc[t] \in Waiting /\ pc'[t] = "run" /\ "run" \in AtWork
  BY <1>1 DEF ViewTypes, AtWork, Control, Ending, Drained, Waiting, RecvWaits, Knowing
<1>5. Want(t) = Senders(alts[t]) /\ Want(t)' = {}
  BY <1>1, <1>4 DEF Want
<1>6. CASE slot[t] = Null
  <2>1. OnlyWant(t)
    BY <1>1, <1>2, <1>3, <1>4, <1>6 DEF OnlyWant
  <2>2. mitt[t] = {} /\ todo[t] = {}
    BY <1>1, <1>6 DEF SlotAgrees, AwaitedAgrees, RecvWaits
  <2> QED BY <1>4, <1>5, <1>6, <2>1, <2>2, GivesUp
<1>7. CASE slot[t] # Null
  <2> DEFINE p == Plain(msgq[t])
  <2>1. msgq[t] \in Seq(Entry) /\ msgq'[t] = msgq[t] /\ p \in Seq(Msg)
    BY <1>1, PlainMessages DEF ViewTypes
  <2>2. slot[t] \in Msg /\ Box(t) = <<slot[t]>> \o p
    BY <1>1, <1>7, BoxIs DEF Ending, Drained
  <2>3. Box(t)' = p
    BY <1>1, <1>4, <2>1, NextBoxIs DEF ViewTypes, Ending, Drained
  <2>4. RemoveAt(Box(t), 1) = p
    BY <2>1, <2>2, FrontRemove
  <2>5. 1 \in DOMAIN Box(t) /\ Box(t)[1] = slot[t]
    <3>1. Box(t) \in Seq(Msg) /\ Len(Box(t)) = Len(p) + 1 /\ Box(t)[1] = slot[t]
      BY <2>1, <2>2, InFront
    <3>2. Len(p) \in Nat /\ DOMAIN Box(t) = 1 .. Len(Box(t))
      BY <2>1, <3>1, LenProperties
    <3> QED BY <3>1, <3>2
  <2>6. slot[t].mitt \in Want(t) /\ Want(t) \subseteq Thread
    BY <1>4, <1>5, <1>7 DEF NamesAgree, Waiting, ViewTypes
  <2>7. Mailbox!FirstFrom(Want(t), Box(t), 1)
    BY <2>5, <2>6 DEF Mailbox!FirstFrom
  <2>8. Life(t) = "live"
    BY <1>1 DEF Life, Known, Ending, Drained
  <2>9. received' = [received EXCEPT ![t][slot[t].mitt] = slot[t].n]
    BY <1>2, <1>7 DEF Receives
  <2>10. /\ \A x \in Thread : Life(x)' = Life(x)
         /\ \A x \in Thread \ {t} : Box(x)' = Box(x) /\ Want(x)' = Want(x)
         /\ \A x \in Thread \ {t} : Waits(x)' = Waits(x) /\ Answer(x)' = Answer(x)
    BY <1>3, ViewStays
  <2>11. Waits(t)' = Waits(t) /\ Answer(t)' = Answer(t)
    BY <1>1, <1>4 DEF Waits, Answer
  <2> HIDE DEF p
  <2>12. Mailbox!Take(t)
    <3>1. /\ \A x \in Thread : /\ Life(x)' = Life(x) /\ Waits(x)' = Waits(x)
                               /\ Answer(x)' = Answer(x)
          /\ \A x \in Thread \ {t} : Box(x)' = Box(x) /\ Want(x)' = Want(x)
      BY <2>10, <2>11
    <3>2. received' = [received EXCEPT ![t][Box(t)[1].mitt] = Box(t)[1].n]
      BY <2>5, <2>9
    <3>3. Box(t)' = RemoveAt(Box(t), 1) /\ UNCHANGED accepted
      BY <1>1, <2>3, <2>4
    <3> QED BY <1>5, <2>5, <2>6, <2>7, <2>8, <3>1, <3>2, <3>3, TakeSeen
  <2> QED BY <2>12
<1> QED BY <1>6, <1>7

\* The library's Cardinality is the one of the mailboxes.
LEMMA SameCardinality ==
  ASSUME NEW S
  PROVE  Mailbox!Cardinality(S) = Cardinality(S)
BY DEF Mailbox!Cardinality, Cardinality, Mailbox!IsFiniteSet, IsFiniteSet

\* A message is posted where one joins a mailbox, in front or at the end, and is
\* counted.
LEMMA PostSeen ==
  ASSUME NEW t \in Thread, NEW d \in Thread, d # t,
         Mailbox!Idle(t), Life(d) = "live",
         accepted' = [accepted EXCEPT ![t][d] = @ + 1], UNCHANGED received,
         NEW m, m = [mitt |-> t, n |-> accepted[t][d] + 1],
         NEW serves \in BOOLEAN,
         serves <=> t \in Want(d) /\ Mailbox!NothingFrom(d, Want(d)),
         Box(d)' = IF serves THEN <<m>> \o Box(d) ELSE Append(Box(d), m),
         \/ Waits(t)' = Waits(t) /\ (serves \/ Cardinality(Mailbox!LeftBehind(d)) < LargestBuffer)
         \/ ~serves /\ Waits(t)' = d,
         \A x \in Thread : /\ Life(x)' = Life(x) /\ Want(x)' = Want(x)
                           /\ Answer(x)' = Answer(x),
         \A x \in Thread \ {d} : Box(x)' = Box(x),
         \A x \in Thread \ {t} : Waits(x)' = Waits(x)
  PROVE  Mailbox!Post(t, d)
<1> DEFINE box == [x \in Thread |-> Box(x)]
           want == [x \in Thread |-> Want(x)]
           life == [x \in Thread |-> Life(x)]
           waits == [x \in Thread |-> Waits(x)]
           sending == t \in want[d] /\ Mailbox!NothingFrom(d, want[d])
<1>1. box' = [box EXCEPT ![d] = IF serves THEN <<m>> \o @ ELSE Append(@, m)]
  OBVIOUS
<1>2. /\ life' = life /\ want' = want
      /\ [x \in Thread |-> Answer(x)]' = [x \in Thread |-> Answer(x)]
  OBVIOUS
<1>3. \/ UNCHANGED waits /\ (serves \/ Cardinality(Mailbox!LeftBehind(d)) < LargestBuffer)
      \/ ~serves /\ waits' = [waits EXCEPT ![t] = d]
  OBVIOUS
<1>4. life[d] = "live" /\ serves = sending
  OBVIOUS
<1> HIDE DEF box, want, life, waits
<1>5. box' = [box EXCEPT ![d] = IF sending THEN <<m>> \o @ ELSE Append(@, m)]
  BY <1>1, <1>4
<1>6. \/ UNCHANGED waits /\ (sending \/ Cardinality(Mailbox!LeftBehind(d)) < LargestBuffer)
      \/ ~sending /\ waits' = [waits EXCEPT ![t] = d]
  BY <1>3, <1>4
<1> QED
  BY <1>2, <1>4, <1>5, <1>6, SameCardinality DEF Mailbox!Post, box, want, life, waits

\* A message handed over is one the receiver waits for.
LEMMA SendDirectPosts ==
  ASSUME TypeOK, ViewTypes, StatoAgrees, NoMissedMessage, NamesAgree,
         NEW t \in Thread, SendDirect(t)
  PROVE  Mailbox!Post(t, peer[t])
<1>0. PICK d \in Thread, m \in {[mitt |-> t, n |-> accepted[t][peer[t]] + 1]} :
        d = peer[t] /\ m = [mitt |-> t, n |-> accepted[t][d] + 1]
  BY DEF ViewTypes
<1>1. /\ pc[t] = "send" /\ pc' = [pc EXCEPT ![t] = "send_signal"]
      /\ UNCHANGED <<stato, msgq, alts, peer, received>>
      /\ slot' = [slot EXCEPT ![d] = m]
      /\ accepted' = [accepted EXCEPT ![t][d] = @ + 1]
      /\ stato[d] = "WAITING_ON_RECEIVE" /\ slot[d] = Null /\ t \in mitt[d]
  <2>1. /\ pc[t] = "send" /\ Goto(t, "send_signal")
        /\ slot' = [slot EXCEPT ![d] = [mitt |-> t, n |-> Next_n(t, d)]]
        /\ Accept(t, d) /\ Expected(t, d)
        /\ UNCHANGED <<stato, msgq, received>>
    BY <1>0 DEF SendDirect
  <2>2. UNCHANGED <<alts, peer>>
    BY DEF SendDirect, locals
  <2> QED BY <1>0, <2>1, <2>2 DEF Goto, Next_n, Accept, Expected
<1>2. pc[d] \in RecvWaits /\ d # t
  BY <1>1 DEF ViewTypes, StatoAgrees, RecvWaits
<1>3. m \in Msg /\ m # Null
  <2>1. accepted[t][d] \in Nat
    BY DEF ViewTypes
  <2>2. accepted[t][d] + 1 \in Nat
    BY <2>1
  <2>3. m \in Msg
    BY <1>0, <2>2 DEF Msg
  <2> QED BY <2>3, NullAssumption
<1>4. pc[d] \notin Ending /\ pc'[d] \notin Ending /\ slot'[d] = m /\ msgq'[d] = msgq[d]
  BY <1>1, <1>2 DEF ViewTypes, RecvWaits, Ending, Drained
<1>5. Box(d) = Plain(msgq[d]) /\ Box(d)' = <<m>> \o Plain(msgq[d])
  <2>1. msgq'[d] \in Seq(Entry)
    BY <1>2, <1>4 DEF ViewTypes
  <2>2. Box(d) = Plain(msgq[d])
    BY <1>1, <1>2, <1>4, BoxIs
  <2>3. Box(d)' = <<slot'[d]>> \o Plain(msgq'[d])
    BY <1>2, <1>3, <1>4, <2>1, NextBoxIs
  <2> QED BY <1>4, <2>2, <2>3
<1>6. Want(d) = Senders(alts[d]) /\ t \in Want(d)
  BY <1>1, <1>2 DEF Want, NamesAgree, RecvWaits
<1>7. Mailbox!NothingFrom(d, Want(d))
  <2>1. Matches(Senders(alts[d]), msgq[d]) = {}
    BY <1>1, <1>2 DEF NoMissedMessage, RecvWaits
  <2> QED BY <1>1, <1>2, <1>4, <1>6, <2>1, NothingSeen
<1>8. Life(d) = "live"
  BY <1>2, <1>4 DEF Life, Known, RecvWaits
<1>9. pc[t] \in AtWork
  BY <1>1 DEF AtWork, Control, Ending, Drained, Waiting, RecvWaits, Knowing
<1>10. Mailbox!Idle(t)
  BY <1>9, AtWorkIdle
<1>11. /\ \A x \in Thread : Lives(x) /\ KeepsOn(x)
       /\ \A x \in Thread \ {d} : KeepsBox(x)
  BY <1>1, <1>2 DEF ViewTypes, Lives, KeepsBox, KeepsOn, Nameable, Ending, Drained,
     Waiting, RecvWaits, Knowing
<1>12. /\ \A x \in Thread : /\ Life(x)' = Life(x) /\ Want(x)' = Want(x)
                            /\ Waits(x)' = Waits(x) /\ Answer(x)' = Answer(x)
       /\ \A x \in Thread \ {d} : Box(x)' = Box(x)
  BY <1>11, ViewStays
<1>13. Box(d)' = <<m>> \o Box(d)
  BY <1>5
<1>14. Mailbox!Post(t, d)
  BY <1>0, <1>1, <1>2, <1>6, <1>7, <1>8, <1>10, <1>12, <1>13, PostSeen
<1> QED BY <1>0, <1>14

\* Without the message handed over, no more messages are left behind than the
\* mailbox has.
LEMMA LeftBehindFew ==
  ASSUME ViewTypes, SlotAgrees, NamesAgree, NEW d \in Thread, pc[d] \notin Ending
  PROVE  Cardinality(Mailbox!LeftBehind(d)) \in Nat
         /\ Cardinality(Mailbox!LeftBehind(d)) <= Len(msgq[d])
<1> DEFINE p == Plain(msgq[d])
           q == IF Mailbox!NothingFrom(d, Want(d)) THEN Box(d) ELSE Tail(Box(d))
           l == Len(msgq[d])
<1>1. p \in Seq(Msg) /\ Len(p) = l /\ l \in Nat
  BY PlainMessages, LenProperties DEF ViewTypes
<1>2. DOMAIN q \subseteq 1 .. l
  <2>1. CASE slot[d] = Null
    <3>1. Box(d) = p
      BY <2>1, BoxIs
    <3>2. CASE Mailbox!NothingFrom(d, Want(d))
      BY <1>1, <3>1, <3>2, LenProperties
    <3>3. CASE ~Mailbox!NothingFrom(d, Want(d))
      <4>1. DOMAIN Box(d) # {}
        BY <3>3 DEF Mailbox!NothingFrom
      <4>2. p # <<>>
        BY <3>1, <4>1
      <4>3. Tail(p) \in Seq(Msg) /\ Len(Tail(p)) = l - 1
        BY <1>1, <4>2, HeadTailProperties
      <4>4. DOMAIN Tail(p) = 1 .. l - 1
        BY <4>3, LenProperties
      <4> QED BY <1>1, <3>1, <3>3, <4>4
    <3> QED BY <3>2, <3>3
  <2>2. CASE slot[d] # Null
    <3>1. slot[d] \in Msg /\ Box(d) = <<slot[d]>> \o p
      BY <2>2, BoxIs
    <3>2. Box(d) \in Seq(Msg) /\ Len(Box(d)) = l + 1 /\ Box(d)[1] = slot[d]
      BY <1>1, <3>1, InFront
    <3>3. slot[d].mitt \in Want(d)
      BY <2>2 DEF SlotAgrees, NamesAgree, Want, RecvWaits
    <3>4. 1 \in DOMAIN Box(d)
      BY <1>1, <3>2, LenProperties
    <3>5. ~Mailbox!NothingFrom(d, Want(d))
      BY <3>2, <3>3, <3>4 DEF Mailbox!NothingFrom
    <3>6. Box(d) # <<>>
      BY <3>4
    <3>7. Tail(Box(d)) \in Seq(Msg) /\ Len(Tail(Box(d))) = l
      BY <1>1, <3>2, <3>6, HeadTailProperties
    <3>8. DOMAIN Tail(Box(d)) = 1 .. l
      BY <3>7, LenProperties
    <3> QED BY <3>5, <3>8
  <2> QED BY <2>1, <2>2
<1>3. Mailbox!LeftBehind(d) \subseteq DOMAIN q
  BY DEF Mailbox!LeftBehind
<1>4. IsFiniteSet(1 .. l) /\ Cardinality(1 .. l) = l
  BY <1>1, FS_Interval
<1>5. Mailbox!LeftBehind(d) \in SUBSET (1 .. l)
  BY <1>2, <1>3
<1>6. /\ IsFiniteSet(Mailbox!LeftBehind(d))
      /\ Cardinality(Mailbox!LeftBehind(d)) <= Cardinality(1 .. l)
  BY <1>4, <1>5, FS_Subset
<1> QED BY <1>4, <1>6, FS_CardinalityType

BufferAssumption == \E b \in Bsize : \A c \in Bsize : c <= b

\* A message that joins the mailbox is not awaited, and its sender is suspended
\* unless the buffer has room.
LEMMA SendQueuePosts ==
  ASSUME TypeOK, ViewTypes, LockDiscipline, StatoAgrees, SlotAgrees, AwaitedAgrees,
         NamesAgree, BufferAssumption,
         NEW t \in Thread, NEW b \in Bsize, SendQueue(t, b)
  PROVE  Mailbox!Post(t, peer[t])
<1>0. PICK d \in Thread, m \in {[mitt |-> t, n |-> accepted[t][peer[t]] + 1]} :
        d = peer[t] /\ m = [mitt |-> t, n |-> accepted[t][d] + 1]
  BY DEF ViewTypes
<1>1. PICK e \in Entry :
        /\ e.mitt = t /\ e.n = accepted[t][d] + 1
        /\ msgq' = [msgq EXCEPT ![d] = Append(@, e)]
        /\ \/ /\ pc' = [pc EXCEPT ![t] = "send_blocked"]
              /\ stato' = [stato EXCEPT ![t] = "WAITING_ON_SEND"]
              /\ UNCHANGED peer
           \/ /\ pc' = [pc EXCEPT ![t] = "run"]
              /\ peer' = [peer EXCEPT ![t] = t]
              /\ UNCHANGED stato
  <2> HIDE DEF Entry
  <2> QED BY <1>0, SendQueueEntry DEF Goto, Return
<1>2. /\ pc[t] = "send" /\ ~Expected(t, d) /\ ~Terminated(d)
      /\ UNCHANGED <<slot, received>>
      /\ accepted' = [accepted EXCEPT ![t][d] = @ + 1]
      /\ pc'[t] = "run" => ~MustWait(msgq[d], b)
      /\ \A x \in Thread \ {t} : alts'[x] = alts[x]
  <2>1. /\ pc[t] = "send" /\ ~Expected(t, d) /\ ~Terminated(d) /\ Accept(t, d)
        /\ UNCHANGED <<slot, received>>
    BY <1>0 DEF SendQueue
  <2>2. MustWait(msgq[d], b) => pc' = [pc EXCEPT ![t] = "send_blocked"]
    BY <1>0 DEF SendQueue, Goto
  <2>3. UNCHANGED alts \/ alts' = [alts EXCEPT ![t] = <<>>]
    BY DEF SendQueue, Return
  <2>4. \A x \in Thread \ {t} : alts'[x] = alts[x]
    BY <2>3 DEF TypeOK
  <2> QED BY <2>1, <2>2, <2>4 DEF Accept, ViewTypes
<1>3. d # t /\ Nameable(pc[d]) /\ pc[d] \notin Ending
  <2>1. d \in Known \ {t}
    BY <1>0, <1>2 DEF NamesAgree
  <2>2. pc[d] \notin Ending
    BY <1>2 DEF Terminated, StatoAgrees
  <2> QED BY <2>1, <2>2 DEF Known, Nameable
<1>4. Life(d) = "live"
  BY <1>3 DEF Life, Known, Nameable
<1>5. pc[t] \in AtWork
  BY <1>2 DEF AtWork, Control, Ending, Drained, Waiting, RecvWaits, Knowing
<1>6. Mailbox!Idle(t)
  BY <1>5, AtWorkIdle
<1>7. /\ m = [mitt |-> e.mitt, n |-> e.n] /\ m \in Msg
      /\ msgq[d] \in Seq(Entry) /\ Append(msgq[d], e) \in Seq(Entry)
      /\ msgq'[d] = Append(msgq[d], e)
  <2>1. m = [mitt |-> e.mitt, n |-> e.n] /\ m \in Msg
    BY <1>0, <1>1 DEF Entry, Msg
  <2>2. msgq[d] \in Seq(Entry) /\ msgq'[d] = Append(msgq[d], e)
    BY <1>1 DEF ViewTypes
  <2> QED BY <2>1, <2>2, AppendProperties
<1>8. Box(d)' = Append(Box(d), m)
  <2> DEFINE p == Plain(msgq[d])
  <2>1. p \in Seq(Msg)
    BY <1>7, PlainMessages
  <2>2. Plain(msgq'[d]) = Append(p, m)
    BY <1>7, PlainAppend
  <2>3. pc'[d] \notin Ending /\ slot'[d] = slot[d] /\ msgq'[d] \in Seq(Entry)
    BY <1>1, <1>2, <1>3, <1>7 DEF ViewTypes
  <2>4. CASE slot[d] = Null
    <3>1. Box(d)' = Plain(msgq'[d])
      BY <2>3, <2>4, NextBoxIs
    <3> QED BY <1>3, <2>2, <2>4, <3>1, BoxIs
  <2>5. CASE slot[d] # Null
    <3>1. Box(d)' = <<slot[d]>> \o Plain(msgq'[d])
      BY <2>3, <2>5, NextBoxIs
    <3>2. slot[d] \in Msg /\ Box(d) = <<slot[d]>> \o p
      BY <1>3, <2>5, BoxIs
    <3> HIDE DEF p
    <3> QED BY <1>7, <2>1, <2>2, <3>1, <3>2, FrontAppend
  <2> QED BY <2>4, <2>5
<1>9. ~(t \in Want(d) /\ Mailbox!NothingFrom(d, Want(d)))
  <2> SUFFICES ASSUME t \in Want(d), Mailbox!NothingFrom(d, Want(d)) PROVE FALSE
    OBVIOUS
  <2>1. pc[d] \in Waiting /\ Want(d) = Senders(alts[d])
    BY DEF Want, Waiting, RecvWaits
  <2>2. CASE pc[d] = "recv_build"
    <3>1. mutex[d] = t /\ mutex[d] = d
      BY <1>0, <1>2, <2>2 DEF LockDiscipline, Holds
    <3> QED BY <1>3, <3>1
  <2>3. CASE pc[d] \in RecvWaits /\ slot[d] = Null
    <3>1. stato[d] = "WAITING_ON_RECEIVE" /\ t \notin mitt[d] /\ todo[d] = {}
      BY <1>2, <2>3 DEF StatoAgrees, Expected, AwaitedAgrees
    <3>2. pc[t] \in Ending
      BY <2>1, <2>3, <3>1 DEF AwaitedAgrees
    <3> QED BY <1>2, <3>2 DEF Ending, Drained
  <2>4. CASE slot[d] # Null
    <3>1. slot[d].mitt \in Want(d)
      BY <2>1, <2>4 DEF NamesAgree, Waiting
    <3>2. slot[d] \in Msg /\ Box(d) = <<slot[d]>> \o Plain(msgq[d])
      BY <1>3, <2>4, BoxIs
    <3>3. Plain(msgq[d]) \in Seq(Msg)
      BY <1>7, PlainMessages
    <3>4. /\ Box(d) \in Seq(Msg) /\ Len(Box(d)) = Len(Plain(msgq[d])) + 1
          /\ Box(d)[1] = slot[d] /\ Len(Plain(msgq[d])) \in Nat
      BY <3>2, <3>3, InFront, LenProperties
    <3>5. 1 \in DOMAIN Box(d)
      BY <3>4, LenProperties
    <3> QED BY <3>1, <3>4, <3>5 DEF Mailbox!NothingFrom
  <2> QED BY <2>1, <2>2, <2>3, <2>4 DEF Waiting
<1>10. /\ \A x \in Thread : Lives(x)
       /\ \A x \in Thread \ {d} : KeepsBox(x)
       /\ \A x \in Thread \ {t} : KeepsOn(x)
  <2>1. /\ \A x \in Thread \ {t} : pc'[x] = pc[x] /\ stato'[x] = stato[x] /\ peer'[x] = peer[x]
        /\ pc'[t] \in {"run", "send_blocked"}
        /\ \A x \in Thread \ {d} : msgq'[x] = msgq[x]
    <3>1. \A x \in Thread \ {d} : msgq'[x] = msgq[x]
      BY <1>1 DEF ViewTypes
    <3>2. \/ /\ pc' = [pc EXCEPT ![t] = "send_blocked"]
             /\ stato' = [stato EXCEPT ![t] = "WAITING_ON_SEND"] /\ peer' = peer
          \/ /\ pc' = [pc EXCEPT ![t] = "run"]
             /\ peer' = [peer EXCEPT ![t] = t] /\ stato' = stato
      BY <1>1
    <3>3. /\ pc \in [Thread -> Control] /\ stato \in [Thread -> Stato]
          /\ peer \in [Thread -> Thread]
      BY DEF ViewTypes
    <3>4. /\ \A x \in Thread \ {t} :
               pc'[x] = pc[x] /\ stato'[x] = stato[x] /\ peer'[x] = peer[x]
          /\ pc'[t] \in {"run", "send_blocked"}
      BY <3>2, <3>3
    <3> QED BY <3>1, <3>4
  <2>2. \A x \in Thread : Lives(x)
    BY <1>2, <2>1 DEF Lives, Nameable, Ending, Drained
  <2>3. \A x \in Thread \ {d} : KeepsBox(x)
    BY <1>2, <2>1 DEF KeepsBox, Ending, Drained
  <2>4. \A x \in Thread \ {t} : KeepsOn(x)
    BY <1>2, <2>1 DEF KeepsOn
  <2> QED BY <2>2, <2>3, <2>4
<1>11. /\ \A x \in Thread : Life(x)' = Life(x)
       /\ \A x \in Thread \ {d} : Box(x)' = Box(x)
       /\ \A x \in Thread \ {t} :
            Want(x)' = Want(x) /\ Waits(x)' = Waits(x) /\ Answer(x)' = Answer(x)
  BY <1>10, ViewStays
<1>12. Want(t)' = Want(t) /\ Answer(t)' = Answer(t)
  BY <1>1, <1>2 DEF ViewTypes, Want, Answer
<1>13. \/ /\ Waits(t)' = Waits(t)
          /\ Cardinality(Mailbox!LeftBehind(d)) < LargestBuffer
       \/ Waits(t)' = d
  <2>1. CASE pc'[t] = "send_blocked" /\ UNCHANGED peer
    BY <1>0, <2>1 DEF Waits
  <2>2. CASE pc'[t] = "run"
    <3>1. Waits(t)' = Waits(t)
      BY <1>2, <2>2 DEF Waits
    <3>2. LargestBuffer \in Bsize /\ \A c \in Bsize : c <= LargestBuffer
      BY DEF BufferAssumption, LargestBuffer
    <3>3. b \in Nat /\ LargestBuffer \in Nat /\ b <= LargestBuffer
      BY <3>2, BsizeAssumption
    <3>4. Len(msgq[d]) + 1 <= b /\ Len(msgq[d]) \in Nat
      BY <1>2, <1>7, <2>2, <3>3, LenProperties DEF MustWait
    <3>5. /\ Cardinality(Mailbox!LeftBehind(d)) \in Nat
          /\ Cardinality(Mailbox!LeftBehind(d)) <= Len(msgq[d])
      BY <1>3, LeftBehindFew
    <3>6. Cardinality(Mailbox!LeftBehind(d)) < LargestBuffer
      BY <3>3, <3>4, <3>5
    <3> QED BY <3>1, <3>6
  <2> QED BY <1>1, <2>1, <2>2 DEF ViewTypes
<1>14. Mailbox!Post(t, d)
  BY <1>0, <1>2, <1>3, <1>4, <1>6, <1>8, <1>9, <1>11, <1>12, <1>13, PostSeen
<1> QED BY <1>0, <1>14

-----------------------------------------------------------------------------
(* The threads implement the mailboxes *)

\* The code starts where the mailboxes do, all of them empty.
LEMMA MailboxesInit == Init => Mailbox!AInit
<1> SUFFICES ASSUME Init PROVE Mailbox!AInit
  OBVIOUS
<1> USE DEF Init, InitBut
<1>1. \A t \in Thread : Life(t) = IF t = Main THEN "live" ELSE "none"
  BY DEF Life, Known, Ending, Drained
<1>2. Plain(<<>>) = <<>>
  <2>1. <<>> \in Seq(Entry) /\ Len(<<>>) = 0
    BY EmptySeq
  <2>2. Plain(<<>>) \in Seq(Msg) /\ Len(Plain(<<>>)) = 0
    BY <2>1, PlainMessages
  <2> QED BY <2>2, EmptySeq
<1>3. \A t \in Thread : Box(t) = <<>>
  <2>1. <<>> \o <<>> = <<>>
    BY EmptySeq, ConcatEmptySeq
  <2> QED BY <1>2, <2>1 DEF Box
<1>4. \A t \in Thread : Want(t) = {} /\ Waits(t) = Null /\ Answer(t) = "none"
  BY DEF Want, Waits, Answer
<1> QED BY <1>1, <1>3, <1>4 DEF Mailbox!AInit

\* Every step of a thread is a step of the mailboxes or shows nothing.
LEMMA MailboxesStep ==
  ASSUME TypeOK, LockInv, ProtocolInv, BufferAssumption, NEW t \in Thread,
         Program(t) \/ Runtime(t)
  PROVE  Mailbox!ANext \/ UNCHANGED Mailbox!avars
<1>0. /\ ViewTypes /\ LockDiscipline /\ CreationOwned /\ StatoAgrees /\ SlotAgrees
      /\ MarksAgree /\ SignalsAgree /\ AwaitedAgrees /\ NoMissedMessage
      /\ ResultsAgree /\ NamesAgree /\ peer[t] \in Thread
  BY TypesGiveViewTypes DEF LockInv, ProtocolInv, SleepInv, WakeInv, TellInv, ViewTypes
<1> USE <1>0
<1>1. \A x, d \in Thread :
        \/ Mailbox!Born(x) \/ Mailbox!End(x) \/ Mailbox!Post(x, d)
        \/ Mailbox!Resolve(x) \/ Mailbox!Returned(x) \/ Mailbox!Take(x)
        \/ Mailbox!StartWait(x, Want(x)') \/ Mailbox!GiveUp(x)
        => Mailbox!ANext
  BY DEF Mailbox!ANext
<1>2. CASE Program(t)
  <2>1. CASE \E c \in Thread : Create(t, c)
    <3>1. PICK c \in Thread : Create(t, c)
      BY <2>1
    <3>2. CASE CreateFails
      BY <2>1, <3>2, HiddenCreating, HiddenStutters
    <3>3. CASE ~CreateFails
      BY <1>1, <3>1, <3>3, CreateBirth
    <3> QED BY <3>2, <3>3
  <2>2. CASE Register(t)
    BY <1>1, <2>2, RegisterBirth
  <2>3. CASE ExitCall(t)
    BY <1>1, <2>3, ExitCallEnds
  <2>4. CASE \/ \E d \in Thread : SendCall(t, d)
             \/ \E S \in SUBSET Thread, nb \in BOOLEAN : ReceiveCall(t, S, nb)
             \/ \E args \in Cases : CaseCall(t, args)
    BY <2>4, HiddenProgram, HiddenStutters
  <2> QED BY <1>2, <2>1, <2>2, <2>3, <2>4 DEF Program
<1>3. CASE Creating(t)
  <2>1. CASE PthreadCreate(t)
    <3>1. CASE CreateFails
      BY <1>1, <2>1, <3>1, PthreadCreateBirth
    <3>2. CASE ~CreateFails
      BY <2>1, <3>2, HiddenCreating, HiddenStutters
    <3> QED BY <3>1, <3>2
  <2>2. CASE PthreadCreateFails(t) \/ CreateUndo(t) \/ CreateMax(t) \/ StartRoutine(t)
    BY <2>2, HiddenCreating, HiddenStutters
  <2> QED BY <1>3, <2>1, <2>2 DEF Creating
<1>4. CASE Sending(t)
  <2>1. CASE SendDirect(t)
    BY <1>1, <2>1, SendDirectPosts
  <2>2. CASE \E b \in Bsize : SendQueue(t, b)
    BY <1>1, <2>2, SendQueuePosts
  <2>3. CASE SendRet(t)
    BY <1>1, <2>3, SendRetReturns
  <2>4. CASE \/ SendLock(t) \/ (\E nb \in BOOLEAN : SendRefuse(t, nb))
             \/ SendSignal(t) \/ SendWoken(t)
    BY <2>4, HiddenSending, HiddenStutters
  <2> QED BY <1>4, <2>1, <2>2, <2>3, <2>4 DEF Sending
<1>5. CASE Receiving(t)
  <2>1. CASE RecvTake(t)
    BY <1>1, <2>1, RecvTakeTakes
  <2>2. CASE RecvNone(t)
    BY <1>1, <2>2, RecvNoneWaits
  <2>3. CASE RecvSignal(t)
    BY <1>1, <2>3, RecvSignalResolves
  <2>4. CASE RecvNobody(t)
    BY <1>1, <2>4, RecvNobodyGivesUp
  <2>5. CASE RecvWoken(t)
    BY <1>1, <2>5, RecvWokenTakes
  <2>6. CASE \/ RecvLock(t) \/ RecvDefault(t) \/ RecvWait(t)
             \/ \E s \in Thread : RecvBuild(t, s)
    BY <2>6, HiddenReceiving, HiddenStutters
  <2> QED BY <1>5, <2>1, <2>2, <2>3, <2>4, <2>5, <2>6 DEF Receiving
<1>6. CASE Exiting(t)
  <2>1. CASE ExitDrainSignal(t)
    BY <1>1, <2>1, ExitDrainSignalResolves
  <2>2. CASE ~ExitDrainSignal(t)
    BY <1>6, <2>2, HiddenExiting, HiddenStutters
  <2> QED BY <2>1, <2>2
<1> QED BY <1>2, <1>3, <1>4, <1>5, <1>6 DEF Runtime

\* The code of trpthread.c, with its mutexes, states and condition variables,
\* implements the mailboxes a program sees, for any number of threads.
THEOREM MailboxesImplemented ==
  ASSUME ~Spurious, BufferAssumption
  PROVE  Spec => ImplementsMailbox
<1>1. TypeOK /\ LockInv /\ ProtocolInv /\ [Next]_vars => [Mailbox!ANext]_(Mailbox!avars)
  <2> SUFFICES ASSUME TypeOK, LockInv, ProtocolInv, [Next]_vars
               PROVE  Mailbox!ANext \/ UNCHANGED Mailbox!avars
    OBVIOUS
  <2>1. CASE Next
    <3>1. PICK t \in Thread : Program(t) \/ Runtime(t)
      BY <2>1 DEF Next, SpuriousWakeup
    <3> QED BY <3>1, MailboxesStep
  <2>2. CASE UNCHANGED vars
    <3>1. Hidden
      BY <2>2 DEF vars, fields, locals, history, Hidden, Lives, KeepsBox, KeepsOn
    <3> QED BY <3>1, HiddenStutters
  <2> QED BY <2>1, <2>2
<1> QED
  BY <1>1, MailboxesInit, TypeCorrect, LocksCorrect, Protocol, PTL
     DEF Spec, ImplementsMailbox, Mailbox!ASpec
=============================================================================
