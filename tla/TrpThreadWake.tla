---------------------------- MODULE TrpThreadWake ----------------------------
(***************************************************************************)
(* The invariant behind the protocol of TrpThread, in its parts: the       *)
(* wake-ups, the way of the messages, and what suspended senders are told. *)
(* It holds as long as pthread_cond_wait returns only when signalled.      *)
(***************************************************************************)
EXTENDS TrpThread

RecvWaits == {"recv_blocked", "recv_woken"}

\* stato says where a thread is, as far as other threads ask.
StatoAgrees ==
  \A t \in Thread :
    /\ stato[t] = "STOPPED" <=> pc[t] \in Ending \cup {"none"}
    /\ stato[t] = "WAITING_ON_RECEIVE" <=> pc[t] \in RecvWaits

\* The slot is filled during a wait only, and the wait ends when it is filled
\* or nobody is left to fill it.
SlotAgrees ==
  \A t \in Thread :
    /\ slot[t] # Null => pc[t] \in RecvWaits
    /\ pc[t] = "recv_woken" /\ slot[t] = Null => mitt[t] = {}

\* The senders suspended on messages of the mailbox q, each on one message.
Marks(q) == {i \in DOMAIN q : q[i].susp}
MarkedBy(q) == {q[i].mitt : i \in Marks(q)}
MarkedOnce(q) == \A i, j \in Marks(q) : q[i].mitt = q[j].mitt => i = j

MarksAgree ==
  \A d \in Thread :
    /\ MarkedOnce(msgq[d]) /\ MarkedOnce(drain[d])
    /\ MarkedBy(msgq[d]) \cap MarkedBy(drain[d]) = {}
    /\ \A m \in MarkedBy(msgq[d]) \cup MarkedBy(drain[d]) :
         pc[m] = "send_blocked" /\ peer[m] = d

\* A thread about to signal is the only one the wait of its peer allows.
SignalAgrees(x) == LET d == peer[x] IN
  /\ pc[x] = "send_signal" =>
       pc[d] = "recv_blocked" /\ slot[d] # Null /\ slot[d].mitt = x
  /\ pc[x] = "exit_wake" =>
       pc[d] = "recv_blocked" /\ slot[d] = Null /\ mitt[d] = {}
  /\ pc[x] \in {"recv_signal", "exit_drain_signal"} =>
       /\ pc[d] = "send_blocked" /\ peer[d] = x
       /\ \A y \in Thread : d \notin MarkedBy(msgq[y]) \cup MarkedBy(drain[y])

SignalsAgree == \A x \in Thread : SignalAgrees(x)

\* A sender a waiting receiver names and no longer awaits is terminating.
AwaitedAgrees ==
  \A t \in Thread :
    /\ pc[t] \in RecvWaits => todo[t] = {}
    /\ \A s \in Senders(alts[t]) :
         /\ pc[s] # "none"
         /\ pc[t] \in RecvWaits \cup {"recv_build"} /\ slot[t] = Null =>
              s \in mitt[t] \cup todo[t] \/ pc[s] \in Ending

\* The wake-up protocol of trpthread.c as one inductive invariant: stato, slot,
\* mailboxes and queue of senders of every thread agree with where the threads
\* are, and every signal on its way has one wait to end.
WakeInv ==
  /\ StatoAgrees /\ SlotAgrees /\ MarksAgree /\ SignalsAgree
  /\ AwaitedAgrees /\ MailboxClosed /\ NoMissedMessage

\* A receiver asleep that was served, or has nobody left to wait for, has its
\* signal on the way.
ServedSignalled ==
  \A t \in Thread :
    pc[t] = "recv_blocked" /\ (slot[t] # Null \/ mitt[t] = {}) => Signallers(t) # {}

\* A queue of senders belongs to a receive that builds it or waits.
AwaitingReceives ==
  \A t \in Thread : mitt[t] # {} => pc[t] \in RecvWaits \cup {"recv_build"}

\* A sender that is awaited has not gone past its receiver.
AwaitedComes ==
  \A t \in Thread : slot[t] = Null => \A s \in mitt[t] : ~HasPassed(s, t)

\* Only a terminating thread has a copy to drain.
CopyEmpty == \A t \in Thread : pc[t] \notin Drained => drain[t] = <<>>

\* A suspended sender is marked where it is suspended, or has its signal on the way.
MarkedSignalled ==
  \A t \in Thread : pc[t] = "send_blocked" =>
    \/ t \in MarkedBy(msgq[peer[t]]) \cup MarkedBy(drain[peer[t]])
    \/ Signallers(t) # {}

\* Everybody who sleeps is accounted for: next to WakeInv, which says that a signal
\* finds its wait, this says that a wait gets its signal.
RestInv ==
  /\ ServedSignalled /\ AwaitingReceives /\ AwaitedComes
  /\ CopyEmpty /\ MarkedSignalled

\* Next to each other they leave nobody asleep.
SleepInv == WakeInv /\ RestInv

\* Only a receiver that has looked through its mailbox is served directly, and as
\* long as it is not, no message of a sender it queues reaches its mailbox.
PathsAgree ==
  \A t \in Thread :
    /\ stato[t] = "WAITING_ON_RECEIVE" => pc[t] \in RecvWaits
    /\ slot[t] # Null => pc[t] \in RecvWaits
    /\ mitt[t] # {} => pc[t] \in RecvWaits \cup {"recv_build"}
    /\ pc[t] = "recv_build" => Matches(mitt[t] \cup todo[t], msgq[t]) = {}
    /\ stato[t] = "WAITING_ON_RECEIVE" /\ slot[t] = Null => Matches(mitt[t], msgq[t]) = {}

\* Nobody receives what was not accepted.
NotAhead ==
  \A s, d \in Thread : pc[d] \notin Drained => received[d][s] <= accepted[s][d]

\* The way of a message.  This part holds also if waits end without a signal.
MailInv == PathsAgree /\ NotAhead /\ NothingLost

\* A sender is suspended on the last message its destination accepted from it.
Told(d, e) ==
  e.susp => e.n = accepted[e.mitt][d] /\ stato[e.mitt] = "WAITING_ON_SEND"

\* Such a message is still to be received, also where the destination drops it.
MarksTold ==
  \A d \in Thread :
    /\ \A e \in ToSet(msgq[d]) \cup ToSet(drain[d]) : Told(d, e)
    /\ \A e \in ToSet(drain[d]) : e.susp => received[d][e.mitt] < e.n

\* Whether a thread that was suspended knows, in stato, if its message was taken.
Result(x, d) ==
  IF stato[x] = "WAITING_ON_SEND"
  THEN received[d][x] = accepted[x][d]
  ELSE received[d][x] # accepted[x][d] /\ pc[d] \in Ending

Knowing == {"send_woken", "send_ret"}
Telling == {"recv_signal", "exit_drain_signal"}

\* ... as does the one about to be woken.
ResultAgrees(x) ==
  /\ pc[x] \in Knowing => Result(x, peer[x])
  /\ pc[x] = "recv_signal" =>
       /\ stato[peer[x]] = "WAITING_ON_SEND"
       /\ received[x][peer[x]] = accepted[peer[x]][x]
  /\ pc[x] = "exit_drain_signal" =>
       /\ stato[peer[x]] # "WAITING_ON_SEND"
       /\ received[x][peer[x]] # accepted[peer[x]][x]

ResultsAgree == \A x \in Thread : ResultAgrees(x)

\* What a suspended sender is told.
TellInv == MarksTold /\ ResultsAgree

\* Calls go to threads that can be named, and a waiting receiver queues, and is
\* handed the message of, none but the senders it names.
NamesAgree ==
  \A t \in Thread :
    /\ pc[t] = "create_undo" => CreateFails
    /\ pc[t] \in {"send_lock", "send"} => peer[t] \in Known \ {t}
    /\ pc[t] \in RecvWaits \cup {"recv_build"} =>
         /\ mitt[t] \cup todo[t] \subseteq Senders(alts[t])
         /\ slot[t] # Null => slot[t].mitt \in Senders(alts[t])

\* The whole protocol: nobody sleeps on when what it waits for has come, or can
\* no longer come, no message is lost on the way and every sender is told the
\* truth, because stato, slots, marks, queues of senders and the walks of
\* terminating threads agree all the time.
ProtocolInv == SleepInv /\ MailInv /\ TellInv /\ NamesAgree
=============================================================================
