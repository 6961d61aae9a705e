------------------------------ MODULE TrpMailbox ------------------------------
(***************************************************************************)
(* What the message primitives of src/trpthread/trpthread.c promise to a   *)
(* program, without states, mutexes or condition variables: every thread   *)
(* has one mailbox; a receive takes the first message of a sender it       *)
(* names; a blocking send ends when its message is taken or when the       *)
(* destination ends; a receive gives up only when all the senders it names *)
(* have ended and have left it nothing.                                    *)
(***************************************************************************)
EXTENDS Integers, FiniteSets, SequencesExt

CONSTANTS
  Thread, Main, Null,
  Buffer   \* the largest number of messages a sender may leave behind

VARIABLES
  life,    \* "none", "live" or "ended"
  box,     \* box[d]: messages accepted for d and not taken yet
  want,    \* want[r]: the senders a waiting receiver names, {} if not waiting
  waits,   \* waits[s]: the destination a suspended sender waits for, or Null
  result,  \* result[s]: how the suspension ended, until the send returns
  sent,    \* sent[s][d]: messages of s accepted by d
  taken    \* taken[d][s]: number of the last message of s taken by d

avars == <<life, box, want, waits, result, sent, taken>>

Idle(t) == life[t] = "live" /\ want[t] = {} /\ waits[t] = Null /\ result[t] = "none"

AInit ==
  /\ life = [t \in Thread |-> IF t = Main THEN "live" ELSE "none"]
  /\ box = [t \in Thread |-> <<>>]
  /\ want = [t \in Thread |-> {}]
  /\ waits = [t \in Thread |-> Null]
  /\ result = [t \in Thread |-> "none"]
  /\ sent = [s \in Thread |-> [d \in Thread |-> 0]]
  /\ taken = [d \in Thread |-> [s \in Thread |-> 0]]

Born(t) ==
  /\ life[t] = "none"
  /\ life' = [life EXCEPT ![t] = "live"]
  /\ UNCHANGED <<box, want, waits, result, sent, taken>>

NothingFrom(r, S) == \A k \in DOMAIN box[r] : box[r][k].mitt \notin S

\* Messages of d whose senders have gone on, but for the one handed to d itself.
LeftBehind(d) ==
  LET q == IF NothingFrom(d, want[d]) THEN box[d] ELSE Tail(box[d])
  IN  {k \in DOMAIN q : waits[q[k].mitt] # d \/ q[k].n # sent[q[k].mitt][d]}

\* A live destination accepts a message; its sender is suspended, or goes on when
\* its message is awaited or fits the buffer.
\* The message a receiver waits for passes those it does not wait for.
Post(s, d) ==
  /\ d # s /\ Idle(s) /\ life[d] = "live"
  /\ sent' = [sent EXCEPT ![s][d] = @ + 1]
  /\ LET msg == [mitt |-> s, n |-> sent[s][d] + 1]
         serves == s \in want[d] /\ NothingFrom(d, want[d])
     IN  /\ box' = [box EXCEPT ![d] = IF serves THEN <<msg>> \o @ ELSE Append(@, msg)]
         /\ \/ UNCHANGED waits /\ (serves \/ Cardinality(LeftBehind(d)) < Buffer)
            \/ ~serves /\ waits' = [waits EXCEPT ![s] = d]
  /\ UNCHANGED <<life, want, result, taken>>

FirstFrom(S, q, k) ==
  /\ k \in DOMAIN q
  /\ q[k].mitt \in S
  /\ \A j \in 1 .. k - 1 : q[j].mitt \notin S

\* The first message of a sender in some S, at once or after a wait for S.
Take(r) ==
  \E k \in DOMAIN box[r] :
    /\ \E S \in SUBSET Thread :
         /\ FirstFrom(S, box[r], k)
         /\ Idle(r) \/ (want[r] = S /\ life[r] = "live")
    /\ taken' = [taken EXCEPT ![r][box[r][k].mitt] = box[r][k].n]
    /\ box' = [box EXCEPT ![r] = RemoveAt(@, k)]
    /\ want' = [want EXCEPT ![r] = {}]
    /\ UNCHANGED <<life, waits, result, sent>>

StartWait(r, S) ==
  /\ S # {} /\ Idle(r)
  /\ NothingFrom(r, S)
  /\ want' = [want EXCEPT ![r] = S]
  /\ UNCHANGED <<life, box, waits, result, sent, taken>>

GiveUp(r) ==
  /\ want[r] # {}
  /\ NothingFrom(r, want[r])
  /\ \A s \in want[r] : life[s] = "ended"
  /\ want' = [want EXCEPT ![r] = {}]
  /\ UNCHANGED <<life, box, waits, result, sent, taken>>

\* A suspension ends with the truth about the message.
Resolve(s) == LET d == waits[s] IN
  /\ d # Null
  /\ \/ /\ taken[d][s] = sent[s][d]
        /\ result' = [result EXCEPT ![s] = "taken"]
     \/ /\ taken[d][s] # sent[s][d]
        /\ life[d] = "ended"
        /\ result' = [result EXCEPT ![s] = "ended"]
  /\ waits' = [waits EXCEPT ![s] = Null]
  /\ UNCHANGED <<life, box, want, sent, taken>>

Returned(s) ==
  /\ result[s] # "none"
  /\ result' = [result EXCEPT ![s] = "none"]
  /\ UNCHANGED <<life, box, want, waits, sent, taken>>

\* A thread ends; what it has not received is dropped.
End(t) ==
  /\ t # Main /\ Idle(t)
  /\ life' = [life EXCEPT ![t] = "ended"]
  /\ box' = [box EXCEPT ![t] = <<>>]
  /\ UNCHANGED <<want, waits, result, sent, taken>>

ANext ==
  \E t \in Thread :
    \/ Born(t) \/ End(t)
    \/ \E d \in Thread : Post(t, d)
    \/ Resolve(t) \/ Returned(t)
    \/ Take(t) \/ StartWait(t, want'[t]) \/ GiveUp(t)

ASpec == AInit /\ [][ANext]_avars
=============================================================================
