------------------------- MODULE TrpThreadRefinement -------------------------
(***************************************************************************)
(* TrpThread, with its mutexes, states and condition variables, implements *)
(* the mailboxes of TrpMailbox.                                            *)
(***************************************************************************)
EXTENDS TrpThread

Life(t) ==
  IF t \notin Known THEN "none" ELSE IF pc[t] \in Ending THEN "ended" ELSE "live"

Plain(q) == [i \in DOMAIN q |-> [mitt |-> q[i].mitt, n |-> q[i].n]]

\* A message handed over directly is older than those of the mailbox; the
\* mailbox of a terminating thread no longer counts, drained or not.
Box(t) ==
  IF pc[t] \in Ending THEN <<>>
  ELSE (IF slot[t] = Null THEN <<>> ELSE <<slot[t]>>) \o Plain(msgq[t])

Want(t) ==
  IF pc[t] \in {"recv_build", "recv_blocked", "recv_woken"} THEN Senders(alts[t]) ELSE {}

Waits(t) == IF pc[t] = "send_blocked" THEN peer[t] ELSE Null

Answer(t) ==
  IF pc[t] \notin {"send_woken", "send_ret"} THEN "none"
  ELSE IF stato[t] = "WAITING_ON_SEND" THEN "taken" ELSE "ended"

LargestBuffer == CHOOSE b \in Bsize : \A c \in Bsize : c <= b

Mailbox == INSTANCE TrpMailbox WITH
  life   <- [t \in Thread |-> Life(t)],
  box    <- [t \in Thread |-> Box(t)],
  want   <- [t \in Thread |-> Want(t)],
  waits  <- [t \in Thread |-> Waits(t)],
  result <- [t \in Thread |-> Answer(t)],
  sent   <- accepted,
  taken  <- received,
  Buffer <- LargestBuffer

\* Every step of the code is a step of the mailboxes, or none.
ImplementsMailbox == Mailbox!ASpec
=============================================================================
