----------------------------- MODULE RequestLog -----------------------------
(***************************************************************************)
(* What the kernel promises its callers: a log of requests in which every  *)
(* request identity takes effect at most once, which only ever grows, and  *)
(* in which every acknowledged request is found at the position the        *)
(* acknowledgement names.  Nothing else is promised: a request may be      *)
(* refused, fail or stay unanswered whether or not it took effect.         *)
(***************************************************************************)
EXTENDS Naturals, Sequences

CONSTANTS Callers, Requests, Commands

VARIABLES log,   \* the requests that took effect: [req, cmd, pos], in order
          ack    \* ack[c]: the acknowledgement caller c holds, or NoAck

vars == <<log, ack>>

NoAck == [req |-> "none"]

Entries(l) == {l[i] : i \in DOMAIN l}

Init == log = <<>> /\ ack = [c \in Callers |-> NoAck]

\* Requests take effect together, each for the first time; what took effect
\* before is never changed.
TakeEffect ==
  /\ log' \in Seq([req : Requests, cmd : Commands, pos : Nat \X Nat])
  /\ Len(log) <= Len(log')
  /\ \A i \in DOMAIN log : log'[i] = log[i]
  /\ \A i, j \in DOMAIN log' : log'[i].req = log'[j].req => i = j
  /\ UNCHANGED ack

\* A caller is told that its request took effect.
Acknowledge(c) ==
  /\ ack[c] = NoAck
  /\ \E e \in Entries(log) : ack' = [ack EXCEPT ![c] = e]
  /\ UNCHANGED log

\* A caller turns to another request.
Forget(c) ==
  /\ ack' = [ack EXCEPT ![c] = NoAck]
  /\ UNCHANGED log

Next == TakeEffect \/ \E c \in Callers : Acknowledge(c) \/ Forget(c)

Spec == Init /\ [][Next]_vars
=============================================================================
