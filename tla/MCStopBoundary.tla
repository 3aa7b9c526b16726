--------------------------- MODULE MCStopBoundary ---------------------------
(* A small instance of StopBoundary for TLC. *)
EXTENDS StopBoundary

Upsets == continues + withdrawals + restarts

\* Three instances in one run: two messages and two deliveries; two messages
\* and one delivery, or one message and two deliveries, with a continuation, a
\* withdrawal and a restart.
Instances ==
    \/ Upsets = 0
    \/ made <= 1
    \/ Cardinality({d \in Deliveries : state[d] # "absent"}) <= 1
=============================================================================
