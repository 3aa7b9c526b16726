-------------------------- MODULE MCSessionKernel --------------------------
(* Small instances of SessionKernel for TLC. *)
EXTENDS SessionKernel, FiniteSetsExt

CONSTANTS s1, s2, t1, i1, a1

\* Only the first session was created.
OneSession == life[s2] = "absent"

\* No tool was called.
NoTools == \A t \in Tools : toolPhase[t] = "absent"

Attempts == MapThenSumSet(LAMBDA e : gen[e], Executions)

\* Three instances in one run: the tools, interactions and activities of one
\* execution and its retry; two executions of one session and their retries,
\* of which one is retried after a restart; two executions of two sessions.
Instances ==
    \/ OneSession /\ made <= 1
    \/ OneSession /\ NoTools /\ (epoch = 1 \/ Attempts <= MaxExecutions + 1)
    \/ NoTools /\ epoch = 1 /\ Attempts <= MaxExecutions

=============================================================================
