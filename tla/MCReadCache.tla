----------------------------- MODULE MCReadCache -----------------------------
(* A small instance of ReadCache for TLC. *)
EXTENDS ReadCache, TLC

CONSTANTS context, block, list, session, workspace, r1, r2

\* The context and the block belong to one session, the list to a workspace.
TwoOwners == (context :> session) @@ (block :> session) @@ (list :> workspace)

Symmetry == Permutations({r1, r2})

\* Two instances in one run: two readers of the context and the block; one
\* reader of three keys, of which the cache has room for two.
Instances ==
  \/ \E r \in Readers : reader[r].phase = "idle"
  \/ /\ cached[list] = 0 /\ committed[list] = 1 /\ list \notin dirty
     /\ \A r \in Readers : reader[r].key # list
=============================================================================
