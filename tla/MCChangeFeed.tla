---------------------------- MODULE MCChangeFeed ----------------------------
(* Small instances of ChangeFeed for TLC. *)
EXTENDS ChangeFeed

CONSTANTS s1, s2, c1, c2

\* One subscriber of a single session, one of everything.
MCScopeOf == [c \in Clients |-> IF c = c1 THEN s1 ELSE All]

\* Two instances in one run: two commits, two processes; four commits, of which
\* the ring has evicted two, one process and one client at a time.
Absent(c) == c \notin open /\ cursor[c] = NoCursor
Instances ==
  \/ Len(log) <= 2
  \/ epoch = 1 /\ (Absent(c1) \/ Absent(c2)) /\ \A p \in DOMAIN log : log[p].also = {}
=============================================================================
