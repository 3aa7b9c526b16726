------------------------ MODULE MCResourceRevisions ------------------------
(***************************************************************************)
(* Small instances of the two halves of conditional reads for TLC: which   *)
(* keys a change names (SessionLists) and when the clock gives up a key's  *)
(* token (ResourceRevisions).  They share no state, so a behaviour takes   *)
(* the steps of one of them.                                               *)
(***************************************************************************)
EXTENDS ResourceRevisions, SessionLists

\* The clock: one change and a watch that falls behind; two changes.
Changes == committed <= 1 \/ lags = 0

\* The ids in use, the executions, the marks and the workspaces.  A pause shows
\* only beside an execution.
Idle       == \A s \in Sessions : rows[s].phases = <<>> /\ ~rows[s].paused
Unmarked   == \A s \in Sessions : rows[s].marks = {}
AtHome     == \A s \in Sessions : rows[s].workspace \in {0, 1}
OneActive  == \A s, r \in Sessions : rows[s].phases # <<>> /\ rows[r].phases # <<>> => s = r
OneEach    == \A s \in Sessions : Len(rows[s].phases) <= 1
One        == \A s \in Sessions : s > 1 => rows[s].live = "never"
Two        == \A s \in Sessions : s > 2 => rows[s].live = "never"

\* The lists: one session with two executions; two sessions, of which one runs an
\* execution; a tree of three sessions; two sessions with marks in different
\* workspaces.
Rows ==
  \/ Unmarked /\ AtHome /\ One
  \/ Unmarked /\ AtHome /\ Two /\ OneActive /\ OneEach
  \/ Unmarked /\ AtHome /\ Idle
  \/ Idle /\ Two

ReadsInit == Init /\ ListsInit
ReadsNext == \/ ListsInit /\ Next /\ Changes' /\ UNCHANGED rows
             \/ Init /\ ListsNext /\ Rows' /\ UNCHANGED vars
ReadsSpec == ReadsInit /\ [][ReadsNext]_<<vars, rows>>
=============================================================================
