--------------------------- MODULE SessionLists ---------------------------
(***************************************************************************)
(* Session lists, bucket counts and the workspace directory are served     *)
(* under resource keys: a client keeps a body until a change names its     *)
(* key.  The kernel captures, in the transaction of every command, the     *)
(* listing facts of the session before and after and of the parents whose  *)
(* child counts move (execute); the server turns those facts into the keys *)
(* that lose their tokens (list_change_keys), without reading any list.    *)
(* The module has the commands that move listing facts, both computations, *)
(* and the bodies as their queries select them.                            *)
(***************************************************************************)
EXTENDS Naturals, Sequences, FiniteSets

CONSTANTS Workspaces,     \* workspace ids, from 1
          MaxSessions,    \* session ids the database hands out
          MaxExecutions,  \* executions of one session
          Marks           \* the marks users set: among "pinned" and "favorite"

ASSUME BoundsAssumption == /\ Workspaces \subseteq Nat \ {0}
                           /\ MaxSessions \in Nat \ {0} /\ MaxExecutions \in Nat
                           /\ Marks \subseteq {"pinned", "favorite"}

VARIABLE rows   \* agena_sessions with agena_session_statistics

Sessions == 1..MaxSessions
Buckets == {"pinned", "favorite", "running", "attention", "recent"}
Phases == {"queued", "running", "succeeded", "failed", "cancelled"}

(* A session is a row of flags and the phases of its executions in message *)
(* order.  version stands for the columns every metadata write bumps       *)
(* (metadata_version, updated_at_ms), and for what they follow: title,     *)
(* relation, agent status.  Only its change matters, so it alternates.     *)
NoRow == [live |-> "never", workspace |-> 0, parent |-> 0, marks |-> {}, temporary |-> FALSE,
          version |-> 0, messages |-> 0, phases |-> <<>>, asking |-> FALSE, paused |-> FALSE]

Exists(t, s) == t[s].live = "yes"
Having(t, s, phase) == {i \in DOMAIN t[s].phases : t[s].phases[i] = phase}
Active(t, s) == Having(t, s, "queued") \cup Having(t, s, "running")

\* processing_state as the summary triggers and refresh_paused_summary leave it.
ProcessingState(t, s) ==
  IF t[s].asking THEN "awaiting"
  ELSE IF Active(t, s) # {}
       THEN IF t[s].paused /\ Having(t, s, "running") = {} THEN "ready" ELSE "running"
       ELSE IF t[s].phases # <<>> /\ t[s].phases[Len(t[s].phases)] = "failed"
            THEN "failed" ELSE "ready"

\* child_session_count, kept by the child triggers.
Children(t, s) == {c \in Sessions : Exists(t, c) /\ t[c].parent = s /\ ~t[c].temporary}

-----------------------------------------------------------------------------
(* The facts a change carries.                                             *)

None == [session |-> 0]
Some(st) == st.session # 0

ListState(t, s) ==
  IF s = 0 \/ ~Exists(t, s) THEN None
  ELSE [session |-> s, workspace |-> t[s].workspace, parent |-> t[s].parent,
        marks |-> t[s].marks, listed |-> ~t[s].temporary, state |-> ProcessingState(t, s),
        queued |-> Cardinality(Having(t, s, "queued")),
        running |-> Cardinality(Having(t, s, "running")),
        version |-> t[s].version, messages |-> t[s].messages]

ParentOf(st) == IF Some(st) THEN st.parent ELSE 0

\* The parents are reported when the session appears, goes, moves or is hidden.
Regrouped(before, after) == \/ Some(before) # Some(after)
                            \/ ParentOf(before) # ParentOf(after)
                            \/ Some(before) /\ Some(after) /\ before.listed # after.listed

Parents(t, before, after) ==
  IF Regrouped(before, after)
  THEN {ListState(t, p) : p \in {ParentOf(before), ParentOf(after)}} \ {None}
  ELSE {}

-----------------------------------------------------------------------------
(* The keys a change names.                                                *)

NoBucket == "none"   \* a key or a query that no bucket restricts

Key(of, workspace, bucket, parent) ==
  [of |-> of, workspace |-> workspace, bucket |-> bucket, parent |-> parent]

BucketMembership(st, b) ==
  /\ Some(st) /\ st.listed
  /\ CASE b \in {"pinned", "favorite"} -> b \in st.marks
       [] b = "running" -> st.state = "running"
       [] b = "attention" -> st.state \in {"awaiting", "failed"}
       [] b = "recent" -> st.state = "ready"

ListRowKeys(st) ==
  IF ~st.listed THEN {}
  ELSE LET in == {b \in Buckets : BucketMembership(st, b)}
       IN {Key("sessions", 0, NoBucket, 0), Key("sessions", st.workspace, NoBucket, 0)}
          \cup (IF st.parent = 0 THEN {Key("roots", st.workspace, NoBucket, 0)}
                                 ELSE {Key("children", st.workspace, NoBucket, st.parent)})
          \cup {Key("bucket", w, b, 0) : w \in {0, st.workspace}, b \in in}

StatisticsContribution(st, w) ==
  IF ~Some(st) \/ ~st.listed \/ st.workspace # w
  THEN [total |-> FALSE, roots |-> FALSE, pinned |-> FALSE, running |-> FALSE, attention |-> FALSE]
  ELSE [total |-> TRUE, roots |-> st.parent = 0, pinned |-> "pinned" \in st.marks,
        running |-> st.queued > 0 \/ st.running > 0,
        attention |-> st.state \in {"awaiting", "failed"}]

\* Mutants: the old row, the bucket left and the moving columns are forgotten.
RowsOfAfter(before, after) == {after} \ {None}
CountKeysOfRow(before, after) ==
  {Key("count", 0, b, 0) : b \in {b \in Buckets : BucketMembership(after, b)}}
RecountedByMembership(before, after) ==
  {w \in Workspaces : StatisticsContribution(before, w).total # StatisticsContribution(after, w).total}

RowsOf(before, after) == IF before = after THEN {} ELSE {before, after} \ {None}

CountKeys(before, after) ==
  {Key("count", 0, b, 0) : b \in {b \in Buckets : BucketMembership(before, b) # BucketMembership(after, b)}}

Recounted(before, after) ==
  {w \in Workspaces : StatisticsContribution(before, w) # StatisticsContribution(after, w)}

ListChangeKeys(before, after, parents) ==
  (UNION {ListRowKeys(st) : st \in RowsOf(before, after) \cup parents})
  \cup CountKeys(before, after)
  \cup {Key("stats", w, NoBucket, 0) : w \in Recounted(before, after)}
  \cup (IF Recounted(before, after) # {} THEN {Key("workspaces", 0, NoBucket, 0)} ELSE {})

\* One command: the transaction's new row of the session its change is about.
Write(s, row) == rows' = [rows EXCEPT ![s] = row]

\* What execute records of the session that a command writes.
Reported(s) ==
  [before |-> ListState(rows, s), after |-> ListState(rows', s),
   parents |-> Parents(rows', ListState(rows, s), ListState(rows', s))]

Reports == {Reported(s) : s \in {s \in Sessions : rows[s] # rows'[s]}}

\* The keys that the server takes from a report.
Named(c) == ListChangeKeys(c.before, c.after, c.parents)

-----------------------------------------------------------------------------
(* The commands.                                                           *)

ListsInit == rows = [s \in Sessions |-> NoRow]

\* Ids ascend and are never reused.
Fresh(s) == rows[s].live = "never" /\ \A r \in Sessions : r < s => rows[r].live # "never"

Bump(row) == [row EXCEPT !.version = 1 - @]

\* CreateSession, CreateConfigured and a committed import: a new session, for an
\* agent or a child under its parent.
Create(s, w, p) ==
  /\ Fresh(s) /\ (p # 0 => Exists(rows, p) /\ rows[p].workspace = w)
  /\ Write(s, [NoRow EXCEPT !.live = "yes", !.workspace = w, !.parent = p])

\* Fork: a branch shares the source's messages up to the cut; a side conversation
\* is hidden from the lists.
Fork(s, from, kept, temporary) ==
  /\ Fresh(s) /\ Exists(rows, from) /\ kept <= rows[from].messages
  /\ Write(s, [NoRow EXCEPT !.live = "yes", !.workspace = rows[from].workspace, !.parent = from,
                             !.messages = kept, !.temporary = temporary])

\* DeleteSession settles what is active; nothing reads the rest of the row again.
Delete(s) ==
  /\ Exists(rows, s)
  /\ Write(s, [NoRow EXCEPT !.live = "deleted", !.workspace = rows[s].workspace,
                             !.parent = rows[s].parent])

\* Metadata and Selection: a title, a model, a flag.
Metadata(s) ==
  /\ Exists(rows, s)
  /\ \E marks \in SUBSET Marks : Write(s, [Bump(rows[s]) EXCEPT !.marks = marks])

\* Configure: the queue's pause and the visibility of a conversation.
Configure(s) ==
  /\ Exists(rows, s)
  /\ \E paused, temporary \in BOOLEAN :
       /\ <<paused, temporary>> # <<rows[s].paused, rows[s].temporary>>
       /\ Write(s, [Bump(rows[s]) EXCEPT !.paused = paused, !.temporary = temporary])

\* Configure of a parent, admitted once for an empty session without children.
Reparent(s, p) ==
  /\ Exists(rows, s) /\ Exists(rows, p) /\ p # s /\ rows[s].parent = 0
  /\ rows[s].messages = 0 /\ rows[p].workspace = rows[s].workspace
  /\ \A c \in Sessions : rows[c].parent # s
  /\ Write(s, [Bump(rows[s]) EXCEPT !.parent = p])

Send(s) ==
  /\ Exists(rows, s) /\ Len(rows[s].phases) < MaxExecutions
  /\ Write(s, [Bump(rows[s]) EXCEPT !.messages = @ + 1, !.phases = Append(@, "queued")])

Claim(s, i) ==
  /\ Exists(rows, s) /\ ~rows[s].paused /\ i \in Having(rows, s, "queued")
  /\ Having(rows, s, "running") = {} /\ \A j \in Having(rows, s, "queued") : i <= j
  /\ Write(s, [rows[s] EXCEPT !.phases[i] = "running"])

\* Finish, Cancel and CancelQueued of one execution; its tools settle with it.
Settle(s, i, phase) ==
  /\ Exists(rows, s) /\ i \in Active(rows, s)
  /\ phase = "succeeded" => rows[s].phases[i] = "running" /\ ~rows[s].asking
  /\ phase = "failed" => rows[s].phases[i] = "running"
  /\ Write(s, [Bump(rows[s]) EXCEPT !.phases[i] = phase,
                !.asking = @ /\ rows[s].phases[i] # "running"])

ClearQueued(s) ==
  /\ Exists(rows, s) /\ Having(rows, s, "queued") # {}
  /\ Write(s, [Bump(rows[s]) EXCEPT
       !.phases = [i \in DOMAIN @ |-> IF @[i] = "queued" THEN "cancelled" ELSE @[i]]])

Retry(s, i) ==
  /\ Exists(rows, s) /\ i \in DOMAIN rows[s].phases \ Active(rows, s)
  /\ Write(s, [rows[s] EXCEPT !.phases[i] = "queued"])

\* RequestInteraction and Reply.
Interact(s) ==
  /\ Exists(rows, s) /\ Having(rows, s, "running") # {}
  /\ Write(s, [rows[s] EXCEPT !.asking = ~@])

\* Withdraw of the last message.
Withdraw(s) ==
  /\ Exists(rows, s) /\ Active(rows, s) = {} /\ rows[s].messages > 0
  /\ Write(s, [Bump(rows[s]) EXCEPT !.messages = @ - 1])

Command(s) ==
  \/ \E w \in Workspaces, p \in Sessions \cup {0} : Create(s, w, p)
  \/ \E from \in Sessions, kept \in 0..MaxSessions * MaxExecutions, temporary \in BOOLEAN :
        Fork(s, from, kept, temporary)
  \/ Delete(s)
  \/ Metadata(s)
  \/ Configure(s)
  \/ \E p \in Sessions : Reparent(s, p)
  \/ Send(s)
  \/ \E i \in 1..MaxExecutions : Claim(s, i)
  \/ \E i \in 1..MaxExecutions, phase \in {"succeeded", "failed", "cancelled"} : Settle(s, i, phase)
  \/ ClearQueued(s)
  \/ \E i \in 1..MaxExecutions : Retry(s, i)
  \/ Interact(s)
  \/ Withdraw(s)

ListsNext == \E s \in Sessions : Command(s)

ListsSpec == ListsInit /\ [][ListsNext]_rows

-----------------------------------------------------------------------------
(* What the queries select.                                                *)

\* The filter of query_summaries for a bucket.
Selects(t, s, b) ==
  CASE b = NoBucket -> TRUE
    [] b \in {"pinned", "favorite"} -> b \in t[s].marks
    [] b = "running" -> ProcessingState(t, s) = "running"
    [] b = "attention" -> ProcessingState(t, s) \in {"awaiting", "failed"}
    [] b = "recent" -> ProcessingState(t, s) = "ready"

Listed(t, k) ==
  {s \in Sessions : /\ Exists(t, s) /\ ~t[s].temporary
                    /\ k.workspace \in {0, t[s].workspace}
                    /\ k.of = "roots" => t[s].parent = 0
                    /\ k.of = "children" => t[s].parent = k.parent
                    /\ Selects(t, s, k.bucket)}

\* What a listed session shows (session_resource_from_kernel_summary).
View(t, s) ==
  [parent |-> t[s].parent, marks |-> t[s].marks, version |-> t[s].version,
   state |-> ProcessingState(t, s), messages |-> t[s].messages, children |-> Cardinality(Children(t, s))]

ListBody(t, k) == [s \in Listed(t, k) |-> View(t, s)]
CountBody(t, b) == Cardinality(Listed(t, Key("count", 0, b, 0)))

\* A column of workspace_statistics.
Statistic(t, w, column) ==
  Cardinality({s \in Listed(t, Key("sessions", w, NoBucket, 0)) :
    CASE column = "total" -> TRUE
      [] column = "roots" -> t[s].parent = 0
      [] column = "pinned" -> "pinned" \in t[s].marks
      [] column = "running" -> ProcessingState(t, s) \in {"running", "awaiting"}
      [] column = "attention" -> ProcessingState(t, s) \in {"awaiting", "failed"}})

ListKeys == {Key("sessions", w, NoBucket, 0) : w \in Workspaces \cup {0}}
            \cup {Key("roots", w, NoBucket, 0) : w \in Workspaces}
            \cup {Key("children", w, NoBucket, p) : w \in Workspaces, p \in Sessions}
            \cup {Key("bucket", w, b, 0) : w \in Workspaces \cup {0}, b \in Buckets}

-----------------------------------------------------------------------------
RowType ==
  [live : {"never", "yes", "deleted"}, workspace : Workspaces \cup {0}, parent : Sessions \cup {0},
   marks : SUBSET Marks, temporary : BOOLEAN, version : {0, 1}, messages : Nat,
   phases : Seq(Phases), asking : BOOLEAN, paused : BOOLEAN]

\* Every session has a row of the type.
ListsTypeOK == rows \in [Sessions -> RowType]

\* A list whose rows, order or child counts change under a command loses its
\* token: the change names every list, global, of a workspace, of roots, of one
\* parent's children or of a bucket, that would now be served differently,
\* although it carries the facts of one session and of its parents only.
ListsKeyed ==
  [][\A c \in Reports : \A k \in ListKeys \ Named(c) : ListBody(rows, k)' = ListBody(rows, k)]_rows

\* The number badge of a bucket loses its token exactly when the number changes.
CountsExact ==
  [][\A c \in Reports :
       {Key("count", 0, b, 0) : b \in {b \in Buckets : CountBody(rows, b)' # CountBody(rows, b)}}
         = {k \in Named(c) : k.of = "count"}]_rows

\* The keys under which a changed column of the statistics was served.
Outdated(columns) ==
  UNION {{Key("stats", w, NoBucket, 0), Key("workspaces", 0, NoBucket, 0)} :
         w \in {w \in Workspaces : \E col \in columns : Statistic(rows, w, col)' # Statistic(rows, w, col)}}

\* The membership, pin and attention columns of a workspace's statistics, and the
\* directory that shows them, lose their tokens when they change.  Nothing is
\* claimed of the running column, which the server decides by other facts.
TotalsKeyed ==
  [][\A c \in Reports : Outdated({"total", "roots", "pinned", "attention"}) \subseteq Named(c)]_rows
=============================================================================
