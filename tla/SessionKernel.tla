--------------------------- MODULE SessionKernel ---------------------------
(***************************************************************************)
(* The durable state machine of sessions, executions, attempts, provider   *)
(* rounds, tool calls, interactions and background activities: the tables  *)
(* of crates/agena-storage-sqlite/src/kernel/schema.rs and the commands    *)
(* that change them (kernel/commands.rs, lifecycle.rs, activity.rs).       *)
(*                                                                         *)
(* One command is one step: the writer runs every command in a savepoint   *)
(* of its serialized transaction, so a refused command changes nothing.    *)
(* An execution is named by its message id, which grows in creation order. *)
(* A handle holds the scope <<execution, generation, epoch>> it was given; *)
(* handles die with their process, but within a process a handle of an     *)
(* earlier generation may still be used at any time.                       *)
(***************************************************************************)
EXTENDS Integers, FiniteSets

CONSTANTS
    Sessions,
    Tools,            \* identities of tool calls
    Asks,             \* identities of interactions
    Activities,       \* identities of background activities
    NoSession, NoTool,
    QueueLimit,       \* admitted executions of a paused session (128)
    MaxExecutions,    \* bound: executions of a behaviour
    MaxGeneration,    \* bound: attempts of an execution
    MaxEpoch          \* bound: processes of a behaviour

ASSUME KernelAssumption ==
    /\ NoSession \notin Sessions /\ NoTool \notin Tools
    /\ QueueLimit \in Nat \ {0}
    /\ MaxExecutions \in Nat /\ MaxGeneration \in Nat \ {0} /\ MaxEpoch \in Nat

VARIABLES
    life,       \* of a session: "absent", "live" or "deleted"
    paused,     \* the sessions whose message_queue_paused is set
    agent,      \* agent.status of a session, "none" without an agent
    queued,     \* queued_executions of a session
    running,    \* running_executions of a session
    summary,    \* processing_state of a session
    made,       \* how many executions were created
    home,       \* the session of an execution
    purpose,    \* "message", "continuation" or "compaction"
    visible,    \* the executions whose message is in its session's history
    gen,        \* current_generation of an execution, 0 before its creation
    phase,      \* phase of each attempt
    owner,      \* owner_epoch of each attempt, 0 for NULL
    round,      \* each attempt's running round: "idle", "chat", "compaction"
    toolPhase,  \* "absent", "preparing", "running" or "ended"
    toolExec, toolGen,    \* the attempt a tool call belongs to
    askState,   \* "absent", "open", "allowed" or "rejected"
    askTool,    \* the tool call an interaction belongs to
    actPhase,   \* "absent", "running" or "ended"
    actHome,    \* the session an activity belongs to
    actOwner,   \* its owner_epoch
    epoch       \* KernelEpoch of the process

sessionVars == <<life, paused, agent>>
statVars    == <<queued, running, summary>>
execVars    == <<made, home, purpose, visible>>
attemptVars == <<gen, phase, owner>>
toolVars    == <<toolPhase, toolExec, toolGen>>
askVars     == <<askState, askTool>>
actVars     == <<actPhase, actHome, actOwner>>
vars == <<sessionVars, statVars, execVars, attemptVars, round, toolVars, askVars,
          actVars, epoch>>

Executions  == 1 .. MaxExecutions
Generations == 0 .. MaxGeneration    \* phase[e][0] is always "absent"
Ended       == {"succeeded", "failed", "cancelled", "interrupted"}
Active      == {"queued", "running"}
Phases      == {"absent"} \cup Active \cup Ended

TypeOK ==
    /\ life \in [Sessions -> {"absent", "live", "deleted"}]
    /\ paused \subseteq Sessions
    /\ agent \in [Sessions -> {"none", "active", "done", "interrupted"}]
    /\ queued \in [Sessions -> Nat] /\ running \in [Sessions -> Nat]
    /\ summary \in [Sessions -> {"ready", "running", "awaiting", "failed"}]
    /\ made \in 0 .. MaxExecutions
    /\ home \in [Executions -> Sessions \cup {NoSession}]
    /\ purpose \in [Executions -> {"message", "continuation", "compaction"}]
    /\ visible \subseteq Executions
    /\ gen \in [Executions -> Generations]
    /\ phase \in [Executions -> [Generations -> Phases]]
    /\ owner \in [Executions -> [Generations -> Nat]]
    /\ round \in [Executions -> [Generations -> {"idle", "chat", "compaction"}]]
    /\ toolPhase \in [Tools -> {"absent", "preparing", "running", "ended"}]
    /\ toolExec \in [Tools -> Nat] /\ toolGen \in [Tools -> Nat]
    /\ askState \in [Asks -> {"absent", "open", "allowed", "rejected"}]
    /\ askTool \in [Asks -> Tools \cup {NoTool}]
    /\ actPhase \in [Activities -> {"absent", "running", "ended"}]
    /\ actHome \in [Activities -> Sessions \cup {NoSession}]
    /\ actOwner \in [Activities -> Nat]
    /\ epoch \in Nat \ {0}

Init ==
    /\ life = [s \in Sessions |-> "absent"]
    /\ paused = {} /\ agent = [s \in Sessions |-> "none"]
    /\ queued = [s \in Sessions |-> 0] /\ running = [s \in Sessions |-> 0]
    /\ summary = [s \in Sessions |-> "ready"]
    /\ made = 0 /\ home = [e \in Executions |-> NoSession]
    /\ purpose = [e \in Executions |-> "message"] /\ visible = {}
    /\ gen = [e \in Executions |-> 0]
    /\ phase = [e \in Executions |-> [g \in Generations |-> "absent"]]
    /\ owner = [e \in Executions |-> [g \in Generations |-> 0]]
    /\ round = [e \in Executions |-> [g \in Generations |-> "idle"]]
    /\ toolPhase = [t \in Tools |-> "absent"]
    /\ toolExec = [t \in Tools |-> 0] /\ toolGen = [t \in Tools |-> 0]
    /\ askState = [i \in Asks |-> "absent"] /\ askTool = [i \in Asks |-> NoTool]
    /\ actPhase = [a \in Activities |-> "absent"]
    /\ actHome = [a \in Activities |-> NoSession]
    /\ actOwner = [a \in Activities |-> 0]
    /\ epoch = 1

-----------------------------------------------------------------------------
(* Reads. *)

Live(s) == s \in Sessions /\ life[s] = "live"

Current(e) == phase[e][gen[e]]

\* reads::execution: the execution exists and its session is not deleted.
Known(e) == gen[e] # 0 /\ Live(home[e])

QueuedIn(s)  == {e \in Executions : home[e] = s /\ Current(e) = "queued"}
RunningIn(s) == {e \in Executions : home[e] = s /\ Current(e) = "running"}

\* check_scope, for a handle of generation g that this process was given.
Holds(e, g) == Known(e) /\ g = gen[e] /\ owner[e][g] = epoch

\* Mutant: the generation of the handle is not compared with the current one.
CheckScopeAnyGeneration(e, g) ==
    Known(e) /\ g # 0 /\ owner[e][gen[e]] = epoch /\ Current(e) = "running"

\* check_scope with running = true.
CheckScope(e, g) == Holds(e, g) /\ phase[e][g] = "running"

\* Mutant: an outcome that arrives late replaces the recorded one.
EndsLate(p, outcome) == p \notin {"absent", outcome}

\* ExecutionState::finish: the changes of phase p it makes.
Ends(p, outcome) ==
    \/ p = "running"
    \/ p = "queued" /\ outcome \in {"cancelled", "interrupted"}

ActiveTool(t) == toolPhase[t] \in {"preparing", "running"}

\* check_tool.
CheckTool(e, g, t) ==
    toolPhase[t] = "running" /\ toolExec[t] = e /\ toolGen[t] = g

\* STATE of summary_triggers, with the paused presentation.
Awaiting(s) ==
    \E i \in Asks :
        /\ askState[i] = "open" /\ askTool[i] \in Tools
        /\ toolPhase[askTool[i]] = "running"
        /\ \E e \in RunningIn(s) :
              toolExec[askTool[i]] = e /\ toolGen[askTool[i]] = gen[e]

LastFailed(s) ==
    \E e \in Executions :
        /\ home[e] = s /\ \A f \in Executions : home[f] = s => f <= e
        /\ Current(e) \in {"failed", "interrupted"}

State(s) ==
    IF Awaiting(s) THEN "awaiting"
    ELSE IF queued[s] + running[s] > 0 THEN "running"
    ELSE IF LastFailed(s) THEN "failed" ELSE "ready"

PausedQueue(s) == s \in paused /\ running[s] = 0 /\ queued[s] > 0

Presented(s) == IF PausedQueue(s) THEN "ready" ELSE State(s)

-----------------------------------------------------------------------------
(* Writes.  The summary triggers fire on every change of a counter, an     *)
(* attempt, an interaction or a tool's phase, and refresh_paused_summary   *)
(* ends every command.                                                     *)

Triggered(s) == summary' = [summary EXCEPT ![s] = Presented(s)']

Untriggered(s) ==
    summary' = [summary EXCEPT ![s] = IF PausedQueue(s)' THEN "ready" ELSE @]

\* CreateSession, CreateConfigured.
Create(s, a) ==
    /\ life[s] = "absent"
    /\ life' = [life EXCEPT ![s] = "live"]
    /\ agent' = [agent EXCEPT ![s] = a]
    /\ UNCHANGED <<paused, statVars, execVars, attemptVars, round, toolVars, askVars,
                   actVars, epoch>>

\* A new execution whose first attempt is queued.
Enqueue(s, p) ==
    LET e == made + 1
    IN /\ made < MaxExecutions
       /\ made' = e
       /\ home' = [home EXCEPT ![e] = s]
       /\ purpose' = [purpose EXCEPT ![e] = p]
       /\ visible' = visible \cup {e}
       /\ gen' = [gen EXCEPT ![e] = 1]
       /\ phase' = [phase EXCEPT ![e][1] = "queued"]
       /\ queued' = [queued EXCEPT ![s] = @ + 1]
       /\ UNCHANGED running
       /\ UNCHANGED <<sessionVars, owner, round, toolVars, askVars, actVars, epoch>>
       /\ Triggered(s)

Send(s) ==
    /\ Live(s)
    /\ s \in paused => queued[s] + running[s] < QueueLimit
    /\ Enqueue(s, "message")

\* start_control_execution.
StartControl(s, p) ==
    /\ Live(s)
    /\ \E e \in visible : home[e] = s /\ purpose[e] = "message"
    /\ queued[s] + running[s] < QueueLimit
    /\ Enqueue(s, p)

\* Retry: the next generation of an ended execution.
Retry(e) ==
    /\ Known(e) /\ Current(e) \in Ended
    /\ gen[e] < MaxGeneration
    /\ gen' = [gen EXCEPT ![e] = @ + 1]
    /\ phase' = [phase EXCEPT ![e][gen[e] + 1] = "queued"]
    /\ queued' = [queued EXCEPT ![home[e]] = @ + 1]
    /\ UNCHANGED running
    /\ UNCHANGED <<sessionVars, execVars, owner, round, toolVars, askVars, actVars,
                   epoch>>
    /\ Triggered(home[e])

\* Continue: a message that later control work has overtaken is not retried.
Continue(e) ==
    /\ Known(e) /\ e \in visible
    /\ IF /\ purpose[e] = "message"
          /\ \A f \in Executions : home[f] = home[e] /\ f > e => purpose[f] = "message"
       THEN Retry(e)
       ELSE StartControl(home[e], "continuation")

\* Mutant: the queue order is checked, a running execution is not.
ClaimNextWhileRunning(e, g) ==
    /\ Known(e) /\ g = gen[e] /\ home[e] \notin paused
    /\ \A f \in QueuedIn(home[e]) : f >= e
    /\ Current(e) = "queued"
    /\ phase' = [phase EXCEPT ![e][g] = "running"]
    /\ owner' = [owner EXCEPT ![e][g] = epoch]
    /\ queued' = [queued EXCEPT ![home[e]] = @ - 1]
    /\ running' = [running EXCEPT ![home[e]] = @ + 1]
    /\ UNCHANGED <<sessionVars, execVars, gen, round, toolVars, askVars, actVars, epoch>>
    /\ Triggered(home[e])

\* ClaimNext, for the generation the supervisor was started for.
ClaimNext(e, g) ==
    /\ Known(e) /\ g = gen[e]
    /\ home[e] \notin paused
    /\ RunningIn(home[e]) = {} /\ \A f \in QueuedIn(home[e]) : f >= e
    /\ Current(e) = "queued"
    /\ phase' = [phase EXCEPT ![e][g] = "running"]
    /\ owner' = [owner EXCEPT ![e][g] = epoch]
    /\ queued' = [queued EXCEPT ![home[e]] = @ - 1]
    /\ running' = [running EXCEPT ![home[e]] = @ + 1]
    /\ UNCHANGED <<sessionVars, execVars, gen, round, toolVars, askVars, actVars, epoch>>
    /\ Triggered(home[e])

\* settle_children of the current attempts of the executions E.
SettleChildren(E) ==
    LET mine(t) == \E e \in E : toolExec[t] = e /\ toolGen[t] = gen[e]
    IN /\ askState' = [i \in Asks |->
                         IF /\ askState[i] = "open"
                            /\ \E t \in Tools : askTool[i] = t /\ mine(t)
                         THEN "rejected" ELSE askState[i]]
       /\ toolPhase' = [t \in Tools |->
                          IF mine(t) /\ ActiveTool(t) THEN "ended" ELSE toolPhase[t]]
       /\ round' = [e \in Executions |->
                      IF e \in E THEN [round[e] EXCEPT ![gen[e]] = "idle"]
                      ELSE round[e]]

\* Mutant: the queue is charged for an execution that had been claimed.
FinishAllAsQueued(E, s, outcome) ==
    /\ SettleChildren(E)
    /\ phase' = [e \in Executions |->
                   IF e \in E THEN [phase[e] EXCEPT ![gen[e]] = outcome]
                   ELSE phase[e]]
    /\ queued' = [queued EXCEPT ![s] = @ - Cardinality(E)]
    /\ UNCHANGED <<running, execVars, gen, toolExec, toolGen, askTool, epoch>>
    /\ Triggered(s)

\* finish, applied to executions E of the session s that outcome ends.
FinishAll(E, s, outcome) ==
    /\ IF outcome = "succeeded"
       THEN /\ \A e \in E : round[e][gen[e]] = "idle"
            /\ \A t \in Tools, e \in E :
                  toolExec[t] = e /\ toolGen[t] = gen[e] => ~ActiveTool(t)
            /\ UNCHANGED <<askState, toolPhase, round>>
       ELSE SettleChildren(E)
    /\ phase' = [e \in Executions |->
                   IF e \in E THEN [phase[e] EXCEPT ![gen[e]] = outcome]
                   ELSE phase[e]]
    /\ queued' = [queued EXCEPT ![s] = @ - Cardinality(QueuedIn(s) \cap E)]
    /\ running' = [running EXCEPT ![s] = @ - Cardinality(RunningIn(s) \cap E)]
    /\ UNCHANGED <<execVars, gen, toolExec, toolGen, askTool, epoch>>
    /\ IF E # {} THEN Triggered(s) ELSE Untriggered(s)

\* Cancel: a queued attempt is given an owner for its cancellation callbacks.
\* Without an expected generation it reaches whichever attempt is current, and
\* without an epoch its effect on a queued attempt is that of CancelQueued.
Cancel(e, g) ==
    /\ Known(e) /\ g = gen[e] /\ Ends(Current(e), "cancelled")
    /\ owner' = IF Current(e) = "queued" THEN [owner EXCEPT ![e][g] = epoch] ELSE owner
    /\ UNCHANGED <<sessionVars, actVars>>
    /\ FinishAll({e}, home[e], "cancelled")

CancelQueued(e) ==
    /\ Known(e) /\ Current(e) = "queued"
    /\ UNCHANGED <<sessionVars, owner, actVars>>
    /\ FinishAll({e}, home[e], "cancelled")

ClearQueued(s) ==
    /\ Live(s)
    /\ UNCHANGED <<sessionVars, owner, actVars>>
    /\ FinishAll(QueuedIn(s), s, "cancelled")

\* Finish, by the driver of the attempt.
Finish(e, g, outcome) ==
    /\ Holds(e, g) /\ Ends(phase[e][g], outcome)
    /\ UNCHANGED <<sessionVars, owner, actVars>>
    /\ FinishAll({e}, home[e], outcome)

-----------------------------------------------------------------------------
(* Provider rounds and tools. *)

\* BeginCurrentRound, BeginCompactionRound.
BeginRound(e, g, kind) ==
    /\ CheckScope(e, g) /\ round[e][g] = "idle"
    /\ round' = [round EXCEPT ![e][g] = kind]
    /\ UNCHANGED <<sessionVars, queued, running, execVars, attemptVars, toolVars, askVars,
                   actVars, epoch>>
    /\ Untriggered(home[e])

\* FinishRound; a failed round ends the calls it was still assembling.
FinishRound(e, g, ok) ==
    LET drafts == {t \in Tools : /\ toolPhase[t] = "preparing"
                                 /\ toolExec[t] = e /\ toolGen[t] = g}
    IN /\ CheckScope(e, g) /\ round[e][g] # "idle"
       /\ ok => drafts = {}
       /\ round' = [round EXCEPT ![e][g] = "idle"]
       /\ toolPhase' = [t \in Tools |-> IF t \in drafts THEN "ended" ELSE toolPhase[t]]
       /\ UNCHANGED <<sessionVars, queued, running, execVars, attemptVars, toolExec,
                      toolGen, askVars, actVars, epoch>>
       /\ IF drafts # {} THEN Triggered(home[e]) ELSE Untriggered(home[e])

\* CommitCompaction.
CommitCompaction(e, g) ==
    /\ CheckScope(e, g) /\ round[e][g] = "compaction"
    /\ round' = [round EXCEPT ![e][g] = "idle"]
    /\ UNCHANGED <<sessionVars, queued, running, execVars, attemptVars, toolVars, askVars,
                   actVars, epoch>>
    /\ Untriggered(home[e])

\* BeginTool, for a complete call or one whose arguments are being assembled.
BeginTool(e, g, t, p) ==
    /\ CheckScope(e, g) /\ round[e][g] = "chat"
    /\ toolPhase[t] = "absent"
    /\ toolPhase' = [toolPhase EXCEPT ![t] = p]
    /\ toolExec' = [toolExec EXCEPT ![t] = e]
    /\ toolGen' = [toolGen EXCEPT ![t] = g]
    /\ UNCHANGED <<sessionVars, queued, running, execVars, attemptVars, round, askVars,
                   actVars, epoch>>
    /\ Untriggered(home[e])

\* FinalizeTool.
FinalizeTool(e, g, t) ==
    /\ CheckScope(e, g) /\ round[e][g] = "chat"
    /\ toolPhase[t] = "preparing" /\ toolExec[t] = e /\ toolGen[t] = g
    /\ toolPhase' = [toolPhase EXCEPT ![t] = "running"]
    /\ UNCHANGED <<sessionVars, queued, running, execVars, attemptVars, round, toolExec,
                   toolGen, askVars, actVars, epoch>>
    /\ Triggered(home[e])

\* CompleteTool.
CompleteTool(e, g, t) ==
    /\ CheckScope(e, g) /\ CheckTool(e, g, t)
    /\ \A i \in Asks : askTool[i] = t => askState[i] # "open"
    /\ toolPhase' = [toolPhase EXCEPT ![t] = "ended"]
    /\ UNCHANGED <<sessionVars, queued, running, execVars, attemptVars, round, toolExec,
                   toolGen, askVars, actVars, epoch>>
    /\ Triggered(home[e])

\* RequestInteraction.
RequestInteraction(e, g, t, i) ==
    /\ CheckScope(e, g) /\ CheckTool(e, g, t)
    /\ askState[i] = "absent"
    /\ askState' = [askState EXCEPT ![i] = "open"]
    /\ askTool' = [askTool EXCEPT ![i] = t]
    /\ UNCHANGED <<sessionVars, queued, running, execVars, attemptVars, round, toolVars,
                   actVars, epoch>>
    /\ Triggered(home[e])

\* reply: any client answers an interaction of the current generation.
Reply(i, decision) ==
    /\ askState[i] = "open" /\ askTool[i] \in Tools
    /\ \E e \in Executions :
          /\ CheckTool(e, gen[e], askTool[i])
          /\ Known(e) /\ Current(e) = "running"
          /\ askState' = [askState EXCEPT ![i] = decision]
          /\ UNCHANGED <<sessionVars, queued, running, execVars, attemptVars, round,
                         toolVars, askTool, actVars, epoch>>
          /\ Triggered(home[e])

\* activity::begin: nothing undecided or rejected stands against the launch.
BeginActivity(e, g, t, a) ==
    /\ CheckScope(e, g) /\ CheckTool(e, g, t)
    /\ \A i \in Asks : askTool[i] = t => askState[i] = "allowed"
    /\ actPhase[a] = "absent"
    /\ actPhase' = [actPhase EXCEPT ![a] = "running"]
    /\ actHome' = [actHome EXCEPT ![a] = home[e]]
    /\ actOwner' = [actOwner EXCEPT ![a] = epoch]
    /\ UNCHANGED <<sessionVars, queued, running, execVars, attemptVars, round, toolVars,
                   askVars, epoch>>
    /\ Untriggered(home[e])

\* activity::end: the lease outlives the attempt, not the process.
EndActivity(a) ==
    /\ actPhase[a] = "running" /\ actOwner[a] = epoch /\ Live(actHome[a])
    /\ actPhase' = [actPhase EXCEPT ![a] = "ended"]
    /\ UNCHANGED <<sessionVars, queued, running, execVars, attemptVars, round, toolVars,
                   askVars, actHome, actOwner, epoch>>
    /\ Untriggered(actHome[a])

-----------------------------------------------------------------------------
(* Sessions. *)

\* Mutant: resuming the queue does not re-run the projection.
SetPausedSilently(s, p) ==
    /\ Live(s) /\ p # paused /\ p \in {paused \cup {s}, paused \ {s}}
    /\ paused' = p
    /\ UNCHANGED <<life, agent, queued, running, execVars, attemptVars, round, toolVars,
                   askVars, actVars, epoch>>
    /\ Untriggered(s)

\* Configure with message_queue_paused; a change re-runs the summary triggers.
SetPaused(s, p) ==
    /\ Live(s) /\ p # paused /\ p \in {paused \cup {s}, paused \ {s}}
    /\ paused' = p
    /\ UNCHANGED <<queued, running>>
    /\ UNCHANGED <<life, agent, execVars, attemptVars, round, toolVars, askVars, actVars,
                   epoch>>
    /\ Triggered(s)

\* FinishAgent, and Configure when a followup starts the agent again.
SetAgent(s, a) ==
    /\ Live(s)
    /\ \/ agent[s] = "active" /\ a = "done"
       \/ agent[s] \in {"done", "interrupted"} /\ a = "active"
    /\ agent' = [agent EXCEPT ![s] = a]
    /\ UNCHANGED <<queued, running>>
    /\ UNCHANGED <<life, paused, execVars, attemptVars, round, toolVars, askVars, actVars,
                   epoch>>
    /\ Untriggered(s)

\* withdraw: the last message and what follows it leave the history.
Withdraw(e) ==
    LET s == home[e]
    IN /\ Known(e) /\ e \in visible /\ purpose[e] = "message"
       /\ \A f \in visible : home[f] = s /\ f > e => purpose[f] # "message"
       /\ QueuedIn(s) = {} /\ RunningIn(s) = {}
       /\ visible' = {f \in visible : home[f] = s => f < e}
       /\ UNCHANGED <<queued, running>>
       /\ UNCHANGED <<sessionVars, made, home, purpose, attemptVars, round, toolVars,
                      askVars, actVars, epoch>>
       /\ Untriggered(s)

\* delete: what the session owns is settled before it disappears.
Delete(s) ==
    /\ Live(s)
    /\ actPhase' = [a \in Activities |->
                      IF actHome[a] = s /\ actPhase[a] = "running" THEN "ended"
                      ELSE actPhase[a]]
    /\ life' = [life EXCEPT ![s] = "deleted"]
    /\ UNCHANGED <<paused, agent, owner, actHome, actOwner>>
    /\ FinishAll(QueuedIn(s) \cup RunningIn(s), s, "cancelled")

-----------------------------------------------------------------------------
(* recover: the next process settles what the last one left. *)

\* The queued input of an interrupted agent waits for an explicit followup.
Withheld(e, g) ==
    /\ phase[e][g] = "queued" /\ purpose[e] # "compaction"
    /\ Live(home[e]) /\ agent'[home[e]] = "interrupted"

\* The sessions some summary trigger fires for.
Disturbed(s) ==
    \E e \in Executions :
        home[e] = s /\ \E g \in Generations : phase[e][g] = "running" \/ Withheld(e, g)

Restart ==
    /\ epoch < MaxEpoch /\ epoch' = epoch + 1
    /\ agent' = [s \in Sessions |->
                   IF Live(s) /\ agent[s] = "active" THEN "interrupted" ELSE agent[s]]
    /\ queued' = [s \in Sessions |->
                    IF Live(s) /\ agent'[s] = "interrupted" /\ queued[s] > 0
                    THEN Cardinality({e \in QueuedIn(s) : purpose[e] = "compaction"})
                    ELSE queued[s]]
    /\ running' = [s \in Sessions |->
                     IF \E e \in Executions :
                           home[e] = s /\ \E g \in Generations : phase[e][g] = "running"
                     THEN 0 ELSE running[s]]
    /\ askState' = [i \in Asks |->
                      IF /\ askState[i] = "open"
                         /\ \E t \in Tools : askTool[i] = t /\ ActiveTool(t)
                      THEN "rejected" ELSE askState[i]]
    /\ toolPhase' = [t \in Tools |-> IF ActiveTool(t) THEN "ended" ELSE toolPhase[t]]
    /\ round' = [e \in Executions |-> [g \in Generations |-> "idle"]]
    /\ actPhase' = [a \in Activities |->
                      IF actPhase[a] = "running" THEN "ended" ELSE actPhase[a]]
    /\ phase' = [e \in Executions |-> [g \in Generations |->
                   IF phase[e][g] = "running" \/ Withheld(e, g) THEN "interrupted"
                   ELSE phase[e][g]]]
    /\ UNCHANGED <<life, paused, execVars, gen, owner, toolExec, toolGen, askTool,
                   actHome, actOwner>>
    /\ summary' = [s \in Sessions |->
                     IF PausedQueue(s)' THEN "ready"
                     ELSE IF Disturbed(s) THEN State(s)' ELSE summary[s]]

-----------------------------------------------------------------------------

SessionStep(s) ==
    \/ \E a \in {"none", "active"} : Create(s, a)
    \/ Send(s)
    \/ \E p \in {"continuation", "compaction"} : StartControl(s, p)
    \/ ClearQueued(s) \/ Delete(s)
    \/ \E p \in {paused \cup {s}, paused \ {s}} : SetPaused(s, p)
    \/ \E a \in {"done", "active"} : SetAgent(s, a)

ExecutionStep(e) ==
    \/ Retry(e) \/ Continue(e) \/ CancelQueued(e) \/ Withdraw(e)
    \/ \E g \in Generations : ClaimNext(e, g) \/ Cancel(e, g)

AttemptStep(e, g) ==
    \/ \E o \in {"succeeded", "failed", "cancelled"} : Finish(e, g, o)
    \/ \E k \in {"chat", "compaction"} : BeginRound(e, g, k)
    \/ \E ok \in BOOLEAN : FinishRound(e, g, ok)
    \/ CommitCompaction(e, g)
    \/ \E t \in Tools :
          \/ \E p \in {"preparing", "running"} : BeginTool(e, g, t, p)
          \/ FinalizeTool(e, g, t) \/ CompleteTool(e, g, t)
          \/ \E i \in Asks : RequestInteraction(e, g, t, i)
          \/ \E a \in Activities : BeginActivity(e, g, t, a)

Next ==
    \/ \E s \in Sessions : SessionStep(s)
    \/ \E e \in Executions : ExecutionStep(e) \/ \E g \in Generations : AttemptStep(e, g)
    \/ \E i \in Asks : \E d \in {"allowed", "rejected"} : Reply(i, d)
    \/ \E a \in Activities : EndActivity(a)
    \/ Restart

Spec == Init /\ [][Next]_vars

-----------------------------------------------------------------------------

(***************************************************************************)
(* queued_executions and running_executions are maintained by deltas, and  *)
(* by recounts when a process starts; they always equal what they count.   *)
(***************************************************************************)
CountersExact ==
    \A s \in Sessions :
        queued[s] = Cardinality(QueuedIn(s)) /\ running[s] = Cardinality(RunningIn(s))

(***************************************************************************)
(* A session runs at most one execution at a time, however executions are  *)
(* sent, retried, cancelled, paused and recovered.                         *)
(***************************************************************************)
OneRunner ==
    \A s \in Sessions : \A e, f \in RunningIn(s) : e = f

(***************************************************************************)
(* Nothing is left behind: a running round, an unfinished tool call and an *)
(* undecided interaction belong to the current, running attempt of a live  *)
(* session in this process; older attempts have ended, and so has every    *)
(* activity of a deleted session or an earlier process.                    *)
(***************************************************************************)
Owned(e, g) ==
    /\ e \in Executions /\ g = gen[e] /\ phase[e][g] = "running"
    /\ owner[e][g] = epoch /\ Live(home[e])

RoundsOwned ==
    \A e \in Executions : \A g \in Generations : round[e][g] # "idle" => Owned(e, g)

ToolsOwned == \A t \in Tools : ActiveTool(t) => Owned(toolExec[t], toolGen[t])

AsksOwned ==
    \A i \in Asks :
        askState[i] = "open" => askTool[i] \in Tools /\ toolPhase[askTool[i]] = "running"

AttemptsSettled ==
    \A e \in Executions : \A g \in Generations :
        phase[e][g] \in Active => /\ g = gen[e] /\ g # 0 /\ Live(home[e])
                                  /\ phase[e][g] = "running" => owner[e][g] = epoch

ActivitiesOwned ==
    \A a \in Activities :
        actPhase[a] = "running" => Live(actHome[a]) /\ actOwner[a] = epoch

NothingLeftBehind ==
    RoundsOwned /\ ToolsOwned /\ AsksOwned /\ AttemptsSettled /\ ActivitiesOwned

(***************************************************************************)
(* processing_state, which listings show and triggers maintain, is what    *)
(* its definition says of the stored facts.                                *)
(***************************************************************************)
SummaryExact ==
    \A s \in Sessions : life[s] = "live" => summary[s] = Presented(s)

Recorded(p, q) ==
    \/ q = p
    \/ p = "absent" /\ q = "queued"
    \/ p = "queued" /\ q \in {"running", "cancelled", "interrupted"}
    \/ p = "running" /\ q \in Ended

(***************************************************************************)
(* What happened to an attempt stays as it was recorded: it is queued once *)
(* and claimed at most once, and its outcome is final.                     *)
(***************************************************************************)
AttemptHistory ==
    [][\A e \in Executions, g \in Generations : Recorded(phase[e][g], phase'[e][g])]_vars

-----------------------------------------------------------------------------
(* The inductive invariant of the proofs. *)

\* Attempts are created in order, those of an execution with the execution.
Fresh ==
    \A e \in Executions :
        /\ e > made => gen[e] = 0
        /\ \A g \in Generations : g > gen[e] => phase[e][g] = "absent"

IInv == TypeOK /\ CountersExact /\ OneRunner /\ NothingLeftBehind /\ Fresh

=============================================================================
