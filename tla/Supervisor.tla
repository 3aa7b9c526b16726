----------------------------- MODULE Supervisor -----------------------------
(***************************************************************************)
(* How the session manager supervises the queued executions of a session   *)
(* (agena-runtime-session/src/session/manager): the registry of active     *)
(* runs, the dispatch chain, the execution and the submission lock, the    *)
(* admission permits, and the commands that submit, continue, pause,       *)
(* resume, stop and cancel while runs claim, drive and retire.             *)
(*                                                                         *)
(* An execution is numbered by its message, so numbers are queue order.    *)
(* Its phase, its generation and the pause of the queue are durable; the   *)
(* kernel's rounds and tools are SessionKernel and StopBoundary.  A run    *)
(* occupies a slot from its registration until it settled, and with it one *)
(* admission permit; waiting for a settled predecessor and having none are *)
(* the same, so settling a run forgets it.  Operation and run number 0 is  *)
(* none.  A failed attempt is "ended", like a successful one.              *)
(***************************************************************************)
EXTENDS Naturals, FiniteSets

CONSTANTS Callers,       \* clients of the manager
          Kinds,         \* the commands they may use
          Capacity,      \* MAX_ACTIVE_EXECUTIONS
          Agent,         \* "yes": a subagent, whose first run has a time limit
          Scanning,      \* "yes": the periodic recovery runs
          MaxExecutions, MaxGen, MaxOps, MaxCrashes, MaxPanics   \* bounds

Executions == 1..MaxExecutions
Slots      == 1..Capacity
Actors     == Callers \cup {"recovery", "scan", "watch"}

ASSUME SupervisorAssumption ==
  /\ Capacity \in Nat \ {0} /\ MaxExecutions \in Nat \ {0} /\ MaxGen \in Nat \ {0}
  /\ MaxOps \in Nat /\ MaxCrashes \in Nat /\ MaxPanics \in Nat
  /\ Kinds \subseteq {"submit", "continue", "pause", "resume", "stop", "attempt"}
  /\ Agent \in {"no", "yes"} /\ Scanning \in {"no", "yes"}
  /\ IsFiniteSet(Callers) /\ {"recovery", "scan", "watch", "none"} \cap Callers = {}

VARIABLES phase, gen,       \* the current attempt of each execution
          sent,             \* the last execution created
          latest,           \* the execution that owns the last history entry
          paused,           \* message_queue_paused
          run,              \* the runs, by slot
          active,           \* the registered run of an execution
          tail,             \* the last run of the dispatch chain
          driver,           \* who holds the execution lock
          holder,           \* who holds the submission lock
          recovering,       \* retired runs that still want to restore the queue
          op,               \* the operation each actor performs
          ops, crashes, panics

durable == <<phase, gen, sent, latest, paused>>
bounds  == <<ops, crashes, panics>>
vars == <<durable, run, active, tail, driver, holder, recovering, op, bounds>>

NoRun == [state |-> "none", exec |-> 0, gen |-> 0, pred |-> 0, cancel |-> "no"]
NoOp  == [kind |-> "none", pc |-> "idle", exec |-> 0, gen |-> 0, was |-> "no",
          snap |-> [e \in Executions |-> 0]]

Terminal(p) == p \in {"ended", "cancelled"}
Busy(i)     == run[i].state # "none"

\* A spawned agent starts with its first input registered and watched.
Init ==
  LET spawned == Agent = "yes"
  IN /\ phase = [e \in Executions |-> IF spawned /\ e = 1 THEN "queued" ELSE "none"]
     /\ gen = [e \in Executions |-> IF spawned /\ e = 1 THEN 1 ELSE 0]
     /\ sent = (IF spawned THEN 1 ELSE 0) /\ latest = sent /\ paused = "no"
     /\ run = [i \in Slots |-> IF spawned /\ i = 1
                THEN [state |-> "waiting", exec |-> 1, gen |-> 1, pred |-> 0, cancel |-> "no"]
                ELSE NoRun]
     /\ active = [e \in Executions |-> IF spawned /\ e = 1 THEN 1 ELSE 0]
     /\ tail = sent /\ driver = 0 /\ holder = "none" /\ recovering = 0
     /\ op = [a \in Actors |-> IF spawned /\ a = "watch"
               THEN [kind |-> "watch", pc |-> "watching", exec |-> 1, gen |-> 1, was |-> "no",
                     snap |-> [f \in Executions |-> 0]]
               ELSE NoOp]
     /\ ops = 0 /\ crashes = 0 /\ panics = 0

(***************************************************************************)
(* Admission and registration                                              *)
(***************************************************************************)
HoldsPermit(a) == op[a].kind \in {"submit", "continue"}

\* The permits that runs and prepared submissions hold.
Admitted == Cardinality({i \in Slots : Busy(i)}) + Cardinality({a \in Actors : HoldsPermit(a)})

\* Mutant: only runs count against the limit.
FullOfRuns == \A i \in Slots : Busy(i)

\* reserve_execution finds no permit.
Full == Admitted >= Capacity

Registered(e, g) == active[e] # 0 /\ run[active[e]].gen >= g

\* Mutant: the tail is replaced before the predecessor is read.
SuperviseAfterItself(e, g) ==
  IF Registered(e, g)
  THEN UNCHANGED <<run, active, tail>>
  ELSE \E i \in Slots :
         /\ ~Busy(i) /\ \A j \in 1..(i - 1) : Busy(j)
         /\ run' = [run EXCEPT ![i] = [state |-> "waiting", exec |-> e, gen |-> g,
                                        pred |-> i, cancel |-> "no"]]
         /\ active' = [active EXCEPT ![e] = i] /\ tail' = i

\* supervise: unless this attempt has a run already, a run is registered at
\* the end of the dispatch chain.
Supervise(e, g) ==
  IF Registered(e, g)
  THEN UNCHANGED <<run, active, tail>>
  ELSE \E i \in Slots :
         /\ ~Busy(i) /\ \A j \in 1..(i - 1) : Busy(j)
         /\ run' = [run EXCEPT ![i] = [state |-> "waiting", exec |-> e, gen |-> g,
                                        pred |-> tail, cancel |-> "no"]]
         /\ active' = [active EXCEPT ![e] = i] /\ tail' = i

(***************************************************************************)
(* The task of a run                                                       *)
(***************************************************************************)
Moved(i, s) == [run EXCEPT ![i] = [state |-> s, exec |-> run[i].exec, gen |-> run[i].gen,
                                   pred |-> run[i].pred, cancel |-> run[i].cancel]]

\* The predecessor has settled and the execution lock is free.
Start(i) ==
  /\ run[i].state = "waiting" /\ run[i].pred = 0
  /\ driver = 0 /\ op["scan"].pc = "idle"
  /\ driver' = i /\ run' = Moved(i, "locked")
  /\ UNCHANGED <<durable, active, tail, holder, recovering, op, bounds>>

\* Mutant: the message itself counts as queued before it.
BlockedInclusive(e) == \E f \in Executions : phase[f] = "running" \/ (phase[f] = "queued" /\ f <= e)

Blocked(e) == \E f \in Executions : phase[f] = "running" \/ (phase[f] = "queued" /\ f < e)

\* Mutant: the claim takes the execution's current attempt.
ClaimableAny(e, g) == paused = "no" /\ ~Blocked(e) /\ phase[e] = "queued"

\* claim_next_generation, in the writer's transaction.
Claimable(e, g) == gen[e] = g /\ paused = "no" /\ ~Blocked(e) /\ phase[e] = "queued"

Claim(i) ==
  /\ run[i].state = "locked" /\ run[i].cancel = "no"
  /\ Claimable(run[i].exec, run[i].gen)
  /\ phase' = [phase EXCEPT ![run[i].exec] = "running"]
  /\ run' = Moved(i, "driving")
  /\ UNCHANGED <<gen, sent, latest, paused, active, tail, driver, holder, recovering, op, bounds>>

\* A signalled run does not claim; a claim refused for the pause alone exits
\* with QueuePaused, every other refusal just settles.
Refused(i) ==
  /\ run[i].state = "locked"
  /\ run[i].cancel = "yes" \/ ~Claimable(run[i].exec, run[i].gen)
  /\ run' = Moved(i, IF run[i].cancel = "no" /\ gen[run[i].exec] = run[i].gen /\ paused = "yes"
                     THEN "queuePaused" ELSE "exiting")
  /\ UNCHANGED <<durable, active, tail, driver, holder, recovering, op, bounds>>

Owns(i) == gen[run[i].exec] = run[i].gen /\ phase[run[i].exec] = "running"

\* The attempt appends to the history.
Output(i) ==
  /\ run[i].state = "driving" /\ Owns(i) /\ latest # run[i].exec
  /\ latest' = run[i].exec
  /\ UNCHANGED <<phase, gen, sent, paused, run, active, tail, driver, holder, recovering, op, bounds>>

\* The attempt finishes, unless it was fenced meanwhile.
Finish(i) ==
  /\ run[i].state = "driving"
  /\ \E p \in {"ended", "cancelled"} :
        phase' = IF Owns(i) THEN [phase EXCEPT ![run[i].exec] = p] ELSE phase
  /\ run' = Moved(i, "exiting")
  /\ UNCHANGED <<gen, sent, latest, paused, active, tail, driver, holder, recovering, op, bounds>>

\* Cancel of whichever attempt of e is current.
CancelCurrent(e) ==
  phase' = IF phase[e] \in {"queued", "running"} THEN [phase EXCEPT ![e] = "cancelled"] ELSE phase

\* The driver panics and the supervisor fences the execution.
Panic(i) ==
  /\ run[i].state = "driving" /\ panics < MaxPanics /\ panics' = panics + 1
  /\ CancelCurrent(run[i].exec)
  /\ run' = Moved(i, "exiting")
  /\ UNCHANGED <<gen, sent, latest, paused, active, tail, driver, holder, recovering, op, ops, crashes>>

\* Mutant: whatever is registered for the execution is removed.
DeregisteredAny(i) == [active EXCEPT ![run[i].exec] = 0]

\* Only the registration owned by this run is removed.
Deregistered(i) ==
  [e \in Executions |-> IF e = run[i].exec /\ active[e] = i THEN 0 ELSE active[e]]

WantsRecovery(i) == run[i].state = "queuePaused"

\* The predecessor of j has settled.
Unchained(j) == [state |-> run[j].state, exec |-> run[j].exec, gen |-> run[j].gen,
                 pred |-> 0, cancel |-> run[j].cancel]

\* The execution lock is dropped, the run settles and gives its permit back.
Retire(i) ==
  /\ run[i].state \in {"exiting", "queuePaused"}
  /\ driver' = 0 /\ active' = Deregistered(i)
  /\ run' = [j \in Slots |-> IF j = i THEN NoRun
                             ELSE IF run[j].pred = i THEN Unchained(j) ELSE run[j]]
  /\ tail' = (IF tail = i THEN 0 ELSE tail)
  /\ recovering' = recovering + (IF WantsRecovery(i) THEN 1 ELSE 0)
  /\ UNCHANGED <<durable, holder, op, bounds>>

(***************************************************************************)
(* Operations under the submission lock                                    *)
(***************************************************************************)
Begun(k, p, e, g) == [kind |-> k, pc |-> p, exec |-> e, gen |-> g, was |-> "no",
                     snap |-> [f \in Executions |-> 0]]

Proceed(a, p, e, g) ==
  op' = [op EXCEPT ![a] = [kind |-> op[a].kind, pc |-> p, exec |-> e, gen |-> g,
                           was |-> op[a].was, snap |-> op[a].snap]]

Goto(a, p) == Proceed(a, p, op[a].exec, op[a].gen)

\* The operation answers and releases what it holds.
Done(a) == op' = [op EXCEPT ![a] = NoOp] /\ holder' = (IF holder = a THEN "none" ELSE holder)

\* A client asks.  A submission and a continuation reserve a permit first; an
\* exact cancellation names a generation the client has seen.
Ask(c, k, e, g) ==
  /\ op[c].pc = "idle" /\ ops < MaxOps /\ ops' = ops + 1
  /\ k \in {"submit", "continue"} => ~Full /\ e = 0 /\ g = 0
  /\ k \in {"pause", "resume"} => e = 0 /\ g = 0
  /\ k = "stop" => e \in 1..sent /\ g = 0
  /\ k = "attempt" => e \in 1..sent /\ g \in 1..gen[e]
  /\ op' = [op EXCEPT ![c] = Begun(k, "lock", e, g)]
  /\ UNCHANGED <<durable, run, active, tail, driver, holder, recovering, crashes, panics>>

\* Mutant: a continuation does not take part in the lock.
MayEnterLoosely(a) == holder = "none" \/ op[a].kind = "continue"

MayEnter(a) == holder = "none"

FirstStep(k) == CASE k = "submit" -> "restore" [] k = "continue" -> "settlement"
                  [] k \in {"pause", "resume", "stop"} -> "set" [] k = "attempt" -> "fence"

Lock(c) ==
  /\ op[c].pc = "lock" /\ MayEnter(c)
  /\ holder' = c /\ Goto(c, FirstStep(op[c].kind))
  /\ UNCHANGED <<durable, run, active, tail, driver, recovering, bounds>>

\* A retired run that was refused for the pause restores the queue.
Recover ==
  /\ recovering > 0 /\ holder = "none" /\ op["recovery"].pc = "idle"
  /\ holder' = "recovery" /\ recovering' = recovering - 1
  /\ op' = [op EXCEPT !["recovery"] = Begun("recovery", "restore", 0, 0)]
  /\ UNCHANGED <<durable, run, active, tail, driver, bounds>>

\* recover_background_deliveries finds an idle session with queued input and
\* keeps both locks until the queue is restored.
Scan ==
  /\ Scanning = "yes"
  /\ holder = "none" /\ driver = 0 /\ op["scan"].pc = "idle" /\ paused = "no"
  /\ \A e \in Executions : active[e] = 0
  /\ \E e \in Executions : phase[e] = "queued"
  /\ holder' = "scan"
  /\ op' = [op EXCEPT !["scan"] = Begun("scan", "restore", 0, 0)]
  /\ UNCHANGED <<durable, run, active, tail, driver, recovering, bounds>>

\* wait_terminal_agent_settlement, before a subagent is continued.
Settlement(c) ==
  /\ op[c].pc = "settlement"
  /\ Agent = "yes" =>
       /\ \A e \in Executions : active[e] # 0 => ~Terminal(phase[e])
       /\ op["watch"].pc # "idle" => ~Terminal(phase[op["watch"].exec])
  /\ Goto(c, "restore")
  /\ UNCHANGED <<durable, run, active, tail, driver, holder, recovering, bounds>>

\* restore_queued_executions reads its snapshot ...
Snapshot(a) ==
  /\ op[a].pc = "restore"
  /\ op' = [op EXCEPT ![a] = [kind |-> op[a].kind, pc |-> "register", exec |-> op[a].exec,
              gen |-> op[a].gen, was |-> op[a].was,
              snap |-> [e \in Executions |-> IF paused = "no" /\ phase[e] = "queued" THEN gen[e] ELSE 0]]]
  /\ UNCHANGED <<durable, run, active, tail, driver, holder, recovering, bounds>>

\* ... and registers what it saw queued in message order, while permits last.
Register(a, e) ==
  LET g == op[a].snap[e]
  IN /\ op[a].pc = "register" /\ g # 0 /\ \A f \in 1..(e - 1) : op[a].snap[f] = 0
     /\ IF ~Registered(e, g) /\ Full
        THEN Done(a) /\ UNCHANGED <<run, active, tail>>
        ELSE /\ Supervise(e, g)
             /\ op' = [op EXCEPT ![a] =
                  [kind |-> op[a].kind, pc |-> "register", exec |-> op[a].exec, gen |-> op[a].gen,
                   was |-> op[a].was, snap |-> [op[a].snap EXCEPT ![e] = 0]]]
             /\ UNCHANGED holder
     /\ UNCHANGED <<durable, driver, recovering, bounds>>

\* The queue is restored; a continuation looks which message it continues.
Restored(a) ==
  /\ op[a].pc = "register" /\ \A e \in Executions : op[a].snap[e] = 0
  /\ IF op[a].kind \in {"submit", "continue"}
     THEN /\ Proceed(a, "commit", IF op[a].kind = "continue" THEN latest ELSE 0, op[a].gen)
          /\ UNCHANGED holder
     ELSE Done(a)
  /\ UNCHANGED <<durable, run, active, tail, driver, recovering, bounds>>

\* The send: a new execution is queued.
Send(c) ==
  /\ op[c].pc = "commit" /\ op[c].kind = "submit" /\ sent < MaxExecutions
  /\ LET e == sent + 1
     IN /\ sent' = e /\ latest' = e
        /\ phase' = [phase EXCEPT ![e] = "queued"] /\ gen' = [gen EXCEPT ![e] = 1]
        /\ Proceed(c, "supervise", e, 1)
  /\ UNCHANGED <<paused, run, active, tail, driver, holder, recovering, bounds>>

\* The continuation: a terminal attempt is followed by a queued one.
Continue(c) ==
  LET e == op[c].exec
  IN /\ op[c].pc = "commit" /\ op[c].kind = "continue"
     /\ e # 0 /\ Terminal(phase[e]) /\ gen[e] < MaxGen
     /\ phase' = [phase EXCEPT ![e] = "queued"] /\ gen' = [gen EXCEPT ![e] = gen[e] + 1]
     /\ Proceed(c, "supervise", e, gen[e] + 1)
     /\ UNCHANGED <<sent, latest, paused, run, active, tail, driver, holder, recovering, bounds>>

\* The preparation fails, or there is nothing to continue.
Reject(c) ==
  /\ op[c].pc = "commit" /\ Done(c)
  /\ UNCHANGED <<durable, run, active, tail, driver, recovering, bounds>>

\* The committed attempt gets its run and the permit of the operation.
Admit(c) ==
  /\ op[c].pc = "supervise"
  /\ Supervise(op[c].exec, op[c].gen) /\ Done(c)
  /\ UNCHANGED <<durable, driver, recovering, bounds>>

\* set_message_queue_paused, and the pause every stop begins with.
SetPause(c) ==
  /\ op[c].pc = "set"
  /\ paused' = (IF op[c].kind = "resume" THEN "no" ELSE "yes")
  /\ CASE op[c].kind = "pause" -> Done(c)
       [] op[c].kind = "resume" -> Goto(c, "restore") /\ UNCHANGED holder
       [] op[c].kind = "stop" ->
            /\ op' = [op EXCEPT ![c] = [kind |-> "stop", pc |-> "signal", exec |-> op[c].exec,
                                        gen |-> op[c].gen, was |-> paused, snap |-> op[c].snap]]
            /\ UNCHANGED holder
  /\ UNCHANGED <<phase, gen, sent, latest, run, active, tail, driver, recovering, bounds>>

Signalled(i) == [run EXCEPT ![i] = [state |-> run[i].state, exec |-> run[i].exec,
                                    gen |-> run[i].gen, pred |-> run[i].pred, cancel |-> "yes"]]

\* cancel_execution_with_outcome reads the execution and signals its run.
Signal(a) ==
  LET e == op[a].exec
  IN /\ op[a].pc = "signal"
     /\ IF Terminal(phase[e])
        THEN Goto(a, IF op[a].kind = "stop" THEN "empty" ELSE "settling") /\ UNCHANGED run
        ELSE /\ Proceed(a, "cancel", e, IF op[a].kind = "stop" THEN gen[e] ELSE op[a].gen)
             /\ run' = IF active[e] = 0 THEN run ELSE Signalled(active[e])
     /\ UNCHANGED <<durable, active, tail, driver, holder, recovering, bounds>>

\* cancel_owned; a decision other than Cancelled is a conflict, with which a
\* stop answers at once.
Cancel(a) ==
  LET e == op[a].exec
  IN /\ op[a].pc = "cancel"
     /\ CancelCurrent(e)
     /\ CASE op[a].kind = "watch" -> Goto(a, "settling") /\ UNCHANGED holder
          [] op[a].kind = "stop" /\ phase[e] = "ended" -> Done(a)
          [] op[a].kind = "stop" /\ phase[e] # "ended" -> Goto(a, "empty") /\ UNCHANGED holder
     /\ UNCHANGED <<gen, sent, latest, paused, run, active, tail, driver, recovering, bounds>>

NothingQueued == \A e \in Executions : phase[e] # "queued"

\* resume_empty_queue_after_stop reads the number of queued executions.
Empty(c) ==
  /\ op[c].pc = "empty"
  /\ IF op[c].was = "no" /\ NothingQueued
     THEN Goto(c, "unpause") /\ UNCHANGED holder
     ELSE Done(c)
  /\ UNCHANGED <<durable, run, active, tail, driver, recovering, bounds>>

Unpause(c) ==
  /\ op[c].pc = "unpause"
  /\ paused' = "no" /\ Done(c)
  /\ UNCHANGED <<phase, gen, sent, latest, run, active, tail, driver, recovering, bounds>>

\* Mutant: the writer does not compare the generation.
FencesAny(e, g) == ~Terminal(phase[e])

Fences(e, g) == gen[e] = g /\ ~Terminal(phase[e])

\* cancel_execution_attempt_inner: the fence is committed, then the run of
\* exactly this generation is signalled.
Fence(c) ==
  LET e == op[c].exec
      g == op[c].gen
  IN /\ op[c].pc = "fence" /\ Done(c)
     /\ IF Fences(e, g)
        THEN /\ phase' = [phase EXCEPT ![e] = "cancelled"]
             /\ run' = IF active[e] # 0 /\ run[active[e]].gen = g THEN Signalled(active[e]) ELSE run
        ELSE UNCHANGED <<phase, run>>
     /\ UNCHANGED <<gen, sent, latest, paused, active, tail, driver, recovering, bounds>>

(***************************************************************************)
(* The task that settles a spawned agent                                   *)
(***************************************************************************)
RunSettled(e, g) == \A i \in Slots : ~(Busy(i) /\ run[i].exec = e /\ run[i].gen = g)

\* The time limit of the run passes and its execution is cancelled.
TimeOut ==
  /\ op["watch"].pc = "watching" /\ ~RunSettled(op["watch"].exec, op["watch"].gen)
  /\ Goto("watch", "signal")
  /\ UNCHANGED <<durable, run, active, tail, driver, holder, recovering, bounds>>

\* The run has settled and the agent's result is recorded.
SettleAgent ==
  /\ op["watch"].pc \in {"watching", "settling"} /\ RunSettled(op["watch"].exec, op["watch"].gen)
  /\ Done("watch")
  /\ UNCHANGED <<durable, run, active, tail, driver, recovering, bounds>>

(***************************************************************************)
(* A crash loses everything but the database, and the next process ends    *)
(* what was running (recover).  The queued input of an agent that was not  *)
(* settled, or was settled as interrupted, ends too: it waits for a        *)
(* followup.                                                               *)
(***************************************************************************)
Withheld == IF op["watch"].kind # "none" THEN {"ended"}
            ELSE IF Agent = "yes" THEN {"queued", "ended"} ELSE {"queued"}

Crash ==
  /\ crashes < MaxCrashes /\ crashes' = crashes + 1
  /\ \E p \in Withheld :
       phase' = [e \in Executions |-> CASE phase[e] = "running" -> "ended"
                                        [] phase[e] = "queued" -> p
                                        [] OTHER -> phase[e]]
  /\ run' = [i \in Slots |-> NoRun] /\ active' = [e \in Executions |-> 0]
  /\ tail' = 0 /\ driver' = 0 /\ holder' = "none" /\ recovering' = 0
  /\ op' = [a \in Actors |-> NoOp]
  /\ UNCHANGED <<gen, sent, latest, paused, ops, panics>>

RunStep(i) == Start(i) \/ Claim(i) \/ Refused(i) \/ Finish(i) \/ Retire(i)

OpStep(a) ==
  \/ Lock(a) \/ Settlement(a) \/ Snapshot(a) \/ (\E e \in Executions : Register(a, e)) \/ Restored(a)
  \/ Send(a) \/ Continue(a) \/ Reject(a) \/ Admit(a) \/ SetPause(a) \/ Signal(a) \/ Cancel(a)
  \/ Empty(a) \/ Unpause(a) \/ Fence(a)

Next ==
  \/ \E i \in Slots : RunStep(i) \/ Output(i) \/ Panic(i)
  \/ \E a \in Actors : OpStep(a)
  \/ \E c \in Callers, k \in Kinds, e \in 0..MaxExecutions, g \in 0..MaxGen : Ask(c, k, e, g)
  \/ Recover \/ Scan \/ TimeOut \/ SettleAgent \/ Crash

Spec == Init /\ [][Next]_vars

(***************************************************************************)
(* Fairness: tasks are polled, the driver of a run ends, and the periodic  *)
(* recovery comes again.  Clients, time limits and crashes are free.       *)
(***************************************************************************)
Fairness ==
  /\ \A i \in Slots : WF_vars(RunStep(i))
  /\ \A a \in Actors : WF_vars(OpStep(a))
  /\ \A c \in Callers : SF_vars(Lock(c))
  /\ SF_vars(Recover) /\ WF_vars(Scan) /\ WF_vars(SettleAgent)

FairSpec == Spec /\ Fairness

(***************************************************************************)
(* Properties                                                              *)
(***************************************************************************)
RunType == [state : {"none", "waiting", "locked", "driving", "exiting", "queuePaused"},
            exec : 0..MaxExecutions, gen : 0..MaxGen, pred : 0..Capacity, cancel : {"no", "yes"}]

OpType == [kind : {"none", "submit", "continue", "pause", "resume", "stop", "attempt",
                   "recovery", "scan", "watch"},
           pc : {"idle", "lock", "settlement", "restore", "register", "commit", "supervise", "set",
                 "signal", "cancel", "empty", "unpause", "fence", "watching", "settling"},
           exec : 0..MaxExecutions, gen : 0..MaxGen, was : {"no", "yes"},
           snap : [Executions -> 0..MaxGen]]

\* Every variable has its type, and no more permits are held than there are.
TypeOK ==
  /\ phase \in [Executions -> {"none", "queued", "running", "ended", "cancelled"}]
  /\ gen \in [Executions -> 0..MaxGen] /\ sent \in 0..MaxExecutions /\ latest \in 0..MaxExecutions
  /\ paused \in {"no", "yes"}
  /\ run \in [Slots -> RunType] /\ active \in [Executions -> 0..Capacity]
  /\ tail \in 0..Capacity /\ driver \in 0..Capacity
  /\ holder \in Actors \cup {"none"} /\ recovering \in Nat
  /\ op \in [Actors -> OpType]
  /\ ops \in Nat /\ crashes \in Nat /\ panics \in Nat
  /\ Admitted <= Capacity

\* A running attempt has exactly one owner: the run of its own generation that
\* holds the execution lock.  Stale restores, retries, panics and fences leave
\* none running without a driver and none with the driver of another attempt.
RunningOwned ==
  \A e \in Executions : phase[e] = "running" =>
     /\ driver # 0 /\ run[driver].state = "driving"
     /\ run[driver].exec = e /\ run[driver].gen = gen[e]

\* The registry knows the newest run of every execution and no settled one:
\* an older attempt that settles late does not remove its successor.
RegistryExact ==
  \A e \in Executions :
     /\ active[e] # 0 => Busy(active[e]) /\ run[active[e]].exec = e
     /\ \A i \in Slots : Busy(i) /\ run[i].exec = e =>
           active[e] # 0 /\ run[active[e]].gen >= run[i].gen

\* The pause a stop persisted is lifted only by a resumption or with nothing
\* queued, so input that was queued during the stop does not start by itself.
StopRetains ==
  [][paused = "yes" /\ paused' = "no" =>
       NothingQueued \/ \E a \in Actors : op[a].kind = "resume" /\ op[a].pc = "set"]_vars

\* A stop and an exact cancellation cancel the attempt they saw, never the
\* attempt that a continuation put in its place.
CancelsWhatItSaw ==
  [][\A a \in Callers :
       op[a].pc \in {"cancel", "fence"} /\ op'[a].pc # op[a].pc /\ phase' # phase /\ crashes' = crashes =>
         gen[op[a].exec] = op[a].gen]_vars

\* Queued input that is not paused is eventually claimed, cancelled or paused,
\* although its run may be refused out of order, find no permit or be lost.
QueueServed ==
  \A e \in Executions : phase[e] = "queued" /\ paused = "no" ~> phase[e] # "queued" \/ paused = "yes"

\* Every operation is answered and every run settles: the dispatch chain, the two
\* locks, the permits and a continuation that waits for an agent's settlement
\* never wait on each other in a circle.
Drains ==
  /\ \A a \in Actors : op[a].pc # "idle" ~> op[a].pc = "idle"
  /\ \A i \in Slots : Busy(i) ~> ~Busy(i)

\* commands.rs: a stop with no pending input does not leave an invisible pause
\* behind which the next send would wait.
NoInvisiblePause ==
  [][\A a \in Actors : op[a].kind = "stop" /\ op[a].was = "no" /\ op'[a].pc = "idle"
       /\ op[a].pc \in {"cancel", "empty", "unpause"} /\ crashes' = crashes /\ paused' = "yes" => ~NothingQueued]_vars
=============================================================================
