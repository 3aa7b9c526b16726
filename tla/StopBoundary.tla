---------------------------- MODULE StopBoundary ----------------------------
(***************************************************************************)
(* How business input that arrives while a session works (results of       *)
(* background agents, scheduled prompts, messages and guidance of other    *)
(* agents, late hook observations) reaches a provider round, and when the  *)
(* driver of an attempt may stop: the deliveries of                        *)
(* crates/agena-storage-sqlite/src/kernel/{lifecycle,stop,input_window}.rs *)
(* and the driver loop and idle recovery of                                *)
(* crates/agena-runtime-session/src/session/manager.                       *)
(*                                                                         *)
(* One session, its queue not paused and without control executions.  An   *)
(* execution is named by its message, which grows in creation order, and a *)
(* delivery by its identity, which orders every scan and need not follow   *)
(* the order of publication.  Commands are atomic; the driver reads and    *)
(* writes in several steps.  History entries other than messages and       *)
(* notices of deliveries are left out.                                     *)
(***************************************************************************)
EXTENDS Integers, FiniteSets

CONSTANTS
    MaxExecutions,    \* bound: messages sent
    MaxDeliveries,    \* bound: deliveries published
    MaxContinues,     \* bound: continuations asked for by clients
    MaxWithdrawals,   \* bound: messages withdrawn
    MaxRestarts,      \* bound: restarts of the process
    MailboxLimit      \* pending agent messages of a session (32)

ASSUME BoundaryAssumption ==
    /\ MaxExecutions \in Nat /\ MaxDeliveries \in Nat /\ MaxContinues \in Nat
    /\ MaxWithdrawals \in Nat /\ MaxRestarts \in Nat /\ MailboxLimit \in Nat

Executions == 1 .. MaxExecutions
Deliveries == 1 .. MaxDeliveries
None       == 0

VARIABLES
    made,       \* how many messages were sent
    phase,      \* of the current attempt; "stopped" is any end but success
    stop,       \* the executions whose current attempt has stop_requested
    visible,    \* the messages in the session's history
    sent,       \* position of a message in the history
    kind,       \* of a delivery: "wake", "quiet" (wake=false) or "message" (agent_message)
    target,     \* target_execution_id
    origin,     \* message_id of the payload
    state,      \* see States
    anchor,     \* message_id of the delivery's notice
    place,      \* position of the notice
    noted,      \* the deliveries whose notice is in the history
    observed,   \* the deliveries with an observed_round_id
    length,     \* positions of the history used so far
    through,    \* position of the prompt window's checkpoint
    driver,     \* the execution that a task of this process drives
    pc,         \* where the driver is, see Stages
    page,       \* the deliveries it has read and not yet consumed
    inputs,     \* the notices among the round's frozen inputs
    continues, withdrawals, restarts    \* how often each bounded step was taken

execVars   == <<made, phase, stop, visible, sent>>
inputVars  == <<kind, target, origin>>
noticeVars == <<anchor, place, noted, length>>
boundVars  == <<continues, withdrawals, restarts>>
vars == <<execVars, inputVars, state, noticeVars, observed, through, driver, pc, page,
          inputs, boundVars>>

\* "launched": its activity runs; "landed": the activity is over or there was
\* none, the result is not yet recorded; "lost": the process died before it was.
States == {"absent", "launched", "landed", "pending", "consumed", "failed", "lost"}
Stages == {"idle", "boundary", "consuming", "round", "tools", "stopping", "hooks",
           "finishing"}
Phases == {"absent", "queued", "running", "succeeded", "stopped"}

TypeOK ==
    /\ made \in 0 .. MaxExecutions
    /\ phase \in [Executions -> Phases] /\ stop \subseteq Executions
    /\ visible \subseteq Executions /\ sent \in [Executions -> Nat]
    /\ kind \in [Deliveries -> {"wake", "quiet", "message"}]
    /\ target \in [Deliveries -> Executions \cup {None}]
    /\ origin \in [Deliveries -> Executions \cup {None}]
    /\ state \in [Deliveries -> States]
    /\ anchor \in [Deliveries -> Executions \cup {None}]
    /\ place \in [Deliveries -> Nat]
    /\ noted \subseteq Deliveries /\ observed \subseteq Deliveries
    /\ length \in Nat /\ through \in Nat
    /\ driver \in Executions \cup {None} /\ pc \in Stages
    /\ (pc = "idle") <=> (driver = None)
    /\ page \subseteq Deliveries /\ inputs \subseteq Deliveries
    /\ continues \in Nat /\ withdrawals \in Nat /\ restarts \in Nat

Init ==
    /\ made = 0 /\ phase = [e \in Executions |-> "absent"] /\ stop = {}
    /\ visible = {} /\ sent = [e \in Executions |-> 0]
    /\ kind = [d \in Deliveries |-> "wake"]
    /\ target = [d \in Deliveries |-> None] /\ origin = [d \in Deliveries |-> None]
    /\ state = [d \in Deliveries |-> "absent"]
    /\ anchor = [d \in Deliveries |-> None] /\ place = [d \in Deliveries |-> 0]
    /\ noted = {} /\ observed = {} /\ length = 0 /\ through = 0
    /\ driver = None /\ pc = "idle" /\ page = {} /\ inputs = {}
    /\ continues = 0 /\ withdrawals = 0 /\ restarts = 0

-----------------------------------------------------------------------------
(* Reads. *)

Busy == \E e \in Executions : phase[e] \in {"queued", "running"}

Pending(d) == state[d] = "pending"

\* A delivery that no other execution owns.
For(d, e) == target[d] \in {None, e}

\* Input that a provider round must see: guidance, wakes and agent messages.
Business(d) == target[d] # None \/ kind[d] # "quiet"

\* The notices input_window::select admits to a round of e.
Window(e) == {d \in noted : place[d] > through /\ anchor[d] <= e}

\* The positions a compaction of e may reach: none beyond the first later input.
Reach(e) ==
    {p \in through + 1 .. length :
        /\ \/ \E f \in visible : sent[f] = p
           \/ \E d \in noted : place[d] = p
        /\ \A f \in visible : through < sent[f] /\ sent[f] <= p => f <= e
        /\ \A d \in noted : through < place[d] /\ place[d] <= p => anchor[d] <= e}

\* What observe_round of a successful round of e over the entries D marks.
Observes(e, D) == {d \in D : state[d] = "consumed" /\ Business(d) /\ For(d, e)}

\* What keeps an attempt of e from stopping although it was recorded.
Unobserved(e) == {d \in noted \ observed : Business(d) /\ For(d, e)}

-----------------------------------------------------------------------------
(* Messages and attempts. *)

\* The guidance of e ends with an attempt that does not succeed (settle_children).
Settled(e) ==
    [d \in Deliveries |-> IF target[d] = e /\ Pending(d) THEN "failed" ELSE state[d]]

Send ==
    LET e == made + 1
    IN /\ made < MaxExecutions
       /\ made' = e
       /\ phase' = [phase EXCEPT ![e] = "queued"]
       /\ visible' = visible \cup {e}
       /\ sent' = [sent EXCEPT ![e] = length + 1]
       /\ length' = length + 1
       /\ UNCHANGED <<stop, inputVars, state, anchor, place, noted, observed, through,
                      driver, pc, page, inputs, boundVars>>

\* Continue, which without control executions retries the message's execution:
\* the new attempt's stop_requested is unset.
Reopen(e) ==
    /\ e \in visible /\ phase[e] \in {"succeeded", "stopped"}
    /\ phase' = [phase EXCEPT ![e] = "queued"]
    /\ stop' = stop \ {e}

\* start_existing, for the message of the newest entry.
ContinueSession(e) ==
    /\ continues < MaxContinues /\ continues' = continues + 1
    /\ Reopen(e)
    /\ UNCHANGED <<made, visible, sent, inputVars, state, noticeVars, observed, through,
                   driver, pc, page, inputs, withdrawals, restarts>>

\* ClaimNext by the task whose predecessor has settled.
Claim(e) ==
    /\ driver = None /\ phase[e] = "queued"
    /\ \A f \in Executions : phase[f] # "running" /\ (phase[f] = "queued" => f >= e)
    /\ phase' = [phase EXCEPT ![e] = "running"]
    /\ driver' = e /\ pc' = "boundary"
    /\ UNCHANGED <<made, stop, visible, sent, inputVars, state, noticeVars, observed,
                   through, page, inputs, boundVars>>

\* Cancel, CancelQueued: the driver of a cancelled attempt still winds down.
Cancel(e) ==
    /\ phase[e] \in {"queued", "running"}
    /\ phase' = [phase EXCEPT ![e] = "stopped"]
    /\ state' = Settled(e)
    /\ UNCHANGED <<made, stop, visible, sent, inputVars, noticeVars, observed, through,
                   driver, pc, page, inputs, boundVars>>

\* withdraw: the last message leaves the history with everything after it.
Withdraw(e) ==
    /\ withdrawals < MaxWithdrawals /\ withdrawals' = withdrawals + 1
    /\ e \in visible /\ \A f \in visible : f <= e
    /\ ~Busy
    /\ visible' = visible \ {e}
    /\ noted' = {d \in noted : place[d] < sent[e]}
    /\ through' = 0
    /\ UNCHANGED <<made, phase, stop, sent, inputVars, state, anchor, place, length,
                   observed, driver, pc, page, inputs, continues, restarts>>

-----------------------------------------------------------------------------
(* Publication. *)

\* publish_delivery.
Publish(d, k, t, o) ==
    /\ k = "message" =>
          Cardinality({x \in Deliveries : Pending(x) /\ kind[x] = "message"}) < MailboxLimit
    /\ state' = [state EXCEPT ![d] = "pending"]
    /\ kind' = [kind EXCEPT ![d] = k]
    /\ target' = [target EXCEPT ![d] = t]
    /\ origin' = [origin EXCEPT ![d] = o]
    /\ UNCHANGED <<execVars, noticeVars, observed, through, driver, pc, page, inputs,
                   boundVars>>

\* Deliver: a scheduled prompt, an agent's message, a hook's opening message.
Deliver(d, k) == state[d] = "absent" /\ Publish(d, k, None, None)

\* Mutant: the fence of a ready stop decision is not consulted.
DeliverUnfenced(d, e) ==
    /\ state[d] = "absent" /\ phase[e] \in {"queued", "running"}
    /\ Publish(d, "message", e, None)

\* DeliverToExecution: guidance for an attempt that has not decided to stop.
DeliverToExecution(d, e) ==
    /\ state[d] = "absent"
    /\ phase[e] \in {"queued", "running"} /\ e \notin stop
    /\ Publish(d, "message", e, None)

\* flush_hook_runs of a driver whose attempt has been ended by others.
LateHook(d) ==
    /\ driver # None /\ phase[driver] # "running" /\ pc \in {"boundary", "hooks"}
    /\ state[d] = "absent" /\ Publish(d, "quiet", None, driver)

\* A tool starts a background agent, whose activity belongs to the session.
Launch(d) ==
    /\ pc = "tools" /\ phase[driver] = "running" /\ state[d] = "absent"
    /\ state' = [state EXCEPT ![d] = "launched"]
    /\ origin' = [origin EXCEPT ![d] = driver]
    /\ UNCHANGED <<execVars, kind, target, noticeVars, observed, through, driver, pc, page,
                   inputs, boundVars>>

\* An agent run that no tool started answers to the message of the newest entry;
\* a report of a background process (deliver_background) to that of its tool.
LaunchIndependent(d, e) ==
    /\ e \in visible /\ state[d] = "absent"
    /\ state' = [state EXCEPT ![d] = "landed"]
    /\ origin' = [origin EXCEPT ![d] = e]
    /\ UNCHANGED <<execVars, kind, target, noticeVars, observed, through, driver, pc, page,
                   inputs, boundVars>>

\* The settlement of an agent ends its activity first ...
EndActivity(d) ==
    /\ state[d] = "launched"
    /\ state' = [state EXCEPT ![d] = "landed"]
    /\ UNCHANGED <<execVars, inputVars, noticeVars, observed, through, driver, pc, page,
                   inputs, boundVars>>

\* ... and records its result, FinishAgent, in a command of its own.
FinishAgent(d) == state[d] = "landed" /\ Publish(d, "wake", None, origin[d])

-----------------------------------------------------------------------------
(* The driver of an attempt. *)

\* The attempt ends as a failure, or had been ended by others.
Abort ==
    /\ driver # None
    /\ IF phase[driver] = "running"
       THEN /\ phase' = [phase EXCEPT ![driver] = "stopped"]
            /\ state' = Settled(driver)
       ELSE UNCHANGED <<phase, state>>
    /\ driver' = None /\ pc' = "idle" /\ page' = {} /\ inputs' = {}
    /\ UNCHANGED <<made, stop, visible, sent, inputVars, noticeVars, observed, through,
                   boundVars>>

\* consume_boundary_deliveries reads what is pending and not another's.
ReadPage ==
    /\ pc = "boundary"
    /\ page' = {d \in Deliveries : Pending(d) /\ For(d, driver)}
    /\ pc' = "consuming"
    /\ UNCHANGED <<execVars, inputVars, state, noticeVars, observed, through, driver,
                   inputs, boundVars>>

\* The notice of d joins the history under message m (ConsumeDelivery).
Record(d, m) ==
    /\ state' = [state EXCEPT ![d] = "consumed"]
    /\ anchor' = [anchor EXCEPT ![d] = m]
    /\ place' = [place EXCEPT ![d] = length + 1]
    /\ noted' = noted \cup {d}
    /\ length' = length + 1

\* delivery_message: the payload's message, or the reader's own.
Message(d, own) == IF origin[d] = None THEN own ELSE origin[d]

\* The next delivery of the page; what cannot be consumed aborts the driver.
Consume ==
    /\ pc = "consuming"
    /\ \E d \in page :
          /\ \A x \in page : d <= x
          /\ Message(d, driver) \in visible
          /\ target[d] = driver => phase[driver] = "running" \/ state[d] = "consumed"
          /\ \/ Pending(d) /\ Record(d, Message(d, driver))
             \/ state[d] = "consumed" /\ UNCHANGED <<state, noticeVars>>
          /\ page' = page \ {d}
    /\ UNCHANGED <<execVars, inputVars, observed, through, driver, pc, inputs, boundVars>>

\* BeginCurrentRound: the inputs are frozen and the fence is lifted.
BeginRound ==
    /\ pc = "consuming" /\ page = {} /\ phase[driver] = "running"
    /\ inputs' = Window(driver)
    /\ stop' = stop \ {driver}
    /\ pc' = "round"
    /\ UNCHANGED <<made, phase, visible, sent, inputVars, state, noticeVars, observed,
                   through, driver, page, boundVars>>

\* FinishRound: tools, or a followup, or the wish to stop come after success;
\* a failed round may be tried again.
FinishRound(ok) ==
    /\ pc = "round" /\ phase[driver] = "running"
    /\ observed' = IF ok THEN observed \cup Observes(driver, inputs) ELSE observed
    /\ inputs' = {}
    /\ pc' \in IF ok THEN {"tools", "stopping"} ELSE {"boundary"}
    /\ UNCHANGED <<execVars, inputVars, state, noticeVars, through, driver, page, boundVars>>

\* perform_compaction in place of the round: the prefix up to p is summarized,
\* or the provider leaves the window as it was.
Compact(p, kept) ==
    /\ pc = "round" /\ phase[driver] = "running"
    /\ p \in Reach(driver)
    /\ observed' =
          observed \cup Observes(driver, {d \in noted : through < place[d] /\ place[d] <= p})
    /\ through' = IF kept THEN through ELSE p
    /\ inputs' = {} /\ pc' = "boundary"
    /\ UNCHANGED <<execVars, inputVars, state, noticeVars, driver, page, boundVars>>

EndTools ==
    /\ pc = "tools" /\ pc' = "boundary"
    /\ UNCHANGED <<execVars, inputVars, state, noticeVars, observed, through, driver, page,
                   inputs, boundVars>>

\* stop::prepare; waiting says whether the scheduler may still wake the session.
PrepareStop(waiting) ==
    LET continue == \/ \E d \in Deliveries : Pending(d) /\ For(d, driver)
                    \/ Unobserved(driver) # {}
        await    == \/ waiting
                    \/ \E e \in Executions : phase[e] = "queued"
                    \/ \E d \in Deliveries : state[d] = "launched"
    IN /\ pc = "stopping" /\ phase[driver] = "running"
       /\ \/ continue /\ pc' = "boundary" /\ UNCHANGED stop
          \/ ~continue /\ await /\ pc' = "finishing" /\ UNCHANGED stop
          \/ ~continue /\ ~await /\ pc' = "hooks" /\ stop' = stop \cup {driver}
       /\ UNCHANGED <<made, phase, visible, sent, inputVars, state, noticeVars, observed,
                      through, driver, page, inputs, boundVars>>

\* stop_hook_followup: a hook may ask for another round.
StopHook ==
    /\ pc = "hooks" /\ pc' \in {"boundary", "finishing"}
    /\ UNCHANGED <<execVars, inputVars, state, noticeVars, observed, through, driver, page,
                   inputs, boundVars>>

\* Mutant: success does not look for guidance accepted since the decision.
FinishUnchecked ==
    /\ pc = "finishing" /\ phase[driver] = "running"
    /\ phase' = [phase EXCEPT ![driver] = "succeeded"]
    /\ driver' = None /\ pc' = "idle"
    /\ UNCHANGED <<made, stop, visible, sent, inputVars, state, noticeVars, observed,
                   through, page, inputs, boundVars>>

\* Finish(Succeeded), refused while guidance of this execution is pending.
Finish ==
    /\ pc = "finishing" /\ phase[driver] = "running"
    /\ IF \E d \in Deliveries : target[d] = driver /\ Pending(d)
       THEN pc' = "boundary" /\ UNCHANGED <<phase, driver>>
       ELSE /\ phase' = [phase EXCEPT ![driver] = "succeeded"]
            /\ driver' = None /\ pc' = "idle"
    /\ UNCHANGED <<made, stop, visible, sent, inputVars, state, noticeVars, observed,
                   through, page, inputs, boundVars>>

-----------------------------------------------------------------------------
(* Idle recovery and restart. *)

\* Mutant: the scan takes the first pending delivery, whatever its kind.
NextWakeAny(d) ==
    /\ Pending(d) /\ \A x \in Deliveries : Pending(x) => d <= x
    /\ target[d] = None /\ kind[d] # "message"

\* The delivery that recover_background_deliveries picks.
NextWake(d) ==
    /\ Pending(d) /\ target[d] = None /\ kind[d] # "message"
    /\ \A x \in Deliveries :
          Pending(x) /\ target[x] = None /\ kind[x] # "message" => d <= x

\* Its idle step, under the session's locks: a wake reopens the execution of
\* its message (ResumeDelivery), anything else is only recorded.  The newest
\* entry, whose message stands in for a missing one, may be of any message.
RecoverDelivery(d) ==
    /\ driver = None /\ ~Busy /\ NextWake(d)
    /\ \E m \in visible :
          /\ Message(d, m) \in visible
          /\ Record(d, Message(d, m))
          /\ IF kind[d] = "wake" THEN Reopen(Message(d, m)) ELSE UNCHANGED <<phase, stop>>
    /\ UNCHANGED <<made, visible, sent, inputVars, observed, through, driver, pc, page,
                   inputs, boundVars>>

\* Mutant: the guidance of every execution survives the process.
RestartKeepsGuidance ==
    /\ restarts < MaxRestarts /\ restarts' = restarts + 1
    /\ phase' = [e \in Executions |-> IF phase[e] = "running" THEN "stopped" ELSE phase[e]]
    /\ state' = [d \in Deliveries |->
                   IF state[d] \in {"launched", "landed"} THEN "lost" ELSE state[d]]
    /\ driver' = None /\ pc' = "idle" /\ page' = {} /\ inputs' = {}
    /\ UNCHANGED <<made, stop, visible, sent, inputVars, noticeVars, observed, through,
                   continues, withdrawals>>

\* recover: guidance survives only for an execution that is still queued.
Restart ==
    /\ restarts < MaxRestarts /\ restarts' = restarts + 1
    /\ phase' = [e \in Executions |-> IF phase[e] = "running" THEN "stopped" ELSE phase[e]]
    /\ state' = [d \in Deliveries |->
                   IF /\ Pending(d) /\ target[d] # None
                      /\ \A e \in Executions : e = target[d] => phase[e] # "queued"
                   THEN "failed"
                   ELSE IF state[d] \in {"launched", "landed"} THEN "lost" ELSE state[d]]
    /\ driver' = None /\ pc' = "idle" /\ page' = {} /\ inputs' = {}
    /\ UNCHANGED <<made, stop, visible, sent, inputVars, noticeVars, observed, through,
                   continues, withdrawals>>

-----------------------------------------------------------------------------

Drive ==
    \/ Abort \/ ReadPage \/ Consume \/ BeginRound \/ EndTools \/ StopHook \/ Finish
    \/ \E ok \in BOOLEAN : FinishRound(ok)
    \/ \E p \in 1 .. length, kept \in BOOLEAN : Compact(p, kept)
    \/ \E waiting \in BOOLEAN : PrepareStop(waiting)

ExecutionStep(e) == ContinueSession(e) \/ Claim(e) \/ Cancel(e) \/ Withdraw(e)

DeliveryStep(d) ==
    \/ \E k \in {"wake", "quiet", "message"} : Deliver(d, k)
    \/ \E e \in Executions : DeliverToExecution(d, e) \/ LaunchIndependent(d, e)
    \/ LateHook(d) \/ Launch(d) \/ EndActivity(d) \/ FinishAgent(d)
    \/ RecoverDelivery(d)

Next ==
    \/ Send \/ Drive \/ Restart
    \/ \E e \in Executions : ExecutionStep(e)
    \/ \E d \in Deliveries : DeliveryStep(d)

Spec == Init /\ [][Next]_vars

\* A task that drives an attempt runs on until it settles, a queued execution
\* is supervised, and the recovery scan is repeated.
Fairness ==
    /\ WF_vars(Drive)
    /\ WF_vars(\E e \in Executions : Claim(e))
    /\ WF_vars(\E d \in Deliveries : RecoverDelivery(d))

FairSpec == Spec /\ Fairness

-----------------------------------------------------------------------------

\* Guidance of e that still has to reach a round.
Unanswered(d, e) ==
    target[d] = e /\ (Pending(d) \/ (state[d] = "consumed" /\ d \in noted \ observed))

(***************************************************************************)
(* An execution does not succeed over guidance it accepted: whatever was   *)
(* accepted for it, however late, was seen by a successful provider round  *)
(* or was refused, failed with an earlier attempt or withdrawn (the pair   *)
(* PrepareStop and Finish around DeliverToExecution).                      *)
(***************************************************************************)
GuidanceAnswered ==
    \A e \in Executions, d \in Deliveries :
        phase[e] = "succeeded" => ~Unanswered(d, e)

(***************************************************************************)
(* Guidance is never orphaned: while it is pending, the execution it was   *)
(* accepted for is queued or running.  No other execution and no idle scan *)
(* may take it, so whatever ends an attempt (success, failure, a           *)
(* cancellation, the next process) must have answered or failed it.        *)
(***************************************************************************)
GuidanceOwned ==
    \A d \in Deliveries :
        Pending(d) /\ target[d] # None => phase[target[d]] \in {"queued", "running"}

(***************************************************************************)
(* "A ready decision fences guidance until this attempt begins a new       *)
(* round": while stop_requested stands nothing targeted at the running     *)
(* attempt is waiting, so its success cannot be refused and stop hooks     *)
(* see the final state.                                                    *)
(***************************************************************************)
StopFence ==
    \A e \in Executions, d \in Deliveries :
        phase[e] = "running" /\ e \in stop => ~Unanswered(d, e)

Deliverable(d) == visible # {} /\ (origin[d] # None => origin[d] \in visible)

\* A pending delivery whose message was withdrawn: boundaries and idle recovery
\* fail on it (consume_boundary_deliveries, recover_background_deliveries).
Blocked == \E d \in Deliveries : Pending(d) /\ ~Deliverable(d)

(***************************************************************************)
(* "Reliable business deliveries are consumed at a provider boundary": an  *)
(* untargeted delivery that is not an agent's message is consumed by a     *)
(* running attempt or by idle recovery, whatever fails in between and      *)
(* whatever other deliveries come first, unless the message of one of the  *)
(* pending deliveries was withdrawn.                                       *)
(***************************************************************************)
WakeConsumed ==
    \A d \in Deliveries :
        Pending(d) /\ target[d] = None /\ kind[d] # "message" /\ Deliverable(d)
            ~> ~Pending(d) \/ Blocked

-----------------------------------------------------------------------------
(* The inductive invariant of the proofs. *)

\* A running attempt is driven, and by one task only.
OneDriver == \A e \in Executions : phase[e] = "running" => driver = e

\* An attempt begins without a stop decision.
FreshStop ==
    \A e \in Executions :
        /\ e > made => phase[e] = "absent"
        /\ phase[e] \in {"absent", "queued"} => e \notin stop

\* Once stopping was allowed, only guidance still pending is unanswered.
Decided ==
    \A e \in Executions, d \in Deliveries :
        /\ driver = e /\ pc \in {"hooks", "finishing"} /\ phase[e] = "running"
        /\ target[d] = e /\ state[d] = "consumed"
        => d \notin noted \ observed

IInv ==
    /\ TypeOK /\ OneDriver /\ FreshStop /\ Decided
    /\ StopFence /\ GuidanceAnswered /\ GuidanceOwned

=============================================================================
