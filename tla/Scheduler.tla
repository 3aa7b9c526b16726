------------------------------ MODULE Scheduler ------------------------------
(***************************************************************************)
(* The durable job scheduler (crates/agena-scheduler) and the sink that    *)
(* turns a fire into a session delivery (SessionSink).                     *)
(*                                                                         *)
(* A job is a row of one SQLite table: its JSON, a claim key and the time  *)
(* that claim was last renewed.  Every change is a compare-and-swap on the *)
(* JSON and the claim key a caller read before.  The delivery slots of     *)
(* several processes claim due jobs, call the sink while they renew their  *)
(* lease, and finalize; users edit jobs at any point in between; the wall  *)
(* clock may be set back.                                                  *)
(*                                                                         *)
(* Time.  `now` is the wall clock in schedule instants.  A lease and a     *)
(* retry back-off are not numbers: leaseOver and retryOver hold the jobs   *)
(* whose lease or back-off the clock has passed, and any order in which    *)
(* the clock passes them is allowed.  Instant 0 means "none".              *)
(***************************************************************************)
EXTENDS Naturals, Sequences, FiniteSets, FiniteSetsExt

CONSTANTS Jobs,            \* job ids (UUIDs, never reused)
          OnceJobs,        \* the one-shot jobs among them
          Slots,           \* delivery slots, over all processes
          Process,         \* Process[s]: the process a slot belongs to
          Session,         \* Session[j]: the owner session of a job
          Expressions,     \* cron expressions
          FireTimes,       \* FireTimes[e]: the instants e matches
          MaxTime,         \* the last instant of the modelled calendar
          Grace,           \* MISFIRE_GRACE, in instants
          Prompts, Policies, AttemptLimits, Ages,  \* values an edit may set
          MaxTries,        \* compare-and-swap attempts of one completion
          MaxLosses,       \* bound: crashes, stalls and dropped slots
          MaxEdits,        \* bound: pause, resume, update and remove calls
          MaxSetBacks      \* bound: backward corrections of the clock

ASSUME SchedulerAssumption ==
  /\ OnceJobs \subseteq Jobs
  /\ MaxTime \in Nat \ {0} /\ Grace \in Nat
  /\ Expressions # {} /\ Prompts # {} /\ Policies # {} /\ AttemptLimits # {} /\ Ages # {}
  /\ Policies \subseteq {"skip", "run_once_now", "reschedule"}
  /\ AttemptLimits \subseteq Nat \ {0} /\ Ages \subseteq Nat
  /\ MaxTries \in Nat \ {0} /\ MaxLosses \in Nat /\ MaxEdits \in Nat
  /\ MaxSetBacks \in Nat
  /\ \A e \in Expressions : FireTimes[e] \subseteq 1..MaxTime

VARIABLES now, leaseOver, retryOver,
          stored,          \* the ids of the table's rows
          used,            \* the ids ever inserted
          job,             \* job[j]: the JSON of j's row
          claim,           \* claim[j]: its claim key, 0 when unclaimed
          keys,            \* claim keys drawn so far
          slot,            \* slot[s]: what a delivery slot is doing
          edit,            \* a user's edit between its read and its write
          deliveries,      \* rows of the kernel's delivery table
          consumed,        \* keys the session's boundary has consumed
          history,         \* history[j]: the audit records of j, in order
          losses, edits, setBacks

clockVars == <<now, leaseOver, retryOver>>
tableVars == <<stored, used, job, claim, keys, history>>
sinkVars  == <<deliveries, consumed>>
budgets   == <<losses, edits, setBacks>>
vars      == <<clockVars, tableVars, slot, edit, sinkVars, budgets>>

(***************************************************************************)
(* Job state (job.rs)                                                      *)
(***************************************************************************)
NoDelivery == [occ |-> 0, attempt |-> 0]

Attempts == [occ : Nat, attempt : Nat]
Flags    == {"paused", "completed"}
Statuses == {"submitted", "skipped", "failed"}
Records  == [occ : Nat, attempt : Nat, status : Statuses]
JobType  == [expr : Expressions, prompt : Prompts, policy : Policies,
             limit : AttemptLimits, age : Ages, next : Nat,
             pending : Attempts, retry : {"none", "armed"},
             flags : SUBSET Flags]

\* Mutant: the cron search includes the instant it starts from.
ComputeNextFireInclusive(e, after) ==
  LET later == {t \in FireTimes[e] : t >= after}
  IN  IF later = {} THEN 0 ELSE Min(later)

\* compute_next_fire: the first match strictly after an instant; 0 is the
\* NoFutureFire error of a finite expression.
ComputeNextFire(e, after) ==
  LET later == {t \in FireTimes[e] : t > after}
  IN  IF later = {} THEN 0 ELSE Min(later)

\* ScheduledJob::advance: the occurrence is consumed.
Advance(j, b, fired) ==
  LET next == IF j \in OnceJobs \/ fired > b.age THEN 0
              ELSE ComputeNextFire(b.expr, fired)
  IN  [b EXCEPT !.pending = NoDelivery, !.retry = "none", !.next = next,
                !.flags = IF next = 0 THEN @ \cup {"completed"} ELSE @]

\* reschedule_after: like advance, without the age limit.
RescheduleAfter(j, b, at) ==
  LET next == IF j \in OnceJobs THEN 0 ELSE ComputeNextFire(b.expr, at)
  IN  [b EXCEPT !.pending = NoDelivery, !.retry = "none", !.next = next,
                !.flags = IF next = 0 THEN @ \cup {"completed"} ELSE @]

IsMisfire(occ, at) == at > occ + Grace

\* due: retry_at decides when there is one, next_fire_at when nothing pends.
Due(j) ==
  /\ job[j].flags = {}
  /\ IF job[j].retry = "armed" THEN j \in retryOver
     ELSE job[j].pending = NoDelivery /\ job[j].next # 0 /\ job[j].next <= now

\* claim_due_delivery, for a job that is due or whose claim was abandoned.
ClaimDueDelivery(j) ==
  LET b == job[j]
  IN  IF b.pending # NoDelivery
      THEN [kind |-> "deliver",
            job  |-> [b EXCEPT !.pending.attempt = @ + 1, !.retry = "none"]]
      ELSE IF IsMisfire(b.next, now) /\ b.policy = "skip"
      THEN [kind |-> "skip", job |-> Advance(j, b, b.next)]
      ELSE IF IsMisfire(b.next, now) /\ b.policy = "reschedule"
      THEN [kind |-> "skip", job |-> RescheduleAfter(j, b, now)]
      ELSE [kind |-> "deliver",
            job  |-> [b EXCEPT !.pending = [occ |-> b.next, attempt |-> 1]]]

\* Mutant: a skipped delivery is retried like a failed one.
FinishDeliveryRetrying(j, b, attempt, result, finished) ==
  IF result # "submitted" /\ attempt < b.limit
  THEN [b EXCEPT !.retry = "armed"]
  ELSE Advance(j, b, finished)

\* finish_delivery: a failure below the limit keeps the pending delivery and
\* arms its retry; everything else advances.
FinishDelivery(j, b, attempt, result, finished) ==
  IF result = "failed" /\ attempt < b.limit
  THEN [b EXCEPT !.retry = "armed"]
  ELSE Advance(j, b, finished)

\* Mutant: resume always drops the pending delivery.
ResumeDropping(j, b, key, at) ==
  [b EXCEPT !.flags = @ \ {"paused"}, !.pending = NoDelivery, !.retry = "none",
            !.next = IF j \in OnceJobs THEN @ ELSE ComputeNextFire(b.expr, at)]

\* resume: a running or abandoned occurrence keeps its pending delivery
\* (Scheduler::resume); otherwise ScheduledJob::resume drops it.
Resume(j, b, key, at) ==
  IF key # 0 THEN [b EXCEPT !.flags = @ \ {"paused"}]
  ELSE [b EXCEPT !.flags = @ \ {"paused"}, !.pending = NoDelivery,
                 !.retry = "none",
                 !.next = IF j \in OnceJobs THEN @
                          ELSE ComputeNextFire(b.expr, at)]

\* update of a cron job's expression: the next fire moves unless paused.
UpdateExpression(b, e, at) ==
  [b EXCEPT !.expr = e,
            !.next = IF "paused" \in b.flags THEN @ ELSE ComputeNextFire(e, at)]

(***************************************************************************)
(* The table (store.rs)                                                    *)
(***************************************************************************)
Snapshot(j) == [job |-> job[j], claim |-> claim[j]]

\* JobSnapshot::matches: the same JSON and the same claim key.
Matches(j, seen) == j \in stored /\ job[j] = seen.job /\ claim[j] = seen.claim

\* Mutant: a claim is taken over although its lease still runs.
AvailableAlways(j) == TRUE

\* Mutant: an abandoned claim is never taken over.
AvailableUnclaimed(j) == claim[j] = 0

\* available: no claim, or a lease the clock has passed.
Available(j) == claim[j] = 0 \/ j \in leaseOver

Record(d, status) == [occ |-> d.occ, attempt |-> d.attempt, status |-> status]

AppendHistory(j, r) == history' = [history EXCEPT ![j] = Append(@, r)]

(***************************************************************************)
(* Slots and edits at rest                                                 *)
(***************************************************************************)
Idle == [phase |-> "idle"]

Owning     == {"claimed", "sink", "sunk", "finishing"}  \* phases with a claim key
Active(s)  == slot[s].phase # "idle"
NoEdit     == [op |-> "none"]
Retire(s)  == slot' = [slot EXCEPT ![s] = Idle]

\* The slots that still act on a claim key.
Owners(j) == {s \in Slots : /\ slot[s].phase \in Owning
                            /\ slot[s].id = j /\ slot[s].key = claim[j]}

\* The delivery slots of one process never hold two deliveries of one job
\* or of one session (admission_query, run_loop).
Admissible(s, j) ==
  \A t \in Slots : (Process[t] = Process[s] /\ Active(t)) =>
                      slot[t].id # j /\ Session[slot[t].id] # Session[j]

Init ==
  /\ now = 0 /\ leaseOver = {} /\ retryOver = {}
  /\ stored = {} /\ used = {} /\ keys = 0
  /\ job = [j \in Jobs |-> [expr    |-> CHOOSE e \in Expressions : TRUE,
                            prompt  |-> CHOOSE p \in Prompts : TRUE,
                            policy  |-> CHOOSE p \in Policies : TRUE,
                            limit   |-> CHOOSE n \in AttemptLimits : TRUE,
                            age     |-> CHOOSE n \in Ages : TRUE,
                            next    |-> 0, pending |-> NoDelivery,
                            retry   |-> "none", flags |-> {}]]
  /\ claim = [j \in Jobs |-> 0]
  /\ slot = [s \in Slots |-> Idle]
  /\ edit = NoEdit
  /\ deliveries = {} /\ consumed = {}
  /\ history = [j \in Jobs |-> <<>>]
  /\ losses = 0 /\ edits = 0 /\ setBacks = 0

(***************************************************************************)
(* The clock                                                               *)
(***************************************************************************)
Tick ==
  /\ now < MaxTime
  /\ now' = now + 1
  /\ UNCHANGED <<leaseOver, retryOver, tableVars, slot, edit, sinkVars, budgets>>

RetryElapses(j) ==
  /\ j \in stored /\ job[j].retry = "armed" /\ j \notin retryOver
  /\ retryOver' = retryOver \cup {j}
  /\ UNCHANGED <<now, leaseOver, tableVars, slot, edit, sinkVars, budgets>>

\* Nobody renews an abandoned claim: its lease runs out.
LeaseElapses(j) ==
  /\ j \in stored /\ claim[j] # 0 /\ j \notin leaseOver
  /\ Owners(j) = {}
  /\ leaseOver' = leaseOver \cup {j}
  /\ UNCHANGED <<now, retryOver, tableVars, slot, edit, sinkVars, budgets>>

\* A live owner renews every 30 seconds: its lease runs out only when its
\* process stalls or the clock jumps ahead.
Stall(j) ==
  /\ j \in stored /\ claim[j] # 0 /\ j \notin leaseOver
  /\ Owners(j) # {} /\ losses < MaxLosses
  /\ losses' = losses + 1
  /\ leaseOver' = leaseOver \cup {j}
  /\ UNCHANGED <<now, retryOver, tableVars, slot, edit, sinkVars, edits, setBacks>>

SetBack ==
  /\ setBacks < MaxSetBacks /\ now > 0
  /\ now' \in 0..(now - 1)
  /\ leaseOver' \in SUBSET leaseOver
  /\ retryOver' \in SUBSET retryOver
  /\ setBacks' = setBacks + 1
  /\ UNCHANGED <<tableVars, slot, edit, sinkVars, losses, edits>>

(***************************************************************************)
(* Creation and edits (scheduler.rs, scheduler/owned.rs)                   *)
(***************************************************************************)
Add(j) ==
  /\ j \notin used
  /\ \E e \in Expressions, p \in Prompts, m \in Policies, n \in AttemptLimits,
        a \in Ages, at \in 1..MaxTime :
        LET next == IF j \in OnceJobs THEN at ELSE ComputeNextFire(e, now)
        IN  /\ j \notin OnceJobs => next # 0 /\ at = 1
            /\ job' = [job EXCEPT ![j] =
                         [expr |-> e, prompt |-> p, policy |-> m, limit |-> n,
                          age |-> a, next |-> next, pending |-> NoDelivery,
                          retry |-> "none", flags |-> {}]]
  /\ stored' = stored \cup {j} /\ used' = used \cup {j}
  /\ UNCHANGED <<clockVars, claim, keys, history, slot, edit, sinkVars, budgets>>

\* The job an edit will write, computed from the snapshot it has just read.
\* No value means the call returns without writing: an edit that changes
\* nothing, a once job's schedule, an expression that never fires again.
Edited(j) ==
  LET b == job[j]
  IN  {[op |-> "pause", job |-> [b EXCEPT !.flags = @ \cup {"paused"}]] :
          x \in IF b.flags = {} THEN {1} ELSE {}}
      \cup {[op |-> "resume", job |-> Resume(j, b, claim[j], now)] :
          x \in IF /\ b.flags = {"paused"}
                   /\ \/ claim[j] # 0 \/ j \in OnceJobs
                      \/ ComputeNextFire(b.expr, now) # 0
                THEN {1} ELSE {}}
      \cup {[op |-> "update", job |-> [b EXCEPT !.prompt = p]] :
          p \in Prompts \ {b.prompt}}
      \cup {[op |-> "update", job |-> UpdateExpression(b, e, now)] :
          e \in IF j \in OnceJobs THEN {}
                ELSE {x \in Expressions \ {b.expr} : ComputeNextFire(x, now) # 0}}
      \cup {[op |-> "update",
             job |-> [b EXCEPT !.policy = u[1], !.limit = u[2], !.age = u[3]]] :
          u \in IF j \in OnceJobs THEN {}
                ELSE (Policies \X AttemptLimits \X Ages)
                       \ {<<b.policy, b.limit, b.age>>}}
      \cup {[op |-> "remove", job |-> b]}

EditRead(j) ==
  /\ edit = NoEdit /\ edits < MaxEdits /\ j \in stored
  /\ \E x \in Edited(j) :
        edit' = [op |-> x.op, id |-> j, seen |-> Snapshot(j), job |-> x.job]
  /\ edits' = edits + 1
  /\ UNCHANGED <<clockVars, tableVars, slot, sinkVars, losses, setBacks>>

\* persist_edit and remove_checked: a stale snapshot is a Conflict.
EditWrite ==
  /\ edit # NoEdit
  /\ edit' = NoEdit
  /\ LET j == edit.id
     IN  IF ~Matches(j, edit.seen) THEN UNCHANGED <<stored, job, claim, leaseOver, retryOver>>
         ELSE IF edit.op = "remove"
         THEN /\ stored' = stored \ {j}
              /\ claim' = [claim EXCEPT ![j] = 0]
              /\ leaseOver' = leaseOver \ {j} /\ retryOver' = retryOver \ {j}
              /\ UNCHANGED job
         ELSE /\ job' = [job EXCEPT ![j] = edit.job]
              /\ retryOver' = IF edit.job.retry = "none" THEN retryOver \ {j} ELSE retryOver
              /\ UNCHANGED <<stored, claim, leaseOver>>
  /\ UNCHANGED <<now, used, keys, history, slot, sinkVars, budgets>>

(***************************************************************************)
(* Delivery (scheduler/worker.rs)                                          *)
(***************************************************************************)
\* run_loop and the head of claim_candidate: the due query selects an
\* unclaimed due job or an abandoned claim, and the slot works on that copy.
Admit(s, j) ==
  /\ ~Active(s) /\ j \in stored /\ Admissible(s, j)
  /\ job[j].flags = {} /\ Available(j)
  /\ claim[j] = 0 => Due(j)
  /\ LET c == ClaimDueDelivery(j)
     IN  slot' = [slot EXCEPT ![s] =
                    [phase |-> IF c.kind = "deliver" THEN "claiming" ELSE "skipping",
                     id |-> j, seen |-> Snapshot(j), job |-> c.job]]
  /\ UNCHANGED <<clockVars, tableVars, edit, sinkVars, budgets>>

\* store.claim: compare-and-swap, and the lease must still be free.
Claim(s) ==
  /\ slot[s].phase = "claiming"
  /\ LET j == slot[s].id
     IN  IF Matches(j, slot[s].seen) /\ Available(j)
         THEN /\ keys' = keys + 1
              /\ job' = [job EXCEPT ![j] = slot[s].job]
              /\ claim' = [claim EXCEPT ![j] = keys + 1]
              /\ leaseOver' = leaseOver \ {j} /\ retryOver' = retryOver \ {j}
              /\ slot' = [slot EXCEPT ![s] =
                            [phase |-> "claimed", id |-> j, job |-> slot[s].job,
                             key |-> keys + 1]]
         ELSE Retire(s) /\ UNCHANGED <<keys, job, claim, leaseOver, retryOver>>
  /\ UNCHANGED <<now, stored, used, history, edit, sinkVars, budgets>>

\* ClaimDueDelivery::StateUpdated: a skipped misfire and its record.
SkipMisfire(s) ==
  /\ slot[s].phase = "skipping"
  /\ Retire(s)
  /\ LET j == slot[s].id
     IN  IF Matches(j, slot[s].seen)
         THEN /\ job' = [job EXCEPT ![j] = slot[s].job]
              /\ AppendHistory(j, [occ |-> slot[s].seen.job.next, attempt |-> 0,
                                   status |-> "skipped"])
         ELSE UNCHANGED <<job, history>>
  /\ UNCHANGED <<clockVars, stored, used, claim, keys, edit, sinkVars, budgets>>

\* deliver_with_lease renews once before the sink is called.
HoldsLease(s) ==
  LET j == slot[s].id IN j \in stored /\ claim[j] = slot[s].key /\ j \notin leaseOver

StartSink(s) ==
  /\ slot[s].phase = "claimed"
  /\ slot' = [slot EXCEPT ![s] =
                IF HoldsLease(s)
                THEN [phase |-> "sink", id |-> @.id, job |-> @.job, key |-> @.key]
                ELSE Idle]
  /\ UNCHANGED <<clockVars, tableVars, edit, sinkVars, budgets>>

\* Mutant: every attempt has a key of its own.
DeliveryKeyPerAttempt(j, d) == <<j, d.occ, d.attempt>>

\* The business key of an occurrence (claim_due_delivery, deliver_scheduled_job).
DeliveryKey(j, d) == <<j, d.occ>>

\* SessionSink::deliver and deliver_scheduled_job with publish_delivery: a
\* blocked session skips, a repeated key with the same payload answers from
\* the existing row, a changed payload is a conflict.
Sink(s) ==
  /\ slot[s].phase = "sink"
  /\ LET j    == slot[s].id
         key  == DeliveryKey(j, slot[s].job.pending)
         row  == [key |-> key, job |-> j, occ |-> slot[s].job.pending.occ,
                  prompt |-> slot[s].job.prompt]
         same == {r \in deliveries : r.key = key}
         Answer(result) ==
           slot' = [slot EXCEPT ![s] =
                      [phase |-> "sunk", id |-> j, job |-> @.job, key |-> @.key,
                       result |-> result, at |-> now, tries |-> 0]]
     IN  \/ Answer("skipped") /\ UNCHANGED deliveries      \* session blocked
         \/ Answer("failed") /\ UNCHANGED deliveries       \* session unreadable
         \/ /\ same = {}
            /\ deliveries' = deliveries \cup {row}
            /\ Answer("submitted")
         \/ /\ row \in same
            /\ Answer(IF key \in consumed THEN "skipped" ELSE "submitted")
            /\ UNCHANGED deliveries
         \/ /\ same # {} /\ row \notin same
            /\ Answer("failed")
            /\ UNCHANGED deliveries
  /\ UNCHANGED <<clockVars, tableVars, edit, consumed, budgets>>

\* The session's provider boundary consumes a pending delivery.
Consume ==
  /\ \E r \in deliveries : r.key \notin consumed /\ consumed' = consumed \cup {r.key}
  /\ UNCHANGED <<clockVars, tableVars, slot, edit, deliveries, budgets>>

\* persist_completed_delivery: read the row as it is now.  A removed job
\* ends the slot, another owner's key is a Conflict.
ReadCompleted(s) ==
  /\ slot[s].phase = "sunk"
  /\ LET j == slot[s].id
     IN  slot' = [slot EXCEPT ![s] =
                    IF j \in stored /\ claim[j] = slot[s].key /\ slot[s].tries < MaxTries
                    THEN [phase |-> "finishing", id |-> j, job |-> @.job, key |-> @.key,
                          result |-> @.result, at |-> @.at, tries |-> @.tries + 1,
                          seen |-> Snapshot(j)]
                    ELSE Idle]
  /\ UNCHANGED <<clockVars, tableVars, edit, sinkVars, budgets>>

\* store.finish: compare-and-swap under an unexpired lease, with the audit
\* record in the same transaction; a lost race reads again.
Finish(s) ==
  /\ slot[s].phase = "finishing"
  /\ LET j == slot[s].id
         b == slot[s].seen.job
         d == slot[s].job.pending
     IN  IF b.pending # d
         THEN Retire(s) /\ UNCHANGED <<job, claim, leaseOver, retryOver, history>>
         ELSE IF Matches(j, slot[s].seen) /\ claim[j] = slot[s].key /\ j \notin leaseOver
         THEN /\ job' = [job EXCEPT ![j] = FinishDelivery(j, b, d.attempt, slot[s].result, slot[s].at)]
              /\ claim' = [claim EXCEPT ![j] = 0]
              /\ leaseOver' = leaseOver \ {j} /\ retryOver' = retryOver \ {j}
              /\ AppendHistory(j, Record(d, slot[s].result))
              /\ Retire(s)
         ELSE /\ slot' = [slot EXCEPT ![s] =
                            [phase |-> "sunk", id |-> j, job |-> @.job, key |-> @.key,
                             result |-> @.result, at |-> @.at, tries |-> @.tries]]
              /\ UNCHANGED <<job, claim, leaseOver, retryOver, history>>
  /\ UNCHANGED <<now, stored, used, keys, edit, sinkVars, budgets>>

\* A renewal that is refused, fails or times out drops the slot's work.
LoseRenewal(s) ==
  /\ slot[s].phase \in {"sink", "sunk", "finishing"}
  /\ \/ ~HoldsLease(s) /\ UNCHANGED losses
     \/ HoldsLease(s) /\ losses < MaxLosses /\ losses' = losses + 1
  /\ Retire(s)
  /\ UNCHANGED <<clockVars, tableVars, edit, sinkVars, edits, setBacks>>

\* A process dies (or drops its scheduler): all of its slots vanish.
Crash(s) ==
  /\ Active(s) /\ losses < MaxLosses
  /\ losses' = losses + 1
  /\ slot' = [t \in Slots |-> IF Process[t] = Process[s] THEN Idle ELSE slot[t]]
  /\ UNCHANGED <<clockVars, tableVars, edit, sinkVars, edits, setBacks>>

Step(s) == \/ Claim(s) \/ SkipMisfire(s) \/ StartSink(s) \/ Sink(s)
           \/ ReadCompleted(s) \/ Finish(s)

Next ==
  \/ Tick \/ SetBack \/ EditWrite \/ Consume
  \/ \E j \in Jobs : Add(j) \/ EditRead(j) \/ RetryElapses(j) \/ LeaseElapses(j)
                   \/ Stall(j)
  \/ \E s \in Slots : Step(s) \/ LoseRenewal(s) \/ Crash(s)
  \/ \E s \in Slots, j \in Jobs : Admit(s, j)

Spec == Init /\ [][Next]_vars

(***************************************************************************)
(* Fairness.  The run loop polls its store at least every minute and takes *)
(* the oldest deadline first, so a due job is admitted while a slot is     *)
(* free; a delivery task runs until it answers; time passes.  Crashes,     *)
(* lost renewals, edits and corrections of the clock are never required.   *)
(***************************************************************************)
Fairness ==
  /\ WF_vars(Tick) /\ WF_vars(EditWrite)
  /\ \A j \in Jobs : /\ WF_vars(RetryElapses(j)) /\ WF_vars(LeaseElapses(j))
                     /\ WF_vars(\E s \in Slots : Admit(s, j))
  /\ \A s \in Slots : WF_vars(Step(s))

FairSpec == Spec /\ Fairness

(***************************************************************************)
(* Properties                                                              *)
(***************************************************************************)
\* Every variable has its type.
TypeOK ==
  /\ now \in 0..MaxTime
  /\ leaseOver \subseteq Jobs /\ retryOver \subseteq Jobs
  /\ stored \subseteq used /\ used \subseteq Jobs
  /\ job \in [Jobs -> JobType] /\ claim \in [Jobs -> 0..keys] /\ keys \in Nat
  /\ \A s \in Slots : slot[s].phase \in {"idle", "claiming", "skipping", "claimed",
                                          "sink", "sunk", "finishing"}
  /\ edit.op \in {"none", "pause", "resume", "update", "remove"}
  /\ \A r \in deliveries : r.job \in Jobs /\ r.prompt \in Prompts
  /\ consumed \subseteq {r.key : r \in deliveries}
  /\ \A j \in Jobs : \A i \in DOMAIN history[j] : history[j][i] \in Records

\* A row whose claim, pending delivery, retry time and next fire agree.
RowOK(b, c) ==
  /\ c # 0 => b.pending # NoDelivery /\ b.retry = "none"
  /\ c = 0 /\ b.pending # NoDelivery => b.retry = "armed"
  /\ b.pending = NoDelivery => b.retry = "none"
  /\ "completed" \notin b.flags => b.next # 0
  /\ "completed" \in b.flags => b.pending = NoDelivery

\* No job is stranded: whatever interleaving of claims, crashes, lost leases,
\* completions and concurrent pause, resume and update calls led here, the
\* claim column, pending_delivery, retry_at and next_fire_at of every row
\* agree, so an unpaused job that is not completed always has a deadline the
\* due query finds (a lease to expire, a retry or a fire).
NeverStranded == \A j \in stored : RowOK(job[j], claim[j])

\* One occurrence reaches its session as at most one delivery, although it is
\* delivered at least once: retries, a recovered claim, two slots that overlap
\* after a lost lease, a resumed once job and a clock set back all present the
\* same delivery key.
OccurrenceDeliveredOnce ==
  \A r, q \in deliveries : r.job = q.job /\ r.occ = q.occ => r = q

\* A stale owner never overwrites an outcome: once a one-shot job has a record
\* other than a failure, no record follows it, whatever slots still hold an
\* older claim or snapshot.
SettledOnce ==
  \A j \in OnceJobs : \A i \in DOMAIN history[j] :
     history[j][i].status # "failed" => i = Len(history[j])

\* Unless the clock is set back, the audit history of a job moves forward: an
\* occurrence is never recorded after a later one, nor again once it was
\* submitted or skipped.
HistoryAdvances ==
  setBacks = 0 => \A j \in Jobs : \A i, k \in DOMAIN history[j] :
     i < k => \/ history[j][i].occ < history[j][k].occ
              \/ /\ history[j][i].occ = history[j][k].occ
                 /\ history[j][i].status = "failed"

\* Without a crash, a stall or a failed renewal at most one slot delivers a
\* job at a time, over all processes, under concurrent edits and whatever the
\* clock is set back to.
OneDeliveryAtATime ==
  losses = 0 =>
     \A s, t \in Slots :
        /\ s # t
        /\ slot[s].phase \in Owning
        /\ slot[t].phase \in Owning
        => slot[s].id # slot[t].id \/ slot[s].id \notin stored

\* An interrupted fire is recovered: a job that is neither paused nor removed
\* gets every delivery recorded until it completes, through crashes, lost
\* leases, failures and concurrent edits.
Settles ==
  \A j \in Jobs : (j \in stored /\ job[j].flags = {})
                    ~> (j \notin stored \/ job[j].flags # {})
=============================================================================
