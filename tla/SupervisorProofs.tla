-------------------------- MODULE SupervisorProofs --------------------------
(***************************************************************************)
(* RunningOwned, RegistryExact, StopRetains, CancelsWhatItSaw and TypeOK   *)
(* hold for any number of clients, executions, generations, permits and    *)
(* faults.  The invariant says who is inside the submission lock, what an  *)
(* operation there may still rely on, and which run has the execution      *)
(* lock; for the registry also that a ranking orders the runs along the    *)
(* dispatch chain, so that the registered run of an execution is the last  *)
(* of its runs; for the permits that an operation about to start a run     *)
(* holds one.                                                              *)
(***************************************************************************)
EXTENDS Supervisor, FiniteSetTheorems, TLAPS

RunsTyped ==
  /\ phase \in [Executions -> {"none", "queued", "running", "ended", "cancelled"}]
  /\ gen \in [Executions -> Nat] /\ sent \in Nat /\ latest \in 0..MaxExecutions
  /\ paused \in {"no", "yes"}
  /\ DOMAIN run = Slots /\ active \in [Executions -> 0..Capacity] /\ tail \in 0..Capacity
  /\ driver \in 0..Capacity

\* A run in a slot works on an execution.
RunOK(i, r, d) ==
  /\ r.state # "none" => r.exec \in Executions
  /\ r.state \in {"locked", "driving", "exiting", "queuePaused"} <=> d = i

RunsOK == \A i \in Slots : RunOK(i, run[i], driver)

Inside == {"settlement", "restore", "register", "commit", "supervise", "set", "signal",
           "cancel", "empty", "unpause", "fence"}

\* What an operation that has come this far may rely on.
OpOK(a, o, h, ph, gn) ==
  /\ a # "watch" => /\ o.pc \in Inside => h = a
                    /\ o.pc \in {"signal", "cancel"} => o.kind = "stop"
                    /\ o.pc \notin {"watching", "settling"}
                    /\ o.pc = "cancel" => gn[o.exec] = o.gen
  /\ a = "watch" => /\ o.pc \in {"idle", "watching", "signal", "cancel", "settling"}
                    /\ Agent = "no" => o.pc = "idle"
                    /\ o.pc # "idle" => o.kind = "watch"
  /\ o.pc = "unpause" => \A e \in Executions : ph[e] # "queued"
  /\ o.pc = "lock" => o.kind \in Kinds
  /\ o.pc = "set" => o.kind \in {"pause", "resume", "stop"}
  /\ o.pc = "lock" /\ o.kind \in {"stop", "attempt"} => o.exec \in Executions
  /\ o.pc = "set" /\ o.kind = "stop" => o.exec \in Executions
  /\ o.pc = "commit" => o.exec \in 0..MaxExecutions
  /\ o.pc \in {"supervise", "signal", "cancel", "fence", "watching"} => o.exec \in Executions
  /\ a \notin Callers => o.pc # "lock"

OpsOK == DOMAIN op = Actors /\ \A a \in Actors : OpOK(a, op[a], holder, phase, gen)

IInv == RunsTyped /\ RunsOK /\ OpsOK /\ RunningOwned

(***************************************************************************)
(* The operations                                                          *)
(***************************************************************************)
\* An operation moves on inside the lock; nothing the others rely on changes.
LEMMA OpMoves ==
  ASSUME OpsOK, NEW a \in Actors, NEW o, op' = [op EXCEPT ![a] = o],
         OpOK(a, o, holder', phase', gen'),
         \A b \in Actors : b # a => OpOK(b, op[b], holder', phase', gen')
  PROVE  OpsOK'
<1>1. DOMAIN op' = Actors /\ \A b \in Actors : op'[b] = IF b = a THEN o ELSE op[b]
  BY DEF OpsOK
<1> QED BY <1>1 DEF OpsOK

LEMMA OpsKept ==
  ASSUME OpsOK, UNCHANGED <<op, holder, phase, gen>>
  PROVE  OpsOK'
BY DEF OpsOK

\* A phase that changes without anything becoming queued disturbs nobody.
LEMMA OthersKeep ==
  ASSUME OpsOK, NEW a \in Actors, UNCHANGED <<holder, gen>>,
         \A e \in Executions : phase'[e] = "queued" => phase[e] = "queued"
  PROVE  \A b \in Actors : OpOK(b, op[b], holder', phase', gen')
<1> SUFFICES ASSUME NEW b \in Actors PROVE OpOK(b, op[b], holder', phase', gen')
  OBVIOUS
<1>1. OpOK(b, op[b], holder, phase, gen)
  BY DEF OpsOK
<1> QED BY <1>1 DEF OpOK

\* Who leaves the lock is not missed by the others.
LEMMA OthersLeft ==
  ASSUME OpsOK, NEW a \in Actors, Done(a), UNCHANGED gen,
         \A e \in Executions : phase'[e] = "queued" => phase[e] = "queued"
  PROVE  OpsOK'
<1>1. op' = [op EXCEPT ![a] = NoOp] /\ holder' = (IF holder = a THEN "none" ELSE holder)
  BY DEF Done
<1>2. OpOK(a, NoOp, holder', phase', gen')
  BY DEF OpOK, NoOp, Inside
<1>3. ASSUME NEW b \in Actors, b # a PROVE OpOK(b, op[b], holder', phase', gen')
  <2>1. OpOK(b, op[b], holder, phase, gen)
    BY DEF OpsOK
  <2>2. b # "watch" /\ op[b].pc \in Inside => holder' = b
    BY <1>1, <1>3, <2>1 DEF OpOK
  <2> QED BY <2>1, <2>2 DEF OpOK
<1> QED BY <1>1, <1>2, <1>3, OpMoves

(***************************************************************************)
(* The runs                                                                *)
(***************************************************************************)
\* Nobody's ownership changes while no attempt starts to run.
LEMMA RunsSame ==
  ASSUME RunsOK, RunningOwned, UNCHANGED <<run, driver>>,
         \A e \in Executions : phase'[e] = "running" => phase[e] = "running" /\ gen'[e] = gen[e]
  PROVE  RunsOK' /\ RunningOwned'
<1>1. RunsOK'
  BY DEF RunsOK
<1>2. RunningOwned'
  BY DEF RunningOwned
<1> QED BY <1>1, <1>2

\* A run that is registered takes a free slot, which the driver does not have.
LEMMA RunsSupervised ==
  ASSUME RunsTyped, RunsOK, RunningOwned, NEW e \in Executions, NEW g, Supervise(e, g),
         UNCHANGED <<phase, gen, driver>>
  PROVE  /\ RunsOK' /\ RunningOwned'
         /\ DOMAIN run' = Slots /\ active' \in [Executions -> 0..Capacity] /\ tail' \in 0..Capacity
<1>1. CASE Registered(e, g)
  <2>1. UNCHANGED <<run, active, tail>>
    BY <1>1 DEF Supervise
  <2>2. RunsOK' /\ RunningOwned'
    BY <2>1, RunsSame
  <2> QED BY <2>1, <2>2 DEF RunsTyped
<1>2. CASE ~Registered(e, g)
  <2>1. PICK i \in Slots :
           /\ ~Busy(i)
           /\ run' = [run EXCEPT ![i] = [state |-> "waiting", exec |-> e, gen |-> g,
                                          pred |-> tail, cancel |-> "no"]]
           /\ active' = [active EXCEPT ![e] = i] /\ tail' = i
    BY <1>2 DEF Supervise
  <2>2. DOMAIN run' = Slots /\ \A j \in Slots : j # i => run'[j] = run[j]
    BY <2>1 DEF RunsTyped
  <2>3. run'[i].state = "waiting" /\ run'[i].exec = e
    BY <2>1 DEF RunsTyped
  <2>4. driver # i
    BY <2>1 DEF RunsOK, RunOK, Busy
  <2>5. RunsOK'
    <3> SUFFICES ASSUME NEW j \in Slots PROVE RunOK(j, run'[j], driver')
      BY DEF RunsOK
    <3>1. CASE j = i
      BY <3>1, <2>3, <2>4 DEF RunOK
    <3>2. CASE j # i
      BY <3>2, <2>2 DEF RunsOK
    <3> QED BY <3>1, <3>2
  <2>6. RunningOwned'
    <3> SUFFICES ASSUME NEW f \in Executions, phase'[f] = "running"
                 PROVE  /\ driver' # 0 /\ run'[driver'].state = "driving"
                        /\ run'[driver'].exec = f /\ run'[driver'].gen = gen'[f]
      BY DEF RunningOwned
    <3>1. /\ driver # 0 /\ run[driver].state = "driving"
          /\ run[driver].exec = f /\ run[driver].gen = gen[f]
      BY DEF RunningOwned
    <3>2. driver \in Slots
      BY <3>1, SupervisorAssumption DEF RunsTyped, Slots
    <3> QED BY <3>1, <3>2, <2>2, <2>4
  <2>7. i \in 0..Capacity
    BY SupervisorAssumption DEF Slots
  <2>8. active' \in [Executions -> 0..Capacity] /\ tail' \in 0..Capacity
    BY <2>1, <2>7 DEF RunsTyped
  <2> QED BY <2>2, <2>5, <2>6, <2>8
<1> QED BY <1>1, <1>2

\* A signal leaves a run where it is.
LEMMA RunsSignalled ==
  ASSUME RunsTyped, RunsOK, RunningOwned, NEW j \in Slots, run' = Signalled(j),
         UNCHANGED <<gen, driver>>,
         \A e \in Executions : phase'[e] = "running" => phase[e] = "running"
  PROVE  RunsOK' /\ RunningOwned' /\ DOMAIN run' = Slots
<1>1. /\ DOMAIN run' = Slots
      /\ \A k \in Slots : run'[k].state = run[k].state /\ run'[k].exec = run[k].exec
                            /\ run'[k].gen = run[k].gen
  BY DEF RunsTyped, Signalled
<1>2. RunsOK'
  BY <1>1 DEF RunsOK, RunOK
<1>3. RunningOwned'
  <2> SUFFICES ASSUME NEW f \in Executions, phase'[f] = "running"
               PROVE  /\ driver' # 0 /\ run'[driver'].state = "driving"
                      /\ run'[driver'].exec = f /\ run'[driver'].gen = gen'[f]
    BY DEF RunningOwned
  <2>1. /\ driver # 0 /\ run[driver].state = "driving"
        /\ run[driver].exec = f /\ run[driver].gen = gen[f]
    BY DEF RunningOwned
  <2>2. driver \in Slots
    BY <2>1, SupervisorAssumption DEF RunsTyped, Slots
  <2> QED BY <2>1, <2>2, <1>1
<1> QED BY <1>1, <1>2, <1>3

\* The holder of the execution lock moves on.
LEMMA RunsMoved ==
  ASSUME RunsTyped, RunsOK, NEW i \in Slots, run[i].state # "none",
         NEW s \in {"locked", "driving", "exiting", "queuePaused"},
         run' = Moved(i, s), driver' = i, driver \in {0, i}
  PROVE  /\ RunsOK' /\ DOMAIN run' = Slots
         /\ run'[i].state = s /\ run'[i].exec = run[i].exec /\ run'[i].gen = run[i].gen
<1>1. /\ DOMAIN run' = Slots
      /\ \A k \in Slots : k # i => run'[k] = run[k]
      /\ run'[i].state = s /\ run'[i].exec = run[i].exec /\ run'[i].gen = run[i].gen
  BY DEF RunsTyped, Moved
<1>2. RunsOK'
  <2> SUFFICES ASSUME NEW j \in Slots PROVE RunOK(j, run'[j], driver')
    BY DEF RunsOK
  <2>1. RunOK(j, run[j], driver) /\ RunOK(i, run[i], driver)
    BY DEF RunsOK
  <2>2. CASE j = i
    BY <2>1, <2>2, <1>1 DEF RunOK
  <2>3. CASE j # i
    <3>1. driver # j
      BY <2>3, SupervisorAssumption DEF Slots
    <3> QED BY <2>1, <2>3, <3>1, <1>1 DEF RunOK
  <2> QED BY <2>2, <2>3
<1> QED BY <1>1, <1>2

\* Only the driver is affected when its own attempt stops running.
LEMMA NobodyRuns ==
  ASSUME RunsTyped, RunsOK, RunningOwned, NEW i \in Slots, driver = i,
         NEW e \in Executions, phase[e] = "running"
  PROVE  run[i].state = "driving" /\ run[i].exec = e /\ Owns(i)
BY DEF RunningOwned, Owns

LEMMA StepStart ==
  ASSUME IInv, NEW i \in Slots, Start(i)
  PROVE  IInv'
<1>1. /\ run[i].state = "waiting" /\ driver = 0 /\ driver' = i /\ run' = Moved(i, "locked")
      /\ UNCHANGED <<phase, gen, sent, latest, paused, active, tail, holder, op>>
  BY DEF Start, durable
<1>2. RunsOK' /\ DOMAIN run' = Slots
  BY <1>1, RunsMoved DEF IInv
<1>3. \A e \in Executions : phase'[e] # "running"
  BY <1>1 DEF IInv, RunningOwned
<1>4. RunningOwned'
  BY <1>3 DEF RunningOwned
<1>5. i \in 0..Capacity
  BY SupervisorAssumption DEF Slots
<1>6. RunsTyped'
  BY <1>1, <1>2, <1>5 DEF IInv, RunsTyped
<1>7. OpsOK'
  BY <1>1, OpsKept DEF IInv
<1> QED BY <1>2, <1>4, <1>6, <1>7 DEF IInv

LEMMA StepClaim ==
  ASSUME IInv, NEW i \in Slots, Claim(i)
  PROVE  IInv'
<1>1. /\ run[i].state = "locked" /\ run' = Moved(i, "driving")
      /\ UNCHANGED <<gen, sent, latest, paused, active, tail, driver, holder, op>>
      /\ phase' = [phase EXCEPT ![run[i].exec] = "running"]
  BY DEF Claim
<1>2. gen[run[i].exec] = run[i].gen /\ \A f \in Executions : phase[f] # "running"
  BY DEF Claim, Claimable, Blocked
<1>3. driver = i /\ run[i].exec \in Executions
  BY <1>1 DEF IInv, RunsOK, RunOK
<1>4. /\ RunsOK' /\ DOMAIN run' = Slots
      /\ run'[i].state = "driving" /\ run'[i].exec = run[i].exec /\ run'[i].gen = run[i].gen
  BY <1>1, <1>3, RunsMoved DEF IInv
<1>5. RunsTyped'
  BY <1>1, <1>3, <1>4 DEF IInv, RunsTyped
<1>6. \A f \in Executions : phase'[f] = IF f = run[i].exec THEN "running" ELSE phase[f]
  BY <1>1 DEF IInv, RunsTyped
<1>7. driver' # 0
  BY <1>1, <1>3, SupervisorAssumption DEF Slots
<1>8. RunningOwned'
  BY <1>1, <1>2, <1>3, <1>4, <1>6, <1>7 DEF RunningOwned
<1>9. \A f \in Executions : phase'[f] = "queued" => phase[f] = "queued"
  BY <1>6
<1>10. OpsOK'
  <2>1. \A b \in Actors : OpOK(b, op[b], holder', phase', gen')
    BY <1>1, <1>9, OthersKeep DEF IInv, Actors
  <2> QED BY <1>1, <2>1 DEF IInv, OpsOK
<1> QED BY <1>4, <1>5, <1>8, <1>10 DEF IInv

LEMMA StepRefused ==
  ASSUME IInv, NEW i \in Slots, Refused(i)
  PROVE  IInv'
<1>1. PICK s \in {"queuePaused", "exiting"} : run' = Moved(i, s)
  BY DEF Refused
<1>2. /\ run[i].state = "locked"
      /\ UNCHANGED <<phase, gen, sent, latest, paused, active, tail, driver, holder, op>>
  BY DEF Refused, durable
<1>3. driver = i
  BY <1>2 DEF IInv, RunsOK, RunOK
<1>4. RunsOK' /\ DOMAIN run' = Slots
  BY <1>1, <1>2, <1>3, RunsMoved DEF IInv
<1>5. \A e \in Executions : phase[e] # "running"
  BY <1>2, <1>3, NobodyRuns DEF IInv
<1>6. RunningOwned'
  BY <1>2, <1>5 DEF RunningOwned
<1>7. RunsTyped'
  BY <1>2, <1>4 DEF IInv, RunsTyped
<1>8. OpsOK'
  BY <1>2, OpsKept DEF IInv
<1> QED BY <1>4, <1>6, <1>7, <1>8 DEF IInv

LEMMA StepOutput ==
  ASSUME IInv, NEW i \in Slots, Output(i)
  PROVE  IInv'
<1>1. /\ run[i].state = "driving" /\ latest' = run[i].exec
      /\ UNCHANGED <<phase, gen, sent, paused, run, active, tail, driver, holder, op>>
  BY DEF Output
<1>2. run[i].exec \in 0..MaxExecutions
  BY <1>1 DEF IInv, RunsOK, RunOK, Executions
<1>3. RunsTyped'
  BY <1>1, <1>2 DEF IInv, RunsTyped
<1>4. RunsOK' /\ RunningOwned'
  BY <1>1, RunsSame DEF IInv
<1>5. OpsOK'
  BY <1>1, OpsKept DEF IInv
<1> QED BY <1>3, <1>4, <1>5 DEF IInv

\* The end of an attempt, by its driver or by the fence after a panic.
LEMMA AttemptEnds ==
  ASSUME IInv, NEW i \in Slots, run[i].state = "driving", run' = Moved(i, "exiting"),
         UNCHANGED <<gen, sent, latest, paused, active, tail, driver, holder, op>>,
         NEW p \in {"ended", "cancelled"},
         phase' \in {phase, [phase EXCEPT ![run[i].exec] = p]},
         Owns(i) => phase' = [phase EXCEPT ![run[i].exec] = p]
  PROVE  IInv'
<1>1. driver = i /\ run[i].exec \in Executions
  BY DEF IInv, RunsOK, RunOK
<1>2. RunsOK' /\ DOMAIN run' = Slots
  BY <1>1, RunsMoved DEF IInv
<1>3. phase' \in [Executions -> {"none", "queued", "running", "ended", "cancelled"}]
  BY <1>1 DEF IInv, RunsTyped
<1>4. RunsTyped'
  BY <1>2, <1>3 DEF IInv, RunsTyped
<1>5. \A e \in Executions : phase'[e] = phase[e] \/ phase'[e] = p
  BY <1>1 DEF IInv, RunsTyped
<1>6. ASSUME NEW e \in Executions, phase'[e] = "running" PROVE FALSE
  <2>1. phase[e] = "running"
    BY <1>5, <1>6
  <2>2. run[i].exec = e /\ Owns(i)
    BY <1>1, <2>1, NobodyRuns DEF IInv
  <2>3. phase'[e] = p
    BY <2>2 DEF IInv, RunsTyped
  <2> QED BY <1>6, <2>3
<1>7. RunningOwned'
  BY <1>6 DEF RunningOwned
<1>8. \A b \in Actors : OpOK(b, op[b], holder', phase', gen')
  BY <1>5, OthersKeep DEF IInv, Actors
<1>9. OpsOK'
  BY <1>8 DEF IInv, OpsOK
<1> QED BY <1>2, <1>4, <1>7, <1>9 DEF IInv

LEMMA StepFinish ==
  ASSUME IInv, NEW i \in Slots, Finish(i)
  PROVE  IInv'
<1>1. PICK p \in {"ended", "cancelled"} :
         phase' = IF Owns(i) THEN [phase EXCEPT ![run[i].exec] = p] ELSE phase
  BY DEF Finish
<1>2. /\ run[i].state = "driving" /\ run' = Moved(i, "exiting")
      /\ UNCHANGED <<gen, sent, latest, paused, active, tail, driver, holder, op>>
  BY DEF Finish
<1>3. phase' \in {phase, [phase EXCEPT ![run[i].exec] = p]}
  BY <1>1
<1>4. Owns(i) => phase' = [phase EXCEPT ![run[i].exec] = p]
  BY <1>1
<1> QED BY <1>2, <1>3, <1>4, AttemptEnds

LEMMA StepPanic ==
  ASSUME IInv, NEW i \in Slots, Panic(i)
  PROVE  IInv'
<1>1. /\ run[i].state = "driving" /\ run' = Moved(i, "exiting")
      /\ UNCHANGED <<gen, sent, latest, paused, active, tail, driver, holder, op>>
      /\ phase' = IF phase[run[i].exec] \in {"queued", "running"}
                  THEN [phase EXCEPT ![run[i].exec] = "cancelled"] ELSE phase
  BY DEF Panic, CancelCurrent
<1>2. phase' \in {phase, [phase EXCEPT ![run[i].exec] = "cancelled"]}
  BY <1>1
<1>3. Owns(i) => phase' = [phase EXCEPT ![run[i].exec] = "cancelled"]
  BY <1>1 DEF Owns
<1> QED BY <1>1, <1>2, <1>3, AttemptEnds

LEMMA StepRetire ==
  ASSUME IInv, NEW i \in Slots, Retire(i)
  PROVE  IInv'
<1>1. /\ run[i].state \in {"exiting", "queuePaused"} /\ driver' = 0
      /\ UNCHANGED <<phase, gen, sent, latest, paused, holder, op>>
      /\ active' = Deregistered(i) /\ tail' = (IF tail = i THEN 0 ELSE tail)
      /\ run' = [j \in Slots |-> IF j = i THEN NoRun
                                 ELSE IF run[j].pred = i THEN Unchained(j) ELSE run[j]]
  BY DEF Retire, durable
<1>2. driver = i
  BY <1>1 DEF IInv, RunsOK, RunOK
<1>3. \A e \in Executions : phase[e] # "running"
  BY <1>1, <1>2, NobodyRuns DEF IInv
<1>4. RunningOwned'
  BY <1>1, <1>3 DEF RunningOwned
<1>5. active' \in [Executions -> 0..Capacity] /\ tail' \in 0..Capacity /\ DOMAIN run' = Slots
  BY <1>1, SupervisorAssumption DEF IInv, RunsTyped, Deregistered
<1>6. 0 \in 0..Capacity
  BY SupervisorAssumption
<1>7. RunsTyped'
  BY <1>1, <1>5, <1>6 DEF IInv, RunsTyped
<1>8. RunsOK'
  <2> SUFFICES ASSUME NEW j \in Slots PROVE RunOK(j, run'[j], driver')
    BY DEF RunsOK
  <2>1. j # 0 /\ RunOK(j, run[j], driver)
    BY SupervisorAssumption DEF Slots, IInv, RunsOK
  <2>2. CASE j = i
    <3>1. run'[j].state = "none"
      BY <1>1, <2>2 DEF NoRun
    <3> QED BY <3>1, <1>1, <2>1 DEF RunOK
  <2>3. CASE j # i
    <3>1. run'[j].state = run[j].state /\ run'[j].exec = run[j].exec
      BY <1>1, <2>3 DEF Unchained
    <3> QED BY <3>1, <1>1, <1>2, <2>1, <2>3 DEF RunOK
  <2> QED BY <2>2, <2>3
<1>9. OpsOK'
  BY <1>1, OpsKept DEF IInv
<1> QED BY <1>4, <1>7, <1>8, <1>9 DEF IInv

(***************************************************************************)
(* The steps of the operations                                             *)
(***************************************************************************)
\* Nobody can be inside the lock with an actor who is.
LEMMA Exclusive ==
  ASSUME OpsOK, NEW a \in Actors \ {"watch"}, op[a].pc \in Inside,
         NEW b \in Actors \ {"watch"}, b # a
  PROVE  op[b].pc \notin Inside
BY DEF OpsOK, OpOK

\* What is left of the invariant when an operation only moves on.
LEMMA OpOnly ==
  ASSUME IInv, UNCHANGED <<phase, gen, sent, latest, run, active, tail, driver>>,
         paused' \in {"no", "yes"}, OpsOK'
  PROVE  IInv'
<1>1. RunsOK' /\ RunningOwned'
  BY RunsSame DEF IInv
<1>2. RunsTyped'
  BY DEF IInv, RunsTyped
<1> QED BY <1>1, <1>2 DEF IInv

\* An operation moves on and keeps the lock.
LEMMA OpGoes ==
  ASSUME IInv, UNCHANGED <<phase, gen, sent, latest, run, active, tail, driver, holder>>,
         paused' \in {"no", "yes"},
         NEW a \in Actors, NEW o, op' = [op EXCEPT ![a] = o], OpOK(a, o, holder, phase, gen)
  PROVE  IInv'
<1>1. \A b \in Actors : OpOK(b, op[b], holder', phase', gen')
  BY DEF IInv, OpsOK
<1>2. OpsOK'
  BY <1>1, OpMoves DEF IInv
<1> QED BY <1>2, OpOnly

\* An operation enters the free lock.
LEMMA OpEnters ==
  ASSUME IInv, UNCHANGED <<phase, gen, sent, latest, paused, run, active, tail, driver>>,
         holder = "none", NEW a \in Actors, holder' = a,
         NEW o, op' = [op EXCEPT ![a] = o], OpOK(a, o, a, phase, gen)
  PROVE  IInv'
<1>1. ASSUME NEW b \in Actors PROVE OpOK(b, op[b], holder', phase', gen')
  <2>1. OpOK(b, op[b], holder, phase, gen)
    BY DEF IInv, OpsOK
  <2>2. b # "none"
    BY SupervisorAssumption DEF Actors
  <2> QED BY <2>1, <2>2 DEF OpOK
<1>2. OpsOK'
  BY <1>1, OpMoves DEF IInv
<1>3. paused' \in {"no", "yes"}
  BY DEF IInv, RunsTyped
<1> QED BY <1>2, <1>3, OpOnly

LEMMA StepAsk ==
  ASSUME IInv, NEW c \in Callers, NEW k \in Kinds, NEW e \in 0..MaxExecutions, NEW g \in 0..MaxGen,
         Ask(c, k, e, g)
  PROVE  IInv'
<1>1. /\ op' = [op EXCEPT ![c] = Begun(k, "lock", e, g)]
      /\ k \in {"stop", "attempt"} => e \in 1..sent
  BY DEF Ask
<1>2. UNCHANGED <<phase, gen, sent, latest, paused, run, active, tail, driver, holder>>
  BY DEF Ask, durable
<1>3. k \in {"stop", "attempt"} => e \in Executions
  BY <1>1, SupervisorAssumption DEF Executions, IInv, RunsTyped
<1>4. PICK o : o = Begun(k, "lock", e, g)
  OBVIOUS
<1>5. o.pc = "lock" /\ o.kind = k /\ o.exec = e
  BY <1>4 DEF Begun
<1>6. c # "watch" /\ c \in Actors
  BY SupervisorAssumption DEF Actors
<1>7. OpOK(c, o, holder, phase, gen)
  BY <1>3, <1>5, <1>6 DEF OpOK, Inside
<1>8. paused' \in {"no", "yes"}
  BY <1>2 DEF IInv, RunsTyped
<1> QED BY <1>1, <1>2, <1>4, <1>6, <1>7, <1>8, OpGoes

LEMMA StepLock ==
  ASSUME IInv, NEW a \in Actors, Lock(a)
  PROVE  IInv'
<1>1. /\ op[a].pc = "lock" /\ holder = "none" /\ holder' = a
      /\ UNCHANGED <<phase, gen, sent, latest, paused, run, active, tail, driver>>
  BY DEF Lock, MayEnter, durable
<1>2. PICK p : p = FirstStep(op[a].kind)
  OBVIOUS
<1>3. OpOK(a, op[a], holder, phase, gen)
  BY DEF IInv, OpsOK
<1>4. op[a].kind \in {"submit", "continue", "pause", "resume", "stop", "attempt"} /\ a # "watch" /\ a \in Callers
  BY <1>1, <1>3, SupervisorAssumption DEF OpOK
<1>5. /\ p \in {"restore", "settlement", "set", "fence"}
      /\ p = "set" => op[a].kind \in {"pause", "resume", "stop"}
      /\ p = "fence" => op[a].kind = "attempt"
  BY <1>2, <1>4 DEF FirstStep
<1>6. PICK o : o = [kind |-> op[a].kind, pc |-> p, exec |-> op[a].exec, gen |-> op[a].gen,
                    was |-> op[a].was, snap |-> op[a].snap]
  OBVIOUS
<1>7. op' = [op EXCEPT ![a] = o]
  BY <1>2, <1>6 DEF Lock, Goto, Proceed
<1>8. o.pc = p /\ o.kind = op[a].kind /\ o.exec = op[a].exec
  BY <1>6
<1>9. OpOK(a, o, a, phase, gen)
  BY <1>1, <1>3, <1>4, <1>5, <1>8 DEF OpOK, Inside
<1> QED BY <1>1, <1>7, <1>9, OpEnters

LEMMA StepRecover ==
  ASSUME IInv, Recover
  PROVE  IInv'
<1>1. /\ holder = "none" /\ holder' = "recovery"
      /\ op' = [op EXCEPT !["recovery"] = Begun("recovery", "restore", 0, 0)]
      /\ UNCHANGED <<phase, gen, sent, latest, paused, run, active, tail, driver>>
  BY DEF Recover, durable
<1>2. PICK o : o = Begun("recovery", "restore", 0, 0)
  OBVIOUS
<1>3. o.pc = "restore"
  BY <1>2 DEF Begun
<1>4. OpOK("recovery", o, "recovery", phase, gen)
  BY <1>3 DEF OpOK, Inside
<1> QED BY <1>1, <1>2, <1>4, OpEnters DEF Actors

LEMMA StepScan ==
  ASSUME IInv, Scan
  PROVE  IInv'
<1>1. /\ holder = "none" /\ holder' = "scan"
      /\ op' = [op EXCEPT !["scan"] = Begun("scan", "restore", 0, 0)]
      /\ UNCHANGED <<phase, gen, sent, latest, paused, run, active, tail, driver>>
  BY DEF Scan, durable
<1>2. PICK o : o = Begun("scan", "restore", 0, 0)
  OBVIOUS
<1>3. o.pc = "restore"
  BY <1>2 DEF Begun
<1>4. OpOK("scan", o, "scan", phase, gen)
  BY <1>3 DEF OpOK, Inside
<1> QED BY <1>1, <1>2, <1>4, OpEnters DEF Actors

LEMMA StepSettlement ==
  ASSUME IInv, NEW a \in Actors, Settlement(a)
  PROVE  IInv'
<1>1. op[a].pc = "settlement" /\ Goto(a, "restore")
  BY DEF Settlement
<1>2. UNCHANGED <<phase, gen, sent, latest, paused, run, active, tail, driver, holder>>
  BY DEF Settlement, durable
<1>3. OpOK(a, op[a], holder, phase, gen)
  BY DEF IInv, OpsOK
<1>4. PICK o : o = [kind |-> op[a].kind, pc |-> "restore", exec |-> op[a].exec, gen |-> op[a].gen,
                    was |-> op[a].was, snap |-> op[a].snap]
  OBVIOUS
<1>5. op' = [op EXCEPT ![a] = o] /\ o.pc = "restore"
  BY <1>1, <1>4 DEF Goto, Proceed
<1>6. OpOK(a, o, holder, phase, gen)
  BY <1>1, <1>3, <1>5 DEF OpOK, Inside
<1>7. paused' \in {"no", "yes"}
  BY <1>2 DEF IInv, RunsTyped
<1> QED BY <1>2, <1>5, <1>6, <1>7, OpGoes

LEMMA StepSnapshot ==
  ASSUME IInv, NEW a \in Actors, Snapshot(a)
  PROVE  IInv'
<1>1. PICK s : op' = [op EXCEPT ![a] = [kind |-> op[a].kind, pc |-> "register", exec |-> op[a].exec,
                        gen |-> op[a].gen, was |-> op[a].was, snap |-> s]]
  BY DEF Snapshot
<1>2. /\ op[a].pc = "restore"
      /\ UNCHANGED <<phase, gen, sent, latest, paused, run, active, tail, driver, holder>>
  BY DEF Snapshot, durable
<1>3. OpOK(a, op[a], holder, phase, gen)
  BY DEF IInv, OpsOK
<1>4. PICK o : o = [kind |-> op[a].kind, pc |-> "register", exec |-> op[a].exec,
                    gen |-> op[a].gen, was |-> op[a].was, snap |-> s]
  OBVIOUS
<1>5. op' = [op EXCEPT ![a] = o] /\ o.pc = "register"
  BY <1>1, <1>4
<1>6. OpOK(a, o, holder, phase, gen)
  BY <1>2, <1>3, <1>5 DEF OpOK, Inside
<1>7. paused' \in {"no", "yes"}
  BY <1>2 DEF IInv, RunsTyped
<1> QED BY <1>2, <1>5, <1>6, <1>7, OpGoes

LEMMA StepRegister ==
  ASSUME IInv, NEW a \in Actors, NEW e \in Executions, Register(a, e)
  PROVE  IInv'
<1>1. PICK g : g = op[a].snap[e]
  OBVIOUS
<1>2. /\ op[a].pc = "register"
      /\ UNCHANGED <<phase, gen, sent, latest, paused, driver>>
  BY DEF Register, durable
<1>3. paused' \in {"no", "yes"}
  BY <1>2 DEF IInv, RunsTyped
<1>4. CASE ~Registered(e, g) /\ Full
  <2>1. Done(a) /\ UNCHANGED <<run, active, tail>>
    BY <1>1, <1>4, Zenon DEF Register
  <2>2. OpsOK'
    BY <1>2, <2>1, OthersLeft DEF IInv
  <2> QED BY <1>2, <1>3, <2>1, <2>2, OpOnly
<1>5. CASE ~(~Registered(e, g) /\ Full)
  <2>1. PICK s : op' = [op EXCEPT ![a] = [kind |-> op[a].kind, pc |-> "register", exec |-> op[a].exec,
                          gen |-> op[a].gen, was |-> op[a].was, snap |-> s]]
    BY <1>1, <1>5, Zenon DEF Register
  <2>2. Supervise(e, g) /\ UNCHANGED holder
    BY <1>1, <1>5, Zenon DEF Register
  <2>3. PICK o : o = [kind |-> op[a].kind, pc |-> "register", exec |-> op[a].exec,
                      gen |-> op[a].gen, was |-> op[a].was, snap |-> s]
    OBVIOUS
  <2>4. op' = [op EXCEPT ![a] = o] /\ o.pc = "register"
    BY <2>1, <2>3
  <2>5. OpOK(a, op[a], holder, phase, gen)
    BY DEF IInv, OpsOK
  <2>6. OpOK(a, o, holder', phase', gen')
    BY <1>2, <2>2, <2>4, <2>5 DEF OpOK, Inside
  <2>7. \A b \in Actors : OpOK(b, op[b], holder', phase', gen')
    BY <1>2, <2>2 DEF IInv, OpsOK
  <2>8. OpsOK'
    BY <2>4, <2>6, <2>7, OpMoves DEF IInv
  <2>9. /\ RunsOK' /\ RunningOwned'
        /\ DOMAIN run' = Slots /\ active' \in [Executions -> 0..Capacity] /\ tail' \in 0..Capacity
    BY <1>2, <2>2, RunsSupervised DEF IInv
  <2>10. RunsTyped'
    BY <1>2, <2>9 DEF IInv, RunsTyped
  <2> QED BY <2>8, <2>9, <2>10 DEF IInv
<1> QED BY <1>4, <1>5

\* An operation answers, and the runs and attempts are as they were.
LEMMA OpAnswers ==
  ASSUME IInv, NEW a \in Actors, Done(a), paused' \in {"no", "yes"},
         UNCHANGED <<phase, gen, sent, latest, run, active, tail, driver>>
  PROVE  IInv'
<1>1. OpsOK'
  BY OthersLeft DEF IInv
<1> QED BY <1>1, OpOnly

LEMMA StepRestored ==
  ASSUME IInv, NEW a \in Actors, Restored(a)
  PROVE  IInv'
<1>1. op[a].pc = "register" /\ UNCHANGED <<phase, gen, sent, latest, paused, run, active, tail, driver>>
  BY DEF Restored, durable
<1>2. paused' \in {"no", "yes"}
  BY <1>1 DEF IInv, RunsTyped
<1>3. CASE op[a].kind \in {"submit", "continue"}
  <2>1. PICK x : x = IF op[a].kind = "continue" THEN latest ELSE 0
    OBVIOUS
  <2>2. x \in 0..MaxExecutions
    BY <2>1, SupervisorAssumption DEF IInv, RunsTyped
  <2>3. Proceed(a, "commit", x, op[a].gen) /\ UNCHANGED holder
    BY <1>3, <2>1 DEF Restored
  <2>4. PICK o : o = [kind |-> op[a].kind, pc |-> "commit", exec |-> x, gen |-> op[a].gen,
                      was |-> op[a].was, snap |-> op[a].snap]
    OBVIOUS
  <2>5. op' = [op EXCEPT ![a] = o] /\ o.pc = "commit" /\ o.exec = x
    BY <2>3, <2>4 DEF Proceed
  <2>6. OpOK(a, op[a], holder, phase, gen)
    BY DEF IInv, OpsOK
  <2>7. OpOK(a, o, holder, phase, gen)
    BY <1>1, <2>2, <2>5, <2>6 DEF OpOK, Inside
  <2> QED BY <1>1, <1>2, <2>3, <2>5, <2>7, OpGoes
<1>4. CASE op[a].kind \notin {"submit", "continue"}
  <2>1. Done(a)
    BY <1>4 DEF Restored
  <2> QED BY <1>1, <1>2, <2>1, OpAnswers
<1> QED BY <1>3, <1>4

\* A committed send or retry can disturb nobody: whoever relies on the queue or
\* on a generation is inside the lock.
LEMMA Committed ==
  ASSUME IInv, NEW a \in Actors, op[a].pc = "commit", UNCHANGED <<paused, run, active, tail, driver, holder>>,
         NEW e \in Executions, NEW g \in Nat,
         phase' = [phase EXCEPT ![e] = "queued"], gen' = [gen EXCEPT ![e] = g],
         Proceed(a, "supervise", e, g), sent' \in Nat, latest' \in 0..MaxExecutions
  PROVE  IInv'
<1>1. OpOK(a, op[a], holder, phase, gen)
  BY DEF IInv, OpsOK
<1>2. a # "watch" /\ op[a].pc \in Inside /\ holder = a
  BY <1>1 DEF OpOK, Inside
<1>3. PICK o : o = [kind |-> op[a].kind, pc |-> "supervise", exec |-> e, gen |-> g,
                    was |-> op[a].was, snap |-> op[a].snap]
  OBVIOUS
<1>4. op' = [op EXCEPT ![a] = o] /\ o.pc = "supervise" /\ o.exec = e
  BY <1>3 DEF Proceed
<1>5. OpOK(a, o, holder', phase', gen')
  BY <1>1, <1>2, <1>4 DEF OpOK, Inside
<1>6. ASSUME NEW b \in Actors, b # a PROVE OpOK(b, op[b], holder', phase', gen')
  <2>1. OpOK(b, op[b], holder, phase, gen)
    BY DEF IInv, OpsOK
  <2>2. b # "watch" => op[b].pc \notin Inside
    BY <1>2, <1>6, Exclusive DEF IInv
  <2>3. op[b].pc # "unpause"
    BY <2>1, <2>2 DEF OpOK, Inside
  <2> QED BY <2>1, <2>2, <2>3 DEF OpOK, Inside
<1>7. OpsOK'
  BY <1>4, <1>5, <1>6, OpMoves DEF IInv
<1>8. RunsTyped'
  BY DEF IInv, RunsTyped
<1>9. \A f \in Executions : phase'[f] = "running" => phase[f] = "running" /\ gen'[f] = gen[f]
  BY DEF IInv, RunsTyped
<1>10. RunsOK' /\ RunningOwned'
  BY <1>9, RunsSame DEF IInv
<1> QED BY <1>7, <1>8, <1>10 DEF IInv

LEMMA StepSend ==
  ASSUME IInv, NEW a \in Actors, Send(a)
  PROVE  IInv'
<1>1. PICK e : e = sent + 1
  OBVIOUS
<1>2. /\ sent < MaxExecutions /\ op[a].pc = "commit" /\ sent' = e /\ latest' = e
      /\ phase' = [phase EXCEPT ![e] = "queued"] /\ gen' = [gen EXCEPT ![e] = 1]
      /\ Proceed(a, "supervise", e, 1)
      /\ UNCHANGED <<paused, run, active, tail, driver, holder>>
  BY <1>1 DEF Send
<1>3. e \in Executions /\ e \in Nat /\ e \in 0..MaxExecutions /\ 1 \in Nat
  BY <1>1, <1>2, SupervisorAssumption DEF Executions, IInv, RunsTyped
<1> QED BY <1>2, <1>3, Committed

LEMMA StepContinue ==
  ASSUME IInv, NEW a \in Actors, Continue(a)
  PROVE  IInv'
<1>1. PICK e : e = op[a].exec
  OBVIOUS
<1>2. PICK g : g = gen[e] + 1
  OBVIOUS
<1>3. /\ e # 0 /\ op[a].pc = "commit" /\ UNCHANGED <<sent, latest>>
      /\ phase' = [phase EXCEPT ![e] = "queued"] /\ gen' = [gen EXCEPT ![e] = g]
      /\ Proceed(a, "supervise", e, g)
      /\ UNCHANGED <<paused, run, active, tail, driver, holder>>
  BY <1>1, <1>2 DEF Continue
<1>4. OpOK(a, op[a], holder, phase, gen)
  BY DEF IInv, OpsOK
<1>5. e \in 0..MaxExecutions
  BY <1>1, <1>3, <1>4 DEF OpOK
<1>6. e \in Executions
  BY <1>3, <1>5, SupervisorAssumption DEF Executions
<1>7. g \in Nat
  BY <1>2, <1>6 DEF IInv, RunsTyped
<1>8. sent' \in Nat /\ latest' \in 0..MaxExecutions
  BY <1>3 DEF IInv, RunsTyped
<1> QED BY <1>3, <1>6, <1>7, <1>8, Committed

LEMMA StepReject ==
  ASSUME IInv, NEW a \in Actors, Reject(a)
  PROVE  IInv'
<1>1. Done(a) /\ UNCHANGED <<phase, gen, sent, latest, paused, run, active, tail, driver>>
  BY DEF Reject, durable
<1>2. paused' \in {"no", "yes"}
  BY <1>1 DEF IInv, RunsTyped
<1> QED BY <1>1, <1>2, OpAnswers

LEMMA StepAdmit ==
  ASSUME IInv, NEW a \in Actors, Admit(a)
  PROVE  IInv'
<1>1. /\ op[a].pc = "supervise" /\ Supervise(op[a].exec, op[a].gen) /\ Done(a)
      /\ UNCHANGED <<phase, gen, sent, latest, paused, driver>>
  BY DEF Admit, durable
<1>2. OpOK(a, op[a], holder, phase, gen)
  BY DEF IInv, OpsOK
<1>3. op[a].exec \in Executions
  BY <1>1, <1>2 DEF OpOK
<1>4. /\ RunsOK' /\ RunningOwned'
      /\ DOMAIN run' = Slots /\ active' \in [Executions -> 0..Capacity] /\ tail' \in 0..Capacity
  BY <1>1, <1>3, RunsSupervised DEF IInv
<1>5. RunsTyped'
  BY <1>1, <1>4 DEF IInv, RunsTyped
<1>6. OpsOK'
  BY <1>1, OthersLeft DEF IInv
<1> QED BY <1>4, <1>5, <1>6 DEF IInv

LEMMA StepSetPause ==
  ASSUME IInv, NEW a \in Actors, SetPause(a)
  PROVE  IInv'
<1>1. op[a].pc = "set" /\ UNCHANGED <<phase, gen, sent, latest, run, active, tail, driver>>
  BY DEF SetPause
<1>2. paused' \in {"no", "yes"}
  BY DEF SetPause
<1>3. OpOK(a, op[a], holder, phase, gen)
  BY DEF IInv, OpsOK
<1>4. a # "watch" /\ holder = a /\ op[a].kind \in {"pause", "resume", "stop"}
  BY <1>1, <1>3 DEF OpOK, Inside
<1>5. CASE op[a].kind = "pause"
  <2>1. Done(a)
    BY <1>5 DEF SetPause
  <2> QED BY <1>1, <1>2, <2>1, OpAnswers
<1>6. CASE op[a].kind = "resume"
  <2>1. Goto(a, "restore") /\ UNCHANGED holder
    BY <1>6 DEF SetPause
  <2>2. PICK o : o = [kind |-> op[a].kind, pc |-> "restore", exec |-> op[a].exec, gen |-> op[a].gen,
                      was |-> op[a].was, snap |-> op[a].snap]
    OBVIOUS
  <2>3. op' = [op EXCEPT ![a] = o] /\ o.pc = "restore"
    BY <2>1, <2>2 DEF Goto, Proceed
  <2>4. OpOK(a, o, holder, phase, gen)
    BY <1>4, <2>3 DEF OpOK, Inside
  <2> QED BY <1>1, <1>2, <2>1, <2>3, <2>4, OpGoes
<1>7. CASE op[a].kind = "stop"
  <2>1. PICK o : o = [kind |-> "stop", pc |-> "signal", exec |-> op[a].exec,
                      gen |-> op[a].gen, was |-> paused, snap |-> op[a].snap]
    OBVIOUS
  <2>2. op' = [op EXCEPT ![a] = o] /\ UNCHANGED holder
    BY <1>7, <2>1 DEF SetPause
  <2>3. o.pc = "signal" /\ o.kind = "stop" /\ o.exec = op[a].exec
    BY <2>1
  <2>4. op[a].exec \in Executions
    BY <1>1, <1>3, <1>7 DEF OpOK
  <2>5. OpOK(a, o, holder, phase, gen)
    BY <1>4, <2>3, <2>4 DEF OpOK, Inside
  <2> QED BY <1>1, <1>2, <2>2, <2>5, OpGoes
<1> QED BY <1>4, <1>5, <1>6, <1>7

LEMMA StepSignal ==
  ASSUME IInv, NEW a \in Actors, Signal(a)
  PROVE  IInv'
<1>1. op[a].pc = "signal" /\ UNCHANGED <<phase, gen, sent, latest, paused, active, tail, driver, holder>>
  BY DEF Signal, durable
<1>2. OpOK(a, op[a], holder, phase, gen)
  BY DEF IInv, OpsOK
<1>3. /\ op[a].exec \in Executions
      /\ a # "watch" => op[a].kind = "stop" /\ holder = a
      /\ a = "watch" => op[a].kind = "watch" /\ Agent # "no"
  BY <1>1, <1>2 DEF OpOK, Inside
<1>4. PICK e : e = op[a].exec
  OBVIOUS
<1>5. CASE Terminal(phase[e])
  <2>1. PICK p : p = IF op[a].kind = "stop" THEN "empty" ELSE "settling"
    OBVIOUS
  <2>2. Goto(a, p) /\ UNCHANGED run
    BY <1>4, <1>5, <2>1 DEF Signal
  <2>3. PICK o : o = [kind |-> op[a].kind, pc |-> p, exec |-> op[a].exec, gen |-> op[a].gen,
                      was |-> op[a].was, snap |-> op[a].snap]
    OBVIOUS
  <2>4. op' = [op EXCEPT ![a] = o] /\ o.pc = p /\ o.kind = op[a].kind /\ o.exec = op[a].exec
    BY <2>2, <2>3 DEF Goto, Proceed
  <2>5. OpOK(a, o, holder, phase, gen)
    BY <1>3, <2>1, <2>4 DEF OpOK, Inside
  <2>6. paused' \in {"no", "yes"}
    BY <1>1 DEF IInv, RunsTyped
  <2> QED BY <1>1, <2>2, <2>4, <2>5, <2>6, OpGoes
<1>6. CASE ~Terminal(phase[e])
  <2>1. PICK g : g = IF op[a].kind = "stop" THEN gen[e] ELSE op[a].gen
    OBVIOUS
  <2>2. Proceed(a, "cancel", e, g)
    BY <1>4, <1>6, <2>1 DEF Signal
  <2>3. PICK o : o = [kind |-> op[a].kind, pc |-> "cancel", exec |-> e, gen |-> g,
                      was |-> op[a].was, snap |-> op[a].snap]
    OBVIOUS
  <2>4. op' = [op EXCEPT ![a] = o]
    BY <2>2, <2>3 DEF Proceed
  <2>5. o.pc = "cancel" /\ o.kind = op[a].kind /\ o.exec = e /\ o.gen = g
    BY <2>3
  <2>6. OpOK(a, o, holder', phase', gen')
    BY <1>1, <1>3, <1>4, <2>1, <2>5 DEF OpOK, Inside
  <2>7. \A b \in Actors : OpOK(b, op[b], holder', phase', gen')
    BY <1>1 DEF IInv, OpsOK
  <2>8. OpsOK'
    BY <2>4, <2>6, <2>7, OpMoves DEF IInv
  <2>9. RunsOK' /\ RunningOwned' /\ DOMAIN run' = Slots
    <3>1. CASE active[e] = 0
      <4>1. UNCHANGED run
        BY <3>1, <1>4, <1>6 DEF Signal
      <4>2. RunsOK' /\ RunningOwned'
        BY <4>1, <1>1, RunsSame DEF IInv
      <4> QED BY <4>1, <4>2 DEF IInv, RunsTyped
    <3>2. CASE active[e] # 0
      <4>1. run' = Signalled(active[e])
        BY <3>2, <1>4, <1>6 DEF Signal
      <4>2. active[e] \in Slots
        BY <3>2, <1>3, <1>4, SupervisorAssumption DEF IInv, RunsTyped, Slots
      <4> QED BY <4>1, <4>2, <1>1, RunsSignalled DEF IInv
    <3> QED BY <3>1, <3>2
  <2>10. RunsTyped'
    BY <1>1, <2>9 DEF IInv, RunsTyped
  <2> QED BY <2>8, <2>9, <2>10 DEF IInv
<1> QED BY <1>5, <1>6

\* A cancellation lets nothing run and queues nothing.
LEMMA Cancelling ==
  ASSUME IInv, NEW e \in Executions, phase' \in {phase, [phase EXCEPT ![e] = "cancelled"]}
  PROVE  /\ phase' \in [Executions -> {"none", "queued", "running", "ended", "cancelled"}]
         /\ \A f \in Executions : phase'[f] = phase[f] \/ phase'[f] = "cancelled"
BY DEF IInv, RunsTyped

LEMMA StepCancel ==
  ASSUME IInv, NEW a \in Actors, Cancel(a)
  PROVE  IInv'
<1>1. /\ op[a].pc = "cancel" /\ CancelCurrent(op[a].exec)
      /\ UNCHANGED <<gen, sent, latest, paused, run, active, tail, driver>>
  BY DEF Cancel
<1>2. OpOK(a, op[a], holder, phase, gen)
  BY DEF IInv, OpsOK
<1>3. /\ op[a].exec \in Executions
      /\ a # "watch" => op[a].kind = "stop" /\ holder = a
      /\ a = "watch" => op[a].kind = "watch" /\ Agent # "no"
  BY <1>1, <1>2 DEF OpOK, Inside
<1>4. phase' \in {phase, [phase EXCEPT ![op[a].exec] = "cancelled"]}
  BY <1>1 DEF CancelCurrent
<1>5. /\ phase' \in [Executions -> {"none", "queued", "running", "ended", "cancelled"}]
      /\ \A f \in Executions : phase'[f] = phase[f] \/ phase'[f] = "cancelled"
  BY <1>3, <1>4, Cancelling
<1>6. RunsTyped'
  BY <1>1, <1>5 DEF IInv, RunsTyped
<1>7. RunsOK' /\ RunningOwned'
  BY <1>1, <1>5, RunsSame DEF IInv
<1>8. CASE Done(a)
  <2>1. OpsOK'
    BY <1>1, <1>5, <1>8, OthersLeft DEF IInv
  <2> QED BY <1>6, <1>7, <2>1 DEF IInv
<1>9. ASSUME NEW p \in {"settling", "empty"}, p = "settling" <=> a = "watch",
             Goto(a, p), UNCHANGED holder
      PROVE  IInv'
  <2>1. PICK o : o = [kind |-> op[a].kind, pc |-> p, exec |-> op[a].exec, gen |-> op[a].gen,
                      was |-> op[a].was, snap |-> op[a].snap]
    OBVIOUS
  <2>2. op' = [op EXCEPT ![a] = o] /\ o.pc = p /\ o.kind = op[a].kind
    BY <1>9, <2>1 DEF Goto, Proceed
  <2>3. OpOK(a, o, holder', phase', gen')
    BY <1>3, <1>9, <2>2 DEF OpOK, Inside
  <2>4. \A b \in Actors : OpOK(b, op[b], holder', phase', gen')
    BY <1>1, <1>5, <1>9, OthersKeep DEF IInv
  <2>5. OpsOK'
    BY <2>2, <2>3, <2>4, OpMoves DEF IInv
  <2> QED BY <1>6, <1>7, <2>5 DEF IInv
<1>10. CASE a = "watch"
  <2>1. Goto(a, "settling") /\ UNCHANGED holder
    BY <1>3, <1>10 DEF Cancel
  <2> QED BY <1>9, <1>10, <2>1
<1>11. CASE a # "watch"
  <2>1. Done(a) \/ (Goto(a, "empty") /\ UNCHANGED holder)
    BY <1>3, <1>11 DEF Cancel
  <2> QED BY <1>8, <1>9, <1>11, <2>1
<1> QED BY <1>10, <1>11

LEMMA StepEmpty ==
  ASSUME IInv, NEW a \in Actors, Empty(a)
  PROVE  IInv'
<1>1. op[a].pc = "empty" /\ UNCHANGED <<phase, gen, sent, latest, paused, run, active, tail, driver>>
  BY DEF Empty, durable
<1>2. paused' \in {"no", "yes"}
  BY <1>1 DEF IInv, RunsTyped
<1>3. CASE op[a].was = "no" /\ NothingQueued
  <2>1. Goto(a, "unpause") /\ UNCHANGED holder
    BY <1>3 DEF Empty
  <2>2. PICK o : o = [kind |-> op[a].kind, pc |-> "unpause", exec |-> op[a].exec, gen |-> op[a].gen,
                      was |-> op[a].was, snap |-> op[a].snap]
    OBVIOUS
  <2>3. op' = [op EXCEPT ![a] = o] /\ o.pc = "unpause"
    BY <2>1, <2>2 DEF Goto, Proceed
  <2>4. OpOK(a, op[a], holder, phase, gen)
    BY DEF IInv, OpsOK
  <2>5. OpOK(a, o, holder, phase, gen)
    BY <1>1, <1>3, <2>3, <2>4 DEF OpOK, Inside, NothingQueued
  <2> QED BY <1>1, <1>2, <2>1, <2>3, <2>5, OpGoes
<1>4. CASE ~(op[a].was = "no" /\ NothingQueued)
  <2>1. Done(a)
    BY <1>4 DEF Empty
  <2> QED BY <1>1, <1>2, <2>1, OpAnswers
<1> QED BY <1>3, <1>4

LEMMA StepUnpause ==
  ASSUME IInv, NEW a \in Actors, Unpause(a)
  PROVE  IInv'
BY OpAnswers DEF Unpause

LEMMA StepFence ==
  ASSUME IInv, NEW a \in Actors, Fence(a)
  PROVE  IInv'
<1>1. PICK e : e = op[a].exec
  OBVIOUS
<1>2. PICK g : g = op[a].gen
  OBVIOUS
<1>3. op[a].pc = "fence" /\ Done(a) /\ UNCHANGED <<gen, sent, latest, paused, active, tail, driver>>
  BY DEF Fence
<1>4. OpOK(a, op[a], holder, phase, gen)
  BY DEF IInv, OpsOK
<1>5. e \in Executions
  BY <1>1, <1>3, <1>4 DEF OpOK
<1>6. phase' \in {phase, [phase EXCEPT ![e] = "cancelled"]}
  BY <1>1 DEF Fence
<1>7. /\ phase' \in [Executions -> {"none", "queued", "running", "ended", "cancelled"}]
      /\ \A f \in Executions : phase'[f] = phase[f] \/ phase'[f] = "cancelled"
  BY <1>5, <1>6, Cancelling
<1>8. run' = run \/ (active[e] # 0 /\ run' = Signalled(active[e]))
  BY <1>1, <1>2 DEF Fence
<1>9. RunsOK' /\ RunningOwned' /\ DOMAIN run' = Slots
  <2>1. CASE run' = run
    <3>1. RunsOK' /\ RunningOwned'
      BY <1>3, <1>7, <2>1, RunsSame DEF IInv
    <3> QED BY <2>1, <3>1 DEF IInv, RunsTyped
  <2>2. CASE active[e] # 0 /\ run' = Signalled(active[e])
    <3>1. active[e] \in Slots
      BY <2>2, <1>5, SupervisorAssumption DEF IInv, RunsTyped, Slots
    <3> QED BY <1>3, <1>7, <2>2, <3>1, RunsSignalled DEF IInv
  <2> QED BY <1>8, <2>1, <2>2
<1>10. RunsTyped'
  BY <1>3, <1>7, <1>9 DEF IInv, RunsTyped
<1>11. OpsOK'
  BY <1>3, <1>7, OthersLeft DEF IInv
<1> QED BY <1>9, <1>10, <1>11 DEF IInv

LEMMA StepTimeOut ==
  ASSUME IInv, TimeOut
  PROVE  IInv'
<1>1. op["watch"].pc = "watching" /\ Goto("watch", "signal")
  BY DEF TimeOut
<1>2. UNCHANGED <<phase, gen, sent, latest, paused, run, active, tail, driver, holder>>
  BY DEF TimeOut, durable
<1>3. paused' \in {"no", "yes"}
  BY <1>2 DEF IInv, RunsTyped
<1>4. "watch" \in Actors
  BY DEF Actors
<1>5. OpOK("watch", op["watch"], holder, phase, gen)
  BY <1>4 DEF IInv, OpsOK
<1>6. PICK o : o = [kind |-> op["watch"].kind, pc |-> "signal", exec |-> op["watch"].exec,
                    gen |-> op["watch"].gen, was |-> op["watch"].was, snap |-> op["watch"].snap]
  OBVIOUS
<1>7. op' = [op EXCEPT !["watch"] = o]
  BY <1>1, <1>6 DEF Goto, Proceed
<1>8. o.pc = "signal" /\ o.kind = op["watch"].kind /\ o.exec = op["watch"].exec
  BY <1>6
<1>9. OpOK("watch", o, holder, phase, gen)
  BY <1>1, <1>5, <1>8 DEF OpOK
<1> QED BY <1>2, <1>3, <1>4, <1>7, <1>9, OpGoes

LEMMA StepSettleAgent ==
  ASSUME IInv, SettleAgent
  PROVE  IInv'
<1>1. Done("watch") /\ UNCHANGED <<phase, gen, sent, latest, paused, run, active, tail, driver>>
  BY DEF SettleAgent, durable
<1>2. paused' \in {"no", "yes"}
  BY <1>1 DEF IInv, RunsTyped
<1>3. "watch" \in Actors
  BY DEF Actors
<1> QED BY <1>1, <1>2, <1>3, OpAnswers

LEMMA StepCrash ==
  ASSUME IInv, Crash
  PROVE  IInv'
<1>1. PICK p \in {"queued", "ended"} :
        /\ phase' = [e \in Executions |-> CASE phase[e] = "running" -> "ended"
                                            [] phase[e] = "queued" -> p
                                            [] OTHER -> phase[e]]
        /\ run' = [i \in Slots |-> NoRun] /\ active' = [e \in Executions |-> 0]
        /\ tail' = 0 /\ driver' = 0 /\ holder' = "none" /\ op' = [a \in Actors |-> NoOp]
        /\ UNCHANGED <<gen, sent, latest, paused>>
  BY DEF Crash, Withheld
<1>2. 0 \in 0..Capacity
  BY SupervisorAssumption
<1>3. RunsTyped'
  BY <1>1, <1>2 DEF IInv, RunsTyped
<1>4. \A i \in Slots : i # 0
  BY SupervisorAssumption DEF Slots
<1>5. RunsOK'
  BY <1>1, <1>4 DEF RunsOK, RunOK, NoRun
<1>6. RunningOwned'
  BY <1>1 DEF RunningOwned
<1>7. OpsOK'
  BY <1>1 DEF OpsOK, OpOK, NoOp, Inside
<1> QED BY <1>3, <1>5, <1>6, <1>7 DEF IInv

(***************************************************************************)
(* The invariant                                                           *)
(***************************************************************************)
LEMMA IInvInit ==
  ASSUME Init
  PROVE  IInv
<1>1. 0 \in 0..Capacity /\ 1 \in 0..Capacity /\ 1 \in 0..MaxExecutions /\ 0 \in 0..MaxExecutions
      /\ 1 \in Executions /\ \A i \in Slots : i # 0
  BY SupervisorAssumption DEF Slots, Executions
<1>2. /\ phase \in [Executions -> {"none", "queued"}] /\ gen \in [Executions -> Nat]
      /\ sent \in {0, 1} /\ latest = sent /\ paused = "no"
      /\ DOMAIN run = Slots /\ active \in [Executions -> {0, 1}] /\ tail = sent /\ driver = 0
  BY DEF Init
<1>3. RunsTyped
  <2>1. phase \in [Executions -> {"none", "queued", "running", "ended", "cancelled"}]
    BY <1>2
  <2>2. active \in [Executions -> 0..Capacity]
    BY <1>1, <1>2
  <2> QED BY <1>1, <1>2, <2>1, <2>2 DEF RunsTyped
<1>4. ASSUME NEW i \in Slots PROVE RunOK(i, run[i], driver)
  <2>1. run[i] = NoRun \/ run[i] = [state |-> "waiting", exec |-> 1, gen |-> 1, pred |-> 0, cancel |-> "no"]
    BY DEF Init
  <2>2. CASE run[i] = NoRun
    BY <1>1, <1>2, <2>2 DEF RunOK, NoRun
  <2>3. CASE run[i] = [state |-> "waiting", exec |-> 1, gen |-> 1, pred |-> 0, cancel |-> "no"]
    BY <1>1, <1>2, <2>3 DEF RunOK
  <2> QED BY <2>1, <2>2, <2>3
<1>5. RunsOK
  BY <1>4 DEF RunsOK
<1>6. RunningOwned
  BY <1>2 DEF RunningOwned
<1>7. DOMAIN op = Actors
  BY DEF Init
<1>8. ASSUME NEW a \in Actors PROVE OpOK(a, op[a], holder, phase, gen)
  <2>1. CASE Agent = "yes" /\ a = "watch"
    <3>1. op[a].pc = "watching" /\ op[a].kind = "watch" /\ op[a].exec = 1
      BY <2>1 DEF Init
    <3> QED BY <1>1, <2>1, <3>1 DEF OpOK
  <2>2. CASE ~(Agent = "yes" /\ a = "watch")
    <3>1. op[a] = NoOp
      BY <2>2 DEF Init
    <3>2. op[a].pc = "idle"
      BY <3>1 DEF NoOp
    <3> QED BY <3>2 DEF OpOK, Inside
  <2> QED BY <2>1, <2>2
<1>9. OpsOK
  BY <1>7, <1>8 DEF OpsOK
<1> QED BY <1>3, <1>5, <1>6, <1>9 DEF IInv

LEMMA IInvNext ==
  ASSUME IInv, [Next]_vars
  PROVE  IInv'
<1>1. CASE UNCHANGED vars
  <2>1. UNCHANGED <<phase, gen, sent, latest, paused, run, active, tail, driver, holder, op>>
    BY <1>1 DEF vars, durable
  <2>2. RunsOK' /\ RunningOwned'
    BY <2>1, RunsSame DEF IInv
  <2>3. OpsOK'
    BY <2>1, OpsKept DEF IInv
  <2>4. RunsTyped'
    BY <2>1 DEF IInv, RunsTyped
  <2> QED BY <2>2, <2>3, <2>4 DEF IInv
<1>2. ASSUME NEW i \in Slots, RunStep(i) \/ Output(i) \/ Panic(i) PROVE IInv'
  BY <1>2, StepStart, StepClaim, StepRefused, StepFinish, StepRetire, StepOutput, StepPanic DEF RunStep
<1>3. ASSUME NEW a \in Actors, OpStep(a) PROVE IInv'
  BY <1>3, StepLock, StepSettlement, StepSnapshot, StepRegister, StepRestored, StepSend, StepContinue,
     StepReject, StepAdmit, StepSetPause, StepSignal, StepCancel, StepEmpty, StepUnpause, StepFence
     DEF OpStep
<1>4. ASSUME NEW c \in Callers, NEW k \in Kinds, NEW e \in 0..MaxExecutions, NEW g \in 0..MaxGen,
             Ask(c, k, e, g)
      PROVE  IInv'
  BY <1>4, StepAsk
<1> QED BY <1>1, <1>2, <1>3, <1>4, StepRecover, StepScan, StepTimeOut, StepSettleAgent, StepCrash
        DEF Next

\* The invariant holds of every behaviour, whatever the constants.
THEOREM Invariance == Spec => []IInv
<1>1. Init => IInv
  BY IInvInit
<1>2. IInv /\ [Next]_vars => IInv'
  BY IInvNext
<1> QED BY <1>1, <1>2, PTL DEF Spec

\* A running attempt always has exactly one owner: the run of its generation
\* that holds the execution lock (execution.rs, run_supervised).
THEOREM SupervisorRunningOwned == Spec => []RunningOwned
<1>1. IInv => RunningOwned
  BY DEF IInv
<1> QED BY <1>1, Invariance, PTL

(***************************************************************************)
(* Who lifts a pause                                                       *)
(***************************************************************************)
LEMMA PauseKept ==
  ASSUME Next, paused = "yes", paused' = "no"
  PROVE  \E a \in Actors : Unpause(a) \/ SetPause(a)
<1>1. paused' # paused
  OBVIOUS
<1>2. ASSUME NEW i \in Slots, RunStep(i) \/ Output(i) \/ Panic(i) PROVE FALSE
  BY <1>1, <1>2 DEF RunStep, Output, Panic, Start, Claim, Refused, Finish, Retire, durable
<1>3. ASSUME NEW a \in Actors, OpStep(a) PROVE Unpause(a) \/ SetPause(a)
  <2>1. ASSUME NEW e \in Executions, Register(a, e) PROVE FALSE
    BY <1>1, <2>1 DEF Register, durable
  <2>2. ASSUME Lock(a) \/ Settlement(a) \/ Snapshot(a) \/ Restored(a) PROVE FALSE
    BY <1>1, <2>2 DEF Lock, Settlement, Snapshot, Restored, durable
  <2>3. ASSUME Send(a) \/ Continue(a) \/ Reject(a) \/ Admit(a) PROVE FALSE
    BY <1>1, <2>3 DEF Send, Continue, Reject, Admit, durable
  <2>4. ASSUME Signal(a) \/ Cancel(a) \/ Empty(a) \/ Fence(a) PROVE FALSE
    BY <1>1, <2>4 DEF Signal, Cancel, Empty, Fence, durable
  <2> QED BY <1>3, <2>1, <2>2, <2>3, <2>4 DEF OpStep
<1>4. ASSUME NEW c \in Callers, NEW k \in Kinds, NEW e \in 0..MaxExecutions, NEW g \in 0..MaxGen,
             Ask(c, k, e, g)
      PROVE  FALSE
  BY <1>1, <1>4 DEF Ask, durable
<1>5. ASSUME Recover \/ Scan \/ TimeOut \/ SettleAgent \/ Crash PROVE FALSE
  BY <1>1, <1>5 DEF Recover, Scan, TimeOut, SettleAgent, Crash, durable
<1> QED BY <1>2, <1>3, <1>4, <1>5 DEF Next

\* The pause of a stop is lifted only by a resumption or over an empty queue:
\* the queue read by resume_empty_queue_after_stop stays empty until its write.
THEOREM SupervisorStopRetains == Spec => StopRetains
<1>1. IInv /\ [Next]_vars =>
        [paused = "yes" /\ paused' = "no" =>
           NothingQueued \/ \E a \in Actors : op[a].kind = "resume" /\ op[a].pc = "set"]_vars
  <2> SUFFICES ASSUME IInv, Next, paused = "yes", paused' = "no"
               PROVE  NothingQueued \/ \E a \in Actors : op[a].kind = "resume" /\ op[a].pc = "set"
    BY DEF vars, durable
  <2>1. PICK a \in Actors : Unpause(a) \/ SetPause(a)
    BY PauseKept
  <2>2. CASE Unpause(a)
    <3>1. op[a].pc = "unpause"
      BY <2>2 DEF Unpause
    <3>2. OpOK(a, op[a], holder, phase, gen)
      BY DEF IInv, OpsOK
    <3> QED BY <3>1, <3>2 DEF OpOK, NothingQueued
  <2>3. CASE SetPause(a)
    BY <2>3 DEF SetPause
  <2> QED BY <2>1, <2>2, <2>3
<1> QED BY <1>1, Invariance, PTL DEF Spec, StopRetains

(***************************************************************************)
(* What a cancellation cancels                                             *)
(***************************************************************************)
\* Only a crash is counted as one.
LEMMA CrashesCounted ==
  ASSUME Next
  PROVE  crashes' = crashes \/ Crash
<1>1. ASSUME NEW i \in Slots, RunStep(i) \/ Output(i) \/ Panic(i) PROVE crashes' = crashes
  BY <1>1 DEF RunStep, Output, Panic, Start, Claim, Refused, Finish, Retire, bounds
<1>2. ASSUME NEW a \in Actors, OpStep(a) PROVE crashes' = crashes
  <2>1. ASSUME NEW e \in Executions, Register(a, e) PROVE crashes' = crashes
    BY <2>1 DEF Register, bounds
  <2>2. ASSUME Lock(a) \/ Settlement(a) \/ Snapshot(a) \/ Restored(a) PROVE crashes' = crashes
    BY <2>2 DEF Lock, Settlement, Snapshot, Restored, bounds
  <2>3. ASSUME Send(a) \/ Continue(a) \/ Reject(a) \/ Admit(a) PROVE crashes' = crashes
    BY <2>3 DEF Send, Continue, Reject, Admit, bounds
  <2>4. ASSUME Signal(a) \/ Cancel(a) \/ Empty(a) \/ Fence(a) PROVE crashes' = crashes
    BY <2>4 DEF Signal, Cancel, Empty, Fence, bounds
  <2>5. ASSUME SetPause(a) \/ Unpause(a) PROVE crashes' = crashes
    BY <2>5 DEF SetPause, Unpause, bounds
  <2> QED BY <1>2, <2>1, <2>2, <2>3, <2>4, <2>5 DEF OpStep
<1>3. ASSUME NEW c \in Callers, NEW k \in Kinds, NEW e \in 0..MaxExecutions, NEW g \in 0..MaxGen,
             Ask(c, k, e, g)
      PROVE  crashes' = crashes
  BY <1>3 DEF Ask
<1>4. ASSUME Recover \/ Scan \/ TimeOut \/ SettleAgent PROVE crashes' = crashes
  BY <1>4 DEF Recover, Scan, TimeOut, SettleAgent, bounds
<1> QED BY <1>1, <1>2, <1>3, <1>4 DEF Next

CrashesOK == crashes \in Nat

LEMMA CrashesTyped == Spec => []CrashesOK
<1>1. Init => CrashesOK
  BY DEF Init, CrashesOK
<1>2. CrashesOK /\ [Next]_vars => CrashesOK'
  <2>1. ASSUME CrashesOK, Next PROVE CrashesOK'
    BY <2>1, CrashesCounted DEF Crash, CrashesOK
  <2>2. ASSUME CrashesOK, UNCHANGED vars PROVE CrashesOK'
    BY <2>2 DEF vars, bounds, CrashesOK
  <2> QED BY <2>1, <2>2
<1> QED BY <1>1, <1>2, PTL DEF Spec

\* An actor's operation is moved by its own steps.
LEMMA OthersStand ==
  ASSUME OpsOK, NEW a \in Actors, NEW b \in Actors, b # a, OpStep(b)
  PROVE  op'[a] = op[a]
<1>1. \E o : op' = [op EXCEPT ![b] = o]
  <2>1. ASSUME NEW e \in Executions, Register(b, e) PROVE \E o : op' = [op EXCEPT ![b] = o]
    BY <2>1, Zenon DEF Register, Done
  <2>2. ASSUME Lock(b) \/ Settlement(b) PROVE \E o : op' = [op EXCEPT ![b] = o]
    BY <2>2, Zenon DEF Lock, Settlement, Goto, Proceed
  <2>3. ASSUME Snapshot(b) PROVE \E o : op' = [op EXCEPT ![b] = o]
    BY <2>3, Zenon DEF Snapshot
  <2>4. ASSUME Restored(b) PROVE \E o : op' = [op EXCEPT ![b] = o]
    BY <2>4, Zenon DEF Restored, Proceed, Done
  <2>5. ASSUME Send(b) PROVE \E o : op' = [op EXCEPT ![b] = o]
    BY <2>5, Zenon DEF Send, Proceed
  <2>6. ASSUME Continue(b) PROVE \E o : op' = [op EXCEPT ![b] = o]
    BY <2>6, Zenon DEF Continue, Proceed
  <2>7. ASSUME Reject(b) \/ Admit(b) \/ Unpause(b) \/ Fence(b) PROVE \E o : op' = [op EXCEPT ![b] = o]
    BY <2>7, Zenon DEF Reject, Admit, Unpause, Fence, Done
  <2>8. ASSUME SetPause(b) PROVE \E o : op' = [op EXCEPT ![b] = o]
    <3>1. op[b].kind \in {"pause", "resume", "stop"}
      BY <2>8 DEF OpsOK, OpOK, SetPause
    <3>2. CASE op[b].kind = "pause"
      BY <2>8, <3>2 DEF SetPause, Done
    <3>3. CASE op[b].kind = "resume"
      BY <2>8, <3>3 DEF SetPause, Goto, Proceed
    <3>4. CASE op[b].kind = "stop"
      BY <2>8, <3>4 DEF SetPause
    <3> QED BY <3>1, <3>2, <3>3, <3>4
  <2>9. ASSUME Signal(b) PROVE \E o : op' = [op EXCEPT ![b] = o]
    BY <2>9, Zenon DEF Signal, Goto, Proceed
  <2>10. ASSUME Empty(b) PROVE \E o : op' = [op EXCEPT ![b] = o]
    BY <2>10, Zenon DEF Empty, Goto, Proceed, Done
  <2>11. ASSUME Cancel(b) PROVE \E o : op' = [op EXCEPT ![b] = o]
    <3>1. op[b].kind \in {"watch", "stop"}
      BY <2>11 DEF OpsOK, OpOK, Cancel
    <3>2. Done(b) \/ \E p : Goto(b, p)
      BY <2>11, <3>1 DEF Cancel
    <3> QED BY <3>2, Zenon DEF Goto, Proceed, Done
  <2> QED BY <2>1, <2>2, <2>3, <2>4, <2>5, <2>6, <2>7, <2>8, <2>9, <2>10, <2>11 DEF OpStep
<1> QED BY <1>1 DEF OpsOK

\* A stop and an exact cancellation hit the attempt they saw: no retry is
\* committed between the read and the cancel (commands.rs,
\* cancel_execution_with_outcome; cancel_execution_attempt_inner).
THEOREM SupervisorCancelsWhatItSaw == Spec => CancelsWhatItSaw
<1>1. IInv /\ CrashesOK /\ [Next]_vars =>
        [\A a \in Callers :
           op[a].pc \in {"cancel", "fence"} /\ op'[a].pc # op[a].pc /\ phase' # phase /\ crashes' = crashes =>
             gen[op[a].exec] = op[a].gen]_vars
  <2> SUFFICES ASSUME IInv, CrashesOK, Next, NEW a \in Callers, op[a].pc \in {"cancel", "fence"},
                      op'[a].pc # op[a].pc, phase' # phase, crashes' = crashes
               PROVE  gen[op[a].exec] = op[a].gen
    BY DEF vars, durable
  <2>0. a \in Actors
    BY DEF Actors
  <2>1. OpOK(a, op[a], holder, phase, gen)
    BY <2>0 DEF IInv, OpsOK
  <2>2. a # "watch"
    BY SupervisorAssumption
  <2>3. CASE op[a].pc = "cancel"
    BY <2>1, <2>2, <2>3 DEF OpOK
  <2>4. CASE op[a].pc = "fence"
    <3>1. ASSUME NEW i \in Slots, RunStep(i) \/ Output(i) \/ Panic(i) PROVE FALSE
      BY <3>1 DEF RunStep, Output, Panic, Start, Claim, Refused, Finish, Retire
    <3>2. ASSUME NEW b \in Actors, OpStep(b) PROVE gen[op[a].exec] = op[a].gen
      <4>1. b = a
        BY <2>0, <3>2, OthersStand DEF IInv
      <4>2. Fence(a)
        BY <2>4, <3>2, <4>1 DEF OpStep, Lock, Settlement, Snapshot, Register, Restored, Send, Continue,
           Reject, Admit, SetPause, Signal, Cancel, Empty, Unpause
      <4> QED BY <4>2 DEF Fence, Fences
    <3>3. ASSUME NEW c \in Callers, NEW k \in Kinds, NEW e \in 0..MaxExecutions, NEW g \in 0..MaxGen,
                 Ask(c, k, e, g)
          PROVE  FALSE
      BY <3>3 DEF Ask, durable
    <3>4. ASSUME Recover \/ Scan \/ TimeOut \/ SettleAgent PROVE FALSE
      BY <3>4 DEF Recover, Scan, TimeOut, SettleAgent, durable
    <3>5. ASSUME Crash PROVE FALSE
      BY <3>5 DEF Crash, CrashesOK
    <3> QED BY <3>1, <3>2, <3>3, <3>4, <3>5 DEF Next
  <2> QED BY <2>3, <2>4
<1> QED BY <1>1, Invariance, CrashesTyped, PTL DEF Spec, CancelsWhatItSaw

(***************************************************************************)
(* The dispatch chain orders the runs                                      *)
(***************************************************************************)
InChain(r) == {i \in Slots : r[i].state # "none"}

\* k numbers the runs of the chain from the one whose turn it is to the tail.
\* The registered run of an execution is the last of its runs in the chain.
ChainOK(k, r, ac, t) ==
  /\ DOMAIN r = Slots /\ k \in [Slots -> Nat] /\ ac \in [Executions -> 0..Capacity]
  /\ \A i \in InChain(r) : r[i].gen \in Nat /\ r[i].exec \in Executions
  /\ \A i \in InChain(r) : r[i].pred # 0 =>
        r[i].state = "waiting" /\ r[i].pred \in InChain(r) /\ k[i] = k[r[i].pred] + 1
  /\ \A i, j \in InChain(r) : k[i] = k[j] => i = j
  /\ \A i \in InChain(r) : r[i].pred = 0 => \A j \in InChain(r) : k[i] <= k[j]
  /\ t # 0 => t \in InChain(r) /\ \A j \in InChain(r) : k[j] <= k[t]
  /\ t = 0 => InChain(r) = {}
  /\ \A e \in Executions : ac[e] # 0 => ac[e] \in InChain(r) /\ r[ac[e]].exec = e
  /\ \A i \in InChain(r) : /\ ac[r[i].exec] # 0 /\ k[i] <= k[ac[r[i].exec]]
                            /\ r[i].gen <= r[ac[r[i].exec]].gen

Chained == \E k : ChainOK(k, run, active, tail)

\* Generations that are still to be registered.
SnapOK(o) == o.snap \in [Executions -> Nat] /\ (o.pc = "supervise" => o.gen \in Nat)

SnapsOK == DOMAIN op = Actors /\ \A a \in Actors : SnapOK(op[a])

LEMMA ChainKept ==
  ASSUME Chained, UNCHANGED <<run, active, tail>>
  PROVE  Chained'
BY DEF Chained

\* Runs that stay in the chain stay in their places.
LEMMA ChainStays ==
  ASSUME Chained, UNCHANGED <<active, tail>>, DOMAIN run' = Slots,
         \A j \in Slots : /\ run'[j].exec = run[j].exec /\ run'[j].gen = run[j].gen
                          /\ run'[j].pred = run[j].pred
                          /\ run'[j].state = "none" <=> run[j].state = "none"
                          /\ run[j].pred # 0 => run'[j].state = run[j].state
  PROVE  Chained'
<1>1. PICK k : ChainOK(k, run, active, tail)
  BY DEF Chained
<1>2. InChain(run') = InChain(run) /\ \A i \in InChain(run) : i \in Slots
  BY DEF InChain
<1>3. \A e \in Executions : active[e] # 0 => active[e] \in Slots
  BY <1>1, <1>2 DEF ChainOK
<1>4. ChainOK(k, run', active', tail')
  BY <1>1, <1>2, <1>3 DEF ChainOK
<1> QED BY <1>4 DEF Chained

LEMMA ChainMoved ==
  ASSUME Chained, UNCHANGED <<active, tail>>, NEW i \in Slots, run[i].state # "none",
         run[i].state # "waiting" \/ run[i].pred = 0,
         NEW s \in {"locked", "driving", "exiting", "queuePaused"}, run' = Moved(i, s)
  PROVE  Chained'
<1>1. PICK k : ChainOK(k, run, active, tail)
  BY DEF Chained
<1>2. run[i].pred = 0
  BY <1>1 DEF ChainOK, InChain
<1>3. DOMAIN run = Slots
  BY <1>1 DEF ChainOK
<1>4. /\ DOMAIN run' = Slots
      /\ \A j \in Slots : j # i => run'[j] = run[j]
      /\ run'[i].state = s /\ run'[i].exec = run[i].exec /\ run'[i].gen = run[i].gen
      /\ run'[i].pred = run[i].pred
  BY <1>3 DEF Moved
<1>5. \A j \in Slots : /\ run'[j].exec = run[j].exec /\ run'[j].gen = run[j].gen
                       /\ run'[j].pred = run[j].pred
                       /\ run'[j].state = "none" <=> run[j].state = "none"
                       /\ run[j].pred # 0 => run'[j].state = run[j].state
  BY <1>2, <1>4
<1> QED BY <1>4, <1>5, ChainStays

LEMMA ChainSignalled ==
  ASSUME Chained, UNCHANGED <<active, tail>>, NEW i \in Slots, run' = Signalled(i)
  PROVE  Chained'
<1>1. DOMAIN run = Slots
  BY DEF Chained, ChainOK
<1>2. /\ DOMAIN run' = Slots
      /\ \A j \in Slots : j # i => run'[j] = run[j]
      /\ run'[i].state = run[i].state /\ run'[i].exec = run[i].exec /\ run'[i].gen = run[i].gen
      /\ run'[i].pred = run[i].pred
  BY <1>1 DEF Signalled
<1>3. \A j \in Slots : /\ run'[j].exec = run[j].exec /\ run'[j].gen = run[j].gen
                       /\ run'[j].pred = run[j].pred
                       /\ run'[j].state = "none" <=> run[j].state = "none"
                       /\ run[j].pred # 0 => run'[j].state = run[j].state
  BY <1>2
<1> QED BY <1>2, <1>3, ChainStays

\* A registered run follows the tail, and no older run of its execution is newer.
LEMMA ChainSupervised ==
  ASSUME Chained, NEW e \in Executions, NEW g \in Nat, Supervise(e, g)
  PROVE  Chained'
<1>1. CASE Registered(e, g)
  BY <1>1, ChainKept DEF Supervise
<1>2. CASE ~Registered(e, g)
  <2>1. PICK i \in Slots :
           /\ ~Busy(i)
           /\ run' = [run EXCEPT ![i] = [state |-> "waiting", exec |-> e, gen |-> g,
                                          pred |-> tail, cancel |-> "no"]]
           /\ active' = [active EXCEPT ![e] = i] /\ tail' = i
    BY <1>2 DEF Supervise
  <2>2. PICK k : ChainOK(k, run, active, tail)
    BY DEF Chained
  <2>3. PICK n \in Nat : (tail # 0 => n = k[tail] + 1) /\ \A j \in InChain(run) : k[j] < n
    <3>1. CASE tail = 0
      BY <2>2, <3>1 DEF ChainOK
    <3>2. CASE tail # 0
      <4>1. k[tail] + 1 \in Nat /\ \A j \in InChain(run) : k[j] \in Nat /\ k[j] <= k[tail] /\ k[tail] \in Nat
        BY <2>2, <3>2 DEF ChainOK, InChain
      <4>2. \A j \in InChain(run) : k[j] < k[tail] + 1
        BY <4>1
      <4> QED BY <4>1, <4>2
    <3> QED BY <3>1, <3>2
  <2>4. PICK m : m = [k EXCEPT ![i] = n]
    OBVIOUS
  <2>5. m \in [Slots -> Nat] /\ m[i] = n /\ \A j \in Slots : j # i => m[j] = k[j]
    BY <2>2, <2>3, <2>4 DEF ChainOK
  <2>6. i \notin InChain(run) /\ InChain(run) \subseteq Slots
    BY <2>1 DEF InChain, Busy
  <2>7. /\ DOMAIN run' = Slots
        /\ \A j \in Slots : j # i => run'[j] = run[j]
        /\ run'[i].state = "waiting" /\ run'[i].exec = e /\ run'[i].gen = g /\ run'[i].pred = tail
    BY <2>1, <2>2 DEF ChainOK
  <2>8. InChain(run') = InChain(run) \cup {i}
    BY <2>6, <2>7 DEF InChain
  <2>9. /\ active' \in [Executions -> 0..Capacity]
        /\ active'[e] = i /\ \A f \in Executions : f # e => active'[f] = active[f]
    BY <2>1, <2>2, SupervisorAssumption DEF ChainOK, Slots
  <2>10. i # 0
    BY SupervisorAssumption DEF Slots
  <2>11. \A j \in InChain(run) : run'[j] = run[j] /\ m[j] = k[j] /\ m[j] < m[i] /\ m[j] \in Nat /\ j # i
    BY <2>2, <2>3, <2>5, <2>6, <2>7 DEF ChainOK
  <2>12. \A j \in InChain(run') : run'[j].gen \in Nat /\ run'[j].exec \in Executions
    BY <2>2, <2>7, <2>8, <2>11 DEF ChainOK
  <2>13. ASSUME NEW j \in InChain(run'), run'[j].pred # 0
         PROVE  run'[j].state = "waiting" /\ run'[j].pred \in InChain(run') /\ m[j] = m[run'[j].pred] + 1
    <3>1. CASE j = i
      <4>1. tail # 0 /\ tail \in InChain(run) /\ n = k[tail] + 1
        BY <2>2, <2>3, <2>7, <2>13, <3>1 DEF ChainOK
      <4> QED BY <2>5, <2>7, <2>8, <2>11, <3>1, <4>1
    <3>2. CASE j # i
      <4>1. j \in InChain(run) /\ run[j].pred # 0
        BY <2>8, <2>11, <2>13, <3>2
      <4>2. run[j].state = "waiting" /\ run[j].pred \in InChain(run) /\ k[j] = k[run[j].pred] + 1
        BY <2>2, <4>1 DEF ChainOK
      <4> QED BY <2>8, <2>11, <4>1, <4>2
    <3> QED BY <3>1, <3>2
  <2>14. ASSUME NEW j \in InChain(run'), NEW l \in InChain(run'), m[j] = m[l] PROVE j = l
    <3>1. CASE j # i /\ l # i
      <4>1. j \in InChain(run) /\ l \in InChain(run)
        BY <2>8, <3>1
      <4>2. k[j] = k[l]
        BY <2>11, <2>14, <4>1
      <4> QED BY <2>2, <4>1, <4>2 DEF ChainOK
    <3>2. CASE j = i /\ l # i
      <4>1. l \in InChain(run) /\ m[l] < n /\ m[l] \in Nat
        BY <2>5, <2>8, <2>11, <3>2
      <4> QED BY <2>3, <2>5, <2>14, <3>2, <4>1
    <3>3. CASE j # i /\ l = i
      <4>1. j \in InChain(run) /\ m[j] < n /\ m[j] \in Nat
        BY <2>5, <2>8, <2>11, <3>3
      <4> QED BY <2>3, <2>5, <2>14, <3>3, <4>1
    <3> QED BY <3>1, <3>2, <3>3
  <2>15. ASSUME NEW j \in InChain(run'), run'[j].pred = 0, NEW l \in InChain(run') PROVE m[j] <= m[l]
    <3>1. CASE j = i
      <4>1. InChain(run) = {}
        BY <2>2, <2>7, <2>15, <3>1 DEF ChainOK
      <4> QED BY <2>3, <2>5, <2>8, <3>1, <4>1
    <3>2. CASE j # i
      <4>1. j \in InChain(run) /\ run[j].pred = 0
        BY <2>8, <2>11, <2>15, <3>2
      <4>2. l # i => k[j] <= k[l]
        BY <2>2, <2>8, <4>1 DEF ChainOK
      <4> QED BY <2>3, <2>5, <2>8, <2>11, <4>1, <4>2
    <3> QED BY <3>1, <3>2
  <2>16. tail' \in InChain(run') /\ \A j \in InChain(run') : m[j] <= m[tail']
    <3>1. tail' = i /\ i \in InChain(run')
      BY <2>1, <2>8
    <3>2. ASSUME NEW j \in InChain(run') PROVE m[j] <= m[i]
      <4>1. CASE j = i
        BY <2>3, <2>5, <4>1
      <4>2. CASE j # i
        <5>1. m[j] < m[i] /\ m[j] \in Nat /\ m[i] \in Nat
          BY <2>3, <2>5, <2>8, <2>11, <4>2
        <5> QED BY <5>1
      <4> QED BY <4>1, <4>2
    <3> QED BY <3>1, <3>2
  <2>17. \A f \in Executions : active'[f] # 0 => active'[f] \in InChain(run') /\ run'[active'[f]].exec = f
    BY <2>2, <2>7, <2>8, <2>9, <2>11 DEF ChainOK
  <2>18. ASSUME NEW j \in InChain(run')
         PROVE  /\ active'[run'[j].exec] # 0 /\ m[j] <= m[active'[run'[j].exec]]
                /\ run'[j].gen <= run'[active'[run'[j].exec]].gen
    <3>1. CASE j = i
      BY <2>3, <2>5, <2>7, <2>9, <2>10, <3>1
    <3>2. CASE j # i /\ run'[j].exec = e
      <4>1. j \in InChain(run) /\ run[j].exec = e
        BY <2>8, <2>11, <3>2
      <4>2. active[e] # 0 /\ active[e] \in InChain(run) /\ run[j].gen <= run[active[e]].gen
        BY <2>2, <4>1 DEF ChainOK
      <4>3. ~(run[active[e]].gen >= g)
        BY <1>2, <4>2 DEF Registered
      <4>4. run[active[e]].gen \in Nat /\ run[j].gen \in Nat
        BY <2>2, <4>1, <4>2 DEF ChainOK
      <4>5. run[j].gen <= g
        BY <4>2, <4>3, <4>4
      <4>6. m[j] <= m[i]
        BY <2>3, <2>5, <2>11, <4>1
      <4> QED BY <2>7, <2>9, <2>10, <2>11, <3>2, <4>1, <4>5, <4>6
    <3>3. CASE j # i /\ run'[j].exec # e
      <4>1. j \in InChain(run) /\ run'[j] = run[j] /\ run[j].exec \in Executions
        BY <2>2, <2>8, <2>11, <3>3 DEF ChainOK
      <4>2. PICK f : f = run[j].exec
        OBVIOUS
      <4>3. active[f] # 0 /\ active[f] \in InChain(run) /\ k[j] <= k[active[f]] /\ run[j].gen <= run[active[f]].gen
        BY <2>2, <4>1, <4>2 DEF ChainOK
      <4>4. active'[f] = active[f]
        BY <2>9, <3>3, <4>1, <4>2
      <4> QED BY <2>11, <4>1, <4>2, <4>3, <4>4
    <3> QED BY <3>1, <3>2, <3>3
  <2>19. ChainOK(m, run', active', tail')
    BY <2>1, <2>5, <2>7, <2>9, <2>10, <2>12, <2>13, <2>14, <2>15, <2>16, <2>17, <2>18 DEF ChainOK
  <2> QED BY <2>19 DEF Chained
<1> QED BY <1>1, <1>2

\* The run whose turn it was leaves the chain and its successor comes first.
LEMMA ChainRetired ==
  ASSUME Chained, NEW i \in Slots, Retire(i)
  PROVE  Chained'
<1>1. /\ run[i].state \in {"exiting", "queuePaused"}
      /\ active' = Deregistered(i) /\ tail' = (IF tail = i THEN 0 ELSE tail)
      /\ run' = [j \in Slots |-> IF j = i THEN NoRun
                                 ELSE IF run[j].pred = i THEN Unchained(j) ELSE run[j]]
  BY DEF Retire
<1>2. PICK k : ChainOK(k, run, active, tail)
  BY DEF Chained
<1>3. i \in InChain(run) /\ run[i].pred = 0 /\ InChain(run) \subseteq Slots
  BY <1>1, <1>2 DEF ChainOK, InChain
<1>4. ASSUME NEW j \in Slots, j # i
      PROVE  /\ run'[j].state = run[j].state /\ run'[j].exec = run[j].exec /\ run'[j].gen = run[j].gen
             /\ run[j].pred = i => run'[j].pred = 0
             /\ run[j].pred # i => run'[j].pred = run[j].pred
  <2>1. run'[j] = IF run[j].pred = i THEN Unchained(j) ELSE run[j]
    BY <1>1, <1>4
  <2> QED BY <2>1 DEF Unchained
<1>5. run'[i].state = "none" /\ DOMAIN run' = Slots
  BY <1>1 DEF NoRun
<1>6. InChain(run') = InChain(run) \ {i}
  BY <1>4, <1>5 DEF InChain
<1>7. ASSUME NEW j \in InChain(run') PROVE k[i] < k[j] /\ k[j] \in Nat /\ k[i] \in Nat
  <2>1. k[i] <= k[j] /\ k[i] # k[j] /\ k[j] \in Nat /\ k[i] \in Nat
    BY <1>2, <1>3, <1>6 DEF ChainOK
  <2> QED BY <2>1
<1>8. \A e \in Executions : /\ active[e] = i => active'[e] = 0
                            /\ active[e] # i => active'[e] = active[e]
  <2>1. ASSUME NEW e \in Executions, active[e] = i PROVE e = run[i].exec
    <3>1. i # 0
      BY SupervisorAssumption DEF Slots
    <3> QED BY <1>2, <2>1, <3>1 DEF ChainOK
  <2> QED BY <1>1, <2>1 DEF Deregistered
<1>9. active' \in [Executions -> 0..Capacity]
  BY <1>1, <1>2, SupervisorAssumption DEF Deregistered, ChainOK
<1>10. \A j \in InChain(run') : run'[j].gen \in Nat /\ run'[j].exec \in Executions
  BY <1>2, <1>3, <1>4, <1>6 DEF ChainOK
<1>11. ASSUME NEW j \in InChain(run'), run'[j].pred # 0
       PROVE  run'[j].state = "waiting" /\ run'[j].pred \in InChain(run') /\ k[j] = k[run'[j].pred] + 1
  <2>1. j \in InChain(run) /\ j # i /\ j \in Slots
    BY <1>3, <1>6
  <2>2. run[j].pred # i /\ run'[j].pred = run[j].pred /\ run[j].pred # 0
    BY <1>4, <1>11, <2>1
  <2>3. run[j].state = "waiting" /\ run[j].pred \in InChain(run) /\ k[j] = k[run[j].pred] + 1
    BY <1>2, <2>1, <2>2 DEF ChainOK
  <2> QED BY <1>4, <1>6, <2>1, <2>2, <2>3
<1>12. ASSUME NEW j \in InChain(run'), run'[j].pred = 0, NEW l \in InChain(run') PROVE k[j] <= k[l]
  <2>1. j \in InChain(run) /\ j # i /\ j \in Slots /\ l \in InChain(run)
    BY <1>3, <1>6
  <2>2. CASE run[j].pred = i
    <3>1. i # 0
      BY SupervisorAssumption DEF Slots
    <3>2. k[j] = k[i] + 1
      BY <1>2, <2>1, <2>2, <3>1 DEF ChainOK
    <3> QED BY <1>7, <3>2
  <2>3. CASE run[j].pred # i
    <3>1. run[j].pred = 0
      BY <1>4, <1>12, <2>1, <2>3
    <3> QED BY <1>2, <2>1, <3>1 DEF ChainOK
  <2> QED BY <2>2, <2>3
<1>13. CASE tail = i
  <2>1. ASSUME NEW j \in InChain(run') PROVE FALSE
    <3>1. i # 0
      BY SupervisorAssumption DEF Slots
    <3>2. k[j] <= k[i]
      BY <1>2, <1>6, <1>13, <3>1 DEF ChainOK
    <3> QED BY <1>7, <3>2
  <2>2. tail' = 0 /\ InChain(run') = {}
    BY <1>1, <1>13, <2>1
  <2>3. \A e \in Executions : active'[e] = 0
    <3> SUFFICES ASSUME NEW e \in Executions, active'[e] # 0 PROVE FALSE
      OBVIOUS
    <3>1. active[e] # i /\ active[e] # 0
      BY <1>8
    <3>2. active[e] \in InChain(run)
      BY <1>2, <3>1 DEF ChainOK
    <3> QED BY <1>6, <2>2, <3>1, <3>2
  <2>4. ChainOK(k, run', active', tail')
    BY <1>2, <1>5, <1>9, <2>2, <2>3 DEF ChainOK
  <2> QED BY <2>4 DEF Chained
<1>14. CASE tail # i
  <2>1. tail # 0 /\ tail' = tail
    BY <1>1, <1>2, <1>3, <1>14 DEF ChainOK
  <2>2. tail \in InChain(run') /\ \A j \in InChain(run') : k[j] <= k[tail]
    BY <1>2, <1>6, <1>14, <2>1 DEF ChainOK
  <2>3. ASSUME NEW e \in Executions, active'[e] # 0
        PROVE  active'[e] \in InChain(run') /\ run'[active'[e]].exec = e
    <3>1. active[e] # i /\ active[e] # 0 /\ active'[e] = active[e]
      BY <1>8, <2>3
    <3>2. active[e] \in InChain(run) /\ run[active[e]].exec = e
      BY <1>2, <3>1 DEF ChainOK
    <3> QED BY <1>3, <1>4, <1>6, <3>1, <3>2
  <2>4. ASSUME NEW j \in InChain(run')
        PROVE  /\ active'[run'[j].exec] # 0 /\ k[j] <= k[active'[run'[j].exec]]
               /\ run'[j].gen <= run'[active'[run'[j].exec]].gen
    <3>1. j \in InChain(run) /\ j # i /\ j \in Slots
      BY <1>3, <1>6
    <3>2. PICK e : e = run[j].exec
      OBVIOUS
    <3>3. /\ e \in Executions /\ active[e] # 0 /\ active[e] \in InChain(run) /\ k[j] <= k[active[e]]
          /\ run[j].gen <= run[active[e]].gen
      BY <1>2, <3>1, <3>2 DEF ChainOK
    <3>4. active[e] # i
      BY <1>7, <3>3
    <3>5. active'[e] = active[e] /\ active[e] \in Slots
      BY <1>3, <1>8, <3>3, <3>4
    <3>6. run'[j].exec = e /\ run'[j].gen = run[j].gen /\ run'[active[e]].gen = run[active[e]].gen
      BY <1>4, <3>1, <3>2, <3>4, <3>5
    <3> QED BY <3>3, <3>5, <3>6
  <2>5. \A j, l \in InChain(run') : k[j] = k[l] => j = l
    BY <1>2, <1>6 DEF ChainOK
  <2>6. k \in [Slots -> Nat]
    BY <1>2 DEF ChainOK
  <2>7. ChainOK(k, run', active', tail')
    BY <1>5, <1>9, <1>10, <1>11, <1>12, <2>1, <2>2, <2>3, <2>4, <2>5, <2>6 DEF ChainOK
  <2> QED BY <2>7 DEF Chained
<1> QED BY <1>13, <1>14

(***************************************************************************)
(* Every step keeps the chain and the generations to be registered         *)
(***************************************************************************)
LEMMA SnapMoves ==
  ASSUME SnapsOK, NEW a \in Actors, NEW o, op' = [op EXCEPT ![a] = o], SnapOK(o)
  PROVE  SnapsOK'
<1>1. DOMAIN op' = Actors /\ \A b \in Actors : op'[b] = IF b = a THEN o ELSE op[b]
  BY DEF SnapsOK
<1> QED BY <1>1 DEF SnapsOK

LEMMA SnapsKept ==
  ASSUME SnapsOK, UNCHANGED op
  PROVE  SnapsOK'
BY DEF SnapsOK

LEMMA SnapDone ==
  ASSUME SnapsOK, NEW a \in Actors, Done(a)
  PROVE  SnapsOK'
<1>1. SnapOK(NoOp)
  BY DEF SnapOK, NoOp
<1> QED BY <1>1, SnapMoves DEF Done

LEMMA SnapProceeds ==
  ASSUME SnapsOK, NEW a \in Actors, NEW p, NEW e, NEW g, p = "supervise" => g \in Nat,
         Proceed(a, p, e, g)
  PROVE  SnapsOK'
<1>1. PICK o : o = [kind |-> op[a].kind, pc |-> p, exec |-> e, gen |-> g,
                    was |-> op[a].was, snap |-> op[a].snap]
  OBVIOUS
<1>2. op' = [op EXCEPT ![a] = o] /\ o.pc = p /\ o.gen = g /\ o.snap = op[a].snap
  BY <1>1 DEF Proceed
<1>3. SnapOK(op[a])
  BY DEF SnapsOK
<1>4. SnapOK(o)
  BY <1>2, <1>3 DEF SnapOK
<1> QED BY <1>2, <1>4, SnapMoves

LEMMA SnapBegins ==
  ASSUME SnapsOK, NEW a \in Actors, NEW k, NEW p, p # "supervise", NEW e, NEW g,
         op' = [op EXCEPT ![a] = Begun(k, p, e, g)]
  PROVE  SnapsOK'
<1>1. PICK o : o = Begun(k, p, e, g)
  OBVIOUS
<1>2. o.pc = p /\ o.snap = [f \in Executions |-> 0]
  BY <1>1 DEF Begun
<1>3. SnapOK(o)
  BY <1>2 DEF SnapOK
<1> QED BY <1>1, <1>3, SnapMoves

Registry == Chained /\ SnapsOK

LEMMA RegistryRuns ==
  ASSUME IInv, Registry, NEW i \in Slots, RunStep(i) \/ Output(i) \/ Panic(i)
  PROVE  Registry'
<1>1. UNCHANGED op
  BY DEF RunStep, Output, Panic, Start, Claim, Refused, Finish, Retire
<1>2. SnapsOK'
  BY <1>1, SnapsKept DEF Registry
<1>3. CASE Retire(i)
  BY <1>2, <1>3, ChainRetired DEF Registry
<1>4. CASE Output(i)
  BY <1>2, <1>4, ChainKept DEF Registry, Output
<1>5. CASE Start(i)
  <2>1. run[i].state = "waiting" /\ run[i].pred = 0 /\ run' = Moved(i, "locked") /\ UNCHANGED <<active, tail>>
    BY <1>5 DEF Start
  <2>2. Chained'
    BY <2>1, ChainMoved DEF Registry
  <2> QED BY <1>2, <2>2 DEF Registry
<1>6. CASE Claim(i)
  <2>1. run[i].state = "locked" /\ run' = Moved(i, "driving") /\ UNCHANGED <<active, tail>>
    BY <1>6 DEF Claim
  <2>2. Chained'
    BY <2>1, ChainMoved DEF Registry
  <2> QED BY <1>2, <2>2 DEF Registry
<1>7. CASE Refused(i)
  <2>1. PICK s \in {"queuePaused", "exiting"} : run' = Moved(i, s)
    BY <1>7 DEF Refused
  <2>2. run[i].state = "locked" /\ UNCHANGED <<active, tail>>
    BY <1>7 DEF Refused
  <2>3. Chained'
    BY <2>1, <2>2, ChainMoved DEF Registry
  <2> QED BY <1>2, <2>3 DEF Registry
<1>8. CASE Finish(i) \/ Panic(i)
  <2>1. run[i].state = "driving" /\ run' = Moved(i, "exiting") /\ UNCHANGED <<active, tail>>
    BY <1>8 DEF Finish, Panic
  <2>2. Chained'
    BY <2>1, ChainMoved DEF Registry
  <2> QED BY <1>2, <2>2 DEF Registry
<1> QED BY <1>3, <1>4, <1>5, <1>6, <1>7, <1>8 DEF RunStep

\* The steps that register a run.
LEMMA RegistryRegisters ==
  ASSUME IInv, Registry, NEW a \in Actors, NEW e \in Executions, Register(a, e)
  PROVE  Registry'
<1>1. PICK g : g = op[a].snap[e]
  OBVIOUS
<1>2. SnapOK(op[a])
  BY DEF Registry, SnapsOK
<1>3. g \in Nat
  BY <1>1, <1>2 DEF SnapOK
<1>4. CASE ~Registered(e, g) /\ Full
  <2>1. Done(a) /\ UNCHANGED <<run, active, tail>>
    BY <1>1, <1>4, Zenon DEF Register
  <2> QED BY <2>1, SnapDone, ChainKept DEF Registry
<1>5. CASE ~(~Registered(e, g) /\ Full)
  <2>1. Supervise(e, g)
    BY <1>1, <1>5, Zenon DEF Register
  <2>2. PICK s : s = [op[a].snap EXCEPT ![e] = 0]
    OBVIOUS
  <2>3. PICK o : o = [kind |-> op[a].kind, pc |-> "register", exec |-> op[a].exec,
                      gen |-> op[a].gen, was |-> op[a].was, snap |-> s]
    OBVIOUS
  <2>4. op' = [op EXCEPT ![a] = o]
    BY <1>1, <1>5, <2>2, <2>3, Zenon DEF Register
  <2>5. o.pc = "register" /\ o.snap = s
    BY <2>3
  <2>6. SnapOK(o)
    BY <1>2, <2>2, <2>5 DEF SnapOK
  <2> QED BY <1>3, <2>1, <2>4, <2>6, SnapMoves, ChainSupervised DEF Registry
<1> QED BY <1>4, <1>5

LEMMA RegistryAdmits ==
  ASSUME IInv, Registry, NEW a \in Actors, Admit(a)
  PROVE  Registry'
<1>1. op[a].pc = "supervise" /\ Supervise(op[a].exec, op[a].gen) /\ Done(a)
  BY DEF Admit
<1>2. SnapOK(op[a])
  BY DEF Registry, SnapsOK
<1>3. op[a].gen \in Nat
  BY <1>1, <1>2 DEF SnapOK
<1>4. OpOK(a, op[a], holder, phase, gen)
  BY DEF IInv, OpsOK
<1>5. op[a].exec \in Executions
  BY <1>1, <1>4 DEF OpOK
<1> QED BY <1>1, <1>3, <1>5, SnapDone, ChainSupervised DEF Registry

LEMMA RegistrySnapshots ==
  ASSUME IInv, Registry, NEW a \in Actors, Snapshot(a)
  PROVE  Registry'
<1>1. PICK s : s = [e \in Executions |-> IF paused = "no" /\ phase[e] = "queued" THEN gen[e] ELSE 0]
  OBVIOUS
<1>2. s \in [Executions -> Nat]
  BY <1>1 DEF IInv, RunsTyped
<1>3. PICK o : o = [kind |-> op[a].kind, pc |-> "register", exec |-> op[a].exec,
                    gen |-> op[a].gen, was |-> op[a].was, snap |-> s]
  OBVIOUS
<1>4. op' = [op EXCEPT ![a] = o] /\ UNCHANGED <<run, active, tail>>
  BY <1>1, <1>3, Zenon DEF Snapshot
<1>5. SnapOK(o)
  BY <1>2, <1>3 DEF SnapOK
<1> QED BY <1>4, <1>5, SnapMoves, ChainKept DEF Registry

\* The steps that commit an attempt.
LEMMA RegistryCommits ==
  ASSUME IInv, Registry, NEW a \in Actors, Send(a) \/ Continue(a)
  PROVE  Registry'
<1>1. UNCHANGED <<run, active, tail>>
  BY DEF Send, Continue
<1>2. CASE Send(a)
  <2>1. \E e : Proceed(a, "supervise", e, 1)
    BY <1>2, Zenon DEF Send
  <2> QED BY <1>1, <2>1, SnapProceeds, ChainKept DEF Registry
<1>3. CASE Continue(a)
  <2>1. PICK e : e = op[a].exec
    OBVIOUS
  <2>2. PICK g : g = gen[e] + 1
    OBVIOUS
  <2>3. op[a].pc = "commit" /\ e # 0 /\ Proceed(a, "supervise", e, g)
    BY <1>3, <2>1, <2>2 DEF Continue
  <2>4. OpOK(a, op[a], holder, phase, gen)
    BY DEF IInv, OpsOK
  <2>5. e \in Executions
    BY <2>1, <2>3, <2>4, SupervisorAssumption DEF OpOK, Executions
  <2>6. g \in Nat
    BY <2>2, <2>5 DEF IInv, RunsTyped
  <2> QED BY <1>1, <2>3, <2>6, SnapProceeds, ChainKept DEF Registry
<1> QED BY <1>2, <1>3

\* The steps that may signal a run.
LEMMA RegistrySignals ==
  ASSUME IInv, Registry, NEW a \in Actors, Signal(a) \/ Fence(a)
  PROVE  Registry'
<1>1. PICK e : e = op[a].exec
  OBVIOUS
<1>2. OpOK(a, op[a], holder, phase, gen)
  BY DEF IInv, OpsOK
<1>3. op[a].pc \in {"signal", "fence"}
  BY DEF Signal, Fence
<1>4. e \in Executions
  BY <1>1, <1>2, <1>3 DEF OpOK
<1>5. /\ UNCHANGED <<active, tail>>
      /\ run' = run \/ (active[e] # 0 /\ run' = Signalled(active[e]))
  BY <1>1 DEF Signal, Fence
<1>6. active[e] # 0 => active[e] \in Slots
  BY <1>4, SupervisorAssumption DEF IInv, RunsTyped, Slots
<1>7. Chained'
  BY <1>5, <1>6, ChainKept, ChainSignalled DEF Registry
<1>8. SnapsOK'
  <2>1. CASE Signal(a)
    <3>1. \E f, g : Proceed(a, "cancel", f, g) \/ Proceed(a, "empty", f, g) \/ Proceed(a, "settling", f, g)
      BY <2>1 DEF Signal, Goto
    <3> QED BY <3>1, SnapProceeds DEF Registry
  <2>2. CASE Fence(a)
    BY <2>2, SnapDone DEF Fence, Registry
  <2> QED BY <2>1, <2>2
<1> QED BY <1>7, <1>8 DEF Registry

\* The steps that only move the operation.
LEMMA RegistryMoves ==
  ASSUME IInv, Registry, NEW a \in Actors,
         Lock(a) \/ Settlement(a) \/ Restored(a) \/ Reject(a) \/ SetPause(a) \/ Cancel(a) \/ Empty(a) \/ Unpause(a)
  PROVE  Registry'
<1>1. UNCHANGED <<run, active, tail>>
  BY DEF Lock, Settlement, Restored, Reject, SetPause, Cancel, Empty, Unpause
<1>2. Chained'
  BY <1>1, ChainKept DEF Registry
<1>3. OpOK(a, op[a], holder, phase, gen) /\ SnapOK(op[a])
  BY DEF IInv, OpsOK, Registry, SnapsOK
<1>4. ASSUME NEW p, p # "supervise", Goto(a, p) PROVE SnapsOK'
  BY <1>4, SnapProceeds DEF Goto, Registry
<1>5. CASE Lock(a)
  <2>1. op[a].kind \in {"submit", "continue", "pause", "resume", "stop", "attempt"}
    BY <1>3, <1>5, SupervisorAssumption DEF OpOK, Lock
  <2>2. FirstStep(op[a].kind) # "supervise"
    BY <2>1 DEF FirstStep
  <2> QED BY <1>2, <1>4, <1>5, <2>2 DEF Lock, Registry
<1>6. CASE Settlement(a)
  BY <1>2, <1>4, <1>6 DEF Settlement, Registry
<1>7. CASE Restored(a)
  <2>1. Done(a) \/ \E e, g : Proceed(a, "commit", e, g)
    BY <1>7 DEF Restored
  <2> QED BY <1>2, <2>1, SnapDone, SnapProceeds DEF Registry
<1>8. CASE Reject(a) \/ Unpause(a)
  BY <1>2, <1>8, SnapDone DEF Reject, Unpause, Registry
<1>9. CASE Empty(a)
  <2>1. Done(a) \/ Goto(a, "unpause")
    BY <1>9 DEF Empty
  <2> QED BY <1>2, <1>4, <2>1, SnapDone DEF Registry
<1>10. CASE Cancel(a)
  <2>1. op[a].kind \in {"watch", "stop"}
    BY <1>3, <1>10 DEF OpOK, Cancel
  <2>2. Done(a) \/ Goto(a, "settling") \/ Goto(a, "empty")
    BY <1>10, <2>1 DEF Cancel
  <2> QED BY <1>2, <1>4, <2>2, SnapDone DEF Registry
<1>11. CASE SetPause(a)
  <2>1. op[a].kind \in {"pause", "resume", "stop"}
    BY <1>3, <1>11 DEF OpOK, SetPause
  <2>2. CASE op[a].kind = "pause"
    <3>1. Done(a)
      BY <1>11, <2>2 DEF SetPause
    <3> QED BY <1>2, <3>1, SnapDone DEF Registry
  <2>3. CASE op[a].kind = "resume"
    <3>1. Goto(a, "restore")
      BY <1>11, <2>3 DEF SetPause
    <3> QED BY <1>2, <1>4, <3>1 DEF Registry
  <2>4. CASE op[a].kind = "stop"
    <3>1. PICK o : o = [kind |-> "stop", pc |-> "signal", exec |-> op[a].exec,
                        gen |-> op[a].gen, was |-> paused, snap |-> op[a].snap]
      OBVIOUS
    <3>2. op' = [op EXCEPT ![a] = o]
      BY <1>11, <2>4, <3>1 DEF SetPause
    <3>3. SnapOK(o)
      BY <1>3, <3>1 DEF SnapOK
    <3> QED BY <1>2, <3>2, <3>3, SnapMoves DEF Registry
  <2> QED BY <2>1, <2>2, <2>3, <2>4
<1> QED BY <1>5, <1>6, <1>7, <1>8, <1>9, <1>10, <1>11

LEMMA RegistryRest ==
  ASSUME IInv, Registry, Recover \/ Scan \/ TimeOut \/ SettleAgent \/ Crash
  PROVE  Registry'
<1>1. {"recovery", "scan", "watch"} \subseteq Actors
  BY DEF Actors
<1>2. CASE Recover \/ Scan
  <2>1. \E a \in {"recovery", "scan"} : op' = [op EXCEPT ![a] = Begun(a, "restore", 0, 0)]
    BY <1>2, Zenon DEF Recover, Scan
  <2>2. UNCHANGED <<run, active, tail>>
    BY <1>2 DEF Recover, Scan
  <2> QED BY <1>1, <2>1, <2>2, SnapBegins, ChainKept DEF Registry
<1>3. CASE TimeOut
  <2>1. \E e, g : Proceed("watch", "signal", e, g)
    BY <1>3 DEF TimeOut, Goto
  <2>2. UNCHANGED <<run, active, tail>>
    BY <1>3 DEF TimeOut
  <2> QED BY <1>1, <2>1, <2>2, SnapProceeds, ChainKept DEF Registry
<1>4. CASE SettleAgent
  <2>1. Done("watch") /\ UNCHANGED <<run, active, tail>>
    BY <1>4 DEF SettleAgent
  <2> QED BY <1>1, <2>1, SnapDone, ChainKept DEF Registry
<1>5. CASE Crash
  <2>1. /\ run' = [i \in Slots |-> NoRun] /\ active' = [e \in Executions |-> 0] /\ tail' = 0
        /\ op' = [a \in Actors |-> NoOp]
    BY <1>5 DEF Crash
  <2>2. SnapsOK'
    BY <2>1 DEF SnapsOK, SnapOK, NoOp
  <2>3. InChain(run') = {} /\ DOMAIN run' = Slots
    BY <2>1 DEF InChain, NoRun
  <2>4. 0 \in 0..Capacity
    BY SupervisorAssumption
  <2>5. PICK k : k = [i \in Slots |-> 0]
    OBVIOUS
  <2>6. ChainOK(k, run', active', tail')
    BY <2>1, <2>3, <2>4, <2>5 DEF ChainOK
  <2> QED BY <2>2, <2>6 DEF Registry, Chained
<1> QED BY <1>2, <1>3, <1>4, <1>5

LEMMA RegistryInit ==
  ASSUME Init
  PROVE  Registry
<1>1. 0 \in 0..Capacity /\ 1 \in 0..Capacity /\ 1 \in Executions /\ 1 \in Slots /\ \A i \in Slots : i # 0
  BY SupervisorAssumption DEF Slots, Executions
<1>2. PICK k : k = [i \in Slots |-> 0]
  OBVIOUS
<1>3. k \in [Slots -> Nat] /\ \A i \in Slots : k[i] = 0
  BY <1>2
<1>4. DOMAIN run = Slots /\ active \in [Executions -> 0..Capacity]
  BY <1>1 DEF Init
<1>5. SnapsOK
  <2>1. DOMAIN op = Actors
    BY DEF Init
  <2>2. ASSUME NEW a \in Actors PROVE SnapOK(op[a])
    <3>1. op[a].snap = [f \in Executions |-> 0] /\ op[a].pc \in {"watching", "idle"}
      BY DEF Init, NoOp
    <3> QED BY <3>1 DEF SnapOK
  <2> QED BY <2>1, <2>2 DEF SnapsOK
<1>6. CASE Agent = "yes"
  <2>1. /\ tail = 1 /\ run[1].state = "waiting" /\ run[1].exec = 1 /\ run[1].gen = 1 /\ run[1].pred = 0
        /\ active[1] = 1 /\ \A e \in Executions : e # 1 => active[e] = 0
    BY <1>1, <1>6 DEF Init
  <2>2. \A i \in Slots : i # 1 => run[i] = NoRun
    BY <1>6 DEF Init
  <2>3. InChain(run) = {1}
    BY <1>1, <2>1, <2>2 DEF InChain, NoRun
  <2>4. ChainOK(k, run, active, tail)
    BY <1>1, <1>3, <1>4, <2>1, <2>3 DEF ChainOK
  <2> QED BY <1>5, <2>4 DEF Registry, Chained
<1>7. CASE Agent # "yes"
  <2>1. tail = 0 /\ \A e \in Executions : active[e] = 0
    BY <1>7 DEF Init
  <2>2. \A i \in Slots : run[i] = NoRun
    BY <1>7 DEF Init
  <2>3. InChain(run) = {}
    BY <2>2 DEF InChain, NoRun
  <2>4. ChainOK(k, run, active, tail)
    BY <1>3, <1>4, <2>1, <2>3 DEF ChainOK
  <2> QED BY <1>5, <2>4 DEF Registry, Chained
<1> QED BY <1>6, <1>7

LEMMA RegistryNext ==
  ASSUME IInv, Registry, [Next]_vars
  PROVE  Registry'
<1>1. CASE UNCHANGED vars
  BY <1>1, ChainKept, SnapsKept DEF Registry, vars
<1>2. ASSUME NEW a \in Actors, OpStep(a) PROVE Registry'
  BY <1>2, RegistryRegisters, RegistryAdmits, RegistrySnapshots, RegistryCommits, RegistrySignals,
     RegistryMoves DEF OpStep
<1>3. ASSUME NEW c \in Callers, NEW k \in Kinds, NEW e \in 0..MaxExecutions, NEW g \in 0..MaxGen,
             Ask(c, k, e, g)
      PROVE  Registry'
  <2>1. op' = [op EXCEPT ![c] = Begun(k, "lock", e, g)] /\ UNCHANGED <<run, active, tail>> /\ c \in Actors
    BY <1>3 DEF Ask, Actors
  <2> QED BY <2>1, SnapBegins, ChainKept DEF Registry
<1> QED BY <1>1, <1>2, <1>3, RegistryRuns, RegistryRest DEF Next

\* The registry knows the newest run of every execution and no settled one: runs
\* of one execution retire in the order of the dispatch chain, which is the order
\* of their generations (execution.rs, supervise and the retirement of a run).
THEOREM SupervisorRegistryExact == Spec => []RegistryExact
<1>1. Init => Registry
  BY RegistryInit
<1>2. IInv /\ Registry /\ [Next]_vars => Registry'
  BY RegistryNext
<1>3. Registry => RegistryExact
  <2> SUFFICES ASSUME Registry, NEW e \in Executions
               PROVE  /\ active[e] # 0 => Busy(active[e]) /\ run[active[e]].exec = e
                      /\ \A i \in Slots : Busy(i) /\ run[i].exec = e =>
                            active[e] # 0 /\ run[active[e]].gen >= run[i].gen
    BY DEF RegistryExact
  <2>1. PICK k : ChainOK(k, run, active, tail)
    BY DEF Registry, Chained
  <2>2. active[e] # 0 => Busy(active[e]) /\ run[active[e]].exec = e
    BY <2>1 DEF ChainOK, InChain, Busy
  <2>3. ASSUME NEW i \in Slots, Busy(i), run[i].exec = e
        PROVE  active[e] # 0 /\ run[active[e]].gen >= run[i].gen
    <3>1. i \in InChain(run)
      BY <2>3 DEF InChain, Busy
    <3>2. active[e] # 0 /\ run[i].gen <= run[active[e]].gen
      BY <2>1, <2>3, <3>1 DEF ChainOK
    <3>3. active[e] \in InChain(run)
      BY <2>1, <3>2 DEF ChainOK
    <3>4. run[i].gen \in Nat /\ run[active[e]].gen \in Nat
      BY <2>1, <3>1, <3>3 DEF ChainOK
    <3> QED BY <3>2, <3>4
  <2> QED BY <2>2, <2>3
<1> QED BY <1>1, <1>2, <1>3, Invariance, PTL DEF Spec

(***************************************************************************)
(* Types and permits.  Whoever is about to hand a permit to a run has one, *)
(* so a permit moves from the operation to its run and none is created.    *)
(***************************************************************************)
BusySlots     == {i \in Slots : Busy(i)}
PermitHolders == {a \in Actors : HoldsPermit(a)}

DataTyped == RunsTyped /\ gen \in [Executions -> 0..MaxGen] /\ sent \in 0..MaxExecutions

RunsInType == run \in [Slots -> RunType]

OpsTyped ==
  /\ op \in [Actors -> OpType] /\ holder \in Actors \cup {"none"}
  /\ \A a \in Actors : op[a].pc = "supervise" => HoldsPermit(a)

Counted == recovering \in Nat /\ ops \in Nat /\ crashes \in Nat /\ panics \in Nat

Typed == DataTyped /\ RunsInType /\ OpsTyped /\ Counted /\ Admitted <= Capacity

LEMMA TypedIsTypeOK == Typed => TypeOK
BY DEF TypeOK, Typed, DataTyped, RunsTyped, RunsInType, OpsTyped, Counted

LEMMA PermitsFinite ==
  /\ \A B \in SUBSET Slots : IsFiniteSet(B) /\ Cardinality(B) \in Nat
  /\ \A H \in SUBSET Actors : IsFiniteSet(H) /\ Cardinality(H) \in Nat
<1>1. IsFiniteSet(Slots)
  BY SupervisorAssumption, FS_Interval DEF Slots
<1>2. IsFiniteSet({"recovery", "scan", "watch"})
  <2>1. IsFiniteSet({"recovery"})
    BY FS_Singleton
  <2>2. IsFiniteSet({"recovery"} \cup {"scan"})
    BY <2>1, FS_AddElement
  <2>3. IsFiniteSet(({"recovery"} \cup {"scan"}) \cup {"watch"})
    BY <2>2, FS_AddElement
  <2>4. ({"recovery"} \cup {"scan"}) \cup {"watch"} = {"recovery", "scan", "watch"}
    OBVIOUS
  <2> QED BY <2>3, <2>4
<1>3. IsFiniteSet(Actors)
  BY <1>2, SupervisorAssumption, FS_Union DEF Actors
<1> QED BY <1>1, <1>3, FS_Subset, FS_CardinalityType

\* Nobody gets a permit.
LEMMA NoneAdmitted ==
  ASSUME Admitted <= Capacity, BusySlots' \subseteq BusySlots, PermitHolders' \subseteq PermitHolders
  PROVE  Admitted' <= Capacity
<1>1. /\ BusySlots \in SUBSET Slots /\ BusySlots' \in SUBSET Slots
      /\ PermitHolders \in SUBSET Actors /\ PermitHolders' \in SUBSET Actors
  BY DEF BusySlots, PermitHolders
<1>2. Cardinality(BusySlots') <= Cardinality(BusySlots)
  BY <1>1, PermitsFinite, FS_Subset
<1>3. Cardinality(PermitHolders') <= Cardinality(PermitHolders)
  BY <1>1, PermitsFinite, FS_Subset
<1>4. /\ Cardinality(BusySlots) \in Nat /\ Cardinality(BusySlots') \in Nat
      /\ Cardinality(PermitHolders) \in Nat /\ Cardinality(PermitHolders') \in Nat
  BY <1>1, PermitsFinite
<1>5. /\ Admitted = Cardinality(BusySlots) + Cardinality(PermitHolders)
      /\ Admitted' = Cardinality(BusySlots') + Cardinality(PermitHolders')
  BY DEF Admitted, BusySlots, PermitHolders
<1> QED BY <1>2, <1>3, <1>4, <1>5, SupervisorAssumption

LEMMA OneMore ==
  ASSUME NEW S, NEW T, NEW x, IsFiniteSet(S), T \subseteq S \cup {x}
  PROVE  Cardinality(T) <= Cardinality(S) + 1
<1>1. IsFiniteSet(S \cup {x})
  BY FS_AddElement
<1>2. Cardinality(S \cup {x}) = IF x \in S THEN Cardinality(S) ELSE Cardinality(S) + 1
  BY FS_AddElement
<1>3. Cardinality(S) \in Nat
  BY FS_CardinalityType
<1>4. IsFiniteSet(T) /\ Cardinality(T) <= Cardinality(S \cup {x})
  BY <1>1, FS_Subset
<1>5. Cardinality(T) \in Nat
  BY <1>4, FS_CardinalityType
<1> QED BY <1>2, <1>3, <1>4, <1>5

\* A run or a submission is admitted while there is a permit.
LEMMA OneAdmitted ==
  ASSUME ~Full, NEW i, NEW a,
         \/ BusySlots' \subseteq BusySlots \cup {i} /\ PermitHolders' \subseteq PermitHolders
         \/ BusySlots' \subseteq BusySlots /\ PermitHolders' \subseteq PermitHolders \cup {a}
  PROVE  Admitted' <= Capacity
<1>1. /\ BusySlots \in SUBSET Slots /\ BusySlots' \in SUBSET Slots
      /\ PermitHolders \in SUBSET Actors /\ PermitHolders' \in SUBSET Actors
  BY DEF BusySlots, PermitHolders
<1>2. /\ Cardinality(BusySlots) \in Nat /\ Cardinality(BusySlots') \in Nat
      /\ Cardinality(PermitHolders) \in Nat /\ Cardinality(PermitHolders') \in Nat
      /\ IsFiniteSet(BusySlots) /\ IsFiniteSet(PermitHolders)
  BY <1>1, PermitsFinite
<1>3. /\ Admitted = Cardinality(BusySlots) + Cardinality(PermitHolders)
      /\ Admitted' = Cardinality(BusySlots') + Cardinality(PermitHolders')
  BY DEF Admitted, BusySlots, PermitHolders
<1>4. Cardinality(BusySlots) + Cardinality(PermitHolders) < Capacity
  BY <1>2, <1>3, SupervisorAssumption DEF Full
<1>5. /\ BusySlots' \subseteq BusySlots => Cardinality(BusySlots') <= Cardinality(BusySlots)
      /\ PermitHolders' \subseteq PermitHolders => Cardinality(PermitHolders') <= Cardinality(PermitHolders)
  BY <1>2, FS_Subset
<1>6. BusySlots' \subseteq BusySlots \cup {i} => Cardinality(BusySlots') <= Cardinality(BusySlots) + 1
  BY <1>2, OneMore
<1>7. PermitHolders' \subseteq PermitHolders \cup {a} => Cardinality(PermitHolders') <= Cardinality(PermitHolders) + 1
  BY <1>2, OneMore
<1>8. CASE BusySlots' \subseteq BusySlots \cup {i} /\ PermitHolders' \subseteq PermitHolders
  BY <1>2, <1>3, <1>4, <1>5, <1>6, <1>8, SupervisorAssumption
<1>9. CASE BusySlots' \subseteq BusySlots /\ PermitHolders' \subseteq PermitHolders \cup {a}
  BY <1>2, <1>3, <1>4, <1>5, <1>7, <1>9, SupervisorAssumption
<1> QED BY <1>8, <1>9

\* A submission hands its permit to the run it registers.
LEMMA PermitHandedOver ==
  ASSUME Admitted <= Capacity, NEW i, NEW a \in PermitHolders,
         BusySlots' \subseteq BusySlots \cup {i}, PermitHolders' = PermitHolders \ {a}
  PROVE  Admitted' <= Capacity
<1>1. /\ BusySlots \in SUBSET Slots /\ BusySlots' \in SUBSET Slots
      /\ PermitHolders \in SUBSET Actors /\ PermitHolders' \in SUBSET Actors
  BY DEF BusySlots, PermitHolders
<1>2. /\ Cardinality(BusySlots) \in Nat /\ Cardinality(BusySlots') \in Nat
      /\ Cardinality(PermitHolders) \in Nat /\ Cardinality(PermitHolders') \in Nat
      /\ IsFiniteSet(BusySlots) /\ IsFiniteSet(PermitHolders)
  BY <1>1, PermitsFinite
<1>3. Cardinality(PermitHolders') = Cardinality(PermitHolders) - 1
  BY <1>2, FS_RemoveElement
<1>4. Cardinality(BusySlots') <= Cardinality(BusySlots) + 1
  BY <1>2, OneMore
<1>5. /\ Admitted = Cardinality(BusySlots) + Cardinality(PermitHolders)
      /\ Admitted' = Cardinality(BusySlots') + Cardinality(PermitHolders')
  BY DEF Admitted, BusySlots, PermitHolders
<1> QED BY <1>2, <1>3, <1>4, <1>5, SupervisorAssumption

(***************************************************************************)
(* What one operation does to the permits                                  *)
(***************************************************************************)
LEMMA OpAdvances ==
  ASSUME OpsTyped, NEW a \in Actors, NEW o \in OpType, op' = [op EXCEPT ![a] = o],
         o.kind = op[a].kind, o.pc = "supervise" => o.kind \in {"submit", "continue"},
         holder' \in Actors \cup {"none"}
  PROVE  OpsTyped' /\ PermitHolders' = PermitHolders
<1>1. op' \in [Actors -> OpType] /\ \A b \in Actors : op'[b] = IF b = a THEN o ELSE op[b]
  BY DEF OpsTyped
<1>2. \A b \in Actors : op'[b].kind = op[b].kind
  BY <1>1
<1>3. PermitHolders' = PermitHolders
  BY <1>2 DEF PermitHolders, HoldsPermit
<1>4. \A b \in Actors : op'[b].pc = "supervise" => HoldsPermit(b)'
  BY <1>1 DEF OpsTyped, HoldsPermit
<1> QED BY <1>1, <1>3, <1>4 DEF OpsTyped

\* The operation goes on in the same lock with these data.
LEMMA OpProceeds ==
  ASSUME OpsTyped, NEW a \in Actors,
         NEW p \in {"settlement", "restore", "register", "commit", "supervise", "set",
                 "signal", "cancel", "empty", "unpause", "fence", "watching", "settling"},
         NEW e \in 0..MaxExecutions, NEW g \in 0..MaxGen, Proceed(a, p, e, g),
         p = "supervise" => op[a].kind \in {"submit", "continue"}, holder' \in Actors \cup {"none"}
  PROVE  OpsTyped' /\ PermitHolders' = PermitHolders
<1>1. PICK o : o = [kind |-> op[a].kind, pc |-> p, exec |-> e, gen |-> g,
                    was |-> op[a].was, snap |-> op[a].snap]
  OBVIOUS
<1>2. op[a] \in OpType
  BY DEF OpsTyped
<1>3. o \in OpType /\ o.kind = op[a].kind /\ o.pc = p
  BY <1>1, <1>2 DEF OpType
<1>4. op' = [op EXCEPT ![a] = o]
  BY <1>1 DEF Proceed
<1> QED BY <1>3, <1>4, OpAdvances

LEMMA OpEnds ==
  ASSUME OpsTyped, NEW a \in Actors, Done(a)
  PROVE  OpsTyped' /\ PermitHolders' = PermitHolders \ {a}
<1>1. PICK o : o = NoOp
  OBVIOUS
<1>2. o.kind = "none" /\ o.pc = "idle" /\ o \in OpType
  BY <1>1, SupervisorAssumption DEF NoOp, OpType
<1>3. op' = [op EXCEPT ![a] = o] /\ holder' \in Actors \cup {"none"}
  BY <1>1 DEF Done, OpsTyped
<1>4. op' \in [Actors -> OpType] /\ \A b \in Actors : op'[b] = IF b = a THEN o ELSE op[b]
  BY <1>2, <1>3 DEF OpsTyped
<1>5. PermitHolders' = PermitHolders \ {a}
  BY <1>2, <1>4 DEF PermitHolders, HoldsPermit
<1>6. \A b \in Actors : op'[b].pc = "supervise" => HoldsPermit(b)'
  BY <1>2, <1>4 DEF OpsTyped, HoldsPermit
<1> QED BY <1>3, <1>4, <1>5, <1>6 DEF OpsTyped

LEMMA OpBegins ==
  ASSUME OpsTyped, NEW a \in Actors, NEW p \in {"lock", "restore"},
         NEW k \in {"submit", "continue", "pause", "resume", "stop", "attempt", "recovery", "scan"},
         NEW e \in 0..MaxExecutions, NEW g \in 0..MaxGen,
         op' = [op EXCEPT ![a] = Begun(k, p, e, g)], holder' \in Actors \cup {"none"}
  PROVE  /\ OpsTyped'
         /\ PermitHolders' \subseteq PermitHolders \cup {a}
         /\ k \notin {"submit", "continue"} => PermitHolders' \subseteq PermitHolders
<1>1. PICK o : o = Begun(k, p, e, g)
  OBVIOUS
<1>2. o.kind = k /\ o.pc = p /\ o \in OpType
  BY <1>1, SupervisorAssumption DEF Begun, OpType
<1>3. op' \in [Actors -> OpType] /\ \A b \in Actors : op'[b] = IF b = a THEN o ELSE op[b]
  BY <1>1, <1>2 DEF OpsTyped
<1>4. /\ PermitHolders' \subseteq PermitHolders \cup {a}
      /\ k \notin {"submit", "continue"} => PermitHolders' \subseteq PermitHolders
  BY <1>2, <1>3 DEF PermitHolders, HoldsPermit
<1>5. \A b \in Actors : op'[b].pc = "supervise" => HoldsPermit(b)'
  BY <1>2, <1>3 DEF OpsTyped, HoldsPermit
<1> QED BY <1>3, <1>4, <1>5 DEF OpsTyped

(***************************************************************************)
(* What one step does to the runs                                          *)
(***************************************************************************)
LEMMA RunMoves ==
  ASSUME RunsInType, NEW i \in Slots, Busy(i),
         NEW s \in {"locked", "driving", "exiting", "queuePaused"}, run' = Moved(i, s)
  PROVE  RunsInType' /\ BusySlots' = BusySlots
<1>1. PICK r : r = [state |-> s, exec |-> run[i].exec, gen |-> run[i].gen,
                    pred |-> run[i].pred, cancel |-> run[i].cancel]
  OBVIOUS
<1>2. run[i] \in RunType
  BY DEF RunsInType
<1>3. r \in RunType /\ r.state = s
  BY <1>1, <1>2 DEF RunType
<1>4. run' \in [Slots -> RunType] /\ \A j \in Slots : run'[j] = IF j = i THEN r ELSE run[j]
  BY <1>1, <1>3 DEF RunsInType, Moved
<1>5. \A j \in Slots : Busy(j)' <=> Busy(j)
  BY <1>3, <1>4 DEF Busy
<1> QED BY <1>4, <1>5 DEF RunsInType, BusySlots

LEMMA RunSignalled ==
  ASSUME RunsInType, NEW i \in Slots, run' = Signalled(i)
  PROVE  RunsInType' /\ BusySlots' = BusySlots
<1>1. PICK r : r = [state |-> run[i].state, exec |-> run[i].exec, gen |-> run[i].gen,
                    pred |-> run[i].pred, cancel |-> "yes"]
  OBVIOUS
<1>2. run[i] \in RunType
  BY DEF RunsInType
<1>3. r \in RunType /\ r.state = run[i].state
  BY <1>1, <1>2 DEF RunType
<1>4. run' \in [Slots -> RunType] /\ \A j \in Slots : run'[j] = IF j = i THEN r ELSE run[j]
  BY <1>1, <1>3 DEF RunsInType, Signalled
<1>5. \A j \in Slots : Busy(j)' <=> Busy(j)
  BY <1>3, <1>4 DEF Busy
<1> QED BY <1>4, <1>5 DEF RunsInType, BusySlots

LEMMA RunSupervised ==
  ASSUME RunsInType, DataTyped, NEW e \in Executions, NEW g \in 0..MaxGen, Supervise(e, g)
  PROVE  /\ RunsInType'
         /\ \E i \in Slots : BusySlots' \subseteq BusySlots \cup {i}
         /\ Registered(e, g) => BusySlots' = BusySlots
<1>1. CASE Registered(e, g)
  <2>1. run' = run
    BY <1>1 DEF Supervise
  <2>2. 1 \in Slots
    BY SupervisorAssumption DEF Slots
  <2>3. RunsInType' /\ BusySlots' = BusySlots
    BY <2>1 DEF RunsInType, BusySlots, Busy
  <2> QED BY <2>2, <2>3
<1>2. CASE ~Registered(e, g)
  <2>1. PICK i \in Slots : run' = [run EXCEPT ![i] = [state |-> "waiting", exec |-> e, gen |-> g,
                                                       pred |-> tail, cancel |-> "no"]]
    BY <1>2 DEF Supervise
  <2>2. PICK r : r = [state |-> "waiting", exec |-> e, gen |-> g, pred |-> tail, cancel |-> "no"]
    OBVIOUS
  <2>3. e \in 0..MaxExecutions /\ tail \in 0..Capacity
    BY SupervisorAssumption DEF Executions, DataTyped, RunsTyped
  <2>4. r \in RunType
    BY <2>2, <2>3 DEF RunType
  <2>5. run' \in [Slots -> RunType] /\ \A j \in Slots : j # i => run'[j] = run[j]
    BY <2>1, <2>2, <2>4 DEF RunsInType
  <2>6. BusySlots' \subseteq BusySlots \cup {i}
    BY <2>5 DEF BusySlots, Busy
  <2> QED BY <1>2, <2>5, <2>6 DEF RunsInType
<1> QED BY <1>1, <1>2

LEMMA RunRetired ==
  ASSUME RunsInType, NEW i \in Slots, Retire(i)
  PROVE  RunsInType' /\ BusySlots' \subseteq BusySlots
<1>1. run' = [j \in Slots |-> IF j = i THEN NoRun ELSE IF run[j].pred = i THEN Unchained(j) ELSE run[j]]
  BY DEF Retire
<1>2. NoRun \in RunType /\ NoRun.state = "none"
  BY SupervisorAssumption DEF NoRun, RunType
<1>3. ASSUME NEW j \in Slots PROVE Unchained(j) \in RunType /\ Unchained(j).state = run[j].state
  <2>1. run[j] \in RunType
    BY DEF RunsInType
  <2>2. 0 \in 0..Capacity
    BY SupervisorAssumption
  <2> QED BY <2>1, <2>2 DEF Unchained, RunType
<1>4. \A j \in Slots : run'[j] \in RunType /\ (run'[j].state # "none" => run[j].state # "none")
  BY <1>1, <1>2, <1>3 DEF RunsInType
<1> QED BY <1>1, <1>4 DEF RunsInType, BusySlots, Busy

(***************************************************************************)
(* Every step keeps the types and the budget                               *)
(***************************************************************************)
LEMMA TypedRuns ==
  ASSUME IInv, Typed, RunsTyped', NEW i \in Slots, RunStep(i) \/ Output(i) \/ Panic(i)
  PROVE  Typed'
<1>1. UNCHANGED <<gen, sent, op, holder, ops, crashes>>
  BY DEF RunStep, Output, Panic, Start, Claim, Refused, Finish, Retire, durable, bounds
<1>2. DataTyped'
  BY <1>1 DEF Typed, DataTyped
<1>3. OpsTyped' /\ PermitHolders' = PermitHolders
  BY <1>1 DEF Typed, OpsTyped, PermitHolders, HoldsPermit
<1>4. Counted'
  <2>1. panics' \in {panics, panics + 1} /\ recovering' \in {recovering, recovering + 1}
    BY DEF RunStep, Output, Panic, Start, Claim, Refused, Finish, Retire, bounds, Typed, Counted
  <2> QED BY <1>1, <2>1 DEF Typed, Counted
<1>5. RunsInType' /\ BusySlots' \subseteq BusySlots
  <2>1. CASE Retire(i)
    BY <2>1, RunRetired DEF Typed
  <2>2. CASE Output(i)
    BY <2>2 DEF Output, Typed, RunsInType, BusySlots, Busy
  <2>3. CASE ~Retire(i) /\ ~Output(i)
    <3>1. \E s \in {"locked", "driving", "exiting", "queuePaused"} : run' = Moved(i, s)
      BY <2>3 DEF RunStep, Panic, Start, Claim, Refused, Finish
    <3>2. Busy(i)
      BY <2>3 DEF RunStep, Panic, Start, Claim, Refused, Finish, Busy
    <3> QED BY <3>1, <3>2, RunMoves DEF Typed
  <2> QED BY <2>1, <2>2, <2>3
<1>6. Admitted' <= Capacity
  BY <1>3, <1>5, NoneAdmitted DEF Typed
<1> QED BY <1>2, <1>3, <1>4, <1>5, <1>6 DEF Typed

\* The steps that leave runs and attempts alone.
LEMMA TypedMoves ==
  ASSUME Typed, RunsTyped', UNCHANGED <<gen, sent, run, recovering, bounds>>,
         OpsTyped', PermitHolders' \subseteq PermitHolders
  PROVE  Typed'
<1>1. DataTyped' /\ RunsInType' /\ Counted'
  BY DEF Typed, DataTyped, RunsInType, Counted, bounds
<1>2. BusySlots' = BusySlots
  BY DEF BusySlots, Busy
<1>3. Admitted' <= Capacity
  BY <1>2, NoneAdmitted DEF Typed
<1> QED BY <1>1, <1>3 DEF Typed

LEMMA TypedOps ==
  ASSUME IInv, Typed, RunsTyped', NEW a \in Actors,
         Lock(a) \/ Settlement(a) \/ Restored(a) \/ Reject(a) \/ SetPause(a) \/ Cancel(a) \/ Empty(a) \/ Unpause(a)
  PROVE  Typed'
<1>1. UNCHANGED <<gen, sent, run, recovering, bounds>>
  BY DEF Lock, Settlement, Restored, Reject, SetPause, Cancel, Empty, Unpause, durable, bounds
<1>2. /\ OpOK(a, op[a], holder, phase, gen) /\ op[a] \in OpType
      /\ op[a].exec \in 0..MaxExecutions /\ op[a].gen \in 0..MaxGen
      /\ holder \in Actors \cup {"none"} /\ latest \in 0..MaxExecutions
  BY DEF IInv, RunsTyped, OpsOK, Typed, OpsTyped, OpType
<1>3. ASSUME Done(a) PROVE Typed'
  BY <1>1, <1>3, OpEnds, TypedMoves DEF Typed
<1>4. ASSUME NEW p \in {"settlement", "restore", "commit", "set", "signal", "empty", "unpause", "fence", "settling"},
             NEW e \in 0..MaxExecutions, Proceed(a, p, e, op[a].gen), holder' \in Actors \cup {"none"}
      PROVE  Typed'
  BY <1>1, <1>2, <1>4, OpProceeds, TypedMoves DEF Typed
<1>5. CASE Lock(a)
  <2>1. op[a].kind \in {"submit", "continue", "pause", "resume", "stop", "attempt"}
    BY <1>2, <1>5, SupervisorAssumption DEF OpOK, Lock
  <2>2. FirstStep(op[a].kind) \in {"restore", "settlement", "set", "fence"}
    BY <2>1 DEF FirstStep
  <2>3. Proceed(a, FirstStep(op[a].kind), op[a].exec, op[a].gen) /\ holder' = a
    BY <1>5 DEF Lock, Goto
  <2> QED BY <1>2, <1>4, <2>2, <2>3
<1>6. CASE Settlement(a)
  BY <1>2, <1>4, <1>6 DEF Settlement, Goto
<1>7. CASE Restored(a)
  <2>1. CASE op[a].kind \in {"submit", "continue"}
    <3>1. PICK x : x = IF op[a].kind = "continue" THEN latest ELSE 0
      OBVIOUS
    <3>2. x \in 0..MaxExecutions
      BY <1>2, <3>1, SupervisorAssumption
    <3>3. Proceed(a, "commit", x, op[a].gen) /\ UNCHANGED holder
      BY <1>7, <2>1, <3>1 DEF Restored
    <3> QED BY <1>2, <1>4, <3>2, <3>3
  <2>2. CASE op[a].kind \notin {"submit", "continue"}
    BY <1>3, <1>7, <2>2 DEF Restored
  <2> QED BY <2>1, <2>2
<1>8. CASE Reject(a) \/ Unpause(a)
  BY <1>3, <1>8 DEF Reject, Unpause
<1>9. CASE Empty(a)
  BY <1>2, <1>3, <1>4, <1>9 DEF Empty, Goto
<1>10. CASE Cancel(a)
  <2>1. op[a].kind \in {"watch", "stop"}
    BY <1>2, <1>10 DEF OpOK, Cancel
  <2>2. Done(a) \/ ((Goto(a, "settling") \/ Goto(a, "empty")) /\ UNCHANGED holder)
    BY <1>10, <2>1 DEF Cancel
  <2> QED BY <1>2, <1>3, <1>4, <2>2 DEF Goto
<1>11. CASE SetPause(a)
  <2>1. op[a].kind \in {"pause", "resume", "stop"}
    BY <1>2, <1>11 DEF OpOK, SetPause
  <2>2. CASE op[a].kind = "pause"
    <3>1. Done(a)
      BY <1>11, <2>2 DEF SetPause
    <3> QED BY <1>3, <3>1
  <2>3. CASE op[a].kind = "resume"
    <3>1. Goto(a, "restore") /\ UNCHANGED holder
      BY <1>11, <2>3 DEF SetPause
    <3> QED BY <1>2, <1>4, <3>1 DEF Goto
  <2>4. CASE op[a].kind = "stop"
    <3>1. PICK o : o = [kind |-> "stop", pc |-> "signal", exec |-> op[a].exec,
                        gen |-> op[a].gen, was |-> paused, snap |-> op[a].snap]
      OBVIOUS
    <3>2. op' = [op EXCEPT ![a] = o] /\ UNCHANGED holder
      BY <1>11, <2>4, <3>1 DEF SetPause
    <3>3. paused \in {"no", "yes"}
      BY DEF IInv, RunsTyped
    <3>4. o \in OpType /\ o.kind = op[a].kind /\ o.pc = "signal"
      BY <1>2, <2>4, <3>1, <3>3 DEF OpType
    <3>5. OpsTyped' /\ PermitHolders' = PermitHolders
      BY <1>2, <3>2, <3>4, OpAdvances DEF Typed
    <3> QED BY <1>1, <3>5, TypedMoves
  <2> QED BY <2>1, <2>2, <2>3, <2>4
<1> QED BY <1>5, <1>6, <1>7, <1>8, <1>9, <1>10, <1>11

LEMMA TypedSnapshot ==
  ASSUME Typed, RunsTyped', NEW a \in Actors, Snapshot(a)
  PROVE  Typed'
<1>1. PICK s : s = [e \in Executions |-> IF paused = "no" /\ phase[e] = "queued" THEN gen[e] ELSE 0]
  OBVIOUS
<1>2. s \in [Executions -> 0..MaxGen]
  BY <1>1, SupervisorAssumption DEF Typed, DataTyped
<1>3. PICK o : o = [kind |-> op[a].kind, pc |-> "register", exec |-> op[a].exec,
                    gen |-> op[a].gen, was |-> op[a].was, snap |-> s]
  OBVIOUS
<1>4. op' = [op EXCEPT ![a] = o] /\ UNCHANGED <<gen, sent, run, holder, recovering, bounds>>
  BY <1>1, <1>3, Zenon DEF Snapshot, durable
<1>5. op[a] \in OpType
  BY DEF Typed, OpsTyped
<1>6. o \in OpType /\ o.kind = op[a].kind /\ o.pc = "register"
  BY <1>2, <1>3, <1>5 DEF OpType
<1>7. OpsTyped' /\ PermitHolders' = PermitHolders
  BY <1>4, <1>6, OpAdvances DEF Typed, OpsTyped
<1> QED BY <1>4, <1>7, TypedMoves

LEMMA TypedRegister ==
  ASSUME Typed, RunsTyped', NEW a \in Actors, NEW e \in Executions, Register(a, e)
  PROVE  Typed'
<1>1. PICK g : g = op[a].snap[e]
  OBVIOUS
<1>2. op[a] \in OpType
  BY DEF Typed, OpsTyped
<1>3. g \in 0..MaxGen
  BY <1>1, <1>2 DEF OpType
<1>4. UNCHANGED <<gen, sent, recovering, bounds>>
  BY DEF Register, durable
<1>5. CASE ~Registered(e, g) /\ Full
  <2>1. Done(a) /\ UNCHANGED <<run, active, tail>>
    BY <1>1, <1>5, Zenon DEF Register
  <2> QED BY <1>4, <2>1, OpEnds, TypedMoves DEF Typed
<1>6. CASE ~(~Registered(e, g) /\ Full)
  <2>1. Supervise(e, g) /\ UNCHANGED holder
    BY <1>1, <1>6, Zenon DEF Register
  <2>2. PICK s : s = [op[a].snap EXCEPT ![e] = 0]
    OBVIOUS
  <2>3. PICK o : o = [kind |-> op[a].kind, pc |-> "register", exec |-> op[a].exec,
                      gen |-> op[a].gen, was |-> op[a].was, snap |-> s]
    OBVIOUS
  <2>4. op' = [op EXCEPT ![a] = o]
    BY <1>1, <1>6, <2>2, <2>3, Zenon DEF Register
  <2>5. s \in [Executions -> 0..MaxGen]
    BY <1>2, <2>2, SupervisorAssumption DEF OpType
  <2>6. o \in OpType /\ o.kind = op[a].kind /\ o.pc = "register"
    BY <1>2, <2>3, <2>5 DEF OpType
  <2>7. OpsTyped' /\ PermitHolders' = PermitHolders
    BY <2>1, <2>4, <2>6, OpAdvances DEF Typed, OpsTyped
  <2>8. PICK i \in Slots : BusySlots' \subseteq BusySlots \cup {i}
    BY <1>3, <2>1, RunSupervised DEF Typed
  <2>9. RunsInType' /\ (Registered(e, g) => BusySlots' = BusySlots)
    BY <1>3, <2>1, RunSupervised DEF Typed
  <2>10. Admitted' <= Capacity
    <3>1. CASE Registered(e, g)
      BY <2>7, <2>9, <3>1, NoneAdmitted DEF Typed
    <3>2. CASE ~Full
      BY <2>7, <2>8, <3>2, OneAdmitted DEF Typed
    <3> QED BY <1>6, <3>1, <3>2
  <2>11. DataTyped' /\ Counted'
    BY <1>4 DEF Typed, DataTyped, Counted, bounds
  <2> QED BY <2>7, <2>9, <2>10, <2>11 DEF Typed
<1> QED BY <1>5, <1>6

LEMMA TypedAdmit ==
  ASSUME IInv, Typed, RunsTyped', NEW a \in Actors, Admit(a)
  PROVE  Typed'
<1>1. /\ op[a].pc = "supervise" /\ Supervise(op[a].exec, op[a].gen) /\ Done(a)
      /\ UNCHANGED <<gen, sent, recovering, bounds>>
  BY DEF Admit, durable
<1>2. OpOK(a, op[a], holder, phase, gen) /\ op[a] \in OpType
  BY DEF IInv, OpsOK, Typed, OpsTyped
<1>3. op[a].exec \in Executions /\ op[a].gen \in 0..MaxGen
  BY <1>1, <1>2 DEF OpOK, OpType
<1>4. PICK i \in Slots : BusySlots' \subseteq BusySlots \cup {i}
  BY <1>1, <1>3, RunSupervised DEF Typed
<1>5. RunsInType'
  BY <1>1, <1>3, RunSupervised DEF Typed
<1>6. OpsTyped' /\ PermitHolders' = PermitHolders \ {a}
  BY <1>1, OpEnds DEF Typed
<1>7. a \in PermitHolders
  BY <1>1 DEF Typed, OpsTyped, PermitHolders
<1>8. Admitted' <= Capacity
  BY <1>4, <1>6, <1>7, PermitHandedOver DEF Typed
<1>9. DataTyped' /\ Counted'
  BY <1>1 DEF Typed, DataTyped, Counted, bounds
<1> QED BY <1>5, <1>6, <1>8, <1>9 DEF Typed

LEMMA TypedCommit ==
  ASSUME IInv, Typed, RunsTyped', NEW a \in Actors, Send(a) \/ Continue(a)
  PROVE  Typed'
<1>1. UNCHANGED <<run, holder, recovering, bounds>> /\ op[a].pc = "commit"
  BY DEF Send, Continue
<1>2. PICK e : e = IF op[a].kind = "submit" THEN sent + 1 ELSE op[a].exec
  OBVIOUS
<1>3. PICK g : g = IF op[a].kind = "submit" THEN 1 ELSE gen[e] + 1
  OBVIOUS
<1>4. /\ op[a].kind \in {"submit", "continue"} /\ Proceed(a, "supervise", e, g)
      /\ gen' = [gen EXCEPT ![e] = g] /\ sent' \in {sent, e}
  BY <1>2, <1>3 DEF Send, Continue
<1>5. OpOK(a, op[a], holder, phase, gen)
  BY DEF IInv, OpsOK
<1>6. e \in Executions
  <2>1. CASE Send(a)
    BY <2>1, <1>2, SupervisorAssumption DEF Send, Executions, Typed, DataTyped
  <2>2. CASE Continue(a)
    BY <2>2, <1>1, <1>2, <1>5, SupervisorAssumption DEF Continue, Executions, OpOK
  <2> QED BY <2>1, <2>2
<1>7. g \in 0..MaxGen
  <2>1. CASE op[a].kind = "submit"
    BY <2>1, <1>3, SupervisorAssumption
  <2>2. CASE op[a].kind # "submit"
    <3>1. gen[e] < MaxGen
      BY <1>2, <2>2 DEF Send, Continue
    <3>2. gen[e] \in 0..MaxGen
      BY <1>6 DEF Typed, DataTyped
    <3> QED BY <1>3, <2>2, <3>1, <3>2, SupervisorAssumption
  <2> QED BY <2>1, <2>2
<1>8. e \in 0..MaxExecutions
  BY <1>6, SupervisorAssumption DEF Executions
<1>9. gen' \in [Executions -> 0..MaxGen]
  BY <1>4, <1>7 DEF Typed, DataTyped
<1>10. DataTyped'
  BY <1>4, <1>8, <1>9 DEF Typed, DataTyped
<1>11. OpsTyped' /\ PermitHolders' = PermitHolders
  BY <1>1, <1>4, <1>7, <1>8, OpProceeds DEF Typed, OpsTyped
<1>12. RunsInType' /\ BusySlots' = BusySlots /\ Counted'
  BY <1>1 DEF Typed, RunsInType, BusySlots, Busy, Counted, bounds
<1>13. Admitted' <= Capacity
  BY <1>11, <1>12, NoneAdmitted DEF Typed
<1> QED BY <1>10, <1>11, <1>12, <1>13 DEF Typed

LEMMA TypedSignals ==
  ASSUME IInv, Typed, RunsTyped', NEW a \in Actors, Signal(a) \/ Fence(a)
  PROVE  Typed'
<1>1. PICK e : e = op[a].exec
  OBVIOUS
<1>2. OpOK(a, op[a], holder, phase, gen) /\ op[a].gen \in 0..MaxGen
  BY DEF IInv, OpsOK, Typed, OpsTyped, OpType
<1>3. op[a].pc \in {"signal", "fence"} /\ UNCHANGED <<gen, sent, recovering, bounds>>
  BY DEF Signal, Fence, durable
<1>4. e \in Executions /\ e \in 0..MaxExecutions
  BY <1>1, <1>2, <1>3, SupervisorAssumption DEF OpOK, Executions
<1>5. run' = run \/ (active[e] # 0 /\ run' = Signalled(active[e]))
  BY <1>1 DEF Signal, Fence
<1>6. active[e] # 0 => active[e] \in Slots
  BY <1>4, SupervisorAssumption DEF IInv, RunsTyped, Slots
<1>7. RunsInType' /\ BusySlots' = BusySlots
  <2>1. CASE run' = run
    BY <2>1 DEF Typed, RunsInType, BusySlots, Busy
  <2>2. CASE active[e] # 0 /\ run' = Signalled(active[e])
    BY <1>6, <2>2, RunSignalled DEF Typed
  <2> QED BY <1>5, <2>1, <2>2
<1>8. OpsTyped' /\ PermitHolders' \subseteq PermitHolders
  <2>1. CASE Signal(a)
    <3>1. \E p \in {"empty", "settling", "cancel"}, g \in 0..MaxGen : Proceed(a, p, e, g)
      <4>1. CASE Terminal(phase[e])
        <5>1. \E p \in {"empty", "settling"} : Proceed(a, p, e, op[a].gen)
          BY <1>1, <2>1, <4>1 DEF Signal, Goto
        <5> QED BY <1>2, <5>1
      <4>2. CASE ~Terminal(phase[e])
        <5>1. PICK g : g = IF op[a].kind = "stop" THEN gen[e] ELSE op[a].gen
          OBVIOUS
        <5>2. Proceed(a, "cancel", e, g)
          BY <1>1, <2>1, <4>2, <5>1 DEF Signal
        <5>3. g \in 0..MaxGen
          BY <1>2, <1>4, <5>1 DEF Typed, DataTyped
        <5> QED BY <5>2, <5>3
      <4> QED BY <4>1, <4>2
    <3>2. UNCHANGED holder
      BY <2>1 DEF Signal
    <3> QED BY <1>4, <3>1, <3>2, OpProceeds DEF Typed, OpsTyped
  <2>2. CASE Fence(a)
    BY <2>2, OpEnds DEF Fence, Typed
  <2> QED BY <2>1, <2>2
<1>9. DataTyped' /\ Counted'
  BY <1>3 DEF Typed, DataTyped, Counted, bounds
<1>10. Admitted' <= Capacity
  BY <1>7, <1>8, NoneAdmitted DEF Typed
<1> QED BY <1>7, <1>8, <1>9, <1>10 DEF Typed

LEMMA TypedAsk ==
  ASSUME Typed, RunsTyped', NEW c \in Callers, NEW k \in Kinds, NEW e \in 0..MaxExecutions,
         NEW g \in 0..MaxGen, Ask(c, k, e, g)
  PROVE  Typed'
<1>1. /\ op' = [op EXCEPT ![c] = Begun(k, "lock", e, g)] /\ ops' = ops + 1
      /\ k \in {"submit", "continue"} => ~Full
      /\ UNCHANGED <<gen, sent, run, holder, recovering, crashes, panics>>
  BY DEF Ask, durable
<1>2. c \in Actors /\ k \in {"submit", "continue", "pause", "resume", "stop", "attempt"}
  BY SupervisorAssumption DEF Actors
<1>3. /\ OpsTyped' /\ PermitHolders' \subseteq PermitHolders \cup {c}
      /\ k \notin {"submit", "continue"} => PermitHolders' \subseteq PermitHolders
  <2>1. holder' \in Actors \cup {"none"}
    BY <1>1 DEF Typed, OpsTyped
  <2> QED BY <1>1, <1>2, <2>1, OpBegins DEF Typed
<1>4. RunsInType' /\ BusySlots' = BusySlots /\ Counted' /\ DataTyped'
  BY <1>1 DEF Typed, RunsInType, BusySlots, Busy, Counted, DataTyped
<1>5. Admitted' <= Capacity
  <2>1. CASE k \in {"submit", "continue"}
    BY <1>1, <1>3, <1>4, <2>1, OneAdmitted
  <2>2. CASE k \notin {"submit", "continue"}
    BY <1>3, <1>4, <2>2, NoneAdmitted DEF Typed
  <2> QED BY <2>1, <2>2
<1> QED BY <1>3, <1>4, <1>5 DEF Typed

LEMMA TypedRest ==
  ASSUME IInv, Typed, RunsTyped', Recover \/ Scan \/ TimeOut \/ SettleAgent \/ Crash
  PROVE  Typed'
<1>1. {"recovery", "scan", "watch"} \subseteq Actors
  BY DEF Actors
<1>2. CASE Recover \/ Scan
  <2>1. PICK a \in {"recovery", "scan"} :
           op' = [op EXCEPT ![a] = Begun(a, "restore", 0, 0)] /\ holder' = a
    BY <1>2, Zenon DEF Recover, Scan
  <2>2. 0 \in 0..MaxExecutions /\ 0 \in 0..MaxGen
    BY SupervisorAssumption
  <2>3. OpsTyped' /\ PermitHolders' \subseteq PermitHolders
    BY <1>1, <2>1, <2>2, OpBegins DEF Typed
  <2>4. UNCHANGED <<gen, sent, run, bounds>>
    BY <1>2 DEF Recover, Scan, durable
  <2>5. recovering' \in Nat
    BY <1>2 DEF Recover, Scan, Typed, Counted
  <2>6. RunsInType' /\ BusySlots' = BusySlots /\ Counted' /\ DataTyped'
    BY <2>4, <2>5 DEF Typed, RunsInType, BusySlots, Busy, Counted, DataTyped, bounds
  <2>7. Admitted' <= Capacity
    BY <2>3, <2>6, NoneAdmitted DEF Typed
  <2> QED BY <2>3, <2>6, <2>7 DEF Typed
<1>3. CASE TimeOut
  <2>1. Proceed("watch", "signal", op["watch"].exec, op["watch"].gen)
    BY <1>3 DEF TimeOut, Goto
  <2>2. UNCHANGED <<gen, sent, run, holder, recovering, bounds>>
    BY <1>3 DEF TimeOut, durable
  <2>3. op["watch"].exec \in 0..MaxExecutions /\ op["watch"].gen \in 0..MaxGen
    BY <1>1 DEF Typed, OpsTyped, OpType
  <2>4. OpsTyped' /\ PermitHolders' = PermitHolders
    BY <1>1, <2>1, <2>2, <2>3, OpProceeds DEF Typed, OpsTyped
  <2> QED BY <2>2, <2>4, TypedMoves
<1>4. CASE SettleAgent
  <2>1. Done("watch") /\ UNCHANGED <<gen, sent, run, recovering, bounds>>
    BY <1>4 DEF SettleAgent, durable
  <2> QED BY <1>1, <2>1, OpEnds, TypedMoves DEF Typed
<1>5. CASE Crash
  <2>1. /\ run' = [i \in Slots |-> NoRun] /\ op' = [a \in Actors |-> NoOp] /\ holder' = "none"
        /\ recovering' = 0 /\ crashes' = crashes + 1 /\ UNCHANGED <<gen, sent, ops, panics>>
    BY <1>5 DEF Crash
  <2>2. NoRun \in RunType /\ NoRun.state = "none"
    BY SupervisorAssumption DEF NoRun, RunType
  <2>3. NoOp \in OpType /\ NoOp.kind = "none" /\ NoOp.pc = "idle"
    BY SupervisorAssumption DEF NoOp, OpType
  <2>4. RunsInType' /\ BusySlots' = {}
    BY <2>1, <2>2 DEF RunsInType, BusySlots, Busy
  <2>5. OpsTyped' /\ PermitHolders' = {}
    BY <2>1, <2>3 DEF OpsTyped, PermitHolders, HoldsPermit
  <2>6. Counted' /\ DataTyped'
    BY <2>1 DEF Typed, Counted, DataTyped
  <2>7. Admitted' <= Capacity
    BY <2>4, <2>5, NoneAdmitted DEF Typed
  <2> QED BY <2>4, <2>5, <2>6, <2>7 DEF Typed
<1> QED BY <1>2, <1>3, <1>4, <1>5

LEMMA TypedNext ==
  ASSUME IInv, Typed, [Next]_vars
  PROVE  Typed'
<1>1. RunsTyped'
  BY IInvNext DEF IInv
<1>2. CASE UNCHANGED vars
  <2>1. UNCHANGED <<gen, sent, run, recovering, bounds, op, holder>>
    BY <1>2 DEF vars, durable
  <2>2. OpsTyped' /\ PermitHolders' = PermitHolders
    BY <2>1 DEF Typed, OpsTyped, PermitHolders, HoldsPermit
  <2> QED BY <1>1, <2>1, <2>2, TypedMoves
<1>3. ASSUME NEW a \in Actors, OpStep(a) PROVE Typed'
  BY <1>1, <1>3, TypedOps, TypedSnapshot, TypedRegister, TypedAdmit, TypedCommit, TypedSignals DEF OpStep
<1> QED BY <1>1, <1>2, <1>3, TypedRuns, TypedAsk, TypedRest DEF Next

LEMMA TypedInit ==
  ASSUME Init
  PROVE  Typed
<1>1. RunsTyped
  BY IInvInit DEF IInv
<1>2. /\ 0 \in 0..MaxGen /\ 1 \in 0..MaxGen /\ 0 \in 0..MaxExecutions /\ 1 \in 0..MaxExecutions
      /\ 0 \in 0..Capacity /\ 1 \in Slots
  BY SupervisorAssumption DEF Slots
<1>3. DataTyped
  BY <1>1, <1>2 DEF Init, DataTyped
<1>4. NoRun \in RunType /\ NoRun.state = "none" /\ NoOp \in OpType /\ NoOp.kind = "none" /\ NoOp.pc = "idle"
  BY <1>2 DEF NoRun, RunType, NoOp, OpType
<1>5. RunsInType /\ BusySlots \subseteq {1}
  <2>1. [state |-> "waiting", exec |-> 1, gen |-> 1, pred |-> 0, cancel |-> "no"] \in RunType
    BY <1>2 DEF RunType
  <2> QED BY <1>2, <1>4, <2>1 DEF Init, RunsInType, BusySlots, Busy
<1>6. OpsTyped /\ PermitHolders = {}
  <2>1. [kind |-> "watch", pc |-> "watching", exec |-> 1, gen |-> 1, was |-> "no",
         snap |-> [f \in Executions |-> 0]] \in OpType
    BY <1>2 DEF OpType
  <2>2. op \in [Actors -> OpType] /\ \A a \in Actors : op[a].kind \in {"watch", "none"} /\ op[a].pc \in {"watching", "idle"}
    BY <1>4, <2>1 DEF Init
  <2>3. holder = "none"
    BY DEF Init
  <2> QED BY <2>2, <2>3 DEF OpsTyped, PermitHolders, HoldsPermit
<1>7. Counted
  BY DEF Init, Counted
<1>8. Admitted <= Capacity
  <2>1. Cardinality({}) = 0 /\ IsFiniteSet({}) /\ IsFiniteSet({1}) /\ Cardinality({1}) = 1
    BY FS_EmptySet, FS_Singleton
  <2>2. Cardinality(BusySlots) <= 1
    <3>1. PICK one : one = {1}
      OBVIOUS
    <3>2. BusySlots \in SUBSET one
      BY <1>5, <3>1
    <3>3. Cardinality(BusySlots) <= Cardinality(one)
      BY <2>1, <3>1, <3>2, FS_Subset
    <3> QED BY <2>1, <3>1, <3>3
  <2>3. BusySlots \in SUBSET Slots
    BY DEF BusySlots
  <2>4. Cardinality(BusySlots) \in Nat
    BY <2>3, PermitsFinite
  <2>5. Admitted = Cardinality(BusySlots) + Cardinality(PermitHolders)
    BY DEF Admitted, BusySlots, PermitHolders
  <2> QED BY <1>6, <2>1, <2>2, <2>4, <2>5, SupervisorAssumption
<1> QED BY <1>3, <1>5, <1>6, <1>7, <1>8 DEF Typed

\* Every variable keeps its type, and runs and prepared submissions together never
\* hold more than the MAX_ACTIVE_EXECUTIONS permits: a submission gives its permit
\* to the run it registers, and a restored run starts only with one to spare
\* (execution.rs, reserve_execution, supervise and restore_queued_executions).
THEOREM SupervisorTyped == Spec => []TypeOK
<1>1. Init => Typed
  BY TypedInit
<1>2. IInv /\ Typed /\ [Next]_vars => Typed'
  BY TypedNext
<1>3. Typed => TypeOK
  BY TypedIsTypeOK
<1> QED BY <1>1, <1>2, <1>3, Invariance, PTL DEF Spec
=============================================================================
