------------------------ MODULE SessionKernelProofs ------------------------
(* Proofs about the session kernel, for every number of sessions,          *)
(* executions, attempts, tool calls, interactions, activities and          *)
(* processes: the tables agree with each other (IInv), history is only     *)
(* extended, and the summary row follows the tables (Projected).           *)
EXTENDS SessionKernel, FiniteSetTheorems, TLAPS

LEMMA FiniteCounts ==
    ASSUME NEW S \in SUBSET Executions
    PROVE  IsFiniteSet(S) /\ Cardinality(S) \in Nat
<1>1. IsFiniteSet(Executions)
  BY KernelAssumption, FS_Interval DEF Executions
<1>2. IsFiniteSet(S)
  BY <1>1, FS_Subset
<1>3. QED
  BY <1>2, FS_CardinalityType

LEMMA CountsOfSession ==
    ASSUME NEW s
    PROVE  /\ QueuedIn(s) \in SUBSET Executions /\ RunningIn(s) \in SUBSET Executions
           /\ IsFiniteSet(QueuedIn(s)) /\ Cardinality(QueuedIn(s)) \in Nat
           /\ IsFiniteSet(RunningIn(s)) /\ Cardinality(RunningIn(s)) \in Nat
<1>1. QueuedIn(s) \in SUBSET Executions /\ RunningIn(s) \in SUBSET Executions
  BY DEF QueuedIn, RunningIn
<1>2. QED
  BY <1>1, FiniteCounts

\* The counters of one session change with what they count.
LEMMA CountersFrom ==
    ASSUME TypeOK, CountersExact, NEW s \in Sessions,
           queued' = [queued EXCEPT ![s] = Cardinality(QueuedIn(s)')],
           running' = [running EXCEPT ![s] = Cardinality(RunningIn(s)')],
           \A r \in Sessions \ {s} :
              QueuedIn(r)' = QueuedIn(r) /\ RunningIn(r)' = RunningIn(r)
    PROVE  /\ CountersExact'
           /\ queued' \in [Sessions -> Nat] /\ running' \in [Sessions -> Nat]
<1>1. QueuedIn(s)' \in SUBSET Executions /\ RunningIn(s)' \in SUBSET Executions
  BY DEF QueuedIn, RunningIn
<1>2. Cardinality(QueuedIn(s)') \in Nat /\ Cardinality(RunningIn(s)') \in Nat
  BY <1>1, FiniteCounts
<1>3. queued' \in [Sessions -> Nat] /\ running' \in [Sessions -> Nat]
  BY <1>2 DEF TypeOK
<1>4. ASSUME NEW r \in Sessions
      PROVE  /\ queued'[r] = Cardinality(QueuedIn(r)')
             /\ running'[r] = Cardinality(RunningIn(r)')
  BY DEF CountersExact, TypeOK
<1>5. QED
  BY <1>3, <1>4 DEF CountersExact

LEMMA SummaryType ==
    ASSUME TypeOK, NEW s, Triggered(s) \/ Untriggered(s)
    PROVE  summary' \in [Sessions -> {"ready", "running", "awaiting", "failed"}]
  BY DEF Triggered, Untriggered, Presented, State, TypeOK

\* Owners that stay as they are keep what they own.
LEMMA ChildrenKept ==
    ASSUME IInv,
           \A e \in Executions : \A g \in Generations : Owned(e, g) => Owned(e, g)',
           \A s \in Sessions : Live(s) => Live(s)',
           UNCHANGED <<round, toolPhase, toolExec, toolGen, askState, askTool, actPhase,
                       actHome, actOwner, epoch>>
    PROVE  RoundsOwned' /\ ToolsOwned' /\ AsksOwned' /\ ActivitiesOwned'
<1>0. TypeOK /\ NothingLeftBehind
  BY DEF IInv
<1>1. RoundsOwned'
  BY <1>0 DEF NothingLeftBehind, RoundsOwned
<1>2. ASSUME NEW t \in Tools, ActiveTool(t)' PROVE Owned(toolExec[t], toolGen[t])'
  <2>1. Owned(toolExec[t], toolGen[t])
    BY <1>0, <1>2 DEF NothingLeftBehind, ToolsOwned, ActiveTool
  <2>2. toolExec[t] \in Executions /\ toolGen[t] \in Generations
    BY <1>0, <2>1 DEF Owned, TypeOK
  <2>3. PICK e \in Executions, g \in Generations : e = toolExec[t] /\ g = toolGen[t]
    BY <2>2
  <2>4. Owned(e, g)'
    BY <2>1, <2>3
  <2>5. QED
    BY <2>3, <2>4 DEF Owned
<1>3. AsksOwned' /\ ActivitiesOwned'
  BY <1>0 DEF NothingLeftBehind, AsksOwned, ActivitiesOwned, Live
<1>4. QED
  BY <1>1, <1>2, <1>3 DEF ToolsOwned

-----------------------------------------------------------------------------
(* A new execution, and a new attempt. *)

LEMMA EnqueueStep ==
    ASSUME IInv, NEW s \in Sessions, NEW p \in {"message", "continuation", "compaction"},
           Live(s), Enqueue(s, p)
    PROVE  IInv'
<1> DEFINE e == made + 1
<1>0. TypeOK /\ CountersExact /\ OneRunner /\ NothingLeftBehind /\ Fresh
  BY DEF IInv
<1>1. e \in Executions /\ 1 \in Generations /\ 0 \in Generations
  BY <1>0, KernelAssumption DEF Enqueue, TypeOK, Executions, Generations
<1>2. gen[e] = 0 /\ \A g \in Generations : phase[e][g] \notin Active
  <2>1. gen[e] = 0
    BY <1>0, <1>1 DEF Fresh, TypeOK
  <2>2. QED
    BY <1>0, <1>1, <2>1 DEF NothingLeftBehind, AttemptsSettled
<1>3. /\ home' = [home EXCEPT ![e] = s] /\ gen' = [gen EXCEPT ![e] = 1]
      /\ phase' = [phase EXCEPT ![e][1] = "queued"]
      /\ queued' = [queued EXCEPT ![s] = @ + 1] /\ purpose' = [purpose EXCEPT ![e] = p]
      /\ visible' = visible \cup {e} /\ made' = e
      /\ UNCHANGED <<life, paused, agent, running, owner, round, toolPhase, toolExec,
                     toolGen, askState, askTool, actPhase, actHome, actOwner, epoch>>
  BY DEF Enqueue, sessionVars, toolVars, askVars, actVars
<1>4. e = made + 1 /\ e \in Nat /\ made \in Nat
  BY <1>0 DEF TypeOK
<1> HIDE DEF e
<1>5. \A f \in Executions : f # e => /\ home'[f] = home[f] /\ gen'[f] = gen[f]
                                     /\ phase'[f] = phase[f]
  BY <1>0, <1>1, <1>3 DEF TypeOK
<1>6. /\ home'[e] = s /\ gen'[e] = 1 /\ phase'[e][1] = "queued"
      /\ \A g \in Generations : g # 1 => phase'[e][g] = phase[e][g]
  BY <1>0, <1>1, <1>3 DEF TypeOK
<1>7. \A r \in Sessions :
         /\ QueuedIn(r)' = IF r = s THEN QueuedIn(r) \cup {e} ELSE QueuedIn(r)
         /\ RunningIn(r)' = RunningIn(r) /\ e \notin QueuedIn(r)
  BY <1>1, <1>2, <1>5, <1>6 DEF QueuedIn, RunningIn, Current, Active
<1>8. /\ CountersExact'
      /\ queued' \in [Sessions -> Nat] /\ running' \in [Sessions -> Nat]
  <2>1. Cardinality(QueuedIn(s)') = Cardinality(QueuedIn(s)) + 1
    BY <1>7, FS_AddElement, CountsOfSession
  <2>2. queued' = [queued EXCEPT ![s] = Cardinality(QueuedIn(s)')]
    BY <1>0, <1>3, <2>1 DEF CountersExact
  <2>3. running' = [running EXCEPT ![s] = Cardinality(RunningIn(s)')]
    BY <1>0, <1>3, <1>7 DEF CountersExact, TypeOK
  <2>4. QED
    BY <1>0, <1>7, <2>2, <2>3, CountersFrom
<1>9. TypeOK'
  <2>1. summary' \in [Sessions -> {"ready", "running", "awaiting", "failed"}]
    BY <1>0, SummaryType DEF Enqueue
  <2>2. made' \in 0 .. MaxExecutions
    BY <1>1, <1>3, <1>4, KernelAssumption DEF Executions
  <2>5. /\ visible' \subseteq Executions
        /\ purpose' \in [Executions -> {"message", "continuation", "compaction"}]
    BY <1>0, <1>1, <1>3 DEF TypeOK
  <2>3. /\ home' \in [Executions -> Sessions \cup {NoSession}]
        /\ gen' \in [Executions -> Generations]
        /\ phase' \in [Executions -> [Generations -> Phases]]
    BY <1>0, <1>1, <1>3 DEF TypeOK, Phases, Active
  <2>4. QED
    BY <1>0, <1>3, <1>8, <2>1, <2>2, <2>3, <2>5 DEF TypeOK
<1>10. OneRunner'
  BY <1>0, <1>7 DEF OneRunner
<1>11. RoundsOwned' /\ ToolsOwned' /\ AsksOwned' /\ ActivitiesOwned'
  <2>1. \A f \in Executions : \A g \in Generations : Owned(f, g) => Owned(f, g)'
    BY <1>1, <1>2, <1>3, <1>5 DEF Owned, Live, Active
  <2>2. \A r \in Sessions : Live(r) => Live(r)'
    BY <1>3 DEF Live
  <2>3. QED
    BY <1>3, <2>1, <2>2, ChildrenKept
<1>12. AttemptsSettled'
  <2> SUFFICES ASSUME NEW f \in Executions, NEW g \in Generations, phase'[f][g] \in Active
               PROVE  /\ g = gen'[f] /\ g # 0 /\ Live(home[f])'
                      /\ phase'[f][g] = "running" => owner'[f][g] = epoch'
    BY DEF AttemptsSettled
  <2>1. CASE f = e
    <3>1. g = 1
      BY <1>2, <1>6, <2>1
    <3>2. QED
      BY <1>3, <1>6, <2>1, <3>1 DEF Live
  <2>2. CASE f # e
    BY <1>0, <1>3, <1>5, <2>2 DEF NothingLeftBehind, AttemptsSettled, Live
  <2>3. QED
    BY <2>1, <2>2
<1>13. Fresh'
  <2> SUFFICES ASSUME NEW f \in Executions
               PROVE  /\ f > made' => gen'[f] = 0
                      /\ \A g \in Generations : g > gen'[f] => phase'[f][g] = "absent"
    BY DEF Fresh
  <2>1. f \in Nat
    BY DEF Executions
  <2>2. CASE f = e
    BY <1>0, <1>1, <1>2, <1>3, <1>4, <1>6, <2>1, <2>2 DEF Fresh, Generations
  <2>3. CASE f # e
    BY <1>0, <1>3, <1>4, <1>5, <2>1, <2>3 DEF Fresh
  <2>4. QED
    BY <2>2, <2>3
<1>14. QED
  BY <1>8, <1>9, <1>10, <1>11, <1>12, <1>13 DEF IInv, NothingLeftBehind

LEMMA RetryStep ==
    ASSUME IInv, NEW e \in Executions, Retry(e)
    PROVE  IInv'
<1> DEFINE h == gen[e] + 1
<1>0. TypeOK /\ CountersExact /\ OneRunner /\ NothingLeftBehind /\ Fresh
  BY DEF IInv
<1>a. PICK s \in Sessions : s = home[e]
  BY DEF Retry, Known, Live
<1>1. Live(s) /\ phase[e][gen[e]] \in Ended
  BY <1>a DEF Retry, Known, Current
<1>2. h \in Generations /\ h # 0 /\ h = gen[e] + 1 /\ gen[e] \in Nat
  BY <1>0, KernelAssumption DEF Retry, TypeOK, Generations
<1>3. \A g \in Generations : phase[e][g] \notin Active
  BY <1>0, <1>1 DEF NothingLeftBehind, AttemptsSettled, Ended, Active
<1>4. /\ gen' = [gen EXCEPT ![e] = h] /\ phase' = [phase EXCEPT ![e][h] = "queued"]
      /\ queued' = [queued EXCEPT ![s] = @ + 1]
      /\ UNCHANGED <<life, paused, agent, running, made, home, purpose, visible, owner,
                     round, toolPhase, toolExec, toolGen, askState, askTool, actPhase,
                     actHome, actOwner, epoch>>
  BY <1>0, <1>a DEF Retry, TypeOK, sessionVars, execVars, toolVars, askVars, actVars
<1> HIDE DEF h
<1>5. \A f \in Executions : f # e => gen'[f] = gen[f] /\ phase'[f] = phase[f]
  BY <1>0, <1>4 DEF TypeOK
<1>6. /\ gen'[e] = h /\ phase'[e][h] = "queued" /\ home[e] = s
      /\ \A g \in Generations : g # h => phase'[e][g] = phase[e][g]
  BY <1>0, <1>a, <1>2, <1>4 DEF TypeOK
<1>7. \A r \in Sessions :
         /\ QueuedIn(r)' = IF r = s THEN QueuedIn(r) \cup {e} ELSE QueuedIn(r)
         /\ RunningIn(r)' = RunningIn(r) /\ e \notin QueuedIn(r)
  BY <1>1, <1>4, <1>5, <1>6 DEF QueuedIn, RunningIn, Current, Ended
<1>8. /\ CountersExact'
      /\ queued' \in [Sessions -> Nat] /\ running' \in [Sessions -> Nat]
  <2>1. Cardinality(QueuedIn(s)') = Cardinality(QueuedIn(s)) + 1
    BY <1>1, <1>7, FS_AddElement, CountsOfSession
  <2>2. queued' = [queued EXCEPT ![s] = Cardinality(QueuedIn(s)')]
    BY <1>0, <1>1, <1>4, <2>1 DEF CountersExact
  <2>3. running' = [running EXCEPT ![s] = Cardinality(RunningIn(s)')]
    BY <1>0, <1>1, <1>4, <1>7 DEF CountersExact, TypeOK
  <2>4. QED
    BY <1>0, <1>1, <1>7, <2>2, <2>3, CountersFrom
<1>9. TypeOK'
  <2>1. summary' \in [Sessions -> {"ready", "running", "awaiting", "failed"}]
    BY <1>0, SummaryType DEF Retry
  <2>2. /\ gen' \in [Executions -> Generations]
        /\ phase' \in [Executions -> [Generations -> Phases]]
    BY <1>0, <1>2, <1>4 DEF TypeOK, Phases, Active
  <2>3. QED
    BY <1>0, <1>4, <1>8, <2>1, <2>2 DEF TypeOK
<1>10. OneRunner'
  BY <1>0, <1>7 DEF OneRunner
<1>11. RoundsOwned' /\ ToolsOwned' /\ AsksOwned' /\ ActivitiesOwned'
  <2>1. \A f \in Executions : \A g \in Generations : Owned(f, g) => Owned(f, g)'
    BY <1>3, <1>4, <1>5 DEF Owned, Live, Active
  <2>2. \A r \in Sessions : Live(r) => Live(r)'
    BY <1>4 DEF Live
  <2>3. QED
    BY <1>4, <2>1, <2>2, ChildrenKept
<1>12. AttemptsSettled'
  <2> SUFFICES ASSUME NEW f \in Executions, NEW g \in Generations, phase'[f][g] \in Active
               PROVE  /\ g = gen'[f] /\ g # 0 /\ Live(home[f])'
                      /\ phase'[f][g] = "running" => owner'[f][g] = epoch'
    BY DEF AttemptsSettled
  <2>1. CASE f = e
    <3>1. g = h
      BY <1>3, <1>6, <2>1
    <3>2. QED
      BY <1>1, <1>2, <1>4, <1>6, <2>1, <3>1 DEF Live
  <2>2. CASE f # e
    BY <1>0, <1>4, <1>5, <2>2 DEF NothingLeftBehind, AttemptsSettled, Live
  <2>3. QED
    BY <2>1, <2>2
<1>13. Fresh'
  <2> SUFFICES ASSUME NEW f \in Executions
               PROVE  /\ f > made' => gen'[f] = 0
                      /\ \A g \in Generations : g > gen'[f] => phase'[f][g] = "absent"
    BY DEF Fresh
  <2>1. CASE f = e
    <3>1. ~(e > made)
      BY <1>0 DEF Fresh, Retry, Known
    <3>2. \A g \in Generations : g > h => g > gen[e] /\ g # h
      BY <1>2 DEF Generations
    <3>3. QED
      BY <1>0, <1>4, <1>6, <2>1, <3>1, <3>2 DEF Fresh
  <2>2. CASE f # e
    BY <1>0, <1>4, <1>5, <2>2 DEF Fresh
  <2>3. QED
    BY <2>1, <2>2
<1>14. QED
  BY <1>8, <1>9, <1>10, <1>11, <1>12, <1>13 DEF IInv, NothingLeftBehind

-----------------------------------------------------------------------------
(* An attempt is claimed, and ends. *)

LEMMA ClaimNextStep ==
    ASSUME IInv, NEW e \in Executions, NEW g \in Generations, ClaimNext(e, g)
    PROVE  IInv'
<1>0. TypeOK /\ CountersExact /\ OneRunner /\ NothingLeftBehind /\ Fresh
  BY DEF IInv
<1>a. PICK s \in Sessions : s = home[e]
  BY DEF ClaimNext, Known, Live
<1>1. Live(s) /\ g = gen[e] /\ phase[e][g] = "queued" /\ RunningIn(s) = {}
  BY <1>a DEF ClaimNext, Known, Current
<1>2. /\ phase' = [phase EXCEPT ![e][g] = "running"]
      /\ owner' = [owner EXCEPT ![e][g] = epoch]
      /\ queued' = [queued EXCEPT ![s] = @ - 1] /\ running' = [running EXCEPT ![s] = @ + 1]
      /\ UNCHANGED <<life, paused, agent, made, home, purpose, visible, gen, round,
                     toolPhase, toolExec, toolGen, askState, askTool, actPhase, actHome,
                     actOwner, epoch>>
  BY <1>a DEF ClaimNext, sessionVars, execVars, toolVars, askVars, actVars
<1>3. \A f \in Executions : f # e => phase'[f] = phase[f] /\ owner'[f] = owner[f]
  BY <1>0, <1>2 DEF TypeOK
<1>4. /\ phase'[e][g] = "running" /\ owner'[e][g] = epoch
      /\ \A h \in Generations : h # g => phase'[e][h] = phase[e][h]
  BY <1>0, <1>2 DEF TypeOK
<1>5. /\ e \in QueuedIn(s) /\ QueuedIn(s)' = QueuedIn(s) \ {e}
      /\ RunningIn(s)' = {e}
      /\ \A r \in Sessions \ {s} :
            QueuedIn(r)' = QueuedIn(r) /\ RunningIn(r)' = RunningIn(r)
  BY <1>a, <1>1, <1>2, <1>3, <1>4 DEF QueuedIn, RunningIn, Current
<1>6. /\ CountersExact'
      /\ queued' \in [Sessions -> Nat] /\ running' \in [Sessions -> Nat]
  <2>1. Cardinality(QueuedIn(s)') = Cardinality(QueuedIn(s)) - 1
    BY <1>5, FS_RemoveElement, CountsOfSession
  <2>2. queued' = [queued EXCEPT ![s] = Cardinality(QueuedIn(s)')]
    BY <1>0, <1>2, <2>1 DEF CountersExact
  <2>3. Cardinality(RunningIn(s)) = 0 /\ Cardinality(RunningIn(s)') = 1
    BY <1>1, <1>5, FS_EmptySet, FS_Singleton
  <2>4. running[s] + 1 = Cardinality(RunningIn(s)')
    BY <1>0, <2>3 DEF CountersExact
  <2>5. running' = [running EXCEPT ![s] = Cardinality(RunningIn(s)')]
    BY <1>2, <2>4
  <2>6. QED
    BY <1>0, <1>5, <2>2, <2>5, CountersFrom
<1>7. TypeOK'
  <2>1. summary' \in [Sessions -> {"ready", "running", "awaiting", "failed"}]
    BY <1>0, SummaryType DEF ClaimNext
  <2>2. /\ phase' \in [Executions -> [Generations -> Phases]]
        /\ owner' \in [Executions -> [Generations -> Nat]]
    BY <1>0, <1>2 DEF TypeOK, Phases, Active
  <2>3. QED
    BY <1>0, <1>2, <1>6, <2>1, <2>2 DEF TypeOK
<1>8. OneRunner'
  <2>1. ASSUME NEW r \in Sessions PROVE (\A f, k \in RunningIn(r) : f = k)'
    <3>1. CASE r = s
      BY <1>5, <3>1
    <3>2. CASE r # s
      BY <1>0, <1>5, <3>2 DEF OneRunner
    <3>3. QED
      BY <3>1, <3>2
  <2>2. QED
    BY <2>1 DEF OneRunner
<1>9. RoundsOwned' /\ ToolsOwned' /\ AsksOwned' /\ ActivitiesOwned'
  <2>1. \A f \in Executions : \A h \in Generations : Owned(f, h) => Owned(f, h)'
    BY <1>1, <1>2, <1>3 DEF Owned, Live
  <2>2. \A r \in Sessions : Live(r) => Live(r)'
    BY <1>2 DEF Live
  <2>3. QED
    BY <1>2, <2>1, <2>2, ChildrenKept
<1>10. AttemptsSettled'
  <2> SUFFICES ASSUME NEW f \in Executions, NEW h \in Generations, phase'[f][h] \in Active
               PROVE  /\ h = gen'[f] /\ h # 0 /\ Live(home[f])'
                      /\ phase'[f][h] = "running" => owner'[f][h] = epoch'
    BY DEF AttemptsSettled
  <2>1. CASE f = e
    <3>1. phase[f][h] \in Active /\ (h # g => phase'[f][h] = phase[f][h])
      BY <1>1, <1>4, <2>1 DEF Active
    <3>2. h = gen[f] /\ h # 0 /\ Live(home[f])
      BY <1>0, <3>1 DEF NothingLeftBehind, AttemptsSettled
    <3>3. QED
      BY <1>1, <1>2, <1>4, <2>1, <3>2 DEF Live
  <2>2. CASE f # e
    BY <1>0, <1>2, <1>3, <2>2 DEF NothingLeftBehind, AttemptsSettled, Live
  <2>3. QED
    BY <2>1, <2>2
<1>11. Fresh'
  <2> SUFFICES ASSUME NEW f \in Executions
               PROVE  /\ f > made' => gen'[f] = 0
                      /\ \A h \in Generations : h > gen'[f] => phase'[f][h] = "absent"
    BY DEF Fresh
  <2>1. \A h \in Generations : h > gen[e] => h # g
    BY <1>1 DEF Generations
  <2>2. QED
    BY <1>0, <1>2, <1>3, <1>4, <2>1 DEF Fresh
<1>12. QED
  BY <1>6, <1>7, <1>8, <1>9, <1>10, <1>11 DEF IInv, NothingLeftBehind

\* The children of attempts that end are settled with them, those of the
\* other attempts stay.
LEMMA FinishedChildren ==
    ASSUME IInv, NEW s \in Sessions, NEW E \in SUBSET Executions, NEW outcome \in Ended,
           FinishAll(E, s, outcome)
    PROVE  /\ round' \in [Executions -> [Generations -> {"idle", "chat", "compaction"}]]
           /\ toolPhase' \in [Tools -> {"absent", "preparing", "running", "ended"}]
           /\ askState' \in [Asks -> {"absent", "open", "allowed", "rejected"}]
           /\ \A f \in Executions : \A g \in Generations :
                 round'[f][g] # "idle" => round[f][g] # "idle" /\ f \notin E
           /\ \A t \in Tools : ActiveTool(t)' => ActiveTool(t) /\ toolExec[t] \notin E
           /\ AsksOwned'
<1>0. TypeOK /\ NothingLeftBehind
  BY DEF IInv
<1>1. \A f \in Executions : \A g \in Generations : round[f][g] # "idle" => g = gen[f]
  BY <1>0 DEF NothingLeftBehind, RoundsOwned, Owned
<1>2. \A t \in Tools : ActiveTool(t) => toolExec[t] \in Executions
                                        /\ toolGen[t] = gen[toolExec[t]]
  BY <1>0 DEF NothingLeftBehind, ToolsOwned, Owned
<1>3. \A i \in Asks : askState[i] = "open" =>
         /\ askTool[i] \in Tools /\ toolPhase[askTool[i]] = "running"
         /\ ActiveTool(askTool[i])
  BY <1>0 DEF NothingLeftBehind, AsksOwned, ActiveTool
<1>4. UNCHANGED <<gen, toolExec, toolGen, askTool>>
  BY DEF FinishAll
<1>5. CASE outcome = "succeeded"
  <2>1. /\ \A e \in E : round[e][gen[e]] = "idle"
        /\ \A t \in Tools, e \in E : toolExec[t] = e /\ toolGen[t] = gen[e] => ~ActiveTool(t)
        /\ UNCHANGED <<askState, toolPhase, round>>
    BY <1>5 DEF FinishAll
  <2>2. AsksOwned'
    BY <1>0, <1>4, <2>1 DEF NothingLeftBehind, AsksOwned
  <2>3. \A t \in Tools : ActiveTool(t)' => ActiveTool(t) /\ toolExec[t] \notin E
    BY <1>2, <2>1 DEF ActiveTool
  <2>4. \A f \in Executions : \A g \in Generations :
           round'[f][g] # "idle" => round[f][g] # "idle" /\ f \notin E
    BY <1>1, <2>1
  <2>5. QED
    BY <1>0, <2>1, <2>2, <2>3, <2>4 DEF TypeOK
<1>6. CASE outcome # "succeeded"
  <2> DEFINE mine(t) == \E e \in E : toolExec[t] = e /\ toolGen[t] = gen[e]
  <2>1. /\ askState' = [i \in Asks |->
                         IF /\ askState[i] = "open"
                            /\ \E t \in Tools : askTool[i] = t /\ mine(t)
                         THEN "rejected" ELSE askState[i]]
        /\ toolPhase' = [t \in Tools |->
                          IF mine(t) /\ ActiveTool(t) THEN "ended" ELSE toolPhase[t]]
        /\ round' = [e \in Executions |->
                      IF e \in E THEN [round[e] EXCEPT ![gen[e]] = "idle"] ELSE round[e]]
    BY <1>6 DEF FinishAll, SettleChildren
  <2>2. \A t \in Tools : ActiveTool(t) => (mine(t) <=> toolExec[t] \in E)
    BY <1>2
  <2> HIDE DEF mine
  <2>3. \A t \in Tools : ActiveTool(t)' => ActiveTool(t) /\ toolExec[t] \notin E
    BY <2>1, <2>2 DEF ActiveTool
  <2>4. \A f \in Executions : \A g \in Generations :
           round'[f][g] # "idle" => round[f][g] # "idle" /\ f \notin E
    BY <1>0, <1>1, <2>1 DEF TypeOK
  <2>5. AsksOwned'
    BY <1>3, <1>4, <2>1 DEF AsksOwned
  <2>6. /\ toolPhase' \in [Tools -> {"absent", "preparing", "running", "ended"}]
        /\ askState' \in [Asks -> {"absent", "open", "allowed", "rejected"}]
    BY <1>0, <2>1 DEF TypeOK
  <2>7. round' \in [Executions -> [Generations -> {"idle", "chat", "compaction"}]]
    BY <1>0, <2>1 DEF TypeOK
  <2>8. QED
    BY <2>3, <2>4, <2>5, <2>6, <2>7
<1>7. QED
  BY <1>5, <1>6

LEMMA FinishAllStep ==
    ASSUME IInv, NEW s \in Sessions, NEW E \in SUBSET Executions, NEW outcome \in Ended,
           \A e \in E : home[e] = s /\ Current(e) \in Active,
           FinishAll(E, s, outcome),
           UNCHANGED <<paused, agent, actHome, actOwner>>,
           owner' \in [Executions -> [Generations -> Nat]],
           \A f \in Executions \ E : owner'[f] = owner[f],
           life' \in [Sessions -> {"absent", "live", "deleted"}],
           \A r \in Sessions :
              Live(r) => Live(r)' \/ (r = s /\ QueuedIn(s) \cup RunningIn(s) \subseteq E),
           actPhase' \in [Activities -> {"absent", "running", "ended"}],
           ActivitiesOwned'
    PROVE  IInv'
<1>0. TypeOK /\ CountersExact /\ OneRunner /\ NothingLeftBehind /\ Fresh
  BY DEF IInv
<1>1. /\ UNCHANGED <<made, home, purpose, visible, gen, toolExec, toolGen, askTool, epoch>>
      /\ queued' = [queued EXCEPT ![s] = @ - Cardinality(QueuedIn(s) \cap E)]
      /\ running' = [running EXCEPT ![s] = @ - Cardinality(RunningIn(s) \cap E)]
  BY DEF FinishAll, execVars
<1>2. \A f \in Executions \ E : phase'[f] = phase[f]
  BY DEF FinishAll
<1>3. \A f \in E : /\ phase'[f][gen[f]] = outcome
                   /\ \A g \in Generations : g # gen[f] => phase'[f][g] = phase[f][g]
  BY <1>0 DEF FinishAll, TypeOK
<1>4. phase' \in [Executions -> [Generations -> Phases]]
  BY <1>0 DEF FinishAll, TypeOK, Phases
<1>5. \A r \in Sessions : /\ QueuedIn(r)' = QueuedIn(r) \ E
                          /\ RunningIn(r)' = RunningIn(r) \ E
  BY <1>1, <1>2, <1>3 DEF QueuedIn, RunningIn, Current, Ended
<1>6. \A r \in Sessions \ {s} : QueuedIn(r) \cap E = {} /\ RunningIn(r) \cap E = {}
  BY DEF QueuedIn, RunningIn
<1>7. /\ CountersExact'
      /\ queued' \in [Sessions -> Nat] /\ running' \in [Sessions -> Nat]
  <2>1. Cardinality(QueuedIn(s)') = Cardinality(QueuedIn(s)) - Cardinality(QueuedIn(s) \cap E)
    BY <1>5, FS_Difference, CountsOfSession
  <2>2. Cardinality(RunningIn(s)') = Cardinality(RunningIn(s)) - Cardinality(RunningIn(s) \cap E)
    BY <1>5, FS_Difference, CountsOfSession
  <2>3. /\ queued' = [queued EXCEPT ![s] = Cardinality(QueuedIn(s)')]
        /\ running' = [running EXCEPT ![s] = Cardinality(RunningIn(s)')]
    BY <1>0, <1>1, <2>1, <2>2 DEF CountersExact
  <2>4. \A r \in Sessions \ {s} :
           QueuedIn(r)' = QueuedIn(r) /\ RunningIn(r)' = RunningIn(r)
    <3>1. \A S : S \cap E = {} => S \ E = S
      OBVIOUS
    <3>2. QED
      BY <1>5, <1>6, <3>1
  <2>5. QED
    BY <1>0, <2>3, <2>4, CountersFrom
<1>8. TypeOK'
  <2>1. summary' \in [Sessions -> {"ready", "running", "awaiting", "failed"}]
    BY <1>0, SummaryType DEF FinishAll
  <2>2. QED
    BY <1>0, <1>1, <1>4, <1>7, <2>1, FinishedChildren DEF TypeOK
<1>9. OneRunner'
  BY <1>0, <1>5 DEF OneRunner
<1>10. \A f \in Executions \ E : \A g \in Generations : Owned(f, g) => Owned(f, g)'
  <2> SUFFICES ASSUME NEW f \in Executions \ E, NEW g \in Generations, Owned(f, g)
               PROVE  Owned(f, g)'
    OBVIOUS
  <2>1. home[f] \in Sessions /\ Live(home[f]) /\ f \in RunningIn(home[f])
    BY DEF Owned, Live, RunningIn, Current
  <2>2. PICK r \in Sessions : r = home[f]
    BY <2>1
  <2>3. Live(r)'
    BY <2>1, <2>2
  <2>4. QED
    BY <1>1, <1>2, <2>2, <2>3 DEF Owned, Live
<1>11. RoundsOwned' /\ AsksOwned'
  <2>1. ASSUME NEW f \in Executions, NEW g \in Generations, round'[f][g] # "idle"
        PROVE  Owned(f, g)'
    <3>1. round[f][g] # "idle" /\ f \notin E
      BY <2>1, FinishedChildren
    <3>2. Owned(f, g)
      BY <1>0, <3>1 DEF NothingLeftBehind, RoundsOwned
    <3>3. QED
      BY <1>10, <3>1, <3>2
  <2>2. QED
    BY <2>1, FinishedChildren DEF RoundsOwned
<1>12. ToolsOwned'
  <2> SUFFICES ASSUME NEW t \in Tools, ActiveTool(t)' PROVE Owned(toolExec[t], toolGen[t])'
    BY DEF ToolsOwned
  <2>1. Owned(toolExec[t], toolGen[t]) /\ toolExec[t] \notin E
    BY <1>0, FinishedChildren DEF NothingLeftBehind, ToolsOwned
  <2>2. toolExec[t] \in Executions /\ toolGen[t] \in Generations
    BY <1>0, <2>1 DEF Owned, TypeOK
  <2>3. PICK e \in Executions \ E, g \in Generations : e = toolExec[t] /\ g = toolGen[t]
    BY <2>1, <2>2
  <2>4. Owned(e, g)'
    BY <1>10, <2>1, <2>3
  <2>5. QED
    BY <1>1, <2>3, <2>4 DEF Owned
<1>13. AttemptsSettled'
  <2> SUFFICES ASSUME NEW f \in Executions, NEW g \in Generations, phase'[f][g] \in Active
               PROVE  /\ g = gen'[f] /\ g # 0 /\ Live(home[f])'
                      /\ phase'[f][g] = "running" => owner'[f][g] = epoch'
    BY DEF AttemptsSettled
  <2>1. phase[f][g] \in Active /\ f \notin E
    <3>1. CASE f \in E
      <4>1. g # gen[f]
        BY <1>3, <3>1 DEF Active, Ended
      <4>2. QED
        BY <1>0, <1>3, <3>1, <4>1 DEF NothingLeftBehind, AttemptsSettled
    <3>2. QED
      BY <1>2, <3>1
  <2>2. /\ g = gen[f] /\ g # 0 /\ Live(home[f])
        /\ phase[f][g] = "running" => owner[f][g] = epoch
    BY <1>0, <2>1 DEF NothingLeftBehind, AttemptsSettled
  <2>3. PICK r \in Sessions : r = home[f]
    BY <2>2 DEF Live
  <2>4. f \in QueuedIn(r) \cup RunningIn(r)
    BY <2>1, <2>2, <2>3 DEF QueuedIn, RunningIn, Current, Active
  <2>5. Live(r)'
    BY <2>1, <2>2, <2>3, <2>4
  <2>6. QED
    BY <1>1, <1>2, <2>1, <2>2, <2>3, <2>5 DEF Live
<1>14. Fresh'
  <2> SUFFICES ASSUME NEW f \in Executions
               PROVE  /\ f > made' => gen'[f] = 0
                      /\ \A g \in Generations : g > gen'[f] => phase'[f][g] = "absent"
    BY DEF Fresh
  <2>1. \A g \in Generations : g > gen[f] => g # gen[f]
    BY <1>0 DEF TypeOK, Generations
  <2>2. QED
    BY <1>0, <1>1, <1>2, <1>3, <2>1 DEF Fresh
<1>15. QED
  BY <1>7, <1>8, <1>9, <1>11, <1>12, <1>13, <1>14 DEF IInv, NothingLeftBehind

\* Ending attempts of a session that stays.
LEMMA FinishedInPlace ==
    ASSUME IInv, NEW s \in Sessions, NEW E \in SUBSET Executions, NEW outcome \in Ended,
           \A e \in E : home[e] = s /\ Current(e) \in Active,
           FinishAll(E, s, outcome),
           owner' \in [Executions -> [Generations -> Nat]],
           \A f \in Executions \ E : owner'[f] = owner[f],
           UNCHANGED <<sessionVars, actVars>>
    PROVE  IInv'
<1>0. TypeOK /\ NothingLeftBehind
  BY DEF IInv
<1>1. UNCHANGED <<life, paused, agent, actPhase, actHome, actOwner, epoch>>
  BY DEF sessionVars, actVars, FinishAll
<1>2. ActivitiesOwned' /\ \A r \in Sessions : Live(r) => Live(r)'
  BY <1>0, <1>1 DEF NothingLeftBehind, ActivitiesOwned, Live
<1>3. /\ life' \in [Sessions -> {"absent", "live", "deleted"}]
      /\ actPhase' \in [Activities -> {"absent", "running", "ended"}]
  BY <1>0, <1>1 DEF TypeOK
<1>4. QED
  BY <1>1, <1>2, <1>3, FinishAllStep

LEMMA EndingSteps ==
    ASSUME IInv, NEW e \in Executions, NEW g \in Generations,
           \/ Cancel(e, g) \/ CancelQueued(e)
           \/ \E o \in {"succeeded", "failed", "cancelled"} : Finish(e, g, o)
    PROVE  IInv'
<1>0. TypeOK
  BY DEF IInv
<1>1. CASE Cancel(e, g)
  <2>1. home[e] \in Sessions /\ Current(e) \in Active
    BY <1>1 DEF Cancel, Known, Live, Ends, Active
  <2>2. /\ owner' \in [Executions -> [Generations -> Nat]]
        /\ \A f \in Executions \ {e} : owner'[f] = owner[f]
    BY <1>0, <1>1 DEF Cancel, TypeOK
  <2>3. FinishAll({e}, home[e], "cancelled") /\ UNCHANGED <<sessionVars, actVars>>
    BY <1>1 DEF Cancel
  <2>4. QED
    BY <2>1, <2>2, <2>3, FinishedInPlace DEF Ended
<1>2. CASE CancelQueued(e)
  <2>1. home[e] \in Sessions /\ Current(e) \in Active
    BY <1>2 DEF CancelQueued, Known, Live, Active
  <2>2. FinishAll({e}, home[e], "cancelled") /\ UNCHANGED <<sessionVars, actVars, owner>>
    BY <1>2 DEF CancelQueued
  <2>3. owner' \in [Executions -> [Generations -> Nat]]
    BY <1>0, <2>2 DEF TypeOK
  <2>4. QED
    BY <2>1, <2>2, <2>3, FinishedInPlace DEF Ended
<1>3. ASSUME NEW o \in {"succeeded", "failed", "cancelled"}, Finish(e, g, o) PROVE IInv'
  <2>1. home[e] \in Sessions /\ Current(e) \in Active
    BY <1>3 DEF Finish, Holds, Known, Live, Ends, Active, Current
  <2>2. FinishAll({e}, home[e], o) /\ UNCHANGED <<sessionVars, actVars, owner>>
    BY <1>3 DEF Finish
  <2>3. owner' \in [Executions -> [Generations -> Nat]] /\ o \in Ended
    BY <1>0, <2>2 DEF TypeOK, Ended
  <2>4. QED
    BY <2>1, <2>2, <2>3, FinishedInPlace
<1>4. QED
  BY <1>1, <1>2, <1>3

LEMMA ClearQueuedStep ==
    ASSUME IInv, NEW s \in Sessions, ClearQueued(s)
    PROVE  IInv'
<1>0. TypeOK
  BY DEF IInv
<1>1. \A e \in QueuedIn(s) : home[e] = s /\ Current(e) \in Active
  BY DEF QueuedIn, Active
<1>2. FinishAll(QueuedIn(s), s, "cancelled") /\ UNCHANGED <<sessionVars, actVars, owner>>
  BY DEF ClearQueued
<1>3. owner' \in [Executions -> [Generations -> Nat]]
  BY <1>0, <1>2 DEF TypeOK
<1>4. QueuedIn(s) \in SUBSET Executions /\ "cancelled" \in Ended
  BY DEF QueuedIn, Ended
<1>5. QED
  BY <1>1, <1>2, <1>3, <1>4, FinishedInPlace

LEMMA DeleteStep ==
    ASSUME IInv, NEW s \in Sessions, Delete(s)
    PROVE  IInv'
<1> DEFINE E == QueuedIn(s) \cup RunningIn(s)
<1>0. TypeOK /\ NothingLeftBehind
  BY DEF IInv
<1>1. /\ \A e \in E : home[e] = s /\ Current(e) \in Active
      /\ E \in SUBSET Executions /\ "cancelled" \in Ended
  BY DEF QueuedIn, RunningIn, Active, Ended
<1>2. /\ FinishAll(E, s, "cancelled") /\ UNCHANGED <<paused, agent, owner, actHome, actOwner>>
      /\ life' = [life EXCEPT ![s] = "deleted"] /\ epoch' = epoch
      /\ actPhase' = [a \in Activities |->
                       IF actHome[a] = s /\ actPhase[a] = "running" THEN "ended"
                       ELSE actPhase[a]]
  BY DEF Delete, FinishAll
<1>3. /\ owner' \in [Executions -> [Generations -> Nat]]
      /\ life' \in [Sessions -> {"absent", "live", "deleted"}]
      /\ actPhase' \in [Activities -> {"absent", "running", "ended"}]
  BY <1>0, <1>2 DEF TypeOK
<1>4. \A r \in Sessions : Live(r) => Live(r)' \/ (r = s /\ E \subseteq E)
  BY <1>0, <1>2 DEF Live, TypeOK
<1>5. ActivitiesOwned'
  BY <1>0, <1>2 DEF NothingLeftBehind, ActivitiesOwned, Live, TypeOK
<1>6. QED
  BY <1>1, <1>2, <1>3, <1>4, <1>5, FinishAllStep

-----------------------------------------------------------------------------
(* Steps that change no attempt. *)

LEMMA AttemptsKept ==
    ASSUME IInv, TypeOK',
           UNCHANGED <<life, queued, running, made, home, gen, phase, owner, epoch>>,
           RoundsOwned' /\ ToolsOwned' /\ AsksOwned' /\ ActivitiesOwned'
    PROVE  IInv'
<1>0. CountersExact /\ OneRunner /\ NothingLeftBehind /\ Fresh
  BY DEF IInv
<1>1. \A s \in Sessions : QueuedIn(s)' = QueuedIn(s) /\ RunningIn(s)' = RunningIn(s)
  BY DEF QueuedIn, RunningIn, Current
<1>2. CountersExact' /\ OneRunner'
  BY <1>0, <1>1 DEF CountersExact, OneRunner
<1>3. AttemptsSettled' /\ Fresh'
  BY <1>0 DEF NothingLeftBehind, AttemptsSettled, Fresh, Live
<1>4. QED
  BY <1>2, <1>3 DEF IInv, NothingLeftBehind

\* A handle that passes check_scope is the owner of its attempt.
LEMMA ScopeOwns ==
    ASSUME TypeOK, NEW e \in Executions, NEW g \in Generations, CheckScope(e, g)
    PROVE  Owned(e, g) /\ home[e] \in Sessions /\ Live(home[e])
  BY DEF CheckScope, Holds, Known, Owned, Live

LEMMA RoundSteps ==
    ASSUME IInv, NEW e \in Executions, NEW g \in Generations,
           \/ \E k \in {"chat", "compaction"} : BeginRound(e, g, k)
           \/ \E ok \in BOOLEAN : FinishRound(e, g, ok)
           \/ CommitCompaction(e, g)
    PROVE  IInv'
<1>0. TypeOK /\ NothingLeftBehind
  BY DEF IInv
<1>1. CheckScope(e, g) /\ Owned(e, g)
  BY <1>0, ScopeOwns DEF BeginRound, FinishRound, CommitCompaction
<1>2. PICK k \in {"idle", "chat", "compaction"} : round' = [round EXCEPT ![e][g] = k]
  BY DEF BeginRound, FinishRound, CommitCompaction
<1>3. UNCHANGED <<life, paused, agent, queued, running, made, home, purpose, visible, gen,
                  phase, owner, toolExec, toolGen, askState, askTool, actPhase, actHome,
                  actOwner, epoch>>
  BY DEF BeginRound, FinishRound, CommitCompaction, sessionVars, execVars, attemptVars,
         toolVars, askVars, actVars
<1>4. /\ toolPhase' \in [Tools -> {"absent", "preparing", "running", "ended"}]
      /\ \A t \in Tools : /\ toolPhase'[t] \in {"preparing", "running"} => ActiveTool(t)
                          /\ toolPhase[t] = "running" => toolPhase'[t] = "running"
  BY <1>0 DEF BeginRound, FinishRound, CommitCompaction, toolVars, ActiveTool, TypeOK
<1>5. \A f \in Executions : \A h \in Generations : Owned(f, h)' = Owned(f, h)
  BY <1>3 DEF Owned, Live
<1>6. TypeOK'
  <2>1. summary' \in [Sessions -> {"ready", "running", "awaiting", "failed"}]
    BY <1>0, SummaryType DEF BeginRound, FinishRound, CommitCompaction
  <2>2. round' \in [Executions -> [Generations -> {"idle", "chat", "compaction"}]]
    BY <1>0, <1>2 DEF TypeOK
  <2>3. QED
    BY <1>0, <1>3, <1>4, <2>1, <2>2 DEF TypeOK
<1>7. RoundsOwned'
  <2> SUFFICES ASSUME NEW f \in Executions, NEW h \in Generations, round'[f][h] # "idle"
               PROVE  Owned(f, h)'
    BY DEF RoundsOwned
  <2>1. CASE f = e /\ h = g
    BY <1>1, <1>5, <2>1
  <2>2. CASE ~(f = e /\ h = g)
    <3>1. round'[f][h] = round[f][h]
      BY <1>0, <1>2, <2>2 DEF TypeOK
    <3>2. QED
      BY <1>0, <1>5, <3>1 DEF NothingLeftBehind, RoundsOwned
  <2>3. QED
    BY <2>1, <2>2
<1>8. ToolsOwned'
  BY <1>0, <1>3, <1>4 DEF NothingLeftBehind, ToolsOwned, ActiveTool, Owned, Live
<1>9. AsksOwned' /\ ActivitiesOwned'
  BY <1>0, <1>3, <1>4 DEF NothingLeftBehind, AsksOwned, ActivitiesOwned, Live
<1>10. QED
  BY <1>3, <1>6, <1>7, <1>8, <1>9, AttemptsKept

LEMMA ToolSteps ==
    ASSUME IInv, NEW e \in Executions, NEW g \in Generations, NEW t \in Tools,
           \/ \E p \in {"preparing", "running"} : BeginTool(e, g, t, p)
           \/ FinalizeTool(e, g, t) \/ CompleteTool(e, g, t)
    PROVE  IInv'
<1>0. TypeOK /\ NothingLeftBehind
  BY DEF IInv
<1>1. Owned(e, g)
  BY <1>0, ScopeOwns DEF BeginTool, FinalizeTool, CompleteTool
<1>2. PICK p \in {"preparing", "running", "ended"} : toolPhase' = [toolPhase EXCEPT ![t] = p]
  BY DEF BeginTool, FinalizeTool, CompleteTool
<1>3. /\ toolExec' = [toolExec EXCEPT ![t] = e] /\ toolGen' = [toolGen EXCEPT ![t] = g]
      /\ UNCHANGED <<life, paused, agent, queued, running, made, home, purpose, visible,
                     gen, phase, owner, round, askState, askTool, actPhase, actHome,
                     actOwner, epoch>>
  BY <1>0 DEF BeginTool, FinalizeTool, CompleteTool, CheckTool, sessionVars, execVars,
              attemptVars, askVars, actVars, TypeOK
<1>4. \A i \in Asks : askState[i] = "open" /\ askTool[i] = t => p = "running"
  <2>1. CASE \E q \in {"preparing", "running"} : BeginTool(e, g, t, q)
    BY <1>0, <2>1 DEF BeginTool, NothingLeftBehind, AsksOwned
  <2>2. CASE FinalizeTool(e, g, t)
    BY <1>0, <2>2 DEF FinalizeTool, NothingLeftBehind, AsksOwned
  <2>3. CASE CompleteTool(e, g, t)
    BY <2>3 DEF CompleteTool
  <2>4. QED
    BY <2>1, <2>2, <2>3
<1>5. TypeOK'
  <2>1. summary' \in [Sessions -> {"ready", "running", "awaiting", "failed"}]
    BY <1>0, SummaryType DEF BeginTool, FinalizeTool, CompleteTool
  <2>2. /\ toolPhase' \in [Tools -> {"absent", "preparing", "running", "ended"}]
        /\ toolExec' \in [Tools -> Nat] /\ toolGen' \in [Tools -> Nat]
    BY <1>0, <1>2, <1>3 DEF TypeOK, Executions, Generations
  <2>3. QED
    BY <1>0, <1>3, <2>1, <2>2 DEF TypeOK
<1>6. RoundsOwned'
  BY <1>0, <1>3 DEF NothingLeftBehind, RoundsOwned, Owned, Live
<1>7. ToolsOwned'
  <2> SUFFICES ASSUME NEW u \in Tools, ActiveTool(u)' PROVE Owned(toolExec[u], toolGen[u])'
    BY DEF ToolsOwned
  <2>1. CASE u = t
    <3>1. toolExec'[u] = e /\ toolGen'[u] = g
      BY <1>0, <1>3, <2>1 DEF TypeOK
    <3>2. QED
      BY <1>1, <1>3, <3>1 DEF Owned, Live
  <2>2. CASE u # t
    <3>1. ActiveTool(u) /\ toolExec'[u] = toolExec[u] /\ toolGen'[u] = toolGen[u]
      BY <1>0, <1>2, <1>3, <2>2 DEF TypeOK, ActiveTool
    <3>2. QED
      BY <1>0, <1>3, <3>1 DEF NothingLeftBehind, ToolsOwned, Owned, Live
  <2>3. QED
    BY <2>1, <2>2
<1>8. AsksOwned'
  BY <1>0, <1>2, <1>3, <1>4 DEF NothingLeftBehind, AsksOwned, TypeOK
<1>9. ActivitiesOwned'
  BY <1>0, <1>3 DEF NothingLeftBehind, ActivitiesOwned, Live
<1>10. QED
  BY <1>3, <1>5, <1>6, <1>7, <1>8, <1>9, AttemptsKept

LEMMA InteractionSteps ==
    ASSUME IInv, NEW i \in Asks,
           \/ \E e \in Executions, g \in Generations, t \in Tools :
                 RequestInteraction(e, g, t, i)
           \/ \E d \in {"allowed", "rejected"} : Reply(i, d)
    PROVE  IInv'
<1>0. TypeOK /\ NothingLeftBehind
  BY DEF IInv
<1>1. /\ UNCHANGED <<life, paused, agent, queued, running, made, home, purpose, visible,
                     gen, phase, owner, round, toolPhase, toolExec, toolGen, actPhase,
                     actHome, actOwner, epoch>>
      /\ \E s : Triggered(s)
  BY DEF RequestInteraction, Reply, sessionVars, execVars, attemptVars, toolVars, actVars
<1>2. /\ askState' \in [Asks -> {"absent", "open", "allowed", "rejected"}]
      /\ askTool' \in [Asks -> Tools \cup {NoTool}]
  <2>1. CASE \E e \in Executions, g \in Generations, t \in Tools :
                RequestInteraction(e, g, t, i)
    BY <1>0, <2>1 DEF RequestInteraction, TypeOK
  <2>2. CASE \E d \in {"allowed", "rejected"} : Reply(i, d)
    BY <1>0, <2>2 DEF Reply, TypeOK
  <2>3. QED
    BY <2>1, <2>2
<1>3. AsksOwned'
  <2>1. ASSUME NEW e \in Executions, NEW g \in Generations, NEW t \in Tools,
               RequestInteraction(e, g, t, i)
        PROVE  AsksOwned'
    BY <1>0, <1>1, <2>1 DEF RequestInteraction, CheckTool, NothingLeftBehind, AsksOwned,
                            TypeOK
  <2>2. ASSUME NEW d \in {"allowed", "rejected"}, Reply(i, d) PROVE AsksOwned'
    BY <1>0, <1>1, <2>2 DEF Reply, NothingLeftBehind, AsksOwned, TypeOK
  <2>3. QED
    BY <2>1, <2>2
<1>4. TypeOK'
  <2>1. summary' \in [Sessions -> {"ready", "running", "awaiting", "failed"}]
    BY <1>0, <1>1, SummaryType
  <2>2. QED
    BY <1>0, <1>1, <1>2, <2>1 DEF TypeOK
<1>5. RoundsOwned' /\ ToolsOwned' /\ ActivitiesOwned'
  BY <1>0, <1>1 DEF NothingLeftBehind, RoundsOwned, ToolsOwned, ActivitiesOwned, Owned,
                    Live, ActiveTool
<1>6. QED
  BY <1>1, <1>3, <1>4, <1>5, AttemptsKept

LEMMA ActivitySteps ==
    ASSUME IInv, NEW a \in Activities,
           \/ \E e \in Executions, g \in Generations, t \in Tools : BeginActivity(e, g, t, a)
           \/ EndActivity(a)
    PROVE  IInv'
<1>0. TypeOK /\ NothingLeftBehind
  BY DEF IInv
<1>1. /\ UNCHANGED <<life, paused, agent, queued, running, made, home, purpose, visible,
                     gen, phase, owner, round, toolPhase, toolExec, toolGen, askState,
                     askTool, epoch>>
      /\ \E s : Untriggered(s)
  BY DEF BeginActivity, EndActivity, sessionVars, execVars, attemptVars, toolVars, askVars
<1>2. /\ actPhase' \in [Activities -> {"absent", "running", "ended"}]
      /\ actHome' \in [Activities -> Sessions \cup {NoSession}]
      /\ actOwner' \in [Activities -> Nat]
      /\ ActivitiesOwned'
  <2>1. ASSUME NEW e \in Executions, NEW g \in Generations, NEW t \in Tools,
               BeginActivity(e, g, t, a)
        PROVE  <1>2!1 /\ <1>2!2 /\ <1>2!3 /\ <1>2!4
    <3>1. home[e] \in Sessions /\ Live(home[e])
      BY <1>0, <2>1, ScopeOwns DEF BeginActivity
    <3>2. QED
      BY <1>0, <1>1, <2>1, <3>1 DEF BeginActivity, NothingLeftBehind, ActivitiesOwned,
                                    Live, TypeOK
  <2>2. ASSUME EndActivity(a) PROVE <1>2!1 /\ <1>2!2 /\ <1>2!3 /\ <1>2!4
    BY <1>0, <1>1, <2>2 DEF EndActivity, NothingLeftBehind, ActivitiesOwned, Live, TypeOK
  <2>3. QED
    BY <2>1, <2>2
<1>3. TypeOK'
  <2>1. summary' \in [Sessions -> {"ready", "running", "awaiting", "failed"}]
    BY <1>0, <1>1, SummaryType
  <2>2. QED
    BY <1>0, <1>1, <1>2, <2>1 DEF TypeOK
<1>4. RoundsOwned' /\ ToolsOwned' /\ AsksOwned'
  BY <1>0, <1>1 DEF NothingLeftBehind, RoundsOwned, ToolsOwned, AsksOwned, Owned, Live,
                    ActiveTool
<1>5. QED
  BY <1>1, <1>2, <1>3, <1>4, AttemptsKept

LEMMA SettingSteps ==
    ASSUME IInv,
           \/ \E s \in Sessions, p \in SUBSET Sessions : SetPaused(s, p)
           \/ \E s \in Sessions, a \in {"done", "active"} : SetAgent(s, a)
           \/ \E e \in Executions : Withdraw(e)
    PROVE  IInv'
<1>0. TypeOK /\ NothingLeftBehind
  BY DEF IInv
<1>1. /\ UNCHANGED <<life, queued, running, made, home, purpose, gen, phase, owner, round,
                     toolPhase, toolExec, toolGen, askState, askTool, actPhase, actHome,
                     actOwner, epoch>>
      /\ \E s : Triggered(s) \/ Untriggered(s)
  BY DEF SetPaused, SetAgent, Withdraw, sessionVars, execVars, attemptVars, toolVars,
         askVars, actVars
<1>2. /\ paused' \subseteq Sessions /\ visible' \subseteq Executions
      /\ agent' \in [Sessions -> {"none", "active", "done", "interrupted"}]
  <2>1. CASE \E s \in Sessions, p \in SUBSET Sessions : SetPaused(s, p)
    BY <1>0, <2>1 DEF SetPaused, execVars, TypeOK
  <2>2. CASE \E s \in Sessions, a \in {"done", "active"} : SetAgent(s, a)
    BY <1>0, <2>2 DEF SetAgent, execVars, TypeOK
  <2>3. CASE \E e \in Executions : Withdraw(e)
    BY <1>0, <2>3 DEF Withdraw, sessionVars, TypeOK
  <2>4. QED
    BY <2>1, <2>2, <2>3
<1>3. summary' \in [Sessions -> {"ready", "running", "awaiting", "failed"}]
  BY <1>0, <1>1, SummaryType
<1>4. TypeOK'
  BY <1>0, <1>1, <1>2, <1>3 DEF TypeOK
<1>5. /\ \A e \in Executions : \A g \in Generations : Owned(e, g) => Owned(e, g)'
      /\ \A s \in Sessions : Live(s) => Live(s)'
  BY <1>1 DEF Owned, Live
<1>6. QED
  BY <1>1, <1>4, <1>5, ChildrenKept, AttemptsKept

-----------------------------------------------------------------------------
(* Sessions begin, processes restart. *)

LEMMA CreateStep ==
    ASSUME IInv, NEW s \in Sessions, NEW a \in {"none", "active"}, Create(s, a)
    PROVE  IInv'
<1>0. TypeOK /\ CountersExact /\ OneRunner /\ NothingLeftBehind /\ Fresh
  BY DEF IInv
<1>1. /\ life' = [life EXCEPT ![s] = "live"] /\ agent' = [agent EXCEPT ![s] = a]
      /\ UNCHANGED <<paused, queued, running, summary, made, home, purpose, visible, gen,
                     phase, owner, round, toolPhase, toolExec, toolGen, askState, askTool,
                     actPhase, actHome, actOwner, epoch>>
  BY DEF Create, statVars, execVars, attemptVars, toolVars, askVars, actVars
<1>2. TypeOK'
  BY <1>0, <1>1 DEF TypeOK
<1>3. \A r \in Sessions : /\ QueuedIn(r)' = QueuedIn(r) /\ RunningIn(r)' = RunningIn(r)
                          /\ Live(r) => Live(r)'
  BY <1>0, <1>1 DEF QueuedIn, RunningIn, Current, Live, TypeOK
<1>4. CountersExact' /\ OneRunner'
  BY <1>0, <1>1, <1>3 DEF CountersExact, OneRunner
<1>5. \A e \in Executions : \A g \in Generations : Owned(e, g) => Owned(e, g)'
  BY <1>0, <1>1 DEF Owned, Live, TypeOK
<1>6. RoundsOwned' /\ ToolsOwned' /\ AsksOwned' /\ ActivitiesOwned'
  BY <1>1, <1>3, <1>5, ChildrenKept
<1>7. AttemptsSettled' /\ Fresh'
  BY <1>0, <1>1 DEF NothingLeftBehind, AttemptsSettled, Fresh, Live, TypeOK
<1>8. QED
  BY <1>2, <1>4, <1>6, <1>7 DEF IInv, NothingLeftBehind

LEMMA RestartStep ==
    ASSUME IInv, Restart
    PROVE  IInv'
<1>0. TypeOK /\ CountersExact /\ OneRunner /\ NothingLeftBehind /\ Fresh
  BY DEF IInv
<1>1. UNCHANGED <<life, paused, made, home, purpose, visible, gen, owner, toolExec,
                  toolGen, askTool, actHome, actOwner>>
  BY DEF Restart, execVars
<1>2. /\ \A e \in Executions : \A g \in Generations :
            phase'[e][g] = IF phase[e][g] = "running" \/ Withheld(e, g) THEN "interrupted"
                           ELSE phase[e][g]
      /\ phase' \in [Executions -> [Generations -> Phases]]
  BY <1>0 DEF Restart, TypeOK, Phases, Ended
<1>3. \A e \in Executions : \A g \in Generations :
         phase'[e][g] \in Active => phase[e][g] = "queued" /\ phase'[e][g] = "queued"
  BY <1>0, <1>2 DEF Active
<1>4. \A s \in Sessions :
         /\ RunningIn(s)' = {}
         /\ QueuedIn(s)' = IF Live(s) /\ agent'[s] = "interrupted"
                           THEN {e \in QueuedIn(s) : purpose[e] = "compaction"}
                           ELSE QueuedIn(s)
  <2> SUFFICES ASSUME NEW s \in Sessions
               PROVE  /\ RunningIn(s)' = {}
                      /\ QueuedIn(s)' = IF Live(s) /\ agent'[s] = "interrupted"
                                        THEN {e \in QueuedIn(s) : purpose[e] = "compaction"}
                                        ELSE QueuedIn(s)
    OBVIOUS
  <2>1. \A e \in Executions : gen'[e] = gen[e] /\ gen[e] \in Generations /\ home'[e] = home[e]
    BY <1>0, <1>1 DEF TypeOK
  <2>2. RunningIn(s)' = {}
    BY <1>3, <2>1 DEF RunningIn, Current, Active
  <2>3. \A e \in Executions : home[e] = s =>
           (e \in QueuedIn(s)' <=>
              /\ e \in QueuedIn(s)
              /\ Live(s) /\ agent'[s] = "interrupted" => purpose[e] = "compaction")
    BY <1>2, <2>1 DEF QueuedIn, Current, Withheld
  <2>4. \A e \in QueuedIn(s)' \cup QueuedIn(s) : e \in Executions /\ home[e] = s
    BY <2>1 DEF QueuedIn
  <2>5. QED
    BY <2>2, <2>3, <2>4
<1>5. /\ CountersExact'
      /\ queued' \in [Sessions -> Nat] /\ running' \in [Sessions -> Nat]
  <2>1. ASSUME NEW s \in Sessions
        PROVE  /\ queued'[s] = Cardinality(QueuedIn(s)') /\ queued'[s] \in Nat
               /\ running'[s] = Cardinality(RunningIn(s)') /\ running'[s] = 0
    <3>1. Cardinality(RunningIn(s)') = 0
      BY <1>4, FS_EmptySet
    <3>2. running'[s] = 0
      <4>1. CASE \E e \in Executions :
                    home[e] = s /\ \E g \in Generations : phase[e][g] = "running"
        BY <4>1 DEF Restart
      <4>2. CASE ~ \E e \in Executions :
                      home[e] = s /\ \E g \in Generations : phase[e][g] = "running"
        <5>1. RunningIn(s) = {}
          BY <1>0, <4>2 DEF RunningIn, Current, TypeOK
        <5>2. running[s] = 0
          BY <1>0, <5>1, FS_EmptySet DEF CountersExact
        <5>3. QED
          BY <4>2, <5>2 DEF Restart
      <4>3. QED
        BY <4>1, <4>2
    <3>3. queued[s] = Cardinality(QueuedIn(s)) /\ queued[s] \in Nat
      BY <1>0 DEF CountersExact, TypeOK
    <3>4. queued'[s] = Cardinality(QueuedIn(s)')
      <4>1. CASE Live(s) /\ agent'[s] = "interrupted" /\ queued[s] > 0
        BY <1>4, <4>1 DEF Restart
      <4>2. CASE Live(s) /\ agent'[s] = "interrupted" /\ queued[s] = 0
        <5>1. QueuedIn(s) = {}
          BY <3>3, <4>2, FS_EmptySet, CountsOfSession
        <5>2. QueuedIn(s)' = {}
          BY <1>4, <4>2, <5>1
        <5>3. queued'[s] = queued[s]
          BY <4>2 DEF Restart
        <5>4. QED
          BY <4>2, <5>2, <5>3, FS_EmptySet
      <4>3. CASE ~(Live(s) /\ agent'[s] = "interrupted")
        <5>1. queued'[s] = queued[s]
          BY <4>3 DEF Restart
        <5>2. QED
          BY <1>4, <3>3, <4>3, <5>1
      <4>4. QED
        BY <3>3, <4>1, <4>2, <4>3
    <3>5. Cardinality(QueuedIn(s)') \in Nat
      <4>1. QueuedIn(s)' \in SUBSET Executions
        BY DEF QueuedIn
      <4>2. QED
        BY <4>1, FiniteCounts
    <3>6. QED
      BY <3>1, <3>2, <3>4, <3>5
  <2>2. DOMAIN queued' = Sessions /\ DOMAIN running' = Sessions
        /\ queued' = [s \in Sessions |-> queued'[s]] /\ running' = [s \in Sessions |-> running'[s]]
    BY DEF Restart
  <2>3. QED
    BY <2>1, <2>2 DEF CountersExact
<1>6. /\ \A e \in Executions : \A g \in Generations : round'[e][g] = "idle"
      /\ \A t \in Tools : toolPhase'[t] \in {"absent", "ended"}
      /\ \A a \in Activities : actPhase'[a] # "running"
      /\ \A i \in Asks : askState'[i] # "open"
  <2>1. \A i \in Asks : askState[i] = "open" => \E t \in Tools : askTool[i] = t /\ ActiveTool(t)
    BY <1>0 DEF NothingLeftBehind, AsksOwned, ActiveTool
  <2>2. QED
    BY <1>0, <2>1 DEF Restart, TypeOK, ActiveTool
<1>7. RoundsOwned' /\ ToolsOwned' /\ AsksOwned' /\ ActivitiesOwned'
  BY <1>6 DEF RoundsOwned, ToolsOwned, AsksOwned, ActivitiesOwned, ActiveTool
<1>8. TypeOK'
  <2>1. /\ summary' \in [Sessions -> {"ready", "running", "awaiting", "failed"}]
        /\ agent' \in [Sessions -> {"none", "active", "done", "interrupted"}]
    BY <1>0 DEF Restart, State, TypeOK
  <2>2. /\ round' \in [Executions -> [Generations -> {"idle", "chat", "compaction"}]]
        /\ toolPhase' \in [Tools -> {"absent", "preparing", "running", "ended"}]
        /\ askState' \in [Asks -> {"absent", "open", "allowed", "rejected"}]
        /\ actPhase' \in [Activities -> {"absent", "running", "ended"}]
        /\ epoch' \in Nat \ {0}
    BY <1>0 DEF Restart, TypeOK
  <2>3. QED
    BY <1>0, <1>1, <1>2, <1>5, <2>1, <2>2 DEF TypeOK
<1>9. OneRunner'
  BY <1>4 DEF OneRunner
<1>10. AttemptsSettled' /\ Fresh'
  <2>1. AttemptsSettled'
    <3> SUFFICES ASSUME NEW f \in Executions, NEW g \in Generations, phase'[f][g] \in Active
                 PROVE  /\ g = gen'[f] /\ g # 0 /\ Live(home[f])'
                        /\ phase'[f][g] # "running"
      BY DEF AttemptsSettled
    <3>1. phase[f][g] \in Active /\ phase'[f][g] # "running"
      BY <1>3 DEF Active
    <3>2. QED
      BY <1>0, <1>1, <3>1 DEF NothingLeftBehind, AttemptsSettled, Live
  <2>2. Fresh'
    BY <1>0, <1>1, <1>2 DEF Fresh, Withheld
  <2>3. QED
    BY <2>1, <2>2
<1>11. QED
  BY <1>5, <1>7, <1>8, <1>9, <1>10 DEF IInv, NothingLeftBehind

-----------------------------------------------------------------------------
(* The theorems. *)

LEMMA InitInv == Init => IInv
<1> SUFFICES ASSUME Init PROVE IInv
  OBVIOUS
<1>1. 0 \in Generations /\ 0 \in 0 .. MaxExecutions
  BY KernelAssumption DEF Generations
<1>2. TypeOK
  BY <1>1 DEF Init, TypeOK, Phases
<1>3. \A s \in Sessions : QueuedIn(s) = {} /\ RunningIn(s) = {}
  BY <1>1 DEF Init, QueuedIn, RunningIn, Current
<1>4. CountersExact /\ OneRunner
  BY <1>3, FS_EmptySet DEF Init, CountersExact, OneRunner
<1>5. NothingLeftBehind /\ Fresh
  BY DEF Init, NothingLeftBehind, RoundsOwned, ToolsOwned, AsksOwned, AttemptsSettled,
         ActivitiesOwned, ActiveTool, Active, Fresh
<1>6. QED
  BY <1>2, <1>4, <1>5 DEF IInv

LEMMA SessionStepInv ==
    ASSUME IInv, NEW s \in Sessions, SessionStep(s)
    PROVE  IInv'
<1>1. ASSUME NEW p \in {"message", "continuation", "compaction"}, Live(s), Enqueue(s, p)
      PROVE  IInv'
  BY <1>1, EnqueueStep
<1>2. CASE Send(s) \/ \E p \in {"continuation", "compaction"} : StartControl(s, p)
  BY <1>1, <1>2 DEF Send, StartControl
<1>3. CASE \E a \in {"none", "active"} : Create(s, a)
  BY <1>3, CreateStep
<1>4. CASE ClearQueued(s) \/ Delete(s)
  BY <1>4, ClearQueuedStep, DeleteStep
<1>5. CASE \/ \E p \in {paused \cup {s}, paused \ {s}} : SetPaused(s, p)
           \/ \E a \in {"done", "active"} : SetAgent(s, a)
  <2>1. paused \cup {s} \in SUBSET Sessions /\ paused \ {s} \in SUBSET Sessions
    BY DEF IInv, TypeOK
  <2>2. QED
    BY <1>5, <2>1, SettingSteps
<1>6. QED
  BY <1>2, <1>3, <1>4, <1>5 DEF SessionStep

LEMMA ExecutionStepInv ==
    ASSUME IInv, NEW e \in Executions, ExecutionStep(e)
    PROVE  IInv'
<1>1. CASE Retry(e)
  BY <1>1, RetryStep
<1>2. CASE Continue(e)
  <2>1. CASE StartControl(home[e], "continuation")
    <3>1. PICK s \in Sessions : s = home[e]
      BY <1>2 DEF Continue, Known, Live
    <3>2. Live(s) /\ Enqueue(s, "continuation")
      BY <2>1, <3>1 DEF StartControl
    <3>3. QED
      BY <3>2, EnqueueStep
  <2>2. QED
    BY <1>2, <2>1, RetryStep DEF Continue
<1>3. CASE CancelQueued(e) \/ \E g \in Generations : Cancel(e, g)
  BY <1>3, EndingSteps DEF CancelQueued, Known, IInv, TypeOK
<1>4. CASE \E g \in Generations : ClaimNext(e, g)
  BY <1>4, ClaimNextStep
<1>5. CASE Withdraw(e)
  BY <1>5, SettingSteps
<1>6. QED
  BY <1>1, <1>2, <1>3, <1>4, <1>5 DEF ExecutionStep

LEMMA NextInv == IInv /\ [Next]_vars => IInv'
<1> SUFFICES ASSUME IInv, [Next]_vars PROVE IInv'
  OBVIOUS
<1>1. ASSUME NEW e \in Executions, NEW g \in Generations, AttemptStep(e, g) PROVE IInv'
  BY <1>1, EndingSteps, RoundSteps, ToolSteps, InteractionSteps, ActivitySteps
     DEF AttemptStep
<1>2. CASE \E i \in Asks : \E d \in {"allowed", "rejected"} : Reply(i, d)
  BY <1>2, InteractionSteps
<1>3. CASE \E a \in Activities : EndActivity(a)
  BY <1>3, ActivitySteps
<1>4. CASE UNCHANGED vars
  <2>1. UNCHANGED <<life, paused, agent, queued, running, summary, made, home, purpose,
                    visible, gen, phase, owner, round, toolPhase, toolExec, toolGen,
                    askState, askTool, actPhase, actHome, actOwner, epoch>>
    BY <1>4 DEF vars, sessionVars, statVars, execVars, attemptVars, toolVars, askVars,
                actVars
  <2>2. TypeOK'
    BY <2>1 DEF IInv, TypeOK
  <2>3. /\ \A e \in Executions : \A g \in Generations : Owned(e, g) => Owned(e, g)'
        /\ \A s \in Sessions : Live(s) => Live(s)'
    BY <2>1 DEF Owned, Live
  <2>4. QED
    BY <2>1, <2>2, <2>3, ChildrenKept, AttemptsKept
<1>5. QED
  BY <1>1, <1>2, <1>3, <1>4, SessionStepInv, ExecutionStepInv, RestartStep DEF Next

(***************************************************************************)
(* The conjunction of what the tables promise each other is inductive.     *)
(***************************************************************************)
THEOREM KernelInvariant == Spec => []IInv
<1>1. Init => IInv
  BY InitInv
<1>2. IInv /\ [Next]_vars => IInv'
  BY NextInv
<1>3. QED
  BY <1>1, <1>2, PTL DEF Spec

(***************************************************************************)
(* Every column keeps its type; in particular the CHECK that the execution *)
(* counters of agena_session_statistics are not negative never refuses a   *)
(* command.                                                                *)
(***************************************************************************)
THEOREM KernelTypes == Spec => []TypeOK
  BY KernelInvariant, PTL DEF IInv

(***************************************************************************)
(* queued_executions and running_executions, kept by deltas and by the     *)
(* recounts of recover, are exact after every command and every restart.   *)
(***************************************************************************)
THEOREM KernelCounters == Spec => []CountersExact
  BY KernelInvariant, PTL DEF IInv

(***************************************************************************)
(* ClaimNext never gives a session a second running execution.             *)
(***************************************************************************)
THEOREM KernelOneRunner == Spec => []OneRunner
  BY KernelInvariant, PTL DEF IInv

(***************************************************************************)
(* finish, settle_children, delete and recover leave no running round,     *)
(* unfinished tool call, undecided interaction, active attempt or running  *)
(* activity without the owner that would end it.                           *)
(***************************************************************************)
THEOREM KernelSettles == Spec => []NothingLeftBehind
  BY KernelInvariant, PTL DEF IInv

LEMMA FinishRecords ==
    ASSUME IInv, NEW s \in Sessions, NEW E \in SUBSET Executions, NEW outcome,
           \A f \in E : Ends(phase[f][gen[f]], outcome) /\ outcome \in Ended,
           FinishAll(E, s, outcome)
    PROVE  \A e \in Executions, g \in Generations : Recorded(phase[e][g], phase'[e][g])
  BY DEF IInv, TypeOK, FinishAll, Recorded, Ends

LEMMA HistoryStep ==
    ASSUME IInv, [Next]_vars
    PROVE  \A e \in Executions, g \in Generations : Recorded(phase[e][g], phase'[e][g])
<1>0. TypeOK /\ Fresh
  BY DEF IInv
<1> DEFINE Goal == \A e \in Executions, g \in Generations :
                      Recorded(phase[e][g], phase'[e][g])
<1>1. ASSUME NEW s, NEW p, Enqueue(s, p) PROVE Goal
  <2> DEFINE n == made + 1
  <2>1. n \in Executions /\ n > made /\ 1 \in Generations /\ 1 > 0
    BY <1>0, <1>1, KernelAssumption DEF Enqueue, TypeOK, Executions, Generations
  <2>2. phase[n][1] = "absent" /\ phase' = [phase EXCEPT ![n][1] = "queued"]
    BY <1>0, <1>1, <2>1 DEF Fresh, Enqueue
  <2> HIDE DEF n
  <2>3. QED
    BY <1>0, <2>1, <2>2 DEF TypeOK, Recorded
<1>2. ASSUME NEW e \in Executions, Retry(e) PROVE Goal
  <2> DEFINE n == gen[e] + 1
  <2>1. n \in Generations /\ n > gen[e]
    BY <1>0, <1>2, KernelAssumption DEF Retry, TypeOK, Generations
  <2>2. phase[e][n] = "absent" /\ phase' = [phase EXCEPT ![e][n] = "queued"]
    BY <1>0, <1>2, <2>1 DEF Fresh, Retry
  <2> HIDE DEF n
  <2>3. QED
    BY <1>0, <2>1, <2>2 DEF TypeOK, Recorded
<1>3. ASSUME NEW e \in Executions, NEW g \in Generations, ClaimNext(e, g) PROVE Goal
  BY <1>0, <1>3 DEF ClaimNext, Current, TypeOK, Recorded
<1>4. ASSUME NEW s \in Sessions, NEW E \in SUBSET Executions, NEW outcome \in Ended,
             \A f \in E : Ends(phase[f][gen[f]], outcome), FinishAll(E, s, outcome)
      PROVE  Goal
  BY <1>4, FinishRecords
<1>5. ASSUME NEW s \in Sessions, SessionStep(s) PROVE Goal
  <2>1. CASE Send(s) \/ \E p \in {"continuation", "compaction"} : StartControl(s, p)
    BY <1>1, <2>1 DEF Send, StartControl
  <2>2. CASE ClearQueued(s) \/ Delete(s)
    <3>1. \A f \in QueuedIn(s) \cup RunningIn(s) : Ends(phase[f][gen[f]], "cancelled")
      BY DEF QueuedIn, RunningIn, Current, Ends
    <3>2. /\ QueuedIn(s) \in SUBSET Executions /\ "cancelled" \in Ended
          /\ QueuedIn(s) \cup RunningIn(s) \in SUBSET Executions
      BY DEF QueuedIn, RunningIn, Ended
    <3>3. \/ FinishAll(QueuedIn(s), s, "cancelled")
          \/ FinishAll(QueuedIn(s) \cup RunningIn(s), s, "cancelled")
      BY <2>2 DEF ClearQueued, Delete
    <3>4. QED
      BY <1>4, <3>1, <3>2, <3>3
  <2>3. CASE phase' = phase
    BY <2>3 DEF Recorded
  <2>4. QED
    BY <1>5, <2>1, <2>2, <2>3 DEF SessionStep, Create, SetPaused, SetAgent, attemptVars
<1>6. ASSUME NEW e \in Executions, ExecutionStep(e) PROVE Goal
  <2>1. CASE Continue(e) \/ Retry(e)
    BY <1>1, <1>2, <2>1 DEF Continue, StartControl
  <2>2. CASE CancelQueued(e) \/ \E g \in Generations : Cancel(e, g)
    <3>1. FinishAll({e}, home[e], "cancelled") /\ home[e] \in Sessions
          /\ Ends(phase[e][gen[e]], "cancelled")
      BY <2>2 DEF CancelQueued, Cancel, Known, Live, Current, Ends
    <3>2. QED
      BY <1>4, <3>1 DEF Ended
  <2>3. CASE Withdraw(e)
    BY <2>3 DEF Withdraw, attemptVars, Recorded
  <2>4. QED
    BY <1>3, <1>6, <2>1, <2>2, <2>3 DEF ExecutionStep
<1>7. ASSUME NEW e \in Executions, NEW g \in Generations, AttemptStep(e, g) PROVE Goal
  <2>1. ASSUME NEW o \in {"succeeded", "failed", "cancelled"}, Finish(e, g, o) PROVE Goal
    <3>1. /\ FinishAll({e}, home[e], o) /\ home[e] \in Sessions /\ o \in Ended
          /\ Ends(phase[e][gen[e]], o)
      BY <2>1 DEF Finish, Holds, Known, Live, Ended
    <3>2. QED
      BY <1>4, <3>1
  <2>2. CASE phase' = phase
    BY <2>2 DEF Recorded
  <2>3. QED
    BY <1>7, <2>1, <2>2 DEF AttemptStep, BeginRound, FinishRound, CommitCompaction,
       BeginTool, FinalizeTool, CompleteTool, RequestInteraction, BeginActivity, attemptVars
<1>8. CASE Restart
  BY <1>0, <1>8 DEF Restart, Withheld, TypeOK, Recorded, Ended
<1>9. ASSUME phase' = phase PROVE Goal
  BY <1>9 DEF Recorded
<1>10. QED
  <2>1. CASE \E i \in Asks : \E d \in {"allowed", "rejected"} : Reply(i, d)
    BY <1>9, <2>1 DEF Reply, attemptVars
  <2>2. CASE \E a \in Activities : EndActivity(a)
    BY <1>9, <2>2 DEF EndActivity, attemptVars
  <2>3. CASE UNCHANGED vars
    BY <1>9, <2>3 DEF vars, attemptVars
  <2>4. QED
    BY <1>5, <1>6, <1>7, <1>8, <2>1, <2>2, <2>3 DEF Next

(***************************************************************************)
(* A recorded outcome is final, and an attempt is claimed at most once: no *)
(* late Finish, Cancel or restart rewrites the phase of an ended attempt.  *)
(***************************************************************************)
THEOREM KernelHistory == Spec => AttemptHistory
<1>1. IInv /\ [Next]_vars
        => [\A e \in Executions, g \in Generations : Recorded(phase[e][g], phase'[e][g])]_vars
  BY HistoryStep
<1>2. QED
  BY <1>1, KernelInvariant, PTL DEF Spec, AttemptHistory

-----------------------------------------------------------------------------
(* The projection.  A session that does not exist has no execution, and an *)
(* execution that does not exist no session.                               *)

Unborn ==
    \A s \in Sessions :
        life[s] = "absent" => summary[s] = "ready" /\ \A e \in Executions : home[e] # s

Homeless == \A e \in Executions : e > made => home[e] = NoSession

Projected == SummaryExact /\ Unborn /\ Homeless

\* The undecided interaction i holds up the current attempt of e.
Waits(i, e) ==
    /\ askState[i] = "open" /\ askTool[i] \in Tools /\ toolPhase[askTool[i]] = "running"
    /\ toolExec[askTool[i]] = e /\ toolGen[askTool[i]] = gen[e]

\* What a session presents follows from its counters, its pause, the current
\* attempts of its executions and what these wait for.
LEMMA PresentedSame ==
    ASSUME NEW u \in Sessions, queued'[u] = queued[u], running'[u] = running[u],
           u \in paused' <=> u \in paused,
           \A e \in Executions : home'[e] = u <=> home[e] = u,
           \A e \in Executions : home[e] = u => gen'[e] = gen[e] /\ Current(e)' = Current(e),
           \A e \in Executions, i \in Asks : home[e] = u => (Waits(i, e)' <=> Waits(i, e))
    PROVE  Presented(u)' = Presented(u)
<1>1. RunningIn(u)' = RunningIn(u)
  BY DEF RunningIn
<1>2. \A e \in RunningIn(u) : e \in Executions /\ home[e] = u
  BY DEF RunningIn
<1>3. Awaiting(u) <=> \E i \in Asks : \E e \in RunningIn(u) : Waits(i, e)
  BY DEF Awaiting, Waits
<1>4. Awaiting(u)' <=> \E i \in Asks : \E e \in RunningIn(u)' : Waits(i, e)'
  BY DEF Awaiting, Waits
<1>5. Awaiting(u)' <=> Awaiting(u)
  BY <1>1, <1>2, <1>3, <1>4
<1>6. LastFailed(u)' <=> LastFailed(u)
  BY DEF LastFailed
<1>7. PausedQueue(u)' <=> PausedQueue(u)
  BY DEF PausedQueue
<1>8. State(u)' = State(u)
  BY <1>5, <1>6 DEF State
<1>9. QED
  BY <1>7, <1>8 DEF Presented

\* A command that touches a live session s, and no other.
LEMMA OneSession ==
    ASSUME IInv, Projected, NEW s \in Sessions, life[s] = "live",
           life' = life \/ life' = [life EXCEPT ![s] = "deleted"],
           \/ Triggered(s)
           \/ Untriggered(s) /\ Presented(s)' = Presented(s),
           \A u \in Sessions \ {s} : /\ queued'[u] = queued[u] /\ running'[u] = running[u]
                                     /\ u \in paused' <=> u \in paused,
           \/ made' = made /\ home' = home
           \/ /\ made' = made + 1 /\ made + 1 \in Executions
              /\ home' = [home EXCEPT ![made + 1] = s],
           \A e \in Executions : home[e] \in Sessions \ {s} =>
              /\ gen'[e] = gen[e] /\ Current(e)' = Current(e)
              /\ \A i \in Asks : Waits(i, e)' <=> Waits(i, e)
    PROVE  Projected'
<1>0. TypeOK
  BY DEF IInv
<1>1. /\ \A e \in Executions : e > made' => e > made
      /\ \A e \in Executions : home'[e] = home[e] \/ (home'[e] = s /\ home[e] = NoSession /\ ~(e > made'))
  <2>1. CASE made' = made /\ home' = home
    BY <2>1
  <2>2. CASE /\ made' = made + 1 /\ made + 1 \in Executions
             /\ home' = [home EXCEPT ![made + 1] = s]
    <3>1. made \in Nat /\ made + 1 > made
      BY <1>0 DEF TypeOK
    <3>2. home[made + 1] = NoSession
      BY <2>2, <3>1 DEF Projected, Homeless
    <3>3. \A e \in Executions : e \in Int
      BY DEF Executions
    <3>4. QED
      BY <1>0, <2>2, <3>1, <3>2, <3>3 DEF TypeOK
  <2>3. QED
    BY <2>1, <2>2
<1>2. Homeless'
  BY <1>1 DEF Projected, Homeless
<1>3. \A u \in Sessions \ {s} : Presented(u)' = Presented(u)
  <2> SUFFICES ASSUME NEW u \in Sessions \ {s} PROVE Presented(u)' = Presented(u)
    OBVIOUS
  <2>1. \A e \in Executions : home'[e] = u <=> home[e] = u
    BY <1>1, KernelAssumption
  <2>2. QED
    BY <2>1, PresentedSame
<1>4. \A u \in Sessions \ {s} : summary'[u] = summary[u] /\ life'[u] = life[u]
  BY <1>0 DEF Triggered, Untriggered, TypeOK
<1>5. life'[s] # "absent"
  BY <1>0 DEF TypeOK
<1>6. Unborn'
  <2> SUFFICES ASSUME NEW u \in Sessions, life'[u] = "absent"
               PROVE  summary'[u] = "ready" /\ \A e \in Executions : home'[e] # u
    BY DEF Unborn
  <2>1. u # s
    BY <1>5
  <2>2. QED
    BY <1>1, <1>4, <2>1 DEF Projected, Unborn
<1>7. summary'[s] = Presented(s)'
  <2>1. CASE Triggered(s)
    BY <1>0, <2>1 DEF Triggered, TypeOK
  <2>2. CASE Untriggered(s) /\ Presented(s)' = Presented(s)
    <3>1. summary'[s] = IF PausedQueue(s)' THEN "ready" ELSE summary[s]
      BY <1>0, <2>2 DEF Untriggered, TypeOK
    <3>2. summary[s] = Presented(s)
      BY DEF Projected, SummaryExact
    <3>3. CASE PausedQueue(s)'
      BY <3>1, <3>3 DEF Presented
    <3>4. CASE ~PausedQueue(s)'
      BY <2>2, <3>1, <3>2, <3>4
    <3>5. QED
      BY <3>3, <3>4
  <2>3. QED
    BY <2>1, <2>2
<1>8. SummaryExact'
  BY <1>3, <1>4, <1>7 DEF Projected, SummaryExact
<1>9. QED
  BY <1>2, <1>6, <1>8 DEF Projected

\* A command after which every execution waits for what it waited for.
LEMMA NothingPresented ==
    ASSUME IInv, Projected, NEW s \in Sessions, life[s] = "live",
           Triggered(s) \/ Untriggered(s),
           UNCHANGED <<life, paused, queued, running, made, home, gen, phase>>,
           \A e \in Executions, i \in Asks : Waits(i, e)' <=> Waits(i, e)
    PROVE  Projected'
<1>1. \A e \in Executions : gen'[e] = gen[e] /\ Current(e)' = Current(e)
  BY DEF Current
<1>2. Presented(s)' = Presented(s)
  BY <1>1, PresentedSame
<1>3. QED
  BY <1>1, <1>2, OneSession

LEMMA ProjectedEnqueue ==
    ASSUME IInv, Projected, NEW s \in Sessions, Live(s), NEW p, Enqueue(s, p)
    PROVE  Projected'
<1>0. TypeOK
  BY DEF IInv
<1> DEFINE n == made + 1
<1>1. n \in Executions /\ n > made
  BY <1>0, KernelAssumption DEF Enqueue, TypeOK, Executions
<1>2. /\ made' = n /\ home' = [home EXCEPT ![n] = s] /\ gen' = [gen EXCEPT ![n] = 1]
      /\ phase' = [phase EXCEPT ![n][1] = "queued"] /\ queued' = [queued EXCEPT ![s] = @ + 1]
      /\ UNCHANGED <<running, life, paused, toolPhase, toolExec, toolGen, askState, askTool>>
      /\ Triggered(s)
  BY DEF Enqueue, sessionVars, toolVars, askVars
<1>3. home[n] = NoSession
  BY <1>1 DEF Projected, Homeless
<1>4. made' = made + 1 /\ made + 1 \in Executions /\ home' = [home EXCEPT ![made + 1] = s]
  BY <1>1, <1>2
<1> HIDE DEF n
<1>5. ASSUME NEW e \in Executions, home[e] \in Sessions \ {s}
      PROVE  /\ gen'[e] = gen[e] /\ Current(e)' = Current(e)
             /\ \A i \in Asks : Waits(i, e)' <=> Waits(i, e)
  <2>1. e # n
    BY <1>3, <1>5, KernelAssumption
  <2>2. gen'[e] = gen[e] /\ phase'[e] = phase[e]
    BY <1>0, <1>2, <2>1 DEF TypeOK
  <2>3. QED
    BY <1>2, <2>2 DEF Current, Waits
<1>6. \A u \in Sessions \ {s} : /\ queued'[u] = queued[u] /\ running'[u] = running[u]
                                /\ u \in paused' <=> u \in paused
  BY <1>0, <1>2 DEF TypeOK
<1>7. QED
  BY <1>2, <1>4, <1>5, <1>6, OneSession DEF Live

LEMMA ProjectedRetry ==
    ASSUME IInv, Projected, NEW e \in Executions, Retry(e)
    PROVE  Projected'
<1>0. TypeOK
  BY DEF IInv
<1>1. PICK s \in Sessions : s = home[e] /\ Live(s)
  BY DEF Retry, Known, Live
<1>2. PICK n : n = gen[e] + 1
  OBVIOUS
<1>3. /\ gen' = [gen EXCEPT ![e] = n] /\ phase' = [phase EXCEPT ![e][n] = "queued"]
      /\ queued' = [queued EXCEPT ![s] = @ + 1]
      /\ UNCHANGED <<running, life, paused, made, home, toolPhase, toolExec, toolGen, askState, askTool>>
      /\ Triggered(s)
  BY <1>1, <1>2 DEF Retry, sessionVars, execVars, toolVars, askVars
<1>4. ASSUME NEW f \in Executions, home[f] \in Sessions \ {s}
      PROVE  /\ gen'[f] = gen[f] /\ Current(f)' = Current(f)
             /\ \A i \in Asks : Waits(i, f)' <=> Waits(i, f)
  <2>1. gen'[f] = gen[f] /\ phase'[f] = phase[f]
    BY <1>0, <1>1, <1>3, <1>4 DEF TypeOK
  <2>2. QED
    BY <1>3, <2>1 DEF Current, Waits
<1>5. \A u \in Sessions \ {s} : /\ queued'[u] = queued[u] /\ running'[u] = running[u]
                                /\ u \in paused' <=> u \in paused
  BY <1>0, <1>3 DEF TypeOK
<1>6. QED
  BY <1>1, <1>3, <1>4, <1>5, OneSession DEF Live

LEMMA ProjectedClaim ==
    ASSUME IInv, Projected, NEW e \in Executions, NEW g \in Generations, ClaimNext(e, g)
    PROVE  Projected'
<1>0. TypeOK
  BY DEF IInv
<1>1. PICK s \in Sessions : s = home[e] /\ Live(s)
  BY DEF ClaimNext, Known, Live
<1>2. /\ phase' = [phase EXCEPT ![e][g] = "running"]
      /\ queued' = [queued EXCEPT ![s] = @ - 1] /\ running' = [running EXCEPT ![s] = @ + 1]
      /\ UNCHANGED <<life, paused, made, home, gen, toolPhase, toolExec, toolGen, askState, askTool>>
      /\ Triggered(s)
  BY <1>1 DEF ClaimNext, sessionVars, execVars, toolVars, askVars
<1>3. ASSUME NEW f \in Executions, home[f] \in Sessions \ {s}
      PROVE  /\ gen'[f] = gen[f] /\ Current(f)' = Current(f)
             /\ \A i \in Asks : Waits(i, f)' <=> Waits(i, f)
  <2>1. phase'[f] = phase[f]
    BY <1>0, <1>1, <1>2, <1>3 DEF TypeOK
  <2>2. QED
    BY <1>2, <2>1 DEF Current, Waits
<1>4. \A u \in Sessions \ {s} : /\ queued'[u] = queued[u] /\ running'[u] = running[u]
                                /\ u \in paused' <=> u \in paused
  BY <1>0, <1>2 DEF TypeOK
<1>5. QED
  BY <1>1, <1>2, <1>3, <1>4, OneSession DEF Live

\* Settling the children of some attempts does not answer what others ask.
LEMMA OthersWait ==
    ASSUME NEW E \in SUBSET Executions, NEW s, NEW outcome, FinishAll(E, s, outcome),
           NEW f \in Executions, f \notin E, NEW i \in Asks
    PROVE  Waits(i, f)' <=> Waits(i, f)
<1>1. UNCHANGED <<gen, toolExec, toolGen, askTool>>
  BY DEF FinishAll
<1>2. CASE outcome = "succeeded"
  <2>1. UNCHANGED <<askState, toolPhase>>
    BY <1>2 DEF FinishAll
  <2>2. QED
    BY <1>1, <2>1 DEF Waits
<1>3. CASE outcome # "succeeded"
  <2> DEFINE mine(t) == \E e \in E : toolExec[t] = e /\ toolGen[t] = gen[e]
  <2>1. /\ askState' = [j \in Asks |->
                         IF /\ askState[j] = "open"
                            /\ \E t \in Tools : askTool[j] = t /\ mine(t)
                         THEN "rejected" ELSE askState[j]]
        /\ toolPhase' = [t \in Tools |->
                          IF mine(t) /\ ActiveTool(t) THEN "ended" ELSE toolPhase[t]]
    BY <1>3 DEF FinishAll, SettleChildren
  <2>2. \A t : toolExec[t] = f => ~mine(t)
    OBVIOUS
  <2> HIDE DEF mine
  <2>3. \A t \in Tools : toolExec[t] = f => toolPhase'[t] = toolPhase[t]
    BY <2>1, <2>2
  <2>4. askTool[i] \in Tools /\ toolExec[askTool[i]] = f => askState'[i] = askState[i]
    BY <2>1, <2>2
  <2>5. QED
    BY <1>1, <2>3, <2>4 DEF Waits
<1>4. QED
  BY <1>2, <1>3

LEMMA ProjectedFinish ==
    ASSUME IInv, Projected, NEW s \in Sessions, Live(s), NEW E \in SUBSET Executions,
           \A e \in E : home[e] = s, NEW outcome \in Ended, FinishAll(E, s, outcome),
           life' = life \/ life' = [life EXCEPT ![s] = "deleted"], UNCHANGED paused
    PROVE  Projected'
<1>0. TypeOK
  BY DEF IInv
<1>1. /\ phase' = [e \in Executions |-> IF e \in E THEN [phase[e] EXCEPT ![gen[e]] = outcome] ELSE phase[e]]
      /\ queued' = [queued EXCEPT ![s] = @ - Cardinality(QueuedIn(s) \cap E)]
      /\ running' = [running EXCEPT ![s] = @ - Cardinality(RunningIn(s) \cap E)]
      /\ UNCHANGED <<made, home, gen>>
      /\ IF E # {} THEN Triggered(s) ELSE Untriggered(s)
  BY DEF FinishAll, execVars
<1>2. ASSUME NEW f \in Executions, f \notin E
      PROVE  /\ gen'[f] = gen[f] /\ Current(f)' = Current(f)
             /\ \A i \in Asks : Waits(i, f)' <=> Waits(i, f)
  <2>1. phase'[f] = phase[f]
    BY <1>1, <1>2
  <2>2. \A i \in Asks : Waits(i, f)' <=> Waits(i, f)
    BY <1>2, OthersWait
  <2>3. QED
    BY <1>1, <2>1, <2>2 DEF Current
<1>3. \A u \in Sessions \ {s} : /\ queued'[u] = queued[u] /\ running'[u] = running[u]
                                /\ u \in paused' <=> u \in paused
  BY <1>0, <1>1 DEF TypeOK
<1>4. CASE E # {}
  BY <1>1, <1>2, <1>3, <1>4, OneSession DEF Live
<1>5. CASE E = {}
  <2>1. Cardinality(QueuedIn(s) \cap E) = 0 /\ Cardinality(RunningIn(s) \cap E) = 0
    BY <1>5, FS_EmptySet
  <2>2. queued'[s] = queued[s] /\ running'[s] = running[s]
    BY <1>0, <1>1, <2>1 DEF TypeOK
  <2>3. Presented(s)' = Presented(s)
    BY <1>1, <1>2, <1>5, <2>2, PresentedSame
  <2>4. QED
    BY <1>1, <1>2, <1>3, <1>5, <2>3, OneSession DEF Live
<1>6. QED
  BY <1>4, <1>5

LEMMA ProjectedEndings ==
    ASSUME IInv, Projected, NEW e \in Executions,
           \/ CancelQueued(e)
           \/ \E g \in Generations : Cancel(e, g)
           \/ \E g \in Generations, o \in {"succeeded", "failed", "cancelled"} : Finish(e, g, o)
    PROVE  Projected'
<1>1. PICK s \in Sessions : s = home[e] /\ Live(s)
  BY DEF CancelQueued, Cancel, Finish, Holds, Known, Live
<1>2. PICK o \in {"succeeded", "failed", "cancelled"} : FinishAll({e}, s, o)
  BY <1>1 DEF CancelQueued, Cancel, Finish
<1>3. UNCHANGED <<life, paused>>
  BY DEF CancelQueued, Cancel, Finish, sessionVars
<1>4. o \in Ended /\ {e} \in SUBSET Executions /\ \A f \in {e} : home[f] = s
  BY <1>1 DEF Ended
<1>5. QED
  BY <1>1, <1>2, <1>3, <1>4, ProjectedFinish

LEMMA ProjectedClears ==
    ASSUME IInv, Projected, NEW s \in Sessions, ClearQueued(s) \/ Delete(s)
    PROVE  Projected'
<1>1. PICK E \in {QueuedIn(s), QueuedIn(s) \cup RunningIn(s)} : FinishAll(E, s, "cancelled")
  BY DEF ClearQueued, Delete
<1>2. /\ Live(s) /\ UNCHANGED paused
      /\ life' = life \/ life' = [life EXCEPT ![s] = "deleted"]
  BY DEF ClearQueued, Delete, sessionVars
<1>3. E \in SUBSET Executions /\ "cancelled" \in Ended /\ \A f \in E : home[f] = s
  BY DEF QueuedIn, RunningIn, Ended
<1>4. QED
  BY <1>1, <1>2, <1>3, ProjectedFinish

\* Rounds do not change what is presented; a round that fails with a call still
\* being assembled ends calls nobody was asked about.
LEMMA ProjectedRounds ==
    ASSUME IInv, Projected, NEW e \in Executions, NEW g \in Generations,
           \/ \E k \in {"chat", "compaction"} : BeginRound(e, g, k)
           \/ \E ok \in BOOLEAN : FinishRound(e, g, ok)
           \/ CommitCompaction(e, g)
    PROVE  Projected'
<1>0. TypeOK
  BY DEF IInv
<1>1. PICK s \in Sessions : s = home[e] /\ life[s] = "live"
  BY DEF BeginRound, FinishRound, CommitCompaction, CheckScope, Holds, Known, Live
<1>2. Triggered(s) \/ Untriggered(s)
  BY <1>1 DEF BeginRound, FinishRound, CommitCompaction
<1>3. UNCHANGED <<life, paused, queued, running, made, home, gen, phase, toolExec, toolGen, askState, askTool>>
  BY DEF BeginRound, FinishRound, CommitCompaction, sessionVars, execVars, attemptVars, toolVars, askVars
<1>4. \A t \in Tools : toolPhase'[t] = "running" <=> toolPhase[t] = "running"
  <2>1. CASE toolPhase' = toolPhase
    BY <2>1
  <2>2. CASE \E ok \in BOOLEAN : FinishRound(e, g, ok)
    BY <1>0, <2>2 DEF FinishRound, TypeOK
  <2>3. QED
    BY <2>1, <2>2 DEF BeginRound, CommitCompaction, toolVars
<1>5. \A f \in Executions, i \in Asks : Waits(i, f)' <=> Waits(i, f)
  BY <1>3, <1>4 DEF Waits
<1>6. QED
  BY <1>1, <1>2, <1>3, <1>5, NothingPresented

\* Tool calls and interactions of an attempt hold up its own session only.
LEMMA ProjectedTools ==
    ASSUME IInv, Projected, NEW e \in Executions, NEW g \in Generations, NEW t \in Tools,
           \/ FinalizeTool(e, g, t) \/ CompleteTool(e, g, t)
           \/ \E i \in Asks : RequestInteraction(e, g, t, i)
    PROVE  Projected'
<1>0. TypeOK
  BY DEF IInv
<1>1. PICK s \in Sessions : s = home[e] /\ life[s] = "live"
  BY DEF FinalizeTool, CompleteTool, RequestInteraction, CheckScope, Holds, Known, Live
<1>2. Triggered(s)
  BY <1>1 DEF FinalizeTool, CompleteTool, RequestInteraction
<1>3. UNCHANGED <<life, paused, queued, running, made, home, gen, phase, toolExec, toolGen>>
  BY DEF FinalizeTool, CompleteTool, RequestInteraction, sessionVars, execVars, attemptVars, toolVars
<1>4. toolExec[t] = e
  BY DEF FinalizeTool, CompleteTool, RequestInteraction, CheckTool
<1>5. \A k \in Tools : k # t => toolPhase'[k] = toolPhase[k]
  BY <1>0 DEF FinalizeTool, CompleteTool, RequestInteraction, toolVars, TypeOK
<1>6. \A j \in Asks : \/ askState'[j] = askState[j] /\ askTool'[j] = askTool[j]
                      \/ askState[j] # "open" /\ askTool'[j] = t
  BY <1>0 DEF FinalizeTool, CompleteTool, RequestInteraction, askVars, TypeOK
<1>7. ASSUME NEW f \in Executions, f # e, NEW i \in Asks
      PROVE  Waits(i, f)' <=> Waits(i, f)
  BY <1>3, <1>4, <1>5, <1>6, <1>7 DEF Waits
<1>8. \A f \in Executions : home[f] \in Sessions \ {s} =>
         /\ gen'[f] = gen[f] /\ Current(f)' = Current(f)
         /\ \A i \in Asks : Waits(i, f)' <=> Waits(i, f)
  BY <1>1, <1>3, <1>7 DEF Current
<1>9. QED
  BY <1>1, <1>2, <1>3, <1>8, OneSession

\* Nobody was asked about a call that did not exist.
LEMMA ProjectedBeginTool ==
    ASSUME IInv, Projected, NEW e \in Executions, NEW g \in Generations, NEW t \in Tools,
           NEW p \in {"preparing", "running"}, BeginTool(e, g, t, p)
    PROVE  Projected'
<1>0. TypeOK /\ AsksOwned
  BY DEF IInv, NothingLeftBehind
<1>1. PICK s \in Sessions : s = home[e] /\ life[s] = "live"
  BY DEF BeginTool, CheckScope, Holds, Known, Live
<1>2. Untriggered(s)
  BY <1>1 DEF BeginTool
<1>3. /\ UNCHANGED <<life, paused, queued, running, made, home, gen, phase, askState, askTool>>
      /\ toolPhase[t] = "absent"
      /\ \A k \in Tools : k # t => /\ toolPhase'[k] = toolPhase[k]
                                   /\ toolExec'[k] = toolExec[k] /\ toolGen'[k] = toolGen[k]
  BY <1>0 DEF BeginTool, sessionVars, execVars, attemptVars, askVars, TypeOK
<1>4. \A i \in Asks : askState[i] = "open" => askTool[i] # t
  BY <1>0, <1>3 DEF AsksOwned
<1>5. \A f \in Executions, i \in Asks : Waits(i, f)' <=> Waits(i, f)
  BY <1>3, <1>4 DEF Waits
<1>6. QED
  BY <1>1, <1>2, <1>3, <1>5, NothingPresented

LEMMA ProjectedReply ==
    ASSUME IInv, Projected, NEW j \in Asks, NEW d \in {"allowed", "rejected"}, Reply(j, d)
    PROVE  Projected'
<1>0. TypeOK
  BY DEF IInv
<1>1. PICK e \in Executions :
         /\ CheckTool(e, gen[e], askTool[j]) /\ Known(e)
         /\ askState' = [askState EXCEPT ![j] = d]
         /\ UNCHANGED <<sessionVars, queued, running, execVars, attemptVars, round, toolVars,
                        askTool, actVars, epoch>>
         /\ Triggered(home[e])
  BY DEF Reply
<1>2. PICK s \in Sessions : s = home[e] /\ life[s] = "live"
  BY <1>1 DEF Known, Live
<1>3. UNCHANGED <<life, paused, queued, running, made, home, gen, phase, toolPhase, toolExec, toolGen, askTool>>
  BY <1>1 DEF sessionVars, execVars, attemptVars, toolVars
<1>4. toolExec[askTool[j]] = e /\ \A i \in Asks : i # j => askState'[i] = askState[i]
  BY <1>0, <1>1 DEF CheckTool, TypeOK
<1>5. ASSUME NEW f \in Executions, f # e, NEW i \in Asks
      PROVE  Waits(i, f)' <=> Waits(i, f)
  BY <1>3, <1>4, <1>5 DEF Waits
<1>6. \A f \in Executions : home[f] \in Sessions \ {s} =>
         /\ gen'[f] = gen[f] /\ Current(f)' = Current(f)
         /\ \A i \in Asks : Waits(i, f)' <=> Waits(i, f)
  BY <1>2, <1>3, <1>5 DEF Current
<1>7. QED
  BY <1>1, <1>2, <1>3, <1>6, OneSession

\* The commands that change nothing the projection reads.
LEMMA ProjectedSettings ==
    ASSUME IInv, Projected,
           \/ \E e \in Executions, g \in Generations, t \in Tools, a \in Activities :
                 BeginActivity(e, g, t, a)
           \/ \E a \in Activities : EndActivity(a)
           \/ \E s \in Sessions, a \in {"done", "active"} : SetAgent(s, a)
           \/ \E e \in Executions : Withdraw(e)
    PROVE  Projected'
<1>1. PICK s \in Sessions : life[s] = "live" /\ Untriggered(s)
  BY DEF BeginActivity, EndActivity, SetAgent, Withdraw, CheckScope, Holds, Known, Live
<1>2. UNCHANGED <<life, paused, queued, running, made, home, gen, phase, toolPhase, toolExec, toolGen, askState, askTool>>
  BY DEF BeginActivity, EndActivity, SetAgent, Withdraw, sessionVars, execVars, attemptVars, toolVars, askVars
<1>3. \A f \in Executions, i \in Asks : Waits(i, f)' <=> Waits(i, f)
  BY <1>2 DEF Waits
<1>4. QED
  BY <1>1, <1>2, <1>3, NothingPresented

LEMMA ProjectedPause ==
    ASSUME IInv, Projected, NEW s \in Sessions, NEW p \in {paused \cup {s}, paused \ {s}},
           SetPaused(s, p)
    PROVE  Projected'
<1>1. /\ life[s] = "live" /\ paused' = p /\ Triggered(s)
      /\ UNCHANGED <<life, queued, running, made, home, gen, phase, toolPhase, toolExec, toolGen,
                     askState, askTool>>
  BY DEF SetPaused, Live, execVars, attemptVars, toolVars, askVars
<1>2. \A f \in Executions : /\ gen'[f] = gen[f] /\ Current(f)' = Current(f)
                            /\ \A i \in Asks : Waits(i, f)' <=> Waits(i, f)
  BY <1>1 DEF Current, Waits
<1>3. \A u \in Sessions \ {s} : u \in paused' <=> u \in paused
  BY <1>1
<1>4. QED
  BY <1>1, <1>2, <1>3, OneSession

\* A new session is ready.
LEMMA ProjectedCreate ==
    ASSUME IInv, Projected, NEW s \in Sessions, NEW a, Create(s, a)
    PROVE  Projected'
<1>0. TypeOK /\ CountersExact
  BY DEF IInv
<1>1. /\ life[s] = "absent" /\ life' = [life EXCEPT ![s] = "live"]
      /\ UNCHANGED <<paused, queued, running, summary, made, home, gen, phase, toolPhase, toolExec,
                     toolGen, askState, askTool>>
  BY DEF Create, statVars, execVars, attemptVars, toolVars, askVars
<1>2. \A u \in Sessions : Presented(u)' = Presented(u)
  <2>1. \A f \in Executions : /\ gen'[f] = gen[f] /\ Current(f)' = Current(f)
                              /\ \A i \in Asks : Waits(i, f)' <=> Waits(i, f)
    BY <1>1 DEF Current, Waits
  <2>2. QED
    BY <1>1, <2>1, PresentedSame
<1>3. Presented(s) = "ready"
  <2>1. \A e \in Executions : home[e] # s
    BY <1>1 DEF Projected, Unborn
  <2>2. QueuedIn(s) = {} /\ RunningIn(s) = {}
    BY <2>1 DEF QueuedIn, RunningIn
  <2>3. queued[s] = 0 /\ running[s] = 0
    BY <1>0, <2>2, FS_EmptySet DEF CountersExact
  <2>4. ~Awaiting(s) /\ ~LastFailed(s)
    BY <2>1, <2>2 DEF Awaiting, LastFailed
  <2>5. QED
    BY <2>3, <2>4 DEF Presented, State
<1>4. SummaryExact'
  BY <1>0, <1>1, <1>2, <1>3 DEF Projected, SummaryExact, Unborn, TypeOK
<1>5. Unborn' /\ Homeless'
  BY <1>0, <1>1 DEF Projected, Unborn, Homeless, TypeOK
<1>6. QED
  BY <1>4, <1>5 DEF Projected

\* A session that recovery does not disturb had nothing running, so nothing it
\* presents has changed.
LEMMA ProjectedRestart ==
    ASSUME IInv, Projected, Restart
    PROVE  Projected'
<1>0. TypeOK /\ CountersExact /\ AttemptsSettled
  BY DEF IInv, NothingLeftBehind
<1>1. /\ UNCHANGED <<life, paused, made, home, gen>>
      /\ summary' = [s \in Sessions |->
                       IF PausedQueue(s)' THEN "ready"
                       ELSE IF Disturbed(s) THEN State(s)' ELSE summary[s]]
      /\ phase' = [e \in Executions |-> [g \in Generations |->
                     IF phase[e][g] = "running" \/ Withheld(e, g) THEN "interrupted" ELSE phase[e][g]]]
  BY DEF Restart, execVars
<1>2. ASSUME NEW s \in Sessions, ~Disturbed(s) PROVE Presented(s)' = Presented(s)
  <2>1. \A e \in Executions, g \in Generations : home[e] = s => phase[e][g] # "running" /\ ~Withheld(e, g)
    BY <1>2 DEF Disturbed
  <2>2. \A e \in Executions : home[e] = s => phase'[e] = phase[e]
    <3> SUFFICES ASSUME NEW e \in Executions, home[e] = s PROVE phase'[e] = phase[e]
      OBVIOUS
    <3>1. phase'[e] = [g \in Generations |-> phase[e][g]]
      BY <1>1, <2>1
    <3>2. QED
      BY <1>0, <3>1 DEF TypeOK
  <2>3. \A e \in Executions : home[e] = s => gen'[e] = gen[e] /\ Current(e)' = Current(e)
    BY <1>1, <2>2 DEF Current
  <2>4. \A e \in Executions : gen[e] \in Generations
    BY <1>0 DEF TypeOK
  <2>5. RunningIn(s) = {}
    BY <2>1, <2>4 DEF RunningIn, Current
  <2>6. running'[s] = running[s]
    BY <2>1 DEF Restart
  <2>7. queued'[s] = queued[s]
    <3>1. CASE Live(s) /\ agent'[s] = "interrupted" /\ queued[s] > 0
      <4>1. queued'[s] = Cardinality({e \in QueuedIn(s) : purpose[e] = "compaction"})
        BY <3>1 DEF Restart
      <4>2. \A e \in QueuedIn(s) : purpose[e] = "compaction"
        BY <2>1, <2>4, <3>1 DEF QueuedIn, Current, Withheld
      <4>3. {e \in QueuedIn(s) : purpose[e] = "compaction"} = QueuedIn(s)
        BY <4>2
      <4>4. QED
        BY <1>0, <4>1, <4>3 DEF CountersExact
    <3>2. CASE ~(Live(s) /\ agent'[s] = "interrupted" /\ queued[s] > 0)
      BY <3>2 DEF Restart
    <3>3. QED
      BY <3>1, <3>2
  <2>8. RunningIn(s)' = RunningIn(s)
    BY <1>1, <2>3 DEF RunningIn
  <2>9. ~Awaiting(s) /\ ~Awaiting(s)'
    BY <2>5, <2>8 DEF Awaiting
  <2>10. LastFailed(s)' <=> LastFailed(s)
    BY <1>1, <2>3 DEF LastFailed
  <2>11. State(s)' = State(s) /\ (PausedQueue(s)' <=> PausedQueue(s))
    BY <1>1, <2>6, <2>7, <2>9, <2>10 DEF State, PausedQueue
  <2>12. QED
    BY <2>11 DEF Presented
<1>3. ASSUME NEW s \in Sessions, life'[s] = "live" PROVE summary'[s] = Presented(s)'
  <2>1. CASE PausedQueue(s)'
    BY <1>1, <2>1 DEF Presented
  <2>2. CASE ~PausedQueue(s)' /\ Disturbed(s)
    BY <1>1, <2>2 DEF Presented
  <2>3. CASE ~PausedQueue(s)' /\ ~Disturbed(s)
    <3>1. summary'[s] = summary[s] /\ life[s] = "live"
      BY <1>1, <1>3, <2>3
    <3>2. QED
      BY <1>2, <2>3, <3>1 DEF Projected, SummaryExact
  <2>4. QED
    BY <2>1, <2>2, <2>3
<1>4. Unborn'
  <2> SUFFICES ASSUME NEW s \in Sessions, life'[s] = "absent"
               PROVE  summary'[s] = "ready" /\ \A e \in Executions : home'[e] # s
    BY DEF Unborn
  <2>1. summary[s] = "ready" /\ \A e \in Executions : home[e] # s
    BY <1>1 DEF Projected, Unborn
  <2>2. ~Disturbed(s)
    BY <2>1 DEF Disturbed
  <2>3. QED
    BY <1>1, <2>1, <2>2
<1>5. QED
  BY <1>1, <1>3, <1>4 DEF Projected, SummaryExact, Homeless

LEMMA ProjectedNext ==
    ASSUME IInv, Projected, [Next]_vars
    PROVE  Projected'
<1>1. ASSUME NEW s \in Sessions, SessionStep(s) PROVE Projected'
  <2>1. CASE Send(s) \/ \E p \in {"continuation", "compaction"} : StartControl(s, p)
    BY <2>1, ProjectedEnqueue DEF Send, StartControl
  <2>2. CASE \E a \in {"none", "active"} : Create(s, a)
    BY <2>2, ProjectedCreate
  <2>3. CASE ClearQueued(s) \/ Delete(s)
    BY <2>3, ProjectedClears
  <2>4. CASE \E p \in {paused \cup {s}, paused \ {s}} : SetPaused(s, p)
    BY <2>4, ProjectedPause
  <2>5. CASE \E a \in {"done", "active"} : SetAgent(s, a)
    BY <2>5, ProjectedSettings
  <2>6. QED
    BY <1>1, <2>1, <2>2, <2>3, <2>4, <2>5 DEF SessionStep
<1>2. ASSUME NEW e \in Executions, ExecutionStep(e) PROVE Projected'
  <2>1. CASE Retry(e)
    BY <2>1, ProjectedRetry
  <2>2. CASE Continue(e)
    <3>1. PICK s \in Sessions : s = home[e]
      BY <2>2 DEF Continue, Known, Live
    <3>2. Retry(e) \/ (Live(s) /\ Enqueue(s, "continuation"))
      BY <2>2, <3>1 DEF Continue, StartControl
    <3>3. QED
      BY <3>2, ProjectedRetry, ProjectedEnqueue
  <2>3. CASE CancelQueued(e) \/ \E g \in Generations : Cancel(e, g)
    BY <2>3, ProjectedEndings
  <2>4. CASE Withdraw(e)
    BY <2>4, ProjectedSettings
  <2>5. CASE \E g \in Generations : ClaimNext(e, g)
    BY <2>5, ProjectedClaim
  <2>6. QED
    BY <1>2, <2>1, <2>2, <2>3, <2>4, <2>5 DEF ExecutionStep
<1>3. ASSUME NEW e \in Executions, NEW g \in Generations, AttemptStep(e, g) PROVE Projected'
  <2>1. CASE \E o \in {"succeeded", "failed", "cancelled"} : Finish(e, g, o)
    BY <2>1, ProjectedEndings
  <2>2. CASE \/ \E k \in {"chat", "compaction"} : BeginRound(e, g, k)
             \/ \E ok \in BOOLEAN : FinishRound(e, g, ok)
             \/ CommitCompaction(e, g)
    BY <2>2, ProjectedRounds
  <2>3. ASSUME NEW t \in Tools,
               \/ FinalizeTool(e, g, t) \/ CompleteTool(e, g, t)
               \/ \E i \in Asks : RequestInteraction(e, g, t, i)
        PROVE  Projected'
    BY <2>3, ProjectedTools
  <2>4. ASSUME NEW t \in Tools, \E p \in {"preparing", "running"} : BeginTool(e, g, t, p)
        PROVE  Projected'
    BY <2>4, ProjectedBeginTool
  <2>5. ASSUME NEW t \in Tools, \E a \in Activities : BeginActivity(e, g, t, a)
        PROVE  Projected'
    BY <2>5, ProjectedSettings
  <2>6. QED
    BY <1>3, <2>1, <2>2, <2>3, <2>4, <2>5 DEF AttemptStep
<1>4. CASE \E i \in Asks : \E d \in {"allowed", "rejected"} : Reply(i, d)
  BY <1>4, ProjectedReply
<1>5. CASE \E a \in Activities : EndActivity(a)
  BY <1>5, ProjectedSettings
<1>6. CASE UNCHANGED vars
  <2>1. UNCHANGED <<life, paused, queued, running, summary, made, home, gen, phase, toolPhase,
                    toolExec, toolGen, askState, askTool>>
    BY <1>6 DEF vars, sessionVars, statVars, execVars, attemptVars, toolVars, askVars
  <2>2. \A f \in Executions : /\ gen'[f] = gen[f] /\ Current(f)' = Current(f)
                              /\ \A i \in Asks : Waits(i, f)' <=> Waits(i, f)
    BY <2>1 DEF Current, Waits
  <2>3. \A u \in Sessions : Presented(u)' = Presented(u)
    BY <2>1, <2>2, PresentedSame
  <2>4. QED
    BY <2>1, <2>3 DEF Projected, SummaryExact, Unborn, Homeless
<1>7. QED
  BY <1>1, <1>2, <1>3, <1>4, <1>5, <1>6, ProjectedRestart DEF Next

(***************************************************************************)
(* What listings show as the processing state of a session is what its     *)
(* queue, its pause, its attempts and its undecided interactions say: no   *)
(* command changes one of them without the trigger or the refresh that     *)
(* follows, and a session that recovery does not touch needs none.         *)
(***************************************************************************)
THEOREM KernelSummary == Spec => []SummaryExact
<1>1. Init => Projected
  BY KernelAssumption DEF Init, Projected, SummaryExact, Unborn, Homeless
<1>2. IInv /\ Projected /\ [Next]_vars => Projected'
  BY ProjectedNext
<1>3. Projected => SummaryExact
  BY DEF Projected
<1>4. QED
  BY <1>1, <1>2, <1>3, KernelInvariant, PTL DEF Spec

=============================================================================
