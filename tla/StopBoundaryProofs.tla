------------------------- MODULE StopBoundaryProofs -------------------------
(***************************************************************************)
(* The stop boundary, for every number of executions, deliveries and       *)
(* bounded steps: accepted guidance is never succeeded over and never      *)
(* orphaned. The argument has three parts. A running attempt is driven by  *)
(* one task (OneDriver), so the stage of the driver speaks of the running  *)
(* attempt. Past PrepareStop everything recorded for the attempt was       *)
(* observed (Decided), because only the driver records guidance and it     *)
(* does so before a round. What remains is guidance that is still pending: *)
(* a ready decision keeps it out (StopFence), any other lets Finish        *)
(* refuse.                                                                 *)
(***************************************************************************)
EXTENDS StopBoundary, TLAPS

\* The invariant holds before anything is sent.
LEMMA InitInvariant == Init => IInv
<1> SUFFICES ASSUME Init PROVE IInv
  OBVIOUS
<1> USE BoundaryAssumption
<1>1. TypeOK
  BY DEF Init, TypeOK, Phases, Stages, States, Executions, Deliveries, None
<1>2. OneDriver /\ FreshStop /\ Decided /\ StopFence /\ GuidanceAnswered
  BY DEF Init, OneDriver, FreshStop, Decided, StopFence, GuidanceAnswered, Executions
<1>3. GuidanceOwned
  BY DEF Init, GuidanceOwned, Pending
<1> QED BY <1>1, <1>2, <1>3 DEF IInv

\* Settling the guidance of an execution touches pending deliveries only.
LEMMA SettledState ==
    ASSUME TypeOK, NEW e \in Executions
    PROVE  /\ Settled(e) \in [Deliveries -> States]
           /\ \A d \in Deliveries :
                 \/ Settled(e)[d] = state[d]
                 \/ /\ state[d] = "pending" /\ target[d] = e
                    /\ Settled(e)[d] = "failed"
           /\ \A d \in Deliveries : target[d] = e => Settled(e)[d] # "pending"
BY DEF TypeOK, Settled, Pending, States

\* Every step keeps the types.
LEMMA TypeStep == TypeOK /\ [Next]_vars => TypeOK'
<1> SUFFICES ASSUME TypeOK, [Next]_vars PROVE TypeOK'
  OBVIOUS
<1> USE BoundaryAssumption DEF TypeOK, Phases, Stages, States
<1> USE DEF execVars, inputVars, noticeVars, boundVars
<1>1. CASE UNCHANGED vars
  BY <1>1 DEF vars
<1>2. CASE Send
  <2>1. made + 1 \in Executions /\ made' \in 0 .. MaxExecutions
    BY <1>2 DEF Send, Executions
  <2> QED BY <1>2, <2>1 DEF Send
<1>3. ASSUME NEW e \in Executions, ContinueSession(e) PROVE TypeOK'
  BY <1>3 DEF ContinueSession, Reopen
<1>4. ASSUME NEW e \in Executions, Claim(e) PROVE TypeOK'
  BY <1>4 DEF Claim, Executions, None
<1>5. ASSUME NEW e \in Executions, Cancel(e) PROVE TypeOK'
  BY <1>5, SettledState DEF Cancel
<1>6. ASSUME NEW e \in Executions, Withdraw(e) PROVE TypeOK'
  BY <1>6 DEF Withdraw
<1>7. ASSUME NEW d \in Deliveries, NEW k \in {"wake", "quiet", "message"},
             NEW t \in Executions \cup {None}, NEW o \in Executions \cup {None},
             Publish(d, k, t, o)
      PROVE  TypeOK'
  BY <1>7 DEF Publish
<1>8. ASSUME NEW d \in Deliveries, Launch(d) PROVE TypeOK'
  BY <1>8 DEF Launch
<1>9. ASSUME NEW d \in Deliveries, NEW e \in Executions, LaunchIndependent(d, e)
      PROVE  TypeOK'
  BY <1>9 DEF LaunchIndependent
<1>10. ASSUME NEW d \in Deliveries, EndActivity(d) PROVE TypeOK'
  BY <1>10 DEF EndActivity
<1>11. CASE Abort
  <2>1. driver \in Executions
    BY <1>11 DEF Abort
  <2>2. state' \in [Deliveries -> States] /\ phase' \in [Executions -> Phases]
    BY <1>11, <2>1, SettledState DEF Abort
  <2> QED BY <1>11, <2>2 DEF Abort
<1>12. CASE ReadPage
  BY <1>12 DEF ReadPage
<1>13. ASSUME NEW d \in Deliveries, NEW m \in Executions \cup {None}, Record(d, m)
       PROVE  /\ state' \in [Deliveries -> States] /\ anchor' \in [Deliveries -> Executions \cup {None}]
              /\ place' \in [Deliveries -> Nat] /\ noted' \subseteq Deliveries /\ length' \in Nat
  BY <1>13 DEF Record
<1>14. CASE Consume
  <2>1. PICK d \in page : /\ Message(d, driver) \in visible
                          /\ \/ Pending(d) /\ Record(d, Message(d, driver))
                             \/ UNCHANGED <<state, noticeVars>>
                          /\ page' = page \ {d}
    BY <1>14 DEF Consume
  <2>2. d \in Deliveries /\ Message(d, driver) \in Executions
    BY <2>1
  <2>3. CASE Record(d, Message(d, driver))
    BY <1>13, <1>14, <2>1, <2>2, <2>3 DEF Consume
  <2>4. CASE UNCHANGED <<state, noticeVars>>
    BY <1>14, <2>1, <2>4 DEF Consume
  <2> QED BY <2>1, <2>3, <2>4
<1>15. CASE BeginRound
  BY <1>15 DEF BeginRound, Window
<1>16. ASSUME NEW ok \in BOOLEAN, FinishRound(ok) PROVE TypeOK'
  BY <1>16 DEF FinishRound, Observes
<1>17. ASSUME NEW p \in 1 .. length, NEW kept \in BOOLEAN, Compact(p, kept) PROVE TypeOK'
  BY <1>17 DEF Compact, Observes
<1>18. CASE EndTools
  BY <1>18 DEF EndTools
<1>19. ASSUME NEW waiting \in BOOLEAN, PrepareStop(waiting) PROVE TypeOK'
  BY <1>19 DEF PrepareStop
<1>20. CASE StopHook
  BY <1>20 DEF StopHook
<1>21. CASE Finish
  BY <1>21 DEF Finish
<1>22. ASSUME NEW d \in Deliveries, RecoverDelivery(d) PROVE TypeOK'
  <2>1. PICK m \in Executions :
           /\ Record(d, m)
           /\ \/ Reopen(m)
              \/ UNCHANGED <<phase, stop>>
    BY <1>22 DEF RecoverDelivery
  <2>2. phase' \in [Executions -> Phases] /\ stop' \subseteq Executions
    BY <2>1 DEF Reopen
  <2> QED BY <1>13, <1>22, <2>1, <2>2 DEF RecoverDelivery
<1>23. CASE Restart
  BY <1>23 DEF Restart, None
<1>24. CASE Drive
  BY <1>11, <1>12, <1>14, <1>15, <1>16, <1>17, <1>18, <1>19, <1>20, <1>21, <1>24 DEF Drive
<1>25. ASSUME NEW d \in Deliveries, DeliveryStep(d) PROVE TypeOK'
  BY <1>7, <1>8, <1>9, <1>10, <1>22, <1>25
     DEF DeliveryStep, Deliver, DeliverToExecution, LateHook, FinishAgent
<1> QED BY <1>1, <1>2, <1>3, <1>4, <1>5, <1>6, <1>23, <1>24, <1>25 DEF Next, ExecutionStep

Safe == OneDriver /\ FreshStop /\ Decided /\ StopFence /\ GuidanceAnswered

\* Every step keeps the parts of the invariant that are not about types.
LEMMA SafeStep == TypeOK /\ Safe /\ [Next]_vars => Safe'
<1> SUFFICES ASSUME TypeOK, Safe, [Next]_vars PROVE Safe'
  OBVIOUS
<1> USE BoundaryAssumption DEF Safe, OneDriver, FreshStop, Decided, StopFence,
        GuidanceAnswered, Unanswered, Pending
<1> USE DEF execVars, inputVars, noticeVars, boundVars
<1> None \notin Executions
  BY DEF None, Executions
<1>1. CASE UNCHANGED vars
  BY <1>1 DEF vars
<1>2. CASE Send
  <2>1. PICK e \in Executions : e = made + 1
    BY <1>2 DEF Send, Executions, TypeOK
  <2>2. \A f \in Executions : phase'[f] = IF f = e THEN "queued" ELSE phase[f]
    BY <1>2, <2>1 DEF Send, TypeOK
  <2>3. phase[e] = "absent" /\ made' = e
    BY <1>2, <2>1 DEF Send, Executions, TypeOK
  <2>4. FreshStop'
    BY <1>2, <2>1, <2>2, <2>3 DEF Send, Executions, TypeOK
  <2>5. OneDriver' /\ Decided' /\ StopFence' /\ GuidanceAnswered'
    BY <1>2, <2>2, <2>3 DEF Send
  <2> QED BY <2>4, <2>5
<1>3. ASSUME NEW e \in Executions, ContinueSession(e) PROVE Safe'
  BY <1>3 DEF ContinueSession, Reopen, TypeOK
<1>4. ASSUME NEW e \in Executions, Claim(e) PROVE Safe'
  BY <1>4 DEF Claim, TypeOK
<1>5. ASSUME NEW e \in Executions, Cancel(e) PROVE Safe'
  BY <1>5, SettledState DEF Cancel, TypeOK
<1>6. ASSUME NEW e \in Executions, Withdraw(e) PROVE Safe'
  BY <1>6 DEF Withdraw
<1>7. ASSUME NEW d \in Deliveries, NEW k, NEW o, Publish(d, k, None, o) PROVE Safe'
  BY <1>7 DEF Publish, TypeOK
<1>8. ASSUME NEW d \in Deliveries, NEW e \in Executions, DeliverToExecution(d, e)
      PROVE  Safe'
  BY <1>8 DEF DeliverToExecution, Publish, TypeOK
<1>9. ASSUME NEW d \in Deliveries, Launch(d) \/ EndActivity(d) PROVE Safe'
  BY <1>9 DEF Launch, EndActivity, TypeOK
<1>10. ASSUME NEW d \in Deliveries, NEW e \in Executions, LaunchIndependent(d, e)
       PROVE  Safe'
  BY <1>10 DEF LaunchIndependent, TypeOK
<1>11. CASE Abort
  <2>1. driver \in Executions
    BY <1>11 DEF Abort, TypeOK
  <2>2. CASE phase[driver] = "running"
    BY <1>11, <2>1, <2>2, SettledState DEF Abort, TypeOK
  <2>3. CASE phase[driver] # "running"
    BY <1>11, <2>1, <2>3 DEF Abort, TypeOK
  <2> QED BY <2>2, <2>3
<1>12. CASE ReadPage
  BY <1>12 DEF ReadPage
<1>13. CASE Consume
  <2>1. PICK d \in page : \/ Pending(d) /\ Record(d, Message(d, driver))
                          \/ UNCHANGED <<state, noticeVars>>
    BY <1>13 DEF Consume
  <2>2. CASE Pending(d) /\ Record(d, Message(d, driver))
    BY <1>13, <2>2 DEF Consume, Record, TypeOK
  <2>3. CASE UNCHANGED <<state, noticeVars>>
    BY <1>13, <2>3 DEF Consume
  <2> QED BY <2>1, <2>2, <2>3
<1>14. CASE BeginRound
  BY <1>14 DEF BeginRound, TypeOK
<1>15. ASSUME NEW ok \in BOOLEAN, FinishRound(ok) PROVE Safe'
  BY <1>15 DEF FinishRound
<1>16. ASSUME NEW p \in 1 .. length, NEW kept \in BOOLEAN, Compact(p, kept) PROVE Safe'
  BY <1>16 DEF Compact
<1>17. CASE EndTools
  BY <1>17 DEF EndTools
<1>18. ASSUME NEW waiting \in BOOLEAN, PrepareStop(waiting) PROVE Safe'
  <2>1. CASE pc' = "boundary"
    BY <1>18, <2>1 DEF PrepareStop
  <2>2. CASE pc' # "boundary"
    <3>1. /\ driver \in Executions
          /\ \A d \in Deliveries : target[d] = driver => ~Unanswered(d, driver)
      BY <1>18, <2>2 DEF PrepareStop, Unobserved, Business, For, TypeOK
    <3> QED BY <1>18, <2>2, <3>1 DEF PrepareStop
  <2> QED BY <2>1, <2>2
<1>19. CASE StopHook
  BY <1>19 DEF StopHook
<1>20. CASE Finish
  <2>1. driver \in Executions
    BY <1>20 DEF Finish, TypeOK
  <2> QED BY <1>20, <2>1 DEF Finish, TypeOK
<1>21. ASSUME NEW d \in Deliveries, RecoverDelivery(d) PROVE Safe'
  <2>1. PICK m \in Executions :
           /\ Record(d, m)
           /\ \/ Reopen(m)
              \/ UNCHANGED <<phase, stop>>
    BY <1>21 DEF RecoverDelivery, TypeOK
  <2>2. target[d] = None /\ state[d] = "pending"
    BY <1>21 DEF RecoverDelivery, NextWake
  <2> QED BY <1>21, <2>1, <2>2 DEF RecoverDelivery, Record, Reopen, TypeOK
<1>22. CASE Restart
  BY <1>22 DEF Restart, TypeOK
<1>23. CASE Drive
  BY <1>11, <1>12, <1>13, <1>14, <1>15, <1>16, <1>17, <1>18, <1>19, <1>20, <1>23 DEF Drive
<1>24. ASSUME NEW d \in Deliveries, DeliveryStep(d) PROVE Safe'
  BY <1>7, <1>8, <1>9, <1>10, <1>21, <1>24 DEF DeliveryStep, Deliver, LateHook, FinishAgent
<1> QED BY <1>1, <1>2, <1>3, <1>4, <1>5, <1>6, <1>22, <1>23, <1>24 DEF Next, ExecutionStep

\* Pending guidance keeps an active owner: a step that accepts guidance finds
\* its execution active, and one that ends an execution leaves none pending.
LEMMA OwnedStep == TypeOK /\ GuidanceOwned /\ [Next]_vars => GuidanceOwned'
<1> SUFFICES ASSUME TypeOK, GuidanceOwned, [Next]_vars PROVE GuidanceOwned'
  OBVIOUS
<1> USE BoundaryAssumption DEF GuidanceOwned, Pending
<1> USE DEF execVars, inputVars, noticeVars, boundVars
<1> None \notin Executions
  BY DEF None, Executions
<1>1. ASSUME UNCHANGED <<phase, target, state>> PROVE GuidanceOwned'
  BY <1>1
<1>2. CASE Send
  <2>1. PICK e \in Executions : e = made + 1
    BY <1>2 DEF Send, Executions, TypeOK
  <2> QED BY <1>2, <2>1 DEF Send, TypeOK
<1>3. ASSUME NEW e \in Executions, Reopen(e), UNCHANGED <<target, state>> PROVE GuidanceOwned'
  BY <1>3 DEF Reopen, TypeOK
<1>4. ASSUME NEW e \in Executions, Claim(e) PROVE GuidanceOwned'
  BY <1>4 DEF Claim, TypeOK
<1>5. ASSUME NEW e \in Executions, Cancel(e) PROVE GuidanceOwned'
  BY <1>5, SettledState DEF Cancel, TypeOK
<1>6. ASSUME NEW d \in Deliveries, NEW k, NEW o, Publish(d, k, None, o) PROVE GuidanceOwned'
  BY <1>6 DEF Publish, TypeOK
<1>7. ASSUME NEW d \in Deliveries, NEW e \in Executions, DeliverToExecution(d, e)
      PROVE  GuidanceOwned'
  BY <1>7 DEF DeliverToExecution, Publish, TypeOK
<1>8. ASSUME NEW d \in Deliveries, NEW x \in States \ {"pending"},
             state' = [state EXCEPT ![d] = x], UNCHANGED <<phase, target>>
      PROVE  GuidanceOwned'
  BY <1>8 DEF TypeOK
<1>9. ASSUME NEW d \in Deliveries, NEW e \in Executions,
             Launch(d) \/ EndActivity(d) \/ LaunchIndependent(d, e)
      PROVE  GuidanceOwned'
  BY <1>8, <1>9 DEF Launch, EndActivity, LaunchIndependent, States
<1>10. CASE Abort
  <2>1. driver \in Executions
    BY <1>10 DEF Abort, TypeOK
  <2>2. CASE phase[driver] = "running"
    BY <1>10, <2>1, <2>2, SettledState DEF Abort, TypeOK
  <2>3. CASE phase[driver] # "running"
    BY <1>1, <1>10, <2>3 DEF Abort
  <2> QED BY <2>2, <2>3
<1>11. CASE Consume
  <2>1. PICK d \in page : \/ Record(d, Message(d, driver))
                          \/ UNCHANGED <<state, noticeVars>>
    BY <1>11 DEF Consume
  <2>2. d \in Deliveries
    BY <2>1 DEF TypeOK
  <2> QED BY <1>1, <1>8, <1>11, <2>1, <2>2 DEF Consume, Record, States
<1>12. CASE Finish
  <2>1. driver \in Executions
    BY <1>12 DEF Finish, TypeOK
  <2> QED BY <1>12, <2>1 DEF Finish, TypeOK
<1>13. ASSUME NEW d \in Deliveries, RecoverDelivery(d) PROVE GuidanceOwned'
  <2>1. PICK m \in Executions : /\ Record(d, m)
                                /\ Reopen(m) \/ UNCHANGED <<phase, stop>>
    BY <1>13 DEF RecoverDelivery, TypeOK
  <2> QED BY <1>13, <2>1 DEF RecoverDelivery, Record, Reopen, TypeOK
<1>14. CASE Restart
  BY <1>14 DEF Restart, TypeOK
<1>15. CASE Drive
  <2>1. CASE Abort \/ Consume \/ Finish
    BY <1>10, <1>11, <1>12, <2>1
  <2>2. CASE ReadPage \/ BeginRound \/ EndTools \/ StopHook
    BY <1>1, <2>2 DEF ReadPage, BeginRound, EndTools, StopHook
  <2>3. ASSUME NEW b \in BOOLEAN, FinishRound(b) \/ PrepareStop(b) PROVE GuidanceOwned'
    BY <1>1, <2>3 DEF FinishRound, PrepareStop
  <2>4. ASSUME NEW p \in 1 .. length, NEW kept \in BOOLEAN, Compact(p, kept)
        PROVE  GuidanceOwned'
    BY <1>1, <2>4 DEF Compact
  <2> QED BY <1>15, <2>1, <2>2, <2>3, <2>4 DEF Drive
<1>16. ASSUME NEW d \in Deliveries, DeliveryStep(d) PROVE GuidanceOwned'
  <2>1. CASE \E e \in Executions : DeliverToExecution(d, e) \/ LaunchIndependent(d, e)
    BY <1>7, <1>9, <2>1
  <2>2. CASE Launch(d) \/ EndActivity(d)
    BY <1>8, <2>2 DEF Launch, EndActivity, States
  <2> QED BY <1>6, <1>13, <1>16, <2>1, <2>2
          DEF DeliveryStep, Deliver, LateHook, FinishAgent
<1>17. ASSUME NEW e \in Executions, ExecutionStep(e) PROVE GuidanceOwned'
  BY <1>1, <1>3, <1>4, <1>5, <1>17 DEF ExecutionStep, ContinueSession, Withdraw
<1>18. CASE UNCHANGED vars
  BY <1>1, <1>18 DEF vars
<1> QED BY <1>2, <1>14, <1>15, <1>16, <1>17, <1>18 DEF Next

\* The inductive invariant: one driver per running attempt, decisions taken
\* with nothing recorded left unobserved, and the properties themselves.
THEOREM BoundaryInvariant == Spec => []IInv
<1>1. IInv /\ [Next]_vars => IInv'
  BY TypeStep, SafeStep, OwnedStep DEF IInv, Safe
<1> QED BY <1>1, InitInvariant, PTL DEF Spec

\* The state of deliveries, attempts and driver stays within its types, and a
\* driver is registered exactly while it has a stage.
THEOREM BoundaryTypes == Spec => []TypeOK
BY BoundaryInvariant, PTL DEF IInv

\* prepare_stop fences guidance: as long as stop_requested stands, none is
\* waiting for the running attempt.
THEOREM ReadyFences == Spec => []StopFence
BY BoundaryInvariant, PTL DEF IInv

\* An execution never succeeds over guidance it accepted, whichever way
\* publication, the stop decision and the final command interleave.
THEOREM SuccessAnswersGuidance == Spec => []GuidanceAnswered
BY BoundaryInvariant, PTL DEF IInv

\* Guidance that is still pending belongs to an execution that is queued or
\* running, whatever ended its other attempts.
THEOREM GuidanceKeepsOwner == Spec => []GuidanceOwned
BY BoundaryInvariant, PTL DEF IInv

=============================================================================
