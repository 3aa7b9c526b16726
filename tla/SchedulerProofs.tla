--------------------------- MODULE SchedulerProofs ---------------------------
(***************************************************************************)
(* Proofs about the job scheduler, for any calendar and any number of      *)
(* jobs, slots, processes, edits, losses and corrections of the clock.     *)
(* Every property rests on Rows: the table's rows are consistent, and so   *)
(* is each row that a slot or an edit will write from the snapshot it has  *)
(* read, whatever is stored by then.                                       *)
(***************************************************************************)
EXTENDS Scheduler, TLAPS, NaturalsInduction, WellFoundedInduction

LEMMA LeastNat ==
  ASSUME NEW S \in SUBSET Nat, S # {}
  PROVE  \E x \in S : \A y \in S : x <= y
<1> DEFINE R == {ss \in Nat \X Nat : ss[1] < ss[2]}
<1>0. IsWellFoundedOn(R, Nat)
  BY NatLessThanWellFounded, Zenon DEF OpToRel
<1>. HIDE DEF R
<1>1. PICK x \in S : \A y \in S : ~(<<y, x>> \in R)
  BY <1>0, WFMin
<1>2. ASSUME NEW y \in S, y < x PROVE FALSE
  <2>1. <<y, x>> \in Nat \X Nat /\ <<y, x>>[1] < <<y, x>>[2]
    BY <1>2
  <2>2. <<y, x>> \in R
    BY <2>1, Zenon DEF R
  <2> QED BY <1>1, <2>2
<1> QED BY <1>2

LEMMA NextFireType ==
  ASSUME NEW e \in Expressions, NEW after
  PROVE  ComputeNextFire(e, after) \in Nat
<1> DEFINE later == {t \in FireTimes[e] : t > after}
<1>1. later \in SUBSET Nat
  BY SchedulerAssumption
<1>2. CASE later = {}
  BY <1>2 DEF ComputeNextFire
<1>3. CASE later # {}
  <2>1. \E x \in later : \A y \in later : x <= y
    BY <1>1, <1>3, LeastNat
  <2>2. Min(later) \in later
    BY <2>1 DEF Min
  <2> QED BY <1>1, <1>3, <2>2 DEF ComputeNextFire
<1> QED BY <1>2, <1>3

(***************************************************************************)
(* What the job operations return                                          *)
(***************************************************************************)
Open(b) == "completed" \notin b.flags /\ b.next # 0

LEMMA DeliveryType == NoDelivery \in Attempts
BY DEF NoDelivery, Attempts

LEMMA AdvanceRow ==
  ASSUME NEW j \in Jobs, NEW b \in JobType, NEW fired, "completed" \notin b.flags
  PROVE  /\ Advance(j, b, fired) \in JobType
         /\ RowOK(Advance(j, b, fired), 0)
         /\ j \in OnceJobs => "completed" \in Advance(j, b, fired).flags
<1> DEFINE n == IF j \in OnceJobs \/ fired > b.age THEN 0
                ELSE ComputeNextFire(b.expr, fired)
           a == [b EXCEPT !.pending = NoDelivery, !.retry = "none", !.next = n,
                          !.flags = IF n = 0 THEN @ \cup {"completed"} ELSE @]
<1>1. n \in Nat
  BY NextFireType DEF JobType
<1>2. Advance(j, b, fired) = a
  BY DEF Advance
<1>3. j \in OnceJobs => n = 0
  OBVIOUS
<1> HIDE DEF n
<1>4. /\ a.pending = NoDelivery /\ a.retry = "none" /\ a.next = n
      /\ a.flags = IF n = 0 THEN b.flags \cup {"completed"} ELSE b.flags
  BY DEF JobType
<1>5. a \in JobType
  BY <1>1, DeliveryType DEF JobType, Flags
<1>6. RowOK(a, 0)
  BY <1>4 DEF RowOK
<1> QED BY <1>2, <1>3, <1>4, <1>5, <1>6

LEMMA RescheduleRow ==
  ASSUME NEW j \in Jobs, NEW b \in JobType, NEW at, "completed" \notin b.flags
  PROVE  /\ RescheduleAfter(j, b, at) \in JobType
         /\ RowOK(RescheduleAfter(j, b, at), 0)
         /\ j \in OnceJobs => "completed" \in RescheduleAfter(j, b, at).flags
<1> DEFINE n == IF j \in OnceJobs THEN 0 ELSE ComputeNextFire(b.expr, at)
           a == [b EXCEPT !.pending = NoDelivery, !.retry = "none", !.next = n,
                          !.flags = IF n = 0 THEN @ \cup {"completed"} ELSE @]
<1>1. n \in Nat
  BY NextFireType DEF JobType
<1>2. RescheduleAfter(j, b, at) = a
  BY DEF RescheduleAfter
<1>3. j \in OnceJobs => n = 0
  OBVIOUS
<1> HIDE DEF n
<1>4. /\ a.pending = NoDelivery /\ a.retry = "none" /\ a.next = n
      /\ a.flags = IF n = 0 THEN b.flags \cup {"completed"} ELSE b.flags
  BY DEF JobType
<1>5. a \in JobType
  BY <1>1, DeliveryType DEF JobType, Flags
<1>6. RowOK(a, 0)
  BY <1>4 DEF RowOK
<1> QED BY <1>2, <1>3, <1>4, <1>5, <1>6

\* A delivery that claim_due_delivery hands out pends without a retry time.
Claimable(b) == b.pending # NoDelivery /\ b.retry = "none" /\ Open(b)

LEMMA ClaimDueRow ==
  ASSUME NEW j \in Jobs, job[j] \in JobType, RowOK(job[j], claim[j]),
         job[j].flags = {}
  PROVE  LET c == ClaimDueDelivery(j)
         IN  /\ c.job \in JobType
             /\ c.kind = "deliver" => Claimable(c.job)
             /\ c.kind # "deliver" => /\ RowOK(c.job, claim[j])
                                      /\ j \in OnceJobs => "completed" \in c.job.flags
<1> DEFINE b == job[j]
           c == ClaimDueDelivery(j)
<1>0. Open(b)
  BY DEF Open, RowOK
<1>1. CASE b.pending # NoDelivery
  <2> DEFINE a == [b EXCEPT !.pending.attempt = @ + 1, !.retry = "none"]
  <2>1. c = [kind |-> "deliver", job |-> a]
    BY <1>1 DEF ClaimDueDelivery
  <2>2. /\ a.pending = [b.pending EXCEPT !.attempt = @ + 1] /\ a.retry = "none"
        /\ a.flags = b.flags /\ a.next = b.next
    BY DEF JobType
  <2>3. b.pending \in Attempts
    BY DEF JobType
  <2>4. a.pending \in Attempts /\ a.pending # NoDelivery
    BY <2>2, <2>3 DEF Attempts, NoDelivery
  <2>5. a \in JobType
    BY <2>4, <2>2 DEF JobType
  <2>6. Claimable(a)
    BY <1>0, <2>2, <2>4 DEF Claimable, Open
  <2> QED BY <2>1, <2>5, <2>6
<1>2. CASE b.pending = NoDelivery
  <2>1. claim[j] = 0 /\ b.retry = "none"
    BY <1>2 DEF RowOK
  <2>2. CASE c.kind # "deliver"
    <3>1. c.job = Advance(j, b, b.next) \/ c.job = RescheduleAfter(j, b, now)
      BY <1>2, <2>2 DEF ClaimDueDelivery
    <3> QED BY <1>0, <2>1, <2>2, <3>1, AdvanceRow, RescheduleRow DEF Open
  <2>3. CASE c.kind = "deliver"
    <3> DEFINE a == [b EXCEPT !.pending = [occ |-> b.next, attempt |-> 1]]
    <3>1. c.job = a
      BY <1>2, <2>3 DEF ClaimDueDelivery
    <3>2. a.pending = [occ |-> b.next, attempt |-> 1] /\ a.retry = b.retry
          /\ a.flags = b.flags /\ a.next = b.next
      BY DEF JobType
    <3>3. a.pending # NoDelivery
      BY <3>2 DEF NoDelivery
    <3>4. a \in JobType
      BY DEF JobType, Attempts
    <3> QED BY <1>0, <2>1, <2>3, <3>1, <3>2, <3>3, <3>4 DEF Claimable, Open
  <2> QED BY <2>2, <2>3
<1> QED BY <1>1, <1>2

LEMMA FinishRow ==
  ASSUME NEW j \in Jobs, NEW b \in JobType, NEW c, c # 0, RowOK(b, c),
         NEW attempt, NEW result, NEW at
  PROVE  LET f == FinishDelivery(j, b, attempt, result, at)
         IN  /\ f \in JobType /\ RowOK(f, 0)
             /\ j \in OnceJobs /\ result # "failed" => "completed" \in f.flags
<1>1. b.pending # NoDelivery /\ "completed" \notin b.flags /\ b.next # 0
  BY DEF RowOK
<1>2. CASE result = "failed" /\ attempt < b.limit
  <2> DEFINE f == [b EXCEPT !.retry = "armed"]
  <2>1. f \in JobType /\ f.pending = b.pending /\ f.retry = "armed"
        /\ f.flags = b.flags /\ f.next = b.next
    BY DEF JobType
  <2> QED BY <1>1, <1>2, <2>1 DEF FinishDelivery, RowOK
<1>3. CASE ~(result = "failed" /\ attempt < b.limit)
  BY <1>1, <1>3, AdvanceRow DEF FinishDelivery
<1> QED BY <1>2, <1>3

LEMMA EditedRow ==
  ASSUME NEW j \in Jobs, job[j] \in JobType, RowOK(job[j], claim[j]),
         NEW x \in Edited(j)
  PROVE  /\ x.job \in JobType /\ RowOK(x.job, claim[j])
         /\ "completed" \in job[j].flags => "completed" \in x.job.flags
<1> DEFINE b == job[j]
<1>1. CASE b.flags = {} /\ x = [op |-> "pause", job |-> [b EXCEPT !.flags = @ \cup {"paused"}]]
  <2> DEFINE a == [b EXCEPT !.flags = @ \cup {"paused"}]
  <2>1. a \in JobType /\ a.flags = b.flags \cup {"paused"} /\ a.pending = b.pending
        /\ a.retry = b.retry /\ a.next = b.next
    BY DEF JobType, Flags
  <2> QED BY <1>1, <2>1 DEF RowOK
<1>2. CASE /\ b.flags = {"paused"}
           /\ claim[j] # 0 \/ j \in OnceJobs \/ ComputeNextFire(b.expr, now) # 0
           /\ x = [op |-> "resume", job |-> Resume(j, b, claim[j], now)]
  <2>1. CASE claim[j] # 0
    <3> DEFINE a == [b EXCEPT !.flags = @ \ {"paused"}]
    <3>1. a \in JobType /\ a.flags = b.flags \ {"paused"} /\ a.pending = b.pending
          /\ a.retry = b.retry /\ a.next = b.next
      BY DEF JobType, Flags
    <3> QED BY <1>2, <2>1, <3>1 DEF RowOK, Resume
  <2>2. CASE claim[j] = 0
    <3> DEFINE n == IF j \in OnceJobs THEN b.next ELSE ComputeNextFire(b.expr, now)
               a == [b EXCEPT !.flags = @ \ {"paused"}, !.pending = NoDelivery,
                              !.retry = "none", !.next = n]
    <3>1. n \in Nat /\ n # 0
      BY <1>2, <2>2, NextFireType DEF JobType, RowOK
    <3>2. a = Resume(j, b, claim[j], now)
      BY <2>2 DEF Resume, JobType
    <3> HIDE DEF n
    <3>3. a \in JobType /\ a.flags = b.flags \ {"paused"} /\ a.pending = NoDelivery
          /\ a.retry = "none" /\ a.next = n
      BY <3>1, DeliveryType DEF JobType, Flags
    <3> QED BY <1>2, <2>2, <3>1, <3>2, <3>3 DEF RowOK
  <2> QED BY <2>1, <2>2
<1>3. ASSUME NEW p \in Prompts, x = [op |-> "update", job |-> [b EXCEPT !.prompt = p]]
      PROVE  /\ x.job \in JobType /\ RowOK(x.job, claim[j])
             /\ "completed" \in job[j].flags => "completed" \in x.job.flags
  <2> DEFINE a == [b EXCEPT !.prompt = p]
  <2>1. a \in JobType /\ a.flags = b.flags /\ a.pending = b.pending
        /\ a.retry = b.retry /\ a.next = b.next
    BY DEF JobType
  <2> QED BY <1>3, <2>1 DEF RowOK
<1>4. ASSUME NEW e \in Expressions, ComputeNextFire(e, now) # 0,
             x = [op |-> "update", job |-> UpdateExpression(b, e, now)]
      PROVE  /\ x.job \in JobType /\ RowOK(x.job, claim[j])
             /\ "completed" \in job[j].flags => "completed" \in x.job.flags
  <2> DEFINE n == IF "paused" \in b.flags THEN b.next ELSE ComputeNextFire(e, now)
             a == [b EXCEPT !.expr = e, !.next = n]
  <2>1. n \in Nat /\ ("completed" \notin b.flags => n # 0)
    BY <1>4, NextFireType DEF JobType, RowOK
  <2>2. UpdateExpression(b, e, now) = a
    BY DEF UpdateExpression, JobType
  <2> HIDE DEF n
  <2>3. a \in JobType /\ a.flags = b.flags /\ a.pending = b.pending
        /\ a.retry = b.retry /\ a.next = n
    BY <2>1 DEF JobType
  <2> QED BY <1>4, <2>1, <2>2, <2>3 DEF RowOK
<1>5. ASSUME NEW u \in Policies \X AttemptLimits \X Ages,
             x = [op |-> "update",
                  job |-> [b EXCEPT !.policy = u[1], !.limit = u[2], !.age = u[3]]]
      PROVE  /\ x.job \in JobType /\ RowOK(x.job, claim[j])
             /\ "completed" \in job[j].flags => "completed" \in x.job.flags
  <2> DEFINE a == [b EXCEPT !.policy = u[1], !.limit = u[2], !.age = u[3]]
  <2>1. a \in JobType /\ a.flags = b.flags /\ a.pending = b.pending
        /\ a.retry = b.retry /\ a.next = b.next
    BY DEF JobType
  <2> QED BY <1>5, <2>1 DEF RowOK
<1>6. CASE x = [op |-> "remove", job |-> b]
  BY <1>6
<1> QED BY <1>1, <1>2, <1>3, <1>4, <1>5, <1>6 DEF Edited

(***************************************************************************)
(* The inductive invariant behind NeverStranded: the rows agree, and so    *)
(* does every row a slot or an edit is about to write from its snapshot.   *)
(***************************************************************************)
Types ==
  /\ job \in [Jobs -> JobType] /\ claim \in [Jobs -> Nat] /\ keys \in Nat
  /\ stored \subseteq used /\ used \subseteq Jobs
  /\ \A j \in Jobs \ used : claim[j] = 0
  /\ slot = [s \in Slots |-> slot[s]]

SlotOK(v, known) ==
  /\ v.phase # "idle" => v.id \in known /\ v.job \in JobType
  /\ v.phase \in {"claiming", "skipping"} => /\ v.seen.job \in JobType
                                             /\ "completed" \notin v.seen.job.flags
  /\ v.phase = "claiming" => Claimable(v.job)
  /\ v.phase = "skipping" => /\ RowOK(v.job, v.seen.claim)
                             /\ v.id \in OnceJobs => "completed" \in v.job.flags
  /\ v.phase \in Owning => v.key \in Nat \ {0}
  /\ v.phase \in {"sunk", "finishing"} => v.result \in Statuses
  /\ v.phase = "finishing" => /\ v.seen.job \in JobType /\ v.seen.claim = v.key
                              /\ RowOK(v.seen.job, v.seen.claim)

EditOK ==
  edit # NoEdit => /\ edit.id \in Jobs /\ edit.job \in JobType
                   /\ RowOK(edit.job, edit.seen.claim)
                   /\ "completed" \in edit.seen.job.flags => "completed" \in edit.job.flags

Rows == Types /\ NeverStranded /\ (\A s \in Slots : SlotOK(slot[s], used)) /\ EditOK

\* A slot that has stopped satisfies its part.
LEMMA IdleOK == ASSUME NEW known PROVE SlotOK(Idle, known)
BY DEF SlotOK, Idle, Owning

\* One slot moves: the others keep what they had.
LEMMA SlotMoves ==
  ASSUME Rows, NEW s \in Slots, NEW v, slot' = [slot EXCEPT ![s] = v],
         used' = used, SlotOK(v, used)
  PROVE  /\ slot' = [t \in Slots |-> slot'[t]]
         /\ \A t \in Slots : SlotOK(slot'[t], used')
<1>1. slot' = [t \in Slots |-> IF t = s THEN v ELSE slot[t]]
  BY DEF Rows, Types
<1>2. \A t \in Slots : slot'[t] = IF t = s THEN v ELSE slot[t]
  BY <1>1
<1>3. slot' = [t \in Slots |-> slot'[t]]
  BY <1>1
<1>4. \A t \in Slots : SlotOK(slot'[t], used')
  <2> SUFFICES ASSUME NEW t \in Slots PROVE SlotOK(slot'[t], used')
    OBVIOUS
  <2>1. CASE t = s
    BY <1>2, <2>1
  <2>2. CASE t # s
    BY <1>2, <2>2 DEF Rows
  <2> QED BY <2>1, <2>2
<1> QED BY <1>3, <1>4

\* One row is written: the others keep what they had.
LEMMA RowWritten ==
  ASSUME Rows, NEW j \in stored, NEW b \in JobType, NEW c \in Nat, RowOK(b, c),
         job' = [job EXCEPT ![j] = b], claim' = [claim EXCEPT ![j] = c],
         stored' = stored
  PROVE  /\ job' \in [Jobs -> JobType] /\ claim' \in [Jobs -> Nat]
         /\ NeverStranded'
<1>0. j \in Jobs
  BY DEF Rows, Types
<1>1. job' \in [Jobs -> JobType] /\ claim' \in [Jobs -> Nat]
  BY <1>0 DEF Rows, Types
<1>2. \A k \in Jobs : /\ job'[k] = IF k = j THEN b ELSE job[k]
                      /\ claim'[k] = IF k = j THEN c ELSE claim[k]
  BY DEF Rows, Types
<1>3. ASSUME NEW k \in stored PROVE RowOK(job'[k], claim'[k])
  <2>1. k \in Jobs
    BY DEF Rows, Types
  <2>2. CASE k = j
    BY <1>2, <2>1, <2>2
  <2>3. CASE k # j
    BY <1>2, <2>1, <2>3 DEF Rows, NeverStranded
  <2> QED BY <2>2, <2>3
<1> QED BY <1>1, <1>3 DEF NeverStranded

LEMMA RowsInit == Init => Rows
<1> SUFFICES ASSUME Init PROVE Rows
  OBVIOUS
<1> DEFINE b == [expr    |-> CHOOSE e \in Expressions : TRUE,
                 prompt  |-> CHOOSE p \in Prompts : TRUE,
                 policy  |-> CHOOSE p \in Policies : TRUE,
                 limit   |-> CHOOSE n \in AttemptLimits : TRUE,
                 age     |-> CHOOSE n \in Ages : TRUE,
                 next    |-> 0, pending |-> NoDelivery,
                 retry   |-> "none", flags |-> {}]
<1>1. b \in JobType
  BY SchedulerAssumption, DeliveryType DEF JobType
<1>2. job = [j \in Jobs |-> b]
  BY DEF Init
<1> HIDE DEF b
<1>3. Types
  BY <1>1, <1>2 DEF Init, Types
<1>4. NeverStranded /\ EditOK
  BY DEF Init, NeverStranded, EditOK
<1>5. \A s \in Slots : SlotOK(slot[s], used)
  BY IdleOK DEF Init
<1> QED BY <1>3, <1>4, <1>5 DEF Rows

LEMMA RowsStep == Rows /\ [Next]_vars => Rows'
<1> SUFFICES ASSUME Rows, [Next]_vars PROVE Rows'
  OBVIOUS
<1> USE DEF clockVars, tableVars, sinkVars, budgets
<1>T. /\ Types /\ NeverStranded /\ EditOK
      /\ \A s \in Slots : SlotOK(slot[s], used)
  BY DEF Rows
\* Steps that leave the table, the slots and the edit alone.
<1>K. ASSUME UNCHANGED <<stored, used, job, claim, keys, slot, edit>> PROVE Rows'
  BY <1>T, <1>K DEF Rows, Types, NeverStranded, EditOK
\* Steps of one slot that leave the table and the edit alone.
<1>S. ASSUME UNCHANGED <<stored, used, job, claim, keys, edit>>, NEW s \in Slots, NEW v,
             slot' = [slot EXCEPT ![s] = v], SlotOK(v, used)
      PROVE  Rows'
  <2>1. slot' = [t \in Slots |-> slot'[t]] /\ \A t \in Slots : SlotOK(slot'[t], used')
    BY <1>S, SlotMoves
  <2>2. Types' /\ NeverStranded' /\ EditOK'
    BY <1>T, <1>S, <2>1 DEF Types, NeverStranded, EditOK
  <2> QED BY <2>1, <2>2 DEF Rows
\* Steps that write one row, with or without a move of one slot.
<1>W. ASSUME NEW j \in stored, NEW b \in JobType, NEW c \in Nat, RowOK(b, c),
             job' = [job EXCEPT ![j] = b], claim' = [claim EXCEPT ![j] = c],
             stored' = stored, used' = used, keys' \in Nat, EditOK',
             slot' = [t \in Slots |-> slot'[t]],
             \A t \in Slots : SlotOK(slot'[t], used')
      PROVE  Rows'
  <2>1. job' \in [Jobs -> JobType] /\ claim' \in [Jobs -> Nat] /\ NeverStranded'
    BY <1>W, RowWritten
  <2>2. Types'
    BY <1>T, <1>W, <2>1 DEF Types
  <2> QED BY <1>W, <2>1, <2>2 DEF Rows
<1>1. CASE Tick
  BY <1>1, <1>K DEF Tick
<1>2. CASE SetBack
  BY <1>2, <1>K DEF SetBack
<1>3. CASE Consume
  BY <1>3, <1>K DEF Consume
<1>4. ASSUME NEW j \in Jobs, RetryElapses(j) \/ LeaseElapses(j) \/ Stall(j) PROVE Rows'
  BY <1>4, <1>K DEF RetryElapses, LeaseElapses, Stall
<1>5. ASSUME NEW j \in Jobs, Add(j) PROVE Rows'
  <2>1. PICK e \in Expressions, p \in Prompts, m \in Policies, n \in AttemptLimits,
             a \in Ages, at \in 1..MaxTime :
          LET next == IF j \in OnceJobs THEN at ELSE ComputeNextFire(e, now)
          IN  /\ j \notin OnceJobs => next # 0 /\ at = 1
              /\ job' = [job EXCEPT ![j] =
                           [expr |-> e, prompt |-> p, policy |-> m, limit |-> n,
                            age |-> a, next |-> next, pending |-> NoDelivery,
                            retry |-> "none", flags |-> {}]]
    BY <1>5 DEF Add
  <2> DEFINE next == IF j \in OnceJobs THEN at ELSE ComputeNextFire(e, now)
             b == [expr |-> e, prompt |-> p, policy |-> m, limit |-> n,
                   age |-> a, next |-> next, pending |-> NoDelivery,
                   retry |-> "none", flags |-> {}]
  <2>2. next \in Nat /\ next # 0
    BY <2>1, NextFireType, SchedulerAssumption
  <2>3. job' = [job EXCEPT ![j] = b]
    BY <2>1
  <2> HIDE DEF next
  <2>4. b \in JobType
    BY <2>2, DeliveryType DEF JobType
  <2>5. RowOK(b, 0)
    BY <2>2 DEF RowOK
  <2> HIDE DEF b
  <2>6. /\ stored' = stored \cup {j} /\ used' = used \cup {j} /\ claim' = claim
        /\ keys' = keys /\ slot' = slot /\ edit' = edit /\ j \notin used
    BY <1>5 DEF Add
  <2>7. Types'
    BY <1>T, <2>3, <2>4, <2>6 DEF Types
  <2>8. claim[j] = 0
    BY <1>T, <2>6 DEF Types
  <2>9. NeverStranded'
    BY <1>T, <2>3, <2>5, <2>6, <2>8 DEF Types, NeverStranded
  <2>10. \A s \in Slots : SlotOK(slot'[s], used')
    BY <1>T, <2>6 DEF SlotOK
  <2>11. EditOK'
    BY <1>T, <2>6 DEF EditOK
  <2> QED BY <2>7, <2>9, <2>10, <2>11 DEF Rows
<1>6. ASSUME NEW j \in Jobs, EditRead(j) PROVE Rows'
  <2>1. PICK x \in Edited(j) :
          edit' = [op |-> x.op, id |-> j, seen |-> Snapshot(j), job |-> x.job]
    BY <1>6 DEF EditRead
  <2>2. job[j] \in JobType /\ RowOK(job[j], claim[j])
    BY <1>6, <1>T DEF EditRead, Types, NeverStranded
  <2>3. x.job \in JobType /\ RowOK(x.job, claim[j])
        /\ ("completed" \in job[j].flags => "completed" \in x.job.flags)
    BY <2>2, EditedRow
  <2>4. /\ edit'.id = j /\ edit'.job = x.job
        /\ edit'.seen.claim = claim[j] /\ edit'.seen.job = job[j]
    BY <2>1 DEF Snapshot
  <2>5. EditOK'
    BY <2>3, <2>4 DEF EditOK
  <2>6. UNCHANGED <<stored, used, job, claim, keys, slot>>
    BY <1>6 DEF EditRead
  <2> QED BY <1>T, <2>5, <2>6 DEF Rows, Types, NeverStranded
<1>7. CASE EditWrite
  <2>0. /\ edit # NoEdit /\ edit' = NoEdit /\ EditOK'
        /\ used' = used /\ keys' = keys /\ slot' = slot
    BY <1>7 DEF EditWrite, EditOK
  <2> DEFINE j == edit.id
  <2>1. CASE ~Matches(j, edit.seen)
    <3>1. UNCHANGED <<stored, job, claim>>
      BY <1>7, <2>1 DEF EditWrite
    <3> QED BY <1>T, <2>0, <3>1 DEF Rows, Types, NeverStranded
  <2>2. CASE Matches(j, edit.seen) /\ edit.op = "remove"
    <3>1. stored' = stored \ {j} /\ claim' = [claim EXCEPT ![j] = 0] /\ job' = job
      BY <1>7, <2>2 DEF EditWrite
    <3>2. Types'
      BY <1>T, <2>0, <3>1 DEF Types
    <3>3. NeverStranded'
      BY <1>T, <3>1 DEF Types, NeverStranded
    <3> QED BY <1>T, <2>0, <3>2, <3>3 DEF Rows
  <2>3. CASE Matches(j, edit.seen) /\ edit.op # "remove"
    <3>1. job' = [job EXCEPT ![j] = edit.job] /\ stored' = stored /\ claim' = claim
      BY <1>7, <2>3 DEF EditWrite
    <3>2. j \in stored /\ claim[j] = edit.seen.claim
      BY <2>3 DEF Matches
    <3>3. claim' = [claim EXCEPT ![j] = claim[j]] /\ claim[j] \in Nat
      BY <1>T, <3>1, <3>2 DEF Types
    <3>4. edit.job \in JobType /\ RowOK(edit.job, claim[j])
      BY <1>T, <2>0, <3>2 DEF EditOK
    <3>5. slot' = [t \in Slots |-> slot'[t]] /\ \A t \in Slots : SlotOK(slot'[t], used')
      BY <1>T, <2>0 DEF Types
    <3>6. keys' \in Nat
      BY <1>T, <2>0 DEF Types
    <3> HIDE DEF j
    <3> QED BY <1>W, <2>0, <3>1, <3>2, <3>3, <3>4, <3>5, <3>6
  <2> QED BY <2>1, <2>2, <2>3
<1>8. ASSUME NEW s \in Slots, NEW j \in Jobs, Admit(s, j) PROVE Rows'
  <2> DEFINE c == ClaimDueDelivery(j)
             v == [phase |-> IF c.kind = "deliver" THEN "claiming" ELSE "skipping",
                   id |-> j, seen |-> Snapshot(j), job |-> c.job]
  <2>1. /\ slot' = [slot EXCEPT ![s] = v] /\ j \in stored /\ job[j].flags = {}
        /\ UNCHANGED <<stored, used, job, claim, keys, edit>>
    BY <1>8 DEF Admit
  <2>2. job[j] \in JobType /\ RowOK(job[j], claim[j]) /\ j \in used
    BY <1>T, <2>1 DEF Types, NeverStranded
  <2>3. /\ c.job \in JobType /\ (c.kind = "deliver" => Claimable(c.job))
        /\ c.kind # "deliver" => /\ RowOK(c.job, claim[j])
                                 /\ j \in OnceJobs => "completed" \in c.job.flags
    BY <2>1, <2>2, ClaimDueRow
  <2>4. /\ v.phase = (IF c.kind = "deliver" THEN "claiming" ELSE "skipping")
        /\ v.id = j /\ v.job = c.job /\ v.seen.claim = claim[j] /\ v.seen.job = job[j]
    BY DEF Snapshot
  <2> HIDE DEF c, v
  <2>5. SlotOK(v, used)
    BY <2>1, <2>2, <2>3, <2>4 DEF SlotOK, Owning
  <2> QED BY <1>S, <2>1, <2>5
<1>9. ASSUME NEW s \in Slots, Claim(s) PROVE Rows'
  <2>0. slot[s].phase = "claiming" /\ SlotOK(slot[s], used)
    BY <1>9, <1>T DEF Claim
  <2> DEFINE j == slot[s].id
             b == slot[s].job
             v == [phase |-> "claimed", id |-> j, job |-> b, key |-> keys + 1]
  <2>1. CASE Matches(j, slot[s].seen) /\ Available(j)
    <3>1. /\ keys' = keys + 1 /\ job' = [job EXCEPT ![j] = b]
          /\ claim' = [claim EXCEPT ![j] = keys + 1] /\ slot' = [slot EXCEPT ![s] = v]
          /\ UNCHANGED <<stored, used, edit>>
      BY <1>9, <2>1 DEF Claim
    <3>2. j \in stored /\ b \in JobType /\ Claimable(b) /\ keys + 1 \in Nat \ {0}
          /\ j \in used
      BY <1>T, <2>0, <2>1 DEF SlotOK, Matches, Types
    <3>3. RowOK(b, keys + 1)
      BY <3>2 DEF RowOK, Claimable, Open
    <3>4. SlotOK(v, used)
      BY <3>2 DEF SlotOK, Owning
    <3>5. EditOK'
      BY <1>T, <3>1 DEF EditOK
    <3> HIDE DEF j, b, v
    <3>6. slot' = [t \in Slots |-> slot'[t]] /\ \A t \in Slots : SlotOK(slot'[t], used')
      BY <3>1, <3>4, SlotMoves
    <3> QED BY <1>W, <3>1, <3>2, <3>3, <3>5, <3>6
  <2>2. CASE ~(Matches(j, slot[s].seen) /\ Available(j))
    <3>1. Retire(s) /\ UNCHANGED <<stored, used, job, claim, keys, edit>>
      BY <1>9, <2>2 DEF Claim
    <3> QED BY <1>S, <3>1, IdleOK DEF Retire
  <2> QED BY <2>1, <2>2
<1>10. ASSUME NEW s \in Slots, SkipMisfire(s) PROVE Rows'
  <2>0. /\ slot[s].phase = "skipping" /\ SlotOK(slot[s], used)
        /\ slot' = [slot EXCEPT ![s] = Idle] /\ UNCHANGED <<stored, used, claim, keys, edit>>
    BY <1>10, <1>T DEF SkipMisfire, Retire
  <2> DEFINE j == slot[s].id
             b == slot[s].job
  <2>1. CASE Matches(j, slot[s].seen)
    <3>1. job' = [job EXCEPT ![j] = b]
      BY <1>10, <2>1 DEF SkipMisfire
    <3>2. j \in stored /\ b \in JobType /\ claim[j] \in Nat /\ RowOK(b, claim[j])
      BY <1>T, <2>0, <2>1 DEF SlotOK, Matches, Types
    <3>3. claim' = [claim EXCEPT ![j] = claim[j]] /\ keys' \in Nat
      BY <1>T, <2>0, <3>2 DEF Types
    <3>4. EditOK'
      BY <1>T, <2>0 DEF EditOK
    <3> HIDE DEF j, b
    <3>5. slot' = [t \in Slots |-> slot'[t]] /\ \A t \in Slots : SlotOK(slot'[t], used')
      BY <2>0, IdleOK, SlotMoves
    <3> QED BY <1>W, <2>0, <3>1, <3>2, <3>3, <3>4, <3>5
  <2>2. CASE ~Matches(j, slot[s].seen)
    <3>1. job' = job
      BY <1>10, <2>2 DEF SkipMisfire
    <3> QED BY <1>S, <2>0, <3>1, IdleOK
  <2> QED BY <2>1, <2>2
<1>11. ASSUME NEW s \in Slots, StartSink(s) PROVE Rows'
  <2>1. PICK v : /\ slot' = [slot EXCEPT ![s] = v]
                 /\ v = IF HoldsLease(s)
                        THEN [phase |-> "sink", id |-> slot[s].id, job |-> slot[s].job,
                              key |-> slot[s].key]
                        ELSE Idle
    BY <1>11, <1>T DEF StartSink, Types
  <2>2. SlotOK(slot[s], used) /\ slot[s].phase = "claimed"
        /\ UNCHANGED <<stored, used, job, claim, keys, edit>>
    BY <1>11, <1>T DEF StartSink
  <2>3. SlotOK(v, used)
    BY <2>1, <2>2, IdleOK DEF SlotOK, Owning
  <2> QED BY <1>S, <2>1, <2>2, <2>3
<1>12. ASSUME NEW s \in Slots, Sink(s) PROVE Rows'
  <2>1. PICK r \in Statuses :
           slot' = [slot EXCEPT ![s] =
                      [phase |-> "sunk", id |-> slot[s].id, job |-> slot[s].job,
                       key |-> slot[s].key, result |-> r, at |-> now, tries |-> 0]]
    BY <1>12, <1>T DEF Sink, Types, Statuses
  <2>2. SlotOK(slot[s], used) /\ slot[s].phase = "sink"
        /\ UNCHANGED <<stored, used, job, claim, keys, edit>>
    BY <1>12, <1>T DEF Sink
  <2> DEFINE v == [phase |-> "sunk", id |-> slot[s].id, job |-> slot[s].job,
                   key |-> slot[s].key, result |-> r, at |-> now, tries |-> 0]
  <2>3. SlotOK(v, used)
    BY <2>2 DEF SlotOK, Owning
  <2> HIDE DEF v
  <2>4. slot' = [slot EXCEPT ![s] = v]
    BY <2>1 DEF v
  <2> QED BY <1>S, <2>2, <2>3, <2>4
<1>13. ASSUME NEW s \in Slots, ReadCompleted(s) PROVE Rows'
  <2> DEFINE j == slot[s].id
             f == [phase |-> "finishing", id |-> j, job |-> slot[s].job,
                   key |-> slot[s].key, result |-> slot[s].result, at |-> slot[s].at,
                   tries |-> slot[s].tries + 1, seen |-> Snapshot(j)]
  <2>1. PICK v : /\ slot' = [slot EXCEPT ![s] = v]
                 /\ v = IF j \in stored /\ claim[j] = slot[s].key /\ slot[s].tries < MaxTries
                        THEN f ELSE Idle
    BY <1>13, <1>T DEF ReadCompleted, Types
  <2>2. SlotOK(slot[s], used) /\ slot[s].phase = "sunk"
        /\ UNCHANGED <<stored, used, job, claim, keys, edit>>
    BY <1>13, <1>T DEF ReadCompleted
  <2>3. ASSUME j \in stored, claim[j] = slot[s].key PROVE SlotOK(f, used)
    <3>1. job[j] \in JobType /\ RowOK(job[j], claim[j])
      BY <1>T, <2>3 DEF Types, NeverStranded
    <3>2. f.seen.job = job[j] /\ f.seen.claim = claim[j]
      BY DEF Snapshot
    <3> QED BY <2>2, <2>3, <3>1, <3>2 DEF SlotOK, Owning
  <2>4. SlotOK(v, used)
    BY <2>1, <2>3, IdleOK
  <2> QED BY <1>S, <2>1, <2>2, <2>4
<1>14. ASSUME NEW s \in Slots, Finish(s) PROVE Rows'
  <2>0. slot[s].phase = "finishing" /\ SlotOK(slot[s], used)
        /\ UNCHANGED <<stored, used, keys, edit>>
    BY <1>14, <1>T DEF Finish
  <2> DEFINE j == slot[s].id
             b == slot[s].seen.job
             d == slot[s].job.pending
             f == FinishDelivery(j, b, d.attempt, slot[s].result, slot[s].at)
  <2>1. CASE b.pending # d
    <3>1. slot' = [slot EXCEPT ![s] = Idle] /\ UNCHANGED <<job, claim>>
      BY <1>14, <2>1 DEF Finish, Retire
    <3> QED BY <1>S, <2>0, <3>1, IdleOK
  <2>2. CASE b.pending = d /\ Matches(j, slot[s].seen) /\ claim[j] = slot[s].key /\ j \notin leaseOver
    <3>1. /\ job' = [job EXCEPT ![j] = f] /\ claim' = [claim EXCEPT ![j] = 0]
          /\ slot' = [slot EXCEPT ![s] = Idle]
      BY <1>14, <2>2 DEF Finish, Retire
    <3>2. j \in stored /\ j \in Jobs
      BY <1>T, <2>2 DEF Matches, Types
    <3>3. f \in JobType /\ RowOK(f, 0)
      BY <2>0, <3>2, FinishRow DEF SlotOK, Owning
    <3>4. EditOK' /\ keys' \in Nat /\ 0 \in Nat
      BY <1>T, <2>0 DEF EditOK, Types
    <3> HIDE DEF j, f
    <3>5. slot' = [t \in Slots |-> slot'[t]] /\ \A t \in Slots : SlotOK(slot'[t], used')
      BY <2>0, <3>1, IdleOK, SlotMoves
    <3> QED BY <1>W, <2>0, <3>1, <3>2, <3>3, <3>4, <3>5
  <2>3. CASE b.pending = d /\ ~(Matches(j, slot[s].seen) /\ claim[j] = slot[s].key /\ j \notin leaseOver)
    <3> DEFINE v == [phase |-> "sunk", id |-> j, job |-> slot[s].job, key |-> slot[s].key,
                     result |-> slot[s].result, at |-> slot[s].at, tries |-> slot[s].tries]
    <3>1. slot' = [slot EXCEPT ![s] = v] /\ UNCHANGED <<job, claim>>
      BY <1>14, <1>T, <2>3 DEF Finish, Types
    <3>2. SlotOK(v, used)
      BY <2>0 DEF SlotOK, Owning
    <3> HIDE DEF v
    <3> QED BY <1>S, <2>0, <3>1, <3>2
  <2> QED BY <2>1, <2>2, <2>3
<1>15. ASSUME NEW s \in Slots, LoseRenewal(s) PROVE Rows'
  BY <1>15, <1>S, IdleOK DEF LoseRenewal, Retire
<1>16. ASSUME NEW s \in Slots, Crash(s) PROVE Rows'
  <2>1. slot' = [t \in Slots |-> IF Process[t] = Process[s] THEN Idle ELSE slot[t]]
        /\ UNCHANGED <<stored, used, job, claim, keys, edit>>
    BY <1>16 DEF Crash
  <2>2. \A t \in Slots : SlotOK(slot'[t], used')
    <3> SUFFICES ASSUME NEW t \in Slots PROVE SlotOK(slot'[t], used')
      OBVIOUS
    <3>1. slot'[t] = Idle \/ slot'[t] = slot[t]
      BY <2>1
    <3> QED BY <1>T, <2>1, <3>1, IdleOK
  <2>3. Types' /\ NeverStranded' /\ EditOK'
    BY <1>T, <2>1 DEF Types, NeverStranded, EditOK
  <2> QED BY <2>2, <2>3 DEF Rows
<1>17. CASE UNCHANGED vars
  BY <1>17, <1>K DEF vars
<1> QED
  BY <1>1, <1>2, <1>3, <1>4, <1>5, <1>6, <1>7, <1>8, <1>9, <1>10, <1>11, <1>12, <1>13,
     <1>14, <1>15, <1>16, <1>17 DEF Next, Step

\* The rows of the job table always agree (claims, pending deliveries, retries
\* and next fires under any interleaving of slots, edits, crashes and clock
\* corrections), for every number of jobs, slots, processes and edits.
THEOREM NeverStrandedHolds == Spec => []NeverStranded
<1>1. Rows => NeverStranded
  BY DEF Rows
<1> QED BY RowsInit, RowsStep, <1>1, PTL DEF Spec

(***************************************************************************)
(* One delivery per occurrence                                             *)
(***************************************************************************)
KeyedDeliveries ==
  /\ \A r \in deliveries : r.key = <<r.job, r.occ>>
  /\ \A r, q \in deliveries : r.key = q.key => r = q

LEMMA KeyedStep == KeyedDeliveries /\ [Next]_vars => KeyedDeliveries'
<1> SUFFICES ASSUME KeyedDeliveries, [Next]_vars PROVE KeyedDeliveries'
  OBVIOUS
<1> USE DEF clockVars, tableVars, sinkVars, budgets
<1>K. ASSUME deliveries' = deliveries PROVE KeyedDeliveries'
  BY <1>K DEF KeyedDeliveries
<1>1. ASSUME NEW s \in Slots, Sink(s) PROVE KeyedDeliveries'
  <2> DEFINE j   == slot[s].id
             key == DeliveryKey(j, slot[s].job.pending)
             row == [key |-> key, job |-> j, occ |-> slot[s].job.pending.occ,
                     prompt |-> slot[s].job.prompt]
  <2>1. \/ deliveries' = deliveries
        \/ {r \in deliveries : r.key = key} = {} /\ deliveries' = deliveries \cup {row}
    BY <1>1 DEF Sink
  <2>2. row.key = <<row.job, row.occ>> /\ row.key = key
    BY DEF DeliveryKey
  <2> HIDE DEF key, row
  <2>3. ASSUME {r \in deliveries : r.key = key} = {}, deliveries' = deliveries \cup {row}
        PROVE  KeyedDeliveries'
    BY <2>2, <2>3 DEF KeyedDeliveries
  <2> QED BY <1>K, <2>1, <2>3
<1>2. CASE Tick \/ SetBack \/ EditWrite \/ Consume \/ UNCHANGED vars
  BY <1>2, <1>K DEF Tick, SetBack, EditWrite, Consume, vars
<1>3. ASSUME NEW j \in Jobs,
             Add(j) \/ EditRead(j) \/ RetryElapses(j) \/ LeaseElapses(j) \/ Stall(j)
      PROVE  KeyedDeliveries'
  BY <1>3, <1>K DEF Add, EditRead, RetryElapses, LeaseElapses, Stall
<1>4. ASSUME NEW s \in Slots,
             \/ Claim(s) \/ SkipMisfire(s) \/ StartSink(s) \/ ReadCompleted(s)
             \/ Finish(s) \/ LoseRenewal(s) \/ Crash(s)
      PROVE  KeyedDeliveries'
  BY <1>4, <1>K DEF Claim, SkipMisfire, StartSink, ReadCompleted, Finish, LoseRenewal, Crash
<1>5. ASSUME NEW s \in Slots, NEW j \in Jobs, Admit(s, j) PROVE KeyedDeliveries'
  BY <1>5, <1>K DEF Admit
<1> QED BY <1>1, <1>2, <1>3, <1>4, <1>5 DEF Next, Step

\* An occurrence reaches its session at most once, for every number of crashes,
\* lost leases, retries, resumptions and clock corrections.
THEOREM OccurrenceDeliveredOnceHolds == Spec => []OccurrenceDeliveredOnce
<1>1. Init => KeyedDeliveries
  BY DEF Init, KeyedDeliveries
<1>2. KeyedDeliveries => OccurrenceDeliveredOnce
  BY DEF KeyedDeliveries, OccurrenceDeliveredOnce
<1> QED BY <1>1, <1>2, KeyedStep, PTL DEF Spec

(***************************************************************************)
(* Exclusive delivery while no lease is lost                               *)
(***************************************************************************)
Exclusive ==
  /\ losses \in Nat
  /\ OneDeliveryAtATime
  /\ losses = 0 => \A s \in Slots :
       slot[s].phase \in Owning /\ slot[s].id \in stored
         => claim[slot[s].id] = slot[s].key /\ slot[s].id \notin leaseOver

LEMMA ExclusiveStep == Rows /\ Exclusive /\ [Next]_vars => Exclusive'
<1> SUFFICES ASSUME Rows, Exclusive, [Next]_vars PROVE Exclusive'
  OBVIOUS
<1> USE DEF clockVars, tableVars, sinkVars, budgets
<1>T. /\ Types /\ \A s \in Slots : SlotOK(slot[s], used)
      /\ losses \in Nat
  BY DEF Rows, Exclusive
\* Nothing an owner depends on changes, except that leases are extended.
<1>K. ASSUME UNCHANGED <<stored, claim, slot, losses>>, leaseOver' \subseteq leaseOver
      PROVE  Exclusive'
  BY <1>K DEF Exclusive, OneDeliveryAtATime
\* A slot outside the owning phases moves among them or stops.
<1>I. ASSUME UNCHANGED <<stored, claim, leaseOver>>, NEW s \in Slots, NEW v,
             slot' = [slot EXCEPT ![s] = v], v.phase \notin Owning,
             losses' \in Nat, losses' = 0 => losses = 0
      PROVE  Exclusive'
  <2>1. \A t \in Slots : slot'[t] = IF t = s THEN v ELSE slot[t]
    BY <1>T, <1>I DEF Types
  <2> QED BY <1>I, <2>1 DEF Exclusive, OneDeliveryAtATime
\* An owner moves to another owning phase with the same claim.
<1>O. ASSUME UNCHANGED <<stored, claim, leaseOver, losses>>, NEW s \in Slots, NEW v,
             slot' = [slot EXCEPT ![s] = v], slot[s].phase \in Owning,
             v.id = slot[s].id, v.key = slot[s].key
      PROVE  Exclusive'
  <2>1. \A t \in Slots : slot'[t] = IF t = s THEN v ELSE slot[t]
    BY <1>T, <1>O DEF Types
  <2> QED BY <1>O, <2>1 DEF Exclusive, OneDeliveryAtATime
<1>1. CASE Tick \/ SetBack \/ Consume \/ UNCHANGED vars
  BY <1>1, <1>K DEF Tick, SetBack, Consume, vars
<1>2. ASSUME NEW j \in Jobs, RetryElapses(j) \/ EditRead(j) PROVE Exclusive'
  BY <1>2, <1>K DEF RetryElapses, EditRead
<1>3. ASSUME NEW j \in Jobs, Add(j) PROVE Exclusive'
  <2>1. /\ j \notin used /\ stored' = stored \cup {j}
        /\ UNCHANGED <<claim, slot, losses, leaseOver>>
    BY <1>3 DEF Add
  <2>2. \A s \in Slots : slot[s].phase \in Owning => slot[s].id # j
    BY <1>T, <2>1 DEF SlotOK, Owning
  <2> QED BY <2>1, <2>2 DEF Exclusive, OneDeliveryAtATime
<1>4. ASSUME NEW j \in Jobs, LeaseElapses(j) PROVE Exclusive'
  <2>1. /\ j \in stored /\ Owners(j) = {} /\ leaseOver' = leaseOver \cup {j}
        /\ UNCHANGED <<stored, claim, slot, losses>>
    BY <1>4 DEF LeaseElapses
  <2>2. losses = 0 => \A s \in Slots : slot[s].phase \in Owning => slot[s].id # j
    BY <2>1 DEF Owners, Exclusive
  <2> QED BY <2>1, <2>2 DEF Exclusive, OneDeliveryAtATime
<1>5. ASSUME NEW j \in Jobs, Stall(j) PROVE Exclusive'
  BY <1>5, <1>T DEF Stall, Exclusive, OneDeliveryAtATime
<1>6. CASE EditWrite
  <2>1. UNCHANGED <<slot, losses>>
    BY <1>6 DEF EditWrite
  <2>2. \/ UNCHANGED <<stored, claim, leaseOver>>
        \/ /\ stored' = stored \ {edit.id} /\ claim' = [claim EXCEPT ![edit.id] = 0]
           /\ leaseOver' = leaseOver \ {edit.id}
    BY <1>6 DEF EditWrite
  <2>3. CASE /\ stored' = stored \ {edit.id} /\ claim' = [claim EXCEPT ![edit.id] = 0]
             /\ leaseOver' = leaseOver \ {edit.id}
    <3>1. \A k \in stored' : k \in stored /\ claim'[k] = claim[k]
      BY <1>T, <2>3 DEF Types
    <3> QED BY <2>1, <2>3, <3>1 DEF Exclusive, OneDeliveryAtATime
  <2> QED BY <1>K, <2>1, <2>2, <2>3
<1>7. ASSUME NEW s \in Slots, NEW j \in Jobs, Admit(s, j) PROVE Exclusive'
  <2> DEFINE c == ClaimDueDelivery(j)
             v == [phase |-> IF c.kind = "deliver" THEN "claiming" ELSE "skipping",
                   id |-> j, seen |-> Snapshot(j), job |-> c.job]
  <2>1. slot' = [slot EXCEPT ![s] = v] /\ UNCHANGED <<stored, claim, leaseOver, losses>>
    BY <1>7 DEF Admit
  <2>2. v.phase \notin Owning
    BY DEF Owning
  <2> HIDE DEF v
  <2> QED BY <1>I, <1>T, <2>1, <2>2
<1>8. ASSUME NEW s \in Slots, Claim(s) PROVE Exclusive'
  <2> DEFINE j == slot[s].id
             v == [phase |-> "claimed", id |-> j, job |-> slot[s].job, key |-> keys + 1]
  <2>1. CASE Matches(j, slot[s].seen) /\ Available(j)
    <3>1. /\ claim' = [claim EXCEPT ![j] = keys + 1] /\ slot' = [slot EXCEPT ![s] = v]
          /\ leaseOver' = leaseOver \ {j} /\ UNCHANGED <<stored, losses>>
          /\ slot[s].phase = "claiming"
      BY <1>8, <2>1 DEF Claim
    <3>2. j \in stored /\ j \in Jobs
      BY <1>T, <2>1 DEF Matches, Types
    <3>3. losses = 0 => \A t \in Slots : slot[t].phase \in Owning => slot[t].id # j
      BY <1>T, <2>1, <3>2 DEF Available, Exclusive, SlotOK
    <3>4. \A t \in Slots : slot'[t] = IF t = s THEN v ELSE slot[t]
      BY <1>T, <3>1 DEF Types
    <3>5. \A k \in Jobs : claim'[k] = IF k = j THEN keys + 1 ELSE claim[k]
      BY <1>T, <3>1 DEF Types
    <3>6. v.id = j /\ v.key = keys + 1
      OBVIOUS
    <3>7. stored \subseteq Jobs
      BY <1>T DEF Types
    <3> HIDE DEF j, v
    <3> QED BY <3>1, <3>2, <3>3, <3>4, <3>5, <3>6, <3>7 DEF Exclusive, OneDeliveryAtATime
  <2>2. CASE ~(Matches(j, slot[s].seen) /\ Available(j))
    <3>1. slot' = [slot EXCEPT ![s] = Idle] /\ UNCHANGED <<stored, claim, leaseOver, losses>>
      BY <1>8, <2>2 DEF Claim, Retire
    <3> QED BY <1>I, <1>T, <3>1 DEF Idle, Owning
  <2> QED BY <2>1, <2>2
<1>9. ASSUME NEW s \in Slots, SkipMisfire(s) PROVE Exclusive'
  BY <1>9, <1>I, <1>T DEF SkipMisfire, Retire, Idle, Owning
<1>10. ASSUME NEW s \in Slots, StartSink(s) PROVE Exclusive'
  <2>1. PICK v : /\ slot' = [slot EXCEPT ![s] = v]
                 /\ v = IF HoldsLease(s)
                        THEN [phase |-> "sink", id |-> slot[s].id, job |-> slot[s].job,
                              key |-> slot[s].key]
                        ELSE Idle
    BY <1>10, <1>T DEF StartSink, Types
  <2>2. UNCHANGED <<stored, claim, leaseOver, losses>> /\ slot[s].phase \in Owning
    BY <1>10 DEF StartSink, Owning
  <2>3. (v.id = slot[s].id /\ v.key = slot[s].key) \/ v.phase \notin Owning
    BY <2>1 DEF Idle, Owning
  <2> QED BY <1>I, <1>O, <1>T, <2>1, <2>2, <2>3
<1>11. ASSUME NEW s \in Slots, Sink(s) PROVE Exclusive'
  <2>1. PICK v : /\ slot' = [slot EXCEPT ![s] = v]
                 /\ v.id = slot[s].id /\ v.key = slot[s].key
    BY <1>11, <1>T DEF Sink, Types
  <2>2. UNCHANGED <<stored, claim, leaseOver, losses>> /\ slot[s].phase \in Owning
    BY <1>11 DEF Sink, Owning
  <2> QED BY <1>O, <2>1, <2>2
<1>12. ASSUME NEW s \in Slots, ReadCompleted(s) PROVE Exclusive'
  <2> DEFINE f == [phase |-> "finishing", id |-> slot[s].id, job |-> slot[s].job,
                   key |-> slot[s].key, result |-> slot[s].result, at |-> slot[s].at,
                   tries |-> slot[s].tries + 1, seen |-> Snapshot(slot[s].id)]
  <2>0. slot' = [slot EXCEPT ![s] = f] \/ slot' = [slot EXCEPT ![s] = Idle]
    BY <1>12, <1>T DEF ReadCompleted, Types
  <2>1. PICK v : /\ slot' = [slot EXCEPT ![s] = v]
                 /\ (v.id = slot[s].id /\ v.key = slot[s].key) \/ v = Idle
    BY <2>0
  <2>2. UNCHANGED <<stored, claim, leaseOver, losses>> /\ slot[s].phase \in Owning
    BY <1>12 DEF ReadCompleted, Owning
  <2>3. v = Idle => v.phase \notin Owning
    BY DEF Idle, Owning
  <2> QED BY <1>I, <1>O, <1>T, <2>1, <2>2, <2>3
<1>13. ASSUME NEW s \in Slots, Finish(s) PROVE Exclusive'
  <2>0. slot[s].phase \in Owning /\ UNCHANGED <<stored, losses>>
    BY <1>13 DEF Finish, Owning
  <2> DEFINE j == slot[s].id
  <2>1. CASE UNCHANGED <<claim, leaseOver>>
    <3>1. PICK v : /\ slot' = [slot EXCEPT ![s] = v]
                   /\ (v.id = slot[s].id /\ v.key = slot[s].key) \/ v = Idle
      BY <1>13, <1>T DEF Finish, Retire, Types
    <3>2. v = Idle => v.phase \notin Owning
      BY DEF Idle, Owning
    <3> QED BY <1>I, <1>O, <1>T, <2>0, <2>1, <3>1, <3>2
  <2>2. CASE /\ claim' = [claim EXCEPT ![j] = 0] /\ leaseOver' = leaseOver \ {j}
             /\ slot' = [slot EXCEPT ![s] = Idle] /\ j \in stored
    <3>1. \A t \in Slots : slot'[t] = IF t = s THEN Idle ELSE slot[t]
      BY <1>T, <2>2 DEF Types
    <3>2. losses = 0 => \A t \in Slots : t # s /\ slot[t].phase \in Owning => slot[t].id # j
      BY <2>0, <2>2 DEF Exclusive, OneDeliveryAtATime
    <3>3. \A k \in Jobs : k # j => claim'[k] = claim[k]
      BY <1>T, <2>2 DEF Types
    <3>4. Idle.phase \notin Owning /\ stored \subseteq Jobs
      BY <1>T DEF Idle, Owning, Types
    <3> HIDE DEF j
    <3> QED BY <2>0, <2>2, <3>1, <3>2, <3>3, <3>4 DEF Exclusive, OneDeliveryAtATime
  <2>3. \/ UNCHANGED <<claim, leaseOver>>
        \/ /\ claim' = [claim EXCEPT ![j] = 0] /\ leaseOver' = leaseOver \ {j}
           /\ slot' = [slot EXCEPT ![s] = Idle] /\ j \in stored
    BY <1>13 DEF Finish, Retire, Matches
  <2> QED BY <2>1, <2>2, <2>3
<1>14. ASSUME NEW s \in Slots, LoseRenewal(s) PROVE Exclusive'
  <2>1. /\ slot' = [slot EXCEPT ![s] = Idle] /\ UNCHANGED <<stored, claim, leaseOver>>
        /\ losses' = losses \/ losses' = losses + 1
    BY <1>14 DEF LoseRenewal, Retire
  <2>2. Idle.phase \notin Owning /\ losses' \in Nat /\ (losses' = 0 => losses = 0)
    BY <1>T, <2>1 DEF Idle, Owning
  <2> QED BY <1>I, <2>1, <2>2
<1>15. ASSUME NEW s \in Slots, Crash(s) PROVE Exclusive'
  BY <1>15, <1>T DEF Crash, Exclusive, OneDeliveryAtATime
<1> QED
  BY <1>1, <1>2, <1>3, <1>4, <1>5, <1>6, <1>7, <1>8, <1>9, <1>10, <1>11, <1>12, <1>13,
     <1>14, <1>15 DEF Next, Step

\* Without a crash, a stall or a failed renewal, deliveries of one job exclude
\* each other, for every number of slots and processes.
THEOREM OneDeliveryAtATimeHolds == Spec => []OneDeliveryAtATime
<1>1. Init => Exclusive
  BY DEF Init, Exclusive, OneDeliveryAtATime, Idle, Owning
<1>2. Exclusive => OneDeliveryAtATime
  BY DEF Exclusive
<1> QED BY RowsInit, RowsStep, ExclusiveStep, <1>1, <1>2, PTL DEF Spec

(***************************************************************************)
(* A one-shot job settles once                                             *)
(***************************************************************************)
Settled(j) == \E i \in DOMAIN history[j] : history[j][i].status # "failed"

SettledRows ==
  /\ history \in [Jobs -> Seq(Records)]
  /\ \A j \in Jobs \ used : history[j] = <<>>
  /\ \A j \in OnceJobs : Settled(j) => j \notin stored \/ "completed" \in job[j].flags
  /\ SettledOnce

LEMMA SettledStep == Rows /\ SettledRows /\ [Next]_vars => SettledRows'
<1> SUFFICES ASSUME Rows, SettledRows, [Next]_vars PROVE SettledRows'
  OBVIOUS
<1> USE DEF clockVars, tableVars, sinkVars, budgets
<1>T. /\ Types /\ EditOK /\ \A s \in Slots : SlotOK(slot[s], used)
      /\ OnceJobs \subseteq Jobs
  BY SchedulerAssumption DEF Rows
\* No record is added and no stored job loses its completed flag.
<1>K. ASSUME history' = history, used \subseteq used',
             \A j \in stored' : /\ j \in stored \/ j \notin used
                                /\ j \in stored /\ "completed" \in job[j].flags
                                     => "completed" \in job'[j].flags
      PROVE  SettledRows'
  <2>1. \A j \in Jobs \ used : ~Settled(j)
    BY DEF SettledRows, Settled
  <2>2. \A j \in OnceJobs : Settled(j)' => j \notin stored' \/ "completed" \in job'[j].flags
    BY <1>K, <1>T, <2>1 DEF SettledRows, Settled
  <2> QED BY <1>K, <2>2 DEF SettledRows, SettledOnce
\* A record is added to an unsettled stored job; unless it is a failure, the
\* one-shot job completes.
<1>R. ASSUME NEW j \in stored, NEW r \in Records, NEW b,
             history' = [history EXCEPT ![j] = Append(@, r)],
             job' = [job EXCEPT ![j] = b], stored' = stored, used' = used,
             "completed" \notin job[j].flags,
             j \in OnceJobs /\ r.status # "failed" => "completed" \in b.flags
      PROVE  SettledRows'
  <2>1. j \in Jobs /\ j \in used
    BY <1>T DEF Types
  <2>2. /\ history' \in [Jobs -> Seq(Records)]
        /\ \A k \in Jobs : history'[k] = IF k = j THEN Append(history[j], r) ELSE history[k]
    BY <1>R, <2>1 DEF SettledRows
  <2>3. \A k \in Jobs : job'[k] = IF k = j THEN b ELSE job[k]
    BY <1>R, <1>T DEF Types
  <2>4. history[j] \in Seq(Records)
    BY <2>1 DEF SettledRows
  <2>5. \A i \in DOMAIN Append(history[j], r) :
          \/ i \in DOMAIN history[j] /\ Append(history[j], r)[i] = history[j][i]
          \/ i = Len(Append(history[j], r)) /\ Append(history[j], r)[i] = r
    BY <2>4
  <2>6. j \in OnceJobs => \A i \in DOMAIN history[j] : history[j][i].status = "failed"
    BY <1>R DEF SettledRows, Settled
  <2>7. \A k \in OnceJobs : Settled(k)' => k \notin stored' \/ "completed" \in job'[k].flags
    <3> SUFFICES ASSUME NEW k \in OnceJobs, Settled(k)', k \in stored'
                 PROVE  "completed" \in job'[k].flags
      OBVIOUS
    <3>0. k \in Jobs
      BY <1>T
    <3>1. CASE k = j
      <4>1. PICK i \in DOMAIN Append(history[j], r) : Append(history[j], r)[i].status # "failed"
        BY <2>2, <3>0, <3>1 DEF Settled
      <4>2. r.status # "failed"
        BY <2>5, <2>6, <3>1, <4>1
      <4> QED BY <1>R, <2>3, <3>0, <3>1, <4>2
    <3>2. CASE k # j
      BY <1>R, <2>2, <2>3, <3>0, <3>2 DEF Settled, SettledRows
    <3> QED BY <3>1, <3>2
  <2>8. SettledOnce'
    <3> SUFFICES ASSUME NEW k \in OnceJobs, NEW i \in DOMAIN history'[k],
                        history'[k][i].status # "failed"
                 PROVE  i = Len(history'[k])
      BY DEF SettledOnce
    <3>0. k \in Jobs
      BY <1>T
    <3>1. CASE k = j
      BY <2>2, <2>5, <2>6, <3>0, <3>1
    <3>2. CASE k # j
      BY <2>2, <3>0, <3>2 DEF SettledRows, SettledOnce
    <3> QED BY <3>1, <3>2
  <2>9. \A k \in Jobs \ used' : history'[k] = <<>>
    BY <1>R, <2>1, <2>2 DEF SettledRows
  <2> QED BY <2>2, <2>7, <2>8, <2>9 DEF SettledRows
<1>1. CASE Tick \/ SetBack \/ Consume \/ UNCHANGED vars
  BY <1>1, <1>K DEF Tick, SetBack, Consume, vars
<1>2. ASSUME NEW j \in Jobs, EditRead(j) \/ RetryElapses(j) \/ LeaseElapses(j) \/ Stall(j)
      PROVE  SettledRows'
  BY <1>2, <1>K DEF EditRead, RetryElapses, LeaseElapses, Stall
<1>3. ASSUME NEW j \in Jobs, Add(j) PROVE SettledRows'
  <2>1. /\ j \notin used /\ stored' = stored \cup {j} /\ used' = used \cup {j}
        /\ history' = history
    BY <1>3 DEF Add
  <2>2. \A k \in stored : job'[k] = job[k]
    BY <1>3, <1>T, <2>1 DEF Add, Types
  <2> QED BY <1>K, <2>1, <2>2
<1>4. CASE EditWrite
  <2>0. edit # NoEdit /\ history' = history /\ used' = used
    BY <1>4 DEF EditWrite
  <2>1. CASE ~Matches(edit.id, edit.seen)
    BY <1>4, <1>K, <2>0, <2>1 DEF EditWrite
  <2>2. CASE Matches(edit.id, edit.seen) /\ edit.op = "remove"
    <3>1. stored' = stored \ {edit.id} /\ job' = job
      BY <1>4, <2>2 DEF EditWrite
    <3> QED BY <1>K, <2>0, <3>1
  <2>3. CASE Matches(edit.id, edit.seen) /\ edit.op # "remove"
    <3>1. stored' = stored /\ job' = [job EXCEPT ![edit.id] = edit.job]
      BY <1>4, <2>3 DEF EditWrite
    <3>2. "completed" \in job[edit.id].flags => "completed" \in edit.job.flags
      BY <1>T, <2>0, <2>3 DEF EditOK, Matches
    <3>3. \A k \in Jobs : job'[k] = IF k = edit.id THEN edit.job ELSE job[k]
      BY <1>T, <3>1 DEF Types
    <3>4. stored \subseteq Jobs
      BY <1>T DEF Types
    <3> QED BY <1>K, <2>0, <3>1, <3>2, <3>3, <3>4
  <2> QED BY <2>1, <2>2, <2>3
<1>5. ASSUME NEW s \in Slots, NEW j \in Jobs, Admit(s, j) PROVE SettledRows'
  BY <1>5, <1>K DEF Admit
<1>6. ASSUME NEW s \in Slots, Claim(s) PROVE SettledRows'
  <2>0. history' = history /\ UNCHANGED <<stored, used>>
        /\ slot[s].phase = "claiming" /\ SlotOK(slot[s], used)
    BY <1>6, <1>T DEF Claim
  <2> DEFINE j == slot[s].id
  <2>1. CASE Matches(j, slot[s].seen) /\ Available(j)
    <3>1. job' = [job EXCEPT ![j] = slot[s].job]
      BY <1>6, <2>1 DEF Claim
    <3>2. "completed" \notin job[j].flags
      BY <2>0, <2>1 DEF Matches, SlotOK
    <3>3. \A k \in Jobs : k # j => job'[k] = job[k]
      BY <1>T, <3>1 DEF Types
    <3>4. stored \subseteq Jobs
      BY <1>T DEF Types
    <3> HIDE DEF j
    <3> QED BY <1>K, <2>0, <3>2, <3>3, <3>4
  <2>2. CASE ~(Matches(j, slot[s].seen) /\ Available(j))
    <3>1. job' = job
      BY <1>6, <2>2 DEF Claim
    <3> QED BY <1>K, <2>0, <3>1
  <2> QED BY <2>1, <2>2
<1>7. ASSUME NEW s \in Slots, SkipMisfire(s) PROVE SettledRows'
  <2>0. /\ slot[s].phase = "skipping" /\ SlotOK(slot[s], used) /\ UNCHANGED <<stored, used>>
    BY <1>7, <1>T DEF SkipMisfire
  <2> DEFINE j == slot[s].id
             r == [occ |-> slot[s].seen.job.next, attempt |-> 0, status |-> "skipped"]
  <2>1. CASE Matches(j, slot[s].seen)
    <3>1. /\ job' = [job EXCEPT ![j] = slot[s].job]
          /\ history' = [history EXCEPT ![j] = Append(@, r)]
      BY <1>7, <2>1 DEF SkipMisfire, AppendHistory
    <3>2. j \in stored /\ "completed" \notin job[j].flags
      BY <2>0, <2>1 DEF Matches, SlotOK
    <3>3. r \in Records
      BY <2>0 DEF SlotOK, JobType, Records, Statuses
    <3>4. j \in OnceJobs => "completed" \in slot[s].job.flags
      BY <2>0 DEF SlotOK
    <3> HIDE DEF j, r
    <3> QED BY <1>R, <2>0, <3>1, <3>2, <3>3, <3>4
  <2>2. CASE ~Matches(j, slot[s].seen)
    <3>1. UNCHANGED <<job, history>>
      BY <1>7, <2>2 DEF SkipMisfire
    <3> QED BY <1>K, <2>0, <3>1
  <2> QED BY <2>1, <2>2
<1>8. ASSUME NEW s \in Slots,
             \/ StartSink(s) \/ Sink(s) \/ ReadCompleted(s) \/ LoseRenewal(s) \/ Crash(s)
      PROVE  SettledRows'
  BY <1>8, <1>K DEF StartSink, Sink, ReadCompleted, LoseRenewal, Crash
<1>9. ASSUME NEW s \in Slots, Finish(s) PROVE SettledRows'
  <2>0. slot[s].phase = "finishing" /\ SlotOK(slot[s], used) /\ UNCHANGED <<stored, used>>
    BY <1>9, <1>T DEF Finish
  <2> DEFINE j == slot[s].id
             b == slot[s].seen.job
             d == slot[s].job.pending
             f == FinishDelivery(j, b, d.attempt, slot[s].result, slot[s].at)
             r == Record(d, slot[s].result)
  <2>1. CASE UNCHANGED <<job, history>>
    BY <1>K, <2>0, <2>1
  <2>2. CASE /\ b.pending = d /\ Matches(j, slot[s].seen)
             /\ job' = [job EXCEPT ![j] = f] /\ history' = [history EXCEPT ![j] = Append(@, r)]
    <3>1. j \in stored /\ j \in Jobs /\ job[j] = b
      BY <1>T, <2>2 DEF Matches, Types
    <3>2. "completed" \notin job[j].flags
      BY <2>0, <3>1 DEF SlotOK, Owning, RowOK
    <3>3. d \in Attempts /\ slot[s].result \in Statuses
      BY <2>0 DEF SlotOK, JobType
    <3>4. r \in Records /\ r.status = slot[s].result
      BY <3>3 DEF Record, Records, Attempts
    <3>5. j \in OnceJobs /\ slot[s].result # "failed" => "completed" \in f.flags
      BY <2>0, <3>1, FinishRow DEF SlotOK, Owning
    <3> HIDE DEF j, r, f
    <3> QED BY <1>R, <2>0, <2>2, <3>1, <3>2, <3>4, <3>5
  <2>3. \/ UNCHANGED <<job, history>>
        \/ /\ b.pending = d /\ Matches(j, slot[s].seen)
           /\ job' = [job EXCEPT ![j] = f] /\ history' = [history EXCEPT ![j] = Append(@, r)]
    BY <1>9 DEF Finish, AppendHistory
  <2> QED BY <2>1, <2>2, <2>3
<1> QED
  BY <1>1, <1>2, <1>3, <1>4, <1>5, <1>6, <1>7, <1>8, <1>9 DEF Next, Step

\* A one-shot job's outcome is never overwritten by a slot or an edit that holds
\* an older snapshot, for every number of slots, edits and crashes.
THEOREM SettledOnceHolds == Spec => []SettledOnce
<1>1. Init => SettledRows
  BY SchedulerAssumption DEF Init, SettledRows, Settled, SettledOnce
<1>2. SettledRows => SettledOnce
  BY DEF SettledRows
<1> QED BY RowsInit, RowsStep, SettledStep, <1>1, <1>2, PTL DEF Spec

(***************************************************************************)
(* The audit history moves forward                                         *)
(*                                                                         *)
(* The frontier of a row is the occurrence its next record will be about.  *)
(* While the clock only advances, every record of a job lies before its    *)
(* frontier, or at it when that attempt failed, and whatever a slot or an  *)
(* edit is about to write from its snapshot does not move the frontier     *)
(* back over a record.                                                     *)
(***************************************************************************)
Done(b) == "completed" \in b.flags

Frontier(b) == IF b.pending # NoDelivery THEN b.pending.occ ELSE b.next

\* A delivery pends only once its instant has come; a one-shot job has one
\* instant.
Begun(b, n) == b.pending # NoDelivery => b.pending.occ <= n
Aligned(j, b) == j \in OnceJobs /\ b.pending # NoDelivery => b.pending.occ = b.next

Precedes(h, n) ==
  \A i \in DOMAIN h : h[i].occ < n \/ (h[i].occ = n /\ h[i].status = "failed")

Ordered(h) ==
  \A i, k \in DOMAIN h : i < k => \/ h[i].occ < h[k].occ
                                  \/ h[i].occ = h[k].occ /\ h[i].status = "failed"

\* The row has left the fire at n behind: it will never show it unclaimed again.
Beyond(b, n) == \/ Done(b)
                \/ b.pending # NoDelivery /\ b.pending.occ >= n
                \/ b.pending = NoDelivery /\ b.next > n

Forward(a, b) == /\ \A n \in Nat : Beyond(a, n) => Beyond(b, n)
                 /\ a.pending = NoDelivery => Beyond(b, a.next)

RowTimely(j, b, h, n) == /\ Begun(b, n) /\ Aligned(j, b)
                         /\ ~Done(b) => Precedes(h, Frontier(b))

SlotTimely(v, n) ==
  /\ v.phase = "claiming" => /\ v.job.pending.occ = Frontier(v.seen.job)
                             /\ v.job.pending.occ <= n /\ Aligned(v.id, v.job)
  /\ v.phase = "skipping" => /\ v.seen.job.pending = NoDelivery /\ v.seen.job.next <= n
                             /\ v.job.pending = NoDelivery
                             /\ Done(v.job) \/ v.job.next > v.seen.job.next
  /\ v.phase \in Owning => v.job.pending.occ <= n
  /\ v.phase \in {"sunk", "finishing"} => v.at \in Nat /\ v.job.pending.occ <= v.at

\* An edit computed its next fire from the clock: either it keeps the frontier it
\* read, or the row it read is unclaimed and unchanged with every record before
\* the new fire, or the row has moved on and the write will be a conflict.
EditTimely ==
  edit # NoEdit =>
    /\ edit.id \in used /\ edit.seen.job \in JobType
    /\ Begun(edit.job, now) /\ Aligned(edit.id, edit.job)
    /\ \/ Done(edit.job)
       \/ Frontier(edit.job) >= Frontier(edit.seen.job)
       \/ /\ edit.seen.job.pending = NoDelivery
          /\ \/ edit.id \notin stored
             \/ Beyond(job[edit.id], edit.seen.job.next)
             \/ /\ job[edit.id] = edit.seen.job /\ claim[edit.id] = 0
                /\ Precedes(history[edit.id], Frontier(edit.job))

Punctual ==
  /\ \A j \in Jobs : /\ \A i \in DOMAIN history[j] : history[j][i].occ <= now
                     /\ Ordered(history[j])
  /\ \A j \in stored : RowTimely(j, job[j], history[j], now)
  /\ \A s \in Slots : SlotTimely(slot[s], now)
  /\ EditTimely

Timely == now \in Nat /\ setBacks \in Nat /\ (setBacks = 0 => Punctual)

LEMMA NextFireLater ==
  ASSUME NEW e \in Expressions, NEW after \in Nat
  PROVE  ComputeNextFire(e, after) = 0 \/ ComputeNextFire(e, after) > after
<1> DEFINE later == {t \in FireTimes[e] : t > after}
<1>1. later \in SUBSET Nat
  BY SchedulerAssumption
<1>2. CASE later = {}
  BY <1>2 DEF ComputeNextFire
<1>3. CASE later # {}
  <2>1. \E x \in later : \A y \in later : x <= y
    BY <1>1, <1>3, LeastNat
  <2>2. Min(later) \in later
    BY <2>1 DEF Min
  <2>3. ComputeNextFire(e, after) = Min(later)
    BY <1>3 DEF ComputeNextFire
  <2> QED BY <2>2, <2>3
<1> QED BY <1>2, <1>3

LEMMA AdvanceLater ==
  ASSUME NEW j \in Jobs, NEW b \in JobType, NEW fired \in Nat
  PROVE  /\ Advance(j, b, fired).pending = NoDelivery
         /\ Done(Advance(j, b, fired)) \/ Advance(j, b, fired).next > fired
<1> DEFINE n == IF j \in OnceJobs \/ fired > b.age THEN 0
                ELSE ComputeNextFire(b.expr, fired)
           a == [b EXCEPT !.pending = NoDelivery, !.retry = "none", !.next = n,
                          !.flags = IF n = 0 THEN @ \cup {"completed"} ELSE @]
<1>1. n = 0 \/ n > fired
  BY NextFireLater DEF JobType
<1>2. Advance(j, b, fired) = a
  BY DEF Advance
<1> HIDE DEF n
<1>3. a.pending = NoDelivery /\ a.next = n /\ (n = 0 => Done(a))
  BY DEF JobType, Done
<1> QED BY <1>1, <1>2, <1>3

LEMMA RescheduleLater ==
  ASSUME NEW j \in Jobs, NEW b \in JobType, NEW at \in Nat
  PROVE  /\ RescheduleAfter(j, b, at).pending = NoDelivery
         /\ Done(RescheduleAfter(j, b, at)) \/ RescheduleAfter(j, b, at).next > at
<1> DEFINE n == IF j \in OnceJobs THEN 0 ELSE ComputeNextFire(b.expr, at)
           a == [b EXCEPT !.pending = NoDelivery, !.retry = "none", !.next = n,
                          !.flags = IF n = 0 THEN @ \cup {"completed"} ELSE @]
<1>1. n = 0 \/ n > at
  BY NextFireLater DEF JobType
<1>2. RescheduleAfter(j, b, at) = a
  BY DEF RescheduleAfter
<1> HIDE DEF n
<1>3. a.pending = NoDelivery /\ a.next = n /\ (n = 0 => Done(a))
  BY DEF JobType, Done
<1> QED BY <1>1, <1>2, <1>3

\* What a slot takes from the row it admits: its frontier, which has come.
LEMMA ClaimDueTimely ==
  ASSUME NEW j \in Jobs, job[j] \in JobType, RowOK(job[j], claim[j]),
         job[j].flags = {}, claim[j] = 0 => Due(j), now \in Nat,
         Begun(job[j], now), Aligned(j, job[j])
  PROVE  LET c == ClaimDueDelivery(j)
         IN  /\ c.kind = "deliver" => /\ c.job.pending.occ = Frontier(job[j])
                                      /\ c.job.pending.occ <= now
                                      /\ Aligned(j, c.job)
             /\ c.kind # "deliver" => /\ job[j].pending = NoDelivery /\ job[j].next <= now
                                      /\ c.job.pending = NoDelivery
                                      /\ Done(c.job) \/ c.job.next > job[j].next
<1> DEFINE b == job[j]
           c == ClaimDueDelivery(j)
<1>1. CASE b.pending # NoDelivery
  <2> DEFINE a == [b EXCEPT !.pending.attempt = @ + 1, !.retry = "none"]
  <2>1. c = [kind |-> "deliver", job |-> a]
    BY <1>1 DEF ClaimDueDelivery
  <2>2. a.pending.occ = b.pending.occ /\ a.next = b.next
    BY DEF JobType, Attempts
  <2>3. a.pending.occ = Frontier(b) /\ a.pending.occ <= now /\ Aligned(j, a)
    BY <1>1, <2>2 DEF Frontier, Begun, Aligned
  <2>4. c.kind = "deliver" /\ c.job = a
    BY <2>1
  <2> QED BY <2>3, <2>4
<1>2. CASE b.pending = NoDelivery
  <2>1. claim[j] = 0 /\ b.retry = "none"
    BY <1>2 DEF RowOK
  <2>2. b.next <= now /\ b.next \in Nat
    BY <2>1 DEF Due, JobType
  <2>3. CASE c.kind # "deliver"
    <3>1. c.job = Advance(j, b, b.next) \/ c.job = RescheduleAfter(j, b, now)
      BY <1>2, <2>3 DEF ClaimDueDelivery
    <3>2. c.job.pending = NoDelivery /\ (Done(c.job) \/ c.job.next > b.next)
      <4>1. CASE c.job = Advance(j, b, b.next)
        BY <2>2, <4>1, AdvanceLater
      <4>2. CASE c.job = RescheduleAfter(j, b, now)
        <5>1. RescheduleAfter(j, b, now) \in JobType
          BY RescheduleRow
        <5>2. c.job.next \in Nat
          BY <4>2, <5>1 DEF JobType
        <5> QED BY <2>2, <4>2, <5>2, RescheduleLater
      <4> QED BY <3>1, <4>1, <4>2
    <3> QED BY <1>2, <2>2, <2>3, <3>2
  <2>4. CASE c.kind = "deliver"
    <3> DEFINE a == [b EXCEPT !.pending = [occ |-> b.next, attempt |-> 1]]
    <3>1. c.job = a
      BY <1>2, <2>4 DEF ClaimDueDelivery
    <3>2. a.pending = [occ |-> b.next, attempt |-> 1] /\ a.next = b.next
      BY DEF JobType
    <3>3. a.pending.occ = b.next
      BY <3>2
    <3> QED BY <1>2, <2>2, <2>4, <3>1, <3>2, <3>3 DEF Frontier, Aligned
  <2> QED BY <2>3, <2>4
<1> QED BY <1>1, <1>2

\* A finished attempt keeps the frontier when it is retried, and else moves past
\* the occurrence it recorded.
LEMMA FinishTimely ==
  ASSUME NEW j \in Jobs, NEW b \in JobType, b.pending # NoDelivery, ~Done(b),
         NEW attempt, NEW result, NEW at \in Nat, b.pending.occ <= at,
         NEW n \in Nat, Begun(b, n), Aligned(j, b)
  PROVE  LET f == FinishDelivery(j, b, attempt, result, at)
         IN  /\ Begun(f, n) /\ Aligned(j, f) /\ Forward(b, f)
             /\ \/ Done(f) \/ Frontier(f) > b.pending.occ
                \/ result = "failed" /\ Frontier(f) = b.pending.occ
<1>0. b.pending.occ \in Nat
  BY DEF JobType, Attempts
<1>1. CASE result = "failed" /\ attempt < b.limit
  <2> DEFINE f == [b EXCEPT !.retry = "armed"]
  <2>1. f.pending = b.pending /\ f.flags = b.flags /\ f.next = b.next
    BY DEF JobType
  <2>2. FinishDelivery(j, b, attempt, result, at) = f
    BY <1>1 DEF FinishDelivery
  <2> HIDE DEF f
  <2> QED BY <1>1, <2>1, <2>2 DEF Begun, Aligned, Forward, Beyond, Frontier, Done
<1>2. CASE ~(result = "failed" /\ attempt < b.limit)
  <2> DEFINE f == Advance(j, b, at)
  <2>1. FinishDelivery(j, b, attempt, result, at) = f
    BY <1>2 DEF FinishDelivery
  <2>2. f.pending = NoDelivery /\ (Done(f) \/ f.next > at)
    BY AdvanceLater
  <2>3. f \in JobType
    BY AdvanceRow DEF Done
  <2>4. f.next \in Nat
    BY <2>3 DEF JobType
  <2> HIDE DEF f
  <2>5. Done(f) \/ f.next > b.pending.occ
    BY <1>0, <2>2, <2>4
  <2>6. ASSUME NEW k \in Nat, Beyond(b, k) PROVE Beyond(f, k)
    BY <1>0, <2>2, <2>4, <2>5, <2>6 DEF Beyond
  <2> QED BY <2>1, <2>2, <2>5, <2>6 DEF Begun, Aligned, Forward, Frontier
<1> QED BY <1>1, <1>2

\* What an edit may do to the frontier of the row it reads.
LEMMA EditedTimely ==
  ASSUME NEW j \in Jobs, job[j] \in JobType, RowOK(job[j], claim[j]),
         now \in Nat, Begun(job[j], now), Aligned(j, job[j]),
         NEW x \in Edited(j)
  PROVE  /\ Begun(x.job, now) /\ Aligned(j, x.job)
         /\ \/ Done(x.job)
            \/ Frontier(x.job) >= Frontier(job[j])
            \/ job[j].pending = NoDelivery /\ claim[j] = 0 /\ Frontier(x.job) > now
<1> DEFINE b == job[j]
           Good(a) == /\ Begun(a, now) /\ Aligned(j, a)
                      /\ \/ Done(a)
                         \/ Frontier(a) >= Frontier(b)
                         \/ b.pending = NoDelivery /\ claim[j] = 0 /\ Frontier(a) > now
<1>0. b.next \in Nat /\ b.pending.occ \in Nat /\ Frontier(b) \in Nat
  BY DEF JobType, Attempts, Frontier
\* An edit that leaves the pending delivery and the next fire alone.
<1>K. ASSUME NEW a, a.pending = b.pending, a.next = b.next PROVE Good(a)
  <2>1. Frontier(a) = Frontier(b)
    BY <1>K DEF Frontier
  <2> QED BY <1>0, <1>K, <2>1 DEF Begun, Aligned
<1>1. CASE x = [op |-> "pause", job |-> [b EXCEPT !.flags = @ \cup {"paused"}]]
  <2>1. x.job.pending = b.pending /\ x.job.next = b.next
    BY <1>1 DEF JobType
  <2> QED BY <1>K, <2>1
<1>2. CASE /\ b.flags = {"paused"}
           /\ claim[j] # 0 \/ j \in OnceJobs \/ ComputeNextFire(b.expr, now) # 0
           /\ x = [op |-> "resume", job |-> Resume(j, b, claim[j], now)]
  <2>1. CASE claim[j] # 0
    <3>1. x.job.pending = b.pending /\ x.job.next = b.next
      BY <1>2, <2>1 DEF JobType, Resume
    <3> QED BY <1>K, <3>1
  <2>2. CASE claim[j] = 0
    <3> DEFINE n == IF j \in OnceJobs THEN b.next ELSE ComputeNextFire(b.expr, now)
               a == [b EXCEPT !.flags = @ \ {"paused"}, !.pending = NoDelivery,
                              !.retry = "none", !.next = n]
    <3>1. a = Resume(j, b, claim[j], now)
      BY <2>2 DEF Resume, JobType
    <3>2. j \notin OnceJobs => n > now /\ n \in Nat
      BY <1>2, <2>2, NextFireLater, NextFireType DEF JobType
    <3>3. j \in OnceJobs => n = b.next
      OBVIOUS
    <3> HIDE DEF n
    <3>4. a.pending = NoDelivery /\ a.next = n
      BY DEF JobType
    <3>5. Frontier(a) = n
      BY <3>4 DEF Frontier
    <3>6. CASE j \in OnceJobs
      <4>1. n = Frontier(b)
        BY <3>3, <3>6 DEF Frontier, Aligned
      <4>2. x.job = a
        BY <1>2, <3>1
      <4> HIDE DEF a
      <4>3. Frontier(a) >= Frontier(b)
        BY <1>0, <3>5, <4>1
      <4> QED BY <3>4, <4>2, <4>3 DEF Begun, Aligned
    <3>7. CASE j \notin OnceJobs
      <4>1. b.pending # NoDelivery => n >= Frontier(b)
        BY <1>0, <3>2, <3>7 DEF Frontier, Begun
      <4> QED BY <1>2, <2>2, <3>1, <3>2, <3>4, <3>5, <3>7, <4>1 DEF Begun, Aligned
    <3> QED BY <3>6, <3>7
  <2> QED BY <2>1, <2>2
<1>3. ASSUME NEW p \in Prompts, x = [op |-> "update", job |-> [b EXCEPT !.prompt = p]]
      PROVE  Good(x.job)
  <2>1. x.job.pending = b.pending /\ x.job.next = b.next
    BY <1>3 DEF JobType
  <2> QED BY <1>K, <2>1
<1>4. ASSUME NEW e \in Expressions, ComputeNextFire(e, now) # 0, j \notin OnceJobs,
             x = [op |-> "update", job |-> UpdateExpression(b, e, now)]
      PROVE  Good(x.job)
  <2> DEFINE n == IF "paused" \in b.flags THEN b.next ELSE ComputeNextFire(e, now)
             a == [b EXCEPT !.expr = e, !.next = n]
  <2>1. UpdateExpression(b, e, now) = a
    BY DEF UpdateExpression, JobType
  <2>2. n = b.next \/ n > now
    BY <1>4, NextFireLater
  <2> HIDE DEF n
  <2>3. a.pending = b.pending /\ a.next = n /\ x.job = a
    BY <1>4, <2>1 DEF JobType
  <2> HIDE DEF a
  <2>4. b.pending = NoDelivery => claim[j] = 0
    BY DEF RowOK
  <2>5. CASE b.pending = NoDelivery
    BY <1>0, <1>4, <2>2, <2>3, <2>4, <2>5 DEF Frontier, Begun, Aligned
  <2>6. CASE b.pending # NoDelivery
    BY <1>0, <1>4, <2>3, <2>6 DEF Frontier, Begun, Aligned
  <2> QED BY <2>5, <2>6
<1>5. ASSUME NEW u \in Policies \X AttemptLimits \X Ages,
             x = [op |-> "update",
                  job |-> [b EXCEPT !.policy = u[1], !.limit = u[2], !.age = u[3]]]
      PROVE  Good(x.job)
  <2>1. x.job.pending = b.pending /\ x.job.next = b.next
    BY <1>5 DEF JobType
  <2> QED BY <1>K, <2>1
<1>6. CASE x = [op |-> "remove", job |-> b]
  BY <1>6, <1>K
<1>7. Good(x.job)
  BY <1>1, <1>2, <1>3, <1>4, <1>5, <1>6 DEF Edited
<1> QED BY <1>7

\* A row that moves forward never brings back the snapshot of an edit that
\* computed an earlier fire.
LEMMA EditForward ==
  ASSUME EditTimely, NEW j \in stored, NEW b, Types, now' = now,
         edit' = edit, stored' = stored, used' = used, job' = [job EXCEPT ![j] = b],
         \A k \in Jobs \ {j} : claim'[k] = claim[k] /\ history'[k] = history[k],
         Forward(job[j], b), EditOK
  PROVE  EditTimely'
<1> SUFFICES ASSUME edit # NoEdit PROVE EditTimely'
  BY DEF EditTimely
<1>1. \A k \in Jobs : job'[k] = IF k = j THEN b ELSE job[k]
  BY DEF Types
<1>2. edit.id \in Jobs /\ edit.seen.job \in JobType /\ edit.seen.job.next \in Nat
  BY DEF EditOK, EditTimely, JobType
<1>3. CASE edit.id = j
  <2>1. Beyond(job[j], edit.seen.job.next) => Beyond(b, edit.seen.job.next)
    BY <1>2 DEF Forward
  <2>2. job[j] = edit.seen.job /\ edit.seen.job.pending = NoDelivery
          => Beyond(b, edit.seen.job.next)
    BY DEF Forward
  <2> QED BY <1>1, <1>2, <1>3, <2>1, <2>2 DEF EditTimely
<1>4. CASE edit.id # j
  BY <1>1, <1>2, <1>4 DEF EditTimely
<1> QED BY <1>3, <1>4

\* Later instants keep what an earlier one allowed.
LEMMA BegunBefore ==
  ASSUME NEW n \in Nat, NEW m \in Nat, n <= m, NEW b \in JobType, Begun(b, n)
  PROVE  Begun(b, m)
<1>1. b.pending.occ \in Nat
  BY DEF JobType, Attempts
<1> QED BY <1>1 DEF Begun

LEMMA SlotTimelyLater ==
  ASSUME NEW n \in Nat, NEW m \in Nat, n <= m, NEW v, NEW known, SlotOK(v, known),
         SlotTimely(v, n)
  PROVE  SlotTimely(v, m)
<1>1. v.phase # "idle" => v.job.pending.occ \in Nat
  BY DEF SlotOK, JobType, Attempts
<1>2. v.phase = "skipping" => v.seen.job.next \in Nat
  BY DEF SlotOK, JobType
<1>3. v.phase \in Owning => v.phase # "idle"
  BY DEF Owning
<1> QED BY <1>1, <1>2, <1>3 DEF SlotTimely

LEMMA IdleTimely == ASSUME NEW n PROVE SlotTimely(Idle, n)
BY DEF SlotTimely, Idle, Owning

\* One record more at the frontier.
LEMMA RecordAppended ==
  ASSUME NEW h \in Seq(Records), NEW r \in Records, Ordered(h), Precedes(h, r.occ)
  PROVE  /\ Ordered(Append(h, r))
         /\ \A n \in Nat : (n > r.occ \/ (n = r.occ /\ r.status = "failed"))
                            => Precedes(Append(h, r), n)
         /\ \A n \in Nat : r.occ <= n => \A i \in DOMAIN Append(h, r) : Append(h, r)[i].occ <= n
<1> DEFINE g == Append(h, r)
<1>1. /\ DOMAIN g = 1..(Len(h) + 1) /\ DOMAIN h = 1..Len(h) /\ Len(h) \in Nat
      /\ \A i \in DOMAIN h : g[i] = h[i] /\ h[i].occ \in Nat
      /\ g[Len(h) + 1] = r
  <2>1. \A i \in DOMAIN h : h[i] \in Records
    OBVIOUS
  <2>2. \A i \in DOMAIN h : h[i].occ \in Nat
    BY <2>1 DEF Records
  <2>3. DOMAIN h = 1..Len(h) /\ Len(h) \in Nat
    OBVIOUS
  <2> QED BY <2>2, <2>3
<1>2. r.occ \in Nat
  BY DEF Records
<1> HIDE DEF g
<1>3. \A i \in DOMAIN g : i \in DOMAIN h \/ i = Len(h) + 1
  BY <1>1
<1>4. \A i \in DOMAIN h : h[i].occ < r.occ \/ (h[i].occ = r.occ /\ h[i].status = "failed")
  BY DEF Precedes
<1>5. Ordered(g)
  <2> SUFFICES ASSUME NEW i \in DOMAIN g, NEW k \in DOMAIN g, i < k
               PROVE  g[i].occ < g[k].occ \/ (g[i].occ = g[k].occ /\ g[i].status = "failed")
    BY DEF Ordered
  <2>1. i \in DOMAIN h
    BY <1>1
  <2>2. CASE k = Len(h) + 1
    BY <1>1, <1>4, <2>1, <2>2
  <2>3. CASE k \in DOMAIN h
    BY <1>1, <2>1, <2>3 DEF Ordered
  <2> QED BY <1>3, <2>2, <2>3
<1>6. ASSUME NEW n \in Nat, n > r.occ \/ (n = r.occ /\ r.status = "failed")
      PROVE  Precedes(g, n)
  BY <1>1, <1>2, <1>3, <1>4, <1>6 DEF Precedes
<1>7. ASSUME NEW n \in Nat, r.occ <= n PROVE \A i \in DOMAIN g : g[i].occ <= n
  BY <1>1, <1>2, <1>3, <1>4, <1>7
<1> QED BY <1>5, <1>6, <1>7 DEF g

LEMMA PunctualStep ==
  ASSUME Rows, SettledRows, now \in Nat, Punctual, [Next]_vars, ~SetBack
  PROVE  Punctual'
<1> USE DEF clockVars, tableVars, sinkVars, budgets
<1>T. /\ Types /\ NeverStranded /\ EditOK /\ \A s \in Slots : SlotOK(slot[s], used)
      /\ history \in [Jobs -> Seq(Records)] /\ stored \subseteq Jobs
  BY DEF Rows, SettledRows, Types
<1>P. /\ \A j \in Jobs : /\ \A i \in DOMAIN history[j] : history[j][i].occ <= now
                         /\ Ordered(history[j])
      /\ \A j \in stored : RowTimely(j, job[j], history[j], now)
      /\ \A s \in Slots : SlotTimely(slot[s], now)
      /\ EditTimely
  BY DEF Punctual
<1>O. \A j \in Jobs : \A i \in DOMAIN history[j] : history[j][i].occ \in Nat
  <2>1. \A j \in Jobs : \A i \in DOMAIN history[j] : history[j][i] \in Records
    BY <1>T
  <2> QED BY <2>1 DEF Records
\* Steps that leave the table, the slots and the edit alone.
<1>K. ASSUME UNCHANGED <<stored, used, job, claim, history, slot, edit>>, now' \in Nat, now <= now'
      PROVE  Punctual'
  <2>1. \A j \in Jobs : /\ \A i \in DOMAIN history'[j] : history'[j][i].occ <= now'
                       /\ Ordered(history'[j])
    BY <1>K, <1>O, <1>P
  <2>2. ASSUME NEW j \in stored PROVE RowTimely(j, job[j], history[j], now')
    <3>1. job[j] \in JobType
      BY <1>T DEF Types
    <3>2. Begun(job[j], now')
      BY <1>K, <1>P, <3>1, BegunBefore DEF RowTimely
    <3> QED BY <1>P, <3>2 DEF RowTimely
  <2>3. \A s \in Slots : SlotTimely(slot[s], now')
    BY <1>K, <1>P, <1>T, SlotTimelyLater
  <2>4. EditTimely'
    <3>1. edit # NoEdit => Begun(edit.job, now')
      BY <1>K, <1>P, <1>T, BegunBefore DEF EditTimely, EditOK
    <3> QED BY <1>K, <1>P, <3>1 DEF EditTimely
  <2> QED BY <1>K, <2>1, <2>2, <2>3, <2>4 DEF Punctual
\* Steps of one slot that leave the table and the edit alone.
<1>S. ASSUME UNCHANGED <<now, stored, used, job, claim, history, edit>>, NEW s \in Slots, NEW v,
             slot' = [slot EXCEPT ![s] = v], SlotTimely(v, now)
      PROVE  Punctual'
  <2>1. \A t \in Slots : slot'[t] = IF t = s THEN v ELSE slot[t]
    BY <1>S, <1>T DEF Types
  <2>2. ASSUME NEW t \in Slots PROVE SlotTimely(slot'[t], now)
    BY <1>P, <1>S, <2>1
  <2>3. EditTimely'
    BY <1>P, <1>S DEF EditTimely
  <2> QED BY <1>P, <1>S, <2>2, <2>3 DEF Punctual
\* Steps that write one row and add no record.
<1>W. ASSUME NEW j \in stored, NEW b, job' = [job EXCEPT ![j] = b],
             UNCHANGED <<now, stored, history>>, RowTimely(j, b, history[j], now),
             \A t \in Slots : SlotTimely(slot'[t], now), EditTimely'
      PROVE  Punctual'
  <2>1. \A k \in Jobs : job'[k] = IF k = j THEN b ELSE job[k]
    BY <1>W, <1>T DEF Types
  <2>2. ASSUME NEW k \in stored PROVE RowTimely(k, job'[k], history[k], now)
    BY <1>P, <1>T, <1>W, <2>1
  <2> QED BY <1>P, <1>W, <2>2 DEF Punctual
\* Steps that write one row and record the occurrence at its frontier.
<1>R. ASSUME NEW j \in stored, NEW r \in Records, NEW b \in JobType,
             job' = [job EXCEPT ![j] = b], history' = [history EXCEPT ![j] = Append(@, r)],
             UNCHANGED <<now, stored>>, ~Done(job[j]),
             r.occ = Frontier(job[j]), r.occ <= now, Begun(b, now), Aligned(j, b),
             \/ Done(b) \/ Frontier(b) > r.occ
             \/ Frontier(b) = r.occ /\ r.status = "failed",
             \A t \in Slots : SlotTimely(slot'[t], now), EditTimely'
      PROVE  Punctual'
  <2>0. j \in Jobs /\ history[j] \in Seq(Records)
    BY <1>T
  <2>1. \A k \in Jobs : /\ job'[k] = IF k = j THEN b ELSE job[k]
                       /\ history'[k] = IF k = j THEN Append(history[j], r) ELSE history[k]
    BY <1>R, <1>T DEF Types
  <2>2. Precedes(history[j], r.occ) /\ Ordered(history[j])
    BY <1>P, <1>R, <2>0 DEF RowTimely
  <2>3. Frontier(b) \in Nat
    BY DEF Frontier, JobType, Attempts
  <2> DEFINE g == Append(history[j], r)
  <2>4. /\ Ordered(g)
        /\ \A i \in DOMAIN g : g[i].occ <= now
        /\ ~Done(b) => Precedes(g, Frontier(b))
    BY <1>R, <2>0, <2>2, <2>3, RecordAppended
  <2> HIDE DEF g
  <2>5. ASSUME NEW k \in Jobs
        PROVE  /\ \A i \in DOMAIN history'[k] : history'[k][i].occ <= now
               /\ Ordered(history'[k])
    <3>1. CASE k = j
      BY <2>1, <2>4, <3>1 DEF g
    <3>2. CASE k # j
      BY <1>P, <2>1, <3>2
    <3> QED BY <3>1, <3>2
  <2>6. ASSUME NEW k \in stored PROVE RowTimely(k, job'[k], history'[k], now)
    <3>1. CASE k = j
      BY <1>R, <2>0, <2>1, <2>4, <3>1 DEF g, RowTimely
    <3>2. CASE k # j
      BY <1>P, <1>T, <2>1, <3>2
    <3> QED BY <3>1, <3>2
  <2> QED BY <1>R, <2>5, <2>6 DEF Punctual
\* A slot that stops.
<1>I. ASSUME NEW s \in Slots, slot' = [slot EXCEPT ![s] = Idle]
      PROVE  \A t \in Slots : SlotTimely(slot'[t], now)
  <2>1. \A t \in Slots : slot'[t] = IF t = s THEN Idle ELSE slot[t]
    BY <1>I, <1>T DEF Types
  <2> QED BY <1>P, <2>1, IdleTimely
<1>1. CASE Tick
  BY <1>1, <1>K DEF Tick
<1>2. CASE Consume \/ UNCHANGED vars
  BY <1>2, <1>K DEF Consume, vars
<1>3. ASSUME NEW j \in Jobs, RetryElapses(j) \/ LeaseElapses(j) \/ Stall(j) PROVE Punctual'
  BY <1>3, <1>K DEF RetryElapses, LeaseElapses, Stall
<1>4. ASSUME NEW j \in Jobs, Add(j) PROVE Punctual'
  <2>0. PICK e, p, m, n, a, next :
          job' = [job EXCEPT ![j] = [expr |-> e, prompt |-> p, policy |-> m, limit |-> n,
                                     age |-> a, next |-> next, pending |-> NoDelivery,
                                     retry |-> "none", flags |-> {}]]
    BY <1>4, Zenon DEF Add
  <2> DEFINE b == [expr |-> e, prompt |-> p, policy |-> m, limit |-> n, age |-> a,
                   next |-> next, pending |-> NoDelivery, retry |-> "none", flags |-> {}]
  <2>1. job' = [job EXCEPT ![j] = b] /\ b.pending = NoDelivery
    BY <2>0
  <2> HIDE DEF b
  <2>2. /\ stored' = stored \cup {j} /\ used' = used \cup {j} /\ j \notin used
        /\ UNCHANGED <<now, claim, history, slot, edit>>
    BY <1>4 DEF Add
  <2>3. \A k \in Jobs : job'[k] = IF k = j THEN b ELSE job[k]
    BY <1>T, <2>1 DEF Types
  <2>4. history[j] = <<>>
    BY <2>2 DEF SettledRows
  <2>5. RowTimely(j, b, history[j], now)
    BY <2>1, <2>4 DEF RowTimely, Begun, Aligned, Precedes
  <2>6. ASSUME NEW k \in stored' PROVE RowTimely(k, job'[k], history[k], now)
    BY <1>P, <1>T, <2>2, <2>3, <2>5, <2>6
  <2>7. EditTimely'
    <3>1. edit # NoEdit => edit.id \in used /\ edit.id # j /\ edit.id \in Jobs
      BY <1>P, <1>T, <2>2 DEF EditTimely, EditOK
    <3> QED BY <1>P, <2>2, <2>3, <3>1 DEF EditTimely
  <2> QED BY <1>P, <2>2, <2>6, <2>7 DEF Punctual
<1>5. ASSUME NEW j \in Jobs, EditRead(j) PROVE Punctual'
  <2>1. PICK x \in Edited(j) :
          edit' = [op |-> x.op, id |-> j, seen |-> Snapshot(j), job |-> x.job]
    BY <1>5 DEF EditRead
  <2>2. j \in stored /\ UNCHANGED <<now, stored, used, job, claim, history, slot>>
    BY <1>5 DEF EditRead
  <2>3. /\ job[j] \in JobType /\ RowOK(job[j], claim[j]) /\ j \in used
        /\ Begun(job[j], now) /\ Aligned(j, job[j])
    BY <1>P, <1>T, <2>2 DEF Types, NeverStranded, RowTimely
  <2>4. /\ Begun(x.job, now) /\ Aligned(j, x.job)
        /\ \/ Done(x.job)
           \/ Frontier(x.job) >= Frontier(job[j])
           \/ job[j].pending = NoDelivery /\ claim[j] = 0 /\ Frontier(x.job) > now
    BY <2>3, EditedTimely
  <2>5. edit'.id = j /\ edit'.job = x.job /\ edit'.seen.job = job[j]
    BY <2>1 DEF Snapshot
  <2>6. Frontier(x.job) \in Nat
    BY <2>3, EditedRow DEF Frontier, JobType, Attempts
  <2>7. Frontier(x.job) > now => Precedes(history[j], Frontier(x.job))
    BY <1>O, <1>P, <2>6 DEF Precedes
  <2>8. EditTimely'
    BY <2>2, <2>3, <2>4, <2>5, <2>7 DEF EditTimely
  <2> QED BY <1>P, <2>2, <2>8 DEF Punctual
<1>6. CASE EditWrite
  <2>0. /\ edit # NoEdit /\ edit' = NoEdit /\ EditTimely'
        /\ UNCHANGED <<now, used, history, slot>>
    BY <1>6 DEF EditWrite, EditTimely
  <2> DEFINE j == edit.id
  <2>1. CASE ~Matches(j, edit.seen)
    <3>1. UNCHANGED <<stored, job>>
      BY <1>6, <2>1 DEF EditWrite
    <3> QED BY <1>P, <2>0, <3>1 DEF Punctual
  <2>2. CASE Matches(j, edit.seen) /\ edit.op = "remove"
    <3>1. stored' = stored \ {j} /\ job' = job
      BY <1>6, <2>2 DEF EditWrite
    <3> QED BY <1>P, <2>0, <3>1 DEF Punctual
  <2>3. CASE Matches(j, edit.seen) /\ edit.op # "remove"
    <3>1. job' = [job EXCEPT ![j] = edit.job] /\ stored' = stored
      BY <1>6, <2>3 DEF EditWrite
    <3>2. j \in stored /\ job[j] = edit.seen.job
      BY <2>3 DEF Matches
    <3>3. /\ edit.job \in JobType /\ edit.seen.job \in JobType
          /\ Done(edit.seen.job) => Done(edit.job)
          /\ Begun(edit.job, now) /\ Aligned(j, edit.job)
      BY <1>P, <1>T, <2>0 DEF EditOK, EditTimely, Done
    <3>4. /\ Frontier(edit.job) \in Nat /\ Frontier(edit.seen.job) \in Nat
          /\ edit.seen.job.next \in Nat
      BY <3>3 DEF Frontier, JobType, Attempts
    <3>5. ASSUME ~Done(edit.job) PROVE Precedes(history[j], Frontier(edit.job))
      <4>1. Precedes(history[j], Frontier(edit.seen.job))
        BY <1>P, <3>2, <3>3, <3>5 DEF RowTimely
      <4>2. CASE Frontier(edit.job) >= Frontier(edit.seen.job)
        BY <1>O, <1>T, <3>2, <3>4, <4>1, <4>2 DEF Precedes
      <4>3. edit.seen.job.pending = NoDelivery => ~Beyond(job[j], edit.seen.job.next)
        BY <3>2, <3>3, <3>4, <3>5 DEF Beyond
      <4> QED BY <1>P, <2>0, <3>2, <3>5, <4>2, <4>3 DEF EditTimely
    <3>6. RowTimely(j, edit.job, history[j], now)
      BY <3>3, <3>5 DEF RowTimely
    <3> HIDE DEF j
    <3> QED BY <1>P, <1>W, <2>0, <3>1, <3>2, <3>6
  <2> QED BY <2>1, <2>2, <2>3
<1>7. ASSUME NEW s \in Slots, NEW j \in Jobs, Admit(s, j) PROVE Punctual'
  <2> DEFINE c == ClaimDueDelivery(j)
             v == [phase |-> IF c.kind = "deliver" THEN "claiming" ELSE "skipping",
                   id |-> j, seen |-> Snapshot(j), job |-> c.job]
  <2>1. /\ slot' = [slot EXCEPT ![s] = v] /\ j \in stored /\ job[j].flags = {}
        /\ claim[j] = 0 => Due(j)
        /\ UNCHANGED <<now, stored, used, job, claim, history, edit>>
    BY <1>7 DEF Admit
  <2>2. /\ job[j] \in JobType /\ RowOK(job[j], claim[j])
        /\ Begun(job[j], now) /\ Aligned(j, job[j])
    BY <1>P, <1>T, <2>1 DEF Types, NeverStranded, RowTimely
  <2>3. /\ c.kind = "deliver" => /\ c.job.pending.occ = Frontier(job[j])
                                 /\ c.job.pending.occ <= now
                                 /\ Aligned(j, c.job)
        /\ c.kind # "deliver" => /\ job[j].pending = NoDelivery /\ job[j].next <= now
                                 /\ c.job.pending = NoDelivery
                                 /\ Done(c.job) \/ c.job.next > job[j].next
    BY <2>1, <2>2, ClaimDueTimely
  <2>4. /\ v.phase = (IF c.kind = "deliver" THEN "claiming" ELSE "skipping")
        /\ v.id = j /\ v.job = c.job /\ v.seen.job = job[j]
    BY DEF Snapshot
  <2> HIDE DEF c, v
  <2>5. SlotTimely(v, now)
    BY <2>3, <2>4 DEF SlotTimely, Owning
  <2> QED BY <1>S, <2>1, <2>5
<1>8. ASSUME NEW s \in Slots, Claim(s) PROVE Punctual'
  <2>0. slot[s].phase = "claiming" /\ SlotOK(slot[s], used) /\ SlotTimely(slot[s], now)
    BY <1>8, <1>P, <1>T DEF Claim
  <2> DEFINE j == slot[s].id
             b == slot[s].job
             v == [phase |-> "claimed", id |-> j, job |-> b, key |-> keys + 1]
  <2>1. CASE Matches(j, slot[s].seen) /\ Available(j)
    <3>1. /\ job' = [job EXCEPT ![j] = b] /\ claim' = [claim EXCEPT ![j] = keys + 1]
          /\ slot' = [slot EXCEPT ![s] = v]
          /\ UNCHANGED <<now, stored, used, history, edit>>
      BY <1>8, <2>1 DEF Claim
    <3>2. /\ j \in stored /\ j \in Jobs /\ job[j] = slot[s].seen.job /\ ~Done(job[j])
          /\ b.pending # NoDelivery /\ job[j] \in JobType
      BY <1>T, <2>0, <2>1 DEF SlotOK, Matches, Claimable, Done
    <3>3. /\ b.pending.occ = Frontier(job[j]) /\ b.pending.occ <= now /\ Aligned(j, b)
      BY <2>0, <3>2 DEF SlotTimely
    <3>4. RowTimely(j, b, history[j], now)
      <4>1. Frontier(b) = Frontier(job[j])
        BY <3>2, <3>3 DEF Frontier
      <4> QED BY <1>P, <3>2, <3>3, <4>1 DEF RowTimely, Begun
    <3>5. Forward(job[j], b)
      <4>1. job[j].next \in Nat /\ job[j].pending.occ \in Nat
        BY <3>2 DEF JobType, Attempts
      <4> QED BY <3>2, <3>3, <4>1 DEF Forward, Beyond, Frontier
    <3>6. SlotTimely(v, now)
      BY <3>3 DEF SlotTimely, Owning
    <3> HIDE DEF j, b, v
    <3>7. \A t \in Slots : SlotTimely(slot'[t], now)
      BY <1>P, <1>T, <3>1, <3>6 DEF Types
    <3>8. \A k \in Jobs \ {j} : claim'[k] = claim[k] /\ history'[k] = history[k]
      BY <1>T, <3>1 DEF Types
    <3>9. EditTimely'
      BY <1>P, <1>T, <3>1, <3>2, <3>5, <3>8, EditForward
    <3> QED BY <1>W, <3>1, <3>2, <3>4, <3>7, <3>9
  <2>2. CASE ~(Matches(j, slot[s].seen) /\ Available(j))
    <3>1. Retire(s) /\ UNCHANGED <<now, stored, used, job, claim, history, edit>>
      BY <1>8, <2>2 DEF Claim
    <3> QED BY <1>S, <3>1, IdleTimely DEF Retire
  <2> QED BY <2>1, <2>2
<1>9. ASSUME NEW s \in Slots, SkipMisfire(s) PROVE Punctual'
  <2>0. /\ slot[s].phase = "skipping" /\ SlotOK(slot[s], used) /\ SlotTimely(slot[s], now)
        /\ slot' = [slot EXCEPT ![s] = Idle] /\ UNCHANGED <<now, stored, used, claim, edit>>
    BY <1>9, <1>P, <1>T DEF SkipMisfire, Retire
  <2> DEFINE j == slot[s].id
             b == slot[s].job
             r == [occ |-> slot[s].seen.job.next, attempt |-> 0, status |-> "skipped"]
  <2>1. CASE Matches(j, slot[s].seen)
    <3>1. /\ job' = [job EXCEPT ![j] = b]
          /\ history' = [history EXCEPT ![j] = Append(@, r)]
      BY <1>9, <2>1 DEF SkipMisfire, AppendHistory
    <3>2. /\ j \in stored /\ j \in Jobs /\ job[j] = slot[s].seen.job /\ ~Done(job[j])
          /\ b \in JobType /\ job[j] \in JobType
      BY <1>T, <2>0, <2>1 DEF SlotOK, Matches, Done
    <3>3. r \in Records /\ r.occ = job[j].next
      BY <3>2 DEF JobType, Records, Statuses
    <3>4. /\ job[j].pending = NoDelivery /\ job[j].next <= now /\ b.pending = NoDelivery
          /\ Done(b) \/ b.next > job[j].next
      BY <2>0, <3>2 DEF SlotTimely
    <3>5. job[j].next \in Nat /\ b.next \in Nat
      BY <3>2 DEF JobType
    <3> HIDE DEF j, b, r
    <3>6. Forward(job[j], b)
      BY <3>2, <3>4, <3>5 DEF Forward, Beyond
    <3>7. r.occ = Frontier(job[j]) /\ (Done(b) \/ Frontier(b) > r.occ)
          /\ Begun(b, now) /\ Aligned(j, b)
      BY <3>3, <3>4 DEF Frontier, Begun, Aligned
    <3>8. \A k \in Jobs \ {j} : claim'[k] = claim[k] /\ history'[k] = history[k]
      BY <1>T, <2>0, <3>1
    <3>9. EditTimely'
      BY <1>P, <1>T, <2>0, <3>1, <3>2, <3>6, <3>8, EditForward
    <3> QED BY <1>I, <1>R, <2>0, <3>1, <3>2, <3>3, <3>4, <3>7, <3>9
  <2>2. CASE ~Matches(j, slot[s].seen)
    <3>1. UNCHANGED <<job, history>>
      BY <1>9, <2>2 DEF SkipMisfire
    <3> QED BY <1>S, <2>0, <3>1, IdleTimely
  <2> QED BY <2>1, <2>2
<1>10. ASSUME NEW s \in Slots, StartSink(s) PROVE Punctual'
  <2>1. PICK v : /\ slot' = [slot EXCEPT ![s] = v]
                 /\ v = IF HoldsLease(s)
                        THEN [phase |-> "sink", id |-> slot[s].id, job |-> slot[s].job,
                              key |-> slot[s].key]
                        ELSE Idle
    BY <1>10, <1>T DEF StartSink, Types
  <2>2. SlotTimely(slot[s], now) /\ slot[s].phase = "claimed"
        /\ UNCHANGED <<now, stored, used, job, claim, history, edit>>
    BY <1>10, <1>P DEF StartSink
  <2>3. SlotTimely(v, now)
    BY <2>1, <2>2, IdleTimely DEF SlotTimely, Owning
  <2> QED BY <1>S, <2>1, <2>2, <2>3
<1>11. ASSUME NEW s \in Slots, Sink(s) PROVE Punctual'
  <2>1. PICK r \in Statuses :
           slot' = [slot EXCEPT ![s] =
                      [phase |-> "sunk", id |-> slot[s].id, job |-> slot[s].job,
                       key |-> slot[s].key, result |-> r, at |-> now, tries |-> 0]]
    BY <1>11, <1>T DEF Sink, Types, Statuses
  <2>2. SlotTimely(slot[s], now) /\ slot[s].phase = "sink"
        /\ UNCHANGED <<now, stored, used, job, claim, history, edit>>
    BY <1>11, <1>P DEF Sink
  <2> DEFINE v == [phase |-> "sunk", id |-> slot[s].id, job |-> slot[s].job,
                   key |-> slot[s].key, result |-> r, at |-> now, tries |-> 0]
  <2>3. SlotTimely(v, now)
    BY <2>2 DEF SlotTimely, Owning
  <2> HIDE DEF v
  <2>4. slot' = [slot EXCEPT ![s] = v]
    BY <2>1 DEF v
  <2> QED BY <1>S, <2>2, <2>3, <2>4
<1>12. ASSUME NEW s \in Slots, ReadCompleted(s) PROVE Punctual'
  <2> DEFINE j == slot[s].id
             f == [phase |-> "finishing", id |-> j, job |-> slot[s].job,
                   key |-> slot[s].key, result |-> slot[s].result, at |-> slot[s].at,
                   tries |-> slot[s].tries + 1, seen |-> Snapshot(j)]
  <2>1. PICK v : /\ slot' = [slot EXCEPT ![s] = v]
                 /\ v = IF j \in stored /\ claim[j] = slot[s].key /\ slot[s].tries < MaxTries
                        THEN f ELSE Idle
    BY <1>12, <1>T DEF ReadCompleted, Types
  <2>2. SlotTimely(slot[s], now) /\ slot[s].phase = "sunk"
        /\ UNCHANGED <<now, stored, used, job, claim, history, edit>>
    BY <1>12, <1>P DEF ReadCompleted
  <2>3. SlotTimely(f, now)
    BY <2>2 DEF SlotTimely, Owning
  <2>4. SlotTimely(v, now)
    BY <2>1, <2>3, IdleTimely
  <2> QED BY <1>S, <2>1, <2>2, <2>4
<1>13. ASSUME NEW s \in Slots, Finish(s) PROVE Punctual'
  <2>0. /\ slot[s].phase = "finishing" /\ SlotOK(slot[s], used) /\ SlotTimely(slot[s], now)
        /\ UNCHANGED <<now, stored, used, edit>>
    BY <1>13, <1>P, <1>T DEF Finish
  <2> DEFINE j == slot[s].id
             b == slot[s].seen.job
             d == slot[s].job.pending
             f == FinishDelivery(j, b, d.attempt, slot[s].result, slot[s].at)
             r == Record(d, slot[s].result)
  <2>1. CASE b.pending # d
    <3>1. slot' = [slot EXCEPT ![s] = Idle] /\ UNCHANGED <<job, claim, history>>
      BY <1>13, <2>1 DEF Finish, Retire
    <3> QED BY <1>S, <2>0, <3>1, IdleTimely
  <2>2. CASE b.pending = d /\ Matches(j, slot[s].seen) /\ claim[j] = slot[s].key /\ j \notin leaseOver
    <3>1. /\ job' = [job EXCEPT ![j] = f] /\ claim' = [claim EXCEPT ![j] = 0]
          /\ history' = [history EXCEPT ![j] = Append(@, r)] /\ slot' = [slot EXCEPT ![s] = Idle]
      BY <1>13, <2>2 DEF Finish, Retire, AppendHistory
    <3>2. /\ j \in stored /\ j \in Jobs /\ job[j] = b /\ b \in JobType
          /\ b.pending # NoDelivery /\ ~Done(b) /\ RowOK(b, slot[s].seen.claim)
          /\ slot[s].seen.claim # 0
      BY <1>T, <2>0, <2>2 DEF SlotOK, Owning, Matches, RowOK, Done
    <3>3. slot[s].at \in Nat /\ b.pending.occ <= slot[s].at /\ b.pending.occ <= now
      BY <2>0, <2>2 DEF SlotTimely, Owning
    <3>4. Begun(b, now) /\ Aligned(j, b)
      BY <1>P, <3>2 DEF RowTimely
    <3>5. /\ Begun(f, now) /\ Aligned(j, f) /\ Forward(b, f)
          /\ \/ Done(f) \/ Frontier(f) > b.pending.occ
             \/ slot[s].result = "failed" /\ Frontier(f) = b.pending.occ
      BY <3>2, <3>3, <3>4, FinishTimely
    <3>6. f \in JobType
      BY <3>2, FinishRow
    <3>7. d \in Attempts /\ slot[s].result \in Statuses
      BY <2>0 DEF SlotOK, JobType
    <3>8. r \in Records /\ r.occ = b.pending.occ /\ r.status = slot[s].result
      BY <2>2, <3>7 DEF Record, Records, Attempts
    <3>9. Frontier(b) = b.pending.occ
      BY <3>2 DEF Frontier
    <3> HIDE DEF j, b, f, r
    <3>10. \A k \in Jobs \ {j} : claim'[k] = claim[k] /\ history'[k] = history[k]
      BY <1>T, <3>1 DEF Types
    <3>11. EditTimely'
      BY <1>P, <1>T, <2>0, <3>1, <3>2, <3>5, <3>10, EditForward
    <3> QED BY <1>I, <1>R, <2>0, <3>1, <3>2, <3>3, <3>5, <3>6, <3>8, <3>9, <3>11
  <2>3. CASE b.pending = d /\ ~(Matches(j, slot[s].seen) /\ claim[j] = slot[s].key /\ j \notin leaseOver)
    <3> DEFINE v == [phase |-> "sunk", id |-> j, job |-> slot[s].job, key |-> slot[s].key,
                     result |-> slot[s].result, at |-> slot[s].at, tries |-> slot[s].tries]
    <3>1. slot' = [slot EXCEPT ![s] = v] /\ UNCHANGED <<job, claim, history>>
      BY <1>13, <1>T, <2>3 DEF Finish, Types
    <3>2. SlotTimely(v, now)
      BY <2>0 DEF SlotTimely, Owning
    <3> HIDE DEF v
    <3> QED BY <1>S, <2>0, <3>1, <3>2
  <2> QED BY <2>1, <2>2, <2>3
<1>14. ASSUME NEW s \in Slots, LoseRenewal(s) PROVE Punctual'
  BY <1>14, <1>S, IdleTimely DEF LoseRenewal, Retire
<1>15. ASSUME NEW s \in Slots, Crash(s) PROVE Punctual'
  <2>1. slot' = [t \in Slots |-> IF Process[t] = Process[s] THEN Idle ELSE slot[t]]
        /\ UNCHANGED <<now, stored, used, job, claim, history, edit>>
    BY <1>15 DEF Crash
  <2>2. ASSUME NEW t \in Slots PROVE SlotTimely(slot'[t], now)
    <3>1. slot'[t] = Idle \/ slot'[t] = slot[t]
      BY <2>1
    <3> QED BY <1>P, <3>1, IdleTimely
  <2>3. EditTimely'
    BY <1>P, <2>1 DEF EditTimely
  <2> QED BY <1>P, <2>1, <2>2, <2>3 DEF Punctual
<1> QED
  BY <1>1, <1>2, <1>3, <1>4, <1>5, <1>6, <1>7, <1>8, <1>9, <1>10, <1>11, <1>12, <1>13,
     <1>14, <1>15 DEF Next, Step

LEMMA TimelyStep == Rows /\ SettledRows /\ Timely /\ [Next]_vars => Timely'
<1> SUFFICES ASSUME Rows, SettledRows, Timely, [Next]_vars PROVE Timely'
  OBVIOUS
<1> USE DEF clockVars, tableVars, sinkVars, budgets
<1>1. CASE SetBack
  <2>1. now' \in Nat /\ setBacks' \in Nat /\ setBacks' # 0
    BY <1>1 DEF SetBack, Timely
  <2> QED BY <2>1 DEF Timely
<1>2. CASE ~SetBack
  <2>1. setBacks' = setBacks /\ (now' = now \/ now' = now + 1)
    BY <1>2 DEF Next, Step, Tick, EditWrite, Consume, Add, EditRead, RetryElapses,
       LeaseElapses, Stall, Claim, SkipMisfire, StartSink, Sink, ReadCompleted, Finish,
       LoseRenewal, Crash, Admit, vars
  <2> QED BY <1>2, <2>1, PunctualStep DEF Timely
<1> QED BY <1>1, <1>2

\* While the clock is not set back, the audit history of a job moves forward: no
\* slot with an old claim, skipped misfire, retry, resume or changed expression
\* records an occurrence after a later one or after its outcome, for every
\* calendar, number of slots, edits and crashes.
THEOREM HistoryAdvancesHolds == Spec => []HistoryAdvances
<1>1. Init => SettledRows
  BY SchedulerAssumption DEF Init, SettledRows, Settled, SettledOnce
<1>2. Init => Timely
  <2> SUFFICES ASSUME Init PROVE Timely
    OBVIOUS
  <2>1. \A s \in Slots : SlotTimely(slot[s], now)
    BY IdleTimely DEF Init
  <2>2. Punctual
    BY <2>1 DEF Init, Punctual, Ordered, EditTimely
  <2> QED BY <2>2 DEF Init, Timely
<1>3. Timely => HistoryAdvances
  BY DEF Timely, Punctual, Ordered, HistoryAdvances
<1> QED BY RowsInit, RowsStep, SettledStep, TimelyStep, <1>1, <1>2, <1>3, PTL DEF Spec
(***************************************************************************)
(* Types.  The rows, and what a slot or an edit will write to them, are    *)
(* typed by Rows; Columns adds the rest.                                   *)
(***************************************************************************)
Phases == {"idle", "claiming", "skipping", "claimed", "sink", "sunk", "finishing"}
Operations == {"none", "pause", "resume", "update", "remove"}

Columns ==
  /\ now \in 0..MaxTime /\ leaseOver \subseteq Jobs /\ retryOver \subseteq Jobs
  /\ \A j \in Jobs : claim[j] <= keys
  /\ \A s \in Slots : slot[s].phase \in Phases
  /\ edit.op \in Operations
  /\ \A r \in deliveries : r.job \in Jobs /\ r.prompt \in Prompts
  /\ consumed \subseteq {r.key : r \in deliveries}
  /\ history \in [Jobs -> Seq(Records)]

\* An edit is one of the four calls.
LEMMA EditedOp ==
  ASSUME NEW j, NEW x \in Edited(j)
  PROVE  x.op \in Operations
<1> DEFINE b == job[j]
<1>1. \/ x = [op |-> "pause", job |-> [b EXCEPT !.flags = @ \cup {"paused"}]]
      \/ x = [op |-> "resume", job |-> Resume(j, b, claim[j], now)]
      \/ \E p \in Prompts : x = [op |-> "update", job |-> [b EXCEPT !.prompt = p]]
      \/ \E e \in Expressions : x = [op |-> "update", job |-> UpdateExpression(b, e, now)]
      \/ \E u \in Policies \X AttemptLimits \X Ages :
           x = [op |-> "update", job |-> [b EXCEPT !.policy = u[1], !.limit = u[2], !.age = u[3]]]
      \/ x = [op |-> "remove", job |-> b]
  BY Zenon DEF Edited
<1>2. \E y : \/ x = [op |-> "pause", job |-> y] \/ x = [op |-> "resume", job |-> y]
             \/ x = [op |-> "update", job |-> y] \/ x = [op |-> "remove", job |-> y]
  BY <1>1, Zenon
<1> QED BY <1>2 DEF Operations

\* A claim that is released.
LEMMA ClaimReleased ==
  ASSUME Types, Columns, NEW k, claim' = claim \/ claim' = [claim EXCEPT ![k] = 0]
  PROVE  \A j \in Jobs : claim'[j] <= keys
<1>1. ASSUME NEW j \in Jobs PROVE claim'[j] = claim[j] \/ claim'[j] = 0
  BY DEF Types
<1>2. keys \in Nat /\ \A j \in Jobs : claim[j] <= keys
  BY DEF Types, Columns
<1> QED BY <1>1, <1>2

\* A record that is appended.
LEMMA HistoryTyped ==
  ASSUME Columns, NEW k, NEW r \in Records,
         history' = history \/ history' = [history EXCEPT ![k] = Append(@, r)]
  PROVE  history' \in [Jobs -> Seq(Records)]
<1>0. history \in [Jobs -> Seq(Records)]
  BY DEF Columns
<1>1. CASE history' = [history EXCEPT ![k] = Append(@, r)]
  <2>1. history' = [x \in Jobs |-> IF x = k THEN Append(history[x], r) ELSE history[x]]
    BY <1>0, <1>1
  <2>2. \A x \in Jobs : Append(history[x], r) \in Seq(Records)
    BY <1>0
  <2> QED BY <1>0, <2>1, <2>2
<1> QED BY <1>0, <1>1

\* What a step leaves alone keeps its type.
LEMMA ColumnsKept ==
  ASSUME Columns, UNCHANGED <<now, leaseOver, retryOver, claim, keys, deliveries, consumed, history>>,
         edit'.op \in Operations, \A s \in Slots : slot'[s].phase \in Phases
  PROVE  Columns'
BY DEF Columns

\* One slot moves to another phase.
LEMMA PhaseKept ==
  ASSUME Rows, Columns, NEW s \in Slots, NEW v, slot' = [slot EXCEPT ![s] = v], v.phase \in Phases
  PROVE  \A t \in Slots : slot'[t].phase \in Phases
BY DEF Rows, Types, Columns

LEMMA ColumnsStep == Rows /\ Columns /\ [Next]_vars => Columns'
<1> SUFFICES ASSUME Rows, Columns, [Next]_vars PROVE Columns'
  OBVIOUS
<1> USE DEF clockVars, tableVars, sinkVars, budgets
<1> USE SchedulerAssumption
<1>T. Types /\ (\A s \in Slots : SlotOK(slot[s], used)) /\ EditOK /\ stored \subseteq Jobs
  BY DEF Rows, Types
<1>E. edit.op \in Operations /\ \A s \in Slots : slot[s].phase \in Phases
  BY DEF Columns
<1>I. Idle.phase \in Phases /\ NoEdit.op \in Operations
  BY DEF Idle, NoEdit, Phases, Operations
<1>1. CASE Tick
  <2>1. now' \in 0..MaxTime
    BY <1>1 DEF Tick, Columns
  <2> QED BY <1>1, <2>1 DEF Tick, Columns
<1>2. CASE SetBack
  <2>1. now' \in 0..MaxTime /\ leaseOver' \subseteq Jobs /\ retryOver' \subseteq Jobs
    BY <1>2 DEF SetBack, Columns
  <2> QED BY <1>2, <2>1 DEF SetBack, Columns
<1>3. CASE EditWrite
  <2>1. /\ edit'.op \in Operations /\ leaseOver' \subseteq Jobs /\ retryOver' \subseteq Jobs
        /\ claim' = claim \/ claim' = [claim EXCEPT ![edit.id] = 0]
        /\ UNCHANGED <<now, keys, slot, deliveries, consumed, history>>
    BY <1>3, <1>I DEF EditWrite, Columns
  <2>2. \A j \in Jobs : claim'[j] <= keys
    BY <1>T, <2>1, ClaimReleased
  <2> QED BY <2>1, <2>2 DEF Columns
<1>4. CASE Consume
  <2>1. consumed' \subseteq {r.key : r \in deliveries}
    BY <1>4 DEF Consume, Columns
  <2> QED BY <1>4, <2>1 DEF Consume, Columns
<1>5. ASSUME NEW j \in Jobs, Add(j) PROVE Columns'
  BY <1>5, <1>E, ColumnsKept DEF Add
<1>6. ASSUME NEW j \in Jobs, EditRead(j) PROVE Columns'
  <2>1. PICK x \in Edited(j) : edit' = [op |-> x.op, id |-> j, seen |-> Snapshot(j), job |-> x.job]
    BY <1>6 DEF EditRead
  <2>2. edit'.op \in Operations
    BY <2>1, EditedOp
  <2> QED BY <1>6, <1>E, <2>2, ColumnsKept DEF EditRead
<1>7. ASSUME NEW j \in Jobs, RetryElapses(j) \/ LeaseElapses(j) \/ Stall(j) PROVE Columns'
  <2>1. leaseOver' \subseteq Jobs /\ retryOver' \subseteq Jobs
    BY <1>7 DEF RetryElapses, LeaseElapses, Stall, Columns
  <2> QED BY <1>7, <2>1 DEF RetryElapses, LeaseElapses, Stall, Columns
<1>8. ASSUME NEW s \in Slots, NEW j \in Jobs, Admit(s, j) PROVE Columns'
  <2>1. \E p \in {"claiming", "skipping"} : \E b :
          slot' = [slot EXCEPT ![s] = [phase |-> p, id |-> j, seen |-> Snapshot(j), job |-> b]]
    BY <1>8 DEF Admit
  <2>2. \A t \in Slots : slot'[t].phase \in Phases
    BY <2>1, PhaseKept DEF Phases
  <2> QED BY <1>8, <1>E, <2>2, ColumnsKept DEF Admit
<1>9. ASSUME NEW s \in Slots, Claim(s) PROVE Columns'
  <2>1. /\ UNCHANGED <<now, edit, deliveries, consumed, history>>
        /\ leaseOver' \subseteq Jobs /\ retryOver' \subseteq Jobs
        /\ \/ UNCHANGED <<claim, keys>>
           \/ keys' = keys + 1 /\ claim' = [claim EXCEPT ![slot[s].id] = keys + 1]
    BY <1>9 DEF Claim, Columns
  <2>2. \E v : slot' = [slot EXCEPT ![s] = v] /\ v.phase \in Phases
    <3>1. \/ slot' = [slot EXCEPT ![s] = [phase |-> "claimed", id |-> slot[s].id, job |-> slot[s].job,
                                          key |-> keys + 1]]
          \/ slot' = [slot EXCEPT ![s] = Idle]
      BY <1>9 DEF Claim, Retire
    <3> QED BY <1>I, <3>1 DEF Phases
  <2>3. \A t \in Slots : slot'[t].phase \in Phases
    BY <2>2, PhaseKept
  <2>4. \A j \in Jobs : claim'[j] <= keys'
    <3>1. ASSUME NEW j \in Jobs
          PROVE  claim'[j] = claim[j] \/ (claim'[j] = keys + 1 /\ keys' = keys + 1)
      BY <1>T, <2>1 DEF Types
    <3>2. keys \in Nat /\ claim \in [Jobs -> Nat] /\ (keys' = keys \/ keys' = keys + 1)
          /\ \A j \in Jobs : claim[j] <= keys
      BY <1>T, <2>1 DEF Types, Columns
    <3> QED BY <3>1, <3>2
  <2> QED BY <1>E, <2>1, <2>3, <2>4 DEF Columns
<1>10. ASSUME NEW s \in Slots, SkipMisfire(s) PROVE Columns'
  <2> DEFINE r == [occ |-> slot[s].seen.job.next, attempt |-> 0, status |-> "skipped"]
  <2>1. /\ UNCHANGED <<now, leaseOver, retryOver, claim, keys, edit, deliveries, consumed>>
        /\ slot' = [slot EXCEPT ![s] = Idle] /\ slot[s].phase = "skipping"
        /\ history' = history \/ history' = [history EXCEPT ![slot[s].id] = Append(@, r)]
    BY <1>10 DEF SkipMisfire, Retire, AppendHistory
  <2>2. slot[s].seen.job \in JobType
    BY <1>T, <2>1 DEF SlotOK
  <2>3. r \in Records
    BY <2>2 DEF Records, Statuses, JobType
  <2> HIDE DEF r
  <2>4. history' \in [Jobs -> Seq(Records)]
    BY <2>1, <2>3, HistoryTyped
  <2>5. \A t \in Slots : slot'[t].phase \in Phases
    BY <1>I, <2>1, PhaseKept
  <2> QED BY <1>E, <2>1, <2>4, <2>5 DEF Columns
<1>11. ASSUME NEW s \in Slots, StartSink(s) PROVE Columns'
  <2>1. \/ slot' = [slot EXCEPT ![s] = [phase |-> "sink", id |-> slot[s].id, job |-> slot[s].job,
                                        key |-> slot[s].key]]
        \/ slot' = [slot EXCEPT ![s] = Idle]
    BY <1>11, <1>T DEF StartSink, Types
  <2>2. \A t \in Slots : slot'[t].phase \in Phases
    BY <1>I, <2>1, PhaseKept DEF Phases
  <2> QED BY <1>11, <1>E, <2>2, ColumnsKept DEF StartSink
<1>12. ASSUME NEW s \in Slots, Sink(s) PROVE Columns'
  <2> DEFINE row == [key |-> DeliveryKey(slot[s].id, slot[s].job.pending), job |-> slot[s].id,
                     occ |-> slot[s].job.pending.occ, prompt |-> slot[s].job.prompt]
  <2>1. /\ UNCHANGED <<now, leaseOver, retryOver, claim, keys, edit, consumed, history>>
        /\ deliveries' = deliveries \/ deliveries' = deliveries \cup {row}
        /\ slot[s].phase = "sink"
    BY <1>12 DEF Sink
  <2>2. \E r \in Statuses :
          slot' = [slot EXCEPT ![s] = [phase |-> "sunk", id |-> slot[s].id, job |-> slot[s].job,
                     key |-> slot[s].key, result |-> r, at |-> now, tries |-> 0]]
    BY <1>12, <1>T DEF Sink, Types, Statuses
  <2>3. \A t \in Slots : slot'[t].phase \in Phases
    BY <2>2, PhaseKept DEF Phases
  <2>4. slot[s].id \in Jobs /\ slot[s].job.prompt \in Prompts
    BY <1>T, <2>1 DEF SlotOK, JobType, Types
  <2>5. row.job \in Jobs /\ row.prompt \in Prompts
    BY <2>4
  <2> HIDE DEF row
  <2>6. \A r \in deliveries' : r.job \in Jobs /\ r.prompt \in Prompts
    BY <2>1, <2>5 DEF Columns
  <2>7. consumed' \subseteq {r.key : r \in deliveries'}
    BY <2>1 DEF Columns
  <2> QED BY <1>E, <2>1, <2>3, <2>6, <2>7 DEF Columns
<1>13. ASSUME NEW s \in Slots, ReadCompleted(s) PROVE Columns'
  <2>1. \/ slot' = [slot EXCEPT ![s] = Idle]
        \/ slot' = [slot EXCEPT ![s] = [phase |-> "finishing", id |-> slot[s].id, job |-> slot[s].job,
                      key |-> slot[s].key, result |-> slot[s].result, at |-> slot[s].at,
                      tries |-> slot[s].tries + 1, seen |-> Snapshot(slot[s].id)]]
    BY <1>13, <1>T DEF ReadCompleted, Types
  <2>2. \A t \in Slots : slot'[t].phase \in Phases
    BY <1>I, <2>1, PhaseKept DEF Phases
  <2> QED BY <1>13, <1>E, <2>2, ColumnsKept DEF ReadCompleted
<1>14. ASSUME NEW s \in Slots, Finish(s) PROVE Columns'
  <2> DEFINE r == Record(slot[s].job.pending, slot[s].result)
  <2>1. /\ UNCHANGED <<now, keys, edit, deliveries, consumed>> /\ slot[s].phase = "finishing"
        /\ leaseOver' \subseteq Jobs /\ retryOver' \subseteq Jobs
        /\ claim' = claim \/ claim' = [claim EXCEPT ![slot[s].id] = 0]
        /\ history' = history \/ history' = [history EXCEPT ![slot[s].id] = Append(@, r)]
    BY <1>14 DEF Finish, AppendHistory, Columns
  <2>2. \/ slot' = [slot EXCEPT ![s] = Idle]
        \/ slot' = [slot EXCEPT ![s] = [phase |-> "sunk", id |-> slot[s].id, job |-> slot[s].job,
                      key |-> slot[s].key, result |-> slot[s].result, at |-> slot[s].at,
                      tries |-> slot[s].tries]]
    BY <1>14, <1>T DEF Finish, Retire, Types
  <2>3. \A t \in Slots : slot'[t].phase \in Phases
    BY <1>I, <2>2, PhaseKept DEF Phases
  <2>4. r \in Records
    BY <1>T, <2>1 DEF SlotOK, JobType, Attempts, Record, Records
  <2> HIDE DEF r
  <2>5. history' \in [Jobs -> Seq(Records)]
    BY <2>1, <2>4, HistoryTyped
  <2>6. \A j \in Jobs : claim'[j] <= keys
    BY <1>T, <2>1, ClaimReleased
  <2> QED BY <1>E, <2>1, <2>3, <2>5, <2>6 DEF Columns
<1>15. ASSUME NEW s \in Slots, LoseRenewal(s) PROVE Columns'
  <2>1. \A t \in Slots : slot'[t].phase \in Phases
    BY <1>15, <1>I, PhaseKept DEF LoseRenewal, Retire
  <2> QED BY <1>15, <1>E, <2>1, ColumnsKept DEF LoseRenewal
<1>16. ASSUME NEW s \in Slots, Crash(s) PROVE Columns'
  <2>1. \A t \in Slots : slot'[t].phase \in Phases
    BY <1>16, <1>E, <1>I DEF Crash
  <2> QED BY <1>16, <1>E, <2>1, ColumnsKept DEF Crash
<1>17. CASE UNCHANGED vars
  BY <1>17, <1>E, ColumnsKept DEF vars
<1> QED
  BY <1>1, <1>2, <1>3, <1>4, <1>5, <1>6, <1>7, <1>8, <1>9, <1>10, <1>11, <1>12, <1>13,
     <1>14, <1>15, <1>16, <1>17 DEF Next, Step

\* The job table, the slots, the deliveries and the audit records keep their
\* types: no compare-and-swap, edit or restart stores a malformed job, a claim
\* key that was never drawn or a consumed key without its delivery.
THEOREM SchedulerTyped == Spec => []TypeOK
<1>1. Init => Columns
  BY SchedulerAssumption DEF Init, Columns, Idle, NoEdit, Phases, Operations
<1>2. Rows /\ Columns => TypeOK
  <2> SUFFICES ASSUME Rows, Columns PROVE TypeOK
    OBVIOUS
  <2>1. claim \in [Jobs -> 0..keys]
    BY DEF Rows, Types, Columns
  <2>2. \A j \in Jobs : \A i \in DOMAIN history[j] : history[j][i] \in Records
    <3> SUFFICES ASSUME NEW j \in Jobs, NEW i \in DOMAIN history[j] PROVE history[j][i] \in Records
      OBVIOUS
    <3>1. history[j] \in Seq(Records)
      BY DEF Columns
    <3> QED BY <3>1
  <2> QED BY <2>1, <2>2 DEF TypeOK, Rows, Types, Columns, Phases, Operations
<1> QED BY RowsInit, RowsStep, ColumnsStep, <1>1, <1>2, PTL DEF Spec
=============================================================================
