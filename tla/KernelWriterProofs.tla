------------------------- MODULE KernelWriterProofs -------------------------
(***************************************************************************)
(* The safety properties of KernelWriter for any number of callers,        *)
(* requests and commands and for every bound.                              *)
(***************************************************************************)
EXTENDS KernelWriter, SequenceTheorems, TLAPS

USE DEF writerVars

(***************************************************************************)
(* The strengthening                                                       *)
(***************************************************************************)
\* Request r took effect as command m at position p in database d.
Found(d, r, m, p) ==
  \E i \in DOMAIN d.effects : d.effects[i] = [req |-> r, cmd |-> m, pos |-> p]

\* Effects and receipts describe each other, and positions increase.
EffectsReceipted(d) ==
  \A i \in DOMAIN d.effects :
     /\ d.effects[i].pos[1] >= 1 /\ d.effects[i].pos[1] <= d.seq
     /\ d.receipts[d.effects[i].req] = [cmd |-> d.effects[i].cmd, pos |-> d.effects[i].pos]

EffectsOrdered(d) ==
  \A i, j \in DOMAIN d.effects : i < j => Before(d.effects[i].pos, d.effects[j].pos)

ReceiptsFound(d) ==
  \A r \in Requests : d.receipts[r] # NoReceipt =>
     Found(d, r, d.receipts[r].cmd, d.receipts[r].pos)

DatabaseOK(d) == EffectsReceipted(d) /\ EffectsOrdered(d) /\ ReceiptsFound(d)

\* e begins with everything d has.
Extends(e, d) ==
  /\ Len(d.effects) <= Len(e.effects)
  /\ \A i \in DOMAIN d.effects : e.effects[i] = d.effects[i]

\* The transaction adds to the committed database, at its own sequence only.
TransactionOK ==
  /\ DatabaseOK(db) /\ DatabaseOK(tx) /\ Extends(tx, db)
  /\ stage = "executing" =>
        /\ tx.seq = db.seq + 1
        /\ \A i \in DOMAIN tx.effects :
              \/ i <= Len(db.effects)
              \/ tx.effects[i].pos[1] = tx.seq /\ tx.effects[i].pos[2] < Len(results)
  /\ stage # "executing" => tx = db

BatchOK ==
  /\ stage \in {"publishing", "answering"} => Len(results) = Len(batch)
  /\ stage \in {"idle", "ended"} => Len(batch) = 0

\* A caller that sends names a request and a command.
AskedOK ==
  \A c \in Callers : caller[c].phase \in {"ready", "waiting"} =>
     caller[c].req \in Requests /\ caller[c].cmd \in Commands

ResultsFound ==
  \A i \in DOMAIN results : results[i].kind = "ok" =>
     Found(tx, batch[i].req, batch[i].cmd, results[i].pos)

\* A pending command and its caller agree.
Expected(cl, p) ==
  p.to # NoCaller => /\ cl[p.to].phase = "waiting"
                     /\ cl[p.to].req = p.req /\ cl[p.to].cmd = p.cmd

Distinct(q) == \A i, j \in DOMAIN q : q[i].to = q[j].to /\ q[i].to # NoCaller => i = j

Apart(q, b) == \A i \in DOMAIN q, j \in DOMAIN b : q[i].to = b[j].to => q[i].to = NoCaller

PendingOK ==
  /\ \A i \in DOMAIN queue : Expected(caller, queue[i])
  /\ \A i \in DOMAIN batch : Expected(caller, batch[i])
  /\ Distinct(queue) /\ Distinct(batch) /\ Apart(queue, batch)

CallersOK ==
  \A c \in Callers :
     /\ caller[c].phase \in {"ready", "waiting"} => caller[c].last.kind # "ok"
     /\ caller[c].last.kind = "ok" =>
           Found(db, caller[c].req, caller[c].cmd, caller[c].last.pos)

PublishedBelow ==
  \A i \in DOMAIN published :
     \/ published[i][1] < db.seq
     \/ published[i][1] = db.seq /\ (stage = "publishing" => published[i][2] < shown)

(***************************************************************************)
(* Facts about sequences and databases                                     *)
(***************************************************************************)
LEMMA FunctionSeq ==
  ASSUME NEW S, NEW n \in Nat, NEW f \in [1..n -> S]
  PROVE  f \in Seq(S) /\ Len(f) = n /\ DOMAIN f = 1..n
BY IsASeq

LEMMA DesertedSeq ==
  ASSUME NEW q \in Seq(Pendings), NEW c
  PROVE  /\ Deserted(q, c) \in Seq(Pendings)
         /\ Len(Deserted(q, c)) = Len(q)
         /\ DOMAIN Deserted(q, c) = DOMAIN q
         /\ \A i \in DOMAIN q :
               /\ Deserted(q, c)[i].req = q[i].req /\ Deserted(q, c)[i].cmd = q[i].cmd
               /\ Deserted(q, c)[i].to = IF q[i].to = c THEN NoCaller ELSE q[i].to
<1>1. Len(q) \in Nat /\ DOMAIN q = 1..Len(q) /\ \A i \in 1..Len(q) : q[i] \in Pendings
  OBVIOUS
<1>2. \A p \in Pendings : [p EXCEPT !.to = NoCaller] \in Pendings
  BY DEF Pendings
<1>3. Deserted(q, c) \in [1..Len(q) -> Pendings]
  BY <1>1, <1>2 DEF Deserted
<1>4. \A i \in DOMAIN q : Deserted(q, c)[i] = IF q[i].to = c THEN [q[i] EXCEPT !.to = NoCaller] ELSE q[i]
  BY DEF Deserted
<1>5. \A p \in Pendings : [p EXCEPT !.to = NoCaller] = [req |-> p.req, cmd |-> p.cmd, to |-> NoCaller]
  BY DEF Pendings
<1> HIDE DEF Deserted
<1>6. ASSUME NEW i \in DOMAIN q
      PROVE  /\ Deserted(q, c)[i].req = q[i].req /\ Deserted(q, c)[i].cmd = q[i].cmd
             /\ Deserted(q, c)[i].to = IF q[i].to = c THEN NoCaller ELSE q[i].to
  BY <1>1, <1>4, <1>5
<1> QED BY <1>1, <1>3, <1>6, FunctionSeq

LEMMA TailSeq ==
  ASSUME NEW S, NEW q \in Seq(S), q # <<>>
  PROVE  /\ Tail(q) \in Seq(S) /\ Len(Tail(q)) = Len(q) - 1 /\ Head(q) = q[1]
         /\ Len(q) >= 1 /\ DOMAIN Tail(q) = 1..(Len(q) - 1)
         /\ \A i \in 1..(Len(q) - 1) : Tail(q)[i] = q[i + 1] /\ i + 1 \in DOMAIN q
         /\ 1 \in DOMAIN q
OBVIOUS

LEMMA AnswerType ==
  ASSUME NEW k \in Kinds, NEW q \in Positions
  PROVE  /\ Answer(k, q) \in Answers /\ Answer(k, q).kind = k /\ Answer(k, q).pos = q
BY DEF Answer, Answers

LEMMA NoPosType == NoPos \in Positions
BY DEF NoPos, Positions

CallerType ==
  [phase : {"idle", "ready", "waiting", "done"}, req : Requests \cup {"none"},
   cmd : Commands \cup {"none"}, last : Answers]

\* What an answer does to the callers.
LEMMA TellEffect ==
  ASSUME TypeOK, NEW c \in Callers \cup {NoCaller}, NEW a \in Answers, Tell(c, a)
  PROVE  /\ caller' \in [Callers -> CallerType]
         /\ \A d \in Callers :
              IF d = c /\ c # NoCaller
              THEN /\ caller'[d].req = caller[d].req /\ caller'[d].cmd = caller[d].cmd
                   /\ caller'[d].last = a
                   /\ caller'[d].phase = IF a.kind \in Transient THEN "ready" ELSE "done"
              ELSE caller'[d] = caller[d]
<1>1. caller \in [Callers -> CallerType]
  BY DEF TypeOK, CallerType
<1>2. CASE c = NoCaller
  BY <1>1, <1>2 DEF Tell
<1>3. CASE c # NoCaller
  <2> DEFINE r == [phase |-> IF a.kind \in Transient THEN "ready" ELSE "done",
                   req |-> caller[c].req, cmd |-> caller[c].cmd, last |-> a]
  <2>1. c \in Callers
    BY <1>3
  <2>2. r \in CallerType
    BY <1>1, <2>1 DEF CallerType
  <2>3. caller' = [caller EXCEPT ![c] = r]
    BY <1>3 DEF Tell
  <2>4. /\ r.req = caller[c].req /\ r.cmd = caller[c].cmd /\ r.last = a
        /\ r.phase = IF a.kind \in Transient THEN "ready" ELSE "done"
    OBVIOUS
  <2> HIDE DEF r
  <2> QED BY <1>1, <1>3, <2>1, <2>2, <2>3, <2>4
<1> QED BY <1>2, <1>3

\* The results of an aborted batch and of a failed COMMIT.
LEMMA WithdrawnType ==
  ASSUME TypeOK, NEW e \in Kinds \ {"ok"}
  PROVE  /\ Aborted(e) \in Seq(Answers) /\ Len(Aborted(e)) = Len(batch)
         /\ \A i \in DOMAIN batch : Aborted(e)[i].kind = "ok" =>
               /\ i \in DOMAIN results /\ results[i].kind = "ok"
               /\ results[i].pos[1] # tx.seq /\ Aborted(e)[i] = results[i]
         /\ Len(results) = Len(batch) =>
               /\ Failed(e) \in Seq(Answers) /\ Len(Failed(e)) = Len(batch)
               /\ \A i \in DOMAIN batch : Failed(e)[i].kind = "ok" =>
                     /\ i \in DOMAIN results /\ results[i].kind = "ok"
                     /\ results[i].pos[1] # tx.seq /\ Failed(e)[i] = results[i]
<1>1. /\ batch \in Seq(Pendings) /\ results \in Seq(Answers) /\ Len(results) <= Len(batch)
      /\ Answer(e, NoPos) \in Answers /\ Answer(e, NoPos).kind # "ok"
  BY AnswerType, NoPosType DEF TypeOK
<1>2. /\ Len(batch) \in Nat /\ DOMAIN batch = 1..Len(batch)
      /\ Len(results) \in Nat /\ DOMAIN results = 1..Len(results)
      /\ \A i \in 1..Len(results) : results[i] \in Answers
  BY <1>1
<1> HIDE DEF Answers
<1>3. \A i \in DOMAIN batch :
         Aborted(e)[i] = IF i <= Len(results) /\ results[i].kind = "ok" /\ ~Fresh(results[i])
                         THEN results[i] ELSE Answer(e, NoPos)
  BY DEF Aborted
<1>4. Aborted(e) \in [1..Len(batch) -> Answers]
  BY <1>1, <1>2 DEF Aborted
<1>5. ASSUME NEW i \in DOMAIN batch, Aborted(e)[i].kind = "ok"
      PROVE  /\ i \in DOMAIN results /\ results[i].kind = "ok"
             /\ results[i].pos[1] # tx.seq /\ Aborted(e)[i] = results[i]
  BY <1>1, <1>2, <1>3, <1>5 DEF Fresh
<1>6. ASSUME Len(results) = Len(batch)
      PROVE  /\ Failed(e) \in [1..Len(batch) -> Answers]
             /\ \A i \in DOMAIN batch : Failed(e)[i].kind = "ok" =>
                     /\ i \in DOMAIN results /\ results[i].kind = "ok"
                     /\ results[i].pos[1] # tx.seq /\ Failed(e)[i] = results[i]
  <2>1. \A i \in DOMAIN batch :
           Failed(e)[i] = IF Fresh(results[i]) THEN Answer(e, NoPos) ELSE results[i]
    BY DEF Failed
  <2>2. Failed(e) \in [1..Len(batch) -> Answers]
    BY <1>1, <1>2, <1>6 DEF Failed
  <2>3. ASSUME NEW i \in DOMAIN batch, Failed(e)[i].kind = "ok"
        PROVE  /\ i \in DOMAIN results /\ results[i].kind = "ok"
               /\ results[i].pos[1] # tx.seq /\ Failed(e)[i] = results[i]
    BY <1>1, <1>2, <1>6, <2>1, <2>3 DEF Fresh
  <2> QED BY <2>2, <2>3
<1>7. Aborted(e) \in Seq(Answers) /\ Len(Aborted(e)) = Len(batch)
  BY <1>2, <1>4, FunctionSeq
<1>8. ASSUME Len(results) = Len(batch)
      PROVE  Failed(e) \in Seq(Answers) /\ Len(Failed(e)) = Len(batch)
  <2>1. Failed(e) \in [1..Len(batch) -> Answers]
    BY <1>6, <1>8
  <2> QED BY <1>2, <2>1, FunctionSeq
<1> QED BY <1>5, <1>6, <1>7, <1>8

LEMMA ConcludeType ==
  ASSUME TypeOK, NEW rs \in Seq(Answers), NEW r \in {"open", "closed"}, Conclude(rs, r)
  PROVE  /\ results' = rs /\ stage' = "answering" /\ fatal' \in {"no", "yes"}
         /\ admission' \in {"open", "closed"} /\ reads' \in {"open", "closed"}
BY DEF Conclude, TypeOK

\* The transaction after a command took effect.
LEMMA ApplyEffect ==
  ASSUME TypeOK, NEW p \in Pendings, Apply(p)
  PROVE  /\ tx' \in Databases /\ tx'.seq = tx.seq
         /\ tx'.effects = Append(tx.effects, [req |-> p.req, cmd |-> p.cmd, pos |-> Position])
         /\ tx'.receipts = [tx.receipts EXCEPT ![p.req] = [cmd |-> p.cmd, pos |-> Position]]
         /\ Position \in Positions
<1>1. tx \in Databases /\ Len(results) \in Nat
  BY DEF TypeOK
<1>2. Position \in Positions
  BY <1>1 DEF Position, Positions, Databases
<1>3. tx' = [seq |-> tx.seq,
             effects |-> Append(tx.effects, [req |-> p.req, cmd |-> p.cmd, pos |-> Position]),
             receipts |-> [tx.receipts EXCEPT ![p.req] = [cmd |-> p.cmd, pos |-> Position]]]
  BY <1>1 DEF Apply, Databases
<1>4. [req |-> p.req, cmd |-> p.cmd, pos |-> Position] \in Effects
  BY <1>2 DEF Effects, Pendings
<1>5. Append(tx.effects, [req |-> p.req, cmd |-> p.cmd, pos |-> Position]) \in Seq(Effects)
  BY <1>1, <1>4 DEF Databases
<1>6. [cmd |-> p.cmd, pos |-> Position] \in [cmd : Commands \cup {"none"}, pos : Positions]
  BY <1>2 DEF Pendings
<1>7. [tx.receipts EXCEPT ![p.req] = [cmd |-> p.cmd, pos |-> Position]]
        \in [Requests -> [cmd : Commands \cup {"none"}, pos : Positions]]
  BY <1>1, <1>6 DEF Databases, Pendings
<1> QED BY <1>1, <1>2, <1>3, <1>5, <1>7 DEF Databases

(***************************************************************************)
(* Types                                                                   *)
(***************************************************************************)
CallerOK == caller \in [Callers -> CallerType]

QueuesOK ==
  /\ queue \in Seq(Pendings) /\ batch \in Seq(Pendings) /\ results \in Seq(Answers)
  /\ Len(results) <= Len(batch)

ModesOK ==
  /\ admission \in {"open", "closed"} /\ reads \in {"open", "closed"} /\ fatal \in {"no", "yes"}
  /\ stage \in {"idle", "executing", "publishing", "answering", "ended"}

StoreOK == db \in Databases /\ tx \in Databases

CountsOK == shown \in Nat /\ published \in Seq(Positions) /\ faults \in Nat /\ begins \in Nat

LEMMA TypeSplit == TypeOK <=> CallerOK /\ QueuesOK /\ ModesOK /\ StoreOK /\ CountsOK
BY DEF TypeOK, CallerOK, CallerType, QueuesOK, ModesOK, StoreOK, CountsOK

LEMMA TypeInit == Init => TypeOK /\ BatchOK /\ AskedOK
<1> SUFFICES ASSUME Init PROVE TypeOK /\ BatchOK /\ AskedOK
  OBVIOUS
<1>1. EmptyDb \in Databases
  <2>1. NoReceipt \in [cmd : Commands \cup {"none"}, pos : Positions]
    BY NoPosType DEF NoReceipt, NoPos
  <2> QED BY <2>1 DEF EmptyDb, Databases
<1>2. Answer("none", NoPos) \in Answers
  BY AnswerType, NoPosType DEF Kinds
<1>3. CallerOK
  BY <1>2 DEF Init, CallerOK, CallerType
<1>4. QueuesOK /\ ModesOK /\ CountsOK /\ BatchOK /\ AskedOK
  BY DEF Init, AskedOK, QueuesOK, ModesOK, CountsOK, BatchOK
<1> QED BY <1>1, <1>3, <1>4, TypeSplit DEF Init, StoreOK

LEMMA SurvivorType ==
  ASSUME TypeOK
  PROVE  Survives \subseteq Databases
BY DEF TypeOK, Survives

Typed == TypeOK /\ BatchOK /\ AskedOK

\* What a caller-free step leaves alone.
LEMMA CallersKept ==
  ASSUME CallerOK, AskedOK, UNCHANGED caller
  PROVE  CallerOK' /\ AskedOK'
BY DEF CallerOK, AskedOK

LEMMA CallersTold ==
  ASSUME Typed, NEW c \in Callers \cup {NoCaller}, NEW a \in Answers, Tell(c, a),
         c # NoCaller => caller[c].req \in Requests /\ caller[c].cmd \in Commands
  PROVE  CallerOK' /\ AskedOK'
<1>1. CallerOK'
  BY TellEffect DEF CallerOK, Typed
<1>2. ASSUME NEW d \in Callers, caller'[d].phase \in {"ready", "waiting"}
      PROVE  caller'[d].req \in Requests /\ caller'[d].cmd \in Commands
  BY <1>2, TellEffect DEF Typed, AskedOK
<1> QED BY <1>1, <1>2 DEF AskedOK

LEMMA TypeStep ==
  ASSUME Typed, [Next]_vars, PendingOK
  PROVE  Typed'
<1>0. /\ CallerOK /\ QueuesOK /\ ModesOK /\ StoreOK /\ CountsOK /\ BatchOK /\ AskedOK /\ TypeOK
  BY TypeSplit DEF Typed
<1>a. ASSUME CallerOK', QueuesOK', ModesOK', StoreOK', CountsOK', BatchOK', AskedOK' PROVE Typed'
  BY <1>a DEF Typed, TypeOK, CallerOK, CallerType, QueuesOK, ModesOK, StoreOK, CountsOK
<1>b. /\ "none" \in Kinds /\ "ok" \in Kinds /\ "conflict" \in Kinds /\ "refused" \in Kinds
      /\ "storage" \in Kinds /\ "unknown" \in Kinds /\ "busy" \in Kinds /\ "closed" \in Kinds
  BY DEF Kinds
<1>c. \A k \in Kinds : Answer(k, NoPos) \in Answers
  BY AnswerType, NoPosType
<1>1. ASSUME NEW c \in Callers, Begin(c) PROVE Typed'
  <2>1. PICK r \in Requests, m \in Commands :
          caller' = [caller EXCEPT ![c] = [phase |-> "ready", req |-> r, cmd |-> m,
                                           last |-> Answer("none", NoPos)]]
    BY <1>1 DEF Begin
  <2>2. CallerOK' /\ AskedOK'
    BY <1>0, <1>b, <1>c, <2>1 DEF CallerOK, CallerType, AskedOK
  <2>3. QueuesOK' /\ ModesOK' /\ StoreOK' /\ CountsOK' /\ BatchOK'
    BY <1>0, <1>1 DEF Begin, QueuesOK, ModesOK, StoreOK, CountsOK, BatchOK
  <2> QED BY <1>a, <2>2, <2>3
<1>2. ASSUME NEW c \in Callers, Submit(c) PROVE Typed'
  <2>1. ModesOK' /\ StoreOK' /\ CountsOK' /\ BatchOK'
    BY <1>0, <1>2 DEF Submit, ModesOK, StoreOK, CountsOK, BatchOK
  <2>a. caller[c].req \in Requests /\ caller[c].cmd \in Commands /\ caller[c].phase = "ready"
    BY <1>0, <1>2 DEF Submit, AskedOK
  <2>2. ASSUME NEW k \in {"closed", "busy"}, Tell(c, Answer(k, NoPos)), UNCHANGED queue
        PROVE  CallerOK' /\ AskedOK' /\ QueuesOK'
    <3>1. CallerOK' /\ AskedOK'
      BY <1>b, <1>c, <2>a, <2>2, CallersTold
    <3>2. QueuesOK'
      BY <1>0, <1>2, <2>2 DEF Submit, QueuesOK
    <3> QED BY <3>1, <3>2
  <2>3. ASSUME queue' = Append(queue, [req |-> caller[c].req, cmd |-> caller[c].cmd, to |-> c]),
               caller' = [caller EXCEPT ![c].phase = "waiting"]
        PROVE  CallerOK' /\ AskedOK' /\ QueuesOK'
    <3>1. CallerOK' /\ AskedOK'
      BY <1>0, <2>a, <2>3 DEF CallerOK, CallerType, AskedOK
    <3>2. QueuesOK'
      BY <1>0, <1>2, <2>a, <2>3 DEF Submit, QueuesOK, Pendings
    <3> QED BY <3>1, <3>2
  <2> QED BY <1>a, <1>2, <2>1, <2>2, <2>3 DEF Submit
<1>3. ASSUME NEW c \in Callers, GiveUp(c) PROVE Typed'
  <2>1. CallerOK' /\ AskedOK'
    BY <1>0, <1>3 DEF GiveUp, CallerOK, CallerType, AskedOK
  <2>2. QueuesOK' /\ Len(batch') = Len(batch)
    BY <1>0, <1>3, DesertedSeq DEF GiveUp, QueuesOK
  <2>3. ModesOK' /\ StoreOK' /\ CountsOK' /\ BatchOK'
    BY <1>0, <1>3, <2>2 DEF GiveUp, ModesOK, StoreOK, CountsOK, BatchOK
  <2> QED BY <1>a, <2>1, <2>2, <2>3
<1>4. CASE TakeBatch
  <2>1. PICK n \in 1..Len(queue) : /\ batch' = SubSeq(queue, 1, n)
                                   /\ queue' = SubSeq(queue, n + 1, Len(queue))
    BY <1>4 DEF TakeBatch
  <2>2. QueuesOK'
    BY <1>0, <1>4, <2>1 DEF TakeBatch, QueuesOK
  <2>3. StoreOK'
    <3>1. tx' = [seq |-> db.seq + 1, effects |-> db.effects, receipts |-> db.receipts]
      BY <1>0, <1>4 DEF TakeBatch, StoreOK, Databases
    <3>2. /\ db.seq + 1 \in Nat /\ db.effects \in Seq(Effects)
          /\ db.receipts \in [Requests -> [cmd : Commands \cup {"none"}, pos : Positions]]
      BY <1>0 DEF StoreOK, Databases
    <3>3. tx' \in Databases
      BY <3>1, <3>2, Zenon DEF Databases
    <3> QED BY <1>0, <1>4, <3>3 DEF TakeBatch, StoreOK
  <2>4. CallerOK' /\ AskedOK' /\ ModesOK' /\ CountsOK' /\ BatchOK'
    BY <1>0, <1>4, CallersKept DEF TakeBatch, ModesOK, CountsOK, BatchOK
  <2> QED BY <1>a, <2>2, <2>3, <2>4
<1>5. CASE Execute
  <2>1. PICK p : p = batch[Len(results) + 1]
    OBVIOUS
  <2>2. p \in Pendings
    BY <1>0, <1>5, <2>1 DEF Execute, QueuesOK
  <2>3. Position \in Positions
    BY <1>0 DEF Position, Positions, StoreOK, Databases, QueuesOK
  <2>4. Replay(p) \in Answers
    <3>1. tx.receipts[p.req].pos \in Positions
      BY <1>0, <2>2 DEF StoreOK, Databases, Pendings
    <3> QED BY <1>b, <1>c, <3>1, AnswerType DEF Replay
  <2>5. PICK a \in Answers : results' = Append(results, a) /\ (UNCHANGED tx \/ Apply(p))
    BY <1>5, <1>b, <1>c, <2>1, <2>3, <2>4, AnswerType DEF Execute
  <2>6. QueuesOK'
    BY <1>0, <1>5, <2>5 DEF Execute, QueuesOK
  <2>7. StoreOK'
    BY <1>0, <1>5, <2>2, <2>5, ApplyEffect DEF Execute, StoreOK
  <2>8. CallerOK' /\ AskedOK' /\ ModesOK' /\ CountsOK' /\ BatchOK'
    BY <1>0, <1>5, CallersKept DEF Execute, ModesOK, CountsOK, BatchOK
  <2> QED BY <1>a, <2>6, <2>7, <2>8
<1>19. CASE ExecuteFails
  <2>1. QueuesOK'
    BY <1>0, <1>19, <1>b, <1>c DEF ExecuteFails, QueuesOK
  <2>2. CallerOK' /\ AskedOK' /\ ModesOK' /\ CountsOK' /\ BatchOK' /\ StoreOK'
    BY <1>0, <1>19, CallersKept DEF ExecuteFails, Fault, ModesOK, CountsOK, BatchOK, StoreOK
  <2> QED BY <1>a, <2>1, <2>2
<1>6. CASE AbortBatch
  <2>1. PICK e \in {"storage", "closed"} : Conclude(Aborted(e), reads)
    BY <1>6 DEF AbortBatch
  <2>2. Aborted(e) \in Seq(Answers) /\ Len(Aborted(e)) = Len(batch)
    BY <1>0, <1>b, WithdrawnType
  <2>3. QueuesOK' /\ ModesOK' /\ BatchOK'
    BY <1>0, <1>6, <2>1, <2>2, ConcludeType DEF AbortBatch, QueuesOK, ModesOK, BatchOK
  <2>4. CallerOK' /\ AskedOK' /\ StoreOK' /\ CountsOK'
    BY <1>0, <1>6, CallersKept DEF AbortBatch, Fault, StoreOK, CountsOK
  <2> QED BY <1>a, <2>3, <2>4
<1>7. CASE CommitOk
  BY <1>0, <1>7, <1>a, CallersKept
     DEF CommitOk, Executed, QueuesOK, ModesOK, StoreOK, CountsOK, BatchOK
<1>8. CASE CommitRejected
  <2>2. Failed("storage") \in Seq(Answers) /\ Len(Failed("storage")) = Len(batch)
    BY <1>0, <1>8, <1>b, WithdrawnType DEF CommitRejected, Executed
  <2>3. QueuesOK' /\ ModesOK' /\ BatchOK'
    BY <1>0, <1>8, <2>2, ConcludeType DEF CommitRejected, QueuesOK, ModesOK, BatchOK
  <2>4. CallerOK' /\ AskedOK' /\ StoreOK' /\ CountsOK'
    BY <1>0, <1>8, CallersKept DEF CommitRejected, Fault, StoreOK, CountsOK
  <2> QED BY <1>a, <2>3, <2>4
<1>9. CASE CommitUnknown
  <2>2. Failed("unknown") \in Seq(Answers) /\ Len(Failed("unknown")) = Len(batch)
    BY <1>0, <1>9, <1>b, WithdrawnType DEF CommitUnknown, Executed
  <2>3. QueuesOK' /\ ModesOK' /\ BatchOK'
    BY <1>0, <1>9, <2>2, ConcludeType DEF CommitUnknown, QueuesOK, ModesOK, BatchOK
  <2>4. CallerOK' /\ AskedOK' /\ StoreOK' /\ CountsOK'
    BY <1>0, <1>9, CallersKept DEF CommitUnknown, Fault, StoreOK, CountsOK
  <2> QED BY <1>a, <2>3, <2>4
<1>10. CASE Publish
  <2>1. CountsOK'
    <3>1. CASE shown < Len(results)
      <4>1. results[shown + 1] \in Answers
        BY <1>0, <3>1 DEF QueuesOK, CountsOK
      <4>2. results[shown + 1].pos \in Positions
        BY <4>1 DEF Answers
      <4> QED BY <1>0, <1>10, <3>1, <4>2 DEF Publish, CountsOK
    <3>2. CASE ~(shown < Len(results))
      BY <1>0, <1>10, <3>2 DEF Publish, CountsOK
    <3> QED BY <3>1, <3>2
  <2>2. CallerOK' /\ AskedOK' /\ QueuesOK' /\ ModesOK' /\ StoreOK' /\ BatchOK'
    BY <1>0, <1>10, CallersKept DEF Publish, QueuesOK, ModesOK, StoreOK, BatchOK
  <2> QED BY <1>a, <2>1, <2>2
<1>11. CASE Respond
  <2>1. ModesOK' /\ StoreOK' /\ CountsOK'
    BY <1>0, <1>11 DEF Respond, ModesOK, StoreOK, CountsOK
  <2>2. CASE batch = <<>>
    BY <1>0, <1>11, <1>a, <2>1, <2>2, CallersKept DEF Respond, QueuesOK, BatchOK
  <2>3. CASE batch # <<>>
    <3>1. Len(results) = Len(batch) /\ results # <<>> /\ stage' = stage /\ stage = "answering"
      BY <1>0, <1>11, <2>3 DEF Respond, BatchOK, QueuesOK
    <3>2. batch[1] \in Pendings /\ Head(batch) = batch[1] /\ Head(results) \in Answers /\ 1 \in DOMAIN batch
      BY <1>0, <2>3, <3>1, TailSeq DEF QueuesOK
    <3>3. CallerOK' /\ AskedOK'
      <4>1. Tell(batch[1].to, Head(results)) /\ batch[1].to \in Callers \cup {NoCaller}
        BY <1>11, <2>3, <3>2 DEF Respond, Pendings
      <4>2. batch[1].to # NoCaller => caller[batch[1].to].req \in Requests /\ caller[batch[1].to].cmd \in Commands
        BY <3>2 DEF PendingOK, Expected, Pendings
      <4> QED BY <3>2, <4>1, <4>2, CallersTold
    <3>4. QueuesOK' /\ Len(batch') = Len(results')
      <4>1. batch' = Tail(batch) /\ results' = Tail(results) /\ queue' = queue
        BY <1>11, <2>3 DEF Respond
      <4>2. batch' \in Seq(Pendings) /\ Len(batch') = Len(batch) - 1
        BY <1>0, <2>3, <4>1, TailSeq DEF QueuesOK
      <4>3. results' \in Seq(Answers) /\ Len(results') = Len(batch) - 1
        BY <1>0, <3>1, <4>1, TailSeq DEF QueuesOK
      <4> QED BY <1>0, <4>1, <4>2, <4>3 DEF QueuesOK
    <3> QED BY <1>a, <2>1, <3>1, <3>3, <3>4 DEF BatchOK
  <2> QED BY <2>2, <2>3
<1>12. CASE Drain
  <2>1. queue[1] \in Pendings /\ Head(queue) = queue[1] /\ 1 \in DOMAIN queue /\ queue' \in Seq(Pendings)
    BY <1>0, <1>12, TailSeq DEF Drain, QueuesOK
  <2>2. Tell(queue[1].to, Answer("closed", NoPos)) /\ queue[1].to \in Callers \cup {NoCaller}
    BY <1>12, <2>1 DEF Drain, Pendings
  <2>3. queue[1].to # NoCaller => caller[queue[1].to].req \in Requests /\ caller[queue[1].to].cmd \in Commands
    BY <2>1 DEF PendingOK, Expected, Pendings
  <2>4. CallerOK' /\ AskedOK'
    BY <1>b, <1>c, <2>2, <2>3, CallersTold
  <2>5. QueuesOK' /\ ModesOK' /\ StoreOK' /\ CountsOK' /\ BatchOK'
    BY <1>0, <1>12, <2>1 DEF Drain, QueuesOK, ModesOK, StoreOK, CountsOK, BatchOK
  <2> QED BY <1>a, <2>4, <2>5
<1>13. CASE Shutdown
  BY <1>0, <1>13, <1>a, CallersKept
     DEF Shutdown, Fault, QueuesOK, ModesOK, StoreOK, CountsOK, BatchOK
<1>14. CASE End
  BY <1>0, <1>14, <1>a, CallersKept DEF End, QueuesOK, ModesOK, StoreOK, CountsOK, BatchOK
<1>15. CASE Reopen
  BY <1>0, <1>15, <1>a, CallersKept
     DEF Reopen, Fresher, QueuesOK, ModesOK, StoreOK, CountsOK, BatchOK
<1>16. CASE Crash
  <2>1. CallerOK' /\ AskedOK'
    BY <1>0, <1>16 DEF Crash, CallerOK, CallerType, AskedOK
  <2>2. StoreOK'
    BY <1>0, <1>16, SurvivorType DEF Crash, StoreOK
  <2>3. QueuesOK' /\ ModesOK' /\ CountsOK' /\ BatchOK'
    BY <1>0, <1>16 DEF Crash, Fresher, Fault, QueuesOK, ModesOK, CountsOK, BatchOK
  <2> QED BY <1>a, <2>1, <2>2, <2>3
<1>17. CASE WriterLost
  <2>1. CallerOK' /\ AskedOK'
    BY <1>0, <1>17, <1>b, <1>c DEF WriterLost, CallerOK, CallerType, AskedOK
  <2>2. StoreOK'
    BY <1>0, <1>17, SurvivorType DEF WriterLost, StoreOK
  <2>3. QueuesOK' /\ ModesOK' /\ CountsOK' /\ BatchOK'
    <3>1. /\ stage' = "ended" /\ admission' = "closed" /\ queue' = <<>> /\ batch' = <<>>
          /\ results' = <<>> /\ faults' = faults + 1
          /\ UNCHANGED <<reads, fatal, shown, published, begins>>
      BY <1>17, Zenon DEF WriterLost, Fault
    <3> QED BY <1>0, <3>1 DEF QueuesOK, ModesOK, CountsOK, BatchOK
  <2> QED BY <1>a, <2>1, <2>2, <2>3
<1>18. CASE UNCHANGED vars
  BY <1>0, <1>18, <1>a, CallersKept DEF vars, QueuesOK, ModesOK, StoreOK, CountsOK, BatchOK
<1> QED BY <1>1, <1>2, <1>3, <1>4, <1>5, <1>6, <1>7, <1>8, <1>9, <1>10, <1>11, <1>12, <1>13,
           <1>14, <1>15, <1>16, <1>17, <1>18, <1>19 DEF Next, Writer

(***************************************************************************)
(* Pending commands and their callers                                      *)
(***************************************************************************)
\* Callers who wait are left alone, and no pending command is added.
LEMMA PendingKept ==
  ASSUME PendingOK, UNCHANGED <<queue, batch>>, Typed,
         \A c \in Callers : caller[c].phase = "waiting" => caller'[c] = caller[c]
  PROVE  PendingOK'
<1>1. \A p \in Pendings : Expected(caller, p) => Expected(caller', p)
  BY DEF Expected, Pendings
<1>2. /\ \A i \in DOMAIN queue : queue[i] \in Pendings
      /\ \A i \in DOMAIN batch : batch[i] \in Pendings
  BY DEF Typed, TypeOK
<1> QED BY <1>1, <1>2 DEF PendingOK, Distinct, Apart, Expected

LEMMA PendingStep ==
  ASSUME Typed, [Next]_vars, PendingOK
  PROVE  PendingOK'
<1>0. /\ queue \in Seq(Pendings) /\ batch \in Seq(Pendings) /\ results \in Seq(Answers)
      /\ DOMAIN queue = 1..Len(queue) /\ DOMAIN batch = 1..Len(batch)
      /\ \A i \in DOMAIN queue : queue[i] \in Pendings
      /\ \A i \in DOMAIN batch : batch[i] \in Pendings
      /\ BatchOK /\ TypeOK
  BY DEF Typed, TypeOK
<1>a. \A p \in Pendings : p.to \in Callers \cup {NoCaller}
  BY DEF Pendings
<1>b. caller \in [Callers -> CallerType]
  BY DEF Typed, TypeOK, CallerType
<1>c. \A k \in Kinds : Answer(k, NoPos) \in Answers
  BY AnswerType, NoPosType
<1>1. ASSUME NEW c \in Callers, Begin(c) PROVE PendingOK'
  BY <1>1, <1>b, PendingKept DEF Begin
<1>2. ASSUME NEW c \in Callers, Submit(c) PROVE PendingOK'
  <2>1. ASSUME NEW k \in {"closed", "busy"}, Tell(c, Answer(k, NoPos)), UNCHANGED queue
        PROVE  PendingOK'
    <3>1. Answer(k, NoPos) \in Answers
      BY <1>c DEF Kinds
    <3>2. \A d \in Callers : d # c => caller'[d] = caller[d]
      BY <1>0, <2>1, <3>1, TellEffect
    <3>3. caller[c].phase # "waiting" /\ UNCHANGED batch
      BY <1>2 DEF Submit
    <3> QED BY <2>1, <3>2, <3>3, PendingKept
  <2>2. ASSUME queue' = Append(queue, [req |-> caller[c].req, cmd |-> caller[c].cmd, to |-> c]),
               caller' = [caller EXCEPT ![c].phase = "waiting"]
        PROVE  PendingOK'
    <3>1. caller[c].phase = "ready" /\ UNCHANGED batch
      BY <1>2 DEF Submit
    <3>2. /\ caller'[c].phase = "waiting" /\ caller'[c].req = caller[c].req /\ caller'[c].cmd = caller[c].cmd
          /\ \A d \in Callers : d # c => caller'[d] = caller[d]
      BY <1>b, <2>2 DEF CallerType
    <3>3. PICK n : n = [req |-> caller[c].req, cmd |-> caller[c].cmd, to |-> c]
      OBVIOUS
    <3>4. n.req = caller[c].req /\ n.cmd = caller[c].cmd /\ n.to = c
      BY <3>3
    <3>5. /\ DOMAIN queue' = 1..(Len(queue) + 1) /\ queue'[Len(queue) + 1] = n
          /\ \A i \in DOMAIN queue : queue'[i] = queue[i] /\ i # Len(queue) + 1
      BY <1>0, <2>2, <3>3
    <3>6. \A p \in Pendings : Expected(caller, p) => Expected(caller', p) /\ (p.to = NoCaller \/ p.to # c)
      BY <1>a, <3>1, <3>2 DEF Expected
    <3>7. Expected(caller', n)
      BY <3>2, <3>4 DEF Expected
    <3>8. \A i \in DOMAIN queue : Expected(caller', queue[i]) /\ (queue[i].to = NoCaller \/ queue[i].to # c)
      BY <1>0, <3>6 DEF PendingOK
    <3>9. \A i \in DOMAIN batch : Expected(caller', batch[i]) /\ (batch[i].to = NoCaller \/ batch[i].to # c)
      BY <1>0, <3>6 DEF PendingOK
    <3>10. \A i \in DOMAIN queue' : (i \in DOMAIN queue /\ queue'[i] = queue[i]) \/ (i = Len(queue) + 1 /\ queue'[i] = n)
      BY <1>0, <3>5
    <3>11. \A i \in DOMAIN queue' : Expected(caller', queue'[i])
      BY <3>7, <3>8, <3>10 DEF Expected
    <3>12. Distinct(queue')
      BY <3>4, <3>8, <3>10 DEF PendingOK, Distinct
    <3>13. Apart(queue', batch)
      BY <3>4, <3>9, <3>10 DEF PendingOK, Apart
    <3> QED BY <3>1, <3>9, <3>11, <3>12, <3>13 DEF PendingOK, Distinct, Apart, Expected
  <2> QED BY <1>2, <2>1, <2>2 DEF Submit
<1>3. ASSUME NEW c \in Callers, GiveUp(c) PROVE PendingOK'
  <2>1. queue' = Deserted(queue, c) /\ batch' = Deserted(batch, c)
    BY <1>3 DEF GiveUp
  <2>2. \A d \in Callers : d # c => caller'[d] = caller[d]
    BY <1>3, <1>b DEF GiveUp
  <2>3. /\ DOMAIN queue' = DOMAIN queue
        /\ \A i \in DOMAIN queue : /\ queue'[i].req = queue[i].req /\ queue'[i].cmd = queue[i].cmd
                                   /\ queue'[i].to = IF queue[i].to = c THEN NoCaller ELSE queue[i].to
    BY <1>0, <2>1, DesertedSeq
  <2>4. /\ DOMAIN batch' = DOMAIN batch
        /\ \A i \in DOMAIN batch : /\ batch'[i].req = batch[i].req /\ batch'[i].cmd = batch[i].cmd
                                   /\ batch'[i].to = IF batch[i].to = c THEN NoCaller ELSE batch[i].to
    BY <1>0, <2>1, DesertedSeq
  <2>5. \A i \in DOMAIN queue' : Expected(caller', queue'[i])
    BY <1>0, <1>a, <2>2, <2>3 DEF PendingOK, Expected
  <2>6. \A i \in DOMAIN batch' : Expected(caller', batch'[i])
    BY <1>0, <1>a, <2>2, <2>4 DEF PendingOK, Expected
  <2> QED BY <2>3, <2>4, <2>5, <2>6 DEF PendingOK, Distinct, Apart
<1>4. CASE TakeBatch
  <2>1. PICK n \in 1..Len(queue) : /\ batch' = SubSeq(queue, 1, n)
                                   /\ queue' = SubSeq(queue, n + 1, Len(queue))
    BY <1>4 DEF TakeBatch
  <2>2. DOMAIN batch' = 1..n /\ \A i \in 1..n : i \in DOMAIN queue /\ batch'[i] = queue[i]
    BY <1>0, <2>1
  <2>3. /\ DOMAIN queue' = 1..(Len(queue) - n)
        /\ \A i \in 1..(Len(queue) - n) : n + i \in DOMAIN queue /\ queue'[i] = queue[n + i]
    BY <1>0, <2>1
  <2>4. \A p : Expected(caller, p) => Expected(caller', p)
    BY <1>4 DEF TakeBatch, Expected
  <2>a. ASSUME NEW i \in DOMAIN queue', NEW j \in DOMAIN queue', i # j
        PROVE  /\ n + i \in DOMAIN queue /\ n + j \in DOMAIN queue /\ n + i # n + j
               /\ queue'[i] = queue[n + i] /\ queue'[j] = queue[n + j]
    BY <1>0, <2>3, <2>a
  <2>b. ASSUME NEW i \in DOMAIN queue', NEW j \in DOMAIN batch'
        PROVE  /\ n + i \in DOMAIN queue /\ j \in DOMAIN queue /\ n + i # j
               /\ queue'[i] = queue[n + i] /\ batch'[j] = queue[j]
    BY <1>0, <2>2, <2>3
  <2>5. \A i \in DOMAIN queue' : Expected(caller', queue'[i])
    <3>1. ASSUME NEW i \in DOMAIN queue'
          PROVE  n + i \in DOMAIN queue /\ queue'[i] = queue[n + i]
      BY <2>3
    <3>2. \A k \in DOMAIN queue : Expected(caller', queue[k])
      BY <2>4 DEF PendingOK
    <3> QED BY <3>1, <3>2
  <2>6. \A i \in DOMAIN batch' : Expected(caller', batch'[i])
    BY <2>2, <2>4 DEF PendingOK, Expected
  <2>7. Distinct(queue')
    BY <1>0, <2>a DEF PendingOK, Distinct
  <2>8. Distinct(batch')
    BY <1>0, <2>2 DEF PendingOK, Distinct
  <2>9. Apart(queue', batch')
    BY <1>0, <2>b DEF PendingOK, Distinct, Apart
  <2> QED BY <2>5, <2>6, <2>7, <2>8, <2>9 DEF PendingOK, Distinct, Apart
<1>5. CASE Execute \/ ExecuteFails
  BY <1>5, PendingKept DEF Execute, ExecuteFails
<1>6. CASE AbortBatch
  BY <1>6, PendingKept DEF AbortBatch
<1>7. CASE CommitOk
  BY <1>7, PendingKept DEF CommitOk
<1>8. CASE CommitRejected
  BY <1>8, PendingKept DEF CommitRejected
<1>9. CASE CommitUnknown
  BY <1>9, PendingKept DEF CommitUnknown
<1>10. CASE Publish
  BY <1>10, PendingKept DEF Publish
<1>11. CASE Respond
  <2>1. CASE batch = <<>>
    BY <1>11, <2>1, PendingKept DEF Respond
  <2>2. CASE batch # <<>>
    <3>1. /\ batch' = Tail(batch) /\ queue' = queue /\ Head(batch) = batch[1] /\ 1 \in DOMAIN batch
          /\ Tell(batch[1].to, Head(results)) /\ Head(results) \in Answers
      <4>1. results # <<>>
        BY <1>0, <1>11, <2>2 DEF Respond, BatchOK
      <4> QED BY <1>0, <1>11, <2>2, <4>1, TailSeq DEF Respond
    <3>2. DOMAIN batch' = 1..(Len(batch) - 1) /\ \A i \in DOMAIN batch' : i + 1 \in DOMAIN batch /\ batch'[i] = batch[i + 1]
      BY <1>0, <2>2, <3>1, TailSeq
    <3>3. \A d \in Callers : d # batch[1].to => caller'[d] = caller[d]
      <4>1. PICK a \in Answers : a = Head(results)
        BY <3>1
      <4>2. PICK t \in Callers \cup {NoCaller} : t = batch[1].to
        BY <1>0, <1>a, <3>1
      <4>3. TypeOK /\ Tell(t, a)
        BY <1>0, <3>1, <4>1, <4>2
      <4> QED BY <4>2, <4>3, TellEffect
    <3>4. \A p \in Pendings : Expected(caller, p) /\ (p.to = NoCaller \/ p.to # batch[1].to) => Expected(caller', p)
      BY <1>a, <3>3 DEF Expected
    <3>5. \A i \in DOMAIN queue' : Expected(caller', queue'[i])
      BY <1>0, <3>1, <3>4 DEF PendingOK, Apart, Expected
    <3>6. \A i \in DOMAIN batch' : Expected(caller', batch'[i])
      <4>1. ASSUME NEW i \in DOMAIN batch' PROVE Expected(caller', batch[i + 1])
        <5>1. i + 1 \in DOMAIN batch /\ i + 1 # 1
          BY <1>0, <3>2
        <5> QED BY <1>0, <3>1, <3>4, <5>1 DEF PendingOK, Distinct
      <4> QED BY <3>2, <4>1 DEF Expected
    <3>7. Distinct(batch')
      BY <1>0, <3>2 DEF PendingOK, Distinct
    <3>8. Apart(queue', batch')
      BY <1>0, <3>1, <3>2 DEF PendingOK, Apart
    <3> QED BY <3>1, <3>5, <3>6, <3>7, <3>8 DEF PendingOK, Distinct, Apart
  <2> QED BY <2>1, <2>2
<1>12. CASE Drain
  <2>1. /\ queue' = Tail(queue) /\ batch' = batch /\ Head(queue) = queue[1] /\ 1 \in DOMAIN queue
        /\ Tell(queue[1].to, Answer("closed", NoPos)) /\ Answer("closed", NoPos) \in Answers
    BY <1>0, <1>c, <1>12, TailSeq DEF Drain, Kinds
  <2>2. DOMAIN queue' = 1..(Len(queue) - 1) /\ \A i \in DOMAIN queue' : i + 1 \in DOMAIN queue /\ queue'[i] = queue[i + 1]
    BY <1>0, <1>12, <2>1, TailSeq DEF Drain
  <2>3. \A d \in Callers : d # queue[1].to => caller'[d] = caller[d]
    BY <1>0, <1>a, <2>1, TellEffect
  <2>4. \A p \in Pendings : Expected(caller, p) /\ (p.to = NoCaller \/ p.to # queue[1].to) => Expected(caller', p)
    BY <1>a, <2>3 DEF Expected
  <2>5. \A i \in DOMAIN batch' : Expected(caller', batch'[i])
    BY <1>0, <2>1, <2>4 DEF PendingOK, Apart, Expected
  <2>6. \A i \in DOMAIN queue' : Expected(caller', queue'[i])
    <3>1. ASSUME NEW i \in DOMAIN queue' PROVE Expected(caller', queue[i + 1])
      <4>1. i + 1 \in DOMAIN queue /\ i + 1 # 1
        BY <1>0, <2>2
      <4> QED BY <1>0, <2>1, <2>4, <4>1 DEF PendingOK, Distinct
    <3> QED BY <2>2, <3>1 DEF Expected
  <2>7. Distinct(queue')
    BY <1>0, <2>2 DEF PendingOK, Distinct
  <2>8. Apart(queue', batch')
    BY <1>0, <2>1, <2>2 DEF PendingOK, Apart
  <2> QED BY <2>1, <2>5, <2>6, <2>7, <2>8 DEF PendingOK, Distinct, Apart
<1>13. CASE Shutdown
  BY <1>13, PendingKept DEF Shutdown
<1>14. CASE End
  BY <1>14, PendingKept DEF End
<1>15. ASSUME queue' = <<>>, batch' = <<>> PROVE PendingOK'
  BY <1>15 DEF PendingOK, Distinct, Apart
<1>16. CASE UNCHANGED vars
  BY <1>16, PendingKept DEF vars
<1> QED BY <1>1, <1>2, <1>3, <1>4, <1>5, <1>6, <1>7, <1>8, <1>9, <1>10, <1>11, <1>12, <1>13,
           <1>14, <1>15, <1>16 DEF Next, Writer, Reopen, Crash, WriterLost, Fresher

(***************************************************************************)
(* The transaction and the committed database                              *)
(***************************************************************************)
LEMMA DatabaseFacts ==
  ASSUME NEW d \in Databases
  PROVE  /\ d.seq \in Nat /\ d.effects \in Seq(Effects) /\ Len(d.effects) \in Nat
         /\ DOMAIN d.effects = 1..Len(d.effects)
         /\ \A i \in DOMAIN d.effects :
               /\ d.effects[i] \in Effects /\ d.effects[i].req \in Requests
               /\ d.effects[i].pos \in Positions
               /\ d.effects[i].pos[1] \in Nat /\ d.effects[i].pos[2] \in Nat
<1>1. d.seq \in Nat /\ d.effects \in Seq(Effects)
  BY DEF Databases
<1>2. \A e \in Effects : e.req \in Requests /\ e.pos \in Positions
  BY DEF Effects
<1>3. \A q \in Positions : q[1] \in Nat /\ q[2] \in Nat
  BY DEF Positions
<1> QED BY <1>1, <1>2, <1>3

LEMMA FoundStays ==
  ASSUME NEW d \in Databases, NEW e \in Databases, Extends(e, d),
         NEW r, NEW m, NEW q, Found(d, r, m, q)
  PROVE  Found(e, r, m, q)
<1>1. PICK i \in DOMAIN d.effects : d.effects[i] = [req |-> r, cmd |-> m, pos |-> q]
  BY DEF Found
<1>2. i \in DOMAIN e.effects /\ e.effects[i] = d.effects[i]
  BY <1>1, DatabaseFacts DEF Extends
<1> QED BY <1>1, <1>2 DEF Found

\* A command that takes effect keeps the transaction in order.
LEMMA ApplyKeeps ==
  ASSUME Typed, TransactionOK, stage = "executing", NEW p \in Pendings,
         tx.receipts[p.req] = NoReceipt, Apply(p)
  PROVE  /\ DatabaseOK(tx') /\ Extends(tx', tx) /\ tx'.seq = tx.seq
         /\ Found(tx', p.req, p.cmd, Position)
         /\ Len(tx'.effects) = Len(tx.effects) + 1
         /\ tx'.effects[Len(tx.effects) + 1].pos = Position
<1>0. TypeOK /\ db \in Databases /\ tx \in Databases /\ tx' \in Databases /\ Len(results) \in Nat
  <2>1. TypeOK
    BY DEF Typed
  <2>2. tx' \in Databases
    BY <2>1, ApplyEffect
  <2> QED BY <2>1, <2>2 DEF TypeOK
<1>1. PICK n : n = [req |-> p.req, cmd |-> p.cmd, pos |-> Position]
  OBVIOUS
<1>2. /\ n.req = p.req /\ n.cmd = p.cmd /\ n.pos = Position
      /\ Position[1] = tx.seq /\ Position[2] = Len(results) /\ p.req \in Requests
      /\ p.cmd \in Commands
  BY <1>1 DEF Position, Pendings
<1>3. /\ tx'.effects = Append(tx.effects, n) /\ tx'.seq = tx.seq
      /\ tx'.receipts = [tx.receipts EXCEPT ![p.req] = [cmd |-> p.cmd, pos |-> Position]]
  BY <1>0, <1>1, ApplyEffect
<1>4. /\ DOMAIN tx'.effects = 1..(Len(tx.effects) + 1)
      /\ Len(tx'.effects) = Len(tx.effects) + 1
      /\ tx'.effects[Len(tx.effects) + 1] = n
      /\ \A i \in DOMAIN tx.effects : tx'.effects[i] = tx.effects[i]
      /\ DOMAIN tx.effects = 1..Len(tx.effects) /\ Len(tx.effects) \in Nat
  <2>1. tx.effects \in Seq(Effects) /\ tx'.effects \in Seq(Effects)
    BY <1>0, DatabaseFacts
  <2> QED BY <1>3, <2>1
<1>5. \A i \in DOMAIN tx'.effects : i \in DOMAIN tx.effects \/ i = Len(tx.effects) + 1
  BY <1>4
<1>6. \A i \in DOMAIN tx.effects :
         \/ tx.effects[i].pos[1] < tx.seq
         \/ tx.effects[i].pos[1] = tx.seq /\ tx.effects[i].pos[2] < Len(results)
  <2> SUFFICES ASSUME NEW i \in DOMAIN tx.effects, i <= Len(db.effects)
               PROVE  tx.effects[i].pos[1] < tx.seq
    BY DEF TransactionOK
  <2>1. i \in DOMAIN db.effects /\ tx.effects[i] = db.effects[i]
    BY <1>0, <1>4, DatabaseFacts DEF TransactionOK, Extends
  <2>2. db.effects[i].pos[1] <= db.seq /\ tx.seq = db.seq + 1
    BY <2>1 DEF TransactionOK, DatabaseOK, EffectsReceipted
  <2> QED BY <1>0, <2>1, <2>2, DatabaseFacts
<1>7. tx.seq \in Nat /\ tx.seq >= 1
  BY <1>0, DatabaseFacts DEF TransactionOK
<1>8. \A i \in DOMAIN tx.effects : tx.effects[i].req # p.req
  <2> SUFFICES ASSUME NEW i \in DOMAIN tx.effects, tx.effects[i].req = p.req PROVE FALSE
    OBVIOUS
  <2>1. /\ tx.receipts[p.req] = [cmd |-> tx.effects[i].cmd, pos |-> tx.effects[i].pos]
        /\ tx.effects[i].pos[1] >= 1
    BY DEF TransactionOK, DatabaseOK, EffectsReceipted
  <2>2. tx.receipts[p.req].pos = <<0, 0>>
    BY DEF NoReceipt
  <2>3. tx.effects[i].pos = <<0, 0>>
    BY <2>1, <2>2
  <2> QED BY <2>1, <2>3
<1>9. /\ tx'.receipts[p.req] = [cmd |-> p.cmd, pos |-> Position]
      /\ \A r \in Requests : r # p.req => tx'.receipts[r] = tx.receipts[r]
  BY <1>0, <1>2, <1>3 DEF Databases
<1>10. EffectsReceipted(tx')
  <2>1. ASSUME NEW i \in DOMAIN tx.effects
        PROVE  /\ tx'.effects[i].pos[1] >= 1 /\ tx'.effects[i].pos[1] <= tx'.seq
               /\ tx'.receipts[tx'.effects[i].req] = [cmd |-> tx'.effects[i].cmd, pos |-> tx'.effects[i].pos]
    <3>1. tx.effects[i].req \in Requests /\ tx.effects[i].req # p.req /\ tx'.effects[i] = tx.effects[i]
      BY <1>0, <1>4, <1>8, DatabaseFacts
    <3>2. /\ tx.effects[i].pos[1] >= 1 /\ tx.effects[i].pos[1] <= tx.seq
          /\ tx.receipts[tx.effects[i].req] = [cmd |-> tx.effects[i].cmd, pos |-> tx.effects[i].pos]
      BY DEF TransactionOK, DatabaseOK, EffectsReceipted
    <3>3. tx'.receipts[tx.effects[i].req] = tx.receipts[tx.effects[i].req]
      BY <1>9, <3>1
    <3> QED BY <1>3, <3>1, <3>2, <3>3
  <2>2. LET i == Len(tx.effects) + 1
        IN  /\ tx'.effects[i].pos[1] >= 1 /\ tx'.effects[i].pos[1] <= tx'.seq
            /\ tx'.receipts[tx'.effects[i].req] = [cmd |-> tx'.effects[i].cmd, pos |-> tx'.effects[i].pos]
    BY <1>2, <1>3, <1>4, <1>7, <1>9
  <2> QED BY <1>5, <2>1, <2>2 DEF EffectsReceipted
<1>11. EffectsOrdered(tx')
  <2>1. \A i \in DOMAIN tx.effects : Before(tx'.effects[i].pos, n.pos)
    BY <1>2, <1>4, <1>6 DEF Before
  <2>2. \A i, j \in DOMAIN tx.effects : i < j => Before(tx'.effects[i].pos, tx'.effects[j].pos)
    BY <1>4 DEF TransactionOK, DatabaseOK, EffectsOrdered
  <2> QED BY <1>4, <1>5, <2>1, <2>2 DEF EffectsOrdered
<1>12. Extends(tx', tx)
  BY <1>4 DEF Extends
<1>13. Found(tx', p.req, p.cmd, Position)
  BY <1>1, <1>4 DEF Found
<1>14. ReceiptsFound(tx')
  <2> SUFFICES ASSUME NEW r \in Requests, tx'.receipts[r] # NoReceipt
               PROVE  Found(tx', r, tx'.receipts[r].cmd, tx'.receipts[r].pos)
    BY DEF ReceiptsFound
  <2>1. CASE r = p.req
    BY <1>9, <1>13, <2>1
  <2>2. CASE r # p.req
    <3>1. Found(tx, r, tx.receipts[r].cmd, tx.receipts[r].pos) /\ tx'.receipts[r] = tx.receipts[r]
      BY <1>9, <2>2 DEF TransactionOK, DatabaseOK, ReceiptsFound
    <3> QED BY <1>0, <1>12, <3>1, FoundStays
  <2> QED BY <2>1, <2>2
<1> QED BY <1>2, <1>3, <1>4, <1>10, <1>11, <1>12, <1>13, <1>14 DEF DatabaseOK

LEMMA ExtendsSelf ==
  ASSUME NEW d \in Databases
  PROVE  Extends(d, d)
BY DatabaseFacts DEF Extends

\* Every end of a transaction leaves the old or the new database, no mixture.
LEMMA TransactionEnds ==
  ASSUME Typed, TransactionOK, db' \in {db, tx}, tx' = db', stage' # "executing"
  PROVE  TransactionOK' /\ Extends(db', db)
<1>1. db \in Databases /\ tx \in Databases /\ db' \in Databases
  BY DEF Typed, TypeOK
<1>2. DatabaseOK(db') /\ DatabaseOK(tx')
  BY DEF TransactionOK
<1>3. Extends(tx', db')
  BY <1>1, ExtendsSelf
<1>4. Extends(db', db)
  BY <1>1, ExtendsSelf DEF TransactionOK
<1> QED BY <1>2, <1>3, <1>4 DEF TransactionOK, DatabaseOK, Extends, EffectsReceipted,
                                EffectsOrdered, ReceiptsFound, Found

LEMMA TransactionKept ==
  ASSUME TransactionOK, UNCHANGED <<db, tx>>,
         UNCHANGED <<stage, results>> \/ (stage # "executing" /\ stage' # "executing")
  PROVE  TransactionOK'
BY DEF TransactionOK, DatabaseOK, Extends, EffectsReceipted, EffectsOrdered, ReceiptsFound, Found

\* Replays of an earlier commit are still there when the transaction is not.
LEMMA ReplayCommitted ==
  ASSUME Typed, TransactionOK, ResultsFound, stage = "executing", NEW i \in DOMAIN results,
         results[i].kind = "ok", results[i].pos[1] # tx.seq
  PROVE  Found(db, batch[i].req, batch[i].cmd, results[i].pos)
<1>1. PICK k \in DOMAIN tx.effects :
        tx.effects[k] = [req |-> batch[i].req, cmd |-> batch[i].cmd, pos |-> results[i].pos]
  BY DEF ResultsFound, Found
<1>2. tx.effects[k].pos = results[i].pos
  BY <1>1
<1>3. k <= Len(db.effects)
  BY <1>2 DEF TransactionOK
<1>4. db \in Databases /\ tx \in Databases
  BY DEF Typed, TypeOK
<1>5. k \in DOMAIN db.effects /\ tx.effects[k] = db.effects[k]
  BY <1>3, <1>4, DatabaseFacts DEF TransactionOK, Extends
<1> QED BY <1>1, <1>5 DEF Found

\* The results that are left when a batch fails are in the committed database.
LEMMA WithdrawnFound ==
  ASSUME Typed, TransactionOK, ResultsFound, stage = "executing", NEW e \in Kinds \ {"ok"},
         \/ results' = Aborted(e)
         \/ Len(results) = Len(batch) /\ results' = Failed(e),
         batch' = batch, db' \in {db, tx}, tx' = db', tx' \in Databases
  PROVE  ResultsFound'
<1>1. TypeOK /\ db \in Databases /\ tx \in Databases
  BY DEF Typed, TypeOK
<1>2. Len(results') = Len(batch) /\ results' \in Seq(Answers)
  BY <1>1, WithdrawnType
<1>3. DOMAIN results' = 1..Len(batch) /\ DOMAIN batch = 1..Len(batch)
  BY <1>1, <1>2 DEF TypeOK
<1>4. ASSUME NEW i \in DOMAIN results', results'[i].kind = "ok"
      PROVE  Found(tx', batch[i].req, batch[i].cmd, results'[i].pos)
  <2>1. /\ i \in DOMAIN results /\ results[i].kind = "ok"
        /\ results[i].pos[1] # tx.seq /\ results'[i] = results[i]
    BY <1>1, <1>3, <1>4, WithdrawnType
  <2>2. Found(db, batch[i].req, batch[i].cmd, results[i].pos)
    BY <2>1, ReplayCommitted
  <2>3. Extends(tx', db)
    BY <1>1, ExtendsSelf DEF TransactionOK
  <2> QED BY <1>1, <2>1, <2>2, <2>3, FoundStays
<1> QED BY <1>4 DEF ResultsFound, Found

LEMMA ResultsStay ==
  ASSUME ResultsFound, UNCHANGED <<tx, results, batch>>
  PROVE  ResultsFound'
BY DEF ResultsFound, Found

LEMMA StoreStep ==
  ASSUME Typed, Typed', [Next]_vars, TransactionOK, ResultsFound
  PROVE  TransactionOK' /\ ResultsFound' /\ Extends(db', db)
<1>0. /\ TypeOK /\ BatchOK /\ db \in Databases /\ tx \in Databases /\ tx' \in Databases
      /\ batch \in Seq(Pendings) /\ results \in Seq(Answers) /\ Len(results) <= Len(batch)
      /\ queue \in Seq(Pendings)
  BY DEF Typed, TypeOK
<1>a. ASSUME UNCHANGED <<db, tx, stage, results, batch>>
      PROVE  TransactionOK' /\ ResultsFound' /\ Extends(db', db)
  BY <1>0, <1>a, TransactionKept, ResultsStay, ExtendsSelf
<1>b. ASSUME db' = db PROVE Extends(db', db)
  BY <1>0, <1>b, ExtendsSelf
<1>1. ASSUME NEW c \in Callers, GiveUp(c) PROVE TransactionOK' /\ ResultsFound' /\ Extends(db', db)
  <2>1. UNCHANGED <<db, tx, stage, results>> /\ batch' = Deserted(batch, c)
    BY <1>1 DEF GiveUp
  <2>2. DOMAIN results \subseteq DOMAIN batch
    BY <1>0
  <2>3. \A i \in DOMAIN batch : batch'[i].req = batch[i].req /\ batch'[i].cmd = batch[i].cmd
    BY <1>0, <2>1, DesertedSeq
  <2>4. ResultsFound'
    BY <2>1, <2>2, <2>3 DEF ResultsFound, Found
  <2> QED BY <1>b, <2>1, <2>4, TransactionKept
<1>2. CASE TakeBatch
  <2>1. tx' = [seq |-> db.seq + 1, effects |-> db.effects, receipts |-> db.receipts]
    BY <1>0, <1>2 DEF TakeBatch, Databases
  <2>2. tx'.seq = db.seq + 1 /\ tx'.effects = db.effects /\ tx'.receipts = db.receipts
    BY <2>1
  <2>3. db' = db /\ stage' = "executing" /\ results' = <<>>
    BY <1>2 DEF TakeBatch
  <2>4. DatabaseOK(tx')
    <3>1. EffectsReceipted(tx')
      <4>1. ASSUME NEW i \in DOMAIN db.effects
            PROVE  /\ db.effects[i].pos[1] >= 1 /\ db.effects[i].pos[1] <= tx'.seq
                   /\ db.receipts[db.effects[i].req] = [cmd |-> db.effects[i].cmd, pos |-> db.effects[i].pos]
        <5>1. db.effects[i].pos[1] <= db.seq
          BY DEF TransactionOK, DatabaseOK, EffectsReceipted
        <5>2. db.effects[i].pos[1] \in Nat /\ db.seq \in Nat
          BY <1>0, DatabaseFacts
        <5>3. db.effects[i].pos[1] <= tx'.seq
          BY <2>2, <5>1, <5>2
        <5> QED BY <5>3 DEF TransactionOK, DatabaseOK, EffectsReceipted
      <4> QED BY <2>2, <4>1 DEF EffectsReceipted
    <3>2. EffectsOrdered(tx') /\ ReceiptsFound(tx')
      BY <2>2 DEF TransactionOK, DatabaseOK, EffectsOrdered, ReceiptsFound, Found
    <3> QED BY <3>1, <3>2 DEF DatabaseOK
  <2>5. Extends(tx', db)
    BY <1>0, <2>2, DatabaseFacts DEF Extends
  <2>6. \A i \in DOMAIN tx'.effects : i <= Len(db.effects)
    BY <1>0, <2>2, DatabaseFacts
  <2>7. DatabaseOK(db)
    BY DEF TransactionOK
  <2>8. ResultsFound'
    BY <2>3 DEF ResultsFound
  <2>9. TransactionOK'
    BY <2>2, <2>3, <2>4, <2>5, <2>6, <2>7
       DEF TransactionOK, DatabaseOK, Extends, EffectsReceipted, EffectsOrdered, ReceiptsFound, Found
  <2> QED BY <1>b, <2>3, <2>8, <2>9
<1>3. CASE Execute \/ ExecuteFails
  <2>1. /\ stage = "executing" /\ stage' = "executing" /\ Len(results) < Len(batch)
        /\ db' = db /\ batch' = batch
    BY <1>3 DEF Execute, ExecuteFails
  <2>2. PICK p : p = batch[Len(results) + 1]
    OBVIOUS
  <2>3. p \in Pendings /\ p.req \in Requests
    <3>1. p \in Pendings
      BY <1>0, <2>1, <2>2
    <3> QED BY <3>1 DEF Pendings
  <2>4. PICK a \in Answers :
          /\ results' = Append(results, a)
          /\ \/ UNCHANGED tx /\ (a.kind = "ok" => Found(tx, p.req, p.cmd, a.pos))
             \/ tx.receipts[p.req] = NoReceipt /\ Apply(p) /\ a.pos = Position
    <3>1. CASE tx.receipts[p.req] # NoReceipt /\ Execute
      <4>1. results' = Append(results, Replay(p)) /\ UNCHANGED tx
        BY <2>2, <3>1 DEF Execute
      <4>2. tx.receipts[p.req].pos \in Positions
        BY <1>0, <2>3 DEF Databases
      <4>3. Replay(p) \in Answers
        BY <4>2, AnswerType, NoPosType DEF Replay, Kinds
      <4>4. Replay(p).kind = "ok" => tx.receipts[p.req].cmd = p.cmd /\ Replay(p).pos = tx.receipts[p.req].pos
        BY DEF Replay, Answer
      <4>5. Found(tx, p.req, tx.receipts[p.req].cmd, tx.receipts[p.req].pos)
        BY <2>3, <3>1 DEF TransactionOK, DatabaseOK, ReceiptsFound
      <4> QED BY <4>1, <4>3, <4>4, <4>5
    <3>2. CASE results' = Append(results, Answer("refused", NoPos)) /\ UNCHANGED tx
      BY <3>2, AnswerType, NoPosType DEF Kinds
    <3>3. CASE /\ tx.receipts[p.req] = NoReceipt /\ results' = Append(results, Answer("ok", Position))
               /\ Apply(p)
      <4>1. Position \in Positions /\ "ok" \in Kinds
        BY <1>0, <2>3, <3>3, ApplyEffect DEF Kinds
      <4>2. Answer("ok", Position) \in Answers /\ Answer("ok", Position).pos = Position
        BY <4>1, AnswerType
      <4> QED BY <3>3, <4>2
    <3>4. CASE ExecuteFails
      BY <3>4, AnswerType, NoPosType DEF ExecuteFails, Kinds
    <3> QED BY <1>3, <2>2, <3>1, <3>2, <3>3, <3>4 DEF Execute
  <2>5. /\ Len(results') = Len(results) + 1 /\ results'[Len(results) + 1] = a
        /\ \A i \in DOMAIN results : results'[i] = results[i]
        /\ \A i \in DOMAIN results' : i \in DOMAIN results \/ i = Len(results) + 1
        /\ Len(results) \in Nat
    BY <1>0, <2>4
  <2>6. CASE UNCHANGED tx /\ (a.kind = "ok" => Found(tx, p.req, p.cmd, a.pos))
    <3>1. ResultsFound'
      <4>1. ASSUME NEW i \in DOMAIN results', results'[i].kind = "ok"
            PROVE  Found(tx, batch[i].req, batch[i].cmd, results'[i].pos)
        BY <2>2, <2>5, <2>6, <4>1 DEF ResultsFound
      <4> QED BY <2>1, <2>6, <4>1 DEF ResultsFound, Found
    <3>2. ASSUME NEW i \in DOMAIN tx.effects
          PROVE  \/ i <= Len(db.effects)
                 \/ tx.effects[i].pos[1] = tx.seq /\ tx.effects[i].pos[2] < Len(results')
      <4>1. tx.effects[i].pos[2] \in Nat
        BY <1>0, DatabaseFacts
      <4> QED BY <2>1, <2>5, <4>1 DEF TransactionOK
    <3>3. TransactionOK'
      BY <2>1, <2>6, <3>2 DEF TransactionOK, DatabaseOK, Extends, EffectsReceipted, EffectsOrdered,
                              ReceiptsFound, Found
    <3> QED BY <1>b, <2>1, <3>1, <3>3
  <2>7. CASE tx.receipts[p.req] = NoReceipt /\ Apply(p) /\ a.pos = Position
    <3>1. /\ DatabaseOK(tx') /\ Extends(tx', tx) /\ tx'.seq = tx.seq
          /\ Found(tx', p.req, p.cmd, Position)
          /\ Len(tx'.effects) = Len(tx.effects) + 1
          /\ tx'.effects[Len(tx.effects) + 1].pos = Position
      BY <2>1, <2>3, <2>7, ApplyKeeps
    <3>2. ResultsFound'
      <4>1. ASSUME NEW i \in DOMAIN results, results[i].kind = "ok"
            PROVE  Found(tx', batch[i].req, batch[i].cmd, results[i].pos)
        BY <1>0, <3>1, <4>1, FoundStays DEF ResultsFound
      <4>2. ASSUME NEW i \in DOMAIN results', results'[i].kind = "ok"
            PROVE  Found(tx', batch[i].req, batch[i].cmd, results'[i].pos)
        BY <2>2, <2>5, <2>7, <3>1, <4>1, <4>2
      <4> QED BY <2>1, <4>2 DEF ResultsFound, Found
    <3>3. Extends(tx', db)
      <4>1. Extends(tx, db)
        BY DEF TransactionOK
      <4> QED BY <1>0, <3>1, <4>1, DatabaseFacts DEF Extends
    <3>4. ASSUME NEW i \in DOMAIN tx'.effects
          PROVE  \/ i <= Len(db.effects)
                 \/ tx'.effects[i].pos[1] = tx'.seq /\ tx'.effects[i].pos[2] < Len(results')
      <4>1. CASE i \in DOMAIN tx.effects
        <5>1. tx.effects[i].pos[2] \in Nat /\ tx'.effects[i] = tx.effects[i]
          BY <1>0, <3>1, <4>1, DatabaseFacts DEF Extends
        <5> QED BY <2>1, <2>5, <3>1, <4>1, <5>1 DEF TransactionOK
      <4>2. CASE i = Len(tx.effects) + 1
        BY <2>5, <3>1, <4>2 DEF Position
      <4> QED BY <1>0, <3>1, <4>1, <4>2, DatabaseFacts
    <3>5. TransactionOK'
      BY <2>1, <3>1, <3>3, <3>4 DEF TransactionOK, DatabaseOK, Extends, EffectsReceipted,
                                    EffectsOrdered, ReceiptsFound, Found
    <3> QED BY <1>b, <2>1, <3>2, <3>5
  <2> QED BY <2>4, <2>6, <2>7
<1>4. CASE AbortBatch
  <2>1. PICK e \in {"storage", "closed"} : Conclude(Aborted(e), reads)
    BY <1>4 DEF AbortBatch
  <2>2. /\ stage = "executing" /\ results' = Aborted(e) /\ stage' = "answering"
        /\ db' = db /\ tx' = db /\ batch' = batch /\ e \in Kinds \ {"ok"}
    BY <1>4, <2>1 DEF AbortBatch, Conclude, Kinds
  <2> QED BY <1>0, <2>2, WithdrawnFound, TransactionEnds
<1>5. CASE CommitOk
  <2>1. /\ db' = tx /\ tx' = tx /\ stage' = "publishing" /\ UNCHANGED <<batch, results>>
    BY <1>5 DEF CommitOk
  <2> QED BY <2>1, TransactionEnds, ResultsStay
<1>6. CASE CommitRejected
  <2>2. /\ stage = "executing" /\ results' = Failed("storage") /\ stage' = "answering"
        /\ Len(results) = Len(batch)
        /\ db' = db /\ tx' = db /\ batch' = batch /\ "storage" \in Kinds \ {"ok"}
    BY <1>6 DEF CommitRejected, Executed, Conclude, Kinds
  <2> QED BY <1>0, <2>2, WithdrawnFound, TransactionEnds
<1>7. CASE CommitUnknown
  <2>2. /\ stage = "executing" /\ results' = Failed("unknown") /\ stage' = "answering"
        /\ Len(results) = Len(batch)
        /\ db' \in {db, tx} /\ tx' = db' /\ batch' = batch /\ "unknown" \in Kinds \ {"ok"}
    BY <1>7 DEF CommitUnknown, Executed, Conclude, Kinds
  <2> QED BY <1>0, <2>2, WithdrawnFound, TransactionEnds
<1>8. CASE Publish
  <2>1. UNCHANGED <<db, tx, results, batch>> /\ stage # "executing" /\ stage' # "executing"
    BY <1>8 DEF Publish
  <2> QED BY <1>b, <2>1, TransactionKept, ResultsStay
<1>9. CASE Respond
  <2>1. UNCHANGED <<db, tx>> /\ stage = "answering" /\ stage' # "executing"
    BY <1>9 DEF Respond
  <2>2. CASE batch = <<>>
    <3>1. UNCHANGED <<results, batch>>
      BY <1>9, <2>2 DEF Respond
    <3> QED BY <1>b, <2>1, <3>1, TransactionKept, ResultsStay
  <2>3. CASE batch # <<>>
    <3>1. batch' = Tail(batch) /\ results' = Tail(results) /\ Len(results) = Len(batch) /\ results # <<>>
      BY <1>0, <1>9, <2>3 DEF Respond, BatchOK
    <3>2. \A i \in DOMAIN results' : /\ i + 1 \in DOMAIN results /\ results'[i] = results[i + 1]
                                     /\ batch'[i] = batch[i + 1]
      BY <1>0, <2>3, <3>1, TailSeq
    <3>3. ResultsFound'
      BY <2>1, <3>2 DEF ResultsFound, Found
    <3> QED BY <1>b, <2>1, <3>3, TransactionKept
  <2> QED BY <2>2, <2>3
<1>10. CASE End
  <2>1. UNCHANGED <<db, tx, results, batch>> /\ stage # "executing" /\ stage' # "executing"
    BY <1>10 DEF End
  <2> QED BY <1>b, <2>1, TransactionKept, ResultsStay
<1>11. CASE Reopen
  <2>1. UNCHANGED <<db, tx>> /\ stage # "executing" /\ stage' # "executing" /\ results' = <<>>
    BY <1>11 DEF Reopen, Fresher
  <2> QED BY <1>b, <2>1, TransactionKept DEF ResultsFound
<1>12. CASE Crash \/ WriterLost
  <2>1. db' \in {db, tx} /\ tx' = db' /\ stage' # "executing" /\ results' = <<>>
    BY <1>12, Zenon DEF Crash, WriterLost, Survives, Fresher
  <2> QED BY <2>1, TransactionEnds DEF ResultsFound
<1>13. CASE Shutdown \/ Drain \/ UNCHANGED vars \/ \E c \in Callers : Begin(c) \/ Submit(c)
  <2>1. UNCHANGED <<db, tx, stage, results, batch>>
    BY <1>13 DEF Shutdown, Drain, vars, Begin, Submit
  <2> QED BY <1>a, <2>1
<1> QED BY <1>1, <1>2, <1>3, <1>4, <1>5, <1>6, <1>7, <1>8, <1>9, <1>10, <1>11, <1>12, <1>13
        DEF Next, Writer

(***************************************************************************)
(* Acknowledgements                                                        *)
(***************************************************************************)
\* The acknowledgement callers hold, as the refinement mapping shows it.
AckMap ==
  [c \in Callers |->
     IF caller[c].last.kind = "ok"
     THEN [req |-> caller[c].req, cmd |-> caller[c].cmd, pos |-> caller[c].last.pos]
     ELSE [req |-> "none"]]

\* The callers whose last answer is an acknowledgement are left alone.
AcksKept ==
  \A c \in Callers :
     \/ caller[c].last.kind # "ok" /\ caller'[c].last.kind # "ok"
     \/ /\ caller'[c].last = caller[c].last /\ caller'[c].req = caller[c].req
        /\ caller'[c].cmd = caller[c].cmd

LEMMA AckMapKept ==
  ASSUME AcksKept
  PROVE  AckMap' = AckMap
<1>1. ASSUME NEW c \in Callers
      PROVE  (IF caller'[c].last.kind = "ok"
              THEN [req |-> caller'[c].req, cmd |-> caller'[c].cmd, pos |-> caller'[c].last.pos]
              ELSE [req |-> "none"])
             = IF caller[c].last.kind = "ok"
               THEN [req |-> caller[c].req, cmd |-> caller[c].cmd, pos |-> caller[c].last.pos]
               ELSE [req |-> "none"]
  BY DEF AcksKept
<1> QED BY <1>1, Zenon DEF AckMap

LEMMA AckMapChanged ==
  ASSUME NEW c \in Callers, \A d \in Callers : d # c => caller'[d] = caller[d]
  PROVE  AckMap' = [AckMap EXCEPT ![c] =
           IF caller'[c].last.kind = "ok"
           THEN [req |-> caller'[c].req, cmd |-> caller'[c].cmd, pos |-> caller'[c].last.pos]
           ELSE [req |-> "none"]]
<1> DEFINE v == IF caller'[c].last.kind = "ok"
                THEN [req |-> caller'[c].req, cmd |-> caller'[c].cmd, pos |-> caller'[c].last.pos]
                ELSE [req |-> "none"]
<1>1. DOMAIN AckMap = Callers /\ DOMAIN AckMap' = Callers /\ AckMap'[c] = v
  BY DEF AckMap
<1>2. \A d \in Callers : d # c => AckMap'[d] = AckMap[d]
  BY DEF AckMap
<1>3. AckMap' = [d \in Callers |-> AckMap'[d]] /\ AckMap = [d \in Callers |-> AckMap[d]]
  BY DEF AckMap
<1> HIDE DEF v, AckMap
<1> QED BY <1>1, <1>2, <1>3 DEF v

LEMMA CallersOKKept ==
  ASSUME Typed, Typed', CallersOK, AcksKept, Extends(db', db),
         \A c \in Callers : caller'[c].phase \in {"ready", "waiting"} => caller'[c].last.kind # "ok"
  PROVE  CallersOK'
<1>1. db \in Databases /\ db' \in Databases
  BY DEF Typed, TypeOK
<1>2. ASSUME NEW c \in Callers, caller'[c].last.kind = "ok"
      PROVE  Found(db', caller'[c].req, caller'[c].cmd, caller'[c].last.pos)
  <2>1. /\ caller'[c].last = caller[c].last /\ caller'[c].req = caller[c].req
        /\ caller'[c].cmd = caller[c].cmd
    BY <1>2 DEF AcksKept
  <2>2. Found(db, caller[c].req, caller[c].cmd, caller[c].last.pos)
    BY <1>2, <2>1 DEF CallersOK
  <2> QED BY <1>1, <2>1, <2>2, FoundStays
<1> QED BY <1>2 DEF CallersOK, Found

\* Answers other than acknowledgements.
LEMMA ToldNothing ==
  ASSUME Typed, CallersOK, NEW c \in Callers \cup {NoCaller}, NEW a \in Answers, Tell(c, a),
         a.kind # "ok", c # NoCaller => caller[c].phase \in {"ready", "waiting"}
  PROVE  /\ AcksKept
         /\ \A d \in Callers : caller'[d].phase \in {"ready", "waiting"} => caller'[d].last.kind # "ok"
<1>1. \A d \in Callers :
              IF d = c /\ c # NoCaller
              THEN /\ caller'[d].req = caller[d].req /\ caller'[d].cmd = caller[d].cmd
                   /\ caller'[d].last = a
                   /\ caller'[d].phase = IF a.kind \in Transient THEN "ready" ELSE "done"
              ELSE caller'[d] = caller[d]
  BY TellEffect DEF Typed
<1>2. AcksKept
  BY <1>1 DEF AcksKept, CallersOK
<1>3. ASSUME NEW d \in Callers, caller'[d].phase \in {"ready", "waiting"}
      PROVE  caller'[d].last.kind # "ok"
  BY <1>1, <1>3 DEF CallersOK
<1> QED BY <1>2, <1>3

\* One caller is acknowledged, or turns to another request.
Acknowledges(c) ==
  /\ UNCHANGED db /\ AckMap[c] = [req |-> "none"]
  /\ \E i \in DOMAIN db.effects : AckMap' = [AckMap EXCEPT ![c] = db.effects[i]]

Forgets(c) == UNCHANGED db /\ AckMap' = [AckMap EXCEPT ![c] = [req |-> "none"]]

LEMMA CallersStep ==
  ASSUME Typed, Typed', [Next]_vars, PendingOK, TransactionOK, ResultsFound, CallersOK,
         Extends(db', db)
  PROVE  /\ CallersOK'
         /\ AckMap' = AckMap \/ \E c \in Callers : Acknowledges(c) \/ Forgets(c)
<1>0. /\ TypeOK /\ BatchOK /\ caller \in [Callers -> CallerType]
      /\ batch \in Seq(Pendings) /\ results \in Seq(Answers) /\ queue \in Seq(Pendings)
  BY DEF Typed, TypeOK, CallerType
<1>a. ASSUME AcksKept,
             \A c \in Callers : caller'[c].phase \in {"ready", "waiting"} => caller'[c].last.kind # "ok"
      PROVE  CallersOK' /\ AckMap' = AckMap
  BY <1>a, CallersOKKept, AckMapKept
<1>b. ASSUME UNCHANGED caller PROVE CallersOK' /\ AckMap' = AckMap
  BY <1>a, <1>b DEF AcksKept, CallersOK
<1>c. \A k \in Kinds : Answer(k, NoPos) \in Answers /\ Answer(k, NoPos).kind = k
  BY AnswerType, NoPosType
<1>1. ASSUME NEW c \in Callers, Begin(c) PROVE CallersOK' /\ Forgets(c)
  <2>1. PICK r \in Requests, m \in Commands :
          caller' = [caller EXCEPT ![c] = [phase |-> "ready", req |-> r, cmd |-> m,
                                           last |-> Answer("none", NoPos)]]
    BY <1>1 DEF Begin
  <2>2. Answer("none", NoPos).kind = "none"
    BY DEF Answer
  <2>3. caller'[c].last.kind = "none" /\ \A d \in Callers : d # c => caller'[d] = caller[d]
    BY <1>0, <2>1, <2>2
  <2>4. UNCHANGED db
    BY <1>1 DEF Begin
  <2>5. CallersOK'
    BY <2>3, <2>4 DEF CallersOK, Found
  <2>6. AckMap' = [AckMap EXCEPT ![c] = [req |-> "none"]]
    BY <2>3, AckMapChanged
  <2> QED BY <2>4, <2>5, <2>6 DEF Forgets
<1>2. ASSUME NEW c \in Callers, Submit(c) PROVE CallersOK' /\ AckMap' = AckMap
  <2>1. ASSUME NEW k \in {"closed", "busy"}, Tell(c, Answer(k, NoPos))
        PROVE  CallersOK' /\ AckMap' = AckMap
    <3>1. Answer(k, NoPos) \in Answers /\ Answer(k, NoPos).kind # "ok"
      BY <1>c DEF Kinds
    <3>2. caller[c].phase \in {"ready", "waiting"}
      BY <1>2 DEF Submit
    <3> QED BY <1>a, <2>1, <3>1, <3>2, ToldNothing
  <2>2. ASSUME caller' = [caller EXCEPT ![c].phase = "waiting"]
        PROVE  CallersOK' /\ AckMap' = AckMap
    <3>1. caller[c].phase = "ready"
      BY <1>2 DEF Submit
    <3>2. /\ caller'[c].last = caller[c].last /\ caller'[c].req = caller[c].req
          /\ caller'[c].cmd = caller[c].cmd
          /\ \A d \in Callers : d # c => caller'[d] = caller[d]
      BY <1>0, <2>2 DEF CallerType
    <3>3. AcksKept
      BY <3>2 DEF AcksKept
    <3>4. \A d \in Callers : caller'[d].phase \in {"ready", "waiting"} => caller'[d].last.kind # "ok"
      BY <3>1, <3>2 DEF CallersOK
    <3> QED BY <1>a, <3>3, <3>4
  <2> QED BY <1>2, <2>1, <2>2 DEF Submit
<1>3. ASSUME NEW c \in Callers, GiveUp(c) PROVE CallersOK' /\ AckMap' = AckMap
  <2>1. /\ caller'[c].last = caller[c].last /\ caller'[c].req = caller[c].req
        /\ caller'[c].cmd = caller[c].cmd /\ caller'[c].phase = "idle"
        /\ \A d \in Callers : d # c => caller'[d] = caller[d]
    BY <1>0, <1>3 DEF GiveUp, CallerType
  <2>2. AcksKept
    BY <2>1 DEF AcksKept
  <2>3. \A d \in Callers : caller'[d].phase \in {"ready", "waiting"} => caller'[d].last.kind # "ok"
    BY <2>1 DEF CallersOK
  <2> QED BY <1>a, <2>2, <2>3
<1>4. CASE Respond
  <2>1. CASE batch = <<>>
    BY <1>4, <1>b, <2>1 DEF Respond
  <2>2. CASE batch # <<>>
    <3>1. results # <<>> /\ Len(results) = Len(batch) /\ stage = "answering"
      BY <1>0, <1>4, <2>2 DEF Respond, BatchOK
    <3>2. /\ Head(batch) = batch[1] /\ 1 \in DOMAIN batch /\ 1 \in DOMAIN results
          /\ Head(results) = results[1]
      BY <1>0, <2>2, <3>1, TailSeq
    <3>3. PICK a \in Answers : a = results[1]
      BY <1>0, <3>2
    <3>4. PICK t \in Callers \cup {NoCaller} : t = batch[1].to
      <4>1. batch[1] \in Pendings
        BY <1>0, <3>2
      <4> QED BY <4>1 DEF Pendings
    <3>5. Tell(t, a) /\ UNCHANGED db
      BY <1>4, <2>2, <3>2, <3>3, <3>4 DEF Respond
    <3>6. t # NoCaller => /\ caller[t].phase = "waiting"
                          /\ caller[t].req = batch[1].req /\ caller[t].cmd = batch[1].cmd
      BY <3>2, <3>4 DEF PendingOK, Expected
    <3>7. CASE a.kind # "ok"
      BY <1>a, <3>5, <3>6, <3>7, ToldNothing
    <3>8. CASE t = NoCaller
      BY <1>b, <3>5, <3>8 DEF Tell
    <3>9. CASE a.kind = "ok" /\ t # NoCaller
      <4>1. /\ caller'[t].req = caller[t].req /\ caller'[t].cmd = caller[t].cmd
            /\ caller'[t].last = a /\ caller'[t].phase = "done"
            /\ \A d \in Callers : d # t => caller'[d] = caller[d]
        BY <1>0, <3>5, <3>9, TellEffect DEF Transient
      <4>2. PICK i \in DOMAIN db.effects :
              db.effects[i] = [req |-> batch[1].req, cmd |-> batch[1].cmd, pos |-> a.pos]
        BY <3>1, <3>2, <3>3, <3>9 DEF ResultsFound, TransactionOK, Found
      <4>3. db.effects[i] = [req |-> caller'[t].req, cmd |-> caller'[t].cmd, pos |-> caller'[t].last.pos]
        BY <3>6, <3>9, <4>1, <4>2
      <4>4. CallersOK'
        <5>1. Found(db, caller'[t].req, caller'[t].cmd, caller'[t].last.pos)
          BY <4>3 DEF Found
        <5>2. ASSUME NEW d \in Callers
              PROVE  /\ caller'[d].phase \in {"ready", "waiting"} => caller'[d].last.kind # "ok"
                     /\ caller'[d].last.kind = "ok" =>
                          Found(db, caller'[d].req, caller'[d].cmd, caller'[d].last.pos)
          BY <4>1, <5>1 DEF CallersOK
        <5> QED BY <3>5, <5>2 DEF CallersOK, Found
      <4>5. AckMap' = [AckMap EXCEPT ![t] = db.effects[i]]
        BY <3>9, <4>1, <4>3, AckMapChanged
      <4>6. AckMap[t] = [req |-> "none"]
        BY <3>6, <3>9 DEF AckMap, CallersOK
      <4> QED BY <3>5, <3>9, <4>4, <4>5, <4>6 DEF Acknowledges
    <3> QED BY <3>7, <3>8, <3>9
  <2> QED BY <2>1, <2>2
<1>5. CASE Drain
  <2>1. Head(queue) = queue[1] /\ 1 \in DOMAIN queue
    BY <1>0, <1>5, TailSeq DEF Drain
  <2>2. PICK t \in Callers \cup {NoCaller} : t = queue[1].to
    <3>1. queue[1] \in Pendings
      BY <1>0, <2>1
    <3> QED BY <3>1 DEF Pendings
  <2>3. Tell(t, Answer("closed", NoPos)) /\ Answer("closed", NoPos) \in Answers
        /\ Answer("closed", NoPos).kind # "ok"
    BY <1>5, <1>c, <2>1, <2>2 DEF Drain, Kinds
  <2>4. t # NoCaller => caller[t].phase = "waiting"
    BY <2>1, <2>2 DEF PendingOK, Expected
  <2> QED BY <1>a, <2>3, <2>4, ToldNothing
<1>6. CASE Crash
  <2>1. \A c \in Callers : /\ caller'[c].last = caller[c].last /\ caller'[c].req = caller[c].req
                           /\ caller'[c].cmd = caller[c].cmd
                           /\ caller'[c].phase \notin {"ready", "waiting"}
    BY <1>0, <1>6 DEF Crash, CallerType
  <2> QED BY <1>a, <2>1 DEF AcksKept
<1>7. CASE WriterLost
  <2>1. \A c \in Callers :
          IF caller[c].phase = "waiting"
          THEN caller'[c].last = Answer("unknown", NoPos)
          ELSE caller'[c] = caller[c]
    BY <1>0, <1>7 DEF WriterLost, CallerType
  <2>2. Answer("unknown", NoPos).kind # "ok"
    BY DEF Answer
  <2>3. AcksKept
    BY <2>1, <2>2 DEF AcksKept, CallersOK
  <2>4. \A c \in Callers : caller'[c].phase \in {"ready", "waiting"} => caller'[c].last.kind # "ok"
    BY <2>1, <2>2 DEF CallersOK
  <2> QED BY <1>a, <2>3, <2>4
<1>8. CASE \/ TakeBatch \/ Execute \/ ExecuteFails \/ AbortBatch \/ CommitOk \/ CommitRejected \/ CommitUnknown
           \/ Publish \/ Shutdown \/ End \/ Reopen \/ UNCHANGED vars
  <2>1. UNCHANGED caller
    BY <1>8 DEF TakeBatch, Execute, ExecuteFails, AbortBatch, CommitOk, CommitRejected, CommitUnknown, Publish,
                Shutdown, End, Reopen, vars
  <2> QED BY <1>b, <2>1
<1> QED BY <1>1, <1>2, <1>3, <1>4, <1>5, <1>6, <1>7, <1>8 DEF Next, Writer

(***************************************************************************)
(* Publication                                                             *)
(***************************************************************************)
LEMMA PublishedKept ==
  ASSUME Typed, PublishedInOrder, PublishedBelow, UNCHANGED published, stage' # "publishing",
         db'.seq \in Nat, db.seq <= db'.seq
  PROVE  PublishedInOrder' /\ PublishedBelow'
<1>1. published \in Seq(Positions) /\ db \in Databases
  BY DEF Typed, TypeOK
<1>2. \A i \in DOMAIN published : published[i][1] \in Nat
  BY <1>1 DEF Positions
<1>3. db.seq \in Nat
  BY <1>1, DatabaseFacts
<1>4. ASSUME NEW i \in DOMAIN published
      PROVE  published[i][1] < db'.seq \/ published[i][1] = db'.seq
  BY <1>2, <1>3 DEF PublishedBelow
<1> QED BY <1>4 DEF PublishedInOrder, PublishedBelow, Before

LEMMA PublishedStep ==
  ASSUME Typed, Typed', [Next]_vars, TransactionOK, TransactionOK', PublishedInOrder, PublishedBelow
  PROVE  PublishedInOrder' /\ PublishedBelow'
<1>0. /\ published \in Seq(Positions) /\ shown \in Nat /\ results \in Seq(Answers)
      /\ db \in Databases /\ tx \in Databases /\ db' \in Databases
  BY DEF Typed, TypeOK
<1>1. /\ \A i \in DOMAIN published : published[i][1] \in Nat /\ published[i][2] \in Nat
      /\ db.seq \in Nat /\ tx.seq \in Nat /\ db'.seq \in Nat
  BY <1>0, DatabaseFacts DEF Positions
<1>a. ASSUME UNCHANGED published, stage' # "publishing", db' \in {db, tx}
      PROVE  PublishedInOrder' /\ PublishedBelow'
  <2>1. tx.seq >= db.seq
    BY <1>1 DEF TransactionOK
  <2> QED BY <1>1, <1>a, <2>1, PublishedKept
<1>b. ASSUME UNCHANGED <<published, stage, shown, db>> PROVE PublishedInOrder' /\ PublishedBelow'
  BY <1>b DEF PublishedInOrder, PublishedBelow, Before
<1>c. ASSUME published' = <<>> PROVE PublishedInOrder' /\ PublishedBelow'
  BY <1>c DEF PublishedInOrder, PublishedBelow
<1>2. CASE CommitOk
  <2>1. UNCHANGED published /\ db'.seq = db.seq + 1
    BY <1>2 DEF CommitOk, Executed, TransactionOK
  <2>2. ASSUME NEW i \in DOMAIN published PROVE published[i][1] < db'.seq
    BY <1>1, <2>1 DEF PublishedBelow
  <2> QED BY <2>1, <2>2 DEF PublishedInOrder, PublishedBelow, Before
<1>3. CASE Publish
  <2>1. stage = "publishing" /\ UNCHANGED <<db, results>> /\ tx = db
    BY <1>3 DEF Publish, TransactionOK
  <2>2. CASE shown < Len(results) /\ Announces(shown + 1)
    <3>1. /\ shown' = shown + 1 /\ stage' = stage
          /\ published' = Append(published, <<db.seq, shown>>)
      <4>1. results[shown + 1].pos = <<tx.seq, (shown + 1) - 1>>
        BY <2>2 DEF Announces, Answer
      <4>2. (shown + 1) - 1 = shown
        BY <1>0
      <4> QED BY <1>3, <2>1, <2>2, <4>1, <4>2 DEF Publish
    <3>2. PICK q : q = <<db.seq, shown>>
      OBVIOUS
    <3>3. /\ published' = Append(published, q) /\ q[1] = db.seq /\ q[2] = shown
      BY <3>1, <3>2
    <3>4. /\ DOMAIN published' = 1..(Len(published) + 1) /\ published'[Len(published) + 1] = q
          /\ \A i \in DOMAIN published : published'[i] = published[i]
          /\ DOMAIN published = 1..Len(published) /\ Len(published) \in Nat
      BY <1>0, <3>3
    <3>5. \A i \in DOMAIN published' : i \in DOMAIN published \/ i = Len(published) + 1
      BY <3>4
    <3>6. ASSUME NEW i \in DOMAIN published
          PROVE  /\ Before(published[i], q)
                 /\ published[i][1] < db.seq \/ (published[i][1] = db.seq /\ published[i][2] < shown + 1)
      BY <1>0, <1>1, <2>1, <3>3 DEF PublishedBelow, Before
    <3>7. PublishedInOrder'
      BY <3>4, <3>5, <3>6 DEF PublishedInOrder
    <3>8. PublishedBelow'
      <4>1. ASSUME NEW i \in DOMAIN published'
            PROVE  published'[i][1] < db.seq \/ (published'[i][1] = db.seq /\ published'[i][2] < shown + 1)
        BY <1>0, <3>3, <3>4, <3>5, <3>6
      <4> QED BY <2>1, <3>1, <4>1 DEF PublishedBelow
    <3> QED BY <3>7, <3>8
  <2>3. CASE shown < Len(results) /\ ~Announces(shown + 1)
    <3>1. UNCHANGED <<published, stage, db>> /\ shown' = shown + 1
      BY <1>3, <2>3 DEF Publish
    <3>2. PublishedBelow'
      <4>1. ASSUME NEW i \in DOMAIN published
            PROVE  published[i][1] < db.seq \/ (published[i][1] = db.seq /\ published[i][2] < shown + 1)
        BY <1>0, <1>1, <2>1 DEF PublishedBelow
      <4> QED BY <3>1, <4>1 DEF PublishedBelow
    <3> QED BY <3>1, <3>2 DEF PublishedInOrder
  <2>4. CASE ~(shown < Len(results))
    BY <1>3, <1>a, <2>4 DEF Publish
  <2> QED BY <2>2, <2>3, <2>4
<1>4. CASE Crash \/ Reopen
  BY <1>4, <1>c DEF Crash, Reopen, Fresher
<1>5. CASE WriterLost
  <2>1. UNCHANGED published /\ stage' # "publishing" /\ db' \in {db, tx}
    BY <1>5, Zenon DEF WriterLost, Survives
  <2> QED BY <1>a, <2>1
<1>6. CASE TakeBatch \/ AbortBatch \/ CommitRejected \/ CommitUnknown \/ Respond \/ End
  <2>1. UNCHANGED published /\ stage' # "publishing" /\ db' \in {db, tx}
    BY <1>6 DEF TakeBatch, AbortBatch, CommitRejected, CommitUnknown, Respond, End, Conclude
  <2> QED BY <1>a, <2>1
<1>7. CASE Execute \/ ExecuteFails \/ Drain \/ Shutdown \/ UNCHANGED vars
           \/ \E c \in Callers : Begin(c) \/ Submit(c) \/ GiveUp(c)
  <2>1. UNCHANGED <<published, stage, shown, db>>
    BY <1>7 DEF Execute, ExecuteFails, Drain, Shutdown, vars, Begin, Submit, GiveUp
  <2> QED BY <1>b, <2>1
<1> QED BY <1>2, <1>3, <1>4, <1>5, <1>6, <1>7 DEF Next, Writer

(***************************************************************************)
(* The inductive invariant and what follows from it                        *)
(***************************************************************************)
IInv ==
  /\ Typed /\ PendingOK /\ TransactionOK /\ ResultsFound /\ CallersOK
  /\ PublishedInOrder /\ PublishedBelow

LEMMA InvInit == Init => IInv
<1> SUFFICES ASSUME Init PROVE IInv
  OBVIOUS
<1>1. Typed
  BY TypeInit DEF Typed
<1>2. db = EmptyDb /\ tx = EmptyDb /\ stage = "idle"
  BY DEF Init
<1>3. EmptyDb.effects = <<>> /\ EmptyDb.receipts = [r \in Requests |-> NoReceipt]
  BY DEF EmptyDb
<1>4. DatabaseOK(EmptyDb)
  BY <1>3 DEF DatabaseOK, EffectsReceipted, EffectsOrdered, ReceiptsFound
<1>5. TransactionOK
  BY <1>2, <1>3, <1>4 DEF TransactionOK, Extends
<1>6. PendingOK /\ ResultsFound /\ PublishedInOrder /\ PublishedBelow
  BY DEF Init, PendingOK, Distinct, Apart, ResultsFound, PublishedInOrder, PublishedBelow
<1>7. CallersOK
  <2>1. \A c \in Callers : caller[c].last = Answer("none", NoPos)
    BY DEF Init
  <2>2. Answer("none", NoPos).kind = "none"
    BY DEF Answer
  <2> QED BY <2>1, <2>2 DEF CallersOK
<1> QED BY <1>1, <1>5, <1>6, <1>7 DEF IInv

LEMMA InvStep == IInv /\ [Next]_vars => IInv'
<1> SUFFICES ASSUME IInv, [Next]_vars PROVE IInv'
  OBVIOUS
<1>0. /\ Typed /\ PendingOK /\ TransactionOK /\ ResultsFound /\ CallersOK
      /\ PublishedInOrder /\ PublishedBelow
  BY DEF IInv
<1>1. Typed' /\ PendingOK'
  BY <1>0, TypeStep, PendingStep
<1>2. TransactionOK' /\ ResultsFound' /\ Extends(db', db)
  BY <1>0, <1>1, StoreStep
<1>3. CallersOK'
  BY <1>0, <1>1, <1>2, CallersStep
<1>4. PublishedInOrder' /\ PublishedBelow'
  BY <1>0, <1>1, <1>2, PublishedStep
<1> QED BY <1>1, <1>2, <1>3, <1>4 DEF IInv

LEMMA Invariant == Spec => []IInv
BY InvInit, InvStep, PTL DEF Spec

LEMMA RequestsDistinct ==
  ASSUME NEW d \in Databases, DatabaseOK(d),
         NEW i \in DOMAIN d.effects, NEW j \in DOMAIN d.effects, d.effects[i].req = d.effects[j].req
  PROVE  i = j
<1>1. d.effects[i].pos = d.effects[j].pos
  <2>1. /\ d.receipts[d.effects[i].req] = [cmd |-> d.effects[i].cmd, pos |-> d.effects[i].pos]
        /\ d.receipts[d.effects[j].req] = [cmd |-> d.effects[j].cmd, pos |-> d.effects[j].pos]
    BY DEF DatabaseOK, EffectsReceipted
  <2>2. [cmd |-> d.effects[i].cmd, pos |-> d.effects[i].pos].pos = [cmd |-> d.effects[j].cmd, pos |-> d.effects[j].pos].pos
    BY <2>1
  <2> QED BY <2>2
<1>2. /\ i \in Nat /\ j \in Nat /\ d.effects[i].pos[1] \in Nat /\ d.effects[i].pos[2] \in Nat
  BY DatabaseFacts
<1>3. ~Before(d.effects[i].pos, d.effects[i].pos)
  BY <1>2 DEF Before
<1> QED BY <1>1, <1>2, <1>3 DEF DatabaseOK, EffectsOrdered

\* The state of the writer, of its queue and of both databases keeps its type;
\* results never outnumber the commands of the batch, which is what answering
\* them one by one relies on (kernel.rs, run_writer and commit_batch).
THEOREM WriterTyped == Spec => []TypeOK
BY Invariant, PTL DEF IInv, Typed

\* Every request identity takes effect at most once, at increasing positions,
\* and every acknowledged caller finds its command at the position it was
\* told, whatever fails, is repeated or is abandoned (execute's receipts).
THEOREM WriterAcknowledgedOnce == Spec => []AcknowledgedOnce
<1>1. IInv => AcknowledgedOnce
  <2> SUFFICES ASSUME IInv PROVE AcknowledgedOnce
    OBVIOUS
  <2>0. db \in Databases /\ DatabaseOK(db)
    BY DEF IInv, Typed, TypeOK, TransactionOK
  <2>1. ASSUME NEW i \in DOMAIN db.effects, NEW j \in DOMAIN db.effects, i < j
        PROVE  db.effects[i].req # db.effects[j].req /\ Before(db.effects[i].pos, db.effects[j].pos)
    <3>1. i # j
      BY <2>0, <2>1, DatabaseFacts
    <3> QED BY <2>0, <2>1, <3>1, RequestsDistinct DEF DatabaseOK, EffectsOrdered
  <2>2. ASSUME NEW c \in Callers, caller[c].last.kind = "ok"
        PROVE  \E i \in DOMAIN db.effects :
                 db.effects[i] = [req |-> caller[c].req, cmd |-> caller[c].cmd, pos |-> caller[c].last.pos]
    BY <2>2 DEF IInv, CallersOK, Found
  <2> QED BY <2>1, <2>2 DEF AcknowledgedOnce
<1> QED BY <1>1, Invariant, PTL

\* One process publishes positions in strictly increasing order: a replayed
\* receipt is not published again (commit_batch's publication loop).
THEOREM WriterPublishedInOrder == Spec => []PublishedInOrder
BY Invariant, PTL DEF IInv

(***************************************************************************)
(* Refinement                                                              *)
(***************************************************************************)
LEMMA LogInit == Init => Log!Init
<1> SUFFICES ASSUME Init PROVE Log!Init
  OBVIOUS
<1>1. db.effects = <<>>
  BY DEF Init, EmptyDb
<1>2. \A c \in Callers : caller[c].last.kind = "none"
  BY DEF Init, Answer
<1> QED BY <1>1, <1>2 DEF Log!Init, Log!NoAck

LEMMA LogStep == IInv /\ IInv' /\ [Next]_vars => [Log!Next]_(Log!vars)
<1> SUFFICES ASSUME IInv, IInv', [Next]_vars PROVE [Log!Next]_(Log!vars)
  OBVIOUS
<1>0. /\ Typed /\ PendingOK /\ TransactionOK /\ ResultsFound /\ CallersOK /\ Typed'
      /\ DatabaseOK(db') /\ db \in Databases /\ db' \in Databases
  BY DEF IInv, Typed, TypeOK, TransactionOK, DatabaseOK, EffectsReceipted, EffectsOrdered,
         ReceiptsFound, Found
<1>1. Extends(db', db)
  BY <1>0, StoreStep
<1>2. CASE AckMap' = AckMap
  <2>1. db'.effects \in Seq([req : Requests, cmd : Commands, pos : Nat \X Nat])
    BY <1>0, DatabaseFacts DEF Effects, Positions
  <2>2. /\ Len(db.effects) <= Len(db'.effects)
        /\ \A i \in DOMAIN db.effects : db'.effects[i] = db.effects[i]
    BY <1>1 DEF Extends
  <2>3. \A i, j \in DOMAIN db'.effects : db'.effects[i].req = db'.effects[j].req => i = j
    BY <1>0, RequestsDistinct
  <2>4. Log!TakeEffect
    BY <1>2, <2>1, <2>2, <2>3 DEF Log!TakeEffect, AckMap
  <2> QED BY <2>4 DEF Log!Next
<1>3. ASSUME NEW c \in Callers, Acknowledges(c) PROVE Log!Next
  <2>1. Log!Acknowledge(c)
    BY <1>3, Zenon DEF Acknowledges, Log!Acknowledge, Log!Entries, Log!NoAck, AckMap
  <2> QED BY <2>1 DEF Log!Next
<1>4. ASSUME NEW c \in Callers, Forgets(c) PROVE Log!Next
  <2>1. Log!Forget(c)
    BY <1>4, Zenon DEF Forgets, Log!Forget, Log!NoAck, AckMap
  <2> QED BY <2>1 DEF Log!Next
<1> QED BY <1>0, <1>1, <1>2, <1>3, <1>4, CallersStep

\* The writer, with its batches, failures, crashes and repeated requests,
\* implements the request log: what took effect is never changed or repeated,
\* and only what took effect is acknowledged.
THEOREM WriterImplementsLog == Spec => ImplementsLog
BY Invariant, LogInit, LogStep, PTL DEF Spec, ImplementsLog, Log!Spec
=============================================================================
