---------------------------- MODULE KernelWriter ----------------------------
(***************************************************************************)
(* The kernel's command writer (agena-storage-sqlite/src/kernel.rs) and    *)
(* the callers that repeat a request until they know its outcome.          *)
(*                                                                         *)
(* Callers admit commands to one bounded queue.  The writer takes a batch, *)
(* executes it in one SQLite transaction with a savepoint per command,     *)
(* stores a receipt for every request that took effect, commits, publishes *)
(* the new changes and answers.  The transaction may be aborted, COMMIT    *)
(* may be rejected or end with an unknown outcome, the process may crash   *)
(* at any point and callers may lose interest and ask again.               *)
(*                                                                         *)
(* What a command does to the domain tables is one row of `effects`; a     *)
(* digest is the command itself.  Whether a command is refused by the      *)
(* domain is left open.                                                    *)
(***************************************************************************)
EXTENDS Naturals, Sequences, FiniteSets

CONSTANTS Callers, Requests, Commands,
          MaxPending,   \* admission budget, in commands
          MaxBatch,     \* MAX_BATCH_COMMANDS
          MaxFaults,    \* bound: failed transactions, crashes, panics
          MaxBegins     \* bound: requests callers start or give up and start again

ASSUME WriterAssumption ==
  /\ MaxPending \in Nat \ {0} /\ MaxBatch \in Nat \ {0}
  /\ MaxFaults \in Nat /\ MaxBegins \in Nat
  /\ "none" \notin Requests

VARIABLES caller,      \* caller[c]: what a caller is waiting for
          queue,       \* admitted commands, in order
          admission,   \* "open", or "closed" after receiver.close()
          reads,       \* "open", or "closed" after cache.close()
          fatal,       \* "no", or "yes" once the writer must be reopened
          stage,       \* what the writer is doing
          batch,       \* the commands of the current batch, not yet answered
          results,     \* their results, as far as there are any
          tx,          \* the database as the open transaction sees it
          db,          \* the committed database
          shown,       \* how many results of the batch were published
          published,   \* positions this process published, in order
          faults, begins

writerVars == <<queue, admission, reads, fatal, stage, batch, results, tx>>
vars == <<caller, writerVars, db, shown, published, faults, begins>>

(***************************************************************************)
(* Data                                                                    *)
(***************************************************************************)
NoReceipt == [cmd |-> "none", pos |-> <<0, 0>>]
NoPos     == <<0, 0>>
NoCaller  == "none"

Answer(kind, pos) == [kind |-> kind, pos |-> pos]

\* Mutant: a caller also insists when the kernel has shut down.
TransientClosed == {"storage", "unknown", "busy", "closed"}

\* The errors after which persist() sends the request again.
Transient == {"storage", "unknown", "busy"}

Before(p, q) == p[1] < q[1] \/ (p[1] = q[1] /\ p[2] < q[2])

EmptyDb == [seq |-> 0, effects |-> <<>>, receipts |-> [r \in Requests |-> NoReceipt]]

\* Response channels: an answer reaches its caller unless the caller left.
Tell(c, a) ==
  IF c = NoCaller THEN UNCHANGED caller
  ELSE caller' = [caller EXCEPT ![c] =
                    [phase |-> IF a.kind \in Transient THEN "ready" ELSE "done",
                     req |-> @.req, cmd |-> @.cmd, last |-> a]]

Deserted(q, c) == [i \in DOMAIN q |-> IF q[i].to = c THEN [q[i] EXCEPT !.to = NoCaller] ELSE q[i]]

Init ==
  /\ caller = [c \in Callers |-> [phase |-> "idle", req |-> "none", cmd |-> "none",
                                  last |-> Answer("none", NoPos)]]
  /\ queue = <<>> /\ admission = "open" /\ reads = "open" /\ fatal = "no"
  /\ stage = "idle" /\ batch = <<>> /\ results = <<>>
  /\ db = EmptyDb /\ tx = EmptyDb
  /\ shown = 0 /\ published = <<>>
  /\ faults = 0 /\ begins = 0

(***************************************************************************)
(* Callers                                                                 *)
(***************************************************************************)
\* A caller starts a request, or repeats one whose answer it lost.  The same
\* identity may come from another caller and even with another command.
Begin(c) ==
  /\ caller[c].phase \in {"idle", "done"} /\ begins < MaxBegins
  /\ begins' = begins + 1
  /\ \E r \in Requests, m \in Commands :
        caller' = [caller EXCEPT ![c] = [phase |-> "ready", req |-> r, cmd |-> m,
                                         last |-> Answer("none", NoPos)]]
  /\ UNCHANGED <<writerVars, db, shown, published, faults>>

\* Backend::commit up to the wait: admission by budget.
Submit(c) ==
  /\ caller[c].phase = "ready"
  /\ IF admission = "closed"
     THEN Tell(c, Answer("closed", NoPos)) /\ UNCHANGED queue
     ELSE IF Len(queue) + Len(batch) >= MaxPending
     THEN Tell(c, Answer("busy", NoPos)) /\ UNCHANGED queue
     ELSE /\ queue' = Append(queue, [req |-> caller[c].req, cmd |-> caller[c].cmd, to |-> c])
          /\ caller' = [caller EXCEPT ![c].phase = "waiting"]
  /\ UNCHANGED <<admission, reads, fatal, stage, batch, results, tx, db, shown, published, faults, begins>>

\* A caller stops waiting (timeout, lost connection, cancelled future); its
\* command stays where it is.
GiveUp(c) ==
  /\ caller[c].phase \in {"ready", "waiting"} /\ begins < MaxBegins
  /\ begins' = begins + 1
  /\ caller' = [caller EXCEPT ![c].phase = "idle"]
  /\ queue' = Deserted(queue, c) /\ batch' = Deserted(batch, c)
  /\ UNCHANGED <<admission, reads, fatal, stage, results, tx, db, shown, published, faults>>

(***************************************************************************)
(* The writer                                                              *)
(***************************************************************************)
Fault == faults < MaxFaults /\ faults' = faults + 1

\* The collection window: some commands at the head of the queue, and a
\* transaction with the next commit sequence.
TakeBatch ==
  /\ stage = "idle" /\ queue # <<>> /\ fatal = "no"
  /\ \E n \in 1..Len(queue) :
        /\ n <= MaxBatch
        /\ batch' = SubSeq(queue, 1, n)
        /\ queue' = SubSeq(queue, n + 1, Len(queue))
  /\ stage' = "executing" /\ results' = <<>>
  /\ tx' = [db EXCEPT !.seq = @ + 1]
  /\ UNCHANGED <<caller, admission, reads, fatal, db, shown, published, faults, begins>>

Position == <<tx.seq, Len(results)>>

\* Mutant: an earlier receipt is replayed for any command of its request.
ReplayUnchecked(p) == Answer("ok", tx.receipts[p.req].pos)

\* execute finds a receipt: the same digest replays it.
Replay(p) ==
  IF tx.receipts[p.req].cmd = p.cmd
  THEN Answer("ok", tx.receipts[p.req].pos)
  ELSE Answer("conflict", NoPos)

\* Mutant: the effect is stored without its receipt.
ApplyUnreceipted(p) ==
  tx' = [tx EXCEPT !.effects = Append(@, [req |-> p.req, cmd |-> p.cmd, pos |-> Position])]

\* execute applies the command and stores its receipt at this position.
Apply(p) ==
  tx' = [tx EXCEPT !.effects = Append(@, [req |-> p.req, cmd |-> p.cmd, pos |-> Position]),
                   !.receipts[p.req] = [cmd |-> p.cmd, pos |-> Position]]

\* One command under its savepoint: replayed, refused or applied.
Execute ==
  /\ stage = "executing" /\ Len(results) < Len(batch)
  /\ LET p == batch[Len(results) + 1]
     IN  \/ /\ tx.receipts[p.req] # NoReceipt
            /\ results' = Append(results, Replay(p))
            /\ UNCHANGED tx
         \/ /\ tx.receipts[p.req] = NoReceipt
            /\ results' = Append(results, Answer("refused", NoPos))
            /\ UNCHANGED tx
         \/ /\ tx.receipts[p.req] = NoReceipt
            /\ results' = Append(results, Answer("ok", Position))
            /\ Apply(p)
  /\ UNCHANGED <<caller, queue, admission, reads, fatal, stage, batch, db, shown, published, faults, begins>>

\* A statement of one command fails; its savepoint is rolled back and the
\* batch goes on.
ExecuteFails ==
  /\ stage = "executing" /\ Len(results) < Len(batch) /\ Fault
  /\ results' = Append(results, Answer("storage", NoPos))
  /\ UNCHANGED <<caller, queue, admission, reads, fatal, stage, batch, tx, db, shown, published, begins>>

\* A result of this transaction, not a replay of an earlier one.
Fresh(a) == a.kind = "ok" /\ a.pos[1] = tx.seq

\* Mutant: the results are extended by one too many.
AbortedOverlong(e) == [i \in 1..(Len(batch) + 1) |-> Answer(e, NoPos)]

\* aborted_batch: only replays of earlier commits survive.
Aborted(e) ==
  [i \in DOMAIN batch |->
     IF i <= Len(results) /\ results[i].kind = "ok" /\ ~Fresh(results[i])
     THEN results[i] ELSE Answer(e, NoPos)]

\* The error arm of COMMIT: fresh results are withdrawn, the others stand.
Failed(e) ==
  [i \in DOMAIN batch |-> IF Fresh(results[i]) THEN Answer(e, NoPos) ELSE results[i]]

\* The end of a batch: the writer is fatal as soon as one result is Unknown or
\* Closed, and then closes admission and reads; r is what reads are otherwise.
Conclude(rs, r) ==
  /\ results' = rs /\ stage' = "answering"
  /\ IF \E i \in DOMAIN rs : rs[i].kind \in {"unknown", "closed"}
     THEN fatal' = "yes" /\ admission' = "closed" /\ reads' = "closed"
     ELSE reads' = r /\ UNCHANGED <<fatal, admission>>

\* BEGIN, a savepoint or a query before COMMIT fails ("storage"); the rollback
\* may fail as well ("closed").
AbortBatch ==
  /\ stage = "executing" /\ Fault
  /\ \E e \in {"storage", "closed"} : Conclude(Aborted(e), reads)
  /\ tx' = db
  /\ UNCHANGED <<caller, queue, batch, db, shown, published, begins>>

Executed == stage = "executing" /\ Len(results) = Len(batch)

CommitOk ==
  /\ Executed
  /\ db' = tx /\ stage' = "publishing" /\ shown' = 0
  /\ UNCHANGED <<caller, queue, admission, reads, fatal, batch, results, tx, published, faults, begins>>

\* COMMIT answers busy, locked or constraint: it did not take effect.
CommitRejected ==
  /\ Executed /\ Fault
  /\ Conclude(Failed("storage"), reads)
  /\ tx' = db
  /\ UNCHANGED <<caller, queue, batch, db, shown, published, begins>>

\* COMMIT fails in any other way and may have taken effect; the cache is
\* closed whatever the results are.
CommitUnknown ==
  /\ Executed /\ Fault
  /\ Conclude(Failed("unknown"), "closed")
  /\ db' \in {db, tx} /\ tx' = db'
  /\ UNCHANGED <<caller, queue, batch, shown, published, begins>>

\* Mutant: replays are announced again.
AnnouncesReplays(i) == results[i].kind = "ok"

\* A result is announced at its own position only, so a replay never is.
Announces(i) == results[i] = Answer("ok", <<tx.seq, i - 1>>)

\* The changes of the batch are published one by one.
Publish ==
  /\ stage = "publishing"
  /\ IF shown < Len(results)
     THEN /\ shown' = shown + 1
          /\ published' = IF Announces(shown + 1)
                          THEN Append(published, results[shown + 1].pos) ELSE published
          /\ UNCHANGED stage
     ELSE stage' = "answering" /\ UNCHANGED <<shown, published>>
  /\ UNCHANGED <<caller, queue, admission, reads, fatal, batch, results, tx, db, faults, begins>>

\* The answers go out one by one; each releases its admission permit.
Respond ==
  /\ stage = "answering"
  /\ IF batch = <<>>
     THEN stage' = "idle" /\ UNCHANGED <<caller, batch, results>>
     ELSE /\ Tell(Head(batch).to, Head(results))
          /\ batch' = Tail(batch) /\ results' = Tail(results)
          /\ UNCHANGED stage
  /\ UNCHANGED <<queue, admission, reads, fatal, tx, db, shown, published, faults, begins>>

\* A fatal writer answers what is still queued with Closed.
Drain ==
  /\ stage = "idle" /\ fatal = "yes" /\ queue # <<>>
  /\ Tell(Head(queue).to, Answer("closed", NoPos))
  /\ queue' = Tail(queue)
  /\ UNCHANGED <<admission, reads, fatal, stage, batch, results, tx, db, shown, published, faults, begins>>

\* Work::Shutdown closes admission; what is queued is still executed.
Shutdown ==
  /\ admission = "open" /\ Fault
  /\ admission' = "closed"
  /\ UNCHANGED <<caller, queue, reads, fatal, stage, batch, results, tx, db, shown, published, begins>>

\* The writer's loop ends when admission is closed and nothing is queued.
End ==
  /\ stage = "idle" /\ admission = "closed" /\ queue = <<>>
  /\ stage' = "ended" /\ reads' = "closed"
  /\ UNCHANGED <<caller, queue, admission, fatal, batch, results, tx, db, shown, published, faults, begins>>

(***************************************************************************)
(* Failures of the process                                                 *)
(***************************************************************************)
Fresher == /\ queue' = <<>> /\ batch' = <<>> /\ results' = <<>>
           /\ shown' = 0 /\ published' = <<>>

\* compose_database on an ended or lost process.
Reopen ==
  /\ stage = "ended"
  /\ stage' = "idle" /\ admission' = "open" /\ reads' = "open" /\ fatal' = "no"
  /\ Fresher
  /\ UNCHANGED <<caller, tx, db, faults, begins>>

\* What a transaction in flight may leave behind.
Survives == IF Executed THEN {db, tx} ELSE {db}

\* The process dies and is started again; callers lose their connection.
Crash ==
  /\ stage # "ended" /\ Fault
  /\ db' \in Survives /\ tx' = db'
  /\ caller' = [c \in Callers |->
                   IF caller[c].phase \in {"ready", "waiting"}
                   THEN [caller[c] EXCEPT !.phase = "idle"] ELSE caller[c]]
  /\ stage' = "idle" /\ admission' = "open" /\ reads' = "open" /\ fatal' = "no"
  /\ Fresher
  /\ UNCHANGED begins

\* The writer task alone dies: the response channels disconnect, which callers
\* see as CommitUnknown, and later commands are refused as Closed.
WriterLost ==
  /\ stage # "ended" /\ Fault
  /\ db' \in Survives /\ tx' = db'
  /\ caller' = [c \in Callers |->
                   IF caller[c].phase = "waiting"
                   THEN [caller[c] EXCEPT !.phase = "ready", !.last = Answer("unknown", NoPos)]
                   ELSE caller[c]]
  /\ stage' = "ended" /\ admission' = "closed"
  /\ queue' = <<>> /\ batch' = <<>> /\ results' = <<>>
  /\ UNCHANGED <<reads, fatal, shown, published, begins>>

Writer == \/ TakeBatch \/ Execute \/ CommitOk \/ Publish \/ Respond \/ Drain \/ End

Next ==
  \/ Writer \/ ExecuteFails \/ AbortBatch \/ CommitRejected \/ CommitUnknown
  \/ Shutdown \/ Reopen \/ Crash \/ WriterLost
  \/ \E c \in Callers : Begin(c) \/ Submit(c) \/ GiveUp(c)

Spec == Init /\ [][Next]_vars

(***************************************************************************)
(* Fairness: the writer task runs until it ends, and a caller in persist() *)
(* sends its request again after its back-off.  Failures, shutdown,        *)
(* restarts and impatience are never required.                             *)
(***************************************************************************)
Fairness == WF_vars(Writer) /\ \A c \in Callers : WF_vars(Submit(c))

FairSpec == Spec /\ Fairness

(***************************************************************************)
(* Properties                                                              *)
(***************************************************************************)
Positions == Nat \X Nat
Effects   == [req : Requests, cmd : Commands, pos : Positions]
Kinds     == {"none", "ok", "conflict", "refused", "storage", "unknown", "busy", "closed"}
Answers   == [kind : Kinds, pos : Positions]
Pendings  == [req : Requests, cmd : Commands, to : Callers \cup {NoCaller}]
Databases == [seq : Nat, effects : Seq(Effects),
              receipts : [Requests -> [cmd : Commands \cup {"none"}, pos : Positions]]]

\* Every variable has its type; results never outnumber their commands.
TypeOK ==
  /\ caller \in [Callers -> [phase : {"idle", "ready", "waiting", "done"},
                             req : Requests \cup {"none"}, cmd : Commands \cup {"none"},
                             last : Answers]]
  /\ queue \in Seq(Pendings) /\ batch \in Seq(Pendings) /\ results \in Seq(Answers)
  /\ Len(results) <= Len(batch)
  /\ admission \in {"open", "closed"} /\ reads \in {"open", "closed"} /\ fatal \in {"no", "yes"}
  /\ stage \in {"idle", "executing", "publishing", "answering", "ended"}
  /\ db \in Databases /\ tx \in Databases
  /\ shown \in Nat /\ published \in Seq(Positions)
  /\ faults \in Nat /\ begins \in Nat

\* A request identity takes effect at most once, at increasing positions, and
\* every acknowledged caller finds its own command at the position it was told,
\* across aborted batches, unknown commits, crashes, duplicates in one batch and
\* answers nobody waited for.
AcknowledgedOnce ==
  /\ \A i, j \in DOMAIN db.effects : i < j =>
        /\ db.effects[i].req # db.effects[j].req
        /\ Before(db.effects[i].pos, db.effects[j].pos)
  /\ \A c \in Callers : caller[c].last.kind = "ok" =>
        \E i \in DOMAIN db.effects :
           db.effects[i] = [req |-> caller[c].req, cmd |-> caller[c].cmd,
                            pos |-> caller[c].last.pos]

\* Subscribers of one process see every commit at most once and in order: a
\* replayed receipt is never published again, although its batch commits anew.
PublishedInOrder ==
  \A i, j \in DOMAIN published : i < j => Before(published[i], published[j])

\* A caller that is told "storage" may repeat its request as if nothing had
\* happened, and one that is told "unknown" too: a request that is repeated
\* until it is acknowledged has its effect exactly once.  Every waiting or
\* retrying caller gets a final answer or leaves.
Answered ==
  \A c \in Callers : caller[c].phase \in {"ready", "waiting"}
                        ~> caller[c].phase \in {"idle", "done"}

\* The promise of the kernel to its callers.
Log == INSTANCE RequestLog
         WITH log <- db.effects,
              ack <- [c \in Callers |->
                        IF caller[c].last.kind = "ok"
                        THEN [req |-> caller[c].req, cmd |-> caller[c].cmd, pos |-> caller[c].last.pos]
                        ELSE [req |-> "none"]]

\* The writer implements the request log.
ImplementsLog == Log!Spec
=============================================================================
