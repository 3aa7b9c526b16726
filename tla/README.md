# Agena: verification of the session runtime

Agena is a local runtime for language-model agents. One process holds an HTTP
server, a SQLite database and any number of *sessions*; terminal and web clients
send messages, watch what happens and answer questions. This directory models
the part of it whose mistakes are hardest to see in a test: the durable session
kernel and its writer, the feed that tells clients what was committed, the
boundary at which late input is still taken into a run, the supervision of runs,
the scheduler, and the caches and tokens through which clients read.

Paths below are relative to the repository root, which the modules' map calls
`src/`. Short names: *storage* is `crates/agena-storage`, *sqlite* is
`crates/agena-storage-sqlite/src/kernel`, *manager* is
`crates/agena-runtime-session/src/session/manager`, *server* is
`crates/agena-api-server/src`.

## 1. Inventory

| Part | State it keeps | Operations | Status |
| --- | --- | --- | --- |
| **Committed-change feed** (`storage/src/kernel/watch.rs`) | ring of retained changes, head, floor, reset floor, broadcast channel, one receiver per watch | publish, invalidate, close, watch, watch_all, recv, try_recv | modelled: `ChangeFeed` |
| **Kernel writer** (`crates/agena-storage-sqlite/src/kernel.rs`) | queue of requests, receipts by request id, the batch in its transaction, the fatal flag | admit, replay a receipt, apply in a savepoint, COMMIT, publish, answer, shut down, reopen | modelled: `KernelWriter`, implementing `RequestLog` |
| **Session kernel** (`sqlite/{schema,commands,lifecycle,activity}.rs`, `agena-domain/src/session_kernel.rs`) | sessions, executions, attempts, rounds, tool calls, interactions, activities, counters, `processing_state` | create, send, retry, continue, claim, cancel, finish, rounds, tools, interactions, activities, pause, withdraw, delete, recover | partly: `SessionKernel` |
| **Stop boundary and deliveries** (`sqlite/{stop,input_window,lifecycle}.rs`, `manager/deliveries.rs`, `manager/agents.rs`) | deliveries, their notices in the history, observed rounds, `stop_requested`, the prompt window | Deliver, DeliverToExecution, ConsumeDelivery, ResumeDelivery, FinishAgent, PrepareStop, observe_round, compaction, idle recovery | modelled: `StopBoundary` |
| **Execution supervisor** (`manager/{execution,commands,agents}.rs`) | registered runs, the dispatch chain, the execution and the submission lock, permits | submit, continue, pause, resume, stop, cancel an attempt, claim, drive, retire, recover the queue, settle an agent | partly: `Supervisor`; the loop of `drive_execution` in `StopBoundary` |
| **Scheduler** (`crates/agena-scheduler`) | job rows, claims and leases, retries, history | add, pause, resume, update, remove, admit, claim, renew, deliver, complete | modelled: `Scheduler` |
| **Read cache** (`sqlite/read_cache.rs`) | entries, generation, commit fence, index of event blocks | look up, fill, invalidate, evict, clear, close, page of events | the cache is modelled: `ReadCache`; rendering of frozen prompts is not |
| **Resource revisions** (`server/revisions.rs`) | a clock, its tokens per key, one shared watch | tick, set, reset, drain the watch, conditional read | partly: `ResourceRevisions` |
| **Session lists and their keys** (`server/revisions.rs`, `sqlite/../kernel.rs`, the list queries) | none of their own: facts captured with every command | capture facts, derive keys, list, count, total | partly: `SessionLists` |
| **Live projection** (`server/live.rs`) | one watch and one bounded queue per subscriber | subscribe, snapshot, drain, recover from a reset, send tokens | partly: `ChangeFeed`, `ResourceRevisions` |
| Agents, prompts, titles, queries (`manager`) | text and configuration | launch, settle, render, summarise, list | partly: an agent's launch, settlement and result in `StopBoundary` and `Supervisor` |
| Content streams, blobs, snapshots, history views; branches, import, archive | append-only chunks, seals, references | append, seal, prune, page, fork, import, export | not modelled (section 7) |
| Runtime composition, async helpers, permission rules, rollout files, notifications, providers, MCP, LSP, plugins, processes, secrets, user interfaces | mostly external | construction, I/O, encoding, presentation | not modelled (section 7) |

**How the parts interact.** A client's request becomes a *command* of the writer,
the only task that changes the database. Commands are batched into one SQLite
transaction, each in a savepoint of its own; after COMMIT the writer invalidates
the read cache, publishes one change per command to the feed and only then
answers. Subscribers combine the feed with snapshots that they read from the
database, through the cache. HTTP reads are conditional: a token per resource key
comes from one clock, which hears of changes on a watch of the feed. The
supervisor starts a task for every queued execution; the task waits for its
predecessor, claims its attempt, then loops: consume deliveries, run a provider
round, run tools, ask whether it may stop, finish. Tools start background agents
and scheduled jobs fire; both come back as deliveries, to a running attempt or,
when the session is idle, by reopening an execution. When the process ends, the
next one's `recover` settles everything that ran.

**What is hard here.** The writer serializes commands, so the difficulty lies
between them: handles of an ended attempt used after a retry; an outcome and a
cancellation that cross; guidance accepted between the decision to stop and the
command that records success; a snapshot read while changes are being published;
a cursor that outlives the ring or the process; a COMMIT whose outcome nobody
knows and the request that is then repeated; a registration that retires while
its session is resumed; a lease lost in the middle of a delivery; a cache filled
from a read that began before a commit; a token taken before and a body read
after a change. `PROJECT.json` lists these hazards at the lines where they bite,
with the properties that watch them.

**What makes each part correct.**

- Feed: whoever has drained its watch without being told to reset knows
  everything that was committed; nothing is delivered twice within a process.
- Writer: a request identity takes effect at most once, every acknowledgement is
  true, changes are announced once and in commit order, every caller that keeps
  asking gets a final answer.
- Session kernel: at most one execution of a session runs; an outcome is final;
  counters and presentation equal what they stand for; nothing stays in flight
  without a running attempt of this process that owns it.
- Stop boundary: an execution does not succeed over guidance it accepted; guidance
  never outlives its owner; every other business delivery is eventually consumed.
- Supervisor: a running attempt has one owner; a stop keeps queued input from
  starting and cancels only what its caller saw; queued input is served and nobody
  waits forever.
- Scheduler: no job is stranded; an occurrence reaches its session once; an
  outcome is final; without a fault only one slot delivers a job; fires settle.
- Read cache: no read is older than the last commit acknowledged before it began;
  a page is one committed cut.
- Revisions and lists: 304 is answered only for a current body (which fails for changes
  that no one announces, section 5); every body that a command changes loses its token.

## 2. How the project is organised

| Module | What it composes | Proof module | Runs |
| --- | --- | --- | --- |
| `ChangeFeed` | the writer's commit point, the feed, subscribers with their snapshots | `ChangeFeedProofs` | `feed` |
| `SessionKernel` | commands of the kernel and recovery | `SessionKernelProofs` | `kernel` |
| `StopBoundary` | deliveries, stop decision, driver loop, idle recovery | `StopBoundaryProofs` | `stop` |
| `KernelWriter` | callers, admission, batches, receipts, outcomes of COMMIT, crashes | `KernelWriterProofs` | `writer` |
| `RequestLog` | abstract: what the kernel promises its callers | refined by `KernelWriter` | `writer` |
| `Supervisor` | registry, chain, locks, permits, clients' operations, agent settlement | `SupervisorProofs` | `supervisor`, `supervisor_live`, `supervisor_pause` |
| `Scheduler` | job rows, slots of several processes, editors, the session sink | `SchedulerProofs` | `scheduler`, `scheduler_live` |
| `ReadCache` | the writer's fence and concurrent readers | `ReadCacheProofs` | `cache` |
| `ResourceRevisions` | feed, shared watch, clock, conditional reads, a live subscriber | `ResourceRevisionsProofs` | `revisions`, `revisions_silent` |
| `SessionLists` | commands, captured facts, keys and the bodies of the queries | `ResourceRevisionsProofs` | `revisions` |

Every component has an `MC` module that only declares model values, maps,
symmetry and the instances of its run; configurations replace no definition.
Mutants (operators named for a slip, next to the definition they change) are not
part of any specification.

## 3. Modules

### ChangeFeed

The *writer* (`log`, `pub`, `reset`, `writer`, `epoch`, `base`) holds what is
committed and how much of it has been published. `CommitBatch` is a successful
COMMIT of several commands, `CommitUnknown` one whose outcome is unknown: the
writer becomes fatal, announces nothing and closes the feed. A batch that is
refused or rolled back changes nothing and is a stutter. `PublishChange` and
`PublishOverBudget` are the two ends of `publish_scoped`; `Invalidate` follows
the last change of a batch that touched other sessions than its notice names
(`also`, entries shared by a fork's family). Checkpoints of content streams and
imports commit through the same path and are batches with an empty `also`,
because a fork freezes what it inherits at its cut. `Restart` may happen between
COMMIT and publication.

The *feed* (`sender`, `head`, `floor`, `resetFloor`, `replay`, `sent`) follows the
fields of `FeedState`; `sent` is the whole broadcast channel, of which a receiver
sees only the last `ChannelCapacity` notices (`Overrun`).

A *subscriber* (`open`, `fresh`, `replayQ`, `next`, `lagged`, `cursor`, `applied`)
is a `KernelWatch` together with its client's cycle from `live.rs`: subscribe
first, read a snapshot, drain, and after a reset replace the watch before reading
again. `applied` is a history variable, the effects the client's copy reflects.
The HTTP layer passes no cursor today; `Resume` models the interface that
`watch` offers to any caller that kept one.

### KernelWriter and RequestLog

`RequestLog` is the promise: a log that only grows, in which a request identity
occurs at most once, and acknowledgements that name the place of their request.
`KernelWriter` is the writer task and its callers. A caller (`caller`) begins a
request, submits it, waits and, after an error that `transient` names, submits it
again; `GiveUp` is a caller whose future was dropped, which may `Begin` the same
identity again, from another caller and even with another command. The writer
takes a batch, executes each command in `tx` (`Execute`: a stored receipt is
replayed or is a conflict, otherwise the command takes effect or is refused),
commits, publishes what is new and answers. `AbortBatch`, `CommitRejected` and
`CommitUnknown` are the failures of a transaction; `Survives` leaves open whether
an unknown COMMIT reached the disk. `Crash`, `WriterLost` and `Reopen` are process
faults; `Shutdown` and `End` the orderly close. A command's digest is the command,
its effect one row of `effects`. The refinement maps the log to `db.effects` and
the acknowledgements to the callers' last answers.

### SessionKernel

One command is one step. An execution is named by its message id, which grows in
creation order; an attempt by its generation. A handle is the triple
`<<execution, generation, epoch>>` and may be used at any later time in the same
process, which is how every stale handle is covered: the attempt actions take any
generation, and `CheckScope` decides. `FinishAll` is `finish` with
`settle_children`; `Triggered` and `Untriggered` say whether a command fires the
summary triggers of `schema.rs` or only `refresh_paused_summary`. `Restart` is
`recover`, with its recounts reading the state before phases change, in the order
of its statements. Metadata, model selection, `EditQueued`, content, blobs and
forks are left out: they change none of these columns.

### StopBoundary

One session whose queue is not paused and has no control executions (both are in
`SessionKernel`). Commands are atomic; the driver's reads and writes are separate
steps (`ReadPage`, `Consume`, `BeginRound`, `FinishRound`, `Compact`, `EndTools`,
`PrepareStop`, `StopHook`, `Finish`, `Abort`), so publication, cancellation,
continuation and recovery fall between any two of them. A delivery's identity
orders every scan and is chosen freely, since identities need not follow the order
of publication across senders. Abstractions:

- the 64-entry pages of `consume_boundary_deliveries` are read as one page;
- the history holds messages and notices only, each with its position;
- the message of the newest entry, which `start_existing` and a delivery without a
  message use, is any visible message;
- what the scheduler may still do is the parameter `waiting` of `PrepareStop`;
- provider errors, hook failures and the turn budget are `Abort`, possible at any
  stage;
- the start and the commit of a compaction are one step, because only the driver
  records notices in between;
- publishing a business key again changes nothing and is a stutter.

The agent's settlement has its two commands as two steps (`EndActivity`,
`FinishAgent`); the state `lost` is a result whose process died before the second.
Reports of background processes read the message of their tool and publish in a
second step; `LaunchIndependent` followed by `FinishAgent` stands for them too.

### Supervisor

One session. Executions are numbered by their message, so numbers are queue order;
phase, generation and pause are durable, everything else is lost in a `Crash`. A
run occupies a slot from its registration until it settled, and with it one
admission permit (`Capacity`); `pred` is its predecessor in the dispatch chain, 0
once that settled. A run waits, takes the execution lock (`driver`), claims, drives
and retires; a refused claim ends it, and a run that retires starts the recovery of
the queue. Clients' operations (`op`) are submit, continue, pause, resume, stop and
the cancellation of an exact attempt, step by step where the code awaits: the
submission lock (`holder`), the read of what is current, the kernel command, the
registration. `recovery`, `scan` and `watch` are actors of their own: the recovery
after a retirement, the periodic scan, and the settlement task of a spawned agent
with its time limit. `Agent` says whether the session is a spawned agent,
`Scanning` whether the periodic scan runs. `Crash` includes the next process's
`recover`: running attempts end, and with them the queued input of an agent that was
not settled, or was settled as interrupted (`Withheld`; the agent's recorded status is
otherwise left open). Two steps of the code are merged: `Retire` releases the lock,
settles the registration and drops the permit at once, and the agent's watch reads the
current attempt and signals it in one step (`Signal`). Left out: orderly shutdown,
the launch of an agent's followup (`manager/agents.rs:355`), the time limit of a
subagent that its parent drives directly, the tree of a session stop, model routes that
cannot be resolved, and other sessions' use of the permits; control executions behave
like `Send`.

### Scheduler

A job is a row: its JSON, a claim key and the time of its last renewal. Every
change is a compare-and-swap on what a caller read before, so an edit is two steps
(read, `EditWrite`) and so is a completion. `Admit` joins the worker's read of a due row
with the claim computed from it; the claim itself compares and swaps in a later step.
The slots of several processes admit a
due job, claim it, call the sink while a renewal task keeps the lease, and
finalize with retries. `now` counts schedule instants and instant 0 means none;
leases and retry back-offs are not numbers: `leaseOver` and `retryOver` hold the
jobs whose lease or back-off the clock has passed, in any order, so every relation
between lease, back-off and schedule is covered. `SetBack` is a correction of the
wall clock; `Crash`, `Stall` and `LoseRenewal` lose a process or a lease. The sink publishes a
delivery under a key made of job and occurrence, as `SessionSink` does.

### ReadCache

The writer brackets COMMIT with a fence: pause, COMMIT, invalidate the owners the
transaction touched, resume after publication. A reader looks a key up, on a miss
queries SQLite, and installs what it read under the generation it captured before.
The value of a key is the number of commits that changed it. A page of content
events is assembled from two cached views and served only if no fence was raised in
between. Views have equal size, so bytes are entries, and any entry may be the one
that makes room. That the owners a batch names cover what it changed is assumed.

### ResourceRevisions

Committed changes either arrive through the feed or are signalled after the
mutation (runtime signals, workspace changes); `hits` are the keys whose bodies a
change alters. Every request drains the shared watch under its mutex (`holder`,
`step`), stamps the keys of each change under the clock's lock (`busy`, `todo`),
captures a token, reads the body and answers. The watch may fall behind, be reset
and be reopened; the clock remembers `Capacity` keys and moves its reset revision
when it forgets one. A live subscriber hears of a change on a watch of its own,
refreshes the clock and is sent the tokens. A *derived* key has no change of its
own and is stamped with the revision of what it derives from. A change of kind *silent*
is a workspace command of the JSON-RPC transports, which nobody announces; `need` holds
the announced changes of a key when a request for it begins, `unheard` the silent ones
that had been answered by then. `NotModifiedExact` is about `need` and
`NotModifiedAnswered`, which the code violates (section 5), about both. The parameter
`Skew` is the difference between the two readings of the wall clock in `Clock::new`.
Left out: a kernel reopened under another epoch, a closed watch, the reset for a change
without list facts (`revisions.rs:236`; `execute` always records them, `kernel.rs:2242`),
bodies validated by their hash, tokens sent with runtime signals, the client's own
cache.

### SessionLists

The commands that move listing facts (create, fork or import as `Create`, configure,
move, mark, run, reparent, delete), the facts `execute` captures before and after,
the keys `list_change_keys` derives from them, and the bodies as the list, count
and workspace queries select them. A version that alternates stands for the columns
a body shows but no query filters on. Conversation visibility is changed through
`Configure`; reparenting is admitted by the kernel although no caller uses it.
Title search, the `exclude_subagents` filter (`sqlite/lifecycle.rs:911`), counts with
hierarchy filters, paging and order are left out, and the column of running sessions in
the statistics is not claimed (section 5). The names `ListsInit`, `ListsNext`,
`ListsSpec` and `ListsTypeOK` are prefixed because the proof module and the `MC` module
of `ResourceRevisions` extend this module too.

## 4. Runs

| Run | Instance | Checks | Distinct states |
| --- | --- | --- | --- |
| `feed` | a client of one session and one of all, 2 commits in a batch of up to 2, 2 processes; or one of the clients, 4 commits, 1 process; ring 2, channel 2 | `NoSilentGap`, `CursorMovesForward` | 1,890,944 |
| `kernel` | 1 execution with 2 attempts, a tool, an interaction and an activity; or 2 executions of one session with 2 attempts; or 2 executions of 2 sessions; a restart | `CountersExact`, `OneRunner`, `NothingLeftBehind`, `SummaryExact`, `AttemptHistory` | 360,858 |
| `stop` | 2 executions and 2 deliveries; or 1 execution, 2 deliveries or 2 executions, 1 delivery, with a continuation, a withdrawal and a restart; mailbox of 1; fair | `GuidanceAnswered`, `StopFence`, `GuidanceOwned`, `WakeConsumed` | 925,516 |
| `writer` | 2 callers, 2 identities, 2 commands, 2 pending, batches of 2, 1 fault, 3 begins; fair | `TypeOK`, `AcknowledgedOnce`, `PublishedInOrder`, `ImplementsLog`, `Answered` | 703,849 |
| `supervisor` | a user session, 3 executions with 2 attempts, 2 clients, 4 operations, 3 permits, 1 panic, 1 crash | `TypeOK`, `RunningOwned`, `RegistryExact`, `StopRetains`, `CancelsWhatItSaw` | 386,517 |
| `supervisor_live` | a spawned agent, 2 executions with 2 attempts, 2 clients, 2 operations, 2 permits, 1 crash; fair | `QueueServed`, `Drains` | 48,922 |
| `supervisor_pause` | one client that submits and stops | `NoInvisiblePause` is violated | |
| `scheduler` | a one-shot job, 2 one-slot processes, 2 losses, 2 edits, 1 correction of the clock, 2 completion tries; or with 2 prompts, 1 loss and no correction | `NeverStranded`, `OccurrenceDeliveredOnce`, `SettledOnce`, `OneDeliveryAtATime` | 2,538,863 |
| `scheduler_live` | a one-shot and a cron job of one session, or the cron job alone with an edit; 2 slots, 2 instants, 1 loss; fair | `HistoryAdvances`, `Settles` | 432,567 |
| `cache` | 2 readers of 2 keys, or 1 reader of 3; 2 entries, 2 commits, 1 clear | `TypeOK`, `WarmAuthoritative`, `ReadsFresh`, `PageIsCut`, `IndexTracksEntries` | 2,236,235 |
| `revisions` | a client, a live subscriber, 2 keys of which 1 is derived, a clock of 1 key, 2 changes, or 1 change and a lag; and, apart from them, a session with 2 executions, or 2 sessions with 1 execution, or a tree of 3, or 2 with marks that move between 2 workspaces | `NotModifiedExact`, `ToldFresh`, `ResetInvalidates`, `ListsKeyed`, `CountsExact`, `TotalsKeyed` | 4,922,155 |
| `revisions_silent` | a client, 1 key, 1 change | `NotModifiedAnswered` is violated | |

**Instances.** Where the table says *or*, the `MC` module has a constraint
(`Instances`, `OnePromptOrOneLoss`), the disjunction of several small instances that
share one state space. A constraint only stops the exploration at states outside all of them. Every step
that leaves them is a step of the environment (a client's operation, a new
delivery, a commit, a fault), none of which is assumed fair, so a behaviour that
never takes it is still a fair behaviour of the specification and the liveness
properties keep their meaning. `MCResourceRevisions` puts the instances of its two
halves into the next-state relation instead (`ReadsNext`), because a behaviour moves
only one of them.

**Bounds.** They were chosen so that every action fires and every pair of hazards
can combine: two executions for order and overtaking, two attempts for stale
handles, two processes for recovery, two deliveries for one behind another, two
commits for a cut between them, four for a ring of two that has evicted as many as a
disconnected client can still name. Limits of the code are small enough to be hit:
`QueueLimit` (128 in the code) is 2, `MailboxLimit` (32) and the clock's `Capacity`
(8192) are 1, the ring, the channel, the cache and the writer's budget are 2.
Counters of faults, edits, begins, operations, changes and commits bound the
behaviours and are constants (`Max...`), so the theorems hold for any value. Three
executions in `supervisor` are needed for a run between two others in the chain; one
reader behind another's fill needs two readers but no third key, which the second
instance of `cache` adds so that an entry must be evicted.

**Deadlock** is not checked where the configuration says so: a bounded behaviour
ends when its bounds are used up, and so may a session that nobody writes to. That
nobody waits on somebody who waits is `Drains`, `Answered` and `WakeConsumed`.

Every property has a mutant, a plausible slip in the operation it guards, which
makes TLC find it violated under the run's own configuration.

**Fairness.** Clients, agents, time limits, faults, edits and restarts are never
assumed to act.

- `StopBoundary`: weak fairness of `Drive` (the task of `drive_execution` always
  does something next; which outcome a stage has is open; for a tool that waits for
  a person it assumes that the question is answered or the execution cancelled some
  day), of `Claim` (a queued execution is supervised when it is sent, when a run
  retires, when the queue is resumed and by the scan) and of `RecoverDelivery` (the
  scan runs at startup, in every tick of the session maintenance,
  `crates/agena-runtime/src/runtime/builder.rs:2717`, and after a background process
  has reported, `crates/agena-runtime/src/activity/state.rs:780`). `WakeConsumed`
  excuses a session while a pending delivery names a withdrawn message, the first
  observation of section 5.
- `KernelWriter`: weak fairness of the writer task and of `Submit`: `persist` repeats
  a command without limit while its error is transient.
- `Supervisor`: weak fairness of every run and every operation that was started (tasks
  are polled; the driver of a run ends), strong fairness of taking the submission
  lock (tokio's mutex is first come, first served), weak fairness of the scan (the
  30 s maintenance tick) and of an agent's settlement task.
- `Scheduler`: time passes, leases and back-offs end, a started edit is written, every
  slot goes on, and a due job is admitted (the worker polls at least every 60 s and
  takes the oldest deadline first).

## 5. Findings

**A stop leaves an invisible pause** (`supervisor_pause`, code bug). A stop pauses
the queue, reads the current execution and cancels it. If the attempt ends between
the read and the cancellation, the cancellation is a conflict and `?` returns before
`resume_empty_queue_after_stop` (`manager/commands.rs:1141`; `cancel_session_tree`,
line 517, does the same). The queue stays paused with nothing in it, although line
452 says "With no pending input there is nothing to retain: do not strand the next
user send behind an invisible pause". The next message waits until somebody resumes.

**A 304 for a directory that has changed** (`revisions_silent`, documentation and code
diverge). The commands that create, replace, delete and resolve a workspace exist on
REST and, through `dispatch_command`, on WebSocket and IPC. Only the REST handlers call
`observe_workspace_change` (`server/rest/workspaces.rs:88`, 99, 111, 122); the JSON-RPC
side (`server/dispatch/commands.rs:18`) neither stamps the clock nor commits a kernel
change. A client that read the directory before such a command and revalidates it after
the answer is told 304 and keeps the old body, until some other change stamps the key.
`docs/session-consistency-audit.md:21` says of the resource revision
"后续提交继续使相应资源失效" (later commits keep invalidating the corresponding
resources), and `server/lib.rs:27` that commands "route through `dispatch::*` so that the
WS handler and REST handler share identical semantics where practical".

### Further observations

Found while modelling, by reading and with the models; no run states them, because
the properties that are checked either exclude the case explicitly or are about
something else.

- *A withdrawn message blocks deliveries.* A result published with a message that was
  withdrawn meanwhile (`sqlite/lifecycle.rs:409` looks at attempts only) makes
  `reader.entry` fail at every boundary (`manager/deliveries.rs:97`); it is neither
  consumed nor skipped, and deliveries behind it wait. `deliveries.rs:1` says
  "Reliable business deliveries are consumed at a provider boundary."
- *Continue without a round that could help.* A delivery that names a later message
  and is consumed by an earlier execution is hidden from that execution's rounds but
  counted as unobserved by `stop::prepare` (`sqlite/stop.rs:36`), which answers
  Continue until the turn budget ends the attempt. `storage/src/kernel/lifecycle.rs:189`
  says of Continue: "Business input must reach a real provider round before stopping."
- *Resume drops a pending retry.* A delivery that failed below its retry limit and
  waits for its back-off is dropped by pause and resume
  (`crates/agena-scheduler/src/job.rs:391`), without a record. `job.rs:263` says that it
  "is retained across restart until a delivery is successfully finalized or retries are
  exhausted".
- *An edited prompt breaks redelivery.* The payload of a delivery contains the job's
  current prompt, and a business key with another payload is a conflict
  (`sqlite/lifecycle.rs:503`). If the prompt is edited between a delivery whose
  completion was lost and its recovery, the sink fails until the retries are used up,
  although the occurrence was delivered. `crates/agena-scheduler/src/lib.rs:19` says
  "Recovery is at least once; sinks must deduplicate using the stable" delivery key.
- *A conflict outlives its batch.* When COMMIT is rejected, a conflict that was found
  against a receipt of the same rolled back batch is kept (`kernel.rs:1947`): the caller
  is told for good "request id was already used for another command"
  (`kernel.rs:2174`), although nothing was stored. `aborted_batch` replaces it.
- *Reads close while commands go on.* A COMMIT that fails other than by busy, locked or
  constraint closes the read cache (`kernel.rs:1923`), but the writer becomes fatal only
  if a result is CommitUnknown or Closed (`kernel.rs:1559`). A batch of replays and
  refusals has none: reads answer that the kernel has shut down, commands are still
  committed.
- *An out-of-order claim waits for the scan.* A message sent while the queue is paused
  may have a run between its lock and its claim when the queue is resumed. An earlier
  message without a run makes the claim fail with QueueOutOfOrder, which retires the run
  without restoring the queue (`manager/execution.rs:395`), while resumption saw it
  registered. It waits for the periodic recovery, although "resume must replace the
  retired supervisor without another send or recovery scan"
  (`manager/commands/queue_tests.rs:211`).
- *A continuation during an agent's settlement.* `wait_terminal_agent_settlement` does
  not wait for an attempt that still runs (`manager/agents.rs:760`); if it ends before
  the retry commits, the retry is admitted while the settlement is pending, although
  line 700 says "Keep a terminal attempt's small settlement window intact before
  admitting that retry". A timed out settlement then cancels the new attempt.
- *Running sessions of the statistics.* The directory counts a session as running by its
  `processing_state` (`sqlite/lifecycle.rs:1118`), which pausing a queue of waiting
  messages turns to ready; `statistics_contribution` (`revisions.rs:143`) decides by the
  counters, which the pause leaves alone. The number changes and the tokens of
  `workspace:{w}:stats` and `workspaces` do not.
- *Two readings of the clock.* `Clock::new` reads the wall clock twice
  (`revisions.rs:29`). If the millisecond changes in between, a reset before the clock
  has passed it ticks to the value that the first tokens carry, against "every explicit
  reset invalidates cached bodies" (`revisions.rs:579`). The case is narrow; `Skew`
  above 0 shows it.

## 6. Proofs

TLAPS checks eight proof modules, for every value of the constants under the named
assumptions (`FeedAssumption`, `KernelAssumption` and so on), which only say that
bounds are natural numbers, capacities are positive, sets of identities are finite
where they are counted, and null values differ from identities.

**ChangeFeedProofs** — `FeedInvariant`, `TypeCorrect`, `NoGap`, `CursorForward`.
`NoSilentGap` speaks of a caught-up client; the induction must say what a client
that is *not* caught up still has coming. `IInv` has six parts: `RingInv` (the ring
holds exactly what lies after the floor), `FamilyInv` (a change shared by several
sessions lies before a reset that was sent, or the reset is due), `ChannelInv`
(notices are in commit order, and what precedes a reset lies at or before the
reset floor), `WatchInv` (cursor, then replayed tail, then channel), `CursorInv`
(a cursor that the feed would accept stands for everything before it) and
`EvidenceInv` (what a client does not know is in its replay, its channel, behind a
reset it has not taken, or not published). `NoGap` follows from the last with
nothing left to take; `CursorForward` from `WatchInv`.

**SessionKernelProofs** — `KernelInvariant`, `KernelTypes`, `KernelCounters`,
`KernelOneRunner`, `KernelSettles`, `KernelHistory`, `KernelSummary`. The invariant
joins the
properties with `Fresh` (attempts beyond the current generation are absent) because
they need each other: that a delta is right depends on the attempt being current,
that `finish` of the current attempt settles everything depends on no older attempt
being active, and that recovery's zeroed running count is right on every running
attempt being a current one. Cardinality facts come from `FiniteSetTheorems`.
`SummaryExact` is inductive only with `Unborn` (a session that does not exist has a
ready summary and no execution) and `Homeless` (an execution that does not exist has
no session): nothing computes the first summary of a session, and a new execution must
not already count for some session. Each command then either leaves
what the processing state of a session is computed from alone, or is followed by the
trigger or refresh that recomputes it; recovery recomputes only the sessions it
changes, which is enough because the others had exact summaries.

**StopBoundaryProofs** — `BoundaryInvariant`, `BoundaryTypes`, `ReadyFences`,
`SuccessAnswersGuidance`, `GuidanceKeepsOwner`. `OneDriver` lets the driver's stage
speak of the running attempt; `Decided` says that past `PrepareStop` whatever was
recorded for the attempt was observed; what can still be open is pending guidance,
which `StopFence` excludes after a ready decision and `Finish` refuses otherwise.
`GuidanceOwned` is inductive on its own. The restart, continuation and withdrawal
bounds are constants, so the theorems cover their combinations that no run has.

**KernelWriterProofs** — `WriterTyped`, `WriterAcknowledgedOnce`,
`WriterPublishedInOrder`, `WriterImplementsLog`. `TransactionOK` says that the open
transaction extends the committed database and agrees with its own receipts,
`ResultsFound` that a result of the batch is found where it says in the transaction,
and in the committed database unless it is new; `PendingOK` and `CallersOK` carry
that to the answers, `PublishedBelow` bounds what was announced by what is committed.
The refinement follows from the same invariant: initial states map to the empty log,
COMMIT and a surviving unknown COMMIT map to growth, an answer to an acknowledgement,
everything else to a stutter.

**ReadCacheProofs** — `CacheTyped`, `CacheWarmAuthoritative`, `CacheIndexTracks`,
`CacheReadsFresh`, `CachePageIsCut`. `FenceOK` ties the writer's stage to the pause,
`EntriesOK` says that outside a fence an entry is what is committed, `ReadersOK` that a
fill whose stamp is still the generation carries a committed value and that a page in
progress has seen one cut.

**SupervisorProofs** — `SupervisorRunningOwned`, `SupervisorRegistryExact`,
`SupervisorStopRetains`, `SupervisorCancelsWhatItSaw`, `SupervisorTyped`. `RunsOK` says what each state of
a run implies for lock and phase, `OpsOK` what each step of an operation has read and
still holds; `RunningOwned` is inductive with them. The registry needs in addition that
the dispatch chain is acyclic (`Chained`: some ranking of the slots decreases along
it) and that a recovery's snapshot is not ahead of what is stored (`SnapsOK`).
`TypeOK` includes the permit budget, runs and prepared submissions together at most
`Capacity`. It needs that whoever reaches *supervise* holds a permit: then the permit
moves from the operation to the run it registers, and only `reserve_execution` and a
restore with one to spare add to the sum.

**SchedulerProofs** — `NeverStrandedHolds`, `OccurrenceDeliveredOnceHolds`,
`OneDeliveryAtATimeHolds`, `SettledOnceHolds`, `HistoryAdvancesHolds`,
`SchedulerTyped`. `Rows` joins the consistency of every
row with what a slot's snapshot may be, because the outcome of a compare-and-swap is
computed from the snapshot; `KeyedDeliveries` ties a delivery to its key, `Exclusive`
the owning slot to the claim of the row while nothing was lost, `SettledRows` a
completed row to the last record of its history.
`HistoryAdvances` needs an order between the records and what may still be written.
The *frontier* of a row is the occurrence its next record will be about; `Punctual`
says that every record lies before the frontier, or at it after a failed attempt
(`RowTimely`), and that a slot's delivery is of the frontier it read and not later than
the clock (`SlotTimely`); a slot's write only moves the row forward (`Forward`). The
hard case is an edit: `resume` and a changed expression compute the next fire from the
clock when the row is *read*, and the compare-and-swap only establishes that the row
looks the same when it is *written*. `EditTimely` says that a row which has passed the
computed fire can never look like the snapshot again, so the write is refused. All of
this is claimed only while the clock was not set back (`Timely`), as is the property.
`SchedulerTyped` adds the columns that `Rows` leaves out (`Columns`).

**ResourceRevisionsProofs** — `NotModifiedExactHolds`, `ToldFreshHolds`,
`ResetInvalidatesHolds`, for `Skew = 0` and with silent changes anywhere among the
others; `RevisionsTyped` for any skew; and, about `SessionLists`, `ListsAlwaysKeyed`,
`CountsAlwaysExact`, `TotalsAlwaysKeyed` and `ListsTyped`. `ClockOK` and `TokensOK`
bound every token in circulation by the clock; `StampOK` says how far the change being
stamped has come, `StaleKnown` that a body missing a change is kept under a token which
that change has outdated or will outdate before it can be compared, `Settled` that a
request past the watch has every change it needs in the clock.
`TypeOK` says among other things that the clock remembers at most `Capacity` keys
(`Memory`) and that the feed sent no more notices than there are changes, which follows
from publishing in commit order (`Sent`: up to some change everything the feed carries
was published, and no more notices were sent than that). `Answered` says that
the silent changes a request was begun after are committed ones.
The lists need no invariant beyond `Table` (every session has a row): the argument is
about one step. A command writes the row of one session (`Write`); what a body shows of
another session depends on that session's own row, except for its number of children;
so a body changes only through the session that moved, whose facts before and after
name every list it is in, or through a parent whose child came or went, which
`execute` reports whenever the child appears, goes, moves or is hidden.

**Only model-checked**: liveness (`WakeConsumed`, `Settles`, `Answered`, `QueueServed`,
`Drains`), since fairness and `ENABLED` are out of the prover's reach. Every invariant
and every action property of the passing runs, and the refinement, is a theorem. The
type invariants of `ChangeFeed`, `SessionKernel`, `StopBoundary`, `Scheduler`,
`ResourceRevisions` and `SessionLists` are proved and in no run.

## 7. Not modelled

The repository has about 520,000 lines, most of them user interfaces, tools, provider
and protocol adapters, and plugins. The modules cover the coordination core, a small
share of those lines; the rest is left out for the reasons below, which `PROJECT.json`
repeats per component.

- *User interfaces, providers, MCP, LSP, plugins, processes, secrets, rollout files,
  notifications*: presentation, I/O and encoding; the state that matters is elsewhere
  or external.
- *Content streams, blobs, snapshots, history views, branches, import, archive*: data
  formats and one-shot transformations inside the transactions that `KernelWriter`
  serializes. Their read side is `ReadCache`, their effect on lists `SessionLists`.
- *Permission rules*: pure pattern matching on strings, which a model could only
  repeat. *Async helpers*: thin wrappers of tokio channels; the durable decision of a
  permission wait is an interaction of `SessionKernel`.
- *Runtime composition and reload*: construction code.

Within the modelled parts: byte budgets and batching policy of the writer (which
commands share a batch is free in the model), the text of messages and notices, paging
limits, clock time other than its order, the projection of a change into HTTP
resources, and the omissions listed with each module in section 3.
