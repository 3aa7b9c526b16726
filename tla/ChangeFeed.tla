----------------------------- MODULE ChangeFeed -----------------------------
(***************************************************************************)
(* The committed-change feed of the session kernel                         *)
(* (crates/agena-storage/src/kernel/watch.rs) together with the part of    *)
(* the writer that feeds it (commit_batch and writer in                    *)
(* crates/agena-storage-sqlite/src/kernel.rs).                             *)
(*                                                                         *)
(* A commit position is its index in the commit order: CommitPosition is   *)
(* ordered lexicographically by (sequence, ordinal), and only that order   *)
(* matters.  0 stands for Option::None.  A commit changes what its own     *)
(* session shows and may also change what other sessions show (forks that  *)
(* share entries, an agent handing its result to its parent); only the     *)
(* session itself gets a Change notice, the others are told by a Reset.    *)
(***************************************************************************)
EXTENDS Naturals, Sequences, FiniteSets

CONSTANTS
    Sessions,         \* session identities
    Clients,          \* subscribers, each with one watch at a time
    All,              \* the scope of watch_all
    ScopeOf,          \* the scope each client keeps: a session or All
    Capacity,         \* ChangeFeed.capacity, the length of the replay ring
    ChannelCapacity,  \* slots of the tokio broadcast channel
    MaxBatch,         \* bound: commands per transaction
    MaxCommits,       \* bound: commits of a behaviour
    MaxEpoch          \* bound: processes of a behaviour

ASSUME FeedAssumption ==
    /\ All \notin Sessions
    /\ ScopeOf \in [Clients -> Sessions \cup {All}]
    /\ Capacity \in Nat \ {0}
    /\ ChannelCapacity \in Nat \ {0}
    /\ MaxBatch \in Nat /\ MaxCommits \in Nat /\ MaxEpoch \in Nat

VARIABLES
    log,         \* the committed changes, in commit order (durable)
    pub,         \* how many of them this process handed to the feed
    reset,       \* "due": the batch being published ends with invalidate()
    writer,      \* "fatal" after a commit whose outcome it does not know
    epoch,       \* KernelEpoch of the process
    base,        \* commits that were there when the process started (history)
    sender,      \* FeedState.sender: "some" or "none"
    head,        \* FeedState.head
    floor,       \* FeedState.floor
    resetFloor,  \* FeedState.reset_floor
    replay,      \* positions held by FeedState.replay
    sent,        \* every notice put into the broadcast channel
    open,        \* the clients that have a KernelWatch
    fresh,       \* those that resumed or have read a snapshot since
    replayQ,     \* KernelWatch.replay: positions not yet taken
    next,        \* the notice KernelWatch.receiver takes next
    lagged,      \* the clients whose KernelWatch.lagged is set
    cursor,      \* the WatchCursor the client would resume from
    applied      \* the effects the client's copy reflects

writerVars == <<log, pub, reset, writer, epoch, base>>
feedVars   == <<sender, head, floor, resetFloor, replay, sent>>
watchVars  == <<open, fresh, replayQ, next, lagged, cursor, applied>>
vars       == <<writerVars, feedVars, watchVars>>

Change   == {ch \in [session : Sessions, also : SUBSET Sessions] :
                ch.session \notin ch.also}
Reset    == 0                  \* a notice is a position, or Notice::Reset
NoCursor == [epoch |-> 0, pos |-> 0]

TypeOK ==
    /\ log \in Seq(Change)
    /\ pub \in 0 .. Len(log) /\ base \in 0 .. pub
    /\ reset \in {"none", "due"} /\ writer \in {"serving", "fatal"}
    /\ sender \in {"some", "none"}
    /\ epoch \in Nat \ {0}
    /\ head \in Nat /\ floor \in Nat /\ resetFloor \in Nat
    /\ replay \in SUBSET (Nat \ {0}) /\ sent \in Seq(Nat)
    /\ open \subseteq Clients /\ fresh \subseteq Clients /\ lagged \subseteq Clients
    /\ next \in [Clients -> Nat \ {0}]
    /\ replayQ \in [Clients -> SUBSET (Nat \ {0})]
    /\ cursor \in [Clients -> [epoch : Nat, pos : Nat]]
    /\ applied \in [Clients -> SUBSET (Nat \X Sessions)]

Init ==
    /\ log = <<>> /\ pub = 0 /\ base = 0 /\ epoch = 1
    /\ reset = "none" /\ writer = "serving"
    /\ sender = "some" /\ head = 0 /\ floor = 0 /\ resetFloor = 0
    /\ replay = {} /\ sent = <<>>
    /\ open = {} /\ fresh = {} /\ lagged = {}
    /\ replayQ = [c \in Clients |-> {}]
    /\ next = [c \in Clients |-> 1]
    /\ cursor = [c \in Clients |-> NoCursor]
    /\ applied = [c \in Clients |-> {}]

-----------------------------------------------------------------------------
(* What a commit changes, and what a client must know about. *)

InScope(scope, s) == scope = All \/ scope = s

Touched(p) == {log[p].session} \cup log[p].also

Effects(scope) ==
    {e \in (1 .. Len(log)) \X Sessions :
        e[2] \in Touched(e[1]) /\ InScope(scope, e[2])}

-----------------------------------------------------------------------------
(* The writer. *)

Published == pub = Len(log) /\ reset = "none"

\* Nothing is committed and not yet published: every reply has been sent.
WriterIdle == Published /\ writer = "serving" /\ sender = "some"

Batches == UNION {[1 .. n -> Change] : n \in 1 .. MaxBatch}

SharesFamily(b) == \E i \in DOMAIN b : b[i].also # {}

\* SQLite COMMIT of a batch succeeds; the changes are published after it.
CommitBatch(b) ==
    /\ WriterIdle
    /\ Len(log) + Len(b) <= MaxCommits
    /\ log' = log \o b
    /\ reset' = IF SharesFamily(b) THEN "due" ELSE "none"
    /\ UNCHANGED <<pub, writer, epoch, base, feedVars, watchVars>>

\* COMMIT fails in a way that leaves its outcome unknown: the writer answers
\* nothing further and publishes nothing.
CommitUnknown(b) ==
    /\ WriterIdle
    /\ Len(log) + Len(b) <= MaxCommits
    /\ log' \in {log, log \o b}
    /\ writer' = "fatal"
    /\ UNCHANGED <<pub, reset, epoch, base, feedVars, watchVars>>

Oldest(S) == {p \in S : \A q \in S : p <= q}

\* publish_scoped: the change fits the read budget and enters the ring.
PublishChange ==
    LET p == pub + 1
        ring == replay \cup {p}
    IN /\ pub < Len(log) /\ writer = "serving"
       /\ pub' = p
       /\ head' = p
       /\ \/ /\ Cardinality(ring) <= Capacity
             /\ replay' = ring
             /\ UNCHANGED floor
          \/ /\ Cardinality(ring) > Capacity
             /\ \E old \in Oldest(ring) :
                   floor' = old /\ replay' = ring \ {old}
       /\ sent' = Append(sent, p)
       /\ UNCHANGED <<log, reset, writer, epoch, base, sender, resetFloor, watchVars>>

\* publish_scoped: ReadBudget::wrap fails; the ring is replaced by a reset.
PublishOverBudget ==
    /\ pub < Len(log) /\ writer = "serving"
    /\ pub' = pub + 1
    /\ head' = pub + 1
    /\ floor' = pub + 1
    /\ resetFloor' = pub + 1
    /\ replay' = {}
    /\ sent' = Append(sent, Reset)
    /\ UNCHANGED <<log, reset, writer, epoch, base, sender, watchVars>>

\* invalidate, after the last change of a batch that shares entries.
Invalidate ==
    /\ pub = Len(log) /\ reset = "due" /\ writer = "serving"
    /\ reset' = "none"
    /\ replay' = {}
    /\ floor' = head
    /\ resetFloor' = head
    /\ sent' = Append(sent, Reset)
    /\ UNCHANGED <<log, pub, writer, epoch, base, sender, head, watchVars>>

\* The end of writer: a shutdown request, or a fatal commit, closes the feed.
Close ==
    /\ Published \/ writer = "fatal"
    /\ sender = "some"
    /\ sender' = "none"
    /\ replay' = {}
    /\ UNCHANGED <<writerVars, head, floor, resetFloor, sent, watchVars>>

\* Without a snapshot behind it, the head a watch was given says nothing about
\* what its client knows.
KeptCursor(c) == IF c \in open \ fresh THEN NoCursor ELSE cursor[c]

\* The process ends at any moment, also between COMMIT and publish, and the
\* next one opens the database with a new epoch and an empty feed.
Restart ==
    /\ epoch < MaxEpoch
    /\ epoch' = epoch + 1
    /\ pub' = Len(log) /\ base' = Len(log)
    /\ reset' = "none" /\ writer' = "serving"
    /\ sender' = "some" /\ head' = 0 /\ floor' = 0 /\ resetFloor' = 0
    /\ replay' = {} /\ sent' = <<>>
    /\ open' = {} /\ fresh' = {} /\ lagged' = {}
    /\ replayQ' = [c \in Clients |-> {}]
    /\ next' = [c \in Clients |-> 1]
    /\ cursor' = [c \in Clients |-> KeptCursor(c)]
    /\ UNCHANGED <<log, applied>>

-----------------------------------------------------------------------------
(* A subscriber. *)

\* Mutant: a cursor at the reset position itself is accepted.
ResumableAtReset(after) ==
    /\ after.epoch = epoch
    /\ head # 0 /\ after.pos <= head
    /\ floor = 0 \/ after.pos >= floor
    /\ resetFloor = 0 \/ after.pos >= resetFloor

\* resumable in watch_inner.
Resumable(after) ==
    /\ after.epoch = epoch
    /\ head # 0 /\ after.pos <= head
    /\ floor = 0 \/ after.pos >= floor
    /\ resetFloor = 0 \/ after.pos > resetFloor

\* Mutant: the whole ring is replayed, whatever the client has seen.
ReplayAll(c, after) == {p \in replay : InScope(ScopeOf[c], log[p].session)}

\* The retained changes a resuming watch starts with.
ReplayTail(c, after) ==
    {p \in replay : p > after.pos /\ InScope(ScopeOf[c], log[p].session)}

\* watch_inner: subscribe and copy the replay tail under one lock.
Watch(c, after) ==
    LET resumable == Resumable(after)
    IN /\ open' = open \cup {c}
       /\ fresh' = IF resumable THEN fresh \cup {c} ELSE fresh \ {c}
       /\ replayQ' = [replayQ EXCEPT ![c] =
                        IF resumable THEN ReplayTail(c, after) ELSE {}]
       /\ next' = [next EXCEPT ![c] = Len(sent) + 1]
       /\ lagged' = lagged \ {c}
       /\ cursor' = [cursor EXCEPT ![c] =
                       IF resumable THEN after
                       ELSE IF head = 0 THEN NoCursor
                       ELSE [epoch |-> epoch, pos |-> head]]
       /\ UNCHANGED <<writerVars, feedVars, applied>>

\* A client subscribes, resuming from the cursor it kept.
Resume(c) == c \notin open /\ cursor[c] # NoCursor /\ Watch(c, cursor[c])

\* A client subscribes without a cursor, or replaces a watch that was reset.
Subscribe(c) == (c \notin open \/ c \in lagged) /\ Watch(c, NoCursor)

\* The client reads a bounded snapshot while its watch is already open.
ReadSnapshot(c) ==
    /\ c \in open \ fresh /\ sender = "some" /\ writer = "serving"
    /\ fresh' = fresh \cup {c}
    /\ applied' = [applied EXCEPT ![c] = @ \cup Effects(ScopeOf[c])]
    /\ UNCHANGED <<writerVars, feedVars, open, replayQ, next, lagged, cursor>>

\* The client has the change at p and may resume behind it.
Deliver(c, p) ==
    /\ applied' = [applied EXCEPT ![c] = @ \cup {<<p, log[p].session>>}]
    /\ cursor' = [cursor EXCEPT ![c] = [epoch |-> epoch, pos |-> p]]

\* The receiver is further behind than the channel has slots: the notice it
\* would take has been overwritten.
Overrun(c) == Len(sent) + 1 - next[c] > ChannelCapacity

\* recv, try_recv: the replayed tail comes first.
RecvReplay(c) ==
    /\ c \in open \ lagged
    /\ \E p \in Oldest(replayQ[c]) :
          /\ Deliver(c, p)
          /\ replayQ' = [replayQ EXCEPT ![c] = @ \ {p}]
    /\ UNCHANGED <<writerVars, feedVars, open, fresh, next, lagged>>

\* recv, try_recv: the next notice of the receiver.
Receiving(c) ==
    /\ c \in open \ lagged /\ replayQ[c] = {}
    /\ next[c] <= Len(sent)

RecvChange(c) ==
    LET n == sent[next[c]]
    IN /\ Receiving(c) /\ ~Overrun(c)
       /\ n # Reset /\ InScope(ScopeOf[c], log[n].session)
       /\ Deliver(c, n)
       /\ next' = [next EXCEPT ![c] = @ + 1]
       /\ UNCHANGED <<writerVars, feedVars, open, fresh, replayQ, lagged>>

\* A change of another session than the one watched is skipped.
SkipChange(c) ==
    LET n == sent[next[c]]
    IN /\ Receiving(c) /\ ~Overrun(c)
       /\ n # Reset /\ ~InScope(ScopeOf[c], log[n].session)
       /\ next' = [next EXCEPT ![c] = @ + 1]
       /\ UNCHANGED <<writerVars, feedVars, open, fresh, replayQ, lagged, cursor,
                      applied>>

\* Notice::Reset, or Lagged: every later call answers Reset.
RecvReset(c) ==
    /\ Receiving(c)
    /\ Overrun(c) \/ sent[next[c]] = Reset
    /\ lagged' = lagged \cup {c}
    /\ UNCHANGED <<writerVars, feedVars, open, fresh, replayQ, next, cursor,
                   applied>>

\* The client drops its watch.
Disconnect(c) ==
    /\ c \in open
    /\ open' = open \ {c} /\ fresh' = fresh \ {c} /\ lagged' = lagged \ {c}
    /\ replayQ' = [replayQ EXCEPT ![c] = {}]
    /\ next' = [next EXCEPT ![c] = 1]
    /\ cursor' = [cursor EXCEPT ![c] = KeptCursor(c)]
    /\ UNCHANGED <<writerVars, feedVars, applied>>

-----------------------------------------------------------------------------

Next ==
    \/ \E b \in Batches : CommitBatch(b) \/ CommitUnknown(b)
    \/ PublishChange \/ PublishOverBudget \/ Invalidate
    \/ Close \/ Restart
    \/ \E c \in Clients :
          \/ Resume(c) \/ Subscribe(c) \/ ReadSnapshot(c)
          \/ RecvReplay(c) \/ RecvChange(c) \/ SkipChange(c) \/ RecvReset(c)
          \/ Disconnect(c)

Spec == Init /\ [][Next]_vars

-----------------------------------------------------------------------------

\* try_recv answers Ok(None): the client has taken all there is.
CaughtUp(c) ==
    /\ c \in (open \cap fresh) \ lagged /\ sender = "some"
    /\ replayQ[c] = {} /\ next[c] > Len(sent)

(***************************************************************************)
(* No silent gap.  When every committed batch has been published, a client *)
(* whose watch has nothing more to report knows every committed effect on  *)
(* what it watches: no eviction, budget reset, invalidation, lag, lost     *)
(* publication or reconnection lets a change pass unannounced.             *)
(***************************************************************************)
NoSilentGap ==
    \A c \in Clients :
        CaughtUp(c) /\ WriterIdle => Effects(ScopeOf[c]) \subseteq applied[c]

(***************************************************************************)
(* A resume cursor never moves back within a process: what a watch         *)
(* delivers after a reconnection lies behind what it delivered before.     *)
(***************************************************************************)
CursorMovesForward ==
    [][\A c \in Clients :
          cursor'[c].epoch = cursor[c].epoch => cursor'[c].pos >= cursor[c].pos]_vars

-----------------------------------------------------------------------------
(***************************************************************************)
(* The inductive strengthening of NoSilentGap.                             *)
(***************************************************************************)

\* head, floor and reset_floor bound what the ring still holds.
RingInv ==
    /\ head = 0 \/ (head = pub /\ base < pub)
    /\ head = 0 => pub = base
    /\ floor <= head /\ resetFloor <= head
    /\ replay \subseteq {p \in base + 1 .. pub : p > floor}
    /\ sender = "some" => \A p \in base + 1 .. pub : p > floor => p \in replay

\* A commit that touches other sessions has been invalidated, or will be.
FamilyInv ==
    \A p \in base + 1 .. Len(log) :
        log[p].also # {} => \/ reset = "due"
                            \/ p <= pub /\ p <= resetFloor
                            \/ p > pub /\ writer = "fatal"

\* Changes are sent in commit order, and what precedes a reset lies at or
\* before the last reset position.
ChannelInv ==
    /\ \A i \in 1 .. Len(sent) : sent[i] # Reset => sent[i] \in base + 1 .. pub
    /\ \A i, j \in 1 .. Len(sent) :
          i < j => /\ sent[i] # Reset /\ sent[j] # Reset => sent[i] < sent[j]
                   /\ sent[j] = Reset => sent[i] <= resetFloor

\* The notices a receiver has not taken.
Unread(c) == {sent[i] : i \in next[c] .. Len(sent)}

\* What a watch still holds lies after its cursor, replay before channel.
WatchInv(c) ==
    /\ cursor[c].epoch <= epoch
    /\ cursor[c].epoch = epoch => cursor[c].pos \in base + 1 .. head
    /\ c \in open =>
         /\ next[c] <= Len(sent) + 1
         /\ replayQ[c] \subseteq base + 1 .. head
         /\ cursor[c] = NoCursor \/ cursor[c].epoch = epoch
         /\ \A q \in replayQ[c] :
               /\ q > cursor[c].pos
               /\ InScope(ScopeOf[c], log[q].session)
               /\ Reset \in Unread(c) => q <= resetFloor
         /\ \A i \in next[c] .. Len(sent) :
               sent[i] # Reset => /\ sent[i] > cursor[c].pos
                                  /\ \A q \in replayQ[c] : sent[i] > q

\* A cursor that the feed would accept stands for everything before it.
CursorInv(c) ==
    /\ sender = "some" /\ cursor[c].epoch = epoch /\ c \notin open \ fresh
    => \A e \in Effects(ScopeOf[c]) :
          e[1] <= cursor[c].pos =>
              e \in applied[c] \/ reset = "due" \/ cursor[c].pos <= resetFloor

\* What a client does not know is on its way to it.
EvidenceInv(c) ==
    /\ sender = "some" /\ c \in (open \cap fresh) \ lagged
    => \A e \in Effects(ScopeOf[c]) :
          \/ e \in applied[c]
          \/ e[1] > pub \/ reset = "due" \/ Reset \in Unread(c)
          \/ /\ e[2] = log[e[1]].session
             /\ e[1] \in replayQ[c] \/ e[1] \in Unread(c)

IInv ==
    /\ TypeOK /\ RingInv /\ FamilyInv /\ ChannelInv
    /\ \A c \in Clients : WatchInv(c) /\ CursorInv(c) /\ EvidenceInv(c)

=============================================================================
