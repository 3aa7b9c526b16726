------------------------------ MODULE ReadCache ------------------------------
(***************************************************************************)
(* The kernel's read cache (agena-storage-sqlite/src/kernel/read_cache.rs) *)
(* between the single writer and concurrent readers.                       *)
(*                                                                         *)
(* The writer brackets COMMIT with a fence: pause, COMMIT, invalidate the  *)
(* owners the transaction touched, drop the fence after the changes are    *)
(* published.  Readers look a key up, query SQLite on a miss and install   *)
(* what they read; a page of content events is assembled from two cached   *)
(* views and served only if no fence was raised meanwhile.                 *)
(*                                                                         *)
(* The value of a key is the number of commits that changed it, from 1; 0  *)
(* stands for no value and, as a generation, for no stamp.  Which keys a   *)
(* transaction changes is left open; the invalidation covers their owners. *)
(* Views are of equal size, so the byte budget is the entry budget, and    *)
(* any entry may be the one that makes room.                               *)
(***************************************************************************)
EXTENDS Naturals, FiniteSets

CONSTANTS Keys,        \* cached reads
          Blocks,      \* the keys that are event blocks
          Owners,      \* sessions and workspaces
          OwnerOf,     \* the owner of a key
          Readers,
          Capacity,    \* CACHE_ENTRIES
          MaxCommits, MaxClears   \* bounds: transactions; clears and closes

ASSUME CacheAssumption ==
  /\ Blocks \subseteq Keys /\ OwnerOf \in [Keys -> Owners]
  /\ IsFiniteSet(Keys) /\ "none" \notin Keys
  /\ Capacity \in Nat \ {0} /\ MaxCommits \in Nat /\ MaxClears \in Nat

VARIABLES committed,    \* the value of each key in the database
          writer,       \* where the writer is in its transaction
          dirty,        \* the keys its transaction changes
          scope,        \* the owners its fence will invalidate
          cached,       \* cached[k], or 0
          index,        \* event_blocks: the blocks the range lookup knows
          generation, paused, closed,
          reader,       \* reader[r]: a read in progress or answered
          commits, clears

cacheVars  == <<cached, index, generation, paused, closed>>
writerVars == <<writer, dirty, scope>>
vars == <<committed, writerVars, cacheVars, reader, commits, clears>>

NoKey  == "none"
NoFill == 0

Idle == [phase |-> "idle", key |-> NoKey, block |-> NoKey, fill |-> NoFill,
         floor |-> 0, blockFloor |-> 0, value |-> 0, blockValue |-> 0]

Init ==
  /\ committed = [k \in Keys |-> 1]
  /\ writer = "idle" /\ dirty = {} /\ scope = {}
  /\ cached = [k \in Keys |-> 0] /\ index = {}
  /\ generation = 1 /\ paused = "no" /\ closed = "no"
  /\ reader = [r \in Readers |-> Idle]
  /\ commits = 0 /\ clears = 0

(***************************************************************************)
(* The writer                                                              *)
(***************************************************************************)
\* The sessions a batch touched and their workspaces; a change that other
\* sessions share invalidates all owners instead.
OwnersOf(keys) == {OwnerOf[k] : k \in keys}

\* ReadCache::pause, right before COMMIT.
Pause ==
  /\ writer = "idle" /\ commits < MaxCommits
  /\ dirty' \in SUBSET Keys /\ scope' \in {OwnersOf(dirty'), Owners}
  /\ writer' = "fenced" /\ paused' = "yes" /\ generation' = generation + 1
  /\ commits' = commits + 1
  /\ UNCHANGED <<committed, cached, index, closed, reader, clears>>

Written == [k \in Keys |-> IF k \in dirty THEN committed[k] + 1 ELSE committed[k]]

\* COMMIT succeeds; the cache does not know yet.
CommitOk ==
  /\ writer = "fenced"
  /\ committed' = Written /\ writer' = "committed"
  /\ UNCHANGED <<dirty, scope, cacheVars, reader, commits, clears>>

\* COMMIT is rejected and nothing changed.
CommitRejected ==
  /\ writer = "fenced"
  /\ writer' = "settled"
  /\ UNCHANGED <<committed, dirty, scope, cacheVars, reader, commits, clears>>

\* COMMIT fails and may have taken effect.
CommitUnknown ==
  /\ writer = "fenced"
  /\ committed' \in {committed, Written} /\ writer' = "unknown"
  /\ UNCHANGED <<dirty, scope, cacheVars, reader, commits, clears>>

\* Mutant: the index of event blocks is not rebuilt.
InvalidateEntries ==
  /\ writer = "committed"
  /\ cached' = [k \in Keys |-> IF OwnerOf[k] \in scope THEN 0 ELSE cached[k]]
  /\ writer' = "settled"
  /\ UNCHANGED <<committed, dirty, scope, index, generation, paused, closed, reader, commits, clears>>

\* CommitFence::committed.
Invalidate ==
  /\ writer = "committed"
  /\ cached' = [k \in Keys |-> IF OwnerOf[k] \in scope THEN 0 ELSE cached[k]]
  /\ index' = {k \in Blocks : cached'[k] # 0}
  /\ writer' = "settled"
  /\ UNCHANGED <<committed, dirty, scope, generation, paused, closed, reader, commits, clears>>

\* ReadCache::close after an unknown outcome.
CloseUnknown ==
  /\ writer = "unknown"
  /\ closed' = "yes" /\ generation' = generation + 1
  /\ cached' = [k \in Keys |-> 0] /\ index' = {}
  /\ writer' = "settled"
  /\ UNCHANGED <<committed, dirty, scope, paused, reader, commits, clears>>

\* The fence is dropped.
Unfence ==
  /\ writer = "settled"
  /\ writer' = "idle" /\ paused' = "no" /\ dirty' = {} /\ scope' = {}
  /\ UNCHANGED <<committed, cached, index, generation, closed, reader, commits, clears>>

\* The writer ends or finds itself fatal between two transactions.
Close ==
  /\ writer = "idle" /\ clears < MaxClears /\ clears' = clears + 1
  /\ closed' = "yes" /\ generation' = generation + 1
  /\ cached' = [k \in Keys |-> 0] /\ index' = {}
  /\ UNCHANGED <<committed, writerVars, paused, reader, commits>>

\* invalidate_read_cache, at any moment.
Clear ==
  /\ clears < MaxClears /\ clears' = clears + 1
  /\ generation' = generation + 1
  /\ cached' = [k \in Keys |-> 0] /\ index' = {}
  /\ UNCHANGED <<committed, writerVars, paused, closed, reader, commits>>

\* A reservation of a reader found the view budget exhausted.
Evict ==
  /\ \E k \in Keys : cached[k] # 0
  /\ cached' = [k \in Keys |-> 0] /\ index' = {}
  /\ UNCHANGED <<committed, writerVars, generation, paused, closed, reader, commits, clears>>

(***************************************************************************)
(* cached_read                                                             *)
(***************************************************************************)
Stamp == IF paused = "yes" THEN NoFill ELSE generation

\* Mutant: a warm hit is served although a COMMIT is in progress.
HitPaused(k) == cached[k] # 0

\* ReadCache::lookup finds an entry; never while a COMMIT is in progress.
Hit(k) == paused = "no" /\ cached[k] # 0

Starting(r) == reader[r].phase \in {"idle", "read", "page"} /\ closed = "no"

\* lookup: a hit is the answer, a miss remembers its generation.
Lookup(r, k) ==
  /\ Starting(r)
  /\ reader' = [reader EXCEPT ![r] =
       [phase |-> IF Hit(k) THEN "read" ELSE "missed",
        key |-> k, block |-> NoKey,
        fill |-> IF Hit(k) THEN NoFill ELSE Stamp,
        floor |-> committed[k], blockFloor |-> 0,
        value |-> IF Hit(k) THEN cached[k] ELSE 0, blockValue |-> 0]]
  /\ UNCHANGED <<committed, writerVars, cacheVars, commits, clears>>

\* The query's own read transaction.
Query(r) ==
  /\ reader[r].phase = "missed"
  /\ reader' = [reader EXCEPT ![r] = [@ EXCEPT !.phase = "queried", !.value = committed[reader[r].key]]]
  /\ UNCHANGED <<committed, writerVars, cacheVars, commits, clears>>

\* Mutant: a fill is installed whatever generation it belongs to.
InstallableAnyway(f) == closed = "no" /\ paused = "no"

Installable(f) == closed = "no" /\ paused = "no" /\ f = generation

\* ReadCache::install puts v under k and removes victims to make room.
Put(k, v, victims) ==
  /\ cached' = [j \in Keys |-> IF j = k THEN v ELSE IF j \in victims THEN 0 ELSE cached[j]]
  /\ index' = (index \ victims) \cup ({k} \cap Blocks)

Entries == {k \in Keys : cached[k] # 0}

\* Mutant: room is made after the entry was counted.
MakesRoomLate(k, victims) ==
  /\ victims \subseteq Entries \ {k}
  /\ Cardinality((Entries \ {k}) \ victims) <= Capacity

\* The oldest entries leave until one more fits, and no more of them.
MakesRoom(k, victims) ==
  /\ victims \subseteq Entries \ {k}
  /\ Cardinality((Entries \ {k}) \ victims) < Capacity
  /\ victims # {} => Cardinality((Entries \ {k}) \ victims) = Capacity - 1

\* The read is answered, and its view installed if nothing was fenced since
\* and it is not larger than the whole budget.
Install(r) ==
  /\ reader[r].phase = "queried"
  /\ \/ /\ Installable(reader[r].fill)
        /\ \E victims \in SUBSET Keys :
              /\ MakesRoom(reader[r].key, victims)
              /\ Put(reader[r].key, reader[r].value, victims)
     \/ UNCHANGED <<cached, index>>
  /\ reader' = [reader EXCEPT ![r] = [@ EXCEPT !.phase = "read"]]
  /\ UNCHANGED <<committed, writerVars, generation, paused, closed, commits, clears>>

\* The query fails or the view budget refuses it a second time.
Fail(r) ==
  /\ reader[r].phase \in {"missed", "queried", "stamped", "context", "block"}
  /\ reader' = [reader EXCEPT ![r] = Idle]
  /\ UNCHANGED <<committed, writerVars, cacheVars, commits, clears>>

(***************************************************************************)
(* cached_page: a page from a cached context and a cached event block      *)
(***************************************************************************)
\* stamp and is_current: Busy during a COMMIT.
PageStamp(r, k, b) ==
  /\ Starting(r) /\ paused = "no"
  /\ reader' = [reader EXCEPT ![r] =
       [phase |-> "stamped", key |-> k, block |-> b, fill |-> generation,
        floor |-> committed[k], blockFloor |-> committed[b], value |-> 0, blockValue |-> 0]]
  /\ UNCHANGED <<committed, writerVars, cacheVars, commits, clears>>

\* The authorization context is looked up; a miss takes the cold path.
PageContext(r) ==
  /\ reader[r].phase = "stamped" /\ closed = "no" /\ Hit(reader[r].key)
  /\ reader' = [reader EXCEPT ![r] = [@ EXCEPT !.phase = "context", !.value = cached[reader[r].key]]]
  /\ UNCHANGED <<committed, writerVars, cacheVars, commits, clears>>

\* event_block_containing finds the block by its index.
PageBlock(r) ==
  /\ reader[r].phase = "context" /\ closed = "no" /\ paused = "no"
  /\ reader[r].block \in index
  /\ reader' = [reader EXCEPT ![r] = [@ EXCEPT !.phase = "block", !.blockValue = cached[reader[r].block]]]
  /\ UNCHANGED <<committed, writerVars, cacheVars, commits, clears>>

\* Mutant: the page is served whenever no COMMIT is in progress.
CurrentUnstamped(f) == closed = "no" /\ paused = "no"

\* ReadCache::is_current.
Current(f) == closed = "no" /\ paused = "no" /\ f = generation

\* The last is_current: the page is served or the read is Busy.
PageServe(r) ==
  /\ reader[r].phase = "block"
  /\ reader' = IF Current(reader[r].fill)
               THEN [reader EXCEPT ![r] = [@ EXCEPT !.phase = "page"]]
               ELSE [reader EXCEPT ![r] = Idle]
  /\ UNCHANGED <<committed, writerVars, cacheVars, commits, clears>>

Next ==
  \/ Pause \/ CommitOk \/ CommitRejected \/ CommitUnknown \/ Invalidate \/ CloseUnknown
  \/ Unfence \/ Close \/ Clear \/ Evict
  \/ \E r \in Readers :
       \/ \E k \in Keys : Lookup(r, k)
       \/ \E k \in Keys \ Blocks, b \in Blocks : PageStamp(r, k, b)
       \/ Query(r) \/ Install(r) \/ Fail(r) \/ PageContext(r) \/ PageBlock(r) \/ PageServe(r)

Spec == Init /\ [][Next]_vars

(***************************************************************************)
(* Properties                                                              *)
(***************************************************************************)
\* Every variable has its type and the cache stays within its entry budget.
TypeOK ==
  /\ committed \in [Keys -> Nat \ {0}]
  /\ writer \in {"idle", "fenced", "committed", "unknown", "settled"}
  /\ dirty \subseteq Keys /\ scope \subseteq Owners
  /\ cached \in [Keys -> Nat] /\ index \subseteq Blocks
  /\ generation \in Nat \ {0} /\ paused \in {"no", "yes"} /\ closed \in {"no", "yes"}
  /\ reader \in [Readers -> [phase : {"idle", "missed", "queried", "read",
                                      "stamped", "context", "block", "page"},
                             key : Keys \cup {NoKey}, block : Keys \cup {NoKey}, fill : Nat,
                             floor : Nat, blockFloor : Nat, value : Nat, blockValue : Nat]]
  /\ commits \in Nat /\ clears \in Nat
  /\ Cardinality(Entries) <= Capacity

\* A warm hit is authoritative: outside a fence every entry holds the committed
\* value, although readers install what they read before a COMMIT at any later
\* moment, fences fail, and the cache is cleared, evicted or closed meanwhile.
WarmAuthoritative ==
  paused = "no" => \A k \in Keys : cached[k] \in {0, committed[k]}

\* event_block_containing expects an entry for every block of its index, and a
\* cached block the index lost would never be found again.
IndexTracksEntries == index = {k \in Blocks : cached[k] # 0}

\* A read never answers with something older than what was committed when it
\* began, so who was told of a commit reads it.
ReadsFresh ==
  \A r \in Readers : reader[r].phase = "read" => reader[r].value >= reader[r].floor

\* A served page is one committed cut: its context and its block are both what
\* was committed when the page was stamped.
PageIsCut ==
  \A r \in Readers : reader[r].phase = "page" =>
     reader[r].value = reader[r].floor /\ reader[r].blockValue = reader[r].blockFloor
=============================================================================
