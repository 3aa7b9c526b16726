--------------------------- MODULE ReadCacheProofs ---------------------------
(***************************************************************************)
(* The properties of ReadCache for any keys, owners, readers and budgets.  *)
(***************************************************************************)
EXTENDS ReadCache, FiniteSetTheorems, TLAPS

USE DEF cacheVars, writerVars

(***************************************************************************)
(* The strengthening                                                       *)
(***************************************************************************)
ReaderType ==
  [phase : {"idle", "missed", "queried", "read", "stamped", "context", "block", "page"},
   key : Keys \cup {NoKey}, block : Keys \cup {NoKey}, fill : Nat,
   floor : Nat, blockFloor : Nat, value : Nat, blockValue : Nat]

Typed ==
  /\ committed \in [Keys -> Nat \ {0}]
  /\ writer \in {"idle", "fenced", "committed", "unknown", "settled"}
  /\ dirty \subseteq Keys /\ scope \subseteq Owners
  /\ cached \in [Keys -> Nat] /\ index \subseteq Blocks
  /\ generation \in Nat \ {0} /\ paused \in {"no", "yes"} /\ closed \in {"no", "yes"}
  /\ reader \in [Readers -> ReaderType]
  /\ commits \in Nat /\ clears \in Nat

\* A fence is up exactly while the writer is in its transaction's end.
FenceOK ==
  /\ paused = "yes" <=> writer # "idle"
  /\ writer \in {"fenced", "committed"} => \A k \in dirty : OwnerOf[k] \in scope

\* What may be stale: before the invalidation, the entries it will remove.
EntriesOK ==
  /\ writer \in {"idle", "fenced", "settled"} => \A k \in Keys : cached[k] \in {0, committed[k]}
  /\ writer = "committed" =>
        \A k \in Keys : OwnerOf[k] \notin scope => cached[k] \in {0, committed[k]}

\* A read x whose stamp is still the generation g has seen nothing change; cm
\* is the database and p says whether a fence is up.
ReaderOK(x, cm, g, p) ==
  /\ x.fill <= g
  /\ x.phase \in {"missed", "queried", "stamped", "context", "block"} =>
        x.key \in Keys /\ (x.fill = g => p = "no")
  /\ x.phase = "missed" => x.floor <= cm[x.key]
  /\ x.phase = "queried" => /\ x.floor <= x.value
                            /\ x.fill = g => x.value = cm[x.key]
  /\ x.phase = "read" => x.floor <= x.value
  /\ x.phase \in {"stamped", "context", "block"} =>
        /\ x.block \in Blocks
        /\ x.fill = g => x.floor = cm[x.key] /\ x.blockFloor = cm[x.block]
  /\ x.phase \in {"context", "block"} => (x.fill = g => x.value = cm[x.key])
  /\ x.phase = "block" => (x.fill = g => x.blockValue = cm[x.block])
  /\ x.phase = "page" => x.value = x.floor /\ x.blockValue = x.blockFloor

ReadersOK == \A r \in Readers : ReaderOK(reader[r], committed, generation, paused)

Bounded == Cardinality(Entries) <= Capacity

IInv == Typed /\ FenceOK /\ EntriesOK /\ ReadersOK /\ IndexTracksEntries /\ Bounded

(***************************************************************************)
(* Readers while the database, the generation or the fence changes         *)
(***************************************************************************)
LEMMA IdleOK ==
  ASSUME NEW cm, NEW g \in Nat, NEW p
  PROVE  Idle \in ReaderType /\ ReaderOK(Idle, cm, g, p)
BY DEF Idle, ReaderType, ReaderOK, NoFill

LEMMA ReadersKept ==
  ASSUME ReadersOK, UNCHANGED <<reader, committed, generation, paused>>
  PROVE  ReadersOK'
BY DEF ReadersOK

\* A new generation outdates every stamp.
LEMMA ReadersOutdated ==
  ASSUME Typed, ReadersOK, generation' = generation + 1, UNCHANGED <<reader, committed>>
  PROVE  ReadersOK'
<1>1. ASSUME NEW r \in Readers PROVE ReaderOK(reader[r], committed, generation + 1, paused')
  <2>1. reader[r] \in ReaderType /\ generation \in Nat
    BY DEF Typed
  <2>2. ReaderOK(reader[r], committed, generation, paused)
    BY DEF ReadersOK
  <2>3. reader[r].fill \in Nat /\ reader[r].fill <= generation
    BY <2>1, <2>2 DEF ReaderType, ReaderOK
  <2>4. reader[r].fill # generation + 1 /\ reader[r].fill <= generation + 1
    BY <2>1, <2>3
  <2> QED BY <2>2, <2>4 DEF ReaderOK
<1> QED BY <1>1 DEF ReadersOK

\* A COMMIT under the fence meets no read with a current stamp.
LEMMA ReadersFenced ==
  ASSUME Typed, ReadersOK, paused = "yes", UNCHANGED <<reader, generation, paused>>,
         committed' \in [Keys -> Nat \ {0}], \A k \in Keys : committed[k] <= committed'[k]
  PROVE  ReadersOK'
<1>1. ASSUME NEW r \in Readers PROVE ReaderOK(reader[r], committed', generation, paused)
  <2>1. reader[r] \in ReaderType /\ committed \in [Keys -> Nat \ {0}]
    BY DEF Typed
  <2>2. ReaderOK(reader[r], committed, generation, paused)
    BY DEF ReadersOK
  <2>3. reader[r].phase \in {"missed", "queried", "stamped", "context", "block"} =>
          reader[r].key \in Keys /\ reader[r].fill # generation
    BY <2>2 DEF ReaderOK
  <2>4. reader[r].phase = "missed" => reader[r].floor <= committed'[reader[r].key]
    <3> SUFFICES ASSUME reader[r].phase = "missed" PROVE reader[r].floor <= committed'[reader[r].key]
      OBVIOUS
    <3>1. reader[r].key \in Keys /\ reader[r].floor <= committed[reader[r].key]
      BY <2>2 DEF ReaderOK
    <3>2. reader[r].floor \in Nat
      BY <2>1 DEF ReaderType
    <3> QED BY <2>1, <3>1, <3>2
  <2> QED BY <2>2, <2>3, <2>4 DEF ReaderOK
<1> QED BY <1>1 DEF ReadersOK

LEMMA ReadersUnfenced ==
  ASSUME ReadersOK, paused' = "no", UNCHANGED <<reader, committed, generation>>
  PROVE  ReadersOK'
BY DEF ReadersOK, ReaderOK

\* One reader moves to a state that is in order.
LEMMA ReaderMoves ==
  ASSUME Typed, ReadersOK, NEW r \in Readers, NEW x \in ReaderType,
         ReaderOK(x, committed, generation, paused), reader' = [reader EXCEPT ![r] = x],
         UNCHANGED <<committed, generation, paused>>
  PROVE  reader' \in [Readers -> ReaderType] /\ ReadersOK'
<1>1. reader \in [Readers -> ReaderType]
  BY DEF Typed
<1>2. ASSUME NEW s \in Readers PROVE ReaderOK(reader'[s], committed, generation, paused)
  BY <1>1 DEF ReadersOK
<1> QED BY <1>1, <1>2 DEF ReadersOK

(***************************************************************************)
(* The entry budget                                                        *)
(***************************************************************************)
LEMMA NoEntries ==
  ASSUME \A k \in Keys : cached[k] = 0
  PROVE  Bounded /\ {k \in Blocks : cached[k] # 0} = {}
<1>1. Entries = {}
  BY DEF Entries
<1>2. {k \in Blocks : cached[k] # 0} = {}
  BY CacheAssumption
<1> QED BY <1>1, <1>2, FS_EmptySet, CacheAssumption DEF Bounded

LEMMA FewerEntries ==
  ASSUME NEW S, NEW T, T \subseteq S, S \subseteq Keys, Cardinality(S) <= Capacity
  PROVE  Cardinality(T) <= Capacity
<1>1. IsFiniteSet(S)
  BY FS_Subset, CacheAssumption
<1>2. Cardinality(T) <= Cardinality(S) /\ IsFiniteSet(T)
  BY <1>1, FS_Subset
<1>3. Cardinality(S) \in Nat /\ Cardinality(T) \in Nat
  BY <1>1, <1>2, FS_CardinalityType
<1> QED BY <1>2, <1>3, CacheAssumption

LEMMA OneMoreEntry ==
  ASSUME NEW k \in Keys, NEW victims, MakesRoom(k, victims), NEW T,
         T \subseteq ((Entries \ {k}) \ victims) \cup {k}
  PROVE  Cardinality(T) <= Capacity
<1> DEFINE S == (Entries \ {k}) \ victims
<1>1. IsFiniteSet(S)
  BY FS_Subset, CacheAssumption DEF Entries
<1>2. Cardinality(S \cup {k}) = Cardinality(S) + 1
  BY <1>1, FS_AddElement
<1>3. Cardinality(S) \in Nat /\ Cardinality(S) < Capacity
  BY <1>1, FS_CardinalityType DEF MakesRoom
<1>4. S \cup {k} \subseteq Keys
  BY DEF Entries
<1> HIDE DEF S
<1>5. Cardinality(S \cup {k}) <= Capacity
  BY <1>2, <1>3, CacheAssumption
<1> QED BY <1>4, <1>5, FewerEntries DEF S

(***************************************************************************)
(* The steps                                                               *)
(***************************************************************************)
LEMMA InvInit == Init => IInv
<1> SUFFICES ASSUME Init PROVE IInv
  OBVIOUS
<1>1. Typed
  <2>1. Idle \in ReaderType
    BY IdleOK
  <2> QED BY <2>1 DEF Init, Typed
<1>2. FenceOK /\ EntriesOK
  BY DEF Init, FenceOK, EntriesOK
<1>3. ReadersOK
  <2>1. ReaderOK(Idle, committed, generation, paused)
    BY IdleOK DEF Init
  <2> QED BY <2>1 DEF Init, ReadersOK
<1>4. IndexTracksEntries /\ Bounded
  BY NoEntries DEF Init, IndexTracksEntries
<1> QED BY <1>1, <1>2, <1>3, <1>4 DEF IInv

\* A step that leaves the entries, the index and the fence alone.
LEMMA EntriesKept ==
  ASSUME FenceOK, EntriesOK, IndexTracksEntries, Bounded,
         UNCHANGED <<cached, index, paused, writer, dirty, scope, committed>>
  PROVE  FenceOK' /\ EntriesOK' /\ IndexTracksEntries' /\ Bounded'
BY DEF FenceOK, EntriesOK, IndexTracksEntries, Bounded, Entries

\* A step that empties the cache.
LEMMA EntriesDropped ==
  ASSUME cached' = [k \in Keys |-> 0], index' = {}
  PROVE  EntriesOK' /\ IndexTracksEntries' /\ Bounded' /\ cached' \in [Keys -> Nat]
<1>1. \A k \in Keys : cached'[k] = 0
  OBVIOUS
<1>2. {k \in Blocks : cached'[k] # 0} = {}
  BY <1>1, CacheAssumption
<1>3. Entries' = {}
  BY <1>1 DEF Entries
<1>4. Bounded'
  BY <1>3, FS_EmptySet, CacheAssumption DEF Bounded
<1> QED BY <1>1, <1>2, <1>4 DEF EntriesOK, IndexTracksEntries

LEMMA WriterStep ==
  ASSUME IInv,
         \/ Pause \/ CommitOk \/ CommitRejected \/ CommitUnknown \/ Invalidate \/ CloseUnknown
         \/ Unfence \/ Close \/ Clear \/ Evict
  PROVE  IInv'
<1>0. Typed /\ FenceOK /\ EntriesOK /\ ReadersOK /\ IndexTracksEntries /\ Bounded
  BY DEF IInv
<1>a. Written \in [Keys -> Nat \ {0}] /\ \A k \in Keys : committed[k] <= Written[k]
  BY <1>0 DEF Typed, Written
<1>1. CASE Pause
  <2>1. Typed'
    BY <1>0, <1>1, CacheAssumption DEF Pause, Typed, OwnersOf
  <2>2. ReadersOK'
    BY <1>0, <1>1, ReadersOutdated DEF Pause
  <2>3. FenceOK'
    BY <1>1, CacheAssumption DEF Pause, FenceOK, OwnersOf
  <2>4. EntriesOK' /\ IndexTracksEntries' /\ Bounded'
    BY <1>0, <1>1 DEF Pause, EntriesOK, IndexTracksEntries, Bounded, Entries
  <2> QED BY <2>1, <2>2, <2>3, <2>4 DEF IInv
<1>2. CASE CommitOk
  <2>1. Typed'
    BY <1>0, <1>2, <1>a DEF CommitOk, Typed
  <2>2. ReadersOK'
    BY <1>0, <1>2, <1>a, ReadersFenced DEF CommitOk, FenceOK
  <2>3. FenceOK'
    BY <1>0, <1>2 DEF CommitOk, FenceOK
  <2>4. \A k \in Keys : OwnerOf[k] \notin scope => Written[k] = committed[k]
    BY <1>0, <1>2 DEF CommitOk, FenceOK, Written
  <2>5. EntriesOK'
    BY <1>0, <1>2, <2>4 DEF CommitOk, EntriesOK
  <2>6. IndexTracksEntries' /\ Bounded'
    BY <1>0, <1>2 DEF CommitOk, IndexTracksEntries, Bounded, Entries
  <2> QED BY <2>1, <2>2, <2>3, <2>5, <2>6 DEF IInv
<1>3. CASE CommitRejected
  <2>1. Typed' /\ FenceOK' /\ EntriesOK' /\ IndexTracksEntries' /\ Bounded'
    BY <1>0, <1>3 DEF CommitRejected, Typed, FenceOK, EntriesOK, IndexTracksEntries, Bounded, Entries
  <2>2. ReadersOK'
    BY <1>0, <1>3, ReadersKept DEF CommitRejected
  <2> QED BY <2>1, <2>2 DEF IInv
<1>4. CASE CommitUnknown
  <2>1. /\ committed' \in [Keys -> Nat \ {0}] /\ \A k \in Keys : committed[k] <= committed'[k]
    BY <1>0, <1>4, <1>a DEF CommitUnknown, Typed
  <2>2. Typed'
    BY <1>0, <1>4, <2>1 DEF CommitUnknown, Typed
  <2>3. ReadersOK'
    BY <1>0, <1>4, <2>1, ReadersFenced DEF CommitUnknown, FenceOK
  <2>4. FenceOK' /\ EntriesOK' /\ IndexTracksEntries' /\ Bounded'
    BY <1>0, <1>4 DEF CommitUnknown, FenceOK, EntriesOK, IndexTracksEntries, Bounded, Entries
  <2> QED BY <2>2, <2>3, <2>4 DEF IInv
<1>5. CASE Invalidate
  <2>1. \A k \in Keys : cached'[k] = IF OwnerOf[k] \in scope THEN 0 ELSE cached[k]
    BY <1>5 DEF Invalidate
  <2>2. cached' \in [Keys -> Nat] /\ index' \subseteq Blocks /\ index' = {k \in Blocks : cached'[k] # 0}
    BY <1>0, <1>5 DEF Invalidate, Typed
  <2>3. Typed'
    BY <1>0, <1>5, <2>2 DEF Invalidate, Typed
  <2>4. FenceOK' /\ EntriesOK' /\ IndexTracksEntries'
    BY <1>0, <1>5, <2>1, <2>2 DEF Invalidate, FenceOK, EntriesOK, IndexTracksEntries
  <2>5. Entries' \subseteq Entries /\ Entries \subseteq Keys
    BY <2>1 DEF Entries
  <2>6. Bounded'
    BY <1>0, <2>5, FewerEntries DEF Bounded
  <2>7. ReadersOK'
    BY <1>0, <1>5, ReadersKept DEF Invalidate
  <2> QED BY <2>3, <2>4, <2>6, <2>7 DEF IInv
<1>6. CASE CloseUnknown
  <2>1. EntriesOK' /\ IndexTracksEntries' /\ Bounded' /\ cached' \in [Keys -> Nat]
    BY <1>6, EntriesDropped DEF CloseUnknown
  <2>2. Typed' /\ FenceOK'
    BY <1>0, <1>6, <2>1 DEF CloseUnknown, Typed, FenceOK
  <2>3. ReadersOK'
    BY <1>0, <1>6, ReadersOutdated DEF CloseUnknown
  <2> QED BY <2>1, <2>2, <2>3 DEF IInv
<1>7. CASE Unfence
  <2>1. Typed' /\ FenceOK' /\ EntriesOK' /\ IndexTracksEntries' /\ Bounded'
    BY <1>0, <1>7 DEF Unfence, Typed, FenceOK, EntriesOK, IndexTracksEntries, Bounded, Entries
  <2>2. ReadersOK'
    BY <1>0, <1>7, ReadersUnfenced DEF Unfence
  <2> QED BY <2>1, <2>2 DEF IInv
<1>8. CASE Close \/ Clear
  <2>1. EntriesOK' /\ IndexTracksEntries' /\ Bounded' /\ cached' \in [Keys -> Nat]
    BY <1>8, EntriesDropped DEF Close, Clear
  <2>2. Typed' /\ FenceOK'
    BY <1>0, <1>8, <2>1 DEF Close, Clear, Typed, FenceOK
  <2>3. ReadersOK'
    BY <1>0, <1>8, ReadersOutdated DEF Close, Clear
  <2> QED BY <2>1, <2>2, <2>3 DEF IInv
<1>9. CASE Evict
  <2>1. EntriesOK' /\ IndexTracksEntries' /\ Bounded' /\ cached' \in [Keys -> Nat]
    BY <1>9, EntriesDropped DEF Evict
  <2>2. Typed' /\ FenceOK'
    BY <1>0, <1>9, <2>1 DEF Evict, Typed, FenceOK
  <2>3. ReadersOK'
    BY <1>0, <1>9, ReadersKept DEF Evict
  <2> QED BY <2>1, <2>2, <2>3 DEF IInv
<1> QED BY <1>1, <1>2, <1>3, <1>4, <1>5, <1>6, <1>7, <1>8, <1>9

\* The entry after an installation.
LEMMA InstallKeeps ==
  ASSUME IInv, NEW k \in Keys, NEW victims \in SUBSET Keys, MakesRoom(k, victims),
         paused = "no", Put(k, committed[k], victims),
         UNCHANGED <<paused, writer, dirty, scope, committed>>
  PROVE  /\ cached' \in [Keys -> Nat] /\ index' \subseteq Blocks
         /\ FenceOK' /\ EntriesOK' /\ IndexTracksEntries' /\ Bounded'
<1>0. Typed /\ FenceOK /\ EntriesOK /\ IndexTracksEntries /\ writer = "idle"
  BY DEF IInv, FenceOK
<1>1. \A j \in Keys : cached'[j] = IF j = k THEN committed[k] ELSE IF j \in victims THEN 0 ELSE cached[j]
  BY DEF Put
<1>2. cached' \in [Keys -> Nat] /\ committed[k] # 0
  BY <1>0 DEF Put, Typed
<1>3. k \notin victims
  BY DEF MakesRoom
<1>4. index' = {j \in Blocks : cached'[j] # 0}
  BY <1>0, <1>1, <1>2, <1>3, CacheAssumption DEF Put, IndexTracksEntries
<1>5. Entries' \subseteq ((Entries \ {k}) \ victims) \cup {k}
  BY <1>1 DEF Entries
<1>6. Bounded'
  BY <1>5, OneMoreEntry DEF Bounded
<1>7. FenceOK' /\ EntriesOK'
  BY <1>0, <1>1 DEF FenceOK, EntriesOK
<1> QED BY <1>2, <1>4, <1>6, <1>7 DEF IndexTracksEntries

LEMMA ReaderStep ==
  ASSUME IInv, NEW r \in Readers,
         \/ \E k \in Keys : Lookup(r, k)
         \/ \E k \in Keys \ Blocks, b \in Blocks : PageStamp(r, k, b)
         \/ Query(r) \/ Install(r) \/ Fail(r) \/ PageContext(r) \/ PageBlock(r) \/ PageServe(r)
  PROVE  IInv'
<1>0. /\ Typed /\ FenceOK /\ EntriesOK /\ ReadersOK /\ IndexTracksEntries /\ Bounded
      /\ reader[r] \in ReaderType /\ generation \in Nat /\ generation # 0
      /\ committed \in [Keys -> Nat \ {0}] /\ cached \in [Keys -> Nat]
      /\ ReaderOK(reader[r], committed, generation, paused)
  BY DEF IInv, Typed, ReadersOK
<1>a. ASSUME NEW x \in ReaderType, ReaderOK(x, committed, generation, paused),
             reader' = [reader EXCEPT ![r] = x],
             UNCHANGED <<committed, writerVars, cacheVars, commits, clears>>
      PROVE  IInv'
  <2>1. reader' \in [Readers -> ReaderType] /\ ReadersOK'
    BY <1>0, <1>a, ReaderMoves
  <2>2. FenceOK' /\ EntriesOK' /\ IndexTracksEntries' /\ Bounded'
    BY <1>0, <1>a, EntriesKept
  <2>3. Typed'
    BY <1>0, <1>a, <2>1 DEF Typed
  <2> QED BY <2>1, <2>2, <2>3 DEF IInv
<1>b. \A k \in Keys : Hit(k) => cached[k] = committed[k]
  BY <1>0 DEF Hit, EntriesOK, FenceOK
<1>c. \A k \in Blocks : paused = "no" /\ k \in index => cached[k] = committed[k]
  BY <1>0, CacheAssumption DEF EntriesOK, FenceOK, IndexTracksEntries
<1>1. ASSUME NEW k \in Keys, Lookup(r, k) PROVE IInv'
  <2> DEFINE x == [phase |-> IF Hit(k) THEN "read" ELSE "missed", key |-> k, block |-> NoKey,
                   fill |-> IF Hit(k) THEN NoFill ELSE Stamp, floor |-> committed[k],
                   blockFloor |-> 0, value |-> IF Hit(k) THEN cached[k] ELSE 0, blockValue |-> 0]
  <2>1. reader' = [reader EXCEPT ![r] = x]
    BY <1>1, Zenon DEF Lookup
  <2>2. x \in ReaderType
    BY <1>0 DEF ReaderType, Stamp, NoFill
  <2>3. ReaderOK(x, committed, generation, paused)
    <3>1. CASE Hit(k)
      BY <1>0, <1>b, <3>1 DEF ReaderOK, NoFill
    <3>2. CASE ~Hit(k)
      BY <1>0, <3>2 DEF ReaderOK, Stamp, NoFill, Typed
    <3> QED BY <3>1, <3>2
  <2> QED BY <1>1, <1>a, <2>1, <2>2, <2>3 DEF Lookup
<1>2. CASE Query(r)
  <2> DEFINE y == reader[r]
             x == [phase |-> "queried", key |-> y.key, block |-> y.block, fill |-> y.fill,
                   floor |-> y.floor, blockFloor |-> y.blockFloor, value |-> committed[y.key],
                   blockValue |-> y.blockValue]
  <2>1. reader' = [reader EXCEPT ![r] = x]
    <3>1. reader' = [reader EXCEPT ![r] = [y EXCEPT !.phase = "queried", !.value = committed[y.key]]]
      BY <1>2, Zenon DEF Query
    <3> DEFINE z == [phase |-> "queried", key |-> y.key, block |-> y.block, fill |-> y.fill,
                     floor |-> y.floor, blockFloor |-> y.blockFloor, value |-> y.value,
                     blockValue |-> y.blockValue]
    <3>2. [y EXCEPT !.phase = "queried"] = z
      BY <1>0 DEF ReaderType
    <3>3. [z EXCEPT !.value = committed[y.key]] = x
      OBVIOUS
    <3>4. [y EXCEPT !.phase = "queried", !.value = committed[y.key]] = [[y EXCEPT !.phase = "queried"] EXCEPT !.value = committed[y.key]]
      BY <1>0 DEF ReaderType
    <3> QED BY <3>1, <3>2, <3>3, <3>4, Zenon
  <2>2. y.phase = "missed" /\ y.key \in Keys
    BY <1>0, <1>2 DEF Query, ReaderOK
  <2>3. x \in ReaderType
    BY <1>0, <2>2 DEF ReaderType
  <2>4. ReaderOK(x, committed, generation, paused)
    BY <1>0, <2>2 DEF ReaderOK
  <2> QED BY <1>2, <1>a, <2>1, <2>3, <2>4 DEF Query
<1>3. CASE Install(r)
  <2> DEFINE y == reader[r]
             x == [phase |-> "read", key |-> y.key, block |-> y.block, fill |-> y.fill,
                   floor |-> y.floor, blockFloor |-> y.blockFloor, value |-> y.value,
                   blockValue |-> y.blockValue]
  <2>1. reader' = [reader EXCEPT ![r] = x]
    <3>1. reader' = [reader EXCEPT ![r] = [y EXCEPT !.phase = "read"]]
      BY <1>3, Zenon DEF Install
    <3>2. [y EXCEPT !.phase = "read"] = x
      BY <1>0 DEF ReaderType
    <3> QED BY <3>1, <3>2, Zenon
  <2>2. y.phase = "queried" /\ y.key \in Keys
    BY <1>0, <1>3 DEF Install, ReaderOK
  <2>3. x \in ReaderType
    BY <1>0 DEF ReaderType
  <2>4. ReaderOK(x, committed, generation, paused)
    BY <1>0, <2>2 DEF ReaderOK
  <2>5. reader' \in [Readers -> ReaderType] /\ ReadersOK'
    BY <1>0, <1>3, <2>1, <2>3, <2>4, ReaderMoves DEF Install
  <2>6. CASE UNCHANGED <<cached, index>>
    BY <1>3, <1>a, <2>1, <2>3, <2>4, <2>6 DEF Install
  <2>7. ASSUME Installable(y.fill), NEW victims \in SUBSET Keys, MakesRoom(y.key, victims),
               Put(y.key, y.value, victims)
        PROVE  IInv'
    <3>1. y.value = committed[y.key] /\ paused = "no"
      BY <1>0, <2>2, <2>7 DEF Installable, ReaderOK
    <3>2. Put(y.key, committed[y.key], victims)
      BY <2>7, <3>1
    <3>3. UNCHANGED <<paused, writer, dirty, scope, committed, generation, closed, commits, clears>>
      BY <1>3 DEF Install
    <3>4. /\ cached' \in [Keys -> Nat] /\ index' \subseteq Blocks
          /\ FenceOK' /\ EntriesOK' /\ IndexTracksEntries' /\ Bounded'
      BY <2>2, <2>7, <3>1, <3>2, <3>3, InstallKeeps
    <3>5. Typed'
      BY <1>0, <2>5, <3>3, <3>4 DEF Typed
    <3> QED BY <2>5, <3>4, <3>5 DEF IInv
  <2> QED BY <1>3, <2>6, <2>7 DEF Install
<1>4. CASE Fail(r)
  BY <1>0, <1>4, <1>a, IdleOK DEF Fail
<1>5. ASSUME NEW k \in Keys \ Blocks, NEW b \in Blocks, PageStamp(r, k, b) PROVE IInv'
  <2> DEFINE x == [phase |-> "stamped", key |-> k, block |-> b, fill |-> generation,
                   floor |-> committed[k], blockFloor |-> committed[b], value |-> 0, blockValue |-> 0]
  <2>1. reader' = [reader EXCEPT ![r] = x] /\ paused = "no"
    BY <1>5, Zenon DEF PageStamp
  <2>2. x \in ReaderType
    BY <1>0, CacheAssumption DEF ReaderType
  <2>3. ReaderOK(x, committed, generation, paused)
    BY <1>0, <2>1 DEF ReaderOK
  <2> QED BY <1>5, <1>a, <2>1, <2>2, <2>3 DEF PageStamp
<1>6. CASE PageContext(r)
  <2> DEFINE y == reader[r]
             x == [phase |-> "context", key |-> y.key, block |-> y.block, fill |-> y.fill,
                   floor |-> y.floor, blockFloor |-> y.blockFloor, value |-> cached[y.key],
                   blockValue |-> y.blockValue]
  <2>1. reader' = [reader EXCEPT ![r] = x]
    <3>1. reader' = [reader EXCEPT ![r] = [y EXCEPT !.phase = "context", !.value = cached[y.key]]]
      BY <1>6, Zenon DEF PageContext
    <3> DEFINE z == [phase |-> "context", key |-> y.key, block |-> y.block, fill |-> y.fill,
                     floor |-> y.floor, blockFloor |-> y.blockFloor, value |-> y.value,
                     blockValue |-> y.blockValue]
    <3>2. [y EXCEPT !.phase = "context"] = z
      BY <1>0 DEF ReaderType
    <3>3. [z EXCEPT !.value = cached[y.key]] = x
      OBVIOUS
    <3>4. [y EXCEPT !.phase = "context", !.value = cached[y.key]] = [[y EXCEPT !.phase = "context"] EXCEPT !.value = cached[y.key]]
      BY <1>0 DEF ReaderType
    <3> QED BY <3>1, <3>2, <3>3, <3>4, Zenon
  <2>2. y.phase = "stamped" /\ y.key \in Keys
    BY <1>0, <1>6 DEF PageContext, ReaderOK
  <2>3. cached[y.key] = committed[y.key]
    BY <1>6, <1>b, <2>2 DEF PageContext
  <2>4. x \in ReaderType
    BY <1>0, <2>2 DEF ReaderType
  <2>5. ReaderOK(x, committed, generation, paused)
    BY <1>0, <2>2, <2>3 DEF ReaderOK
  <2> QED BY <1>6, <1>a, <2>1, <2>4, <2>5 DEF PageContext
<1>7. CASE PageBlock(r)
  <2> DEFINE y == reader[r]
             x == [phase |-> "block", key |-> y.key, block |-> y.block, fill |-> y.fill,
                   floor |-> y.floor, blockFloor |-> y.blockFloor, value |-> y.value,
                   blockValue |-> cached[y.block]]
  <2>1. reader' = [reader EXCEPT ![r] = x]
    <3>1. reader' = [reader EXCEPT ![r] = [y EXCEPT !.phase = "block", !.blockValue = cached[y.block]]]
      BY <1>7, Zenon DEF PageBlock
    <3> DEFINE z == [phase |-> "block", key |-> y.key, block |-> y.block, fill |-> y.fill,
                     floor |-> y.floor, blockFloor |-> y.blockFloor, value |-> y.value,
                     blockValue |-> y.blockValue]
    <3>2. [y EXCEPT !.phase = "block"] = z
      BY <1>0 DEF ReaderType
    <3>3. [z EXCEPT !.blockValue = cached[y.block]] = x
      OBVIOUS
    <3>4. [y EXCEPT !.phase = "block", !.blockValue = cached[y.block]] = [[y EXCEPT !.phase = "block"] EXCEPT !.blockValue = cached[y.block]]
      BY <1>0 DEF ReaderType
    <3> QED BY <3>1, <3>2, <3>3, <3>4, Zenon
  <2>2. y.phase = "context" /\ y.key \in Keys /\ y.block \in Blocks
    BY <1>0, <1>7 DEF PageBlock, ReaderOK
  <2>3. cached[y.block] = committed[y.block]
    BY <1>7, <1>c, <2>2 DEF PageBlock
  <2>4. x \in ReaderType
    BY <1>0, <2>2, CacheAssumption DEF ReaderType
  <2>5. ReaderOK(x, committed, generation, paused)
    BY <1>0, <2>2, <2>3 DEF ReaderOK
  <2> QED BY <1>7, <1>a, <2>1, <2>4, <2>5 DEF PageBlock
<1>8. CASE PageServe(r)
  <2>1. CASE ~Current(reader[r].fill)
    BY <1>0, <1>8, <1>a, <2>1, IdleOK DEF PageServe
  <2>2. CASE Current(reader[r].fill)
    <3> DEFINE y == reader[r]
               x == [phase |-> "page", key |-> y.key, block |-> y.block, fill |-> y.fill,
                     floor |-> y.floor, blockFloor |-> y.blockFloor, value |-> y.value,
                     blockValue |-> y.blockValue]
    <3>1. reader' = [reader EXCEPT ![r] = x]
      <4>1. reader' = [reader EXCEPT ![r] = [y EXCEPT !.phase = "page"]]
        BY <1>8, <2>2, Zenon DEF PageServe
      <4>2. [y EXCEPT !.phase = "page"] = x
        BY <1>0 DEF ReaderType
      <4> QED BY <4>1, <4>2, Zenon
    <3>2. y.phase = "block" /\ y.fill = generation
      BY <1>8, <2>2 DEF PageServe, Current
    <3>3. x \in ReaderType
      BY <1>0 DEF ReaderType
    <3>4. ReaderOK(x, committed, generation, paused)
      BY <1>0, <3>2 DEF ReaderOK
    <3> QED BY <1>8, <1>a, <3>1, <3>3, <3>4 DEF PageServe
  <2> QED BY <2>1, <2>2
<1> QED BY <1>1, <1>2, <1>3, <1>4, <1>5, <1>6, <1>7, <1>8

LEMMA InvStep == IInv /\ [Next]_vars => IInv'
<1> SUFFICES ASSUME IInv, [Next]_vars PROVE IInv'
  OBVIOUS
<1>1. CASE UNCHANGED vars
  BY <1>1, ReadersKept, EntriesKept DEF vars, IInv, Typed
<1>2. CASE Next
  BY <1>2, WriterStep, ReaderStep DEF Next
<1> QED BY <1>1, <1>2

LEMMA Invariant == Spec => []IInv
BY InvInit, InvStep, PTL DEF Spec

\* The cache's and the readers' state keeps its type and the entries stay
\* within CACHE_ENTRIES, whichever entries an installation removes.
THEOREM CacheTyped == Spec => []TypeOK
<1>1. IInv => TypeOK
  BY DEF IInv, Typed, TypeOK, ReaderType, Bounded
<1> QED BY <1>1, Invariant, PTL

\* Outside a fence every warm entry is what is committed: the generation stamp
\* keeps a read that began before a COMMIT from installing what it saw.
THEOREM CacheWarmAuthoritative == Spec => []WarmAuthoritative
<1>1. IInv => WarmAuthoritative
  BY DEF IInv, Typed, FenceOK, EntriesOK, WarmAuthoritative
<1> QED BY <1>1, Invariant, PTL

\* The index of event blocks names exactly the cached blocks, which the lookup
\* by range relies on with an expect().
THEOREM CacheIndexTracks == Spec => []IndexTracksEntries
BY Invariant, PTL DEF IInv

\* A read answers nothing older than what was committed when it began.
THEOREM CacheReadsFresh == Spec => []ReadsFresh
<1>1. IInv => ReadsFresh
  <2> SUFFICES ASSUME IInv, NEW r \in Readers, reader[r].phase = "read"
               PROVE  reader[r].value >= reader[r].floor
    BY DEF ReadsFresh
  <2>1. reader[r] \in ReaderType /\ ReaderOK(reader[r], committed, generation, paused)
    BY DEF IInv, Typed, ReadersOK
  <2> QED BY <2>1 DEF ReaderOK, ReaderType
<1> QED BY <1>1, Invariant, PTL

\* A page served from the cache is one committed cut.
THEOREM CachePageIsCut == Spec => []PageIsCut
<1>1. IInv => PageIsCut
  BY DEF IInv, ReadersOK, ReaderOK, PageIsCut
<1> QED BY <1>1, Invariant, PTL
=============================================================================
