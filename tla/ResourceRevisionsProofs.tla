---------------------- MODULE ResourceRevisionsProofs ----------------------
(***************************************************************************)
(* Proofs about the resource clock, for any number of keys, clients,       *)
(* changes and resets and any memory, when the two readings of the wall    *)
(* clock at the start agree (Skew = 0), with changes among them that never *)
(* reach the clock.  The inductive invariant says that every token a       *)
(* client has is at most its key's revision, and that a kept body which    *)
(* lacks an announced change either has an older token than the key's or   *)
(* the change is still to be applied: undrained, covered by a reset that   *)
(* is about to happen, or half stamped.                                    *)
(*                                                                         *)
(* Which keys a change names is the other half of the resource protocol:   *)
(* the last part proves it for the session lists (SessionLists).  The two  *)
(* specifications share no state and are proved about separately.          *)
(***************************************************************************)
EXTENDS ResourceRevisions, SessionLists, FiniteSetTheorems, TLAPS

Places == {"idle", "refresh", "token", "body", "kept"}

Typed ==
  /\ committed \in Nat /\ hits \in [Ids -> SUBSET Keys]
  /\ announced \subseteq Ids /\ \A i \in announced : i <= committed
  /\ notice \in [Ids -> {"none", "change", "reset"}]
  /\ \A i \in Ids : notice[i] = "change" => i \in announced
  /\ index \in [Ids -> Nat] /\ published \in Nat /\ head \in Nat /\ drained \in Nat
  /\ fresh \in Nat /\ position \in Nat /\ busy \in Nat /\ todo \subseteq Keys
  /\ holder \in Actors \cup {"none"} /\ pc \in [Actors -> Places]
  /\ key \in [Actors -> Keys \cup {"none"}] /\ need \in [Actors -> SUBSET announced]
  /\ token \in [Actors -> Nat]
  /\ cache \in [Clients -> [Keys -> [token : Nat, body : Nat]]]
  /\ told \in [key : Keys \cup {"none"}, token : Nat, id : Nat] /\ told.id <= committed

WatchOK ==
  /\ head <= published /\ drained <= published /\ position <= drained /\ fresh <= drained
  /\ \A i \in Ids : index[i] <= published
  /\ \A i, j \in Ids : index[i] = index[j] /\ index[i] # 0 => i = j
  /\ holder = "none" => step = "drain"
  /\ watch = "none" => step = "drain"
  /\ holder # "none" => pc[holder] = "refresh"
  /\ busy = 0 => todo = {}

RequestsOK ==
  /\ \A a \in Actors : /\ pc[a] # "idle" => key[a] \in Keys
                       /\ pc[a] # "body" => token[a] = 0
                       /\ \A i \in need[a] : key[a] \in hits[i]
  /\ watch = "none" => /\ \A a \in Actors : pc[a] \in {"idle", "refresh"}
                       /\ \A c \in Clients, k \in Keys : cache[c][k].token = 0

ClockTyped == revision \in Nat /\ reset \in Nat /\ local \in [Keys -> Nat]

ClockOK ==
  /\ ClockTyped
  /\ 1 <= reset /\ reset <= revision
  /\ \A k \in Keys : local[k] <= revision /\ (local[k] # 0 => reset <= local[k])

\* A token of a key: not newer than the key, older than a forgotten one.
Below(t, k) == IF local[k] = 0 THEN t < reset ELSE t <= local[k]

TokensOK ==
  /\ \A c \in Clients, k \in Keys : Below(cache[c][k].token, k)
  /\ \A a \in Actors : key[a] \in Keys => Below(token[a], key[a])

\* The keys yet to be stamped have only tokens older than the new revision.
StampOK ==
  \A k \in todo : /\ \A c \in Clients : cache[c][k].token < revision
                  /\ \A a \in Actors : key[a] = k => token[a] < revision

\* Change i has still to reach key k.
Pending(i, k) == index[i] > drained \/ step # "drain" \/ (busy = i /\ k \in todo)

StaleKnown ==
  \A c \in Clients, k \in Keys, i \in announced :
    k \in hits[i] /\ cache[c][k].body < i => cache[c][k].token < Rev(k) \/ Pending(i, k)

\* What a request needs has reached the clock when it takes its token.
Settled ==
  \A a \in Actors : pc[a] = "token" =>
    \A i \in need[a], c \in Clients :
      cache[c][key[a]].body < i => cache[c][key[a]].token < Rev(key[a])

Basics == Typed /\ WatchOK /\ RequestsOK
IInv == Basics /\ ClockOK /\ TokensOK /\ StampOK /\ StaleKnown /\ Settled
             /\ NotModifiedExact /\ ToldFresh

-----------------------------------------------------------------------------
(* The clock never runs backwards.                                          *)

Moves ==
  /\ ClockOK' /\ revision <= revision'
  /\ \A k \in Keys : Rev(k) <= Rev(k)'
  /\ \A k \in Keys, t \in Nat : Below(t, k) => Below(t, k)'
  /\ \A k \in Keys : local[k] # 0 /\ local'[k] = 0 => revision < reset'

LEMMA StillMoves == ASSUME ClockOK, UNCHANGED <<revision, reset, local>> PROVE Moves
  BY DEF Moves, ClockOK, ClockTyped, Rev, Larger, Below

LEMMA StampMoves ==
  ASSUME ClockOK, NEW j \in Jumps, revision' = revision + j, UNCHANGED <<reset, local>>
  PROVE Moves /\ revision < revision'
  BY RevisionsAssumption DEF Moves, ClockOK, ClockTyped, Rev, Larger, Below

LEMMA ResetMoves ==
  ASSUME ClockOK, NEW at, ResetClock(at)
  PROVE Moves /\ revision < reset' /\ \A k \in Keys : local'[k] = 0
  BY RevisionsAssumption DEF Moves, ClockOK, ClockTyped, Rev, Larger, Below, ResetClock

LEMMA SetMoves ==
  ASSUME ClockOK, NEW k \in Keys, NEW r \in Nat, Rev(k) <= r, r <= revision, Set(k, r)
  PROVE /\ Moves /\ r <= local'[k] /\ Rev(k)' = local'[k]
        /\ local'[k] \in Nat \ {0} /\ \A x \in Keys : Rev(x)' > revision \/ local'[x] = local[x] \/ x = k
  <1>1. CASE Full(k)
    <2>1. PICK j \in Jumps : /\ revision' = revision + j /\ reset' = revision + j
                             /\ local' = [x \in Keys |-> IF x = k THEN Larger(r, revision + j) ELSE 0]
      BY <1>1 DEF Set, Forget
    <2> QED BY <2>1, RevisionsAssumption DEF Moves, ClockOK, ClockTyped, Rev, Larger, Below
  <1>2. CASE ~Full(k)
    <2>1. local' = [local EXCEPT ![k] = Larger(r, reset)] /\ UNCHANGED <<revision, reset>>
      BY <1>2 DEF Set
    <2> QED BY <2>1 DEF Moves, ClockOK, ClockTyped, Rev, Larger, Below
  <1> QED BY <1>1, <1>2

LEMMA IssueMoves ==
  ASSUME ClockOK, NEW k \in Keys, Issue(k)
  PROVE /\ Moves /\ Rev(k) <= local'[k] /\ Rev(k)' = local'[k] /\ local'[k] \in Nat \ {0}
        /\ busy = 0 /\ UNCHANGED <<position, busy, todo>>
  <1>1. Rev(k) \in Nat /\ Rev(k) <= revision
    BY DEF ClockOK, ClockTyped, Rev, Larger
  <1>2. Set(k, Rev(k)) /\ busy = 0 /\ UNCHANGED <<position, busy, todo>>
    BY DEF Issue
  <1>3. PICK r : r = Rev(k)
    OBVIOUS
  <1> QED BY <1>1, <1>2, <1>3, SetMoves

LEMMA StampKeyMoves ==
  ASSUME ClockOK, NEW k \in Keys, StampKey(k)
  PROVE Moves /\ revision <= Rev(k)'
  <1>1. Rev(k) <= revision /\ revision \in Nat
    BY DEF ClockOK, ClockTyped, Rev, Larger
  <1>2. Set(k, revision)
    BY DEF StampKey
  <1> QED BY <1>1, <1>2, SetMoves

\* Every step is one of the actions.
LEMMA Cases ==
  ASSUME [Next]_vars
  PROVE \/ \E how \in Kinds, S \in SUBSET Keys : Commit(how, S)
        \/ \E i \in Ids, what \in {"change", "reset"} : Publish(i, what)
        \/ \E i \in Ids : Observe(i)
        \/ Lag
        \/ \E a \in Actors : Acquire(a)
        \/ OpenFirst
        \/ Reopen
        \/ Reset
        \/ \E i \in Ids : Drain(i)
        \/ Drained
        \/ \E k \in Keys : StampKey(k)
        \/ Unlock
        \/ \E c \in Clients, k \in Keys : Begin(c, k)
        \/ \E c \in Clients : TakeToken(c)
        \/ \E c \in Clients : ReadBody(c)
        \/ \E i \in Ids, k \in Keys : Hear(i, k)
        \/ Tell
        \/ UNCHANGED vars
  BY Zenon DEF Next, Change, Refresh, Request

LEMMA ClientsAct == Clients \subseteq Actors /\ Live \in Actors /\ "none" \notin Actors
  BY RevisionsAssumption DEF Actors

LEMMA MovesStep ==
  ASSUME Basics, ClockOK, [Next]_vars
  PROVE Moves
  <1> USE ClientsAct
  <1>1. CASE UNCHANGED <<revision, reset, local>>
    BY <1>1, StillMoves
  <1>2. ASSUME NEW i \in Ids, Observe(i) PROVE Moves
    BY <1>2, StampMoves DEF Observe, Stamp
  <1>3. ASSUME NEW i \in Ids, Drain(i) PROVE Moves
    <2>1. CASE UNCHANGED clockVars
      BY <2>1, StillMoves DEF clockVars
    <2>2. CASE \E j \in Jumps : revision' = revision + j /\ UNCHANGED <<reset, local>>
      BY <2>2, StampMoves
    <2> QED BY <1>3, <2>1, <2>2 DEF Drain, Stamp
  <1>4. CASE Reset
    BY <1>4, ResetMoves DEF Reset
  <1>5. ASSUME NEW k \in Keys, StampKey(k) PROVE Moves
    BY <1>5, StampKeyMoves
  <1>6. ASSUME NEW c \in Clients, TakeToken(c) PROVE Moves
    <2>1. key[c] \in Keys /\ Issue(key[c])
      BY <1>6 DEF TakeToken, Basics, RequestsOK
    <2> QED BY <2>1, IssueMoves
  <1>7. CASE Tell
    <2>1. key[Live] \in Keys /\ Issue(key[Live])
      BY <1>7 DEF Tell, Basics, RequestsOK
    <2> QED BY <2>1, IssueMoves
  <1>8. ASSUME NEW c \in Clients, NEW k \in Keys, Begin(c, k)
        PROVE UNCHANGED <<revision, reset, local>>
    BY <1>8 DEF Begin, clockVars
  <1>9. ASSUME NEW i \in Ids, NEW k \in Keys, Hear(i, k)
        PROVE UNCHANGED <<revision, reset, local>>
    BY <1>9 DEF Hear, clockVars
  <1>10. ASSUME NEW c \in Clients, ReadBody(c) PROVE UNCHANGED <<revision, reset, local>>
    BY <1>10 DEF ReadBody, clockVars
  <1>11. ASSUME \/ \E how \in Kinds, S \in SUBSET Keys : Commit(how, S)
                \/ \E i \in Ids, what \in {"change", "reset"} : Publish(i, what)
                \/ Lag \/ \E a \in Actors : Acquire(a)
                \/ OpenFirst \/ Reopen \/ Drained \/ Unlock \/ UNCHANGED vars
         PROVE UNCHANGED <<revision, reset, local>>
    BY <1>11 DEF Commit, Publish, Lag, Acquire, OpenFirst, Reopen, Open, Drained, Unlock, vars, clockVars
  <1> QED BY <1>1, <1>2, <1>3, <1>4, <1>5, <1>6, <1>7, <1>8, <1>9, <1>10, <1>11, Cases

-----------------------------------------------------------------------------
(* Types, the watch and the requests.                                       *)

LEMMA SetTyped ==
  ASSUME ClockTyped, NEW k \in Keys, NEW r \in Nat, Set(k, r)
  PROVE ClockTyped' /\ local'[k] \in Nat
  <1>1. CASE Full(k)
    <2>1. PICK j \in Jumps : /\ revision' = revision + j /\ reset' = revision + j
                             /\ local' = [x \in Keys |-> IF x = k THEN Larger(r, revision + j) ELSE 0]
      BY <1>1 DEF Set, Forget
    <2> QED BY <2>1, RevisionsAssumption DEF ClockTyped, Larger
  <1>2. CASE ~Full(k)
    BY <1>2 DEF Set, ClockTyped, Larger
  <1> QED BY <1>1, <1>2

LEMMA IssueTyped ==
  ASSUME ClockTyped, NEW k \in Keys, Issue(k)
  PROVE ClockTyped' /\ local'[k] \in Nat /\ UNCHANGED <<position, busy, todo>>
  <1>1. Rev(k) \in Nat
    BY DEF ClockTyped, Rev, Larger
  <1>2. Set(k, Rev(k)) /\ UNCHANGED <<position, busy, todo>>
    BY DEF Issue
  <1>3. PICK r : r = Rev(k)
    OBVIOUS
  <1> QED BY <1>1, <1>2, <1>3, SetTyped

LEMMA TypedStep ==
  ASSUME Basics, ClockTyped, [Next]_vars
  PROVE Typed'
  <1> USE ClientsAct, RevisionsAssumption
  <1>0. Typed /\ RequestsOK /\ WatchOK /\ \A i \in Ids : i \in Nat \ {0}
    BY DEF Basics, Ids
  <1>1. ASSUME NEW how \in Kinds, NEW S \in SUBSET Keys, Commit(how, S) PROVE Typed'
    <2>1. /\ committed' = committed + 1 /\ committed < MaxChanges
          /\ hits' = [hits EXCEPT ![committed + 1] = S]
          /\ (announced' = announced \/ announced' = announced \cup {committed + 1})
      BY <1>1 DEF Commit
    <2>2. UNCHANGED <<notice, index, published, head, drained, fresh, position, busy, todo, holder,
                      pc, key, need, token, cache, told>>
      BY <1>1 DEF Commit, watchVars, clockVars, requestVars
    <2>3. committed + 1 \in Ids
      BY <1>0, <2>1 DEF Typed, Ids
    <2> QED BY <1>0, <2>1, <2>2, <2>3 DEF Typed
  <1>2. ASSUME NEW i \in Ids, NEW what \in {"change", "reset"}, Publish(i, what) PROVE Typed'
    <2>1. /\ i <= committed /\ published' = published + 1
          /\ index' = [index EXCEPT ![i] = published + 1]
          /\ notice' = [notice EXCEPT ![i] = what] /\ announced' = announced \cup {i}
          /\ (head' = published + 1 \/ head' = head)
      BY <1>2 DEF Publish
    <2>2. UNCHANGED <<committed, hits, drained, fresh, position, busy, todo, holder,
                      pc, key, need, token, cache, told>>
      BY <1>2 DEF Publish, watchVars, clockVars, requestVars
    <2> QED BY <1>0, <2>1, <2>2 DEF Typed
  <1>3. ASSUME NEW i \in Ids, Observe(i) PROVE Typed'
    <2>1. /\ i <= committed /\ announced' = announced \cup {i} /\ busy' = i /\ todo' = hits[i]
      BY <1>3 DEF Observe, Stamp
    <2>2. UNCHANGED <<committed, hits, notice, index, published, head, drained, fresh, position,
                      holder, pc, key, need, token, cache, told>>
      BY <1>3 DEF Observe, watchVars, requestVars
    <2> QED BY <1>0, <2>1, <2>2 DEF Typed
  <1>4. ASSUME Lag \/ Unlock \/ UNCHANGED vars \/ \E a \in Actors : Acquire(a) PROVE Typed'
    <2>1. /\ UNCHANGED <<committed, hits, announced, notice, index, published, head, drained, fresh,
                         position, todo, pc, key, need, token, cache, told>>
          /\ (busy' = busy \/ busy' = 0) /\ (holder' = holder \/ holder' \in Actors)
      BY <1>4 DEF Lag, Unlock, Acquire, vars, changeVars, watchVars, clockVars, requestVars
    <2> QED BY <1>0, <2>1 DEF Typed
  <1>5. ASSUME OpenFirst \/ Reopen PROVE Typed'
    <2>1. /\ UNCHANGED <<committed, hits, announced, notice, index, published, head,
                         position, busy, todo, holder, pc, key, need, token, cache, told>>
          /\ drained' = published /\ (fresh' = 0 \/ fresh' = head)
      BY <1>5 DEF OpenFirst, Reopen, Open, changeVars, clockVars, requestVars
    <2> QED BY <1>0, <2>1 DEF Typed
  <1>6. ASSUME Reset \/ Drained PROVE Typed'
    <2>1. /\ UNCHANGED <<committed, hits, announced, notice, index, published, head, drained,
                         busy, todo, key, need, token, cache, told>>
          /\ (position' = position \/ position' = fresh) /\ (fresh' = fresh \/ fresh' = 0)
          /\ (holder' = holder \/ holder' = "none")
          /\ holder \in Actors /\ (pc' = pc \/ pc' = [pc EXCEPT ![holder] = "token"])
      BY <1>0, <1>6 DEF Reset, Drained, Release, ResetClock, changeVars, requestVars, clockVars, Typed
    <2> QED BY <1>0, <2>1 DEF Typed, Places
  <1>7. ASSUME NEW i \in Ids, Drain(i) PROVE Typed'
    <2>1. /\ UNCHANGED <<committed, hits, announced, notice, index, published, head, fresh,
                         holder, pc, key, need, token, cache, told>>
          /\ drained' = drained + 1 /\ (position' = position \/ position' = index[i])
          /\ (busy' = busy \/ busy' = i)
          /\ (todo' = todo \/ todo' = {k \in hits[i] : k \notin Derived \/ local[k] # 0})
      BY <1>7 DEF Drain, Stamp, changeVars, requestVars, clockVars
    <2> QED BY <1>0, <2>1 DEF Typed
  <1>8. ASSUME NEW k \in Keys, StampKey(k) PROVE Typed'
    <2>1. /\ UNCHANGED <<committed, hits, announced, notice, index, published, head, drained, fresh,
                         position, busy, holder, pc, key, need, token, cache, told>>
          /\ todo' = todo \ {k}
      BY <1>8 DEF StampKey, changeVars, watchVars, requestVars
    <2> QED BY <1>0, <2>1 DEF Typed
  <1>9. ASSUME NEW c \in Clients, NEW k \in Keys, Begin(c, k) PROVE Typed'
    <2>1. /\ UNCHANGED <<committed, hits, announced, notice, index, published, head, drained, fresh,
                         position, busy, todo, holder, token, cache, told>>
          /\ pc' = [pc EXCEPT ![c] = "refresh"] /\ key' = [key EXCEPT ![c] = k]
          /\ need' = [need EXCEPT ![c] = {i \in announced : k \in hits[i]}]
      BY <1>9 DEF Begin, changeVars, watchVars, clockVars
    <2> QED BY <1>0, <2>1 DEF Typed, Places
  <1>10. ASSUME NEW i \in Ids, NEW k \in Keys, Hear(i, k) PROVE Typed'
    <2>1. /\ UNCHANGED <<committed, hits, announced, notice, index, published, head, drained, fresh,
                         position, busy, todo, holder, token, cache, told>>
          /\ pc' = [pc EXCEPT ![Live] = "refresh"] /\ key' = [key EXCEPT ![Live] = k]
          /\ need' = [need EXCEPT ![Live] = {i}] /\ i \in announced
      BY <1>0, <1>10 DEF Hear, changeVars, watchVars, clockVars, Typed
    <2> QED BY <1>0, <2>1 DEF Typed, Places
  <1>11. ASSUME NEW c \in Clients, TakeToken(c) PROVE Typed'
    <2>1. key[c] \in Keys /\ Issue(key[c])
      BY <1>0, <1>11 DEF TakeToken, RequestsOK
    <2>2. local'[key[c]] \in Nat /\ UNCHANGED <<position, busy, todo>>
      BY <2>1, IssueTyped
    <2>3. /\ UNCHANGED <<committed, hits, announced, notice, index, published, head, drained, fresh,
                         holder, key, need, cache, told>>
          /\ \E t \in {0, local'[key[c]]} : token' = [token EXCEPT ![c] = t]
          /\ \E p \in {"kept", "body"} : pc' = [pc EXCEPT ![c] = p]
      BY <1>11 DEF TakeToken, changeVars, watchVars
    <2> QED BY <1>0, <2>2, <2>3 DEF Typed, Places
  <1>12. ASSUME NEW c \in Clients, ReadBody(c) PROVE Typed'
    <2>1. /\ UNCHANGED <<committed, hits, announced, notice, index, published, head, drained, fresh,
                         position, busy, todo, holder, told>>
          /\ pc' = [pc EXCEPT ![c] = "idle"] /\ key' = [key EXCEPT ![c] = "none"]
          /\ need' = [need EXCEPT ![c] = {}] /\ token' = [token EXCEPT ![c] = 0]
          /\ cache' = [cache EXCEPT ![c] =
                [cache[c] EXCEPT ![key[c]] = [token |-> token[c], body |-> committed]]]
      BY <1>12 DEF ReadBody, Finish, changeVars, watchVars, clockVars
    <2>2. cache' \in [Clients -> [Keys -> [token : Nat, body : Nat]]]
      <3>1. [token |-> token[c], body |-> committed] \in [token : Nat, body : Nat]
        BY <1>0 DEF Typed
      <3> QED BY <1>0, <2>1, <3>1 DEF Typed
    <2> QED BY <1>0, <2>1, <2>2 DEF Typed, Places
  <1>13. CASE Tell
    <2>1. key[Live] \in Keys /\ Issue(key[Live])
      BY <1>0, <1>13 DEF Tell, RequestsOK
    <2>2. local'[key[Live]] \in Nat /\ UNCHANGED <<position, busy, todo>>
      BY <2>1, IssueTyped
    <2>3. PICK i \in need[Live] : told' = [key |-> key[Live], token |-> local'[key[Live]], id |-> i]
      BY <1>13 DEF Tell
    <2>4. /\ UNCHANGED <<committed, hits, announced, notice, index, published, head, drained, fresh,
                         holder, cache>>
          /\ pc' = [pc EXCEPT ![Live] = "idle"] /\ key' = [key EXCEPT ![Live] = "none"]
          /\ need' = [need EXCEPT ![Live] = {}] /\ token' = [token EXCEPT ![Live] = 0]
      BY <1>13 DEF Tell, Finish, changeVars, watchVars
    <2>5. i \in announced /\ i \in Nat /\ i <= committed
      BY <1>0, <2>3 DEF Typed
    <2>6. /\ told' \in [key : Keys \cup {"none"}, token : Nat, id : Nat] /\ told'.id <= committed
      BY <2>1, <2>2, <2>3, <2>5
    <2> QED BY <1>0, <2>2, <2>4, <2>6 DEF Typed, Places
  <1> QED BY <1>1, <1>2, <1>3, <1>4, <1>5, <1>6, <1>7, <1>8, <1>9, <1>10, <1>11, <1>12, <1>13, Cases

LEMMA WatchStep ==
  ASSUME Basics, [Next]_vars
  PROVE WatchOK'
  <1> USE ClientsAct
  <1>0. Typed /\ WatchOK /\ RequestsOK /\ \A i \in Ids : i \in Nat \ {0}
    BY DEF Basics, Ids
  <1>1. ASSUME NEW i \in Ids, NEW what \in {"change", "reset"}, Publish(i, what) PROVE WatchOK'
    <2>1. /\ published' = published + 1 /\ index' = [index EXCEPT ![i] = published + 1]
          /\ (head' = published + 1 \/ head' = head)
          /\ UNCHANGED <<watch, drained, fresh, position, busy, todo, holder, step, pc>>
      BY <1>1 DEF Publish, watchVars, clockVars, requestVars
    <2> QED BY <1>0, <2>1 DEF WatchOK, Typed
  <1>2. ASSUME NEW i \in Ids, Observe(i) PROVE WatchOK'
    <2>1. busy' = i /\ UNCHANGED <<watch, head, published, index, drained, fresh, position, holder, step, pc>>
      BY <1>2 DEF Observe, Stamp, watchVars, requestVars
    <2> QED BY <1>0, <2>1 DEF WatchOK
  <1>3. ASSUME NEW a \in Actors, Acquire(a) PROVE WatchOK'
    <2>1. /\ UNCHANGED <<watch, head, published, index, drained, fresh, position, busy, todo, pc>>
          /\ holder' = a /\ step' = "drain" /\ pc[a] = "refresh"
      BY <1>3 DEF Acquire, changeVars, clockVars, requestVars
    <2> QED BY <1>0, <2>1 DEF WatchOK
  <1>4. ASSUME OpenFirst \/ Reopen PROVE WatchOK'
    <2>1. /\ UNCHANGED <<head, published, index, position, busy, todo, pc, holder>> /\ holder # "none"
          /\ watch' = "open" /\ drained' = published /\ (fresh' = 0 \/ fresh' = head)
      BY <1>4 DEF OpenFirst, Reopen, Open, changeVars, clockVars, requestVars
    <2> QED BY <1>0, <2>1 DEF WatchOK, Typed
  <1>5. CASE Reset
    <2>1. /\ UNCHANGED <<watch, head, published, index, drained, busy, todo>> /\ fresh' = 0
          /\ position' = fresh /\ step' = "drain"
          /\ (holder' = "none" \/ UNCHANGED <<holder, pc>>)
      BY <1>5 DEF Reset, Release, ResetClock, changeVars, requestVars
    <2> QED BY <1>0, <2>1 DEF WatchOK, Typed
  <1>6. ASSUME NEW i \in Ids, Drain(i) PROVE WatchOK'
    <2>1. /\ UNCHANGED <<watch, head, published, index, fresh, holder, step, pc>>
          /\ index[i] = drained + 1 /\ drained' = drained + 1
          /\ \/ UNCHANGED <<position, busy, todo>>
             \/ position' = index[i] /\ busy' = i
      BY <1>6 DEF Drain, Stamp, changeVars, requestVars, clockVars
    <2> QED BY <1>0, <2>1 DEF WatchOK, Typed
  <1>7. CASE Drained
    <2>1. /\ UNCHANGED <<watch, head, published, index, drained, fresh, position, busy, todo, step>>
          /\ step = "drain" /\ holder' = "none"
      BY <1>7 DEF Drained, Release, changeVars, clockVars
    <2> QED BY <1>0, <2>1 DEF WatchOK
  <1>8. ASSUME NEW k \in Keys, StampKey(k) PROVE WatchOK'
    <2>1. /\ UNCHANGED <<watch, head, published, index, drained, fresh, position, busy, step, holder, pc>>
          /\ busy # 0
      BY <1>8 DEF StampKey, changeVars, watchVars, requestVars
    <2> QED BY <1>0, <2>1 DEF WatchOK
  <1>9. CASE Unlock
    <2>1. /\ UNCHANGED <<watch, head, published, index, drained, fresh, position, step, holder, pc>>
          /\ todo' = {}
      BY <1>9 DEF Unlock, changeVars, watchVars, requestVars
    <2> QED BY <1>0, <2>1 DEF WatchOK
  <1>10. ASSUME UNCHANGED <<watch, head, published, index, drained, fresh, position, busy, todo, step, holder>>,
                NEW a \in Actors, pc[a] # "refresh", NEW p \in Places, pc' = [pc EXCEPT ![a] = p]
         PROVE WatchOK'
    BY <1>0, <1>10 DEF WatchOK, Typed
  <1>11. ASSUME NEW c \in Clients, NEW k \in Keys, Begin(c, k) PROVE WatchOK'
    BY <1>10, <1>11 DEF Begin, changeVars, watchVars, clockVars, Places
  <1>12. ASSUME NEW i \in Ids, NEW k \in Keys, Hear(i, k) PROVE WatchOK'
    BY <1>10, <1>12 DEF Hear, changeVars, watchVars, clockVars, Places
  <1>13. ASSUME NEW c \in Clients, ReadBody(c) PROVE WatchOK'
    BY <1>10, <1>13 DEF ReadBody, Finish, changeVars, watchVars, clockVars, Places
  <1>14. ASSUME NEW c \in Clients, TakeToken(c) PROVE WatchOK'
    <2>1. \E p \in Places : pc' = [pc EXCEPT ![c] = p]
      BY <1>14 DEF TakeToken, Places
    <2> QED BY <1>10, <1>14, <2>1 DEF TakeToken, Issue, changeVars, watchVars
  <1>15. CASE Tell
    BY <1>10, <1>15 DEF Tell, Finish, Issue, changeVars, watchVars, Places
  <1>16. ASSUME Lag \/ UNCHANGED vars \/ \E how \in Kinds, S \in SUBSET Keys : Commit(how, S)
         PROVE WatchOK'
    <2>1. /\ UNCHANGED <<head, published, index, drained, fresh, position, busy, todo, step, holder, pc>>
          /\ watch' = watch \/ watch' = "lost"
      BY <1>16 DEF Lag, Commit, vars, changeVars, watchVars, clockVars, requestVars
    <2> QED BY <1>0, <2>1 DEF WatchOK
  <1> QED BY <1>1, <1>2, <1>3, <1>4, <1>5, <1>6, <1>7, <1>8, <1>9, <1>11, <1>12, <1>13, <1>14,
             <1>15, <1>16, Cases

\* A body or a token is only there once the shared watch is open.
LEMMA RequestsStep ==
  ASSUME Basics, [Next]_vars
  PROVE RequestsOK'
  <1> USE ClientsAct
  <1>0. Typed /\ WatchOK /\ RequestsOK /\ \A i \in Ids : i \in Nat \ {0}
    BY DEF Basics, Ids
  <1>1. ASSUME NEW how \in Kinds, NEW S \in SUBSET Keys, Commit(how, S) PROVE RequestsOK'
    <2>1. /\ hits' = [hits EXCEPT ![committed + 1] = S]
          /\ UNCHANGED <<pc, key, need, token, cache, watch>>
      BY <1>1 DEF Commit, watchVars, requestVars
    <2>2. \A a \in Actors : \A i \in need[a] : hits'[i] = hits[i]
      BY <1>0, <2>1 DEF Typed
    <2> QED BY <1>0, <2>1, <2>2 DEF RequestsOK
  <1>2. ASSUME UNCHANGED <<hits, pc, key, need, token, cache>>, watch' = watch \/ watch' # "none"
        PROVE RequestsOK'
    BY <1>0, <1>2 DEF RequestsOK
  <1>3. ASSUME \/ \E i \in Ids, what \in {"change", "reset"} : Publish(i, what)
               \/ \E i \in Ids : Observe(i) \/ Drain(i)
               \/ \E k \in Keys : StampKey(k)
               \/ \E a \in Actors : Acquire(a)
               \/ Lag \/ OpenFirst \/ Reopen \/ Unlock \/ UNCHANGED vars
        PROVE RequestsOK'
    <2>1. UNCHANGED <<hits, pc, key, need, token, cache>> /\ (watch' = watch \/ watch' # "none")
      BY <1>3 DEF Publish, Observe, Drain, StampKey, Acquire, Lag, OpenFirst, Reopen, Open, Unlock,
                  vars, changeVars, watchVars, requestVars
    <2> QED BY <1>2, <2>1
  <1>4. ASSUME Reset \/ Drained PROVE RequestsOK'
    <2>1. /\ UNCHANGED <<hits, key, need, token, cache, watch>> /\ holder \in Actors
          /\ (pc' = pc \/ pc' = [pc EXCEPT ![holder] = "token"])
      BY <1>0, <1>4 DEF Reset, Drained, Release, changeVars, requestVars, Typed
    <2>2. watch # "none" \/ pc' = pc
      BY <1>0, <1>4 DEF WatchOK, Reset, Drained, Release, ResetClock, requestVars
    <2> QED BY <1>0, <2>1, <2>2 DEF RequestsOK, Typed, WatchOK
  <1>5. ASSUME NEW c \in Clients, NEW k \in Keys, Begin(c, k) PROVE RequestsOK'
    <2>1. /\ UNCHANGED <<hits, token, cache, watch>> /\ pc[c] \in {"idle", "kept"}
          /\ pc' = [pc EXCEPT ![c] = "refresh"] /\ key' = [key EXCEPT ![c] = k]
          /\ need' = [need EXCEPT ![c] = {i \in announced : k \in hits[i]}]
      BY <1>5 DEF Begin, changeVars, watchVars
    <2> QED BY <1>0, <2>1 DEF RequestsOK, Typed
  <1>6. ASSUME NEW i \in Ids, NEW k \in Keys, Hear(i, k) PROVE RequestsOK'
    <2>1. /\ UNCHANGED <<hits, token, cache, watch>> /\ pc[Live] = "idle" /\ k \in hits[i]
          /\ pc' = [pc EXCEPT ![Live] = "refresh"] /\ key' = [key EXCEPT ![Live] = k]
          /\ need' = [need EXCEPT ![Live] = {i}]
      BY <1>6 DEF Hear, changeVars, watchVars
    <2> QED BY <1>0, <2>1 DEF RequestsOK, Typed
  <1>7. ASSUME NEW c \in Clients, TakeToken(c) PROVE RequestsOK'
    <2>1. /\ UNCHANGED <<hits, key, need, cache, watch>> /\ pc[c] = "token"
          /\ \/ /\ pc' = [pc EXCEPT ![c] = "kept"] /\ token' = [token EXCEPT ![c] = 0]
             \/ /\ pc' = [pc EXCEPT ![c] = "body"]
                /\ token' = [token EXCEPT ![c] = local'[key[c]]]
      BY <1>7 DEF TakeToken, changeVars, watchVars
    <2> QED BY <1>0, <2>1 DEF RequestsOK, Typed
  <1>8. ASSUME NEW c \in Clients, ReadBody(c) PROVE RequestsOK'
    <2>1. /\ UNCHANGED <<hits, watch>> /\ pc[c] = "body"
          /\ pc' = [pc EXCEPT ![c] = "idle"] /\ key' = [key EXCEPT ![c] = "none"]
          /\ need' = [need EXCEPT ![c] = {}] /\ token' = [token EXCEPT ![c] = 0]
      BY <1>8 DEF ReadBody, Finish, changeVars, watchVars
    <2> QED BY <1>0, <2>1 DEF RequestsOK, Typed
  <1>9. CASE Tell
    <2>1. /\ UNCHANGED <<hits, watch, cache>> /\ pc[Live] = "token"
          /\ pc' = [pc EXCEPT ![Live] = "idle"] /\ key' = [key EXCEPT ![Live] = "none"]
          /\ need' = [need EXCEPT ![Live] = {}] /\ token' = [token EXCEPT ![Live] = 0]
      BY <1>9 DEF Tell, Finish, changeVars, watchVars
    <2> QED BY <1>0, <2>1 DEF RequestsOK, Typed
  <1> QED BY <1>1, <1>3, <1>4, <1>5, <1>6, <1>7, <1>8, <1>9, Cases

-----------------------------------------------------------------------------
(* Tokens.                                                                  *)

LEMMA TokenTypes ==
  ASSUME Typed
  PROVE /\ \A c \in Clients, k \in Keys : cache[c][k].token \in Nat /\ cache[c][k].body \in Nat
        /\ \A a \in Actors : token[a] \in Nat
        /\ \A i \in announced : i \in Nat \ {0} /\ i <= committed /\ i \in Ids
  BY DEF Typed, Ids

LEMMA TokensAtMost ==
  ASSUME Typed, ClockOK, TokensOK
  PROVE /\ \A c \in Clients, k \in Keys : cache[c][k].token <= revision
        /\ \A a \in Actors : key[a] \in Keys => token[a] <= revision
  BY TokenTypes DEF ClockOK, ClockTyped, TokensOK, Below

\* Actions that leave the bodies, the keys and the tokens of requests alone.
Quiet == \/ \E how \in Kinds, S \in SUBSET Keys : Commit(how, S)
         \/ \E i \in Ids, what \in {"change", "reset"} : Publish(i, what)
         \/ \E i \in Ids : Observe(i) \/ Drain(i)
         \/ \E k \in Keys : StampKey(k)
         \/ \E a \in Actors : Acquire(a)
         \/ Lag \/ OpenFirst \/ Reopen \/ Unlock \/ Reset \/ Drained \/ UNCHANGED vars

LEMMA QuietFrame == ASSUME Quiet PROVE UNCHANGED <<key, need, token, cache, told>>
  BY DEF Quiet, Commit, Publish, Observe, Drain, StampKey, Acquire, Lag, OpenFirst, Reopen, Open,
         Unlock, Reset, Drained, Release, vars, requestVars

LEMMA QuietCases ==
  ASSUME [Next]_vars
  PROVE \/ Quiet
        \/ \E c \in Clients, k \in Keys : Begin(c, k)
        \/ \E c \in Clients : TakeToken(c)
        \/ \E c \in Clients : ReadBody(c)
        \/ \E i \in Ids, k \in Keys : Hear(i, k)
        \/ Tell
  BY Cases, Zenon DEF Quiet

LEMMA TokensStep ==
  ASSUME Basics, ClockOK, TokensOK, [Next]_vars
  PROVE TokensOK'
  <1> USE ClientsAct
  <1>0. Typed /\ RequestsOK /\ Moves
    BY MovesStep DEF Basics
  <1>1. \A k \in Keys : Below(0, k)'
    BY <1>0 DEF Moves, ClockOK, ClockTyped, Below
  <1>2. /\ \A c \in Clients, k \in Keys : Below(cache[c][k].token, k)
        /\ \A a \in Actors : key[a] \in Keys => Below(token[a], key[a])
    BY DEF TokensOK
  <1>3. \A k \in Keys, t \in Nat : Below(t, k) => IF local'[k] = 0 THEN t < reset' ELSE t <= local'[k]
    BY <1>0 DEF Moves, Below
  <1>4. /\ \A c \in Clients, k \in Keys :
              IF local'[k] = 0 THEN cache[c][k].token < reset' ELSE cache[c][k].token <= local'[k]
        /\ \A a \in Actors : key[a] \in Keys =>
              IF local'[key[a]] = 0 THEN token[a] < reset' ELSE token[a] <= local'[key[a]]
    BY <1>0, <1>2, <1>3, TokenTypes
  <1>5. \A k \in Keys : IF local'[k] = 0 THEN 0 < reset' ELSE 0 <= local'[k]
    BY <1>1 DEF Below
  <1>6. CASE Quiet
    BY <1>4, <1>6, QuietFrame DEF TokensOK, Below
  <1>7. ASSUME NEW c \in Clients, NEW k \in Keys, Begin(c, k) PROVE TokensOK'
    <2>1. UNCHANGED <<cache, token>> /\ key' = [key EXCEPT ![c] = k] /\ token[c] = 0
      BY <1>0, <1>7 DEF Begin, RequestsOK
    <2> QED BY <1>0, <1>4, <1>5, <2>1 DEF TokensOK, Below, Typed
  <1>8. ASSUME NEW i \in Ids, NEW k \in Keys, Hear(i, k) PROVE TokensOK'
    <2>1. UNCHANGED <<cache, token>> /\ key' = [key EXCEPT ![Live] = k] /\ token[Live] = 0
      BY <1>0, <1>8 DEF Hear, RequestsOK
    <2> QED BY <1>0, <1>4, <1>5, <2>1 DEF TokensOK, Below, Typed
  <1>9. ASSUME NEW c \in Clients, TakeToken(c) PROVE TokensOK'
    <2>1. key[c] \in Keys /\ Issue(key[c])
      BY <1>0, <1>9 DEF TakeToken, RequestsOK
    <2>2. local'[key[c]] \in Nat \ {0}
      BY <2>1, IssueMoves
    <2>3. /\ UNCHANGED <<cache, key>>
          /\ (token' = [token EXCEPT ![c] = 0] \/ token' = [token EXCEPT ![c] = local'[key[c]]])
      BY <1>9 DEF TakeToken
    <2> QED BY <1>0, <1>4, <1>5, <2>1, <2>2, <2>3 DEF TokensOK, Below, Typed
  <1>10. ASSUME NEW c \in Clients, ReadBody(c) PROVE TokensOK'
    <2>1. /\ key' = [key EXCEPT ![c] = "none"] /\ token' = [token EXCEPT ![c] = 0]
          /\ cache' = [cache EXCEPT ![c] =
                [cache[c] EXCEPT ![key[c]] = [token |-> token[c], body |-> committed]]]
          /\ key[c] \in Keys
      BY <1>0, <1>10 DEF ReadBody, Finish, RequestsOK
    <2>2. \A d \in Clients, k \in Keys :
            cache'[d][k] = IF d = c /\ k = key[c] THEN [token |-> token[c], body |-> committed] ELSE cache[d][k]
      BY <1>0, <2>1 DEF Typed
    <2>3. ASSUME NEW d \in Clients, NEW k \in Keys PROVE Below(cache[d][k].token, k)'
      BY <1>4, <2>1, <2>2 DEF Below
    <2>4. ASSUME NEW a \in Actors, key'[a] \in Keys PROVE Below(token[a], key[a])'
      BY <1>0, <1>4, <1>5, <2>1, <2>4 DEF Below, Typed
    <2> QED BY <2>3, <2>4 DEF TokensOK
  <1>11. CASE Tell
    <2>1. /\ key' = [key EXCEPT ![Live] = "none"] /\ token' = [token EXCEPT ![Live] = 0] /\ cache' = cache
      BY <1>11 DEF Tell, Finish
    <2> QED BY <1>0, <1>4, <1>5, <2>1 DEF TokensOK, Below, Typed
  <1> QED BY <1>6, <1>7, <1>8, <1>9, <1>10, <1>11, QuietCases

LEMMA StampStep ==
  ASSUME Basics, ClockOK, TokensOK, StampOK, [Next]_vars
  PROVE StampOK'
  <1> USE ClientsAct
  <1>0. Typed /\ RequestsOK /\ WatchOK /\ revision \in Nat /\ revision' \in Nat
        /\ revision <= revision' /\ 1 <= revision
    BY MovesStep DEF Basics, Moves, ClockOK, ClockTyped
  <1>1. ASSUME Quiet, todo' \subseteq todo PROVE StampOK'
    BY <1>0, <1>1, QuietFrame, TokenTypes DEF StampOK, Typed
  <1>2. ASSUME Quiet, todo' \subseteq Keys, revision < revision' PROVE StampOK'
    BY <1>0, <1>2, QuietFrame, TokensAtMost, TokenTypes DEF StampOK
  <1>3. ASSUME NEW i \in Ids, Observe(i) PROVE StampOK'
    <2>1. hits[i] \subseteq Keys /\ todo' = hits[i] /\ revision < revision'
      BY <1>0, <1>3, RevisionsAssumption DEF Observe, Stamp, Typed
    <2> QED BY <1>2, <1>3, <2>1 DEF Quiet
  <1>4. ASSUME NEW i \in Ids, Drain(i) PROVE StampOK'
    <2>1. hits[i] \subseteq Keys
      BY <1>0 DEF Typed
    <2>2. todo' = todo \/ Stamp(i, {k \in hits[i] : k \notin Derived \/ local[k] # 0})
      BY <1>4 DEF Drain, clockVars
    <2>3. ASSUME NEW S \in SUBSET Keys, Stamp(i, S) PROVE todo' \subseteq Keys /\ revision < revision'
      BY <1>0, <2>3, RevisionsAssumption DEF Stamp
    <2>4. todo' = todo \/ (todo' \subseteq Keys /\ revision < revision')
      BY <2>1, <2>2, <2>3, Zenon
    <2> QED BY <1>1, <1>2, <1>4, <2>4 DEF Quiet
  <1>5. ASSUME \/ \E how \in Kinds, S \in SUBSET Keys : Commit(how, S)
               \/ \E i \in Ids, what \in {"change", "reset"} : Publish(i, what)
               \/ \E k \in Keys : StampKey(k)
               \/ \E a \in Actors : Acquire(a)
               \/ Lag \/ OpenFirst \/ Reopen \/ Unlock \/ Reset \/ Drained \/ UNCHANGED vars
        PROVE StampOK'
    <2>1. Quiet
      BY <1>5 DEF Quiet
    <2>2. todo' \subseteq todo
      BY <1>5 DEF Commit, Publish, StampKey, Acquire, Lag, OpenFirst, Reopen, Open, Unlock, Reset,
                  Drained, vars, clockVars
    <2> QED BY <1>1, <2>1, <2>2
  <1>6. ASSUME NEW c \in Clients, NEW k \in Keys, Begin(c, k) PROVE StampOK'
    <2>1. UNCHANGED <<cache, token, todo, revision>> /\ key' = [key EXCEPT ![c] = k] /\ token[c] = 0
      BY <1>0, <1>6 DEF Begin, RequestsOK, clockVars
    <2> QED BY <1>0, <2>1 DEF StampOK, Typed
  <1>7. ASSUME NEW i \in Ids, NEW k \in Keys, Hear(i, k) PROVE StampOK'
    <2>1. UNCHANGED <<cache, token, todo, revision>> /\ key' = [key EXCEPT ![Live] = k] /\ token[Live] = 0
      BY <1>0, <1>7 DEF Hear, RequestsOK, clockVars
    <2> QED BY <1>0, <2>1 DEF StampOK, Typed
  <1>8. ASSUME (\E c \in Clients : TakeToken(c)) \/ Tell PROVE StampOK'
    <2>1. busy = 0 /\ todo' = todo
      BY <1>8 DEF TakeToken, Tell, Issue
    <2> QED BY <1>0, <2>1 DEF StampOK, WatchOK
  <1>9. ASSUME NEW c \in Clients, ReadBody(c) PROVE StampOK'
    <2>1. /\ key' = [key EXCEPT ![c] = "none"] /\ token' = [token EXCEPT ![c] = 0]
          /\ cache' = [cache EXCEPT ![c] =
                [cache[c] EXCEPT ![key[c]] = [token |-> token[c], body |-> committed]]]
          /\ key[c] \in Keys /\ UNCHANGED <<todo, revision>>
      BY <1>0, <1>9 DEF ReadBody, Finish, RequestsOK, clockVars
    <2>2. \A d \in Clients, k \in Keys :
            cache'[d][k] = IF d = c /\ k = key[c] THEN [token |-> token[c], body |-> committed] ELSE cache[d][k]
      BY <1>0, <2>1 DEF Typed
    <2>3. ASSUME NEW k \in todo, NEW d \in Clients PROVE cache'[d][k].token < revision'
      BY <1>0, <2>1, <2>2 DEF StampOK, Typed
    <2>4. ASSUME NEW k \in todo, NEW a \in Actors, key'[a] = k PROVE token'[a] < revision'
      BY <1>0, <2>1, <2>4 DEF StampOK, Typed
    <2> QED BY <2>1, <2>3, <2>4 DEF StampOK
  <1> QED BY <1>3, <1>4, <1>5, <1>6, <1>7, <1>8, <1>9, Cases

-----------------------------------------------------------------------------
(* A kept body that lacks an announced change is known to be stale, or the   *)
(* change is still pending.                                                  *)

LEMMA RevMoves ==
  ASSUME Typed, Moves, ClockOK
  PROVE /\ \A k \in Keys, t \in Nat : t < Rev(k) => t < Rev(k)'
        /\ \A k \in Keys : Rev(k) \in Nat /\ 1 <= Rev(k) /\ Rev(k)' \in Nat
  BY DEF Moves, ClockOK, ClockTyped, Rev, Larger

LEMMA StaleStep ==
  ASSUME Basics, ClockOK, TokensOK, StampOK, StaleKnown, [Next]_vars
  PROVE StaleKnown'
  <1> USE ClientsAct
  <1>0. Typed /\ RequestsOK /\ WatchOK /\ Moves /\ \A i \in Ids : i \in Nat \ {0}
    BY MovesStep DEF Basics, Ids
  <1>00. /\ \A c \in Clients, k \in Keys : cache[c][k].token \in Nat /\ cache[c][k].body \in Nat
         /\ \A i \in announced : i \in Ids /\ i <= committed
    BY <1>0, TokenTypes
  <1>r. \A c \in Clients, k \in Keys : cache[c][k].token < Rev(k) => cache[c][k].token < Rev(k)'
    BY <1>0, <1>00, RevMoves
  <1>s. \A c \in Clients, k \in Keys, i \in announced :
          k \in hits[i] /\ cache[c][k].body < i => cache[c][k].token < Rev(k)' \/ Pending(i, k)
    BY <1>r DEF StaleKnown
  <1>1. ASSUME UNCHANGED <<cache, announced>>, \A i \in announced : hits'[i] = hits[i],
               \A i \in announced, k \in Keys : Pending(i, k) => Pending(i, k)'
        PROVE StaleKnown'
    BY <1>s, <1>1 DEF StaleKnown
  <1>2. ASSUME NEW how \in Kinds, NEW S \in SUBSET Keys, Commit(how, S) PROVE StaleKnown'
    <2>1. /\ hits' = [hits EXCEPT ![committed + 1] = S]
          /\ UNCHANGED <<announced, cache, index, drained, step, busy, todo>>
      BY <1>2 DEF Commit, Kinds, requestVars, watchVars, clockVars
    <2>2. \A i \in announced : hits'[i] = hits[i]
      BY <1>0, <2>1 DEF Typed
    <2> QED BY <1>1, <2>1, <2>2 DEF Pending
  <1>3. ASSUME NEW i \in Ids, NEW what \in {"change", "reset"}, Publish(i, what) PROVE StaleKnown'
    <2>1. /\ index' = [index EXCEPT ![i] = published + 1] /\ announced' = announced \cup {i}
          /\ index[i] = 0 /\ UNCHANGED <<hits, cache, drained, step, busy, todo>>
      BY <1>3 DEF Publish, requestVars, watchVars, clockVars
    <2>2. \A k \in Keys : Pending(i, k)'
      BY <1>0, <2>1 DEF Pending, Typed, WatchOK
    <2>3. \A x \in announced, k \in Keys : Pending(x, k) => Pending(x, k)'
      BY <1>0, <2>1 DEF Pending, Typed, WatchOK
    <2> QED BY <1>s, <2>1, <2>2, <2>3 DEF StaleKnown
  <1>4. ASSUME NEW i \in Ids, Observe(i) PROVE StaleKnown'
    <2>1. /\ announced' = announced \cup {i} /\ busy = 0 /\ busy' = i /\ todo' = hits[i]
          /\ UNCHANGED <<hits, cache, index, drained, step>>
      BY <1>4 DEF Observe, Stamp, requestVars, watchVars
    <2>2. \A k \in hits[i] : Pending(i, k)'
      BY <2>1 DEF Pending
    <2>3. \A x \in announced, k \in Keys : Pending(x, k) => Pending(x, k)'
      BY <1>0, <1>00, <2>1 DEF Pending
    <2> QED BY <1>s, <2>1, <2>2, <2>3 DEF StaleKnown
  <1>5. ASSUME \/ Lag \/ Unlock \/ Drained \/ UNCHANGED vars
               \/ \E a \in Actors : Acquire(a)
               \/ \E c \in Clients, k \in Keys : Begin(c, k)
               \/ \E i \in Ids, k \in Keys : Hear(i, k)
               \/ \E c \in Clients : TakeToken(c)
               \/ Tell
        PROVE StaleKnown'
    <2>1. UNCHANGED <<cache, announced, hits, index, drained, todo>>
      BY <1>5 DEF Lag, Unlock, Drained, Release, Acquire, Begin, Hear, TakeToken, Tell, Issue, vars,
                  requestVars, watchVars, clockVars, changeVars
    <2>2. busy' = busy \/ todo = {}
      BY <1>5 DEF Lag, Unlock, Drained, Release, Acquire, Begin, Hear, TakeToken, Tell, Issue, vars,
                  clockVars
    <2>3. step' = step \/ (\E a \in Actors : Acquire(a))
      BY <1>5 DEF Lag, Unlock, Drained, Begin, Hear, TakeToken, Tell, vars, watchVars
    <2>4. step' = step
      BY <1>0, <2>3 DEF Acquire, WatchOK
    <2> QED BY <1>1, <2>1, <2>2, <2>4 DEF Pending
  <1>6. ASSUME OpenFirst \/ Reopen PROVE StaleKnown'
    <2>1. UNCHANGED <<cache, announced, hits>> /\ (watch = "none" \/ step' # "drain")
      BY <1>6 DEF OpenFirst, Reopen, Open, changeVars, requestVars
    <2>2. CASE step' # "drain"
      BY <2>1, <2>2 DEF StaleKnown, Pending
    <2>3. CASE watch = "none"
      <3>1. \A c \in Clients, k \in Keys : cache[c][k].token < Rev(k)
        BY <1>0, <2>3, RevMoves DEF RequestsOK
      <3> QED BY <2>1, <1>r, <3>1 DEF StaleKnown
    <2> QED BY <2>1, <2>2, <2>3
  <1>7. CASE Reset
    <2>1. UNCHANGED <<cache, announced, hits>> /\ ResetClock(fresh)
      BY <1>7 DEF Reset, Release, changeVars, requestVars
    <2>2. revision < reset' /\ \A k \in Keys : reset' <= Rev(k)'
      BY <1>0, <2>1, ResetMoves DEF Moves, ClockOK, ClockTyped, Rev, Larger
    <2>3. \A c \in Clients, k \in Keys : cache[c][k].token < Rev(k)'
      BY <1>0, <1>00, <2>2, TokensAtMost, RevMoves DEF Moves, ClockOK, ClockTyped
    <2> QED BY <2>1, <2>3 DEF StaleKnown
  <1>8. ASSUME NEW i \in Ids, Drain(i) PROVE StaleKnown'
    <2>1. /\ UNCHANGED <<cache, announced, hits, index, step>> /\ busy = 0 /\ drained' = drained + 1
          /\ index[i] = drained + 1
          /\ (position < index[i] =>
               /\ busy' = i /\ todo' = {k \in hits[i] : k \notin Derived \/ local[k] # 0}
               /\ local' = local /\ reset' = reset)
      BY <1>0, <1>8 DEF Drain, Stamp, changeVars, requestVars, Typed
    <2>2. position < index[i]
      BY <1>0, <2>1 DEF WatchOK, Typed
    <2>3. \A k \in hits[i] : Pending(i, k)' \/ local[k] = 0
      BY <2>1, <2>2 DEF Pending
    <2>4. \A c \in Clients, k \in Keys : local[k] = 0 => cache[c][k].token < Rev(k)'
      BY <1>0, <1>00, <2>1, <2>2 DEF TokensOK, Below, Rev, Larger, ClockOK, ClockTyped
    <2>5. \A x \in announced, k \in Keys : x # i /\ Pending(x, k) => Pending(x, k)'
      <3>1. \A x \in announced : x \in Ids /\ x # 0
        BY <1>0, <1>00
      <3>2. \A x \in announced : x # i /\ index[x] > drained => index[x] > drained + 1
        <4> SUFFICES ASSUME NEW x \in announced, x # i, index[x] > drained
                     PROVE index[x] > drained + 1
          OBVIOUS
        <4>1. x \in Ids /\ index[x] \in Nat /\ drained \in Nat
          BY <1>0, <3>1 DEF Typed
        <4>2. index[i] # 0
          BY <2>1, <4>1
        <4>3. index[x] # index[i]
          BY <1>0, <4>1, <4>2 DEF WatchOK
        <4> QED BY <2>1, <4>1, <4>3
      <3> QED BY <2>1, <3>1, <3>2 DEF Pending
    <2> QED BY <1>s, <2>1, <2>3, <2>4, <2>5 DEF StaleKnown
  <1>9. ASSUME NEW x \in Keys, StampKey(x) PROVE StaleKnown'
    <2>1. /\ UNCHANGED <<cache, announced, hits, index, drained, step, busy>> /\ todo' = todo \ {x}
          /\ x \in todo
      BY <1>9 DEF StampKey, changeVars, watchVars, requestVars
    <2>2. \A i \in announced, k \in Keys : k # x /\ Pending(i, k) => Pending(i, k)'
      BY <2>1 DEF Pending
    <2>3. \A c \in Clients : cache[c][x].token < revision
      BY <2>1 DEF StampOK
    <2>4. revision <= Rev(x)' /\ Rev(x)' \in Nat
      BY <1>0, <1>9, StampKeyMoves, RevMoves
    <2>5. \A c \in Clients : cache[c][x].token < Rev(x)'
      BY <1>00, <2>3, <2>4 DEF ClockOK, ClockTyped
    <2> QED BY <1>s, <2>1, <2>2, <2>5 DEF StaleKnown
  <1>10. ASSUME NEW c \in Clients, ReadBody(c) PROVE StaleKnown'
    <2>1. /\ cache' = [cache EXCEPT ![c] =
                [cache[c] EXCEPT ![key[c]] = [token |-> token[c], body |-> committed]]]
          /\ UNCHANGED <<announced, hits, index, drained, step, busy, todo>>
      BY <1>10 DEF ReadBody, changeVars, watchVars, clockVars
    <2>2. \A d \in Clients, k \in Keys :
            cache'[d][k] = cache[d][k] \/ cache'[d][k] = [token |-> token[c], body |-> committed]
      BY <1>0, <2>1 DEF Typed
    <2>3. ASSUME NEW d \in Clients, NEW k \in Keys, NEW i \in announced, k \in hits[i],
                 cache'[d][k].body < i
          PROVE cache'[d][k] = cache[d][k]
      BY <1>0, <1>00, <2>2, <2>3 DEF Typed
    <2> QED BY <1>s, <2>1, <2>3 DEF StaleKnown, Pending
  <1> QED BY <1>2, <1>3, <1>4, <1>5, <1>6, <1>7, <1>8, <1>9, <1>10, Cases

-----------------------------------------------------------------------------
(* Requests.                                                                *)

LEMMA ReadBodyFrame ==
  ASSUME Basics, NEW c \in Clients, ReadBody(c)
  PROVE /\ pc' = [pc EXCEPT ![c] = "idle"] /\ UNCHANGED <<committed, told>>
        /\ \A a \in Actors : a # c => key'[a] = key[a] /\ need'[a] = need[a]
        /\ \A d \in Clients, k \in Keys :
             /\ d # c => cache'[d][k] = cache[d][k]
             /\ cache'[d][k] = cache[d][k] \/ cache'[d][k] = [token |-> token[c], body |-> committed]
  <1>1. /\ pc' = [pc EXCEPT ![c] = "idle"] /\ key' = [key EXCEPT ![c] = "none"]
        /\ need' = [need EXCEPT ![c] = {}] /\ UNCHANGED <<committed, told>>
        /\ cache' = [cache EXCEPT ![c] =
              [cache[c] EXCEPT ![key[c]] = [token |-> token[c], body |-> committed]]]
    BY DEF ReadBody, Finish, changeVars
  <1> QED BY <1>1 DEF Basics, Typed

LEMMA SettledStep ==
  ASSUME Basics, ClockOK, TokensOK, StaleKnown, Settled, [Next]_vars
  PROVE Settled'
  <1> USE ClientsAct
  <1>0. Typed /\ RequestsOK /\ WatchOK /\ Moves /\ \A i \in Ids : i \in Nat \ {0}
    BY MovesStep DEF Basics, Ids
  <1>00. /\ \A c \in Clients, k \in Keys : cache[c][k].token \in Nat /\ cache[c][k].body \in Nat
         /\ \A i \in announced : i \in Ids /\ i <= committed
    BY <1>0, TokenTypes
  <1>r. \A c \in Clients, k \in Keys : cache[c][k].token < Rev(k) => cache[c][k].token < Rev(k)'
    BY <1>0, <1>00, RevMoves
  <1>s. \A a \in Actors : pc[a] = "token" =>
          /\ key[a] \in Keys
          /\ \A i \in need[a], c \in Clients :
               cache[c][key[a]].body < i => \A k \in Keys : k = key[a] => cache[c][k].token < Rev(k)'
    BY <1>0, <1>r DEF Settled, RequestsOK
  <1>1. ASSUME UNCHANGED cache,
               \A a \in Actors : pc'[a] = "token" => pc[a] = "token" /\ key'[a] = key[a] /\ need'[a] = need[a]
        PROVE Settled'
    BY <1>s, <1>1 DEF Settled
  <1>2. ASSUME \/ \E how \in Kinds, S \in SUBSET Keys : Commit(how, S)
               \/ \E i \in Ids, what \in {"change", "reset"} : Publish(i, what)
               \/ \E i \in Ids : Observe(i) \/ Drain(i)
               \/ \E k \in Keys : StampKey(k)
               \/ \E a \in Actors : Acquire(a)
               \/ Lag \/ OpenFirst \/ Reopen \/ Unlock \/ UNCHANGED vars
        PROVE Settled'
    <2>1. UNCHANGED <<pc, key, need, cache>>
      BY <1>2 DEF Commit, Publish, Observe, Drain, StampKey, Acquire, Lag, OpenFirst, Reopen, Open,
                  Unlock, vars, requestVars
    <2> QED BY <1>1, <2>1
  <1>3. ASSUME NEW c \in Clients, NEW k \in Keys, Begin(c, k) PROVE Settled'
    <2>1. /\ UNCHANGED cache /\ pc' = [pc EXCEPT ![c] = "refresh"] /\ key' = [key EXCEPT ![c] = k]
          /\ need' = [need EXCEPT ![c] = {i \in announced : k \in hits[i]}]
      BY <1>3 DEF Begin
    <2> QED BY <1>0, <1>1, <2>1 DEF Typed
  <1>4. ASSUME NEW i \in Ids, NEW k \in Keys, Hear(i, k) PROVE Settled'
    <2>1. /\ UNCHANGED cache /\ pc' = [pc EXCEPT ![Live] = "refresh"] /\ key' = [key EXCEPT ![Live] = k]
          /\ need' = [need EXCEPT ![Live] = {i}]
      BY <1>4 DEF Hear
    <2> QED BY <1>0, <1>1, <2>1 DEF Typed
  <1>5. ASSUME NEW c \in Clients, TakeToken(c) PROVE Settled'
    <2>1. UNCHANGED <<cache, key, need>> /\ \E p \in {"kept", "body"} : pc' = [pc EXCEPT ![c] = p]
      BY <1>5 DEF TakeToken
    <2> QED BY <1>0, <1>1, <2>1 DEF Typed
  <1>6. CASE Tell
    <2>1. /\ UNCHANGED cache /\ pc' = [pc EXCEPT ![Live] = "idle"] /\ key' = [key EXCEPT ![Live] = "none"]
          /\ need' = [need EXCEPT ![Live] = {}]
      BY <1>6 DEF Tell, Finish
    <2> QED BY <1>0, <1>1, <2>1 DEF Typed
  <1>7. CASE Reset
    <2>1. UNCHANGED <<cache, key, need>> /\ ResetClock(fresh)
          /\ (pc' = pc \/ pc' = [pc EXCEPT ![holder] = "token"]) /\ holder \in Actors
      BY <1>0, <1>7 DEF Reset, Release, requestVars, Typed
    <2>2. revision < reset' /\ \A k \in Keys : reset' <= Rev(k)'
      BY <1>0, <2>1, ResetMoves DEF Moves, ClockOK, ClockTyped, Rev, Larger
    <2>3. \A c \in Clients, k \in Keys : cache[c][k].token < Rev(k)'
      BY <1>0, <1>00, <2>2, TokensAtMost, RevMoves DEF Moves, ClockOK, ClockTyped
    <2>4. \A a \in Actors : pc'[a] = "token" => key[a] \in Keys
      BY <1>0, <2>1 DEF RequestsOK, WatchOK, Typed
    <2> QED BY <2>1, <2>3, <2>4 DEF Settled
  <1>8. CASE Drained
    <2>1. /\ UNCHANGED <<cache, key, need, local, reset>> /\ pc' = [pc EXCEPT ![holder] = "token"]
          /\ holder \in Actors /\ step = "drain" /\ busy = 0 /\ drained = published
      BY <1>0, <1>8 DEF Drained, Release, clockVars, Typed
    <2>2. \A i \in announced, k \in Keys : ~Pending(i, k)
      BY <1>0, <1>00, <2>1 DEF Pending, WatchOK, Typed
    <2>3. ASSUME NEW a \in Actors, pc'[a] = "token", NEW i \in need[a], NEW c \in Clients,
                 cache[c][key[a]].body < i
          PROVE cache[c][key[a]].token < Rev(key[a])
      <3>1. CASE a = holder
        <4>1. key[a] \in Keys /\ i \in announced /\ key[a] \in hits[i]
          BY <1>0, <2>1, <3>1 DEF RequestsOK, WatchOK, Typed
        <4> QED BY <2>2, <2>3, <4>1 DEF StaleKnown
      <3>2. CASE a # holder
        <4>1. pc[a] = "token"
          BY <1>0, <2>1, <2>3, <3>2 DEF Typed
        <4> QED BY <2>3, <4>1 DEF Settled
      <3> QED BY <3>1, <3>2
    <2> QED BY <2>1, <2>3 DEF Settled, Rev
  <1>9. ASSUME NEW c \in Clients, ReadBody(c) PROVE Settled'
    <2>1. ASSUME NEW a \in Actors, pc'[a] = "token", NEW i \in need'[a], NEW d \in Clients,
                 cache'[d][key'[a]].body < i
          PROVE cache'[d][key'[a]].token < Rev(key[a])'
      <3>1. a # c /\ pc[a] = "token" /\ key'[a] = key[a] /\ need'[a] = need[a] /\ key[a] \in Keys
        BY <1>0, <1>9, <2>1, ReadBodyFrame DEF Typed, RequestsOK
      <3>2. i \in announced
        BY <1>0, <3>1 DEF Typed
      <3>3. i \in Nat /\ committed \in Nat /\ i <= committed
        BY <1>0, <1>00, <3>2 DEF Typed
      <3>c. \/ cache'[d][key[a]] = cache[d][key[a]]
            \/ cache'[d][key[a]] = [token |-> token[c], body |-> committed]
        BY <1>9, <3>1, ReadBodyFrame
      <3>4. cache'[d][key[a]] = cache[d][key[a]]
        BY <2>1, <3>1, <3>3, <3>c
      <3>5. \A k \in Keys : k = key[a] => cache[d][k].token < Rev(k)'
        BY <1>s, <2>1, <3>1, <3>4
      <3> QED BY <3>1, <3>4, <3>5 DEF Rev
    <2> QED BY <2>1 DEF Settled
  <1> QED BY <1>2, <1>3, <1>4, <1>5, <1>6, <1>7, <1>8, <1>9, Cases

LEMMA NotModifiedStep ==
  ASSUME Basics, ClockOK, Settled, NotModifiedExact, [Next]_vars
  PROVE NotModifiedExact'
  <1> USE ClientsAct
  <1>0. Typed /\ RequestsOK /\ \A i \in Ids : i \in Nat \ {0}
    BY DEF Basics, Ids
  <1>1. ASSUME \A c \in Clients : pc'[c] = "kept" =>
                 /\ pc[c] = "kept" /\ key[c] \in Keys /\ key'[c] = key[c] /\ need'[c] = need[c]
                 /\ cache'[c][key[c]] = cache[c][key[c]]
        PROVE NotModifiedExact'
    BY <1>1 DEF NotModifiedExact
  <1>k. \A c \in Clients : pc[c] = "kept" => key[c] \in Keys
    BY <1>0 DEF RequestsOK
  <1>2. CASE Quiet
    <2>1. UNCHANGED <<key, need, cache>>
      BY <1>2, QuietFrame
    <2>2. \/ pc' = pc
          \/ pc' = [pc EXCEPT ![holder] = "token"]
      BY <1>2 DEF Quiet, Commit, Publish, Observe, Drain, StampKey, Acquire, Lag, OpenFirst, Reopen,
                  Open, Unlock, Reset, Drained, Release, vars, requestVars
    <2> QED BY <1>0, <1>1, <1>k, <2>1, <2>2 DEF Typed
  <1>3. ASSUME NEW c \in Clients, NEW k \in Keys, Begin(c, k) PROVE NotModifiedExact'
    <2>1. /\ UNCHANGED cache /\ pc' = [pc EXCEPT ![c] = "refresh"] /\ key' = [key EXCEPT ![c] = k]
          /\ need' = [need EXCEPT ![c] = {i \in announced : k \in hits[i]}]
      BY <1>3 DEF Begin
    <2> QED BY <1>0, <1>1, <1>k, <2>1 DEF Typed
  <1>4. ASSUME NEW i \in Ids, NEW k \in Keys, Hear(i, k) PROVE NotModifiedExact'
    <2>1. /\ UNCHANGED cache /\ pc' = [pc EXCEPT ![Live] = "refresh"] /\ key' = [key EXCEPT ![Live] = k]
          /\ need' = [need EXCEPT ![Live] = {i}]
      BY <1>4 DEF Hear
    <2> QED BY <1>0, <1>1, <1>k, <2>1 DEF Typed
  <1>5. CASE Tell
    <2>1. /\ UNCHANGED cache /\ pc' = [pc EXCEPT ![Live] = "idle"] /\ key' = [key EXCEPT ![Live] = "none"]
          /\ need' = [need EXCEPT ![Live] = {}]
      BY <1>5 DEF Tell, Finish
    <2> QED BY <1>0, <1>1, <1>k, <2>1 DEF Typed
  <1>6. ASSUME NEW c \in Clients, ReadBody(c) PROVE NotModifiedExact'
    <2>1. pc' = [pc EXCEPT ![c] = "idle"]
      BY <1>6, ReadBodyFrame
    <2>2. \A d \in Clients : pc'[d] = "kept" => d # c /\ pc[d] = "kept"
      BY <1>0, <2>1 DEF Typed
    <2>3. \A d \in Clients : d # c => key'[d] = key[d] /\ need'[d] = need[d]
      BY <1>6, ReadBodyFrame
    <2>4. \A d \in Clients, k \in Keys : d # c => cache'[d][k] = cache[d][k]
      BY <1>6, ReadBodyFrame
    <2> QED BY <1>1, <1>k, <2>2, <2>3, <2>4
  <1>7. ASSUME NEW c \in Clients, TakeToken(c) PROVE NotModifiedExact'
    <2>1. key[c] \in Keys /\ Issue(key[c]) /\ pc[c] = "token" /\ UNCHANGED <<cache, key, need>>
          /\ \/ pc' = [pc EXCEPT ![c] = "body"]
             \/ pc' = [pc EXCEPT ![c] = "kept"] /\ local'[key[c]] = cache[c][key[c]].token
      BY <1>0, <1>7 DEF TakeToken, RequestsOK
    <2>2. Rev(key[c]) <= local'[key[c]] /\ local'[key[c]] \in Nat /\ Rev(key[c]) \in Nat
      BY <2>1, IssueMoves DEF ClockOK, ClockTyped, Rev, Larger
    <2>3. ASSUME local'[key[c]] = cache[c][key[c]].token, NEW i \in need[c]
          PROVE i \in 1..cache[c][key[c]].body
      <3>1. ~(cache[c][key[c]].token < Rev(key[c]))
        BY <2>2, <2>3
      <3>2. ~(cache[c][key[c]].body < i)
        BY <2>1, <3>1 DEF Settled
      <3>3. i \in Nat \ {0} /\ cache[c][key[c]].body \in Nat
        BY <1>0, <2>1 DEF Typed
      <3> QED BY <3>2, <3>3
    <2> QED BY <1>0, <2>1, <2>3 DEF NotModifiedExact, Typed
  <1> QED BY <1>2, <1>3, <1>4, <1>5, <1>6, <1>7, QuietCases

LEMMA ToldStep ==
  ASSUME Basics, ClockOK, Settled, ToldFresh, [Next]_vars
  PROVE ToldFresh'
  <1> USE ClientsAct
  <1>0. Typed /\ RequestsOK /\ \A i \in Ids : i \in Nat \ {0}
    BY DEF Basics, Ids
  <1>1. ASSUME UNCHANGED <<told, cache>> PROVE ToldFresh'
    BY <1>1 DEF ToldFresh
  <1>2. CASE Quiet
    BY <1>1, <1>2, QuietFrame
  <1>3. ASSUME NEW c \in Clients, NEW k \in Keys, Begin(c, k) PROVE ToldFresh'
    BY <1>1, <1>3 DEF Begin
  <1>4. ASSUME NEW i \in Ids, NEW k \in Keys, Hear(i, k) PROVE ToldFresh'
    BY <1>1, <1>4 DEF Hear
  <1>5. ASSUME NEW c \in Clients, TakeToken(c) PROVE ToldFresh'
    BY <1>1, <1>5 DEF TakeToken
  <1>6. ASSUME NEW c \in Clients, ReadBody(c) PROVE ToldFresh'
    <2> SUFFICES ASSUME told.token # 0, NEW d \in Clients, cache'[d][told.key].token = told.token
                 PROVE told.id <= cache'[d][told.key].body
      BY <1>6, ReadBodyFrame DEF ToldFresh
    <2>1. told.id <= committed
      BY <1>0 DEF Typed
    <2>2. CASE told.key \in Keys
      <3>1. \/ cache'[d][told.key] = cache[d][told.key]
            \/ cache'[d][told.key] = [token |-> token[c], body |-> committed]
        BY <1>6, <2>2, ReadBodyFrame
      <3> QED BY <2>1, <3>1 DEF ToldFresh
    <2>3. CASE told.key \notin Keys
      <3>1. cache' = [cache EXCEPT ![c] =
              [cache[c] EXCEPT ![key[c]] = [token |-> token[c], body |-> committed]]]
        BY <1>6 DEF ReadBody
      <3> QED BY <1>0, <1>6, <2>3, <3>1 DEF ToldFresh, Typed, RequestsOK, ReadBody
    <2> QED BY <2>2, <2>3
  <1>7. CASE Tell
    <2>1. key[Live] \in Keys /\ Issue(key[Live]) /\ pc[Live] = "token" /\ cache' = cache
      BY <1>0, <1>7 DEF Tell, RequestsOK
    <2>2. PICK i \in need[Live] : told' = [key |-> key[Live], token |-> local'[key[Live]], id |-> i]
      BY <1>7 DEF Tell
    <2>3. Rev(key[Live]) <= local'[key[Live]] /\ local'[key[Live]] \in Nat /\ Rev(key[Live]) \in Nat
      BY <2>1, IssueMoves DEF ClockOK, ClockTyped, Rev, Larger
    <2>4. ASSUME NEW c \in Clients, cache[c][key[Live]].token = local'[key[Live]]
          PROVE i <= cache[c][key[Live]].body
      <3>1. ~(cache[c][key[Live]].token < Rev(key[Live]))
        BY <2>3, <2>4
      <3>2. ~(cache[c][key[Live]].body < i)
        BY <2>1, <3>1 DEF Settled
      <3>3. i \in Nat /\ cache[c][key[Live]].body \in Nat
        BY <1>0, <2>1, <2>2 DEF Typed
      <3> QED BY <3>2, <3>3
    <2> QED BY <2>1, <2>2, <2>4 DEF ToldFresh
  <1> QED BY <1>2, <1>3, <1>4, <1>5, <1>6, <1>7, QuietCases

-----------------------------------------------------------------------------
(* The theorems.                                                            *)

LEMMA InitOK == ASSUME Init, Skew = 0 PROVE IInv
  <1> USE ClientsAct, RevisionsAssumption
  <1>1. Typed
    BY DEF Init, Typed, Ids, Nothing, Places
  <1>2. WatchOK /\ RequestsOK /\ ClockOK /\ StampOK
    BY DEF Init, WatchOK, RequestsOK, ClockOK, ClockTyped, StampOK, Nothing
  <1>3. TokensOK
    BY DEF Init, TokensOK, Below, Nothing
  <1>4. StaleKnown /\ Settled /\ NotModifiedExact /\ ToldFresh
    BY DEF Init, StaleKnown, Settled, NotModifiedExact, ToldFresh
  <1> QED BY <1>1, <1>2, <1>3, <1>4 DEF IInv, Basics

LEMMA StepOK == ASSUME IInv, [Next]_vars PROVE IInv'
  <1>1. ClockOK'
    BY MovesStep DEF IInv, Moves
  <1>2. Typed' /\ WatchOK' /\ RequestsOK'
    BY TypedStep, WatchStep, RequestsStep DEF IInv, ClockOK
  <1>3. TokensOK' /\ StampOK'
    BY TokensStep, StampStep DEF IInv
  <1>4. StaleKnown' /\ Settled'
    BY StaleStep, SettledStep DEF IInv
  <1>5. NotModifiedExact' /\ ToldFresh'
    BY NotModifiedStep, ToldStep DEF IInv
  <1> QED BY <1>1, <1>2, <1>3, <1>4, <1>5 DEF IInv, Basics

LEMMA RevisionsInvariant == ASSUME Skew = 0 PROVE Spec => []IInv
  <1>1. Init => IInv
    BY InitOK
  <1>2. IInv /\ [Next]_vars => IInv'
    BY StepOK
  <1> QED BY <1>1, <1>2, PTL DEF Spec

\* ConditionalRead answers 304 only to a client whose body has every change of
\* the resource that the feed, a signal or a REST handler had announced when the
\* request began, although other changes are never announced.
THEOREM NotModifiedExactHolds == ASSUME Skew = 0 PROVE Spec => []NotModifiedExact
  <1>1. IInv => NotModifiedExact
    BY DEF IInv
  <1> QED BY <1>1, RevisionsInvariant, PTL

\* A token sent with a live change is never that of a body without the change.
THEOREM ToldFreshHolds == ASSUME Skew = 0 PROVE Spec => []ToldFresh
  <1>1. IInv => ToldFresh
    BY DEF IInv
  <1> QED BY <1>1, RevisionsInvariant, PTL

\* A forgotten key never regains a token that a client keeps or was issued.
THEOREM ResetInvalidatesHolds == ASSUME Skew = 0 PROVE Spec => ResetInvalidates
  <1> DEFINE Safe == \A k \in Keys : local[k] # 0 /\ local'[k] = 0 =>
                       \A c \in Clients : /\ cache[c][k].token < reset'
                                          /\ key[c] = k => token[c] < reset'
  <1>1. IInv /\ [Next]_vars => [Safe]_vars
    <2> SUFFICES ASSUME IInv, [Next]_vars PROVE Safe
      OBVIOUS
    <2>1. Typed /\ ClockOK /\ TokensOK /\ Moves
      BY MovesStep DEF IInv, Basics
    <2>2. SUFFICES ASSUME NEW k \in Keys, local[k] # 0, local'[k] = 0, NEW c \in Clients
                   PROVE cache[c][k].token < reset' /\ (key[c] = k => token[c] < reset')
      OBVIOUS
    <2>3. revision < reset' /\ revision \in Nat /\ reset' \in Nat
      BY <2>1, <2>2 DEF Moves, ClockOK, ClockTyped
    <2> QED BY <2>1, <2>3, TokensAtMost, TokenTypes, ClientsAct
  <1>2. Spec => [][Safe]_vars
    BY <1>1, RevisionsInvariant, PTL DEF Spec
  <1> QED BY <1>2 DEF ResetInvalidates


-----------------------------------------------------------------------------
(* Types and bounds, for any skew.  The feed publishes in commit order, so   *)
(* it has sent no more notices than it has come through changes (Sent); the  *)
(* clock remembers a key beyond Capacity only by forgetting all others       *)
(* (Memory).                                                                 *)

InFeed(i) == kind[i] \in {"kernel", "shared"}

Sent == \E m \in Nat : /\ m <= committed /\ published <= m
                       /\ \A i \in Ids : i <= m /\ InFeed(i) => index[i] # 0

Memory == IsFiniteSet(Remembered) /\ Cardinality(Remembered) <= Capacity

Limits ==
  /\ kind \in [Ids -> Kinds \cup {"none"}] /\ committed <= MaxChanges /\ busy <= committed
  /\ watch \in {"none", "open", "lost"} /\ step \in {"drain", "first", "again"}
  /\ lags \in Nat /\ lags <= MaxLags
  /\ \A c \in Clients, k \in Keys : cache[c][k].body <= committed

Answered == unheard \in [Actors -> SUBSET (1..committed)]

TypeInv == Basics /\ ClockTyped /\ Limits /\ Answered /\ Sent /\ Memory

LEMMA ClockTypedStep == ASSUME Basics, ClockTyped, [Next]_vars PROVE ClockTyped'
  <1> USE ClientsAct, RevisionsAssumption
  <1>1. CASE UNCHANGED <<revision, reset, local>>
    BY <1>1 DEF ClockTyped
  <1>2. ASSUME NEW j \in Jumps, revision' = revision + j, UNCHANGED <<reset, local>>
        PROVE ClockTyped'
    BY <1>2 DEF ClockTyped
  <1>3. ASSUME NEW i \in Ids, Observe(i) \/ Drain(i) PROVE ClockTyped'
    BY <1>1, <1>2, <1>3 DEF Observe, Drain, Stamp, clockVars
  <1>4. CASE Reset
    BY <1>4 DEF Reset, ResetClock, ClockTyped
  <1>5. ASSUME NEW k \in Keys, StampKey(k) PROVE ClockTyped'
    <2>1. Set(k, revision) /\ revision \in Nat
      BY <1>5 DEF StampKey, ClockTyped
    <2> QED BY <2>1, SetTyped
  <1>6. ASSUME NEW c \in Clients, TakeToken(c) PROVE ClockTyped'
    <2>1. key[c] \in Keys /\ Issue(key[c])
      BY <1>6 DEF TakeToken, Basics, RequestsOK
    <2> QED BY <2>1, IssueTyped
  <1>7. CASE Tell
    <2>1. key[Live] \in Keys /\ Issue(key[Live])
      BY <1>7 DEF Tell, Basics, RequestsOK
    <2> QED BY <2>1, IssueTyped
  <1>8. ASSUME \/ \E c \in Clients, k \in Keys : Begin(c, k)
               \/ \E i \in Ids, k \in Keys : Hear(i, k)
               \/ \E c \in Clients : ReadBody(c)
               \/ \E how \in Kinds, S \in SUBSET Keys : Commit(how, S)
               \/ \E i \in Ids, what \in {"change", "reset"} : Publish(i, what)
               \/ Lag \/ \E a \in Actors : Acquire(a)
               \/ OpenFirst \/ Reopen \/ Drained \/ Unlock \/ UNCHANGED vars
        PROVE UNCHANGED <<revision, reset, local>>
    BY <1>8 DEF Begin, Hear, ReadBody, Commit, Publish, Lag, Acquire, OpenFirst, Reopen, Open,
                Drained, Unlock, vars, clockVars
  <1> QED BY <1>1, <1>3, <1>4, <1>5, <1>6, <1>7, <1>8, Cases

LEMMA SetMemory ==
  ASSUME ClockTyped, Memory, NEW k \in Keys, NEW r \in Nat, Set(k, r)
  PROVE Memory'
  <1> USE RevisionsAssumption
  <1>0. Cardinality(Remembered) \in Nat
    BY FS_CardinalityType DEF Memory
  <1>1. ASSUME NEW S, IsFiniteSet(S), Cardinality(S) <= Capacity, Remembered' \subseteq S
        PROVE Memory'
    BY <1>1, FS_Subset, FS_CardinalityType DEF Memory
  <1>2. CASE Full(k)
    <2>1. \A x \in Keys : x # k => local'[x] = 0
      BY <1>2 DEF Set, Forget
    <2>2. Remembered' \subseteq {k}
      BY <2>1 DEF Remembered
    <2>3. IsFiniteSet({k}) /\ Cardinality({k}) = 1
      BY FS_Singleton, Zenon
    <2>4. Cardinality({k}) <= Capacity
      BY <2>3
    <2> QED BY <1>1, <2>2, <2>3, <2>4
  <1>3. CASE ~Full(k) /\ k \in Remembered
    <2>1. \A x \in Keys : x # k => local'[x] = local[x]
      BY <1>3 DEF Set, ClockTyped
    <2>2. Remembered' \subseteq Remembered
      BY <1>3, <2>1 DEF Remembered
    <2> QED BY <1>1, <2>2 DEF Memory
  <1>4. CASE ~Full(k) /\ k \notin Remembered
    <2>1. \A x \in Keys : x # k => local'[x] = local[x]
      BY <1>4 DEF Set, ClockTyped
    <2>2. Remembered' \subseteq Remembered \cup {k}
      BY <2>1 DEF Remembered
    <2>3. Cardinality(Remembered) < Capacity
      BY <1>0, <1>4 DEF Full, Remembered, Memory
    <2>4. /\ IsFiniteSet(Remembered \cup {k})
          /\ Cardinality(Remembered \cup {k}) = Cardinality(Remembered) + 1
      BY <1>4, FS_AddElement DEF Memory
    <2>5. Cardinality(Remembered \cup {k}) <= Capacity
      BY <1>0, <2>3, <2>4
    <2> QED BY <1>1, <2>2, <2>4, <2>5
  <1> QED BY <1>2, <1>3, <1>4

LEMMA MemoryStep == ASSUME Basics, ClockTyped, Memory, [Next]_vars PROVE Memory'
  <1> USE ClientsAct, RevisionsAssumption
  <1>1. CASE local' = local
    BY <1>1 DEF Memory, Remembered
  <1>2. CASE Reset
    <2>1. Remembered' = {}
      BY <1>2 DEF Reset, ResetClock, Remembered
    <2> QED BY <2>1, FS_EmptySet DEF Memory
  <1>3. ASSUME NEW k \in Keys, Issue(k) PROVE Memory'
    <2>1. Rev(k) \in Nat /\ Set(k, Rev(k))
      BY <1>3 DEF ClockTyped, Rev, Larger, Issue
    <2>2. PICK r : r = Rev(k)
      OBVIOUS
    <2> QED BY <2>1, <2>2, SetMemory
  <1>4. ASSUME NEW k \in Keys, StampKey(k) PROVE Memory'
    <2>1. Set(k, revision) /\ revision \in Nat
      BY <1>4 DEF StampKey, ClockTyped
    <2> QED BY <2>1, SetMemory
  <1>5. ASSUME NEW c \in Clients, TakeToken(c) PROVE Memory'
    BY <1>3, <1>5 DEF TakeToken, Basics, RequestsOK
  <1>6. CASE Tell
    BY <1>3, <1>6 DEF Tell, Basics, RequestsOK
  <1>7. ASSUME \/ \E c \in Clients, k \in Keys : Begin(c, k)
               \/ \E i \in Ids, k \in Keys : Hear(i, k)
               \/ \E c \in Clients : ReadBody(c)
               \/ \E how \in Kinds, S \in SUBSET Keys : Commit(how, S)
               \/ \E i \in Ids, what \in {"change", "reset"} : Publish(i, what)
               \/ \E i \in Ids : Observe(i) \/ Drain(i)
               \/ Lag \/ \E a \in Actors : Acquire(a)
               \/ OpenFirst \/ Reopen \/ Drained \/ Unlock \/ UNCHANGED vars
        PROVE local' = local
    BY <1>7 DEF Begin, Hear, ReadBody, Commit, Publish, Observe, Drain, Lag, Acquire, OpenFirst,
                Reopen, Open, Drained, Unlock, vars, clockVars
  <1> QED BY <1>1, <1>2, <1>4, <1>5, <1>6, <1>7, Cases

LEMMA SentStep == ASSUME Basics, Limits, Sent, [Next]_vars PROVE Sent'
  <1> USE ClientsAct, RevisionsAssumption
  <1>0. PICK m \in Nat : /\ m <= committed /\ published <= m
                         /\ \A i \in Ids : i <= m /\ InFeed(i) => index[i] # 0
    BY DEF Sent
  <1>00. Typed /\ \A i \in Ids : i \in Nat
    BY DEF Basics, Ids
  <1>1. ASSUME NEW how \in Kinds, NEW S \in SUBSET Keys, Commit(how, S) PROVE Sent'
    <2>1. /\ committed' = committed + 1 /\ UNCHANGED <<index, published>>
          /\ \A i \in Ids : i # committed + 1 => kind'[i] = kind[i]
      BY <1>1 DEF Commit, Limits
    <2>2. m <= committed' /\ published' <= m
      BY <1>0, <1>00, <2>1 DEF Typed
    <2>3. \A i \in Ids : i <= m /\ InFeed(i)' => index'[i] # 0
      BY <1>0, <1>00, <2>1 DEF InFeed, Typed
    <2> QED BY <2>2, <2>3 DEF Sent
  <1>2. ASSUME NEW i \in Ids, NEW what \in {"change", "reset"}, Publish(i, what) PROVE Sent'
    <2>1. /\ i <= committed /\ InFeed(i) /\ index[i] = 0
          /\ \A j \in Ids : j < i /\ InFeed(j) => index[j] # 0
          /\ published' = published + 1 /\ index' = [index EXCEPT ![i] = published + 1]
          /\ UNCHANGED <<committed, kind>>
      BY <1>2 DEF Publish, InFeed
    <2>2. i > m
      BY <1>0, <1>00, <2>1
    <2>3. \A j \in Ids : j <= i /\ InFeed(j)' => index'[j] # 0
      <3>1. index'[i] = published + 1 /\ published \in Nat
            /\ \A j \in Ids : j # i => index'[j] = index[j]
        BY <1>00, <2>1 DEF Typed
      <3>2. \A j \in Ids : InFeed(j)' => InFeed(j)
        BY <2>1 DEF InFeed
      <3> QED BY <1>00, <2>1, <3>1, <3>2
    <2>4. published' <= i /\ i <= committed'
      BY <1>0, <1>00, <2>1, <2>2 DEF Typed
    <2> QED BY <1>00, <2>3, <2>4 DEF Sent
  <1>3. ASSUME UNCHANGED <<committed, kind, index, published>> PROVE Sent'
    BY <1>0, <1>3 DEF Sent, InFeed
  <1>4. ASSUME \/ \E i \in Ids : Observe(i) \/ Drain(i)
               \/ Lag \/ \E a \in Actors : Acquire(a)
               \/ OpenFirst \/ Reopen \/ Reset \/ Drained \/ Unlock \/ UNCHANGED vars
        PROVE UNCHANGED <<committed, kind, index, published>>
    BY <1>4 DEF Observe, Drain, Lag, Acquire, OpenFirst, Reopen, Open, Reset, Drained, Unlock,
                vars, changeVars
  <1>5. ASSUME \/ \E c \in Clients, k \in Keys : Begin(c, k)
               \/ \E i \in Ids, k \in Keys : Hear(i, k)
               \/ \E k \in Keys : StampKey(k)
               \/ \E c \in Clients : ReadBody(c) \/ TakeToken(c)
               \/ Tell
        PROVE UNCHANGED <<committed, kind, index, published>>
    BY <1>5 DEF Begin, Hear, StampKey, ReadBody, TakeToken, Tell, changeVars
  <1> QED BY <1>1, <1>2, <1>3, <1>4, <1>5, Cases

LEMMA LimitsStep == ASSUME Basics, Limits, [Next]_vars PROVE Limits'
  <1> USE ClientsAct, RevisionsAssumption
  <1>0. Typed /\ RequestsOK /\ \A i \in Ids : i \in Nat
    BY DEF Basics, Ids
  <1>1. ASSUME NEW how \in Kinds, NEW S \in SUBSET Keys, Commit(how, S) PROVE Limits'
    <2>1. /\ committed < MaxChanges /\ committed' = committed + 1
          /\ kind' = [kind EXCEPT ![committed + 1] = how]
          /\ UNCHANGED <<busy, watch, step, lags, cache>>
      BY <1>1 DEF Commit, watchVars, clockVars, requestVars
    <2>2. kind' \in [Ids -> Kinds \cup {"none"}]
      BY <2>1 DEF Limits
    <2>3. \A c \in Clients, k \in Keys : cache[c][k].body \in Nat
      BY <1>0 DEF Typed
    <2> QED BY <1>0, <2>1, <2>2, <2>3 DEF Limits, Typed
  <1>2. ASSUME NEW i \in Ids, Observe(i) \/ Drain(i) PROVE Limits'
    <2>1. /\ UNCHANGED <<committed, kind, watch, step, lags, cache>>
          /\ busy' = busy \/ (busy' = i /\ i <= committed)
      BY <1>0, <1>2 DEF Observe, Drain, Stamp, changeVars, watchVars, clockVars, requestVars, Typed
    <2> QED BY <1>0, <2>1 DEF Limits
  <1>3. CASE Lag
    <2>1. /\ UNCHANGED <<committed, kind, busy, step, cache>> /\ watch' = "lost"
          /\ lags < MaxLags /\ lags' = lags + 1
      BY <1>3 DEF Lag, changeVars, clockVars, requestVars
    <2> QED BY <2>1 DEF Limits
  <1>4. ASSUME OpenFirst \/ Reopen \/ Reset \/ Drained \/ \E a \in Actors : Acquire(a) PROVE Limits'
    <2>1. /\ UNCHANGED <<committed, kind, busy, lags, cache>>
          /\ watch' \in {watch, "open"} /\ step' \in {step, "drain", "first", "again"}
      BY <1>4 DEF OpenFirst, Reopen, Open, Reset, Drained, Release, Acquire, changeVars, clockVars,
                  requestVars
    <2> QED BY <2>1 DEF Limits
  <1>5. ASSUME \/ \E i \in Ids, what \in {"change", "reset"} : Publish(i, what)
               \/ \E k \in Keys : StampKey(k)
               \/ Unlock \/ UNCHANGED vars
        PROVE Limits'
    <2>1. /\ UNCHANGED <<committed, kind, watch, step, lags, cache>> /\ busy' \in {busy, 0}
      BY <1>5 DEF Publish, StampKey, Unlock, vars, changeVars, watchVars, clockVars, requestVars
    <2> QED BY <1>0, <2>1 DEF Limits, Typed
  <1>6. ASSUME \/ \E c \in Clients, k \in Keys : Begin(c, k)
               \/ \E i \in Ids, k \in Keys : Hear(i, k)
               \/ \E c \in Clients : TakeToken(c)
               \/ Tell
        PROVE Limits'
    <2>1. UNCHANGED <<committed, kind, busy, watch, step, lags, cache>>
      BY <1>6 DEF Begin, Hear, TakeToken, Tell, Issue, changeVars, watchVars, clockVars
    <2> QED BY <2>1 DEF Limits
  <1>7. ASSUME NEW c \in Clients, ReadBody(c) PROVE Limits'
    <2>1. /\ UNCHANGED <<committed, kind, busy, watch, step, lags>> /\ key[c] \in Keys
          /\ cache' = [cache EXCEPT ![c] =
                [cache[c] EXCEPT ![key[c]] = [token |-> token[c], body |-> committed]]]
      BY <1>0, <1>7 DEF ReadBody, RequestsOK, changeVars, watchVars, clockVars
    <2>2. \A d \in Clients, k \in Keys :
            cache'[d][k].body = cache[d][k].body \/ cache'[d][k].body = committed
      BY <1>0, <2>1 DEF Typed
    <2> QED BY <1>0, <2>1, <2>2 DEF Limits, Typed
  <1> QED BY <1>1, <1>2, <1>3, <1>4, <1>5, <1>6, <1>7, Cases

LEMMA AnsweredStep == ASSUME Basics, Answered, [Next]_vars PROVE Answered'
  <1> USE ClientsAct
  <1>0. committed \in Nat
    BY DEF Basics, Typed
  <1>1. ASSUME committed' = committed \/ committed' = committed + 1, UNCHANGED unheard PROVE Answered'
    BY <1>0, <1>1 DEF Answered
  <1>2. ASSUME UNCHANGED committed, NEW a \in Actors, NEW S \in SUBSET (1..committed),
               unheard' = [unheard EXCEPT ![a] = S]
        PROVE Answered'
    BY <1>2 DEF Answered
  <1>3. ASSUME NEW c \in Clients, NEW k \in Keys, Begin(c, k) PROVE Answered'
    <2>1. {i \in 1..committed : kind[i] = "silent" /\ k \in hits[i]} \subseteq 1..committed
      OBVIOUS
    <2> QED BY <1>2, <1>3, <2>1 DEF Begin, changeVars
  <1>4. ASSUME Tell \/ \E c \in Clients : ReadBody(c) PROVE Answered'
    BY <1>2, <1>4 DEF Tell, ReadBody, Finish, changeVars
  <1>5. ASSUME NEW how \in Kinds, NEW S \in SUBSET Keys, Commit(how, S) PROVE Answered'
    BY <1>1, <1>5 DEF Commit, requestVars
  <1>6. ASSUME \/ \E i \in Ids, what \in {"change", "reset"} : Publish(i, what)
               \/ \E i \in Ids : Observe(i) \/ Drain(i)
               \/ Lag \/ \E a \in Actors : Acquire(a)
               \/ OpenFirst \/ Reopen \/ Reset \/ Drained
               \/ \E k \in Keys : StampKey(k)
               \/ Unlock \/ UNCHANGED vars
        PROVE UNCHANGED <<committed, unheard>>
    BY <1>6 DEF Publish, Observe, Drain, Lag, Acquire, OpenFirst, Reopen, Open, Reset, Drained,
                Release, StampKey, Unlock, vars, changeVars, requestVars
  <1>7. ASSUME \/ \E i \in Ids, k \in Keys : Hear(i, k)
               \/ \E c \in Clients : TakeToken(c)
        PROVE UNCHANGED <<committed, unheard>>
    BY <1>7 DEF Hear, TakeToken, changeVars
  <1> QED BY <1>1, <1>3, <1>4, <1>5, <1>6, <1>7, Cases

LEMMA TypeInvInit == ASSUME Init PROVE TypeInv
  <1> USE ClientsAct, RevisionsAssumption
  <1>1. Basics
    BY DEF Init, Basics, Typed, WatchOK, RequestsOK, Ids, Nothing, Places
  <1>2. ClockTyped /\ Limits /\ Answered
    BY DEF Init, ClockTyped, Limits, Nothing, Answered
  <1>3. Sent
    <2>1. committed = 0 /\ published = 0 /\ \A i \in Ids : i > 0
      BY DEF Init, Ids
    <2> QED BY <2>1 DEF Sent, Ids
  <1>4. Memory
    <2>1. Remembered = {}
      BY DEF Init, Remembered
    <2> QED BY <2>1, FS_EmptySet DEF Memory
  <1> QED BY <1>1, <1>2, <1>3, <1>4 DEF TypeInv

LEMMA TypeInvOK == ASSUME TypeInv PROVE TypeOK
  <1> USE RevisionsAssumption
  <1>0. Typed /\ WatchOK /\ ClockTyped /\ Limits /\ Answered /\ Memory
    BY DEF TypeInv, Basics
  <1>1. published \in 0..MaxChanges
    BY <1>0 DEF TypeInv, Sent, Typed, Limits
  <1>2. announced \subseteq 1..committed
    BY <1>0 DEF Typed, Ids
  <1>3. index \in [Ids -> 0..published] /\ head \in 0..published /\ drained \in 0..published
        /\ fresh \in 0..published /\ position \in 0..published
    BY <1>0 DEF Typed, WatchOK
  <1>4. cache \in [Clients -> [Keys -> [token : Nat, body : 0..committed]]]
    <2>1. \A c \in Clients, k \in Keys : cache[c][k] \in [token : Nat, body : 0..committed]
      <3> SUFFICES ASSUME NEW c \in Clients, NEW k \in Keys
                   PROVE  cache[c][k] \in [token : Nat, body : 0..committed]
        OBVIOUS
      <3>1. cache[c][k] \in [token : Nat, body : Nat] /\ cache[c][k].body <= committed
        BY <1>0 DEF Typed, Limits
      <3> QED BY <1>0, <3>1 DEF Typed
    <2> QED BY <1>0, <2>1 DEF Typed
  <1>5. told \in [key : Keys \cup {"none"}, token : Nat, id : 0..committed]
    BY <1>0 DEF Typed
  <1>6. committed \in 0..MaxChanges /\ busy \in 0..committed /\ lags \in 0..MaxLags
    BY <1>0 DEF Typed, Limits
  <1> QED BY <1>0, <1>1, <1>2, <1>3, <1>4, <1>5, <1>6
          DEF TypeOK, Typed, Limits, Answered, ClockTyped, Memory, Places

\* Every column of the clock, the watch and the requests keeps its type for any
\* number of keys, whatever commits, lags and resets do: the feed never sends
\* more notices than there are changes, no position runs ahead of the feed, and
\* Clock::set never remembers more than Capacity keys.
THEOREM RevisionsTyped == Spec => []TypeOK
  <1>1. Init => TypeInv
    BY TypeInvInit
  <1>2. TypeInv /\ [Next]_vars => TypeInv'
    BY TypedStep, WatchStep, RequestsStep, ClockTypedStep, LimitsStep, AnsweredStep, SentStep, MemoryStep
       DEF TypeInv, Basics
  <1>3. TypeInv => TypeOK
    BY TypeInvOK
  <1> QED BY <1>1, <1>2, <1>3, PTL DEF Spec

(***************************************************************************)
(* The keys of the session lists                                           *)
(*                                                                         *)
(* A command writes the row of one session.  What the lists, counts and    *)
(* statistics say of every other session depends on that session's own     *)
(* row, except for the number of children it shows.  So a body changes     *)
(* only through the session that moved, whose facts before and after name  *)
(* every list it is in, or through a parent whose child came or went, and  *)
(* the parents are reported whenever that happens.                         *)
(***************************************************************************)
Table == rows = [x \in Sessions |-> rows[x]]

\* Every command writes the row of one session.
LEMMA OneRowWritten ==
  ASSUME Table, ListsNext
  PROVE  \E s \in Sessions : /\ rows' = [x \in Sessions |-> rows'[x]]
                             /\ \A x \in Sessions \ {s} : rows'[x] = rows[x]
<1>1. PICK s \in Sessions : \E row : Write(s, row)
  BY Zenon DEF ListsNext, Command, Create, Fork, Delete, Metadata, Configure, Reparent, Send, Claim,
     Settle, ClearQueued, Retry, Interact, Withdraw
<1>2. PICK row : rows' = [rows EXCEPT ![s] = row]
  BY <1>1 DEF Write
<1>3. rows' = [x \in Sessions |-> IF x = s THEN row ELSE rows[x]]
  BY <1>2 DEF Table
<1> QED BY <1>3

\* The keys the server takes from the change of one session.
KeysOf(t, u, s) ==
  ListChangeKeys(ListState(t, s), ListState(u, s), Parents(u, ListState(t, s), ListState(u, s)))

LEMMA NamedByOne ==
  ASSUME Table, ListsNext, NEW c \in Reports
  PROVE  \E s \in Sessions : /\ \A x \in Sessions \ {s} : rows'[x] = rows[x]
                             /\ rows'[s] # rows[s] /\ Named(c) = KeysOf(rows, rows', s)
<1>1. PICK s \in Sessions : \A x \in Sessions \ {s} : rows'[x] = rows[x]
  BY OneRowWritten
<1>2. PICK t \in Sessions : rows[t] # rows'[t] /\ c = Reported(t)
  BY DEF Reports
<1>3. t = s
  BY <1>1, <1>2
<1>4. Named(c) = KeysOf(rows, rows', s)
  BY <1>2, <1>3 DEF Named, Reported, KeysOf
<1> QED BY <1>1, <1>2, <1>3, <1>4

\* The facts of a session depend on its row only.
LEMMA SameRow ==
  ASSUME NEW t, NEW u, NEW x \in Sessions, u[x] = t[x]
  PROVE  /\ Exists(u, x) <=> Exists(t, x)
         /\ ProcessingState(u, x) = ProcessingState(t, x)
         /\ ListState(u, x) = ListState(t, x)
<1>1. \A p : Having(u, x, p) = Having(t, x, p)
  BY DEF Having
<1>2. Exists(u, x) <=> Exists(t, x)
  BY DEF Exists
<1>3. ProcessingState(u, x) = ProcessingState(t, x)
  BY <1>1 DEF ProcessingState, Active
<1> QED BY <1>1, <1>2, <1>3 DEF ListState

LEMMA StateFields ==
  ASSUME NEW t, NEW x \in Sessions
  PROVE  /\ Some(ListState(t, x)) <=> Exists(t, x)
         /\ ~Exists(t, x) => ListState(t, x) = None
         /\ Exists(t, x) => /\ ListState(t, x).session = x
                          /\ ListState(t, x).workspace = t[x].workspace
                          /\ ListState(t, x).parent = t[x].parent
                          /\ ListState(t, x).marks = t[x].marks
                          /\ ListState(t, x).listed = ~t[x].temporary
                          /\ ListState(t, x).state = ProcessingState(t, x)
                          /\ ListState(t, x).version = t[x].version
                          /\ ListState(t, x).messages = t[x].messages
<1>0. x # 0
  BY BoundsAssumption DEF Sessions
<1>1. CASE ~Exists(t, x)
  BY <1>1 DEF ListState, Some, None
<1>2. CASE Exists(t, x)
  <2> DEFINE st == [session |-> x, workspace |-> t[x].workspace, parent |-> t[x].parent,
        marks |-> t[x].marks, listed |-> ~t[x].temporary, state |-> ProcessingState(t, x),
        queued |-> Cardinality(Having(t, x, "queued")),
        running |-> Cardinality(Having(t, x, "running")),
        version |-> t[x].version, messages |-> t[x].messages]
  <2>1. ListState(t, x) = st
    BY <1>0, <1>2 DEF ListState
  <2>2. /\ st.session = x /\ st.workspace = t[x].workspace /\ st.parent = t[x].parent
        /\ st.marks = t[x].marks /\ st.listed = ~t[x].temporary
        /\ st.state = ProcessingState(t, x)
        /\ st.version = t[x].version /\ st.messages = t[x].messages
    OBVIOUS
  <2> HIDE DEF st
  <2> QED BY <1>0, <1>2, <2>1, <2>2 DEF Some
<1> QED BY <1>1, <1>2

\* A session in a bucket's list is a member of the bucket by its facts.
LEMMA SelectedIsMember ==
  ASSUME NEW t, NEW x \in Sessions, NEW b \in Buckets
  PROVE  BucketMembership(ListState(t, x), b)
           <=> Exists(t, x) /\ ~t[x].temporary /\ Selects(t, x, b)
<1>1. CASE ~Exists(t, x)
  BY <1>1, StateFields DEF BucketMembership
<1>2. CASE Exists(t, x)
  <2>1. PICK st : st = ListState(t, x)
    OBVIOUS
  <2>2. Some(st) /\ st.marks = t[x].marks /\ st.listed = ~t[x].temporary
        /\ st.state = ProcessingState(t, x)
    BY <1>2, <2>1, StateFields
  <2>3. CASE b \in {"pinned", "favorite"}
    BY <1>2, <2>1, <2>2, <2>3 DEF BucketMembership, Selects, NoBucket
  <2>4. CASE b = "running"
    BY <1>2, <2>1, <2>2, <2>4 DEF BucketMembership, Selects, NoBucket
  <2>5. CASE b = "attention"
    BY <1>2, <2>1, <2>2, <2>5 DEF BucketMembership, Selects, NoBucket
  <2>6. CASE b = "recent"
    BY <1>2, <2>1, <2>2, <2>6 DEF BucketMembership, Selects, NoBucket
  <2> QED BY <2>3, <2>4, <2>5, <2>6 DEF Buckets
<1> QED BY <1>1, <1>2

\* The facts of a listed session name every list it is in.
LEMMA ListedIsKeyed ==
  ASSUME NEW t, NEW x \in Sessions, NEW k \in ListKeys, x \in Listed(t, k)
  PROVE  k \in ListRowKeys(ListState(t, x))
<1>1. PICK st : st = ListState(t, x)
  OBVIOUS
<1>2. /\ Exists(t, x) /\ ~t[x].temporary /\ k.workspace \in {0, t[x].workspace}
      /\ k.of = "roots" => t[x].parent = 0
      /\ k.of = "children" => t[x].parent = k.parent
      /\ Selects(t, x, k.bucket)
  BY DEF Listed
<1>3. /\ st.workspace = t[x].workspace /\ st.parent = t[x].parent
      /\ st.listed = ~t[x].temporary
  BY <1>1, <1>2, StateFields
<1>4. st.listed
  BY <1>2, <1>3, Zenon
<1> DEFINE home == IF st.parent = 0 THEN {Key("roots", st.workspace, NoBucket, 0)}
                   ELSE {Key("children", st.workspace, NoBucket, st.parent)}
           in == {b \in Buckets : BucketMembership(st, b)}
           buckets == {Key("bucket", w, b, 0) : w \in {0, st.workspace}, b \in in}
<1>5. ListRowKeys(st) = {Key("sessions", 0, NoBucket, 0), Key("sessions", st.workspace, NoBucket, 0)}
                          \cup home \cup buckets
  BY <1>4 DEF ListRowKeys
<1>6. ASSUME NEW w \in Workspaces \cup {0}, k = Key("sessions", w, NoBucket, 0)
      PROVE  k \in ListRowKeys(st)
  <2>1. k.workspace = w
    BY <1>6 DEF Key
  <2>2. w = 0 \/ w = st.workspace
    BY <1>2, <1>3, <2>1
  <2> HIDE DEF home, buckets
  <2> QED BY <1>5, <1>6, <2>2, Zenon
<1>7. ASSUME NEW w \in Workspaces, k = Key("roots", w, NoBucket, 0) PROVE k \in ListRowKeys(st)
  <2>1. k.workspace = w /\ k.of = "roots"
    BY <1>7 DEF Key
  <2>2. w # 0
    BY BoundsAssumption
  <2>3. w = st.workspace /\ st.parent = 0
    BY <1>2, <1>3, <2>1, <2>2
  <2>4. k \in home
    BY <1>7, <2>3, Zenon
  <2> HIDE DEF home, buckets
  <2> QED BY <1>5, <2>4, Zenon
<1>8. ASSUME NEW w \in Workspaces, NEW p \in Sessions, k = Key("children", w, NoBucket, p)
      PROVE  k \in ListRowKeys(st)
  <2>1. k.workspace = w /\ k.of = "children" /\ k.parent = p
    BY <1>8 DEF Key
  <2>2. w # 0 /\ p # 0
    BY BoundsAssumption DEF Sessions
  <2>3. w = st.workspace /\ p = st.parent
    BY <1>2, <1>3, <2>1, <2>2
  <2>4. k \in home
    BY <1>8, <2>2, <2>3, Zenon
  <2> HIDE DEF home, buckets
  <2> QED BY <1>5, <2>4, Zenon
<1>9. ASSUME NEW w \in Workspaces \cup {0}, NEW b \in Buckets, k = Key("bucket", w, b, 0)
      PROVE  k \in ListRowKeys(st)
  <2>1. k.workspace = w /\ k.bucket = b
    BY <1>9 DEF Key
  <2>2. b \in in
    BY <1>1, <1>2, <2>1, SelectedIsMember
  <2>3. w \in {0, st.workspace}
    BY <1>2, <1>3, <2>1
  <2> HIDE DEF in
  <2>4. k \in buckets
    BY <1>9, <2>2, <2>3
  <2> HIDE DEF home, buckets
  <2> QED BY <1>5, <2>4, Zenon
<1>10. \/ \E w \in Workspaces \cup {0} : k = Key("sessions", w, NoBucket, 0)
       \/ \E w \in Workspaces : k = Key("roots", w, NoBucket, 0)
       \/ \E w \in Workspaces, p \in Sessions : k = Key("children", w, NoBucket, p)
       \/ \E w \in Workspaces \cup {0}, b \in Buckets : k = Key("bucket", w, b, 0)
  BY DEF ListKeys
<1>11. k \in ListRowKeys(st)
  BY <1>6, <1>7, <1>8, <1>9, <1>10, Zenon
<1> QED BY <1>1, <1>11

\* The lists, counts and statistics differ in the one session that changed.
LEMMA OthersListed ==
  ASSUME NEW t, NEW u, NEW s \in Sessions, \A x \in Sessions \ {s} : u[x] = t[x],
         NEW k, NEW x \in Sessions \ {s}
  PROVE  x \in Listed(u, k) <=> x \in Listed(t, k)
<1>1. u[x] = t[x] /\ x \in Sessions
  OBVIOUS
<1>2. (Exists(u, x) <=> Exists(t, x)) /\ ProcessingState(u, x) = ProcessingState(t, x)
  BY <1>1, SameRow
<1>3. Selects(u, x, k.bucket) = Selects(t, x, k.bucket)
  BY <1>1, <1>2 DEF Selects
<1> QED BY <1>1, <1>2, <1>3 DEF Listed

\* A child appears, goes, moves or is hidden: its parents are reported.
LEMMA ParentReported ==
  ASSUME NEW t, NEW u, NEW s \in Sessions, NEW p \in Sessions,
         ~(s \in Children(u, p) <=> s \in Children(t, p)), Exists(u, p)
  PROVE  /\ ListState(t, s) # ListState(u, s)
         /\ ListState(u, p) \in Parents(u, ListState(t, s), ListState(u, s))
<1>1. PICK before : before = ListState(t, s)
  OBVIOUS
<1>2. PICK after : after = ListState(u, s)
  OBVIOUS
<1>3. /\ Some(before) <=> Exists(t, s)
      /\ Exists(t, s) => before.parent = t[s].parent /\ before.listed = ~t[s].temporary
  BY <1>1, StateFields
<1>4. /\ Some(after) <=> Exists(u, s)
      /\ Exists(u, s) => after.parent = u[s].parent /\ after.listed = ~u[s].temporary
  BY <1>2, StateFields
<1>5. p # 0
  BY BoundsAssumption DEF Sessions
<1>6. (s \in Children(t, p)) <=> Some(before) /\ before.parent = p /\ before.listed
  BY <1>3, Zenon DEF Children
<1>7. (s \in Children(u, p)) <=> Some(after) /\ after.parent = p /\ after.listed
  BY <1>4, Zenon DEF Children
<1>8. Some(before) => before.listed \in BOOLEAN
  BY <1>3, Zenon
<1>9. Some(after) => after.listed \in BOOLEAN
  BY <1>4, Zenon
<1>10. before # after
  BY <1>6, <1>7, Zenon
<1>11. Regrouped(before, after)
  <2>1. CASE Some(before) # Some(after)
    BY <2>1, Zenon DEF Regrouped
  <2>2. CASE Some(before) /\ Some(after) /\ before.parent # after.parent
    BY <2>2, Zenon DEF Regrouped, ParentOf
  <2>3. CASE Some(before) /\ Some(after) /\ before.parent = after.parent
    <3>1. before.listed # after.listed
      BY <1>6, <1>7, <2>3, Zenon
    <3> QED BY <2>3, <3>1, Zenon DEF Regrouped
  <2>4. (s \in Children(u, p)) \/ (s \in Children(t, p))
    BY Zenon
  <2>5. Some(before) \/ Some(after)
    BY <1>6, <1>7, <2>4, Zenon
  <2>6. Some(before) \in BOOLEAN /\ Some(after) \in BOOLEAN
    BY DEF Some
  <2> QED BY <2>1, <2>2, <2>3, <2>5, <2>6
<1>12. p \in {ParentOf(before), ParentOf(after)}
  BY <1>6, <1>7, Zenon DEF ParentOf
<1>13. ListState(u, p) # None
  BY StateFields DEF Some, None
<1>14. ListState(u, p) \in {ListState(u, q) : q \in {ParentOf(before), ParentOf(after)}} \ {None}
  BY <1>12, <1>13, Zenon
<1>15. ListState(u, p) \in Parents(u, before, after)
  BY <1>11, <1>14, Zenon DEF Parents
<1> QED BY <1>1, <1>2, <1>10, <1>15

\* What the change of a session names: its rows, the reported parents, and the
\* counts and workspaces its facts move.
LEMMA KeysParts ==
  ASSUME NEW t, NEW u, NEW s
  PROVE  /\ ListState(t, s) # ListState(u, s) /\ ListState(t, s) # None
              => ListRowKeys(ListState(t, s)) \subseteq KeysOf(t, u, s)
         /\ ListState(t, s) # ListState(u, s) /\ ListState(u, s) # None
              => ListRowKeys(ListState(u, s)) \subseteq KeysOf(t, u, s)
         /\ \A st \in Parents(u, ListState(t, s), ListState(u, s)) :
              ListRowKeys(st) \subseteq KeysOf(t, u, s)
<1>1. PICK before : before = ListState(t, s)
  OBVIOUS
<1>2. PICK after : after = ListState(u, s)
  OBVIOUS
<1>3. PICK parents : parents = Parents(u, before, after)
  OBVIOUS
<1>4. KeysOf(t, u, s) = ListChangeKeys(before, after, parents)
  BY <1>1, <1>2, <1>3 DEF KeysOf
<1>5. ASSUME NEW st \in RowsOf(before, after) \cup parents
      PROVE  ListRowKeys(st) \subseteq ListChangeKeys(before, after, parents)
  BY <1>5, Zenon DEF ListChangeKeys
<1>6. before # after => RowsOf(before, after) = {before, after} \ {None}
  BY DEF RowsOf
<1>7. before # after /\ before # None
         => ListRowKeys(before) \subseteq ListChangeKeys(before, after, parents)
  BY <1>5, <1>6
<1>8. before # after /\ after # None
         => ListRowKeys(after) \subseteq ListChangeKeys(before, after, parents)
  BY <1>5, <1>6
<1>9. \A st \in parents : ListRowKeys(st) \subseteq ListChangeKeys(before, after, parents)
  BY <1>5
<1> QED BY <1>1, <1>2, <1>3, <1>4, <1>7, <1>8, <1>9

\* A session whose facts are unchanged is in the same lists, under the same
\* parent, and shows the same.
LEMMA SameState ==
  ASSUME NEW t, NEW u, NEW s \in Sessions, ListState(t, s) = ListState(u, s), NEW k, NEW p
  PROVE  /\ s \in Listed(u, k) <=> s \in Listed(t, k)
         /\ s \in Children(u, p) <=> s \in Children(t, p)
         /\ Exists(t, s) => /\ u[s].parent = t[s].parent /\ u[s].marks = t[s].marks
                          /\ u[s].version = t[s].version /\ u[s].messages = t[s].messages
                          /\ ProcessingState(u, s) = ProcessingState(t, s)
<1>1. Exists(u, s) <=> Exists(t, s)
  BY StateFields
<1>2. CASE ~Exists(t, s)
  BY <1>1, <1>2 DEF Listed, Children
<1>3. CASE Exists(t, s)
  <2>1. /\ u[s].parent = t[s].parent /\ u[s].marks = t[s].marks
        /\ u[s].workspace = t[s].workspace
        /\ u[s].version = t[s].version /\ u[s].messages = t[s].messages
        /\ ProcessingState(u, s) = ProcessingState(t, s)
    BY <1>1, <1>3, StateFields
  <2>2. (~u[s].temporary) <=> (~t[s].temporary)
    BY <1>1, <1>3, StateFields
  <2>3. Selects(u, s, k.bucket) = Selects(t, s, k.bucket)
    BY <2>1 DEF Selects
  <2> QED BY <1>1, <1>3, <2>1, <2>2, <2>3 DEF Listed, Children
<1> QED BY <1>2, <1>3

\* Only children that come and go change the number a session shows.
LEMMA OthersChildren ==
  ASSUME NEW t, NEW u, NEW s \in Sessions, \A x \in Sessions \ {s} : u[x] = t[x], NEW p,
         s \in Children(u, p) <=> s \in Children(t, p)
  PROVE  Children(u, p) = Children(t, p)
<1>1. ASSUME NEW x \in Sessions \ {s} PROVE x \in Children(u, p) <=> x \in Children(t, p)
  BY <1>1 DEF Children, Exists
<1>2. Children(u, p) \subseteq Sessions /\ Children(t, p) \subseteq Sessions
  BY DEF Children
<1> QED BY <1>1, <1>2

LEMMA BodyChangeKeyed ==
  ASSUME NEW t, NEW u, NEW s \in Sessions, \A x \in Sessions \ {s} : u[x] = t[x],
         NEW k \in ListKeys, ListBody(u, k) # ListBody(t, k)
  PROVE  k \in KeysOf(t, u, s)
<1>1. CASE ListState(t, s) # ListState(u, s) /\ (s \in Listed(t, k) \/ s \in Listed(u, k))
  <2>1. CASE s \in Listed(t, k)
    <3>1. Exists(t, s)
      BY <2>1 DEF Listed
    <3>2. ListState(t, s) # None
      BY <3>1, StateFields DEF Some, None
    <3> QED BY <1>1, <2>1, <3>2, ListedIsKeyed, KeysParts
  <2>2. CASE s \in Listed(u, k)
    <3>1. Exists(u, s)
      BY <2>2 DEF Listed
    <3>2. ListState(u, s) # None
      BY <3>1, StateFields DEF Some, None
    <3> QED BY <1>1, <2>2, <3>2, ListedIsKeyed, KeysParts
  <2> QED BY <1>1, <2>1, <2>2
<1>2. CASE \E p \in Listed(u, k) : p # s /\ ~(s \in Children(u, p) <=> s \in Children(t, p))
  <2>1. PICK p \in Listed(u, k) : p # s /\ ~(s \in Children(u, p) <=> s \in Children(t, p))
    BY <1>2
  <2>2. p \in Sessions /\ Exists(u, p)
    BY DEF Listed
  <2>3. ListState(u, p) \in Parents(u, ListState(t, s), ListState(u, s))
    BY <2>1, <2>2, ParentReported
  <2>4. k \in ListRowKeys(ListState(u, p))
    BY <2>2, ListedIsKeyed
  <2> QED BY <2>3, <2>4, KeysParts
<1>3. ASSUME ~(ListState(t, s) # ListState(u, s) /\ (s \in Listed(t, k) \/ s \in Listed(u, k))),
             ~\E p \in Listed(u, k) : p # s /\ ~(s \in Children(u, p) <=> s \in Children(t, p))
      PROVE  FALSE
  <2>1. s \in Listed(u, k) <=> s \in Listed(t, k)
    BY <1>3, SameState
  <2>2. Listed(u, k) = Listed(t, k)
    <3>1. \A x \in Sessions \ {s} : x \in Listed(u, k) <=> x \in Listed(t, k)
      BY OthersListed
    <3>2. Listed(u, k) \subseteq Sessions /\ Listed(t, k) \subseteq Sessions
      BY DEF Listed
    <3> QED BY <2>1, <3>1, <3>2
  <2>3. ASSUME NEW x \in Listed(u, k) PROVE View(u, x) = View(t, x)
    <3>0. x \in Sessions
      BY DEF Listed
    <3>1. CASE x = s
      <4>1. ListState(t, s) = ListState(u, s)
        BY <1>3, <2>3, <3>1
      <4>2. Exists(t, s)
        BY <2>2, <3>1 DEF Listed
      <4>3. Children(u, s) = Children(t, s)
        BY <4>1, SameState, OthersChildren
      <4> QED BY <3>1, <4>1, <4>2, <4>3, SameState DEF View
    <3>2. CASE x # s
      <4>1. Children(u, x) = Children(t, x)
        BY <1>3, <2>3, <3>2, OthersChildren
      <4>2. u[x] = t[x] /\ ProcessingState(u, x) = ProcessingState(t, x)
        BY <3>0, <3>2, SameRow
      <4> QED BY <4>1, <4>2 DEF View
    <3> QED BY <3>1, <3>2
  <2>4. ListBody(u, k) = ListBody(t, k)
    BY <2>2, <2>3 DEF ListBody
  <2> QED BY <2>4
<1> QED BY <1>1, <1>2, <1>3

\* A bucket's number changes exactly when the session enters or leaves it.
LEMMA CountMoves ==
  ASSUME NEW t, NEW u, NEW s \in Sessions, \A x \in Sessions \ {s} : u[x] = t[x],
         NEW b \in Buckets
  PROVE  CountBody(u, b) = CountBody(t, b)
           <=> (BucketMembership(ListState(u, s), b) <=> BucketMembership(ListState(t, s), b))
<1> DEFINE k == Key("count", 0, b, 0)
<1>1. k.of = "count" /\ k.workspace = 0 /\ k.bucket = b
  BY DEF Key
<1> HIDE DEF k
<1>2. ASSUME NEW v PROVE s \in Listed(v, k) <=> BucketMembership(ListState(v, s), b)
  <2>1. s \in Listed(v, k) <=> Exists(v, s) /\ ~v[s].temporary /\ Selects(v, s, b)
    BY <1>1 DEF Listed
  <2> QED BY <2>1, SelectedIsMember
<1>3. \A x \in Sessions \ {s} : x \in Listed(u, k) <=> x \in Listed(t, k)
  BY OthersListed
<1>4. IsFiniteSet(Sessions)
  BY BoundsAssumption, FS_Interval DEF Sessions
<1>5. Listed(u, k) \subseteq Sessions /\ Listed(t, k) \subseteq Sessions
  BY DEF Listed
<1>6. IsFiniteSet(Listed(u, k)) /\ IsFiniteSet(Listed(t, k))
  BY <1>4, <1>5, FS_Subset
<1>7. CASE s \in Listed(u, k) <=> s \in Listed(t, k)
  <2>1. Listed(u, k) = Listed(t, k)
    BY <1>3, <1>5, <1>7
  <2> QED BY <1>2, <1>7, <2>1 DEF CountBody, k
<1>8. CASE s \in Listed(u, k) /\ s \notin Listed(t, k)
  <2>1. Listed(u, k) = Listed(t, k) \cup {s}
    BY <1>3, <1>5, <1>8
  <2>2. Cardinality(Listed(u, k)) = Cardinality(Listed(t, k)) + 1
    BY <1>6, <1>8, <2>1, FS_AddElement
  <2>3. Cardinality(Listed(t, k)) \in Nat
    BY <1>6, FS_CardinalityType
  <2>4. CountBody(u, b) # CountBody(t, b)
    BY <2>2, <2>3 DEF CountBody, k
  <2> QED BY <1>2, <1>8, <2>4
<1>9. CASE s \notin Listed(u, k) /\ s \in Listed(t, k)
  <2>1. Listed(t, k) = Listed(u, k) \cup {s}
    BY <1>3, <1>5, <1>9
  <2>2. Cardinality(Listed(t, k)) = Cardinality(Listed(u, k)) + 1
    BY <1>6, <1>9, <2>1, FS_AddElement
  <2>3. Cardinality(Listed(u, k)) \in Nat
    BY <1>6, FS_CardinalityType
  <2>4. CountBody(u, b) # CountBody(t, b)
    BY <2>2, <2>3 DEF CountBody, k
  <2> QED BY <1>2, <1>9, <2>4
<1> QED BY <1>7, <1>8, <1>9

\* Among the named keys the count keys are those of the buckets entered or left.
LEMMA CountKeysNamed ==
  ASSUME NEW before, NEW after, NEW parents
  PROVE  {k \in ListChangeKeys(before, after, parents) : k.of = "count"}
           = CountKeys(before, after)
<1>1. ASSUME NEW of, NEW w, NEW b, NEW p PROVE Key(of, w, b, p).of = of
  BY DEF Key
<1> DEFINE R == UNION {ListRowKeys(st) : st \in RowsOf(before, after) \cup parents}
           S == {Key("stats", w, NoBucket, 0) : w \in Recounted(before, after)}
           W == IF Recounted(before, after) # {} THEN {Key("workspaces", 0, NoBucket, 0)} ELSE {}
<1>2. ListChangeKeys(before, after, parents) = R \cup CountKeys(before, after) \cup S \cup W
  BY Zenon DEF ListChangeKeys
<1>3. ASSUME NEW st, NEW k \in ListRowKeys(st) PROVE k.of # "count"
  <2>1. \/ \E w : k = Key("sessions", w, NoBucket, 0)
        \/ \E w : k = Key("roots", w, NoBucket, 0)
        \/ \E w, p : k = Key("children", w, NoBucket, p)
        \/ \E w, b : k = Key("bucket", w, b, 0)
    BY <1>3 DEF ListRowKeys
  <2> QED BY <1>1, <2>1
<1>4. \A k \in R : k.of # "count"
  BY <1>3
<1>5. \A k \in S : k.of # "count"
  BY <1>1
<1>6. \A k \in W : k.of # "count"
  BY <1>1
<1>7. \A k \in CountKeys(before, after) : k.of = "count"
  BY <1>1 DEF CountKeys
<1> HIDE DEF R, S, W
<1> QED BY <1>2, <1>4, <1>5, <1>6, <1>7

\* A changed column is a changed contribution of the session to its workspace.
LEMMA StatisticMoves ==
  ASSUME NEW t, NEW u, NEW s \in Sessions, \A x \in Sessions \ {s} : u[x] = t[x],
         NEW w \in Workspaces, NEW c \in {"total", "roots", "pinned", "attention"},
         Statistic(u, w, c) # Statistic(t, w, c)
  PROVE  StatisticsContribution(ListState(t, s), w) # StatisticsContribution(ListState(u, s), w)
<1> DEFINE k == Key("sessions", w, NoBucket, 0)
           Col(v, x) == CASE c = "total" -> TRUE
                          [] c = "roots" -> v[x].parent = 0
                          [] c = "pinned" -> "pinned" \in v[x].marks
                          [] c = "running" -> ProcessingState(v, x) \in {"running", "awaiting"}
                          [] c = "attention" -> ProcessingState(v, x) \in {"awaiting", "failed"}
           In(v) == {x \in Listed(v, k) : Col(v, x)}
<1>1. ASSUME NEW v PROVE Statistic(v, w, c) = Cardinality(In(v))
  BY DEF Statistic
<1>2. k.of = "sessions" /\ k.workspace = w /\ k.bucket = NoBucket /\ w # 0
  BY BoundsAssumption DEF Key
<1> HIDE DEF k
<1>3. ASSUME NEW x \in Sessions \ {s} PROVE x \in In(u) <=> x \in In(t)
  <2>1. u[x] = t[x] /\ ProcessingState(u, x) = ProcessingState(t, x)
    BY SameRow
  <2>2. Col(u, x) = Col(t, x)
    BY <2>1
  <2>3. x \in Listed(u, k) <=> x \in Listed(t, k)
    BY OthersListed
  <2> HIDE DEF Col
  <2> QED BY <2>2, <2>3
<1>4. ASSUME NEW v PROVE s \in In(v) <=> StatisticsContribution(ListState(v, s), w)[c]
  <2>1. PICK st : st = ListState(v, s)
    OBVIOUS
  <2>2. s \in Listed(v, k) <=> Exists(v, s) /\ ~v[s].temporary /\ v[s].workspace = w
    BY <1>2 DEF Listed, Selects, NoBucket
  <2>3. CASE ~(Exists(v, s) /\ ~v[s].temporary /\ v[s].workspace = w)
    <3>1. ~Some(st) \/ ~st.listed \/ st.workspace # w
      BY <2>1, <2>3, StateFields
    <3>2. StatisticsContribution(st, w) = [total |-> FALSE, roots |-> FALSE, pinned |-> FALSE,
                                           running |-> FALSE, attention |-> FALSE]
      BY <3>1 DEF StatisticsContribution
    <3>3. StatisticsContribution(st, w)[c] = FALSE
      BY <3>2
    <3> QED BY <2>1, <2>2, <2>3, <3>3
  <2>4. CASE Exists(v, s) /\ ~v[s].temporary /\ v[s].workspace = w
    <3>1. /\ Some(st) /\ st.listed = ~v[s].temporary /\ st.workspace = w
          /\ st.parent = v[s].parent /\ st.marks = v[s].marks /\ st.state = ProcessingState(v, s)
      BY <2>1, <2>4, StateFields
    <3>2. PICK roots, pinned, running, attention :
             /\ roots = (st.parent = 0) /\ pinned = ("pinned" \in st.marks)
             /\ attention = (st.state \in {"awaiting", "failed"})
             /\ running = (st.queued > 0 \/ st.running > 0)
      OBVIOUS
    <3>3. StatisticsContribution(st, w)
            = [total |-> TRUE, roots |-> roots, pinned |-> pinned, running |-> running,
               attention |-> attention]
      BY <2>4, <3>1, <3>2, Zenon DEF StatisticsContribution
    <3>4. /\ StatisticsContribution(st, w)["total"] = TRUE
           /\ StatisticsContribution(st, w)["roots"] = roots
           /\ StatisticsContribution(st, w)["pinned"] = pinned
           /\ StatisticsContribution(st, w)["attention"] = attention
      BY <3>3
    <3>5. s \in In(v) <=> Col(v, s)
      BY <2>2, <2>4
    <3>6. CASE c = "total"
      BY <2>1, <3>5, <3>6, <3>4
    <3>7. CASE c = "roots"
      <4>1. StatisticsContribution(st, w)[c] <=> v[s].parent = 0
        BY <3>1, <3>2, <3>7, <3>4, Zenon
      <4>2. Col(v, s) <=> v[s].parent = 0
        BY <3>7
      <4> HIDE DEF Col
      <4> QED BY <2>1, <3>5, <4>1, <4>2
    <3>8. CASE c = "pinned"
      <4>1. StatisticsContribution(st, w)[c] <=> "pinned" \in v[s].marks
        BY <3>1, <3>2, <3>8, <3>4, Zenon
      <4>2. Col(v, s) <=> "pinned" \in v[s].marks
        BY <3>8
      <4> HIDE DEF Col
      <4> QED BY <2>1, <3>5, <4>1, <4>2
    <3>9. CASE c = "attention"
      <4>1. StatisticsContribution(st, w)[c] <=> ProcessingState(v, s) \in {"awaiting", "failed"}
        BY <3>1, <3>2, <3>9, <3>4, Zenon
      <4>2. Col(v, s) <=> ProcessingState(v, s) \in {"awaiting", "failed"}
        BY <3>9
      <4> HIDE DEF Col
      <4> QED BY <2>1, <3>5, <4>1, <4>2
    <3> QED BY <3>6, <3>7, <3>8, <3>9
  <2> QED BY <2>3, <2>4
<1>5. In(u) \subseteq Sessions /\ In(t) \subseteq Sessions
  BY DEF Listed
<1> HIDE DEF In
<1>6. SUFFICES ASSUME StatisticsContribution(ListState(t, s), w)
                        = StatisticsContribution(ListState(u, s), w)
               PROVE  FALSE
  OBVIOUS
<1>7. s \in In(u) <=> s \in In(t)
  BY <1>4, <1>6
<1>8. In(u) = In(t)
  BY <1>3, <1>5, <1>7
<1> QED BY <1>1, <1>8

LEMMA RecountedNamed ==
  ASSUME NEW before, NEW after, NEW parents, NEW w \in Workspaces,
         StatisticsContribution(before, w) # StatisticsContribution(after, w)
  PROVE  {Key("stats", w, NoBucket, 0), Key("workspaces", 0, NoBucket, 0)}
           \subseteq ListChangeKeys(before, after, parents)
<1>1. w \in Recounted(before, after)
  BY DEF Recounted
<1>2. Recounted(before, after) # {}
  BY <1>1
<1>3. Key("stats", w, NoBucket, 0) \in ListChangeKeys(before, after, parents)
  BY <1>1, Zenon DEF ListChangeKeys
<1>4. Key("workspaces", 0, NoBucket, 0) \in ListChangeKeys(before, after, parents)
  BY <1>2, Zenon DEF ListChangeKeys
<1> QED BY <1>3, <1>4

(***************************************************************************)
(* The theorems                                                            *)
(***************************************************************************)
LEMMA TableStep == Table /\ [ListsNext]_rows => Table'
<1>1. ASSUME Table, ListsNext PROVE Table'
  BY <1>1, OneRowWritten DEF Table
<1> QED BY <1>1 DEF Table

\* Whatever command a session executes, the keys taken from the facts of that one
\* session and of its parents name every list that is now served differently,
\* for every number of workspaces, sessions and executions.
THEOREM ListsAlwaysKeyed == ListsSpec => ListsKeyed
<1>1. ListsInit => Table
  BY DEF ListsInit, Table
<1>2. ASSUME Table, ListsNext, NEW c \in Reports, NEW k \in ListKeys \ Named(c)
      PROVE  ListBody(rows', k) = ListBody(rows, k)
  <2>1. PICK s \in Sessions : /\ \A x \in Sessions \ {s} : rows'[x] = rows[x]
                             /\ rows'[s] # rows[s] /\ Named(c) = KeysOf(rows, rows', s)
    BY <1>2, NamedByOne
  <2> QED BY <1>2, <2>1, BodyChangeKeyed
<1>3. Table /\ [ListsNext]_rows
         => [\A c \in Reports : \A k \in ListKeys \ Named(c) :
                ListBody(rows, k)' = ListBody(rows, k)]_rows
  BY <1>2
<1> QED BY <1>1, <1>3, TableStep, PTL DEF ListsSpec, ListsKeyed

\* The number of a bucket loses its token exactly when a command changes the
\* number, for every number of workspaces, sessions and executions.
THEOREM CountsAlwaysExact == ListsSpec => CountsExact
<1> DEFINE Moved == {b \in Buckets : CountBody(rows, b)' # CountBody(rows, b)}
           Exact == \A c \in Reports :
                      {Key("count", 0, b, 0) : b \in Moved} = {k \in Named(c) : k.of = "count"}
<1>1. ListsInit => Table
  BY DEF ListsInit, Table
<1>2. ASSUME Table, ListsNext, NEW c \in Reports
      PROVE  {Key("count", 0, b, 0) : b \in Moved} = {k \in Named(c) : k.of = "count"}
  <2>1. PICK s \in Sessions : /\ \A x \in Sessions \ {s} : rows'[x] = rows[x]
                             /\ rows'[s] # rows[s] /\ Named(c) = KeysOf(rows, rows', s)
    BY <1>2, NamedByOne
  <2>2. PICK before : before = ListState(rows, s)
    OBVIOUS
  <2>3. PICK after : after = ListState(rows', s)
    OBVIOUS
  <2>4. \A b \in Buckets : CountBody(rows', b) # CountBody(rows, b)
           <=> BucketMembership(before, b) # BucketMembership(after, b)
    <3>1. ASSUME NEW b \in Buckets
          PROVE  /\ BucketMembership(before, b) \in BOOLEAN
                 /\ BucketMembership(after, b) \in BOOLEAN
                 /\ CountBody(rows', b) = CountBody(rows, b)
                      <=> (BucketMembership(after, b) <=> BucketMembership(before, b))
      <4>1. ASSUME NEW st PROVE BucketMembership(st, b) \in BOOLEAN
        BY Zenon DEF BucketMembership
      <4>2. CountBody(rows', b) = CountBody(rows, b)
              <=> (BucketMembership(after, b) <=> BucketMembership(before, b))
        BY <2>1, <2>2, <2>3, CountMoves
      <4> QED BY <4>1, <4>2
    <3> QED BY <3>1
  <2>5. Moved = {b \in Buckets : BucketMembership(before, b) # BucketMembership(after, b)}
    BY <2>4
  <2>6. {Key("count", 0, b, 0) : b \in Moved} = CountKeys(before, after)
    BY <2>5, Zenon DEF CountKeys
  <2>7. Named(c) = ListChangeKeys(before, after, Parents(rows', before, after))
    BY <2>1, <2>2, <2>3 DEF KeysOf
  <2>8. {k \in Named(c) : k.of = "count"} = CountKeys(before, after)
    BY <2>7, CountKeysNamed
  <2> QED BY <2>6, <2>8
<1>3. Table /\ [ListsNext]_rows => [Exact]_rows
  BY <1>2
<1> QED BY <1>1, <1>3, TableStep, PTL DEF ListsSpec, CountsExact

\* A changed membership, root, pin or attention column of a workspace's statistics
\* loses its token together with the workspace directory, for every number of
\* workspaces, sessions and executions.
THEOREM TotalsAlwaysKeyed == ListsSpec => TotalsKeyed
<1> DEFINE Columns == {"total", "roots", "pinned", "attention"}
           Stale == Outdated(Columns)
<1>1. ListsInit => Table
  BY DEF ListsInit, Table
<1>2. ASSUME Table, ListsNext, NEW c \in Reports PROVE Stale \subseteq Named(c)
  <2>1. PICK s \in Sessions : /\ \A x \in Sessions \ {s} : rows'[x] = rows[x]
                             /\ rows'[s] # rows[s] /\ Named(c) = KeysOf(rows, rows', s)
    BY <1>2, NamedByOne
  <2>2. ASSUME NEW w \in Workspaces, NEW col \in Columns,
               Statistic(rows', w, col) # Statistic(rows, w, col)
        PROVE  {Key("stats", w, NoBucket, 0), Key("workspaces", 0, NoBucket, 0)} \subseteq Named(c)
    <3>1. StatisticsContribution(ListState(rows, s), w)
            # StatisticsContribution(ListState(rows', s), w)
      BY <2>1, <2>2, StatisticMoves
    <3> QED BY <2>1, <3>1, RecountedNamed DEF KeysOf
  <2> QED BY <2>2 DEF Outdated
<1>3. Table /\ [ListsNext]_rows => [\A c \in Reports : Stale \subseteq Named(c)]_rows
  BY <1>2
<1> QED BY <1>1, <1>3, TableStep, PTL DEF ListsSpec, TotalsKeyed

\* Every command writes a row of the type.
LEMMA RowTyped ==
  ASSUME ListsTypeOK, NEW s \in Sessions, Command(s)
  PROVE  \E row \in RowType : Write(s, row)
<1> DEFINE b == rows[s]
<1>0. /\ b \in RowType /\ \A x \in Sessions : rows[x] \in RowType
  BY DEF ListsTypeOK
<1>1. NoRow \in RowType
  BY DEF NoRow, RowType
<1>2. /\ b.version \in {0, 1} /\ b.messages \in Nat /\ b.phases \in Seq(Phases)
      /\ b.asking \in BOOLEAN
  BY <1>0 DEF RowType
<1>3. Bump(b) \in RowType /\ Bump(b) = [b EXCEPT !.version = 1 - b.version]
      /\ Bump(b).phases = b.phases /\ Bump(b).messages = b.messages /\ Bump(b).asking = b.asking
  BY <1>0, <1>2 DEF Bump, RowType
<1>4. ASSUME NEW r \in RowType, r.phases = b.phases, NEW i \in DOMAIN b.phases, NEW q \in Phases
      PROVE  [r EXCEPT !.phases[i] = q] \in RowType
  <2>1. [b.phases EXCEPT ![i] = q] \in Seq(Phases)
    BY <1>2
  <2> QED BY <1>4, <2>1 DEF RowType
<1>5. ASSUME NEW w \in Workspaces, NEW p \in Sessions \cup {0}, Create(s, w, p)
      PROVE  \E row \in RowType : Write(s, row)
  <2>1. [NoRow EXCEPT !.live = "yes", !.workspace = w, !.parent = p] \in RowType
    BY <1>1 DEF RowType
  <2> QED BY <1>5, <2>1 DEF Create
<1>6. ASSUME NEW from \in Sessions, NEW kept \in 0..MaxSessions * MaxExecutions,
             NEW temporary \in BOOLEAN, Fork(s, from, kept, temporary)
      PROVE  \E row \in RowType : Write(s, row)
  <2>0. rows[from].workspace \in Workspaces \cup {0} /\ kept \in Nat
    BY <1>0, BoundsAssumption DEF RowType
  <2>1. [NoRow EXCEPT !.live = "yes", !.workspace = rows[from].workspace, !.parent = from,
                      !.messages = kept, !.temporary = temporary] \in RowType
    BY <1>1, <2>0 DEF RowType
  <2> QED BY <1>6, <2>1 DEF Fork
<1>7. CASE Delete(s)
  <2>1. [NoRow EXCEPT !.live = "deleted", !.workspace = b.workspace, !.parent = b.parent] \in RowType
    BY <1>0, <1>1 DEF RowType
  <2> QED BY <1>7, <2>1 DEF Delete
<1>8. CASE Metadata(s)
  <2>1. \A marks \in SUBSET Marks : [Bump(b) EXCEPT !.marks = marks] \in RowType
    BY <1>3 DEF RowType
  <2> QED BY <1>8, <2>1 DEF Metadata
<1>9. CASE Configure(s)
  <2>1. \A paused, temporary \in BOOLEAN :
          [Bump(b) EXCEPT !.paused = paused, !.temporary = temporary] \in RowType
    BY <1>3 DEF RowType
  <2> QED BY <1>9, <2>1 DEF Configure
<1>10. ASSUME NEW p \in Sessions, Reparent(s, p) PROVE \E row \in RowType : Write(s, row)
  <2>1. [Bump(b) EXCEPT !.parent = p] \in RowType
    BY <1>3 DEF RowType
  <2> QED BY <1>10, <2>1 DEF Reparent
<1>11. CASE Send(s)
  <2>1. Append(b.phases, "queued") \in Seq(Phases)
    BY <1>2 DEF Phases
  <2>2. b.messages + 1 \in Nat
    BY <1>2
  <2>3. \A m \in Nat, q \in Seq(Phases) :
          [Bump(b) EXCEPT !.messages = m, !.phases = q] \in RowType
    BY <1>3 DEF RowType
  <2>4. Write(s, [Bump(b) EXCEPT !.messages = b.messages + 1,
                                 !.phases = Append(b.phases, "queued")])
    BY <1>3, <1>11 DEF Send
  <2> QED BY <2>1, <2>2, <2>3, <2>4
<1>12. ASSUME NEW i \in 1..MaxExecutions, Claim(s, i) PROVE \E row \in RowType : Write(s, row)
  <2>1. i \in DOMAIN b.phases
    BY <1>12 DEF Claim, Having
  <2>2. [b EXCEPT !.phases[i] = "running"] \in RowType
    BY <1>0, <1>4, <2>1 DEF Phases
  <2> QED BY <1>12, <2>2 DEF Claim
<1>13. ASSUME NEW i \in 1..MaxExecutions, NEW phase \in {"succeeded", "failed", "cancelled"},
              Settle(s, i, phase)
       PROVE  \E row \in RowType : Write(s, row)
  <2>1. i \in DOMAIN b.phases
    BY <1>13 DEF Settle, Active, Having
  <2>2. [b.phases EXCEPT ![i] = phase] \in Seq(Phases)
    BY <1>2, <2>1 DEF Phases
  <2>3. [Bump(b) EXCEPT !.phases[i] = phase, !.asking = @ /\ b.phases[i] # "running"] \in RowType
    BY <1>2, <1>3, <2>2 DEF RowType
  <2> QED BY <1>13, <2>3 DEF Settle
<1>14. CASE ClearQueued(s)
  <2> DEFINE f == [i \in DOMAIN b.phases |-> IF b.phases[i] = "queued" THEN "cancelled" ELSE b.phases[i]]
  <2>1. f \in Seq(Phases)
    BY <1>2 DEF Phases
  <2> HIDE DEF f
  <2>2. [Bump(b) EXCEPT !.phases = f] \in RowType
    BY <1>3, <2>1 DEF RowType
  <2>3. Write(s, [Bump(b) EXCEPT !.phases = f])
    BY <1>3, <1>14 DEF ClearQueued, f
  <2> QED BY <2>2, <2>3
<1>15. ASSUME NEW i \in 1..MaxExecutions, Retry(s, i) PROVE \E row \in RowType : Write(s, row)
  <2>1. i \in DOMAIN b.phases
    BY <1>15 DEF Retry
  <2>2. [b EXCEPT !.phases[i] = "queued"] \in RowType
    BY <1>0, <1>4, <2>1 DEF Phases
  <2> QED BY <1>15, <2>2 DEF Retry
<1>16. CASE Interact(s)
  <2>1. [b EXCEPT !.asking = ~@] \in RowType
    BY <1>0 DEF RowType
  <2> QED BY <1>16, <2>1 DEF Interact
<1>17. CASE Withdraw(s)
  <2>1. b.messages - 1 \in Nat
    BY <1>2, <1>17 DEF Withdraw
  <2>2. [Bump(b) EXCEPT !.messages = @ - 1] \in RowType
    BY <1>3, <2>1 DEF RowType
  <2> QED BY <1>17, <2>2 DEF Withdraw
<1> QED
  BY <1>5, <1>6, <1>7, <1>8, <1>9, <1>10, <1>11, <1>12, <1>13, <1>14, <1>15, <1>16, <1>17
     DEF Command

\* The rows of the sessions keep their type under every command, for every number
\* of workspaces, sessions and executions.
THEOREM ListsTyped == ListsSpec => []ListsTypeOK
<1>1. ListsInit => ListsTypeOK
  BY DEF ListsInit, ListsTypeOK, NoRow, RowType
<1>2. ASSUME ListsTypeOK, ListsNext PROVE ListsTypeOK'
  <2>1. PICK s \in Sessions : \E row \in RowType : Write(s, row)
    BY <1>2, RowTyped DEF ListsNext
  <2> QED BY <1>2, <2>1 DEF Write, ListsTypeOK
<1>3. ListsTypeOK /\ [ListsNext]_rows => ListsTypeOK'
  BY <1>2 DEF ListsTypeOK
<1> QED BY <1>1, <1>3, PTL DEF ListsSpec
=============================================================================
