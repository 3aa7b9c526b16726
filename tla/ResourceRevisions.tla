------------------------- MODULE ResourceRevisions -------------------------
(***************************************************************************)
(* Conditional reads of the HTTP server.  One logical clock per server     *)
(* issues a token per resource key; a client sends the token of the body   *)
(* it keeps and is told that the body still holds if the token is still    *)
(* the key's.  The clock learns of committed kernel changes from one       *)
(* shared watch, which every request drains first, and of other changes    *)
(* (runtime signals, workspaces) from a call after the mutation, which the *)
(* REST handlers make and the JSON-RPC transports do not.  It remembers a  *)
(* bounded number of keys.  A live subscriber hears of a change on a watch *)
(* of its own and is sent the tokens it makes current.                     *)
(***************************************************************************)
EXTENDS Naturals, FiniteSets

CONSTANTS Keys,        \* resource keys
          Derived,     \* keys a kernel change stamps only if they are remembered
          Clients,     \* HTTP clients, one request each at a time
          Capacity,    \* keys the clock remembers (8192)
          Jumps,       \* how far one tick may move the clock
          Skew,        \* between the two readings of the wall clock in Clock::new
          MaxRevision, \* bound: above it no request makes the clock forget its keys
          MaxChanges,  \* bound on committed changes
          MaxLags      \* bound on times the shared watch falls behind

Live == "live"
Actors == Clients \cup {Live}
Ids == 1..MaxChanges

ASSUME RevisionsAssumption ==
  /\ Derived \subseteq Keys /\ Live \notin Clients /\ "none" \notin Actors
  /\ Capacity \in Nat \ {0} /\ Jumps \subseteq Nat \ {0} /\ Skew \in Nat
  /\ MaxRevision \in Nat /\ MaxChanges \in Nat /\ MaxLags \in Nat

VARIABLES
  committed,  \* number of committed changes; a body read now holds them all
  kind,       \* kind[i]: how change i reaches the clock
  hits,       \* hits[i]: the keys whose bodies change i alters
  announced,  \* changes the feed or a call has made known
  notice,     \* notice[i]: what the feed sent for i, "change" or "reset"
  index,      \* index[i]: its place in the feed
  published,  \* notices the feed has sent
  head,       \* the feed's committed head
  watch,      \* the shared watch: none, open or lost
  drained,    \* notices it has taken
  lags,       \* times it fell behind
  holder,     \* who holds the shared watch's mutex
  step,       \* what the holder does next
  fresh,      \* the head of the watch it has just opened
  position,   \* Clock.position
  revision,   \* Clock.revision
  reset,      \* Clock.reset_revision
  local,      \* Clock.local; 0 is absent
  busy,       \* the change being stamped under the clock's lock, or 0
  todo,       \* the keys it has yet to stamp
  pc,         \* where a request is
  key,        \* the key it asks for
  need,       \* the changes of that key announced when it began
  unheard,    \* those that were answered and are never announced
  token,      \* the token it captured
  cache,      \* cache[c][k]: the token and the body a client keeps
  told        \* the last token a live subscriber was sent, with its change

changeVars == <<committed, kind, hits, announced, notice, index, published, head>>
watchVars == <<watch, drained, lags, holder, step, fresh>>
clockVars == <<position, revision, reset, local, busy, todo>>
requestVars == <<pc, key, need, unheard, token, cache, told>>
vars == <<changeVars, watchVars, clockVars, requestVars>>

Nothing == [token |-> 0, body |-> 0]

Init ==
  /\ committed = 0 /\ kind = [i \in Ids |-> "none"] /\ hits = [i \in Ids |-> {}] /\ announced = {}
  /\ notice = [i \in Ids |-> "none"] /\ index = [i \in Ids |-> 0] /\ published = 0 /\ head = 0
  /\ watch = "none" /\ drained = 0 /\ lags = 0 /\ holder = "none" /\ step = "drain" /\ fresh = 0
  /\ position = 0 /\ revision = 1 /\ reset = 1 + Skew /\ local = [k \in Keys |-> 0]
  /\ busy = 0 /\ todo = {}
  /\ pc = [a \in Actors |-> "idle"] /\ key = [a \in Actors |-> "none"]
  /\ need = [a \in Actors |-> {}] /\ unheard = [a \in Actors |-> {}] /\ token = [a \in Actors |-> 0]
  /\ cache = [c \in Clients |-> [k \in Keys |-> Nothing]]
  /\ told = [key |-> "none", token |-> 0, id |-> 0]

-----------------------------------------------------------------------------
(* The clock.                                                              *)

Larger(a, b) == IF a > b THEN a ELSE b
Remembered == {k \in Keys : local[k] # 0}

\* The revision of a key: a forgotten key has that of the last reset.
Rev(k) == Larger(local[k], reset)

\* A new key meets a full memory.
Full(k) == local[k] = 0 /\ Cardinality(Remembered) = Capacity

\* Mutant: forgetting a key does not move the reset revision.
ForgetQuietly(k, r) ==
  /\ revision' = revision /\ reset' = reset
  /\ local' = [x \in Keys |-> IF x = k THEN r ELSE 0]

\* All keys are forgotten and none regains an earlier token.
Forget(k, r) ==
  \E j \in Jumps :
    /\ revision' = revision + j /\ reset' = revision + j
    /\ local' = [x \in Keys |-> IF x = k THEN Larger(r, revision + j) ELSE 0]

\* Clock::set.
Set(k, r) ==
  IF Full(k) THEN Forget(k, r)
  ELSE /\ local' = [local EXCEPT ![k] = Larger(r, reset)]
       /\ UNCHANGED <<revision, reset>>

\* Mutant: the reset revision is the current one.
ResetClockInPlace(at) ==
  /\ revision' = revision /\ reset' = revision
  /\ position' = at /\ local' = [k \in Keys |-> 0]

\* Clock::reset.
ResetClock(at) ==
  \E j \in Jumps : /\ revision' = revision + j /\ reset' = revision + j
                   /\ position' = at /\ local' = [k \in Keys |-> 0]

\* The lock is taken to stamp the keys S with a new revision for change i.
Stamp(i, S) == /\ busy' = i /\ todo' = S /\ \E j \in Jumps : revision' = revision + j

\* One key of a change is stamped; the lock goes with the last.  The revision
\* taken when the lock was is still the clock's, or the reset's after Forget.
StampKey(k) ==
  /\ busy # 0 /\ k \in todo
  /\ Set(k, revision)
  /\ todo' = todo \ {k}
  /\ UNCHANGED <<changeVars, watchVars, requestVars, position, busy>>

Unlock == /\ busy # 0 /\ todo = {} /\ busy' = 0
          /\ UNCHANGED <<changeVars, watchVars, requestVars, position, revision, reset, local, todo>>

-----------------------------------------------------------------------------
(* Changes.                                                                *)

Kinds == {"kernel", "shared", "direct", "silent"}

\* A mutation commits.  "kernel" is a change the feed publishes with its keys,
\* "shared" what a batch changes in other branches, for which the feed is only
\* invalidated, "direct" a signal or a REST change of a workspace, "silent" a
\* workspace command of the JSON-RPC transports, whose answer is all that is
\* heard of it.
Commit(how, S) ==
  /\ committed < MaxChanges /\ S # {} /\ committed' = committed + 1
  /\ kind' = [kind EXCEPT ![committed + 1] = how]
  /\ hits' = [hits EXCEPT ![committed + 1] = S]
  /\ UNCHANGED <<announced, notice, index, published, head, watchVars, clockVars, requestVars>>

\* The feed publishes in commit order; without room it sends a reset instead.
Publish(i, what) ==
  /\ i <= committed /\ kind[i] \in {"kernel", "shared"} /\ index[i] = 0
  /\ \A j \in Ids : j < i /\ kind[j] \in {"kernel", "shared"} => index[j] # 0
  /\ kind[i] = "shared" => what = "reset"
  /\ published' = published + 1
  /\ index' = [index EXCEPT ![i] = published + 1]
  /\ notice' = [notice EXCEPT ![i] = what]
  /\ head' = IF kind[i] = "kernel" THEN published + 1 ELSE head
  /\ announced' = announced \cup {i}
  /\ UNCHANGED <<committed, kind, hits, watchVars, clockVars, requestVars>>

\* observe_signal, observe_workspace_change: the call after the mutation.
Observe(i) ==
  /\ busy = 0 /\ i <= committed /\ kind[i] = "direct" /\ i \notin announced
  /\ Stamp(i, hits[i])
  /\ announced' = announced \cup {i}
  /\ UNCHANGED <<committed, kind, hits, notice, index, published, head, watchVars, requestVars,
                 position, reset, local>>

\* The shared watch overflows.
Lag ==
  /\ watch = "open" /\ drained < published /\ lags < MaxLags
  /\ watch' = "lost" /\ lags' = lags + 1
  /\ UNCHANGED <<changeVars, drained, holder, step, fresh, clockVars, requestVars>>

-----------------------------------------------------------------------------
(* refresh_durable: the holder of the mutex brings the clock up to date.    *)

Acquire(a) ==
  /\ holder = "none" /\ pc[a] = "refresh" /\ holder' = a /\ step' = "drain"
  /\ UNCHANGED <<changeVars, watch, drained, lags, fresh, clockVars, requestVars>>

\* The mutex is released and the request goes on to take its token.
Release ==
  /\ holder' = "none" /\ pc' = [pc EXCEPT ![holder] = "token"]
  /\ UNCHANGED <<key, need, unheard, token, cache, told>>

\* A watch is opened at the head, for the first time or after a reset.
Open(why) ==
  /\ holder # "none" /\ step = "drain" /\ busy = 0
  /\ watch' = "open" /\ drained' = published /\ step' = why
  /\ fresh' = IF why = "drain" THEN 0 ELSE head
  /\ UNCHANGED <<changeVars, lags, holder, clockVars, requestVars>>

Lost == \/ watch = "lost"
        \/ watch = "open" /\ \E i \in Ids : index[i] = drained + 1 /\ notice[i] = "reset"

OpenFirst == watch = "none" /\ Open(IF head # 0 \/ position # 0 THEN "first" ELSE "drain")
Reopen == Lost /\ Open("again")

\* The clock is reset to the new watch's head; after a reset the loop ends.
Reset ==
  /\ holder # "none" /\ step \in {"first", "again"} /\ busy = 0
  /\ ResetClock(fresh) /\ step' = "drain" /\ fresh' = 0
  /\ IF step = "again" THEN Release ELSE UNCHANGED <<holder, requestVars>>
  /\ UNCHANGED <<changeVars, watch, drained, lags, busy, todo>>

\* observe_kernel_change of the next notice.
Drain(i) ==
  /\ holder # "none" /\ step = "drain" /\ busy = 0 /\ watch = "open"
  /\ index[i] = drained + 1 /\ notice[i] = "change"
  /\ drained' = drained + 1
  /\ IF position >= index[i] THEN UNCHANGED clockVars
     ELSE /\ position' = index[i]
          /\ Stamp(i, {k \in hits[i] : k \notin Derived \/ local[k] # 0})
          /\ UNCHANGED <<reset, local>>
  /\ UNCHANGED <<changeVars, watch, lags, holder, step, fresh, requestVars>>

Drained ==
  /\ holder # "none" /\ step = "drain" /\ busy = 0 /\ watch = "open" /\ drained = published
  /\ Release
  /\ UNCHANGED <<changeVars, watch, drained, lags, step, fresh, clockVars>>

-----------------------------------------------------------------------------
(* Requests.                                                               *)

Bounded(k) == \/ revision < MaxRevision
              \/ ~Full(k) /\ \A a \in Actors : pc[a] \in {"idle", "kept"}

Begin(c, k) ==
  /\ pc[c] \in {"idle", "kept"} /\ Bounded(k)
  /\ pc' = [pc EXCEPT ![c] = "refresh"] /\ key' = [key EXCEPT ![c] = k]
  /\ need' = [need EXCEPT ![c] = {i \in announced : k \in hits[i]}]
  /\ unheard' = [unheard EXCEPT ![c] = {i \in 1..committed : kind[i] = "silent" /\ k \in hits[i]}]
  /\ UNCHANGED <<token, cache, told, changeVars, watchVars, clockVars>>

\* ResourceRevisions::token, which remembers the key.
Issue(k) == /\ busy = 0 /\ Set(k, Rev(k))
            /\ UNCHANGED <<position, busy, todo>>

\* The token is captured before the body is read; if the client's is the same
\* it keeps its body.
TakeToken(c) ==
  /\ pc[c] = "token" /\ Issue(key[c])
  /\ LET t == local'[key[c]]
         same == t = cache[c][key[c]].token
     IN /\ token' = [token EXCEPT ![c] = IF same THEN 0 ELSE t]
        /\ pc' = [pc EXCEPT ![c] = IF same THEN "kept" ELSE "body"]
  /\ UNCHANGED <<key, need, unheard, cache, told, changeVars, watchVars>>

\* A request or a message to a subscriber is complete.
Finish(a) ==
  /\ pc' = [pc EXCEPT ![a] = "idle"] /\ key' = [key EXCEPT ![a] = "none"]
  /\ need' = [need EXCEPT ![a] = {}] /\ unheard' = [unheard EXCEPT ![a] = {}]
  /\ token' = [token EXCEPT ![a] = 0]

ReadBody(c) ==
  /\ pc[c] = "body" /\ Finish(c)
  /\ cache' = [cache EXCEPT ![c] = [@ EXCEPT ![key[c]] = [token |-> token[c], body |-> committed]]]
  /\ UNCHANGED <<told, changeVars, watchVars, clockVars>>

\* Mutant: the subscriber is sent the clock's token without a refresh.
HearUnrefreshed(i, k) ==
  /\ pc[Live] = "idle" /\ notice[i] = "change" /\ k \in hits[i] /\ Bounded(k)
  /\ pc' = [pc EXCEPT ![Live] = "token"] /\ key' = [key EXCEPT ![Live] = k]
  /\ need' = [need EXCEPT ![Live] = {i}]
  /\ UNCHANGED <<unheard, token, cache, told, changeVars, watchVars, clockVars>>

\* A live subscriber hears of a change on its own watch, which may leave out
\* earlier ones, and refreshes the clock from the shared one.
Hear(i, k) ==
  /\ pc[Live] = "idle" /\ notice[i] = "change" /\ k \in hits[i] /\ Bounded(k)
  /\ pc' = [pc EXCEPT ![Live] = "refresh"] /\ key' = [key EXCEPT ![Live] = k]
  /\ need' = [need EXCEPT ![Live] = {i}]
  /\ UNCHANGED <<unheard, token, cache, told, changeVars, watchVars, clockVars>>

\* live_tokens: it is sent the key's token with the change.
Tell ==
  /\ pc[Live] = "token" /\ Issue(key[Live])
  /\ \E i \in need[Live] : told' = [key |-> key[Live], token |-> local'[key[Live]], id |-> i]
  /\ Finish(Live)
  /\ UNCHANGED <<cache, changeVars, watchVars>>

-----------------------------------------------------------------------------
Change == \/ \E how \in Kinds, S \in SUBSET Keys : Commit(how, S)
          \/ \E i \in Ids, what \in {"change", "reset"} : Publish(i, what)
          \/ \E i \in Ids : Observe(i)
          \/ Lag

Refresh == \/ \E a \in Actors : Acquire(a)
           \/ OpenFirst
           \/ Reopen
           \/ Reset
           \/ \E i \in Ids : Drain(i)
           \/ Drained
           \/ \E k \in Keys : StampKey(k)
           \/ Unlock

Request == \/ \E c \in Clients, k \in Keys : Begin(c, k)
           \/ \E c \in Clients : TakeToken(c)
           \/ \E c \in Clients : ReadBody(c)
           \/ \E i \in Ids, k \in Keys : Hear(i, k)
           \/ Tell

Next == Change \/ Refresh \/ Request

Spec == Init /\ [][Next]_vars

-----------------------------------------------------------------------------
TypeOK ==
  /\ committed \in 0..MaxChanges /\ kind \in [Ids -> Kinds \cup {"none"}]
  /\ hits \in [Ids -> SUBSET Keys] /\ announced \subseteq 1..committed
  /\ notice \in [Ids -> {"none", "change", "reset"}] /\ index \in [Ids -> 0..published]
  /\ published \in 0..MaxChanges /\ head \in 0..published
  /\ watch \in {"none", "open", "lost"} /\ drained \in 0..published /\ lags \in 0..MaxLags
  /\ holder \in Actors \cup {"none"} /\ step \in {"drain", "first", "again"}
  /\ fresh \in 0..published /\ position \in 0..published
  /\ revision \in Nat /\ reset \in Nat /\ local \in [Keys -> Nat]
  /\ Cardinality(Remembered) <= Capacity
  /\ busy \in 0..committed /\ todo \subseteq Keys
  /\ pc \in [Actors -> {"idle", "refresh", "token", "body", "kept"}]
  /\ key \in [Actors -> Keys \cup {"none"}] /\ need \in [Actors -> SUBSET announced]
  /\ unheard \in [Actors -> SUBSET (1..committed)] /\ token \in [Actors -> Nat]
  /\ cache \in [Clients -> [Keys -> [token : Nat, body : 0..committed]]]
  /\ told \in [key : Keys \cup {"none"}, token : Nat, id : 0..committed]

\* A client that is told its body still holds (ConditionalRead::not_modified) has
\* a body with every change of that resource that the feed had published, or a
\* signal or a REST handler had reported, when the request began, whatever was
\* published, lagged behind, reset or forgotten meanwhile and whatever other
\* changes never reach the clock.  Nothing is claimed of the workspace commands
\* of the JSON-RPC transports: NotModifiedAnswered is about those.
NotModifiedExact ==
  \A c \in Clients : pc[c] = "kept" => need[c] \subseteq 1..cache[c][key[c]].body

\* Every commit invalidates the resources it changes (docs, Resource revision /
\* ETag): a client that is told its body still holds has a body with every change
\* of that resource that had been announced or answered when the request began.
NotModifiedAnswered ==
  \A c \in Clients : pc[c] = "kept" => need[c] \cup unheard[c] \subseteq 1..cache[c][key[c]].body

\* A body that a client keeps, or comes to keep, under a token that a live
\* subscriber was sent with a change contains that change, although the
\* subscriber's watch leaves out the changes of other sessions.
ToldFresh ==
  told.token # 0 =>
    \A c \in Clients : cache[c][told.key].token = told.token => told.id <= cache[c][told.key].body

\* When the clock forgets a key, in a reset or for want of memory, no token of
\* that key that a client keeps or was issued can be the key's token again.
ResetInvalidates ==
  [][\A k \in Keys : local[k] # 0 /\ local'[k] = 0 =>
        \A c \in Clients : /\ cache[c][k].token < reset'
                           /\ key[c] = k => token[c] < reset']_vars
=============================================================================
