-------------------------- MODULE ChangeFeedProofs --------------------------
(* Proofs about the change feed, for every number of sessions, clients,    *)
(* commits and processes and every capacity.                               *)
EXTENDS ChangeFeed, SequenceTheorems, TLAPS

LEMMA BatchFacts ==
    ASSUME TypeOK, NEW b \in Batches
    PROVE  /\ b \in Seq(Change)
           /\ log \o b \in Seq(Change)
           /\ Len(log \o b) = Len(log) + Len(b)
           /\ \A p \in 1 .. Len(log) : (log \o b)[p] = log[p]
           /\ \A p \in Len(log) + 1 .. Len(log \o b) :
                 p - Len(log) \in DOMAIN b /\ (log \o b)[p] = b[p - Len(log)]
<1>1. b \in Seq(Change)
  BY FeedAssumption DEF Batches
<1>2. log \in Seq(Change)
  BY DEF TypeOK
<1>3. log \o b \in Seq(Change) /\ Len(log \o b) = Len(log) + Len(b)
  BY <1>1, <1>2, ConcatProperties
<1>4. QED
  BY <1>1, <1>2, <1>3, ConcatProperties

LEMMA EffectTypes ==
    ASSUME TypeOK, NEW scope
    PROVE  Effects(scope) \subseteq Nat \X Sessions
  BY DEF Effects

LEMMA WatchTypes ==
    ASSUME TypeOK, NEW c \in Clients, NEW after \in [epoch : Nat, pos : Nat],
           Watch(c, after)
    PROVE  TypeOK'
<1>1. cursor' \in [Clients -> [epoch : Nat, pos : Nat]]
  BY DEF ReplayTail, Watch, TypeOK, NoCursor
<1>2. /\ replayQ' \in [Clients -> SUBSET (Nat \ {0})]
      /\ next' \in [Clients -> Nat \ {0}]
  <2>1. {p \in replay : p > after.pos /\ InScope(ScopeOf[c], log[p].session)}
          \in SUBSET (Nat \ {0})
    BY DEF TypeOK
  <2>2. Len(sent) + 1 \in Nat \ {0}
    BY DEF TypeOK
  <2>3. QED
    BY <2>1, <2>2 DEF ReplayTail, Watch, TypeOK
<1>3. open' \subseteq Clients /\ fresh' \subseteq Clients /\ lagged' \subseteq Clients
  BY DEF ReplayTail, Watch, TypeOK
<1>4. UNCHANGED <<writerVars, feedVars, applied>>
  BY DEF Watch
<1>5. QED
  BY <1>1, <1>2, <1>3, <1>4 DEF TypeOK, writerVars, feedVars

LEMMA DeliverTypes ==
    ASSUME TypeOK, NEW c \in Clients, NEW p \in 1 .. Len(log), Deliver(c, p)
    PROVE  /\ applied' \in [Clients -> SUBSET (Nat \X Sessions)]
           /\ cursor' \in [Clients -> [epoch : Nat, pos : Nat]]
  BY DEF Deliver, TypeOK, Change

LEMMA TypeInit == Init => TypeOK
  BY DEF Init, TypeOK, NoCursor

LEMMA TypeStep == IInv /\ [Next]_vars => TypeOK'
<1> SUFFICES ASSUME IInv, [Next]_vars PROVE TypeOK'
  OBVIOUS
<1>0. TypeOK
  BY DEF IInv
<1>1. ASSUME NEW b \in Batches, CommitBatch(b) PROVE TypeOK'
  <2>1. log' \in Seq(Change) /\ pub' \in 0 .. Len(log') /\ base' \in 0 .. pub'
    BY <1>0, <1>1, BatchFacts DEF CommitBatch, TypeOK
  <2>2. QED
    BY <1>0, <1>1, <2>1 DEF CommitBatch, TypeOK, feedVars, watchVars
<1>2. ASSUME NEW b \in Batches, CommitUnknown(b) PROVE TypeOK'
  <2>1. log' \in Seq(Change) /\ pub' \in 0 .. Len(log') /\ base' \in 0 .. pub'
    <3>1. log' = log \/ log' = log \o b
      BY <1>2 DEF CommitUnknown
    <3>2. UNCHANGED <<pub, base>>
      BY <1>2 DEF CommitUnknown
    <3>3. CASE log' = log
      BY <1>0, <3>2, <3>3 DEF TypeOK
    <3>4. CASE log' = log \o b
      <4>1. Len(log') >= Len(log)
        BY <1>0, <3>4, BatchFacts DEF TypeOK
      <4>2. QED
        BY <1>0, <3>2, <3>4, <4>1, BatchFacts DEF TypeOK
    <3>5. QED
      BY <3>1, <3>3, <3>4
  <2>2. QED
    BY <1>0, <1>2, <2>1 DEF CommitUnknown, TypeOK, feedVars, watchVars
<1>3. CASE PublishChange
  <2>1. pub' \in 0 .. Len(log') /\ base' \in 0 .. pub'
    BY <1>0, <1>3 DEF PublishChange, TypeOK
  <2>2. floor' \in Nat /\ replay' \in SUBSET (Nat \ {0})
    <3> DEFINE ring == replay \cup {pub + 1}
    <3>1. ring \in SUBSET (Nat \ {0})
      BY <1>0 DEF TypeOK
    <3>2. \/ replay' = ring /\ floor' = floor
          \/ \E old \in Oldest(ring) : floor' = old /\ replay' = ring \ {old}
      BY <1>3 DEF PublishChange
    <3>3. Oldest(ring) \subseteq ring
      BY DEF Oldest
    <3> HIDE DEF ring
    <3>4. QED
      BY <1>0, <3>1, <3>2, <3>3 DEF TypeOK
  <2>4. head' \in Nat /\ sent' \in Seq(Nat)
    BY <1>0, <1>3 DEF PublishChange, TypeOK
  <2>3. QED
    BY <1>0, <1>3, <2>1, <2>2, <2>4 DEF PublishChange, TypeOK, watchVars
<1>4. CASE PublishOverBudget
  BY <1>0, <1>4 DEF PublishOverBudget, TypeOK, watchVars, Reset
<1>5. CASE Invalidate
  BY <1>0, <1>5 DEF Invalidate, TypeOK, watchVars, Reset
<1>6. CASE Close
  BY <1>0, <1>6 DEF Close, TypeOK, watchVars, writerVars
<1>7. CASE Restart
  BY <1>0, <1>7 DEF Restart, TypeOK, KeptCursor, NoCursor
<1>8. ASSUME NEW c \in Clients, Resume(c) \/ Subscribe(c) PROVE TypeOK'
  BY <1>0, <1>8, WatchTypes DEF Resume, Subscribe, TypeOK, NoCursor
<1>9. ASSUME NEW c \in Clients, ReadSnapshot(c) PROVE TypeOK'
  BY <1>0, <1>9, EffectTypes DEF ReadSnapshot, TypeOK, writerVars, feedVars
<1>10. ASSUME NEW c \in Clients, RecvReplay(c) PROVE TypeOK'
  <2>1. PICK p \in Oldest(replayQ[c]) :
             Deliver(c, p) /\ replayQ' = [replayQ EXCEPT ![c] = @ \ {p}]
    BY <1>10 DEF RecvReplay
  <2>2. p \in 1 .. Len(log)
    BY <1>0, <1>10 DEF IInv, WatchInv, RingInv, TypeOK, RecvReplay, Oldest
  <2>3. QED
    BY <1>0, <1>10, <2>1, <2>2, DeliverTypes
    DEF RecvReplay, TypeOK, writerVars, feedVars
<1>11. ASSUME NEW c \in Clients, RecvChange(c) PROVE TypeOK'
  <2>1. sent[next[c]] \in 1 .. Len(log)
    BY <1>0, <1>11 DEF IInv, ChannelInv, TypeOK, RecvChange, Receiving
  <2>2. next' \in [Clients -> Nat \ {0}]
    BY <1>0, <1>11 DEF TypeOK, RecvChange
  <2>3. QED
    BY <1>0, <1>11, <2>1, <2>2, DeliverTypes
    DEF RecvChange, TypeOK, writerVars, feedVars
<1>12. ASSUME NEW c \in Clients, SkipChange(c) PROVE TypeOK'
  BY <1>0, <1>12 DEF SkipChange, TypeOK, writerVars, feedVars
<1>13. ASSUME NEW c \in Clients, RecvReset(c) PROVE TypeOK'
  BY <1>0, <1>13 DEF RecvReset, TypeOK, writerVars, feedVars
<1>14. ASSUME NEW c \in Clients, Disconnect(c) PROVE TypeOK'
  BY <1>0, <1>14 DEF Disconnect, TypeOK, writerVars, feedVars, KeptCursor, NoCursor
<1>15. CASE UNCHANGED vars
  BY <1>0, <1>15 DEF vars, TypeOK, writerVars, feedVars, watchVars
<1>16. QED
  BY <1>1, <1>2, <1>3, <1>4, <1>5, <1>6, <1>7, <1>8, <1>9, <1>10, <1>11,
     <1>12, <1>13, <1>14, <1>15 DEF Next

-----------------------------------------------------------------------------
(* The parts of the invariant that speak of the feed alone. *)

\* Every step of a client leaves the writer and the feed alone.
ClientStep(c) ==
    \/ Resume(c) \/ Subscribe(c) \/ ReadSnapshot(c) \/ RecvReplay(c)
    \/ RecvChange(c) \/ SkipChange(c) \/ RecvReset(c) \/ Disconnect(c)

LEMMA ClientFrame ==
    ASSUME NEW c \in Clients, ClientStep(c)
    PROVE  UNCHANGED <<writerVars, feedVars>>
  BY DEF ClientStep, Resume, Subscribe, Watch, ReadSnapshot, RecvReplay,
         RecvChange, SkipChange, RecvReset, Disconnect

FeedInv == RingInv /\ FamilyInv /\ ChannelInv

LEMMA FeedFrame ==
    ASSUME FeedInv, UNCHANGED <<writerVars, feedVars>>
    PROVE  FeedInv'
  BY DEF FeedInv, RingInv, FamilyInv, ChannelInv, writerVars, feedVars

LEMMA CommitFeed ==
    ASSUME IInv, NEW b \in Batches, CommitBatch(b) \/ CommitUnknown(b)
    PROVE  FeedInv'
<1>0. TypeOK
  BY DEF IInv
<1>1. log' = log \/ log' = log \o b
  BY DEF CommitBatch, CommitUnknown
<1>2. UNCHANGED <<pub, base, feedVars>> /\ reset = "none" /\ pub = Len(log)
  BY DEF CommitBatch, CommitUnknown, WriterIdle, Published
<1>3. RingInv'
  BY <1>2 DEF IInv, RingInv, feedVars
<1>4. ChannelInv'
  BY <1>2 DEF IInv, ChannelInv, feedVars
<1>5. FamilyInv'
  <2> SUFFICES ASSUME NEW p \in base + 1 .. Len(log'), log'[p].also # {}
               PROVE  \/ reset' = "due"
                      \/ p <= pub /\ p <= resetFloor
                      \/ p > pub /\ writer' = "fatal"
    BY <1>2 DEF FamilyInv, feedVars
  <2>1. CASE p <= Len(log)
    <3>1. p \in base + 1 .. Len(log) /\ log'[p] = log[p]
      BY <1>0, <1>1, <2>1, BatchFacts DEF TypeOK
    <3>2. QED
      BY <1>0, <1>2, <2>1, <3>1 DEF IInv, FamilyInv, TypeOK
  <2>2. CASE p > Len(log)
    <3>1. log' = log \o b /\ p - Len(log) \in DOMAIN b /\ log'[p] = b[p - Len(log)]
      <4>1. log' # log
        BY <1>0, <2>2 DEF TypeOK
      <4>2. log' = log \o b
        BY <1>1, <4>1
      <4>3. p \in Len(log) + 1 .. Len(log \o b)
        BY <1>0, <2>2, <4>2, BatchFacts DEF TypeOK
      <4>4. QED
        BY <1>0, <4>2, <4>3, BatchFacts
    <3>2. CASE CommitBatch(b)
      BY <3>1, <3>2 DEF CommitBatch, SharesFamily
    <3>3. CASE CommitUnknown(b)
      BY <1>0, <1>2, <2>2, <3>3 DEF CommitUnknown, TypeOK
    <3>4. QED
      BY <3>2, <3>3
  <2>3. QED
    BY <1>0, <1>2, <2>1, <2>2 DEF TypeOK
<1>6. QED
  BY <1>3, <1>4, <1>5 DEF FeedInv

LEMMA PublishFeed ==
    ASSUME IInv, PublishChange \/ PublishOverBudget
    PROVE  FeedInv'
<1>0. TypeOK /\ RingInv /\ FamilyInv /\ ChannelInv
  BY DEF IInv
<1>1. /\ pub' = pub + 1 /\ head' = pub + 1 /\ pub + 1 \in 1 .. Len(log)
      /\ writer = "serving"
      /\ UNCHANGED <<log, base, reset, writer, sender>>
  BY <1>0 DEF PublishChange, PublishOverBudget, TypeOK
<1>2. /\ resetFloor' \in {resetFloor, pub + 1}
      /\ resetFloor \in Nat /\ resetFloor <= pub
  BY <1>0 DEF PublishChange, PublishOverBudget, TypeOK, RingInv
<1>3. RingInv'
  <2>1. CASE PublishOverBudget
    BY <1>0, <1>1, <2>1 DEF PublishOverBudget, RingInv, TypeOK
  <2>2. CASE PublishChange
    <3> DEFINE ring == replay \cup {pub + 1}
    <3>1. ring \subseteq {p \in base + 1 .. pub' : p > floor}
      BY <1>0, <1>1 DEF RingInv, TypeOK
    <3>2. sender = "some" => \A p \in base + 1 .. pub' : p > floor => p \in ring
      BY <1>0, <1>1 DEF RingInv, TypeOK
    <3>3. \/ replay' = ring /\ floor' = floor
          \/ \E old \in Oldest(ring) : floor' = old /\ replay' = ring \ {old}
      BY <2>2 DEF PublishChange
    <3>4. head' = pub' /\ base < pub' /\ resetFloor' <= head'
      BY <1>0, <1>1, <1>2 DEF TypeOK
    <3>5. floor \in Nat /\ floor <= pub'
      BY <1>0, <1>1 DEF TypeOK, RingInv
    <3> HIDE DEF ring
    <3>6. CASE replay' = ring /\ floor' = floor
      BY <1>1, <3>1, <3>2, <3>4, <3>5, <3>6 DEF RingInv
    <3>7. ASSUME NEW old \in Oldest(ring), floor' = old, replay' = ring \ {old}
          PROVE  RingInv'
      <4>1. old \in ring /\ \A q \in ring : old <= q
        BY DEF Oldest
      <4>2. old \in base + 1 .. pub' /\ old > floor
        BY <3>1, <4>1
      <4>3. replay' \subseteq {p \in base + 1 .. pub' : p > old}
        BY <1>0, <1>1, <3>1, <3>7, <4>1, <4>2 DEF TypeOK
      <4>4. sender = "some" => \A p \in base + 1 .. pub' : p > old => p \in replay'
        BY <1>0, <1>1, <3>2, <3>5, <3>7, <4>2 DEF TypeOK
      <4>5. old <= head'
        BY <1>0, <1>1, <3>4, <4>2 DEF TypeOK
      <4>6. QED
        BY <1>1, <3>4, <3>7, <4>3, <4>4, <4>5 DEF RingInv
    <3>8. QED
      BY <3>3, <3>6, <3>7
  <2>3. QED
    BY <2>1, <2>2
<1>4. FamilyInv'
  BY <1>0, <1>1, <1>2 DEF FamilyInv, TypeOK
<1>5. ChannelInv'
  <2>1. PICK n \in {Reset, pub + 1} : sent' = Append(sent, n)
    BY DEF PublishChange, PublishOverBudget
  <2>2. n = Reset => resetFloor' = pub + 1
    BY <1>0, <2>1 DEF PublishChange, PublishOverBudget, Reset, TypeOK
  <2>3. /\ sent \in Seq(Nat) /\ n \in Nat /\ Len(sent') = Len(sent) + 1
        /\ sent'[Len(sent) + 1] = n
        /\ \A i \in 1 .. Len(sent) : sent'[i] = sent[i]
    BY <1>0, <2>1 DEF TypeOK, Reset
  <2>4. ASSUME NEW i \in 1 .. Len(sent'), sent'[i] # Reset
        PROVE  sent'[i] \in base + 1 .. pub + 1
    BY <1>0, <2>1, <2>3, <2>4 DEF ChannelInv, TypeOK
  <2>5. ASSUME NEW i \in 1 .. Len(sent'), NEW j \in 1 .. Len(sent'), i < j
        PROVE  /\ sent'[i] # Reset /\ sent'[j] # Reset => sent'[i] < sent'[j]
               /\ sent'[j] = Reset => sent'[i] <= resetFloor'
    <3>1. i \in 1 .. Len(sent) /\ sent'[i] = sent[i] /\ sent[i] \in Nat
      BY <2>3, <2>5
    <3>2. sent[i] # Reset => sent[i] <= pub
      BY <1>0, <3>1 DEF ChannelInv, TypeOK
    <3>3. CASE j = Len(sent) + 1
      BY <1>0, <1>2, <2>1, <2>2, <2>3, <3>1, <3>2, <3>3 DEF TypeOK, Reset
    <3>4. CASE j # Len(sent) + 1
      <4>1. j \in 1 .. Len(sent) /\ sent'[j] = sent[j]
        BY <2>3, <3>4
      <4>2. resetFloor <= resetFloor'
        BY <1>0, <1>2 DEF TypeOK
      <4>3. QED
        BY <1>0, <1>2, <2>5, <3>1, <4>1, <4>2 DEF ChannelInv, TypeOK
    <3>5. QED
      BY <3>3, <3>4
  <2>6. QED
    BY <1>1, <2>4, <2>5 DEF ChannelInv
<1>6. QED
  BY <1>3, <1>4, <1>5 DEF FeedInv

LEMMA InvalidateFeed ==
    ASSUME IInv, Invalidate
    PROVE  FeedInv'
<1>0. TypeOK /\ RingInv /\ FamilyInv /\ ChannelInv
  BY DEF IInv
<1>1. /\ UNCHANGED <<log, pub, base, writer, sender, head>>
      /\ resetFloor' = head /\ floor' = head /\ replay' = {} /\ pub = Len(log)
      /\ sent' = Append(sent, Reset)
  BY DEF Invalidate
<1>2. head \in Nat /\ pub \in Nat /\ base \in Nat /\ resetFloor <= head
      /\ resetFloor \in Nat
  BY <1>0 DEF TypeOK, RingInv
<1>3. RingInv'
  BY <1>0, <1>1, <1>2 DEF RingInv
<1>4. FamilyInv'
  BY <1>0, <1>1, <1>2 DEF RingInv, FamilyInv
<1>5. ChannelInv'
  <2>1. /\ sent \in Seq(Nat) /\ Len(sent') = Len(sent) + 1
        /\ sent'[Len(sent) + 1] = Reset
        /\ \A i \in 1 .. Len(sent) : sent'[i] = sent[i]
    BY <1>0, <1>1 DEF TypeOK, Reset
  <2>2. ASSUME NEW i \in 1 .. Len(sent'), sent'[i] # Reset
        PROVE  sent'[i] \in base + 1 .. pub
    BY <1>0, <2>1, <2>2 DEF ChannelInv
  <2>3. ASSUME NEW i \in 1 .. Len(sent'), NEW j \in 1 .. Len(sent'), i < j
        PROVE  /\ sent'[i] # Reset /\ sent'[j] # Reset => sent'[i] < sent'[j]
               /\ sent'[j] = Reset => sent'[i] <= head
    <3>1. i \in 1 .. Len(sent) /\ sent'[i] = sent[i] /\ sent[i] \in Nat
      BY <2>1, <2>3
    <3>2. sent[i] <= head
      BY <1>0, <1>2, <3>1 DEF ChannelInv, RingInv, Reset
    <3>3. CASE j = Len(sent) + 1
      BY <2>1, <3>1, <3>2, <3>3
    <3>4. CASE j # Len(sent) + 1
      <4>1. j \in 1 .. Len(sent) /\ sent'[j] = sent[j]
        BY <2>1, <3>4
      <4>2. QED
        BY <1>0, <2>3, <3>1, <3>2, <4>1 DEF ChannelInv
    <3>5. QED
      BY <3>3, <3>4
  <2>4. QED
    BY <1>1, <2>2, <2>3 DEF ChannelInv
<1>6. QED
  BY <1>3, <1>4, <1>5 DEF FeedInv

LEMMA FeedStep == IInv /\ [Next]_vars => FeedInv'
<1> SUFFICES ASSUME IInv, [Next]_vars PROVE FeedInv'
  OBVIOUS
<1>0. FeedInv
  BY DEF IInv, FeedInv
<1>1. CASE Close
  BY <1>0, <1>1 DEF Close, FeedInv, RingInv, FamilyInv, ChannelInv, writerVars
<1>2. CASE Restart
  <2>1. /\ log' = log /\ Len(log) \in Nat /\ base' = Len(log) /\ pub' = Len(log)
        /\ head' = 0 /\ floor' = 0 /\ resetFloor' = 0 /\ replay' = {}
        /\ sent' = <<>>
    BY <1>2 DEF Restart, IInv, TypeOK
  <2>2. QED
    BY <2>1 DEF FeedInv, RingInv, FamilyInv, ChannelInv
<1>3. ASSUME NEW c \in Clients, ClientStep(c) PROVE FeedInv'
  BY <1>0, <1>3, ClientFrame, FeedFrame
<1>4. CASE UNCHANGED vars
  BY <1>0, <1>4, FeedFrame DEF vars, writerVars, feedVars
<1>5. QED
  BY <1>1, <1>2, <1>3, <1>4, CommitFeed, PublishFeed, InvalidateFeed
  DEF Next, ClientStep

-----------------------------------------------------------------------------
(* The parts of the invariant that speak of one client. *)

ClientInv(c) == WatchInv(c) /\ CursorInv(c) /\ EvidenceInv(c)

\* What one client's watch consists of.
SameWatch(c) ==
    /\ c \in open' <=> c \in open
    /\ c \in fresh' <=> c \in fresh
    /\ c \in lagged' <=> c \in lagged
    /\ replayQ'[c] = replayQ[c] /\ next'[c] = next[c]
    /\ cursor'[c] = cursor[c] /\ applied'[c] = applied[c]

LEMMA EffectFrame ==
    ASSUME NEW scope, log' = log
    PROVE  Effects(scope)' = Effects(scope)
  BY DEF Effects, Touched

LEMMA OtherClient ==
    ASSUME NEW c \in Clients, ClientInv(c), SameWatch(c),
           UNCHANGED <<writerVars, feedVars>>
    PROVE  ClientInv(c)'
<1> USE DEF SameWatch, writerVars, feedVars
<1>1. WatchInv(c)'
  BY DEF ClientInv, WatchInv, Unread
<1>2. CursorInv(c)'
  BY EffectFrame DEF ClientInv, CursorInv
<1>3. EvidenceInv(c)'
  BY EffectFrame DEF ClientInv, EvidenceInv, Unread
<1>4. QED
  BY <1>1, <1>2, <1>3 DEF ClientInv

\* A commit adds only effects that are not published yet.
LEMMA CommitClient ==
    ASSUME IInv, NEW b \in Batches, CommitBatch(b) \/ CommitUnknown(b),
           NEW c \in Clients
    PROVE  ClientInv(c)'
<1>0. TypeOK /\ RingInv /\ ClientInv(c)
  BY DEF IInv, ClientInv
<1>1. /\ log' = log \/ log' = log \o b
      /\ UNCHANGED <<pub, base, epoch, feedVars, watchVars>>
      /\ reset = "none" /\ pub = Len(log)
  BY DEF CommitBatch, CommitUnknown, WriterIdle, Published
<1>2. /\ \A p \in 1 .. Len(log) : log'[p] = log[p]
      /\ Len(log) \in Nat /\ Len(log') \in Nat
  BY <1>0, <1>1, BatchFacts DEF TypeOK
<1>3. ASSUME NEW e \in Effects(ScopeOf[c])'
      PROVE  e[1] > pub \/ (e \in Effects(ScopeOf[c]) /\ log'[e[1]] = log[e[1]])
  BY <1>1, <1>2, <1>3 DEF Effects, Touched
<1>4. WatchInv(c)'
  <2>1. head <= Len(log) /\ head \in Nat /\ base \in Nat
    BY <1>0, <1>1, <1>2 DEF RingInv, TypeOK
  <2>2. c \in open => \A q \in replayQ[c] : log'[q] = log[q]
    <3> SUFFICES ASSUME c \in open, NEW q \in replayQ[c] PROVE log'[q] = log[q]
      OBVIOUS
    <3>1. q \in base + 1 .. head
      BY <1>0 DEF ClientInv, WatchInv
    <3>2. q \in 1 .. Len(log)
      BY <1>2, <2>1, <3>1
    <3>3. QED
      BY <1>2, <3>2
  <2>3. /\ UNCHANGED <<epoch, base, head, sent, resetFloor>>
        /\ UNCHANGED <<open, replayQ, next, cursor>>
    BY <1>1 DEF feedVars, watchVars
  <2>4. Unread(c)' = Unread(c)
    BY <2>3 DEF Unread
  <2>5. QED
    BY <1>0, <2>2, <2>3, <2>4 DEF ClientInv, WatchInv
<1>5. cursor[c].epoch = epoch => cursor[c].pos <= pub
  BY <1>0 DEF ClientInv, WatchInv, RingInv, TypeOK
<1>6. CursorInv(c)'
  <2> SUFFICES ASSUME sender = "some", cursor[c].epoch = epoch, c \notin open \ fresh,
                      NEW e \in Effects(ScopeOf[c])', e[1] <= cursor[c].pos
               PROVE  e \in applied[c] \/ reset' = "due" \/ cursor[c].pos <= resetFloor
    BY <1>1 DEF CursorInv, feedVars, watchVars
  <2>1. cursor[c].pos \in Nat /\ pub \in Nat /\ e[1] \in Nat
    BY <1>0 DEF TypeOK, Effects
  <2>2. e \in Effects(ScopeOf[c])
    BY <1>3, <1>5, <2>1
  <2>3. QED
    BY <1>0, <1>1, <2>2 DEF ClientInv, CursorInv
<1>7. EvidenceInv(c)'
  <2> SUFFICES ASSUME sender = "some", c \in (open \cap fresh) \ lagged,
                      NEW e \in Effects(ScopeOf[c])', ~(e[1] > pub)
               PROVE  \/ e \in applied[c] \/ Reset \in Unread(c)
                      \/ /\ e[2] = log'[e[1]].session
                         /\ e[1] \in replayQ[c] \/ e[1] \in Unread(c)
    BY <1>1 DEF EvidenceInv, feedVars, watchVars, Unread
  <2>1. e \in Effects(ScopeOf[c]) /\ log'[e[1]] = log[e[1]]
    BY <1>3
  <2>2. QED
    BY <1>0, <1>1, <2>1 DEF ClientInv, EvidenceInv
<1>8. QED
  BY <1>4, <1>6, <1>7 DEF ClientInv

\* Publishing and invalidating append one notice.
LEMMA NoticeClient ==
    ASSUME IInv, NEW c \in Clients, NEW n \in Nat, sent' = Append(sent, n),
           next' = next
    PROVE  /\ \A m : m \in Unread(c) => m \in Unread(c)'
           /\ next[c] <= Len(sent) + 1 => n \in Unread(c)'
           /\ \A m : m \in Unread(c)' => m = n \/ m \in Unread(c)
<1>1. /\ sent \in Seq(Nat) /\ next[c] \in Nat /\ Len(sent') = Len(sent) + 1
      /\ sent'[Len(sent) + 1] = n
      /\ \A i \in 1 .. Len(sent) : sent'[i] = sent[i]
      /\ next[c] >= 1 /\ next'[c] = next[c]
  BY DEF IInv, TypeOK
<1>2. ASSUME NEW m, m \in Unread(c) PROVE m \in Unread(c)'
  BY <1>1, <1>2 DEF Unread
<1>3. ASSUME next[c] <= Len(sent) + 1 PROVE n \in Unread(c)'
  BY <1>1, <1>3 DEF Unread
<1>4. ASSUME NEW m, m \in Unread(c)' PROVE m = n \/ m \in Unread(c)
  <2>1. PICK i \in next[c] .. Len(sent) + 1 : sent'[i] = m
    BY <1>1, <1>4 DEF Unread
  <2>2. CASE i = Len(sent) + 1
    BY <1>1, <2>1, <2>2
  <2>3. CASE i # Len(sent) + 1
    BY <1>1, <2>1, <2>3 DEF Unread
  <2>4. QED
    BY <2>2, <2>3
<1>5. QED
  BY <1>2, <1>3, <1>4

LEMMA PublishClient ==
    ASSUME IInv, PublishChange \/ PublishOverBudget, NEW c \in Clients
    PROVE  ClientInv(c)'
<1>0. TypeOK /\ RingInv /\ ChannelInv /\ ClientInv(c)
  BY DEF IInv, ClientInv
<1>1. /\ pub' = pub + 1 /\ head' = pub + 1 /\ pub + 1 \in 1 .. Len(log)
      /\ UNCHANGED <<log, base, epoch, reset, writer, sender, watchVars>>
      /\ resetFloor' \in {resetFloor, pub + 1}
  BY <1>0 DEF PublishChange, PublishOverBudget, TypeOK
<1>2. PICK n \in {Reset, pub + 1} : sent' = Append(sent, n)
  BY DEF PublishChange, PublishOverBudget
<1>3. n = Reset => resetFloor' = pub + 1
  BY <1>0, <1>2 DEF PublishChange, PublishOverBudget, Reset, TypeOK
<1>4. /\ pub \in Nat /\ head \in Nat /\ head <= pub /\ base \in Nat /\ base <= pub
      /\ resetFloor \in Nat /\ resetFloor' \in Nat /\ resetFloor <= resetFloor'
      /\ n \in Nat /\ Len(log) \in Nat
      /\ cursor[c].pos \in Nat /\ cursor[c].epoch \in Nat /\ epoch \in Nat
  BY <1>0, <1>1, <1>2 DEF TypeOK, RingInv, Reset
<1>5. /\ UNCHANGED <<open, fresh, replayQ, next, lagged, cursor, applied>>
  BY <1>1 DEF watchVars
<1>6. WatchInv(c)'
  <2>1. cursor[c].epoch <= epoch
        /\ (cursor[c].epoch = epoch => cursor[c].pos \in base + 1 .. head')
    BY <1>0, <1>1, <1>4 DEF ClientInv, WatchInv
  <2> SUFFICES ASSUME c \in open
               PROVE  /\ next[c] <= Len(sent') + 1
                      /\ replayQ[c] \subseteq base + 1 .. head'
                      /\ cursor[c] = NoCursor \/ cursor[c].epoch = epoch
                      /\ \A q \in replayQ[c] :
                            /\ q > cursor[c].pos
                            /\ InScope(ScopeOf[c], log[q].session)
                            /\ Reset \in Unread(c)' => q <= resetFloor'
                      /\ \A i \in next[c] .. Len(sent') :
                            sent'[i] # Reset => /\ sent'[i] > cursor[c].pos
                                                /\ \A q \in replayQ[c] : sent'[i] > q
    BY <1>1, <1>5, <2>1 DEF WatchInv
  <2>2. /\ next[c] <= Len(sent) + 1
        /\ replayQ[c] \subseteq base + 1 .. head
        /\ cursor[c] = NoCursor \/ cursor[c].epoch = epoch
        /\ \A q \in replayQ[c] : /\ q > cursor[c].pos
                                 /\ InScope(ScopeOf[c], log[q].session)
                                 /\ Reset \in Unread(c) => q <= resetFloor
        /\ \A i \in next[c] .. Len(sent) :
              sent[i] # Reset => /\ sent[i] > cursor[c].pos
                                 /\ \A q \in replayQ[c] : sent[i] > q
    BY <1>0 DEF ClientInv, WatchInv
  <2>3. /\ sent \in Seq(Nat) /\ next[c] \in Nat /\ next[c] >= 1
        /\ Len(sent') = Len(sent) + 1 /\ sent'[Len(sent) + 1] = n
        /\ \A i \in 1 .. Len(sent) : sent'[i] = sent[i]
    BY <1>0, <1>2, <1>4 DEF TypeOK
  <2>4. cursor[c].pos <= pub
    BY <1>4, <2>1, <2>2, <1>0 DEF NoCursor, ClientInv, WatchInv
  <2>5. ASSUME NEW q \in replayQ[c], Reset \in Unread(c)' PROVE q <= resetFloor'
    <3>1. q \in Nat /\ q <= pub
      BY <1>4, <2>2
    <3>2. n = Reset \/ Reset \in Unread(c)
      BY <1>2, <1>4, <1>5, <2>5, NoticeClient
    <3>3. QED
      BY <1>3, <1>4, <2>2, <3>1, <3>2
  <2>6. ASSUME NEW i \in next[c] .. Len(sent'), sent'[i] # Reset
        PROVE  sent'[i] > cursor[c].pos /\ \A q \in replayQ[c] : sent'[i] > q
    <3>1. CASE i = Len(sent) + 1
      <4>1. sent'[i] = pub + 1
        BY <1>2, <2>3, <2>6, <3>1
      <4>2. QED
        BY <1>4, <2>2, <2>4, <4>1
    <3>2. CASE i # Len(sent) + 1
      <4>1. i \in next[c] .. Len(sent) /\ sent'[i] = sent[i]
        BY <2>3, <3>2
      <4>2. QED
        BY <2>2, <2>6, <4>1
    <3>3. QED
      BY <3>1, <3>2
  <2>7. QED
    BY <1>1, <1>4, <2>2, <2>3, <2>5, <2>6
<1>7. CursorInv(c)'
  <2> SUFFICES ASSUME sender = "some", cursor[c].epoch = epoch, c \notin open \ fresh,
                      NEW e \in Effects(ScopeOf[c]), e[1] <= cursor[c].pos
               PROVE  \/ e \in applied[c] \/ reset = "due"
                      \/ cursor[c].pos <= resetFloor'
    BY <1>1, <1>5, EffectFrame DEF CursorInv
  <2>1. e \in applied[c] \/ reset = "due" \/ cursor[c].pos <= resetFloor
    BY <1>0 DEF ClientInv, CursorInv
  <2>2. QED
    BY <1>4, <2>1
<1>8. EvidenceInv(c)'
  <2> SUFFICES ASSUME sender = "some", c \in (open \cap fresh) \ lagged,
                      NEW e \in Effects(ScopeOf[c])
               PROVE  \/ e \in applied[c]
                      \/ e[1] > pub' \/ reset = "due" \/ Reset \in Unread(c)'
                      \/ /\ e[2] = log[e[1]].session
                         /\ e[1] \in replayQ[c] \/ e[1] \in Unread(c)'
    BY <1>1, <1>5, EffectFrame DEF EvidenceInv
  <2>1. \/ e \in applied[c]
        \/ e[1] > pub \/ reset = "due" \/ Reset \in Unread(c)
        \/ /\ e[2] = log[e[1]].session
           /\ e[1] \in replayQ[c] \/ e[1] \in Unread(c)
    BY <1>0 DEF ClientInv, EvidenceInv
  <2>2. CASE e[1] > pub
    <3>1. e[1] \in 1 .. Len(log) /\ e[2] \in Touched(e[1])
      BY DEF Effects
    <3>2. CASE e[1] > pub + 1
      BY <1>1, <3>2
    <3>3. CASE e[1] = pub + 1
      <4>1. next[c] <= Len(sent) + 1
        BY <1>0 DEF ClientInv, WatchInv
      <4>2. n = Reset \/ n = e[1]
        BY <1>2, <3>3
      <4>3. n \in Unread(c)'
        BY <1>2, <1>4, <1>5, <4>1, NoticeClient
      <4>4. e[2] = log[e[1]].session \/ log[e[1]].also # {}
        BY <3>1 DEF Touched
      <4>5. log[e[1]].also # {} => reset = "due"
        <5>1. FamilyInv /\ writer = "serving"
          BY DEF IInv, PublishChange, PublishOverBudget
        <5>2. e[1] \in base + 1 .. Len(log) /\ e[1] > pub
          BY <1>4, <2>2, <3>1
        <5>3. QED
          BY <1>4, <5>1, <5>2 DEF FamilyInv
      <4>6. QED
        BY <4>2, <4>3, <4>4, <4>5
    <3>4. QED
      BY <1>4, <2>2, <3>1, <3>2, <3>3
  <2>3. CASE ~(e[1] > pub)
    BY <1>2, <1>4, <1>5, <2>1, <2>3, NoticeClient
  <2>4. QED
    BY <2>2, <2>3
<1>9. QED
  BY <1>6, <1>7, <1>8 DEF ClientInv

LEMMA InvalidateClient ==
    ASSUME IInv, Invalidate, NEW c \in Clients
    PROVE  ClientInv(c)'
<1>0. TypeOK /\ RingInv /\ ClientInv(c)
  BY DEF IInv, ClientInv
<1>1. /\ UNCHANGED <<log, pub, base, epoch, sender, head>>
      /\ UNCHANGED <<open, fresh, replayQ, next, lagged, cursor, applied>>
      /\ resetFloor' = head /\ sent' = Append(sent, Reset) /\ Reset \in Nat
  BY DEF Invalidate, watchVars, Reset
<1>2. /\ head \in Nat /\ base \in Nat /\ cursor[c].pos \in Nat
      /\ sent \in Seq(Nat) /\ next[c] \in Nat /\ next[c] >= 1
  BY <1>0 DEF TypeOK
<1>3. /\ Len(sent') = Len(sent) + 1 /\ sent'[Len(sent) + 1] = Reset
      /\ \A i \in 1 .. Len(sent) : sent'[i] = sent[i]
  BY <1>1, <1>2
<1>4. WatchInv(c)'
  <2>1. cursor[c].epoch <= epoch
        /\ (cursor[c].epoch = epoch => cursor[c].pos \in base + 1 .. head)
    BY <1>0 DEF ClientInv, WatchInv
  <2>2. c \in open =>
          /\ next[c] <= Len(sent) + 1
          /\ replayQ[c] \subseteq base + 1 .. head
          /\ cursor[c] = NoCursor \/ cursor[c].epoch = epoch
          /\ \A q \in replayQ[c] : /\ q > cursor[c].pos
                                   /\ InScope(ScopeOf[c], log[q].session)
          /\ \A i \in next[c] .. Len(sent) :
                sent[i] # Reset => /\ sent[i] > cursor[c].pos
                                   /\ \A q \in replayQ[c] : sent[i] > q
    BY <1>0 DEF ClientInv, WatchInv
  <2>3. c \in open => \A q \in replayQ[c] : q <= head
    BY <1>2, <2>2
  <2>4. c \in open => \A i \in next[c] .. Len(sent') :
                         sent'[i] # Reset => /\ sent'[i] > cursor[c].pos
                                             /\ \A q \in replayQ[c] : sent'[i] > q
    <3> SUFFICES ASSUME c \in open, NEW i \in next[c] .. Len(sent'), sent'[i] # Reset
                 PROVE  sent'[i] > cursor[c].pos /\ \A q \in replayQ[c] : sent'[i] > q
      OBVIOUS
    <3>1. i \in next[c] .. Len(sent) /\ sent'[i] = sent[i]
      BY <1>2, <1>3
    <3>2. QED
      BY <2>2, <3>1
  <2>5. c \in open => next[c] <= Len(sent') + 1
    BY <1>2, <1>3, <2>2
  <2>6. QED
    BY <1>1, <2>1, <2>2, <2>3, <2>4, <2>5 DEF WatchInv
<1>5. CursorInv(c)'
  BY <1>0, <1>1, <1>2 DEF CursorInv, ClientInv, WatchInv
<1>6. EvidenceInv(c)'
  <2>1. c \in open => Reset \in Unread(c)'
    BY <1>0, <1>1, NoticeClient DEF ClientInv, WatchInv
  <2>2. QED
    BY <1>1, <2>1 DEF EvidenceInv
<1>7. QED
  BY <1>4, <1>5, <1>6 DEF ClientInv

LEMMA CloseClient ==
    ASSUME IInv, Close, NEW c \in Clients
    PROVE  ClientInv(c)'
<1>1. sender' = "none"
  BY DEF Close
<1>2. WatchInv(c)
  BY DEF IInv
<1>3. WatchInv(c)'
  BY <1>2 DEF Close, WatchInv, Unread, writerVars, watchVars
<1>4. QED
  BY <1>1, <1>3 DEF ClientInv, CursorInv, EvidenceInv

LEMMA RestartClient ==
    ASSUME IInv, Restart, NEW c \in Clients
    PROVE  ClientInv(c)'
<1>1. /\ epoch \in Nat /\ epoch > 0 /\ epoch' = epoch + 1 /\ open' = {}
      /\ cursor'[c] \in {cursor[c], NoCursor}
      /\ cursor[c].epoch \in Nat /\ cursor[c].epoch <= epoch
  BY DEF IInv, TypeOK, WatchInv, Restart, KeptCursor
<1>2. cursor'[c].epoch \in Nat /\ cursor'[c].epoch < epoch'
  BY <1>1 DEF NoCursor
<1>3. QED
  BY <1>1, <1>2 DEF ClientInv, WatchInv, CursorInv, EvidenceInv

LEMMA OthersUntouched ==
    ASSUME TypeOK, NEW c \in Clients, ClientStep(c), NEW d \in Clients, d # c
    PROVE  SameWatch(d)
<1> USE DEF TypeOK, SameWatch, writerVars, feedVars
<1>1. ASSUME NEW after, Watch(c, after) PROVE SameWatch(d)
  BY <1>1 DEF Watch
<1>2. CASE Resume(c) \/ Subscribe(c)
  BY <1>1, <1>2 DEF Resume, Subscribe
<1>3. CASE ReadSnapshot(c)
  BY <1>3 DEF ReadSnapshot
<1>4. CASE RecvReplay(c)
  BY <1>4 DEF RecvReplay, Deliver
<1>5. CASE RecvChange(c)
  BY <1>5 DEF RecvChange, Deliver
<1>6. CASE SkipChange(c)
  BY <1>6 DEF SkipChange
<1>7. CASE RecvReset(c)
  BY <1>7 DEF RecvReset
<1>8. CASE Disconnect(c)
  BY <1>8 DEF Disconnect
<1>9. QED
  BY <1>2, <1>3, <1>4, <1>5, <1>6, <1>7, <1>8 DEF ClientStep

\* Subscribing: a resumable cursor comes with the tail that follows it.
LEMMA WatchClient ==
    ASSUME IInv, NEW c \in Clients, NEW after \in [epoch : Nat, pos : Nat],
           Watch(c, after),
           after = NoCursor \/ (after = cursor[c] /\ c \notin open)
    PROVE  ClientInv(c)'
<1>0. TypeOK /\ RingInv /\ FamilyInv /\ WatchInv(c) /\ CursorInv(c)
  BY DEF IInv
<1>1. UNCHANGED <<log, pub, reset, writer, epoch, base>>
      /\ UNCHANGED <<sender, head, floor, resetFloor, replay, sent>>
      /\ applied' = applied
  BY DEF ReplayTail, Watch, writerVars, feedVars
<1>2. /\ c \in open' /\ c \notin lagged'
      /\ (c \in fresh' <=> Resumable(after))
      /\ next'[c] = Len(sent) + 1
      /\ replayQ'[c] = IF Resumable(after)
                       THEN {p \in replay : /\ p > after.pos
                                            /\ InScope(ScopeOf[c], log[p].session)}
                       ELSE {}
      /\ cursor'[c] = IF Resumable(after) THEN after
                      ELSE IF head = 0 THEN NoCursor
                      ELSE [epoch |-> epoch, pos |-> head]
  BY <1>0 DEF ReplayTail, Watch, TypeOK
<1>3. /\ head \in Nat /\ pub \in Nat /\ base \in Nat /\ resetFloor \in Nat
      /\ floor \in Nat /\ Len(sent) \in Nat /\ epoch \in Nat /\ epoch > 0
      /\ Len(log) \in Nat /\ pub <= Len(log) /\ after.pos \in Nat
  BY <1>0 DEF TypeOK
<1>4. Unread(c)' = {}
  BY <1>1, <1>2, <1>3 DEF Unread
<1>5. Resumable(after) =>
         /\ after = cursor[c] /\ c \notin open /\ after.epoch = epoch
         /\ after.pos \in base + 1 .. head /\ head = pub
         /\ after.pos > resetFloor /\ after.pos >= floor
  BY <1>0, <1>3 DEF Resumable, NoCursor, WatchInv, RingInv
<1>6. WatchInv(c)'
  <2>0. next'[c] <= Len(sent') + 1 /\ next'[c] .. Len(sent') = {}
    BY <1>1, <1>2, <1>3
  <2>1. CASE Resumable(after)
    <3>1. replayQ'[c] \subseteq base + 1 .. head
      BY <1>0, <1>2, <1>3, <1>5, <2>1 DEF RingInv
    <3>2. \A q \in replayQ'[c] : q > after.pos /\ InScope(ScopeOf[c], log[q].session)
      BY <1>2, <2>1
    <3>3. cursor'[c] = after /\ after.epoch = epoch
      BY <1>2, <1>5, <2>1
    <3>4. cursor'[c].epoch <= epoch' /\ cursor'[c].pos \in base' + 1 .. head'
      BY <1>1, <1>3, <1>5, <2>1, <3>3
    <3>5. replayQ'[c] \subseteq base' + 1 .. head'
      BY <1>1, <3>1
    <3>6. \A q \in replayQ'[c] : /\ q > cursor'[c].pos
                                 /\ InScope(ScopeOf[c], log'[q].session)
                                 /\ Reset \notin Unread(c)'
      BY <1>1, <1>4, <3>2, <3>3
    <3>7. QED
      BY <1>1, <1>2, <2>0, <3>3, <3>4, <3>5, <3>6 DEF WatchInv
  <2>2. CASE ~Resumable(after) /\ head = 0
    <3>1. replayQ'[c] = {} /\ cursor'[c] = NoCursor
      BY <1>2, <2>2
    <3>2. cursor'[c].epoch <= epoch' /\ cursor'[c].epoch # epoch'
      BY <1>1, <1>3, <3>1 DEF NoCursor
    <3>3. QED
      BY <1>1, <1>2, <2>0, <3>1, <3>2 DEF WatchInv
  <2>3. CASE ~Resumable(after) /\ head # 0
    <3>1. /\ replayQ'[c] = {} /\ cursor'[c].epoch = epoch /\ cursor'[c].pos = head
      BY <1>2, <2>3
    <3>2. head \in base + 1 .. head
      BY <1>0, <1>3, <2>3 DEF RingInv
    <3>3. cursor'[c].epoch <= epoch' /\ cursor'[c].pos \in base' + 1 .. head'
      BY <1>1, <1>3, <3>1, <3>2
    <3>4. QED
      BY <1>1, <1>2, <2>0, <3>1, <3>3 DEF WatchInv
  <2>4. QED
    BY <2>1, <2>2, <2>3
<1>7. CursorInv(c)'
  <2> SUFFICES ASSUME sender = "some", Resumable(after),
                      NEW e \in Effects(ScopeOf[c]), e[1] <= after.pos
               PROVE  e \in applied[c] \/ reset = "due" \/ after.pos <= resetFloor
    BY <1>1, <1>2, EffectFrame DEF CursorInv
  <2>1. QED
    BY <1>0, <1>5 DEF CursorInv
<1>8. EvidenceInv(c)'
  <2> SUFFICES ASSUME sender = "some", Resumable(after),
                      NEW e \in Effects(ScopeOf[c])
               PROVE  \/ e \in applied[c] \/ e[1] > pub \/ reset = "due"
                      \/ e[2] = log[e[1]].session /\ e[1] \in replayQ'[c]
    BY <1>1, <1>2, EffectFrame DEF EvidenceInv
  <2>1. e[1] \in 1 .. Len(log) /\ e[2] \in Touched(e[1]) /\ InScope(ScopeOf[c], e[2])
    BY DEF Effects
  <2>2. CASE e[1] <= after.pos
    <3>1. e \in applied[c] \/ reset = "due" \/ after.pos <= resetFloor
      BY <1>0, <1>5, <2>2 DEF CursorInv
    <3>2. QED
      BY <1>3, <1>5, <3>1
  <2>3. CASE e[1] > after.pos /\ e[1] <= pub /\ e[2] # log[e[1]].session
    <3>1. log[e[1]].also # {}
      BY <2>1, <2>3 DEF Touched
    <3>2. e[1] \in base + 1 .. Len(log)
      BY <1>3, <1>5, <2>1, <2>3
    <3>3. reset = "due" \/ e[1] <= resetFloor
      BY <1>0, <1>3, <2>1, <2>3, <3>1, <3>2 DEF FamilyInv
    <3>4. QED
      BY <1>3, <1>5, <2>1, <2>3, <3>3
  <2>4. CASE e[1] > after.pos /\ e[1] <= pub /\ e[2] = log[e[1]].session
    <3>1. e[1] \in base + 1 .. pub /\ e[1] > floor
      BY <1>3, <1>5, <2>1, <2>4
    <3>2. e[1] \in replay
      BY <1>0, <3>1 DEF RingInv
    <3>3. QED
      BY <1>2, <2>1, <2>4, <3>2
  <2>5. QED
    BY <1>3, <2>1, <2>2, <2>3, <2>4
<1>9. QED
  BY <1>6, <1>7, <1>8 DEF ClientInv

LEMMA SnapshotClient ==
    ASSUME IInv, NEW c \in Clients, ReadSnapshot(c)
    PROVE  ClientInv(c)'
<1>0. TypeOK /\ WatchInv(c)
  BY DEF IInv
<1>1. /\ UNCHANGED <<log, pub, reset, writer, epoch, base>>
      /\ UNCHANGED <<sender, head, floor, resetFloor, replay, sent>>
      /\ UNCHANGED <<open, replayQ, next, lagged, cursor>>
      /\ Effects(ScopeOf[c]) \subseteq applied'[c]
  BY <1>0 DEF ReadSnapshot, writerVars, feedVars, TypeOK
<1>2. WatchInv(c)'
  BY <1>0, <1>1 DEF WatchInv, Unread
<1>3. CursorInv(c)' /\ EvidenceInv(c)'
  BY <1>1, EffectFrame DEF CursorInv, EvidenceInv
<1>4. QED
  BY <1>2, <1>3 DEF ClientInv

LEMMA DropClient ==
    ASSUME IInv, NEW c \in Clients, Disconnect(c)
    PROVE  ClientInv(c)'
<1>0. TypeOK /\ WatchInv(c) /\ CursorInv(c)
  BY DEF IInv
<1>1. /\ UNCHANGED <<log, pub, reset, writer, epoch, base>>
      /\ UNCHANGED <<sender, head, floor, resetFloor, replay, sent>>
      /\ applied' = applied /\ c \notin open'
      /\ cursor'[c] = KeptCursor(c)
  BY <1>0 DEF Disconnect, writerVars, feedVars, TypeOK
<1>2. \/ cursor'[c] = NoCursor
      \/ cursor'[c] = cursor[c] /\ c \notin open \ fresh
  BY <1>1 DEF KeptCursor
<1>3. epoch \in Nat /\ epoch > 0
  BY <1>0 DEF TypeOK
<1>4. WatchInv(c)'
  BY <1>0, <1>1, <1>2, <1>3 DEF WatchInv, NoCursor
<1>5. CursorInv(c)'
  <2>1. CASE cursor'[c] = NoCursor
    BY <1>1, <1>3, <2>1 DEF CursorInv, NoCursor
  <2>2. CASE cursor'[c] = cursor[c] /\ c \notin open \ fresh
    BY <1>0, <1>1, <2>2, EffectFrame DEF CursorInv
  <2>3. QED
    BY <1>2, <2>1, <2>2
<1>6. EvidenceInv(c)'
  BY <1>1 DEF EvidenceInv
<1>7. QED
  BY <1>4, <1>5, <1>6 DEF ClientInv

LEMMA ResetClient ==
    ASSUME IInv, NEW c \in Clients, RecvReset(c)
    PROVE  ClientInv(c)'
<1>0. TypeOK /\ WatchInv(c) /\ CursorInv(c)
  BY DEF IInv
<1>1. /\ UNCHANGED <<log, pub, reset, writer, epoch, base>>
      /\ UNCHANGED <<sender, head, floor, resetFloor, replay, sent>>
      /\ UNCHANGED <<open, fresh, replayQ, next, cursor, applied>>
      /\ c \in lagged'
  BY DEF RecvReset, writerVars, feedVars
<1>2. WatchInv(c)'
  BY <1>0, <1>1 DEF WatchInv, Unread
<1>3. CursorInv(c)'
  BY <1>0, <1>1, EffectFrame DEF CursorInv
<1>4. EvidenceInv(c)'
  BY <1>1 DEF EvidenceInv
<1>5. QED
  BY <1>2, <1>3, <1>4 DEF ClientInv

\* A replayed change is the oldest thing the client does not have yet.
LEMMA ReplayClient ==
    ASSUME IInv, NEW c \in Clients, RecvReplay(c)
    PROVE  ClientInv(c)'
<1>0. TypeOK /\ RingInv /\ WatchInv(c) /\ EvidenceInv(c)
  BY DEF IInv
<1>1. PICK p \in Oldest(replayQ[c]) :
           Deliver(c, p) /\ replayQ' = [replayQ EXCEPT ![c] = @ \ {p}]
  BY DEF RecvReplay
<1>2. /\ UNCHANGED <<log, pub, reset, writer, epoch, base>>
      /\ UNCHANGED <<sender, head, floor, resetFloor, replay, sent>>
      /\ UNCHANGED <<open, fresh, next, lagged>>
      /\ c \in open \ lagged
      /\ replayQ'[c] = replayQ[c] \ {p}
      /\ cursor'[c] = [epoch |-> epoch, pos |-> p]
      /\ applied'[c] = applied[c] \cup {<<p, log[p].session>>}
  BY <1>0, <1>1 DEF RecvReplay, Deliver, writerVars, feedVars, TypeOK
<1>3. p \in replayQ[c] /\ \A q \in replayQ[c] : p <= q
  BY <1>1 DEF Oldest
<1>4. /\ head \in Nat /\ pub \in Nat /\ base \in Nat /\ resetFloor \in Nat
      /\ epoch \in Nat /\ next[c] \in Nat \ {0} /\ Len(sent) \in Nat
      /\ replayQ[c] \subseteq Nat /\ p \in Nat /\ head <= pub
      /\ \A i \in 1 .. Len(sent) : sent[i] \in Nat
  BY <1>0, <1>3 DEF TypeOK, RingInv
<1>5. /\ next[c] <= Len(sent) + 1
      /\ replayQ[c] \subseteq base + 1 .. head
      /\ \A q \in replayQ[c] : /\ InScope(ScopeOf[c], log[q].session)
                               /\ Reset \in Unread(c) => q <= resetFloor
      /\ \A i \in next[c] .. Len(sent) :
            sent[i] # Reset => \A q \in replayQ[c] : sent[i] > q
  BY <1>0, <1>2 DEF WatchInv
<1>6. Unread(c)' = Unread(c)
  BY <1>2 DEF Unread
<1>7. cursor'[c].epoch = epoch /\ cursor'[c].pos = p
  BY <1>2
<1>8. WatchInv(c)'
  <2>1. \A q \in replayQ'[c] : q > p
    BY <1>2, <1>3, <1>4
  <2>2. p \in base' + 1 .. head' /\ cursor'[c].epoch <= epoch'
    BY <1>2, <1>3, <1>4, <1>5, <1>7
  <2>3. QED
    BY <1>2, <1>3, <1>5, <1>6, <1>7, <2>1, <2>2 DEF WatchInv
<1>9. \A m \in Unread(c) : m # Reset => m > p
  BY <1>3, <1>5 DEF Unread
<1>10. CursorInv(c)'
  <2> SUFFICES ASSUME sender = "some", c \in fresh,
                      NEW e \in Effects(ScopeOf[c]), e[1] <= p
               PROVE  e \in applied'[c] \/ reset = "due" \/ p <= resetFloor
    BY <1>2, <1>7, EffectFrame DEF CursorInv
  <2>1. \/ e \in applied[c]
        \/ e[1] > pub \/ reset = "due" \/ Reset \in Unread(c)
        \/ /\ e[2] = log[e[1]].session
           /\ e[1] \in replayQ[c] \/ e[1] \in Unread(c)
    BY <1>0, <1>2 DEF EvidenceInv
  <2>2. e = <<e[1], e[2]>> /\ e[1] \in Nat \ {0}
    BY DEF Effects
  <2>3. ~(e[1] > pub)
    BY <1>3, <1>4, <1>5, <2>2
  <2>4. e[1] \notin Unread(c)
    BY <1>4, <1>9, <2>2 DEF Reset
  <2>5. e[1] \in replayQ[c] => e[1] = p
    BY <1>3, <1>4, <2>2
  <2>6. QED
    BY <1>2, <1>3, <1>5, <2>1, <2>2, <2>3, <2>4, <2>5
<1>11. EvidenceInv(c)'
  <2> SUFFICES ASSUME sender = "some", c \in fresh,
                      NEW e \in Effects(ScopeOf[c])
               PROVE  \/ e \in applied'[c]
                      \/ e[1] > pub \/ reset = "due" \/ Reset \in Unread(c)
                      \/ /\ e[2] = log[e[1]].session
                         /\ e[1] \in replayQ'[c] \/ e[1] \in Unread(c)
    BY <1>2, <1>6, EffectFrame DEF EvidenceInv
  <2>1. \/ e \in applied[c]
        \/ e[1] > pub \/ reset = "due" \/ Reset \in Unread(c)
        \/ /\ e[2] = log[e[1]].session
           /\ e[1] \in replayQ[c] \/ e[1] \in Unread(c)
    BY <1>0, <1>2 DEF EvidenceInv
  <2>2. e = <<e[1], e[2]>>
    BY DEF Effects
  <2>3. QED
    BY <1>2, <2>1, <2>2
<1>12. QED
  BY <1>8, <1>10, <1>11 DEF ClientInv

\* Taking a notice removes the oldest unread one.
LEMMA TakeNotice ==
    ASSUME TypeOK, NEW c \in Clients, next[c] <= Len(sent), sent' = sent,
           next'[c] = next[c] + 1
    PROVE  /\ \A m : m \in Unread(c)' => m \in Unread(c)
           /\ \A m : m \in Unread(c) => m = sent[next[c]] \/ m \in Unread(c)'
<1>1. next[c] \in Nat /\ Len(sent) \in Nat
  BY DEF TypeOK
<1>2. ASSUME NEW m, m \in Unread(c)' PROVE m \in Unread(c)
  BY <1>1, <1>2 DEF Unread
<1>3. ASSUME NEW m, m \in Unread(c), m # sent[next[c]] PROVE m \in Unread(c)'
  <2>1. PICK i \in next[c] .. Len(sent) : sent[i] = m
    BY <1>3 DEF Unread
  <2>2. i \in next[c] + 1 .. Len(sent)
    BY <1>1, <1>3, <2>1
  <2>3. QED
    BY <2>1, <2>2 DEF Unread
<1>4. QED
  BY <1>2, <1>3

\* A change taken from the channel is older than every other unread one, and
\* covered by reset_floor if a reset follows it.
LEMMA ChangeClient ==
    ASSUME IInv, NEW c \in Clients, RecvChange(c) \/ SkipChange(c)
    PROVE  ClientInv(c)'
<1> DEFINE n == sent[next[c]]
<1>0. TypeOK /\ RingInv /\ ChannelInv /\ WatchInv(c) /\ CursorInv(c) /\ EvidenceInv(c)
  BY DEF IInv
<1>1. /\ UNCHANGED <<log, pub, reset, writer, epoch, base>>
      /\ UNCHANGED <<sender, head, floor, resetFloor, replay, sent>>
      /\ UNCHANGED <<open, fresh, lagged, replayQ>>
      /\ c \in open \ lagged /\ replayQ[c] = {} /\ next[c] <= Len(sent)
      /\ next'[c] = next[c] + 1 /\ n # Reset
  BY <1>0 DEF RecvChange, SkipChange, Receiving, writerVars, feedVars, TypeOK
<1>2. \/ /\ InScope(ScopeOf[c], log[n].session)
         /\ cursor'[c] = [epoch |-> epoch, pos |-> n]
         /\ applied'[c] = applied[c] \cup {<<n, log[n].session>>}
      \/ /\ ~InScope(ScopeOf[c], log[n].session)
         /\ cursor'[c] = cursor[c] /\ applied'[c] = applied[c]
  BY <1>0 DEF RecvChange, SkipChange, Deliver, TypeOK
<1>3. /\ head \in Nat /\ pub \in Nat /\ base \in Nat /\ resetFloor \in Nat
      /\ epoch \in Nat /\ next[c] \in Nat \ {0} /\ Len(sent) \in Nat
      /\ cursor[c].pos \in Nat
      /\ \A i \in 1 .. Len(sent) : sent[i] \in Nat
  BY <1>0 DEF TypeOK
<1>4. n \in base + 1 .. pub /\ n \in Nat
  BY <1>0, <1>1, <1>3 DEF ChannelInv
<1>5. n \in base + 1 .. head
  BY <1>0, <1>3, <1>4 DEF RingInv
<1>6. \A j \in next[c] + 1 .. Len(sent) :
         /\ sent[j] \in Nat
         /\ sent[j] # Reset => sent[j] > n
         /\ sent[j] = Reset => n <= resetFloor
  <2> SUFFICES ASSUME NEW j \in next[c] + 1 .. Len(sent)
               PROVE  /\ sent[j] \in Nat
                      /\ sent[j] # Reset => sent[j] > n
                      /\ sent[j] = Reset => n <= resetFloor
    OBVIOUS
  <2>1. /\ next[c] \in 1 .. Len(sent) /\ j \in 1 .. Len(sent) /\ next[c] < j
        /\ sent[j] \in Nat
    BY <1>1, <1>3
  <2>2. /\ n # Reset /\ sent[j] # Reset => n < sent[j]
        /\ sent[j] = Reset => n <= resetFloor
    BY <1>0, <2>1 DEF ChannelInv
  <2>3. QED
    BY <1>1, <1>4, <2>1, <2>2
<1>7. n > cursor[c].pos
  BY <1>0, <1>1, <1>3 DEF WatchInv
<1> HIDE DEF n
<1>8. \A m \in Unread(c)' : /\ m # Reset => m > n
                            /\ m = Reset => n <= resetFloor
  BY <1>1, <1>6 DEF Unread
<1>9. /\ \A m : m \in Unread(c)' => m \in Unread(c)
      /\ \A m : m \in Unread(c) => m = n \/ m \in Unread(c)'
  BY <1>0, <1>1, TakeNotice DEF n
<1>10. WatchInv(c)'
  <2>1. \A i \in next'[c] .. Len(sent') : sent'[i] # Reset => sent'[i] > cursor'[c].pos
    <3> SUFFICES ASSUME NEW i \in next[c] + 1 .. Len(sent), sent[i] # Reset
                 PROVE  sent[i] > cursor'[c].pos
      BY <1>1
    <3>1. sent[i] > n /\ sent[i] \in Nat
      BY <1>6
    <3>2. cursor'[c].pos \in Nat /\ cursor'[c].pos <= n
      BY <1>2, <1>3, <1>4, <1>7
    <3>3. QED
      BY <1>4, <3>1, <3>2
  <2>2. /\ cursor'[c].epoch <= epoch'
        /\ cursor'[c].epoch = epoch' => cursor'[c].pos \in base' + 1 .. head'
        /\ cursor'[c] = NoCursor \/ cursor'[c].epoch = epoch'
    <3>1. CASE cursor'[c] = cursor[c]
      BY <1>0, <1>1, <3>1 DEF WatchInv
    <3>2. CASE cursor'[c] = [epoch |-> epoch, pos |-> n]
      BY <1>1, <1>3, <1>5, <3>2
    <3>3. QED
      BY <1>2, <3>1, <3>2
  <2>3. next'[c] <= Len(sent') + 1 /\ replayQ'[c] = {}
    BY <1>1, <1>3
  <2>4. QED
    BY <2>1, <2>2, <2>3 DEF WatchInv
<1>11. ASSUME sender = "some", c \in fresh, NEW e \in Effects(ScopeOf[c])
       PROVE  /\ e = <<e[1], e[2]>> /\ e[1] \in Nat \ {0}
              /\ InScope(ScopeOf[c], e[2])
              /\ \/ e \in applied[c] \/ e[1] > pub \/ reset = "due"
                 \/ Reset \in Unread(c)'
                 \/ e[2] = log[e[1]].session /\ (e[1] = n \/ e[1] \in Unread(c)')
  <2>1. \/ e \in applied[c]
        \/ e[1] > pub \/ reset = "due" \/ Reset \in Unread(c)
        \/ /\ e[2] = log[e[1]].session
           /\ e[1] \in replayQ[c] \/ e[1] \in Unread(c)
    BY <1>0, <1>1, <1>11 DEF EvidenceInv
  <2>2. e = <<e[1], e[2]>> /\ e[1] \in Nat \ {0} /\ InScope(ScopeOf[c], e[2])
    BY DEF Effects
  <2>3. QED
    BY <1>1, <1>9, <2>1, <2>2 DEF n
<1>12. CursorInv(c)'
  <2>1. CASE cursor'[c] = cursor[c] /\ applied'[c] = applied[c]
    BY <1>0, <1>1, <2>1, EffectFrame DEF CursorInv
  <2>2. CASE /\ cursor'[c] = [epoch |-> epoch, pos |-> n]
             /\ applied'[c] = applied[c] \cup {<<n, log[n].session>>}
    <3> SUFFICES ASSUME sender = "some", c \in fresh,
                        NEW e \in Effects(ScopeOf[c]), e[1] <= n
                 PROVE  e \in applied'[c] \/ reset = "due" \/ n <= resetFloor
      BY <1>1, <2>2, EffectFrame DEF CursorInv
    <3>1. e[1] \in Nat \ {0} /\ ~(e[1] > pub)
      BY <1>3, <1>4, <1>11
    <3>2. e[1] \notin Unread(c)'
      BY <1>4, <1>8, <3>1 DEF Reset
    <3>3. e[1] = n /\ e[2] = log[e[1]].session => e \in applied'[c]
      BY <1>11, <2>2
    <3>4. e \in applied[c] => e \in applied'[c]
      BY <2>2
    <3>5. QED
      BY <1>8, <1>11, <3>1, <3>2, <3>3, <3>4
  <2>3. QED
    BY <1>2, <2>1, <2>2
<1>13. EvidenceInv(c)'
  <2> SUFFICES ASSUME sender = "some", c \in fresh,
                      NEW e \in Effects(ScopeOf[c])
               PROVE  \/ e \in applied'[c]
                      \/ e[1] > pub \/ reset = "due" \/ Reset \in Unread(c)'
                      \/ e[2] = log[e[1]].session /\ e[1] \in Unread(c)'
    BY <1>1, EffectFrame DEF EvidenceInv
  <2>1. e[1] = n /\ e[2] = log[e[1]].session => e \in applied'[c]
    BY <1>2, <1>11
  <2>2. e \in applied[c] => e \in applied'[c]
    BY <1>2
  <2>3. QED
    BY <1>11, <2>1, <2>2
<1>14. QED
  BY <1>10, <1>12, <1>13 DEF ClientInv

LEMMA OwnStep ==
    ASSUME IInv, NEW c \in Clients, ClientStep(c)
    PROVE  ClientInv(c)'
<1>1. CASE Resume(c)
  <2>1. cursor[c] \in [epoch : Nat, pos : Nat]
    BY DEF IInv, TypeOK
  <2>2. QED
    BY <1>1, <2>1, WatchClient DEF Resume
<1>2. CASE Subscribe(c)
  <2>1. NoCursor \in [epoch : Nat, pos : Nat]
    BY DEF NoCursor
  <2>2. QED
    BY <1>2, <2>1, WatchClient DEF Subscribe
<1>3. QED
  BY <1>1, <1>2, SnapshotClient, ReplayClient, ChangeClient, ResetClient, DropClient
  DEF ClientStep

LEMMA ClientsStep ==
    ASSUME IInv, [Next]_vars, NEW d \in Clients
    PROVE  ClientInv(d)'
<1>0. TypeOK /\ ClientInv(d)
  BY DEF IInv, ClientInv
<1>1. CASE \E b \in Batches : CommitBatch(b) \/ CommitUnknown(b)
  BY <1>1, CommitClient
<1>2. CASE PublishChange \/ PublishOverBudget \/ Invalidate \/ Close \/ Restart
  BY <1>2, PublishClient, InvalidateClient, CloseClient, RestartClient
<1>3. ASSUME NEW c \in Clients, ClientStep(c) PROVE ClientInv(d)'
  <2>1. CASE c = d
    BY <1>3, <2>1, OwnStep
  <2>2. CASE c # d
    BY <1>0, <1>3, <2>2, ClientFrame, OthersUntouched, OtherClient
  <2>3. QED
    BY <2>1, <2>2
<1>4. CASE UNCHANGED vars
  <2>1. SameWatch(d) /\ UNCHANGED <<writerVars, feedVars>>
    BY <1>4 DEF vars, watchVars, SameWatch
  <2>2. QED
    BY <1>0, <2>1, OtherClient
<1>5. QED
  BY <1>1, <1>2, <1>3, <1>4 DEF Next, ClientStep

LEMMA InvInit == Init => IInv
<1> SUFFICES ASSUME Init PROVE IInv
  OBVIOUS
<1>1. RingInv /\ FamilyInv /\ ChannelInv
  BY DEF Init, RingInv, FamilyInv, ChannelInv
<1>2. ASSUME NEW c \in Clients PROVE WatchInv(c) /\ CursorInv(c) /\ EvidenceInv(c)
  BY <1>2 DEF Init, WatchInv, CursorInv, EvidenceInv, NoCursor
<1>3. QED
  BY <1>1, <1>2, TypeInit DEF IInv

(* IInv is an inductive invariant of the feed. *)
THEOREM FeedInvariant == Spec => []IInv
<1>1. IInv /\ [Next]_vars => IInv'
  BY TypeStep, FeedStep, ClientsStep DEF IInv, FeedInv, ClientInv
<1>2. QED
  BY <1>1, InvInit, PTL DEF Spec

(* Every variable of the feed, the writer and the watches keeps its type. *)
THEOREM TypeCorrect == Spec => []TypeOK
<1>1. IInv => TypeOK
  BY DEF IInv
<1>2. QED
  BY <1>1, FeedInvariant, PTL

(***************************************************************************)
(* watch_inner, recv, publish_scoped and invalidate together lose nothing: *)
(* a client whose watch is drained while the writer is idle knows every    *)
(* committed effect on what it watches.                                    *)
(***************************************************************************)
THEOREM NoGap == Spec => []NoSilentGap
<1>1. IInv => NoSilentGap
  <2> SUFFICES ASSUME IInv, NEW c \in Clients, CaughtUp(c), WriterIdle,
                      NEW e \in Effects(ScopeOf[c])
               PROVE  e \in applied[c]
    BY DEF NoSilentGap
  <2>1. TypeOK /\ EvidenceInv(c)
    BY DEF IInv
  <2>2. Unread(c) = {}
    <3>1. next[c] \in Nat /\ Len(sent) \in Nat /\ next[c] > Len(sent)
      BY <2>1 DEF TypeOK, CaughtUp
    <3>2. QED
      BY <3>1 DEF Unread
  <2>3. e[1] \in 1 .. Len(log) /\ pub = Len(log) /\ Len(log) \in Nat
    BY <2>1 DEF Effects, WriterIdle, Published, TypeOK
  <2>4. reset # "due" /\ replayQ[c] = {}
    BY DEF WriterIdle, Published, CaughtUp
  <2>5. QED
    BY <2>1, <2>2, <2>3, <2>4 DEF EvidenceInv, CaughtUp
<1>2. QED
  BY <1>1, FeedInvariant, PTL

\* A client keeps its cursor, loses it, or has one of the present process that
\* lies no further back.
LEMMA CursorStep ==
    ASSUME IInv, [Next]_vars, NEW c \in Clients
    PROVE  \/ cursor'[c] \in {cursor[c], NoCursor}
           \/ /\ cursor'[c].epoch = epoch
              /\ cursor[c].epoch = epoch => cursor'[c].pos >= cursor[c].pos
<1> DEFINE Goal == \/ cursor'[c] \in {cursor[c], NoCursor}
                   \/ /\ cursor'[c].epoch = epoch
                      /\ cursor[c].epoch = epoch => cursor'[c].pos >= cursor[c].pos
<1>0. TypeOK /\ ChannelInv /\ WatchInv(c)
  BY DEF IInv
<1>1. ASSUME NEW after \in {NoCursor, cursor[c]}, Watch(c, after) PROVE Goal
  <2>1. cursor'[c] = IF Resumable(after) THEN after
                     ELSE IF head = 0 THEN NoCursor
                     ELSE [epoch |-> epoch, pos |-> head]
    BY <1>0, <1>1 DEF ReplayTail, Watch, TypeOK
  <2>2. cursor[c].epoch = epoch => head >= cursor[c].pos
    BY <1>0 DEF WatchInv, TypeOK
  <2>3. CASE cursor'[c] = [epoch |-> epoch, pos |-> head]
    BY <2>2, <2>3
  <2>4. QED
    BY <1>1, <2>1, <2>3
<1>2. ASSUME NEW p, Deliver(c, p), p > cursor[c].pos, p \in Nat PROVE Goal
  <2>1. cursor'[c] = [epoch |-> epoch, pos |-> p] /\ cursor[c].pos \in Nat
    BY <1>0, <1>2 DEF Deliver, TypeOK
  <2>2. QED
    BY <1>2, <2>1
<1>3. CASE RecvReplay(c)
  <2>1. PICK p \in Oldest(replayQ[c]) : Deliver(c, p)
    BY <1>3 DEF RecvReplay
  <2>2. p \in Nat /\ p > cursor[c].pos
    BY <1>0, <1>3, <2>1 DEF RecvReplay, Oldest, WatchInv, TypeOK
  <2>3. QED
    BY <1>2, <2>1, <2>2
<1>4. CASE RecvChange(c)
  <2>1. next[c] \in 1 .. Len(sent) /\ c \in open /\ sent[next[c]] # Reset
    BY <1>0, <1>4 DEF RecvChange, Receiving, TypeOK
  <2>2. sent[next[c]] \in Nat /\ sent[next[c]] > cursor[c].pos
    BY <1>0, <2>1 DEF WatchInv, TypeOK
  <2>3. QED
    BY <1>2, <1>4, <2>2 DEF RecvChange
<1>5. CASE Disconnect(c) \/ Restart
  BY <1>0, <1>5 DEF Disconnect, Restart, KeptCursor, TypeOK
<1>6. CASE ReadSnapshot(c) \/ SkipChange(c) \/ RecvReset(c)
  BY <1>6 DEF ReadSnapshot, SkipChange, RecvReset
<1>7. CASE Resume(c) \/ Subscribe(c)
  BY <1>1, <1>7 DEF Resume, Subscribe
<1>8. ASSUME NEW d \in Clients, ClientStep(d), d # c PROVE Goal
  BY <1>0, <1>8, OthersUntouched DEF SameWatch
<1>9. CASE \/ \E b \in Batches : CommitBatch(b) \/ CommitUnknown(b)
           \/ PublishChange \/ PublishOverBudget \/ Invalidate \/ Close
           \/ UNCHANGED vars
  <2>1. cursor' = cursor
    BY <1>9 DEF CommitBatch, CommitUnknown, PublishChange, PublishOverBudget,
                Invalidate, Close, vars, watchVars
  <2>2. QED
    BY <2>1
<1>10. QED
  BY <1>3, <1>4, <1>5, <1>6, <1>7, <1>8, <1>9 DEF Next, ClientStep

\* No process has epoch 0, so a cursor with it is the absent one.
CursorKind == \A c \in Clients : cursor[c].epoch = 0 => cursor[c].pos = 0

(***************************************************************************)
(* recv and watch_inner never take a client's resume cursor back: the      *)
(* replayed tail and the channel hold only what lies after it.             *)
(***************************************************************************)
THEOREM CursorForward == Spec => CursorMovesForward
<1>1. Init => CursorKind
  BY DEF Init, CursorKind, NoCursor
<1>2. ASSUME IInv, CursorKind, [Next]_vars, NEW c \in Clients
      PROVE  /\ cursor'[c].epoch = 0 => cursor'[c].pos = 0
             /\ cursor'[c].epoch = cursor[c].epoch => cursor'[c].pos >= cursor[c].pos
  <2>1. /\ epoch \in Nat \ {0} /\ cursor[c].pos \in Nat /\ cursor[c].epoch \in Nat
        /\ cursor[c].epoch = 0 => cursor[c].pos = 0
    BY <1>2 DEF IInv, TypeOK, CursorKind
  <2>2. CASE cursor'[c] = cursor[c]
    BY <2>1, <2>2
  <2>3. CASE cursor'[c] = NoCursor
    <3>1. cursor'[c].epoch = 0 /\ cursor'[c].pos = 0
      BY <2>3 DEF NoCursor
    <3>2. QED
      BY <2>1, <3>1
  <2>4. CASE /\ cursor'[c].epoch = epoch
             /\ cursor[c].epoch = epoch => cursor'[c].pos >= cursor[c].pos
    BY <2>1, <2>4
  <2>5. QED
    BY <1>2, <2>2, <2>3, <2>4, CursorStep
<1>3. IInv /\ CursorKind /\ [Next]_vars
      => /\ CursorKind'
         /\ [\A c \in Clients : cursor'[c].epoch = cursor[c].epoch
                                 => cursor'[c].pos >= cursor[c].pos]_vars
  BY <1>2 DEF CursorKind
<1>4. QED
  BY <1>1, <1>3, FeedInvariant, PTL DEF Spec, CursorMovesForward

=============================================================================
