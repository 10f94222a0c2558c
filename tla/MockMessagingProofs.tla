-------------------------- MODULE MockMessagingProofs --------------------------
(***************************************************************************)
(* Proofs about the streams and the publish/subscribe of the mock backend, *)
(* MockStreams and MockPubSub, each of which is a specification of its own.*)
(***************************************************************************)
EXTENDS MockStreams, MockPubSub, SequenceTheorems, FiniteSetTheorems, TLAPS

(***************************************************************************)
(* Publish and subscribe: for any subscriptions, any lists of channels, in *)
(* which a channel may be named again, and any capacity.                   *)
(***************************************************************************)

Message == Channels \X Payloads

Stages == {"none", "opening", "open", "closed"}

PubSubTypes ==
    /\ registry \in [Channels -> [Subs -> Nat]]
    /\ sub \in [Subs -> [stage : Stages, channels : Seq(Channels)]]
    /\ buffer \in [Subs -> Seq(Message)]
    /\ owed \in [Subs -> [msgs : Seq(Message), overran : BOOLEAN]]
    /\ closer \in {"idle", "holds_mu", "holds_both"}

\* The registry holds each open subscription as often as it names the channel,
\* and nobody else.
RegistryExact ==
    \A c \in Channels, s \in Subs :
        registry[c][s] = IF sub[s].stage = "open" THEN Times(c, sub[s].channels) ELSE 0

BuffersFit == \A s \in Subs : Len(buffer[s]) <= BufferSize

\* The inductive invariant.
PSInv == PubSubTypes /\ RegistryExact /\ BuffersFit /\ SubscribersGetAll

-----------------------------------------------------------------------------

\* How often a channel is named is a number, and none if it is not named.
LEMMA TimesNamed ==
    ASSUME NEW c \in Channels, NEW cs \in Seq(Channels)
    PROVE  Times(c, cs) \in Nat /\ (c \notin ToSet(cs) => Times(c, cs) = 0)
<1> DEFINE named == {i \in DOMAIN cs : cs[i] = c}
<1>1. IsFiniteSet(named)
  <2>1. DOMAIN cs = 1..Len(cs) /\ Len(cs) \in Nat
    OBVIOUS
  <2>2. IsFiniteSet(1..Len(cs))
    BY <2>1, FS_Interval
  <2> QED BY <2>1, <2>2, FS_Subset
<1>2. Cardinality(named) \in Nat
  BY <1>1, FS_CardinalityType
<1>3. c \notin ToSet(cs) => named = {}
  BY DEF ToSet
<1> QED BY <1>2, <1>3, FS_EmptySet DEF Times

\* Repeating a message.
LEMMA Repeated ==
    ASSUME NEW m \in Message, NEW n \in Nat
    PROVE  Repeat(m, n) \in Seq(Message) /\ Len(Repeat(m, n)) = n
  BY DEF Repeat

\* Subscribe registers a subscription once for every time it names a channel.
LEMMA RegisterStep == ASSUME PSInv, NEW s \in Subs, Register(s) PROVE PSInv'
<1> USE DEF PSInv
<1>1. /\ sub[s].stage = "opening"
      /\ sub' = [sub EXCEPT ![s].stage = "open"]
      /\ registry' = [c \in Channels |->
                          [registry[c] EXCEPT ![s] = @ + Times(c, sub[s].channels)]]
      /\ UNCHANGED <<buffer, closer, owed>>
  BY DEF Register
<1>2. sub' \in [Subs -> [stage : Stages, channels : Seq(Channels)]]
  BY <1>1 DEF PubSubTypes, Stages
<1>3. \A t \in Subs : /\ sub'[t].channels = sub[t].channels
                      /\ sub'[t].stage = IF t = s THEN "open" ELSE sub[t].stage
  BY <1>1 DEF PubSubTypes
<1>4. \A c \in Channels : Times(c, sub[s].channels) \in Nat
  BY TimesNamed DEF PubSubTypes
<1>5. registry' \in [Channels -> [Subs -> Nat]]
  BY <1>1, <1>4 DEF PubSubTypes
<1>6. \A c \in Channels, t \in Subs :
          registry'[c][t] = IF t = s THEN registry[c][t] + Times(c, sub[s].channels)
                                     ELSE registry[c][t]
  BY <1>1 DEF PubSubTypes
<1>7. RegistryExact'
  BY <1>1, <1>3, <1>4, <1>6 DEF RegistryExact
<1> QED BY <1>1, <1>2, <1>5, <1>7 DEF PubSubTypes, BuffersFit, SubscribersGetAll

\* A subscription that closes leaves no registration behind.
LEMMA CloseSubscriptionStep ==
    ASSUME PSInv, NEW s \in Subs, CloseSubscription(s)
    PROVE  PSInv'
<1> USE DEF PSInv
<1>1. /\ sub[s].stage = "open"
      /\ sub' = [sub EXCEPT ![s].stage = "closed"]
      /\ registry' = [c \in Channels |-> IF c \in ToSet(sub[s].channels)
                                         THEN Unregistered(registry[c], s) ELSE registry[c]]
      /\ UNCHANGED <<buffer, closer, owed>>
  BY DEF CloseSubscription
<1>2. sub' \in [Subs -> [stage : Stages, channels : Seq(Channels)]]
  BY <1>1 DEF PubSubTypes, Stages
<1>3. \A t \in Subs : /\ sub'[t].channels = sub[t].channels
                      /\ sub'[t].stage = IF t = s THEN "closed" ELSE sub[t].stage
  BY <1>1 DEF PubSubTypes
<1>4. registry' \in [Channels -> [Subs -> Nat]]
  BY <1>1 DEF PubSubTypes, Unregistered
<1>5. \A c \in Channels, t \in Subs : t # s => registry'[c][t] = registry[c][t]
  BY <1>1 DEF PubSubTypes, Unregistered
<1>6. ASSUME NEW c \in Channels
      PROVE  registry'[c][s] = 0
  <2>1. CASE c \in ToSet(sub[s].channels)
    BY <1>1, <2>1 DEF PubSubTypes, Unregistered
  <2>2. CASE c \notin ToSet(sub[s].channels)
    <3>1. registry'[c][s] = registry[c][s]
      BY <1>1, <2>2
    <3>2. registry[c][s] = Times(c, sub[s].channels)
      BY <1>1 DEF RegistryExact
    <3>3. sub[s].channels \in Seq(Channels)
      BY DEF PubSubTypes
    <3> QED BY <2>2, <3>1, <3>2, <3>3, TimesNamed
  <2> QED BY <2>1, <2>2
<1>7. RegistryExact'
  BY <1>3, <1>5, <1>6 DEF RegistryExact
<1> QED BY <1>1, <1>2, <1>4, <1>7 DEF PubSubTypes, BuffersFit, SubscribersGetAll

\* A subscription whose buffer has room for what is due gets just that.
LEMMA PublishStep ==
    ASSUME PSInv, NEW c \in Channels, NEW payload \in Payloads, Publish(c, payload)
    PROVE  PSInv'
<1> USE DEF PSInv
<1> DEFINE msg == <<c, payload>>
           due(s) == IF sub[s].stage = "open" THEN Times(c, sub[s].channels) ELSE 0
<1>1. /\ buffer' = [s \in Subs |-> Deliver(s, msg, registry[c][s])]
      /\ owed' = [s \in Subs |->
                      IF owed[s].overran \/ Len(buffer[s]) + due(s) > BufferSize
                      THEN [msgs |-> <<>>, overran |-> TRUE]
                      ELSE [owed[s] EXCEPT !.msgs = @ \o Repeat(msg, due(s))]]
      /\ UNCHANGED <<registry, sub, closer>>
  BY DEF Publish
<1>2. msg \in Message
  BY DEF Message
<1> HIDE DEF msg
<1>3. ASSUME NEW s \in Subs
      PROVE  /\ due(s) \in Nat /\ registry[c][s] = due(s)
             /\ buffer[s] \in Seq(Message) /\ Len(buffer[s]) \in 0..BufferSize
  <2>1. sub[s].channels \in Seq(Channels) /\ buffer[s] \in Seq(Message)
    BY DEF PubSubTypes
  <2>2. Times(c, sub[s].channels) \in Nat
    BY <2>1, TimesNamed
  <2>3. registry[c][s] = due(s)
    BY DEF RegistryExact
  <2>4. Len(buffer[s]) \in 0..BufferSize
    BY <2>1, PubSubAssumption DEF BuffersFit
  <2> QED BY <2>1, <2>2, <2>3, <2>4
<1> HIDE DEF due
<1>4. ASSUME NEW s \in Subs
      PROVE  \E n \in Nat :
                /\ n <= BufferSize - Len(buffer[s])
                /\ (Len(buffer[s]) + due(s) <= BufferSize => n = due(s))
                /\ buffer'[s] = buffer[s] \o Repeat(msg, n)
  <2> DEFINE room == BufferSize - Len(buffer[s])
             n == IF due(s) <= room THEN due(s) ELSE room
  <2>1. room \in Nat /\ n \in Nat /\ n <= room
        /\ (Len(buffer[s]) + due(s) <= BufferSize => n = due(s))
    BY <1>3, PubSubAssumption
  <2>2. buffer'[s] = buffer[s] \o Repeat(msg, n)
    BY <1>1, <1>3 DEF Deliver
  <2> QED BY <2>1, <2>2
<1>5. ASSUME NEW s \in Subs
      PROVE  buffer'[s] \in Seq(Message) /\ Len(buffer'[s]) <= BufferSize
  <2>1. PICK n \in Nat : /\ n <= BufferSize - Len(buffer[s])
                         /\ buffer'[s] = buffer[s] \o Repeat(msg, n)
    BY <1>4
  <2>2. Repeat(msg, n) \in Seq(Message) /\ Len(Repeat(msg, n)) = n
    BY <1>2, Repeated
  <2>3. /\ buffer[s] \o Repeat(msg, n) \in Seq(Message)
        /\ Len(buffer[s] \o Repeat(msg, n)) = Len(buffer[s]) + n
    <3> DEFINE part == Repeat(msg, n)
               old == buffer[s]
    <3>1. old \in Seq(Message) /\ part \in Seq(Message) /\ Len(part) = n
      BY <1>3, <2>2
    <3> HIDE DEF part, old
    <3>2. old \o part \in Seq(Message) /\ Len(old \o part) = Len(old) + Len(part)
      BY <3>1, ConcatProperties
    <3> QED BY <3>1, <3>2 DEF part, old
  <2> QED BY <1>3, <2>1, <2>3, PubSubAssumption
<1>6. buffer' \in [Subs -> Seq(Message)] /\ BuffersFit'
  BY <1>1, <1>5 DEF BuffersFit
<1>7. ASSUME NEW s \in Subs
      PROVE  /\ owed'[s] \in [msgs : Seq(Message), overran : BOOLEAN]
             /\ owed'[s].overran \/ buffer'[s] = owed'[s].msgs
  <2>1. owed[s] \in [msgs : Seq(Message), overran : BOOLEAN]
    BY DEF PubSubTypes
  <2>2. CASE owed[s].overran \/ Len(buffer[s]) + due(s) > BufferSize
    <3>1. owed'[s] = [msgs |-> <<>>, overran |-> TRUE]
      BY <1>1, <2>2
    <3> QED BY <3>1, EmptySeq
  <2>3. CASE ~(owed[s].overran \/ Len(buffer[s]) + due(s) > BufferSize)
    <3>1. owed'[s] = [owed[s] EXCEPT !.msgs = @ \o Repeat(msg, due(s))]
      BY <1>1, <2>3
    <3>2. Repeat(msg, due(s)) \in Seq(Message)
      BY <1>2, <1>3, Repeated
    <3>3. owed[s].msgs \o Repeat(msg, due(s)) \in Seq(Message)
      BY <2>1, <3>2, ConcatProperties
    <3>4. Len(buffer[s]) + due(s) <= BufferSize
      BY <1>3, <2>3, PubSubAssumption
    <3>5. buffer'[s] = buffer[s] \o Repeat(msg, due(s))
      BY <1>4, <3>4
    <3>6. buffer[s] = owed[s].msgs
      BY <2>3 DEF SubscribersGetAll
    <3> QED BY <2>1, <3>1, <3>3, <3>5, <3>6
  <2> QED BY <2>2, <2>3
<1>8. owed' \in [Subs -> [msgs : Seq(Message), overran : BOOLEAN]] /\ SubscribersGetAll'
  BY <1>1, <1>7 DEF SubscribersGetAll
<1> QED BY <1>1, <1>6, <1>8 DEF PubSubTypes, RegistryExact

\* A reader takes the message that was put in first.
LEMMA ReceiveStep == ASSUME PSInv, NEW s \in Subs, Receive(s) PROVE PSInv'
<1> USE DEF PSInv
<1>1. /\ buffer[s] # <<>>
      /\ buffer' = [buffer EXCEPT ![s] = Tail(@)]
      /\ owed' = [owed EXCEPT ![s].msgs = IF @ = <<>> THEN @ ELSE Tail(@)]
      /\ UNCHANGED <<registry, sub, closer>>
  BY DEF Receive
<1>2. buffer[s] \in Seq(Message) /\ owed[s].msgs \in Seq(Message)
      /\ owed[s] \in [msgs : Seq(Message), overran : BOOLEAN]
  BY DEF PubSubTypes
<1>3. Tail(buffer[s]) \in Seq(Message) /\ Len(Tail(buffer[s])) = Len(buffer[s]) - 1
  BY <1>1, <1>2, HeadTailProperties
<1>4. owed[s].msgs # <<>> => Tail(owed[s].msgs) \in Seq(Message)
  BY <1>2, HeadTailProperties
<1>5. buffer' \in [Subs -> Seq(Message)]
  BY <1>1, <1>3 DEF PubSubTypes
<1>6. \A t \in Subs :
          /\ owed'[t].overran = owed[t].overran
          /\ owed'[t].msgs = IF t = s /\ owed[t].msgs # <<>> THEN Tail(owed[t].msgs)
                                                             ELSE owed[t].msgs
  BY <1>1 DEF PubSubTypes
<1>7. owed' \in [Subs -> [msgs : Seq(Message), overran : BOOLEAN]]
  <2> DEFINE msgs == IF owed[s].msgs = <<>> THEN owed[s].msgs ELSE Tail(owed[s].msgs)
  <2>1. msgs \in Seq(Message)
    BY <1>2, <1>4
  <2>2. [owed[s] EXCEPT !.msgs = msgs] \in [msgs : Seq(Message), overran : BOOLEAN]
    BY <1>2, <2>1, Zenon
  <2>3. owed' = [owed EXCEPT ![s] = [owed[s] EXCEPT !.msgs = msgs]]
    BY <1>1
  <2> HIDE DEF msgs
  <2> QED BY <2>2, <2>3 DEF PubSubTypes
<1>8. BuffersFit'
  BY <1>1, <1>2, <1>3, PubSubAssumption DEF BuffersFit, PubSubTypes
<1>9. SubscribersGetAll'
  BY <1>1, <1>6 DEF SubscribersGetAll, PubSubTypes
<1> QED BY <1>1, <1>5, <1>7, <1>8, <1>9 DEF PubSubTypes, RegistryExact

\* Every step keeps the invariant.
LEMMA NextPSInv == PSInv /\ [PubSubNext]_pubsubVars => PSInv'
<1> SUFFICES ASSUME PSInv, [PubSubNext]_pubsubVars PROVE PSInv'
  OBVIOUS
<1> USE DEF PSInv
<1>1. ASSUME NEW s \in Subs, NEW cs \in ChannelLists, BeginSubscribe(s, cs) PROVE PSInv'
  <2>1. cs \in Seq(Channels)
    BY PubSubAssumption
  <2>2. /\ sub[s].stage = "none"
        /\ sub' = [sub EXCEPT ![s] = [stage |-> "opening", channels |-> cs]]
        /\ UNCHANGED <<registry, buffer, closer, owed>>
    BY <1>1 DEF BeginSubscribe
  <2>3. sub' \in [Subs -> [stage : Stages, channels : Seq(Channels)]]
    BY <2>1, <2>2 DEF PubSubTypes, Stages
  <2>4. RegistryExact'
    BY <2>2 DEF RegistryExact, PubSubTypes
  <2> QED BY <2>2, <2>3, <2>4 DEF PubSubTypes, BuffersFit, SubscribersGetAll
<1>2. ASSUME NEW s \in Subs, Register(s) PROVE PSInv'
  BY <1>2, RegisterStep
<1>3. ASSUME NEW s \in Subs, Receive(s) PROVE PSInv'
  BY <1>3, ReceiveStep
<1>4. ASSUME NEW s \in Subs, CloseSubscription(s) PROVE PSInv'
  BY <1>4, CloseSubscriptionStep
<1>5. ASSUME NEW s \in Subs, Forget(s) PROVE PSInv'
  <2>1. /\ sub[s].stage = "closed"
        /\ sub' = [sub EXCEPT ![s] = [stage |-> "none", channels |-> <<>>]]
        /\ buffer' = [buffer EXCEPT ![s] = <<>>]
        /\ owed' = [owed EXCEPT ![s] = NothingOwed]
        /\ UNCHANGED <<registry, closer>>
    BY <1>5 DEF Forget
  <2>2. <<>> \in Seq(Channels) /\ <<>> \in Seq(Message) /\ Len(<<>>) = 0
    BY EmptySeq
  <2>3. sub' \in [Subs -> [stage : Stages, channels : Seq(Channels)]]
    BY <2>1, <2>2 DEF PubSubTypes, Stages
  <2>4. NothingOwed \in [msgs : Seq(Message), overran : BOOLEAN]
    BY <2>2 DEF NothingOwed
  <2>5. buffer' \in [Subs -> Seq(Message)]
        /\ owed' \in [Subs -> [msgs : Seq(Message), overran : BOOLEAN]]
    BY <2>1, <2>2, <2>4 DEF PubSubTypes
  <2>6. RegistryExact'
    BY <2>1 DEF RegistryExact, PubSubTypes
  <2>7. BuffersFit'
    BY <2>1, <2>2, PubSubAssumption DEF BuffersFit, PubSubTypes
  <2>8. SubscribersGetAll'
    BY <2>1 DEF SubscribersGetAll, PubSubTypes, NothingOwed
  <2> QED BY <2>1, <2>3, <2>5, <2>6, <2>7, <2>8 DEF PubSubTypes
<1>6. ASSUME NEW c \in Channels, NEW payload \in Payloads, Publish(c, payload) PROVE PSInv'
  BY <1>6, PublishStep
<1>7. CASE BeginClose \/ LockRegistry \/ UNCHANGED pubsubVars
  BY <1>7 DEF BeginClose, LockRegistry, pubsubVars, PubSubTypes, RegistryExact, BuffersFit,
              SubscribersGetAll
<1>8. ASSUME EndClose PROVE PSInv'
  <2>1. /\ registry' = [c \in Channels |-> [s \in Subs |-> 0]] /\ closer' = "idle"
        /\ Registered = {}
        /\ UNCHANGED <<sub, buffer, owed>>
    BY <1>8 DEF EndClose
  <2>2. \A c \in Channels, s \in Subs : registry[c][s] = 0
    BY <2>1 DEF Registered, PubSubTypes
  <2>3. RegistryExact'
    BY <2>1, <2>2 DEF RegistryExact
  <2> QED BY <2>1, <2>3 DEF PubSubTypes, BuffersFit, SubscribersGetAll
<1> QED
  BY <1>1, <1>2, <1>3, <1>4, <1>5, <1>6, <1>7, <1>8 DEF PubSubNext

\* The invariant holds for a new backend.
LEMMA InitPSInv == PubSubInit => PSInv
  BY EmptySeq, PubSubAssumption
  DEF PubSubInit, PSInv, PubSubTypes, RegistryExact, BuffersFit, SubscribersGetAll,
      NothingOwed, Stages

\* The registry of the mock backend never names a subscription that is not open,
\* so that Publish sends on no closed Go channel, and no buffer overflows.
THEOREM OnlyOpenAreRegistered == PubSubSpec => []PubSubTypeOK
<1>1. PSInv => PubSubTypeOK
  <2> SUFFICES ASSUME PSInv PROVE PubSubTypeOK
    OBVIOUS
  <2>1. \A s \in Subs : sub[s].stage \in Stages
    BY DEF PSInv, PubSubTypes
  <2>2. \A s \in Registered : sub[s].stage = "open"
    BY DEF PSInv, RegistryExact, Registered
  <2> QED BY <2>1, <2>2 DEF PSInv, PubSubTypes, PubSubTypeOK, BuffersFit, Stages
<1> QED BY <1>1, InitPSInv, NextPSInv, PTL DEF PubSubSpec

\* A subscription of the mock backend whose buffer never was full receives every
\* message published to its channels between Subscribe and Close, in order and as
\* often as the channel is named, whoever else subscribes and closes meanwhile.
THEOREM SubscribersAlwaysGetAll == PubSubSpec => []SubscribersGetAll
<1>1. PSInv => SubscribersGetAll
  BY DEF PSInv
<1> QED BY <1>1, InitPSInv, NextPSInv, PTL DEF PubSubSpec

-----------------------------------------------------------------------------
(***************************************************************************)
(* Streams: for any consumer groups and any number of entries.             *)
(***************************************************************************)

StreamTypes ==
    /\ seqNo \in 0..MaxEntries
    /\ stream \in Seq(1..seqNo) /\ Len(stream) <= seqNo
    /\ \A i, j \in DOMAIN stream : i < j => stream[i] < stream[j]
    /\ cursor \in [Groups -> 0..MaxEntries]
    /\ given \in [Groups -> SUBSET (1..seqNo)]
    /\ shifted \subseteq Groups /\ irregular \subseteq Groups

\* A cursor that no deletion has shifted is not beyond the last entry, so that
\* nothing can be added before it.
CursorWithin == \A g \in Groups : g \in shifted \/ cursor[g] <= Len(stream)

\* What a group has been given and is still there stands before its cursor, if
\* the group has read regularly.
GivenIsBefore ==
    \A g \in Groups : g \in irregular \/
        \A i \in DOMAIN stream : stream[i] \in given[g] => i <= cursor[g]

\* The inductive invariant.
StInv == StreamTypes /\ CursorWithin /\ NothingSkipped /\ GivenIsBefore /\ GivenOnce

\* A batch is a stretch of the stream that follows the start; it is not longer
\* than was asked for.
LEMMA TakenStretch ==
    ASSUME StreamTypes, NEW g \in Groups, NEW id, NEW count \in Nat
    PROVE  /\ Start(g, id) \in Nat
           /\ Len(Taken(g, id, count)) \in Nat
           /\ DOMAIN Taken(g, id, count) = 1..Len(Taken(g, id, count))
           /\ Taken(g, id, count) = <<>> <=> Len(Taken(g, id, count)) = 0
           /\ Taken(g, id, count) # <<>> =>
                  Start(g, id) + Len(Taken(g, id, count)) <= Len(stream)
           /\ \A j \in 1..Len(Taken(g, id, count)) :
                  /\ Start(g, id) + j \in DOMAIN stream
                  /\ Taken(g, id, count)[j] = stream[Start(g, id) + j]
<1> DEFINE start == Start(g, id)
           n == Len(stream)
           rest == SubSeq(stream, start + 1, n)
           ids == Taken(g, id, count)
<1>1. start \in Nat
  BY StreamsAssumption DEF Start, StreamTypes
<1>2. stream \in Seq(Nat) /\ n \in Nat /\ DOMAIN stream = 1..n
  <2>1. stream \in Seq(1..seqNo) /\ 1..seqNo \subseteq Nat
    BY DEF StreamTypes
  <2>2. stream \in Seq(Nat)
    BY <2>1, SeqMonotonic
  <2> QED BY <2>2
<1> HIDE DEF start, n
<1>3. /\ rest \in Seq(Nat) /\ Len(rest) = (IF start <= n THEN n - start ELSE 0)
      /\ \A j \in 1..Len(rest) : rest[j] = stream[start + j]
  <2>1. CASE start <= n
    <3>1. start + 1 \in 1..n + 1 /\ n \in start..n
      BY <1>1, <1>2, <2>1
    <3>2. /\ rest \in Seq(Nat)
          /\ Len(rest) = IF start + 1 <= n THEN n - (start + 1) + 1 ELSE 0
          /\ \A j \in 1..n - (start + 1) + 1 : rest[j] = stream[(start + 1) + j - 1]
      BY <1>1, <1>2, <3>1, SubSeqProperties DEF n
    <3>3. Len(rest) = n - start
      BY <1>1, <1>2, <2>1, <3>2
    <3>4. ASSUME NEW j \in 1..Len(rest) PROVE rest[j] = stream[start + j]
      <4>1. j \in 1..n - (start + 1) + 1 /\ (start + 1) + j - 1 = start + j
        BY <1>1, <1>2, <3>3
      <4> QED BY <3>2, <4>1
    <3> QED BY <2>1, <3>2, <3>3, <3>4
  <2>2. CASE start > n
    <3>1. rest = <<>>
      BY <1>1, <1>2, <2>2
    <3>2. Len(rest) = 0 /\ rest \in Seq(Nat)
      BY <3>1, EmptySeq
    <3> QED BY <1>1, <1>2, <2>2, <3>2
  <2> QED BY <1>1, <1>2, <2>1, <2>2
<1>4. ids = IF count > 0 /\ Len(rest) > count THEN SubSeq(rest, 1, count) ELSE rest
  BY DEF Taken, start, n
<1> HIDE DEF rest, ids
<1>5. Len(rest) \in Nat /\ (Len(rest) > 0 => start + Len(rest) = n)
  BY <1>1, <1>2, <1>3
<1>6. /\ ids \in Seq(Nat) /\ Len(ids) \in Nat /\ Len(ids) <= Len(rest)
      /\ \A j \in 1..Len(ids) : ids[j] = rest[j]
  <2>1. CASE count > 0 /\ Len(rest) > count
    <3>1. 1 \in 1..Len(rest) + 1 /\ count \in 0..Len(rest)
      BY <1>5, <2>1
    <3>2. SubSeq(rest, 1, count) \in Seq(Nat) /\ Len(SubSeq(rest, 1, count)) = count
          /\ \A j \in 1..count : SubSeq(rest, 1, count)[j] = rest[j]
      BY <1>3, <1>5, <2>1, <3>1, SubSeqProperties
    <3> QED BY <1>4, <1>5, <2>1, <3>2
  <2>2. CASE ~(count > 0 /\ Len(rest) > count)
    BY <1>3, <1>4, <1>5, <2>2
  <2> QED BY <2>1, <2>2
<1>7. ids # <<>> => Len(ids) > 0
  BY <1>6, EmptySeq
<1>8. ids = <<>> => Len(ids) = 0
  BY EmptySeq
<1>9. ids # <<>> => start + Len(ids) <= n
  BY <1>1, <1>2, <1>5, <1>6, <1>7
<1>10. ASSUME NEW j \in 1..Len(ids)
       PROVE  start + j \in DOMAIN stream /\ ids[j] = stream[start + j]
  <2>1. j \in 1..Len(rest) /\ ids[j] = rest[j] /\ Len(rest) > 0
    BY <1>5, <1>6
  <2>2. start + j \in 1..n
    BY <1>1, <1>2, <1>5, <2>1
  <2> QED BY <1>2, <1>3, <2>1, <2>2
<1>11. DOMAIN ids = 1..Len(ids)
  BY <1>6
<1> QED BY <1>1, <1>6, <1>7, <1>8, <1>9, <1>10, <1>11 DEF start, ids, n

\* An entry is added at the end; its ID is new.
LEMMA XAddStep == ASSUME StInv, XAdd PROVE StInv'
<1> USE DEF StInv
<1>1. /\ seqNo < MaxEntries /\ seqNo' = seqNo + 1 /\ stream' = Append(stream, seqNo + 1)
      /\ batch' = NoBatch /\ UNCHANGED <<cursor, given, shifted, irregular>>
  BY DEF XAdd
<1>2. seqNo \in Nat /\ MaxEntries \in Nat /\ stream \in Seq(1..seqNo)
      /\ 1..seqNo \subseteq 1..(seqNo + 1)
  BY StreamsAssumption DEF StreamTypes
<1> DEFINE n == Len(stream)
<1>3. n \in Nat /\ DOMAIN stream = 1..n /\ \A i \in 1..n : stream[i] \in 1..seqNo
  BY <1>2, LenProperties, ElementOfSeq
<1>4. stream \in Seq(1..(seqNo + 1)) /\ seqNo + 1 \in 1..(seqNo + 1)
  BY <1>2, SeqMonotonic
<1>5. /\ stream' \in Seq(1..(seqNo + 1)) /\ Len(stream') = n + 1
      /\ DOMAIN stream' = 1..(n + 1) /\ stream'[n + 1] = seqNo + 1
      /\ \A i \in 1..n : stream'[i] = stream[i]
  BY <1>1, <1>3, <1>4, AppendProperties
<1> HIDE DEF n
<1>6. \A i, j \in DOMAIN stream' : i < j => stream'[i] < stream'[j]
  <2> SUFFICES ASSUME NEW i \in 1..(n + 1), NEW j \in 1..(n + 1), i < j
               PROVE  stream'[i] < stream'[j]
    BY <1>5
  <2>1. i \in 1..n /\ stream'[i] = stream[i] /\ stream[i] \in 1..seqNo
    BY <1>3, <1>5
  <2>2. CASE j = n + 1
    BY <1>2, <1>5, <2>1, <2>2
  <2>3. CASE j # n + 1
    <3>1. j \in 1..n
      BY <1>3, <2>3
    <3> QED BY <1>3, <1>5, <2>1, <3>1 DEF StreamTypes
  <2> QED BY <2>2, <2>3
<1>7. StreamTypes'
  <2>1. seqNo' \in 0..MaxEntries /\ Len(stream') <= seqNo'
    BY <1>1, <1>2, <1>3, <1>5 DEF StreamTypes, n
  <2>2. given' \in [Groups -> SUBSET (1..seqNo')]
    BY <1>1, <1>2 DEF StreamTypes
  <2> QED BY <1>1, <1>5, <1>6, <2>1, <2>2 DEF StreamTypes
<1>8. CursorWithin'
  BY <1>1, <1>3, <1>5 DEF CursorWithin, StreamTypes, n
<1>9. NothingSkipped'
  <2> SUFFICES ASSUME NEW g \in Groups, g \notin shifted, NEW i \in 1..(n + 1), i <= cursor[g]
               PROVE  stream'[i] \in given[g]
    BY <1>1, <1>5 DEF NothingSkipped
  <2>1. cursor[g] <= n /\ cursor[g] \in Nat
    BY DEF CursorWithin, StreamTypes, n
  <2>2. i \in 1..n
    BY <1>3, <2>1
  <2> QED BY <1>3, <1>5, <2>2 DEF NothingSkipped
<1>10. GivenIsBefore'
  <2> SUFFICES ASSUME NEW g \in Groups, g \notin irregular, NEW i \in 1..(n + 1),
                      stream'[i] \in given[g]
               PROVE  i <= cursor[g]
    BY <1>1, <1>5 DEF GivenIsBefore
  <2>1. given[g] \subseteq 1..seqNo /\ seqNo + 1 \notin 1..seqNo
    BY <1>2 DEF StreamTypes
  <2>2. i # n + 1
    BY <1>5, <2>1
  <2>3. i \in 1..n
    BY <1>3, <2>2
  <2> QED BY <1>3, <1>5, <2>3 DEF GivenIsBefore
<1> QED BY <1>1, <1>7, <1>8, <1>9, <1>10 DEF GivenOnce, NoBatch

\* What stands behind a place of a sequence.
LEMMA TailProperties ==
    ASSUME NEW S, NEW s \in Seq(S), NEW d \in 1..Len(s)
    PROVE  /\ SubSeq(s, d + 1, Len(s)) \in Seq(S)
           /\ Len(SubSeq(s, d + 1, Len(s))) = Len(s) - d
           /\ \A i \in 1..(Len(s) - d) : SubSeq(s, d + 1, Len(s))[i] = s[d + i]
<1> DEFINE m == d + 1
           n == Len(s)
           rest == SubSeq(s, m, n)
<1>1. n \in Nat /\ d \in Nat /\ d <= n /\ m = d + 1 /\ m \in Int /\ n \in Int
  BY LenProperties
<1>2. \A i \in m..n : s[i] \in S
  BY ElementOfSeq
<1> HIDE DEF m, n
<1>3. /\ rest \in Seq(S)
      /\ Len(rest) = IF m <= n THEN n - m + 1 ELSE 0
      /\ \A i \in 1..(n - m + 1) : rest[i] = s[m + i - 1]
  BY <1>1, <1>2, SubSeqProperties
<1> HIDE DEF rest
<1>4. Len(rest) = n - d
  BY <1>1, <1>3
<1>5. \A i \in 1..(n - d) : i \in 1..(n - m + 1) /\ m + i - 1 = d + i
  BY <1>1
<1>6. \A i \in 1..(n - d) : rest[i] = s[d + i]
  BY <1>3, <1>5
<1> QED BY <1>3, <1>4, <1>6 DEF rest, m, n

\* The entries behind a deleted one move up by one place.
LEMMA XDelStep == ASSUME StInv, NEW d \in DOMAIN stream, XDel(d) PROVE StInv'
<1> USE DEF StInv
<1> DEFINE n == Len(stream)
           old(i) == IF i < d THEN i ELSE i + 1
           head == SubSeq(stream, 1, d - 1)
           rest == SubSeq(stream, d + 1, n)
<1>1. /\ stream' = head \o rest
      /\ shifted' = shifted \union {g \in Groups : d <= cursor[g]}
      /\ batch' = NoBatch /\ UNCHANGED <<seqNo, cursor, given, irregular>>
  BY DEF XDel
<1>2. /\ stream \in Seq(1..seqNo) /\ n \in Nat /\ DOMAIN stream = 1..n /\ d \in 1..n
      /\ seqNo \in Nat
      /\ \A i \in 1..n : stream[i] \in 1..seqNo
  <2>1. stream \in Seq(1..seqNo) /\ seqNo \in Nat
    BY DEF StreamTypes
  <2> QED BY <2>1, LenProperties, ElementOfSeq
<1> HIDE DEF n
<1>3. /\ head \in Seq(1..seqNo) /\ Len(head) = d - 1
      /\ \A i \in 1..(d - 1) : head[i] = stream[i]
  <2>1. \A i \in 1..(d - 1) : stream[i] \in 1..seqNo
    BY <1>2
  <2> QED BY <1>2, <2>1, SubSeqProperties
<1>4. /\ rest \in Seq(1..seqNo) /\ Len(rest) = n - d
      /\ \A i \in 1..(n - d) : rest[i] = stream[d + i]
  BY <1>2, TailProperties DEF n
<1> HIDE DEF head, rest
<1>5. /\ stream' \in Seq(1..seqNo) /\ Len(stream') = n - 1 /\ DOMAIN stream' = 1..(n - 1)
      /\ \A i \in 1..(n - 1) : old(i) \in 1..n /\ stream'[i] = stream[old(i)]
  <2>1. head \o rest \in Seq(1..seqNo) /\ Len(head \o rest) = Len(head) + Len(rest)
        /\ \A i \in 1..Len(head) + Len(rest) :
              (head \o rest)[i] = IF i <= Len(head) THEN head[i] ELSE rest[i - Len(head)]
    BY <1>3, <1>4, ConcatProperties
  <2>2. Len(head) + Len(rest) = n - 1
    BY <1>2, <1>3, <1>4
  <2>3. ASSUME NEW i \in 1..(n - 1)
        PROVE  old(i) \in 1..n /\ (head \o rest)[i] = stream[old(i)]
    <3>1. CASE i < d
      BY <1>2, <1>3, <1>4, <2>1, <2>2, <3>1
    <3>2. CASE i >= d
      <4>1. (head \o rest)[i] = rest[i - (d - 1)]
        <5>1. i \in 1..(Len(head) + Len(rest)) /\ ~(i <= Len(head))
          BY <1>2, <1>3, <2>2, <3>2
        <5> QED BY <1>3, <2>1, <5>1
      <4>2. i - (d - 1) \in 1..(n - d) /\ d + (i - (d - 1)) = i + 1
        BY <1>2, <3>2
      <4>3. rest[i - (d - 1)] = stream[i + 1]
        BY <1>4, <4>2
      <4>4. old(i) = i + 1 /\ i + 1 \in 1..n
        BY <1>2, <3>2
      <4> QED BY <4>1, <4>3, <4>4
    <3>3. i < d \/ i >= d
      BY <1>2
    <3> QED BY <3>1, <3>2, <3>3
  <2>4. DOMAIN stream' = 1..(n - 1)
    BY <1>1, <2>1, <2>2
  <2> QED BY <1>1, <2>1, <2>2, <2>3, <2>4
<1>6. \A i, j \in 1..(n - 1) : i < j => old(i) < old(j)
  BY <1>2
<1>7. StreamTypes'
  <2>1. ASSUME NEW i \in DOMAIN stream', NEW j \in DOMAIN stream', i < j
        PROVE  stream'[i] < stream'[j]
    <3>1. old(i) \in DOMAIN stream /\ old(j) \in DOMAIN stream /\ old(i) < old(j)
      BY <1>2, <1>5, <1>6, <2>1
    <3>2. stream[old(i)] < stream[old(j)]
      BY <3>1 DEF StreamTypes
    <3> QED BY <1>5, <2>1, <3>2
  <2>2. Len(stream') <= seqNo'
    <3>1. n <= seqNo
      BY DEF StreamTypes, n
    <3> QED BY <1>1, <1>2, <1>5, <3>1
  <2>3. shifted' \subseteq Groups
    BY <1>1 DEF StreamTypes
  <2> QED BY <1>1, <1>5, <2>1, <2>2, <2>3 DEF StreamTypes
<1>8. \A g \in Groups : /\ cursor[g] \in Nat
                        /\ g \notin shifted' => g \notin shifted /\ cursor[g] < d
  BY <1>1, <1>2 DEF StreamTypes
<1>9. CursorWithin'
  BY <1>1, <1>2, <1>5, <1>8 DEF CursorWithin
<1>10. NothingSkipped'
  <2> SUFFICES ASSUME NEW g \in Groups, g \notin shifted', NEW i \in 1..(n - 1),
                      i <= cursor[g]
               PROVE  stream'[i] \in given[g]
    BY <1>1, <1>5 DEF NothingSkipped
  <2>1. old(i) = i /\ i \in 1..n
    BY <1>2, <1>8
  <2> QED BY <1>2, <1>5, <1>8, <2>1 DEF NothingSkipped
<1>11. GivenIsBefore'
  <2> SUFFICES ASSUME NEW g \in Groups, g \notin irregular, NEW i \in 1..(n - 1),
                      stream'[i] \in given[g]
               PROVE  i <= cursor[g]
    BY <1>1, <1>5 DEF GivenIsBefore
  <2>1. old(i) \in 1..n /\ stream[old(i)] \in given[g]
    BY <1>5
  <2>2. old(i) <= cursor[g]
    BY <1>2, <2>1 DEF GivenIsBefore
  <2> QED BY <1>2, <1>8, <2>1, <2>2
<1> QED BY <1>1, <1>7, <1>9, <1>10, <1>11 DEF GivenOnce, NoBatch

\* A batch is read.
LEMMA XReadGroupStep ==
    ASSUME StInv, NEW g \in Groups, NEW id \in {">", "0"}, NEW count \in Nat,
           XReadGroup(g, id, count)
    PROVE  StInv'
<1> USE DEF StInv
<1> DEFINE ids == Taken(g, id, count)
           start == Start(g, id)
           full == count > 0 /\ Len(ids) = count
           n == Len(stream)
<1>1. /\ cursor' = [cursor EXCEPT ![g] = IF full THEN start + count ELSE cursor[g]]
      /\ given' = [given EXCEPT ![g] = @ \union ToSet(ids)]
      /\ batch' = [group |-> g, ids |-> ids,
                   repeats |-> id = ">" /\ ToSet(ids) \intersect given[g] # {}]
      /\ shifted' = IF id # ">" /\ full THEN shifted \ {g} ELSE shifted
      /\ irregular' = IF ids # <<>> /\ ~(id = ">" /\ full) THEN irregular \union {g}
                                                           ELSE irregular
      /\ UNCHANGED <<stream, seqNo>>
  BY DEF XReadGroup, NewCursor
<1>2. /\ start \in Nat /\ Len(ids) \in Nat /\ DOMAIN ids = 1..Len(ids)
      /\ ids = <<>> <=> Len(ids) = 0
      /\ ids # <<>> => start + Len(ids) <= n
      /\ \A j \in 1..Len(ids) : start + j \in DOMAIN stream /\ ids[j] = stream[start + j]
  BY TakenStretch
<1>3. start = IF id = ">" THEN cursor[g] ELSE 0
  BY DEF Start
<1>4. /\ n \in Nat /\ DOMAIN stream = 1..n /\ seqNo \in Nat /\ n <= MaxEntries
      /\ MaxEntries \in Nat
      /\ \A i \in 1..n : stream[i] \in 1..seqNo
      /\ \A i, j \in 1..n : i < j => stream[i] < stream[j]
  <2>1. stream \in Seq(1..seqNo) /\ seqNo \in 0..MaxEntries /\ n <= seqNo
    BY DEF StreamTypes
  <2> QED BY <2>1, StreamsAssumption, LenProperties, ElementOfSeq DEF StreamTypes
<1> HIDE DEF ids, start, n
<1>5. \A i, j \in 1..n : stream[i] = stream[j] => i = j
  BY <1>4
\* The entries of the batch, by their places.
<1>6. \A i \in 1..n : stream[i] \in ToSet(ids) <=> start < i /\ i <= start + Len(ids)
  <2>1. ASSUME NEW i \in 1..n, stream[i] \in ToSet(ids)
        PROVE  start < i /\ i <= start + Len(ids)
    <3>1. PICK j \in 1..Len(ids) : stream[i] = ids[j]
      BY <1>2, <2>1 DEF ToSet
    <3>2. i = start + j
      BY <1>2, <1>4, <1>5, <3>1
    <3> QED BY <1>2, <3>2
  <2>2. ASSUME NEW i \in 1..n, start < i, i <= start + Len(ids)
        PROVE  stream[i] \in ToSet(ids)
    <3>1. i - start \in 1..Len(ids) /\ start + (i - start) = i
      BY <1>2, <1>4, <2>2
    <3>2. ids[i - start] = stream[i]
      BY <1>2, <3>1
    <3> QED BY <1>2, <3>1, <3>2 DEF ToSet
  <2> QED BY <2>1, <2>2
<1>7. full => start + count \in 0..n
  BY <1>2, <1>4
<1>8. /\ \A h \in Groups : h # g => cursor'[h] = cursor[h] /\ given'[h] = given[h]
      /\ given'[g] = given[g] \union ToSet(ids)
      /\ cursor'[g] = IF full THEN start + count ELSE cursor[g]
  BY <1>1 DEF StreamTypes
<1>9. ToSet(ids) \subseteq 1..seqNo
  BY <1>2, <1>4 DEF ToSet
<1> HIDE DEF full
<1>10. StreamTypes'
  <2>1. cursor' \in [Groups -> 0..MaxEntries]
    <3>1. (IF full THEN start + count ELSE cursor[g]) \in 0..MaxEntries
      BY <1>4, <1>7 DEF StreamTypes
    <3> QED BY <1>1, <3>1 DEF StreamTypes
  <2>2. given' \in [Groups -> SUBSET (1..seqNo)]
    BY <1>1, <1>9 DEF StreamTypes
  <2>3. shifted' \subseteq Groups /\ irregular' \subseteq Groups
    BY <1>1 DEF StreamTypes
  <2> QED BY <1>1, <2>1, <2>2, <2>3 DEF StreamTypes
<1>11. CursorWithin'
  <2> SUFFICES ASSUME NEW h \in Groups, h \notin shifted'
               PROVE  cursor'[h] <= n
    BY <1>1 DEF CursorWithin, n
  <2>1. CASE h = g /\ full
    BY <1>4, <1>7, <1>8, <2>1
  <2>2. CASE ~(h = g /\ full)
    <3>1. cursor'[h] = cursor[h] /\ h \notin shifted
      BY <1>1, <1>8, <2>2
    <3> QED BY <3>1 DEF CursorWithin, n
  <2> QED BY <2>1, <2>2
<1>12. NothingSkipped'
  <2> SUFFICES ASSUME NEW h \in Groups, h \notin shifted', NEW i \in 1..n, i <= cursor'[h]
               PROVE  stream[i] \in given'[h]
    BY <1>1, <1>4 DEF NothingSkipped
  <2>1. CASE h # g \/ ~full
    <3>1. h \notin shifted /\ i <= cursor[h]
      BY <1>1, <1>8, <2>1
    <3> QED BY <1>4, <1>8, <3>1 DEF NothingSkipped
  <2>2. CASE h = g /\ full
    <3>1. i <= start + Len(ids)
      BY <1>8, <2>2 DEF full
    <3>2. CASE start < i
      BY <1>6, <1>8, <2>2, <3>1, <3>2
    <3>3. CASE i <= start
      <4>1. id = ">" /\ start = cursor[g] /\ g \notin shifted
        BY <1>1, <1>3, <2>2, <3>3
      <4> QED BY <1>4, <1>8, <2>2, <3>3, <4>1 DEF NothingSkipped
    <3> QED BY <1>2, <1>4, <3>2, <3>3
  <2> QED BY <2>1, <2>2
<1>13. GivenIsBefore'
  <2> SUFFICES ASSUME NEW h \in Groups, h \notin irregular', NEW i \in 1..n,
                      stream[i] \in given'[h]
               PROVE  i <= cursor'[h]
    BY <1>1, <1>4 DEF GivenIsBefore
  <2>1. CASE h # g
    BY <1>1, <1>4, <1>8, <2>1 DEF GivenIsBefore
  <2>2. CASE h = g /\ ids = <<>>
    <3>1. ToSet(ids) = {} /\ ~full
      BY <1>2, <2>2 DEF ToSet, full
    <3>2. stream[i] \in given[g] /\ cursor'[g] = cursor[g] /\ g \notin irregular
      BY <1>1, <1>8, <2>2, <3>1
    <3> QED BY <1>4, <2>2, <3>2 DEF GivenIsBefore
  <2>3. CASE h = g /\ ids # <<>>
    <3>1. id = ">" /\ full /\ g \notin irregular
      BY <1>1, <2>3
    <3>2. start = cursor[g] /\ cursor'[g] = start + Len(ids)
      BY <1>3, <1>8, <3>1 DEF full
    <3>3. stream[i] \in given[g] => i <= start
      BY <1>4, <3>1, <3>2 DEF GivenIsBefore
    <3>4. stream[i] \in ToSet(ids) => i <= start + Len(ids)
      BY <1>6
    <3>5. start <= start + Len(ids)
      BY <1>2
    <3> QED BY <1>2, <1>4, <1>8, <2>3, <3>2, <3>3, <3>4, <3>5
  <2> QED BY <2>1, <2>2, <2>3
<1>14. GivenOnce'
  <2> SUFFICES ASSUME id = ">", ToSet(ids) \intersect given[g] # {}
               PROVE  g \in irregular'
    BY <1>1 DEF GivenOnce
  <2>1. PICK j \in 1..Len(ids) : ids[j] \in given[g]
    BY <1>2 DEF ToSet
  <2>2. start + j \in 1..n /\ stream[start + j] \in given[g] /\ start = cursor[g]
    BY <1>2, <1>3, <1>4, <2>1
  <2>3. ~(start + j <= cursor[g])
    BY <1>2, <2>2
  <2>4. g \in irregular
    BY <1>4, <2>2, <2>3 DEF GivenIsBefore
  <2> QED BY <1>1, <2>4
<1> QED BY <1>10, <1>11, <1>12, <1>13, <1>14

\* Every step keeps the invariant.
LEMMA NextStInv == StInv /\ [StreamsNext]_streamVars => StInv'
<1> SUFFICES ASSUME StInv, [StreamsNext]_streamVars PROVE StInv'
  OBVIOUS
<1>1. CASE XAdd
  BY <1>1, XAddStep
<1>2. ASSUME NEW g \in Groups, NEW id \in {">", "0"}, NEW count \in 0..2,
             XReadGroup(g, id, count)
      PROVE  StInv'
  BY <1>2, XReadGroupStep
<1>3. ASSUME NEW g \in Groups, XGroupCreateMkStream(g) PROVE StInv'
  <2>1. /\ cursor' = [cursor EXCEPT ![g] = 0] /\ batch' = NoBatch
        /\ shifted' = shifted \ {g}
        /\ irregular' = IF given[g] # {} THEN irregular \union {g} ELSE irregular
        /\ UNCHANGED <<stream, seqNo, given>>
    BY <1>3 DEF XGroupCreateMkStream
  <2>2. /\ cursor'[g] = 0 /\ \A h \in Groups : h # g => cursor'[h] = cursor[h]
        /\ DOMAIN stream = 1..Len(stream) /\ Len(stream) \in Nat
    BY <2>1 DEF StInv, StreamTypes
  <2>3. StreamTypes'
    <3>1. cursor' \in [Groups -> 0..MaxEntries]
      BY <2>1, StreamsAssumption DEF StInv, StreamTypes
    <3>2. shifted' \subseteq Groups /\ irregular' \subseteq Groups
      BY <2>1 DEF StInv, StreamTypes
    <3> QED BY <2>1, <3>1, <3>2 DEF StInv, StreamTypes
  <2>4. CursorWithin'
    BY <2>1, <2>2 DEF StInv, CursorWithin
  <2>5. NothingSkipped'
    BY <2>1, <2>2 DEF StInv, NothingSkipped
  <2>6. GivenIsBefore'
    BY <2>1, <2>2 DEF StInv, GivenIsBefore
  <2> QED BY <2>1, <2>3, <2>4, <2>5, <2>6 DEF StInv, GivenOnce, NoBatch
<1>4. ASSUME NEW d \in DOMAIN stream, XDel(d) PROVE StInv'
  BY <1>4, XDelStep
<1>5. CASE UNCHANGED streamVars
  BY <1>5 DEF streamVars, StInv, StreamTypes, CursorWithin, NothingSkipped, GivenIsBefore,
              GivenOnce
<1> QED BY <1>1, <1>2, <1>3, <1>4, <1>5 DEF StreamsNext

\* The invariant holds for an empty stream.
LEMMA InitStInv == StreamsInit => StInv
<1> SUFFICES ASSUME StreamsInit PROVE StInv
  OBVIOUS
<1>1. <<>> \in Seq(1..0) /\ Len(<<>>) = 0 /\ DOMAIN <<>> = {}
  BY EmptySeq
<1> QED BY <1>1, StreamsAssumption
  DEF StreamsInit, StInv, StreamTypes, CursorWithin, NothingSkipped, GivenIsBefore, GivenOnce,
      NoBatch

\* XReadGroup of the mock backend skips no entry, although a group is no more than
\* an index into a list that XDel shortens: every entry before the cursor has been
\* given to the group, unless XDel has removed one before it since.
THEOREM NothingIsSkipped == StreamsSpec => []NothingSkipped
<1>1. StInv => NothingSkipped
  BY DEF StInv
<1> QED BY <1>1, InitStInv, NextStInv, PTL DEF StreamsSpec

\* A group that reads new entries only, always in full batches, and is not created
\* again gets no entry twice, whatever is added and deleted meanwhile.
THEOREM NothingGivenTwice == StreamsSpec => []GivenOnce
<1>1. StInv => GivenOnce
  BY DEF StInv
<1> QED BY <1>1, InitStInv, NextStInv, PTL DEF StreamsSpec

\* The entries of a stream stand in the order of their IDs.
THEOREM StreamsStayOrdered == StreamsSpec => []StreamsTypeOK
<1>1. StInv => StreamsTypeOK
  <2> SUFFICES ASSUME StInv PROVE StreamsTypeOK
    OBVIOUS
  <2>1. seqNo \in 0..MaxEntries /\ 1..seqNo \subseteq Ids
    BY StreamsAssumption DEF StInv, StreamTypes, Ids
  <2>2. stream \in Seq(1..seqNo)
    BY DEF StInv, StreamTypes
  <2>3. \A i \in DOMAIN stream : stream[i] \in 1..seqNo
    BY <2>2, LenProperties, ElementOfSeq
  <2>4. ToSet(stream) \subseteq Ids
    BY <2>1, <2>3 DEF ToSet
  <2>5. given \in [Groups -> SUBSET Ids]
    BY <2>1 DEF StInv, StreamTypes
  <2> QED BY <2>1, <2>4, <2>5 DEF StInv, StreamTypes, StreamsTypeOK
<1> QED BY <1>1, InitStInv, NextStInv, PTL DEF StreamsSpec

=============================================================================
