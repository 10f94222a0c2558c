------------------------------- MODULE MockPubSub -------------------------------
(***************************************************************************)
(* Publish, Subscribe and Close of resilixtest.MockBackend and Close of    *)
(* its subscriptions.  There are two mutexes: m.mu, which Publish and      *)
(* Subscribe hold only to look for an injected error, and pubsub.mu, which *)
(* guards the registry.  Close holds both while it closes the              *)
(* subscriptions, each of which locks pubsub.mu for itself.                *)
(***************************************************************************)
EXTENDS Integers, Sequences, SequencesExt, FiniteSets

CONSTANTS
    Subs,           \* the subscriptions
    Channels,       \* the channels of the backend
    ChannelLists,   \* the arguments of Subscribe; a channel may be named twice
    Payloads,       \* what is published
    BufferSize      \* the capacity of a subscription's channel (128)

ASSUME PubSubAssumption ==
    /\ BufferSize \in Nat \ {0}
    /\ ChannelLists \subseteq Seq(Channels)

VARIABLES
    registry,   \* pubsub.subs: how often a channel's list names a subscription;
                \* Publish reads the list under pubsub.mu, its order shows nowhere
    sub,        \* the stage of each subscription and the channels it names
    buffer,     \* the subscription's Go channel
    closer,     \* how far MockBackend.Close is
    owed        \* history: what a subscription should still receive, and whether
                \* its buffer was ever too full, after which nothing is said

pubsubVars == <<registry, sub, buffer, closer, owed>>

NothingOwed == [msgs |-> <<>>, overran |-> FALSE]

PubSubInit ==
    /\ registry = [c \in Channels |-> [s \in Subs |-> 0]]
    /\ sub = [s \in Subs |-> [stage |-> "none", channels |-> <<>>]]
    /\ buffer = [s \in Subs |-> <<>>]
    /\ closer = "idle"
    /\ owed = [s \in Subs |-> NothingOwed]

MuFree == closer = "idle"
PubSubMuFree == closer # "holds_both"

\* The first half of Subscribe, under m.mu.
BeginSubscribe(s, cs) ==
    /\ sub[s].stage = "none" /\ MuFree
    /\ sub' = [sub EXCEPT ![s] = [stage |-> "opening", channels |-> cs]]
    /\ UNCHANGED <<registry, buffer, closer, owed>>

Times(c, cs) == Cardinality({i \in DOMAIN cs : cs[i] = c})
Repeat(x, n) == [i \in 1..n |-> x]

\* The second half, under pubsub.mu: once for each channel it names.
Register(s) ==
    /\ sub[s].stage = "opening" /\ PubSubMuFree
    /\ sub' = [sub EXCEPT ![s].stage = "open"]
    /\ registry' = [c \in Channels |->
                        [registry[c] EXCEPT ![s] = @ + Times(c, sub[s].channels)]]
    /\ UNCHANGED <<buffer, closer, owed>>

\* A message is sent once for each registration, and dropped when there is no
\* room.
Deliver(s, msg, times) ==
    LET room == BufferSize - Len(buffer[s]) IN
    buffer[s] \o Repeat(msg, IF times <= room THEN times ELSE room)

\* Publish to every registration of the channel.
Publish(c, payload) ==
    LET msg == <<c, payload>>
        due == [s \in Subs |-> IF sub[s].stage = "open" THEN Times(c, sub[s].channels) ELSE 0]
    IN  /\ MuFree /\ PubSubMuFree
        /\ buffer' = [s \in Subs |-> Deliver(s, msg, registry[c][s])]
        /\ owed' = [s \in Subs |->
                      IF owed[s].overran \/ Len(buffer[s]) + due[s] > BufferSize
                      THEN [msgs |-> <<>>, overran |-> TRUE]
                      ELSE [owed[s] EXCEPT !.msgs = @ \o Repeat(msg, due[s])]]
        /\ UNCHANGED <<registry, sub, closer>>

Receive(s) ==
    /\ buffer[s] # <<>>
    /\ buffer' = [buffer EXCEPT ![s] = Tail(@)]
    /\ owed' = [owed EXCEPT ![s].msgs = IF @ = <<>> THEN @ ELSE Tail(@)]
    /\ UNCHANGED <<registry, sub, closer>>

\* Mutants of Unregistered: one registration only; everybody's.
UnregisteredOnce(times, s) == [times EXCEPT ![s] = IF @ = 0 THEN 0 ELSE @ - 1]
UnregisteredAll(times, s) == [t \in Subs |-> 0]

\* Every registration of the subscription is taken out.
Unregistered(times, s) == [times EXCEPT ![s] = 0]

\* Subscription.Close, once: under pubsub.mu it leaves every channel, and its Go
\* channel is closed; what is buffered can still be received.
CloseSubscription(s) ==
    /\ sub[s].stage = "open" /\ PubSubMuFree
    /\ registry' = [c \in Channels |-> IF c \in ToSet(sub[s].channels)
                                       THEN Unregistered(registry[c], s) ELSE registry[c]]
    /\ sub' = [sub EXCEPT ![s].stage = "closed"]
    /\ UNCHANGED <<buffer, closer, owed>>

\* A test is done with a closed subscription; its name is used for another.
Forget(s) ==
    /\ sub[s].stage = "closed"
    /\ sub' = [sub EXCEPT ![s] = [stage |-> "none", channels |-> <<>>]]
    /\ buffer' = [buffer EXCEPT ![s] = <<>>]
    /\ owed' = [owed EXCEPT ![s] = NothingOwed]
    /\ UNCHANGED <<registry, closer>>

\* MockBackend.Close takes m.mu, then pubsub.mu.
BeginClose ==
    /\ closer = "idle"
    /\ closer' = "holds_mu"
    /\ UNCHANGED <<registry, sub, buffer, owed>>

LockRegistry ==
    /\ closer = "holds_mu"
    /\ closer' = "holds_both"
    /\ UNCHANGED <<registry, sub, buffer, owed>>

Registered == {s \in Subs : \E c \in Channels : registry[c][s] > 0}

\* The loop calls close of each registered subscription, which waits for
\* pubsub.mu: Close returns only if there is none.  m.closed is never read, so
\* the backend can be used afterwards.
EndClose ==
    /\ closer = "holds_both"
    /\ Registered = {}
    /\ registry' = [c \in Channels |-> [s \in Subs |-> 0]]
    /\ closer' = "idle"
    /\ UNCHANGED <<sub, buffer, owed>>

PubSubNext ==
    \/ \E s \in Subs :
        \/ \E cs \in ChannelLists : BeginSubscribe(s, cs)
        \/ Register(s) \/ Receive(s) \/ CloseSubscription(s) \/ Forget(s)
    \/ \E c \in Channels, payload \in Payloads : Publish(c, payload)
    \/ BeginClose \/ LockRegistry \/ EndClose

PubSubSpec == PubSubInit /\ [][PubSubNext]_pubsubVars

\* Goroutines that hold or can take their lock go on.
PubSubFairness ==
    /\ WF_pubsubVars(LockRegistry \/ EndClose)
    /\ \A s \in Subs : WF_pubsubVars(Register(s))

-----------------------------------------------------------------------------
(* Properties.                                                             *)

\* Type invariant; whoever is registered is open, so that Publish never sends on
\* a closed Go channel.
PubSubTypeOK ==
    /\ \A s \in Subs : /\ sub[s].stage \in {"none", "opening", "open", "closed"}
                       /\ Len(buffer[s]) <= BufferSize
    /\ closer \in {"idle", "holds_mu", "holds_both"}
    /\ \A s \in Registered : sub[s].stage = "open"

\* A subscription whose buffer never was full receives every message published
\* to the channels it names from the return of Subscribe to its Close, in order,
\* and a message as often as the channel is named.
SubscribersGetAll == \A s \in Subs : owed[s].overran \/ buffer[s] = owed[s].msgs

\* client.go:10 of resilixtest, "Registers t.Cleanup to close the client when the test
\* finishes", and the contract's Close() error: closing the mock backend
\* returns.
MockCloseReturns == closer # "idle" ~> closer = "idle"

\* Closing the mock backend returns if no subscription is open or being opened.
CloseReturnsUnsubscribed ==
    (closer # "idle" /\ \A s \in Subs : sub[s].stage \in {"none", "closed"}) ~> closer = "idle"

=============================================================================
