----------------------------- MODULE MCMockBackend -----------------------------
(***************************************************************************)
(* The mock backend for TLC.  Its areas share nothing but m.mu, which every *)
(* method holds from end to end, and the queue of injected errors, which   *)
(* MockStore models: a behavior stays in one area, so that their state     *)
(* spaces add up instead of multiplying.                                   *)
(***************************************************************************)
EXTENDS MockStore, MockCollections, MockStreams, MockPubSub

CONSTANTS a, b      \* members and fields

VARIABLE area

backendVars == <<storeVars, collectionVars, streamVars, pubsubVars, area>>

MCCommands ==
    {[op |-> "Get", key |-> 1], [op |-> "MGet", keys |-> <<2, 1>>],
     [op |-> "Set", key |-> 1, val |-> 1, ttl |-> "armed"],
     [op |-> "MSet", vals |-> [k \in {1, 2} |-> 0]],
     [op |-> "Del", keys |-> <<1, 1>>], [op |-> "Exists", keys |-> <<2, 2>>],
     [op |-> "Expire", key |-> 2, ttl |-> "armed"],
     [op |-> "Expire", key |-> 1, ttl |-> "past"],
     [op |-> "TTL", key |-> 1],
     [op |-> "Incr", key |-> 1], [op |-> "Decr", key |-> 2], [op |-> "Ping"]}

MCPrograms ==
    {<<[op |-> "Set", key |-> 1, val |-> 1, ttl |-> "none"],
       [op |-> "XAdd"],
       [op |-> "Get", key |-> 1]>>,
     <<[op |-> "Incr", key |-> 2], [op |-> "Del", keys |-> <<2>>]>>}

MCItemLists == {<<a>>, <<b>>, <<a, a>>, <<a, b>>}

MCChannelLists == {<<"x">>, <<"x", "y">>, <<"x", "x">>}

BackendInit ==
    /\ StoreInit /\ CollectionsInit /\ StreamsInit /\ PubSubInit
    /\ area \in {"kv", "hash", "set", "list", "zset", "stream", "pubsub"}

BackendNext ==
    /\ UNCHANGED area
    /\ \/ area = "kv" /\ StoreNext /\ UNCHANGED <<collectionVars, streamVars, pubsubVars>>
       \/ /\ \/ area = "hash" /\ HashNext
             \/ area = "set" /\ SetNext
             \/ area = "list" /\ ListNext
             \/ area = "zset" /\ ZSetNext
          /\ UNCHANGED <<storeVars, streamVars, pubsubVars>>
       \/ area = "stream" /\ StreamsNext /\ UNCHANGED <<storeVars, collectionVars, pubsubVars>>
       \/ area = "pubsub" /\ PubSubNext /\ UNCHANGED <<storeVars, collectionVars, streamVars>>

BackendSpec == BackendInit /\ [][BackendNext]_backendVars /\ PubSubFairness

-----------------------------------------------------------------------------

\* Type invariant of all areas; a sorted set is sorted, a stream in the order of
\* its IDs, and whoever is registered for a channel is open.
MockTypeOK == StoreTypeOK /\ CollectionsTypeOK /\ StreamsTypeOK /\ PubSubTypeOK

=============================================================================
