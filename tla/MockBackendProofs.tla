--------------------------- MODULE MockBackendProofs ---------------------------
(***************************************************************************)
(* The mock backend as a whole.  Its areas share no state, so that each of *)
(* them behaves as it does alone: BackendSpec implements the specification *)
(* of every area, and what the proof modules of the areas establish holds  *)
(* of the backend the runs check, for any commands, items and channels.    *)
(***************************************************************************)
EXTENDS MCMockBackend, MockStoreProofs, MockCollectionsProofs, MockMessagingProofs

\* A step of the backend is a step of an area or leaves it alone.
LEMMA AreaSteps ==
    [BackendNext]_backendVars =>
        [StoreNext]_storeVars /\ [StreamsNext]_streamVars /\ [PubSubNext]_pubsubVars
<1>1. UNCHANGED backendVars =>
        UNCHANGED storeVars /\ UNCHANGED streamVars /\ UNCHANGED pubsubVars
  BY DEF backendVars
<1>2. BackendNext =>
        [StoreNext]_storeVars /\ [StreamsNext]_streamVars /\ [PubSubNext]_pubsubVars
  BY DEF BackendNext
<1> QED BY <1>1, <1>2

\* The store, the streams and the subscriptions of the backend behave as they do
\* alone, whatever area the commands are sent to.
LEMMA BackendIsItsParts == BackendSpec => StoreSpec /\ StreamsSpec /\ PubSubSpec
<1>1. BackendInit => StoreInit /\ StreamsInit /\ PubSubInit
  BY DEF BackendInit
<1> QED
  BY <1>1, AreaSteps, PTL DEF BackendSpec, StoreSpec, StreamsSpec, PubSubSpec

\* A step of the backend is a step of the collection in use, and the type of the
\* collection in use does not change.
LEMMA CollectionSteps ==
    [BackendNext]_backendVars =>
        /\ area' = area
        /\ IF area = "set" THEN [SetNext]_collectionVars
           ELSE IF area = "list" THEN [ListNext]_collectionVars
           ELSE IF area = "zset" THEN [ZSetNext]_collectionVars
           ELSE [HashNext]_collectionVars
<1>1. UNCHANGED backendVars => UNCHANGED area /\ UNCHANGED collectionVars
  BY DEF backendVars
<1>2. UNCHANGED <<collectionVars, streamVars, pubsubVars>> => UNCHANGED collectionVars
  OBVIOUS
<1>3. UNCHANGED <<storeVars, collectionVars, pubsubVars>> => UNCHANGED collectionVars
  OBVIOUS
<1>4. UNCHANGED <<storeVars, collectionVars, streamVars>> => UNCHANGED collectionVars
  OBVIOUS
<1>5. BackendNext =>
        /\ area' = area
        /\ \/ UNCHANGED collectionVars
           \/ area = "hash" /\ HashNext
           \/ area = "set" /\ SetNext
           \/ area = "list" /\ ListNext
           \/ area = "zset" /\ ZSetNext
  BY <1>2, <1>3, <1>4 DEF BackendNext
<1> QED BY <1>1, <1>5

\* The collections of the backend behave as one collection alone: the one of the
\* area the commands are sent to, which no step changes.
LEMMA BackendHasOneCollection ==
    BackendSpec => HashSpec \/ SetSpec \/ ListSpec \/ ZSetSpec
<1>1. BackendInit => CollectionsInit
  BY DEF BackendInit
<1> DEFINE Hashes == area \notin {"set", "list", "zset"}
           Sets   == area = "set"
           Lists  == area = "list"
           ZSets  == area = "zset"
<1>2. Hashes \/ Sets \/ Lists \/ ZSets
  OBVIOUS
<1>3. /\ Hashes /\ [BackendNext]_backendVars => Hashes' /\ [HashNext]_collectionVars
      /\ Sets /\ [BackendNext]_backendVars => Sets' /\ [SetNext]_collectionVars
      /\ Lists /\ [BackendNext]_backendVars => Lists' /\ [ListNext]_collectionVars
      /\ ZSets /\ [BackendNext]_backendVars => ZSets' /\ [ZSetNext]_collectionVars
  BY CollectionSteps
<1> HIDE DEF Hashes, Sets, Lists, ZSets
<1> QED
  BY <1>1, <1>2, <1>3, PTL DEF BackendSpec, HashSpec, SetSpec, ListSpec, ZSetSpec

\* In the backend of the runs every area keeps its shape: keys, error queues,
\* collections, streams and subscriptions; a sorted set is sorted, a stream in the
\* order of its IDs, and Publish meets no subscription that is not open.
THEOREM BackendTypesAreKept == BackendSpec => []MockTypeOK
<1>1. StoreTypeOK /\ CollectionsTypeOK /\ StreamsTypeOK /\ PubSubTypeOK => MockTypeOK
  BY DEF MockTypeOK
<1> QED
  BY <1>1, BackendIsItsParts, BackendHasOneCollection, StoreTypesAreKept,
     ShapesAreKept, StreamsStayOrdered, OnlyOpenAreRegistered, PTL

\* The backend of the runs keeps every promise of its areas at once: its keys are
\* the map of KVContract, scans show what stayed, collection commands answer what
\* they did, what was popped is not written over, groups skip nothing and get
\* nothing twice, subscribers get all, each in the cases its property names.
THEOREM BackendKeepsItsPromises ==
    BackendSpec => /\ KeepsKVContract /\ []ScanShowsWhatStayed
                   /\ CountsAddUp /\ []PopsAreKept
                   /\ []NothingSkipped /\ []GivenOnce /\ []SubscribersGetAll
<1>1. HashInv \/ SetInv => PopsAreKept
  BY DEF HashInv, SetInv, NoSlice, NoResult, PopsAreKept
<1>2. HashSpec \/ SetSpec => []PopsAreKept
  BY <1>1, InvsAlways, PTL
<1> QED
  BY <1>2, BackendIsItsParts, BackendHasOneCollection, StoreImplementsContract,
     ScansAlwaysShowWhatStayed, CountsAlwaysAddUp, PopsAlwaysKept, NothingIsSkipped,
     NothingGivenTwice, SubscribersAlwaysGetAll, PTL

=============================================================================
