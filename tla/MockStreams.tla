------------------------------ MODULE MockStreams ------------------------------
(***************************************************************************)
(* A stream of resilixtest.MockBackend and its consumer groups.  A group   *)
(* is no more than a cursor, an index into the entries of the moment; the  *)
(* mock keeps no pending entries, XAck does nothing and XAdd never trims.  *)
(***************************************************************************)
EXTENDS Integers, Sequences, SequencesExt, FiniteSets

CONSTANTS
    Groups,     \* the consumer groups
    MaxEntries  \* bound on the number of entries ever added

ASSUME StreamsAssumption == MaxEntries \in Nat \ {0}

VARIABLES
    stream,     \* m.streams[key]: the entries, by the order of their IDs
    seqNo,      \* m.streamSeq
    cursor,     \* m.groups[key]: the index after the last entry delivered
    batch       \* the answer of the last XReadGroup, and who got it

\* History: what each group has been given; the groups whose cursor no longer
\* points where it did, since XDel removed an entry before it; and the groups
\* that have done something else than reading the new entries in full batches.
VARIABLES given, shifted, irregular

streamVars == <<stream, seqNo, cursor, batch, given, shifted, irregular>>

Ids == 1..MaxEntries
NoBatch == [group |-> "none", ids |-> <<>>, repeats |-> FALSE]

StreamsInit ==
    /\ stream = <<>> /\ seqNo = 0
    /\ cursor = [g \in Groups |-> 0]
    /\ batch = NoBatch
    /\ given = [g \in Groups |-> {}]
    /\ shifted = {} /\ irregular = {}

XAdd ==
    /\ seqNo < MaxEntries
    /\ seqNo' = seqNo + 1
    /\ stream' = Append(stream, seqNo')
    /\ batch' = NoBatch
    /\ UNCHANGED <<cursor, given, shifted, irregular>>

\* XReadGroup, from the cursor (">") or from the first entry (any other ID).
Start(g, id) == IF id = ">" THEN cursor[g] ELSE 0

\* The batch ends when it has `count` entries; 0 means no limit.
Taken(g, id, count) ==
    LET rest == SubSeq(stream, Start(g, id) + 1, Len(stream)) IN
    IF count > 0 /\ Len(rest) > count THEN SubSeq(rest, 1, count) ELSE rest

\* Mutants of NewCursor: one entry too far; left where it is by ">".
NewCursorTooFar(g, id, count) ==
    IF count > 0 /\ Len(Taken(g, id, count)) = count THEN Start(g, id) + count + 1
                                                     ELSE cursor[g]

NewCursorNever(g, id, count) == IF id = ">" THEN cursor[g] ELSE Start(g, id) + count

\* The cursor moves only when the batch is full, whatever ID was asked for.
NewCursor(g, id, count) ==
    IF count > 0 /\ Len(Taken(g, id, count)) = count THEN Start(g, id) + count
                                                     ELSE cursor[g]

XReadGroup(g, id, count) ==
    LET ids == Taken(g, id, count)
        full == count > 0 /\ Len(ids) = count
    IN  /\ cursor' = [cursor EXCEPT ![g] = NewCursor(g, id, count)]
        /\ given' = [given EXCEPT ![g] = @ \union ToSet(ids)]
        /\ batch' = [group |-> g, ids |-> ids,
                     repeats |-> id = ">" /\ ToSet(ids) \intersect given[g] # {}]
        /\ shifted' = IF id # ">" /\ full THEN shifted \ {g} ELSE shifted
        /\ irregular' = IF ids # <<>> /\ ~(id = ">" /\ full) THEN irregular \union {g}
                                                             ELSE irregular
    /\ UNCHANGED <<stream, seqNo>>

\* XDel of the entry at place i; with more IDs it is as many deletions at once.
\* The gap is closed, the cursors stay as they are.
XDel(i) ==
    /\ stream' = SubSeq(stream, 1, i - 1) \o SubSeq(stream, i + 1, Len(stream))
    /\ shifted' = shifted \union {g \in Groups : i <= cursor[g]}
    /\ batch' = NoBatch
    /\ UNCHANGED <<seqNo, cursor, given, irregular>>

\* The group starts at the first entry, even if it exists; the ID is ignored.
XGroupCreateMkStream(g) ==
    /\ cursor' = [cursor EXCEPT ![g] = 0]
    /\ batch' = NoBatch
    /\ shifted' = shifted \ {g}
    /\ irregular' = IF given[g] # {} THEN irregular \union {g} ELSE irregular
    /\ UNCHANGED <<stream, seqNo, given>>

StreamsNext ==
    \/ XAdd
    \/ \E g \in Groups :
        \/ \E id \in {">", "0"}, count \in 0..2 : XReadGroup(g, id, count)
        \/ XGroupCreateMkStream(g)
    \/ \E i \in DOMAIN stream : XDel(i)

StreamsSpec == StreamsInit /\ [][StreamsNext]_streamVars

-----------------------------------------------------------------------------
(* Properties.                                                             *)

\* Type invariant: the entries stand in the order of their IDs.
StreamsTypeOK ==
    /\ ToSet(stream) \subseteq Ids /\ seqNo \in 0..MaxEntries
    /\ \A i, j \in DOMAIN stream : i < j => stream[i] < stream[j]
    /\ cursor \in [Groups -> 0..MaxEntries]
    /\ given \in [Groups -> SUBSET Ids]
    /\ shifted \subseteq Groups /\ irregular \subseteq Groups

\* XReadGroup skips no entry: every entry before a group's cursor has been given to
\* the group, unless XDel has since removed an entry that stood before it.
NothingSkipped ==
    \A g \in Groups : g \in shifted \/
        \A i \in DOMAIN stream : i <= cursor[g] => stream[i] \in given[g]

\* A group that reads new entries only, always in full batches, and is not created
\* again gets no entry twice.
GivenOnce == batch.repeats => batch.group \in irregular

=============================================================================
