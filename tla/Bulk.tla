---------------------------------- MODULE Bulk ----------------------------------
(***************************************************************************)
(* The bulk service: a list of keys is cut into batches, and each batch is *)
(* one command (MGET, DEL) or one pipeline (EXPIRE) on its own, so that    *)
(* other clients and failures come in between.                             *)
(***************************************************************************)
EXTENDS Integers, Sequences, SequencesExt, FiniteSets

CONSTANTS
    BulkKeys,       \* the keys
    KeyArguments,   \* the lists of keys the service is called with
    BatchSizes,     \* the batch sizes; 0 or less means DefaultBatch
    DefaultBatch    \* 128

ASSUME BulkAssumption ==
    /\ IsFiniteSet(BulkKeys) /\ KeyArguments \subseteq Seq(BulkKeys)
    /\ DefaultBatch \in Nat \ {0} /\ BatchSizes \subseteq Int

VARIABLES
    job,        \* the operation, its keys and batches, how many are done, the
                \* outcome, and the total or the keys in the map that it returns
    present,    \* the keys that are there
    expiring    \* the keys whose time to live was set

\* History: how many keys the call has deleted, and whether an answer was lost.
VARIABLES deleted, lost

bulkVars == <<job, present, expiring, deleted, lost>>

\* Mutant of Chunk: no batch for the rest.
ChunkWhole(keys, size) ==
    [i \in 1..Len(keys) \div size |-> SubSeq(keys, (i - 1) * size + 1, i * size)]

\* chunk: every batch is full, except the last.
Chunk(keys, size) ==
    [i \in 1..(Len(keys) + size - 1) \div size |->
        SubSeq(keys, (i - 1) * size + 1, IF i * size > Len(keys) THEN Len(keys) ELSE i * size)]

NoJob == [op |-> "none", keys |-> <<>>, batches |-> <<>>, done |-> 0, told |-> "nothing",
          total |-> 0, got |-> {}]

BulkInit ==
    /\ job = NoJob
    /\ present \in SUBSET BulkKeys
    /\ expiring = {}
    /\ deleted = 0 /\ lost = FALSE

\* validateKeys refuses an empty list.
BeginBulk(op, keys, size) ==
    /\ job.op = "none" /\ keys # <<>>
    /\ job' = [NoJob EXCEPT !.op = op, !.keys = keys,
                            !.batches = Chunk(keys, IF size <= 0 THEN DefaultBatch ELSE size)]
    /\ UNCHANGED <<present, expiring, deleted, lost>>

Running == job.op # "none" /\ job.told = "nothing" /\ job.done < Len(job.batches)
Batch == ToSet(job.batches[job.done + 1])

\* The effect of the batch's command on the server.
Effect ==
    /\ present' = IF job.op = "Delete" THEN present \ Batch ELSE present
    /\ expiring' = IF job.op = "Expire" THEN expiring \union (Batch \intersect present)
                                        ELSE expiring
    /\ deleted' = IF job.op = "Delete" THEN deleted + Cardinality(Batch \intersect present)
                                       ELSE deleted

\* Expire counts the commands that returned no error: a key that is not there
\* counts as well, since its answer is 0 and no error.
BatchTotal ==
    CASE job.op = "Delete" -> Cardinality(Batch \intersect present)
      [] job.op = "Expire" -> Len(job.batches[job.done + 1])
      [] job.op = "Get" -> 0

BatchSucceeds ==
    /\ Running
    /\ Effect
    /\ job' = [job EXCEPT !.done = @ + 1, !.total = @ + BatchTotal,
                          !.got = IF job.op = "Get" THEN @ \union Batch ELSE @]
    /\ UNCHANGED lost

\* The batch is run and its answer is lost; the executor may try again.
BatchLost ==
    /\ Running /\ ~lost         \* bound: one lost answer
    /\ Effect
    /\ lost' = TRUE
    /\ UNCHANGED job

\* Mutant of BatchFails: the keys of the failed batch are added.
BatchFailsCounted ==
    /\ Running
    /\ job' = [job EXCEPT !.told = "error", !.total = @ + Cardinality(Batch)]
    /\ UNCHANGED <<present, expiring, deleted, lost>>

\* The batch fails for good: Delete and Expire return the total so far, Get
\* returns nothing.
BatchFails ==
    /\ Running
    /\ job' = [job EXCEPT !.told = "error", !.got = {}]
    /\ UNCHANGED <<present, expiring, deleted, lost>>

EndBulk ==
    /\ job.op # "none" /\ job.told = "nothing" /\ job.done = Len(job.batches)
    /\ job' = [job EXCEPT !.told = "ok"]
    /\ UNCHANGED <<present, expiring, deleted, lost>>

\* Another client creates or removes a key.
OtherChanges(k) ==
    /\ present' = IF k \in present THEN present \ {k} ELSE present \union {k}
    /\ expiring' = expiring \ {k}
    /\ UNCHANGED <<job, deleted, lost>>

BulkNext ==
    \/ \E op \in {"Get", "Delete", "Expire"}, keys \in KeyArguments, size \in BatchSizes :
          BeginBulk(op, keys, size)
    \/ BatchSucceeds \/ BatchLost \/ BatchFails \/ EndBulk
    \/ \E k \in BulkKeys : OtherChanges(k)

BulkSpec == BulkInit /\ [][BulkNext]_bulkVars

-----------------------------------------------------------------------------
(* Properties.                                                             *)

\* What Delete returns, with or without an error, is the number of keys it has
\* deleted, and less only if an answer was lost.
DeleteCounts ==
    job.op = "Delete" => job.total <= deleted /\ (lost \/ job.total = deleted)

\* The place in the key list of the key at place i of batch b.
Place(b, i) == (b - 1) * Len(job.batches[1]) + i

\* The batches are the key list, cut: no batch is longer than the first, each key
\* is at its place, and each place is in a batch.  When the call succeeds, Get has
\* an entry for every key, and Expire's total is the number of keys, whether there
\* or not; Delete's total is always right.
BulkAddsUp ==
    /\ \A b \in DOMAIN job.batches : \A i \in DOMAIN job.batches[b] :
          /\ i <= Len(job.batches[1])
          /\ Place(b, i) \in DOMAIN job.keys
          /\ job.batches[b][i] = job.keys[Place(b, i)]
    /\ \A p \in DOMAIN job.keys :
          \E b \in DOMAIN job.batches : \E i \in DOMAIN job.batches[b] : p = Place(b, i)
    /\ DeleteCounts
    /\ job.op = "Get" /\ job.told = "ok" => job.got = ToSet(job.keys)
    /\ job.op = "Expire" /\ job.told = "ok" => job.total = Len(job.keys)

=============================================================================
