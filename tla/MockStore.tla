------------------------------- MODULE MockStore -------------------------------
(***************************************************************************)
(* The string keys of resilixtest.MockBackend: each method holds the       *)
(* backend's mutex from its first line to its last and is one step, except *)
(* Pipeline and Transaction, which run their commands one by one with the  *)
(* mutex free in between, and RedisClient.Scan, which fetches page after   *)
(* page.  Injected errors are counted instead of named; the call counters  *)
(* that tests read are left out.                                           *)
(***************************************************************************)
EXTENDS Integers, Sequences, SequencesExt, FiniteSets

CONSTANTS
    NumKeys,    \* keys are numbered in the order sort.Strings gives them
    Counters,   \* bound: INCR and DECR stay within these values
    Commands,   \* the commands that tests issue directly
    Programs,   \* the command lists of pipelines and transactions
    PageSize,   \* the count argument of Scan; 0 or less asks for everything
    Injectable, \* the operations that errors are injected for; "" is all
    Missing,    \* what reading an absent key gives
    Refused     \* the answer of a command that reports an error

Keys == 1..NumKeys

\* What the methods' parameters are; XADD, PING and the rest have none here.
WellFormed(c) ==
    /\ c.op \in {"Get", "Set", "Expire", "TTL", "Incr", "Decr"} => c.key \in Keys
    /\ c.op = "Set" => c.val \in Counters /\ c.ttl \in {"none", "armed"}
    /\ c.op = "Expire" => c.ttl \in {"armed", "past"}
    /\ c.op \in {"MGet", "Del", "Exists"} => c.keys \in Seq(Keys)
    /\ c.op = "MSet" =>
          DOMAIN c.vals \subseteq Keys /\ \A k \in DOMAIN c.vals : c.vals[k] \in Counters

AllCommands == Commands \union UNION {ToSet(cmds) : cmds \in Programs}

ASSUME StoreAssumption ==
    /\ NumKeys \in Nat \ {0}
    /\ Counters \subseteq Int /\ Missing \notin Int
    /\ PageSize \in Int
    /\ \A c \in AllCommands : WellFormed(c)
    /\ Programs \subseteq Seq(AllCommands)

VARIABLES
    kv,         \* m.kv: an absent key has no time to live ("absent")
    errors,     \* m.errors: how many errors are queued for each operation
    answer,     \* what the last command returned
    pipe,       \* the commands a pipeline or transaction has still to run
    scan        \* the last scan, under way or over

storeVars == <<kv, errors, answer, pipe, scan>>

-----------------------------------------------------------------------------
(* Entries.  "armed": expires at some time to come; "past": has expired,   *)
(* but nothing has removed it yet; "none": does not expire.                *)

Absent == [val |-> 0, ttl |-> "absent"]
Entry(v, ttl) == [val |-> v, ttl |-> ttl]

Live(s, k) == s[k].ttl \in {"none", "armed"}

Seen(s, k) == IF Live(s, k) THEN s[k].val ELSE Missing

\* getKV removes the expired entries it meets.
Swept(s, ks) == [k \in Keys |-> IF k \in ks /\ ~Live(s, k) THEN Absent ELSE s[k]]

\* checkError: an error queued for the operation is used up, one for all
\* operations stays.
Fails(op) == (op \in Injectable /\ errors[op] > 0) \/ errors[""] > 0

UsedUp(op) ==
    IF op \in Injectable /\ errors[op] > 0 THEN [errors EXCEPT ![op] = @ - 1]
                                           ELSE errors

-----------------------------------------------------------------------------
(* The methods: the store a command leaves and what it answers.            *)

Outcome(s, out) == [kv |-> s, out |-> out]

Get(s, k) == Outcome(Swept(s, {k}), <<Seen(s, k)>>)

Set(s, k, v, ttl) == Outcome([s EXCEPT ![k] = Entry(v, ttl)], <<>>)

MGet(s, ks) == Outcome(Swept(s, ToSet(ks)), [i \in DOMAIN ks |-> Seen(s, ks[i])])

MSet(s, f) ==
    Outcome([k \in Keys |-> IF k \in DOMAIN f THEN Entry(f[k], "none") ELSE s[k]], <<>>)

\* A key given twice is found once only: the first time removes it.
Del(s, ks) ==
    Outcome([k \in Keys |-> IF k \in ToSet(ks) THEN Absent ELSE s[k]],
            <<Cardinality({k \in ToSet(ks) : Live(s, k)})>>)

\* A key given twice counts twice.
\* Mutant of Exists: an entry whose time is over still counts.
ExistsExpired(s, ks) ==
    Outcome(s, <<Cardinality({i \in DOMAIN ks : s[ks[i]].ttl # "absent"})>>)

Exists(s, ks) ==
    Outcome(Swept(s, ToSet(ks)), <<Cardinality({i \in DOMAIN ks : Live(s, ks[i])})>>)

Expire(s, k, ttl) ==
    IF Live(s, k) THEN Outcome([s EXCEPT ![k].ttl = ttl], <<1>>)
                  ELSE Outcome(s, <<0>>)

TTL(s, k) ==
    Outcome(s, <<CASE ~Live(s, k) -> -2
                   [] s[k].ttl = "none" -> -1
                   [] s[k].ttl = "armed" -> 1>>)

\* Incr and Decr write a new entry: the time to live is lost.
Bump(s, k, d) ==
    LET n == (IF Live(s, k) THEN s[k].val ELSE 0) + d
    IN  Outcome([s EXCEPT ![k] = Entry(n, "none")], <<n>>)

Execute(s, c) ==
    CASE c.op = "Get" -> Get(s, c.key)
      [] c.op = "Set" -> Set(s, c.key, c.val, c.ttl)
      [] c.op = "MGet" -> MGet(s, c.keys)
      [] c.op = "MSet" -> MSet(s, c.vals)
      [] c.op = "Del" -> Del(s, c.keys)
      [] c.op = "Exists" -> Exists(s, c.keys)
      [] c.op = "Expire" -> Expire(s, c.key, c.ttl)
      [] c.op = "TTL" -> TTL(s, c.key)
      [] c.op = "Incr" -> Bump(s, c.key, 1)
      [] c.op = "Decr" -> Bump(s, c.key, -1)
      [] c.op = "Ping" -> Outcome(s, <<>>)
      [] OTHER -> Outcome(s, Refused)      \* XADD in a pipeline

-----------------------------------------------------------------------------
(* History: what has happened to the keys since the scan began.            *)

LiveKeys(s) == {k \in Keys : Live(s, k)}

NoScan == [on |-> FALSE, cursor |-> 0, seen |-> [k \in Keys |-> 0], failed |-> FALSE,
           stayed |-> {}, left |-> {}, came |-> {}]

\* The history of a scan is dropped once it is over.
ScanWatches ==
    IF scan.on
    THEN [scan EXCEPT !.stayed = @ \intersect LiveKeys(kv'),
                      !.left = @ \union (LiveKeys(kv) \ LiveKeys(kv')),
                      !.came = @ \union (LiveKeys(kv') \ LiveKeys(kv))]
    ELSE NoScan

-----------------------------------------------------------------------------
StoreInit ==
    /\ kv = [k \in Keys |-> Absent]
    /\ errors = [op \in Injectable \union {""} |-> 0]
    /\ answer = <<>>
    /\ pipe = <<>>
    /\ scan = NoScan

\* One command under the mutex: checkError first, then the effect.
Run(c) ==
    LET done == IF Fails(c.op) THEN Outcome(kv, Refused) ELSE Execute(kv, c) IN
    /\ c.op \in {"Incr", "Decr"} /\ ~Fails(c.op) => done.out[1] \in Counters
    /\ kv' = done.kv
    /\ answer' = done.out
    /\ errors' = UsedUp(c.op)

Call(c) ==
    /\ Run(c)
    /\ scan' = ScanWatches
    /\ UNCHANGED pipe

\* SetKV and SetKVWithTTL, for the setup of a test.
SetKV(k, v, ttl) ==
    /\ kv' = [kv EXCEPT ![k] = Entry(v, ttl)]
    /\ answer' = <<>>
    /\ scan' = ScanWatches
    /\ UNCHANGED <<errors, pipe>>

\* time.Now passes the expiry of an entry: nothing happens to the entry itself.
ExpiryPasses(k) ==
    /\ kv[k].ttl = "armed"
    /\ kv' = [kv EXCEPT ![k].ttl = "past"]
    /\ scan' = ScanWatches
    /\ UNCHANGED <<errors, answer, pipe>>

InjectError(op) ==
    /\ errors[op] = 0           \* bound: one error queued for each operation
    /\ errors' = [errors EXCEPT ![op] = 1]
    /\ UNCHANGED <<kv, answer, pipe, scan>>

ClearErrors ==
    /\ errors' = [op \in DOMAIN errors |-> 0]
    /\ UNCHANGED <<kv, answer, pipe, scan>>

\* Pipeline and Transaction check for an error of their own and unlock; the
\* keys to watch are ignored.
BeginPipeline(op, cmds) ==
    /\ pipe = <<>> /\ ~scan.on      \* bound: one compound call at a time
    /\ errors' = UsedUp(op)
    /\ IF Fails(op)
       THEN /\ answer' = Refused
            /\ UNCHANGED pipe
       ELSE /\ pipe' = cmds
            /\ UNCHANGED answer
    /\ UNCHANGED <<kv, scan>>

\* execCommands: the next command, whatever became of the ones before it.
ExecCommand ==
    /\ pipe # <<>>
    /\ Run(Head(pipe))
    /\ pipe' = Tail(pipe)
    /\ scan' = ScanWatches

-----------------------------------------------------------------------------
(* RedisClient.Scan over MockBackend.Scan.                                 *)

BeginScan ==
    /\ pipe = <<>> /\ ~scan.on
    /\ scan' = [NoScan EXCEPT !.on = TRUE, !.stayed = LiveKeys(kv)]
    /\ UNCHANGED <<kv, errors, answer, pipe>>

\* sort.Strings: the lists of a set's keys in their order; there is just one.
Sorted(S) ==
    {keys \in [1..Cardinality(S) -> S] : \A i, j \in DOMAIN keys : i < j => keys[i] < keys[j]}

\* The cursor is an index into the live keys of the moment.
PageEnd(keys) ==
    IF PageSize <= 0 \/ scan.cursor + PageSize > Len(keys) THEN Len(keys)
                                                           ELSE scan.cursor + PageSize

\* Mutant of NextCursor: the scan ends one key too early.
NextCursorShort(keys) == IF PageEnd(keys) + 1 < Len(keys) THEN PageEnd(keys) ELSE 0

NextCursor(keys) == IF PageEnd(keys) < Len(keys) THEN PageEnd(keys) ELSE 0

\* The callback sees the keys of a page in order and may end the scan with an
\* error at any of them.
ScanPage ==
    /\ scan.on
    /\ errors' = UsedUp("Scan")
    /\ IF Fails("Scan")
       THEN /\ answer' = Refused
            /\ scan' = [scan EXCEPT !.on = FALSE, !.failed = TRUE]
       ELSE \E keys \in Sorted(LiveKeys(kv)) :
            LET page == SubSeq(keys, scan.cursor + 1, PageEnd(keys)) IN
            /\ answer' = page
            /\ \E n \in 0..Len(page) :
                  scan' = [scan EXCEPT
                      !.seen = [k \in Keys |->
                                  IF k \in ToSet(SubSeq(page, 1, n)) THEN @[k] + 1 ELSE @[k]],
                      !.failed = n < Len(page),
                      !.cursor = NextCursor(keys),
                      !.on = n = Len(page) /\ NextCursor(keys) # 0]
    /\ UNCHANGED <<kv, pipe>>

StoreNext ==
    \/ \E c \in Commands : Call(c)
    \/ \E k \in Keys, v \in Counters, ttl \in {"none", "armed"} : SetKV(k, v, ttl)
    \/ \E k \in Keys : ExpiryPasses(k)
    \/ \E op \in Injectable \union {""} : InjectError(op)
    \/ ClearErrors
    \/ \E op \in {"Pipeline", "Transaction"}, cmds \in Programs : BeginPipeline(op, cmds)
    \/ ExecCommand
    \/ BeginScan
    \/ ScanPage

StoreSpec == StoreInit /\ [][StoreNext]_storeVars

-----------------------------------------------------------------------------
(* Properties.                                                             *)

\* Type invariant: keys, error queues, the pipeline and the scan stay in shape.
StoreTypeOK ==
    /\ kv \in [Keys -> [val : Counters \union {0}, ttl : {"absent", "none", "armed", "past"}]]
    /\ errors \in [Injectable \union {""} -> {0, 1}]
    /\ pipe = <<>> \/ \E cmds \in Programs : \E d \in DOMAIN cmds :
                          pipe = SubSeq(cmds, d, Len(cmds))
    /\ scan.on \in BOOLEAN /\ scan.failed \in BOOLEAN /\ scan.cursor \in 0..NumKeys
    /\ scan.stayed \subseteq Keys /\ scan.left \subseteq Keys /\ scan.came \subseteq Keys

\* A scan that ends without an error has shown every key that was there from
\* its first page to its last, unless a key that sorts before it left on the
\* way; and it shows none twice, unless one that sorts before it came on the way
\* (RedisClient.Scan over the mock's index cursor).
ScanShowsWhatStayed ==
    \A k \in Keys :
        /\ ~scan.on /\ ~scan.failed /\ k \in scan.stayed =>
                scan.seen[k] > 0 \/ \E j \in scan.left : j < k
        /\ scan.seen[k] > 1 => \E j \in scan.came : j < k

\* The lists of keys and the writes that occur: those of the commands, a single key,
\* and the pages of a scan.
Ascending == {ks \in UNION {[1..n -> Keys] : n \in 0..NumKeys} :
                \A i, j \in DOMAIN ks : i < j => ks[i] < ks[j]}

KeyLists ==
    {c.keys : c \in {d \in AllCommands : d.op \in {"MGet", "Del", "Exists"}}} \union Ascending

Writes ==
    {c.vals : c \in {d \in AllCommands : d.op = "MSet"}}
        \union {[j \in {k} |-> v] : k \in Keys, v \in Counters}

\* What a caller sees of the store.
Db == [k \in Keys |-> Seen(kv, k)]
Mortal == {k \in Keys : kv[k].ttl = "armed"}

Contract == INSTANCE KVContract WITH db <- Db, mortal <- Mortal, reply <- answer

\* The store is a map with atomic commands whose keys vanish when their time is
\* over: that expired entries linger until getKV meets them is never visible,
\* and a pipeline is no more than its commands one after the other.
KeepsKVContract == Contract!ContractSpec

=============================================================================
