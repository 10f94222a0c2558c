# A verification development of Resilix

Resilix is a Redis client for Go (`src/sdk/go`) that wraps every command in an
admission gate, a retry loop, a circuit breaker and telemetry, and adds a
Redlock lock, a subscription forwarder, bulk helpers, a configuration loader and
an in-memory backend for tests. This directory models its concurrent core, the
parts around it and the test backend in TLA+, checks the models with TLC and
proves all of their safety properties, and two refinements, with TLAPS.

Contents: [Inventory](#inventory) - [Modules](#modules) - [Runs](#runs) -
[Fairness](#fairness) - [Proofs](#proofs) - [Disagreements](#disagreements) -
[Not modelled](#not-modelled) - [Plan](#plan) - [Running it](#running-it)

## Inventory

One command takes this way: a service method (`services.go`, `geo.go`, ...)
validates its arguments and calls `RedisClient.execute` (`client.go`), which
takes the client's read lock, runs the middlewares and the before-hooks, takes a
slot of the inflight gate, opens a span (`recorder.Begin`) and calls
`Executor.Do` (`internal/retry`). `Do` asks the breaker (`internal/breaker`) once,
calls the backend up to `MaxAttempts` times with a backoff between the attempts,
and reports the outcome to the breaker. Transitions of the breaker reach the
recorder through a callback in a goroutine of its own. The backend is the go-redis
driver or the mock.

| Component | State | Operations | What is hard | What makes it correct |
|---|---|---|---|---|
| Circuit breaker, `internal/breaker` | state, failure count, time of opening, probe slots; under a mutex | Allow, RecordSuccess, RecordFailure, State | reports arrive long after their Allow, when the period has changed; slots taken by one method are returned by another | counter and state agree; slots are those of live probes; no trip without cause; open means closed to new commands until the timeout; half-open ends |
| Retry executor, `internal/retry` | loop variable, timer | Do | cancellation in the middle of the backoff; the report is not atomic with the attempt | every call returns; every admitted call reports |
| Client lifecycle, `client.go` | RWMutex, closed flag, gate, inflight gauge | execute, Close, and Scan, Health on top | Close against commands and their hooks; recursive read locks; ways out that skip a release | the backend is closed only when drained; slots are conserved; Close returns |
| Recorder, `internal/telemetry` | Prometheus collectors | Begin/finish, RecordBreakerState, RecordPoolStats | unordered, unsynchronised notifier goroutines | the metric shows one state, the breaker's |
| Distributed lock, `lock` | keys with tokens on N nodes; nothing in the client but local variables | Acquire, Extend, Release | lost answers, unreachable nodes, slow loops, clocks that disagree | mutual exclusion; only owners free keys; rollbacks undo attempts |
| Backoff, `internal/backoff` | random source under a mutex | Duration | jitter after the cap; first delay not capped | delays stay in range |
| Driver, `internal/driver/goredis` | connections; one forwarder per subscription | one method per command, Subscribe, Pipeline, Transaction | a forwarder nobody reads; one failing command in a pipeline; WATCH | goroutines end; results match their commands |
| Services, `services.go`, `geo.go`, `bit.go`, `hll.go` | none | one method per command, bulk loops | batches that fail half way; MSet with a ttl becomes a pipeline | totals agree with what was done |
| Pipeline builder, `pipeline.go` | list of commands | append, snapshot | snapshot taken anew at each attempt | order is kept |
| Mock backend, `resilixtest` | maps for every data type, error queues, subscribers, streams, group cursors; two mutexes | all of contract.Backend | nested locking in Close; non-atomic transactions; index cursors that deletions shift | behaves like Redis as far as tests rely on it |
| Options and configuration, `options.go`, `config` | none; the watcher's goroutine | Normalize, Load, ApplyEnv, ApplyOverrides, Watch | precedence; a file read while it is written | an invalid configuration is never delivered |
| Key builder, contract types, context, version, `resilixctl` | none | - | - | - |

`PROJECT.json` lists each component with its status, and under `hazards` each
hard behaviour at its line, with the properties that cover it.

## Modules

**`CircuitBreaker`** - `internal/breaker/breaker.go`. One operator per method;
each method holds `Breaker.mu` from its first line to its last and is one atomic
step. `state` and `halfOpenRequests` are the fields. `failures` is counted up to
`FailureThreshold` only, because that comparison is its single use. `openedAt`
is replaced by `cooled`, the value of `time.Since(openedAt) >= OpenTimeout`:
`Open` makes it false, `OpenTimeoutElapses` makes it true. `AllowNotice`,
`SuccessNotice` and `FailureNotice` say which state a method announces; the
announcements are odd in two places, and modelled so: a success that closes an
*open* circuit announces nothing, and a failure that arrives while the circuit is
open renews `openedAt` and announces open again.

**`RetryExecutor`** - `Executor.Do`, run by the concurrent `Calls`. The steps are the
places where another goroutine can come in between: admission, the return of an
attempt, the report, the end of the backoff, and the two outcomes of the select.
What the classifier says of an error, how many errors there are and how long
the backoff is are left open, except that the last attempt never waits. The
report after the loop (`executor.go` 79-83) cannot be reached and is absent.
`probes`, `abandoned` and `unbroken` are history variables: the calls in flight
that the current half-open period admitted, how many of its probes left without
reporting, and how many failures have been reported since a success was.

**`ClientLifecycle`** - `execute` and `Close`. Go's RWMutex is modelled with its
writer preference: a writer that waits (`writer`) keeps new readers out, which is
what makes Close live and what makes a recursive RLock dangerous. The members of
`Nested` are commands that a hook of their parent's command issues. The executor is
one step, from "executing" to "after". A middleware calls the next handler once or
not at all. A custom AdmissionController is not modelled, nor is a hook that panics
(deferred releases would still run, but not `finish`).

**`DrainContract`** - the abstract specification of shutdown: commands come and go
while the client is open, it shuts at an instant when none is inside, and it
releases the backend only after that. `ClientLifecycle!Contract` instantiates it
with `active <- readers`, `shut <- closed`, `released <- backendClosed`.

**`BreakerGauge`** - composes `RetryExecutor` with the notifier goroutines and the
four writes of `RecordBreakerState`. Goroutines in the same place for the same state
are interchangeable, so they are counted instead of named: `notifiers[to][w]` of them
notify `to` and have write `w` next. `noticed` is a history variable: the states
noticed since a goroutine was started while no other was alive. One client per registry
is assumed: a second one would share and reset the metric.

**`Redlock`** - `lock/redlock.go`, several lockers on `NumNodes` nodes. A loop over
the nodes visits one node per step and time may pass between any two. Each script
is its effect on the node; a call is answered, is executed without an answer, or
never reaches the node. A locker makes one Acquire, any number of Extends with any of
`ExtendTTLs`, and at most one Release, none after Extend has told it that it is not the
owner. Times are microseconds, and a node keeps keys for whole milliseconds: `SetMS` is
what setNX makes of the ttl, through a product of floats that may lose one, and
`ExtendMS` what Extend does. Expiry is external: a node may expire a key from
`keptUntil` on, which is early by its `NodeDrift`, and is never obliged to. Acquire
computes the validity of the lock and does not return it; `validUntil` keeps it, as
what a caller can at most rely on, and `Relies` says when a caller does. Extend does not
check the time, so a caller that extends is taken to have noted it before; and since a
call of Extend may shorten what a node keeps, the validity is the shorter of the two from
its first step on. The counts of a loop are `counted`; what the rollback counts is ignored,
as in the code. A script that runs on the node after its caller has given up on it is
not modelled.

**`KVContract`** - the abstract specification of the mock's string keys: a map in which
every command is one step and a key with a time to live vanishes, for every command
at the same instant.

**`MockStore`** - `resilixtest/mock.go`, string keys. A method holds `m.mu` from its first
line to its last and is one step (`Call`): `checkError` first, then the command's
operator. An entry whose time is over ("past") stays in the map until `getKV` meets
it; each command looks at it in its own way, and that nobody can tell is
`KeepsKVContract`, the refinement of KVContract. `Pipeline` and `Transaction` run
their commands one by one with the mutex free in between. `RedisClient.Scan` of
`client.go` runs over the mock's `Scan`, a page per step, and its callback may end it
at any key; every scan starts at cursor 0. Values are small numbers and keys are
numbered in their sorted order, so that `Sorted` gives the one ascending list of a set.
`WellFormed` says what the parameters of a command can be, as Go's types do. `Db` and
`Mortal` are what a caller sees of the store, the refinement mapping.

**`MockCollections`** - hashes, sets, HyperLogLogs, lists and sorted sets of the mock. What
a hash maps to is abstracted away, as are the elements a set holds beyond their
identity. Lists and sorted sets are Go slices, whose free cells and sharing matter:
`slice.room` counts the free cells behind the elements, `held` is the slice that
LMPop or ZMPop handed out last, and `Reallocated` leaves the capacity of a new array
to chance, as append's growth is not specified. sort.Slice is not stable:
`Sortings` are all the orders it may produce. ZAdd is stated by its effect on the slice, the
members it finds getting their last score in place (`Rescored`) and the others being
appended once each (`Newcomers`), in an order that sorting forgets. `Memberships` are the pairs of a
key and an element in its set, whose number is the size of all sets together.

**`MockStreams`** - XAdd, XReadGroup, XDel, XGroupCreateMkStream on one stream. A group is an
index; `given`, `shifted` and `irregular` are history. XDel takes out the entry at a place.
XAck changes nothing.

**`MockPubSub`** - Publish, Subscribe, Close and the subscriptions' Close, with `m.mu` and
`pubsub.mu` apart. `registry[c][s]` counts the registrations of a subscription for a
channel, as many as it names the channel; their order only decides in which order buffers
that have nothing to do with each other are filled.

**`Commands`** - `pipeline.go`, the driver's Pipeline and Transaction, `Executor.Do`,
`DefaultClassifier` and `normalizePublicError`, end to end: a list of commands is
sent, run one by one (or at once by EXEC), resent by go-redis, retried by the executor
and reported. The server and other clients are external. A server that goes on with
commands after their sender has given up is not modelled.

**`Subscription`** - the driver's Subscribe and its forwarder between go-redis's channel and
the application's. Messages that go-redis itself drops are not part of it.

**`Bulk`** - bulk Get, Delete and Expire over `chunk`, batch by batch, while other clients
change the keys. A batch may run and its answer be lost, after which the executor runs
it again.

**`Configuration`** - `config.LoadOptions`, `Watch` and `Options.Normalize`. Fields that are
treated alike are one field, a value is what its treatment depends on. The file is
truncated and filled in place, or replaced by a rename, which ends the watch.

**`Backoff`** - `backoff.New`, `Duration` and the jitter, in whole units and percent.

**`MC*`** - instances for TLC: symmetry sets and function-valued constants.
`MCMockBackend` and `MCClientSide` put modules that share no state next to one another:
a behavior chooses an area in its first state and stays in it, so that the state
spaces add up. The areas of the mock share `m.mu`, which every method holds from end
to end (the two that do not are modelled so), and the error queues, which `MockStore`
models.

**`*Proofs`** - theorems and proofs about the module they extend.

## Runs

Each configuration file has the name of its run. "Violation" runs are under
[Disagreements](#disagreements).

| Run | Module | Checks | States |
|---|---|---|---|
| RetrySafety | RetryExecutor | TypeOK, ClosedBelowThreshold, SlotAccounting, WedgedOnlyByAbandonment, TrippedForCause, OpenHoldsUntilTimeout, CallsReturn, SettlesUnlessAbandoned, OpenIsRetried | 69 142 |
| LifecycleShutdown | MCClientLifecycle | TypeOK, DrainedBeforeRelease, SlotsAccounted, KeepsContract, CallsReturn, CloseReturnsWithoutNesting | 9 736 |
| GaugeSafety | MCBreakerGauge | ShowsOnlyNoticed | 1.5 million |
| RedlockSafety | MCRedlock | TypeOK, MutualExclusion, OnlyOwnerFrees, ExtendRenews | 2.7 million |
| RedlockRetries | MCRedlock | RollbackLeavesNothing, CallsReturn | 61 513 |
| MockBackend | MCMockBackend | MockTypeOK, ScanShowsWhatStayed, PopsAreKept, NothingSkipped, GivenOnce, SubscribersGetAll, KeepsKVContract, CountsAddUp, CloseReturnsUnsubscribed | 144 431 |
| ClientSide | MCClientSide | RunAsOftenAsBroken, OutcomeTells, ForwardsInOrder, BulkAddsUp, DeliveredIsFinal, DelaysBounded, ForwarderEnds, WatchSettles | 23 751 |

Bounds, and why they are enough:

* *RetrySafety*: three calls, threshold 2, two probe slots, two attempts. Three is
  the smallest number with a late reporter from before the circuit opened, a
  probe that holds a slot and a second one that asks for the last slot. The
  models have no counters beyond the threshold and the attempts, so the state
  space is complete, not cut off.
* *LifecycleShutdown*: four callers and two closers: two commands can fill the gate
  while a third waits, and one Close can wait behind another. A hook of the first
  caller issues the commands of another, which can stop the system (see
  CloseInHook): the run does not check for deadlock, and its liveness properties
  are about the behaviours in which no hook issues a command.
* *GaugeSafety*: `MaxNotifiers` = 3 goroutines at a time. It is a guard of `Notify`,
  so the breaker waits for a goroutine to finish before it announces again.
  Three overlapping ones reach every set of marks that more could leave.
  Threshold 1 makes transitions frequent.
* *Redlock runs*: RedlockSafety has a ttl of 1 001 ms, of which setNX makes 1 000. `driftFor`
  allows 12 010 us of it, the lost millisecond takes 1 000 and `NodeDrift` the rest, so that
  the allowance is used up and the validity is 988 990 us. An Extend asks for the same ttl or
  for 501 ms. The clock moves in two steps of half a validity: a key may expire while its
  owner is still in its loop, the lock may change hands, and a validity can run out exactly
  at a tick. Three nodes have minorities that are not empty. One attempt is enough for
  exclusion because a further attempt only repeats the first with a later start;
  RedlockRetries has two, on two nodes, with liveness. When the clock has reached `MaxTime`
  and every call is over, nothing is left to do, hence no deadlock check.

* *MockBackend*: two keys and pages of one, so that a key can vanish or appear before
  and behind the cursor; values 0 and 1; one error queued per operation ("Scan" and
  all). One compound call at a time: pipelines and scans interleave with single
  commands, which is all that another pipeline is. Lists and sorted sets of at most three
  elements and two spare cells: enough to pop, push within the array and push beyond
  it. Three entries and two groups for the streams, batches without limit, of one and
  of two. Two subscriptions with buffers of two, channel lists that repeat a channel,
  two channels, so that a buffer can fill within one Publish. The pub/sub area may
  come to a stop in Close, so there is no deadlock check.
* *ClientSide*: lists of three commands with one that finds no key and one that is refused, two
  attempts with one resend each, two writes of other clients: a conflict, a retry
  and a lost answer can meet in one call. Two messages in each of the channels. Key lists
  with a repeated key, cut into batches of one, two and four. Layers in which each kind of
  field is unset, usable, zero, negative and bad somewhere; two saves of the file, so that
  one can be caught half-written while the last load still waits. Backoff settings with
  the base above the maximum, jitter above one hundred per cent and nothing set, and six
  attempts. Every area comes to an end, hence no deadlock check.

Every property has a mutant in `PROJECT.json`: a plausible slip in one definition,
defined right before it, under which TLC finds the property violated.

## Fairness

* `RetryExecutor!Fairness`, weak fairness of `Proceed(c)`: a goroutine inside `Do`
  keeps running, `fn` returns because the driver bounds each round trip by its
  dial, read and write timeouts, and the timer fires. No assumption is made about
  new calls, contexts or the open timeout; SettlesUnlessAbandoned and CallsReturn need none.
* `Demand`: whoever may be admitted eventually asks again, and the clock runs. It is
  the premise of OpenIsRetried, and an assumption of RetryAbandonedProbe only, where
  it makes the violation stronger: the wedged circuit stays wedged although
  callers keep asking.
* `ClientLifecycle!Fairness`: weak fairness of each caller's own steps and of
  Close's, and strong fairness of `AcquireSlot`: Go serves the senders blocked on
  a channel in arrival order. Nobody is obliged to call Close or to issue a
  command, and no context is obliged to end.
* `Redlock!FairSpec`, weak fairness of `Proceed(p)`: a script call returns, with an
  answer or an error, and the gap timer fires.

* `MockPubSub!PubSubFairness`: a goroutine that holds or can take its mutex goes on. Nobody
  is obliged to publish, read or close.
* `Subscription!SubscriptionFairness`: the forwarder runs whenever it can, and a reader that
  reads keeps reading, until it stops, which it may at any time.
* `Configuration!ConfigFairness`: the watcher takes an event that waits for it.

## Proofs

TLAPS checks all theorems for every value of the constants that satisfies the named
assumptions (positive thresholds, finite sets of callers, ...).

**`RetryExecutorProofs`.** The inductive invariant `IInv` is the conjunction of TypeOK,
ClosedBelowThreshold, SlotAccounting and TrippedForCause with two facts that make
them inductive: `RetryLeft` (a waiting call has attempts left, without which
`attempt` could leave its range) and `CountedFailures` (a closed breaker has counted every
failure reported since the last success: without it a trip could lack a cause, or a cause
its trip). SlotAccounting is needed for types: that `abandoned` stays in range follows from
the slots. `OpenHoldsUntilTimeout` follows from one step, and
WedgedOnlyByAbandonment from SlotAccounting: with no probe in flight, the slots in use are
the abandoned ones. None of these theorems assumes anything of contexts.

About the metric, ShowsOnlyNoticed speaks of the moments when no goroutine is alive. `GInv`
adds what holds in between: goroutines alive notify states in `noticed`, and a state that is
shown and is not in it will be cleared, since a goroutine is on its way to its gauge
(`ClearComes`). How many goroutines overlap does not matter, so the theorem covers any
`MaxNotifiers`.

**`ClientLifecycleProofs`.** `LInv` adds to TypeOK and SlotsAccounted that the readers
are exactly the callers inside (`ReadersInside`), that a closed client has no reader
(`ClosedIsDrained`) and that the backend is closed only by a Close that has set the
flag (`ReleasedIsClosed`). DrainedBeforeRelease follows. `ContractKept` is the
refinement: under `LInv`, Enter is Come, Leave is Go, SetClosed is Shut,
CloseBackend is Release, and every other step stutters.

**`RedlockProofs`.** `CountedSecured` says of each node counted in a loop that it has kept the
locker's key, for the ttl of the loop and from its start on at least, or that this time (less
the drift) may have passed; `VotersSecured` says that a lock that is relied on has a quorum of
such nodes until `validUntil`. They are inductive with TypeOK, PastTimes, GapBudget and CallTTL
(only an Extend has another ttl than Acquire's), because no step but the locker's own rollback,
release or Extend removes a key that may not have expired or lets it expire sooner; what an
Extend may shorten, its caller's validity has been lowered to before. `LockIsExclusive`: two
lockers that rely on the lock have a node in common, which would store both tokens. It has the
hypothesis `DriftCovered`: for every ttl, what a node keeps of it, after the conversion to
milliseconds and its clock's drift, covers the validity that `driftFor` leaves. The hypothesis
cannot be dropped (RedlockTenPercent). `KeysAreFreedByOwners` is OnlyOwnerFrees, without the hypothesis.
`WholeMillisecondsRenew` is ExtendRenews if the ttls of Extend are whole milliseconds, which
cannot be dropped either (RedlockSubMillisecond): every node counted still keeps the key, whatever its
clock does, and the counted ones are a quorum.

`RollbackIsComplete` is RollbackLeavesNothing. Its invariant, `KeysInReach`, says where the keys
of a locker can be as long as none of its calls has failed: while it acquires, on nodes it has
visited; while it rolls back, on nodes it has still to visit; between two attempts, nowhere.

**`ClientSideProofs`** is about five modules that share nothing.

* *Commands.* RunAsOftenAsBroken is not inductive. `RunOncePerSend` says where the
  one extra run comes from: a command has been run once per broken connection, and once
  more only if its answer has arrived on the present one. Two facts carry it:
  `NothingAnswered` (the executor backs off only with no answers at hand, because no answer of
  the server is worth another attempt: `AnswersAreFinal`) and `AnsweredAtOnce` (EXEC answers
  a transaction as a whole). It is assumed that lists hold commands (`Command`).
  OutcomeTells needs, in addition, what the answers gathered so far tell
  (`AnswersTell`, `ConflictsTell`) and that FirstError finds an error among them if there is one.
* *Subscription.* `FIInv` is ForwardsInOrder and the types of the sequences. Each step moves a
  message from one part of `output \o carried \o source` to the next, so the proof is the
  lemmas on sequences at its head.
* *Bulk.* `DeleteCounts` follows from the fact that what a batch deletes is a finite set
  (`BulkKeys` is assumed finite). The rest of BulkAddsUp needs that `chunk` cuts the list into
  consecutive pieces, all full but the last (`JobIsCut`), and what the batches done have come to
  (`JobSoFar`). Where a batch starts, `(b - 1) * size`, is not linear; the lemmas on `Start` keep that
  arithmetic in one place.
* *Configuration.* Each layer keeps the shape that `Laid` describes
  (EnvIsLaid, OverridesAreLaid), the last usable value wins, and normalizing is idempotent
  (NormalizedTwice). The content of a file in the middle of a write is one of the cases.
  It is assumed what a layer can hold (`Layer`), since the values are abstract.
* *Backoff.* DelaysBounded for any arguments of New and any outcomes of the random source.
  That a power of a multiplier is not negative is an assumption (`PowersAssumption`), since
  induction is out of reach; TLC evaluates it.

**`MockMessagingProofs`.** For publish and subscribe, `RegistryExact`: the registry holds every
open subscription as often as it names the channel, and nobody else. Without it neither
SubscribersGetAll nor that Publish never sends on a closed channel is inductive. For streams,
`CursorWithin` (a cursor is beyond the stream only after a deletion before it, so that an entry is
not added before it) carries NothingSkipped, and `GivenIsBefore` (what a regular reader has been given
and is still there stands before its cursor) carries GivenOnce.

**`MockCollectionsProofs`.** `SliceInv` adds `HeldOutside` to PopsAreKept: what was taken from the front
lies before the slice, where nobody writes; what was taken from the end lies behind it until
something is appended. CountsAddUp is an action property, proved for each kind of collection from
its own invariant; for sets it needs that memberships add up over the keys, and for sorted sets that
ZAdd appends as many as it does not find. HyperLogLogs are sets, and their operations steps of `SetNext`.

**`MockStoreProofs`.** `ScanOnTrack` is what makes ScanShowsWhatStayed inductive: while a scan is under
way, a key that stayed and has not been shown has no fewer live keys before it than the cursor says,
unless a smaller one left; a key that has been shown has fewer, unless a smaller one came. It
rests on counting the live keys below a key (`Below`): a step that removes none of them does not
lower it (`BelowGrows`), and in a sorted list as many keys stand before a key as are smaller
(`SortedFacts`). `StoreImplementsContract` is the refinement of KVContract: `ExecuteIsOneStep` takes the
commands one by one; sweeping and injecting errors are not visible, an expiry is Vanish, a page of a
scan is Page, an injected error is Refuse.

**`MockBackendProofs`.** The areas of MCMockBackend share no variable, so the backend implements each
part's own specification (the lemmas `BackendIsItsParts` and `BackendHasOneCollection`). MockTypeOK
(`BackendTypesAreKept`) and every safety property of the MockBackend run (`BackendKeepsItsPromises`)
follow from the theorems of the three modules before.

Assumptions on constants say what the code's types say (`StoreAssumption`: the parameters of the commands,
`Programs \subseteq Seq(AllCommands)`; `Items`, `SetKeys` and `BulkKeys` finite), or are bounds of the model
(`MaxLen`, `MaxRoom`, `MaxEntries`, `Counters`), for every value of which the theorems hold.

**Only model-checked.** All liveness properties: CallsReturn, OpenIsRetried, SettlesUnlessAbandoned,
CloseReturnsWithoutNesting, CloseReturnsUnsubscribed, ForwarderEnds and WatchSettles (fairness and
ENABLED are beyond the prover's reach). Every invariant and every action property of the passing runs
is a theorem, and so are the refinements KeepsContract and KeepsKVContract.

## Disagreements

Each of these runs ends in a counterexample; `PROJECT.json` quotes the text it contradicts.

* **RetryAbandonedProbe** (`executor.go:72`). When the context
  ends during a backoff, `Do` returns without telling the breaker. A half-open
  probe takes its slot with it: with all slots lost, the circuit stays half-open
  and refuses every command, for ever; no timeout leads out of half-open. The
  theorem on WedgedOnlyByAbandonment says that nothing else can cause it. (The
  failures of such commands are not counted either.)
* **CloseInHook** (`client.go:214`). A hook that issues a command through the same client
  while Close waits for the lock: both wait for ever.
* **GaugeSilentClose** (`breaker.go:91`). The success of a call admitted before the circuit
  opened closes it without a notice: the metric keeps showing open.
* **MockClose** (`mock.go:192`). Close of the mock backend locks `pubsub.mu` and then calls
  the close of each open subscription, which locks it again: it never returns, and
  `m.mu` stays locked. CloseReturnsUnsubscribed shows that this is the only way to hang.

* **GaugeOverlap** (`recorder.go:150`). Two notifier goroutines mix their writes: the one that
  clears first and sets last leaves two states at 1, against the help text of `recorder.go:95`. The
  metric stays wrong until a notice is recorded alone; what ShowsOnlyNoticed leaves is that no state
is shown but those of the two notices.

Three more about the lock are left out of `PROJECT.json`; their configurations of MCRedlock are
here and end in a counterexample too:

* `RedlockSubMillisecond.cfg` (`redlock.go:199`, ExtendRenews): Extend with less than a
  millisecond sends PEXPIRE 0, which deletes the key and answers 1, so that Extend reports success
  for a lock it has given up; `redlock.go:116` says it renews the ttl.
* `RedlockNotOwner.cfg` (`redlock.go:110`, NotOwnerIsTrue): ErrNotOwner, "token mismatch", is also
  the answer when nodes cannot be reached, while the caller owns the key on a quorum.
* `RedlockTenPercent.cfg` (`redlock.go:29`, MutualExclusion): the comment assumes ten per cent of
  clock drift, the constant allows for one; with ten, two lockers rely on the lock.

Found while modelling, and contradicting no text that a run could quote:

* A pipeline in which a key is missing returns ErrKeyNotFound and no results, although all
  of its commands have run, and a transaction so answered is committed
  (`driver.go:320`, OutcomeTells says what can be told). A missing key before a refused
  command hides the refusal.
* A pipeline whose answer is lost is run again as a whole, up to MaxAttempts times and, since
  go-redis keeps its own retries, several times in each (RunAsOftenAsBroken).
* `Transaction` watches its keys but reads nothing after WATCH: the watch protects nothing
  the caller has read before.
* Jitter and MinIdleConns that a file leaves unset become 0, not the default
  (`config.go:195`).
* A watched file that is replaced by a rename is no longer watched (`watch.go:38`); if
  `watcher.Add` fails, Watch returns an error and leaves its goroutine behind until the
  context ends.
* The mock's LPush keeps the order of its arguments, where Redis reverses it; a group cursor of
  the mock advances only by full batches, so that short reads are delivered again.

## Not modelled

* Panics in commands, hooks and middlewares. Deferred calls return the slot and the
  lock, but `finish` and the breaker's report are skipped.
* Counters, histograms, spans, log lines, key formatting, the content of values.
* Data loss on the nodes of the lock, and scripts that run late.
* Services other than bulk, and the driver's methods other than Subscribe, Pipeline and
  Transaction: each checks its arguments and passes one command on.
* The mock's script cache, a map from digest to text, and its stubs for geo and bit
  commands, which keep no state; patterns of keys and channels.
* go-redis's resending of a list whose first answer is LOADING or READONLY, and negative counts of
  the mock's LMPop and ZMPop, which panic.
* Plugins, TLS settings, and the conversion of options to go-redis's.
* For good: the type declarations of `internal/contract`, the key builder, version and context
  helpers, `resilixctl`, the Python placeholder, dashboards and build files, which
  hold no state and no control worth a model.

## Plan

Built and proved: the path of a command (breaker, executor, lifecycle, gauge), the lock with a
ttl per call, the mock backend as a whole and the parts around the core. What could follow:

1. An abstract lock (one holder at a time, until its time is over) that `Redlock` implements.
2. The refinement of KVContract without a bound on `Counters`.
3. The subscription forwarder and the mock's Publish in one model, if a property of the two
   together is found that neither has alone.

## Running it

    tlc -config RetrySafety.cfg RetryExecutor.tla
    tlapm RetryExecutorProofs.tla

The module of each run is in the table above and in `PROJECT.json`.
