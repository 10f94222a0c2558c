--------------------------- MODULE ClientLifecycle ---------------------------
(***************************************************************************)
(* RedisClient.execute and RedisClient.Close of sdk/go/client.go: commands *)
(* and shutdown around the client's RWMutex, the inflight gate and the     *)
(* inflight gauge of the telemetry recorder.                               *)
(*                                                                         *)
(* execute holds the read lock from its first line to its return, so Close *)
(* waits for every command inside.  Go's RWMutex makes new readers wait    *)
(* behind a writer that waits; `writer` is that writer.  A hook may issue  *)
(* commands of its own: a member of Nested is a command that a hook of its *)
(* parent's command runs to the end before the hook returns.               *)
(*                                                                         *)
(* The retry executor, with its attempts and its waits, is the one step    *)
(* from "executing" to "after"; RetryExecutor has its inside.  A           *)
(* middleware is taken to call the next handler once or not at all.        *)
(***************************************************************************)
EXTENDS Naturals, FiniteSets

CONSTANTS
    Callers,        \* goroutines that issue commands one after another
    Closers,        \* goroutines that call Close once
    MaxInflight,    \* Options.MaxInflight, the capacity of the gate
    Nested,         \* callers that are hooks of another caller's command
    Parent,         \* the caller whose hook a nested caller is
    NoOne           \* no writer

ASSUME LifecycleAssumption ==
    /\ IsFiniteSet(Callers)
    /\ MaxInflight \in Nat \ {0}
    /\ Nested \subseteq Callers
    /\ Parent \in [Nested -> Callers \ Nested]
    /\ NoOne \notin Closers

VARIABLES
    pc,             \* where each caller is in execute
    closePc,        \* where each closer is in Close
    readers,        \* callers that hold RedisClient.mu for reading
    writer,         \* the closer that waits for RedisClient.mu, announced
    closed,         \* RedisClient.closed
    slots,          \* len(inflightGate.slots)
    inflight,       \* the recorder's inflight gauge
    backendClosed   \* whether backend.Close has been called

vars == <<pc, closePc, readers, writer, closed, slots, inflight, backendClosed>>

\* The stages of execute, in order.  "entering": in RLock; "before": in the
\* middleware chain and the BeforeExecute hooks; "acquiring": in the gate's
\* select; "admitted": holds a slot; "executing": between Begin and finish;
\* "after": in the AfterExecute hooks; "leaving": about to release the lock.
Locations == {"idle", "entering", "before", "acquiring", "admitted",
              "executing", "after", "leaving"}
Inside == Locations \ {"idle", "entering"}
SlotHeld == {"admitted", "executing", "after"}

CloseLocations == {"idle", "requested", "waiting", "unlocked", "returned"}

At(places) == {c \in Callers : pc[c] \in places}

TypeOK ==
    /\ pc \in [Callers -> Locations]
    /\ closePc \in [Closers -> CloseLocations]
    /\ readers \subseteq Callers
    /\ writer \in Closers \union {NoOne}
    /\ closed \in BOOLEAN
    /\ slots \in 0..MaxInflight
    /\ inflight \in 0..MaxInflight
    /\ backendClosed \in BOOLEAN

Init ==
    /\ pc = [c \in Callers |-> "idle"]
    /\ closePc = [k \in Closers |-> "idle"]
    /\ readers = {}
    /\ writer = NoOne
    /\ closed = FALSE
    /\ slots = 0
    /\ inflight = 0
    /\ backendClosed = FALSE

-----------------------------------------------------------------------------
(***************************************************************************)
(* execute.                                                                *)
(***************************************************************************)

MoveTo(c, place) == pc' = [pc EXCEPT ![c] = place]

\* A hook issues a command only while it runs.
MayInvoke(c) == c \in Nested => pc[Parent[c]] \in {"before", "after"}

\* Hooks have returned when the commands they issued have.
HooksDone(c) == \A n \in Nested : Parent[n] = c => pc[n] = "idle"

Invoke(c) ==
    /\ pc[c] = "idle"
    /\ MayInvoke(c)
    /\ MoveTo(c, "entering")
    /\ UNCHANGED <<closePc, readers, writer, closed, slots, inflight, backendClosed>>

\* Mutants of Enter: the closed flag is not checked; a reader overtakes the
\* writer that waits.
EnterUnchecked(c) ==
    /\ pc[c] = "entering"
    /\ writer = NoOne
    /\ MoveTo(c, "before")
    /\ readers' = readers \union {c}
    /\ UNCHANGED <<closePc, writer, closed, slots, inflight, backendClosed>>

EnterOvertaking(c) ==
    /\ pc[c] = "entering"
    /\ ~closed
    /\ MoveTo(c, "before")
    /\ readers' = readers \union {c}
    /\ UNCHANGED <<closePc, writer, closed, slots, inflight, backendClosed>>

\* RLock succeeds and the client is open.
Enter(c) ==
    /\ pc[c] = "entering"
    /\ writer = NoOne
    /\ ~closed
    /\ MoveTo(c, "before")
    /\ readers' = readers \union {c}
    /\ UNCHANGED <<closePc, writer, closed, slots, inflight, backendClosed>>

\* RLock succeeds, the client is closed: RUnlock, ErrClientClosed.
Refuse(c) ==
    /\ pc[c] = "entering"
    /\ writer = NoOne
    /\ closed
    /\ MoveTo(c, "idle")
    /\ UNCHANGED <<closePc, readers, writer, closed, slots, inflight, backendClosed>>

\* A middleware or a BeforeExecute hook returns instead of going on.
CutShort(c) ==
    /\ pc[c] = "before"
    /\ HooksDone(c)
    /\ MoveTo(c, "leaving")
    /\ UNCHANGED <<closePc, readers, writer, closed, slots, inflight, backendClosed>>

BeforeHooksReturn(c) ==
    /\ pc[c] = "before"
    /\ HooksDone(c)
    /\ MoveTo(c, "acquiring")
    /\ UNCHANGED <<closePc, readers, writer, closed, slots, inflight, backendClosed>>

\* Mutant of AcquireSlot: the gate has no capacity.
AcquireUnbounded(c) ==
    /\ pc[c] = "acquiring"
    /\ slots' = slots + 1
    /\ MoveTo(c, "admitted")
    /\ UNCHANGED <<closePc, readers, writer, closed, inflight, backendClosed>>

\* The gate's channel has room.
AcquireSlot(c) ==
    /\ pc[c] = "acquiring"
    /\ slots < MaxInflight
    /\ slots' = slots + 1
    /\ MoveTo(c, "admitted")
    /\ UNCHANGED <<closePc, readers, writer, closed, inflight, backendClosed>>

\* Mutant of Shed: the release is deferred before the error is checked.
ShedReleasing(c) ==
    /\ pc[c] = "acquiring"
    /\ slots' = slots - 1
    /\ MoveTo(c, "leaving")
    /\ UNCHANGED <<closePc, readers, writer, closed, inflight, backendClosed>>

\* The context ends first: ErrBackpressure, or the context's own error.
Shed(c) ==
    /\ pc[c] = "acquiring"
    /\ MoveTo(c, "leaving")
    /\ UNCHANGED <<closePc, readers, writer, closed, slots, inflight, backendClosed>>

\* recorder.Begin, and the executor starts.
Begin(c) ==
    /\ pc[c] = "admitted"
    /\ inflight' = inflight + 1
    /\ MoveTo(c, "executing")
    /\ UNCHANGED <<closePc, readers, writer, closed, slots, backendClosed>>

\* The executor returns, and finish.
Finish(c) ==
    /\ pc[c] = "executing"
    /\ inflight' = inflight - 1
    /\ MoveTo(c, "after")
    /\ UNCHANGED <<closePc, readers, writer, closed, slots, backendClosed>>

\* Mutant of AfterHooksReturn: the slot is not released.
AfterHooksKeepSlot(c) ==
    /\ pc[c] = "after"
    /\ HooksDone(c)
    /\ MoveTo(c, "leaving")
    /\ UNCHANGED <<closePc, readers, writer, closed, slots, inflight, backendClosed>>

\* The AfterExecute hooks return, and the deferred release runs.
AfterHooksReturn(c) ==
    /\ pc[c] = "after"
    /\ HooksDone(c)
    /\ slots' = slots - 1
    /\ MoveTo(c, "leaving")
    /\ UNCHANGED <<closePc, readers, writer, closed, inflight, backendClosed>>

\* The deferred RUnlock, and execute returns.
Leave(c) ==
    /\ pc[c] = "leaving"
    /\ readers' = readers \ {c}
    /\ MoveTo(c, "idle")
    /\ UNCHANGED <<closePc, writer, closed, slots, inflight, backendClosed>>

-----------------------------------------------------------------------------
(***************************************************************************)
(* Close.                                                                  *)
(***************************************************************************)

CloserTo(k, place) == closePc' = [closePc EXCEPT ![k] = place]

RequestClose(k) ==
    /\ closePc[k] = "idle"
    /\ CloserTo(k, "requested")
    /\ UNCHANGED <<pc, readers, writer, closed, slots, inflight, backendClosed>>

\* Lock, first half: the closer becomes the writer that readers wait for.
Announce(k) ==
    /\ closePc[k] = "requested"
    /\ writer = NoOne
    /\ writer' = k
    /\ CloserTo(k, "waiting")
    /\ UNCHANGED <<pc, readers, closed, slots, inflight, backendClosed>>

\* Mutant of SetClosed: the flag is set without waiting for the readers.
SetClosedAtOnce(k) ==
    /\ closePc[k] = "waiting"
    /\ closed' = TRUE
    /\ writer' = NoOne
    /\ CloserTo(k, "unlocked")
    /\ UNCHANGED <<pc, readers, slots, inflight, backendClosed>>

\* Lock, second half, once the readers have left; closed = true; Unlock.
SetClosed(k) ==
    /\ closePc[k] = "waiting"
    /\ readers = {}
    /\ closed' = TRUE
    /\ writer' = NoOne
    /\ CloserTo(k, "unlocked")
    /\ UNCHANGED <<pc, readers, slots, inflight, backendClosed>>

\* backend.Close, and Close returns.
CloseBackend(k) ==
    /\ closePc[k] = "unlocked"
    /\ backendClosed' = TRUE
    /\ CloserTo(k, "returned")
    /\ UNCHANGED <<pc, readers, writer, closed, slots, inflight>>

-----------------------------------------------------------------------------

\* The steps of execute that depend on nobody's decision.
Advance(c) ==
    \/ Enter(c) \/ Refuse(c)
    \/ CutShort(c) \/ BeforeHooksReturn(c)
    \/ AcquireSlot(c)
    \/ Begin(c) \/ Finish(c) \/ AfterHooksReturn(c)
    \/ Leave(c)

CloseStep(k) == Announce(k) \/ SetClosed(k) \/ CloseBackend(k)

Next ==
    \/ \E c \in Callers : Invoke(c) \/ Shed(c) \/ Advance(c)
    \/ \E k \in Closers : RequestClose(k) \/ CloseStep(k)

Spec == Init /\ [][Next]_vars

\* Goroutines keep running, and neither hooks nor the executor block for ever.
\* Blocked senders on the gate's channel are served in arrival order, so a
\* caller that finds it full again and again is eventually let in.
Fairness ==
    /\ \A c \in Callers : WF_vars(Advance(c)) /\ SF_vars(AcquireSlot(c))
    /\ \A k \in Closers : WF_vars(CloseStep(k))

FairSpec == Spec /\ Fairness

-----------------------------------------------------------------------------
(***************************************************************************)
(* Properties.                                                             *)
(***************************************************************************)

\* No command is anywhere between its entry and its return once the backend
\* has been closed, whichever Close closed it.
DrainedBeforeRelease == backendClosed => At(Inside) = {}

\* The gate never loses or invents a slot, on any way out of execute: as many
\* slots are taken as there are commands holding one, and the inflight gauge
\* counts those that are executing.
SlotsAccounted ==
    /\ slots = Cardinality(At(SlotHeld))
    /\ inflight = Cardinality(At({"executing"}))
    /\ slots <= MaxInflight

\* The client keeps the shutdown contract of DrainContract.
Contract == INSTANCE DrainContract
    WITH active <- readers, shut <- closed, released <- backendClosed

KeepsContract == Contract!ContractSpec

\* No hook ever issues a command.
NoNestedCommands == [](\A n \in Nested : pc[n] = "idle")

\* Unless hooks issue commands, every command returns to its caller, with a
\* result or with an error; a command that arrives during a Close is refused
\* and does not hang.
CallsReturn ==
    NoNestedCommands => \A c \in Callers : pc[c] # "idle" ~> pc[c] = "idle"

\* Close returns, also while callers keep issuing commands: a Close that waits
\* is not overtaken by new commands for ever (client_test.go,
\* TestClose_DrainInflight; TODO.md, "Graceful shutdown with drain").
CloseReturns ==
    \A k \in Closers : closePc[k] = "requested" ~> closePc[k] = "returned"

\* Close returns unless hooks issue commands: then every command inside leaves,
\* and none can enter before the waiting Close.
CloseReturnsWithoutNesting == NoNestedCommands => CloseReturns

=============================================================================
