---------------------------- MODULE RetryExecutor ----------------------------
(***************************************************************************)
(* Executor.Do of sdk/go/internal/retry/executor.go, run by concurrent     *)
(* calls that share one circuit breaker.                                   *)
(*                                                                         *)
(* Every member of Calls is a goroutine that issues one command after      *)
(* another.  A command asks the breaker once, then makes up to MaxAttempts *)
(* attempts with a backoff wait between them, and reports its outcome to   *)
(* the breaker.  The return of an attempt and the report are separate      *)
(* steps, because the breaker's lock is taken only for the report.         *)
(*                                                                         *)
(* The last RecordFailure of Do, after the loop, is unreachable: the final *)
(* attempt returns from inside the loop.                                   *)
(***************************************************************************)
EXTENDS CircuitBreaker, FiniteSets

CONSTANTS
    Calls,          \* the goroutines that issue commands
    Cancellable,    \* those whose context can end before the command does
    MaxAttempts     \* Policy.MaxAttempts, after New's default

ASSUME CallsAssumption == IsFiniteSet(Calls) /\ Cancellable \subseteq Calls
ASSUME MaxAttemptsAssumption == MaxAttempts \in Nat \ {0}

VARIABLES
    pc,         \* where each call is in Do
    attempt,    \* Do's loop variable
    ctxDone     \* whether the call's ctx.Done() is closed

callVars == <<pc, attempt, ctxDone>>

\* "idle": outside Do; "running": inside fn; "waiting": in the select on the
\* backoff timer; "succeeded", "failed": about to report to the breaker.
Locations == {"idle", "running", "waiting", "succeeded", "failed"}

(***************************************************************************)
(* History variables, read by the properties only.                         *)
(***************************************************************************)
VARIABLES
    probes,     \* calls in flight admitted by the current half-open period
    abandoned,  \* number of those that left Do without reporting
    unbroken    \* failures reported since a success was last reported, capped

historyVars == <<probes, abandoned, unbroken>>
vars == <<state, failures, cooled, halfOpenRequests, pc, attempt, ctxDone,
          probes, abandoned, unbroken>>

InFlight == {c \in Calls : pc[c] # "idle"}

\* unbroken is compared with FailureThreshold only, hence the cap.
OneMoreFailure == IF unbroken < FailureThreshold THEN unbroken + 1 ELSE unbroken

TypeOK ==
    /\ BreakerTypeOK
    /\ pc \in [Calls -> Locations]
    /\ attempt \in [Calls -> 1..MaxAttempts]
    /\ ctxDone \in [Calls -> BOOLEAN]
    /\ probes \subseteq Calls
    /\ abandoned \in 0..HalfOpenMaxRequests
    /\ unbroken \in 0..FailureThreshold

Init ==
    /\ BreakerInit
    /\ pc = [c \in Calls |-> "idle"]
    /\ attempt = [c \in Calls |-> 1]
    /\ ctxDone = [c \in Calls |-> FALSE]
    /\ probes = {}
    /\ abandoned = 0
    /\ unbroken = 0

-----------------------------------------------------------------------------

\* Do asks the breaker, and the first attempt starts.
Admit(c) ==
    /\ pc[c] = "idle"
    /\ Allow
    /\ pc' = [pc EXCEPT ![c] = "running"]
    /\ attempt' = [attempt EXCEPT ![c] = 1]
    /\ ctxDone' = [ctxDone EXCEPT ![c] = FALSE]
    /\ probes' = CASE state = "closed"    -> {}
                   [] state = "open"      -> {c}
                   [] state = "half_open" -> probes \union {c}
    /\ abandoned' = IF state = "half_open" THEN abandoned ELSE 0
    /\ UNCHANGED unbroken

\* Do returns ErrOpen before any attempt.
Refuse(c) ==
    /\ pc[c] = "idle"
    /\ Deny
    /\ UNCHANGED <<callVars, historyVars>>

\* fn returns no error.
AttemptSucceeds(c) ==
    /\ pc[c] = "running"
    /\ pc' = [pc EXCEPT ![c] = "succeeded"]
    /\ UNCHANGED <<breakerVars, attempt, ctxDone, historyVars>>

\* fn returns an error that the classifier rejects, or any error on the last
\* attempt.  What the classifier says of an error is left open.
AttemptFailsForGood(c) ==
    /\ pc[c] = "running"
    /\ pc' = [pc EXCEPT ![c] = "failed"]
    /\ UNCHANGED <<breakerVars, attempt, ctxDone, historyVars>>

\* fn returns a retryable error before the last attempt.
AttemptFails(c) ==
    /\ pc[c] = "running"
    /\ attempt[c] # MaxAttempts
    /\ pc' = [pc EXCEPT ![c] = "waiting"]
    /\ UNCHANGED <<breakerVars, attempt, ctxDone, historyVars>>

\* Mutant of RetryAfterBackoff: the loop does not count the attempt.
RetryUncounted(c) ==
    /\ pc[c] = "waiting"
    /\ pc' = [pc EXCEPT ![c] = "running"]
    /\ UNCHANGED <<breakerVars, attempt, ctxDone, historyVars>>

\* The backoff timer fires; select may choose it even when ctx is done.
RetryAfterBackoff(c) ==
    /\ pc[c] = "waiting"
    /\ pc' = [pc EXCEPT ![c] = "running"]
    /\ attempt' = [attempt EXCEPT ![c] = @ + 1]
    /\ UNCHANGED <<breakerVars, ctxDone, historyVars>>

\* The caller's context is cancelled or reaches its deadline.
ContextEnds(c) ==
    /\ c \in Cancellable
    /\ pc[c] # "idle"
    /\ ~ctxDone[c]
    /\ ctxDone' = [ctxDone EXCEPT ![c] = TRUE]
    /\ UNCHANGED <<breakerVars, pc, attempt, historyVars>>

\* select chooses ctx.Done(): Do returns the context's error, after at least
\* one failed attempt, and tells the breaker nothing.
Abandon(c) ==
    /\ pc[c] = "waiting"
    /\ ctxDone[c]
    /\ pc' = [pc EXCEPT ![c] = "idle"]
    /\ probes' = probes \ {c}
    /\ abandoned' = IF c \in probes THEN abandoned + 1 ELSE abandoned
    /\ UNCHANGED <<breakerVars, attempt, ctxDone, unbroken>>

\* Do reports success and returns.
ReportSuccess(c) ==
    /\ pc[c] = "succeeded"
    /\ RecordSuccess
    /\ pc' = [pc EXCEPT ![c] = "idle"]
    /\ probes' = {}
    /\ abandoned' = 0
    /\ unbroken' = 0
    /\ UNCHANGED <<attempt, ctxDone>>

\* Do reports failure and returns.
ReportFailure(c) ==
    /\ pc[c] = "failed"
    /\ RecordFailure
    /\ pc' = [pc EXCEPT ![c] = "idle"]
    /\ probes' = {}
    /\ abandoned' = 0
    /\ unbroken' = OneMoreFailure
    /\ UNCHANGED <<attempt, ctxDone>>

TimePasses == OpenTimeoutElapses /\ UNCHANGED <<callVars, historyVars>>

\* What a call in flight does of its own accord: its steps in Do.
Proceed(c) ==
    \/ AttemptSucceeds(c)
    \/ AttemptFailsForGood(c)
    \/ AttemptFails(c)
    \/ RetryAfterBackoff(c)
    \/ Abandon(c)
    \/ ReportSuccess(c)
    \/ ReportFailure(c)

Next ==
    \/ \E c \in Calls : Admit(c) \/ Refuse(c) \/ Proceed(c) \/ ContextEnds(c)
    \/ TimePasses

Spec == Init /\ [][Next]_vars

\* A goroutine in Do keeps running; fn returns because the driver bounds every
\* round trip by its dial, read and write timeouts; the timer fires.  Nothing
\* is assumed of new calls, of contexts or of the open timeout.
Fairness == \A c \in Calls : WF_vars(Proceed(c))

FairSpec == Spec /\ Fairness

\* Callers that never lose interest: whoever may be admitted eventually asks
\* again, and the clock moves on.
Demand == WF_vars(TimePasses) /\ \A c \in Calls : WF_vars(Admit(c))

DemandSpec == FairSpec /\ Demand

-----------------------------------------------------------------------------
(***************************************************************************)
(* Safety.                                                                 *)
(***************************************************************************)

\* The failure counter and the state agree: the circuit is closed exactly when
\* fewer than FailureThreshold failures are counted, although the counter is
\* left alone by a failed probe and cleared by any late success.
ClosedBelowThreshold == state = "closed" <=> failures < FailureThreshold

\* Every probe slot counted by the breaker is held by a call in flight that
\* this half-open period admitted, or was taken by one that gave up during its
\* backoff; outside half-open no slot is counted.  Reports of calls from
\* earlier periods arrive in between and must not disturb the count.
SlotAccounting ==
    /\ probes \subseteq InFlight
    /\ IF state = "half_open"
       THEN halfOpenRequests = Cardinality(probes) + abandoned
       ELSE probes = {} /\ abandoned = 0 /\ halfOpenRequests = 0

\* The circuit is tripped for cause and never without: exactly when FailureThreshold
\* failures have been reported since the last success was, however the reports
\* interleave with probes (breaker_test.go, TestBreakerOpensAfterThreshold).
TrippedForCause == state # "closed" <=> unbroken >= FailureThreshold

\* A half-open circuit has a free probe slot, or a probe in flight whose report
\* will close or reopen it.  It is wedged only by calls that gave up during their
\* backoff, when they have taken every slot in this half-open period.
WedgedOnlyByAbandonment ==
    state = "half_open" =>
        \/ halfOpenRequests < HalfOpenMaxRequests
        \/ probes # {}
        \/ abandoned = HalfOpenMaxRequests

(***************************************************************************)
(* Action properties.                                                      *)
(***************************************************************************)

\* Before OpenTimeout has passed, an open circuit yields to nothing but the
\* success of a call admitted earlier; no failure, refusal or late probe ends
\* the pause.
OpenHoldsUntilTimeout ==
    [][(state = "open" /\ ~cooled /\ state' # "open")
          => /\ state' = "closed"
             /\ \E c \in Calls : pc[c] = "succeeded" /\ pc'[c] = "idle"]_vars

(***************************************************************************)
(* Liveness.                                                               *)
(***************************************************************************)

\* Every command admitted returns to its caller: retries are bounded, and no
\* wait in Do depends on another call.
CallsReturn == \A c \in Calls : pc[c] # "idle" ~> pc[c] = "idle"

\* Every command reports to the breaker (docs/architecture/overview.md), so that a
\* half-open circuit reaches a verdict: it closes or reopens.
HalfOpenSettles == state = "half_open" ~> state # "half_open"

\* It does unless one of its probes gives up during its backoff.
SettlesUnlessAbandoned == state = "half_open" ~> state # "half_open" \/ abandoned > 0

\* Under continuing demand an open circuit is tried again: late failures push
\* the end of the pause back, but not for ever.
OpenIsRetried == Demand => (state = "open" ~> state # "open")

=============================================================================
