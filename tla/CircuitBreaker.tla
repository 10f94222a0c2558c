--------------------------- MODULE CircuitBreaker ---------------------------
(***************************************************************************)
(* The circuit breaker of sdk/go/internal/breaker/breaker.go.              *)
(*                                                                         *)
(* The module has the breaker's fields as variables and one operator per   *)
(* method.  Every method body runs under Breaker.mu, so a method is one    *)
(* atomic step.  The operators are conjuncts of the actions of the modules *)
(* that drive a breaker: RetryExecutor, and BreakerGauge on top of it.     *)
(*                                                                         *)
(* Two pieces of data are abstracted:                                      *)
(*   - openedAt is only ever compared with OpenTimeout, by Allow; `cooled` *)
(*     is the value of that comparison, time.Since(openedAt) >= OpenTimeout*)
(*   - failures is only ever compared with FailureThreshold, so it is      *)
(*     counted up to that threshold and no further.                        *)
(***************************************************************************)
EXTENDS Naturals

CONSTANTS
    FailureThreshold,       \* Config.FailureThreshold, after New's defaults
    HalfOpenMaxRequests     \* Config.HalfOpenMaxRequests, after New's defaults

\* New replaces every non-positive setting by a positive default.
ASSUME FailureThresholdAssumption == FailureThreshold \in Nat \ {0}
ASSUME HalfOpenMaxRequestsAssumption == HalfOpenMaxRequests \in Nat \ {0}

VARIABLES
    state,              \* Breaker.state
    failures,           \* Breaker.failures, counted up to FailureThreshold
    cooled,             \* time.Since(Breaker.openedAt) >= OpenTimeout
    halfOpenRequests    \* Breaker.halfOpenRequests

breakerVars == <<state, failures, cooled, halfOpenRequests>>

States == {"closed", "open", "half_open"}

BreakerTypeOK ==
    /\ state \in States
    /\ failures \in 0..FailureThreshold
    /\ cooled \in BOOLEAN
    /\ halfOpenRequests \in 0..HalfOpenMaxRequests

\* A zero openedAt lies further back than any OpenTimeout.
BreakerInit ==
    /\ state = "closed"
    /\ failures = 0
    /\ cooled = TRUE
    /\ halfOpenRequests = 0

-----------------------------------------------------------------------------

\* Mutants of Admits: one probe too many; an open circuit that does not wait;
\* an open circuit that nothing ends.
AdmitsOneMore ==
    \/ state = "closed"
    \/ state = "open" /\ cooled
    \/ state = "half_open" /\ halfOpenRequests <= HalfOpenMaxRequests

AdmitsAtOnce ==
    \/ state = "closed"
    \/ state = "open"
    \/ state = "half_open" /\ halfOpenRequests < HalfOpenMaxRequests

AdmitsNeverAgain ==
    \/ state = "closed"
    \/ state = "half_open" /\ halfOpenRequests < HalfOpenMaxRequests

\* The condition under which Allow returns nil.
Admits ==
    \/ state = "closed"
    \/ state = "open" /\ cooled
    \/ state = "half_open" /\ halfOpenRequests < HalfOpenMaxRequests

\* An Allow that returns nil.  The one that finds the timeout elapsed moves to
\* half-open and takes the first of the probe slots it has just reset.
Allow ==
    /\ Admits
    /\ state' = IF state = "closed" THEN "closed" ELSE "half_open"
    /\ halfOpenRequests' = CASE state = "closed"    -> halfOpenRequests
                             [] state = "open"      -> 1
                             [] state = "half_open" -> halfOpenRequests + 1
    /\ UNCHANGED <<failures, cooled>>

\* An Allow that returns ErrOpen changes nothing.
Deny == ~Admits /\ UNCHANGED breakerVars

\* Mutants of RecordSuccess: the failure count survives a success; a probe's
\* success neither closes the circuit nor returns its slot.
RecordSuccessKeepsCount ==
    /\ state' = "closed"
    /\ halfOpenRequests' = 0
    /\ UNCHANGED <<failures, cooled>>

RecordSuccessOfProbeIgnored ==
    /\ state' = IF state = "half_open" THEN "half_open" ELSE "closed"
    /\ failures' = 0
    /\ UNCHANGED <<cooled, halfOpenRequests>>

\* The method does not ask whether the success belongs to a probe: the success
\* of a call admitted long before closes an open circuit too.
RecordSuccess ==
    /\ state' = "closed"
    /\ failures' = 0
    /\ halfOpenRequests' = 0
    /\ UNCHANGED cooled

\* The circuit opens, or stays open: in every case openedAt becomes now.
Open(count, slots) ==
    /\ state' = "open"
    /\ cooled' = FALSE
    /\ failures' = count
    /\ halfOpenRequests' = slots

\* Mutants of RecordFailure: the probe slots are not reset; the count is compared
\* before it is incremented.
RecordFailureKeepsSlots ==
    IF state = "half_open"
    THEN Open(failures, halfOpenRequests)
    ELSE LET count == IF failures < FailureThreshold THEN failures + 1 ELSE failures
         IN  IF count >= FailureThreshold
             THEN Open(count, halfOpenRequests)
             ELSE /\ failures' = count
                  /\ UNCHANGED <<state, cooled, halfOpenRequests>>

RecordFailureLate ==
    IF state = "half_open"
    THEN Open(failures, 0)
    ELSE IF failures >= FailureThreshold
         THEN Open(failures, halfOpenRequests)
         ELSE /\ failures' = failures + 1
              /\ UNCHANGED <<state, cooled, halfOpenRequests>>

RecordFailure ==
    IF state = "half_open"
    THEN Open(failures, 0)
    ELSE LET count == IF failures < FailureThreshold THEN failures + 1 ELSE failures
         IN  IF count >= FailureThreshold
             THEN Open(count, halfOpenRequests)
             ELSE /\ failures' = count
                  /\ UNCHANGED <<state, cooled, halfOpenRequests>>

\* The clock passes openedAt + OpenTimeout.
OpenTimeoutElapses ==
    /\ ~cooled
    /\ cooled' = TRUE
    /\ UNCHANGED <<state, failures, halfOpenRequests>>

-----------------------------------------------------------------------------

(***************************************************************************)
(* The `to` states that a method passes to notifyStateChange, as a set of  *)
(* at most one state.  A success that closes an open circuit notifies      *)
(* nobody; a failure while the circuit is already open notifies again.     *)
(***************************************************************************)
AllowNotice == IF state = "open" /\ cooled THEN {"half_open"} ELSE {}

SuccessNotice == IF state = "half_open" THEN {"closed"} ELSE {}

FailureNotice ==
    IF state = "half_open" \/ failures + 1 >= FailureThreshold THEN {"open"} ELSE {}

=============================================================================
