---------------------------- MODULE BreakerGauge ----------------------------
(***************************************************************************)
(* The circuit_breaker_state metric: from the breaker's notifyStateChange, *)
(* through the callback that New of sdk/go/client.go installs, to          *)
(* RecordBreakerState of sdk/go/internal/telemetry/recorder.go.            *)
(*                                                                         *)
(* notifyStateChange starts a goroutine per notice and does not wait.  The *)
(* goroutine writes the gauge of each of the three states to 0, one after  *)
(* another, and then that of its own state to 1: four writes, each atomic, *)
(* and no lock around them.  The goroutines run in any order and mix with  *)
(* one another and with the breaker's further steps.                       *)
(***************************************************************************)
EXTENDS RetryExecutor, Functions

CONSTANT MaxNotifiers   \* bound on the notifier goroutines alive at a time

ASSUME MaxNotifiersAssumption == MaxNotifiers \in Nat \ {0}

\* Mutant of Cleared: one state is forgotten.
ClearedWithoutHalfOpen == <<"closed", "open", "open">>

\* The writes of RecordBreakerState: the first three clear these gauges, in
\* this order; the fourth sets the gauge of the notified state.
Cleared == <<"closed", "open", "half_open">>
LastWrite == 4
Writes == 1..LastWrite

VARIABLES
    gauge,      \* the value of each label of the metric
    notifiers   \* for a state and a write: how many goroutines notify that
                \* state and have that write next

\* History: the states noticed since a goroutine was started while no other
\* was alive.
VARIABLE noticed

gaugeVars == <<gauge, notifiers, noticed>>
gvars == <<vars, gaugeVars>>

SumOf(f) == FoldFunction(LAMBDA m, n : m + n, 0, f)
Total == SumOf([to \in States |-> SumOf(notifiers[to])])
Quiet == \A to \in States, w \in Writes : notifiers[to][w] = 0

\* The metric with s as the only active state.
OneHot(s) == [t \in States |-> IF t = s THEN 1 ELSE 0]

GaugeInit ==
    /\ Init
    /\ gauge = OneHot("closed")
    /\ notifiers = [to \in States |-> [w \in Writes |-> 0]]
    /\ noticed = {"closed"}

\* notifyStateChange, called for each state in `notice`: one or none.
Notify(notice) ==
    IF notice = {}
    THEN UNCHANGED gaugeVars
    ELSE \E to \in notice :
            /\ Total < MaxNotifiers
            /\ notifiers' = [notifiers EXCEPT ![to][1] = @ + 1]
            /\ noticed' = IF Quiet THEN {to} ELSE noticed \union {to}
            /\ UNCHANGED gauge

\* The effect of a goroutine's write number w for the state `to`.
WriteGauge(to, w) ==
    gauge' = IF w = LastWrite THEN [gauge EXCEPT ![to] = 1]
                              ELSE [gauge EXCEPT ![Cleared[w]] = 0]

\* A goroutine of RecordBreakerState(to) does its next write.
RecordBreakerState(to, w) ==
    /\ notifiers[to][w] > 0
    /\ WriteGauge(to, w)
    /\ notifiers' = IF w = LastWrite
                    THEN [notifiers EXCEPT ![to][w] = @ - 1]
                    ELSE [notifiers EXCEPT ![to][w] = @ - 1, ![to][w + 1] = @ + 1]
    /\ UNCHANGED <<vars, noticed>>

\* The executor's steps, with the notices of those that call the breaker.
GaugeNext ==
    \/ \E c \in Calls :
        \/ Admit(c) /\ Notify(AllowNotice)
        \/ ReportSuccess(c) /\ Notify(SuccessNotice)
        \/ ReportFailure(c) /\ Notify(FailureNotice)
        \/ /\ \/ AttemptSucceeds(c) \/ AttemptFailsForGood(c) \/ AttemptFails(c)
              \/ RetryAfterBackoff(c) \/ ContextEnds(c) \/ Abandon(c)
              \/ Refuse(c)
           /\ UNCHANGED gaugeVars
    \/ TimePasses /\ UNCHANGED gaugeVars
    \/ \E to \in States, w \in Writes : RecordBreakerState(to, w)

GaugeSpec == GaugeInit /\ [][GaugeNext]_gvars

-----------------------------------------------------------------------------

\* The states the metric shows as active.
Active == {s \in States : gauge[s] = 1}

\* Once every notice has been recorded, the metric shows at least one state, and
\* none but those noticed by the goroutines that overlapped last, in whatever
\* order they ran: an older state cannot survive them, and a notice that is
\* recorded alone repairs what earlier overlaps have left.
ShowsOnlyNoticed == Quiet => Active # {} /\ Active \subseteq noticed

\* The metric's help text (recorder.go: "1 = active state, 0 = inactive"): once
\* every notice has been recorded, no two states are shown as active.
OneStateActive == Quiet => \A s, t \in Active : s = t

\* The same text and TODO.md ("Circuit breaker state transitions -> Prometheus
\* metric"): once every notice has been recorded, and those that overlapped last
\* were all of one state, the state shown as active is the breaker's.
MetricShowsState == Quiet /\ Cardinality(noticed) = 1 => gauge = OneHot(state)

=============================================================================
