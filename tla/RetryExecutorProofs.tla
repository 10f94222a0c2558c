------------------------- MODULE RetryExecutorProofs -------------------------
(***************************************************************************)
(* Proofs about RetryExecutor, for any number of calls, any thresholds and *)
(* any number of attempts; and about BreakerGauge, its composition with the*)
(* metric, for any number of notifier goroutines alive at a time.          *)
(***************************************************************************)
EXTENDS BreakerGauge, FiniteSetTheorems, TLAPS

\* A call waits for a retry only while it has attempts left.
RetryLeft == \A c \in Calls : pc[c] = "waiting" => attempt[c] < MaxAttempts

\* A closed breaker has counted every failure reported since the last success.
CountedFailures == state = "closed" => failures = unbroken

\* The inductive invariant.  The type of `abandoned` rests on SlotAccounting,
\* TrippedForCause rests on CountedFailures.
IInv ==
    /\ TypeOK
    /\ RetryLeft
    /\ ClosedBelowThreshold
    /\ SlotAccounting
    /\ CountedFailures
    /\ TrippedForCause

-----------------------------------------------------------------------------

\* Any set of calls is finite, and its cardinality is a natural number that
\* changes by one with an element.
LEMMA CallSets ==
    ASSUME NEW S \in SUBSET Calls, NEW c \in Calls
    PROVE  /\ Cardinality(S) \in Nat
           /\ Cardinality(S \union {c}) =
                IF c \in S THEN Cardinality(S) ELSE Cardinality(S) + 1
           /\ Cardinality(S \ {c}) =
                IF c \in S THEN Cardinality(S) - 1 ELSE Cardinality(S)
           /\ c \in S => Cardinality(S) # 0
           /\ Cardinality({c}) = 1
           /\ Cardinality({}) = 0
<1>1. IsFiniteSet(S)
  BY CallsAssumption, FS_Subset
<1>2. Cardinality({}) = 0 /\ IsFiniteSet({})
  BY FS_EmptySet
<1>3. Cardinality({c}) = 1
  <2>1. Cardinality({} \union {c}) = Cardinality({}) + 1
    BY <1>2, FS_AddElement
  <2> QED BY <2>1, <1>2
<1> QED
  BY <1>1, <1>2, <1>3, FS_CardinalityType, FS_AddElement, FS_RemoveElement, FS_EmptySet

\* The invariant holds in the beginning.
LEMMA InitIInv == Init => IInv
  BY FailureThresholdAssumption, HalfOpenMaxRequestsAssumption, MaxAttemptsAssumption
  DEF Init, IInv, BreakerInit, TypeOK, BreakerTypeOK, States, Locations, InFlight,
      RetryLeft, ClosedBelowThreshold, SlotAccounting, CountedFailures, TrippedForCause

-----------------------------------------------------------------------------
(***************************************************************************)
(* One lemma per kind of step.                                             *)
(***************************************************************************)

\* The steps inside Do that leave the breaker and the history alone.
QuietStep(c) ==
    \/ AttemptSucceeds(c)
    \/ AttemptFailsForGood(c)
    \/ AttemptFails(c)
    \/ RetryAfterBackoff(c)
    \/ ContextEnds(c)

\* Steps that do not touch the breaker.
LEMMA QuietStepIInv ==
    ASSUME IInv, NEW c \in Calls, QuietStep(c)
    PROVE  IInv'
<1>1. UNCHANGED <<breakerVars, historyVars>>
  BY DEF QuietStep, AttemptSucceeds, AttemptFailsForGood, AttemptFails,
         RetryAfterBackoff, ContextEnds
<1>2. /\ pc' \in [Calls -> Locations]
      /\ ctxDone' \in [Calls -> BOOLEAN]
      /\ \A d \in Calls : pc'[d] = "idle" <=> pc[d] = "idle"
  BY DEF IInv, TypeOK, Locations, QuietStep, AttemptSucceeds, AttemptFailsForGood,
         AttemptFails, RetryAfterBackoff, ContextEnds
<1>3. attempt' \in [Calls -> 1..MaxAttempts]
  BY MaxAttemptsAssumption
  DEF IInv, TypeOK, RetryLeft, QuietStep, AttemptSucceeds, AttemptFailsForGood,
      AttemptFails, RetryAfterBackoff, ContextEnds
<1>4. RetryLeft'
  BY MaxAttemptsAssumption
  DEF IInv, TypeOK, RetryLeft, Locations, QuietStep, AttemptSucceeds,
      AttemptFailsForGood, AttemptFails, RetryAfterBackoff, ContextEnds
<1>5. TypeOK'
  BY <1>1, <1>2, <1>3
  DEF IInv, TypeOK, BreakerTypeOK, breakerVars, historyVars
<1>6. SlotAccounting'
  BY <1>1, <1>2 DEF IInv, SlotAccounting, InFlight, breakerVars, historyVars
<1>7. ClosedBelowThreshold' /\ CountedFailures' /\ TrippedForCause'
  BY <1>1
  DEF IInv, ClosedBelowThreshold, CountedFailures, TrippedForCause, breakerVars, historyVars
<1> QED
  BY <1>4, <1>5, <1>6, <1>7 DEF IInv

\* Allow admits a call, perhaps as a probe.
LEMMA AdmitIInv ==
    ASSUME IInv, NEW c \in Calls, Admit(c)
    PROVE  IInv'
<1> USE FailureThresholdAssumption, HalfOpenMaxRequestsAssumption, MaxAttemptsAssumption
<1>1. /\ pc' \in [Calls -> Locations]
      /\ attempt' \in [Calls -> 1..MaxAttempts]
      /\ ctxDone' \in [Calls -> BOOLEAN]
      /\ pc[c] = "idle" /\ pc' = [pc EXCEPT ![c] = "running"]
      /\ \A d \in Calls : pc'[d] = "waiting" => pc[d] = "waiting" /\ attempt'[d] = attempt[d]
  BY DEF IInv, TypeOK, Locations, Admit
<1>2. /\ failures' = failures /\ cooled' = cooled /\ unbroken' = unbroken
      /\ state \in States /\ failures \in 0..FailureThreshold
  BY DEF IInv, TypeOK, BreakerTypeOK, Admit, Allow
<1>3. c \notin probes /\ probes \subseteq Calls
  BY <1>1 DEF IInv, TypeOK, SlotAccounting, InFlight
<1>4. SlotAccounting' /\ halfOpenRequests' \in 0..HalfOpenMaxRequests
      /\ probes' \subseteq Calls /\ abandoned' \in 0..HalfOpenMaxRequests
      /\ state' \in States
  <2>1. CASE state = "closed"
    BY <2>1 DEF IInv, TypeOK, BreakerTypeOK, States, SlotAccounting, Admit, Allow
  <2>2. CASE state = "open"
    <3>1. state' = "half_open" /\ halfOpenRequests' = 1 /\ probes' = {c} /\ abandoned' = 0
      BY <2>2 DEF Admit, Allow
    <3>2. probes' \subseteq InFlight'
      BY <3>1, <1>1 DEF InFlight, IInv, TypeOK
    <3>3. Cardinality(probes') = 1
      BY <3>1, <1>3, CallSets
    <3> QED BY <3>1, <3>2, <3>3 DEF SlotAccounting, States
  <2>3. CASE state = "half_open"
    <3>1. /\ state' = "half_open" /\ halfOpenRequests' = halfOpenRequests + 1
          /\ halfOpenRequests < HalfOpenMaxRequests
          /\ probes' = probes \union {c} /\ abandoned' = abandoned
      BY <2>3 DEF Admit, Allow, Admits
    <3>2. probes' \subseteq InFlight'
      BY <3>1, <1>1 DEF IInv, TypeOK, SlotAccounting, InFlight
    <3>3. Cardinality(probes') = Cardinality(probes) + 1 /\ Cardinality(probes) \in Nat
      BY <3>1, <1>3, CallSets
    <3>4. halfOpenRequests = Cardinality(probes) + abandoned
      BY <2>3 DEF IInv, SlotAccounting
    <3> QED
      BY <3>1, <3>2, <3>3, <3>4, <1>3
      DEF SlotAccounting, States, IInv, TypeOK, BreakerTypeOK
  <2> QED BY <2>1, <2>2, <2>3, <1>2 DEF States
<1>5. TypeOK'
  BY <1>1, <1>2, <1>4 DEF IInv, TypeOK, BreakerTypeOK
<1>6. RetryLeft'
  BY <1>1 DEF IInv, RetryLeft
<1>7. state' = "closed" <=> state = "closed"
  BY DEF Admit, Allow
<1>8. ClosedBelowThreshold' /\ CountedFailures' /\ TrippedForCause'
  BY <1>2, <1>7 DEF IInv, ClosedBelowThreshold, CountedFailures, TrippedForCause
<1> QED
  BY <1>4, <1>5, <1>6, <1>8 DEF IInv

\* A context ends in the backoff.
LEMMA AbandonIInv ==
    ASSUME IInv, NEW c \in Calls, Abandon(c)
    PROVE  IInv'
<1> USE FailureThresholdAssumption, HalfOpenMaxRequestsAssumption
<1>1. /\ UNCHANGED <<breakerVars, attempt, ctxDone>>
      /\ pc' = [pc EXCEPT ![c] = "idle"]
      /\ probes' = probes \ {c}
      /\ abandoned' = IF c \in probes THEN abandoned + 1 ELSE abandoned
      /\ pc' \in [Calls -> Locations]
      /\ \A d \in Calls : pc'[d] = "waiting" => pc[d] = "waiting"
  BY DEF IInv, TypeOK, Locations, Abandon
<1>2. unbroken' = unbroken
  BY DEF Abandon
<1>3. /\ probes \in SUBSET Calls /\ Cardinality(probes) \in Nat
      /\ Cardinality(probes') = IF c \in probes THEN Cardinality(probes) - 1
                                                ELSE Cardinality(probes)
      /\ c \in probes => Cardinality(probes) # 0
  BY <1>1, CallSets DEF IInv, TypeOK
<1>4. probes' \subseteq InFlight'
  BY <1>1 DEF IInv, TypeOK, SlotAccounting, InFlight
<1>5. SlotAccounting' /\ abandoned' \in 0..HalfOpenMaxRequests
  <2>1. CASE state = "half_open"
    <3>1. halfOpenRequests = Cardinality(probes) + abandoned
          /\ halfOpenRequests \in 0..HalfOpenMaxRequests
          /\ abandoned \in 0..HalfOpenMaxRequests
      BY <2>1 DEF IInv, SlotAccounting, TypeOK, BreakerTypeOK
    <3> QED
      BY <2>1, <3>1, <1>1, <1>3, <1>4 DEF SlotAccounting, breakerVars
  <2>2. CASE state # "half_open"
    BY <2>2, <1>1, <1>4 DEF IInv, SlotAccounting, breakerVars
  <2> QED BY <2>1, <2>2
<1>6. TypeOK'
  BY <1>1, <1>2, <1>3, <1>5 DEF IInv, TypeOK, BreakerTypeOK, breakerVars
<1>7. RetryLeft'
  BY <1>1 DEF IInv, RetryLeft
<1>8. ClosedBelowThreshold' /\ CountedFailures' /\ TrippedForCause'
  BY <1>1, <1>2
  DEF IInv, TypeOK, BreakerTypeOK, ClosedBelowThreshold, CountedFailures,
      TrippedForCause, breakerVars
<1> QED
  BY <1>5, <1>6, <1>7, <1>8 DEF IInv

\* What the two reports have in common: the call is over, its slot too.
LEMMA ReportIInv ==
    ASSUME IInv, NEW c \in Calls, ReportSuccess(c) \/ ReportFailure(c)
    PROVE  IInv'
<1> USE FailureThresholdAssumption, HalfOpenMaxRequestsAssumption
<1>1. /\ pc' \in [Calls -> Locations]
      /\ UNCHANGED <<attempt, ctxDone>>
      /\ probes' = {} /\ abandoned' = 0
      /\ \A d \in Calls : pc'[d] = "waiting" => pc[d] = "waiting"
  BY DEF IInv, TypeOK, Locations, ReportSuccess, ReportFailure
<1>2. RetryLeft'
  BY <1>1 DEF IInv, RetryLeft
<1>3. unbroken' \in 0..FailureThreshold
  BY DEF IInv, TypeOK, ReportSuccess, ReportFailure, OneMoreFailure
<1>4. /\ state' \in {"closed", "open"} /\ cooled' \in BOOLEAN
      /\ failures' \in 0..FailureThreshold
      /\ halfOpenRequests' = 0
  <2>1. CASE ReportSuccess(c)
    BY <2>1 DEF IInv, TypeOK, BreakerTypeOK, ReportSuccess, RecordSuccess
  <2>2. CASE ReportFailure(c)
    <3>1. /\ RecordFailure
          /\ state \in {"closed", "open", "half_open"} /\ cooled \in BOOLEAN
          /\ failures \in 0..FailureThreshold
      BY <2>2 DEF ReportFailure, IInv, TypeOK, BreakerTypeOK, States
    <3>2. state # "half_open" => halfOpenRequests = 0
      BY DEF IInv, SlotAccounting
    <3>3. CASE state = "half_open"
      BY <3>1, <3>3 DEF RecordFailure, Open
    <3>4. CASE state # "half_open"
      <4> DEFINE count == IF failures < FailureThreshold THEN failures + 1 ELSE failures
      <4>1. count \in 0..FailureThreshold
        BY <3>1
      <4>2. IF count >= FailureThreshold
            THEN Open(count, halfOpenRequests)
            ELSE /\ failures' = count
                 /\ UNCHANGED <<state, cooled, halfOpenRequests>>
        BY <3>1, <3>4 DEF RecordFailure
      <4> HIDE DEF count
      <4> QED
        BY <3>1, <3>2, <3>4, <4>1, <4>2 DEF Open
    <3> QED BY <3>3, <3>4
  <2> QED BY <2>1, <2>2
<1>5. TypeOK' /\ SlotAccounting'
  BY <1>1, <1>3, <1>4 DEF IInv, TypeOK, BreakerTypeOK, States, SlotAccounting
<1>6. ClosedBelowThreshold' /\ CountedFailures' /\ TrippedForCause'
  <2>1. CASE ReportSuccess(c)
    BY <2>1 DEF ReportSuccess, RecordSuccess, ClosedBelowThreshold, CountedFailures,
                TrippedForCause
  <2>2. CASE ReportFailure(c)
    BY <2>2 DEF IInv, TypeOK, BreakerTypeOK, States, ReportFailure, RecordFailure, Open,
                OneMoreFailure, ClosedBelowThreshold, CountedFailures, TrippedForCause
  <2> QED BY <2>1, <2>2
<1> QED
  BY <1>2, <1>5, <1>6 DEF IInv

\* The clock, a refusal and a stuttering step.
LEMMA IdleStepIInv ==
    ASSUME IInv,
           \/ TimePasses
           \/ \E c \in Calls : Refuse(c)
           \/ UNCHANGED vars
    PROVE  IInv'
<1>1. /\ UNCHANGED <<state, failures, halfOpenRequests>>
      /\ UNCHANGED <<pc, attempt, ctxDone, probes, abandoned, unbroken>>
      /\ cooled' \in BOOLEAN
  BY DEF IInv, TypeOK, BreakerTypeOK, TimePasses, OpenTimeoutElapses, Refuse, Deny,
         breakerVars, callVars, historyVars, vars
<1> QED
  BY <1>1
  DEF IInv, TypeOK, BreakerTypeOK, RetryLeft, ClosedBelowThreshold, SlotAccounting,
      InFlight, CountedFailures, TrippedForCause

\* Every step keeps the invariant.
LEMMA NextIInv == IInv /\ [Next]_vars => IInv'
<1> SUFFICES ASSUME IInv, [Next]_vars PROVE IInv'
  OBVIOUS
<1>1. CASE TimePasses \/ (\E c \in Calls : Refuse(c)) \/ UNCHANGED vars
  BY <1>1, IdleStepIInv
<1>2. ASSUME NEW c \in Calls, Admit(c) PROVE IInv'
  BY <1>2, AdmitIInv
<1>3. ASSUME NEW c \in Calls, QuietStep(c) PROVE IInv'
  BY <1>3, QuietStepIInv
<1>4. ASSUME NEW c \in Calls, Abandon(c) PROVE IInv'
  BY <1>4, AbandonIInv
<1>5. ASSUME NEW c \in Calls, ReportSuccess(c) \/ ReportFailure(c) PROVE IInv'
  BY <1>5, ReportIInv
<1> QED
  BY <1>1, <1>2, <1>3, <1>4, <1>5 DEF Next, Proceed, QuietStep

\* The inductive invariant holds in every reachable state.
THEOREM Invariance == Spec => []IInv
  BY InitIInv, NextIInv, PTL DEF Spec

-----------------------------------------------------------------------------

\* Every variable keeps its type: in particular no call starts more than
\* MaxAttempts attempts and no more than HalfOpenMaxRequests slots are counted.
THEOREM TypeCorrect == Spec => []TypeOK
<1>1. IInv => TypeOK
  BY DEF IInv
<1> QED BY <1>1, Invariance, PTL

\* The state is closed exactly while the failure count is below the threshold.
THEOREM ClosedMeansBelow == Spec => []ClosedBelowThreshold
<1>1. IInv => ClosedBelowThreshold
  BY DEF IInv
<1> QED BY <1>1, Invariance, PTL

\* Every counted probe slot is held by a probe in flight or was abandoned.
THEOREM SlotsAreHeld == Spec => []SlotAccounting
<1>1. IInv => SlotAccounting
  BY DEF IInv
<1> QED BY <1>1, Invariance, PTL

\* The circuit is tripped exactly when FailureThreshold failures have been reported
\* in a row, whatever contexts end and whatever is reported late.
THEOREM TrippedExactlyForCause == Spec => []TrippedForCause
<1>1. IInv => TrippedForCause
  BY DEF IInv
<1> QED BY <1>1, Invariance, PTL

\* Whatever contexts end when, a half-open circuit is wedged only if calls that
\* gave up during their backoff took all of its slots.
THEOREM OnlyAbandonedSlotsWedge == Spec => []WedgedOnlyByAbandonment
<1>1. IInv => WedgedOnlyByAbandonment
  <2> SUFFICES ASSUME IInv, state = "half_open", probes = {},
                      ~(halfOpenRequests < HalfOpenMaxRequests)
               PROVE  abandoned = HalfOpenMaxRequests
    BY DEF WedgedOnlyByAbandonment
  <2>1. halfOpenRequests = Cardinality({}) + abandoned
    BY DEF IInv, SlotAccounting
  <2>2. /\ halfOpenRequests \in 0..HalfOpenMaxRequests
        /\ abandoned \in 0..HalfOpenMaxRequests
    BY DEF IInv, TypeOK, BreakerTypeOK
  <2> QED BY <2>1, <2>2, FS_EmptySet, HalfOpenMaxRequestsAssumption
<1> QED BY <1>1, Invariance, PTL

-----------------------------------------------------------------------------
(***************************************************************************)
(* Action properties.  They need the invariant to know the state's range.  *)
(***************************************************************************)

\* Before its timeout an open circuit admits nobody, and only a late success closes it.
LEMMA OpenCircuitStep ==
    ASSUME IInv, [Next]_vars, state = "open", ~cooled, state' # "open"
    PROVE  /\ state' = "closed"
           /\ \E c \in Calls : pc[c] = "succeeded" /\ pc'[c] = "idle"
<1>1. ASSUME NEW c \in Calls, Admit(c) PROVE FALSE
  BY <1>1 DEF Admit, Allow, Admits
<1>2. ASSUME NEW c \in Calls, QuietStep(c) \/ Abandon(c)
      PROVE  state' = state
  BY <1>2 DEF QuietStep, AttemptSucceeds, AttemptFailsForGood, AttemptFails,
              RetryAfterBackoff, ContextEnds, Abandon, breakerVars
<1>3. ASSUME NEW c \in Calls, ReportSuccess(c)
      PROVE  state' = "closed" /\ pc[c] = "succeeded" /\ pc'[c] = "idle"
  BY <1>3 DEF IInv, TypeOK, ReportSuccess, RecordSuccess
<1>4. ASSUME NEW c \in Calls, ReportFailure(c)
      PROVE  state' = "open"
  BY <1>4 DEF ReportFailure, RecordFailure, Open
<1>5. CASE TimePasses \/ (\E c \in Calls : Refuse(c)) \/ UNCHANGED vars
  BY <1>5 DEF TimePasses, OpenTimeoutElapses, Refuse, Deny, breakerVars, vars
<1> QED
  BY <1>1, <1>2, <1>3, <1>4, <1>5 DEF Next, Proceed, QuietStep

\* Before its timeout an open circuit ends only by a success admitted earlier.
THEOREM OpenPeriodHolds == Spec => OpenHoldsUntilTimeout
<1>1. IInv /\ [Next]_vars =>
        [(state = "open" /\ ~cooled /\ state' # "open")
            => /\ state' = "closed"
               /\ \E c \in Calls : pc[c] = "succeeded" /\ pc'[c] = "idle"]_vars
  BY OpenCircuitStep
<1> QED BY <1>1, Invariance, PTL DEF Spec, OpenHoldsUntilTimeout

-----------------------------------------------------------------------------
(***************************************************************************)
(* The metric.                                                             *)
(***************************************************************************)

\* The types of the metric and of its notifiers.
GaugeTypeOK ==
    /\ gauge \in [States -> {0, 1}]
    /\ notifiers \in [States -> [Writes -> Nat]]
    /\ noticed \subseteq States

\* A goroutine that has not yet cleared the gauge of s is on its way to it.
ClearComes(s) ==
    \E to \in States, w \in Writes :
        notifiers[to][w] > 0 /\ \E i \in w..(LastWrite - 1) : Cleared[i] = s

\* The inductive invariant: ShowsOnlyNoticed says nothing of the time notices are
\* being recorded.  Then a state that is shown and was not noticed will be cleared,
\* and no goroutine sets a state that was not noticed.
GInv ==
    /\ GaugeTypeOK
    /\ \A to \in States, w \in Writes : notifiers[to][w] > 0 => to \in noticed
    /\ \A s \in Active : s \in noticed \/ ClearComes(s)
    /\ Quiet => Active # {}

-----------------------------------------------------------------------------

\* A goroutine that starts has all the gauges to clear.
LEMMA NotifyStep ==
    ASSUME GInv, NEW notice \in SUBSET States, Notify(notice)
    PROVE  GInv'
<1> USE DEF Writes, LastWrite
<1>1. CASE notice = {}
  BY <1>1 DEF Notify, gaugeVars, GInv, GaugeTypeOK, Quiet, Active, ClearComes
<1>2. CASE notice # {}
  <2>1. PICK to \in States :
            /\ notifiers' = [notifiers EXCEPT ![to][1] = @ + 1]
            /\ noticed' = IF Quiet THEN {to} ELSE noticed \union {to}
            /\ gauge' = gauge
    BY <1>2 DEF Notify
  <2>2. GaugeTypeOK'
    BY <2>1 DEF GInv, GaugeTypeOK
  <2>3. /\ notifiers'[to][1] > 0 /\ to \in noticed'
        /\ \A s \in States, w \in Writes :
              /\ notifiers[s][w] > 0 => notifiers'[s][w] > 0
              /\ notifiers'[s][w] > 0 => notifiers[s][w] > 0 \/ s = to
    BY <2>1 DEF GInv, GaugeTypeOK
  <2>4. \A s \in States, w \in Writes : notifiers'[s][w] > 0 => s \in noticed'
    BY <2>1, <2>3 DEF GInv, Quiet
  <2>5. \A s \in States : ClearComes(s)'
    <3>1. \A s \in States : \E i \in 1..3 : Cleared[i] = s
      BY DEF States, Cleared
    <3> QED
      BY <2>3, <3>1 DEF ClearComes
  <2>6. ~Quiet'
    BY <2>3 DEF Quiet
  <2> QED
    BY <2>2, <2>4, <2>5, <2>6 DEF GInv, Active
<1> QED
  BY <1>1, <1>2

\* A goroutine that clears a gauge goes on to clear the others; the last write sets
\* the gauge of a noticed state, and has nothing to clear any more.
LEMMA WriteStep ==
    ASSUME GInv, NEW to \in States, NEW w \in Writes, RecordBreakerState(to, w)
    PROVE  GInv'
<1> USE DEF Writes, LastWrite
<1>1. gauge' \in [States -> {0, 1}]
  BY DEF RecordBreakerState, WriteGauge, Cleared, States, GInv, GaugeTypeOK
<1>2. notifiers' \in [States -> [Writes -> Nat]]
  BY DEF RecordBreakerState, GInv, GaugeTypeOK
<1>3. noticed' = noticed /\ to \in noticed
  BY DEF RecordBreakerState, GInv
<1>4. \A s \in States, v \in Writes :
        notifiers'[s][v] > 0 => notifiers[s][v] > 0 \/ s = to
  BY DEF RecordBreakerState, GInv, GaugeTypeOK
<1>5. \A s \in States, v \in Writes :
        notifiers[s][v] > 0 => notifiers'[s][v] > 0 \/ (s = to /\ v = w)
  BY DEF RecordBreakerState, GInv, GaugeTypeOK
<1>6. CASE w = LastWrite
  <2>1. gauge' = [gauge EXCEPT ![to] = 1]
    BY <1>6 DEF RecordBreakerState, WriteGauge
  <2>2. to \in Active' /\ Active' = Active \union {to}
    BY <2>1 DEF Active, GInv, GaugeTypeOK
  <2>3. \A s : ClearComes(s) => ClearComes(s)'
    BY <1>5, <1>6 DEF ClearComes
  <2> QED
    BY <1>1, <1>2, <1>3, <1>4, <2>2, <2>3 DEF GInv, GaugeTypeOK
<1>7. CASE w # LastWrite
  <2>1. gauge' = [gauge EXCEPT ![Cleared[w]] = 0] /\ notifiers'[to][w + 1] > 0
    BY <1>7 DEF RecordBreakerState, WriteGauge, GInv, GaugeTypeOK
  <2>2. Cleared[w] \in States
    BY <1>7 DEF Cleared, States
  <2>3. Active' = Active \ {Cleared[w]}
    BY <2>1, <2>2 DEF Active, GInv, GaugeTypeOK
  <2>4. ASSUME NEW s, ClearComes(s), s # Cleared[w]
        PROVE  ClearComes(s)'
    <3>1. PICK t \in States, v \in Writes :
              notifiers[t][v] > 0 /\ \E i \in v..(LastWrite - 1) : Cleared[i] = s
      BY <2>4 DEF ClearComes
    <3>2. CASE t = to /\ v = w
      <4>1. \E i \in (w + 1)..(LastWrite - 1) : Cleared[i] = s
        BY <2>4, <3>1, <3>2
      <4>2. w + 1 \in Writes
        BY <1>7
      <4> QED
        BY <4>1, <4>2, <2>1 DEF ClearComes
    <3>3. CASE ~(t = to /\ v = w)
      BY <1>5, <3>1, <3>3 DEF ClearComes
    <3> QED
      BY <3>2, <3>3
  <2>5. ~Quiet'
    BY <1>7, <2>1 DEF Quiet
  <2> QED
    BY <1>1, <1>2, <1>3, <1>4, <2>3, <2>4, <2>5 DEF GInv, GaugeTypeOK
<1> QED
  BY <1>6, <1>7

\* The steps of the executor that notify nobody leave the metric alone.
LEMMA SilentStep ==
    ASSUME GInv, UNCHANGED gaugeVars
    PROVE  GInv'
BY DEF gaugeVars, GInv, GaugeTypeOK, Quiet, Active, ClearComes

\* Whatever order the goroutines of notifyStateChange run in and however many of
\* them overlap, circuit_breaker_state ends up showing a state, and only states that
\* these goroutines noticed: what older notices left is cleared.
THEOREM OnlyNoticedAlwaysShown == GaugeSpec => []ShowsOnlyNoticed
<1>1. GaugeInit => GInv
  <2> SUFFICES ASSUME GaugeInit PROVE GInv
    OBVIOUS
  <2>1. "closed" \in Active /\ Active \subseteq {"closed"}
    BY DEF GaugeInit, Active, OneHot, States
  <2> QED
    BY <2>1 DEF GaugeInit, GInv, GaugeTypeOK, OneHot, States, Writes, LastWrite
<1>2. GInv /\ [GaugeNext]_gvars => GInv'
  <2> SUFFICES ASSUME GInv, [GaugeNext]_gvars PROVE GInv'
    OBVIOUS
  <2>1. ASSUME NEW c \in Calls, Admit(c), Notify(AllowNotice) PROVE GInv'
    BY <2>1, NotifyStep DEF AllowNotice, States
  <2>2. ASSUME NEW c \in Calls, ReportSuccess(c), Notify(SuccessNotice) PROVE GInv'
    BY <2>2, NotifyStep DEF SuccessNotice, States
  <2>3. ASSUME NEW c \in Calls, ReportFailure(c), Notify(FailureNotice) PROVE GInv'
    BY <2>3, NotifyStep DEF FailureNotice, States
  <2>4. ASSUME UNCHANGED gaugeVars PROVE GInv'
    BY <2>4, SilentStep
  <2>5. ASSUME NEW to \in States, NEW w \in Writes, RecordBreakerState(to, w)
        PROVE  GInv'
    BY <2>5, WriteStep
  <2>6. CASE UNCHANGED gvars
    BY <2>6, <2>4 DEF gvars, gaugeVars
  <2> QED
    BY <2>1, <2>2, <2>3, <2>4, <2>5, <2>6 DEF GaugeNext
<1>3. GInv => ShowsOnlyNoticed
  <2> SUFFICES ASSUME GInv, Quiet PROVE Active # {} /\ Active \subseteq noticed
    BY DEF ShowsOnlyNoticed
  <2>1. ASSUME NEW s \in States PROVE ~ClearComes(s)
    BY DEF ClearComes, Quiet, GInv, GaugeTypeOK
  <2> QED
    BY <2>1 DEF GInv, Active
<1> QED
  BY <1>1, <1>2, <1>3, PTL DEF GaugeSpec

=============================================================================
