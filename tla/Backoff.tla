--------------------------------- MODULE Backoff ---------------------------------
(***************************************************************************)
(* backoff.Strategy: the delay after an attempt is the base, multiplied    *)
(* for every attempt after the first and capped, and then moved by the     *)
(* jitter.  Delays are whole units, the jitter is in percent, and          *)
(* time.Duration cuts fractions off.                                       *)
(***************************************************************************)
EXTENDS Integers

CONSTANTS
    Settings,       \* the arguments of New
    Spreads,        \* the outcomes of source.Float64()*2 - 1, in percent
    MaxAttempt      \* bound on the attempts

ASSUME BackoffAssumption ==
    /\ Settings \subseteq [base : Int, max : Int, multiplier : Int, jitter : Int]
    /\ Spreads \subseteq -100..100
    /\ MaxAttempt \in Nat \ {0}

VARIABLES
    strategy,   \* the Strategy
    attempts,   \* the attempts so far
    delay       \* the last Duration

backoffVars == <<strategy, attempts, delay>>

\* New replaces arguments that make no sense: 25 ms, one second, 2, none.
NewStrategy(s) ==
    [base       |-> IF s.base <= 0 THEN 25 ELSE s.base,
     max        |-> IF s.max <= 0 THEN 1000 ELSE s.max,
     multiplier |-> IF s.multiplier < 1 THEN 2 ELSE s.multiplier,
     jitter     |-> IF s.jitter < 0 THEN 0 ELSE s.jitter]

\* True of all integers, and said here because the provers know no powers.
ASSUME PowersAssumption ==
    \A s \in Settings, n \in 0..MaxAttempt : NewStrategy(s).multiplier ^ n \in Nat

\* The delay before the jitter: the first one is not capped.
Planned(attempt) ==
    LET next == strategy.base * strategy.multiplier ^ (attempt - 1) IN
    IF attempt <= 1 THEN strategy.base
    ELSE IF next > strategy.max THEN strategy.max
    ELSE next

\* Mutant of Jittered: a delay that would be negative is kept.
JitteredNegative(planned, spread) == (planned * (10000 + spread * strategy.jitter)) \div 10000

\* applyJitter: by at most the jitter, up or down, and never below zero.
Jittered(planned, spread) ==
    LET adjusted == planned * (10000 + spread * strategy.jitter) IN
    IF adjusted < 0 THEN 0 ELSE adjusted \div 10000

BackoffInit ==
    /\ strategy \in {NewStrategy(s) : s \in Settings}
    /\ attempts = 0
    /\ delay = 0

\* Duration, after one more attempt; commands that share the strategy draw from
\* the same source under its mutex.
Duration ==
    /\ attempts < MaxAttempt
    /\ attempts' = attempts + 1
    /\ \E spread \in Spreads : delay' = Jittered(Planned(attempts'), spread)
    /\ UNCHANGED strategy

BackoffNext == Duration

BackoffSpec == BackoffInit /\ [][BackoffNext]_backoffVars

-----------------------------------------------------------------------------
(* Properties.                                                             *)

\* The longest delay the settings promise: the larger of base and maximum, since
\* the first delay is not capped, and the jitter on top of it.
Longest ==
    LET top == IF strategy.base > strategy.max THEN strategy.base ELSE strategy.max
    IN  (top * (100 + strategy.jitter)) \div 100

\* No delay is negative or longer than the settings promise, and from the second
\* attempt on the base no longer matters: the maximum does.
DelaysBounded ==
    /\ delay \in 0..Longest
    /\ attempts > 1 => delay <= (strategy.max * (100 + strategy.jitter)) \div 100

=============================================================================
