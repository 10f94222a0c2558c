------------------------------ MODULE MCClientSide ------------------------------
(***************************************************************************)
(* The parts of the client around its core, for TLC: lists of commands,    *)
(* subscriptions, bulk operations, configuration, backoff.  They share no  *)
(* state, and a behavior stays in one of them, so that their state spaces  *)
(* add up instead of multiplying.                                          *)
(***************************************************************************)
EXTENDS Commands, Subscription, Bulk, Configuration, Backoff

VARIABLE area

clientVars == <<commandVars, subscriptionVars, bulkVars, configVars, backoffVars, area>>

A(op, k) == [op |-> op, key |-> k]

MCLists ==
    {<<>>,
     <<A("Incr", "x"), A("Get", "y"), A("Incr", "y")>>,
     <<A("Get", "x"), A("Wrong", "x"), A("Incr", "x")>>}

MCKeyArguments == {<<"x">>, <<"x", "y", "x">>, <<"x", "y", "z", "y", "x">>}

Unset == [x \in Fields |-> "unset"]

MCFiles ==
    {HalfWritten, Empty, [x \in Fields |-> "file"]}
        \union {[Empty EXCEPT !["mode"] = "bad"], [Empty EXCEPT !["duration"] = "bad"],
                [x \in Fields |-> IF x \in Texts THEN "file" ELSE "negative"]}

MCEnvironments ==
    {Unset, [Unset EXCEPT !["name"] = "env", !["counted"] = "env", !["plain"] = "env"],
     [Unset EXCEPT !["mode"] = "env", !["counted"] = "bad", !["db"] = "zero"],
     [Unset EXCEPT !["counted"] = "zero", !["db"] = "env", !["plain"] = "zero"]}

MCOverrides ==
    {Unset, [Unset EXCEPT !["mode"] = "override", !["counted"] = "override"],
     [Unset EXCEPT !["name"] = "zero", !["plain"] = "bad", !["counted"] = "negative"],
     [Unset EXCEPT !["mode"] = "bad"]}

MCSettings ==
    {[base |-> 25, max |-> 750, multiplier |-> 2, jitter |-> 20],
     [base |-> 300, max |-> 100, multiplier |-> 3, jitter |-> 0],
     [base |-> 0, max |-> 0, multiplier |-> 0, jitter |-> -1],
     [base |-> 7, max |-> 50, multiplier |-> 1, jitter |-> 150]}

\* From -100 % to 100 %.
MCSpreads == {-100, -66, -33, 0, 33, 66, 100}

ClientInit ==
    /\ CommandsInit /\ SubscriptionInit /\ BulkInit /\ ConfigInit /\ BackoffInit
    /\ area \in {"commands", "subscription", "bulk", "configuration", "backoff"}
    \* the parts a behavior does not visit have one initial state
    /\ area # "bulk" => present = {}
    /\ area # "configuration" => env = Unset /\ overrides = Unset
    /\ area # "backoff" => strategy.base = 300

ClientNext ==
    /\ UNCHANGED area
    /\ \/ /\ area = "commands" /\ CommandsNext
          /\ UNCHANGED <<subscriptionVars, bulkVars, configVars, backoffVars>>
       \/ /\ area = "subscription" /\ SubscriptionNext
          /\ UNCHANGED <<commandVars, bulkVars, configVars, backoffVars>>
       \/ /\ area = "bulk" /\ BulkNext
          /\ UNCHANGED <<commandVars, subscriptionVars, configVars, backoffVars>>
       \/ /\ area = "configuration" /\ ConfigNext
          /\ UNCHANGED <<commandVars, subscriptionVars, bulkVars, backoffVars>>
       \/ /\ area = "backoff" /\ BackoffNext
          /\ UNCHANGED <<commandVars, subscriptionVars, bulkVars, configVars>>

ClientSpec ==
    /\ ClientInit /\ [][ClientNext]_clientVars
    /\ SubscriptionFairness /\ ConfigFairness

=============================================================================
