-------------------------------- MODULE Commands --------------------------------
(***************************************************************************)
(* RedisClient.Pipeline and RedisClient.Transaction: the commands that the *)
(* builder has collected go through the executor, which repeats the whole  *)
(* list after a transient error, to the driver, whose client go-redis may  *)
(* repeat it once more on its own (MaxRetries is left at its default), and *)
(* to the server.  Admission, breaker and telemetry are other modules'.    *)
(*                                                                         *)
(* go-redis resends when a connection has broken.  It also does so when    *)
(* the first answer is LOADING or READONLY, which the server of the model  *)
(* never gives.                                                            *)
(*                                                                         *)
(* Commands of the list: "Incr" creates its key, "Get" may find none, and  *)
(* "Wrong" meets a key of the wrong type and is refused by the server.     *)
(***************************************************************************)
EXTENDS Integers, Sequences, SequencesExt, FiniteSets, FiniteSetsExt

CONSTANTS
    DbKeys,         \* the keys
    Lists,          \* the command lists
    WatchLists,     \* the key sets a transaction watches
    MaxAttempts,    \* Policy.MaxAttempts
    MaxResends,     \* go-redis's MaxRetries
    MaxWrites       \* bound on the writes of other clients

\* A command of a list, by what it does and the key it is about.
Command == [op : {"Incr", "Get", "Wrong"}, key : DbKeys]

ASSUME CommandsAssumption ==
    /\ Lists \subseteq Seq(Command)
    /\ MaxAttempts \in Nat \ {0} /\ MaxResends \in Nat /\ MaxWrites \in Nat

VARIABLES
    call,       \* the list, its kind, what it watches, and where the call is
    attempt,    \* of the executor, and the sends of go-redis in it
    answers,    \* what the server has answered to the current send
    dirty,      \* a watched key was changed since WATCH
    outcome,    \* what the caller is told
    db          \* the keys that are there

\* History: how often the server has run each command; how many connections
\* broke during the call; the writes of other clients.
VARIABLES runs, broken, writes

commandVars == <<call, attempt, answers, dirty, outcome, db, runs, broken, writes>>

NoCall == [kind |-> "none", list |-> <<>>, watch |-> {}, at |-> "idle"]
Pending == [told |-> "nothing", results |-> <<>>]

CommandsInit ==
    /\ call = NoCall
    /\ attempt = [number |-> 1, resends |-> 0]
    /\ answers = <<>>
    /\ dirty = FALSE
    /\ outcome = Pending
    /\ db = {}
    /\ runs = <<>> /\ broken = 0 /\ writes = 0

\* Pipeline and Transaction: the builder's list is copied for every attempt.
BeginCall(kind, list, watch) ==
    /\ call.at = "idle"
    /\ call' = [kind |-> kind, list |-> list, watch |-> watch,
                at |-> IF watch = {} THEN "sent" ELSE "watching"]
    /\ runs' = [i \in DOMAIN list |-> 0]
    /\ UNCHANGED <<attempt, answers, dirty, outcome, db, broken, writes>>

\* The server runs WATCH; nothing is read before the commands are sent.
WatchKeys ==
    /\ call.at = "watching"
    /\ call' = [call EXCEPT !.at = "sent"]
    /\ dirty' = FALSE
    /\ UNCHANGED <<attempt, answers, outcome, db, runs, broken, writes>>

-----------------------------------------------------------------------------
(* The server (external).                                                  *)

After(d, c) == IF c.op = "Incr" THEN d \union {c.key} ELSE d

Answer(d, c) ==
    CASE c.op = "Incr" -> "ok"
      [] c.op = "Get" -> IF c.key \in d THEN "ok" ELSE "miss"
      [] c.op = "Wrong" -> "refused"

\* The commands of a pipeline are run one by one.
RunNext ==
    /\ call.kind = "pipeline" /\ call.at = "sent" /\ Len(answers) < Len(call.list)
    /\ LET i == Len(answers) + 1 IN
       /\ db' = After(db, call.list[i])
       /\ answers' = Append(answers, Answer(db, call.list[i]))
       /\ runs' = [runs EXCEPT ![i] = @ + 1]
    /\ UNCHANGED <<call, attempt, dirty, outcome, broken, writes>>

\* EXEC runs all of them at once, or none if a watched key was changed.
Exec ==
    /\ call.kind = "transaction" /\ call.at = "sent" /\ Len(answers) < Len(call.list)
    /\ LET before == [i \in 1..Len(call.list) + 1 |->
                        FoldLeft(After, db, SubSeq(call.list, 1, i - 1))]
       IN  IF dirty
           THEN /\ answers' = [i \in DOMAIN call.list |-> "conflict"]
                /\ UNCHANGED <<db, runs>>
           ELSE /\ answers' = [i \in DOMAIN call.list |-> Answer(before[i], call.list[i])]
                /\ db' = Last(before)
                /\ runs' = [i \in DOMAIN runs |-> runs[i] + 1]
    /\ UNCHANGED <<call, attempt, dirty, outcome, broken, writes>>

\* Another client sets or deletes a key.
OtherWrites(k) ==
    /\ writes < MaxWrites
    /\ writes' = writes + 1
    /\ db' = IF k \in db THEN db \ {k} ELSE db \union {k}
    /\ dirty' = (dirty \/ k \in call.watch)
    /\ UNCHANGED <<call, attempt, answers, outcome, runs, broken>>

-----------------------------------------------------------------------------
(* The driver and the executor.                                            *)

\* Mutant of FirstError: the errors of later commands are overlooked.
FirstErrorOnly == IF answers = <<>> \/ Head(answers) = "ok" THEN "none" ELSE Head(answers)

\* Pipelined returns the error of the first command that has one.
FirstError ==
    LET failed == {i \in DOMAIN answers : answers[i] # "ok"} IN
    IF failed = {} THEN "none" ELSE answers[Min(failed)]

\* Mutant of Transient: a missing key is worth another attempt.
TransientMiss(error) == error \in {"network", "miss"}

\* DefaultClassifier: neither a missing key nor an answer of the server is
\* worth another attempt, a broken connection is.
Transient(error) == error = "network"

Return(told, results) ==
    /\ outcome' = [told |-> told, results |-> results]
    /\ call' = [call EXCEPT !.at = "returned"]

\* From the beginning: WATCH, if there is something to watch, and the commands.
FromStart == [call EXCEPT !.at = IF call.watch = {} THEN "sent" ELSE "watching"]

\* What Do makes of an attempt's error.
AfterError(error) ==
    IF Transient(error) /\ attempt.number < MaxAttempts
    THEN call' = [call EXCEPT !.at = "backoff"] /\ UNCHANGED outcome
    ELSE Return(error, <<>>)

\* The last answer arrives.
Answered ==
    /\ call.at = "sent" /\ Len(answers) = Len(call.list)
    /\ IF FirstError = "none" THEN Return("ok", answers) ELSE AfterError(FirstError)
    /\ UNCHANGED <<attempt, answers, dirty, db, runs, broken, writes>>

\* The connection breaks, or an answer does not come in time: the commands the
\* server has run by then stay run.
Broken ==
    /\ call.at \in {"watching", "sent"} /\ call.list # <<>>
    /\ broken' = broken + 1
    /\ answers' = <<>>
    /\ UNCHANGED <<dirty, db, runs, writes>>

\* go-redis sends the list again, unless it has watched keys on that connection,
Resend ==
    /\ Broken
    /\ call.watch = {} /\ attempt.resends < MaxResends
    /\ attempt' = [attempt EXCEPT !.resends = @ + 1]
    /\ UNCHANGED <<call, outcome>>

\* or gives up.
AttemptFails ==
    /\ Broken
    /\ AfterError("network")
    /\ UNCHANGED attempt

NextAttempt ==
    /\ call.at = "backoff"
    /\ attempt' = [number |-> attempt.number + 1, resends |-> 0]
    /\ call' = FromStart
    /\ answers' = <<>>
    /\ UNCHANGED <<dirty, outcome, db, runs, broken, writes>>

\* The context ends, while the executor waits or while the commands are under way.
Cancel ==
    /\ call.at \in {"watching", "sent", "backoff"}
    /\ Return("cancelled", <<>>)
    /\ UNCHANGED <<attempt, answers, dirty, db, runs, broken, writes>>

CommandsNext ==
    \/ \E list \in Lists :
        \/ BeginCall("pipeline", list, {})
        \/ \E watch \in WatchLists : BeginCall("transaction", list, watch)
    \/ WatchKeys \/ RunNext \/ Exec
    \/ \E k \in DbKeys : OtherWrites(k)
    \/ Answered \/ Resend \/ AttemptFails \/ NextAttempt \/ Cancel

CommandsSpec == CommandsInit /\ [][CommandsNext]_commandVars

-----------------------------------------------------------------------------
(* Properties.                                                             *)

\* No command of a list is run more often than once, and once more for every
\* connection that broke: a missing key, a refused command or a conflict repeats
\* nothing.
RunAsOftenAsBroken == \A i \in DOMAIN runs : runs[i] <= 1 + broken

\* What the caller can tell from the outcome.  Success: each command was run and
\* has the result at its place, none an error.  ErrKeyNotFound: each command was
\* run all the same, so that a transaction is committed.  A conflict: none was
\* run, unless a connection broke.
OutcomeTells ==
    /\ outcome.told \in {"ok", "miss", "refused"} => \A i \in DOMAIN runs : runs[i] >= 1
    /\ outcome.told = "ok" =>
        /\ Len(outcome.results) = Len(call.list)
        /\ \A i \in DOMAIN outcome.results :
              outcome.results[i] = "ok" /\ call.list[i].op # "Wrong"
    /\ outcome.told = "conflict" /\ broken = 0 => \A i \in DOMAIN runs : runs[i] = 0

=============================================================================
