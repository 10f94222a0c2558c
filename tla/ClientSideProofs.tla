---------------------------- MODULE ClientSideProofs ----------------------------
(***************************************************************************)
(* Proofs about the parts of the client around its core: Commands,         *)
(* Subscription, Bulk, Configuration and Backoff, each of which is a       *)
(* specification of its own.                                               *)
(***************************************************************************)
EXTENDS Commands, Subscription, Bulk, Configuration, Backoff, SequenceTheorems,
        FiniteSetTheorems, WellFoundedInduction, TLAPS

(***************************************************************************)
(* Commands: for any lists of commands, any number of attempts and resends *)
(* and any number of writes of other clients.                              *)
(***************************************************************************)

\* What the server may answer: never that the connection broke.
ServerAnswers == {"ok", "miss", "refused", "conflict"}

CommandsTypes ==
    /\ call = [kind |-> call.kind, list |-> call.list, watch |-> call.watch, at |-> call.at]
    /\ call.list \in Seq(Command)
    /\ answers \in Seq(ServerAnswers)
    /\ broken \in Nat
    /\ runs \in [DOMAIN call.list -> Nat]

\* A command has been run for each connection that broke, and once more only if
\* its answer has arrived on the present one.
RunOncePerSend ==
    \A i \in DOMAIN runs : runs[i] <= broken + (IF i <= Len(answers) THEN 1 ELSE 0)

\* Only a broken connection leads to another attempt, and it leaves no answers.
NothingAnswered == call.at \in {"idle", "backoff"} => answers = <<>>

\* A transaction is answered as a whole.
AnsweredAtOnce ==
    call.kind = "transaction" => answers = <<>> \/ Len(answers) = Len(call.list)

\* The inductive invariant.
CIInv == CommandsTypes /\ RunOncePerSend /\ NothingAnswered /\ AnsweredAtOnce

-----------------------------------------------------------------------------

\* Every set of natural numbers with an element has a least one.
LEMMA LeastExists ==
    ASSUME NEW T, T \subseteq Nat, T # {}
    PROVE  \E x \in T : \A y \in T : x =< y
<1>1. PICK x \in T : \A y \in T : ~(<<y, x>> \in OpToRel(<, Nat))
  BY NatLessThanWellFounded, WFMin
<1>2. ASSUME NEW y \in T PROVE x =< y
  <2>1. x \in Nat /\ y \in Nat /\ <<y, x>> \notin OpToRel(<, Nat)
    BY <1>1
  <2> QED BY <2>1 DEF OpToRel
<1> QED BY <1>2

\* The first error of a list of answers is one of them.
LEMMA FirstErrorIsAnswer ==
    ASSUME answers \in Seq(ServerAnswers)
    PROVE  FirstError \in ServerAnswers \union {"none"}
<1> DEFINE failed == {i \in DOMAIN answers : answers[i] # "ok"}
<1>1. CASE failed = {}
  BY <1>1 DEF FirstError
<1>2. CASE failed # {}
  <2>1. failed \subseteq Nat
    BY LenProperties
  <2> HIDE DEF failed
  <2>2. \E x \in failed : \A y \in failed : x =< y
    BY <1>2, <2>1, LeastExists
  <2>3. Min(failed) \in failed
    BY <2>2 DEF Min
  <2>4. FirstError = answers[Min(failed)]
    BY <1>2 DEF FirstError, failed
  <2> QED BY <2>3, <2>4, ElementOfSeq DEF failed
<1> QED BY <1>1, <1>2

\* Hence no answer of the server leads to another attempt.
LEMMA AnswersAreFinal ==
    ASSUME answers \in Seq(ServerAnswers)
    PROVE  ~Transient(FirstError)
  BY FirstErrorIsAnswer DEF Transient, ServerAnswers

\* Every command has an answer, which is one of these.
LEMMA AnswerType ==
    ASSUME NEW d, NEW c \in Command
    PROVE  Answer(d, c) \in ServerAnswers
  BY DEF Answer, Command, ServerAnswers

-----------------------------------------------------------------------------

\* The invariant holds when a call begins.
LEMMA InitCIInv == CommandsInit => CIInv
<1> SUFFICES ASSUME CommandsInit PROVE CIInv
  OBVIOUS
<1>1. <<>> \in Seq(Command) /\ <<>> \in Seq(ServerAnswers) /\ DOMAIN <<>> = {}
  BY EmptySeq
<1> QED BY <1>1
  DEF CommandsInit, NoCall, CIInv, CommandsTypes, RunOncePerSend, NothingAnswered,
      AnsweredAtOnce

\* One lemma per kind of step.
LEMMA BeginStep ==
    ASSUME CIInv, NEW kind, NEW list \in Lists, NEW watched, BeginCall(kind, list, watched)
    PROVE  CIInv'
<1>1. /\ call' = [kind |-> kind, list |-> list, watch |-> watched,
                  at |-> IF watched = {} THEN "sent" ELSE "watching"]
      /\ runs' = [i \in DOMAIN list |-> 0] /\ answers = <<>>
      /\ UNCHANGED <<answers, broken>>
  BY DEF CIInv, NothingAnswered, BeginCall
<1>2. list \in Seq(Command)
  BY CommandsAssumption
<1>3. CommandsTypes'
  BY <1>1, <1>2 DEF CIInv, CommandsTypes
<1>4. RunOncePerSend'
  BY <1>1, <1>2, EmptySeq DEF CIInv, CommandsTypes, RunOncePerSend
<1>5. NothingAnswered' /\ AnsweredAtOnce'
  BY <1>1 DEF NothingAnswered, AnsweredAtOnce
<1> QED BY <1>3, <1>4, <1>5 DEF CIInv

\* The server runs the next command.
LEMMA RunStep == ASSUME CIInv, RunNext PROVE CIInv'
<1> DEFINE i == Len(answers) + 1
<1> USE DEF CIInv, CommandsTypes
<1>1. /\ call.kind = "pipeline" /\ call.at = "sent" /\ Len(answers) < Len(call.list)
      /\ answers' = Append(answers, Answer(db, call.list[i]))
      /\ runs' = [runs EXCEPT ![i] = @ + 1]
      /\ UNCHANGED <<call, broken>>
  BY DEF RunNext
<1>2. i \in DOMAIN call.list /\ Len(answers) \in Nat
  BY <1>1
<1>3. Answer(db, call.list[i]) \in ServerAnswers
  BY <1>2, AnswerType
<1>4. answers' \in Seq(ServerAnswers) /\ Len(answers') = i
  BY <1>1, <1>3
<1>5. CommandsTypes'
  BY <1>1, <1>2, <1>4
<1>6. RunOncePerSend'
  <2> SUFFICES ASSUME NEW j \in DOMAIN call.list
               PROVE  runs'[j] <= broken + (IF j <= i THEN 1 ELSE 0)
    BY <1>1, <1>4 DEF RunOncePerSend
  <2>1. runs[j] \in Nat /\ runs[j] <= broken + (IF j <= Len(answers) THEN 1 ELSE 0)
    BY DEF RunOncePerSend
  <2>2. runs'[j] = IF j = i THEN runs[j] + 1 ELSE runs[j]
    BY <1>1
  <2>3. j \in Nat
    OBVIOUS
  <2> QED BY <1>2, <2>1, <2>2, <2>3
<1>7. NothingAnswered' /\ AnsweredAtOnce'
  BY <1>1 DEF NothingAnswered, AnsweredAtOnce
<1> QED BY <1>5, <1>6, <1>7

\* The server runs a transaction as a whole, or not at all.
LEMMA ExecStep == ASSUME CIInv, Exec PROVE CIInv'
<1> USE DEF CIInv, CommandsTypes
<1>1. /\ call.kind = "transaction" /\ call.at = "sent" /\ Len(answers) < Len(call.list)
      /\ UNCHANGED <<call, broken>>
  BY DEF Exec
<1>2. answers = <<>> /\ Len(answers) = 0
  BY <1>1 DEF AnsweredAtOnce
<1>3. /\ answers' \in [DOMAIN call.list -> ServerAnswers]
      /\ runs' = runs \/ runs' = [i \in DOMAIN runs |-> runs[i] + 1]
  <2>1. CASE dirty
    BY <2>1 DEF Exec, ServerAnswers
  <2>2. CASE ~dirty
    <3> DEFINE before == [i \in 1..Len(call.list) + 1 |->
                            FoldLeft(After, db, SubSeq(call.list, 1, i - 1))]
    <3>1. /\ answers' = [i \in DOMAIN call.list |-> Answer(before[i], call.list[i])]
          /\ runs' = [i \in DOMAIN runs |-> runs[i] + 1]
      BY <2>2 DEF Exec
    <3> HIDE DEF before
    <3>2. \A i \in DOMAIN call.list : Answer(before[i], call.list[i]) \in ServerAnswers
      BY AnswerType
    <3> QED BY <3>1, <3>2
  <2> QED BY <2>1, <2>2
<1>4. answers' \in Seq(ServerAnswers) /\ Len(answers') = Len(call.list)
  BY <1>3
<1>5. CommandsTypes'
  BY <1>1, <1>3, <1>4
<1>6. RunOncePerSend'
  <2>1. \A i \in DOMAIN runs : runs[i] \in Nat /\ runs[i] <= broken /\ i <= Len(answers')
    BY <1>2, <1>4 DEF RunOncePerSend
  <2> QED BY <1>1, <1>3, <2>1 DEF RunOncePerSend
<1>7. NothingAnswered' /\ AnsweredAtOnce'
  BY <1>1, <1>4 DEF NothingAnswered, AnsweredAtOnce
<1> QED BY <1>5, <1>6, <1>7

\* The connection breaks: whatever the call does next, the answers are gone.
LEMMA BrokenStep ==
    ASSUME CIInv, Broken, call' = [call EXCEPT !.at = call'.at]
    PROVE  CIInv'
<1> USE DEF CIInv, CommandsTypes
<1>1. broken' = broken + 1 /\ answers' = <<>> /\ runs' = runs
  BY DEF Broken
<1>2. CommandsTypes'
  BY <1>1, EmptySeq
<1>3. RunOncePerSend'
  BY <1>1, EmptySeq DEF RunOncePerSend
<1>4. NothingAnswered' /\ AnsweredAtOnce'
  BY <1>1 DEF NothingAnswered, AnsweredAtOnce
<1> QED BY <1>2, <1>3, <1>4

\* A step that only moves the call, and not into a place without answers.
LEMMA MovingStep ==
    ASSUME CIInv, call' = [call EXCEPT !.at = call'.at],
           call'.at \in {"idle", "backoff"} => call.at = call'.at,
           UNCHANGED <<answers, broken, runs>>
    PROVE  CIInv'
  BY DEF CIInv, CommandsTypes, RunOncePerSend, NothingAnswered, AnsweredAtOnce

\* Every step keeps the invariant.
LEMMA NextCIInv == CIInv /\ [CommandsNext]_commandVars => CIInv'
<1> SUFFICES ASSUME CIInv, [CommandsNext]_commandVars PROVE CIInv'
  OBVIOUS
<1>r. call = [kind |-> call.kind, list |-> call.list, watch |-> call.watch, at |-> call.at]
  BY DEF CIInv, CommandsTypes
<1>1. ASSUME NEW list \in Lists, BeginCall("pipeline", list, {}) PROVE CIInv'
  BY <1>1, BeginStep
<1>2. ASSUME NEW list \in Lists, NEW watched \in WatchLists, BeginCall("transaction", list, watched)
      PROVE  CIInv'
  BY <1>2, BeginStep
<1>3. ASSUME WatchKeys PROVE CIInv'
  <2>1. /\ call' = [call EXCEPT !.at = "sent"] /\ call'.at = "sent"
        /\ UNCHANGED <<answers, broken, runs>>
    BY <1>3, <1>r DEF WatchKeys
  <2> QED BY <2>1, MovingStep
<1>4. CASE RunNext
  BY <1>4, RunStep
<1>5. CASE Exec
  BY <1>5, ExecStep
<1>6. ASSUME NEW k \in DbKeys, OtherWrites(k) PROVE CIInv'
  BY <1>6 DEF OtherWrites, CIInv, CommandsTypes, RunOncePerSend, NothingAnswered,
              AnsweredAtOnce
<1>7. ASSUME Answered PROVE CIInv'
  <2>1. ~Transient(FirstError)
    BY AnswersAreFinal DEF CIInv, CommandsTypes
  <2>2. /\ call' = [call EXCEPT !.at = "returned"] /\ call'.at = "returned"
        /\ UNCHANGED <<answers, broken, runs>>
    BY <1>7, <1>r, <2>1 DEF Answered, AfterError, Return
  <2> QED BY <2>2, MovingStep
<1>8. ASSUME Resend PROVE CIInv'
  <2>1. Broken /\ call' = [call EXCEPT !.at = call'.at]
    BY <1>8, <1>r DEF Resend
  <2> QED BY <2>1, BrokenStep
<1>9. ASSUME AttemptFails PROVE CIInv'
  <2>1. Broken /\ call' = [call EXCEPT !.at = call'.at]
    BY <1>9, <1>r DEF AttemptFails, AfterError, Return
  <2> QED BY <2>1, BrokenStep
<1>10. ASSUME NextAttempt PROVE CIInv'
  <2>1. /\ call' = FromStart /\ answers = <<>> /\ UNCHANGED <<answers, broken, runs>>
    BY <1>10 DEF NextAttempt, CIInv, NothingAnswered
  <2>2. call' = [call EXCEPT !.at = call'.at] /\ call'.at \in {"sent", "watching"}
    BY <1>r, <2>1 DEF FromStart
  <2> QED BY <2>1, <2>2, MovingStep
<1>11. ASSUME Cancel PROVE CIInv'
  <2>1. /\ call' = [call EXCEPT !.at = "returned"] /\ call'.at = "returned"
        /\ UNCHANGED <<answers, broken, runs>>
    BY <1>11, <1>r DEF Cancel, Return
  <2> QED BY <2>1, MovingStep
<1>12. CASE UNCHANGED commandVars
  BY <1>12 DEF commandVars, CIInv, CommandsTypes, RunOncePerSend, NothingAnswered,
               AnsweredAtOnce
<1> QED
  BY <1>1, <1>2, <1>3, <1>4, <1>5, <1>6, <1>7, <1>8, <1>9, <1>10, <1>11, <1>12
  DEF CommandsNext

\* In every pipeline and transaction, whatever its commands, no command is run
\* more often than once and once more for every connection that broke during the
\* call: what the executor and go-redis repeat is bounded by what the network did.
THEOREM RunAsOftenAsBrokenAlways == CommandsSpec => []RunAsOftenAsBroken
<1>1. CIInv => RunAsOftenAsBroken
  <2> SUFFICES ASSUME CIInv, NEW i \in DOMAIN runs PROVE runs[i] <= 1 + broken
    BY DEF RunAsOftenAsBroken
  <2>1. runs[i] \in Nat /\ broken \in Nat
        /\ runs[i] <= broken + (IF i <= Len(answers) THEN 1 ELSE 0)
    BY DEF CIInv, CommandsTypes, RunOncePerSend
  <2> QED BY <2>1
<1> QED BY <1>1, InitCIInv, NextCIInv, PTL DEF CommandsSpec

\* What the answers tell while they are gathered.  A command with an answer has
\* been run, unless the answer is a conflict, and one answered "ok" is not one
\* that the server refuses.
AnswersTell ==
    /\ Len(answers) <= Len(call.list)
    /\ \A i \in DOMAIN answers :
          answers[i] # "conflict" =>
              runs[i] >= 1 /\ (answers[i] = "ok" => call.list[i].op # "Wrong")

\* A conflict is the answer to the whole transaction, none of whose commands has
\* been run, unless on a connection that broke.
ConflictsTell ==
    \A i \in DOMAIN answers : answers[i] = "conflict" =>
        /\ Len(answers) = Len(call.list)
        /\ \A j \in DOMAIN answers : answers[j] = "conflict"
        /\ broken = 0 => \A j \in DOMAIN runs : runs[j] = 0

\* Nothing is told before the call has returned.
ToldAtReturn == call.at # "returned" => outcome = Pending

\* The inductive invariant for what the caller is told.
OIInv == CIInv /\ AnswersTell /\ ConflictsTell /\ ToldAtReturn /\ OutcomeTells

\* The error of a list of answers is one of them, and none if all went well.
LEMMA FirstErrorFound ==
    ASSUME answers \in Seq(ServerAnswers)
    PROVE  \/ FirstError = "none" /\ \A i \in DOMAIN answers : answers[i] = "ok"
           \/ \E i \in DOMAIN answers : FirstError = answers[i] /\ answers[i] # "ok"
<1> DEFINE failed == {i \in DOMAIN answers : answers[i] # "ok"}
<1>1. CASE failed = {}
  BY <1>1 DEF FirstError
<1>2. CASE failed # {}
  <2>1. failed \subseteq Nat
    BY LenProperties
  <2>2. FirstError = answers[Min(failed)]
    BY <1>2 DEF FirstError
  <2> HIDE DEF failed
  <2>3. \E x \in failed : \A y \in failed : x =< y
    BY <1>2, <2>1, LeastExists
  <2>4. Min(failed) \in failed
    BY <2>3 DEF Min
  <2> QED BY <2>2, <2>4 DEF failed
<1> QED BY <1>1, <1>2

\* A step that tells nothing, and whose answers are those before or none.
LEMMA UntoldStep ==
    ASSUME OIInv, CIInv', ToldAtReturn', outcome' = outcome,
           answers' = <<>> \/ UNCHANGED <<call.list, answers, broken>>,
           UNCHANGED runs,
           call.at # "returned" \/ UNCHANGED <<call, answers, broken>>
    PROVE  OIInv'
<1>1. AnswersTell' /\ ConflictsTell'
  <2>1. CASE answers' = <<>>
    <3>1. call'.list \in Seq(Command)
      BY DEF CIInv, CommandsTypes
    <3>2. Len(call'.list) \in Nat /\ Len(answers') = 0 /\ DOMAIN answers' = {}
      BY <2>1, <3>1, EmptySeq
    <3> QED BY <3>2 DEF AnswersTell, ConflictsTell
  <2>2. CASE UNCHANGED <<call.list, answers, broken>>
    BY <2>2 DEF OIInv, AnswersTell, ConflictsTell
  <2> QED BY <2>1, <2>2
<1>2. OutcomeTells'
  <2>1. CASE call.at # "returned"
    BY <2>1 DEF OIInv, ToldAtReturn, Pending, OutcomeTells
  <2>2. CASE UNCHANGED <<call, answers, broken>>
    BY <2>2 DEF OIInv, OutcomeTells
  <2> QED BY <2>1, <2>2
<1> QED BY <1>1, <1>2 DEF OIInv

\* A step that tells the caller something that no answer told.
LEMMA OtherwiseTold ==
    ASSUME OIInv, CIInv', ToldAtReturn', outcome'.told \in {"network", "cancelled"},
           answers' = <<>> \/ UNCHANGED <<call.list, answers, broken>>, UNCHANGED runs
    PROVE  OIInv'
<1>1. AnswersTell' /\ ConflictsTell'
  <2>1. CASE answers' = <<>>
    <3>1. call'.list \in Seq(Command)
      BY DEF CIInv, CommandsTypes
    <3>2. Len(call'.list) \in Nat /\ Len(answers') = 0 /\ DOMAIN answers' = {}
      BY <2>1, <3>1, EmptySeq
    <3> QED BY <3>2 DEF AnswersTell, ConflictsTell
  <2>2. CASE UNCHANGED <<call.list, answers, broken>>
    BY <2>2 DEF OIInv, AnswersTell, ConflictsTell
  <2> QED BY <2>1, <2>2
<1>2. OutcomeTells'
  BY DEF OutcomeTells
<1> QED BY <1>1, <1>2 DEF OIInv

\* Another command of a pipeline is answered.
LEMMA RunTells == ASSUME OIInv, RunNext PROVE OIInv'
<1> DEFINE i == Len(answers) + 1
<1>1. CIInv'
  BY RunStep DEF OIInv
<1>2. /\ call.at = "sent" /\ Len(answers) < Len(call.list)
      /\ answers' = Append(answers, Answer(db, call.list[i]))
      /\ runs' = [runs EXCEPT ![i] = @ + 1]
      /\ UNCHANGED <<call, outcome, broken>>
  BY DEF RunNext
<1>3. /\ answers \in Seq(ServerAnswers) /\ call.list \in Seq(Command)
      /\ runs \in [DOMAIN call.list -> Nat]
  BY DEF OIInv, CIInv, CommandsTypes
<1>4. i \in DOMAIN call.list /\ Len(answers) \in Nat /\ call.list[i] \in Command
  BY <1>2, <1>3, ElementOfSeq
<1>5. /\ Answer(db, call.list[i]) \in ServerAnswers \ {"conflict"}
      /\ Answer(db, call.list[i]) = "ok" => call.list[i].op # "Wrong"
  BY <1>4 DEF Answer, Command, ServerAnswers
<1>6. /\ Len(answers') = i /\ answers'[i] = Answer(db, call.list[i])
      /\ \A j \in DOMAIN answers : answers'[j] = answers[j]
      /\ DOMAIN answers = 1..Len(answers) /\ DOMAIN answers' = 1..i
  BY <1>2, <1>3, <1>5, AppendProperties
<1>7. \A j \in DOMAIN answers : answers[j] # "conflict"
  BY <1>2 DEF OIInv, ConflictsTell
<1>8. AnswersTell'
  <2>1. Len(answers') <= Len(call'.list)
    BY <1>2, <1>3, <1>4, <1>6
  <2>2. ASSUME NEW j \in DOMAIN answers'
        PROVE  runs'[j] >= 1 /\ (answers'[j] = "ok" => call'.list[j].op # "Wrong")
    <3>1. CASE j = i
      BY <3>1, <1>2, <1>3, <1>4, <1>5, <1>6
    <3>2. CASE j # i
      <4>1. j \in DOMAIN answers /\ j \in DOMAIN call.list
        BY <3>2, <1>2, <1>3, <1>4, <1>6
      <4>2. runs[j] >= 1 /\ (answers[j] = "ok" => call.list[j].op # "Wrong")
        BY <4>1, <1>7 DEF OIInv, AnswersTell
      <4> QED BY <3>2, <4>1, <4>2, <1>2, <1>3, <1>4, <1>6
    <3> QED BY <3>1, <3>2
  <2> QED BY <2>1, <2>2 DEF AnswersTell
<1>9. ConflictsTell'
  <2>1. \A j \in DOMAIN answers' : answers'[j] # "conflict"
    BY <1>4, <1>5, <1>6, <1>7
  <2> QED BY <2>1 DEF ConflictsTell
<1>10. ToldAtReturn' /\ OutcomeTells'
  BY <1>2 DEF OIInv, ToldAtReturn, Pending, OutcomeTells
<1> QED BY <1>1, <1>8, <1>9, <1>10 DEF OIInv

\* A transaction is answered.
LEMMA ExecTells == ASSUME OIInv, Exec PROVE OIInv'
<1>1. CIInv'
  BY ExecStep DEF OIInv
<1>2. /\ call.kind = "transaction" /\ call.at = "sent" /\ Len(answers) < Len(call.list)
      /\ UNCHANGED <<call, outcome, broken>>
  BY DEF Exec
<1>3. /\ answers \in Seq(ServerAnswers) /\ call.list \in Seq(Command)
      /\ runs \in [DOMAIN call.list -> Nat] /\ broken \in Nat
  BY DEF OIInv, CIInv, CommandsTypes
<1>4. answers = <<>> /\ Len(answers) = 0
  BY <1>2 DEF OIInv, CIInv, AnsweredAtOnce
<1>5. ToldAtReturn' /\ OutcomeTells'
  BY <1>2 DEF OIInv, ToldAtReturn, Pending, OutcomeTells
<1>6. CASE dirty
  <2>1. answers' = [i \in DOMAIN call.list |-> "conflict"] /\ runs' = runs
    BY <1>6 DEF Exec
  <2>2. /\ DOMAIN answers' = DOMAIN call'.list /\ Len(answers') = Len(call'.list)
        /\ \A i \in DOMAIN answers' : answers'[i] = "conflict"
    BY <1>2, <1>3, <2>1
  <2>3. broken' = 0 => \A j \in DOMAIN runs' : runs'[j] = 0
    BY <1>2, <1>3, <1>4, <2>1 DEF OIInv, CIInv, RunOncePerSend
  <2>4. AnswersTell' /\ ConflictsTell'
    BY <1>2, <1>3, <2>2, <2>3 DEF AnswersTell, ConflictsTell
  <2> QED BY <1>1, <1>5, <2>4 DEF OIInv
<1>7. CASE ~dirty
  <2> DEFINE before == [i \in 1..Len(call.list) + 1 |->
                          FoldLeft(After, db, SubSeq(call.list, 1, i - 1))]
  <2>1. /\ answers' = [i \in DOMAIN call.list |-> Answer(before[i], call.list[i])]
        /\ runs' = [i \in DOMAIN runs |-> runs[i] + 1]
    BY <1>7 DEF Exec
  <2> HIDE DEF before
  <2>2. DOMAIN answers' = DOMAIN call'.list /\ Len(answers') = Len(call'.list)
    BY <1>2, <1>3, <2>1
  <2>3. ASSUME NEW i \in DOMAIN answers'
        PROVE  /\ answers'[i] # "conflict" /\ runs'[i] >= 1
               /\ answers'[i] = "ok" => call'.list[i].op # "Wrong"
    <3>1. i \in DOMAIN call.list /\ call.list[i] \in Command
      BY <1>2, <1>3, <2>2, ElementOfSeq
    <3>2. runs'[i] >= 1
      BY <1>3, <2>1, <3>1
    <3>3. answers'[i] = Answer(before[i], call.list[i])
      BY <2>1, <3>1
    <3>4. /\ answers'[i] # "conflict"
          /\ answers'[i] = "ok" => call.list[i].op # "Wrong"
      BY <3>1, <3>3 DEF Answer, Command
    <3> QED BY <1>2, <3>2, <3>4
  <2>4. AnswersTell' /\ ConflictsTell'
    BY <1>2, <1>3, <2>2, <2>3 DEF AnswersTell, ConflictsTell
  <2> QED BY <1>1, <1>5, <2>4 DEF OIInv
<1> QED BY <1>6, <1>7

\* The answers are all there, and the caller is told what they tell.
LEMMA AnsweredTells == ASSUME OIInv, CIInv', Answered PROVE OIInv'
<1> DEFINE told == IF FirstError = "none" THEN "ok" ELSE FirstError
<1>1. answers \in Seq(ServerAnswers) /\ call.list \in Seq(Command)
      /\ runs \in [DOMAIN call.list -> Nat]
  BY DEF OIInv, CIInv, CommandsTypes
<1>2. ~Transient(FirstError)
  BY <1>1, AnswersAreFinal
<1>3. /\ call.at = "sent" /\ Len(answers) = Len(call.list)
      /\ call' = [call EXCEPT !.at = "returned"]
      /\ outcome' = [told |-> told, results |-> IF FirstError = "none" THEN answers ELSE <<>>]
      /\ UNCHANGED <<answers, runs, broken>>
  BY <1>2 DEF Answered, AfterError, Return
<1>4. call'.list = call.list /\ call'.at = "returned"
  BY <1>3 DEF OIInv, CIInv, CommandsTypes
<1>5. AnswersTell' /\ ConflictsTell' /\ ToldAtReturn'
  BY <1>3, <1>4 DEF OIInv, AnswersTell, ConflictsTell, ToldAtReturn
<1>6. DOMAIN runs = DOMAIN answers /\ DOMAIN answers = DOMAIN call.list
  BY <1>1, <1>3
<1>7. CASE FirstError = "none" /\ \A i \in DOMAIN answers : answers[i] = "ok"
  <2>1. outcome'.told = "ok" /\ outcome'.results = answers
    BY <1>3, <1>7
  <2>2. \A i \in DOMAIN answers : runs[i] >= 1 /\ call.list[i].op # "Wrong"
    BY <1>7 DEF OIInv, AnswersTell
  <2>3. OutcomeTells'
    BY <1>3, <1>4, <1>6, <1>7, <2>1, <2>2 DEF OutcomeTells
  <2> QED BY <1>5, <2>3 DEF OIInv
<1>8. CASE \E i \in DOMAIN answers : FirstError = answers[i] /\ answers[i] # "ok"
  <2>1. PICK i \in DOMAIN answers : FirstError = answers[i] /\ answers[i] # "ok"
    BY <1>8
  <2>2. answers[i] \in ServerAnswers
    BY <1>1, ElementOfSeq
  <2>3. outcome'.told = answers[i]
    BY <1>3, <2>1, <2>2 DEF ServerAnswers
  <2>4. CASE answers[i] = "conflict"
    <3>1. broken = 0 => \A j \in DOMAIN runs : runs[j] = 0
      BY <2>4 DEF OIInv, ConflictsTell
    <3>2. OutcomeTells'
      BY <1>3, <2>3, <2>4, <3>1 DEF OutcomeTells
    <3> QED BY <1>5, <3>2 DEF OIInv
  <2>5. CASE answers[i] # "conflict"
    <3>1. \A j \in DOMAIN answers : answers[j] # "conflict"
      BY <2>5 DEF OIInv, ConflictsTell
    <3>2. \A j \in DOMAIN runs : runs[j] >= 1
      BY <1>6, <3>1 DEF OIInv, AnswersTell
    <3>3. OutcomeTells'
      BY <1>3, <2>1, <2>3, <2>5, <3>2 DEF OutcomeTells
    <3> QED BY <1>5, <3>3 DEF OIInv
  <2> QED BY <2>4, <2>5
<1> QED BY <1>1, <1>7, <1>8, FirstErrorFound

\* Every step keeps the invariant.
LEMMA NextOIInv == OIInv /\ [CommandsNext]_commandVars => OIInv'
<1> SUFFICES ASSUME OIInv, [CommandsNext]_commandVars PROVE OIInv'
  OBVIOUS
<1>c. CIInv'
  BY NextCIInv DEF OIInv
<1>r. call = [kind |-> call.kind, list |-> call.list, watch |-> call.watch, at |-> call.at]
  BY DEF OIInv, CIInv, CommandsTypes
<1>1. ASSUME NEW kind, NEW list, NEW watched, BeginCall(kind, list, watched) PROVE OIInv'
  <2>1. /\ call.at = "idle" /\ answers = <<>> /\ UNCHANGED <<answers, outcome, broken>>
        /\ call'.at \in {"sent", "watching"}
    BY <1>1 DEF BeginCall, OIInv, CIInv, NothingAnswered
  <2>2. call'.list \in Seq(Command) /\ Len(answers') = 0 /\ DOMAIN answers' = {}
    BY <1>c, <2>1, EmptySeq DEF CIInv, CommandsTypes
  <2>3. AnswersTell' /\ ConflictsTell'
    BY <2>2 DEF AnswersTell, ConflictsTell
  <2>4. ToldAtReturn' /\ OutcomeTells'
    BY <2>1 DEF OIInv, ToldAtReturn, Pending, OutcomeTells
  <2> QED BY <1>c, <2>3, <2>4 DEF OIInv
<1>2. ASSUME WatchKeys PROVE OIInv'
  <2>1. /\ call' = [call EXCEPT !.at = "sent"] /\ call.at = "watching"
        /\ UNCHANGED <<answers, outcome, broken, runs>>
    BY <1>2 DEF WatchKeys
  <2>2. call'.list = call.list /\ ToldAtReturn'
    BY <1>r, <2>1 DEF OIInv, ToldAtReturn
  <2> QED BY <1>c, <2>1, <2>2, UntoldStep
<1>3. CASE RunNext
  BY <1>3, RunTells
<1>4. CASE Exec
  BY <1>4, ExecTells
<1>5. ASSUME NEW k \in DbKeys, OtherWrites(k) PROVE OIInv'
  BY <1>c, <1>5 DEF OtherWrites, OIInv, AnswersTell, ConflictsTell, ToldAtReturn,
                    OutcomeTells
<1>6. CASE Answered
  BY <1>c, <1>6, AnsweredTells
<1>7. ASSUME Resend PROVE OIInv'
  <2>1. answers' = <<>> /\ call.at # "returned" /\ UNCHANGED <<call, outcome, runs>>
    BY <1>7 DEF Resend, Broken
  <2>2. ToldAtReturn'
    BY <2>1 DEF OIInv, ToldAtReturn
  <2> QED BY <1>c, <2>1, <2>2, UntoldStep
<1>8. ASSUME AttemptFails PROVE OIInv'
  <2>1. answers' = <<>> /\ call.at # "returned" /\ UNCHANGED runs
    BY <1>8 DEF AttemptFails, Broken
  <2>2. CASE call' = [call EXCEPT !.at = "backoff"] /\ outcome' = outcome
    <3>1. ToldAtReturn'
      BY <2>1, <2>2 DEF OIInv, ToldAtReturn
    <3> QED BY <1>c, <2>1, <2>2, <3>1, UntoldStep
  <2>3. CASE Return("network", <<>>)
    <3>1. outcome'.told = "network" /\ call'.at = "returned"
      BY <1>r, <2>3 DEF Return
    <3>2. ToldAtReturn'
      BY <3>1 DEF ToldAtReturn
    <3> QED BY <1>c, <2>1, <3>1, <3>2, OtherwiseTold
  <2> QED BY <1>8, <2>2, <2>3 DEF AttemptFails, AfterError
<1>9. ASSUME NextAttempt PROVE OIInv'
  <2>1. /\ answers' = <<>> /\ call.at = "backoff" /\ call' = FromStart
        /\ UNCHANGED <<outcome, runs>>
    BY <1>9 DEF NextAttempt
  <2>2. ToldAtReturn'
    BY <2>1 DEF OIInv, ToldAtReturn
  <2> QED BY <1>c, <2>1, <2>2, UntoldStep
<1>10. ASSUME Cancel PROVE OIInv'
  <2>1. /\ call' = [call EXCEPT !.at = "returned"] /\ outcome'.told = "cancelled"
        /\ UNCHANGED <<answers, broken, runs>>
    BY <1>10 DEF Cancel, Return
  <2>2. call'.list = call.list /\ ToldAtReturn'
    BY <1>r, <2>1 DEF ToldAtReturn
  <2> QED BY <1>c, <2>1, <2>2, OtherwiseTold
<1>11. CASE UNCHANGED commandVars
  BY <1>c, <1>11 DEF commandVars, OIInv, AnswersTell, ConflictsTell, ToldAtReturn,
                     OutcomeTells
<1> QED
  BY <1>1, <1>2, <1>3, <1>4, <1>5, <1>6, <1>7, <1>8, <1>9, <1>10, <1>11
  DEF CommandsNext

\* What Pipeline and Transaction tell their caller is so, whatever broke, was
\* repeated or was written by others on the way: success means that every command
\* was run and none failed, a missing key that every command was run all the same,
\* a conflict that none was.
THEOREM OutcomeTellsAlways == CommandsSpec => []OutcomeTells
<1>1. CommandsInit => OIInv
  <2> SUFFICES ASSUME CommandsInit PROVE OIInv
    OBVIOUS
  <2>1. CIInv
    BY InitCIInv
  <2>2. DOMAIN answers = {} /\ Len(answers) = 0 /\ Len(call.list) = 0 /\ outcome = Pending
    BY EmptySeq DEF CommandsInit, NoCall
  <2> QED BY <2>1, <2>2
      DEF OIInv, AnswersTell, ConflictsTell, ToldAtReturn, OutcomeTells, Pending
<1>2. OIInv => OutcomeTells
  BY DEF OIInv
<1> QED BY <1>1, <1>2, NextOIInv, PTL DEF CommandsSpec

-----------------------------------------------------------------------------
(***************************************************************************)
(* Subscription: for any messages and any channel capacities.              *)
(***************************************************************************)

ForwardingTypes ==
    /\ source \in Seq(Messages) /\ output \in Seq(Messages)
    /\ carried \in Seq(Messages) /\ Len(carried) <= 1
    /\ unread \in Seq(Messages)

\* The inductive invariant.
FIInv == ForwardingTypes /\ ForwardsInOrder

-----------------------------------------------------------------------------

\* Taking a sequence's head and putting it before the tail gives it back.
LEMMA HeadThenTail ==
    ASSUME NEW s \in Seq(Messages), s # <<>>
    PROVE  /\ <<Head(s)>> \in Seq(Messages) /\ Tail(s) \in Seq(Messages)
           /\ Len(<<Head(s)>>) = 1
           /\ s = <<Head(s)>> \o Tail(s)
<1>1. Len(s) \in Nat \ {0} /\ Head(s) = s[1] /\ s[1] \in Messages
  BY EmptySeq, ElementOfSeq, HeadTailProperties
<1>2. /\ Tail(s) \in Seq(Messages) /\ Len(Tail(s)) = Len(s) - 1
      /\ \A i \in 1 .. Len(Tail(s)) : Tail(s)[i] = s[i+1]
  BY HeadTailProperties
<1>3. <<Head(s)>> \in Seq(Messages) /\ Len(<<Head(s)>>) = 1 /\ <<Head(s)>>[1] = s[1]
  BY <1>1
<1>4. /\ <<Head(s)>> \o Tail(s) \in Seq(Messages)
      /\ Len(<<Head(s)>> \o Tail(s)) = Len(s)
      /\ \A i \in 1 .. Len(s) : (<<Head(s)>> \o Tail(s))[i] = s[i]
  BY <1>1, <1>2, <1>3
<1> QED BY <1>2, <1>3, <1>4, SeqEqual

\* What is appended at the end of the source is appended at the end of all.
LEMMA AppendLast ==
    ASSUME NEW s \in Seq(Messages), NEW t \in Seq(Messages), NEW m \in Messages
    PROVE  s \o Append(t, m) = Append(s \o t, m)
<1> DEFINE u == s \o Append(t, m)
           v == Append(s \o t, m)
<1>1. u \in Seq(Messages) /\ v \in Seq(Messages) /\ Len(u) = Len(v)
  OBVIOUS
<1>2. \A i \in 1 .. Len(u) : u[i] = v[i]
  OBVIOUS
<1> QED BY <1>1, <1>2, SeqEqual

\* The tail of a concatenation is the tail of its first part, if there is one.
LEMMA TailFirst ==
    ASSUME NEW s \in Seq(Messages), NEW t \in Seq(Messages), s # <<>>
    PROVE  Tail(s \o t) = Tail(s) \o t
<1> DEFINE u == Tail(s \o t)
           v == Tail(s) \o t
<1>1. Len(s) \in Nat \ {0} /\ Len(t) \in Nat
  BY EmptySeq
<1>2. s \o t \in Seq(Messages) /\ s \o t # <<>> /\ Len(s \o t) = Len(s) + Len(t)
  BY <1>1
<1>3. u \in Seq(Messages) /\ Len(u) = Len(s) + Len(t) - 1
      /\ \A i \in 1 .. Len(u) : u[i] = (s \o t)[i + 1]
  BY <1>2, HeadTailProperties
<1>4. /\ Tail(s) \in Seq(Messages) /\ Len(Tail(s)) = Len(s) - 1
      /\ \A i \in 1 .. Len(Tail(s)) : Tail(s)[i] = s[i + 1]
  BY HeadTailProperties
<1>5. v \in Seq(Messages) /\ Len(v) = Len(s) - 1 + Len(t)
  BY <1>1, <1>4
<1>6. \A i \in 1 .. Len(u) : u[i] = v[i]
  BY <1>1, <1>3, <1>4
<1> QED BY <1>1, <1>3, <1>5, <1>6, SeqEqual

\* Where concatenations are bracketed does not matter.
LEMMA Brackets ==
    ASSUME NEW s \in Seq(Messages), NEW t \in Seq(Messages), NEW u \in Seq(Messages)
    PROVE  (s \o t) \o u = s \o (t \o u)
<1> DEFINE v == (s \o t) \o u
           w == s \o (t \o u)
<1>1. v \in Seq(Messages) /\ w \in Seq(Messages) /\ Len(v) = Len(w)
  OBVIOUS
<1>2. \A i \in 1 .. Len(v) : v[i] = w[i]
  OBVIOUS
<1> HIDE DEF v, w
<1>3. v = w
  BY <1>1, <1>2, SeqEqual
<1> QED BY <1>3 DEF v, w

-----------------------------------------------------------------------------

\* The invariant holds when the forwarder starts.
LEMMA InitFIInv == SubscriptionInit => FIInv
  BY EmptySeq DEF SubscriptionInit, FIInv, ForwardingTypes, ForwardsInOrder

\* Every step keeps the invariant.
LEMMA NextFIInv == FIInv /\ [SubscriptionNext]_subscriptionVars => FIInv'
<1> SUFFICES ASSUME FIInv, [SubscriptionNext]_subscriptionVars PROVE FIInv'
  OBVIOUS
<1> USE DEF FIInv, ForwardingTypes, ForwardsInOrder
<1>1. ASSUME NEW m \in Messages, ServerSends(m) PROVE FIInv'
  <2>1. /\ source' = Append(source, m) /\ unread' = Append(unread, m)
        /\ UNCHANGED <<output, carried>>
    BY <1>1 DEF ServerSends
  <2>2. (output \o carried) \o Append(source, m) = Append((output \o carried) \o source, m)
    BY AppendLast, ConcatProperties
  <2> QED BY <2>1, <2>2
<1>2. ASSUME TakeMessage PROVE FIInv'
  <2>1. /\ source # <<>> /\ carried = <<>> /\ carried' = <<Head(source)>>
        /\ source' = Tail(source) /\ UNCHANGED <<output, unread>>
    BY <1>2 DEF TakeMessage
  <2>2. /\ carried' \in Seq(Messages) /\ Len(carried') <= 1 /\ source' \in Seq(Messages)
        /\ source = carried' \o source'
    BY <2>1, HeadThenTail
  <2>3. output \o carried = output
    BY <2>1, ConcatEmptySeq
  <2>4. output \o (carried' \o source') = (output \o carried') \o source'
    <3>1. output \in Seq(Messages)
      OBVIOUS
    <3> HIDE DEF FIInv, ForwardingTypes, ForwardsInOrder
    <3> QED BY <2>2, <3>1, Brackets
  <2> QED BY <2>1, <2>2, <2>3, <2>4
<1>3. ASSUME SendMessage PROVE FIInv'
  <2>1. output' = output \o carried /\ carried' = <<>> /\ UNCHANGED <<source, unread>>
    BY <1>3 DEF SendMessage
  <2>2. output' \in Seq(Messages) /\ output' \o <<>> = output'
    BY <2>1, ConcatProperties, ConcatEmptySeq
  <2> QED BY <2>1, <2>2
<1>4. ASSUME ReadMessage PROVE FIInv'
  <2>1. /\ output # <<>> /\ output' = Tail(output) /\ unread' = Tail(unread)
        /\ UNCHANGED <<source, carried>>
    BY <1>4 DEF ReadMessage
  <2> HIDE DEF ForwardsInOrder
  <2>2. output' \in Seq(Messages) /\ carried \o source \in Seq(Messages)
    <3>1. output \in Seq(Messages) /\ carried \in Seq(Messages) /\ source \in Seq(Messages)
      OBVIOUS
    <3>2. output' \in Seq(Messages)
      BY <2>1, <3>1, HeadThenTail
    <3>3. carried \o source \in Seq(Messages)
      BY <3>1, ConcatProperties
    <3> QED BY <3>2, <3>3
  <2>3. unread = output \o (carried \o source)
    <3>1. /\ output \in Seq(Messages) /\ carried \in Seq(Messages) /\ source \in Seq(Messages)
          /\ unread = (output \o carried) \o source
      BY DEF ForwardsInOrder
    <3> HIDE DEF FIInv, ForwardingTypes
    <3> QED BY <3>1, Brackets
  <2>4. unread' = output' \o (carried \o source)
    <3>1. output \in Seq(Messages)
      OBVIOUS
    <3> HIDE DEF FIInv, ForwardingTypes
    <3> QED BY <2>1, <2>2, <2>3, <3>1, TailFirst
  <2>5. unread' = (output' \o carried) \o source
    <3>1. carried \in Seq(Messages) /\ source \in Seq(Messages)
      OBVIOUS
    <3> HIDE DEF FIInv, ForwardingTypes
    <3>2. (output' \o carried) \o source = output' \o (carried \o source)
      BY <2>2, <3>1, Brackets
    <3> QED BY <2>4, <3>2
  <2>6. unread' \in Seq(Messages)
    BY <2>2, <2>4, ConcatProperties
  <2> QED BY <2>1, <2>2, <2>5, <2>6 DEF ForwardsInOrder
<1>5. ASSUME \/ Subscribe \/ SubscribeFails \/ EndForwarding \/ ReadEnd \/ StopReading
             \/ CloseSubscription \/ UNCHANGED subscriptionVars
      PROVE  FIInv'
  <2>1. UNCHANGED <<source, output, carried, unread>>
    BY <1>5 DEF Subscribe, SubscribeFails, EndForwarding, ReadEnd, StopReading,
                CloseSubscription, subscriptionVars
  <2> QED BY <2>1
<1> QED
  BY <1>1, <1>2, <1>3, <1>4, <1>5 DEF SubscriptionNext, Forward

\* The forwarder of a subscription loses, repeats and reorders nothing, whatever
\* the messages and the capacities of the channels.
THEOREM ForwardsInOrderAlways == SubscriptionSpec => []ForwardsInOrder
<1>1. FIInv => ForwardsInOrder
  BY DEF FIInv
<1> QED BY <1>1, InitFIInv, NextFIInv, PTL DEF SubscriptionSpec

-----------------------------------------------------------------------------
(***************************************************************************)
(* Bulk: for any finite set of keys, any lists of them and any batch sizes. *)
(***************************************************************************)

BulkTypes ==
    /\ job = [op |-> job.op, keys |-> job.keys, batches |-> job.batches,
              done |-> job.done, told |-> job.told, total |-> job.total, got |-> job.got]
    /\ present \subseteq BulkKeys
    /\ deleted \in Nat

\* Before an operation nothing is counted, and Delete's total is a number.
TotalIsNumber ==
    /\ job.op = "none" => deleted = 0
    /\ job.op = "Delete" => job.total \in Nat

\* The inductive invariant.
BIInv == BulkTypes /\ TotalIsNumber /\ DeleteCounts

-----------------------------------------------------------------------------

\* What a batch deletes is a natural number.
LEMMA DeletedByBatch ==
    ASSUME present \subseteq BulkKeys
    PROVE  Cardinality(Batch \intersect present) \in Nat
<1>1. IsFiniteSet(Batch \intersect present)
  BY BulkAssumption, FS_Subset
<1> QED BY <1>1, FS_CardinalityType

\* The invariant holds before the first batch.
LEMMA InitBIInv == BulkInit => BIInv
  BY DEF BulkInit, NoJob, BIInv, BulkTypes, TotalIsNumber, DeleteCounts

\* Every step keeps the invariant.
LEMMA NextBIInv == BIInv /\ [BulkNext]_bulkVars => BIInv'
<1> SUFFICES ASSUME BIInv, [BulkNext]_bulkVars PROVE BIInv'
  OBVIOUS
<1>c. Cardinality(Batch \intersect present) \in Nat
  BY DeletedByBatch DEF BIInv, BulkTypes
<1> DEFINE n == Cardinality(Batch \intersect present)
<1>1. ASSUME NEW op \in {"Get", "Delete", "Expire"}, NEW keys \in KeyArguments,
             NEW size \in BatchSizes, BeginBulk(op, keys, size)
      PROVE  BIInv'
  <2>1. /\ job' = [NoJob EXCEPT !.op = op, !.keys = keys,
                      !.batches = Chunk(keys, IF size <= 0 THEN DefaultBatch ELSE size)]
        /\ deleted = 0 /\ UNCHANGED <<present, deleted>>
    BY <1>1 DEF BeginBulk, BIInv, TotalIsNumber
  <2>2. job' = [op |-> op, keys |-> keys, batches |-> job'.batches, done |-> 0,
                told |-> "nothing", total |-> 0, got |-> {}]
    BY <2>1 DEF NoJob
  <2>3. job'.op = op /\ job'.total = 0
    BY <2>2
  <2>4. job' = [op |-> job'.op, keys |-> job'.keys, batches |-> job'.batches,
                done |-> job'.done, told |-> job'.told, total |-> job'.total,
                got |-> job'.got]
    BY <2>2
  <2>5. BulkTypes'
    BY <2>1, <2>4 DEF BIInv, BulkTypes
  <2>6. TotalIsNumber' /\ DeleteCounts'
    BY <2>1, <2>3 DEF TotalIsNumber, DeleteCounts
  <2> QED BY <2>5, <2>6 DEF BIInv
<1>2. ASSUME BatchSucceeds PROVE BIInv'
  <2>1. /\ job' = [job EXCEPT !.done = @ + 1, !.total = @ + BatchTotal,
                              !.got = IF job.op = "Get" THEN @ \union Batch ELSE @]
        /\ job.op # "none" /\ UNCHANGED lost
    BY <1>2 DEF BatchSucceeds, Running
  <2>2. /\ present' = IF job.op = "Delete" THEN present \ Batch ELSE present
        /\ deleted' = IF job.op = "Delete" THEN deleted + n ELSE deleted
    BY <1>2 DEF BatchSucceeds, Effect
  <2>3. job.op = "Delete" => BatchTotal = n
    BY DEF BatchTotal
  <2> HIDE DEF n
  <2>4. job'.op = job.op /\ (job.op = "Delete" => job'.total = job.total + n)
    BY <2>1, <2>3 DEF BIInv, BulkTypes
  <2>5. BulkTypes'
    <3>1. job' = [op |-> job'.op, keys |-> job'.keys, batches |-> job'.batches,
                  done |-> job'.done, told |-> job'.told, total |-> job'.total,
                  got |-> job'.got]
      BY <2>1 DEF BIInv, BulkTypes
    <3>2. present' \subseteq BulkKeys
      BY <2>2 DEF BIInv, BulkTypes
    <3>3. deleted' \in Nat
      BY <1>c, <2>2 DEF BIInv, BulkTypes, n
    <3> QED BY <3>1, <3>2, <3>3 DEF BulkTypes
  <2>6. TotalIsNumber' /\ DeleteCounts'
    BY <1>c, <2>1, <2>2, <2>4 DEF BIInv, BulkTypes, TotalIsNumber, DeleteCounts, n
  <2> QED BY <2>5, <2>6 DEF BIInv
<1>3. ASSUME BatchLost PROVE BIInv'
  <2>1. /\ lost' = TRUE /\ job' = job /\ job.op # "none"
        /\ present' = IF job.op = "Delete" THEN present \ Batch ELSE present
        /\ deleted' = IF job.op = "Delete" THEN deleted + n ELSE deleted
    BY <1>3 DEF BatchLost, Running, Effect
  <2> HIDE DEF n
  <2>2. n \in Nat
    BY <1>c DEF n
  <2> QED BY <2>1, <2>2 DEF BIInv, BulkTypes, TotalIsNumber, DeleteCounts
<1>4. ASSUME BatchFails PROVE BIInv'
  BY <1>4 DEF BatchFails, Running, BIInv, BulkTypes, TotalIsNumber, DeleteCounts
<1>5. ASSUME EndBulk PROVE BIInv'
  BY <1>5 DEF EndBulk, BIInv, BulkTypes, TotalIsNumber, DeleteCounts
<1>6. ASSUME NEW k \in BulkKeys, OtherChanges(k) PROVE BIInv'
  BY <1>6 DEF OtherChanges, BIInv, BulkTypes, TotalIsNumber, DeleteCounts
<1>7. CASE UNCHANGED bulkVars
  BY <1>7 DEF bulkVars, BIInv, BulkTypes, TotalIsNumber, DeleteCounts
<1> QED
  BY <1>1, <1>2, <1>3, <1>4, <1>5, <1>6, <1>7 DEF BulkNext

\* What Delete of the bulk service returns, whether it succeeds or fails on the
\* way, is the number of keys it has deleted; it is less only if the answer to a
\* batch was lost, and never more.
THEOREM DeleteCountsAlways == BulkSpec => []DeleteCounts
<1>1. BIInv => DeleteCounts
  BY DEF BIInv
<1> QED BY <1>1, InitBIInv, NextBIInv, PTL DEF BulkSpec

\* The batches are the key list, cut at some size.
JobIsCut ==
    job.op # "none" =>
        /\ job.keys \in Seq(BulkKeys) /\ job.keys # <<>>
        /\ \E size \in Nat \ {0} : job.batches = Chunk(job.keys, size)

\* What the batches done have come to.
JobSoFar ==
    /\ job.op \in {"none", "Get", "Delete", "Expire"}
    /\ job.op = "none" => job = NoJob
    /\ job.done \in 0..Len(job.batches)
    /\ job.told = "ok" => job.op # "none" /\ job.done = Len(job.batches)
    /\ job.op = "Get" /\ job.told # "error" =>
          job.got = UNION {ToSet(job.batches[b]) : b \in 1..job.done}
    /\ job.op = "Expire" =>
          job.total = IF job.done = Len(job.batches) THEN Len(job.keys)
                      ELSE job.done * Len(job.batches[1])

\* The inductive invariant for what the bulk service returns.
SumInv == BIInv /\ JobIsCut /\ JobSoFar

\* Where batch b starts: so many keys are in the batches before it.
Start(b, size) == (b - 1) * size

\* The first batch starts at the beginning, and each where the one before ends.
LEMMA StartFacts ==
    ASSUME NEW size \in Nat \ {0}, NEW b \in Nat \ {0}
    PROVE  /\ Start(b, size) \in Nat
           /\ b * size = Start(b, size) + size
           /\ Start(1, size) = 0
           /\ Start(b + 1, size) = Start(b, size) + size
           /\ \A c \in Nat \ {0} : b < c => Start(b, size) + size <= Start(c, size)
<1>1. Start(b, size) \in Nat /\ b * size = Start(b, size) + size /\ Start(1, size) = 0
  BY DEF Start
<1>2. Start(b + 1, size) = Start(b, size) + size
  BY DEF Start
<1>3. ASSUME NEW c \in Nat \ {0}, b < c
      PROVE  Start(b, size) + size <= Start(c, size)
  <2>1. b * size <= (c - 1) * size
    BY <1>3
  <2> QED BY <1>1, <2>1 DEF Start
<1> QED BY <1>1, <1>2, <1>3

\* How many batches there are: at least one, and the last is not empty.
LEMMA HowManyBatches ==
    ASSUME NEW length \in Nat \ {0}, NEW size \in Nat \ {0}
    PROVE  LET n == (length + size - 1) \div size IN
           /\ n \in Nat \ {0}
           /\ Start(n, size) < length /\ length <= Start(n, size) + size
<1> DEFINE n == (length + size - 1) \div size
<1>1. n \in Nat \ {0}
  OBVIOUS
<1>2. (n - 1) * size < length /\ length <= n * size
  OBVIOUS
<1>3. n * size = Start(n, size) + size
  BY <1>1, StartFacts
<1> QED BY <1>1, <1>2, <1>3 DEF Start

\* The batches of chunk: all of the same size but the last, and each key at its
\* place in the list.
LEMMA ChunkParts ==
    ASSUME NEW keys \in Seq(BulkKeys), keys # <<>>, NEW size \in Nat \ {0},
           NEW batches, batches = Chunk(keys, size)
    PROVE  /\ Len(batches) \in Nat \ {0} /\ DOMAIN batches = 1..Len(batches)
           /\ Start(Len(batches), size) < Len(keys)
           /\ Len(keys) <= Start(Len(batches), size) + size
           /\ \A b \in 1..Len(batches) :
                 /\ batches[b] \in Seq(BulkKeys)
                 /\ Len(batches[b]) = IF b = Len(batches)
                                      THEN Len(keys) - Start(b, size) ELSE size
                 /\ Len(batches[b]) \in 1..size
                 /\ \A i \in 1..Len(batches[b]) :
                       /\ Start(b, size) + i \in 1..Len(keys)
                       /\ batches[b][i] = keys[Start(b, size) + i]
<1> DEFINE n == (Len(keys) + size - 1) \div size
           to(b) == IF b * size > Len(keys) THEN Len(keys) ELSE b * size
<1>1. Len(keys) \in Nat \ {0} /\ DOMAIN keys = 1..Len(keys)
  BY EmptySeq
<1>2. n \in Nat \ {0} /\ Start(n, size) < Len(keys) /\ Len(keys) <= Start(n, size) + size
  BY <1>1, HowManyBatches
<1>3. batches = [b \in 1..n |-> SubSeq(keys, Start(b, size) + 1, to(b))]
  BY DEF Chunk, Start
<1>4. ASSUME NEW b \in 1..n
      PROVE  /\ b \in Nat \ {0} /\ Start(b, size) \in Nat
             /\ to(b) = IF Start(b, size) + size > Len(keys) THEN Len(keys)
                                                             ELSE Start(b, size) + size
             /\ b # n => Start(b, size) + size <= Start(n, size)
  <2>1. b \in Nat \ {0} /\ (b # n => b < n)
    BY <1>2
  <2>2. b * size = Start(b, size) + size
    BY <2>1, StartFacts
  <2>3. /\ Start(b, size) \in Nat
        /\ b # n => Start(b, size) + size <= Start(n, size)
    BY <1>2, <2>1, StartFacts
  <2> QED BY <2>1, <2>2, <2>3
<1> HIDE DEF n, to
<1>5. DOMAIN batches = 1..n /\ Len(batches) = n
  BY <1>2, <1>3
<1>6. Start(n, size) \in Nat
  BY <1>2, StartFacts
<1>7. ASSUME NEW b \in 1..n
      PROVE  /\ to(b) - Start(b, size) =
                   IF b = n THEN Len(keys) - Start(b, size) ELSE size
             /\ to(b) - Start(b, size) \in 1..size
             /\ Start(b, size) < to(b) /\ to(b) <= Len(keys) /\ to(b) \in Nat
  <2>1. CASE b = n
    <3>1. to(b) = Len(keys)
      BY <2>1, <1>1, <1>2, <1>4
    <3> QED BY <2>1, <3>1, <1>1, <1>2, <1>4
  <2>2. CASE b # n
    <3>1. to(b) = Start(b, size) + size /\ Start(b, size) + size <= Len(keys)
      BY <2>2, <1>1, <1>2, <1>4, <1>6
    <3> QED BY <2>2, <3>1, <1>4
  <2> QED BY <2>1, <2>2
<1>8. ASSUME NEW b \in 1..n
      PROVE  /\ batches[b] \in Seq(BulkKeys)
             /\ Len(batches[b]) = to(b) - Start(b, size)
             /\ \A i \in 1..Len(batches[b]) :
                   /\ Start(b, size) + i \in 1..Len(keys)
                   /\ batches[b][i] = keys[Start(b, size) + i]
  <2> DEFINE from == Start(b, size)
             end == to(b)
  <2>1. batches[b] = SubSeq(keys, from + 1, end)
    BY <1>3
  <2>2. from \in Nat /\ end \in Nat /\ from < end /\ end <= Len(keys)
    BY <1>4, <1>7
  <2> HIDE DEF from, end
  <2>3. /\ batches[b] \in Seq(BulkKeys) /\ Len(batches[b]) = end - from
        /\ \A i \in 1..end - from : batches[b][i] = keys[from + i]
    BY <2>1, <2>2, <1>1, SubSeqProperties
  <2>4. \A i \in 1..Len(batches[b]) : from + i \in 1..Len(keys) /\ batches[b][i] = keys[from + i]
    <3>1. \A i \in 1..end - from : from + i \in 1..Len(keys)
      BY <2>2, <1>1
    <3> QED BY <2>3, <3>1
  <2> QED BY <2>3, <2>4 DEF from, end
<1>9. ASSUME NEW b \in 1..n
      PROVE  /\ Len(batches[b]) = IF b = n THEN Len(keys) - Start(b, size) ELSE size
             /\ Len(batches[b]) \in 1..size
  BY <1>7, <1>8
<1> QED BY <1>2, <1>5, <1>8, <1>9

\* Every place of the list is in a batch.
LEMMA PlaceIsInBatch ==
    ASSUME NEW size \in Nat \ {0}, NEW p \in Nat \ {0}
    PROVE  \E b \in Nat \ {0} : Start(b, size) < p /\ p <= Start(b, size) + size
<1> DEFINE b == ((p - 1) \div size) + 1
<1>1. b \in Nat \ {0}
  OBVIOUS
<1>2. size * (b - 1) <= p - 1 /\ p - 1 < size * (b - 1) + size
  OBVIOUS
<1>3. size * (b - 1) = Start(b, size) /\ Start(b, size) \in Nat
  BY <1>1 DEF Start
<1> HIDE DEF b
<1>4. Start(b, size) < p /\ p <= Start(b, size) + size
  BY <1>2, <1>3
<1> QED BY <1>1, <1>4

\* The batches of a list are the list: the first two conjuncts of BulkAddsUp.
LEMMA BatchesAreTheList ==
    ASSUME job.keys \in Seq(BulkKeys), job.keys # <<>>, NEW size \in Nat \ {0},
           job.batches = Chunk(job.keys, size)
    PROVE  /\ \A b \in DOMAIN job.batches : \A i \in DOMAIN job.batches[b] :
                 /\ i <= Len(job.batches[1])
                 /\ Place(b, i) \in DOMAIN job.keys
                 /\ job.batches[b][i] = job.keys[Place(b, i)]
           /\ \A p \in DOMAIN job.keys :
                 \E b \in DOMAIN job.batches : \E i \in DOMAIN job.batches[b] : p = Place(b, i)
<1> DEFINE batches == job.batches
           n == Len(batches)
           first == Len(batches[1])
           length == Len(job.keys)
<1>1. /\ n \in Nat \ {0} /\ DOMAIN batches = 1..n /\ Start(n, size) < length
      /\ length <= Start(n, size) + size
      /\ \A b \in 1..n :
            /\ batches[b] \in Seq(BulkKeys)
            /\ Len(batches[b]) = IF b = n THEN length - Start(b, size) ELSE size
            /\ Len(batches[b]) \in 1..size
            /\ \A i \in 1..Len(batches[b]) :
                  /\ Start(b, size) + i \in 1..length
                  /\ batches[b][i] = job.keys[Start(b, size) + i]
  BY ChunkParts
<1>2. DOMAIN job.keys = 1..length
  OBVIOUS
<1> HIDE DEF batches, n, length
<1>3. 1 \in 1..n /\ first \in 1..size /\ (n # 1 => first = size)
  BY <1>1
<1>4. ASSUME NEW b \in 1..n, NEW i
      PROVE  Place(b, i) = Start(b, size) + i
  <2>1. CASE n = 1
    <3>1. b = 1
      BY <2>1
    <3>2. Start(b, first) = 0 /\ Start(b, size) = 0
      <4>1. first \in Nat \ {0}
        BY <1>3
      <4> HIDE DEF first
      <4> QED BY <3>1, <4>1, StartFacts
    <3> QED BY <3>2 DEF Place, Start, batches
  <2>2. CASE n # 1
    BY <1>3, <2>2 DEF Place, Start, batches
  <2> QED BY <2>1, <2>2
<1>5. ASSUME NEW b \in DOMAIN batches
      PROVE  /\ b \in 1..n /\ DOMAIN batches[b] = 1..Len(batches[b])
             /\ Len(batches[b]) <= first /\ Len(batches[b]) \in Nat
  <2>1. b \in 1..n /\ batches[b] \in Seq(BulkKeys) /\ Len(batches[b]) \in 1..size
    BY <1>1
  <2>2. Len(batches[b]) <= first
    BY <1>1, <1>3, <2>1
  <2> QED BY <2>1, <2>2
<1>6. ASSUME NEW b \in DOMAIN batches, NEW i \in DOMAIN batches[b]
      PROVE  /\ i <= first /\ Place(b, i) \in DOMAIN job.keys
             /\ batches[b][i] = job.keys[Place(b, i)]
  <2>1. b \in 1..n /\ i \in 1..Len(batches[b]) /\ i <= first
    BY <1>3, <1>5
  <2> QED BY <1>1, <1>2, <1>4, <2>1
<1>7. ASSUME NEW p \in DOMAIN job.keys
      PROVE  \E b \in DOMAIN batches : \E i \in DOMAIN batches[b] : p = Place(b, i)
  <2>1. p \in Nat \ {0} /\ p <= length /\ length \in Nat
    BY <1>2 DEF length
  <2>2. PICK b \in Nat \ {0} : Start(b, size) < p /\ p <= Start(b, size) + size
    BY <2>1, PlaceIsInBatch
  <2>3. /\ Start(b, size) \in Nat /\ Start(n, size) \in Nat
        /\ n < b => Start(n, size) + size <= Start(b, size)
    BY <1>1, StartFacts
  <2>4. b \in 1..n
    BY <1>1, <2>1, <2>2, <2>3
  <2>5. p - Start(b, size) \in 1..Len(batches[b])
    <3>1. Len(batches[b]) = IF b = n THEN length - Start(b, size) ELSE size
      BY <1>1, <2>4
    <3>2. p - Start(b, size) \in 1..size /\ p - Start(b, size) <= length - Start(b, size)
      BY <2>1, <2>2, <2>3
    <3> QED BY <2>1, <2>3, <3>1, <3>2
  <2>6. p = Place(b, p - Start(b, size))
    BY <1>4, <2>1, <2>3, <2>4
  <2> QED BY <1>1, <1>5, <2>4, <2>5, <2>6
<1> QED BY <1>6, <1>7 DEF batches

\* The lengths of the batches, in terms of the first one's.
LEMMA BatchLengths ==
    ASSUME job.keys \in Seq(BulkKeys), job.keys # <<>>, NEW size \in Nat \ {0},
           job.batches = Chunk(job.keys, size)
    PROVE  /\ Len(job.batches) \in Nat \ {0} /\ Len(job.batches[1]) \in Nat \ {0}
           /\ Len(job.keys) \in Nat
           /\ \A b \in 1..Len(job.batches) :
                 Len(job.batches[b]) =
                    IF b = Len(job.batches)
                    THEN Len(job.keys) - Start(b, Len(job.batches[1]))
                    ELSE Len(job.batches[1])
<1> DEFINE batches == job.batches
           n == Len(batches)
           first == Len(batches[1])
           length == Len(job.keys)
<1>1. /\ n \in Nat \ {0}
      /\ \A b \in 1..n :
            /\ Len(batches[b]) = IF b = n THEN length - Start(b, size) ELSE size
            /\ Len(batches[b]) \in 1..size
  BY ChunkParts
<1>2. length \in Nat
  OBVIOUS
<1> HIDE DEF batches, n, length
<1>3. 1 \in 1..n /\ first \in Nat \ {0} /\ (n # 1 => first = size)
  BY <1>1
<1>4. Start(n, first) = Start(n, size)
  <2> HIDE DEF first
  <2>1. CASE n = 1
    BY <1>3, <2>1, StartFacts
  <2>2. CASE n # 1
    BY <1>3, <2>2
  <2> QED BY <2>1, <2>2
<1>5. ASSUME NEW b \in 1..n
      PROVE  Len(batches[b]) = IF b = n THEN length - Start(b, first) ELSE first
  <2>1. CASE b = n
    BY <1>1, <1>4, <2>1
  <2>2. CASE b # n
    BY <1>1, <1>3, <2>2
  <2> QED BY <2>1, <2>2
<1> QED BY <1>1, <1>2, <1>3, <1>5 DEF batches, n, first, length

\* A call of the bulk service begins.
LEMMA BeginSums ==
    ASSUME SumInv, BIInv', NEW op \in {"Get", "Delete", "Expire"},
           NEW keys \in KeyArguments, NEW size \in BatchSizes, BeginBulk(op, keys, size)
    PROVE  SumInv'
<1> DEFINE cut == IF size <= 0 THEN DefaultBatch ELSE size
<1>1. cut \in Nat \ {0} /\ keys \in Seq(BulkKeys) /\ keys # <<>>
  BY BulkAssumption DEF BeginBulk
<1>2. job' = [op |-> op, keys |-> keys, batches |-> Chunk(keys, cut), done |-> 0,
              told |-> "nothing", total |-> 0, got |-> {}]
  BY DEF BeginBulk, NoJob
<1> HIDE DEF cut
<1>3. /\ job'.op = op /\ job'.keys = keys /\ job'.batches = Chunk(keys, cut)
      /\ job'.done = 0 /\ job'.told = "nothing" /\ job'.total = 0 /\ job'.got = {}
  BY <1>2
<1>4. JobIsCut'
  BY <1>1, <1>3 DEF JobIsCut
<1>5. Len(job'.batches) \in Nat \ {0} /\ Len(job'.batches[1]) \in Nat
  <2>1. Len(Chunk(keys, cut)) \in Nat \ {0} /\ Len(Chunk(keys, cut)[1]) \in 1..cut
    BY <1>1, ChunkParts
  <2> QED BY <1>1, <1>3, <2>1
<1>6. {ToSet(job'.batches[b]) : b \in 1..0} = {}
  OBVIOUS
<1>7. 0 * Len(job'.batches[1]) = 0
  BY <1>5
<1>8. JobSoFar'
  BY <1>3, <1>5, <1>6, <1>7 DEF JobSoFar
<1> QED BY <1>4, <1>8 DEF SumInv

\* A batch succeeds.
LEMMA BatchSums == ASSUME SumInv, BIInv', BatchSucceeds PROVE SumInv'
<1> DEFINE n == Len(job.batches)
           first == Len(job.batches[1])
           d == job.done
<1>1. job.op # "none" /\ job.told = "nothing" /\ d < n
  BY DEF BatchSucceeds, Running
<1>2. PICK size \in Nat \ {0} :
          job.keys \in Seq(BulkKeys) /\ job.keys # <<>> /\ job.batches = Chunk(job.keys, size)
  BY <1>1 DEF SumInv, JobIsCut
<1>3. /\ n \in Nat \ {0} /\ first \in Nat \ {0} /\ Len(job.keys) \in Nat
      /\ \A b \in 1..n :
            Len(job.batches[b]) = IF b = n THEN Len(job.keys) - Start(b, first) ELSE first
  BY <1>2, BatchLengths
<1>4. d \in Nat /\ d + 1 \in 1..n
  BY <1>1, <1>3 DEF SumInv, JobSoFar
<1>5. job' = [op |-> job.op, keys |-> job.keys, batches |-> job.batches, done |-> d + 1,
              told |-> job.told, total |-> job.total + BatchTotal,
              got |-> IF job.op = "Get" THEN job.got \union Batch ELSE job.got]
  BY DEF BatchSucceeds, SumInv, BIInv, BulkTypes
<1>6. /\ job'.op = job.op /\ job'.keys = job.keys /\ job'.batches = job.batches
      /\ job'.done = d + 1 /\ job'.told = "nothing"
      /\ job'.total = job.total + BatchTotal
      /\ job'.got = IF job.op = "Get" THEN job.got \union Batch ELSE job.got
  BY <1>1, <1>5
<1>7. JobIsCut'
  BY <1>6 DEF SumInv, JobIsCut
<1>8. ASSUME job.op = "Get"
      PROVE  job'.got = UNION {ToSet(job.batches[b]) : b \in 1..(d + 1)}
  <2>1. job.got = UNION {ToSet(job.batches[b]) : b \in 1..d}
    BY <1>1, <1>8 DEF SumInv, JobSoFar
  <2>2. 1..(d + 1) = 1..d \union {d + 1}
    BY <1>4
  <2> HIDE DEF d
  <2>3. UNION {ToSet(job.batches[b]) : b \in 1..(d + 1)} =
            (UNION {ToSet(job.batches[b]) : b \in 1..d}) \union ToSet(job.batches[d + 1])
    BY <2>2
  <2>4. job'.got = job.got \union ToSet(job.batches[d + 1])
    BY <1>6, <1>8 DEF Batch, d
  <2> QED BY <2>1, <2>3, <2>4
<1>9. ASSUME job.op = "Expire"
      PROVE  job'.total = IF d + 1 = n THEN Len(job.keys) ELSE (d + 1) * first
  <2>1. job.total = d * first
    BY <1>1, <1>9 DEF SumInv, JobSoFar
  <2>2. d * first = Start(d + 1, first) /\ (d + 1) * first = Start(d + 1, first) + first
        /\ Start(d + 1, first) \in Nat
    <3>1. d \in Nat /\ first \in Nat \ {0}
      BY <1>3, <1>4
    <3> HIDE DEF d, first
    <3>2. (d + 1) * first = Start(d + 1, first) + first /\ Start(d + 1, first) \in Nat
      BY <3>1, StartFacts
    <3>3. (d + 1) - 1 = d
      BY <3>1
    <3> QED BY <3>2, <3>3 DEF Start
  <2>3. BatchTotal = Len(job.batches[d + 1])
    BY <1>9 DEF BatchTotal
  <2>4. BatchTotal = IF d + 1 = n THEN Len(job.keys) - Start(d + 1, first) ELSE first
    BY <1>3, <1>4, <2>3
  <2> HIDE DEF d, n, first
  <2>5. job'.total = Start(d + 1, first)
                       + (IF d + 1 = n THEN Len(job.keys) - Start(d + 1, first) ELSE first)
    BY <1>6, <2>1, <2>2, <2>4
  <2> QED BY <1>3, <2>2, <2>5
<1>10. JobSoFar'
  <2>1. d + 1 \in 0..n
    BY <1>3, <1>4
  <2> QED BY <1>1, <1>6, <1>8, <1>9, <2>1 DEF SumInv, JobSoFar
<1> QED BY <1>7, <1>10 DEF SumInv

\* Every step keeps the invariant.
LEMMA NextSumInv == SumInv /\ [BulkNext]_bulkVars => SumInv'
<1> SUFFICES ASSUME SumInv, [BulkNext]_bulkVars PROVE SumInv'
  OBVIOUS
<1>b. BIInv'
  BY NextBIInv DEF SumInv
<1>r. job = [op |-> job.op, keys |-> job.keys, batches |-> job.batches, done |-> job.done,
             told |-> job.told, total |-> job.total, got |-> job.got]
  BY DEF SumInv, BIInv, BulkTypes
<1>1. ASSUME NEW op \in {"Get", "Delete", "Expire"}, NEW keys \in KeyArguments,
             NEW size \in BatchSizes, BeginBulk(op, keys, size)
      PROVE  SumInv'
  BY <1>b, <1>1, BeginSums
<1>2. CASE BatchSucceeds
  BY <1>b, <1>2, BatchSums
<1>3. ASSUME job' = job PROVE SumInv'
  BY <1>b, <1>3 DEF SumInv, JobIsCut, JobSoFar
<1>4. ASSUME BatchFails PROVE SumInv'
  <2>1. /\ job'.op = job.op /\ job'.keys = job.keys /\ job'.batches = job.batches
        /\ job'.done = job.done /\ job'.told = "error" /\ job'.total = job.total
        /\ job.op # "none"
    BY <1>4, <1>r DEF BatchFails, Running
  <2> QED BY <1>b, <2>1 DEF SumInv, JobIsCut, JobSoFar
<1>5. ASSUME EndBulk PROVE SumInv'
  <2>1. /\ job'.op = job.op /\ job'.keys = job.keys /\ job'.batches = job.batches
        /\ job'.done = job.done /\ job'.told = "ok" /\ job'.total = job.total
        /\ job'.got = job.got
        /\ job.op # "none" /\ job.told = "nothing" /\ job.done = Len(job.batches)
    BY <1>5, <1>r DEF EndBulk
  <2> QED BY <1>b, <2>1 DEF SumInv, JobIsCut, JobSoFar
<1> QED
  BY <1>1, <1>2, <1>3, <1>4, <1>5
  DEF BulkNext, BatchLost, OtherChanges, bulkVars

\* The bulk service, for any list of keys and any batch size: the batches are the
\* list, and what Get, Delete and Expire return adds up over them, whatever fails
\* or is changed by others between two of them.
THEOREM BulkAlwaysAddsUp == BulkSpec => []BulkAddsUp
<1>1. BulkInit => SumInv
  <2> SUFFICES ASSUME BulkInit PROVE SumInv
    OBVIOUS
  <2>1. BIInv
    BY InitBIInv
  <2>2. job = NoJob /\ Len(NoJob.batches) = 0
    BY EmptySeq DEF BulkInit, NoJob
  <2> QED BY <2>1, <2>2 DEF SumInv, JobIsCut, JobSoFar, NoJob
<1>2. SumInv => BulkAddsUp
  <2> SUFFICES ASSUME SumInv PROVE BulkAddsUp
    OBVIOUS
  <2>1. DeleteCounts
    BY DEF SumInv, BIInv
  <2>2. CASE job.op = "none"
    <3>1. DOMAIN job.batches = {} /\ DOMAIN job.keys = {}
      BY <2>2, EmptySeq DEF SumInv, JobSoFar, NoJob
    <3> QED BY <2>1, <2>2, <3>1 DEF BulkAddsUp
  <2>3. CASE job.op # "none"
    <3>1. PICK size \in Nat \ {0} :
              job.keys \in Seq(BulkKeys) /\ job.keys # <<>>
              /\ job.batches = Chunk(job.keys, size)
      BY <2>3 DEF SumInv, JobIsCut
    <3>2. DOMAIN job.batches = 1..Len(job.batches)
      BY <3>1, ChunkParts
    <3>3. /\ \A b \in DOMAIN job.batches : \A i \in DOMAIN job.batches[b] :
                /\ i <= Len(job.batches[1])
                /\ Place(b, i) \in DOMAIN job.keys
                /\ job.batches[b][i] = job.keys[Place(b, i)]
          /\ \A p \in DOMAIN job.keys :
                \E b \in DOMAIN job.batches : \E i \in DOMAIN job.batches[b] : p = Place(b, i)
      BY <3>1, BatchesAreTheList
    <3>4. ASSUME job.op = "Get", job.told = "ok"
          PROVE  job.got = ToSet(job.keys)
      <4>1. job.got = UNION {ToSet(job.batches[b]) : b \in DOMAIN job.batches}
        BY <3>2, <3>4 DEF SumInv, JobSoFar
      <4>2. \A b \in DOMAIN job.batches : ToSet(job.batches[b]) \subseteq ToSet(job.keys)
        BY <3>3 DEF ToSet
      <4>3. ASSUME NEW p \in DOMAIN job.keys
            PROVE  \E b \in DOMAIN job.batches : job.keys[p] \in ToSet(job.batches[b])
        BY <3>3 DEF ToSet
      <4>4. job.got \subseteq ToSet(job.keys)
        BY <4>1, <4>2
      <4>5. ASSUME NEW k \in ToSet(job.keys) PROVE k \in job.got
        <5>1. PICK p \in DOMAIN job.keys : k = job.keys[p]
          BY DEF ToSet
        <5>2. PICK b \in DOMAIN job.batches : k \in ToSet(job.batches[b])
          BY <4>3, <5>1
        <5> QED BY <4>1, <5>2
      <4> QED BY <4>4, <4>5
    <3>5. job.op = "Expire" /\ job.told = "ok" => job.total = Len(job.keys)
      BY DEF SumInv, JobSoFar
    <3> QED BY <2>1, <3>3, <3>4, <3>5 DEF BulkAddsUp
  <2> QED BY <2>2, <2>3
<1> QED BY <1>1, <1>2, NextSumInv, PTL DEF BulkSpec

-----------------------------------------------------------------------------
(***************************************************************************)
(* Configuration: for any files, environments and overrides.               *)
(***************************************************************************)

\* What the file may be, also while it is written.
Contents == Files \union {Empty, HalfWritten}

LayerTypes == env \in Environments /\ overrides \in Overrides /\ content \in Contents

\* What DeliveredIsFinal says of the options that are delivered.
Final(options) ==
    /\ NormalizeAgain(options) = options
    /\ \A x \in {"name", "mode", "counted", "duration"} :
          options[x] \in {"default", "file", "env", "override"}
    /\ \A x \in Fields : overrides[x] = "override" => options[x] = "override"
    /\ \A x \in Fields : env[x] = "env" /\ overrides[x] = "unset" => options[x] = "env"

\* The inductive invariant.
ConfigIInv == LayerTypes /\ DeliveredIsFinal

-----------------------------------------------------------------------------

FileValues == {"zero", "negative", "bad", "file"}
EnvValues == FileValues \union {"env"}
AllValues == EnvValues \union {"override"}

\* Only a mode or a duration is bad once the layers are laid over one another,
\* and no text is negative.
Laid(f, values) ==
    /\ f \in [Fields -> values]
    /\ \A x \in Fields : (f[x] = "bad" => x \in {"mode", "duration"})
                         /\ (f[x] = "negative" => x \notin Texts)

\* What it means to be a layer.
LEMMA LayerMember ==
    ASSUME NEW values, NEW mayBeBad, NEW f \in Layer(values, mayBeBad)
    PROVE  /\ f \in [Fields -> values]
           /\ \A x \in Fields : f[x] = "bad" => x \in mayBeBad
           /\ \A x \in Fields : f[x] = "negative" => x \notin Texts
  BY DEF Layer

\* A file that is no configuration is never loaded; any other is a layer.
LEMMA ContentIsLaid ==
    ASSUME NEW c \in Contents, c # HalfWritten
    PROVE  Laid(c, FileValues)
<1>1. CASE c = Empty
  BY <1>1 DEF Empty, Laid, FileValues
<1>2. CASE c # Empty
  <2>1. c \in Layer({"zero", "negative", "bad", "file"}, {"mode", "duration"})
    BY <1>2, ConfigurationAssumption DEF Contents
  <2> QED BY <2>1, LayerMember DEF Laid, FileValues
<1> QED BY <1>1, <1>2

\* ApplyEnv lays the environment over the file.
LEMMA EnvIsLaid ==
    ASSUME NEW f, Laid(f, FileValues), NEW e \in Environments
    PROVE  /\ Laid(WithEnv(f, e), EnvValues)
           /\ \A x \in Fields : e[x] = "env" => WithEnv(f, e)[x] = "env"
<1>1. /\ e \in [Fields -> {"unset", "zero", "negative", "bad", "env"}]
      /\ \A x \in Fields : (e[x] = "bad" => x \in Fields \ {"name", "plain"})
                           /\ (e[x] = "negative" => x \notin Texts)
  <2>1. e \in Layer({"unset", "zero", "negative", "bad", "env"},
                     Fields \ {"name", "plain"})
    BY ConfigurationAssumption
  <2> QED BY <2>1, LayerMember
<1> QED BY <1>1 DEF WithEnv, Laid, FileValues, EnvValues, Texts, Fields

\* ApplyOverrides lays the overrides over both.
LEMMA OverridesAreLaid ==
    ASSUME NEW f, Laid(f, EnvValues), NEW o \in Overrides
    PROVE  /\ Laid(WithOverrides(f, o), AllValues)
           /\ \A x \in Fields : o[x] = "override" => WithOverrides(f, o)[x] = "override"
           /\ \A x \in Fields : o[x] = "unset" => WithOverrides(f, o)[x] = f[x]
<1>1. /\ o \in [Fields -> {"unset", "zero", "negative", "bad", "override"}]
      /\ \A x \in Fields : o[x] = "negative" => x \notin Texts
  BY ConfigurationAssumption DEF Layer
<1> QED BY <1>1 DEF WithOverrides, Laid, FileValues, EnvValues, AllValues, Texts, Fields

\* Normalizing twice is normalizing once.
LEMMA NormalizedTwice ==
    ASSUME NEW x \in Fields, NEW v
    PROVE  Normalized(x, Normalized(x, v)) = Normalized(x, v)
  BY DEF Normalized, Fields

\* A usable value is kept.
LEMMA UsableKept ==
    ASSUME NEW x \in Fields, NEW v \in {"file", "env", "override"}
    PROVE  Normalized(x, Assigned(x, v)) = v
  BY DEF Normalized, Assigned, Fields

\* The fields that must be set are set, whatever their value was.
LEMMA RequiredSet ==
    ASSUME NEW x \in {"name", "mode", "counted", "duration"}, NEW v \in AllValues,
           v = "bad" => x \in {"mode", "duration"}, v = "negative" => x \notin Texts
    PROVE  Normalized(x, Assigned(x, v)) \in {"default", "file", "env", "override", "bad"}
           /\ (Normalized(x, Assigned(x, v)) = "bad" => v = "bad")
  BY DEF Normalized, Assigned, Texts, AllValues, EnvValues, FileValues

\* Options that are loaded without an error are final.
LEMMA LoadedIsFinal ==
    ASSUME LayerTypes, LoadOptions(content) # Failed
    PROVE  Final(LoadOptions(content))
<1>1. content # HalfWritten
  BY DEF LoadOptions
<1> DEFINE base == WithEnv(content, env)
           f == WithOverrides(base, overrides)
           options == [x \in Fields |-> Normalized(x, Assigned(x, f[x]))]
<1>2. Laid(content, FileValues)
  BY <1>1, ContentIsLaid DEF LayerTypes
<1>3. /\ Laid(base, EnvValues)
      /\ \A x \in Fields : env[x] = "env" => base[x] = "env"
  BY <1>2, EnvIsLaid DEF LayerTypes
<1> HIDE DEF base
<1>4. /\ Laid(f, AllValues)
      /\ \A x \in Fields : overrides[x] = "override" => f[x] = "override"
      /\ \A x \in Fields : overrides[x] = "unset" => f[x] = base[x]
  BY <1>3, OverridesAreLaid DEF LayerTypes
<1>5. LoadOptions(content) = BuildOptions(f)
  BY <1>1 DEF LoadOptions, base
<1> HIDE DEF f
<1>6. BuildOptions(f) = options /\ f["duration"] # "bad" /\ options["mode"] # "bad"
  BY <1>5 DEF BuildOptions, Validates
<1>7. NormalizeAgain(options) = options
  BY NormalizedTwice DEF NormalizeAgain
<1>8. ASSUME NEW x \in {"name", "mode", "counted", "duration"}
      PROVE  options[x] \in {"default", "file", "env", "override"}
  <2>1. /\ x \in Fields /\ f[x] \in AllValues
        /\ f[x] = "bad" => x \in {"mode", "duration"}
        /\ f[x] = "negative" => x \notin Texts
    BY <1>4 DEF Laid, Fields
  <2>2. options[x] = Normalized(x, Assigned(x, f[x]))
    BY <2>1
  <2> HIDE DEF options
  <2>3. /\ options[x] \in {"default", "file", "env", "override", "bad"}
        /\ options[x] = "bad" => f[x] = "bad"
    BY <2>1, <2>2, RequiredSet
  <2> QED BY <1>6, <2>1, <2>3
<1>9. ASSUME NEW x \in Fields, f[x] \in {"env", "override"} PROVE options[x] = f[x]
  BY <1>9, UsableKept
<1> HIDE DEF options
<1> QED BY <1>3, <1>4, <1>5, <1>6, <1>7, <1>8, <1>9 DEF Final

-----------------------------------------------------------------------------

\* The invariant holds before the first load.
LEMMA InitConfigIInv == ConfigInit => ConfigIInv
  BY DEF ConfigInit, ConfigIInv, LayerTypes, Contents, DeliveredIsFinal

\* Every step keeps the invariant.
LEMMA NextConfigIInv == ConfigIInv /\ [ConfigNext]_configVars => ConfigIInv'
<1> SUFFICES ASSUME ConfigIInv, [ConfigNext]_configVars PROVE ConfigIInv'
  OBVIOUS
<1> USE DEF ConfigIInv
<1>1. ASSUME HandleEvent PROVE ConfigIInv'
  <2>1. /\ delivered' = IF LoadOptions(content) = Failed THEN delivered
                        ELSE LoadOptions(content)
        /\ UNCHANGED <<env, overrides, content>>
    BY <1>1 DEF HandleEvent
  <2>2. LayerTypes'
    BY <2>1 DEF LayerTypes
  <2>3. CASE LoadOptions(content) = Failed
    BY <2>1, <2>2, <2>3 DEF DeliveredIsFinal, NormalizeAgain
  <2>4. CASE LoadOptions(content) # Failed
    <3>1. Final(delivered') /\ delivered' = LoadOptions(content)
      BY <2>1, <2>4, LoadedIsFinal
    <3> QED BY <2>1, <2>2, <3>1 DEF Final, DeliveredIsFinal, NormalizeAgain
  <2> QED BY <2>3, <2>4
<1>2. ASSUME \/ StartWatch \/ Truncate \/ StopWatch \/ UNCHANGED configVars
             \/ \E c \in Files : Fill(c) \/ Replace(c)
      PROVE  ConfigIInv'
  <2>1. UNCHANGED <<env, overrides, delivered>> /\ content' \in Contents
    BY <1>2 DEF StartWatch, Truncate, StopWatch, configVars, Fill, Replace, Contents,
                LayerTypes
  <2> QED BY <2>1 DEF LayerTypes, DeliveredIsFinal, NormalizeAgain
<1> QED
  BY <1>1, <1>2 DEF ConfigNext

\* Whatever the file, the environment and the overrides are, and whenever the file
\* is read while it is written: the options that the watcher delivers are complete,
\* normalized and in the order of the layers.
THEOREM DeliveredIsFinalAlways == ConfigSpec => []DeliveredIsFinal
<1>1. ConfigIInv => DeliveredIsFinal
  BY DEF ConfigIInv
<1> QED BY <1>1, InitConfigIInv, NextConfigIInv, PTL DEF ConfigSpec

-----------------------------------------------------------------------------
(***************************************************************************)
(* Backoff: for any settings, any outcomes of the random source and any    *)
(* number of attempts.                                                     *)
(***************************************************************************)

\* The inductive invariant.
BackoffIInv ==
    /\ strategy \in {NewStrategy(s) : s \in Settings}
    /\ attempts \in 0..MaxAttempt
    /\ DelaysBounded

\* New lets no argument through that makes no sense.
LEMMA StrategyMakesSense ==
    ASSUME strategy \in {NewStrategy(s) : s \in Settings}
    PROVE  /\ strategy.base \in Nat /\ strategy.max \in Nat /\ strategy.jitter \in Nat
           /\ \A n \in 0..MaxAttempt : strategy.multiplier ^ n \in Nat
<1>1. PICK s \in Settings : strategy = NewStrategy(s)
  OBVIOUS
<1>2. s.base \in Int /\ s.max \in Int /\ s.jitter \in Int
  BY BackoffAssumption
<1>3. strategy.base \in Nat /\ strategy.max \in Nat /\ strategy.jitter \in Nat
  BY <1>1, <1>2 DEF NewStrategy
<1> QED BY <1>1, <1>3, PowersAssumption

\* A delay with all of the jitter on top of it.
Raised(most) == (most * (100 + strategy.jitter)) \div 100

\* A delay of at least zero is still one with the jitter on top of it.
LEMMA RaisedIsNat ==
    ASSUME strategy.jitter \in Nat, NEW most \in Nat
    PROVE  Raised(most) \in Nat
<1>1. most * (100 + strategy.jitter) \in Nat
  OBVIOUS
<1> QED BY <1>1 DEF Raised

\* The jitter moves a delay of at most `most` up by its percentage at most, and
\* not below zero.
LEMMA JitterBounded ==
    ASSUME strategy.jitter \in Nat, NEW planned \in Nat, NEW most \in Nat,
           planned <= most, NEW spread \in -100..100
    PROVE  Jittered(planned, spread) \in Nat /\ Jittered(planned, spread) <= Raised(most)
<1> DEFINE jitter == strategy.jitter
           adjusted == planned * (10000 + spread * jitter)
           longest == most * (100 + jitter)
<1>1. adjusted \in Int /\ longest \in Nat
  OBVIOUS
<1>2. adjusted <= 100 * longest
  <2>1. spread * jitter <= 100 * jitter
    OBVIOUS
  <2>2. 10000 + spread * jitter <= 100 * (100 + jitter)
    BY <2>1
  <2>3. adjusted <= planned * (100 * (100 + jitter))
    BY <2>2
  <2>4. planned * (100 * (100 + jitter)) <= most * (100 * (100 + jitter))
    OBVIOUS
  <2> QED BY <2>3, <2>4
<1>3. /\ Jittered(planned, spread) = IF adjusted < 0 THEN 0 ELSE adjusted \div 10000
      /\ Raised(most) = longest \div 100
  BY DEF Jittered, Raised
<1> HIDE DEF adjusted, longest
<1>4. longest \div 100 \in Nat
  BY <1>1
<1>5. adjusted >= 0 => adjusted \div 10000 \in Nat /\ adjusted \div 10000 <= longest \div 100
  BY <1>1, <1>2
<1> QED BY <1>1, <1>3, <1>4, <1>5

\* One call of Duration.
LEMMA DurationBounded == ASSUME BackoffIInv, Duration PROVE BackoffIInv'
<1> DEFINE n == attempts + 1
           planned == Planned(n)
           top == IF strategy.base > strategy.max THEN strategy.base ELSE strategy.max
<1>1. /\ strategy.base \in Nat /\ strategy.max \in Nat /\ strategy.jitter \in Nat
      /\ \A i \in 0..MaxAttempt : strategy.multiplier ^ i \in Nat
  BY StrategyMakesSense DEF BackoffIInv
<1>2. attempts' = n /\ n \in 1..MaxAttempt /\ n - 1 \in 0..MaxAttempt /\ UNCHANGED strategy
  BY BackoffAssumption DEF BackoffIInv, Duration
<1>3. PICK spread \in Spreads : delay' = Jittered(planned, spread)
  BY <1>2 DEF Duration
<1>4. spread \in -100..100
  BY BackoffAssumption
<1>5. strategy.base * strategy.multiplier ^ (n - 1) \in Nat
  BY <1>1, <1>2
<1>6. planned \in Nat /\ planned <= top /\ (n > 1 => planned <= strategy.max)
  BY <1>1, <1>2, <1>5 DEF Planned
<1>7. top \in Nat
  BY <1>1
<1> HIDE DEF planned, top, n
<1>8. delay' \in Nat /\ delay' <= Raised(top)
  BY <1>1, <1>3, <1>4, <1>6, <1>7, JitterBounded
<1>9. n > 1 => delay' <= Raised(strategy.max)
  BY <1>1, <1>3, <1>4, <1>6, JitterBounded
<1>10. Longest = Raised(top) /\ Raised(top) \in Nat
  BY <1>1, <1>7, RaisedIsNat DEF Longest, Raised, top
<1>11. DelaysBounded'
  <2>1. Longest' = Longest /\ strategy' = strategy /\ attempts' = n
    BY <1>2 DEF Longest
  <2>2. delay' \in 0..Longest
    BY <1>8, <1>10
  <2> QED BY <1>9, <2>1, <2>2 DEF DelaysBounded, Raised
<1> QED BY <1>2, <1>11 DEF BackoffIInv

\* The delay that Duration returns is never negative, never longer than the base
\* or the maximum and the jitter on top of it, and from the second attempt on the
\* maximum bounds it, whatever the arguments of New are.
THEOREM DelaysAlwaysBounded == BackoffSpec => []DelaysBounded
<1>1. BackoffInit => BackoffIInv
  <2> SUFFICES ASSUME BackoffInit PROVE BackoffIInv
    OBVIOUS
  <2>1. strategy.base \in Nat /\ strategy.max \in Nat /\ strategy.jitter \in Nat
    BY StrategyMakesSense DEF BackoffInit
  <2>2. Longest \in Nat
    <3> DEFINE top == IF strategy.base > strategy.max THEN strategy.base ELSE strategy.max
    <3>1. top \in Nat
      BY <2>1
    <3> HIDE DEF top
    <3>2. Raised(top) \in Nat
      BY <2>1, <3>1, RaisedIsNat
    <3> QED BY <3>2 DEF Longest, Raised, top
  <2> QED BY <2>2, BackoffAssumption DEF BackoffInit, BackoffIInv, DelaysBounded
<1>2. BackoffIInv /\ [BackoffNext]_backoffVars => BackoffIInv'
  <2>1. ASSUME BackoffIInv, UNCHANGED backoffVars PROVE BackoffIInv'
    BY <2>1 DEF backoffVars, BackoffIInv, DelaysBounded, Longest
  <2> QED BY <2>1, DurationBounded DEF BackoffNext
<1>3. BackoffIInv => DelaysBounded
  BY DEF BackoffIInv
<1> QED BY <1>1, <1>2, <1>3, PTL DEF BackoffSpec

=============================================================================
