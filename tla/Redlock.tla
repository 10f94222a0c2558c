------------------------------- MODULE Redlock -------------------------------
(***************************************************************************)
(* The distributed lock of sdk/go/lock/redlock.go: concurrent Acquire,     *)
(* Extend and Release of one key over NumNodes independent Redis nodes.    *)
(*                                                                         *)
(* Every member of Lockers makes one Acquire call, with a random token of  *)
(* its own, and uses the lock it may get; a token is its locker.  The loops*)
(* over the nodes visit one node per step; between any two steps time may  *)
(* pass.  `now` is real time in microseconds, and a node's clock may run   *)
(* fast: it may expire a key early, by the NodeDrift of the call's ttl.  It*)
(* may also be slow, so nothing forces it to expire a key.                 *)
(*                                                                         *)
(* Acquire computes how long the lock is valid and throws the value away;  *)
(* validUntil keeps it, as what a caller may rely on.  The nodes, their    *)
(* scripts and the network are external; nodes do not lose data.           *)
(***************************************************************************)
EXTENDS Integers, FiniteSets

CONSTANTS
    Lockers,    \* Acquire calls, each with its token
    NumNodes,   \* len(Locker.nodes)
    Retries,    \* Locker.retries
    TTL,        \* ttl of Acquire, in microseconds
    SetMS,      \* ttlMS of setNX: int64(ttlSeconds*1000), a product of floats,
                \* which takes 1001 ms for 1000
    ExtendTTLs, \* the ttls of Extend
    NodeDrift,  \* for each ttl, how early a node may expire a key
    Ticks,      \* the amounts by which time advances
    MaxTime,    \* bound on the clock
    NoOne       \* no token

ASSUME RedlockAssumption ==
    /\ NumNodes \in Nat \ {0}
    /\ Retries \in Nat \ {0}
    /\ TTL \in Nat \ {0}
    /\ SetMS \in Nat \ {0} /\ SetMS * 1000 \in TTL - 1000..TTL
    /\ ExtendTTLs \subseteq Nat \ {0}
    /\ NodeDrift \in [ExtendTTLs \union {TTL} -> Nat]
    /\ Ticks \subseteq Nat \ {0}
    /\ MaxTime \in Nat
    /\ NoOne \notin Lockers

Nodes == 1..NumNodes

\* Mutant of Quorum: half of the nodes, rounded down.
QuorumHalf == NumNodes \div 2

\* quorum of New.
Quorum == NumNodes \div 2 + 1

\* driftFor: one per cent and two milliseconds.
DriftFor(t) == t \div 100 + 2000

VARIABLES
    now,        \* real time
    owner,      \* per node, the token stored under the key, or NoOne
    keptUntil,  \* per node, when that key may expire at the earliest; 0 without
    pc,         \* where each locker is
    visit,      \* the next node of its loop
    counted,    \* the nodes that answered 1 in its loop
    start,      \* time.Now() at the start of the attempt, or of Extend
    ttl,        \* the ttl of its loop
    attempt,    \* Acquire's loop variable, from 1
    validUntil, \* the end of the validity computed at the last success
    outcome     \* what the last finished call returned

vars == <<now, owner, keptUntil, pc, visit, counted, start, ttl, attempt, validUntil,
          outcome>>

\* History: whether an Eval of an Acquire that has not succeeded has failed.
VARIABLE faulty

allVars == <<vars, faulty>>

\* "acquire", "rollback", "extend", "release": in a loop over the nodes;
\* "gap": in the select between two attempts; "held": Acquire or Extend has
\* returned nil and Release has not been called.
Loops == {"acquire", "rollback", "extend", "release"}
Locations == Loops \union {"idle", "gap", "held", "done"}
Outcomes == {"none", "ok", "not_acquired", "cancelled", "not_owner"}

TypeOK ==
    /\ now \in Nat
    /\ owner \in [Nodes -> Lockers \union {NoOne}]
    /\ keptUntil \in [Nodes -> Int]
    /\ pc \in [Lockers -> Locations]
    /\ visit \in [Lockers -> 1..NumNodes + 1]
    /\ counted \in [Lockers -> SUBSET Nodes]
    /\ start \in [Lockers -> Nat]
    /\ ttl \in [Lockers -> ExtendTTLs \union {TTL}]
    /\ attempt \in [Lockers -> 1..Retries]
    /\ validUntil \in [Lockers -> Int]
    /\ outcome \in [Lockers -> Outcomes]
    /\ faulty \in [Lockers -> BOOLEAN]

Init ==
    /\ now = 0
    /\ owner = [n \in Nodes |-> NoOne]
    /\ keptUntil = [n \in Nodes |-> 0]
    /\ pc = [p \in Lockers |-> "idle"]
    /\ visit = [p \in Lockers |-> 1]
    /\ counted = [p \in Lockers |-> {}]
    /\ start = [p \in Lockers |-> 0]
    /\ ttl = [p \in Lockers |-> TTL]
    /\ attempt = [p \in Lockers |-> 1]
    /\ validUntil = [p \in Lockers |-> 0]
    /\ outcome = [p \in Lockers |-> "none"]
    /\ faulty = [p \in Lockers |-> FALSE]

Holding(p) == {n \in Nodes : owner[n] = p}

-----------------------------------------------------------------------------
(***************************************************************************)
(* The scripts, as what they do to the node.                               *)
(***************************************************************************)

\* What the commands do: p's token is kept for so many milliseconds; the key goes.
Store(p, n, ms) ==
    /\ owner' = [owner EXCEPT ![n] = p]
    /\ keptUntil' = [keptUntil EXCEPT ![n] = now + ms * 1000 - NodeDrift[ttl[p]]]

Delete(n) ==
    /\ owner' = [owner EXCEPT ![n] = NoOne]
    /\ keptUntil' = [keptUntil EXCEPT ![n] = 0]

\* setNXScript.
SetNX(p, n) ==
    IF owner[n] = NoOne THEN Store(p, n, SetMS) ELSE UNCHANGED <<owner, keptUntil>>
SetNXAnswers(p, n) == owner[n] = NoOne

\* Mutant of CompareAndDelete: the token is not compared.
DeleteAnyway(p, n) == Delete(n)

\* releaseScript.
CompareAndDelete(p, n) ==
    IF owner[n] = p THEN Delete(n) ELSE UNCHANGED <<owner, keptUntil>>

\* ttlMS of extendOnNode, ttl.Milliseconds().
ExtendMS(t) == t \div 1000

\* Mutant of CompareAndExpire: PEXPIRE with NX, which leaves a ttl as it is.
CompareAndExpireNX(p, n) == UNCHANGED <<owner, keptUntil>>

\* extendScript.  PEXPIRE with no milliseconds deletes the key, and answers 1.
CompareAndExpire(p, n) ==
    IF owner[n] # p THEN UNCHANGED <<owner, keptUntil>>
    ELSE IF ExtendMS(ttl[p]) > 0 THEN Store(p, n, ExtendMS(ttl[p])) ELSE Delete(n)
OwnerAnswers(p, n) == owner[n] = p

\* A script call succeeds, runs on the node and loses its answer, or does not
\* reach the node.  The last two are errors, which the loops count as a 0.
Outgoing == {"answered", "answer_lost", "not_run"}

\* A locker's loop visits its next node with a script and its answer.
Visit(p, loop, Script(_, _), Answers(_, _)) ==
    /\ pc[p] = loop
    /\ visit[p] <= NumNodes
    /\ \E call \in Outgoing :
        /\ IF call = "not_run" THEN UNCHANGED <<owner, keptUntil>> ELSE Script(p, visit[p])
        /\ counted' = IF call = "answered" /\ Answers(p, visit[p])
                      THEN [counted EXCEPT ![p] = @ \union {visit[p]}]
                      ELSE counted
        /\ faulty' = [faulty EXCEPT ![p] = @ \/ (call # "answered"
                                               /\ loop \in {"acquire", "rollback"})]
    /\ visit' = [visit EXCEPT ![p] = @ + 1]
    /\ UNCHANGED <<now, pc, start, ttl, attempt, validUntil, outcome>>

\* A locker begins a loop over the nodes, having noted the time or not, with a
\* ttl.
BeginLoop(p, loop, time, t) ==
    /\ pc' = [pc EXCEPT ![p] = loop]
    /\ visit' = [visit EXCEPT ![p] = 1]
    /\ counted' = [counted EXCEPT ![p] = {}]
    /\ start' = [start EXCEPT ![p] = time]
    /\ ttl' = [ttl EXCEPT ![p] = t]

\* The loop's variables go out of scope.
EndLoop(p, place) ==
    /\ pc' = [pc EXCEPT ![p] = place]
    /\ visit' = [visit EXCEPT ![p] = 1]
    /\ counted' = [counted EXCEPT ![p] = {}]
    /\ start' = [start EXCEPT ![p] = 0]
    /\ ttl' = [ttl EXCEPT ![p] = TTL]

LoopDone(p, loop) == pc[p] = loop /\ visit[p] > NumNodes

HasQuorum(p) == Cardinality(counted[p]) >= Quorum

-----------------------------------------------------------------------------
(***************************************************************************)
(* Acquire.                                                                *)
(***************************************************************************)

BeginAcquire(p) ==
    /\ pc[p] = "idle"
    /\ BeginLoop(p, "acquire", now, TTL)
    /\ UNCHANGED <<now, owner, keptUntil, attempt, validUntil, outcome, faulty>>

AcquireOnNode(p) == Visit(p, "acquire", SetNX, SetNXAnswers)

\* validity of Acquire, when the attempt ends now.
Validity(p) == TTL - (now - start[p]) - DriftFor(TTL)

\* The end of the validity of a call with ttl t, started at `from`.
ValidityEnd(from, t) == from + t - DriftFor(t)

\* The lock is held: the voters' keys outlive the validity.
Become(p) ==
    /\ EndLoop(p, "held")
    /\ validUntil' = [validUntil EXCEPT ![p] = ValidityEnd(start[p], ttl[p])]
    /\ outcome' = [outcome EXCEPT ![p] = "ok"]

Acquired(p) ==
    /\ LoopDone(p, "acquire")
    /\ HasQuorum(p)
    /\ Validity(p) > 0
    /\ Become(p)
    /\ attempt' = [attempt EXCEPT ![p] = 1]
    /\ faulty' = [faulty EXCEPT ![p] = FALSE]
    /\ UNCHANGED <<now, owner, keptUntil>>

\* Mutant of BeginRollback: short of a quorum there is nothing to roll back.
BeginRollbackNever(p) ==
    /\ LoopDone(p, "acquire")
    /\ ~(HasQuorum(p) /\ Validity(p) > 0)
    /\ EndLoop(p, "done")
    /\ outcome' = [outcome EXCEPT ![p] = "not_acquired"]
    /\ UNCHANGED <<now, owner, keptUntil, attempt, validUntil, faulty>>

BeginRollback(p) ==
    /\ LoopDone(p, "acquire")
    /\ ~(HasQuorum(p) /\ Validity(p) > 0)
    /\ BeginLoop(p, "rollback", 0, TTL)
    /\ UNCHANGED <<now, owner, keptUntil, attempt, validUntil, outcome, faulty>>

\* With the context of Acquire: once that is done, every visit fails.  Acquire
\* ignores what release counts.
Ignored(p, n) == FALSE
RollbackOnNode(p) == Visit(p, "rollback", CompareAndDelete, Ignored)

\* Mutant of EndRollback: one attempt too many.
EndRollbackOneMore(p) ==
    /\ LoopDone(p, "rollback")
    /\ IF attempt[p] <= Retries
       THEN EndLoop(p, "gap") /\ UNCHANGED outcome
       ELSE EndLoop(p, "done") /\ outcome' = [outcome EXCEPT ![p] = "not_acquired"]
    /\ UNCHANGED <<now, owner, keptUntil, attempt, validUntil, faulty>>

EndRollback(p) ==
    /\ LoopDone(p, "rollback")
    /\ IF attempt[p] < Retries
       THEN EndLoop(p, "gap") /\ UNCHANGED outcome
       ELSE EndLoop(p, "done") /\ outcome' = [outcome EXCEPT ![p] = "not_acquired"]
    /\ UNCHANGED <<now, owner, keptUntil, attempt, validUntil, faulty>>

\* Mutant of NextAttempt: the attempt is not counted.
NextAttemptUncounted(p) ==
    /\ pc[p] = "gap"
    /\ BeginLoop(p, "acquire", now, TTL)
    /\ UNCHANGED <<now, owner, keptUntil, attempt, validUntil, outcome, faulty>>

\* retryGap has passed: the next attempt, with the same token.
NextAttempt(p) ==
    /\ pc[p] = "gap"
    /\ BeginLoop(p, "acquire", now, TTL)
    /\ attempt' = [attempt EXCEPT ![p] = @ + 1]
    /\ UNCHANGED <<now, owner, keptUntil, validUntil, outcome, faulty>>

\* ctx is done during the gap.
Cancelled(p) ==
    /\ pc[p] = "gap"
    /\ pc' = [pc EXCEPT ![p] = "done"]
    /\ outcome' = [outcome EXCEPT ![p] = "cancelled"]
    /\ UNCHANGED <<now, owner, keptUntil, visit, counted, start, ttl, attempt, validUntil,
                   faulty>>

-----------------------------------------------------------------------------
(***************************************************************************)
(* Extend and Release.                                                     *)
(***************************************************************************)

\* Extend, with any ttl.  The caller notes the time: Extend itself does not.
\* Once the first node may have a shorter ttl, the lock is valid no longer.
BeginExtend(p) ==
    /\ pc[p] = "held"
    /\ \E t \in ExtendTTLs :
        /\ BeginLoop(p, "extend", now, t)
        /\ validUntil' = [validUntil EXCEPT ![p] = IF ValidityEnd(now, t) < @
                                                   THEN ValidityEnd(now, t) ELSE @]
    /\ UNCHANGED <<now, owner, keptUntil, attempt, outcome, faulty>>

ExtendOnNode(p) == Visit(p, "extend", CompareAndExpire, OwnerAnswers)

Extended(p) ==
    /\ LoopDone(p, "extend")
    /\ HasQuorum(p)
    /\ Become(p)
    /\ UNCHANGED <<now, owner, keptUntil, attempt, faulty>>

\* The caller no longer relies on the lock.
Forget(p) == validUntil' = [validUntil EXCEPT ![p] = 0]

\* ErrNotOwner.
ExtendFailed(p) ==
    /\ LoopDone(p, "extend")
    /\ ~HasQuorum(p)
    /\ EndLoop(p, "done")
    /\ outcome' = [outcome EXCEPT ![p] = "not_owner"]
    /\ Forget(p)
    /\ UNCHANGED <<now, owner, keptUntil, attempt, faulty>>

BeginRelease(p) ==
    /\ pc[p] = "held"
    /\ BeginLoop(p, "release", 0, TTL)
    /\ Forget(p)
    /\ UNCHANGED <<now, owner, keptUntil, attempt, outcome, faulty>>

ReleaseOnNode(p) == Visit(p, "release", CompareAndDelete, OwnerAnswers)

Released(p) ==
    /\ LoopDone(p, "release")
    /\ EndLoop(p, "done")
    /\ outcome' = [outcome EXCEPT ![p] = IF HasQuorum(p) THEN "ok" ELSE "not_owner"]
    /\ UNCHANGED <<now, owner, keptUntil, attempt, validUntil, faulty>>

-----------------------------------------------------------------------------
(***************************************************************************)
(* The environment.                                                        *)
(***************************************************************************)

Expire(n) ==
    /\ owner[n] # NoOne
    /\ now >= keptUntil[n]
    /\ owner' = [owner EXCEPT ![n] = NoOne]
    /\ keptUntil' = [keptUntil EXCEPT ![n] = 0]
    /\ UNCHANGED <<now, pc, visit, counted, start, ttl, attempt, validUntil, outcome,
                   faulty>>

Tick ==
    /\ \E d \in Ticks : now + d <= MaxTime /\ now' = now + d
    /\ UNCHANGED <<owner, keptUntil, pc, visit, counted, start, ttl, attempt, validUntil,
                   outcome, faulty>>

\* What a call in progress does of its own accord.
Proceed(p) ==
    \/ AcquireOnNode(p) \/ Acquired(p)
    \/ BeginRollback(p) \/ RollbackOnNode(p) \/ EndRollback(p)
    \/ NextAttempt(p)
    \/ ExtendOnNode(p) \/ Extended(p) \/ ExtendFailed(p)
    \/ ReleaseOnNode(p) \/ Released(p)

Next ==
    \/ \E p \in Lockers :
        BeginAcquire(p) \/ Cancelled(p) \/ BeginExtend(p) \/ BeginRelease(p) \/ Proceed(p)
    \/ \E n \in Nodes : Expire(n)
    \/ Tick

Spec == Init /\ [][Next]_allVars

\* A goroutine in a call keeps running, an Eval returns, the gap ends.
FairSpec == Spec /\ \A p \in Lockers : WF_allVars(Proceed(p))

-----------------------------------------------------------------------------
(***************************************************************************)
(* Properties.                                                             *)
(***************************************************************************)

\* A locker relies on the lock from the return of Acquire until the validity
\* ends, or until it calls Release or is told that it is not the owner.
Relies(p) == pc[p] \in {"held", "extend"} /\ now < validUntil[p]

\* At most one locker relies on the lock, in spite of lost answers, failed
\* rollbacks, slow loops, extensions and nodes that expire a key too early.
MutualExclusion == \A p, q \in Lockers : Relies(p) /\ Relies(q) => p = q

\* An Acquire that gives up leaves none of its keys behind, on any node, if all
\* its script calls succeeded: its rollbacks undo each of its attempts.
RollbackLeavesNothing ==
    \A p \in Lockers :
        outcome[p] \in {"not_acquired", "cancelled"} /\ ~faulty[p] => Holding(p) = {}

\* Before it may have expired, a key is removed only by its own locker, which is
\* rolling back or releasing, or extends by less than a millisecond; late rollbacks
\* and releases of others do not touch it.
OnlyOwnerFrees ==
    [][\A p \in Lockers, n \in Nodes :
        (/\ owner[n] = p
         /\ owner'[n] # p
         /\ now < keptUntil[n])
            => /\ visit[p] = n
               /\ \/ pc[p] \in {"rollback", "release"}
                  \/ pc[p] = "extend" /\ ExtendMS(ttl[p]) = 0]_allVars

\* The comment on Extend, "renews the lock TTL if the caller still owns it": an
\* Extend that returns nil within its ttl, by the fastest node's clock, returns
\* with the key on a quorum.
ExtendRenews ==
    [][\A p \in Lockers :
        (/\ pc[p] = "extend"
         /\ pc'[p] = "held"
         /\ now < start[p] + ttl[p] - NodeDrift[ttl[p]])
            => Cardinality(Holding(p)) >= Quorum]_allVars

\* The comments on Release, "Returns ErrNotOwner if the token does not match
\* (lock expired and was reacquired by another caller)", and on Extend: a
\* locker that is told it is not the owner does not own the key on a quorum.
NotOwnerIsTrue ==
    \A p \in Lockers : outcome[p] = "not_owner" => Cardinality(Holding(p)) < Quorum

\* Every call returns: the attempts are bounded, and no loop waits for another
\* locker.
CallsReturn ==
    \A p \in Lockers : pc[p] \in Loops \union {"gap"} ~> pc[p] \in {"held", "done"}

=============================================================================
