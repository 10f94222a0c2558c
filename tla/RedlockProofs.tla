---------------------------- MODULE RedlockProofs ----------------------------
(***************************************************************************)
(* Proofs about Redlock, for any number of nodes, lockers and attempts and *)
(* any ttl, provided no node's clock is faster than the allowance.         *)
(***************************************************************************)
EXTENDS Redlock, FiniteSetTheorems, TLAPS

\* Node n keeps p's key up to time t, which may have come.
Secured(p, n, t) ==
    \/ owner[n] = p /\ keptUntil[n] >= t
    \/ now >= t

\* The time up to which a loop of Acquire or Extend secures the nodes it counts.
LoopEnd(p) ==
    start[p] + (IF pc[p] = "extend" THEN ExtendMS(ttl[p]) ELSE SetMS) * 1000
        - NodeDrift[ttl[p]]

\* The time at which an attempt or an Extend began lies in the past.
PastTimes == \A p \in Lockers : start[p] <= now

\* Only Extend has a ttl of its own.
CallTTL ==
    \A p \in Lockers : IF pc[p] = "extend" THEN ttl[p] \in ExtendTTLs ELSE ttl[p] = TTL

\* Between two attempts, there is an attempt left.
GapBudget == \A p \in Lockers : pc[p] = "gap" => attempt[p] < Retries

\* Every node counted in a loop that acquires or extends is secured up to the
\* loop's end.
CountedSecured ==
    \A p \in Lockers : pc[p] \in {"acquire", "extend"} =>
        \A n \in counted[p] : Secured(p, n, LoopEnd(p))

\* The inductive invariant, whatever the clocks of the nodes do.
RInv == TypeOK /\ PastTimes /\ CallTTL /\ GapBudget /\ CountedSecured

\* driftFor covers what the nodes take off a ttl: the drift of their clocks and
\* what is lost where the ttl becomes a number of milliseconds.
DriftCovered ==
    /\ SetMS * 1000 - NodeDrift[TTL] >= TTL - DriftFor(TTL)
    /\ \A t \in ExtendTTLs : ExtendMS(t) * 1000 - NodeDrift[t] >= t - DriftFor(t)

\* While it is being extended, a lock is not valid for longer than the new ttl.
ExtendShortens ==
    \A p \in Lockers : pc[p] = "extend" => validUntil[p] <= ValidityEnd(start[p], ttl[p])

\* A held lock has a quorum of nodes, secured up to the end of its validity.
VotersSecured ==
    \A p \in Lockers : pc[p] \in {"held", "extend"} =>
        \E voters \in SUBSET Nodes :
            /\ Cardinality(voters) >= Quorum
            /\ \A n \in voters : Secured(p, n, validUntil[p])

-----------------------------------------------------------------------------

\* Any two quorums of nodes have a node in common.
LEMMA QuorumsMeet ==
    ASSUME NEW A \in SUBSET Nodes, NEW B \in SUBSET Nodes,
           Cardinality(A) >= Quorum, Cardinality(B) >= Quorum
    PROVE  A \intersect B # {}
<1>1. IsFiniteSet(Nodes) /\ Cardinality(Nodes) = NumNodes
  BY FS_Interval, RedlockAssumption DEF Nodes
<1>2. /\ IsFiniteSet(A) /\ IsFiniteSet(B)
      /\ Cardinality(A) \in Nat /\ Cardinality(B) \in Nat
      /\ Cardinality(A \union B) <= NumNodes
  BY <1>1, FS_Subset, FS_CardinalityType, A \union B \in SUBSET Nodes
<1>3. Cardinality(A \union B) = Cardinality(A) + Cardinality(B) - Cardinality(A \intersect B)
  BY <1>2, FS_Union
<1>4. NumNodes < Quorum + Quorum /\ Quorum \in Nat /\ NumNodes \in Nat
  BY RedlockAssumption DEF Quorum
<1>5. Cardinality(A \intersect B) # 0
  <2>1. IsFiniteSet(A \intersect B)
    BY <1>2, FS_Subset, A \intersect B \in SUBSET A
  <2>2. Cardinality(A \intersect B) \in Nat
    BY <2>1, FS_CardinalityType
  <2> QED BY <1>2, <1>3, <1>4, <2>2
<1> QED BY <1>5, FS_EmptySet

\* The times a call computes with are times.
LEMMA CallTimes ==
    ASSUME TypeOK, NEW p \in Lockers
    PROVE  /\ ttl[p] \in Nat /\ ttl[p] \in ExtendTTLs \union {TTL}
           /\ NodeDrift[ttl[p]] \in Nat /\ DriftFor(ttl[p]) \in Nat
           /\ ExtendMS(ttl[p]) \in Nat /\ SetMS \in Nat
           /\ LoopEnd(p) \in Int /\ ValidityEnd(start[p], ttl[p]) \in Int
           /\ now \in Nat /\ start[p] \in Nat
<1>1. ttl[p] \in ExtendTTLs \union {TTL} /\ now \in Nat /\ start[p] \in Nat
  BY DEF TypeOK
<1>2. ttl[p] \in Nat /\ NodeDrift[ttl[p]] \in Nat /\ SetMS \in Nat
  <2>1. ExtendTTLs \subseteq Nat /\ TTL \in Nat /\ SetMS \in Nat
    BY RedlockAssumption
  <2>2. NodeDrift \in [ExtendTTLs \union {TTL} -> Nat]
    BY RedlockAssumption
  <2>3. ttl[p] \in Nat
    BY <1>1, <2>1
  <2>4. NodeDrift[ttl[p]] \in Nat
    BY <1>1, <2>2
  <2> QED BY <2>1, <2>3, <2>4
<1>3. DriftFor(ttl[p]) \in Nat /\ ExtendMS(ttl[p]) \in Nat
  BY <1>2 DEF DriftFor, ExtendMS
<1> QED BY <1>1, <1>2, <1>3 DEF LoopEnd, ValidityEnd

\* A loop secures its nodes for at least the validity it promises.
LEMMA LoopCoversValidity ==
    ASSUME DriftCovered, TypeOK, CallTTL, NEW p \in Lockers
    PROVE  ValidityEnd(start[p], ttl[p]) <= LoopEnd(p)
<1>1. CASE pc[p] = "extend" /\ ttl[p] \in ExtendTTLs
  <2>1. ExtendMS(ttl[p]) * 1000 - NodeDrift[ttl[p]] >= ttl[p] - DriftFor(ttl[p])
    BY <1>1 DEF DriftCovered
  <2> QED BY <1>1, <2>1, CallTimes DEF LoopEnd, ValidityEnd
<1>2. CASE pc[p] # "extend"
  <2>1. ttl[p] = TTL
    BY <1>2 DEF CallTTL
  <2>2. SetMS * 1000 - NodeDrift[ttl[p]] >= ttl[p] - DriftFor(ttl[p])
    BY <2>1 DEF DriftCovered
  <2> QED BY <1>2, <2>2, CallTimes DEF LoopEnd, ValidityEnd
<1> QED BY <1>1, <1>2 DEF CallTTL

-----------------------------------------------------------------------------
(***************************************************************************)
(* What a step does to the nodes and to the clock.                         *)
(***************************************************************************)

\* Unless it is rolling back or releasing, a locker finds its keys again after
\* any step, kept for no less, except those that may have expired and the one it
\* is just extending; and no step removes a key that may not have expired, but
\* the locker's own visit.
LEMMA KeysKept ==
    ASSUME TypeOK, [Next]_allVars, NEW p \in Lockers, NEW n \in Nodes,
           owner[n] = p
    PROVE  \/ owner'[n] = p /\ keptUntil'[n] = keptUntil[n]
           \/ now >= keptUntil[n]
           \/ pc[p] \in {"rollback", "release"} /\ visit[p] = n
           \/ /\ pc[p] = "extend" /\ visit[p] = n
              /\ ExtendMS(ttl[p]) > 0 =>
                    /\ owner'[n] = p
                    /\ keptUntil'[n] = now + ExtendMS(ttl[p]) * 1000 - NodeDrift[ttl[p]]
<1> DEFINE StillHeld == owner'[n] = p /\ keptUntil'[n] = keptUntil[n]
<1> USE DEF TypeOK
<1>1. CASE UNCHANGED <<owner, keptUntil>>
  BY <1>1
<1>2. ASSUME NEW q \in Lockers, AcquireOnNode(q)
      PROVE  StillHeld
  BY <1>2, RedlockAssumption DEF AcquireOnNode, Visit, SetNX, Store
<1>3. ASSUME NEW q \in Lockers, ExtendOnNode(q)
      PROVE  \/ StillHeld
             \/ /\ pc[p] = "extend" /\ visit[p] = n
                /\ ExtendMS(ttl[p]) > 0 =>
                    /\ owner'[n] = p
                    /\ keptUntil'[n] = now + ExtendMS(ttl[p]) * 1000 - NodeDrift[ttl[p]]
  <2>1. /\ pc[q] = "extend" /\ visit[q] \in Nat
        /\ UNCHANGED <<owner, keptUntil>> \/ CompareAndExpire(q, visit[q])
    BY <1>3, RedlockAssumption DEF ExtendOnNode, Visit
  <2>2. CASE UNCHANGED <<owner, keptUntil>>
    BY <2>2
  <2>3. CASE CompareAndExpire(q, visit[q]) /\ q # p
    BY <2>3 DEF CompareAndExpire, Store, Delete
  <2>4. CASE CompareAndExpire(p, visit[p]) /\ q = p /\ visit[p] # n
    BY <2>4 DEF CompareAndExpire, Store, Delete
  <2>5. CASE CompareAndExpire(p, n) /\ q = p /\ visit[p] = n
    <3>1. ExtendMS(ttl[p]) \in Nat
      BY CallTimes
    <3>2. ExtendMS(ttl[p]) > 0 => Store(p, n, ExtendMS(ttl[p]))
      BY <2>5, <3>1 DEF CompareAndExpire
    <3> QED BY <2>1, <2>5, <3>2 DEF Store
  <2> QED BY <2>1, <2>2, <2>3, <2>4, <2>5
<1>4. ASSUME NEW q \in Lockers, RollbackOnNode(q)
      PROVE  \/ StillHeld
             \/ pc[p] \in {"rollback", "release"} /\ visit[p] = n
  BY <1>4 DEF RollbackOnNode, Visit, CompareAndDelete, Delete
<1>5. ASSUME NEW q \in Lockers, ReleaseOnNode(q)
      PROVE  \/ StillHeld
             \/ pc[p] \in {"rollback", "release"} /\ visit[p] = n
  BY <1>5 DEF ReleaseOnNode, Visit, CompareAndDelete, Delete
<1>6. ASSUME NEW m \in Nodes, Expire(m)
      PROVE  \/ StillHeld
             \/ now >= keptUntil[n]
  BY <1>6 DEF Expire
<1>7. ASSUME NEW q \in Lockers,
             \/ BeginAcquire(q) \/ Cancelled(q) \/ BeginExtend(q) \/ BeginRelease(q)
             \/ Acquired(q) \/ BeginRollback(q) \/ EndRollback(q) \/ NextAttempt(q)
             \/ Extended(q) \/ ExtendFailed(q) \/ Released(q)
      PROVE  UNCHANGED <<owner, keptUntil>>
  BY <1>7 DEF BeginAcquire, Cancelled, BeginExtend, BeginRelease, Acquired, BeginRollback,
              EndRollback, NextAttempt, Extended, ExtendFailed, Released
<1>8. CASE Tick \/ UNCHANGED allVars
  BY <1>8 DEF Tick, allVars, vars
<1> HIDE DEF TypeOK
<1> QED
  BY <1>1, <1>2, <1>3, <1>4, <1>5, <1>6, <1>7, <1>8 DEF Next, Proceed

\* Time never goes back.
LEMMA ClockRuns ==
    ASSUME TypeOK, [Next]_allVars
    PROVE  now' \in Nat /\ now' >= now
<1>1. CASE Tick
  BY <1>1, RedlockAssumption DEF Tick, TypeOK
<1>2. CASE now' = now
  BY <1>2 DEF TypeOK
<1>3. ASSUME NEW p \in Lockers,
             BeginAcquire(p) \/ Cancelled(p) \/ BeginExtend(p) \/ BeginRelease(p) \/ Proceed(p)
      PROVE  now' = now
  BY <1>3 DEF BeginAcquire, Cancelled, BeginExtend, BeginRelease, Proceed, AcquireOnNode,
       Acquired, BeginRollback, RollbackOnNode, EndRollback, NextAttempt, ExtendOnNode,
       Extended, ExtendFailed, ReleaseOnNode, Released, Visit
<1>4. ASSUME NEW n \in Nodes, Expire(n) PROVE now' = now
  BY <1>4 DEF Expire
<1>5. CASE UNCHANGED allVars
  BY <1>5, <1>2 DEF allVars, vars
<1> QED BY <1>1, <1>2, <1>3, <1>4, <1>5 DEF Next

\* A secured node stays secured while its locker neither rolls back nor releases
\* nor extends by less.
LEMMA SecuredStays ==
    ASSUME TypeOK, PastTimes, [Next]_allVars, NEW p \in Lockers, NEW n \in Nodes,
           NEW t \in Int, Secured(p, n, t), pc[p] \notin {"rollback", "release"},
           pc[p] = "extend" => t <= LoopEnd(p)
    PROVE  Secured(p, n, t)'
<1>1. now \in Nat /\ now' \in Nat /\ now' >= now
  BY ClockRuns DEF TypeOK
<1>2. CASE now >= t
  BY <1>1, <1>2 DEF Secured
<1>3. CASE owner[n] = p /\ keptUntil[n] >= t
  <2>1. keptUntil[n] \in Int
    BY DEF TypeOK
  <2>2. CASE now >= keptUntil[n]
    BY <1>1, <1>3, <2>1, <2>2 DEF Secured
  <2>3. CASE owner'[n] = p /\ keptUntil'[n] = keptUntil[n]
    BY <1>3, <2>1, <2>3 DEF Secured
  <2>4. CASE /\ pc[p] = "extend" /\ visit[p] = n
             /\ ExtendMS(ttl[p]) > 0 =>
                   /\ owner'[n] = p
                   /\ keptUntil'[n] = now + ExtendMS(ttl[p]) * 1000 - NodeDrift[ttl[p]]
    <3> DEFINE kept == now + ExtendMS(ttl[p]) * 1000 - NodeDrift[ttl[p]]
    <3>1. kept >= t /\ kept \in Int
      BY <2>4, CallTimes DEF LoopEnd, PastTimes
    <3>2. CASE ExtendMS(ttl[p]) > 0
      BY <2>4, <3>1, <3>2 DEF Secured
    <3>3. CASE ExtendMS(ttl[p]) = 0
      BY <1>1, <3>1, <3>3, CallTimes DEF Secured
    <3> QED BY <3>2, <3>3, CallTimes
  <2> QED BY <1>3, <2>2, <2>3, <2>4, KeysKept
<1> QED BY <1>2, <1>3 DEF Secured

-----------------------------------------------------------------------------
(***************************************************************************)
(* The parts of the invariant, one after another.                          *)
(***************************************************************************)

\* Visiting a node keeps the types, and changes nothing but the node, the place
\* in the loop and what is known of the nodes.
LEMMA VisitType ==
    ASSUME TypeOK, NEW p \in Lockers,
           AcquireOnNode(p) \/ ExtendOnNode(p) \/ RollbackOnNode(p) \/ ReleaseOnNode(p)
    PROVE  TypeOK' /\ UNCHANGED <<now, pc, start, ttl, attempt, validUntil, outcome>>
<1>1. /\ visit[p] <= NumNodes
      /\ visit' = [visit EXCEPT ![p] = @ + 1]
      /\ UNCHANGED <<now, pc, start, ttl, attempt, validUntil, outcome>>
  BY DEF AcquireOnNode, ExtendOnNode, RollbackOnNode, ReleaseOnNode, Visit
<1>2. visit[p] \in 1..NumNodes + 1 /\ NumNodes \in Nat
  BY RedlockAssumption DEF TypeOK
<1>3. visit[p] \in Nodes /\ visit[p] + 1 \in 1..NumNodes + 1
  BY <1>1, <1>2 DEF Nodes
<1>4. visit' \in [Lockers -> 1..NumNodes + 1]
  BY <1>1, <1>3 DEF TypeOK
<1>5. \/ counted' = [counted EXCEPT ![p] = @ \union {visit[p]}]
      \/ counted' = counted
  BY DEF AcquireOnNode, ExtendOnNode, RollbackOnNode, ReleaseOnNode, Visit
<1>6. counted' \in [Lockers -> SUBSET Nodes]
  BY <1>3, <1>5 DEF TypeOK
<1>7. PICK call \in Outgoing, loop \in Loops :
        faulty' = [faulty EXCEPT ![p] = @ \/ (call # "answered"
                                               /\ loop \in {"acquire", "rollback"})]
  BY DEF AcquireOnNode, ExtendOnNode, RollbackOnNode, ReleaseOnNode, Visit, Loops
<1>8. faulty' \in [Lockers -> BOOLEAN]
  BY <1>7, Zenon DEF TypeOK
<1>9. \/ UNCHANGED <<owner, keptUntil>> \/ Delete(visit[p])
      \/ Store(p, visit[p], SetMS) \/ Store(p, visit[p], ExtendMS(ttl[p]))
  BY DEF AcquireOnNode, ExtendOnNode, RollbackOnNode, ReleaseOnNode, Visit, SetNX,
         CompareAndExpire, CompareAndDelete
<1>10. owner' \in [Nodes -> Lockers \union {NoOne}] /\ keptUntil' \in [Nodes -> Int]
  BY <1>9, CallTimes DEF TypeOK, Store, Delete
<1> QED BY <1>1, <1>4, <1>6, <1>8, <1>10 DEF TypeOK

\* Every step keeps the types.
LEMMA StepType ==
    ASSUME TypeOK, GapBudget, [Next]_allVars
    PROVE  TypeOK'
<1>1. /\ NumNodes \in Nat /\ Retries \in Nat \ {0} /\ TTL \in Nat
      /\ 1 \in 1..NumNodes + 1 /\ ExtendTTLs \subseteq Nat
  BY RedlockAssumption
<1>2. ASSUME NEW p \in Lockers,
             AcquireOnNode(p) \/ ExtendOnNode(p) \/ RollbackOnNode(p) \/ ReleaseOnNode(p)
      PROVE  TypeOK'
  BY <1>2, VisitType
<1>3. ASSUME NEW p \in Lockers, BeginAcquire(p) \/ BeginRollback(p)
      PROVE  TypeOK'
  <2>1. PICK loop \in Loops, time \in {now, 0} : BeginLoop(p, loop, time, TTL)
    BY <1>3 DEF BeginAcquire, BeginRollback, Loops
  <2>2. UNCHANGED <<now, owner, keptUntil, attempt, validUntil, outcome, faulty>>
    BY <1>3 DEF BeginAcquire, BeginRollback
  <2> QED BY <1>1, <2>1, <2>2 DEF TypeOK, BeginLoop, Locations
<1>4. ASSUME NEW p \in Lockers, BeginExtend(p)
      PROVE  TypeOK'
  <2>1. PICK t \in ExtendTTLs :
          /\ BeginLoop(p, "extend", now, t)
          /\ validUntil' = [validUntil EXCEPT ![p] = IF ValidityEnd(now, t) < @
                                                     THEN ValidityEnd(now, t) ELSE @]
    BY <1>4 DEF BeginExtend
  <2>2. UNCHANGED <<now, owner, keptUntil, attempt, outcome, faulty>>
    BY <1>4 DEF BeginExtend
  <2>3. ValidityEnd(now, t) \in Int
    BY <1>1 DEF ValidityEnd, DriftFor, TypeOK
  <2>4. validUntil' \in [Lockers -> Int]
    BY <2>1, <2>3 DEF TypeOK
  <2> QED BY <1>1, <2>1, <2>2, <2>4 DEF TypeOK, BeginLoop, Locations, Loops
<1>5. ASSUME NEW p \in Lockers, NextAttempt(p) \/ BeginRelease(p)
      PROVE  TypeOK'
  BY <1>1, <1>5
  DEF TypeOK, GapBudget, NextAttempt, BeginRelease, BeginLoop, Forget, Locations, Loops
<1>6. ASSUME NEW p \in Lockers, Acquired(p) \/ Extended(p)
      PROVE  TypeOK'
  <2>1. ValidityEnd(start[p], ttl[p]) \in Int
    BY CallTimes
  <2>2. /\ UNCHANGED <<now, owner, keptUntil>> /\ Become(p)
        /\ attempt' = attempt \/ attempt' = [attempt EXCEPT ![p] = 1]
        /\ faulty' = faulty \/ faulty' = [faulty EXCEPT ![p] = FALSE]
    BY <1>6 DEF Acquired, Extended
  <2>3. attempt' \in [Lockers -> 1..Retries]
    BY <1>1, <2>2 DEF TypeOK
  <2>4. faulty' \in [Lockers -> BOOLEAN]
    BY <2>2, Zenon DEF TypeOK
  <2> QED
    BY <1>1, <2>1, <2>2, <2>3, <2>4
    DEF TypeOK, Become, EndLoop, Locations, Loops, Outcomes
<1>7. ASSUME NEW p \in Lockers,
             EndRollback(p) \/ Cancelled(p) \/ ExtendFailed(p) \/ Released(p)
      PROVE  TypeOK'
  BY <1>1, <1>7
  DEF TypeOK, EndRollback, Cancelled, ExtendFailed, Released, EndLoop, Forget, Locations,
      Loops, Outcomes
<1>8. ASSUME NEW n \in Nodes, Expire(n) PROVE TypeOK'
  BY <1>8 DEF TypeOK, Expire
<1>9. CASE Tick
  BY <1>9, ClockRuns DEF TypeOK, Tick
<1>10. CASE UNCHANGED allVars
  BY <1>10 DEF TypeOK, allVars, vars
<1> QED
  BY <1>2, <1>3, <1>4, <1>5, <1>6, <1>7, <1>8, <1>9, <1>10 DEF Next, Proceed

\* What a step may do to the variables of a locker p.
LEMMA LockerFrame ==
    ASSUME TypeOK, [Next]_allVars, NEW p \in Lockers
    PROVE  \/ /\ pc'[p] = pc[p] /\ start'[p] = start[p] /\ ttl'[p] = ttl[p]
              /\ counted'[p] = counted[p] /\ attempt'[p] = attempt[p]
              /\ validUntil'[p] = validUntil[p]
           \/ AcquireOnNode(p) \/ ExtendOnNode(p) \/ RollbackOnNode(p) \/ ReleaseOnNode(p)
           \/ BeginExtend(p) \/ Acquired(p) \/ Extended(p) \/ EndRollback(p)
           \/ /\ pc'[p] \notin {"held", "extend", "gap"}
              /\ pc'[p] = "acquire" => counted'[p] = {}
              /\ start'[p] \in {now, 0, start[p]}
              /\ ttl'[p] = TTL \/ (ttl'[p] = ttl[p] /\ pc[p] # "extend")
<1> DEFINE Same == /\ pc'[p] = pc[p] /\ start'[p] = start[p] /\ ttl'[p] = ttl[p]
                   /\ counted'[p] = counted[p] /\ attempt'[p] = attempt[p]
                   /\ validUntil'[p] = validUntil[p]
<1> USE DEF TypeOK
<1>1. ASSUME NEW q \in Lockers, q # p,
             BeginAcquire(q) \/ Cancelled(q) \/ BeginExtend(q) \/ BeginRelease(q)
      PROVE  Same
  BY <1>1 DEF BeginAcquire, Cancelled, BeginExtend, BeginRelease, BeginLoop, Forget
<1>2. ASSUME NEW q \in Lockers, q # p,
             AcquireOnNode(q) \/ ExtendOnNode(q) \/ RollbackOnNode(q) \/ ReleaseOnNode(q)
      PROVE  Same
  BY <1>2 DEF AcquireOnNode, ExtendOnNode, RollbackOnNode, ReleaseOnNode, Visit
<1>3. ASSUME NEW q \in Lockers, q # p,
             \/ Acquired(q) \/ BeginRollback(q) \/ EndRollback(q) \/ NextAttempt(q)
             \/ Extended(q) \/ ExtendFailed(q) \/ Released(q)
      PROVE  Same
  BY <1>3 DEF Acquired, BeginRollback, EndRollback, NextAttempt, Extended, ExtendFailed,
              Released, BeginLoop, EndLoop, Become, Forget
<1>4. ASSUME NEW n \in Nodes, Expire(n) PROVE Same
  BY <1>4 DEF Expire
<1>5. ASSUME Tick \/ UNCHANGED allVars PROVE Same
  BY <1>5 DEF Tick, allVars, vars
<1> DEFINE Other == /\ pc'[p] \notin {"held", "extend", "gap"}
                    /\ pc'[p] = "acquire" => counted'[p] = {}
                    /\ start'[p] \in {now, 0, start[p]}
                    /\ ttl'[p] = TTL \/ (ttl'[p] = ttl[p] /\ pc[p] # "extend")
<1> HIDE DEF TypeOK
<1>6. ASSUME BeginAcquire(p) \/ BeginRelease(p) \/ BeginRollback(p) \/ NextAttempt(p)
      PROVE  Other
  BY <1>6 DEF BeginAcquire, BeginRelease, BeginRollback, NextAttempt, BeginLoop, TypeOK
<1>7. ASSUME ExtendFailed(p) \/ Released(p) \/ Cancelled(p)
      PROVE  Other
  BY <1>7 DEF ExtendFailed, Released, EndLoop, Cancelled, TypeOK
<1> HIDE DEF Same, Other
<1>8. \/ Same \/ Other
      \/ AcquireOnNode(p) \/ ExtendOnNode(p) \/ RollbackOnNode(p) \/ ReleaseOnNode(p)
      \/ BeginExtend(p) \/ Acquired(p) \/ Extended(p) \/ EndRollback(p)
  <2>1. CASE \E n \in Nodes : Expire(n)
    BY <2>1, <1>4
  <2>2. CASE Tick \/ UNCHANGED allVars
    BY <2>2, <1>5
  <2>3. ASSUME NEW q \in Lockers, BeginAcquire(q) \/ Cancelled(q) \/ BeginExtend(q)
                                    \/ BeginRelease(q) \/ Proceed(q)
        PROVE  \/ Same \/ Other
               \/ AcquireOnNode(p) \/ ExtendOnNode(p) \/ RollbackOnNode(p) \/ ReleaseOnNode(p)
               \/ BeginExtend(p) \/ Acquired(p) \/ Extended(p) \/ EndRollback(p)
    <3>1. CASE q # p
      BY <2>3, <3>1, <1>1, <1>2, <1>3 DEF Proceed
    <3>2. CASE q = p
      BY <2>3, <3>2, <1>6, <1>7 DEF Proceed
    <3> QED BY <3>1, <3>2
  <2> QED BY <2>1, <2>2, <2>3 DEF Next
<1> QED BY <1>8 DEF Same, Other

\* The start of a call lies in the past, and only Extend has a ttl of its own.
LEMMA StepTimes ==
    ASSUME TypeOK, PastTimes, CallTTL, [Next]_allVars
    PROVE  PastTimes' /\ CallTTL'
<1> SUFFICES ASSUME NEW p \in Lockers
             PROVE  /\ start'[p] <= now'
                    /\ IF pc'[p] = "extend" THEN ttl'[p] \in ExtendTTLs ELSE ttl'[p] = TTL
  BY DEF PastTimes, CallTTL
<1>1. /\ start[p] <= now /\ now' >= now /\ now \in Nat /\ now' \in Nat /\ start[p] \in Nat
      /\ IF pc[p] = "extend" THEN ttl[p] \in ExtendTTLs ELSE ttl[p] = TTL
  BY ClockRuns DEF PastTimes, CallTTL, TypeOK
<1>2. CASE AcquireOnNode(p) \/ ExtendOnNode(p) \/ RollbackOnNode(p) \/ ReleaseOnNode(p)
  BY <1>1, <1>2, VisitType
<1>3. CASE BeginExtend(p) \/ Acquired(p) \/ Extended(p) \/ EndRollback(p)
  BY <1>1, <1>3
  DEF BeginExtend, Acquired, Extended, EndRollback, Become, BeginLoop, EndLoop, TypeOK
<1> QED BY <1>1, <1>2, <1>3, LockerFrame

\* A locker waits between attempts only while it has another one left.
LEMMA StepGap ==
    ASSUME TypeOK, GapBudget, [Next]_allVars
    PROVE  GapBudget'
<1> SUFFICES ASSUME NEW p \in Lockers, pc'[p] = "gap"
             PROVE  attempt'[p] < Retries
  BY DEF GapBudget
<1>1. CASE pc'[p] = pc[p] /\ attempt'[p] = attempt[p]
  BY <1>1 DEF GapBudget
<1>2. CASE EndRollback(p)
  BY <1>2 DEF EndRollback, EndLoop, TypeOK
<1>3. CASE AcquireOnNode(p) \/ ExtendOnNode(p) \/ RollbackOnNode(p) \/ ReleaseOnNode(p)
  BY <1>1, <1>3, VisitType
<1>4. CASE BeginExtend(p) \/ Acquired(p) \/ Extended(p)
  BY <1>4 DEF BeginExtend, BeginLoop, Acquired, Extended, Become, EndLoop, TypeOK
<1> QED BY <1>1, <1>2, <1>3, <1>4, LockerFrame

\* Every step keeps the counted nodes secured.
LEMMA StepCounted ==
    ASSUME TypeOK, PastTimes, CallTTL, CountedSecured, [Next]_allVars
    PROVE  CountedSecured'
<1> SUFFICES ASSUME NEW p \in Lockers, pc'[p] \in {"acquire", "extend"},
                    NEW n \in counted'[p]
             PROVE  Secured(p, n, LoopEnd(p))'
  BY DEF CountedSecured
<1>1. PICK t \in Int : t = LoopEnd(p)
  BY CallTimes
<1>2. ASSUME pc[p] \in {"acquire", "extend"}, pc'[p] = pc[p], start'[p] = start[p],
             ttl'[p] = ttl[p], n \in counted[p]
      PROVE  Secured(p, n, LoopEnd(p))'
  <2>1. n \in Nodes /\ Secured(p, n, t)
    BY <1>1, <1>2 DEF CountedSecured, TypeOK
  <2>2. Secured(p, n, t)'
    BY <1>1, <1>2, <2>1, SecuredStays
  <2>3. LoopEnd(p)' = t
    BY <1>1, <1>2 DEF LoopEnd
  <2> QED BY <2>2, <2>3 DEF Secured
<1>3. ASSUME AcquireOnNode(p) \/ ExtendOnNode(p)
      PROVE  Secured(p, n, LoopEnd(p))'
  <2>1. /\ pc[p] \in {"acquire", "extend"} /\ now' = now
        /\ pc'[p] = pc[p] /\ start'[p] = start[p] /\ ttl'[p] = ttl[p]
    BY <1>3, VisitType DEF AcquireOnNode, ExtendOnNode, Visit
  <2>2. \/ counted' = [counted EXCEPT ![p] = @ \union {visit[p]}]
        \/ counted' = counted
    BY <1>3 DEF AcquireOnNode, ExtendOnNode, Visit
  <2>3. n \in counted[p] \/ (n = visit[p] /\ n \notin counted[p])
    BY <2>2 DEF TypeOK
  <2>4. CASE n = visit[p] /\ n \notin counted[p]
    <3>1. counted' # counted
      BY <2>2, <2>4
    <3>2. n \in Nodes
      BY <1>3, <2>4, RedlockAssumption DEF AcquireOnNode, ExtendOnNode, Visit, TypeOK, Nodes
    <3>3. start[p] <= now
      BY DEF PastTimes
    <3>4. LoopEnd(p)' = t
      BY <1>1, <2>1 DEF LoopEnd
    <3>5. CASE AcquireOnNode(p)
      <4>1. Store(p, n, SetMS) /\ pc[p] = "acquire"
        BY <2>4, <3>1, <3>5 DEF AcquireOnNode, Visit, SetNX, SetNXAnswers
      <4>2. owner'[n] = p /\ keptUntil'[n] = now + SetMS * 1000 - NodeDrift[ttl[p]]
        BY <3>2, <4>1 DEF Store, TypeOK
      <4>3. now + SetMS * 1000 - NodeDrift[ttl[p]] >= t
        BY <1>1, <3>3, <4>1, CallTimes DEF LoopEnd
      <4> QED BY <3>4, <4>2, <4>3 DEF Secured
    <3>6. CASE ExtendOnNode(p)
      <4>1. CompareAndExpire(p, n) /\ owner[n] = p /\ pc[p] = "extend"
        BY <2>4, <3>1, <3>6 DEF ExtendOnNode, Visit, CompareAndExpire, OwnerAnswers
      <4>2. now + ExtendMS(ttl[p]) * 1000 - NodeDrift[ttl[p]] >= t
        BY <1>1, <3>3, <4>1, CallTimes DEF LoopEnd
      <4>3. CASE ExtendMS(ttl[p]) > 0
        <5>1. /\ owner'[n] = p
              /\ keptUntil'[n] = now + ExtendMS(ttl[p]) * 1000 - NodeDrift[ttl[p]]
          BY <3>2, <4>1, <4>3 DEF CompareAndExpire, Store, TypeOK
        <5> QED BY <3>4, <4>2, <5>1 DEF Secured
      <4>4. CASE ExtendMS(ttl[p]) = 0
        <5>1. now' >= t
          BY <1>1, <2>1, <4>2, <4>4, CallTimes
        <5> QED BY <3>4, <5>1 DEF Secured
      <4> QED BY <4>3, <4>4, CallTimes
    <3> QED BY <1>3, <3>5, <3>6
  <2> QED BY <1>2, <2>1, <2>3, <2>4
<1>4. CASE RollbackOnNode(p) \/ ReleaseOnNode(p)
  BY <1>4, VisitType DEF RollbackOnNode, ReleaseOnNode, Visit
<1>5. CASE BeginExtend(p) \/ Acquired(p) \/ Extended(p) \/ EndRollback(p)
  BY <1>5
  DEF BeginExtend, Acquired, Extended, EndRollback, Become, BeginLoop, EndLoop, TypeOK
<1> QED BY <1>2, <1>3, <1>4, <1>5, LockerFrame

\* Every step keeps a lock from being valid for longer than the ttl it is being
\* extended by.
LEMMA StepShortens ==
    ASSUME TypeOK, ExtendShortens, [Next]_allVars
    PROVE  ExtendShortens'
<1> SUFFICES ASSUME NEW p \in Lockers, pc'[p] = "extend"
             PROVE  validUntil'[p] <= ValidityEnd(start[p], ttl[p])'
  BY DEF ExtendShortens
<1>1. CASE /\ pc'[p] = pc[p] /\ start'[p] = start[p] /\ ttl'[p] = ttl[p]
           /\ validUntil'[p] = validUntil[p]
  BY <1>1 DEF ExtendShortens, ValidityEnd
<1>2. CASE AcquireOnNode(p) \/ ExtendOnNode(p) \/ RollbackOnNode(p) \/ ReleaseOnNode(p)
  BY <1>1, <1>2, VisitType
<1>3. CASE BeginExtend(p)
  <2>1. PICK t \in ExtendTTLs :
          /\ BeginLoop(p, "extend", now, t)
          /\ validUntil' = [validUntil EXCEPT ![p] = IF ValidityEnd(now, t) < @
                                                     THEN ValidityEnd(now, t) ELSE @]
    BY <1>3 DEF BeginExtend
  <2>2. start'[p] = now /\ ttl'[p] = t
    BY <2>1 DEF BeginLoop, TypeOK
  <2>3. ValidityEnd(now, t) \in Int
    BY RedlockAssumption DEF ValidityEnd, DriftFor, TypeOK
  <2>4. validUntil'[p] <= ValidityEnd(now, t)
    BY <2>1, <2>3 DEF TypeOK
  <2> QED BY <2>2, <2>4 DEF ValidityEnd
<1>4. CASE Acquired(p) \/ Extended(p) \/ EndRollback(p)
  BY <1>4 DEF Acquired, Extended, EndRollback, Become, EndLoop, TypeOK
<1> QED BY <1>1, <1>2, <1>3, <1>4, LockerFrame

\* Every step keeps a quorum of nodes for a lock that is held.
LEMMA StepVoters ==
    ASSUME DriftCovered, TypeOK, PastTimes, CallTTL, GapBudget, CountedSecured,
           ExtendShortens, VotersSecured, [Next]_allVars
    PROVE  VotersSecured'
<1> SUFFICES ASSUME NEW p \in Lockers, pc'[p] \in {"held", "extend"}
             PROVE  \E voters \in SUBSET Nodes :
                        /\ Cardinality(voters) >= Quorum
                        /\ \A n \in voters : Secured(p, n, validUntil[p])'
  BY DEF VotersSecured
<1>1. PICK t \in Int : t = validUntil[p]
  BY DEF TypeOK
<1>2. ASSUME pc[p] \in {"held", "extend"}, validUntil'[p] \in Int, validUntil'[p] <= t
      PROVE  \E voters \in SUBSET Nodes :
                /\ Cardinality(voters) >= Quorum
                /\ \A n \in voters : Secured(p, n, validUntil[p])'
  <2>1. PICK voters \in SUBSET Nodes :
            /\ Cardinality(voters) >= Quorum
            /\ \A n \in voters : Secured(p, n, t)
    BY <1>1, <1>2 DEF VotersSecured
  <2>2. pc[p] = "extend" => t <= LoopEnd(p)
    BY <1>1, LoopCoversValidity, CallTimes DEF ExtendShortens
  <2>3. ASSUME NEW n \in voters PROVE Secured(p, n, validUntil[p])'
    <3>1. Secured(p, n, t)'
      BY <1>2, <2>1, <2>2, SecuredStays
    <3>2. n \in Nodes /\ keptUntil'[n] \in Int /\ now' \in Int
      BY <2>1, StepType, ClockRuns DEF TypeOK
    <3> QED BY <1>2, <3>1, <3>2 DEF Secured
  <2> QED BY <2>1, <2>3
<1>3. CASE /\ pc'[p] = pc[p] /\ validUntil'[p] = validUntil[p]
  BY <1>1, <1>2, <1>3
<1>4. CASE AcquireOnNode(p) \/ ExtendOnNode(p) \/ RollbackOnNode(p) \/ ReleaseOnNode(p)
  BY <1>3, <1>4, VisitType
<1>5. CASE BeginExtend(p)
  <2>1. PICK d \in ExtendTTLs :
            validUntil' = [validUntil EXCEPT ![p] = IF ValidityEnd(now, d) < @
                                                    THEN ValidityEnd(now, d) ELSE @]
    BY <1>5 DEF BeginExtend
  <2>2. ValidityEnd(now, d) \in Int
    BY RedlockAssumption DEF ValidityEnd, DriftFor, TypeOK
  <2>3. validUntil'[p] \in Int /\ validUntil'[p] <= t
    BY <1>1, <2>1, <2>2 DEF TypeOK
  <2>4. pc[p] = "held"
    BY <1>5 DEF BeginExtend
  <2> QED BY <1>2, <2>3, <2>4
<1>6. CASE Acquired(p) \/ Extended(p)
  <2>1. /\ pc[p] \in {"acquire", "extend"} /\ HasQuorum(p) /\ Become(p)
        /\ UNCHANGED <<now, owner, keptUntil>>
    BY <1>6 DEF Acquired, Extended, LoopDone
  <2>2. validUntil'[p] = ValidityEnd(start[p], ttl[p])
    BY <2>1 DEF Become, TypeOK
  <2>3. counted[p] \in SUBSET Nodes /\ Cardinality(counted[p]) >= Quorum
    BY <2>1 DEF TypeOK, HasQuorum
  <2>4. ASSUME NEW n \in counted[p] PROVE Secured(p, n, validUntil[p])'
    <3>1. Secured(p, n, LoopEnd(p))
      BY <2>1 DEF CountedSecured
    <3>2. keptUntil[n] \in Int /\ now \in Int
      BY <2>3 DEF TypeOK
    <3>3. ValidityEnd(start[p], ttl[p]) <= LoopEnd(p)
      BY LoopCoversValidity
    <3> QED BY <2>1, <2>2, <3>1, <3>2, <3>3, CallTimes DEF Secured
  <2> QED BY <2>3, <2>4
<1>7. CASE EndRollback(p)
  BY <1>7 DEF EndRollback, EndLoop, TypeOK
<1> QED BY <1>3, <1>4, <1>5, <1>6, <1>7, LockerFrame

-----------------------------------------------------------------------------
(***************************************************************************)
(* What a rollback leaves.                                                 *)
(***************************************************************************)

\* As long as none of its script calls has failed, a locker has its keys within
\* reach: none between two attempts, only on nodes it has visited while it
\* acquires, only on nodes it has still to visit while it rolls back; and
\* whoever has given up is done and has no key.
KeysInReach ==
    \A p \in Lockers :
        /\ outcome[p] \in {"not_acquired", "cancelled"} => pc[p] = "done"
        /\ ~faulty[p] =>
            \A n \in Nodes : owner[n] = p =>
                /\ pc[p] \notin {"idle", "gap"}
                /\ pc[p] = "acquire" => n < visit[p]
                /\ pc[p] = "rollback" => n >= visit[p]
                /\ outcome[p] \notin {"not_acquired", "cancelled"}

\* What a step that is not p's own does to p: nothing but take away its keys.
LEMMA OthersStep ==
    ASSUME TypeOK, [Next]_allVars, NEW p \in Lockers
    PROVE  \/ /\ pc'[p] = pc[p] /\ visit'[p] = visit[p]
              /\ outcome'[p] = outcome[p] /\ faulty'[p] = faulty[p]
              /\ \A n \in Nodes : owner'[n] = p => owner[n] = p
           \/ BeginAcquire(p) \/ Cancelled(p) \/ BeginExtend(p) \/ BeginRelease(p)
           \/ Proceed(p)
<1> DEFINE Same == /\ pc'[p] = pc[p] /\ visit'[p] = visit[p]
                   /\ outcome'[p] = outcome[p] /\ faulty'[p] = faulty[p]
                   /\ \A n \in Nodes : owner'[n] = p => owner[n] = p
<1> USE DEF TypeOK
<1>1. ASSUME NEW q \in Lockers, q # p,
             BeginAcquire(q) \/ Cancelled(q) \/ BeginExtend(q) \/ BeginRelease(q)
      PROVE  Same
  BY <1>1 DEF BeginAcquire, Cancelled, BeginExtend, BeginRelease, BeginLoop, Forget
<1>2. ASSUME NEW q \in Lockers, q # p,
             AcquireOnNode(q) \/ ExtendOnNode(q) \/ RollbackOnNode(q) \/ ReleaseOnNode(q)
      PROVE  Same
  <2>1. /\ pc' = pc /\ outcome' = outcome
        /\ visit' = [visit EXCEPT ![q] = @ + 1]
        /\ \E f : faulty' = [faulty EXCEPT ![q] = f]
    BY <1>2, Zenon DEF AcquireOnNode, ExtendOnNode, RollbackOnNode, ReleaseOnNode, Visit
  <2>2. \A n \in Nodes : owner'[n] = p => owner[n] = p
    BY <1>2, RedlockAssumption
    DEF AcquireOnNode, ExtendOnNode, RollbackOnNode, ReleaseOnNode, Visit, SetNX,
        CompareAndExpire, CompareAndDelete, Store, Delete
  <2> QED BY <1>2, <2>1, <2>2
<1>3. ASSUME NEW q \in Lockers, q # p,
             \/ Acquired(q) \/ BeginRollback(q) \/ EndRollback(q) \/ NextAttempt(q)
             \/ Extended(q) \/ ExtendFailed(q) \/ Released(q)
      PROVE  Same
  BY <1>3 DEF Acquired, BeginRollback, EndRollback, NextAttempt, Extended, ExtendFailed,
              Released, BeginLoop, EndLoop, Become, Forget
<1>4. ASSUME NEW n \in Nodes, Expire(n) PROVE Same
  BY <1>4, RedlockAssumption DEF Expire
<1>5. CASE Tick \/ UNCHANGED allVars
  BY <1>5 DEF Tick, allVars, vars
<1> HIDE DEF TypeOK
<1> QED BY <1>1, <1>2, <1>3, <1>4, <1>5 DEF Next, Proceed

\* A visit of p that does not fail: what becomes of the key on each node.
LEMMA VisitReach ==
    ASSUME TypeOK, NEW p \in Lockers, ~faulty'[p],
           AcquireOnNode(p) \/ RollbackOnNode(p) \/ ExtendOnNode(p) \/ ReleaseOnNode(p)
    PROVE  /\ ~faulty[p] /\ pc' = pc /\ outcome' = outcome /\ visit'[p] = visit[p] + 1
           /\ \A n \in Nodes : owner'[n] = p =>
                \/ owner[n] = p /\ (pc[p] = "rollback" => n # visit[p])
                \/ pc[p] = "acquire" /\ n = visit[p]
<1>1. /\ pc' = pc /\ outcome' = outcome /\ visit' = [visit EXCEPT ![p] = @ + 1]
      /\ pc[p] = "rollback" <=> RollbackOnNode(p)
      /\ pc[p] = "acquire" <=> AcquireOnNode(p)
  BY DEF AcquireOnNode, RollbackOnNode, ExtendOnNode, ReleaseOnNode, Visit
<1>2. PICK call \in Outgoing, loop \in Loops :
        faulty' = [faulty EXCEPT ![p] = @ \/ (call # "answered"
                                               /\ loop \in {"acquire", "rollback"})]
  BY DEF AcquireOnNode, RollbackOnNode, ExtendOnNode, ReleaseOnNode, Visit, Loops
<1>3. ~faulty[p]
  BY <1>2, Zenon DEF TypeOK
<1>4. CASE RollbackOnNode(p)
  <2>1. PICK call2 \in Outgoing :
          /\ IF call2 = "not_run" THEN UNCHANGED <<owner, keptUntil>>
                                  ELSE CompareAndDelete(p, visit[p])
          /\ faulty' = [faulty EXCEPT ![p] = @ \/ (call2 # "answered"
                                                /\ "rollback" \in {"acquire", "rollback"})]
    BY <1>4 DEF RollbackOnNode, Visit
  <2>2. call2 = "answered"
    BY <2>1, Zenon DEF TypeOK
  <2>3. CompareAndDelete(p, visit[p])
    BY <2>1, <2>2
  <2>4. \A n \in Nodes : owner'[n] = p => owner[n] = p /\ n # visit[p]
    BY <2>3, RedlockAssumption DEF CompareAndDelete, Delete, TypeOK
  <2> QED BY <1>1, <1>3, <2>4 DEF TypeOK
<1>5. CASE AcquireOnNode(p) \/ ExtendOnNode(p) \/ ReleaseOnNode(p)
  <2>1. \A n \in Nodes : owner'[n] = p => owner[n] = p \/ (AcquireOnNode(p) /\ n = visit[p])
    BY <1>5, RedlockAssumption
    DEF AcquireOnNode, ExtendOnNode, ReleaseOnNode, Visit, SetNX, CompareAndExpire,
        CompareAndDelete, Store, Delete, TypeOK
  <2>2. pc[p] # "rollback"
    BY <1>5 DEF AcquireOnNode, ExtendOnNode, ReleaseOnNode, Visit
  <2> QED BY <1>1, <1>3, <2>1, <2>2 DEF TypeOK
<1> QED BY <1>4, <1>5

\* Every step keeps the keys of a locker within its reach.
LEMMA StepReach ==
    ASSUME TypeOK, KeysInReach, [Next]_allVars
    PROVE  KeysInReach'
<1> SUFFICES ASSUME NEW p \in Lockers
             PROVE  /\ outcome'[p] \in {"not_acquired", "cancelled"} => pc'[p] = "done"
                    /\ ~faulty'[p] =>
                        \A n \in Nodes : owner'[n] = p =>
                            /\ pc'[p] \notin {"idle", "gap"}
                            /\ pc'[p] = "acquire" => n < visit'[p]
                            /\ pc'[p] = "rollback" => n >= visit'[p]
                            /\ outcome'[p] \notin {"not_acquired", "cancelled"}
  BY DEF KeysInReach
<1> DEFINE Goal == /\ outcome'[p] \in {"not_acquired", "cancelled"} => pc'[p] = "done"
                   /\ ~faulty'[p] =>
                        \A n \in Nodes : owner'[n] = p =>
                            /\ pc'[p] \notin {"idle", "gap"}
                            /\ pc'[p] = "acquire" => n < visit'[p]
                            /\ pc'[p] = "rollback" => n >= visit'[p]
                            /\ outcome'[p] \notin {"not_acquired", "cancelled"}
<1>n. /\ Nodes \subseteq Nat /\ \A n \in Nodes : n >= 1 /\ n <= NumNodes
      /\ NumNodes \in Nat /\ visit[p] \in Nat
  BY RedlockAssumption DEF Nodes, TypeOK
<1>k. /\ outcome[p] \in {"not_acquired", "cancelled"} => pc[p] = "done"
      /\ ~faulty[p] =>
            \A n \in Nodes : owner[n] = p =>
                /\ pc[p] \notin {"idle", "gap"}
                /\ pc[p] = "acquire" => n < visit[p]
                /\ pc[p] = "rollback" => n >= visit[p]
                /\ outcome[p] \notin {"not_acquired", "cancelled"}
  BY DEF KeysInReach
<1>1. CASE AcquireOnNode(p) \/ RollbackOnNode(p) \/ ExtendOnNode(p) \/ ReleaseOnNode(p)
  <2>1. pc' = pc /\ outcome' = outcome
    BY <1>1 DEF AcquireOnNode, RollbackOnNode, ExtendOnNode, ReleaseOnNode, Visit
  <2>2. pc[p] # "done"
    BY <1>1 DEF AcquireOnNode, RollbackOnNode, ExtendOnNode, ReleaseOnNode, Visit
  <2>3. ASSUME ~faulty'[p], NEW n \in Nodes, owner'[n] = p
        PROVE  /\ pc[p] \notin {"idle", "gap"}
               /\ pc[p] = "acquire" => n < visit'[p]
               /\ pc[p] = "rollback" => n >= visit'[p]
    <3>1. pc[p] \notin {"idle", "gap"}
      BY <1>1 DEF AcquireOnNode, RollbackOnNode, ExtendOnNode, ReleaseOnNode, Visit
    <3>2. /\ ~faulty[p] /\ visit'[p] = visit[p] + 1
          /\ \/ owner[n] = p /\ (pc[p] = "rollback" => n # visit[p])
             \/ pc[p] = "acquire" /\ n = visit[p]
      BY <1>1, <2>3, VisitReach
    <3>3. n \in Nat
      BY <1>n
    <3> QED BY <1>n, <1>k, <3>1, <3>2, <3>3
  <2> QED BY <1>k, <2>1, <2>2, <2>3
<1>2. CASE BeginAcquire(p) \/ NextAttempt(p)
  BY <1>2, <1>k, <1>n
  DEF BeginAcquire, NextAttempt, BeginLoop, TypeOK
<1>3. CASE BeginRollback(p)
  BY <1>3, <1>k, <1>n DEF BeginRollback, LoopDone, BeginLoop, TypeOK
<1>4. CASE EndRollback(p)
  <2>1. /\ pc[p] = "rollback" /\ visit[p] > NumNodes /\ UNCHANGED <<owner, faulty>>
        /\ \/ pc'[p] = "gap" /\ UNCHANGED outcome
           \/ pc'[p] = "done"
    BY <1>4 DEF EndRollback, LoopDone, EndLoop, TypeOK
  <2>2. ~faulty'[p] => \A n \in Nodes : owner'[n] # p
    BY <1>k, <1>n, <2>1
  <2> QED BY <1>k, <2>1, <2>2
<1>5. CASE Cancelled(p)
  BY <1>5, <1>k DEF Cancelled, TypeOK
<1>6. CASE BeginExtend(p) \/ BeginRelease(p)
  BY <1>6, <1>k DEF BeginExtend, BeginRelease, BeginLoop, Forget, TypeOK
<1>7. CASE Acquired(p) \/ Extended(p)
  BY <1>7, <1>k DEF Acquired, Extended, LoopDone, Become, EndLoop, TypeOK
<1>8. CASE ExtendFailed(p) \/ Released(p)
  BY <1>8, <1>k DEF ExtendFailed, Released, LoopDone, EndLoop, Forget, TypeOK
<1>9. CASE /\ pc'[p] = pc[p] /\ visit'[p] = visit[p]
           /\ outcome'[p] = outcome[p] /\ faulty'[p] = faulty[p]
           /\ \A n \in Nodes : owner'[n] = p => owner[n] = p
  BY <1>9, <1>k
<1> HIDE DEF Goal
<1>10. Goal
  BY <1>1, <1>2, <1>3, <1>4, <1>5, <1>6, <1>7, <1>8, <1>9, OthersStep DEF Proceed, Goal
<1> QED BY <1>10 DEF Goal

-----------------------------------------------------------------------------
(***************************************************************************)
(* The theorems.                                                           *)
(***************************************************************************)

\* RInv is an inductive invariant.
THEOREM RedlockInvariance == Spec => []RInv
<1>1. Init => RInv
  BY RedlockAssumption
  DEF Init, RInv, TypeOK, PastTimes, CallTTL, GapBudget, CountedSecured, Locations, Loops,
      Outcomes, Nodes
<1>2. RInv /\ [Next]_allVars => RInv'
  BY StepType, StepTimes, StepGap, StepCounted DEF RInv
<1> QED BY <1>1, <1>2, PTL DEF Spec

\* Every variable of the lock keeps its type; in particular no loop runs past
\* the last node and Acquire never starts more attempts than its retries.
THEOREM RedlockTypeCorrect == Spec => []TypeOK
<1>1. RInv => TypeOK
  BY DEF RInv
<1> QED BY <1>1, RedlockInvariance, PTL

\* At most one locker relies on the lock, on any number of nodes and whatever ttls
\* it is extended by, if driftFor covers the drift of the nodes' clocks and what
\* is lost where a ttl becomes milliseconds: Acquire's quorum, its subtraction of
\* the drift and the token checks of the scripts suffice.
THEOREM LockIsExclusive ==
    ASSUME DriftCovered
    PROVE  Spec => []MutualExclusion
<1> DEFINE VInv == ExtendShortens /\ VotersSecured
<1>1. Init => VInv
  BY DEF Init, ExtendShortens, VotersSecured
<1>2. RInv /\ VInv /\ [Next]_allVars => VInv'
  BY StepShortens, StepVoters DEF RInv
<1>3. ASSUME RInv, VInv, NEW p \in Lockers, NEW q \in Lockers, Relies(p), Relies(q)
      PROVE  p = q
  <2>1. PICK A \in SUBSET Nodes :
          Cardinality(A) >= Quorum /\ \A n \in A : Secured(p, n, validUntil[p])
    BY <1>3 DEF VotersSecured, Relies
  <2>2. PICK B \in SUBSET Nodes :
          Cardinality(B) >= Quorum /\ \A n \in B : Secured(q, n, validUntil[q])
    BY <1>3 DEF VotersSecured, Relies
  <2>3. PICK n \in A : n \in B
    BY <2>1, <2>2, QuorumsMeet
  <2>4. now < validUntil[p] /\ now < validUntil[q] /\ now \in Int
        /\ validUntil[p] \in Int /\ validUntil[q] \in Int
    BY <1>3 DEF Relies, RInv, TypeOK
  <2> QED BY <2>1, <2>2, <2>3, <2>4 DEF Secured
<1>4. RInv /\ VInv => MutualExclusion
  BY <1>3 DEF MutualExclusion
<1> HIDE DEF VInv
<1> QED BY <1>1, <1>2, <1>4, RedlockInvariance, PTL DEF Spec

\* Before it may have expired, a key is removed only by its own locker, which
\* is rolling back or releasing, or extends by less than a millisecond: the
\* scripts compare the token and act in one step.
THEOREM KeysAreFreedByOwners == Spec => OnlyOwnerFrees
<1>1. RInv /\ [Next]_allVars =>
        [\A p \in Lockers, n \in Nodes :
            (/\ owner[n] = p
             /\ owner'[n] # p
             /\ now < keptUntil[n])
                => /\ visit[p] = n
                   /\ \/ pc[p] \in {"rollback", "release"}
                      \/ pc[p] = "extend" /\ ExtendMS(ttl[p]) = 0]_allVars
  <2> SUFFICES ASSUME RInv, [Next]_allVars, NEW p \in Lockers, NEW n \in Nodes,
                      owner[n] = p, owner'[n] # p, now < keptUntil[n]
               PROVE  /\ visit[p] = n
                      /\ \/ pc[p] \in {"rollback", "release"}
                         \/ pc[p] = "extend" /\ ExtendMS(ttl[p]) = 0
    OBVIOUS
  <2>1. ~(now >= keptUntil[n])
    BY DEF RInv, TypeOK
  <2>2. ExtendMS(ttl[p]) \in Nat
    BY CallTimes DEF RInv
  <2> QED BY <2>1, <2>2, KeysKept DEF RInv
<1> QED BY <1>1, RedlockInvariance, PTL DEF Spec, OnlyOwnerFrees

\* An Extend by whole milliseconds that returns nil within its ttl returns with
\* the key on a quorum, in spite of lost answers, expiry and other lockers.
THEOREM WholeMillisecondsRenew ==
    ASSUME \A t \in ExtendTTLs : t % 1000 = 0
    PROVE  Spec => ExtendRenews
<1> DEFINE Renews(p) ==
        (/\ pc[p] = "extend"
         /\ pc'[p] = "held"
         /\ now < start[p] + ttl[p] - NodeDrift[ttl[p]])
            => Cardinality(Holding(p)) >= Quorum
<1>1. ASSUME RInv, [Next]_allVars, NEW p \in Lockers,
             pc[p] = "extend", pc'[p] = "held",
             now < start[p] + ttl[p] - NodeDrift[ttl[p]]
      PROVE  Cardinality(Holding(p)) >= Quorum
  <2>1. Extended(p)
    <3>1. CASE AcquireOnNode(p) \/ ExtendOnNode(p) \/ RollbackOnNode(p) \/ ReleaseOnNode(p)
      BY <1>1, <3>1, VisitType DEF RInv
    <3>2. CASE BeginExtend(p) \/ Acquired(p) \/ EndRollback(p)
      BY <1>1, <3>2 DEF BeginExtend, Acquired, EndRollback, LoopDone
    <3> QED BY <1>1, <3>1, <3>2, LockerFrame DEF RInv
  <2>2. Cardinality(counted[p]) >= Quorum /\ counted[p] \in SUBSET Nodes
    BY <1>1, <2>1 DEF Extended, HasQuorum, RInv, TypeOK
  <2>3. LoopEnd(p) = start[p] + ttl[p] - NodeDrift[ttl[p]]
    <3>1. ttl[p] \in ExtendTTLs
      BY <1>1 DEF RInv, CallTTL
    <3>2. ttl[p] % 1000 = 0 /\ ttl[p] \in Nat
      BY <1>1, <3>1, CallTimes DEF RInv
    <3>3. ExtendMS(ttl[p]) * 1000 = ttl[p]
      BY <3>2 DEF ExtendMS
    <3> QED BY <1>1, <3>3 DEF LoopEnd
  <2>4. ASSUME NEW n \in counted[p] PROVE n \in Holding(p)
    <3>1. Secured(p, n, LoopEnd(p)) /\ n \in Nodes
      BY <1>1, <2>2 DEF RInv, CountedSecured
    <3>2. ~(now >= LoopEnd(p))
      BY <1>1, <2>3, CallTimes DEF RInv
    <3> QED BY <3>1, <3>2 DEF Secured, Holding
  <2>5. IsFiniteSet(Holding(p)) /\ counted[p] \subseteq Holding(p)
    <3>1. IsFiniteSet(Nodes) /\ Holding(p) \subseteq Nodes
      BY FS_Interval, RedlockAssumption DEF Nodes, Holding
    <3> QED BY <2>4, <3>1, FS_Subset
  <2>6. /\ Cardinality(counted[p]) <= Cardinality(Holding(p))
        /\ Cardinality(counted[p]) \in Nat /\ Cardinality(Holding(p)) \in Nat
    BY <2>5, FS_Subset, FS_CardinalityType
  <2> QED BY <2>2, <2>6, RedlockAssumption DEF Quorum
<1>2. RInv /\ [Next]_allVars => [\A p \in Lockers : Renews(p)]_allVars
  BY <1>1
<1> QED BY <1>2, RedlockInvariance, PTL DEF Spec, ExtendRenews

\* An Acquire that gives up, cancelled or out of attempts, has no key left on any
\* node, however its attempts and those of others interleaved, if all of its
\* script calls succeeded.
THEOREM RollbackIsComplete == Spec => []RollbackLeavesNothing
<1>1. Init => KeysInReach
  BY RedlockAssumption DEF Init, KeysInReach
<1>2. RInv /\ KeysInReach /\ [Next]_allVars => KeysInReach'
  BY StepReach DEF RInv
<1>3. KeysInReach => RollbackLeavesNothing
  BY DEF KeysInReach, RollbackLeavesNothing, Holding
<1> QED BY <1>1, <1>2, <1>3, RedlockInvariance, PTL DEF Spec

=============================================================================
