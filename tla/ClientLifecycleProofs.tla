------------------------ MODULE ClientLifecycleProofs ------------------------
(***************************************************************************)
(* Proofs about ClientLifecycle, for any callers, closers, hooks and any   *)
(* capacity of the inflight gate.                                          *)
(***************************************************************************)
EXTENDS ClientLifecycle, FiniteSetTheorems, TLAPS

\* The read lock is held by exactly the callers between entry and return.
ReadersInside == readers = At(Inside)

\* A Close that has set the flag found no reader, and none has entered since.
ClosedIsDrained == closed => readers = {}

\* The backend is closed only by a Close that has set the flag.
ReleasedIsClosed ==
    /\ backendClosed => closed
    /\ \A k \in Closers : closePc[k] \in {"unlocked", "returned"} => closed

\* The inductive invariant.
LInv ==
    /\ TypeOK
    /\ ReadersInside
    /\ SlotsAccounted
    /\ ClosedIsDrained
    /\ ReleasedIsClosed

-----------------------------------------------------------------------------

\* How the population of some places changes when one caller moves.
LEMMA Move ==
    ASSUME pc \in [Callers -> Locations], NEW c \in Callers, NEW place,
           MoveTo(c, place), NEW places
    PROVE  /\ At(places)' = IF place \in places THEN At(places) \union {c}
                                                ELSE At(places) \ {c}
           /\ Cardinality(At(places)) \in Nat
           /\ Cardinality(At(places)') =
                IF place \in places
                THEN IF pc[c] \in places THEN Cardinality(At(places))
                                         ELSE Cardinality(At(places)) + 1
                ELSE IF pc[c] \in places THEN Cardinality(At(places)) - 1
                                         ELSE Cardinality(At(places))
<1>1. At(places)' = IF place \in places THEN At(places) \union {c} ELSE At(places) \ {c}
  BY DEF At, MoveTo
<1>2. IsFiniteSet(At(places))
  BY LifecycleAssumption, FS_Subset DEF At
<1>3. c \in At(places) <=> pc[c] \in places
  BY DEF At
<1>4. /\ Cardinality(At(places) \union {c}) =
            IF c \in At(places) THEN Cardinality(At(places)) ELSE Cardinality(At(places)) + 1
      /\ Cardinality(At(places) \ {c}) =
            IF c \in At(places) THEN Cardinality(At(places)) - 1 ELSE Cardinality(At(places))
      /\ Cardinality(At(places)) \in Nat
  BY <1>2, FS_AddElement, FS_RemoveElement, FS_CardinalityType
<1> QED BY <1>1, <1>3, <1>4

\* No more commands execute than hold a slot.
LEMMA ExecutingHoldSlots ==
    /\ Cardinality(At({"executing"})) <= Cardinality(At(SlotHeld))
    /\ Cardinality(At({"executing"})) \in Nat
    /\ Cardinality(At(SlotHeld)) \in Nat
<1>1. IsFiniteSet(At(SlotHeld))
  BY LifecycleAssumption, FS_Subset DEF At
<1>2. At({"executing"}) \in SUBSET At(SlotHeld)
  BY DEF At, SlotHeld
<1> QED BY <1>1, <1>2, FS_Subset, FS_CardinalityType

\* The invariant holds in the beginning.
LEMMA InitLInv == Init => LInv
<1> SUFFICES ASSUME Init PROVE LInv
  OBVIOUS
<1>1. At(Inside) = {} /\ At(SlotHeld) = {} /\ At({"executing"}) = {}
  <2>1. \A c \in Callers : pc[c] = "idle"
    BY DEF Init
  <2>2. "idle" \notin Inside /\ "idle" \notin SlotHeld /\ "idle" # "executing"
    BY DEF Inside, SlotHeld
  <2> QED BY <2>1, <2>2 DEF At
<1>2. SlotsAccounted
  BY <1>1, FS_EmptySet, LifecycleAssumption DEF Init, SlotsAccounted
<1>3. TypeOK
  <2>1. MaxInflight \in Nat
    BY LifecycleAssumption
  <2>2. 0 \in 0..MaxInflight
    BY <2>1
  <2> QED BY <2>2 DEF Init, TypeOK, Locations, CloseLocations
<1> QED
  BY <1>1, <1>2, <1>3 DEF Init, LInv, ReadersInside, ClosedIsDrained, ReleasedIsClosed

-----------------------------------------------------------------------------
(***************************************************************************)
(* The steps of execute.                                                   *)
(***************************************************************************)

\* Moves that touch neither the lock nor the gate nor the gauge.
PlainMove(c) ==
    \/ Invoke(c) \/ Refuse(c) \/ CutShort(c) \/ BeforeHooksReturn(c) \/ Shed(c)

\* The moves of a command that touch neither lock nor gate.
LEMMA PlainMoveLInv ==
    ASSUME LInv, NEW c \in Callers, PlainMove(c)
    PROVE  LInv'
<1>1. pc \in [Callers -> Locations]
  BY DEF LInv, TypeOK
<1>2. PICK place \in Locations :
        /\ MoveTo(c, place)
        /\ pc[c] \in Inside <=> place \in Inside
        /\ pc[c] \notin SlotHeld /\ place \notin SlotHeld
  BY DEF PlainMove, Invoke, Refuse, CutShort, BeforeHooksReturn, Shed, Inside, SlotHeld,
         Locations
<1>3. UNCHANGED <<closePc, readers, writer, closed, slots, inflight, backendClosed>>
  BY DEF PlainMove, Invoke, Refuse, CutShort, BeforeHooksReturn, Shed
<1>4. At(Inside)' = At(Inside)
  <2>1. c \in At(Inside) <=> place \in Inside
    BY <1>2 DEF At
  <2>2. At(Inside)' = IF place \in Inside THEN At(Inside) \union {c} ELSE At(Inside) \ {c}
    BY <1>1, <1>2, Move
  <2> QED BY <2>1, <2>2
<1>5. Cardinality(At(SlotHeld)') = Cardinality(At(SlotHeld))
  BY <1>1, <1>2, Move
<1>6. Cardinality(At({"executing"})') = Cardinality(At({"executing"}))
  BY <1>1, <1>2, Move DEF SlotHeld
<1>7. TypeOK'
  BY <1>1, <1>2, <1>3 DEF LInv, TypeOK, MoveTo
<1> QED
  BY <1>3, <1>4, <1>5, <1>6, <1>7
  DEF LInv, ReadersInside, SlotsAccounted, ClosedIsDrained, ReleasedIsClosed

\* Entry and return: the lock's readers follow the caller.
LEMMA LockMoveLInv ==
    ASSUME LInv, NEW c \in Callers, Enter(c) \/ Leave(c)
    PROVE  LInv'
<1>1. pc \in [Callers -> Locations]
  BY DEF LInv, TypeOK
<1>2. PICK place \in Locations :
        /\ MoveTo(c, place)
        /\ readers' = IF place \in Inside THEN readers \union {c} ELSE readers \ {c}
        /\ pc[c] \notin SlotHeld /\ place \notin SlotHeld
        /\ place \in Inside => ~closed
  BY DEF Enter, Leave, Inside, SlotHeld, Locations
<1>3. UNCHANGED <<closePc, writer, closed, slots, inflight, backendClosed>>
  BY DEF Enter, Leave
<1>4. ReadersInside'
  BY <1>1, <1>2, Move DEF LInv, ReadersInside
<1>5. Cardinality(At(SlotHeld)') = Cardinality(At(SlotHeld))
  BY <1>1, <1>2, Move
<1>6. Cardinality(At({"executing"})') = Cardinality(At({"executing"}))
  BY <1>1, <1>2, Move DEF SlotHeld
<1>7. TypeOK'
  BY <1>1, <1>2, <1>3 DEF LInv, TypeOK, MoveTo
<1>8. ClosedIsDrained'
  BY <1>2, <1>3 DEF LInv, ClosedIsDrained
<1> QED
  BY <1>3, <1>4, <1>5, <1>6, <1>7, <1>8 DEF LInv, SlotsAccounted, ReleasedIsClosed

\* Moves through the gate and around the executor.
LEMMA GateMoveLInv ==
    ASSUME LInv, NEW c \in Callers,
           AcquireSlot(c) \/ Begin(c) \/ Finish(c) \/ AfterHooksReturn(c)
    PROVE  LInv'
<1>1. pc \in [Callers -> Locations] /\ slots \in 0..MaxInflight
      /\ slots = Cardinality(At(SlotHeld)) /\ inflight = Cardinality(At({"executing"}))
      /\ slots \in Nat /\ inflight \in Nat
  BY ExecutingHoldSlots DEF LInv, TypeOK, SlotsAccounted
<1>2. PICK place \in Locations : MoveTo(c, place) /\ pc[c] \in Inside /\ place \in Inside
  BY DEF AcquireSlot, Begin, Finish, AfterHooksReturn, Inside, Locations
<1>3. UNCHANGED <<closePc, readers, writer, closed, backendClosed>>
  BY DEF AcquireSlot, Begin, Finish, AfterHooksReturn
<1>4. At(Inside)' = At(Inside)
  BY <1>1, <1>2, Move DEF At
<1>5. slots' = Cardinality(At(SlotHeld)') /\ slots' <= MaxInflight
      /\ inflight' = Cardinality(At({"executing"})')
  <2> USE LifecycleAssumption, <1>1
  <2>1. CASE AcquireSlot(c)
    <3>1. /\ pc[c] = "acquiring" /\ MoveTo(c, "admitted")
          /\ slots' = slots + 1 /\ slots < MaxInflight /\ inflight' = inflight
      BY <2>1 DEF AcquireSlot
    <3>2. Cardinality(At(SlotHeld)') = slots + 1
      BY <3>1, Move DEF SlotHeld
    <3>3. Cardinality(At({"executing"})') = inflight
      BY <3>1, Move
    <3> QED BY <3>1, <3>2, <3>3
  <2>2. CASE Begin(c)
    <3>1. /\ pc[c] = "admitted" /\ MoveTo(c, "executing")
          /\ slots' = slots /\ inflight' = inflight + 1
      BY <2>2 DEF Begin
    <3>2. Cardinality(At(SlotHeld)') = slots
      BY <3>1, Move DEF SlotHeld
    <3>3. Cardinality(At({"executing"})') = inflight + 1
      BY <3>1, Move
    <3> QED BY <3>1, <3>2, <3>3
  <2>3. CASE Finish(c)
    <3>1. /\ pc[c] = "executing" /\ MoveTo(c, "after")
          /\ slots' = slots /\ inflight' = inflight - 1
      BY <2>3 DEF Finish
    <3>2. Cardinality(At(SlotHeld)') = slots
      BY <3>1, Move DEF SlotHeld
    <3>3. Cardinality(At({"executing"})') = inflight - 1
      BY <3>1, Move
    <3> QED BY <3>1, <3>2, <3>3
  <2>4. CASE AfterHooksReturn(c)
    <3>1. /\ pc[c] = "after" /\ MoveTo(c, "leaving")
          /\ slots' = slots - 1 /\ inflight' = inflight
      BY <2>4 DEF AfterHooksReturn
    <3>2. Cardinality(At(SlotHeld)') = slots - 1
      BY <3>1, Move DEF SlotHeld
    <3>3. Cardinality(At({"executing"})') = inflight
      BY <3>1, Move
    <3> QED BY <3>1, <3>2, <3>3
  <2> QED BY <2>1, <2>2, <2>3, <2>4
<1>6. SlotsAccounted'
  BY <1>5 DEF SlotsAccounted
<1>7. slots' \in 0..MaxInflight /\ inflight' \in 0..MaxInflight
  <2>1. /\ Cardinality(At({"executing"})') <= Cardinality(At(SlotHeld)')
        /\ Cardinality(At({"executing"})') \in Nat
        /\ Cardinality(At(SlotHeld)') \in Nat
    <3>1. IsFiniteSet(At(SlotHeld)')
      BY LifecycleAssumption, FS_Subset DEF At
    <3>2. At({"executing"})' \in SUBSET (At(SlotHeld)')
      BY DEF At, SlotHeld
    <3> QED BY <3>1, <3>2, FS_Subset, FS_CardinalityType
  <2> QED BY <1>5, <2>1, LifecycleAssumption
<1>8. TypeOK'
  BY <1>1, <1>2, <1>3, <1>7 DEF LInv, TypeOK, MoveTo
<1> QED
  BY <1>3, <1>4, <1>6, <1>8 DEF LInv, ReadersInside, ClosedIsDrained, ReleasedIsClosed

-----------------------------------------------------------------------------
(***************************************************************************)
(* The steps of Close.                                                     *)
(***************************************************************************)

\* Close's steps.
LEMMA CloseLInv ==
    ASSUME LInv, NEW k \in Closers, RequestClose(k) \/ CloseStep(k)
    PROVE  LInv'
<1>1. UNCHANGED <<pc, readers, slots, inflight>>
  BY DEF RequestClose, CloseStep, Announce, SetClosed, CloseBackend
<1>2. SlotsAccounted' /\ ReadersInside'
  BY <1>1 DEF LInv, SlotsAccounted, ReadersInside, At
<1>3. TypeOK'
  BY <1>1 DEF LInv, TypeOK, CloseLocations, RequestClose, CloseStep, Announce, SetClosed,
              CloseBackend, CloserTo
<1>4. ClosedIsDrained'
  BY <1>1 DEF LInv, ClosedIsDrained, RequestClose, CloseStep, Announce, SetClosed,
              CloseBackend
<1>5. ReleasedIsClosed'
  BY DEF LInv, TypeOK, ReleasedIsClosed, RequestClose, CloseStep, Announce, SetClosed,
         CloseBackend, CloserTo
<1> QED
  BY <1>2, <1>3, <1>4, <1>5 DEF LInv

\* Every step keeps the invariant.
LEMMA NextLInv == LInv /\ [Next]_vars => LInv'
<1> SUFFICES ASSUME LInv, [Next]_vars PROVE LInv'
  OBVIOUS
<1>1. ASSUME NEW c \in Callers, PlainMove(c) PROVE LInv'
  BY <1>1, PlainMoveLInv
<1>2. ASSUME NEW c \in Callers, Enter(c) \/ Leave(c) PROVE LInv'
  BY <1>2, LockMoveLInv
<1>3. ASSUME NEW c \in Callers,
             AcquireSlot(c) \/ Begin(c) \/ Finish(c) \/ AfterHooksReturn(c)
      PROVE  LInv'
  BY <1>3, GateMoveLInv
<1>4. ASSUME NEW k \in Closers, RequestClose(k) \/ CloseStep(k) PROVE LInv'
  BY <1>4, CloseLInv
<1>5. CASE UNCHANGED vars
  BY <1>5 DEF vars, LInv, TypeOK, ReadersInside, SlotsAccounted, At, ClosedIsDrained,
              ReleasedIsClosed
<1> QED
  BY <1>1, <1>2, <1>3, <1>4, <1>5 DEF Next, Advance, PlainMove

\* The inductive invariant holds in every reachable state.
THEOREM LifecycleInvariance == Spec => []LInv
  BY InitLInv, NextLInv, PTL DEF Spec

-----------------------------------------------------------------------------

\* Every variable keeps its type; the gate and the gauge stay within its limit.
THEOREM LifecycleTypeCorrect == Spec => []TypeOK
<1>1. LInv => TypeOK
  BY DEF LInv
<1> QED BY <1>1, LifecycleInvariance, PTL

\* When the backend is closed, no command is inside the client, whatever hooks
\* and concurrent Closes there are.
THEOREM DrainedAtRelease == Spec => []DrainedBeforeRelease
<1>1. LInv => DrainedBeforeRelease
  BY DEF LInv, ReleasedIsClosed, ClosedIsDrained, ReadersInside, DrainedBeforeRelease
<1> QED BY <1>1, LifecycleInvariance, PTL

\* On every path through execute the gate's slots and the gauge are exact.
THEOREM SlotsAlwaysAccounted == Spec => []SlotsAccounted
<1>1. LInv => SlotsAccounted
  BY DEF LInv
<1> QED BY <1>1, LifecycleInvariance, PTL

-----------------------------------------------------------------------------
(***************************************************************************)
(* ClientLifecycle implements DrainContract.                               *)
(***************************************************************************)

\* Every step of the client is one of the contract or none.
LEMMA StepKeepsContract ==
    ASSUME LInv, [Next]_vars
    PROVE  [Contract!ContractNext]_<<readers, closed, backendClosed>>
<1> USE DEF Contract!ContractNext, Contract!contractVars
<1>1. ASSUME NEW c \in Callers, PlainMove(c)
      PROVE  UNCHANGED <<readers, closed, backendClosed>>
  BY <1>1 DEF PlainMove, Invoke, Refuse, CutShort, BeforeHooksReturn, Shed
<1>2. ASSUME NEW c \in Callers, Enter(c) PROVE Contract!Come(c)
  BY <1>2 DEF Enter, Contract!Come
<1>3. ASSUME NEW c \in Callers, Leave(c) PROVE Contract!Go(c)
  BY <1>3 DEF Leave, Contract!Go, LInv, ReadersInside, At, Inside, Locations
<1>4. ASSUME NEW c \in Callers,
             AcquireSlot(c) \/ Begin(c) \/ Finish(c) \/ AfterHooksReturn(c)
      PROVE  UNCHANGED <<readers, closed, backendClosed>>
  BY <1>4 DEF AcquireSlot, Begin, Finish, AfterHooksReturn
<1>5. ASSUME NEW k \in Closers, RequestClose(k) \/ Announce(k)
      PROVE  UNCHANGED <<readers, closed, backendClosed>>
  BY <1>5 DEF RequestClose, Announce
<1>6. ASSUME NEW k \in Closers, SetClosed(k) PROVE Contract!Shut
  BY <1>6 DEF SetClosed, Contract!Shut
<1>7. ASSUME NEW k \in Closers, CloseBackend(k) PROVE Contract!Release
  BY <1>7 DEF CloseBackend, Contract!Release, LInv, ReleasedIsClosed
<1>8. CASE UNCHANGED vars
  BY <1>8 DEF vars
<1> QED
  BY <1>1, <1>2, <1>3, <1>4, <1>5, <1>6, <1>7, <1>8
  DEF Next, Advance, CloseStep, PlainMove

\* Every behaviour of the client is one that the shutdown contract allows.
THEOREM ContractKept == Spec => KeepsContract
<1>1. Init => Contract!ContractInit
  BY DEF Init, Contract!ContractInit
<1>2. LInv /\ [Next]_vars => [Contract!ContractNext]_<<readers, closed, backendClosed>>
  BY StepKeepsContract
<1> QED
  BY <1>1, <1>2, LifecycleInvariance, PTL
  DEF Spec, KeepsContract, Contract!ContractSpec, Contract!contractVars

=============================================================================
