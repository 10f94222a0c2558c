------------------------------ MODULE MCRedlock ------------------------------
(***************************************************************************)
(* Finite instances of Redlock for TLC.  Times are microseconds.           *)
(***************************************************************************)
EXTENDS Redlock, TLC

LockerSymmetry == Permutations(Lockers)

\* With 1001 ms, of which SET stores 1000, the validity is 988.99 ms and the
\* nodes use up the whole allowance; with 501 ms it is 493.99 ms.
SafetyDrift == [t \in {1001000, 501000} |-> IF t = 1001000 THEN 11010 ELSE 6505]

RetriesDrift == [t \in {TTL} |-> 2300]

\* A tenth of the ttl.
TenPercent == [t \in ExtendTTLs \union {TTL} |-> t \div 10]

\* Perfect clocks.
NoDrift == [t \in ExtendTTLs \union {TTL} |-> 0]

=============================================================================
