------------------------------ MODULE KVContract ------------------------------
(***************************************************************************)
(* What the mock backend promises of its string keys: one map from keys to *)
(* values in which every command is a single step, and in which a key with *)
(* a time to live vanishes at some instant, for all commands at once.      *)
(* MockStore, which keeps expired entries until somebody touches them, is  *)
(* shown to implement this.                                                *)
(***************************************************************************)
EXTENDS Integers, Sequences, SequencesExt, FiniteSets

CONSTANTS
    Keys,       \* the keys
    KeyLists,   \* the argument lists of the commands on several keys
    Writes,     \* the maps that SET and MSET store
    Missing,    \* the value read from a key that is not there
    Refused     \* the answer of a command that reports an error

VARIABLES
    db,         \* the value of each key, or Missing
    mortal,     \* the keys that have a time to live
    reply       \* the answer of the last command

contractVars == <<db, mortal, reply>>

Present(k) == db[k] # Missing

Erased(ks) == [k \in Keys |-> IF k \in ks THEN Missing ELSE db[k]]

ContractInit ==
    /\ db = [k \in Keys |-> Missing]
    /\ mortal = {}
    /\ reply = <<>>

Vanish(k) ==
    /\ k \in mortal
    /\ db' = Erased({k})
    /\ mortal' = mortal \ {k}
    /\ UNCHANGED reply

Read(ks) ==
    /\ reply' = [i \in DOMAIN ks |-> db[ks[i]]]
    /\ UNCHANGED <<db, mortal>>

CountPresent(ks) ==
    /\ reply' = <<Cardinality({i \in DOMAIN ks : Present(ks[i])})>>
    /\ UNCHANGED <<db, mortal>>

Age(k) ==
    /\ reply' = <<IF ~Present(k) THEN -2 ELSE IF k \in mortal THEN 1 ELSE -1>>
    /\ UNCHANGED <<db, mortal>>

Write(f) ==
    /\ db' = [k \in Keys |-> IF k \in DOMAIN f THEN f[k] ELSE db[k]]
    /\ \/ mortal' = mortal \ DOMAIN f
       \/ mortal' = mortal \union DOMAIN f
    /\ reply' = <<>>

Erase(ks) ==
    /\ reply' = <<Cardinality({k \in ToSet(ks) : Present(k)})>>
    /\ db' = Erased(ToSet(ks))
    /\ mortal' = mortal \ ToSet(ks)

\* A time to live that is already over removes the key at once.
Limit(k) ==
    /\ reply' = <<IF Present(k) THEN 1 ELSE 0>>
    /\ \/ /\ mortal' = IF Present(k) THEN mortal \union {k} ELSE mortal
          /\ UNCHANGED db
       \/ /\ mortal' = mortal \ {k}
          /\ db' = Erased({k})

\* A counter starts from 0 and has no time to live afterwards.
Bump(k, d) ==
    LET n == (IF Present(k) THEN db[k] ELSE 0) + d IN
    /\ db' = [db EXCEPT ![k] = n]
    /\ mortal' = mortal \ {k}
    /\ reply' = <<n>>

\* A page of a scan names keys that are present, each at most once.
Page ==
    /\ \E ks \in KeyLists \union {<<>>} :
          /\ \A i \in DOMAIN ks : Present(ks[i])
          /\ \A i, j \in DOMAIN ks : i < j => ks[i] < ks[j]
          /\ reply' = ks
    /\ UNCHANGED <<db, mortal>>

Refuse ==
    /\ reply' = Refused
    /\ UNCHANGED <<db, mortal>>

ContractNext ==
    \/ \E k \in Keys : Vanish(k) \/ Age(k) \/ Limit(k) \/ Bump(k, 1) \/ Bump(k, -1)
    \/ \E ks \in KeyLists : Read(ks) \/ CountPresent(ks) \/ Erase(ks)
    \/ \E f \in Writes : Write(f)
    \/ Page \/ Refuse

ContractSpec == ContractInit /\ [][ContractNext]_contractVars

=============================================================================
