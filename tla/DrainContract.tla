---------------------------- MODULE DrainContract ----------------------------
(***************************************************************************)
(* What RedisClient promises about shutdown, without locks, hooks or       *)
(* admission: commands enter and leave while the client is open; the       *)
(* client shuts at an instant when no command is inside, lets none in      *)
(* afterwards, and only then releases the backend.                         *)
(* ClientLifecycle is shown to implement this.                             *)
(***************************************************************************)
CONSTANT Callers

VARIABLES
    active,     \* the callers inside the client
    shut,       \* no command may enter any more
    released    \* the backend has been closed

contractVars == <<active, shut, released>>

ContractInit ==
    /\ active = {}
    /\ shut = FALSE
    /\ released = FALSE

Come(c) ==
    /\ ~shut
    /\ active' = active \union {c}
    /\ UNCHANGED <<shut, released>>

Go(c) ==
    /\ c \in active
    /\ active' = active \ {c}
    /\ UNCHANGED <<shut, released>>

Shut ==
    /\ active = {}
    /\ shut' = TRUE
    /\ UNCHANGED <<active, released>>

Release ==
    /\ shut
    /\ released' = TRUE
    /\ UNCHANGED <<active, shut>>

ContractNext ==
    \/ \E c \in Callers : Come(c) \/ Go(c)
    \/ Shut
    \/ Release

ContractSpec == ContractInit /\ [][ContractNext]_contractVars

=============================================================================
