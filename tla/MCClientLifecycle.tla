-------------------------- MODULE MCClientLifecycle --------------------------
(***************************************************************************)
(* Finite instances of ClientLifecycle for TLC: up to four callers, one of *)
(* them a hook of another's command.                                       *)
(***************************************************************************)
EXTENDS ClientLifecycle, TLC

CONSTANTS c1, c2, c3, c4

\* The hooks of c1's command issue the commands of c3.
OneHook == c3 :> c1

=============================================================================
