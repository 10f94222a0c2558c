--------------------------- MODULE MCBreakerGauge ---------------------------
(***************************************************************************)
(* Finite instances of BreakerGauge for TLC.                               *)
(***************************************************************************)
EXTENDS BreakerGauge, TLC

CallSymmetry == Permutations(Calls)

=============================================================================
