-------------------------- MODULE MCShieldedQueue --------------------------
(***************************************************************************)
(* Instances of ShieldedQueue for TLC.                                     *)
(***************************************************************************)
EXTENDS ShieldedQueue

CONSTANTS w1, k1, k2, a1

=============================================================================
