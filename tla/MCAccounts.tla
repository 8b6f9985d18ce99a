----------------------------- MODULE MCAccounts -----------------------------
(***************************************************************************)
(* Accounts alone, for TLC: one user who logs in with Google, one login at *)
(* a time, and no signed challenges.                                       *)
(***************************************************************************)
EXTENDS Accounts

CONSTANTS g1, u1, c1, o1, o2

TheOwner == [u \in Users |-> g1]

NoChallenges == [n \in Nonces |-> g1]

=============================================================================
