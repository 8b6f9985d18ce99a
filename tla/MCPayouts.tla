----------------------------- MODULE MCPayouts -----------------------------
(***************************************************************************)
(* Instances of Payouts for TLC.  Two trades are enough for every conflict *)
(* between two requests: on one trade, or on one user's two trades through *)
(* a settlement retry.                                                     *)
(***************************************************************************)
EXTENDS Payouts, TLC

CONSTANTS t1, t2, u1, u2, n1, n2, h1, h2, k1, k2, x0, x1, x2, x3, x4

\* A winning trade and a cashed out one whose transfer is x0.
WonAndCashedOut == t1 :> "won" @@ t2 :> "cashed_out"
CashoutX0 == t2 :> x0

\* Two trades that pay, or one that pays and one that does not.
WonAndCancelled == t1 :> "won" @@ t2 :> "cancelled"
WonAndLost == t1 :> "won" @@ t2 :> "lost"
OneWon == t1 :> "won"
NoCashout == <<>>

TwoOwners == t1 :> u1 @@ t2 :> u2
OneOwner == t1 :> u1 @@ t2 :> u1
OwnerOfOne == t1 :> u1

AllDirect == t1 :> "direct" @@ t2 :> "direct"
ShieldedAndDirect == t1 :> "shielded" @@ t2 :> "direct"
OneShielded == t1 :> "shielded"
OneDirect == t1 :> "direct"

\* Requests and nullifiers carry no identity of their own.  Transactions, notes
\* and users are picked with CHOOSE or named in the constants, so they are left
\* out.
Symmetry == Permutations(Handlers) \cup Permutations(Nullifiers)

=============================================================================
