----------------------------- MODULE MCMarkets -----------------------------
(***************************************************************************)
(* Instances of Markets for TLC.                                           *)
(***************************************************************************)
EXTENDS Markets, TLC

CONSTANTS p1, p2, u1, e1, e2, t1, t2, t3, r1, r2, a1, a2

\* Every escrow is the one user's: sharing an escrow and merging positions need
\* trades of one user.
OneUser == [e \in Escrows |-> u1]

\* p1 opens at even odds, p2 with the market maker holding one "yes" share.
EvenAndTilted ==
    p1 :> [yes |-> 0, no |-> 0] @@ p2 :> [yes |-> 1, no |-> 0]
Even == p1 :> [yes |-> 0, no |-> 0]

\* Freeze the trading; mark as resolved by hand.
FreezeResolve ==
    {[status |-> "published", frozen |-> TRUE, over |-> FALSE, outcome |-> "none"],
     [status |-> "resolved", frozen |-> FALSE, over |-> FALSE, outcome |-> "a"]}
\* Resolve, cancel, or publish again.  Users trade on both sides, so outcome "b"
\* is outcome "a" with the sides exchanged; an administrator's pause and draft
\* close a market to trading just as the end of its time does.
ResolveCancelPublish ==
    {<<"resolved", "a">>, <<"cancelled", "none">>, <<"published", "none">>}

NoEdits == {}

\* Only the first market ends by its time, the one administrators work on.
SecondStaysOpen == ~polls[p2].over

\* Requests and escrows carry no identity of their own; trades are taken with
\* CHOOSE and markets differ in their initial shares.
Symmetry == Permutations(Requests) \cup Permutations(Escrows)

=============================================================================
