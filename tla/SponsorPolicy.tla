---------------------------- MODULE SponsorPolicy ----------------------------
(***************************************************************************)
(* The daily limits of gas-free trades: createGaslessTradeEscrow counts    *)
(* the sponsored escrows of the wallet and of all wallets, then waits for  *)
(* collateralMu, has the escrow sent, and records it.  The counts are not  *)
(* taken again, and what becomes of the record is not looked at.           *)
(*                                                                         *)
(* A day is a state of its own: the counts of the one before are gone.     *)
(* The balance of the sponsor, and the checks on the quote and its         *)
(* collateral, refuse a request and change nothing here.                   *)
(***************************************************************************)
EXTENDS Integers, FiniteSetsExt

CONSTANTS
    Wallets,
    Sponsored,       \* concurrently served POST /trades/gasless-escrow
    NoWallet,
    Policies,        \* the policies an administrator may set
    DefaultPolicy,   \* the one in force when none can be read
    MaxUnrecorded    \* bounds the records that are lost in a day

ASSUME SponsorAssumption ==
    /\ NoWallet \notin Wallets /\ IsFiniteSet(Wallets)
    /\ Sponsored # {} /\ IsFiniteSet(Sponsored)
    /\ Policies \subseteq [wallet : Nat \ {0}, global : Nat \ {0}]
    /\ DefaultPolicy \in Policies
    /\ MaxUnrecorded \in Nat

VARIABLES
    policy,       \* the sponsor policy that is set, by default the default one
    escrows,      \* the SponsoredTradeEscrow nodes of each wallet, of today
    sponsoring,   \* the local state of every request
    sent,         \* the escrows sponsored today
    unrecorded,   \* those of them that have no node
    loosest       \* the loosest limits a request has gone by today

sponsorVars == <<policy, escrows, sponsoring, sent, unrecorded, loosest>>

----------------------------------------------------------------------------
(* Types *)

Limits == [wallet : Nat \ {0}, global : Nat \ {0}]
NotSponsoring == [pc |-> "idle", wallet |-> NoWallet,
                  policy |-> [wallet |-> 1, global |-> 1]]

SponsorTypeOK ==
    /\ policy \in Policies
    /\ escrows \in [Wallets -> Nat]
    /\ sponsoring \in [Sponsored ->
          [pc : {"idle", "wallet", "global", "allowed", "record"},
           wallet : Wallets \cup {NoWallet}, policy : Limits]]
    /\ sent \in [Wallets -> Nat]
    /\ unrecorded \in [Wallets -> 0 .. MaxUnrecorded]
    /\ loosest \in Limits

SponsorInit ==
    /\ policy \in Policies
    /\ escrows = [u \in Wallets |-> 0]
    /\ sponsoring = [r \in Sponsored |-> NotSponsoring]
    /\ sent = [u \in Wallets |-> 0]
    /\ unrecorded = [u \in Wallets |-> 0]
    /\ loosest = policy

----------------------------------------------------------------------------
(* Helpers *)

OfAll(count) == MapThenSumSet(LAMBDA u : count[u], Wallets)

Goes(r, pc) == sponsoring' = [sponsoring EXCEPT ![r].pc = pc]
Ends(r) == sponsoring' = [sponsoring EXCEPT ![r] = NotSponsoring]

Loosest(policies) == [wallet |-> Max({p.wallet : p \in policies}),
                      global |-> Max({p.global : p \in policies})]

----------------------------------------------------------------------------
(* createGaslessTradeEscrow *)

\* enforceSponsorPolicy: sponsorPolicy is read once.  When the setting cannot be
\* read, the request goes by the default limits, be they looser or tighter.
ReadSponsorPolicy(r, u) ==
    /\ sponsoring[r].pc = "idle"
    /\ \E read \in {policy, DefaultPolicy} :
          /\ sponsoring' = [sponsoring EXCEPT ![r] =
                [pc |-> "wallet", wallet |-> u, policy |-> read]]
          /\ loosest' = Loosest({loosest, read})
    /\ UNCHANGED <<policy, escrows, sent, unrecorded>>

\* Mutant: one trade too many.
OneBeyond(count, limit) == count <= limit

Below(count, limit) == count < limit

CountSponsoredEscrows(r) ==
    /\ sponsoring[r].pc = "wallet"
    /\ IF Below(escrows[sponsoring[r].wallet], sponsoring[r].policy.wallet)
       THEN Goes(r, "global") ELSE Ends(r)
    /\ UNCHANGED <<policy, escrows, sent, unrecorded, loosest>>

CountGlobalSponsoredEscrows(r) ==
    /\ sponsoring[r].pc = "global"
    /\ IF Below(OfAll(escrows), sponsoring[r].policy.global)
       THEN Goes(r, "allowed") ELSE Ends(r)
    /\ UNCHANGED <<policy, escrows, sent, unrecorded, loosest>>

Loses(u) ==
    /\ unrecorded[u] < MaxUnrecorded
    /\ unrecorded' = [unrecorded EXCEPT ![u] = @ + 1]

\* collateralMu is taken, and TransferERC20WithPermit accepts the escrow; or it
\* reports an error although it was sent.
SendSponsoredEscrow(r) ==
    LET u == sponsoring[r].wallet IN
    /\ sponsoring[r].pc = "allowed"
    /\ \A other \in Sponsored : sponsoring[other].pc # "record"
    /\ sent' = [sent EXCEPT ![u] = @ + 1]
    /\ \/ Goes(r, "record") /\ UNCHANGED unrecorded
       \/ Ends(r) /\ Loses(u)
    /\ UNCHANGED <<policy, escrows, loosest>>

CreateSponsoredEscrow(r) ==
    /\ sponsoring[r].pc = "record"
    /\ escrows' = [escrows EXCEPT ![sponsoring[r].wallet] = @ + 1]
    /\ Ends(r)
    /\ UNCHANGED <<policy, sent, unrecorded, loosest>>

\* A check refuses the request, the store fails, or the server stops.
SponsoringFails(r) ==
    /\ sponsoring[r].pc # "idle"
    /\ Ends(r)
    /\ IF sponsoring[r].pc = "record" THEN Loses(sponsoring[r].wallet)
       ELSE UNCHANGED unrecorded
    /\ UNCHANGED <<policy, escrows, sent, loosest>>

----------------------------------------------------------------------------
(* The administrator, and midnight *)

AdminUpdateSponsorPolicy(new) ==
    /\ policy' = new
    /\ UNCHANGED <<escrows, sponsoring, sent, unrecorded, loosest>>

\* Requests go by the policy they have read.  One that has fixed its day before
\* midnight counts two days' escrows, and is refused more often than here.
DayPasses ==
    /\ escrows' = [u \in Wallets |-> 0]
    /\ sent' = [u \in Wallets |-> 0]
    /\ unrecorded' = [u \in Wallets |-> 0]
    /\ loosest' = Loosest({policy} \cup {sponsoring[r].policy : r \in Sponsored})
    /\ UNCHANGED <<policy, sponsoring>>

----------------------------------------------------------------------------
(* Specification *)

SponsorNext ==
    \/ \E r \in Sponsored :
          \/ \E u \in Wallets : ReadSponsorPolicy(r, u)
          \/ CountSponsoredEscrows(r)
          \/ CountGlobalSponsoredEscrows(r)
          \/ SendSponsoredEscrow(r)
          \/ CreateSponsoredEscrow(r)
          \/ SponsoringFails(r)
    \/ \E new \in Policies : AdminUpdateSponsorPolicy(new)
    \/ DayPasses

SponsorSpec == SponsorInit /\ [][SponsorNext]_sponsorVars

----------------------------------------------------------------------------
(* Properties *)

\* "daily gas-free trade limit reached for this wallet", and for all of them
\* (enforceSponsorPolicy): counts that are stale when the escrow is sent pass the
\* limits by one for every other request under way and every lost record, and by
\* no more, across changes of the policy and midnight.  The limits are the loosest
\* that were set that day or, once a request could not read them, the default ones
\* if these are looser: a tight policy does not bind such a request.
SponsoredWithinLimits ==
    LET others == Cardinality(Sponsored) - 1 IN
    /\ \A u \in Wallets : sent[u] <= loosest.wallet + others + unrecorded[u]
    /\ OfAll(sent) <= loosest.global + others + OfAll(unrecorded)

=============================================================================
