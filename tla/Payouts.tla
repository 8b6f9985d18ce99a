------------------------------ MODULE Payouts ------------------------------
(***************************************************************************)
(* Paying the trades of one settled market.                                *)
(*                                                                         *)
(* A settled trade is paid by the user's own claim (claimPublicPayout,     *)
(* claimPrivatePayout), by an administrator's retry                        *)
(* (adminRetryPrivateClaimPayout, adminRetrySettlementPayout), and its     *)
(* recorded payout status is corrected by two reconciliations.  Every      *)
(* handler is a sequence of store transactions and gateway calls with      *)
(* nothing held across them except, around the gateway, collateralMu.      *)
(*                                                                         *)
(* A payout is a set of units (Notes): a direct transfer moves all the     *)
(* units of a trade at once, a shielded credit moves one unit per note.    *)
(***************************************************************************)
EXTENDS Naturals, Sequences

CONSTANTS
    Trades,              \* the settled trades of the market
    Users,               \* the users that placed them
    Notes,               \* the units (shielded denominations) of one payout
    Nullifiers,          \* nullifier hashes claims may carry
    Handlers,            \* concurrently served requests
    TxId,                \* gateway transactions: bounds the calls accepted
    None,                \* no trade, no nullifier, or collateralMu unlocked
    Outcome,             \* Outcome[t]: how the settlement left trade t
    Owner,               \* Owner[t]: the user that placed trade t
    Wallets,             \* users whose wallet address is a valid EVM address
    CashoutTx,           \* CashoutTx[t]: the transfer of a cashed out trade
    PrivateMode,         \* PrivateMode[t]: the payout of a private claim on t
    DirectFallback,      \* cfg.ShieldedPayoutDirectFallback
    RegistryConfigured,  \* privateClaimRegistryConfigured()
    AwaitDeposits,       \* cfg.ShieldedPayoutRequired
    DirtyErrors          \* may a gateway error follow the broadcast?

Outcomes == {"won", "cancelled", "lost", "cashed_out"}
PrivateModes == {"direct", "shielded", "refused"}

CashedOut == {t \in Trades : Outcome[t] = "cashed_out"}

ASSUME PayoutsAssumption ==
    /\ None \notin Trades \cup Nullifiers \cup Handlers
    /\ Notes # {}
    /\ Outcome \in [Trades -> Outcomes]
    /\ Owner \in [Trades -> Users]
    /\ Wallets \subseteq Users
    /\ CashoutTx \in [CashedOut -> TxId]
    /\ \A s, t \in CashedOut : CashoutTx[s] = CashoutTx[t] => s = t
    /\ PrivateMode \in [Trades -> PrivateModes]
    /\ {DirectFallback, RegistryConfigured, AwaitDeposits, DirtyErrors}
          \subseteq BOOLEAN

VARIABLES
    trades,      \* the Trade nodes: payout status, transaction ids, claim
    claims,      \* the PrivateClaim nodes, by trade and nullifier hash
    pollTxs,     \* the poll's settlementPayoutTransactionIds
    handlers,    \* the local state of every request being served
    mutex,       \* the handler that holds collateralMu
    chain        \* what the gateway broadcast and the chain decided

vars == <<trades, claims, pollTxs, handlers, mutex, chain>>

----------------------------------------------------------------------------
(* Types *)

PayoutStatuses == {"none", "claimable", "claim_pending", "submitted", "sent",
                   "failed", "claim_failed"}
ClaimKinds == {"direct", "private"}
AdminKinds == {"privateRetry", "privateReconcile",
               "settlementRetry", "settlementReconcile"}
Steps == {"idle", "reserve", "register", "pay", "approve", "approved", "deposit",
          "deposited", "send", "wait", "record"}

NoClaim == [status |-> "unused", registry |-> "none", txs |-> <<>>]
Idle == [pc |-> "idle", kind |-> "direct", trade |-> None,
         nullifier |-> None, todo |-> {}, txs |-> <<>>, status |-> "none"]
Unused == [pays |-> {}, state |-> "unused"]

TradeStates == [payoutStatus : PayoutStatuses, txs : Seq(TxId),
                claim : Nullifiers \cup {None}]
ClaimStates == [status : {"unused", "reserved", "failed", "submitted"},
                registry : {"none", "submitted", "failed"}, txs : Seq(TxId)]
HandlerStates == [pc : Steps, kind : ClaimKinds \cup AdminKinds,
                  trade : Trades \cup {None},
                  nullifier : Nullifiers \cup {None},
                  todo : SUBSET (Users \cup Notes),
                  txs : Seq(TxId), status : PayoutStatuses]
TxStates == [pays : SUBSET (Trades \X Notes),
             state : {"unused", "pending", "confirmed", "failed"}]

TypeOK ==
    /\ trades \in [Trades -> TradeStates]
    /\ claims \in [Trades -> [Nullifiers -> ClaimStates]]
    /\ pollTxs \in Seq(TxId)
    /\ handlers \in [Handlers -> HandlerStates]
    /\ mutex \in Handlers \cup {None}
    /\ chain \in [TxId -> TxStates]

----------------------------------------------------------------------------
(* Settled trades, transactions and the state settlement leaves *)

\* settlementPayout > 0: the trade won, was cancelled, or was cashed out.
Payable(t) == Outcome[t] # "lost"

UnitsOf(ts) == ts \X Notes

\* The receipt waitForWalletOpsTransactionStatus and
\* walletopsTransactionStatus turn into a payout status; a status request
\* that fails, or is not final yet, reads as "submitted".
TransactionStatus(x) ==
    {"submitted"} \cup
    CASE chain[x].state = "confirmed" -> {"sent"}
      [] chain[x].state = "failed" -> {"failed"}
      [] OTHER -> {}

\* Mutant: the receipt's own word is stored.
RawStatus(txs) == IF txs = <<>> THEN {"submitted"} ELSE {chain[txs[1]].state}

\* Mutant: a transfer that was accepted counts as sent.
SentWhenAccepted(txs) == {"sent"}

\* Only the first transaction id is ever looked at.
WaitedStatus(txs) ==
    IF txs = <<>> THEN {"submitted"} ELSE TransactionStatus(txs[1])

\* What CashoutPosition records for a transfer in a given state.
CashoutStatus(state) ==
    CASE state = "confirmed" -> "sent"
      [] state = "failed" -> "failed"
      [] OTHER -> "submitted"

InitialPayoutStatus(t, states) ==
    CASE Outcome[t] \in {"won", "cancelled"} -> "claimable"
      [] Outcome[t] = "lost" -> "none"
      [] OTHER -> CashoutStatus(states[t])

Init ==
    \E states \in [CashedOut -> {"pending", "confirmed", "failed"}] :
        /\ trades = [t \in Trades |->
              [payoutStatus |-> InitialPayoutStatus(t, states),
               txs |-> IF t \in CashedOut THEN <<CashoutTx[t]>> ELSE <<>>,
               claim |-> None]]
        /\ chain = [x \in TxId |->
              IF \E t \in CashedOut : CashoutTx[t] = x
              THEN LET t == CHOOSE s \in CashedOut : CashoutTx[s] = x
                   IN  [pays |-> UnitsOf({t}), state |-> states[t]]
              ELSE Unused]
        /\ claims = [t \in Trades |-> [n \in Nullifiers |-> NoClaim]]
        /\ pollTxs = <<>>
        /\ handlers = [h \in Handlers |-> Idle]
        /\ mutex = None

----------------------------------------------------------------------------
(* The gateway: TransferERC20 and ContractWrite *)

\* Ids mean nothing but themselves: a new transaction gets the next free one.
BroadcastAs(x, units, state) ==
    /\ chain[x].state = "unused"
    /\ x = CHOOSE y \in TxId : chain[y].state = "unused"
    /\ chain' = [chain EXCEPT ![x] = [pays |-> units, state |-> state]]

Broadcast(x, units) == BroadcastAs(x, units, "pending")

\* The call returned an error: nothing was broadcast or, with DirtyErrors, a
\* transaction was and the answer that named it is lost.
CallFails(units) ==
    \/ UNCHANGED chain
    \/ DirtyErrors /\ \E x \in TxId : Broadcast(x, units)

Mined(x) ==
    /\ chain[x].state = "pending"
    /\ \E result \in {"confirmed", "failed"} :
          chain' = [chain EXCEPT ![x].state = result]
    /\ UNCHANGED <<trades, claims, pollTxs, handlers, mutex>>

----------------------------------------------------------------------------
(* Helpers over handlers *)

Becomes(h, state) == handlers' = [handlers EXCEPT ![h] = state]

Goto(h, pc) == Becomes(h, [handlers[h] EXCEPT !.pc = pc])

Return(h) == Becomes(h, Idle)

Unlock(h) == mutex' = IF mutex = h THEN None ELSE mutex

\* The payout attempt is over; its result is still to be recorded.
Finish(h, txs, status) ==
    Becomes(h, [handlers[h] EXCEPT !.pc = "record", !.txs = txs,
                                   !.status = status])

----------------------------------------------------------------------------
(* POST /trades/:id/claim: claimPublicPayout *)

\* Mutant: the reservation does not look at the payout status.
ReserveUnconditionally(h, t) ==
    /\ handlers[h].pc = "idle"
    /\ Payable(t)
    /\ trades' = [trades EXCEPT ![t].payoutStatus = "claim_pending"]
    /\ Becomes(h, [Idle EXCEPT !.pc = "pay", !.kind = "direct", !.trade = t])
    /\ UNCHANGED <<claims, pollTxs, mutex, chain>>

\* Mutant: a transfer that is not confirmed yet may be claimed again.
ReserveSubmitted(h, t) ==
    /\ trades[t].payoutStatus \in {"claimable", "claim_failed", "failed", "submitted"}
    /\ ReserveUnconditionally(h, t)

ReserveDirectTradePayout(h, t) ==
    /\ handlers[h].pc = "idle"
    /\ trades[t].payoutStatus \in {"claimable", "claim_failed", "failed"}
    /\ Payable(t)
    /\ trades' = [trades EXCEPT ![t].payoutStatus = "claim_pending"]
    /\ Becomes(h, [Idle EXCEPT !.pc = "pay", !.kind = "direct", !.trade = t])
    /\ UNCHANGED <<claims, pollTxs, mutex, chain>>

CompleteDirectTradePayout(h) ==
    LET t == handlers[h].trade IN
    /\ handlers[h].pc = "record"
    /\ handlers[h].kind = "direct"
    /\ IF trades[t].payoutStatus \in {"claim_pending", "failed", "claim_failed"}
       THEN trades' = [trades EXCEPT
                ![t] = [@ EXCEPT !.payoutStatus = handlers[h].status,
                                 !.txs = handlers[h].txs]]
       ELSE UNCHANGED trades
    /\ Return(h)
    /\ UNCHANGED <<claims, pollTxs, mutex, chain>>

----------------------------------------------------------------------------
(* POST /private-claims: claimPrivatePayout *)

\* Mutant: only the claim is looked at, not the trade.
RetryableByClaim(n, t) == claims[t][n].status = "failed" /\ claims[t][n].txs = <<>>

\* The claim this nullifier already made on this trade failed before any
\* transaction was accepted, and may be attempted again.
Retryable(n, t) ==
    /\ claims[t][n].status = "failed"
    /\ claims[t][n].txs = <<>>
    /\ trades[t].payoutStatus \in {"claim_failed", "failed"}

Claimable(t) ==
    /\ Outcome[t] \in {"won", "cancelled"}
    /\ Payable(t)
    /\ trades[t].payoutStatus \in {"none", "claimable", "claim_failed", "failed"}

\* The first query of ReservePrivateClaim: it writes the claim and the trade
\* that it matches.
RetryPrivateClaim(h, t, n) ==
    /\ handlers[h].pc = "idle"
    /\ PrivateMode[t] # "refused"
    /\ Retryable(n, t)
    /\ claims' = [claims EXCEPT ![t][n].status = "reserved"]
    /\ trades' = [trades EXCEPT ![t].payoutStatus = "claim_pending"]
    /\ Becomes(h, [Idle EXCEPT !.pc = "register", !.kind = "private",
                              !.trade = t, !.nullifier = n])
    /\ UNCHANGED <<pollTxs, mutex, chain>>

\* The second query: no claim carries the nullifier, on any trade, in the
\* snapshot its transaction reads.
FindNullifier(h, t, n) ==
    /\ handlers[h].pc = "idle"
    /\ PrivateMode[t] # "refused"
    /\ \A s \in Trades : claims[s][n] = NoClaim
    /\ Claimable(t)
    /\ Becomes(h, [Idle EXCEPT !.pc = "reserve", !.kind = "private",
                              !.trade = t, !.nullifier = n])
    /\ UNCHANGED <<trades, claims, pollTxs, mutex, chain>>

\* The transaction commits: it writes its trade, so what it read of the trade is
\* still true or the transaction is refused; the claims of other trades, and new
\* claims, it neither wrote nor locked.
ReservePrivateClaim(h) ==
    LET t == handlers[h].trade
        n == handlers[h].nullifier
    IN
    /\ handlers[h].pc = "reserve"
    /\ \/ /\ Claimable(t) /\ claims[t][n] = NoClaim
          /\ claims' = [claims EXCEPT ![t][n].status = "reserved"]
          /\ trades' = [trades EXCEPT
                ![t] = [@ EXCEPT !.payoutStatus = "claim_pending", !.claim = n]]
          /\ Goto(h, "register")
       \/ /\ ~(Claimable(t) /\ claims[t][n] = NoClaim)
          /\ Return(h)
          /\ UNCHANGED <<trades, claims>>
    /\ UNCHANGED <<pollTxs, mutex, chain>>

\* The registry answered for the claim that handler h pays.
Registered(h) ==
    claims[handlers[h].trade][handlers[h].nullifier].registry = "submitted"

\* registerPrivateClaimOnRegistry, then RecordPrivateClaimRegistryTransaction.
\* A registration that succeeded is not repeated by a later attempt; one that the
\* registry answered with status "failed" is, and does not stop the payout.
RegisterPrivateClaim(h) ==
    LET t == handlers[h].trade
        n == handlers[h].nullifier
    IN
    /\ handlers[h].pc = "register"
    /\ \/ /\ ~RegistryConfigured \/ Registered(h)
          /\ Goto(h, "pay")
          /\ UNCHANGED claims
       \/ /\ RegistryConfigured /\ ~Registered(h)
          /\ Goto(h, "pay")
          /\ \E answer \in {"submitted", "failed"} :
                claims' = [claims EXCEPT ![t][n].registry = answer]
       \/ /\ RegistryConfigured /\ ~Registered(h)
          /\ Finish(h, <<>>, "failed")
          /\ UNCHANGED claims
    /\ UNCHANGED <<trades, pollTxs, mutex, chain>>

\* No guard on the state of the claim or of the trade.
CompletePrivateClaimPayout(h) ==
    LET n == handlers[h].nullifier
        t == handlers[h].trade
        status == handlers[h].status
    IN
    /\ handlers[h].pc = "record"
    /\ handlers[h].kind \in {"private", "privateRetry", "privateReconcile"}
    /\ claims' = [claims EXCEPT
          ![t][n] = [@ EXCEPT
             !.status = IF status = "failed" THEN "failed" ELSE "submitted",
             !.txs = handlers[h].txs]]
    /\ trades' = [trades EXCEPT
          ![t] = [@ EXCEPT
             !.payoutStatus = IF status = "failed" THEN "claim_failed" ELSE status,
             !.txs = handlers[h].txs]]
    /\ Return(h)
    /\ UNCHANGED <<pollTxs, mutex, chain>>

----------------------------------------------------------------------------
(* sendWalletTokensWithRelease: one transfer of the whole payout, made while
   collateralMu is held from the collateral check to the gateway's answer *)

PaysDirectly(h) ==
    \/ handlers[h].kind \in {"direct", "privateRetry"}
    \/ handlers[h].kind = "private" /\ PrivateMode[handlers[h].trade] = "direct"

TransferAccepted(h) ==
    LET t == handlers[h].trade IN
    /\ handlers[h].pc = "pay" /\ PaysDirectly(h) /\ mutex = None
    /\ Owner[t] \in Wallets
    /\ \E x \in TxId :
          /\ Broadcast(x, UnitsOf({t}))
          /\ Becomes(h, [handlers[h] EXCEPT !.pc = "wait", !.txs = <<x>>])
    /\ UNCHANGED <<trades, claims, pollTxs, mutex>>

\* The collateral check, the address check or the gateway refused.  A user's
\* claim goes on to record "failed" without transaction ids; the
\* administrator's retry returns without recording anything.
TransferRefused(h) ==
    LET t == handlers[h].trade IN
    /\ handlers[h].pc = "pay" /\ PaysDirectly(h) /\ mutex = None
    /\ \/ UNCHANGED chain
       \/ Owner[t] \in Wallets /\ CallFails(UnitsOf({t}))
    /\ IF handlers[h].kind = "privateRetry"
       THEN Return(h)
       ELSE Finish(h, <<>>, "failed")
    /\ UNCHANGED <<trades, claims, pollTxs, mutex>>

WaitForTransactionStatus(h) ==
    /\ handlers[h].pc = "wait"
    /\ \E status \in WaitedStatus(handlers[h].txs) :
          Finish(h, handlers[h].txs, status)
    /\ UNCHANGED <<trades, claims, pollTxs, mutex, chain>>

----------------------------------------------------------------------------
(* creditShieldedPayoutCollateralized: approve, await, deposit, for each note *)

NextNote(h) == CHOOSE n \in handlers[h].todo : TRUE

BeginCredit(h) ==
    /\ handlers[h].pc = "pay" /\ ~PaysDirectly(h) /\ mutex = None
    /\ \/ /\ mutex' = h
          /\ Becomes(h, [handlers[h] EXCEPT !.pc = "approve", !.todo = Notes,
                                               !.status = "submitted"])
       \/ /\ Finish(h, <<>>, "failed")
          /\ UNCHANGED mutex
    /\ UNCHANGED <<trades, claims, pollTxs, chain>>

\* Mutant: the error is returned to the user and not recorded.
CreditForgotten(h) == Return(h) /\ Unlock(h)

\* Any error ends the credit: what was accepted so far is recorded as failed.
CreditFails(h) ==
    /\ Finish(h, handlers[h].txs, "failed")
    /\ Unlock(h)

ApproveNote(h) ==
    /\ handlers[h].pc = "approve"
    /\ \/ \E x \in TxId :
             /\ Broadcast(x, {})
             /\ Becomes(h, [handlers[h] EXCEPT !.pc = "approved",
                                               !.txs = Append(@, x)])
             /\ UNCHANGED mutex
       \/ CallFails({}) /\ CreditFails(h)
    /\ UNCHANGED <<trades, claims, pollTxs>>

\* Mutant: whatever has not failed counts as confirmed.
LastNotFailed(h) ==
    LET txs == handlers[h].txs IN chain[txs[Len(txs)]].state # "failed"

\* waitForGMRTransaction: confirmed, failed, or timed out.
LastConfirmed(h) ==
    LET txs == handlers[h].txs IN chain[txs[Len(txs)]].state = "confirmed"

AwaitApproval(h) ==
    /\ handlers[h].pc = "approved"
    /\ \/ LastConfirmed(h) /\ Goto(h, "deposit") /\ UNCHANGED mutex
       \/ CreditFails(h)
    /\ UNCHANGED <<trades, claims, pollTxs, chain>>

\* The note is credited: on to the next one, or the credit is complete and is
\* recorded with the status of its last deposit.
NoteCredited(h, txs, status) ==
    LET rest == handlers[h].todo \ {NextNote(h)} IN
    IF rest # {}
    THEN /\ Becomes(h, [handlers[h] EXCEPT !.pc = "approve", !.todo = rest,
                                           !.txs = txs, !.status = status])
         /\ UNCHANGED mutex
    ELSE Finish(h, txs, status) /\ Unlock(h)

\* A deposit that is not awaited counts as what the gateway answered at once,
\* which may already be the final status of this one deposit, or an empty one.
DepositNote(h) ==
    LET unit == {<<handlers[h].trade, NextNote(h)>>} IN
    /\ handlers[h].pc = "deposit"
    /\ \/ /\ AwaitDeposits
          /\ \E x \in TxId :
                /\ Broadcast(x, unit)
                /\ Becomes(h, [handlers[h] EXCEPT !.pc = "deposited",
                                                  !.txs = Append(@, x)])
          /\ UNCHANGED mutex
       \/ /\ ~AwaitDeposits
          /\ \E x \in TxId, state \in {"pending", "confirmed", "failed"} :
                /\ BroadcastAs(x, unit, state)
                /\ \E status \in {CashoutStatus(state), handlers[h].status} :
                      NoteCredited(h, Append(handlers[h].txs, x), status)
       \/ CallFails(unit) /\ CreditFails(h)
    /\ UNCHANGED <<trades, claims, pollTxs>>

AwaitDeposit(h) ==
    /\ handlers[h].pc = "deposited"
    /\ \/ LastConfirmed(h) /\ NoteCredited(h, handlers[h].txs, "sent")
       \/ CreditFails(h)
    /\ UNCHANGED <<trades, claims, pollTxs, chain>>

----------------------------------------------------------------------------
(* Administrator: retry and reconcile one private claim *)

\* The trade is read here and used until the result is recorded; nothing is
\* reserved.
AdminRetryPrivateClaimPayout(h, t) ==
    /\ handlers[h].pc = "idle"
    /\ DirectFallback
    /\ trades[t].payoutStatus = "claim_failed"
    /\ trades[t].claim # None
    /\ Payable(t)
    /\ trades[t].txs = <<>>
    /\ Owner[t] \in Wallets
    /\ Becomes(h, [Idle EXCEPT !.pc = "pay", !.kind = "privateRetry",
                              !.trade = t, !.nullifier = trades[t].claim])
    /\ UNCHANGED <<trades, claims, pollTxs, mutex, chain>>

AdminReconcilePrivateClaimPayout(h, t) ==
    /\ handlers[h].pc = "idle"
    /\ trades[t].claim # None
    /\ trades[t].txs # <<>>
    /\ Becomes(h, [Idle EXCEPT !.pc = "wait", !.kind = "privateReconcile",
                              !.trade = t, !.nullifier = trades[t].claim,
                              !.txs = trades[t].txs])
    /\ UNCHANGED <<trades, claims, pollTxs, mutex, chain>>

----------------------------------------------------------------------------
(* Administrator: retry and reconcile the settlement payout of the market *)

\* Mutant: every settled trade.
SettledTrades == Trades

\* settlementRetryTradeRowsCypher: every payable trade, whatever its payout
\* status; users without a wallet address are no recipients.
PayableTrades == {t \in Trades : Payable(t)}

TradesOf(u) == {t \in PayableTrades : Owner[t] = u}

Recipients == {u \in Wallets : TradesOf(u) # {}}

\* Only the status and the ids; the claim records are left alone.
OverwritePayouts(status, txs) ==
    trades' = [t \in Trades |->
        IF Payable(t)
        THEN [trades[t] EXCEPT !.payoutStatus = status, !.txs = txs]
        ELSE trades[t]]

\* Mutant: collateralMu is not waited for.
AdminRetryUnlocked(h) ==
    /\ handlers[h].pc = "idle"
    /\ Recipients # {}
    /\ mutex' = h
    /\ Becomes(h, [Idle EXCEPT !.pc = "send", !.kind = "settlementRetry",
                              !.todo = Recipients])
    /\ UNCHANGED <<trades, claims, pollTxs, chain>>

AdminRetrySettlementPayout(h) ==
    /\ handlers[h].pc = "idle"
    /\ mutex = None
    /\ Recipients # {}
    /\ mutex' = h
    /\ Becomes(h, [Idle EXCEPT !.pc = "send", !.kind = "settlementRetry",
                              !.todo = Recipients])
    /\ UNCHANGED <<trades, claims, pollTxs, chain>>

\* One transfer to each recipient for all its trades.  The first error ends
\* the retry and forgets the ids of the transfers already accepted.
SendSettlementPayout(h) ==
    /\ handlers[h].pc = "send"
    /\ \E u \in handlers[h].todo :
          \/ /\ \E x \in TxId :
                   /\ Broadcast(x, UnitsOf(TradesOf(u)))
                   /\ Becomes(h, [handlers[h] EXCEPT
                         !.todo = @ \ {u},
                         !.txs = Append(@, x),
                         !.pc = IF handlers[h].todo = {u} THEN "wait" ELSE "send"])
             /\ UNCHANGED mutex
          \/ CallFails(UnitsOf(TradesOf(u))) /\ Return(h) /\ Unlock(h)
    /\ UNCHANGED <<trades, claims, pollTxs>>

RecordSettlementPayoutRetry(h) ==
    /\ handlers[h].pc = "record"
    /\ handlers[h].kind = "settlementRetry"
    /\ OverwritePayouts(handlers[h].status, handlers[h].txs)
    /\ pollTxs' = handlers[h].txs
    /\ Return(h) /\ Unlock(h)
    /\ UNCHANGED <<claims, chain>>

AdminReconcileSettlementPayout(h) ==
    /\ handlers[h].pc = "idle"
    /\ pollTxs # <<>>
    /\ Becomes(h, [Idle EXCEPT !.pc = "wait", !.kind = "settlementReconcile",
                              !.txs = pollTxs])
    /\ UNCHANGED <<trades, claims, pollTxs, mutex, chain>>

UpdateSettlementPayoutReconciliation(h) ==
    /\ handlers[h].pc = "record"
    /\ handlers[h].kind = "settlementReconcile"
    /\ trades' = [t \in Trades |->
          IF Payable(t)
          THEN [trades[t] EXCEPT !.payoutStatus = handlers[h].status]
          ELSE trades[t]]
    /\ Return(h)
    /\ UNCHANGED <<claims, pollTxs, mutex, chain>>

----------------------------------------------------------------------------
(* Faults: the server process restarts, or the store refuses the write that
   would reserve a claim or record a result *)

Restart ==
    /\ \E h \in Handlers : handlers[h].pc # "idle"
    /\ handlers' = [h \in Handlers |-> Idle]
    /\ mutex' = None
    /\ UNCHANGED <<trades, claims, pollTxs, chain>>

\* When a registration cannot be recorded the handler goes on with an empty
\* claim and an empty trade: its payout of 0 is refused and nothing is recorded.
RecordFails(h) ==
    /\ \/ handlers[h].pc \in {"reserve", "record"}
       \/ /\ handlers[h].pc = "register" /\ RegistryConfigured
          /\ ~Registered(h)
    /\ Return(h) /\ Unlock(h)
    /\ UNCHANGED <<trades, claims, pollTxs, chain>>

----------------------------------------------------------------------------
(* Specifications *)

UserRequest(h) ==
    \E t \in Trades :
        \/ ReserveDirectTradePayout(h, t)
        \/ \E n \in Nullifiers :
              RetryPrivateClaim(h, t, n) \/ FindNullifier(h, t, n)

AdminRequest(h) ==
    \/ \E t \in Trades : AdminRetryPrivateClaimPayout(h, t)
    \/ \E t \in Trades : AdminReconcilePrivateClaimPayout(h, t)
    \/ AdminRetrySettlementPayout(h)
    \/ AdminReconcileSettlementPayout(h)

\* The steps of a request once it was admitted.
UserStep(h) ==
    \/ ReservePrivateClaim(h)
    \/ RegisterPrivateClaim(h)
    \/ TransferAccepted(h)
    \/ TransferRefused(h)
    \/ WaitForTransactionStatus(h)
    \/ BeginCredit(h)
    \/ ApproveNote(h)
    \/ AwaitApproval(h)
    \/ DepositNote(h)
    \/ AwaitDeposit(h)
    \/ CompleteDirectTradePayout(h)
    \/ CompletePrivateClaimPayout(h)

AdminStep(h) ==
    \/ SendSettlementPayout(h)
    \/ RecordSettlementPayoutRetry(h)
    \/ UpdateSettlementPayoutReconciliation(h)

Fault == Restart \/ \E h \in Handlers : RecordFails(h)

Mining == \E x \in TxId : Mined(x)

UserNext == (\E h \in Handlers : UserRequest(h) \/ UserStep(h)) \/ Mining \/ Fault

Next == UserNext \/ \E h \in Handlers : AdminRequest(h) \/ AdminStep(h)

\* No administrator payout operation is invoked: only users claim.
UserSpec == Init /\ [][UserNext]_vars

Spec == Init /\ [][Next]_vars

\* The process keeps running and the store keeps answering.  A request that
\* was admitted is executed to its end: gateway calls and waits are bounded
\* by timeouts and a free collateralMu is handed to every waiter in turn, so
\* each step of a handler is taken once it stays possible again and again.
ReliableNext == (\E h \in Handlers : UserRequest(h) \/ UserStep(h)) \/ Mining

LiveSpec ==
    /\ Init /\ [][ReliableNext]_vars
    /\ \A h \in Handlers : SF_vars(UserStep(h))

----------------------------------------------------------------------------
(* Properties *)

\* Handler h is past the reservation of trade t and has not recorded a result.
ClaimInFlight(h, t) ==
    /\ handlers[h].pc \notin {"idle", "reserve"}
    /\ handlers[h].kind \in ClaimKinds
    /\ handlers[h].trade = t

\* A reservation is exclusive: two user claims are never paying the same trade
\* at the same time (ReserveDirectTradePayout and ReservePrivateClaim test and
\* set payoutStatus in one store transaction, which writes the trade).
ClaimExclusive ==
    \A t \in Trades : \A g, h \in Handlers :
        ClaimInFlight(g, t) /\ ClaimInFlight(h, t) => g = h

\* While a user claim is being paid the trade says so: no result of an older
\* claim is written over the reservation of a newer one.
ReservationStands ==
    \A t \in Trades : \A h \in Handlers :
        ClaimInFlight(h, t) => trades[t].payoutStatus = "claim_pending"

Live(x) == chain[x].state \in {"pending", "confirmed"}

\* No unit of a payout is moved by two transactions that have not failed.
PaidAtMostOnce ==
    \A x, y \in TxId :
        x # y /\ Live(x) /\ Live(y) => chain[x].pays \cap chain[y].pays = {}

\* A trade shown as "sent" has every unit of its payout in a confirmed
\* transaction.
SentMeansPaid ==
    \A t \in Trades : trades[t].payoutStatus = "sent" =>
        \A unit \in UnitsOf({t}) : \E x \in TxId :
            chain[x].state = "confirmed" /\ unit \in chain[x].pays

\* A nullifier is used for one trade only (docs/private-claim-flow.md, "If the
\* same nullifier is submitted twice, the second claim is rejected"): the check
\* for it is a read of ReservePrivateClaim, and nothing makes it unique.
NullifierUsedOnce ==
    \A n \in Nullifiers : \A s, t \in Trades :
        claims[s][n] # NoClaim /\ claims[t][n] # NoClaim => s = t

\* A losing trade is never paid and never shown as payable, whichever request
\* pays the other trades of its user.
LosersNeverPaid ==
    \A t \in Trades : ~Payable(t) =>
        /\ trades[t].payoutStatus = "none"
        /\ \A x \in TxId : UnitsOf({t}) \cap chain[x].pays = {}

\* Handler h relies on a collateral check that only holds under collateralMu.
InLockedSection(h) ==
    \/ handlers[h].pc \in {"approve", "approved", "deposit", "deposited", "send"}
    \/ /\ handlers[h].kind = "settlementRetry"
       /\ handlers[h].pc \in {"wait", "record"}

\* Two batches of transfers never overlap, and collateralMu is held by the one
\* that is under way and released on every path that ends it.
OneLockedSection ==
    \A h \in Handlers : InLockedSection(h) <=> mutex = h

\* A trade that is claimed is answered: its payout leaves claim_pending.
ReservationAnswered ==
    \A t \in Trades :
        trades[t].payoutStatus = "claim_pending"
            ~> trades[t].payoutStatus # "claim_pending"

\* A failed claim that has payout transaction ids is not paid again before it
\* is reconciled (the refusal adminRetryPrivateClaimPayout words so).
FailedClaimReconciledFirst ==
    [][\A t \in Trades :
         /\ trades[t].payoutStatus = "claim_failed"
         /\ trades[t].txs # <<>>
         => trades'[t].payoutStatus # "claim_pending"]_vars

\* A settlement retry pays only what is still owed: it never broadcasts a
\* transfer for a trade whose payout is already recorded as sent
\* (adminRetrySettlementPayout: "no payable settlement recipients to retry").
RetryPaysOnlyOwed ==
    [][\A x \in TxId, t \in Trades :
         /\ chain[x].state = "unused" /\ chain'[x].state # "unused"
         /\ UnitsOf({t}) \cap chain'[x].pays # {}
         => trades[t].payoutStatus # "sent"]_vars

\* A transaction in this state moves units of trade t.
PaidBy(t, state) ==
    \E x \in TxId, n \in Notes : chain[x].state = state /\ <<t, n>> \in chain[x].pays

\* The payouts of a market keep the promise of PayoutPromise.
Promise == INSTANCE PayoutPromise WITH
    Due <- PayableTrades,
    moving <- {t \in Trades : PaidBy(t, "pending")},
    paid <- {t \in Trades : PaidBy(t, "confirmed")},
    shown <- {t \in Trades : trades[t].payoutStatus = "sent"}

\* What the users are promised holds of their claims: a trade that is due is paid
\* once, by one transfer at a time, a later claim starts only after the transfer of
\* an earlier one failed, and what is shown as sent was paid and stays so
\* (claimPublicPayout, claimPrivatePayout and the records of their results).
KeepsPromise == Promise!PromiseSpec

=============================================================================
