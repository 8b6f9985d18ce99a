----------------------------- MODULE Collateral -----------------------------
(***************************************************************************)
(* The treasury and what it is owed to hold: every market's worst outcome  *)
(* and the payouts that are fixed.                                         *)
(*                                                                         *)
(* A handler of one server that takes tokens out of the treasury, or adds  *)
(* to what it must hold, holds collateralMu from its check to its last     *)
(* transfer; a trade, a cashout and a settlement's retry hold it to their  *)
(* record, a claim does not, and it reads its payout before it waits for   *)
(* the lock.  The check compares the store's requirement, in which payouts *)
(* that are recorded as sent do not count, with the balance the chain      *)
(* shows, in which a payment is seen only when it is mined.  Settlements   *)
(* and reconciliations take no lock.                                       *)
(*                                                                         *)
(* Amounts are small numbers, and every trade is a position of its own.    *)
(* The guarantee is taken to be enabled.  Which payout may be claimed      *)
(* again is the matter of Payouts: here any that is not recorded as sent   *)
(* may be.                                                                 *)
(***************************************************************************)
EXTENDS Integers, Sequences, FiniteSetsExt

CONSTANTS
    Polls,
    Trades,       \* Trade nodes: bounds those ever created
    NoTrade,
    Stakes,       \* allowedTradeAmounts
    Returns,      \* the potential payouts of a trade
    Spends,       \* the sets of amounts an administrator sends at once
    Buffer,       \* COLLATERAL_BUFFER_BPS, in percent
    MaxBalance,   \* bounds the treasury
    MaxMoving     \* bounds the payments that wait to be mined

ASSUME CollateralAssumption ==
    /\ NoTrade \notin Trades /\ IsFiniteSet(Trades) /\ IsFiniteSet(Polls)
    /\ Stakes \subseteq Nat \ {0} /\ Returns \subseteq Nat
    /\ \A r \in Returns, s \in Stakes : r > s
    /\ \A amounts \in Spends :
          amounts # {} /\ amounts \subseteq Nat \ {0} /\ IsFiniteSet(amounts)
    /\ Buffer \in Nat /\ MaxBalance \in Nat /\ MaxMoving \in Nat

VARIABLES
    book,        \* the Trade nodes
    settled,     \* the polls that are resolved or cancelled
    balance,     \* what the chain shows of the treasury
    moving,      \* the payments that wait to be mined, by their nonces
    delivered,   \* the trades whose payout was mined
    onRecord,    \* the trades whose payout is recorded as sent
    claims,      \* the trades of claims that wait for collateralMu
    firstPaid,   \* the trade that a market's retry paid first
    operation,   \* the handler that holds collateralMu
    unseen       \* what the check of the last operation did not see

recordVars == <<onRecord, firstPaid>>
collateralVars == <<book, settled, balance, moving, delivered, recordVars, claims,
                    operation, unseen>>

----------------------------------------------------------------------------
(* Types *)

NoBook == [status |-> "none", poll |-> NoTrade, side |-> "yes", amount |-> 0,
           payout |-> 0]
Paid == [NoBook EXCEPT !.status = "done"]
Idle == [pc |-> "idle", kind |-> "none", left |-> {}, of |-> NoTrade, trade |-> NoTrade,
         spare |-> NoTrade, next |-> NoBook, paid |-> 0, gap |-> 0, release |-> 0]

Amounts == 0 .. MaxBalance
Payments == [amount : Amounts, pays : Trades \cup {NoTrade}]
Books == [status : {"none", "open", "due", "done"}, poll : Polls \cup {NoTrade},
          side : {"yes", "no"}, amount : Nat, payout : Nat]

CollateralTypeOK ==
    /\ book \in [Trades -> Books]
    /\ settled \subseteq Polls
    /\ balance \in Amounts
    /\ moving \in Seq(Payments) /\ Len(moving) <= MaxMoving
    /\ delivered \subseteq Trades
    /\ onRecord \subseteq Trades /\ claims \subseteq Trades
    /\ firstPaid \in [Polls -> Trades \cup {NoTrade}]
    /\ operation \in [pc : {"idle", "create", "send", "record"},
                      kind : {"none", "trade", "spend", "claim", "retry", "cashout"},
                      left : SUBSET Payments, of : Polls \cup {NoTrade},
                      trade : Trades \cup {NoTrade},
                      spare : Trades \cup {NoTrade}, next : Books,
                      paid : Nat, gap : Nat, release : Nat]
    /\ unseen \in Nat

CollateralInit ==
    /\ book = [t \in Trades |-> NoBook]
    /\ settled = {}
    /\ balance \in Amounts
    /\ moving = <<>>
    /\ delivered = {} /\ onRecord = {} /\ claims = {}
    /\ firstPaid = [p \in Polls |-> NoTrade]
    /\ operation = Idle
    /\ unseen = 0

----------------------------------------------------------------------------
(* The requirement *)

Payout(bk, ts) == MapThenSumSet(LAMBDA t : bk[t].payout, ts)

OpenOn(bk, p) == {t \in Trades : bk[t].status = "open" /\ bk[t].poll = p}
Liability(bk, p, side) == Payout(bk, {t \in OpenOn(bk, p) : bk[t].side = side})
RefundLiability(bk, p) == MapThenSumSet(LAMBDA t : bk[t].amount, OpenOn(bk, p))

\* The worst of the outcomes: "yes", "no", or a refund.
OpenRequirement(bk, p) ==
    Max({Liability(bk, p, "yes"), Liability(bk, p, "no"), RefundLiability(bk, p)})

FixedPayouts(bk) == Payout(bk, {t \in Trades : bk[t].status = "due"})

\* CollateralRequirement, collateralRequired
Requirement(bk) ==
    FixedPayouts(bk) + MapThenSumSet(LAMBDA p : OpenRequirement(bk, p), Polls)

\* What is left to be paid when these payouts are.
Unpaid(bk, ts) ==
    [t \in Trades |-> IF bk[t].status = "due" /\ t \in ts THEN Paid ELSE bk[t]]

\* collateralWithBuffer
WithBuffer(required) == (required * (100 + Buffer)) \div 100

\* ensureCollateralOutflow, collateralOutflowCovered
OutflowCovered(outgoing, release) ==
    balance - outgoing >= WithBuffer(Max({0, Requirement(Unpaid(book, onRecord)) - release}))

TotalOf(payments) == MapThenSumSet(LAMBDA x : x.amount, payments)

\* What is accepted and not yet mined: the balance does not show it.
Moving == MapThenSumSet(LAMBDA i : moving[i].amount, DOMAIN moving)

\* Payouts that are on their way or mined.
Left == delivered \cup {moving[i].pays : i \in DOMAIN moving}

\* What a check takes for paid, and is not: payouts that are recorded as sent and
\* have not left, and those it releases although they are recorded as sent.
Overlooked(ts) == {t \in onRecord : t \notin Left \/ t \in ts}

\* What a check does not see, when it releases the payouts of these trades.
Gap(ts) == Moving + Payout(book, Overlooked(ts))

\* What is left of a trade once so many shares are cashed out.
Reduced(t, shares, amount) ==
    [book[t] EXCEPT !.payout = @ - shares, !.amount = @ - amount]

\* Mutant: the shares that are cashed out are released, whichever side is worst.
ReleasedOutright(t, shares, amount) == shares

\* ProjectedCollateralAfterCashout, CollateralRelease
CollateralRelease(t, shares, amount) ==
    Requirement(Unpaid(book, onRecord))
    - Requirement(Unpaid([book EXCEPT ![t] = Reduced(t, shares, amount)], onRecord))

----------------------------------------------------------------------------
(* Handlers that hold collateralMu *)

Unused == {t \in Trades : book[t].status = "none"}

\* The id of a new node.
NextTrade == CHOOSE t \in Unused : TRUE

Does(state) == operation' = state

\* createTrade, whose escrow is mined by now: the quote, and collateralizeQuote.
CollateralizeQuote(p, side, amount, payout) ==
    LET new == [status |-> "open", poll |-> p, side |-> side, amount |-> amount,
                payout |-> payout]
    IN
    /\ operation = Idle
    /\ Unused # {}
    /\ p \notin settled
    /\ balance >= WithBuffer(Requirement(Unpaid([book EXCEPT ![NextTrade] = new], onRecord)))
    /\ Does([Idle EXCEPT !.pc = "create", !.kind = "trade", !.trade = NextTrade,
                         !.next = new, !.gap = Gap({})])
    /\ UNCHANGED <<book, settled, balance, moving, delivered, recordVars, claims, unseen>>

RecordTrade ==
    /\ operation.pc = "create"
    /\ operation.next.poll \notin settled
    /\ book' = [book EXCEPT ![operation.trade] = operation.next]
    /\ unseen' = operation.gap
    /\ Does(Idle)
    /\ UNCHANGED <<settled, balance, moving, delivered, recordVars, claims>>

\* sendWalletTokensLocked up to its check.
Checked(kind, payments, release) ==
    /\ operation = Idle
    /\ OutflowCovered(TotalOf(payments), release)
    /\ UNCHANGED <<book, settled, balance, moving, delivered, recordVars, unseen>>

\* adminWalletTransfer, adminWalletAirdrop, adminWalletBurn; a welcome grant.
SendWalletTokens(amounts) ==
    LET payments == {[amount |-> a, pays |-> NoTrade] : a \in amounts} IN
    /\ Checked("spend", payments, 0)
    /\ Does([Idle EXCEPT !.pc = "send", !.kind = "spend", !.left = payments,
                         !.gap = Gap({})])
    /\ UNCHANGED claims

Due == {t \in Trades : book[t].status = "due"}

\* ReserveDirectTradePayout, ReservePrivateClaim, or an administrator's GetTradeByID:
\* a handler reads what it will pay.
ReservePayout(t) ==
    /\ t \in Due \ (onRecord \cup claims)
    /\ claims' = claims \cup {t}
    /\ UNCHANGED <<book, settled, balance, moving, delivered, recordVars, operation, unseen>>

\* Both release what they send.
SendPayouts(kind, p, ts) ==
    LET payments == {[amount |-> book[t].payout, pays |-> t] : t \in ts} IN
    /\ ts # {}
    /\ Checked(kind, payments, Payout(book, ts))
    /\ Does([Idle EXCEPT !.pc = "send", !.kind = kind, !.left = payments,
                         !.of = p, !.gap = Gap(ts)])

\* sendWalletTokensWithRelease, creditShieldedPayoutCollateralized: the claim goes
\* by what it read, though the payout may be recorded as sent by now, and another
\* handler may have read it as well.
SendClaim(t) ==
    /\ t \in claims
    /\ SendPayouts("claim", NoTrade, {t})
    /\ claims' \in {claims, claims \ {t}}

Payable(p) == {t \in Due : book[t].poll = p /\ book[t].payout > 0}

\* adminRetrySettlementPayout: all payouts of a market, those that are recorded as
\* sent included (SettlementPayoutRetryPreview, sendSettlementPayoutsLocked).
RetrySettlementPayout(p) ==
    /\ SendPayouts("retry", p, Payable(p))
    /\ UNCHANGED claims

\* cashoutPosition: the whole position, which keeps its node, or a part of it,
\* which gets a node of its own.
CashOut(t, shares, amount, proceeds) ==
    LET whole == shares = book[t].payout
        spare == IF whole THEN t ELSE NextTrade
        release == CollateralRelease(t, shares, amount)
        payments == {[amount |-> proceeds, pays |-> spare]}
    IN
    /\ book[t].status = "open"
    /\ shares * book[t].amount = amount * book[t].payout
    /\ ~whole => Unused # {}
    /\ Checked("cashout", payments, release)
    /\ Does([Idle EXCEPT !.pc = "send", !.kind = "cashout", !.left = payments,
                 !.trade = t, !.spare = spare,
                 !.next = Reduced(t, shares, amount), !.paid = proceeds,
                 !.gap = Gap({}), !.release = release])
    /\ UNCHANGED claims

\* A cashout that is never recorded: what it paid is owed as before.
Forget(queue) ==
    /\ moving' = [i \in DOMAIN queue |->
          IF queue[i].pays = operation.spare THEN [queue[i] EXCEPT !.pays = NoTrade]
          ELSE queue[i]]
    /\ delivered' = delivered \ {operation.spare}

\* TransferERC20 for one of the recipients, in some order.  The gateway accepts it,
\* or reports an error although it has broadcast it, which ends the handler.
TransferToken ==
    \E x \in operation.left :
        LET left == operation.left \ {x}
            queue == Append(moving, x)
            first == [operation EXCEPT !.left = left,
                                       !.trade = IF @ = NoTrade THEN x.pays ELSE @]
        IN
        /\ operation.pc = "send"
        /\ Len(moving) < MaxMoving
        /\ unseen' = operation.gap + operation.release
        /\ \/ /\ Does(IF left # {} THEN first
                      ELSE IF operation.kind \in {"spend", "claim"} THEN Idle
                      ELSE [first EXCEPT !.pc = "record"])
              /\ moving' = queue
              /\ UNCHANGED delivered
           \/ /\ Does(Idle)
              /\ IF operation.kind = "cashout" THEN Forget(queue)
                 ELSE moving' = queue /\ UNCHANGED delivered
        /\ UNCHANGED <<book, settled, balance, recordVars, claims>>

\* The status of the transaction that paid this trade, written to all payouts of the
\* market, whatever is recorded of them.
WriteStatus(p, first) ==
    onRecord' = IF first \in delivered THEN onRecord \cup Payable(p) ELSE onRecord \ Payable(p)

RecordSettlementPayoutRetry ==
    /\ operation.pc = "record" /\ operation.kind = "retry"
    /\ WriteStatus(operation.of, operation.trade)
    /\ firstPaid' = [firstPaid EXCEPT ![operation.of] = operation.trade]
    /\ Does(Idle)
    /\ UNCHANGED <<book, settled, balance, moving, delivered, claims, unseen>>

\* The part that stays is worth its shares; or less: the statement that cuts
\* them is followed by one that cuts the potential payout by the new shares.
Remaining(old, new) ==
    {new, [new EXCEPT !.payout = (@ * @) \div old.payout]}

\* CashoutPosition, which finds the market open still.
RecordCashout ==
    LET t == operation.trade
        spare == operation.spare
        proceeds == [NoBook EXCEPT !.status = "due", !.poll = book[t].poll,
                                   !.payout = operation.paid]
    IN
    /\ operation.pc = "record" /\ operation.kind = "cashout"
    /\ book[t].status = "open"
    /\ \E rest \in Remaining(book[t], operation.next) :
          book' = [book EXCEPT ![t] = rest, ![spare] = proceeds]
    /\ onRecord' = IF spare \in delivered THEN onRecord \cup {spare} ELSE onRecord
    /\ unseen' = operation.gap
    /\ Does(Idle)
    /\ UNCHANGED <<settled, balance, moving, delivered, firstPaid, claims>>

\* A refusal, a failure of the store, or a stop of the server.
OperationFails ==
    /\ operation # Idle
    /\ Does(Idle)
    /\ IF operation.kind = "cashout" /\ operation.pc = "record"
       THEN Forget(moving) ELSE UNCHANGED <<moving, delivered>>
    /\ UNCHANGED <<book, settled, balance, recordVars, claims, unseen>>

\* adminUpdateWalletTokenContract: the treasury holds so much of another token.
\* Payments in the old one do not count any more.
AdminUpdateWalletTokenContract(held) ==
    /\ operation = Idle
    /\ held >= WithBuffer(Requirement(Unpaid(book, onRecord)))
    /\ balance' = held
    /\ moving' = <<>>
    /\ unseen' = Payout(book, onRecord \ delivered)
    /\ UNCHANGED <<book, settled, delivered, recordVars, claims, operation>>

----------------------------------------------------------------------------
(* Settlements, the chain, and what it tells *)

\* SettlePollTrades, which takes no lock.
SettledBook(t, p, outcome) ==
    IF t \notin OpenOn(book, p) THEN book[t]
    ELSE IF outcome = "cancelled"
         THEN [NoBook EXCEPT !.status = "due", !.poll = p, !.payout = book[t].amount]
         ELSE IF outcome = book[t].side
              THEN [NoBook EXCEPT !.status = "due", !.poll = p,
                                  !.payout = book[t].payout]
              ELSE Paid

SettlePollTrades(p, outcome) ==
    /\ p \notin settled
    /\ settled' = settled \cup {p}
    /\ book' = [t \in Trades |-> SettledBook(t, p, outcome)]
    /\ UNCHANGED <<balance, moving, delivered, recordVars, claims, operation, unseen>>

\* The payment with the lowest nonce is mined, or fails.
PaymentMined ==
    /\ moving # <<>>
    /\ moving' = Tail(moving)
    /\ \/ /\ balance >= Head(moving).amount
          /\ balance' = balance - Head(moving).amount
          /\ delivered' = delivered \cup ({Head(moving).pays} \ {NoTrade})
       \/ UNCHANGED <<balance, delivered>>
    /\ UNCHANGED <<book, settled, recordVars, claims, operation, unseen>>

\* An escrow is mined, or somebody adds to the treasury.
Deposit(amount) ==
    /\ balance + amount <= MaxBalance
    /\ balance' = balance + amount
    /\ UNCHANGED <<book, settled, moving, delivered, recordVars, claims, operation, unseen>>

\* The record of a claim, or an administrator's reconciliation, finds its transaction
\* mined: that of the claim, or of the market's retry that replaced its id.
RecordPayout(t) ==
    /\ t \in Due
    /\ {t, firstPaid[book[t].poll]} \cap delivered # {}
    /\ onRecord' = onRecord \cup {t}
    /\ UNCHANGED <<book, settled, balance, moving, delivered, firstPaid, claims, operation,
                   unseen>>

\* adminReconcileSettlementPayout
ReconcileSettlementPayout(p) ==
    /\ firstPaid[p] # NoTrade
    /\ WriteStatus(p, firstPaid[p])
    /\ UNCHANGED <<book, settled, balance, moving, delivered, firstPaid, claims, operation,
                   unseen>>

----------------------------------------------------------------------------
(* Specification *)

CollateralNext ==
    \/ \E p \in Polls, side \in {"yes", "no"}, amount \in Stakes, payout \in Returns :
          CollateralizeQuote(p, side, amount, payout)
    \/ RecordTrade
    \/ \E amounts \in Spends : SendWalletTokens(amounts)
    \/ \E t \in Trades : ReservePayout(t) \/ SendClaim(t) \/ RecordPayout(t)
    \/ \E p \in Polls : RetrySettlementPayout(p) \/ ReconcileSettlementPayout(p)
    \/ \E t \in Trades : \E shares \in 1 .. book[t].payout, amount \in 1 .. book[t].amount :
          \E proceeds \in 1 .. shares : CashOut(t, shares, amount, proceeds)
    \/ TransferToken
    \/ RecordSettlementPayoutRetry
    \/ RecordCashout
    \/ OperationFails
    \/ \E held \in Amounts : AdminUpdateWalletTokenContract(held)
    \/ \E p \in Polls, outcome \in {"yes", "no", "cancelled"} :
          SettlePollTrades(p, outcome)
    \/ PaymentMined
    \/ \E amount \in Stakes : Deposit(amount)

CollateralSpec == CollateralInit /\ [][CollateralNext]_collateralVars

----------------------------------------------------------------------------
(* Properties *)

\* Payouts that have left are not owed any more; the others are, whatever is
\* recorded of them.
Owed == Requirement(Unpaid(book, Left))

\* "funds are reserved to guarantee market payouts" (sendWalletTokensLocked): once
\* all that is under way is mined, the treasury covers the worst outcome of every
\* market and every payout that has not left, whatever is traded, settled, claimed,
\* retried, cashed out, spent, refused or lost, except for `unseen`: what the check
\* of the last operation took for held or paid and was not.  That is the payments
\* it did not see mined, the payouts recorded as sent that never left, those it sent
\* and released a second time, and what a cashout that was paid and not recorded
\* released.
TreasuryCoversWhatIsOwed == balance + unseen >= Moving + Owed

=============================================================================
