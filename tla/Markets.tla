------------------------------ MODULE Markets ------------------------------
(***************************************************************************)
(* Trading on markets and settling them.                                   *)
(*                                                                         *)
(* Users escrow tokens, open trades (createTrade) and sell positions back  *)
(* (cashoutPosition); every one of these holds collateralMu from its quote *)
(* to its last store transaction.  Administrators resolve, edit and        *)
(* re-create markets without it: their handlers read the market in one     *)
(* store transaction and write it in later ones.                           *)
(*                                                                         *)
(* Prices, amounts and proceeds are left out: a trade buys Whole shares,   *)
(* a cashout sells all of a position or one half of it.  A refusal by a    *)
(* collateral check changes nothing and is a step not taken.  Every market *)
(* is public; a gateway error means that nothing was broadcast (Payouts    *)
(* has the other kind).                                                    *)
(***************************************************************************)
EXTENDS Naturals, Sequences, FiniteSets, FiniteSetsExt

CONSTANTS
    Polls,          \* the markets
    Users,
    Trades,         \* Trade nodes: bounds the trades ever created
    Escrows,        \* escrow transfers, each of the fixed amount
    EscrowFrom,     \* EscrowFrom[e]: the user whose wallet pays escrow e
    Requests,       \* concurrently served user requests
    Admins,         \* concurrently served administrator requests
    None,
    InitialShares,  \* InitialShares[p]: the market maker's shares at creation
    Decisions,      \* the <<status, outcome>> adminResolvePoll may be asked for
    Edits,          \* the fields adminUpdatePoll and adminCreatePoll may carry
    Managed,        \* the markets administrators work on: bounds their requests
    SlugReuse,      \* may adminCreatePoll carry the slug of a settled market?
    MaxPayments     \* bounds the cashout transfers

Sides == {"yes", "no"}
Statuses == {"draft", "published", "paused", "resolved", "cancelled"}
Outcomes == {"none", "a", "b"}
Handlers == Requests \cup Admins

Whole == 2  \* shares of a new trade, so that one half of it can be sold

EditInputs == [status : Statuses, frozen : BOOLEAN, over : BOOLEAN,
               outcome : Outcomes]

AllDecisions == {<<"resolved", "a">>, <<"resolved", "b">>} \cup
                ((Statuses \ {"resolved"}) \X {"none"})

ASSUME MarketsAssumption ==
    /\ None \notin Polls \cup Users \cup Trades \cup Escrows \cup Handlers
    /\ Requests \cap Admins = {}
    /\ IsFiniteSet(Trades)
    /\ EscrowFrom \in [Escrows -> Users]
    /\ InitialShares \in [Polls -> [Sides -> Nat]]
    /\ Decisions \subseteq AllDecisions
    /\ Edits \subseteq EditInputs
    /\ Managed \subseteq Polls
    /\ SlugReuse \in BOOLEAN
    /\ MaxPayments \in Nat

VARIABLES
    polls,     \* the Poll nodes
    trades,    \* the Trade nodes
    escrows,   \* the state of every escrow transfer on the chain
    payments,  \* the cashout transfers the gateway accepted, in order
    handlers,  \* the local state of every request being served
    mutex      \* the request that holds collateralMu

vars == <<polls, trades, escrows, payments, handlers, mutex>>

----------------------------------------------------------------------------
(* Types *)

TradeStatuses == {"unused", "open", "cashed_out", "won", "lost", "cancelled"}
Steps == {"idle", "sendEscrow", "checkEscrow", "createTrade", "payCashout",
          "recordCashout", "preview", "resolve", "settle", "move", "save"}

NoTrade == [status |-> "unused", poll |-> None, user |-> None, side |-> "yes",
            shares |-> 0, escrow |-> None, payment |-> 0,
            outcome |-> "none", payoutStatus |-> "none"]
NoEdit == [status |-> "draft", frozen |-> FALSE, over |-> FALSE,
           outcome |-> "none"]
Idle == [pc |-> "idle", poll |-> None, user |-> None, side |-> "yes",
         escrow |-> None, half |-> FALSE, shares |-> 0, payment |-> 0,
         status |-> "draft", outcome |-> "none", payoutStatus |-> "none",
         edit |-> NoEdit]

PollStates == [status : Statuses, frozen : BOOLEAN, over : BOOLEAN,
               outcome : Outcomes, resolvedAt : BOOLEAN,
               settlement : {"none", "resolved", "cancelled"},
               shares : [Sides -> Nat]]
TradeStates == [status : TradeStatuses, poll : Polls \cup {None},
                user : Users \cup {None}, side : Sides, shares : Nat,
                escrow : Escrows \cup {None}, payment : 0 .. MaxPayments,
                outcome : Outcomes \cup {"cancelled"},
                payoutStatus : {"none", "claimable"}]
HandlerStates == [pc : Steps, poll : Polls \cup {None},
                  user : Users \cup {None}, side : Sides,
                  escrow : Escrows \cup {None}, half : BOOLEAN,
                  shares : Nat, payment : 0 .. MaxPayments, status : Statuses,
                  outcome : Outcomes,
                  payoutStatus : {"none", "claimable"}, edit : EditInputs]
PaymentStates == [poll : Polls, user : Users, side : Sides, shares : Nat]

TypeOK ==
    /\ polls \in [Polls -> PollStates]
    /\ trades \in [Trades -> TradeStates]
    /\ escrows \in [Escrows -> {"unsent", "pending", "confirmed", "failed"}]
    /\ payments \in Seq(PaymentStates) /\ Len(payments) <= MaxPayments
    /\ handlers \in [Handlers -> HandlerStates]
    /\ mutex \in Requests \cup {None}

Init ==
    /\ polls = [p \in Polls |->
          [status |-> "published", frozen |-> FALSE, over |-> FALSE,
           outcome |-> "none", resolvedAt |-> FALSE, settlement |-> "none",
           shares |-> InitialShares[p]]]
    /\ trades = [t \in Trades |-> NoTrade]
    /\ escrows = [e \in Escrows |-> "unsent"]
    /\ payments = <<>>
    /\ handlers = [h \in Handlers |-> Idle]
    /\ mutex = None

----------------------------------------------------------------------------
(* Helpers *)

Becomes(h, state) == handlers' = [handlers EXCEPT ![h] = state]

Return(h) == Becomes(h, Idle)

Unlock(h) == mutex' = IF mutex = h THEN None ELSE mutex

\* Mutant: collateralMu is not waited for.
LockIgnored == TRUE

LockFree == mutex = None

SharesOf(ts) == MapThenSumSet(LAMBDA t : trades[t].shares, ts)

OpenOn(p) == {t \in Trades : trades[t].status = "open" /\ trades[t].poll = p}

OpenSide(p, side) == {t \in OpenOn(p) : trades[t].side = side}

Position(p, u, side) == {t \in OpenSide(p, side) : trades[t].user = u}

\* tradeablePollStateCypher, which does not look at tradingFrozen.
Quotable(p) == polls[p].status = "published" /\ ~polls[p].over

\* cashoutState, and the last MATCH of CreateTrade.
Tradeable(p) == Quotable(p) /\ ~polls[p].frozen

IsSettled(poll) ==
    /\ poll.status \in {"resolved", "cancelled"}
    /\ \/ poll.settlement # "none"
       \/ poll.resolvedAt
       \/ poll.outcome # "none"

\* marketMakerCollected > 0: some trade was created on the market.
Collected(p) == \E t \in Trades : trades[t].poll = p

\* ApplyMarketAutomation: close what has ended, then make the market maker's
\* shares of the others agree with their open trades.
Automated(p) ==
    IF polls[p].status # "published" THEN polls[p]
    ELSE IF polls[p].over THEN [polls[p] EXCEPT !.status = "paused"]
    ELSE IF Collected(p)
    THEN [polls[p] EXCEPT
            !.shares = [s \in Sides |-> SharesOf(OpenSide(p, s))]]
    ELSE polls[p]

ApplyMarketAutomation == polls' = [p \in Polls |-> Automated(p)]

\* Every page that lists or shows markets.
Automate ==
    /\ ApplyMarketAutomation
    /\ UNCHANGED <<trades, escrows, payments, handlers, mutex>>

\* endsAt passes.
Ends(p) ==
    /\ ~polls[p].over
    /\ polls' = [polls EXCEPT ![p].over = TRUE]
    /\ UNCHANGED <<trades, escrows, payments, handlers, mutex>>

----------------------------------------------------------------------------
(* Escrow: POST /trades/gasless-escrow and /trades/managed-escrow *)

QuoteEscrow(h, e, p) ==
    /\ handlers[h].pc = "idle"
    /\ escrows[e] = "unsent"
    /\ LockFree
    /\ Quotable(p)
    /\ mutex' = h
    /\ Becomes(h, [Idle EXCEPT !.pc = "sendEscrow", !.escrow = e])
    /\ UNCHANGED <<polls, trades, escrows, payments>>

\* TransferERC20WithPermit: accepted, or an error is returned.
SendEscrow(h) ==
    /\ handlers[h].pc = "sendEscrow"
    /\ \/ escrows' = [escrows EXCEPT ![handlers[h].escrow] = "pending"]
       \/ UNCHANGED escrows
    /\ Return(h) /\ Unlock(h)
    /\ UNCHANGED <<polls, trades, payments>>

EscrowMined(e) ==
    /\ escrows[e] = "pending"
    /\ \E result \in {"confirmed", "failed"} :
          escrows' = [escrows EXCEPT ![e] = result]
    /\ UNCHANGED <<polls, trades, payments, handlers, mutex>>

----------------------------------------------------------------------------
(* POST /trades: createTrade *)

\* verifyTradeEscrow needs a confirmed transfer from the user, which stays
\* confirmed while the request waits for collateralMu; then QuoteTrade.
QuoteTrade(h, e, p, side) ==
    /\ handlers[h].pc = "idle"
    /\ escrows[e] = "confirmed"
    /\ LockFree
    /\ Quotable(p)
    /\ mutex' = h
    /\ Becomes(h, [Idle EXCEPT !.pc = "checkEscrow", !.poll = p, !.side = side,
                              !.user = EscrowFrom[e], !.escrow = e])
    /\ UNCHANGED <<polls, trades, escrows, payments>>

\* The first read of CreateTrade's transaction, over the whole graph.
CheckEscrow(h) ==
    /\ handlers[h].pc = "checkEscrow"
    /\ IF \E t \in Trades : trades[t].escrow = handlers[h].escrow
       THEN Return(h) /\ Unlock(h)
       ELSE /\ Becomes(h, [handlers[h] EXCEPT !.pc = "createTrade"])
            /\ UNCHANGED mutex
    /\ UNCHANGED <<polls, trades, escrows, payments>>

\* Mutant: the market is not looked at again.
AcceptsAlways(p) == TRUE

AcceptsTrade(p) == Tradeable(p)

NextTrade == CHOOSE t \in Trades : trades[t].status = "unused"

\* The transaction commits.  Every transaction that opens a trade writes the Poll
\* node, so one that saw an older version of this market runs again and reads
\* this market as it is now; what happened on other markets is not seen again.
CreateTrade(h) ==
    LET p == handlers[h].poll
        e == handlers[h].escrow
        side == handlers[h].side
    IN
    /\ handlers[h].pc = "createTrade"
    /\ IF /\ AcceptsTrade(p)
          /\ \A t \in Trades : trades[t].poll = p => trades[t].escrow # e
       THEN /\ \E t \in Trades : trades[t].status = "unused"
            /\ trades' = [trades EXCEPT ![NextTrade] =
                  [NoTrade EXCEPT !.status = "open", !.poll = p,
                                  !.user = handlers[h].user, !.side = side,
                                  !.shares = Whole, !.escrow = e]]
            /\ polls' = [polls EXCEPT ![p].shares[side] = @ + Whole]
       ELSE UNCHANGED <<polls, trades>>
    /\ Return(h) /\ Unlock(h)
    /\ UNCHANGED <<escrows, payments>>

----------------------------------------------------------------------------
(* POST /cashout: cashoutPosition *)

\* A cashout sells the whole position or the first half of whole trades.
CanSell(position, half) ==
    /\ position # {}
    /\ half => \A t \in position : trades[t].shares = Whole

Sold(position, half) ==
    IF half THEN SharesOf(position) \div 2 ELSE SharesOf(position)

QuoteCashout(h, p, u, side, half) ==
    /\ handlers[h].pc = "idle"
    /\ LockFree
    /\ Tradeable(p)
    /\ CanSell(Position(p, u, side), half)
    /\ mutex' = h
    /\ Becomes(h, [Idle EXCEPT !.pc = "payCashout", !.poll = p, !.user = u,
                              !.side = side, !.half = half,
                              !.shares = Sold(Position(p, u, side), half)])
    /\ UNCHANGED <<polls, trades, escrows, payments>>

\* sendWalletTokensLocked pays the quoted proceeds, or nothing is done.  The
\* wait for the transaction follows; its result is stored with the trades.
PayCashout(h) ==
    /\ handlers[h].pc = "payCashout"
    /\ \/ /\ Len(payments) < MaxPayments
          /\ payments' = Append(payments,
                [poll |-> handlers[h].poll, user |-> handlers[h].user,
                 side |-> handlers[h].side, shares |-> handlers[h].shares])
          /\ Becomes(h, [handlers[h] EXCEPT !.pc = "recordCashout",
                                            !.payment = Len(payments) + 1])
          /\ UNCHANGED mutex
       \/ Return(h) /\ Unlock(h) /\ UNCHANGED payments
    /\ UNCHANGED <<polls, trades, escrows>>

Monus(m, n) == IF m > n THEN m - n ELSE 0

\* Mutant: whatever was asked for, the whole position is closed.
RecordedWhole(position, half, sold, h) ==
    [t \in Trades |->
        IF t \in position
        THEN [trades[t] EXCEPT !.status = "cashed_out",
                               !.payment = handlers[h].payment]
        ELSE trades[t]]

\* The trades after the cashout of this position is recorded: closed as a
\* whole, or halved, with a new Trade node for the half that was sold.
Recorded(position, half, sold, h) ==
    LET payment == handlers[h].payment IN
    IF ~half
    THEN [t \in Trades |->
            IF t \in position
            THEN [trades[t] EXCEPT !.status = "cashed_out", !.payment = payment]
            ELSE trades[t]]
    ELSE [t \in Trades |->
            IF t \in position THEN [trades[t] EXCEPT !.shares = @ \div 2]
            ELSE IF t = NextTrade
            THEN [NoTrade EXCEPT !.status = "cashed_out",
                                 !.poll = handlers[h].poll,
                                 !.user = handlers[h].user,
                                 !.side = handlers[h].side,
                                 !.shares = sold, !.payment = payment]
            ELSE trades[t]]

\* Mutant: the market maker keeps the shares it bought back.
SharesKept(p, side, sold) == polls[p].shares

SharesWithout(p, side, sold) ==
    [polls[p].shares EXCEPT ![side] = Monus(@, sold)]

\* The position is read again.  If the market has closed meanwhile the request
\* fails with "failed to record cashout" and the payment stays unrecorded.
CashoutPosition(h) ==
    LET p == handlers[h].poll
        side == handlers[h].side
        half == handlers[h].half
        position == Position(p, handlers[h].user, side)
        sold == Sold(position, half)
    IN
    /\ handlers[h].pc = "recordCashout"
    /\ IF Tradeable(p) /\ position # {}
       THEN /\ CanSell(position, half)
            /\ half => \E t \in Trades : trades[t].status = "unused"
            /\ trades' = Recorded(position, half, sold, h)
            /\ polls' = [polls EXCEPT
                  ![p].shares = SharesWithout(p, side, sold)]
       ELSE UNCHANGED <<polls, trades>>
    /\ Return(h) /\ Unlock(h)
    /\ UNCHANGED <<escrows, payments>>

----------------------------------------------------------------------------
(* POST /admin/polls/:id/resolve: adminResolvePoll *)

\* Mutant: a settled market is resolved or edited like any other.
RefusesNothing(poll) == FALSE

RefusesStatus(poll) == IsSettled(poll)

\* GetPollByID, which applies the automation, and the checks on what it read.
AdminResolvePoll(h, p, status, outcome) ==
    /\ handlers[h].pc = "idle"
    /\ ~RefusesStatus(Automated(p))
    /\ ApplyMarketAutomation
    /\ Becomes(h, [Idle EXCEPT
          !.pc = IF status \in {"resolved", "cancelled"} THEN "preview" ELSE "move",
          !.poll = p, !.status = status, !.outcome = outcome])
    /\ UNCHANGED <<trades, escrows, payments, mutex>>

WinnerSide(outcome) == IF outcome = "a" THEN "yes" ELSE "no"

\* addSettlementTradeRow and SettlePollTrades: is this open trade paid?
ShouldPay(t, status, outcome) ==
    status = "cancelled" \/ trades[t].side = WinnerSide(outcome)

PreviewPollSettlement(h) ==
    LET required == \E t \in OpenOn(handlers[h].poll) :
                       ShouldPay(t, handlers[h].status, handlers[h].outcome)
    IN
    /\ handlers[h].pc = "preview"
    /\ Becomes(h, [handlers[h] EXCEPT
          !.pc = "resolve",
          !.payoutStatus = IF required THEN "claimable" ELSE "none"])
    /\ UNCHANGED <<polls, trades, escrows, payments, mutex>>

\* Mutant: the outcome of the request is stored whatever the status.
StatusAsOutcome(status, outcome) == IF status = "resolved" THEN outcome ELSE status

StoredOutcome(status, outcome) == IF status = "resolved" THEN outcome ELSE "none"

\* The current status of the market is not looked at again.
UpdatePollResolution(h) ==
    LET status == handlers[h].status IN
    /\ handlers[h].pc \in {"resolve", "move"}
    /\ polls' = [polls EXCEPT ![handlers[h].poll] =
          [@ EXCEPT !.status = status,
                    !.outcome = StoredOutcome(status, handlers[h].outcome),
                    !.resolvedAt = status \in {"resolved", "cancelled"}]]
    /\ IF handlers[h].pc = "resolve"
       THEN Becomes(h, [handlers[h] EXCEPT !.pc = "settle"])
       ELSE Return(h)
    /\ UNCHANGED <<trades, escrows, payments, mutex>>

SettledTrade(t, h) ==
    LET status == handlers[h].status
        pays == ShouldPay(t, status, handlers[h].outcome)
    IN [trades[t] EXCEPT
          !.status = IF status = "cancelled" THEN "cancelled"
                     ELSE IF pays THEN "won" ELSE "lost",
          !.outcome = IF status = "cancelled" THEN "cancelled"
                      ELSE handlers[h].outcome,
          !.payoutStatus = IF pays THEN handlers[h].payoutStatus ELSE "none"]

SettlePollTrades(h) ==
    LET p == handlers[h].poll IN
    /\ handlers[h].pc = "settle"
    /\ trades' = [t \in Trades |->
          IF t \in OpenOn(p) THEN SettledTrade(t, h) ELSE trades[t]]
    /\ polls' = [polls EXCEPT ![p].settlement = handlers[h].status]
    /\ Return(h)
    /\ UNCHANGED <<escrows, payments, mutex>>

----------------------------------------------------------------------------
(* PUT /admin/polls/:id: adminUpdatePoll; POST /admin/polls: adminCreatePoll *)

AdminUpdatePoll(h, p, edit) ==
    /\ handlers[h].pc = "idle"
    /\ RefusesStatus(Automated(p)) => edit.status = Automated(p).status
    /\ ApplyMarketAutomation
    /\ Becomes(h, [Idle EXCEPT !.pc = "save", !.poll = p, !.edit = edit])
    /\ UNCHANGED <<trades, escrows, payments, mutex>>

\* savePoll: every field of the edit is written, whatever the market is by now.
SavedPoll(p, edit) ==
    [polls[p] EXCEPT !.status = edit.status, !.frozen = edit.frozen,
                     !.over = edit.over, !.outcome = edit.outcome]

SavePoll(h) ==
    LET p == handlers[h].poll IN
    /\ handlers[h].pc = "save"
    /\ polls' = [polls EXCEPT ![p] = SavedPoll(p, handlers[h].edit)]
    /\ Return(h)
    /\ UNCHANGED <<trades, escrows, payments, mutex>>

\* UpsertPoll MERGEs on the slug: an old market of that slug is overwritten,
\* and nothing asks whether it is settled.
AdminCreatePoll(h, p, edit) ==
    /\ handlers[h].pc = "idle"
    /\ SlugReuse \/ polls[p].settlement = "none"
    /\ polls' = [polls EXCEPT ![p] = SavedPoll(p, edit)]
    /\ UNCHANGED <<trades, escrows, payments, handlers, mutex>>

----------------------------------------------------------------------------
(* Faults *)

Restart ==
    /\ \E h \in Handlers : handlers[h].pc # "idle"
    /\ handlers' = [h \in Handlers |-> Idle]
    /\ mutex' = None
    /\ UNCHANGED <<polls, trades, escrows, payments>>

\* A store transaction fails and the handler returns its error.
StoreFails(h) ==
    /\ handlers[h].pc \notin {"idle", "sendEscrow", "payCashout"}
    /\ Return(h) /\ Unlock(h)
    /\ UNCHANGED <<polls, trades, escrows, payments>>

----------------------------------------------------------------------------
(* Specification *)

UserRequest(h) ==
    \E p \in Polls :
        \/ \E e \in Escrows : QuoteEscrow(h, e, p)
        \/ \E e \in Escrows, side \in Sides : QuoteTrade(h, e, p, side)
        \/ \E u \in Users, side \in Sides, half \in BOOLEAN :
              QuoteCashout(h, p, u, side, half)

UserStep(h) ==
    \/ SendEscrow(h)
    \/ CheckEscrow(h)
    \/ CreateTrade(h)
    \/ PayCashout(h)
    \/ CashoutPosition(h)

AdminRequest(h) ==
    \E p \in Managed :
        \/ \E d \in Decisions : AdminResolvePoll(h, p, d[1], d[2])
        \/ \E edit \in Edits : AdminUpdatePoll(h, p, edit)
        \/ \E edit \in Edits : AdminCreatePoll(h, p, edit)

AdminStep(h) ==
    \/ PreviewPollSettlement(h)
    \/ UpdatePollResolution(h)
    \/ SettlePollTrades(h)
    \/ SavePoll(h)

Environment ==
    \/ Automate
    \/ \E p \in Polls : Ends(p)
    \/ \E e \in Escrows : EscrowMined(e)

Fault == Restart \/ \E h \in Handlers : StoreFails(h)

Next ==
    \/ \E h \in Requests : UserRequest(h) \/ UserStep(h)
    \/ \E h \in Admins : AdminRequest(h) \/ AdminStep(h)
    \/ Environment
    \/ Fault

Spec == Init /\ [][Next]_vars

----------------------------------------------------------------------------
(* Properties *)

\* One escrow transfer pays for one trade, on whichever market (CreateTrade,
\* "escrow transaction already used"): the check reads the whole graph before
\* the write, so that two requests must not be between the two at once.
EscrowBacksOneTrade ==
    \A s, t \in Trades :
        trades[s].escrow # None /\ trades[s].escrow = trades[t].escrow => s = t

\* Until a market is settled the market maker owes each side the shares of its
\* open trades, on top of those the market was created with or, once the
\* automation has reconciled them, of nothing.
SharesMatchOpenTrades ==
    \A p \in Polls : polls[p].settlement = "none" =>
        \E base \in {InitialShares[p], [s \in Sides |-> 0]} :
            \A s \in Sides :
                polls[p].shares[s] = SharesOf(OpenSide(p, s)) + base[s]

\* When SettlePollTrades has run no trade of the market is open again, and all of
\* them were settled as the market says.
SettlementComplete ==
    \A p \in Polls : polls[p].settlement # "none" =>
        /\ OpenOn(p) = {}
        /\ Cardinality({trades[t].outcome : t \in
             {s \in Trades : trades[s].poll = p
                             /\ trades[s].status \in {"won", "lost", "cancelled"}}})
              <= 1
        /\ \A t \in Trades : trades[t].poll = p =>
              /\ trades[t].status = "cancelled" => polls[p].settlement = "cancelled"
              /\ trades[t].status \in {"won", "lost"} => polls[p].settlement = "resolved"

\* A recorded cashout took out of the position what its transfer paid for: the
\* quote, the transfer and the record are about the same position.
RecordedCashoutIsPaid ==
    \A i \in 1 .. Len(payments) :
        LET closed == {t \in Trades : trades[t].payment = i} IN
        closed # {} => SharesOf(closed) = payments[i].shares

\* "settled markets cannot be reopened or moved to another status"
\* (adminUpdatePoll, adminResolvePoll).
SettledMarketsStay ==
    [][\A p \in Polls : polls[p].settlement # "none" =>
         polls'[p].status = polls[p].status]_vars

\* The trades of a position, a market, a user and a side, that came to this.
Those(x, fates) ==
    {t \in Trades : /\ trades[t].status \in fates
                    /\ trades[t].poll = x[1]
                    /\ trades[t].user = x[2]
                    /\ trades[t].side = x[3]}

\* The markets as the promise of MarketPromise sees them.
Positions == Polls \X Users \X Sides
Arrived == {e \in Escrows : escrows[e] = "confirmed"}
Spent == {trades[t].escrow : t \in Trades} \ {None}
Held == [x \in Positions |-> SharesOf(Those(x, {"open"}))]
Closings == {trades[t].payment : t \in Trades} \ {0}
Owed == [x \in Positions |-> SharesOf(Those(x, {"won", "cancelled"}))]
Verdict == [p \in Polls |->
    IF polls[p].settlement = "none" THEN "none" ELSE polls[p].status]

Promise == INSTANCE MarketPromise WITH
    Transfers <- Escrows, From <- EscrowFrom, arrived <- Arrived, spent <- Spent,
    held <- Held, recorded <- Closings, owed <- Owed, verdict <- Verdict

\* What those who trade are promised holds of the markets, whatever users,
\* administrators, the automation and restarts do between the steps of a request:
\* an escrow buys once, a cashout closes as many shares as were paid for, and a
\* settlement decides every open share of its market, once (createTrade,
\* cashoutPosition, adminResolvePoll).
KeepsPromise == Promise!PromiseSpec

=============================================================================
