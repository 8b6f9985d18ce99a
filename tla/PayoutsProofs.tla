--------------------------- MODULE PayoutsProofs ---------------------------
(***************************************************************************)
(* Proofs about Payouts for every number of trades, requests, nullifiers   *)
(* and transactions: types; what the reservation of a trade and            *)
(* collateralMu guarantee; that a payout is made once and shown when it    *)
(* was made; and that users' claims keep the promise of PayoutPromise.     *)
(***************************************************************************)
EXTENDS Payouts, TLAPS

----------------------------------------------------------------------------
(* What the helpers of the actions preserve *)

\* A call to the gateway, answered or not, leaves every transaction typed.
LEMMA BroadcastAsTyped ==
    ASSUME TypeOK, NEW x \in TxId, NEW units \in SUBSET (Trades \X Notes),
           NEW state \in {"pending", "confirmed", "failed"},
           BroadcastAs(x, units, state)
    PROVE  chain' \in [TxId -> TxStates]
BY DEF TypeOK, BroadcastAs, TxStates

LEMMA BroadcastTyped ==
    ASSUME TypeOK, NEW x \in TxId, NEW units \in SUBSET (Trades \X Notes),
           Broadcast(x, units)
    PROVE  chain' \in [TxId -> TxStates]
BY BroadcastAsTyped DEF Broadcast

LEMMA CallFailsTyped ==
    ASSUME TypeOK, NEW units \in SUBSET (Trades \X Notes), CallFails(units)
    PROVE  chain' \in [TxId -> TxStates]
<1>1. CASE UNCHANGED chain
    BY <1>1 DEF TypeOK
<1>2. CASE DirtyErrors /\ \E x \in TxId : Broadcast(x, units)
    BY <1>2, BroadcastTyped
<1>3. QED
    BY <1>1, <1>2 DEF CallFails

\* The type of a handler starts from that of one at rest.
LEMMA IdleTyped == Idle \in HandlerStates
BY DEF Idle, HandlerStates, Steps, ClaimKinds, AdminKinds, PayoutStatuses

LEMMA UnlockTyped ==
    ASSUME TypeOK, NEW h \in Handlers, Unlock(h)
    PROVE  mutex' \in Handlers \cup {None}
BY DEF TypeOK, Unlock

\* The claims of every trade and nullifier.
LEMMA ClaimTyped ==
    ASSUME TypeOK, NEW t \in Trades, NEW n \in Nullifiers
    PROVE  claims[t][n] \in ClaimStates
<1>1. claims[t] \in [Nullifiers -> ClaimStates]
    BY DEF TypeOK
<1>2. QED
    BY <1>1

\* One claim is written, if it is a claim at all.
LEMMA ClaimsTyped ==
    ASSUME TypeOK, NEW t, NEW n, NEW claim,
           t \in Trades /\ n \in Nullifiers => claim \in ClaimStates,
           claims' = [claims EXCEPT ![t][n] = claim]
    PROVE  claims' \in [Trades -> [Nullifiers -> ClaimStates]]
<1>1. CASE t \in Trades
    <2>1. claims[t] \in [Nullifiers -> ClaimStates]
        BY <1>1 DEF TypeOK
    <2>2. [claims[t] EXCEPT ![n] = claim] \in [Nullifiers -> ClaimStates]
        BY <1>1, <2>1
    <2>3. QED
        BY <2>2 DEF TypeOK
<1>2. CASE t \notin Trades
    BY <1>2 DEF TypeOK
<1>3. QED
    BY <1>1, <1>2

LEMMA UnitsTyped ==
    ASSUME NEW ts \in SUBSET Trades
    PROVE  UnitsOf(ts) \in SUBSET (Trades \X Notes)
BY DEF UnitsOf

\* A handler in the middle of a claim on a trade has one.
LEMMA StatusTyped ==
    ASSUME TypeOK, NEW txs \in Seq(TxId)
    PROVE  WaitedStatus(txs) \subseteq {"submitted", "sent", "failed"}
BY DEF WaitedStatus, TransactionStatus

----------------------------------------------------------------------------
(* Type correctness of the full specification *)

Crediting == {"approve", "approved", "deposit", "deposited"}

\* What the type of a handler leaves open: a handler that is going to pay has
\* a trade to pay, one that reserves a private claim has its nullifier, and one
\* that credits notes has a note left to credit.
HandlerOK ==
    \A h \in Handlers :
        /\ handlers[h].pc \in {"reserve", "register", "pay"} \cup Crediting
              => handlers[h].trade \in Trades
        /\ handlers[h].pc = "reserve" =>
              handlers[h].nullifier \in Nullifiers /\ handlers[h].kind = "private"
        /\ handlers[h].pc \in Crediting
              => handlers[h].todo \in (SUBSET Notes) \ {{}}

TypeInv == TypeOK /\ HandlerOK

LEMMA InitTyped == Init => TypeInv
<1> SUFFICES ASSUME Init PROVE TypeInv
    OBVIOUS
<1> USE PayoutsAssumption
<1>1. PICK states \in [CashedOut -> {"pending", "confirmed", "failed"}] :
          /\ trades = [t \in Trades |->
                [payoutStatus |-> InitialPayoutStatus(t, states),
                 txs |-> IF t \in CashedOut THEN <<CashoutTx[t]>> ELSE <<>>,
                 claim |-> None]]
          /\ chain = [x \in TxId |->
                IF \E t \in CashedOut : CashoutTx[t] = x
                THEN LET t == CHOOSE s \in CashedOut : CashoutTx[s] = x
                     IN  [pays |-> UnitsOf({t}), state |-> states[t]]
                ELSE Unused]
    BY DEF Init
<1>2. trades \in [Trades -> TradeStates]
    <2>1. \A t \in Trades : InitialPayoutStatus(t, states) \in PayoutStatuses
        BY DEF InitialPayoutStatus, CashoutStatus, PayoutStatuses
    <2>2. \A t \in CashedOut : <<CashoutTx[t]>> \in Seq(TxId)
        OBVIOUS
    <2>3. QED
        BY <1>1, <2>1, <2>2 DEF TradeStates
<1>3. chain \in [TxId -> TxStates]
    <2>1. SUFFICES ASSUME NEW x \in TxId PROVE chain[x] \in TxStates
        BY <1>1
    <2>2. CASE \E t \in CashedOut : CashoutTx[t] = x
        <3> DEFINE t == CHOOSE s \in CashedOut : CashoutTx[s] = x
        <3>1. t \in CashedOut
            BY <2>2
        <3>2. UnitsOf({t}) \in SUBSET (Trades \X Notes)
            BY <3>1 DEF CashedOut, UnitsOf
        <3>3. chain[x] = [pays |-> UnitsOf({t}), state |-> states[t]]
            BY <1>1, <2>2
        <3>4. QED
            BY <3>1, <3>2, <3>3 DEF TxStates
    <2>3. CASE ~\E t \in CashedOut : CashoutTx[t] = x
        BY <1>1, <2>3 DEF Unused, TxStates
    <2>4. QED
        BY <2>2, <2>3
<1>4. claims \in [Trades -> [Nullifiers -> ClaimStates]]
    BY DEF Init, NoClaim, ClaimStates
<1>5. handlers \in [Handlers -> HandlerStates] /\ HandlerOK
    BY IdleTyped DEF Init, HandlerOK, Idle, Crediting
<1>6. QED
    <2>1. pollTxs \in Seq(TxId) /\ mutex \in Handlers \cup {None}
        BY DEF Init
    <2>2. QED
        BY <1>2, <1>3, <1>4, <1>5, <2>1 DEF TypeInv, TypeOK

\* Handler h takes on a new state, and every other handler keeps its own.
LEMMA BecomesTyped ==
    ASSUME TypeInv, NEW h \in Handlers, NEW state \in HandlerStates,
           Becomes(h, state),
           state.pc \in {"reserve", "register", "pay"} \cup Crediting
              => state.trade \in Trades,
           state.pc = "reserve" =>
              state.nullifier \in Nullifiers /\ state.kind = "private",
           state.pc \in Crediting => state.todo \in (SUBSET Notes) \ {{}}
    PROVE  /\ handlers' \in [Handlers -> HandlerStates]
           /\ HandlerOK'
<1>1. handlers \in [Handlers -> HandlerStates]
    BY DEF TypeInv, TypeOK
<1>2. \A g \in Handlers : handlers'[g] = IF g = h THEN state ELSE handlers[g]
    BY <1>1 DEF Becomes
<1>3. HandlerOK'
    BY <1>2 DEF TypeInv, HandlerOK
<1>4. QED
    BY <1>1, <1>3 DEF Becomes

\* A user request is admitted.
LEMMA UserRequestTyped ==
    ASSUME TypeInv, NEW h \in Handlers, UserRequest(h)
    PROVE  TypeInv'
<1> USE DEF TypeInv
<1>1. ASSUME NEW t \in Trades, ReserveDirectTradePayout(h, t)
      PROVE  TypeInv'
    <2>1. [Idle EXCEPT !.pc = "pay", !.kind = "direct", !.trade = t]
             \in HandlerStates
        BY IdleTyped DEF HandlerStates, Steps, ClaimKinds
    <2>2. handlers' \in [Handlers -> HandlerStates] /\ HandlerOK'
        BY <1>1, <2>1 DEF ReserveDirectTradePayout, Becomes, TypeOK, HandlerOK, Idle, Crediting
    <2>3. [trades[t] EXCEPT !.payoutStatus = "claim_pending"] \in TradeStates
        BY DEF TypeOK, TradeStates, PayoutStatuses
    <2>4. trades' \in [Trades -> TradeStates]
        BY <1>1, <2>3 DEF ReserveDirectTradePayout, TypeOK
    <2>5. QED
        BY <1>1, <2>2, <2>4 DEF ReserveDirectTradePayout, TypeOK
<1>2. ASSUME NEW t \in Trades, NEW n \in Nullifiers, RetryPrivateClaim(h, t, n)
      PROVE  TypeInv'
    <2>1. [Idle EXCEPT !.pc = "register", !.kind = "private", !.trade = t,
                       !.nullifier = n] \in HandlerStates
        BY IdleTyped DEF HandlerStates, Steps, ClaimKinds
    <2>2. handlers' \in [Handlers -> HandlerStates] /\ HandlerOK'
        BY <1>2, <2>1 DEF RetryPrivateClaim, Becomes, TypeOK, HandlerOK, Idle, Crediting
    <2>3. [trades[t] EXCEPT !.payoutStatus = "claim_pending"] \in TradeStates
        BY DEF TypeOK, TradeStates, PayoutStatuses
    <2>4. [claims[t][n] EXCEPT !.status = "reserved"] \in ClaimStates
        BY ClaimTyped DEF ClaimStates
    <2>5. trades' \in [Trades -> TradeStates]
        BY <1>2, <2>3 DEF RetryPrivateClaim, TypeOK
    <2>6. claims' = [claims EXCEPT ![t][n] = [@ EXCEPT !.status = "reserved"]]
        BY <1>2 DEF RetryPrivateClaim
    <2>7. claims' \in [Trades -> [Nullifiers -> ClaimStates]]
        BY <2>4, <2>6, ClaimsTyped
    <2>8. QED
        BY <1>2, <2>2, <2>5, <2>7 DEF RetryPrivateClaim, TypeOK
<1>3. ASSUME NEW t \in Trades, NEW n \in Nullifiers, FindNullifier(h, t, n)
      PROVE  TypeInv'
    <2>1. [Idle EXCEPT !.pc = "reserve", !.kind = "private", !.trade = t,
                       !.nullifier = n] \in HandlerStates
        BY IdleTyped DEF HandlerStates, Steps, ClaimKinds
    <2>2. handlers' \in [Handlers -> HandlerStates] /\ HandlerOK'
        BY <1>3, <2>1 DEF FindNullifier, Becomes, TypeOK, HandlerOK, Idle, Crediting
    <2>3. QED
        BY <1>3, <2>2 DEF FindNullifier, TypeOK
<1>4. QED
    BY <1>1, <1>2, <1>3 DEF UserRequest

\* An administrator's request is admitted.
LEMMA AdminRequestTyped ==
    ASSUME TypeInv, NEW h \in Handlers, AdminRequest(h)
    PROVE  TypeInv'
<1> USE DEF TypeInv
<1>1. ASSUME NEW t \in Trades, AdminRetryPrivateClaimPayout(h, t)
      PROVE  TypeInv'
    <2>1. [Idle EXCEPT !.pc = "pay", !.kind = "privateRetry", !.trade = t,
                       !.nullifier = trades[t].claim] \in HandlerStates
        BY IdleTyped DEF TypeOK, TradeStates, HandlerStates, Steps, AdminKinds
    <2>2. QED
        BY <1>1, <2>1 DEF AdminRetryPrivateClaimPayout, Becomes, TypeOK, HandlerOK, Crediting
<1>2. ASSUME NEW t \in Trades, AdminReconcilePrivateClaimPayout(h, t)
      PROVE  TypeInv'
    <2>1. [Idle EXCEPT !.pc = "wait", !.kind = "privateReconcile", !.trade = t,
                       !.nullifier = trades[t].claim, !.txs = trades[t].txs]
             \in HandlerStates
        BY IdleTyped DEF TypeOK, TradeStates, HandlerStates, Steps, AdminKinds
    <2>2. QED
        BY <1>2, <2>1 DEF AdminReconcilePrivateClaimPayout, Becomes, TypeOK, HandlerOK,
                          Crediting
<1>3. ASSUME AdminRetrySettlementPayout(h)
      PROVE  TypeInv'
    <2>1. Recipients \in SUBSET (Users \cup Notes)
        BY PayoutsAssumption DEF Recipients
    <2>2. [Idle EXCEPT !.pc = "send", !.kind = "settlementRetry",
                       !.todo = Recipients] \in HandlerStates
        BY <2>1, IdleTyped DEF HandlerStates, Steps, AdminKinds
    <2>3. QED
        BY <1>3, <2>2 DEF AdminRetrySettlementPayout, Becomes, TypeOK, HandlerOK, Crediting
<1>4. ASSUME AdminReconcileSettlementPayout(h)
      PROVE  TypeInv'
    <2>1. [Idle EXCEPT !.pc = "wait", !.kind = "settlementReconcile",
                       !.txs = pollTxs] \in HandlerStates
        BY IdleTyped DEF TypeOK, HandlerStates, Steps, AdminKinds
    <2>2. QED
        BY <1>4, <2>1 DEF AdminReconcileSettlementPayout, Becomes, TypeOK, HandlerOK, Crediting
<1>5. QED
    BY <1>1, <1>2, <1>3, <1>4 DEF AdminRequest

\* What ends a handler's step leaves it a handler.
LEMMA FinishOK ==
    ASSUME TypeInv, NEW h \in Handlers, NEW txs \in Seq(TxId),
           NEW status \in PayoutStatuses, Finish(h, txs, status)
    PROVE  handlers' \in [Handlers -> HandlerStates] /\ HandlerOK'
<1> DEFINE state == [handlers[h] EXCEPT !.pc = "record", !.txs = txs,
                                        !.status = status]
<1>1. handlers[h] \in HandlerStates /\ "record" \in Steps
    BY DEF TypeInv, TypeOK, Steps
<1>2. state \in HandlerStates /\ state.pc = "record"
    BY <1>1 DEF HandlerStates
<1>3. Becomes(h, state)
    BY DEF Finish, Becomes
<1>4. QED
    BY <1>2, <1>3, BecomesTyped DEF Crediting

LEMMA ReturnOK ==
    ASSUME TypeInv, NEW h \in Handlers, Return(h)
    PROVE  handlers' \in [Handlers -> HandlerStates] /\ HandlerOK'
<1>1. Becomes(h, Idle) /\ Idle.pc = "idle"
    BY DEF Return, Becomes, Idle
<1>2. QED
    BY <1>1, IdleTyped, BecomesTyped DEF Crediting

LEMMA GotoOK ==
    ASSUME TypeInv, NEW h \in Handlers, NEW pc \in Steps, Goto(h, pc),
           pc # "reserve",
           pc \in {"register", "pay"} => handlers[h].trade \in Trades,
           pc \in Crediting => handlers[h].pc \in Crediting
    PROVE  handlers' \in [Handlers -> HandlerStates] /\ HandlerOK'
<1> DEFINE state == [handlers[h] EXCEPT !.pc = pc]
<1>1. handlers[h] \in HandlerStates
    BY DEF TypeInv, TypeOK
<1>2. /\ state \in HandlerStates
      /\ state.pc = pc
      /\ state.trade = handlers[h].trade
      /\ state.todo = handlers[h].todo
    BY <1>1 DEF HandlerStates
<1>3. Becomes(h, state)
    BY DEF Goto, Becomes
<1>4. /\ pc \in Crediting => handlers[h].trade \in Trades
      /\ pc \in Crediting => handlers[h].todo \in (SUBSET Notes) \ {{}}
    BY DEF TypeInv, HandlerOK
<1>5. QED
    BY <1>2, <1>3, <1>4, BecomesTyped

LEMMA CreditFailsOK ==
    ASSUME TypeInv, NEW h \in Handlers, CreditFails(h)
    PROVE  /\ handlers' \in [Handlers -> HandlerStates] /\ HandlerOK'
           /\ mutex' \in Handlers \cup {None}
<1>1. handlers[h].txs \in Seq(TxId) /\ "failed" \in PayoutStatuses
    BY DEF TypeInv, TypeOK, HandlerStates, PayoutStatuses
<1>2. QED
    BY <1>1, FinishOK, UnlockTyped DEF CreditFails, TypeInv

\* A credited note leaves a note to credit or ends the credit.
LEMMA NoteCreditedOK ==
    ASSUME TypeInv, NEW h \in Handlers, NEW txs \in Seq(TxId),
           NEW status \in PayoutStatuses,
           handlers[h].pc \in Crediting, NoteCredited(h, txs, status)
    PROVE  /\ handlers' \in [Handlers -> HandlerStates] /\ HandlerOK'
           /\ mutex' \in Handlers \cup {None}
<1> DEFINE rest == handlers[h].todo \ {NextNote(h)}
<1>1. CASE rest # {}
    <2> DEFINE state == [handlers[h] EXCEPT !.pc = "approve", !.todo = rest,
                                            !.txs = txs, !.status = status]
    <2>1. handlers[h] \in HandlerStates /\ "approve" \in Steps
        BY DEF TypeInv, TypeOK, Steps
    <2>2. handlers[h].trade \in Trades /\ rest \in (SUBSET Notes) \ {{}}
        BY <1>1 DEF TypeInv, HandlerOK
    <2>3. /\ state \in HandlerStates
          /\ state.pc = "approve"
          /\ state.trade = handlers[h].trade
          /\ state.todo = rest
        BY <2>1, <2>2 DEF HandlerStates
    <2>4. Becomes(h, state) /\ mutex' = mutex
        BY <1>1 DEF NoteCredited, Becomes
    <2>5. QED
        BY <2>2, <2>3, <2>4, BecomesTyped DEF TypeInv, TypeOK
<1>2. CASE rest = {}
    BY <1>2, FinishOK, UnlockTyped DEF NoteCredited, TypeInv
<1>3. QED
    BY <1>1, <1>2

\* Every step of a user's request.
LEMMA UserStepTyped ==
    ASSUME TypeInv, NEW h \in Handlers, UserStep(h)
    PROVE  TypeInv'
<1> DEFINE txs == handlers[h].txs
           status == handlers[h].status
<1>0. handlers[h] \in HandlerStates /\ txs \in Seq(TxId) /\ status \in PayoutStatuses
    BY DEF TypeInv, TypeOK, HandlerStates
<1>s. /\ {"failed", "submitted", "sent", "claim_failed"} \subseteq PayoutStatuses
      /\ <<>> \in Seq(TxId)
    BY DEF PayoutStatuses
<1>1. CASE RegisterPrivateClaim(h)
    <2>1. handlers' \in [Handlers -> HandlerStates] /\ HandlerOK'
        <3>1. CASE Goto(h, "pay")
            <4>1. "pay" \in Steps \ {"reserve"} /\ handlers[h].trade \in Trades
                BY <1>1 DEF RegisterPrivateClaim, TypeInv, HandlerOK, Steps
            <4>2. QED
                BY <3>1, <4>1, GotoOK DEF Crediting
        <3>2. CASE Finish(h, <<>>, "failed")
            BY <3>2, <1>s, FinishOK
        <3>3. QED
            BY <1>1, <3>1, <3>2 DEF RegisterPrivateClaim
    <2>2. claims' \in [Trades -> [Nullifiers -> ClaimStates]]
        <3> DEFINE t == handlers[h].trade
                   n == handlers[h].nullifier
        <3>1. ASSUME NEW answer \in {"submitted", "failed"}, t \in Trades,
                     n \in Nullifiers
              PROVE  [claims[t][n] EXCEPT !.registry = answer] \in ClaimStates
            BY <3>1, ClaimTyped DEF TypeInv, ClaimStates
        <3>2. CASE UNCHANGED claims
            BY <3>2 DEF TypeInv, TypeOK
        <3>3. ASSUME NEW answer \in {"submitted", "failed"},
                     claims' = [claims EXCEPT ![t][n].registry = answer]
              PROVE  claims' \in [Trades -> [Nullifiers -> ClaimStates]]
            <4>1. claims' = [claims EXCEPT ![t][n] = [@ EXCEPT !.registry = answer]]
                BY <3>3
            <4>2. QED
                BY <3>1, <4>1, ClaimsTyped DEF TypeInv
        <3>4. QED
            BY <1>1, <3>2, <3>3 DEF RegisterPrivateClaim
    <2>3. QED
        BY <1>1, <2>1, <2>2 DEF RegisterPrivateClaim, TypeInv, TypeOK
<1>2. CASE TransferAccepted(h)
    <2>1. PICK x \in TxId :
             /\ Broadcast(x, UnitsOf({handlers[h].trade}))
             /\ Becomes(h, [handlers[h] EXCEPT !.pc = "wait", !.txs = <<x>>])
        BY <1>2 DEF TransferAccepted
    <2>2. UnitsOf({handlers[h].trade}) \in SUBSET (Trades \X Notes)
        BY <1>2, UnitsTyped DEF TransferAccepted, TypeInv, HandlerOK
    <2>3. /\ [handlers[h] EXCEPT !.pc = "wait", !.txs = <<x>>] \in HandlerStates
          /\ [handlers[h] EXCEPT !.pc = "wait", !.txs = <<x>>].pc = "wait"
        <3>1. <<x>> \in Seq(TxId)
            OBVIOUS
        <3>2. QED
            BY <1>0, <3>1 DEF HandlerStates, Steps
    <2>4. handlers' \in [Handlers -> HandlerStates] /\ HandlerOK'
        BY <2>1, <2>3, BecomesTyped DEF Crediting
    <2>5. chain' \in [TxId -> TxStates]
        BY <2>1, <2>2, BroadcastTyped DEF TypeInv
    <2>6. QED
        BY <1>2, <2>4, <2>5 DEF TransferAccepted, TypeInv, TypeOK
<1>3. CASE TransferRefused(h)
    <2>1. UnitsOf({handlers[h].trade}) \in SUBSET (Trades \X Notes)
        BY <1>3, UnitsTyped DEF TransferRefused, TypeInv, HandlerOK
    <2>2. chain' \in [TxId -> TxStates]
        <3>1. CASE UNCHANGED chain
            BY <3>1 DEF TypeInv, TypeOK
        <3>2. QED
            BY <1>3, <2>1, <3>1, CallFailsTyped DEF TransferRefused, TypeInv
    <2>3. handlers' \in [Handlers -> HandlerStates] /\ HandlerOK'
        BY <1>3, <1>s, ReturnOK, FinishOK DEF TransferRefused
    <2>4. QED
        BY <1>3, <2>2, <2>3 DEF TransferRefused, TypeInv, TypeOK
<1>4. CASE WaitForTransactionStatus(h)
    <2>1. PICK st \in WaitedStatus(txs) : Finish(h, txs, st)
        BY <1>4 DEF WaitForTransactionStatus
    <2>2. st \in PayoutStatuses
        BY <1>0, <1>s, StatusTyped DEF TypeInv
    <2>3. QED
        BY <1>0, <1>4, <2>1, <2>2, FinishOK
        DEF WaitForTransactionStatus, TypeInv, TypeOK
<1>5. CASE BeginCredit(h)
    <2>1. CASE Finish(h, <<>>, "failed") /\ UNCHANGED mutex
        BY <1>5, <2>1, <1>s, FinishOK DEF BeginCredit, TypeInv, TypeOK
    <2>2. CASE /\ mutex' = h
               /\ Becomes(h, [handlers[h] EXCEPT !.pc = "approve", !.todo = Notes,
                                                 !.status = "submitted"])
        <3> DEFINE state == [handlers[h] EXCEPT !.pc = "approve", !.todo = Notes,
                                                !.status = "submitted"]
        <3>0. "approve" \in Steps /\ "submitted" \in PayoutStatuses
            BY DEF Steps, PayoutStatuses
        <3>1. /\ state \in HandlerStates
              /\ state.pc = "approve"
              /\ state.trade = handlers[h].trade
              /\ state.todo = Notes
            BY <1>0, <3>0 DEF HandlerStates
        <3>2. handlers[h].trade \in Trades /\ Notes \in (SUBSET Notes) \ {{}}
            <4>1. Notes # {}
                BY PayoutsAssumption
            <4>2. handlers[h].trade \in Trades
                BY <1>5 DEF BeginCredit, TypeInv, HandlerOK
            <4>3. QED
                BY <4>1, <4>2
        <3>3. handlers' \in [Handlers -> HandlerStates] /\ HandlerOK'
            BY <2>2, <3>1, <3>2, BecomesTyped
        <3>4. QED
            BY <1>5, <2>2, <3>3 DEF BeginCredit, TypeInv, TypeOK
    <2>3. QED
        BY <1>5, <2>1, <2>2 DEF BeginCredit
<1>6. CASE ApproveNote(h)
    <2>1. ASSUME NEW x \in TxId, Broadcast(x, {}), UNCHANGED mutex,
                 Becomes(h, [handlers[h] EXCEPT !.pc = "approved",
                                                !.txs = Append(@, x)])
          PROVE  TypeInv'
        <3> DEFINE state == [handlers[h] EXCEPT !.pc = "approved",
                                                !.txs = Append(@, x)]
        <3>1. Append(txs, x) \in Seq(TxId)
            BY <1>0
        <3>2. /\ state \in HandlerStates
              /\ state.pc = "approved"
              /\ state.trade = handlers[h].trade
              /\ state.todo = handlers[h].todo
            BY <1>0, <3>1 DEF HandlerStates, Steps
        <3>3. /\ handlers[h].trade \in Trades
              /\ handlers[h].todo \in (SUBSET Notes) \ {{}}
            BY <1>6 DEF ApproveNote, TypeInv, HandlerOK, Crediting
        <3>4. handlers' \in [Handlers -> HandlerStates] /\ HandlerOK'
            BY <2>1, <3>2, <3>3, BecomesTyped
        <3>5. QED
            BY <1>6, <2>1, <3>4, BroadcastTyped DEF ApproveNote, TypeInv, TypeOK
    <2>2. CASE CallFails({}) /\ CreditFails(h)
        BY <1>6, <2>2, CallFailsTyped, CreditFailsOK DEF ApproveNote, TypeInv, TypeOK
    <2>3. QED
        BY <1>6, <2>1, <2>2 DEF ApproveNote
<1>7. CASE AwaitApproval(h)
    <2>1. CASE LastConfirmed(h) /\ Goto(h, "deposit") /\ UNCHANGED mutex
        <3>1. handlers[h].pc \in Crediting /\ "deposit" \in Steps \ {"reserve"}
            BY <1>7 DEF AwaitApproval, Crediting, Steps
        <3>2. QED
            BY <1>7, <2>1, <3>1, GotoOK DEF AwaitApproval, TypeInv, TypeOK
    <2>2. CASE CreditFails(h)
        BY <1>7, <2>2, CreditFailsOK DEF AwaitApproval, TypeInv, TypeOK
    <2>3. QED
        BY <1>7, <2>1, <2>2 DEF AwaitApproval
<1>8. CASE DepositNote(h)
    <2> DEFINE unit == {<<handlers[h].trade, NextNote(h)>>}
    <2>1. /\ handlers[h].trade \in Trades
          /\ handlers[h].todo \in (SUBSET Notes) \ {{}}
          /\ handlers[h].pc \in Crediting
        BY <1>8 DEF DepositNote, TypeInv, HandlerOK, Crediting
    <2>2. unit \in SUBSET (Trades \X Notes)
        <3>1. NextNote(h) \in handlers[h].todo
            <4>1. \E n \in handlers[h].todo : TRUE
                BY <2>1
            <4>2. QED
                BY <4>1, Zenon DEF NextNote
        <3>2. QED
            BY <2>1, <3>1
    <2>3. ASSUME NEW x \in TxId, Broadcast(x, unit),
                 AwaitDeposits, UNCHANGED mutex,
                 Becomes(h, [handlers[h] EXCEPT !.pc = "deposited",
                                                !.txs = Append(@, x)])
          PROVE  TypeInv'
        <3> DEFINE state == [handlers[h] EXCEPT !.pc = "deposited",
                                                !.txs = Append(@, x)]
        <3>1. Append(txs, x) \in Seq(TxId)
            BY <1>0
        <3>2. /\ state \in HandlerStates
              /\ state.pc = "deposited"
              /\ state.trade = handlers[h].trade
              /\ state.todo = handlers[h].todo
            BY <1>0, <3>1 DEF HandlerStates, Steps
        <3>3. handlers' \in [Handlers -> HandlerStates] /\ HandlerOK'
            BY <2>1, <2>3, <3>2, BecomesTyped
        <3>4. QED
            BY <1>8, <2>2, <2>3, <3>3, BroadcastTyped DEF DepositNote, TypeInv, TypeOK
    <2>4. ASSUME NEW x \in TxId, NEW state \in {"pending", "confirmed", "failed"},
                 BroadcastAs(x, unit, state),
                 NEW answer \in {CashoutStatus(state), status},
                 NoteCredited(h, Append(txs, x), answer)
          PROVE  TypeInv'
        <3>1. Append(txs, x) \in Seq(TxId) /\ answer \in PayoutStatuses
            BY <1>0 DEF CashoutStatus, PayoutStatuses
        <3>2. QED
            BY <1>8, <2>1, <2>2, <2>4, <3>1, NoteCreditedOK, BroadcastAsTyped
            DEF DepositNote, TypeInv, TypeOK
    <2>5. CASE CallFails(unit) /\ CreditFails(h)
        BY <1>8, <2>2, <2>5, CallFailsTyped, CreditFailsOK
        DEF DepositNote, TypeInv, TypeOK
    <2>6. QED
        BY <1>8, <2>3, <2>4, <2>5 DEF DepositNote
<1>9. CASE AwaitDeposit(h)
    <2>1. handlers[h].pc \in Crediting
        BY <1>9 DEF AwaitDeposit, Crediting
    <2>2. CASE NoteCredited(h, txs, "sent")
        BY <1>0, <1>s, <1>9, <2>1, <2>2, NoteCreditedOK DEF AwaitDeposit, TypeInv, TypeOK
    <2>3. CASE CreditFails(h)
        BY <1>9, <2>3, CreditFailsOK DEF AwaitDeposit, TypeInv, TypeOK
    <2>4. QED
        BY <1>9, <2>2, <2>3 DEF AwaitDeposit
<1>10. CASE CompleteDirectTradePayout(h)
    <2>1. ASSUME NEW t \in Trades
          PROVE  [trades[t] EXCEPT !.payoutStatus = status, !.txs = txs] \in TradeStates
        BY <1>0 DEF TypeInv, TypeOK, TradeStates
    <2>2. trades' \in [Trades -> TradeStates]
        <3>1. CASE UNCHANGED trades
            BY <3>1 DEF TypeInv, TypeOK
        <3>2. CASE trades' = [trades EXCEPT ![handlers[h].trade] =
                      [@ EXCEPT !.payoutStatus = status, !.txs = txs]]
            BY <2>1, <3>2 DEF TypeInv, TypeOK
        <3>3. QED
            BY <1>10, <3>1, <3>2 DEF CompleteDirectTradePayout
    <2>3. QED
        BY <1>10, <2>2, ReturnOK DEF CompleteDirectTradePayout, TypeInv, TypeOK
<1>11. CASE CompletePrivateClaimPayout(h)
    <2> DEFINE shown == IF status = "failed" THEN "claim_failed" ELSE status
               kept == IF status = "failed" THEN "failed" ELSE "submitted"
    <2>1. ASSUME NEW t \in Trades
          PROVE  [trades[t] EXCEPT !.payoutStatus = shown, !.txs = txs] \in TradeStates
        BY <1>0, <1>s DEF TypeInv, TypeOK, TradeStates
    <2>2. ASSUME NEW t \in Trades, NEW n \in Nullifiers
          PROVE  [claims[t][n] EXCEPT !.status = kept, !.txs = txs] \in ClaimStates
        BY <1>0, ClaimTyped DEF TypeInv, ClaimStates
    <2>3. trades' \in [Trades -> TradeStates]
        BY <1>11, <2>1 DEF CompletePrivateClaimPayout, TypeInv, TypeOK
    <2>4. claims' \in [Trades -> [Nullifiers -> ClaimStates]]
        <3>1. claims' = [claims EXCEPT ![handlers[h].trade][handlers[h].nullifier] =
                           [@ EXCEPT !.status = kept, !.txs = txs]]
            BY <1>11 DEF CompletePrivateClaimPayout
        <3>2. QED
            BY <2>2, <3>1, ClaimsTyped DEF TypeInv
    <2>5. QED
        BY <1>11, <2>3, <2>4, ReturnOK DEF CompletePrivateClaimPayout, TypeInv, TypeOK
<1>12. CASE ReservePrivateClaim(h)
    <2> DEFINE t == handlers[h].trade
               n == handlers[h].nullifier
    <2>0. t \in Trades /\ n \in Nullifiers
        BY <1>12 DEF ReservePrivateClaim, TypeInv, HandlerOK
    <2>1. ASSUME claims' = [claims EXCEPT ![t][n].status = "reserved"],
                 trades' = [trades EXCEPT
                     ![t] = [@ EXCEPT !.payoutStatus = "claim_pending", !.claim = n]],
                 Goto(h, "register")
          PROVE  TypeInv'
        <3>1. "register" \in Steps \ {"reserve"} /\ "register" \notin Crediting
            BY DEF Steps, Crediting
        <3>2. handlers' \in [Handlers -> HandlerStates] /\ HandlerOK'
            BY <2>0, <2>1, <3>1, GotoOK
        <3>3. [trades[t] EXCEPT !.payoutStatus = "claim_pending", !.claim = n]
                 \in TradeStates
            BY <2>0 DEF TypeInv, TypeOK, TradeStates, PayoutStatuses
        <3>4. [claims[t][n] EXCEPT !.status = "reserved"] \in ClaimStates
            BY <2>0, ClaimTyped DEF TypeInv, ClaimStates
        <3>5. trades' \in [Trades -> TradeStates]
            BY <2>1, <3>3 DEF TypeInv, TypeOK
        <3>6. claims' \in [Trades -> [Nullifiers -> ClaimStates]]
            <4>1. claims' = [claims EXCEPT ![t][n] = [@ EXCEPT !.status = "reserved"]]
                BY <2>1
            <4>2. QED
                BY <3>4, <4>1, ClaimsTyped DEF TypeInv
        <3>7. QED
            BY <1>12, <3>2, <3>5, <3>6 DEF ReservePrivateClaim, TypeInv, TypeOK
    <2>2. ASSUME Return(h), UNCHANGED <<trades, claims>>
          PROVE  TypeInv'
        BY <1>12, <2>2, ReturnOK DEF ReservePrivateClaim, TypeInv, TypeOK
    <2>3. QED
        BY <1>12, <2>1, <2>2 DEF ReservePrivateClaim
<1>13. QED
    BY <1>1, <1>2, <1>3, <1>4, <1>5, <1>6, <1>7, <1>8, <1>9, <1>10, <1>11, <1>12
    DEF UserStep

\* Every step of an administrator's settlement retry or reconciliation.
LEMMA AdminStepTyped ==
    ASSUME TypeInv, NEW h \in Handlers, AdminStep(h)
    PROVE  TypeInv'
<1>0. handlers[h] \in HandlerStates
    BY DEF TypeInv, TypeOK
<1>1. CASE SendSettlementPayout(h)
    <2>1. PICK u \in handlers[h].todo :
             \/ /\ \E x \in TxId :
                      /\ Broadcast(x, UnitsOf(TradesOf(u)))
                      /\ Becomes(h, [handlers[h] EXCEPT
                            !.todo = @ \ {u}, !.txs = Append(@, x),
                            !.pc = IF handlers[h].todo = {u} THEN "wait" ELSE "send"])
                /\ UNCHANGED mutex
             \/ CallFails(UnitsOf(TradesOf(u))) /\ Return(h) /\ Unlock(h)
        BY <1>1 DEF SendSettlementPayout
    <2>2. UnitsOf(TradesOf(u)) \in SUBSET (Trades \X Notes)
        BY UnitsTyped DEF TradesOf, PayableTrades
    <2>3. ASSUME NEW x \in TxId, Broadcast(x, UnitsOf(TradesOf(u))), UNCHANGED mutex,
                 Becomes(h, [handlers[h] EXCEPT
                    !.todo = @ \ {u}, !.txs = Append(@, x),
                    !.pc = IF handlers[h].todo = {u} THEN "wait" ELSE "send"])
          PROVE  TypeInv'
        <3> DEFINE pc == IF handlers[h].todo = {u} THEN "wait" ELSE "send"
                   state == [handlers[h] EXCEPT
                       !.todo = @ \ {u}, !.txs = Append(@, x), !.pc = pc]
        <3>1. pc \in Steps /\ pc \notin {"reserve", "register", "pay"} \cup Crediting
            BY DEF Steps, Crediting
        <3>2. Append(handlers[h].txs, x) \in Seq(TxId)
            BY <1>0 DEF HandlerStates
        <3>3. state \in HandlerStates /\ state.pc = pc
            BY <1>0, <3>1, <3>2 DEF HandlerStates
        <3>4. Becomes(h, state)
            BY <2>3
        <3>5. state.pc \notin {"reserve", "register", "pay"} \cup Crediting
            BY <3>1, <3>3
        <3>6. handlers' \in [Handlers -> HandlerStates] /\ HandlerOK'
            <4> HIDE DEF state, pc
            <4>1. QED
                BY <3>3, <3>4, <3>5, BecomesTyped
        <3>7. QED
            BY <1>1, <2>2, <2>3, <3>6, BroadcastTyped
            DEF SendSettlementPayout, TypeInv, TypeOK
    <2>4. CASE CallFails(UnitsOf(TradesOf(u))) /\ Return(h) /\ Unlock(h)
        BY <1>1, <2>2, <2>4, CallFailsTyped, ReturnOK, UnlockTyped
        DEF SendSettlementPayout, TypeInv, TypeOK
    <2>5. QED
        BY <2>1, <2>3, <2>4
<1>2. CASE RecordSettlementPayoutRetry(h)
    <2>1. /\ handlers[h].txs \in Seq(TxId)
          /\ handlers[h].status \in PayoutStatuses
        BY <1>0 DEF HandlerStates
    <2>2. trades' \in [Trades -> TradeStates]
        BY <1>2, <2>1 DEF RecordSettlementPayoutRetry, OverwritePayouts, TypeInv,
                          TypeOK, TradeStates
    <2>3. QED
        BY <1>2, <2>1, <2>2, ReturnOK, UnlockTyped
        DEF RecordSettlementPayoutRetry, TypeInv, TypeOK
<1>3. CASE UpdateSettlementPayoutReconciliation(h)
    <2>1. handlers[h].status \in PayoutStatuses
        BY <1>0 DEF HandlerStates
    <2>2. trades' \in [Trades -> TradeStates]
        BY <1>3, <2>1 DEF UpdateSettlementPayoutReconciliation, TypeInv, TypeOK,
                          TradeStates
    <2>3. QED
        BY <1>3, <2>2, ReturnOK DEF UpdateSettlementPayoutReconciliation, TypeInv, TypeOK
<1>4. QED
    BY <1>1, <1>2, <1>3 DEF AdminStep

\* Faults, and transactions decided by the chain.
LEMMA EnvironmentTyped ==
    ASSUME TypeInv, Mining \/ Fault
    PROVE  TypeInv'
<1>1. ASSUME NEW x \in TxId, Mined(x)
      PROVE  TypeInv'
    <2>1. PICK result \in {"confirmed", "failed"} :
              chain' = [chain EXCEPT ![x].state = result]
        BY <1>1 DEF Mined
    <2>2. [chain[x] EXCEPT !.state = result] \in TxStates
        BY DEF TypeInv, TypeOK, TxStates
    <2>3. chain' \in [TxId -> TxStates]
        BY <2>1, <2>2 DEF TypeInv, TypeOK
    <2>4. QED
        BY <1>1, <2>3 DEF Mined, TypeInv, TypeOK, HandlerOK
<1>2. CASE Restart
    BY <1>2, IdleTyped DEF Restart, TypeInv, TypeOK, HandlerOK, Idle, Crediting
<1>3. ASSUME NEW h \in Handlers, RecordFails(h)
      PROVE  TypeInv'
    BY <1>3, ReturnOK, UnlockTyped DEF RecordFails, TypeInv, TypeOK
<1>4. QED
    BY <1>1, <1>2, <1>3 DEF Mining, Fault

LEMMA NextTyped == TypeInv /\ [Next]_vars => TypeInv'
<1> SUFFICES ASSUME TypeInv, [Next]_vars PROVE TypeInv'
    OBVIOUS
<1>1. CASE UNCHANGED vars
    BY <1>1 DEF vars, TypeInv, TypeOK, HandlerOK
<1>2. CASE Next
    BY <1>2, UserRequestTyped, AdminRequestTyped, UserStepTyped, AdminStepTyped,
       EnvironmentTyped DEF Next, UserNext
<1>3. QED
    BY <1>1, <1>2

\* Users and administrators together keep every variable in its type.
THEOREM TypeCorrect == Spec => []TypeOK
<1>1. TypeInv => TypeOK
    BY DEF TypeInv
<1>2. QED
    BY <1>1, InitTyped, NextTyped, PTL DEF Spec

----------------------------------------------------------------------------
(* A reservation is exclusive while only users claim *)

\* ClaimExclusive is not inductive: a second reservation is refused because
\* the trade still says claim_pending, which is so because no other request
\* writes to a trade it has not reserved.
ReservationInv ==
    /\ ClaimExclusive
    /\ ReservationStands
    /\ \A h \in Handlers : handlers[h].kind \in ClaimKinds

LEMMA InitReservation == Init => ReservationInv
BY DEF Init, ReservationInv, ClaimExclusive, ReservationStands, ClaimInFlight,
       Idle, ClaimKinds

\* Steps that leave the trades alone and put no further claim in flight.
LEMMA QuietStep ==
    ASSUME ReservationInv, UNCHANGED trades,
           \A g \in Handlers :
              /\ handlers'[g].kind \in ClaimKinds
              /\ handlers'[g].pc \notin {"idle", "reserve"} =>
                    /\ handlers[g].pc \notin {"idle", "reserve"}
                    /\ handlers'[g].trade = handlers[g].trade
    PROVE  ReservationInv'
<1>1. ASSUME NEW g \in Handlers, NEW t \in Trades, ClaimInFlight(g, t)'
      PROVE  ClaimInFlight(g, t)
    BY <1>1 DEF ClaimInFlight, ReservationInv
<1>2. QED
    BY <1>1 DEF ReservationInv, ClaimExclusive, ReservationStands

\* Handler h ends, having written to at most the trade it reserved.
LEMMA EndingStep ==
    ASSUME ReservationInv, TypeInv, NEW h \in Handlers, Return(h),
           handlers[h].pc \notin {"idle", "reserve"},
           \A t \in Trades : t # handlers[h].trade => trades'[t] = trades[t]
    PROVE  ReservationInv'
<1>1. \A g \in Handlers : handlers'[g] = IF g = h THEN Idle ELSE handlers[g]
    BY DEF Return, Becomes, TypeInv, TypeOK
<1>2. ASSUME NEW g \in Handlers, NEW t \in Trades, ClaimInFlight(g, t)'
      PROVE  ClaimInFlight(g, t) /\ g # h
    BY <1>1, <1>2 DEF ClaimInFlight, Idle
<1>3. ASSUME NEW g \in Handlers, NEW t \in Trades, ClaimInFlight(g, t)'
      PROVE  trades'[t].payoutStatus = "claim_pending"
    <2>1. ClaimInFlight(g, t) /\ g # h
        BY <1>2, <1>3
    <2>2. handlers[h].trade # t
        BY <2>1 DEF ReservationInv, ClaimExclusive, ClaimInFlight
    <2>3. QED
        BY <2>1, <2>2 DEF ReservationInv, ReservationStands
<1>4. \A g \in Handlers : handlers'[g].kind \in ClaimKinds
    BY <1>1 DEF ReservationInv, Idle, ClaimKinds
<1>5. QED
    BY <1>2, <1>3, <1>4 DEF ReservationInv, ClaimExclusive, ReservationStands

\* Handler h reserves trade t, which was not claim_pending.
LEMMA ReservingStep ==
    ASSUME ReservationInv, TypeInv, NEW h \in Handlers, NEW t \in Trades,
           NEW state \in HandlerStates, Becomes(h, state),
           state.trade = t, state.kind \in ClaimKinds,
           trades[t].payoutStatus # "claim_pending",
           trades'[t].payoutStatus = "claim_pending",
           \A s \in Trades : s # t => trades'[s] = trades[s]
    PROVE  ReservationInv'
<1>1. \A g \in Handlers : handlers'[g] = IF g = h THEN state ELSE handlers[g]
    BY DEF Becomes, TypeInv, TypeOK
<1>2. \A g \in Handlers : ~ClaimInFlight(g, t)
    BY DEF ReservationInv, ReservationStands
<1>3. ASSUME NEW g \in Handlers, NEW s \in Trades, ClaimInFlight(g, s)'
      PROVE  \/ g = h /\ s = t
             \/ g # h /\ s # t /\ ClaimInFlight(g, s)
    BY <1>1, <1>2, <1>3 DEF ClaimInFlight
<1>4. ClaimExclusive'
    BY <1>3 DEF ReservationInv, ClaimExclusive
<1>5. ReservationStands'
    BY <1>3 DEF ReservationInv, ReservationStands
<1>6. QED
    BY <1>1, <1>4, <1>5 DEF ReservationInv

LEMMA RequestReservation ==
    ASSUME ReservationInv, TypeInv, NEW h \in Handlers, UserRequest(h)
    PROVE  ReservationInv'
<1>1. ASSUME NEW t \in Trades, ReserveDirectTradePayout(h, t)
      PROVE  ReservationInv'
    <2> DEFINE state == [Idle EXCEPT !.pc = "pay", !.kind = "direct", !.trade = t]
    <2>1. /\ state \in HandlerStates
          /\ state.trade = t /\ state.kind \in ClaimKinds
        BY IdleTyped DEF HandlerStates, Steps, ClaimKinds
    <2>2. /\ trades'[t].payoutStatus = "claim_pending"
          /\ \A s \in Trades : s # t => trades'[s] = trades[s]
        BY <1>1 DEF ReserveDirectTradePayout, TypeInv, TypeOK, TradeStates
    <2>3. QED
        BY <1>1, <2>1, <2>2, ReservingStep DEF ReserveDirectTradePayout
<1>2. ASSUME NEW t \in Trades, NEW n \in Nullifiers, RetryPrivateClaim(h, t, n)
      PROVE  ReservationInv'
    <2> DEFINE state == [Idle EXCEPT !.pc = "register", !.kind = "private",
                                     !.trade = t, !.nullifier = n]
    <2>1. /\ state \in HandlerStates
          /\ state.trade = t /\ state.kind \in ClaimKinds
        BY IdleTyped DEF HandlerStates, Steps, ClaimKinds
    <2>2. /\ trades'[t].payoutStatus = "claim_pending"
          /\ \A s \in Trades : s # t => trades'[s] = trades[s]
        <3>1. trades \in [Trades -> TradeStates]
            BY DEF TypeInv, TypeOK
        <3>2. QED
            BY <1>2, <3>1 DEF RetryPrivateClaim, TradeStates
    <2>3. trades[t].payoutStatus # "claim_pending"
        BY <1>2 DEF RetryPrivateClaim, Retryable
    <2>4. QED
        BY <1>2, <2>1, <2>2, <2>3, ReservingStep DEF RetryPrivateClaim
<1>3. ASSUME NEW t \in Trades, NEW n \in Nullifiers, FindNullifier(h, t, n)
      PROVE  ReservationInv'
    <2>1. \A g \in Handlers : handlers'[g] =
             IF g = h THEN [Idle EXCEPT !.pc = "reserve", !.kind = "private",
                                        !.trade = t, !.nullifier = n]
             ELSE handlers[g]
        BY <1>3 DEF FindNullifier, Becomes, TypeInv, TypeOK
    <2>2. QED
        BY <1>3, <2>1, QuietStep DEF FindNullifier, ReservationInv, Idle, ClaimKinds
<1>4. QED
    BY <1>1, <1>2, <1>3 DEF UserRequest

\* The transaction of a private claim reserves its trade or is refused.
LEMMA CommitReservation ==
    ASSUME ReservationInv, TypeInv, NEW h \in Handlers, ReservePrivateClaim(h)
    PROVE  ReservationInv'
<1> DEFINE t == handlers[h].trade
           n == handlers[h].nullifier
<1>0. /\ t \in Trades /\ n \in Nullifiers
      /\ handlers \in [Handlers -> HandlerStates] /\ handlers[h] \in HandlerStates
    BY DEF ReservePrivateClaim, TypeInv, TypeOK, HandlerOK
<1>1. ASSUME Claimable(t), Goto(h, "register"),
             trades' = [trades EXCEPT
                 ![t] = [@ EXCEPT !.payoutStatus = "claim_pending", !.claim = n]]
      PROVE  ReservationInv'
    <2> DEFINE state == [handlers[h] EXCEPT !.pc = "register"]
    <2>1. state \in HandlerStates /\ state.trade = t /\ state.kind \in ClaimKinds
        BY <1>0 DEF HandlerStates, Steps, ReservationInv
    <2>2. /\ trades'[t].payoutStatus = "claim_pending"
          /\ \A s \in Trades : s # t => trades'[s] = trades[s]
        BY <1>0, <1>1 DEF TypeInv, TypeOK, TradeStates
    <2>3. trades[t].payoutStatus # "claim_pending" /\ Becomes(h, state)
        BY <1>1 DEF Claimable, Goto, Becomes
    <2>4. QED
        BY <1>0, <2>1, <2>2, <2>3, ReservingStep
<1>2. ASSUME Return(h), UNCHANGED trades
      PROVE  ReservationInv'
    <2>1. \A g \in Handlers : handlers'[g] = IF g = h THEN Idle ELSE handlers[g]
        BY <1>0, <1>2 DEF Return, Becomes
    <2>2. QED
        BY <1>2, <2>1, QuietStep DEF ReservationInv, Idle, ClaimKinds
<1>3. QED
    BY <1>1, <1>2 DEF ReservePrivateClaim

\* A step of a handler that records nothing keeps the request it serves.
Keeps(h) ==
    /\ handlers[h].pc \notin {"idle", "reserve"}
    /\ UNCHANGED trades
    /\ \A g \in Handlers : g # h => handlers'[g] = handlers[g]
    /\ handlers'[h].kind = handlers[h].kind
    /\ handlers'[h].trade = handlers[h].trade

LEMMA FinishKeeps ==
    ASSUME TypeInv, NEW h \in Handlers, NEW txs, NEW status,
           Finish(h, txs, status)
    PROVE  /\ \A g \in Handlers : g # h => handlers'[g] = handlers[g]
           /\ handlers'[h].kind = handlers[h].kind
           /\ handlers'[h].trade = handlers[h].trade
<1>1. handlers \in [Handlers -> HandlerStates] /\ handlers[h] \in HandlerStates
    BY DEF TypeInv, TypeOK
<1>2. QED
    BY <1>1 DEF Finish, Becomes, HandlerStates

LEMMA GotoKeeps ==
    ASSUME TypeInv, NEW h \in Handlers, NEW pc, Goto(h, pc)
    PROVE  /\ \A g \in Handlers : g # h => handlers'[g] = handlers[g]
           /\ handlers'[h].kind = handlers[h].kind
           /\ handlers'[h].trade = handlers[h].trade
<1>1. handlers \in [Handlers -> HandlerStates] /\ handlers[h] \in HandlerStates
    BY DEF TypeInv, TypeOK
<1>2. QED
    BY <1>1 DEF Goto, Becomes, HandlerStates

LEMMA NoteCreditedKeeps ==
    ASSUME TypeInv, NEW h \in Handlers, NEW txs, NEW status,
           NoteCredited(h, txs, status)
    PROVE  /\ \A g \in Handlers : g # h => handlers'[g] = handlers[g]
           /\ handlers'[h].kind = handlers[h].kind
           /\ handlers'[h].trade = handlers[h].trade
<1>1. handlers \in [Handlers -> HandlerStates] /\ handlers[h] \in HandlerStates
    BY DEF TypeInv, TypeOK
<1>2. CASE handlers[h].todo \ {NextNote(h)} # {}
    BY <1>1, <1>2 DEF NoteCredited, Becomes, HandlerStates
<1>3. CASE handlers[h].todo \ {NextNote(h)} = {}
    BY <1>3, FinishKeeps DEF NoteCredited
<1>4. QED
    BY <1>2, <1>3

Recording(h) ==
    \/ CompleteDirectTradePayout(h)
    \/ CompletePrivateClaimPayout(h)
    \/ ReservePrivateClaim(h)

LEMMA StepKeeps ==
    ASSUME TypeInv, NEW h \in Handlers, UserStep(h), ~Recording(h),
           handlers[h].kind \in ClaimKinds
    PROVE  Keeps(h)
<1>0. handlers \in [Handlers -> HandlerStates] /\ handlers[h] \in HandlerStates
    BY DEF TypeInv, TypeOK
<1>1. CASE RegisterPrivateClaim(h)
    BY <1>1, GotoKeeps, FinishKeeps DEF RegisterPrivateClaim, Keeps
<1>2. CASE TransferAccepted(h)
    BY <1>0, <1>2 DEF TransferAccepted, Becomes, HandlerStates, Keeps
<1>3. CASE TransferRefused(h)
    BY <1>3, FinishKeeps DEF TransferRefused, ClaimKinds, Keeps
<1>4. CASE WaitForTransactionStatus(h)
    BY <1>4, FinishKeeps DEF WaitForTransactionStatus, Keeps
<1>5. CASE BeginCredit(h)
    <2>1. CASE Finish(h, <<>>, "failed")
        BY <1>5, <2>1, FinishKeeps DEF BeginCredit, Keeps
    <2>2. CASE Becomes(h, [handlers[h] EXCEPT !.pc = "approve", !.todo = Notes,
                                              !.status = "submitted"])
        BY <1>0, <1>5, <2>2 DEF BeginCredit, Becomes, HandlerStates, Keeps
    <2>3. QED
        BY <1>5, <2>1, <2>2 DEF BeginCredit
<1>6. CASE ApproveNote(h)
    <2>1. CASE CreditFails(h)
        BY <1>6, <2>1, FinishKeeps DEF ApproveNote, CreditFails, Keeps
    <2>2. ASSUME NEW x \in TxId,
                 Becomes(h, [handlers[h] EXCEPT !.pc = "approved",
                                                !.txs = Append(@, x)])
          PROVE  Keeps(h)
        BY <1>0, <1>6, <2>2 DEF ApproveNote, Becomes, HandlerStates, Keeps
    <2>3. QED
        BY <1>6, <2>1, <2>2 DEF ApproveNote
<1>7. CASE AwaitApproval(h)
    BY <1>7, FinishKeeps, GotoKeeps DEF AwaitApproval, CreditFails, Keeps
<1>8. CASE DepositNote(h)
    <2>1. CASE CreditFails(h)
        BY <1>8, <2>1, FinishKeeps DEF DepositNote, CreditFails, Keeps
    <2>2. ASSUME NEW x \in TxId,
                 Becomes(h, [handlers[h] EXCEPT !.pc = "deposited",
                                                !.txs = Append(@, x)])
          PROVE  Keeps(h)
        BY <1>0, <1>8, <2>2 DEF DepositNote, Becomes, HandlerStates, Keeps
    <2>3. ASSUME NEW x \in TxId, NEW status,
                 NoteCredited(h, Append(handlers[h].txs, x), status)
          PROVE  Keeps(h)
        BY <1>8, <2>3, NoteCreditedKeeps DEF DepositNote, Keeps
    <2>4. QED
        BY <1>8, <2>1, <2>2, <2>3 DEF DepositNote
<1>9. CASE AwaitDeposit(h)
    BY <1>9, FinishKeeps, NoteCreditedKeeps DEF AwaitDeposit, CreditFails, Keeps
<1>10. QED
    BY <1>1, <1>2, <1>3, <1>4, <1>5, <1>6, <1>7, <1>8, <1>9
    DEF UserStep, Recording

LEMMA StepReservation ==
    ASSUME ReservationInv, TypeInv, NEW h \in Handlers, UserStep(h)
    PROVE  ReservationInv'
<1>1. CASE Recording(h)
    <2>1. CASE CompleteDirectTradePayout(h)
        BY <2>1, EndingStep DEF CompleteDirectTradePayout, TypeInv, TypeOK
    <2>2. CASE CompletePrivateClaimPayout(h)
        BY <2>2, EndingStep DEF CompletePrivateClaimPayout, TypeInv, TypeOK
    <2>3. QED
        BY <1>1, <2>1, <2>2, CommitReservation DEF Recording
<1>2. CASE ~Recording(h)
    <2>1. Keeps(h)
        BY <1>2, StepKeeps DEF ReservationInv
    <2>2. QED
        BY <2>1, QuietStep DEF Keeps, ReservationInv
<1>3. QED
    BY <1>1, <1>2

LEMMA NextReservation ==
    TypeInv /\ ReservationInv /\ [UserNext]_vars => ReservationInv'
<1> SUFFICES ASSUME TypeInv, ReservationInv, [UserNext]_vars PROVE ReservationInv'
    OBVIOUS
<1>1. CASE UNCHANGED vars
    BY <1>1 DEF vars, ReservationInv, ClaimExclusive, ReservationStands, ClaimInFlight
<1>2. CASE Mining
    BY <1>2 DEF Mining, Mined, ReservationInv, ClaimExclusive, ReservationStands,
                ClaimInFlight
<1>3. CASE Restart
    BY <1>3 DEF Restart, ReservationInv, ClaimExclusive, ReservationStands,
                ClaimInFlight, Idle, ClaimKinds
<1>4. ASSUME NEW h \in Handlers, RecordFails(h)
      PROVE  ReservationInv'
    <2>1. CASE handlers[h].pc = "reserve"
        <3>1. \A g \in Handlers : handlers'[g] = IF g = h THEN Idle ELSE handlers[g]
            BY <1>4 DEF RecordFails, Return, Becomes, TypeInv, TypeOK
        <3>2. QED
            BY <1>4, <3>1, QuietStep DEF RecordFails, ReservationInv, Idle, ClaimKinds
    <2>2. CASE handlers[h].pc # "reserve"
        BY <1>4, <2>2, EndingStep DEF RecordFails
    <2>3. QED
        BY <2>1, <2>2
<1>5. QED
    BY <1>1, <1>2, <1>3, <1>4, RequestReservation, StepReservation
    DEF UserNext, Fault

LEMMA UserNextIsNext == [UserNext]_vars => [Next]_vars
BY DEF Next

\* Two user claims never pay the same trade at the same time, whatever the
\* gateway answers, wherever the process restarts, and for shielded and direct
\* payouts alike (ReserveDirectTradePayout, ReservePrivateClaim).
THEOREM ClaimsExclusive == UserSpec => []ClaimExclusive
<1>1. ReservationInv => ClaimExclusive
    BY DEF ReservationInv
<1>2. QED
    BY <1>1, InitTyped, InitReservation, NextTyped, NextReservation,
       UserNextIsNext, PTL DEF UserSpec

\* The result of a claim is never written over the reservation of a later one.
THEOREM ReservationsStand == UserSpec => []ReservationStands
<1>1. ReservationInv => ReservationStands
    BY DEF ReservationInv
<1>2. QED
    BY <1>1, InitTyped, InitReservation, NextTyped, NextReservation,
       UserNextIsNext, PTL DEF UserSpec

----------------------------------------------------------------------------
(* collateralMu, with administrators as well *)

\* A handler in this state relies on collateralMu (InLockedSection).
Relies(state) ==
    \/ state.pc \in {"approve", "approved", "deposit", "deposited", "send"}
    \/ state.kind = "settlementRetry" /\ state.pc \in {"wait", "record"}

\* Only the retry of a settlement sends, and it does nothing but send, wait and
\* record.
KindFits(state) ==
    /\ state.pc = "send" => state.kind = "settlementRetry"
    /\ state.pc \in {"reserve", "register", "pay", "approve", "approved", "deposit",
                    "deposited"}
          => state.kind # "settlementRetry"

\* OneLockedSection is not inductive: that a credit which fails leaves the locked
\* section depends on its not being a settlement's retry.
LockInv ==
    /\ OneLockedSection
    /\ \A h \in Handlers : KindFits(handlers[h])

\* Handler h takes on a state, and the mutex goes with it.
LEMMA LockFollows ==
    ASSUME TypeInv, LockInv, NEW h \in Handlers, NEW state, Becomes(h, state),
           KindFits(state),
           \/ UNCHANGED mutex /\ (Relies(state) <=> Relies(handlers[h]))
           \/ mutex = None /\ mutex' = h /\ Relies(state)
           \/ Unlock(h) /\ ~Relies(state)
    PROVE  LockInv'
<1>1. \A g \in Handlers : handlers'[g] = IF g = h THEN state ELSE handlers[g]
    BY DEF Becomes, TypeInv, TypeOK
<1>2. \A g \in Handlers : Relies(handlers[g]) <=> mutex = g
    BY DEF LockInv, OneLockedSection, InLockedSection, Relies
<1>3. None \notin Handlers
    BY PayoutsAssumption
<1>4. \A g \in Handlers : Relies(handlers'[g]) <=> mutex' = g
    BY <1>1, <1>2, <1>3 DEF Unlock
<1>5. OneLockedSection'
    BY <1>4 DEF OneLockedSection, InLockedSection, Relies
<1>6. \A g \in Handlers : KindFits(handlers'[g])
    BY <1>1 DEF LockInv
<1> QED
    BY <1>5, <1>6 DEF LockInv

\* A handler that ends gives the mutex back, or had none.
LEMMA LockReturned ==
    ASSUME TypeInv, LockInv, NEW h \in Handlers, Return(h),
           Unlock(h) \/ (UNCHANGED mutex /\ ~Relies(handlers[h]))
    PROVE  LockInv'
<1>1. KindFits(Idle) /\ ~Relies(Idle)
    BY DEF Idle, KindFits, Relies
<1> QED
    BY <1>1, LockFollows DEF Return

\* A payout attempt that is over relies on the mutex no more, unless it is the
\* retry of a settlement, which keeps it.
LEMMA LockFinished ==
    ASSUME TypeInv, LockInv, NEW h \in Handlers, NEW txs, NEW status,
           Finish(h, txs, status), handlers[h].pc # "send",
           \/ UNCHANGED mutex /\ handlers[h].pc \in {"register", "pay", "wait"}
           \/ Unlock(h) /\ handlers[h].kind # "settlementRetry"
    PROVE  LockInv'
<1> DEFINE state == [handlers[h] EXCEPT !.pc = "record", !.txs = txs, !.status = status]
<1>1. handlers[h] \in HandlerStates /\ KindFits(handlers[h])
    BY DEF TypeInv, TypeOK, LockInv
<1>2. state.pc = "record" /\ state.kind = handlers[h].kind
    BY <1>1 DEF HandlerStates
<1>3. Becomes(h, state)
    BY DEF Finish
<1> HIDE DEF state
<1>4. KindFits(state)
    BY <1>2 DEF KindFits
<1>5. CASE UNCHANGED mutex /\ handlers[h].pc \in {"register", "pay", "wait"}
    <2>1. Relies(state) <=> Relies(handlers[h])
        BY <1>1, <1>2, <1>5 DEF Relies, KindFits
    <2> QED
        BY <1>3, <1>4, <1>5, <2>1, LockFollows
<1>6. CASE Unlock(h) /\ handlers[h].kind # "settlementRetry"
    <2>1. ~Relies(state)
        BY <1>2, <1>6 DEF Relies
    <2> QED
        BY <1>3, <1>4, <1>6, <2>1, LockFollows
<1> QED
    BY <1>5, <1>6

\* A step within the credit of a payout keeps the mutex.
LEMMA LockKept ==
    ASSUME TypeInv, LockInv, NEW h \in Handlers, NEW state, Becomes(h, state),
           UNCHANGED mutex, state.kind = handlers[h].kind,
           handlers[h].pc \in Crediting, state.pc \in Crediting
    PROVE  LockInv'
<1>1. KindFits(handlers[h])
    BY DEF LockInv
<1>2. KindFits(state) /\ Relies(state) /\ Relies(handlers[h])
    BY <1>1 DEF KindFits, Relies, Crediting
<1> QED
    BY <1>2, LockFollows

LEMMA CreditLock ==
    ASSUME TypeInv, LockInv, NEW h \in Handlers,
           ApproveNote(h) \/ AwaitApproval(h) \/ DepositNote(h) \/ AwaitDeposit(h)
    PROVE  LockInv'
<1>1. /\ handlers[h] \in HandlerStates
      /\ handlers[h].pc \in Crediting /\ handlers[h].pc # "send"
      /\ handlers[h].kind # "settlementRetry"
    BY DEF TypeInv, TypeOK, LockInv, KindFits, Crediting, ApproveNote, AwaitApproval, DepositNote,
           AwaitDeposit
<1>2. CASE CreditFails(h)
    BY <1>1, <1>2, LockFinished DEF CreditFails
<1>3. ASSUME NEW pc \in Crediting, NEW todo, NEW txs, NEW status, UNCHANGED mutex,
             Becomes(h, [handlers[h] EXCEPT !.pc = pc, !.todo = todo, !.txs = txs,
                                            !.status = status])
      PROVE  LockInv'
    <2> DEFINE state == [handlers[h] EXCEPT !.pc = pc, !.todo = todo, !.txs = txs,
                                            !.status = status]
    <2>1. state.kind = handlers[h].kind /\ state.pc = pc
        BY <1>1 DEF HandlerStates
    <2>2. Becomes(h, state)
        BY <1>3
    <2> HIDE DEF state
    <2> QED
        BY <1>1, <1>3, <2>1, <2>2, LockKept
<1>4. ASSUME NEW txs, NEW status, NoteCredited(h, txs, status)
      PROVE  LockInv'
    <2>1. CASE handlers[h].todo \ {NextNote(h)} # {}
        BY <1>3, <1>4, <2>1 DEF NoteCredited, Crediting
    <2>2. CASE handlers[h].todo \ {NextNote(h)} = {}
        <3>1. Finish(h, txs, status) /\ Unlock(h)
            BY <1>4, <2>2 DEF NoteCredited
        <3> QED
            BY <1>1, <3>1, LockFinished
    <2> QED
        BY <2>1, <2>2
<1>5. ASSUME NEW pc \in Crediting, NEW txs, UNCHANGED mutex,
             Becomes(h, [handlers[h] EXCEPT !.pc = pc, !.txs = txs])
      PROVE  LockInv'
    <2> DEFINE state == [handlers[h] EXCEPT !.pc = pc, !.txs = txs]
    <2>1. state.kind = handlers[h].kind /\ state.pc = pc
        BY <1>1 DEF HandlerStates
    <2>2. Becomes(h, state)
        BY <1>5
    <2> HIDE DEF state
    <2> QED
        BY <1>1, <1>5, <2>1, <2>2, LockKept
<1>6. CASE ApproveNote(h)
    BY <1>2, <1>5, <1>6 DEF ApproveNote, Crediting
<1>7. CASE AwaitApproval(h)
    <2>1. CASE Goto(h, "deposit") /\ UNCHANGED mutex
        <3> DEFINE state == [handlers[h] EXCEPT !.pc = "deposit"]
        <3>1. state.kind = handlers[h].kind /\ state.pc = "deposit"
            BY <1>1 DEF HandlerStates
        <3>2. Becomes(h, state)
            BY <2>1 DEF Goto
        <3> HIDE DEF state
        <3> QED
            BY <1>1, <2>1, <3>1, <3>2, LockKept DEF Crediting
    <2> QED
        BY <1>2, <1>7, <2>1 DEF AwaitApproval
<1>8. CASE DepositNote(h)
    BY <1>2, <1>4, <1>5, <1>8 DEF DepositNote, Crediting
<1>9. CASE AwaitDeposit(h)
    BY <1>2, <1>4, <1>9 DEF AwaitDeposit
<1> QED
    BY <1>6, <1>7, <1>8, <1>9

LEMMA UserStepLock ==
    ASSUME TypeInv, LockInv, NEW h \in Handlers, UserStep(h)
    PROVE  LockInv'
<1>1. handlers[h] \in HandlerStates /\ KindFits(handlers[h])
    BY DEF TypeInv, TypeOK, LockInv
<1>2. CASE RegisterPrivateClaim(h)
    <2>1. UNCHANGED mutex /\ handlers[h].pc = "register"
        BY <1>2 DEF RegisterPrivateClaim
    <2>2. CASE Goto(h, "pay")
        <3> DEFINE state == [handlers[h] EXCEPT !.pc = "pay"]
        <3>1. state.kind = handlers[h].kind /\ state.pc = "pay"
            BY <1>1 DEF HandlerStates
        <3>2. Becomes(h, state)
            BY <2>2 DEF Goto
        <3> HIDE DEF state
        <3>3. KindFits(state) /\ ~Relies(state) /\ ~Relies(handlers[h])
            BY <1>1, <2>1, <3>1 DEF KindFits, Relies
        <3> QED
            BY <2>1, <3>2, <3>3, LockFollows
    <2>3. CASE Finish(h, <<>>, "failed")
        BY <2>1, <2>3, LockFinished
    <2> QED
        BY <1>2, <2>2, <2>3 DEF RegisterPrivateClaim
<1>3. CASE TransferAccepted(h)
    <2>1. PICK x \in TxId :
             Becomes(h, [handlers[h] EXCEPT !.pc = "wait", !.txs = <<x>>])
        BY <1>3 DEF TransferAccepted
    <2> DEFINE state == [handlers[h] EXCEPT !.pc = "wait", !.txs = <<x>>]
    <2>2. state.kind = handlers[h].kind /\ state.pc = "wait"
        BY <1>1 DEF HandlerStates
    <2>3. Becomes(h, state) /\ UNCHANGED mutex /\ handlers[h].pc = "pay"
        BY <1>3, <2>1 DEF TransferAccepted
    <2> HIDE DEF state
    <2>4. KindFits(state) /\ ~Relies(state) /\ ~Relies(handlers[h])
        BY <1>1, <2>2, <2>3 DEF KindFits, Relies
    <2> QED
        BY <2>3, <2>4, LockFollows
<1>4. CASE TransferRefused(h)
    <2>1. /\ UNCHANGED mutex /\ handlers[h].pc = "pay"
          /\ Return(h) \/ Finish(h, <<>>, "failed")
        BY <1>4 DEF TransferRefused
    <2>2. ~Relies(handlers[h])
        BY <1>1, <2>1 DEF KindFits, Relies
    <2> QED
        BY <2>1, <2>2, LockReturned, LockFinished
<1>5. CASE WaitForTransactionStatus(h)
    BY <1>5, LockFinished DEF WaitForTransactionStatus
<1>6. CASE BeginCredit(h)
    <2>1. handlers[h].pc = "pay" /\ mutex = None
        BY <1>6 DEF BeginCredit
    <2>2. CASE /\ mutex' = h
               /\ Becomes(h, [handlers[h] EXCEPT !.pc = "approve", !.todo = Notes,
                                                 !.status = "submitted"])
        <3> DEFINE state == [handlers[h] EXCEPT !.pc = "approve", !.todo = Notes,
                                                !.status = "submitted"]
        <3>1. state.kind = handlers[h].kind /\ state.pc = "approve"
            BY <1>1 DEF HandlerStates
        <3>2. Becomes(h, state)
            BY <2>2
        <3> HIDE DEF state
        <3>3. KindFits(state) /\ Relies(state)
            BY <1>1, <2>1, <3>1 DEF KindFits, Relies
        <3> QED
            BY <2>1, <2>2, <3>2, <3>3, LockFollows
    <2>3. CASE Finish(h, <<>>, "failed") /\ UNCHANGED mutex
        BY <2>1, <2>3, LockFinished
    <2> QED
        BY <1>6, <2>2, <2>3 DEF BeginCredit
<1>7. CASE CompleteDirectTradePayout(h) \/ CompletePrivateClaimPayout(h)
    <2>1. /\ Return(h) /\ UNCHANGED mutex
          /\ handlers[h].pc = "record" /\ handlers[h].kind # "settlementRetry"
        BY <1>7 DEF CompleteDirectTradePayout, CompletePrivateClaimPayout
    <2>2. ~Relies(handlers[h])
        BY <2>1 DEF Relies
    <2> QED
        BY <2>1, <2>2, LockReturned
<1>8. CASE ReservePrivateClaim(h)
    <2>1. ~Relies(handlers[h]) /\ UNCHANGED mutex /\ handlers[h].kind = "private"
        BY <1>8 DEF ReservePrivateClaim, Relies, TypeInv, HandlerOK
    <2>2. CASE Goto(h, "register")
        <3> DEFINE state == [handlers[h] EXCEPT !.pc = "register"]
        <3>1. state.kind = "private" /\ state.pc = "register"
            BY <1>1, <2>1 DEF HandlerStates
        <3>2. Becomes(h, state)
            BY <2>2 DEF Goto
        <3> HIDE DEF state
        <3>3. KindFits(state) /\ ~Relies(state)
            BY <3>1 DEF KindFits, Relies
        <3> QED
            BY <2>1, <3>2, <3>3, LockFollows
    <2> QED
        BY <1>8, <2>1, <2>2, LockReturned DEF ReservePrivateClaim
<1> QED
    BY <1>2, <1>3, <1>4, <1>5, <1>6, <1>7, <1>8, CreditLock DEF UserStep

\* Requests are admitted with a state that relies on the mutex only if they took it.
LEMMA RequestLock ==
    ASSUME TypeInv, LockInv, NEW h \in Handlers, UserRequest(h) \/ AdminRequest(h)
    PROVE  LockInv'
<1>1. ~Relies(handlers[h])
    BY DEF UserRequest, AdminRequest, ReserveDirectTradePayout, RetryPrivateClaim,
           FindNullifier, AdminRetryPrivateClaimPayout, AdminReconcilePrivateClaimPayout,
           AdminRetrySettlementPayout, AdminReconcileSettlementPayout, Relies
<1>2. CASE AdminRetrySettlementPayout(h)
    <2> DEFINE state == [Idle EXCEPT !.pc = "send", !.kind = "settlementRetry",
                                     !.todo = Recipients]
    <2>1. Becomes(h, state) /\ mutex = None /\ mutex' = h
        BY <1>2 DEF AdminRetrySettlementPayout
    <2>2. KindFits(state) /\ Relies(state)
        BY DEF Idle, KindFits, Relies
    <2> HIDE DEF state
    <2> QED
        BY <2>1, <2>2, LockFollows
<1>3. ASSUME NEW state, Becomes(h, state), UNCHANGED mutex,
             KindFits(state) /\ ~Relies(state)
      PROVE  LockInv'
    BY <1>1, <1>3, LockFollows
<1>4. ASSUME NEW t \in Trades,
             \/ ReserveDirectTradePayout(h, t)
             \/ AdminRetryPrivateClaimPayout(h, t)
             \/ AdminReconcilePrivateClaimPayout(h, t)
      PROVE  LockInv'
    <2>1. CASE ReserveDirectTradePayout(h, t)
        BY <1>3, <2>1 DEF ReserveDirectTradePayout, Idle, KindFits, Relies
    <2>2. CASE AdminRetryPrivateClaimPayout(h, t)
        BY <1>3, <2>2 DEF AdminRetryPrivateClaimPayout, Idle, KindFits, Relies
    <2>3. CASE AdminReconcilePrivateClaimPayout(h, t)
        BY <1>3, <2>3 DEF AdminReconcilePrivateClaimPayout, Idle, KindFits, Relies
    <2> QED
        BY <1>4, <2>1, <2>2, <2>3
<1>5. ASSUME NEW t \in Trades, NEW n \in Nullifiers,
             RetryPrivateClaim(h, t, n) \/ FindNullifier(h, t, n)
      PROVE  LockInv'
    BY <1>3, <1>5 DEF RetryPrivateClaim, FindNullifier, Idle, KindFits, Relies
<1>6. CASE AdminReconcileSettlementPayout(h)
    BY <1>3, <1>6 DEF AdminReconcileSettlementPayout, Idle, KindFits, Relies
<1> QED
    BY <1>2, <1>4, <1>5, <1>6 DEF UserRequest, AdminRequest

LEMMA AdminStepLock ==
    ASSUME TypeInv, LockInv, NEW h \in Handlers, AdminStep(h)
    PROVE  LockInv'
<1>1. handlers[h] \in HandlerStates /\ KindFits(handlers[h])
    BY DEF TypeInv, TypeOK, LockInv
<1>2. CASE SendSettlementPayout(h)
    <2>1. CASE Return(h) /\ Unlock(h)
        BY <2>1, LockReturned
    <2>2. ASSUME NEW u \in handlers[h].todo, NEW x \in TxId, UNCHANGED mutex,
                 Becomes(h, [handlers[h] EXCEPT
                    !.todo = @ \ {u},
                    !.txs = Append(@, x),
                    !.pc = IF handlers[h].todo = {u} THEN "wait" ELSE "send"])
          PROVE  LockInv'
        <3> DEFINE state == [handlers[h] EXCEPT
                !.todo = @ \ {u},
                !.txs = Append(@, x),
                !.pc = IF handlers[h].todo = {u} THEN "wait" ELSE "send"]
        <3>1. /\ state.kind = handlers[h].kind /\ state.pc \in {"wait", "send"}
              /\ handlers[h].pc = "send"
            BY <1>1, <1>2 DEF HandlerStates, SendSettlementPayout
        <3>2. Becomes(h, state)
            BY <2>2
        <3> HIDE DEF state
        <3>3. KindFits(state) /\ Relies(state) /\ Relies(handlers[h])
            BY <1>1, <3>1 DEF KindFits, Relies
        <3> QED
            BY <2>2, <3>2, <3>3, LockFollows
    <2> QED
        BY <1>2, <2>1, <2>2 DEF SendSettlementPayout
<1>3. CASE RecordSettlementPayoutRetry(h)
    BY <1>3, LockReturned DEF RecordSettlementPayoutRetry
<1>4. CASE UpdateSettlementPayoutReconciliation(h)
    BY <1>4, LockReturned DEF UpdateSettlementPayoutReconciliation, Relies
<1> QED
    BY <1>2, <1>3, <1>4 DEF AdminStep

LEMMA NextLock == TypeInv /\ LockInv /\ [Next]_vars => LockInv'
<1> SUFFICES ASSUME TypeInv, LockInv, [Next]_vars PROVE LockInv'
    OBVIOUS
<1>1. CASE UNCHANGED vars \/ Mining
    <2>1. UNCHANGED <<handlers, mutex>>
        BY <1>1 DEF vars, Mining, Mined
    <2> QED
        BY <2>1 DEF LockInv, OneLockedSection, InLockedSection
<1>2. CASE Restart
    <2>1. \A h \in Handlers : handlers'[h] = Idle /\ mutex' # h
        BY <1>2, PayoutsAssumption DEF Restart
    <2> QED
        BY <2>1 DEF LockInv, OneLockedSection, InLockedSection, KindFits, Idle
<1>3. ASSUME NEW h \in Handlers, RecordFails(h)
      PROVE  LockInv'
    BY <1>3, LockReturned DEF RecordFails
<1> QED
    BY <1>1, <1>2, <1>3, RequestLock, UserStepLock, AdminStepLock
    DEF Next, UserNext, Fault

LEMMA InitLock == Init => LockInv
BY PayoutsAssumption DEF Init, LockInv, OneLockedSection, InLockedSection, KindFits, Idle

\* collateralMu is held by the request in the locked section and by nobody else, on
\* every path that ends it, and two such sections never overlap, with users and
\* administrators alike (sendSettlementPayoutsLocked).
THEOREM LockedAlone == Spec => []OneLockedSection
<1>1. LockInv => OneLockedSection
    BY DEF LockInv
<1> QED
    BY <1>1, InitTyped, InitLock, NextTyped, NextLock, PTL DEF Spec

----------------------------------------------------------------------------
(* Losing trades *)

PaysNoLoser(units) == \A t \in Trades : ~Payable(t) => UnitsOf({t}) \cap units = {}

ServesWinners == \A h \in Handlers : handlers[h].trade \in Trades => Payable(handlers[h].trade)

ChainPaysNoLoser == \A x \in TxId : PaysNoLoser(chain[x].pays)

LosersUntouched ==
    \A t \in Trades : ~Payable(t) =>
        trades[t].payoutStatus = "none" /\ trades[t].claim = None

\* LosersNeverPaid is not inductive: the requests under way must have a trade that
\* is to be paid, and a losing trade must have no claim to reconcile.
WinnersInv == LosersUntouched /\ ServesWinners /\ ChainPaysNoLoser

\* The units that a payable trade is paid with, and those of an approval.
LEMMA WinnersUnits ==
    /\ PaysNoLoser({})
    /\ \A ts \in SUBSET Trades : (\A t \in ts : Payable(t)) => PaysNoLoser(UnitsOf(ts))
    /\ \A t \in Trades : \A n : Payable(t) => PaysNoLoser({<<t, n>>})
BY DEF PaysNoLoser, UnitsOf

LEMMA BroadcastWinners ==
    ASSUME TypeInv, WinnersInv, NEW x \in TxId, NEW units, NEW state,
           PaysNoLoser(units), BroadcastAs(x, units, state)
    PROVE  ChainPaysNoLoser'
<1>1. \A y \in TxId : chain'[y].pays \in {units, chain[y].pays}
    BY DEF BroadcastAs, TypeInv, TypeOK
<1> QED
    BY <1>1 DEF WinnersInv, ChainPaysNoLoser, PaysNoLoser

LEMMA CallFailsWinners ==
    ASSUME TypeInv, WinnersInv, NEW units, PaysNoLoser(units), CallFails(units)
    PROVE  ChainPaysNoLoser'
<1>1. CASE UNCHANGED chain
    BY <1>1 DEF WinnersInv, ChainPaysNoLoser
<1> QED
    BY <1>1, BroadcastWinners DEF CallFails, Broadcast

\* Handler h goes on with a trade that is to be paid, with its own, or with none.
LEMMA ServesOn ==
    ASSUME TypeInv, WinnersInv, NEW h \in Handlers,
           \A g \in Handlers : g # h => handlers'[g] = handlers[g],
           \/ handlers'[h].trade \in {handlers[h].trade, None}
           \/ Payable(handlers'[h].trade)
    PROVE  ServesWinners'
<1>1. None \notin Trades
    BY PayoutsAssumption
<1>2. ASSUME NEW g \in Handlers, handlers'[g].trade \in Trades
      PROVE  Payable(handlers'[g].trade)
    BY <1>1, <1>2 DEF WinnersInv, ServesWinners
<1> QED
    BY <1>2 DEF ServesWinners, Payable

LEMMA ReturnServes ==
    ASSUME TypeInv, WinnersInv, NEW h \in Handlers, Return(h)
    PROVE  ServesWinners'
<1>1. /\ \A g \in Handlers : g # h => handlers'[g] = handlers[g]
      /\ handlers'[h].trade = None
    BY DEF Return, Becomes, Idle, TypeInv, TypeOK
<1> QED
    BY <1>1, ServesOn

\* Only the trade that handler h serves is written to.
LEMMA WritesOwnTrade ==
    ASSUME TypeInv, WinnersInv, NEW h \in Handlers,
           \A t \in Trades : t # handlers[h].trade => trades'[t] = trades[t]
    PROVE  LosersUntouched'
BY DEF WinnersInv, LosersUntouched, ServesWinners, Payable

LEMMA InitWinners == Init => WinnersInv
<1> SUFFICES ASSUME Init PROVE WinnersInv
    OBVIOUS
<1>1. LosersUntouched
    BY PayoutsAssumption DEF Init, LosersUntouched, InitialPayoutStatus, Payable, Outcomes
<1>2. ServesWinners
    BY PayoutsAssumption DEF Init, ServesWinners, Idle
<1>3. ASSUME NEW x \in TxId
      PROVE  PaysNoLoser(chain[x].pays)
    <2>1. CASE \E t \in CashedOut : CashoutTx[t] = x
        <3> DEFINE t == CHOOSE s \in CashedOut : CashoutTx[s] = x
        <3>1. t \in CashedOut
            BY <2>1
        <3>2. t \in Trades /\ Payable(t)
            BY <3>1 DEF CashedOut, Payable
        <3>3. chain[x].pays = UnitsOf({t})
            BY <2>1 DEF Init
        <3> HIDE DEF t
        <3>4. PaysNoLoser(UnitsOf({t}))
            BY <3>2, WinnersUnits
        <3> QED
            BY <3>3, <3>4
    <2>2. CASE ~\E t \in CashedOut : CashoutTx[t] = x
        <3>1. chain[x].pays = {}
            BY <2>2 DEF Init, Unused
        <3> QED
            BY <3>1, WinnersUnits
    <2> QED
        BY <2>1, <2>2
<1> QED
    BY <1>1, <1>2, <1>3 DEF WinnersInv, ChainPaysNoLoser

\* The steps of a request that record nothing.
LEMMA PayingWinners ==
    ASSUME TypeInv, WinnersInv, NEW h \in Handlers, UserStep(h), ~Recording(h)
    PROVE  WinnersInv'
<1> DEFINE t == handlers[h].trade
<1>1. handlers \in [Handlers -> HandlerStates] /\ handlers[h] \in HandlerStates
    BY DEF TypeInv, TypeOK
<1>2. UNCHANGED trades
    BY DEF UserStep, Recording, RegisterPrivateClaim, TransferAccepted, TransferRefused,
           WaitForTransactionStatus, BeginCredit, ApproveNote, AwaitApproval,
           DepositNote, AwaitDeposit
<1>3. LosersUntouched'
    BY <1>2, WritesOwnTrade
<1>4. ASSUME \/ Return(h)
             \/ \E pc : Goto(h, pc)
             \/ \E txs, status : Finish(h, txs, status)
             \/ \E txs, status : NoteCredited(h, txs, status)
             \/ \E pc, txs : Becomes(h, [handlers[h] EXCEPT !.pc = pc, !.txs = txs])
             \/ \E pc, todo, status :
                   Becomes(h, [handlers[h] EXCEPT !.pc = pc, !.todo = todo,
                                                  !.status = status])
      PROVE  ServesWinners'
    <2>1. CASE Return(h)
        BY <2>1, ReturnServes
    <2>2. CASE \/ \E pc : Goto(h, pc)
               \/ \E txs, status : Finish(h, txs, status)
               \/ \E txs, status : NoteCredited(h, txs, status)
        BY <2>2, GotoKeeps, FinishKeeps, NoteCreditedKeeps, ServesOn
    <2>3. ASSUME NEW pc, NEW txs, Becomes(h, [handlers[h] EXCEPT !.pc = pc, !.txs = txs])
          PROVE  ServesWinners'
        BY <1>1, <2>3, ServesOn DEF Becomes, HandlerStates
    <2>4. ASSUME NEW pc, NEW todo, NEW status,
                 Becomes(h, [handlers[h] EXCEPT !.pc = pc, !.todo = todo,
                                                !.status = status])
          PROVE  ServesWinners'
        BY <1>1, <2>4, ServesOn DEF Becomes, HandlerStates
    <2> QED
        BY <1>4, <2>1, <2>2, <2>3, <2>4
<1>5. ServesWinners'
    <2>1. CASE RegisterPrivateClaim(h)
        BY <1>4, <2>1 DEF RegisterPrivateClaim
    <2>2. CASE TransferAccepted(h)
        BY <1>4, <2>2 DEF TransferAccepted
    <2>3. CASE TransferRefused(h) \/ WaitForTransactionStatus(h) \/ AwaitApproval(h)
        BY <1>4, <2>3 DEF TransferRefused, WaitForTransactionStatus, AwaitApproval,
                          CreditFails
    <2>4. CASE BeginCredit(h)
        BY <1>4, <2>4 DEF BeginCredit
    <2>5. CASE ApproveNote(h)
        BY <1>4, <2>5 DEF ApproveNote, CreditFails
    <2>6. CASE DepositNote(h)
        BY <1>4, <2>6 DEF DepositNote, CreditFails
    <2>7. CASE AwaitDeposit(h)
        BY <1>4, <2>7 DEF AwaitDeposit, CreditFails
    <2> QED
        BY <2>1, <2>2, <2>3, <2>4, <2>5, <2>6, <2>7 DEF UserStep, Recording
<1>6. ChainPaysNoLoser'
    <2>1. handlers[h].pc \in {"pay"} \cup Crediting => t \in Trades /\ Payable(t)
        BY DEF TypeInv, HandlerOK, WinnersInv, ServesWinners
    <2>2. CASE UNCHANGED chain
        BY <2>2 DEF WinnersInv, ChainPaysNoLoser
    <2>3. CASE TransferAccepted(h) \/ TransferRefused(h)
        <3>1. PaysNoLoser(UnitsOf({t}))
            BY <2>1, <2>3, WinnersUnits DEF TransferAccepted, TransferRefused
        <3> QED
            BY <2>2, <2>3, <3>1, BroadcastWinners, CallFailsWinners
            DEF TransferAccepted, TransferRefused, Broadcast
    <2>4. CASE ApproveNote(h)
        BY <2>4, WinnersUnits, BroadcastWinners, CallFailsWinners DEF ApproveNote, Broadcast
    <2>5. CASE DepositNote(h)
        <3>1. PaysNoLoser({<<t, NextNote(h)>>})
            BY <2>1, <2>5, WinnersUnits DEF DepositNote, Crediting
        <3> QED
            BY <2>5, <3>1, BroadcastWinners, CallFailsWinners DEF DepositNote, Broadcast
    <2> QED
        BY <2>2, <2>3, <2>4, <2>5
        DEF UserStep, Recording, RegisterPrivateClaim, WaitForTransactionStatus,
            BeginCredit, AwaitApproval, AwaitDeposit
<1> QED
    BY <1>3, <1>5, <1>6 DEF WinnersInv

\* A record writes to the trade the request serves.
LEMMA RecordingWinners ==
    ASSUME TypeInv, WinnersInv, NEW h \in Handlers, Recording(h)
    PROVE  WinnersInv'
<1>1. Return(h) \/ Goto(h, "register")
    BY DEF Recording, CompleteDirectTradePayout, CompletePrivateClaimPayout,
           ReservePrivateClaim
<1>2. UNCHANGED chain
    BY DEF Recording, CompleteDirectTradePayout, CompletePrivateClaimPayout,
           ReservePrivateClaim
<1>3. \A t \in Trades : t # handlers[h].trade => trades'[t] = trades[t]
    BY DEF Recording, CompleteDirectTradePayout, CompletePrivateClaimPayout,
           ReservePrivateClaim, TypeInv, TypeOK
<1>4. ServesWinners'
    BY <1>1, ReturnServes, GotoKeeps, ServesOn
<1> QED
    BY <1>2, <1>3, <1>4, WritesOwnTrade DEF WinnersInv, ChainPaysNoLoser

LEMMA RequestWinners ==
    ASSUME TypeInv, WinnersInv, NEW h \in Handlers, UserRequest(h) \/ AdminRequest(h)
    PROVE  WinnersInv'
<1>1. UNCHANGED chain
    BY DEF UserRequest, AdminRequest, ReserveDirectTradePayout, RetryPrivateClaim,
           FindNullifier, AdminRetryPrivateClaimPayout, AdminReconcilePrivateClaimPayout,
           AdminRetrySettlementPayout, AdminReconcileSettlementPayout
<1>2. handlers \in [Handlers -> HandlerStates] /\ trades \in [Trades -> TradeStates]
    BY DEF TypeInv, TypeOK
<1>3. CASE /\ UNCHANGED trades
           /\ \E state : /\ Becomes(h, state)
                         /\ state.trade = None
    BY <1>1, <1>2, <1>3, ServesOn, WritesOwnTrade DEF Becomes, WinnersInv, ChainPaysNoLoser
<1>4. ASSUME NEW t \in Trades, Payable(t), NEW state, Becomes(h, state), state.trade = t,
             \A s \in Trades : s # t => trades'[s] = trades[s]
      PROVE  WinnersInv'
    <2>1. ServesWinners'
        BY <1>2, <1>4, ServesOn DEF Becomes
    <2>2. LosersUntouched'
        BY <1>4 DEF WinnersInv, LosersUntouched, Payable
    <2> QED
        BY <1>1, <2>1, <2>2 DEF WinnersInv, ChainPaysNoLoser
<1>5. ASSUME NEW t \in Trades, ReserveDirectTradePayout(h, t)
      PROVE  WinnersInv'
    BY <1>2, <1>4, <1>5 DEF ReserveDirectTradePayout, Idle
<1>6. ASSUME NEW t \in Trades, NEW n \in Nullifiers,
             RetryPrivateClaim(h, t, n) \/ FindNullifier(h, t, n)
      PROVE  WinnersInv'
    <2>1. Payable(t)
        BY <1>6 DEF RetryPrivateClaim, FindNullifier, Retryable, Claimable, WinnersInv,
                    LosersUntouched
    <2>2. \A s \in Trades : s # t => trades'[s] = trades[s]
        BY <1>2, <1>6 DEF RetryPrivateClaim, FindNullifier
    <2> QED
        BY <1>4, <1>6, <2>1, <2>2 DEF RetryPrivateClaim, FindNullifier, Idle
<1>7. ASSUME NEW t \in Trades,
             AdminRetryPrivateClaimPayout(h, t) \/ AdminReconcilePrivateClaimPayout(h, t)
      PROVE  WinnersInv'
    <2>1. Payable(t) /\ UNCHANGED trades
        BY <1>7 DEF AdminRetryPrivateClaimPayout, AdminReconcilePrivateClaimPayout,
                    WinnersInv, LosersUntouched
    <2>2. CASE AdminRetryPrivateClaimPayout(h, t)
        BY <1>4, <2>1, <2>2 DEF AdminRetryPrivateClaimPayout, Idle
    <2>3. CASE AdminReconcilePrivateClaimPayout(h, t)
        BY <1>4, <2>1, <2>3 DEF AdminReconcilePrivateClaimPayout, Idle
    <2> QED
        BY <1>7, <2>2, <2>3
<1>8. CASE AdminRetrySettlementPayout(h)
    <2> DEFINE state == [Idle EXCEPT !.pc = "send", !.kind = "settlementRetry",
                                     !.todo = Recipients]
    <2>1. Becomes(h, state) /\ UNCHANGED trades /\ state.trade = None
        BY <1>8 DEF AdminRetrySettlementPayout, Idle
    <2> HIDE DEF state
    <2> QED
        BY <1>3, <2>1
<1>9. CASE AdminReconcileSettlementPayout(h)
    <2> DEFINE state == [Idle EXCEPT !.pc = "wait", !.kind = "settlementReconcile",
                                     !.txs = pollTxs]
    <2>1. Becomes(h, state) /\ UNCHANGED trades /\ state.trade = None
        BY <1>9 DEF AdminReconcileSettlementPayout, Idle
    <2> HIDE DEF state
    <2> QED
        BY <1>3, <2>1
<1> QED
    BY <1>5, <1>6, <1>7, <1>8, <1>9 DEF UserRequest, AdminRequest

LEMMA AdminStepWinners ==
    ASSUME TypeInv, WinnersInv, NEW h \in Handlers, AdminStep(h)
    PROVE  WinnersInv'
<1>1. handlers \in [Handlers -> HandlerStates] /\ handlers[h] \in HandlerStates
    BY DEF TypeInv, TypeOK
<1>2. CASE SendSettlementPayout(h)
    <2>1. \A u : PaysNoLoser(UnitsOf(TradesOf(u)))
        BY WinnersUnits DEF TradesOf, PayableTrades
    <2>2. ChainPaysNoLoser'
        BY <1>2, <2>1, BroadcastWinners, CallFailsWinners
        DEF SendSettlementPayout, Broadcast
    <2>3. ASSUME NEW u, NEW x,
                 Becomes(h, [handlers[h] EXCEPT
                    !.todo = @ \ {u},
                    !.txs = Append(@, x),
                    !.pc = IF handlers[h].todo = {u} THEN "wait" ELSE "send"])
          PROVE  ServesWinners'
        BY <1>1, <2>3, ServesOn DEF Becomes, HandlerStates
    <2>4. ServesWinners'
        BY <1>2, <2>3, ReturnServes DEF SendSettlementPayout
    <2> QED
        BY <1>2, <2>2, <2>4, WritesOwnTrade DEF SendSettlementPayout, WinnersInv
<1>3. CASE RecordSettlementPayoutRetry(h) \/ UpdateSettlementPayoutReconciliation(h)
    <2>1. Return(h) /\ UNCHANGED chain
        BY <1>3 DEF RecordSettlementPayoutRetry, UpdateSettlementPayoutReconciliation
    <2>2. \A t \in Trades : ~Payable(t) => trades'[t] = trades[t]
        BY <1>3 DEF RecordSettlementPayoutRetry, UpdateSettlementPayoutReconciliation,
                    OverwritePayouts
    <2>3. LosersUntouched'
        BY <2>2 DEF WinnersInv, LosersUntouched, Payable
    <2> QED
        BY <2>1, <2>3, ReturnServes DEF WinnersInv, ChainPaysNoLoser
<1> QED
    BY <1>2, <1>3 DEF AdminStep

LEMMA NextWinners == TypeInv /\ WinnersInv /\ [Next]_vars => WinnersInv'
<1> SUFFICES ASSUME TypeInv, WinnersInv, [Next]_vars PROVE WinnersInv'
    OBVIOUS
<1>1. CASE UNCHANGED vars
    BY <1>1 DEF vars, WinnersInv, LosersUntouched, ServesWinners, ChainPaysNoLoser
<1>2. ASSUME NEW x \in TxId, Mined(x)
      PROVE  WinnersInv'
    <2>1. UNCHANGED <<trades, handlers>> /\ \A y \in TxId : chain'[y].pays = chain[y].pays
        BY <1>2 DEF Mined, TypeInv, TypeOK, TxStates
    <2> QED
        BY <2>1 DEF WinnersInv, LosersUntouched, ServesWinners, ChainPaysNoLoser
<1>3. CASE Restart
    BY <1>3, PayoutsAssumption
    DEF Restart, Idle, WinnersInv, LosersUntouched, ServesWinners, ChainPaysNoLoser
<1>4. ASSUME NEW h \in Handlers, RecordFails(h)
      PROVE  WinnersInv'
    BY <1>4, ReturnServes, WritesOwnTrade DEF RecordFails, WinnersInv, ChainPaysNoLoser
<1> QED
    BY <1>1, <1>2, <1>3, <1>4, RequestWinners, PayingWinners, RecordingWinners,
       AdminStepWinners
    DEF Next, UserNext, Mining, Fault

\* A losing trade is never paid, never shown as payable and never claimed, whatever
\* is retried or reconciled for the other trades of its user
\* (settlementRetryTradeRowsCypher, ReservePrivateClaim).
THEOREM LosersUnpaid == Spec => []LosersNeverPaid
<1>1. WinnersInv => LosersNeverPaid
    BY DEF WinnersInv, LosersUntouched, ChainPaysNoLoser, PaysNoLoser, LosersNeverPaid
<1> QED
    BY <1>1, InitTyped, InitWinners, NextTyped, NextWinners, PTL DEF Spec

----------------------------------------------------------------------------
(* A payout is made at most once *)

\* The deployment without shielded payouts, behind a gateway whose errors mean
\* that nothing was broadcast.
CleanDirect ==
    /\ ~DirtyErrors
    /\ \A t \in Trades : PrivateMode[t] = "direct"

----------------------------------------------------------------------------
(* The inductive invariant *)

\* Transaction x moves, or has moved, units of trade t.
Pays(x, t) == Live(x) /\ chain[x].pays \cap UnitsOf({t}) # {}

Unpaid(t) == \A x \in TxId : ~Pays(x, t)

Open == {"none", "claimable", "failed", "claim_failed"}

\* A trade that may be reserved again has not been paid.
OpenUnpaid ==
    \A t \in Trades : trades[t].payoutStatus \in Open => Unpaid(t)

\* What a claim in flight knows of the transactions that pay its trade: none
\* before the transfer, only its own after it, none again once it has read
\* that its own failed.
ClaimKnows(h, t) ==
    /\ handlers[h].pc \in {"register", "pay", "wait", "record"}
    /\ handlers[h].pc \in {"register", "pay"} => Unpaid(t)
    /\ handlers[h].pc = "wait" =>
          \E x \in TxId : /\ handlers[h].txs = <<x>>
                          /\ \A y \in TxId : Pays(y, t) => y = x
    /\ handlers[h].pc = "record" =>
          /\ handlers[h].status \in {"submitted", "sent", "failed"}
          /\ handlers[h].status = "failed" => Unpaid(t)

ClaimsKnow ==
    \A h \in Handlers, t \in Trades : ClaimInFlight(h, t) => ClaimKnows(h, t)

PaymentInv == PaidAtMostOnce /\ OpenUnpaid /\ ClaimsKnow

AllInv == TypeInv /\ ReservationInv /\ PaymentInv

----------------------------------------------------------------------------
(* Units and transactions *)

LEMMA UnitsDisjoint ==
    ASSUME NEW s \in Trades, NEW t \in Trades, s # t
    PROVE  UnitsOf({s}) \cap UnitsOf({t}) = {}
BY DEF UnitsOf

\* A transaction that was just broadcast pays its own trade and no other, and
\* the others pay what they paid.
LEMMA BroadcastPays ==
    ASSUME TypeInv, NEW x \in TxId, NEW t \in Trades, Broadcast(x, UnitsOf({t}))
    PROVE  /\ \A y \in TxId, s \in Trades :
                 Pays(y, s)' => (y = x /\ s = t) \/ (y # x /\ Pays(y, s))
           /\ ~Live(x)
           /\ chain'[x].pays = UnitsOf({t})
           /\ \A y \in TxId : y # x => chain'[y] = chain[y]
<1>1. chain \in [TxId -> TxStates]
    BY DEF TypeInv, TypeOK
<1>2. /\ chain'[x] = [pays |-> UnitsOf({t}), state |-> "pending"]
      /\ \A y \in TxId : y # x => chain'[y] = chain[y]
    BY <1>1 DEF Broadcast, BroadcastAs
<1>3. ~Live(x)
    BY DEF Broadcast, BroadcastAs, Live
<1>4. ASSUME NEW y \in TxId, NEW s \in Trades, Pays(y, s)'
      PROVE  (y = x /\ s = t) \/ (y # x /\ Pays(y, s))
    <2>1. CASE y = x
        BY <1>2, <1>4, <2>1, UnitsDisjoint DEF Pays
    <2>2. CASE y # x
        BY <1>2, <1>4, <2>2 DEF Pays, Live
    <2>3. QED
        BY <2>1, <2>2
<1>5. QED
    BY <1>2, <1>3, <1>4

\* The chain only takes payments away: what it does not confirm, it fails.
LEMMA MinedPays ==
    ASSUME TypeInv, NEW z \in TxId, Mined(z)
    PROVE  /\ \A x \in TxId : Live(x)' => Live(x)
           /\ \A x \in TxId : chain'[x].pays = chain[x].pays
<1>1. chain \in [TxId -> TxStates]
    BY DEF TypeInv, TypeOK
<1>2. PICK result \in {"confirmed", "failed"} :
          chain' = [chain EXCEPT ![z].state = result]
    BY DEF Mined
<1>3. \A x \in TxId : chain'[x].pays = chain[x].pays
    BY <1>1, <1>2 DEF TxStates
<1>4. \A x \in TxId : x # z => chain'[x] = chain[x]
    BY <1>1, <1>2
<1>5. Live(z)
    BY DEF Mined, Live
<1>6. QED
    BY <1>3, <1>4, <1>5 DEF Live

----------------------------------------------------------------------------
(* Initial states *)

LEMMA InitPayment == Init => PaymentInv
<1> SUFFICES ASSUME Init PROVE PaymentInv
    OBVIOUS
<1> USE PayoutsAssumption
<1>1. PICK states \in [CashedOut -> {"pending", "confirmed", "failed"}] :
          /\ trades = [t \in Trades |->
                [payoutStatus |-> InitialPayoutStatus(t, states),
                 txs |-> IF t \in CashedOut THEN <<CashoutTx[t]>> ELSE <<>>,
                 claim |-> None]]
          /\ chain = [x \in TxId |->
                IF \E t \in CashedOut : CashoutTx[t] = x
                THEN LET t == CHOOSE s \in CashedOut : CashoutTx[s] = x
                     IN  [pays |-> UnitsOf({t}), state |-> states[t]]
                ELSE Unused]
    BY DEF Init
<1>2. ASSUME NEW x \in TxId, Live(x)
      PROVE  \E t \in CashedOut :
                /\ CashoutTx[t] = x
                /\ chain[x].pays = UnitsOf({t})
                /\ chain[x].state = states[t]
    <2>1. CASE \E t \in CashedOut : CashoutTx[t] = x
        <3> DEFINE t == CHOOSE s \in CashedOut : CashoutTx[s] = x
        <3>1. t \in CashedOut /\ CashoutTx[t] = x
            BY <2>1
        <3>2. chain[x] = [pays |-> UnitsOf({t}), state |-> states[t]]
            BY <1>1, <2>1
        <3> HIDE DEF t
        <3>3. chain[x].pays = UnitsOf({t}) /\ chain[x].state = states[t]
            BY <3>2
        <3>4. QED
            BY <3>1, <3>3
    <2>2. CASE ~\E t \in CashedOut : CashoutTx[t] = x
        BY <1>1, <1>2, <2>2 DEF Unused, Live
    <2>3. QED
        BY <2>1, <2>2
<1>3. PaidAtMostOnce
    <2>1. SUFFICES ASSUME NEW x \in TxId, NEW y \in TxId, x # y, Live(x), Live(y)
                   PROVE  chain[x].pays \cap chain[y].pays = {}
        BY DEF PaidAtMostOnce
    <2>2. PICK s \in CashedOut : CashoutTx[s] = x /\ chain[x].pays = UnitsOf({s})
        BY <1>2, <2>1
    <2>3. PICK t \in CashedOut : CashoutTx[t] = y /\ chain[y].pays = UnitsOf({t})
        BY <1>2, <2>1
    <2>4. s # t /\ s \in Trades /\ t \in Trades
        BY <2>1, <2>2, <2>3 DEF CashedOut
    <2>5. QED
        BY <2>2, <2>3, <2>4, UnitsDisjoint
<1>4. OpenUnpaid
    <2>1. SUFFICES ASSUME NEW t \in Trades, trades[t].payoutStatus \in Open,
                          NEW x \in TxId, Pays(x, t)
                   PROVE  FALSE
        BY DEF OpenUnpaid, Unpaid
    <2>2. PICK s \in CashedOut : /\ chain[x].pays = UnitsOf({s})
                                 /\ chain[x].state = states[s]
        BY <1>2, <2>1 DEF Pays
    <2>3. s = t
        BY <2>1, <2>2, UnitsDisjoint DEF Pays, CashedOut
    <2>4. states[t] \in {"pending", "confirmed"} /\ Outcome[t] = "cashed_out"
        BY <2>1, <2>2, <2>3 DEF Pays, Live, CashedOut
    <2>5. trades[t].payoutStatus \in {"submitted", "sent"}
        BY <1>1, <2>4 DEF InitialPayoutStatus, CashoutStatus
    <2>6. QED
        BY <2>1, <2>5 DEF Open
<1>5. ClaimsKnow
    BY DEF Init, ClaimsKnow, ClaimInFlight, Idle
<1>6. QED
    BY <1>3, <1>4, <1>5 DEF PaymentInv

----------------------------------------------------------------------------
(* Steps *)

\* Steps that broadcast nothing keep the payments apart.
LEMMA NoBroadcast ==
    ASSUME PaymentInv, UNCHANGED chain
    PROVE  /\ PaidAtMostOnce'
           /\ \A t \in Trades : Unpaid(t)' <=> Unpaid(t)
           /\ \A x \in TxId, t \in Trades : Pays(x, t)' <=> Pays(x, t)
BY DEF PaymentInv, PaidAtMostOnce, Unpaid, Pays, Live

\* Handler h ends or was already at rest in the next state, or it serves a
\* claim that knows enough; nobody else moves.
LEMMA OneMoves ==
    ASSUME PaymentInv, NEW h \in Handlers, UNCHANGED chain,
           \A g \in Handlers : g # h => handlers'[g] = handlers[g],
           \A t \in Trades : ClaimInFlight(h, t)' => ClaimKnows(h, t)'
    PROVE  ClaimsKnow'
<1>1. SUFFICES ASSUME NEW g \in Handlers, NEW t \in Trades, ClaimInFlight(g, t)'
               PROVE  ClaimKnows(g, t)'
    BY DEF ClaimsKnow
<1>2. CASE g = h
    BY <1>1, <1>2
<1>3. CASE g # h
    <2>1. handlers'[g] = handlers[g]
        BY <1>3
    <2>2. ClaimKnows(g, t)
        BY <1>1, <2>1 DEF ClaimInFlight, PaymentInv, ClaimsKnow
    <2>3. QED
        BY <2>1, <2>2, NoBroadcast DEF ClaimKnows
<1>4. QED
    BY <1>2, <1>3

\* A step of handler h that neither broadcasts nor writes a trade.
LEMMA ThinkingStep ==
    ASSUME AllInv, NEW h \in Handlers, UNCHANGED <<chain, trades>>,
           \A g \in Handlers : g # h => handlers'[g] = handlers[g],
           \A t \in Trades : ClaimInFlight(h, t)' => ClaimKnows(h, t)'
    PROVE  PaymentInv'
<1>1. PaidAtMostOnce' /\ OpenUnpaid'
    BY NoBroadcast DEF AllInv, PaymentInv, OpenUnpaid
<1>2. ClaimsKnow'
    BY OneMoves DEF AllInv
<1>3. QED
    BY <1>1, <1>2 DEF PaymentInv

\* Handler h ends and writes what it knows to the trade it reserved.
LEMMA RecordingStep ==
    ASSUME AllInv, NEW h \in Handlers, Return(h), UNCHANGED chain,
           \A t \in Trades : \/ trades'[t].payoutStatus = trades[t].payoutStatus
                             \/ trades'[t].payoutStatus \in Open => Unpaid(t)
    PROVE  PaymentInv'
<1>1. PaidAtMostOnce' /\ OpenUnpaid'
    BY NoBroadcast DEF AllInv, PaymentInv, OpenUnpaid
<1>2. /\ \A g \in Handlers : g # h => handlers'[g] = handlers[g]
      /\ handlers'[h].pc = "idle"
    BY DEF Return, Becomes, Idle, AllInv, TypeInv, TypeOK
<1>3. ClaimsKnow'
    BY <1>2, OneMoves DEF ClaimInFlight, AllInv
<1>4. QED
    BY <1>1, <1>3 DEF PaymentInv

\* A reservation: the trade was open, so nothing has paid it.
LEMMA ReservedPayment ==
    ASSUME AllInv, NEW h \in Handlers, NEW t \in Trades,
           trades[t].payoutStatus \in Open,
           trades'[t].payoutStatus = "claim_pending",
           \A s \in Trades : s # t => trades'[s] = trades[s],
           handlers'[h].pc \in {"register", "pay"},
           handlers'[h].trade = t,
           \A g \in Handlers : g # h => handlers'[g] = handlers[g],
           UNCHANGED chain
    PROVE  PaymentInv'
<1>2. Unpaid(t)
    BY DEF AllInv, PaymentInv, OpenUnpaid
<1>3. PaidAtMostOnce' /\ Unpaid(t)'
    BY <1>2, NoBroadcast DEF AllInv
<1>4. OpenUnpaid'
    <2>1. ASSUME NEW s \in Trades, trades'[s].payoutStatus \in Open
          PROVE  Unpaid(s)'
        <3>1. s # t
            BY <2>1 DEF Open
        <3>2. QED
            BY <2>1, <3>1, NoBroadcast DEF AllInv, PaymentInv, OpenUnpaid
    <2>2. QED
        BY <2>1 DEF OpenUnpaid
<1>5. ClaimsKnow'
    <2>1. \A s \in Trades : ClaimInFlight(h, s)' => ClaimKnows(h, s)'
        BY <1>3 DEF ClaimInFlight, ClaimKnows
    <2>2. QED
        BY <2>1, OneMoves DEF AllInv
<1>6. QED
    BY <1>3, <1>4, <1>5 DEF PaymentInv

LEMMA RequestPayment ==
    ASSUME AllInv, NEW h \in Handlers, UserRequest(h)
    PROVE  PaymentInv'
<1>0. /\ handlers \in [Handlers -> HandlerStates]
      /\ trades \in [Trades -> TradeStates]
    BY DEF AllInv, TypeInv, TypeOK
<1>1. ASSUME NEW t \in Trades, ReserveDirectTradePayout(h, t)
      PROVE  PaymentInv'
    <2>1. /\ trades[t].payoutStatus \in Open
          /\ trades'[t].payoutStatus = "claim_pending"
          /\ \A s \in Trades : s # t => trades'[s] = trades[s]
          /\ handlers'[h].pc = "pay" /\ handlers'[h].trade = t
          /\ \A g \in Handlers : g # h => handlers'[g] = handlers[g]
          /\ UNCHANGED chain
        BY <1>0, <1>1 DEF ReserveDirectTradePayout, Becomes, Idle, Open, TradeStates
    <2>2. QED
        BY <2>1, ReservedPayment
<1>2. ASSUME NEW t \in Trades, NEW n \in Nullifiers, RetryPrivateClaim(h, t, n)
      PROVE  PaymentInv'
    <2>1. /\ trades[t].payoutStatus \in Open
          /\ trades'[t].payoutStatus = "claim_pending"
          /\ \A s \in Trades : s # t => trades'[s] = trades[s]
        BY <1>0, <1>2 DEF RetryPrivateClaim, Retryable, Open, TradeStates
    <2>2. /\ handlers'[h].pc = "register" /\ handlers'[h].trade = t
          /\ \A g \in Handlers : g # h => handlers'[g] = handlers[g]
          /\ UNCHANGED chain
        BY <1>0, <1>2 DEF RetryPrivateClaim, Becomes, Idle
    <2>3. QED
        BY <2>1, <2>2, ReservedPayment
<1>3. ASSUME NEW t \in Trades, NEW n \in Nullifiers, FindNullifier(h, t, n)
      PROVE  PaymentInv'
    <2>1. /\ handlers'[h].pc = "reserve"
          /\ \A g \in Handlers : g # h => handlers'[g] = handlers[g]
          /\ UNCHANGED <<chain, trades>>
        BY <1>0, <1>3 DEF FindNullifier, Becomes, Idle
    <2>2. QED
        BY <2>1, ThinkingStep DEF ClaimInFlight
<1>4. QED
    BY <1>1, <1>2, <1>3 DEF UserRequest

\* The transaction of a private claim commits on an open trade, or is refused.
LEMMA CommitPayment ==
    ASSUME AllInv, NEW h \in Handlers, ReservePrivateClaim(h)
    PROVE  PaymentInv'
<1> DEFINE t == handlers[h].trade
           n == handlers[h].nullifier
<1>0. /\ handlers \in [Handlers -> HandlerStates]
      /\ handlers[h] \in HandlerStates
      /\ trades \in [Trades -> TradeStates]
      /\ t \in Trades
    BY DEF AllInv, TypeInv, TypeOK, HandlerOK, ReservePrivateClaim
<1>1. ASSUME Claimable(t), Goto(h, "register"),
             trades' = [trades EXCEPT
                 ![t] = [@ EXCEPT !.payoutStatus = "claim_pending", !.claim = n]]
      PROVE  PaymentInv'
    <2>1. trades[t].payoutStatus \in Open
        BY <1>1 DEF Claimable, Open
    <2>2. /\ trades'[t].payoutStatus = "claim_pending"
          /\ \A s \in Trades : s # t => trades'[s] = trades[s]
        BY <1>0, <1>1 DEF TradeStates
    <2>3. /\ handlers'[h].pc = "register" /\ handlers'[h].trade = t
          /\ \A g \in Handlers : g # h => handlers'[g] = handlers[g]
        BY <1>0, <1>1 DEF Goto, Becomes, HandlerStates
    <2>4. UNCHANGED chain
        BY DEF ReservePrivateClaim
    <2>5. QED
        BY <1>0, <2>1, <2>2, <2>3, <2>4, ReservedPayment
<1>2. ASSUME Return(h), UNCHANGED trades
      PROVE  PaymentInv'
    BY <1>2, RecordingStep DEF ReservePrivateClaim
<1>3. QED
    BY <1>1, <1>2 DEF ReservePrivateClaim

\* What handler h knows of the trade it serves, by the step it is at.
LEMMA ServedTrade ==
    ASSUME AllInv, NEW h \in Handlers, handlers[h].pc \notin {"idle", "reserve"},
           handlers[h].trade \in Trades
    PROVE  /\ ClaimInFlight(h, handlers[h].trade)
           /\ ClaimKnows(h, handlers[h].trade)
BY DEF AllInv, ReservationInv, PaymentInv, ClaimsKnow, ClaimInFlight

LEMMA StepPayment ==
    ASSUME AllInv, CleanDirect, NEW h \in Handlers, UserStep(h)
    PROVE  PaymentInv'
<1>0. /\ handlers \in [Handlers -> HandlerStates]
      /\ handlers[h] \in HandlerStates
      /\ trades \in [Trades -> TradeStates]
      /\ handlers[h].kind \in ClaimKinds
    BY DEF AllInv, TypeInv, TypeOK, ReservationInv
<1>1. CASE RegisterPrivateClaim(h)
    <2>1. PICK t \in Trades : handlers[h].trade = t /\ handlers[h].pc = "register"
        BY <1>1 DEF RegisterPrivateClaim, AllInv, TypeInv, HandlerOK
    <2>2. Unpaid(t)
        BY <2>1, ServedTrade DEF ClaimKnows
    <2>3. Unpaid(t)'
        BY <1>1, <2>1, <2>2, NoBroadcast DEF RegisterPrivateClaim, AllInv
    <2>4. /\ handlers'[h].trade = t
          /\ \/ handlers'[h].pc = "pay"
             \/ handlers'[h].pc = "record" /\ handlers'[h].status = "failed"
        <3>1. CASE Goto(h, "pay")
            BY <1>0, <2>1, <3>1 DEF Goto, Becomes, HandlerStates
        <3>2. CASE Finish(h, <<>>, "failed")
            BY <1>0, <2>1, <3>2 DEF Finish, Becomes, HandlerStates
        <3>3. QED
            BY <1>1, <3>1, <3>2 DEF RegisterPrivateClaim
    <2>5. \A g \in Handlers : g # h => handlers'[g] = handlers[g]
        BY <1>0, <1>1 DEF RegisterPrivateClaim, Goto, Finish, Becomes
    <2>6. \A s \in Trades : ClaimInFlight(h, s)' => ClaimKnows(h, s)'
        BY <2>3, <2>4 DEF ClaimInFlight, ClaimKnows
    <2>7. QED
        BY <1>1, <2>5, <2>6, ThinkingStep DEF RegisterPrivateClaim
<1>2. CASE TransferAccepted(h)
    <2>1. PICK t \in Trades : handlers[h].trade = t /\ handlers[h].pc = "pay"
        BY <1>2 DEF TransferAccepted, AllInv, TypeInv, HandlerOK
    <2>2. Unpaid(t) /\ trades[t].payoutStatus = "claim_pending"
        BY <2>1, ServedTrade DEF ClaimKnows, AllInv, ReservationInv, ReservationStands
    <2>3. PICK x \in TxId :
             /\ Broadcast(x, UnitsOf({t}))
             /\ Becomes(h, [handlers[h] EXCEPT !.pc = "wait", !.txs = <<x>>])
        BY <1>2, <2>1 DEF TransferAccepted
    <2>4. /\ \A y \in TxId, s \in Trades :
                 Pays(y, s)' => (y = x /\ s = t) \/ (y # x /\ Pays(y, s))
          /\ ~Live(x)
          /\ chain'[x].pays = UnitsOf({t})
          /\ \A y \in TxId : y # x => chain'[y] = chain[y]
        BY <2>1, <2>3, BroadcastPays DEF AllInv
    <2>5. PaidAtMostOnce'
        <3>1. SUFFICES ASSUME NEW y \in TxId, NEW z \in TxId, y # z,
                              Live(y)', Live(z)'
                       PROVE  chain'[y].pays \cap chain'[z].pays = {}
            BY DEF PaidAtMostOnce
        <3>2. ASSUME NEW w \in TxId, w # x, Live(w)'
              PROVE  chain'[w].pays \cap UnitsOf({t}) = {}
            BY <2>1, <2>2, <2>4, <3>2 DEF Unpaid, Pays, Live
        <3>3. CASE y # x /\ z # x
            BY <2>4, <3>1, <3>3 DEF AllInv, PaymentInv, PaidAtMostOnce, Live
        <3>4. CASE y = x
            BY <2>4, <3>1, <3>2, <3>4
        <3>5. CASE z = x
            BY <2>4, <3>1, <3>2, <3>5
        <3>6. QED
            BY <3>3, <3>4, <3>5
    <2>6. \A s \in Trades : s # t /\ Unpaid(s) => Unpaid(s)'
        BY <2>4 DEF Unpaid
    <2>7. OpenUnpaid'
        <3>1. ASSUME NEW s \in Trades, trades'[s].payoutStatus \in Open
              PROVE  Unpaid(s)'
            <4>1. trades' = trades
                BY <1>2 DEF TransferAccepted
            <4>2. s # t
                BY <2>2, <3>1, <4>1 DEF Open
            <4>3. QED
                BY <2>6, <3>1, <4>1, <4>2 DEF AllInv, PaymentInv, OpenUnpaid
        <3>2. QED
            BY <3>1 DEF OpenUnpaid
    <2>8. ASSUME NEW g \in Handlers, NEW s \in Trades, ClaimInFlight(g, s)'
          PROVE  ClaimKnows(g, s)'
        <3>1. CASE g = h
            <4>1. /\ handlers'[h].trade = t
                  /\ handlers'[h].pc = "wait"
                  /\ handlers'[h].txs = <<x>>
                BY <1>0, <2>1, <2>3 DEF Becomes, HandlerStates
            <4>2. s = t
                BY <2>8, <3>1, <4>1 DEF ClaimInFlight
            <4>3. \A y \in TxId : Pays(y, t)' => y = x
                BY <2>1, <2>2, <2>4 DEF Unpaid
            <4>4. QED
                BY <3>1, <4>1, <4>2, <4>3 DEF ClaimKnows
        <3>2. CASE g # h
            <4>1. handlers'[g] = handlers[g]
                BY <1>0, <2>3, <3>2 DEF Becomes
            <4>2. ClaimInFlight(g, s)
                BY <2>8, <4>1 DEF ClaimInFlight
            <4>3. s # t
                BY <2>1, <3>2, <4>2, ServedTrade
                DEF AllInv, ReservationInv, ClaimExclusive, ClaimInFlight
            <4>4. ClaimKnows(g, s)
                BY <4>2 DEF AllInv, PaymentInv, ClaimsKnow
            <4>5. \A y \in TxId : Pays(y, s)' => Pays(y, s)
                BY <2>4, <4>3
            <4>6. Unpaid(s) => Unpaid(s)'
                BY <2>6, <4>3
            <4>7. CASE handlers[g].pc = "wait"
                <5>1. PICK z \in TxId : /\ handlers[g].txs = <<z>>
                                        /\ \A y \in TxId : Pays(y, s) => y = z
                    BY <4>4, <4>7 DEF ClaimKnows
                <5>2. QED
                    BY <4>1, <4>5, <4>7, <5>1 DEF ClaimKnows
            <4>8. CASE handlers[g].pc # "wait"
                BY <4>1, <4>4, <4>6, <4>8 DEF ClaimKnows
            <4>9. QED
                BY <4>7, <4>8
        <3>3. QED
            BY <3>1, <3>2
    <2>9. QED
        BY <2>5, <2>7, <2>8 DEF PaymentInv, ClaimsKnow
<1>3. CASE TransferRefused(h)
    <2>1. PICK t \in Trades : handlers[h].trade = t /\ handlers[h].pc = "pay"
        BY <1>3 DEF TransferRefused, AllInv, TypeInv, HandlerOK
    <2>2. Unpaid(t)
        BY <2>1, ServedTrade DEF ClaimKnows
    <2>3. UNCHANGED chain /\ Finish(h, <<>>, "failed")
        <3>1. handlers[h].kind # "privateRetry"
            BY <1>0 DEF ClaimKinds
        <3>2. CallFails(UnitsOf({t})) => UNCHANGED chain
            BY DEF CallFails, CleanDirect
        <3>3. QED
            BY <1>3, <2>1, <3>1, <3>2 DEF TransferRefused
    <2>4. Unpaid(t)'
        BY <2>1, <2>2, <2>3, NoBroadcast DEF AllInv
    <2>5. /\ handlers'[h].trade = t
          /\ handlers'[h].pc = "record" /\ handlers'[h].status = "failed"
          /\ \A g \in Handlers : g # h => handlers'[g] = handlers[g]
        BY <1>0, <2>1, <2>3 DEF Finish, Becomes, HandlerStates
    <2>6. \A s \in Trades : ClaimInFlight(h, s)' => ClaimKnows(h, s)'
        BY <2>4, <2>5 DEF ClaimInFlight, ClaimKnows
    <2>7. QED
        BY <1>3, <2>3, <2>5, <2>6, ThinkingStep DEF TransferRefused
<1>4. CASE WaitForTransactionStatus(h)
    <2>1. PICK status \in WaitedStatus(handlers[h].txs) :
              Finish(h, handlers[h].txs, status)
        BY <1>4 DEF WaitForTransactionStatus
    <2>2. /\ handlers'[h].trade = handlers[h].trade
          /\ handlers'[h].pc = "record" /\ handlers'[h].status = status
          /\ \A g \in Handlers : g # h => handlers'[g] = handlers[g]
        BY <1>0, <2>1 DEF Finish, Becomes, HandlerStates
    <2>3. UNCHANGED <<chain, trades>> /\ handlers[h].pc = "wait"
        BY <1>4 DEF WaitForTransactionStatus
    <2>4. ASSUME NEW s \in Trades, ClaimInFlight(h, s)'
          PROVE  ClaimKnows(h, s)'
        <3>1. s = handlers[h].trade /\ ClaimKnows(h, s)
            BY <2>2, <2>3, <2>4, ServedTrade DEF ClaimInFlight
        <3>2. PICK x \in TxId : /\ handlers[h].txs = <<x>>
                                /\ \A y \in TxId : Pays(y, s) => y = x
            BY <2>3, <3>1 DEF ClaimKnows
        <3>3. /\ handlers[h].txs # <<>>
              /\ handlers[h].txs[1] = x
            BY <3>2
        <3>4. status \in TransactionStatus(x)
            BY <2>1, <3>3 DEF WaitedStatus
        <3>5. /\ status \in {"submitted", "sent", "failed"}
              /\ status = "failed" => chain[x].state = "failed"
            BY <3>4 DEF TransactionStatus
        <3>6. status = "failed" => Unpaid(s)
            BY <3>2, <3>5 DEF Unpaid, Pays, Live
        <3>7. status = "failed" => Unpaid(s)'
            BY <2>3, <3>6, NoBroadcast DEF AllInv
        <3>8. QED
            BY <2>2, <3>5, <3>7 DEF ClaimKnows
    <2>5. QED
        BY <2>2, <2>3, <2>4, ThinkingStep
<1>5. CASE BeginCredit(h)
    <2>1. handlers[h].trade \in Trades
        BY <1>5 DEF BeginCredit, AllInv, TypeInv, HandlerOK
    <2>2. PaysDirectly(h)
        BY <1>0, <2>1 DEF PaysDirectly, CleanDirect, ClaimKinds
    <2>3. QED
        BY <1>5, <2>2 DEF BeginCredit
<1>6. CASE ApproveNote(h) \/ AwaitApproval(h) \/ DepositNote(h) \/ AwaitDeposit(h)
    <2>1. /\ handlers[h].pc \in Crediting \ {"idle", "reserve"}
          /\ handlers[h].trade \in Trades
        BY <1>6 DEF ApproveNote, AwaitApproval, DepositNote, AwaitDeposit, Crediting,
                    AllInv, TypeInv, HandlerOK
    <2>2. FALSE
        BY <2>1, ServedTrade DEF ClaimKnows, Crediting
    <2>3. QED
        BY <2>2
<1>7. CASE CompleteDirectTradePayout(h)
    <2>1. ASSUME NEW s \in Trades
          PROVE  \/ trades'[s].payoutStatus = trades[s].payoutStatus
                 \/ trades'[s].payoutStatus \in Open => Unpaid(s)
        <3>1. CASE s = handlers[h].trade
            <4>1. ClaimKnows(h, s) /\ handlers[h].pc = "record"
                BY <1>7, <3>1, ServedTrade DEF CompleteDirectTradePayout
            <4>2. handlers[h].status \in Open => Unpaid(s)
                BY <4>1 DEF ClaimKnows, Open
            <4>3. \/ trades'[s].payoutStatus = trades[s].payoutStatus
                  \/ trades'[s].payoutStatus = handlers[h].status
                BY <1>0, <1>7, <3>1 DEF CompleteDirectTradePayout, TradeStates
            <4>4. QED
                BY <4>2, <4>3
        <3>2. CASE s # handlers[h].trade
            BY <1>0, <1>7, <3>2 DEF CompleteDirectTradePayout
        <3>3. QED
            BY <3>1, <3>2
    <2>2. QED
        BY <1>7, <2>1, RecordingStep DEF CompleteDirectTradePayout
<1>8. CASE CompletePrivateClaimPayout(h)
    <2>1. ASSUME NEW s \in Trades
          PROVE  \/ trades'[s].payoutStatus = trades[s].payoutStatus
                 \/ trades'[s].payoutStatus \in Open => Unpaid(s)
        <3>1. CASE s = handlers[h].trade
            <4>1. ClaimKnows(h, s) /\ handlers[h].pc = "record"
                BY <1>8, <3>1, ServedTrade DEF CompletePrivateClaimPayout
            <4>2. handlers[h].status # "failed" => handlers[h].status \notin Open
                BY <4>1 DEF ClaimKnows, Open
            <4>3. trades'[s].payoutStatus =
                     IF handlers[h].status = "failed" THEN "claim_failed"
                                                      ELSE handlers[h].status
                BY <1>0, <1>8, <3>1 DEF CompletePrivateClaimPayout, TradeStates
            <4>4. QED
                BY <4>1, <4>2, <4>3 DEF ClaimKnows
        <3>2. CASE s # handlers[h].trade
            BY <1>0, <1>8, <3>2 DEF CompletePrivateClaimPayout
        <3>3. QED
            BY <3>1, <3>2
    <2>2. QED
        BY <1>8, <2>1, RecordingStep DEF CompletePrivateClaimPayout
<1>9. QED
    BY <1>1, <1>2, <1>3, <1>4, <1>5, <1>6, <1>7, <1>8, CommitPayment DEF UserStep

\* Transactions decided by the chain, and faults.
LEMMA EnvironmentPayment ==
    ASSUME AllInv, Mining \/ Fault
    PROVE  PaymentInv'
<1>0. handlers \in [Handlers -> HandlerStates]
    BY DEF AllInv, TypeInv, TypeOK
<1>1. ASSUME NEW z \in TxId, Mined(z)
      PROVE  PaymentInv'
    <2>1. /\ \A x \in TxId : Live(x)' => Live(x)
          /\ \A x \in TxId : chain'[x].pays = chain[x].pays
          /\ UNCHANGED <<trades, handlers>>
        BY <1>1, MinedPays DEF AllInv, Mined
    <2>2. PaidAtMostOnce'
        BY <2>1 DEF AllInv, PaymentInv, PaidAtMostOnce
    <2>3. \A x \in TxId, t \in Trades : Pays(x, t)' => Pays(x, t)
        BY <2>1 DEF Pays
    <2>4. \A t \in Trades : Unpaid(t) => Unpaid(t)'
        BY <2>3 DEF Unpaid
    <2>5. OpenUnpaid'
        BY <2>1, <2>4 DEF AllInv, PaymentInv, OpenUnpaid
    <2>6. ASSUME NEW g \in Handlers, NEW s \in Trades, ClaimInFlight(g, s)'
          PROVE  ClaimKnows(g, s)'
        <3>1. ClaimKnows(g, s)
            BY <2>1, <2>6 DEF ClaimInFlight, AllInv, PaymentInv, ClaimsKnow
        <3>2. CASE handlers[g].pc = "wait"
            <4>1. PICK x \in TxId : /\ handlers[g].txs = <<x>>
                                    /\ \A y \in TxId : Pays(y, s) => y = x
                BY <3>1, <3>2 DEF ClaimKnows
            <4>2. QED
                BY <2>1, <2>3, <3>2, <4>1 DEF ClaimKnows
        <3>3. CASE handlers[g].pc # "wait"
            BY <2>1, <2>4, <3>1, <3>3 DEF ClaimKnows
        <3>4. QED
            BY <3>2, <3>3
    <2>7. QED
        BY <2>2, <2>5, <2>6 DEF PaymentInv, ClaimsKnow
<1>2. CASE Restart
    <2>1. UNCHANGED <<chain, trades>> /\ \A h \in Handlers : handlers'[h].pc = "idle"
        BY <1>2 DEF Restart, Idle
    <2>2. PaidAtMostOnce' /\ OpenUnpaid'
        BY <2>1, NoBroadcast DEF AllInv, PaymentInv, OpenUnpaid
    <2>3. ClaimsKnow'
        BY <2>1 DEF ClaimsKnow, ClaimInFlight
    <2>4. QED
        BY <2>2, <2>3 DEF PaymentInv
<1>3. ASSUME NEW h \in Handlers, RecordFails(h)
      PROVE  PaymentInv'
    BY <1>3, RecordingStep DEF RecordFails
<1>4. QED
    BY <1>1, <1>2, <1>3 DEF Mining, Fault

LEMMA NextPayment ==
    ASSUME CleanDirect
    PROVE  AllInv /\ [UserNext]_vars => PaymentInv'
<1> SUFFICES ASSUME AllInv, [UserNext]_vars PROVE PaymentInv'
    OBVIOUS
<1>1. CASE UNCHANGED vars
    <2>1. UNCHANGED chain /\ UNCHANGED trades /\ UNCHANGED handlers
        BY <1>1 DEF vars
    <2>2. PaidAtMostOnce' /\ OpenUnpaid'
        BY <2>1, NoBroadcast DEF AllInv, PaymentInv, OpenUnpaid
    <2>3. ClaimsKnow'
        <3>1. ASSUME NEW g \in Handlers, NEW s \in Trades, ClaimInFlight(g, s)'
              PROVE  ClaimKnows(g, s)'
            <4>1. ClaimKnows(g, s)
                BY <2>1, <3>1 DEF ClaimInFlight, AllInv, PaymentInv, ClaimsKnow
            <4>2. QED
                BY <2>1, <4>1, NoBroadcast DEF ClaimKnows, AllInv
        <3>2. QED
            BY <3>1 DEF ClaimsKnow
    <2>4. QED
        BY <2>2, <2>3 DEF PaymentInv
<1>2. CASE UserNext
    BY <1>2, RequestPayment, StepPayment, EnvironmentPayment DEF UserNext
<1>3. QED
    BY <1>1, <1>2

\* With direct payouts and clean gateway errors, no payout is ever moved by two
\* transactions that have not failed, wherever the process restarts, whatever
\* write of a result the store refuses, and however claims are repeated.
THEOREM PaidOnce ==
    ASSUME CleanDirect
    PROVE  UserSpec => []PaidAtMostOnce
<1>1. Init => AllInv
    BY InitTyped, InitReservation, InitPayment DEF AllInv
<1>2. AllInv /\ [UserNext]_vars => AllInv'
    BY NextTyped, NextReservation, NextPayment, UserNextIsNext DEF AllInv
<1>3. AllInv => PaidAtMostOnce
    BY DEF AllInv, PaymentInv
<1>4. QED
    BY <1>1, <1>2, <1>3, PTL DEF UserSpec

----------------------------------------------------------------------------
(* A trade shown as sent has been paid *)

\* Unit n of trade t is in a transaction that chain c confirmed.
PaidIn(c, t, n) ==
    \E x \in TxId : c[x].state = "confirmed" /\ <<t, n>> \in c[x].pays

\* Transaction x was broadcast and moves these units.
MovesIn(c, x, units) == c[x].state # "unused" /\ units \subseteq c[x].pays

\* Every credit waits for its deposits: SHIELDED_PAYOUT_REQUIRED is set, or no
\* payout is a shielded credit.
CreditsAwaited == AwaitDeposits \/ \A t \in Trades : PrivateMode[t] = "direct"

\* What a request in state s knows of chain c: a credit awaits its deposits and
\* has paid every note it is done with, and the last transaction of one that
\* awaits a deposit moves the next note; a transfer that is waited for moves
\* the whole payout; a result "sent" is only recorded of a payout that is paid
\* in full.
KnowsPaid(c, s) ==
    /\ s.pc \in Crediting
          => AwaitDeposits /\ \A n \in Notes \ s.todo : PaidIn(c, s.trade, n)
    /\ s.pc = "deposited"
          => /\ s.txs[Len(s.txs)] \in TxId
             /\ MovesIn(c, s.txs[Len(s.txs)],
                        {<<s.trade, CHOOSE n \in s.todo : TRUE>>})
    /\ s.pc = "wait"
          => \E x \in TxId : s.txs = <<x>> /\ MovesIn(c, x, UnitsOf({s.trade}))
    /\ s.pc = "record" /\ s.status = "sent"
          => \A n \in Notes : PaidIn(c, s.trade, n)

\* SentMeansPaid is not inductive: the request that records "sent" is the only
\* one to have seen the transactions confirmed.
SentInv ==
    /\ \A t \in Trades : trades[t].payoutStatus = "sent"
                            => \A n \in Notes : PaidIn(chain, t, n)
    /\ \A h \in Handlers : KnowsPaid(chain, handlers[h])

\* What was broadcast moves what it moved, and what was confirmed stays so.
Grown(c, d) ==
    \A x \in TxId : c[x].state # "unused" =>
        /\ d[x].state # "unused"
        /\ d[x].pays = c[x].pays
        /\ c[x].state = "confirmed" => d[x].state = "confirmed"

LEMMA SentIsPaid == SentInv => SentMeansPaid
BY DEF SentInv, SentMeansPaid, PaidIn, UnitsOf

LEMMA PaidStays ==
    ASSUME NEW c, NEW d, Grown(c, d), NEW t, NEW n, PaidIn(c, t, n)
    PROVE  PaidIn(d, t, n)
BY DEF Grown, PaidIn

LEMMA MovesStay ==
    ASSUME NEW c, NEW d, Grown(c, d), NEW x \in TxId, NEW units,
           MovesIn(c, x, units)
    PROVE  MovesIn(d, x, units)
BY DEF Grown, MovesIn

\* A request forgets nothing while the chain grows.
LEMMA KnowledgeStays ==
    ASSUME NEW c, NEW d, Grown(c, d), NEW s, KnowsPaid(c, s)
    PROVE  KnowsPaid(d, s)
<1>1. s.pc \in Crediting
          => AwaitDeposits /\ \A n \in Notes \ s.todo : PaidIn(d, s.trade, n)
    BY PaidStays DEF KnowsPaid
<1>2. s.pc = "deposited"
          => /\ s.txs[Len(s.txs)] \in TxId
             /\ MovesIn(d, s.txs[Len(s.txs)],
                        {<<s.trade, CHOOSE n \in s.todo : TRUE>>})
    BY MovesStay DEF KnowsPaid
<1>3. s.pc = "wait"
          => \E x \in TxId : s.txs = <<x>> /\ MovesIn(d, x, UnitsOf({s.trade}))
    BY MovesStay DEF KnowsPaid
<1>4. s.pc = "record" /\ s.status = "sent"
          => \A n \in Notes : PaidIn(d, s.trade, n)
    BY PaidStays DEF KnowsPaid
<1>5. QED
    BY <1>1, <1>2, <1>3, <1>4 DEF KnowsPaid

LEMMA BroadcastGrows ==
    ASSUME TypeOK, NEW x \in TxId, NEW units, Broadcast(x, units)
    PROVE  /\ Grown(chain, chain')
           /\ MovesIn(chain', x, units)
BY DEF TypeOK, Broadcast, BroadcastAs, Grown, MovesIn

LEMMA CallFailsGrows ==
    ASSUME TypeOK, NEW units, CallFails(units)
    PROVE  Grown(chain, chain')
<1>1. CASE UNCHANGED chain
    BY <1>1 DEF Grown
<1>2. QED
    BY <1>1, BroadcastGrows DEF CallFails

LEMMA MinedGrows ==
    ASSUME TypeOK, NEW x \in TxId, Mined(x)
    PROVE  Grown(chain, chain')
BY DEF TypeOK, TxStates, Mined, Grown

\* A step of request h: it knows what its new state says, nobody else moves,
\* and no trade is shown as sent that is not paid.
LEMMA SentStep ==
    ASSUME SentInv, NEW h \in Handlers, Grown(chain, chain'),
           \A g \in Handlers : g # h => handlers'[g] = handlers[g],
           KnowsPaid(chain', handlers'[h]),
           \A t \in Trades : trades'[t].payoutStatus = "sent"
               => \/ trades[t].payoutStatus = "sent"
                  \/ \A n \in Notes : PaidIn(chain', t, n)
    PROVE  SentInv'
<1>1. \A t \in Trades : trades'[t].payoutStatus = "sent"
          => \A n \in Notes : PaidIn(chain', t, n)
    BY PaidStays DEF SentInv
<1>2. \A g \in Handlers : KnowsPaid(chain', handlers'[g])
    BY KnowledgeStays DEF SentInv
<1>3. QED
    BY <1>1, <1>2 DEF SentInv

LEMMA InitSent == Init => SentInv
<1> SUFFICES ASSUME Init PROVE SentInv
    OBVIOUS
<1> USE PayoutsAssumption
<1>1. PICK states \in [CashedOut -> {"pending", "confirmed", "failed"}] :
          /\ trades = [t \in Trades |->
                [payoutStatus |-> InitialPayoutStatus(t, states),
                 txs |-> IF t \in CashedOut THEN <<CashoutTx[t]>> ELSE <<>>,
                 claim |-> None]]
          /\ chain = [x \in TxId |->
                IF \E t \in CashedOut : CashoutTx[t] = x
                THEN LET t == CHOOSE s \in CashedOut : CashoutTx[s] = x
                     IN  [pays |-> UnitsOf({t}), state |-> states[t]]
                ELSE Unused]
    BY DEF Init
<1>2. ASSUME NEW t \in Trades, trades[t].payoutStatus = "sent", NEW n \in Notes
      PROVE  PaidIn(chain, t, n)
    <2>1. t \in CashedOut /\ states[t] = "confirmed"
        <3>1. InitialPayoutStatus(t, states) = "sent"
            BY <1>1, <1>2
        <3>2. Outcome[t] = "cashed_out"
            BY <3>1 DEF InitialPayoutStatus, Outcomes
        <3>3. QED
            BY <3>1, <3>2 DEF InitialPayoutStatus, CashoutStatus, CashedOut
    <2> DEFINE x == CashoutTx[t]
               s == CHOOSE r \in CashedOut : CashoutTx[r] = x
    <2>2. x \in TxId /\ s \in CashedOut /\ CashoutTx[s] = x
        BY <2>1
    <2>3. s = t
        BY <2>1, <2>2
    <2>4. chain[x] = [pays |-> UnitsOf({s}), state |-> states[s]]
        BY <1>1, <2>1, <2>2
    <2>5. <<t, n>> \in UnitsOf({t})
        BY <1>2 DEF UnitsOf
    <2> HIDE DEF x, s
    <2>6. chain[x].state = "confirmed" /\ <<t, n>> \in chain[x].pays
        BY <2>1, <2>3, <2>4, <2>5
    <2>7. QED
        BY <2>2, <2>6 DEF PaidIn
<1>3. ASSUME NEW h \in Handlers PROVE KnowsPaid(chain, handlers[h])
    BY DEF Init, KnowsPaid, Idle, Crediting
<1>4. QED
    BY <1>2, <1>3 DEF SentInv

\* How a request moves on, and what it needs to know there.
LEMMA MovesOn ==
    ASSUME TypeOK, NEW h \in Handlers, NEW state, Becomes(h, state)
    PROVE  /\ handlers'[h] = state
           /\ \A g \in Handlers : g # h => handlers'[g] = handlers[g]
BY DEF TypeOK, Becomes

LEMMA AtRest ==
    ASSUME TypeOK, NEW h \in Handlers, Return(h)
    PROVE  /\ KnowsPaid(chain', handlers'[h])
           /\ \A g \in Handlers : g # h => handlers'[g] = handlers[g]
<1>1. /\ handlers'[h] = Idle
      /\ \A g \in Handlers : g # h => handlers'[g] = handlers[g]
    BY MovesOn DEF Return, Becomes
<1>2. KnowsPaid(chain', Idle)
    BY DEF KnowsPaid, Idle, Crediting
<1>3. QED
    BY <1>1, <1>2

LEMMA FinishSent ==
    ASSUME TypeOK, NEW h \in Handlers, NEW txs, NEW status,
           Finish(h, txs, status),
           status = "sent" => \A n \in Notes : PaidIn(chain', handlers[h].trade, n)
    PROVE  /\ KnowsPaid(chain', handlers'[h])
           /\ \A g \in Handlers : g # h => handlers'[g] = handlers[g]
<1> DEFINE s == [handlers[h] EXCEPT !.pc = "record", !.txs = txs,
                                    !.status = status]
<1>1. /\ handlers'[h] = s
      /\ \A g \in Handlers : g # h => handlers'[g] = handlers[g]
    BY MovesOn DEF Finish, Becomes
<1>2. s.pc = "record" /\ s.status = status /\ s.trade = handlers[h].trade
    BY DEF TypeOK, HandlerStates
<1> HIDE DEF s
<1>3. KnowsPaid(chain', s)
    BY <1>2 DEF KnowsPaid, Crediting
<1>4. QED
    BY <1>1, <1>3

LEMMA GotoSent ==
    ASSUME TypeOK, NEW h \in Handlers, NEW pc \in {"register", "pay", "deposit"},
           Goto(h, pc), KnowsPaid(chain', handlers[h]),
           pc = "deposit" => handlers[h].pc = "approved"
    PROVE  /\ KnowsPaid(chain', handlers'[h])
           /\ \A g \in Handlers : g # h => handlers'[g] = handlers[g]
<1> DEFINE s == [handlers[h] EXCEPT !.pc = pc]
<1>1. /\ handlers'[h] = s
      /\ \A g \in Handlers : g # h => handlers'[g] = handlers[g]
    BY MovesOn DEF Goto, Becomes
<1>2. s.pc = pc /\ s.trade = handlers[h].trade /\ s.todo = handlers[h].todo
    BY DEF TypeOK, HandlerStates
<1> HIDE DEF s
<1>3. KnowsPaid(chain', s)
    BY <1>2 DEF KnowsPaid, Crediting
<1>4. QED
    BY <1>1, <1>3

\* The next note has been credited, and its deposit was confirmed.
LEMMA NoteCreditedSent ==
    ASSUME TypeInv, SentInv, NEW h \in Handlers, NEW txs,
           NoteCredited(h, txs, "sent"),
           handlers[h].pc \in Crediting, Grown(chain, chain'),
           PaidIn(chain', handlers[h].trade, NextNote(h))
    PROVE  /\ KnowsPaid(chain', handlers'[h])
           /\ \A g \in Handlers : g # h => handlers'[g] = handlers[g]
<1> DEFINE rest == handlers[h].todo \ {NextNote(h)}
           s == [handlers[h] EXCEPT !.pc = "approve", !.todo = rest, !.txs = txs,
                                    !.status = "sent"]
<1>1. /\ AwaitDeposits
      /\ \A n \in Notes \ rest : PaidIn(chain', handlers[h].trade, n)
    <2>1. KnowsPaid(chain', handlers[h])
        BY KnowledgeStays DEF SentInv
    <2>2. QED
        BY <2>1 DEF KnowsPaid
<1>2. CASE rest # {}
    <2>1. Becomes(h, s)
        BY <1>2 DEF NoteCredited, Becomes
    <2>2. /\ handlers'[h] = s
          /\ \A g \in Handlers : g # h => handlers'[g] = handlers[g]
        BY <2>1, MovesOn DEF TypeInv
    <2>3. s.pc = "approve" /\ s.trade = handlers[h].trade /\ s.todo = rest
        BY DEF TypeInv, TypeOK, HandlerStates
    <2> HIDE DEF s, rest
    <2>4. KnowsPaid(chain', s)
        BY <1>1, <2>3 DEF KnowsPaid
    <2>5. QED
        BY <2>2, <2>4
<1>3. CASE rest = {}
    <2>1. Finish(h, txs, "sent")
        BY <1>3 DEF NoteCredited
    <2>2. \A n \in Notes : PaidIn(chain', handlers[h].trade, n)
        BY <1>1, <1>3
    <2>3. QED
        BY <2>1, <2>2, FinishSent DEF TypeInv
<1>4. QED
    BY <1>2, <1>3

LEMMA StillChain == ASSUME UNCHANGED chain PROVE Grown(chain, chain')
BY DEF Grown

LEMMA CreditFailsSent ==
    ASSUME TypeOK, NEW h \in Handlers, CreditFails(h)
    PROVE  /\ KnowsPaid(chain', handlers'[h])
           /\ \A g \in Handlers : g # h => handlers'[g] = handlers[g]
BY FinishSent DEF CreditFails

\* Everything a request does between its reservation and its result, none of
\* which writes a trade.
LEMMA PayingSent ==
    ASSUME TypeInv, SentInv, NEW h \in Handlers,
           \/ RegisterPrivateClaim(h) \/ TransferAccepted(h) \/ TransferRefused(h)
           \/ WaitForTransactionStatus(h) \/ BeginCredit(h) \/ ApproveNote(h)
           \/ AwaitApproval(h) \/ DepositNote(h) \/ AwaitDeposit(h),
           handlers[h].kind \in ClaimKinds, CreditsAwaited
    PROVE  SentInv'
<1> DEFINE Others == \A g \in Handlers : g # h => handlers'[g] = handlers[g]
           t == handlers[h].trade
<1>0. TypeOK /\ handlers[h] \in HandlerStates /\ KnowsPaid(chain, handlers[h])
    BY DEF TypeInv, TypeOK, SentInv
<1>1. UNCHANGED trades
    BY DEF RegisterPrivateClaim, TransferAccepted, TransferRefused,
           WaitForTransactionStatus, BeginCredit, ApproveNote, AwaitApproval,
           DepositNote, AwaitDeposit
<1>2. SUFFICES Grown(chain, chain') /\ KnowsPaid(chain', handlers'[h]) /\ Others
    BY <1>1, SentStep
<1>3. CASE RegisterPrivateClaim(h)
    <2>1. Grown(chain, chain')
        BY <1>3, StillChain DEF RegisterPrivateClaim
    <2>2. KnowsPaid(chain', handlers[h])
        BY <1>0, <2>1, KnowledgeStays
    <2>3. CASE Goto(h, "pay")
        BY <1>0, <2>1, <2>2, <2>3, GotoSent
    <2>4. CASE Finish(h, <<>>, "failed")
        BY <1>0, <2>1, <2>4, FinishSent
    <2>5. QED
        BY <1>3, <2>3, <2>4 DEF RegisterPrivateClaim
<1>4. CASE TransferAccepted(h)
    <2>1. PICK x \in TxId :
             /\ Broadcast(x, UnitsOf({t}))
             /\ Becomes(h, [handlers[h] EXCEPT !.pc = "wait", !.txs = <<x>>])
        BY <1>4 DEF TransferAccepted
    <2> DEFINE s == [handlers[h] EXCEPT !.pc = "wait", !.txs = <<x>>]
    <2>2. Grown(chain, chain') /\ MovesIn(chain', x, UnitsOf({t}))
        BY <1>0, <2>1, BroadcastGrows
    <2>3. s.pc = "wait" /\ s.txs = <<x>> /\ s.trade = t
        BY <1>0 DEF HandlerStates
    <2>4. handlers'[h] = s /\ Others
        BY <1>0, <2>1, MovesOn
    <2> HIDE DEF s
    <2>5. KnowsPaid(chain', s)
        BY <2>2, <2>3 DEF KnowsPaid, Crediting
    <2>6. QED
        BY <2>2, <2>4, <2>5
<1>5. CASE TransferRefused(h)
    <2>1. Grown(chain, chain')
        BY <1>0, <1>5, StillChain, CallFailsGrows DEF TransferRefused
    <2>2. CASE Return(h)
        BY <1>0, <2>1, <2>2, AtRest
    <2>3. CASE Finish(h, <<>>, "failed")
        BY <1>0, <2>1, <2>3, FinishSent
    <2>4. QED
        BY <1>5, <2>2, <2>3 DEF TransferRefused
<1>6. CASE WaitForTransactionStatus(h)
    <2>1. PICK status \in WaitedStatus(handlers[h].txs) :
              Finish(h, handlers[h].txs, status)
        BY <1>6 DEF WaitForTransactionStatus
    <2>2. PICK x \in TxId :
              handlers[h].txs = <<x>> /\ MovesIn(chain, x, UnitsOf({t}))
        BY <1>0, <1>6 DEF WaitForTransactionStatus, KnowsPaid
    <2>3. handlers[h].txs # <<>> /\ handlers[h].txs[1] = x
        BY <2>2
    <2>4. status \in TransactionStatus(x)
        BY <2>1, <2>3 DEF WaitedStatus
    <2>5. status = "sent" => chain[x].state = "confirmed"
        BY <2>4 DEF TransactionStatus
    <2>6. chain' = chain
        BY <1>6 DEF WaitForTransactionStatus
    <2>7. status = "sent" => \A n \in Notes : PaidIn(chain', t, n)
        BY <2>2, <2>5, <2>6 DEF PaidIn, MovesIn, UnitsOf
    <2>8. QED
        BY <1>0, <2>1, <2>6, <2>7, StillChain, FinishSent
<1>7. CASE BeginCredit(h)
    <2>1. Grown(chain, chain')
        BY <1>7, StillChain DEF BeginCredit
    <2>2. CASE Finish(h, <<>>, "failed")
        BY <1>0, <2>1, <2>2, FinishSent
    <2>3. CASE Becomes(h, [handlers[h] EXCEPT !.pc = "approve", !.todo = Notes,
                                              !.status = "submitted"])
        <3> DEFINE s == [handlers[h] EXCEPT !.pc = "approve", !.todo = Notes,
                                            !.status = "submitted"]
        <3>0. AwaitDeposits
            <4>1. t \in Trades /\ ~PaysDirectly(h)
                BY <1>7 DEF BeginCredit, TypeInv, HandlerOK
            <4>2. QED
                BY <4>1 DEF PaysDirectly, ClaimKinds, CreditsAwaited
        <3>1. s.pc = "approve" /\ s.todo = Notes
            BY <1>0 DEF HandlerStates
        <3>2. handlers'[h] = s /\ Others
            BY <1>0, <2>3, MovesOn
        <3> HIDE DEF s
        <3>3. KnowsPaid(chain', s)
            BY <3>0, <3>1 DEF KnowsPaid
        <3>4. QED
            BY <2>1, <3>2, <3>3
    <2>4. QED
        BY <1>7, <2>2, <2>3 DEF BeginCredit
<1>8. CASE ApproveNote(h)
    <2>1. CASE CallFails({}) /\ CreditFails(h)
        BY <1>0, <2>1, CallFailsGrows, CreditFailsSent
    <2>2. ASSUME NEW x \in TxId, Broadcast(x, {}),
                 Becomes(h, [handlers[h] EXCEPT !.pc = "approved",
                                                !.txs = Append(@, x)])
          PROVE  Grown(chain, chain') /\ KnowsPaid(chain', handlers'[h]) /\ Others
        <3> DEFINE s == [handlers[h] EXCEPT !.pc = "approved",
                                            !.txs = Append(@, x)]
        <3>1. Grown(chain, chain')
            BY <1>0, <2>2, BroadcastGrows
        <3>2. s.pc = "approved" /\ s.trade = t /\ s.todo = handlers[h].todo
            BY <1>0 DEF HandlerStates
        <3>3. handlers'[h] = s /\ Others
            BY <1>0, <2>2, MovesOn
        <3>4. KnowsPaid(chain', handlers[h]) /\ handlers[h].pc = "approve"
            BY <1>0, <1>8, <3>1, KnowledgeStays DEF ApproveNote
        <3> HIDE DEF s
        <3>5. KnowsPaid(chain', s)
            BY <3>2, <3>4 DEF KnowsPaid, Crediting
        <3>6. QED
            BY <3>1, <3>3, <3>5
    <2>3. QED
        BY <1>8, <2>1, <2>2 DEF ApproveNote
<1>9. CASE AwaitApproval(h)
    <2>1. Grown(chain, chain')
        BY <1>9, StillChain DEF AwaitApproval
    <2>2. KnowsPaid(chain', handlers[h])
        BY <1>0, <2>1, KnowledgeStays
    <2>3. CASE Goto(h, "deposit")
        BY <1>0, <1>9, <2>1, <2>2, <2>3, GotoSent DEF AwaitApproval
    <2>4. CASE CreditFails(h)
        BY <1>0, <2>1, <2>4, CreditFailsSent
    <2>5. QED
        BY <1>9, <2>3, <2>4 DEF AwaitApproval
<1>10. CASE DepositNote(h)
    <2> DEFINE unit == {<<t, NextNote(h)>>}
    <2>1. CASE CallFails(unit) /\ CreditFails(h)
        BY <1>0, <2>1, CallFailsGrows, CreditFailsSent
    <2>2. AwaitDeposits
        BY <1>0, <1>10 DEF DepositNote, KnowsPaid, Crediting
    <2>3. ASSUME NEW x \in TxId, Broadcast(x, unit),
                 Becomes(h, [handlers[h] EXCEPT !.pc = "deposited",
                                                !.txs = Append(@, x)])
          PROVE  Grown(chain, chain') /\ KnowsPaid(chain', handlers'[h]) /\ Others
        <3> DEFINE s == [handlers[h] EXCEPT !.pc = "deposited",
                                            !.txs = Append(@, x)]
        <3>1. Grown(chain, chain') /\ MovesIn(chain', x, unit)
            BY <1>0, <2>3, BroadcastGrows
        <3>2. /\ s.pc = "deposited" /\ s.trade = t
              /\ s.todo = handlers[h].todo
              /\ s.txs[Len(s.txs)] = x
            BY <1>0 DEF HandlerStates
        <3>3. handlers'[h] = s /\ Others
            BY <1>0, <2>3, MovesOn
        <3>4. KnowsPaid(chain', handlers[h]) /\ handlers[h].pc = "deposit"
            BY <1>0, <1>10, <3>1, KnowledgeStays DEF DepositNote
        <3>5. unit = {<<s.trade, CHOOSE n \in s.todo : TRUE>>}
            BY <3>2 DEF NextNote
        <3> HIDE DEF s, unit
        <3>6. KnowsPaid(chain', s)
            BY <2>2, <3>1, <3>2, <3>4, <3>5 DEF KnowsPaid, Crediting
        <3>7. QED
            BY <3>1, <3>3, <3>6
    <2>4. QED
        BY <1>10, <2>1, <2>2, <2>3 DEF DepositNote
<1>11. CASE AwaitDeposit(h)
    <2>1. Grown(chain, chain') /\ chain' = chain
        BY <1>11, StillChain DEF AwaitDeposit
    <2>2. CASE CreditFails(h)
        BY <1>0, <2>1, <2>2, CreditFailsSent
    <2>3. CASE LastConfirmed(h) /\ NoteCredited(h, handlers[h].txs, "sent")
        <3> DEFINE x == handlers[h].txs[Len(handlers[h].txs)]
        <3>1. x \in TxId /\ MovesIn(chain, x, {<<t, NextNote(h)>>})
            BY <1>0, <1>11 DEF AwaitDeposit, KnowsPaid, NextNote
        <3>2. chain[x].state = "confirmed"
            BY <2>3 DEF LastConfirmed
        <3>3. PaidIn(chain', t, NextNote(h))
            BY <2>1, <3>1, <3>2 DEF PaidIn, MovesIn
        <3>4. QED
            BY <1>11, <2>1, <2>3, <3>3, NoteCreditedSent DEF AwaitDeposit, Crediting
    <2>4. QED
        BY <1>11, <2>2, <2>3 DEF AwaitDeposit
<1>12. QED
    BY <1>3, <1>4, <1>5, <1>6, <1>7, <1>8, <1>9, <1>10, <1>11

\* The result of a payout is recorded on the trade that was paid.
LEMMA RecordingSent ==
    ASSUME TypeInv, SentInv, NEW h \in Handlers,
           CompleteDirectTradePayout(h) \/ CompletePrivateClaimPayout(h)
    PROVE  SentInv'
<1>1. TypeOK /\ trades \in [Trades -> TradeStates] /\ KnowsPaid(chain, handlers[h])
    BY DEF TypeInv, TypeOK, SentInv
<1>2. handlers[h].pc = "record" /\ Return(h) /\ chain' = chain
    BY DEF CompleteDirectTradePayout, CompletePrivateClaimPayout
<1>3. ASSUME NEW t \in Trades, trades'[t].payoutStatus = "sent"
      PROVE  \/ trades[t].payoutStatus = "sent"
             \/ t = handlers[h].trade /\ handlers[h].status = "sent"
    <2>1. CASE CompleteDirectTradePayout(h)
        BY <1>1, <1>3, <2>1 DEF CompleteDirectTradePayout, TradeStates
    <2>2. CASE CompletePrivateClaimPayout(h)
        BY <1>1, <1>3, <2>2 DEF CompletePrivateClaimPayout, TradeStates
    <2>3. QED
        BY <2>1, <2>2
<1>4. \A t \in Trades : trades'[t].payoutStatus = "sent"
          => \/ trades[t].payoutStatus = "sent"
             \/ \A n \in Notes : PaidIn(chain', t, n)
    BY <1>1, <1>2, <1>3 DEF KnowsPaid
<1>5. QED
    BY <1>1, <1>2, <1>4, StillChain, AtRest, SentStep

\* A reservation knows nothing yet and unmakes no payment.
LEMMA RequestSent ==
    ASSUME TypeInv, SentInv, NEW h \in Handlers, UserRequest(h)
    PROVE  SentInv'
<1>0. TypeOK /\ trades \in [Trades -> TradeStates]
    BY DEF TypeInv, TypeOK
<1>1. UNCHANGED chain
    BY DEF UserRequest, ReserveDirectTradePayout, RetryPrivateClaim, FindNullifier
<1>2. /\ handlers'[h].pc \in {"reserve", "register", "pay"}
      /\ \A g \in Handlers : g # h => handlers'[g] = handlers[g]
    <2>1. ASSUME NEW t \in Trades, ReserveDirectTradePayout(h, t)
          PROVE  /\ handlers'[h].pc \in {"reserve", "register", "pay"}
                 /\ \A g \in Handlers : g # h => handlers'[g] = handlers[g]
        BY <1>0, <2>1 DEF ReserveDirectTradePayout, TypeOK, Becomes, Idle
    <2>2. ASSUME NEW t \in Trades, NEW n \in Nullifiers, RetryPrivateClaim(h, t, n)
          PROVE  /\ handlers'[h].pc = "register"
                 /\ \A g \in Handlers : g # h => handlers'[g] = handlers[g]
        BY <1>0, <2>2 DEF RetryPrivateClaim, TypeOK, Becomes, Idle
    <2>3. ASSUME NEW t \in Trades, NEW n \in Nullifiers, FindNullifier(h, t, n)
          PROVE  /\ handlers'[h].pc = "reserve"
                 /\ \A g \in Handlers : g # h => handlers'[g] = handlers[g]
        BY <1>0, <2>3 DEF FindNullifier, TypeOK, Becomes, Idle
    <2>4. QED
        BY <2>1, <2>2, <2>3 DEF UserRequest
<1>3. KnowsPaid(chain', handlers'[h])
    BY <1>2 DEF KnowsPaid, Crediting
<1>4. ASSUME NEW t \in Trades, trades'[t].payoutStatus = "sent"
      PROVE  trades[t].payoutStatus = "sent"
    BY <1>0, <1>4 DEF UserRequest, ReserveDirectTradePayout, RetryPrivateClaim,
                      FindNullifier, TradeStates
<1>5. QED
    BY <1>1, <1>2, <1>3, <1>4, StillChain, SentStep

\* So does the transaction that creates a private claim.
LEMMA CommitSent ==
    ASSUME TypeInv, SentInv, NEW h \in Handlers, ReservePrivateClaim(h)
    PROVE  SentInv'
<1>0. /\ TypeOK /\ trades \in [Trades -> TradeStates]
      /\ chain' = chain /\ KnowsPaid(chain, handlers[h])
    BY DEF TypeInv, TypeOK, ReservePrivateClaim, SentInv
<1>1. /\ KnowsPaid(chain', handlers'[h])
      /\ \A g \in Handlers : g # h => handlers'[g] = handlers[g]
    <2>1. CASE Goto(h, "register")
        BY <1>0, <2>1, GotoSent
    <2>2. CASE Return(h)
        BY <1>0, <2>2, AtRest
    <2>3. QED
        BY <2>1, <2>2 DEF ReservePrivateClaim
<1>2. ASSUME NEW t \in Trades, trades'[t].payoutStatus = "sent"
      PROVE  trades[t].payoutStatus = "sent"
    BY <1>0, <1>2 DEF ReservePrivateClaim, TradeStates
<1>3. QED
    BY <1>0, <1>1, <1>2, StillChain, SentStep

\* The chain decides, the process restarts, a write is refused.
LEMMA EnvironmentSent ==
    ASSUME TypeInv, SentInv, Mining \/ Fault
    PROVE  SentInv'
<1>1. ASSUME NEW x \in TxId, Mined(x) PROVE SentInv'
    <2>1. Grown(chain, chain') /\ UNCHANGED <<trades, handlers>>
        BY <1>1, MinedGrows DEF Mined, TypeInv
    <2>2. QED
        BY <2>1, PaidStays, KnowledgeStays DEF SentInv
<1>2. CASE Restart
    <2>1. /\ UNCHANGED <<trades, chain>>
          /\ \A h \in Handlers : handlers'[h] = Idle
        BY <1>2 DEF Restart
    <2>2. KnowsPaid(chain', Idle)
        BY DEF KnowsPaid, Idle, Crediting
    <2>3. QED
        BY <2>1, <2>2 DEF SentInv
<1>3. ASSUME NEW h \in Handlers, RecordFails(h) PROVE SentInv'
    BY <1>3, StillChain, AtRest, SentStep DEF RecordFails, TypeInv
<1>4. QED
    BY <1>1, <1>2, <1>3 DEF Mining, Fault

LEMMA NextSent ==
    ASSUME CreditsAwaited
    PROVE  TypeInv /\ ReservationInv /\ SentInv /\ [UserNext]_vars => SentInv'
<1> SUFFICES ASSUME TypeInv, ReservationInv, SentInv, [UserNext]_vars
             PROVE  SentInv'
    OBVIOUS
<1>1. CASE UNCHANGED vars
    BY <1>1 DEF vars, SentInv
<1>2. ASSUME NEW h \in Handlers, UserStep(h) PROVE SentInv'
    BY <1>2, PayingSent, RecordingSent, CommitSent DEF UserStep, ReservationInv
<1>3. QED
    BY <1>1, <1>2, RequestSent, EnvironmentSent DEF UserNext

\* While only users claim, and credits wait for their deposits (what production
\* requires of a deployment with shielded payouts, config.go), a trade shown as
\* "sent" has every unit of its payout in a confirmed transaction: paid directly
\* or note by note, with gateway errors of either kind, and wherever the process
\* stops.  A credit that does not wait records what the gateway answered to its
\* last deposit, and the earlier ones may then be undecided or have failed.
THEOREM SentPaid ==
    ASSUME CreditsAwaited
    PROVE  UserSpec => []SentMeansPaid
<1> DEFINE Inv == TypeInv /\ ReservationInv /\ SentInv
<1>1. Init => Inv
    BY InitTyped, InitReservation, InitSent
<1>2. Inv /\ [UserNext]_vars => Inv'
    BY NextTyped, NextReservation, NextSent, UserNextIsNext
<1>3. Inv => SentMeansPaid
    BY SentIsPaid
<1>4. QED
    BY <1>1, <1>2, <1>3, PTL DEF UserSpec

----------------------------------------------------------------------------
(* The payouts keep their promise *)

\* Every transfer moves the payout of one trade, and all of it.
WholePayouts ==
    \A x \in TxId : chain[x].state # "unused" =>
        \E t \in Trades : chain[x].pays = UnitsOf({t})

\* The promise is kept because a trade that is claimed is unpaid (PaymentInv) and
\* due (WinnersInv), what is recorded as sent was seen confirmed (SentInv), and
\* the chain decides on whole payouts.
PromiseInv == AllInv /\ SentInv /\ WinnersInv /\ WholePayouts

Kept == [Promise!PromiseNext]_(Promise!promiseVars)

\* The payout of one trade holds all its units and none of another.
LEMMA SameUnits ==
    /\ \E n : n \in Notes
    /\ \A s \in Trades, t \in Trades, n \in Notes :
          <<t, n>> \in UnitsOf({s}) <=> s = t
BY PayoutsAssumption DEF UnitsOf

LEMMA Disjoint ==
    ASSUME NEW a, NEW b, a \cap b = {}, NEW u
    PROVE  ~(u \in a /\ u \in b)
OBVIOUS

LEMMA UnitShared ==
    ASSUME NEW units, NEW t \in Trades, NEW n \in Notes, <<t, n>> \in units
    PROVE  units \cap UnitsOf({t}) # {}
<1>1. <<t, n>> \in UnitsOf({t})
    BY SameUnits
<1> QED
    BY <1>1

LEMMA InitWhole == Init => WholePayouts
<1> SUFFICES ASSUME Init, NEW x \in TxId, chain[x].state # "unused"
             PROVE  \E t \in Trades : chain[x].pays = UnitsOf({t})
    BY DEF WholePayouts
<1>1. CASE \E t \in CashedOut : CashoutTx[t] = x
    <2> DEFINE t == CHOOSE s \in CashedOut : CashoutTx[s] = x
    <2>1. t \in Trades
        BY <1>1 DEF CashedOut
    <2>2. chain[x].pays = UnitsOf({t})
        BY <1>1 DEF Init
    <2> HIDE DEF t
    <2> QED
        BY <2>1, <2>2
<1>2. CASE ~\E t \in CashedOut : CashoutTx[t] = x
    BY <1>2 DEF Init, Unused
<1> QED
    BY <1>1, <1>2

\* In the initial states a cashed out trade is under way, paid or neither.
LEMMA InitPromise == Init => Promise!PromiseInit
<1> SUFFICES ASSUME Init PROVE Promise!PromiseInit
    OBVIOUS
<1>1. AllInv /\ SentInv /\ WinnersInv /\ WholePayouts
    BY InitTyped, InitReservation, InitPayment, InitSent, InitWinners, InitWhole
    DEF AllInv
<1>2. ASSUME NEW t \in Trades, PaidBy(t, "pending") \/ PaidBy(t, "confirmed")
      PROVE  t \in PayableTrades
    <2>1. PICK x \in TxId, n \in Notes : <<t, n>> \in chain[x].pays
        BY <1>2 DEF PaidBy
    <2>2. UnitsOf({t}) \cap chain[x].pays # {}
        BY <2>1, UnitShared
    <2> QED
        BY <1>1, <2>2 DEF PayableTrades, WinnersInv, ChainPaysNoLoser, PaysNoLoser
<1>3. ASSUME NEW t \in Trades, PaidBy(t, "pending"), PaidBy(t, "confirmed")
      PROVE  FALSE
    <2>1. PICK x \in TxId, m \in Notes :
              chain[x].state = "pending" /\ <<t, m>> \in chain[x].pays
        BY <1>3 DEF PaidBy
    <2>2. PICK y \in TxId, n \in Notes :
              chain[y].state = "confirmed" /\ <<t, n>> \in chain[y].pays
        BY <1>3 DEF PaidBy
    <2>3. <<t, m>> \in chain[y].pays
        <3>1. PICK s \in Trades : chain[y].pays = UnitsOf({s})
            BY <1>1, <2>2 DEF WholePayouts
        <3> QED
            BY <2>1, <2>2, <3>1, SameUnits
    <2>4. x # y /\ Live(x) /\ Live(y)
        BY <2>1, <2>2 DEF Live
    <2> QED
        BY <1>1, <2>1, <2>3, <2>4, Disjoint DEF AllInv, PaymentInv, PaidAtMostOnce
<1>4. ASSUME NEW t \in Trades, trades[t].payoutStatus = "sent"
      PROVE  PaidBy(t, "confirmed")
    BY <1>1, <1>4, PayoutsAssumption DEF SentInv, PaidIn, PaidBy, UnitsOf
<1> QED
    BY <1>2, <1>3, <1>4 DEF Promise!PromiseInit

\* Nothing is broadcast or decided, and what is shown stays.
LEMMA PromiseQuiet ==
    ASSUME UNCHANGED chain,
           \A t \in Trades : trades'[t].payoutStatus = "sent"
                                <=> trades[t].payoutStatus = "sent"
    PROVE  Kept
<1>1. \A t \in Trades : /\ PaidBy(t, "pending")' <=> PaidBy(t, "pending")
                        /\ PaidBy(t, "confirmed")' <=> PaidBy(t, "confirmed")
    BY DEF PaidBy
<1> QED
    BY <1>1 DEF Kept, Promise!promiseVars

\* While the deployment pays directly, a request broadcasts its transfer only.
LEMMA OnlyTransfers ==
    ASSUME AllInv, CleanDirect, NEW h \in Handlers, UserStep(h)
    PROVE  UNCHANGED chain \/ TransferAccepted(h)
<1>0. handlers[h].kind \in ClaimKinds
    BY DEF AllInv, ReservationInv
<1>1. CASE BeginCredit(h) \/ RegisterPrivateClaim(h) \/ WaitForTransactionStatus(h)
           \/ CompleteDirectTradePayout(h) \/ CompletePrivateClaimPayout(h)
           \/ ReservePrivateClaim(h)
    BY <1>1 DEF BeginCredit, RegisterPrivateClaim, WaitForTransactionStatus,
                CompleteDirectTradePayout, CompletePrivateClaimPayout,
                ReservePrivateClaim
<1>2. CASE TransferRefused(h)
    BY <1>2 DEF TransferRefused, CallFails, CleanDirect
<1>3. CASE ApproveNote(h) \/ AwaitApproval(h) \/ DepositNote(h) \/ AwaitDeposit(h)
    <2>1. /\ handlers[h].pc \in Crediting \ {"idle", "reserve"}
          /\ handlers[h].trade \in Trades
        BY <1>3 DEF ApproveNote, AwaitApproval, DepositNote, AwaitDeposit, Crediting,
                    AllInv, TypeInv, HandlerOK
    <2> QED
        BY <2>1, ServedTrade DEF ClaimKnows, Crediting
<1> QED
    BY <1>1, <1>2, <1>3 DEF UserStep

\* A transfer is accepted: the trade is due, and nothing pays it or has paid it.
LEMMA TransferKeeps ==
    ASSUME PromiseInv, NEW h \in Handlers, TransferAccepted(h)
    PROVE  Kept /\ WholePayouts'
<1>1. PICK t \in Trades : handlers[h].trade = t /\ handlers[h].pc = "pay"
    BY DEF TransferAccepted, PromiseInv, AllInv, TypeInv, HandlerOK
<1>2. PICK x \in TxId : Broadcast(x, UnitsOf({t}))
    BY <1>1 DEF TransferAccepted
<1>3. /\ chain[x].state = "unused"
      /\ chain'[x] = [pays |-> UnitsOf({t}), state |-> "pending"]
      /\ \A y \in TxId : y # x => chain'[y] = chain[y]
    BY <1>2 DEF Broadcast, BroadcastAs, PromiseInv, AllInv, TypeInv, TypeOK
<1>4. Unpaid(t)
    BY <1>1, ServedTrade DEF PromiseInv, ClaimKnows
<1>5. ~PaidBy(t, "pending") /\ ~PaidBy(t, "confirmed")
    <2>1. ASSUME NEW y \in TxId, NEW n \in Notes, <<t, n>> \in chain[y].pays
          PROVE  ~Live(y)
        BY <1>4, <2>1, UnitShared DEF Unpaid, Pays
    <2> QED
        BY <2>1 DEF PaidBy, Live
<1>6. t \in PayableTrades
    BY <1>1 DEF PromiseInv, WinnersInv, ServesWinners, PayableTrades
<1>7. ASSUME NEW s \in Trades
      PROVE  /\ PaidBy(s, "pending")' <=> PaidBy(s, "pending") \/ s = t
             /\ PaidBy(s, "confirmed")' <=> PaidBy(s, "confirmed")
    <2>1. /\ chain'[x].pays = UnitsOf({t})
          /\ chain'[x].state = "pending"
        BY <1>3
    <2>2. \E n \in Notes : <<s, n>> \in chain'[x].pays <=> s = t
        BY <2>1, SameUnits
    <2>3. \A n \in Notes : <<s, n>> \in chain'[x].pays <=> s = t
        BY <2>1, SameUnits
    <2> QED
        BY <1>3, <2>1, <2>2, <2>3 DEF PaidBy
<1>8. UNCHANGED trades
    BY DEF TransferAccepted
<1>9. Promise!Move(t)
    BY <1>5, <1>6, <1>7, <1>8 DEF Promise!Move
<1>10. WholePayouts'
    <2>1. chain'[x].pays = UnitsOf({t})
        BY <1>3
    <2> QED
        BY <1>3, <2>1 DEF PromiseInv, WholePayouts
<1> QED
    BY <1>9, <1>10 DEF Kept, Promise!PromiseNext

\* The chain decides on a transfer: the only one under way for its trade.
LEMMA MinedKeeps ==
    ASSUME PromiseInv, NEW z \in TxId, Mined(z)
    PROVE  Kept /\ WholePayouts'
<1>1. PICK result \in {"confirmed", "failed"} :
          /\ chain[z].state = "pending"
          /\ chain'[z].state = result
          /\ \A x \in TxId : chain'[x].pays = chain[x].pays
          /\ \A x \in TxId : x # z => chain'[x].state = chain[x].state
    BY DEF Mined, PromiseInv, AllInv, TypeInv, TypeOK, TxStates
<1>2. PICK t \in Trades : chain[z].pays = UnitsOf({t})
    BY <1>1 DEF PromiseInv, WholePayouts
<1>3. ASSUME NEW y \in TxId, y # z, Live(y)
      PROVE  \A n \in Notes : <<t, n>> \notin chain[y].pays
    <2>1. Live(z)
        BY <1>1 DEF Live
    <2>2. chain[z].pays \cap chain[y].pays = {}
        BY <1>3, <2>1 DEF PromiseInv, AllInv, PaymentInv, PaidAtMostOnce
    <2>3. \A n \in Notes : <<t, n>> \in chain[z].pays
        BY <1>2, SameUnits
    <2> QED
        BY <2>2, <2>3, Disjoint
<1>4. ASSUME NEW s \in Trades
      PROVE  /\ PaidBy(s, "pending")' <=> PaidBy(s, "pending") /\ s # t
             /\ PaidBy(s, "confirmed")'
                    <=> PaidBy(s, "confirmed") \/ (s = t /\ result = "confirmed")
    <2>0. \A n \in Notes : <<s, n>> \in chain[z].pays <=> s = t
        BY <1>2, SameUnits
    <2>1. CASE s = t
        <3>1. \A y \in TxId, n \in Notes :
                 Live(y) /\ <<s, n>> \in chain[y].pays => y = z
            BY <1>3, <2>1
        <3>2. \E n \in Notes : <<s, n>> \in chain[z].pays
            BY <2>0, <2>1, SameUnits
        <3> QED
            BY <1>1, <2>1, <3>1, <3>2 DEF PaidBy, Live
    <2>2. CASE s # t
        BY <1>1, <2>0, <2>2 DEF PaidBy
    <2> QED
        BY <2>1, <2>2
<1>5. PaidBy(t, "pending")
    BY <1>1, <1>2, SameUnits DEF PaidBy
<1>6. UNCHANGED trades
    BY DEF Mined
<1>7. result = "confirmed" => Promise!Land(t)
    BY <1>4, <1>5, <1>6 DEF Promise!Land
<1>8. result = "failed" => Promise!Fail(t)
    BY <1>4, <1>5, <1>6 DEF Promise!Fail
<1>9. WholePayouts'
    BY <1>1 DEF PromiseInv, WholePayouts
<1> QED
    BY <1>7, <1>8, <1>9 DEF Kept, Promise!PromiseNext

\* A result is recorded: the trade was still claimed, and paid if it says so.
LEMMA RecordKeeps ==
    ASSUME PromiseInv, NEW h \in Handlers,
           CompleteDirectTradePayout(h) \/ CompletePrivateClaimPayout(h)
    PROVE  Kept
<1> DEFINE t == handlers[h].trade
<1>0. trades \in [Trades -> TradeStates] /\ UNCHANGED chain
    BY DEF PromiseInv, AllInv, TypeInv, TypeOK, CompleteDirectTradePayout,
           CompletePrivateClaimPayout
<1>1. \A s \in Trades : s # t => trades'[s] = trades[s]
    BY <1>0 DEF CompleteDirectTradePayout, CompletePrivateClaimPayout
<1>2. CASE t \notin Trades
    BY <1>0, <1>1, <1>2, PromiseQuiet
<1>3. CASE t \in Trades
    <2>1. trades[t].payoutStatus = "claim_pending" /\ handlers[h].pc = "record"
        BY <1>3, ServedTrade DEF PromiseInv, AllInv, ReservationInv, ReservationStands,
           CompleteDirectTradePayout, CompletePrivateClaimPayout
    <2>2. trades'[t].payoutStatus = "sent" => handlers[h].status = "sent"
        <3>1. CASE CompleteDirectTradePayout(h)
            <4>1. trades' = [trades EXCEPT ![t] = [@ EXCEPT
                        !.payoutStatus = handlers[h].status, !.txs = handlers[h].txs]]
                BY <2>1, <3>1 DEF CompleteDirectTradePayout
            <4> QED  BY <1>0, <1>3, <4>1 DEF TradeStates
        <3>2. CASE CompletePrivateClaimPayout(h)
            <4>1. ASSUME NEW s, trades' = [trades EXCEPT ![t] = s]
                  PROVE  trades'[t] = s
                BY <1>0, <1>3, <4>1
            <4> QED  BY <1>0, <1>3, <2>1, <3>2, <4>1 DEF CompletePrivateClaimPayout, TradeStates
        <3> QED  BY <3>1, <3>2
    <2>3. CASE trades'[t].payoutStatus # "sent"
        BY <1>0, <1>1, <2>1, <2>3, PromiseQuiet
    <2>4. CASE trades'[t].payoutStatus = "sent"
        <3>1. \A n \in Notes : PaidIn(chain, t, n)
            BY <2>1, <2>2, <2>4 DEF PromiseInv, SentInv, KnowsPaid
        <3>2. PaidBy(t, "confirmed")
            BY <3>1, PayoutsAssumption DEF PaidIn, PaidBy, UnitsOf
        <3>3. \A s \in Trades : /\ PaidBy(s, "pending")' <=> PaidBy(s, "pending")
                                /\ PaidBy(s, "confirmed")' <=> PaidBy(s, "confirmed")
            BY <1>0 DEF PaidBy
        <3>4. PICK own \in Trades : own = t
            BY <1>3
        <3> HIDE DEF t
        <3>5. Promise!Show(own)
            BY <1>1, <2>1, <2>4, <3>2, <3>3, <3>4 DEF Promise!Show
        <3> QED
            BY <3>5 DEF Kept, Promise!PromiseNext
    <2> QED
        BY <2>3, <2>4
<1> QED
    BY <1>2, <1>3

LEMMA UserStepKeeps ==
    ASSUME PromiseInv, CleanDirect, NEW h \in Handlers, UserStep(h)
    PROVE  Kept /\ WholePayouts'
<1>1. CASE TransferAccepted(h)
    BY <1>1, TransferKeeps
<1>2. CASE ~TransferAccepted(h)
    <2>1. UNCHANGED chain
        BY <1>2, OnlyTransfers DEF PromiseInv
    <2>2. WholePayouts'
        BY <2>1 DEF PromiseInv, WholePayouts
    <2>3. CASE CompleteDirectTradePayout(h) \/ CompletePrivateClaimPayout(h)
        BY <2>2, <2>3, RecordKeeps
    <2>4. CASE ReservePrivateClaim(h)
        <3>1. /\ trades \in [Trades -> TradeStates]
              /\ handlers[h].trade \in Trades
            BY <2>4 DEF PromiseInv, AllInv, TypeInv, TypeOK, HandlerOK,
                        ReservePrivateClaim
        <3>2. \A s \in Trades : trades'[s].payoutStatus = "sent"
                                   <=> trades[s].payoutStatus = "sent"
            BY <2>4, <3>1 DEF ReservePrivateClaim, Claimable, TradeStates
        <3> QED
            BY <2>1, <2>2, <3>2, PromiseQuiet
    <2>5. CASE ~(\/ CompleteDirectTradePayout(h) \/ CompletePrivateClaimPayout(h)
                 \/ ReservePrivateClaim(h))
        <3>1. UNCHANGED trades
            BY <1>2, <2>5
            DEF UserStep, RegisterPrivateClaim, TransferRefused,
                WaitForTransactionStatus, BeginCredit, ApproveNote, AwaitApproval,
                DepositNote, AwaitDeposit
        <3> QED
            BY <2>1, <2>2, <3>1, PromiseQuiet
    <2> QED
        BY <2>3, <2>4, <2>5
<1> QED
    BY <1>1, <1>2

\* Only a trade that is not shown as sent is reserved.
LEMMA RequestKeeps ==
    ASSUME PromiseInv, NEW h \in Handlers, UserRequest(h)
    PROVE  Kept /\ WholePayouts'
<1>0. trades \in [Trades -> TradeStates]
    BY DEF PromiseInv, AllInv, TypeInv, TypeOK
<1>1. ASSUME NEW t \in Trades, ReserveDirectTradePayout(h, t)
      PROVE  /\ UNCHANGED chain
             /\ \A s \in Trades : trades'[s].payoutStatus = "sent"
                                    <=> trades[s].payoutStatus = "sent"
    BY <1>0, <1>1 DEF ReserveDirectTradePayout, TradeStates
<1>2. ASSUME NEW t \in Trades, NEW n \in Nullifiers,
             RetryPrivateClaim(h, t, n) \/ FindNullifier(h, t, n)
      PROVE  /\ UNCHANGED chain
             /\ \A s \in Trades : trades'[s].payoutStatus = "sent"
                                    <=> trades[s].payoutStatus = "sent"
    BY <1>0, <1>2 DEF RetryPrivateClaim, FindNullifier, Retryable, TradeStates
<1>3. /\ UNCHANGED chain
      /\ \A s \in Trades : trades'[s].payoutStatus = "sent"
                             <=> trades[s].payoutStatus = "sent"
    BY <1>1, <1>2 DEF UserRequest
<1> QED
    BY <1>3, PromiseQuiet DEF PromiseInv, WholePayouts

LEMMA NextKeeps ==
    ASSUME CleanDirect
    PROVE  PromiseInv /\ [UserNext]_vars => Kept /\ WholePayouts'
<1> SUFFICES ASSUME PromiseInv, [UserNext]_vars PROVE Kept /\ WholePayouts'
    OBVIOUS
<1>1. CASE UNCHANGED <<trades, chain>>
    BY <1>1, PromiseQuiet DEF PromiseInv, WholePayouts
<1>2. CASE Fault
    BY <1>1, <1>2 DEF Fault, Restart, RecordFails
<1>3. CASE UNCHANGED vars
    BY <1>1, <1>3 DEF vars
<1> QED
    BY <1>2, <1>3, RequestKeeps, UserStepKeeps, MinedKeeps DEF UserNext, Mining

\* With direct payouts and clean gateway errors the claims of the users implement
\* what the market promises them: a trade that is due is paid once, by one
\* transfer at a time, and what is shown as sent was paid and stays so.
THEOREM PromiseKept ==
    ASSUME CleanDirect
    PROVE  UserSpec => KeepsPromise
<1>1. Init => PromiseInv /\ Promise!PromiseInit
    BY InitTyped, InitReservation, InitPayment, InitSent, InitWinners, InitWhole,
       InitPromise DEF PromiseInv, AllInv
<1>2. PromiseInv /\ [UserNext]_vars
          => PromiseInv' /\ [Promise!PromiseNext]_(Promise!promiseVars)
    <2>1. [UserNext]_vars => [Next]_vars
        BY UserNextIsNext
    <2> QED
        BY <2>1, NextTyped, NextReservation, NextPayment, NextSent, NextWinners,
           NextKeeps DEF PromiseInv, AllInv, Kept, CleanDirect, CreditsAwaited
<1> QED
    BY <1>1, <1>2, PTL DEF UserSpec, KeepsPromise, Promise!PromiseSpec

=============================================================================
