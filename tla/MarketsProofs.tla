--------------------------- MODULE MarketsProofs ---------------------------
(***************************************************************************)
(* The properties of Markets for every number of markets, trades, escrows  *)
(* and requests.  An escrow backs one trade, because collateralMu covers   *)
(* createTrade from its quote to its commit.  The market maker's shares    *)
(* match the open trades, and a recorded cashout closed what its transfer  *)
(* paid for: both are about sums of shares (SumTheorems).  A settled       *)
(* market stays settled, its settlement is complete, and the markets keep  *)
(* the promise of MarketPromise, when one administrator request is served  *)
(* at a time and slugs are not used again.                                 *)
(***************************************************************************)
EXTENDS Markets, SumTheorems, TLAPS

\* The fields of the records, without the types of their values.
IsTrade(r) ==
    r \in [status : {r.status}, poll : {r.poll}, user : {r.user},
           side : {r.side}, shares : {r.shares}, escrow : {r.escrow},
           payment : {r.payment}, outcome : {r.outcome},
           payoutStatus : {r.payoutStatus}]
IsPoll(r) ==
    r \in [status : {r.status}, frozen : {r.frozen}, over : {r.over},
           outcome : {r.outcome}, resolvedAt : {r.resolvedAt},
           settlement : {r.settlement}, shares : {r.shares}]
IsHandler(r) ==
    r \in [pc : {r.pc}, poll : {r.poll}, user : {r.user}, side : {r.side},
           escrow : {r.escrow}, half : {r.half}, shares : {r.shares},
           payment : {r.payment}, status : {r.status},
           outcome : {r.outcome}, payoutStatus : {r.payoutStatus},
           edit : {r.edit}]

TradesShape ==
    /\ trades = [t \in Trades |-> trades[t]]
    /\ \A t \in Trades : IsTrade(trades[t])
HandlersShape ==
    /\ handlers = [h \in Handlers |-> handlers[h]]
    /\ \A h \in Handlers : IsHandler(handlers[h])
PollsShape ==
    /\ polls = [p \in Polls |-> polls[p]]
    /\ \A p \in Polls : IsPoll(polls[p])

LockedSteps ==
    {"sendEscrow", "checkEscrow", "createTrade", "payCashout", "recordCashout"}

\* A request past its quote holds collateralMu.
LockHeld ==
    \A h \in Handlers : handlers[h].pc \in LockedSteps => mutex = h

\* The escrow of a trade about to be created is still unused.
EscrowUnused ==
    \A h \in Handlers : handlers[h].pc = "createTrade" =>
        \A t \in Trades : trades[t].escrow # handlers[h].escrow

EscrowInv ==
    /\ TradesShape
    /\ HandlersShape
    /\ LockHeld
    /\ EscrowUnused
    /\ EscrowBacksOneTrade

----------------------------------------------------------------------------
(* How the helpers move a handler *)

LEMMA BecomesHandler ==
    ASSUME HandlersShape, NEW h \in Handlers, NEW r, IsHandler(r), Becomes(h, r)
    PROVE  /\ HandlersShape'
           /\ handlers'[h] = r
           /\ \A g \in Handlers \ {h} : handlers'[g] = handlers[g]
BY DEF HandlersShape, Becomes, IsHandler

LEMMA ReturnHandler ==
    ASSUME HandlersShape, NEW h \in Handlers, Return(h)
    PROVE  /\ HandlersShape'
           /\ handlers'[h] = Idle
           /\ \A g \in Handlers \ {h} : handlers'[g] = handlers[g]
<1>1. IsHandler(Idle)
  BY DEF IsHandler, Idle
<1>2. Becomes(h, Idle)
  BY DEF Return
<1> QED  BY <1>1, <1>2, BecomesHandler

----------------------------------------------------------------------------
(* An escrow backs one trade *)

LEMMA InitEscrow ==
    ASSUME Init
    PROVE  EscrowInv
<1>1. IsTrade(NoTrade) /\ IsHandler(Idle)
  BY DEF IsTrade, NoTrade, IsHandler, Idle
<1>2. \A t \in Trades : trades[t] = NoTrade
  BY DEF Init
<1>3. \A h \in Handlers : handlers[h] = Idle
  BY DEF Init
<1>4. TradesShape
  BY <1>1, <1>2 DEF Init, TradesShape
<1>5. HandlersShape
  BY <1>1, <1>3 DEF Init, HandlersShape
<1>6. LockHeld /\ EscrowUnused
  BY <1>3 DEF LockHeld, EscrowUnused, LockedSteps, Idle
<1>7. EscrowBacksOneTrade
  BY <1>2 DEF EscrowBacksOneTrade, NoTrade
<1> QED  BY <1>4, <1>5, <1>6, <1>7 DEF EscrowInv

\* Trades keep their escrow or have none.
LEMMA EscrowKept ==
    ASSUME EscrowInv, TradesShape', HandlersShape', LockHeld', EscrowUnused',
           \A t \in Trades : trades'[t].escrow \in {trades[t].escrow, None}
    PROVE  EscrowInv'
BY DEF EscrowInv, EscrowBacksOneTrade

\* The steps of h that leave the trades alone and end, or take a step that
\* needs no lock.
LEMMA UnlockedStep ==
    ASSUME EscrowInv, UNCHANGED trades, NEW h \in Handlers, NEW r,
           IsHandler(r), Becomes(h, r), r.pc \notin LockedSteps,
           UNCHANGED mutex \/ Unlock(h)
    PROVE  EscrowInv'
<1>1. /\ HandlersShape' /\ handlers'[h] = r
      /\ \A g \in Handlers \ {h} : handlers'[g] = handlers[g]
  BY BecomesHandler DEF EscrowInv
<1>2. LockHeld'
  <2> SUFFICES ASSUME NEW g \in Handlers, handlers'[g].pc \in LockedSteps
               PROVE  mutex' = g
    BY DEF LockHeld
  <2>1. g # h /\ handlers[g].pc \in LockedSteps
    BY <1>1
  <2>2. mutex = g
    BY <2>1 DEF EscrowInv, LockHeld
  <2> QED  BY <2>1, <2>2 DEF Unlock
<1>3. EscrowUnused'
  BY <1>1 DEF EscrowInv, EscrowUnused, LockedSteps
<1>4. TradesShape'
  BY DEF EscrowInv, TradesShape
<1> QED  BY <1>1, <1>2, <1>3, <1>4, EscrowKept

\* The steps of h that take collateralMu.
LEMMA LockingStep ==
    ASSUME EscrowInv, UNCHANGED trades, NEW h \in Handlers, NEW r,
           IsHandler(r), Becomes(h, r), r.pc # "createTrade",
           LockFree, mutex' = h, None \notin Handlers
    PROVE  EscrowInv'
<1>1. /\ HandlersShape' /\ handlers'[h] = r
      /\ \A g \in Handlers \ {h} : handlers'[g] = handlers[g]
  BY BecomesHandler DEF EscrowInv
<1>2. LockHeld'
  BY <1>1 DEF EscrowInv, LockHeld, LockFree
<1>3. EscrowUnused'
  BY <1>1 DEF EscrowInv, EscrowUnused
<1>4. TradesShape'
  BY DEF EscrowInv, TradesShape
<1> QED  BY <1>1, <1>2, <1>3, <1>4, EscrowKept

\* h holds collateralMu and ends: nobody else is past its quote.
LEMMA UnlockingStep ==
    ASSUME EscrowInv, NEW h \in Handlers, handlers[h].pc \in LockedSteps,
           Return(h), Unlock(h)
    PROVE  /\ HandlersShape' /\ LockHeld' /\ EscrowUnused'
<1>1. /\ HandlersShape' /\ handlers'[h] = Idle
      /\ \A g \in Handlers \ {h} : handlers'[g] = handlers[g]
  BY ReturnHandler DEF EscrowInv
<1>2. \A g \in Handlers : handlers'[g].pc \notin LockedSteps
  BY <1>1 DEF EscrowInv, LockHeld, Idle, LockedSteps
<1> QED  BY <1>1, <1>2 DEF LockHeld, EscrowUnused, LockedSteps

\* h, past its quote, takes its next step and keeps collateralMu.
LEMMA NextLockedStep ==
    ASSUME EscrowInv, UNCHANGED <<trades, mutex>>, NEW h \in Handlers, NEW r,
           handlers[h].pc \in LockedSteps, IsHandler(r), Becomes(h, r),
           r.pc = "createTrade" =>
               \A t \in Trades : trades[t].escrow # r.escrow
    PROVE  EscrowInv'
<1>1. /\ HandlersShape' /\ handlers'[h] = r
      /\ \A g \in Handlers \ {h} : handlers'[g] = handlers[g]
  BY BecomesHandler DEF EscrowInv
<1>2. LockHeld'
  BY <1>1 DEF EscrowInv, LockHeld
<1>3. EscrowUnused'
  BY <1>1 DEF EscrowInv, EscrowUnused
<1>4. TradesShape'
  BY DEF EscrowInv, TradesShape
<1> QED  BY <1>1, <1>2, <1>3, <1>4, EscrowKept

\* The steps that touch neither trades, handlers nor collateralMu.
LEMMA QuietEscrow ==
    ASSUME EscrowInv, UNCHANGED <<trades, handlers, mutex>>
    PROVE  EscrowInv'
BY DEF EscrowInv, TradesShape, HandlersShape, LockHeld, EscrowUnused,
       EscrowBacksOneTrade

LEMMA UserRequestEscrow ==
    ASSUME EscrowInv, NEW h \in Requests, UserRequest(h)
    PROVE  EscrowInv'
<1> USE DEF Handlers
<1>0. None \notin Handlers
  BY MarketsAssumption
<1>1. CASE \E p \in Polls, e \in Escrows : QuoteEscrow(h, e, p)
  <2> PICK p \in Polls, e \in Escrows : QuoteEscrow(h, e, p)
    BY <1>1
  <2> DEFINE r == [Idle EXCEPT !.pc = "sendEscrow", !.escrow = e]
  <2>1. IsHandler(r) /\ r.pc = "sendEscrow"
    BY DEF IsHandler, Idle
  <2>2. Becomes(h, r) /\ LockFree /\ mutex' = h /\ UNCHANGED trades
    BY DEF QuoteEscrow
  <2> HIDE DEF r
  <2> QED  BY <1>0, <2>1, <2>2, LockingStep
<1>2. CASE \E p \in Polls, e \in Escrows, side \in Sides : QuoteTrade(h, e, p, side)
  <2> PICK p \in Polls, e \in Escrows, side \in Sides : QuoteTrade(h, e, p, side)
    BY <1>2
  <2> DEFINE r == [Idle EXCEPT !.pc = "checkEscrow", !.poll = p, !.side = side,
                               !.user = EscrowFrom[e], !.escrow = e]
  <2>1. IsHandler(r) /\ r.pc = "checkEscrow"
    BY DEF IsHandler, Idle
  <2>2. Becomes(h, r) /\ LockFree /\ mutex' = h /\ UNCHANGED trades
    BY DEF QuoteTrade
  <2> HIDE DEF r
  <2> QED  BY <1>0, <2>1, <2>2, LockingStep
<1>3. CASE \E p \in Polls, u \in Users, side \in Sides, half \in BOOLEAN :
              QuoteCashout(h, p, u, side, half)
  <2> PICK p \in Polls, u \in Users, side \in Sides, half \in BOOLEAN :
              QuoteCashout(h, p, u, side, half)
    BY <1>3
  <2> DEFINE r == [Idle EXCEPT !.pc = "payCashout", !.poll = p, !.user = u,
                               !.side = side, !.half = half,
                               !.shares = Sold(Position(p, u, side), half)]
  <2>1. IsHandler(r) /\ r.pc = "payCashout"
    BY DEF IsHandler, Idle
  <2>2. Becomes(h, r) /\ LockFree /\ mutex' = h /\ UNCHANGED trades
    BY DEF QuoteCashout
  <2> HIDE DEF r
  <2> QED  BY <1>0, <2>1, <2>2, LockingStep
<1> QED  BY <1>1, <1>2, <1>3 DEF UserRequest

LEMMA UserStepEscrow ==
    ASSUME EscrowInv, NEW h \in Requests, UserStep(h)
    PROVE  EscrowInv'
<1> USE DEF Handlers
<1>1. CASE SendEscrow(h)
  <2>1. handlers[h].pc \in LockedSteps /\ Return(h) /\ Unlock(h) /\ UNCHANGED trades
    BY <1>1 DEF SendEscrow, LockedSteps
  <2>2. HandlersShape' /\ LockHeld' /\ EscrowUnused'
    BY <2>1, UnlockingStep
  <2>3. TradesShape'
    BY <2>1 DEF EscrowInv, TradesShape
  <2> QED  BY <2>1, <2>2, <2>3, EscrowKept
<1>2. CASE CheckEscrow(h)
  <2>1. handlers[h].pc \in LockedSteps /\ UNCHANGED trades
    BY <1>2 DEF CheckEscrow, LockedSteps
  <2>2. CASE Return(h) /\ Unlock(h)
    <3>1. HandlersShape' /\ LockHeld' /\ EscrowUnused'
      BY <2>1, <2>2, UnlockingStep
    <3>2. TradesShape'
      BY <2>1 DEF EscrowInv, TradesShape
    <3> QED  BY <2>1, <3>1, <3>2, EscrowKept
  <2>3. CASE /\ \A t \in Trades : trades[t].escrow # handlers[h].escrow
             /\ Becomes(h, [handlers[h] EXCEPT !.pc = "createTrade"])
             /\ UNCHANGED mutex
    <3> DEFINE r == [handlers[h] EXCEPT !.pc = "createTrade"]
    <3>1. IsHandler(handlers[h])
      BY DEF EscrowInv, HandlersShape
    <3>2. IsHandler(r) /\ r.escrow = handlers[h].escrow
      BY <3>1 DEF IsHandler
    <3>3. Becomes(h, r)
      BY <2>3
    <3> HIDE DEF r
    <3> QED  BY <2>1, <2>3, <3>2, <3>3, NextLockedStep
  <2> QED  BY <1>2, <2>2, <2>3 DEF CheckEscrow
<1>3. CASE CreateTrade(h)
  <2>1. handlers[h].pc = "createTrade" /\ Return(h) /\ Unlock(h)
    BY <1>3 DEF CreateTrade
  <2>2. HandlersShape' /\ LockHeld' /\ EscrowUnused'
    BY <2>1, UnlockingStep DEF LockedSteps
  <2>3. CASE UNCHANGED trades
    <3>1. TradesShape'
      BY <2>3 DEF EscrowInv, TradesShape
    <3> QED  BY <2>2, <2>3, <3>1, EscrowKept
  <2>4. CASE trades' = [trades EXCEPT ![NextTrade] =
                  [NoTrade EXCEPT !.status = "open", !.poll = handlers[h].poll,
                                  !.user = handlers[h].user,
                                  !.side = handlers[h].side, !.shares = Whole,
                                  !.escrow = handlers[h].escrow]]
    <3> DEFINE new == [NoTrade EXCEPT !.status = "open", !.poll = handlers[h].poll,
                                      !.user = handlers[h].user,
                                      !.side = handlers[h].side, !.shares = Whole,
                                      !.escrow = handlers[h].escrow]
    <3>1. IsTrade(new) /\ new.escrow = handlers[h].escrow
      BY DEF IsTrade, NoTrade
    <3>2. trades' = [trades EXCEPT ![NextTrade] = new]
      BY <2>4
    <3> HIDE DEF new
    <3>3. \A t \in Trades : trades'[t] = IF t = NextTrade THEN new ELSE trades[t]
      BY <3>2 DEF EscrowInv, TradesShape
    <3>4. TradesShape'
      BY <3>1, <3>2, <3>3 DEF EscrowInv, TradesShape
    <3>5. EscrowBacksOneTrade'
      BY <2>1, <3>1, <3>3 DEF EscrowInv, EscrowBacksOneTrade, EscrowUnused
    <3> QED  BY <2>2, <3>4, <3>5 DEF EscrowInv
  <2> QED  BY <1>3, <2>3, <2>4 DEF CreateTrade
<1>4. CASE PayCashout(h)
  <2>1. handlers[h].pc \in LockedSteps /\ UNCHANGED trades
    BY <1>4 DEF PayCashout, LockedSteps
  <2>2. CASE Return(h) /\ Unlock(h)
    <3>1. HandlersShape' /\ LockHeld' /\ EscrowUnused'
      BY <2>1, <2>2, UnlockingStep
    <3>2. TradesShape'
      BY <2>1 DEF EscrowInv, TradesShape
    <3> QED  BY <2>1, <3>1, <3>2, EscrowKept
  <2>3. CASE /\ Becomes(h, [handlers[h] EXCEPT !.pc = "recordCashout",
                                               !.payment = Len(payments) + 1])
             /\ UNCHANGED mutex
    <3> DEFINE r == [handlers[h] EXCEPT !.pc = "recordCashout",
                                        !.payment = Len(payments) + 1]
    <3>1. IsHandler(handlers[h])
      BY DEF EscrowInv, HandlersShape
    <3>2. IsHandler(r) /\ r.pc # "createTrade"
      BY <3>1 DEF IsHandler
    <3>3. Becomes(h, r)
      BY <2>3
    <3> HIDE DEF r
    <3> QED  BY <2>1, <2>3, <3>2, <3>3, NextLockedStep
  <2> QED  BY <1>4, <2>2, <2>3 DEF PayCashout
<1>5. CASE CashoutPosition(h)
  <2>1. handlers[h].pc \in LockedSteps /\ Return(h) /\ Unlock(h)
    BY <1>5 DEF CashoutPosition, LockedSteps
  <2>2. HandlersShape' /\ LockHeld' /\ EscrowUnused'
    BY <2>1, UnlockingStep
  <2>3. CASE UNCHANGED trades
    <3>1. TradesShape'
      BY <2>3 DEF EscrowInv, TradesShape
    <3> QED  BY <2>2, <2>3, <3>1, EscrowKept
  <2>4. CASE \E position, half, sold : trades' = Recorded(position, half, sold, h)
    <3> PICK position, half, sold : trades' = Recorded(position, half, sold, h)
      BY <2>4
    <3>1. \A t \in Trades : IsTrade(trades[t])
      BY DEF EscrowInv, TradesShape
    <3>2. TradesShape'
      BY <3>1 DEF Recorded, TradesShape, IsTrade, NoTrade
    <3>3. \A t \in Trades : trades'[t].escrow \in {trades[t].escrow, None}
      BY <3>1 DEF Recorded, IsTrade, NoTrade
    <3> QED  BY <2>2, <3>2, <3>3, EscrowKept
  <2> QED  BY <1>5, <2>3, <2>4 DEF CashoutPosition
<1> QED  BY <1>1, <1>2, <1>3, <1>4, <1>5 DEF UserStep

LEMMA AdminRequestEscrow ==
    ASSUME EscrowInv, NEW h \in Admins, AdminRequest(h)
    PROVE  EscrowInv'
<1> USE DEF Handlers
<1>1. CASE \E p \in Managed, d \in Decisions : AdminResolvePoll(h, p, d[1], d[2])
  <2> PICK p \in Managed, d \in Decisions : AdminResolvePoll(h, p, d[1], d[2])
    BY <1>1
  <2> DEFINE r == [Idle EXCEPT
          !.pc = IF d[1] \in {"resolved", "cancelled"} THEN "preview" ELSE "move",
          !.poll = p, !.status = d[1], !.outcome = d[2]]
  <2>1. IsHandler(r) /\ r.pc \notin LockedSteps
    BY DEF IsHandler, Idle, LockedSteps
  <2>2. Becomes(h, r) /\ UNCHANGED <<trades, mutex>>
    BY DEF AdminResolvePoll
  <2> HIDE DEF r
  <2> QED  BY <2>1, <2>2, UnlockedStep
<1>2. CASE \E p \in Managed, edit \in Edits : AdminUpdatePoll(h, p, edit)
  <2> PICK p \in Managed, edit \in Edits : AdminUpdatePoll(h, p, edit)
    BY <1>2
  <2> DEFINE r == [Idle EXCEPT !.pc = "save", !.poll = p, !.edit = edit]
  <2>1. IsHandler(r) /\ r.pc \notin LockedSteps
    BY DEF IsHandler, Idle, LockedSteps
  <2>2. Becomes(h, r) /\ UNCHANGED <<trades, mutex>>
    BY DEF AdminUpdatePoll
  <2> HIDE DEF r
  <2> QED  BY <2>1, <2>2, UnlockedStep
<1>3. CASE \E p \in Managed, edit \in Edits : AdminCreatePoll(h, p, edit)
  BY <1>3, QuietEscrow DEF AdminCreatePoll
<1> QED  BY <1>1, <1>2, <1>3 DEF AdminRequest

\* An administrator's handler ends, whatever it did to the market.
LEMMA AdminReturn ==
    ASSUME EscrowInv, NEW h \in Handlers, Return(h), UNCHANGED mutex,
           TradesShape', \A t \in Trades : trades'[t].escrow = trades[t].escrow
    PROVE  EscrowInv'
<1>1. /\ HandlersShape' /\ handlers'[h] = Idle
      /\ \A g \in Handlers \ {h} : handlers'[g] = handlers[g]
  BY ReturnHandler DEF EscrowInv
<1>2. LockHeld' /\ EscrowUnused'
  BY <1>1 DEF EscrowInv, LockHeld, EscrowUnused, Idle, LockedSteps
<1> QED  BY <1>1, <1>2, EscrowKept

LEMMA AdminStepEscrow ==
    ASSUME EscrowInv, NEW h \in Admins, AdminStep(h)
    PROVE  EscrowInv'
<1> USE DEF Handlers
<1>0. IsHandler(handlers[h])
  BY DEF EscrowInv, HandlersShape
<1>1. CASE PreviewPollSettlement(h)
  <2> PICK s : Becomes(h, [handlers[h] EXCEPT !.pc = "resolve", !.payoutStatus = s])
    BY <1>1 DEF PreviewPollSettlement
  <2> DEFINE r == [handlers[h] EXCEPT !.pc = "resolve", !.payoutStatus = s]
  <2>1. IsHandler(r) /\ r.pc \notin LockedSteps
    BY <1>0 DEF IsHandler, LockedSteps
  <2>2. Becomes(h, r) /\ UNCHANGED <<trades, mutex>>
    BY <1>1 DEF PreviewPollSettlement
  <2> HIDE DEF r
  <2> QED  BY <2>1, <2>2, UnlockedStep
<1>2. CASE UpdatePollResolution(h)
  <2>1. UNCHANGED <<trades, mutex>>
    BY <1>2 DEF UpdatePollResolution
  <2>2. CASE Becomes(h, [handlers[h] EXCEPT !.pc = "settle"])
    <3> DEFINE r == [handlers[h] EXCEPT !.pc = "settle"]
    <3>1. IsHandler(r) /\ r.pc \notin LockedSteps
      BY <1>0 DEF IsHandler, LockedSteps
    <3>2. Becomes(h, r)
      BY <2>2
    <3> HIDE DEF r
    <3> QED  BY <2>1, <3>1, <3>2, UnlockedStep
  <2>3. CASE Return(h)
    <3>1. TradesShape'
      BY <2>1 DEF EscrowInv, TradesShape
    <3> QED  BY <2>1, <2>3, <3>1, AdminReturn
  <2> QED  BY <1>2, <2>2, <2>3 DEF UpdatePollResolution
<1>3. CASE SettlePollTrades(h)
  <2>1. \A t \in Trades : IsTrade(trades[t])
    BY DEF EscrowInv, TradesShape
  <2>2. \A t \in Trades : /\ IsTrade(SettledTrade(t, h))
                          /\ SettledTrade(t, h).escrow = trades[t].escrow
    BY <2>1 DEF SettledTrade, IsTrade
  <2>3. trades' = [t \in Trades |-> IF t \in OpenOn(handlers[h].poll)
                                    THEN SettledTrade(t, h) ELSE trades[t]]
    BY <1>3 DEF SettlePollTrades
  <2>4. TradesShape' /\ \A t \in Trades : trades'[t].escrow = trades[t].escrow
    BY <2>1, <2>2, <2>3 DEF TradesShape
  <2>5. Return(h) /\ UNCHANGED mutex
    BY <1>3 DEF SettlePollTrades
  <2> QED  BY <2>4, <2>5, AdminReturn
<1>4. CASE SavePoll(h)
  <2>1. Return(h) /\ UNCHANGED <<trades, mutex>>
    BY <1>4 DEF SavePoll
  <2>2. TradesShape'
    BY <2>1 DEF EscrowInv, TradesShape
  <2> QED  BY <2>1, <2>2, AdminReturn
<1> QED  BY <1>1, <1>2, <1>3, <1>4 DEF AdminStep

LEMMA FaultEscrow ==
    ASSUME EscrowInv, Fault
    PROVE  EscrowInv'
<1>0. IsHandler(Idle) /\ Idle.pc \notin LockedSteps
  BY DEF IsHandler, Idle, LockedSteps
<1>1. CASE Restart
  <2>1. UNCHANGED trades /\ handlers' = [h \in Handlers |-> Idle]
    BY <1>1 DEF Restart
  <2>2. TradesShape' /\ HandlersShape'
    BY <1>0, <2>1 DEF EscrowInv, TradesShape, HandlersShape
  <2>3. LockHeld' /\ EscrowUnused'
    BY <2>1 DEF LockHeld, EscrowUnused, Idle, LockedSteps
  <2> QED  BY <2>1, <2>2, <2>3, EscrowKept
<1>2. CASE \E h \in Handlers : StoreFails(h)
  <2> PICK h \in Handlers : StoreFails(h)
    BY <1>2
  <2>1. Becomes(h, Idle) /\ Unlock(h) /\ UNCHANGED trades
    BY DEF StoreFails, Return
  <2> QED  BY <1>0, <2>1, UnlockedStep
<1> QED  BY <1>1, <1>2 DEF Fault

LEMMA NextEscrow ==
    ASSUME EscrowInv, [Next]_vars
    PROVE  EscrowInv'
<1>1. CASE \E h \in Requests : UserRequest(h) \/ UserStep(h)
  BY <1>1, UserRequestEscrow, UserStepEscrow
<1>2. CASE \E h \in Admins : AdminRequest(h) \/ AdminStep(h)
  BY <1>2, AdminRequestEscrow, AdminStepEscrow
<1>3. CASE Environment
  BY <1>3, QuietEscrow DEF Environment, Automate, Ends, EscrowMined
<1>4. CASE Fault
  BY <1>4, FaultEscrow
<1>5. CASE UNCHANGED vars
  BY <1>5, QuietEscrow DEF vars
<1> QED  BY <1>1, <1>2, <1>3, <1>4, <1>5 DEF Next

\* One escrow transfer never pays for two trades, on whichever markets.
THEOREM OneTradePerEscrow == Spec => []EscrowBacksOneTrade
<1>1. EscrowInv => EscrowBacksOneTrade
  BY DEF EscrowInv
<1> QED  BY <1>1, InitEscrow, NextEscrow, PTL DEF Spec

----------------------------------------------------------------------------
(* What adminResolvePoll and adminUpdatePoll read is still so when they write *)

Final == {"resolved", "cancelled"}

AdminSteps == {"preview", "resolve", "settle", "move", "save"}

\* What an administrator's request knows about its market until its next write:
\* it is not settled, or the write repeats the status it has.
MarketKnown(h) ==
    LET pc == handlers[h].pc
        p == handlers[h].poll
    IN  pc \in AdminSteps =>
            /\ h \in Admins /\ p \in Polls
            /\ pc # "save" => polls[p].settlement = "none"
            /\ pc \in {"preview", "resolve", "settle"} => handlers[h].status \in Final
            /\ pc = "settle" => polls[p].status = handlers[h].status
            /\ pc = "save" /\ polls[p].settlement # "none"
                  => polls[p].status = handlers[h].edit.status

SettledInv ==
    /\ PollsShape
    /\ HandlersShape
    /\ \A p \in Polls : polls[p].settlement # "none" => polls[p].status \in Final
    /\ \A h \in Handlers : MarketKnown(h)

\* What SettledMarketsStay asks of a step.
StatusStays ==
    \A p \in Polls : polls[p].settlement # "none" => polls'[p].status = polls[p].status

\* The market is left settled or unsettled, and a final status is left alone.
Kept(p) ==
    /\ IsPoll(polls'[p])
    /\ polls'[p].settlement = polls[p].settlement
    /\ polls[p].status \in Final => polls'[p].status = polls[p].status

LEMMA InitSettled ==
    ASSUME Init
    PROVE  SettledInv
<1>1. IsHandler(Idle)
  BY DEF IsHandler, Idle
<1>2. HandlersShape
  BY <1>1 DEF Init, HandlersShape
<1>3. PollsShape /\ \A p \in Polls : polls[p].settlement = "none"
  BY DEF Init, PollsShape, IsPoll
<1>4. \A h \in Handlers : MarketKnown(h)
  BY DEF Init, MarketKnown, Idle, AdminSteps
<1> QED  BY <1>2, <1>3, <1>4 DEF SettledInv

\* Steps that keep the markets, by requests that are at no administrator's step
\* afterwards.
LEMMA KeptStep ==
    ASSUME SettledInv, HandlersShape', polls' = [p \in Polls |-> polls'[p]],
           \A p \in Polls : Kept(p),
           \A h \in Handlers : \/ handlers'[h] = handlers[h]
                               \/ handlers'[h].pc \notin AdminSteps
    PROVE  SettledInv' /\ StatusStays
<1>1. PollsShape'
  BY DEF Kept, PollsShape
<1>2. StatusStays
  BY DEF Kept, SettledInv, StatusStays
<1>3. \A p \in Polls : polls'[p].settlement # "none" => polls'[p].status \in Final
  BY DEF Kept, SettledInv
<1>4. ASSUME NEW h \in Handlers
      PROVE  MarketKnown(h)'
  <2>1. MarketKnown(h)
    BY DEF SettledInv
  <2> QED  BY <1>4, <2>1 DEF MarketKnown, Kept, AdminSteps, SettledInv
<1> QED  BY <1>1, <1>2, <1>3, <1>4 DEF SettledInv

LEMMA PollsUnchanged ==
    ASSUME SettledInv, UNCHANGED polls
    PROVE  polls' = [p \in Polls |-> polls'[p]] /\ \A p \in Polls : Kept(p)
BY DEF SettledInv, PollsShape, Kept

LEMMA AutomationKeeps ==
    ASSUME SettledInv, ApplyMarketAutomation
    PROVE  /\ polls' = [p \in Polls |-> polls'[p]]
           /\ \A p \in Polls : /\ Kept(p) /\ polls'[p] = Automated(p)
                               /\ polls[p].status \in Final => polls'[p] = polls[p]
<1>1. polls' = [p \in Polls |-> Automated(p)]
  BY DEF ApplyMarketAutomation
<1>2. ASSUME NEW p \in Polls
      PROVE  /\ IsPoll(Automated(p))
             /\ Automated(p).settlement = polls[p].settlement
             /\ polls[p].status \in Final => Automated(p) = polls[p]
  <2>1. IsPoll(polls[p])
    BY DEF SettledInv, PollsShape
  <2> QED  BY <2>1 DEF Automated, IsPoll, Final
<1> QED  BY <1>1, <1>2 DEF Kept

LEMMA UserSettled ==
    ASSUME SettledInv, NEW h \in Requests, UserRequest(h) \/ UserStep(h)
    PROVE  SettledInv' /\ StatusStays
<1> USE DEF Handlers
<1>1. \E r : IsHandler(r) /\ r.pc \notin AdminSteps /\ Becomes(h, r)
  <2>1. CASE UserRequest(h)
    <3>1. ASSUME NEW e, NEW p, QuoteEscrow(h, e, p)
          PROVE  \E r : IsHandler(r) /\ r.pc \notin AdminSteps /\ Becomes(h, r)
      BY <3>1 DEF QuoteEscrow, IsHandler, Idle, AdminSteps
    <3>2. ASSUME NEW e, NEW p, NEW side, QuoteTrade(h, e, p, side)
          PROVE  \E r : IsHandler(r) /\ r.pc \notin AdminSteps /\ Becomes(h, r)
      BY <3>2 DEF QuoteTrade, IsHandler, Idle, AdminSteps
    <3>3. ASSUME NEW p, NEW u, NEW side, NEW half, QuoteCashout(h, p, u, side, half)
          PROVE  \E r : IsHandler(r) /\ r.pc \notin AdminSteps /\ Becomes(h, r)
      BY <3>3 DEF QuoteCashout, IsHandler, Idle, AdminSteps
    <3> QED  BY <2>1, <3>1, <3>2, <3>3 DEF UserRequest
  <2>2. IsHandler(handlers[h]) /\ IsHandler(Idle) /\ Idle.pc \notin AdminSteps
    BY DEF SettledInv, HandlersShape, IsHandler, Idle, AdminSteps
  <2>3. CASE Return(h)
    BY <2>2, <2>3 DEF Return
  <2>4. CASE Becomes(h, [handlers[h] EXCEPT !.pc = "createTrade"])
    BY <2>2, <2>4 DEF IsHandler, AdminSteps
  <2>5. CASE Becomes(h, [handlers[h] EXCEPT !.pc = "recordCashout",
                                            !.payment = Len(payments) + 1])
    BY <2>2, <2>5 DEF IsHandler, AdminSteps
  <2>6. CASE UserStep(h)
    BY <2>3, <2>4, <2>5, <2>6
    DEF UserStep, SendEscrow, CheckEscrow, CreateTrade, PayCashout, CashoutPosition
  <2> QED  BY <2>1, <2>6
<1>2. HandlersShape' /\ \A g \in Handlers : \/ handlers'[g] = handlers[g]
                                            \/ handlers'[g].pc \notin AdminSteps
  BY <1>1, BecomesHandler DEF SettledInv
<1>3. polls' = [p \in Polls |-> polls'[p]] /\ \A p \in Polls : Kept(p)
  <2>1. CASE UNCHANGED polls
    BY <2>1, PollsUnchanged
  <2>2. CASE \E q, shares : polls' = [polls EXCEPT ![q].shares = shares]
    <3> PICK q, shares : polls' = [polls EXCEPT ![q].shares = shares]
      BY <2>2
    <3>1. polls' = [p \in Polls |-> polls'[p]]
      BY DEF SettledInv, PollsShape
    <3>2. ASSUME NEW p \in Polls
          PROVE  polls'[p] = polls[p] \/ polls'[p] = [polls[p] EXCEPT !.shares = shares]
      BY DEF SettledInv, PollsShape
    <3>3. \A p \in Polls : IsPoll(polls[p])
      BY DEF SettledInv, PollsShape
    <3> QED  BY <3>1, <3>2, <3>3 DEF IsPoll, Kept
  <2>3. CASE CreateTrade(h)
    BY <2>1, <2>2, <2>3 DEF CreateTrade
  <2> QED  BY <2>1, <2>2, <2>3
           DEF UserRequest, QuoteEscrow, QuoteTrade, QuoteCashout,
               UserStep, SendEscrow, CheckEscrow, PayCashout, CashoutPosition
<1> QED  BY <1>2, <1>3, KeptStep

LEMMA AdminRequestSettled ==
    ASSUME SettledInv, NEW h \in Admins, AdminRequest(h), ~SlugReuse,
           \A g \in Admins : g = h
    PROVE  SettledInv' /\ StatusStays
<1> USE DEF Handlers
<1>1. ASSUME NEW p \in Managed, NEW r, IsHandler(r), Becomes(h, r), r.poll = p,
             ApplyMarketAutomation,
             \/ /\ r.pc \in {"preview", "move"} /\ ~RefusesStatus(Automated(p))
                /\ r.pc = "preview" => r.status \in Final
             \/ /\ r.pc = "save"
                /\ RefusesStatus(Automated(p)) => r.edit.status = Automated(p).status
      PROVE  SettledInv' /\ StatusStays
  <2>1. /\ HandlersShape' /\ handlers'[h] = r
        /\ \A g \in Handlers \ {h} : handlers'[g] = handlers[g]
    BY <1>1, BecomesHandler DEF SettledInv
  <2>2. /\ polls' = [q \in Polls |-> polls'[q]]
        /\ \A q \in Polls : /\ Kept(q) /\ polls'[q] = Automated(q)
                            /\ polls[q].status \in Final => polls'[q] = polls[q]
    BY <1>1, AutomationKeeps
  <2>3. p \in Polls
    BY MarketsAssumption
  <2>4. polls'[p].settlement # "none" => RefusesStatus(Automated(p))
    BY <2>2, <2>3 DEF Kept, SettledInv, RefusesStatus, IsSettled, Final
  <2>5. MarketKnown(h)'
    BY <1>1, <2>1, <2>2, <2>3, <2>4 DEF MarketKnown, AdminSteps
  <2>6. ASSUME NEW g \in Handlers \ {h}
        PROVE  MarketKnown(g)'
    <3>1. MarketKnown(g)
      BY DEF SettledInv
    <3> QED  BY <2>1, <2>2, <3>1 DEF MarketKnown, Kept, AdminSteps, SettledInv
  <2>7. \A q \in Polls : polls'[q].settlement # "none" => polls'[q].status \in Final
    BY <2>2 DEF Kept, SettledInv
  <2>8. PollsShape' /\ StatusStays
    BY <2>2 DEF Kept, PollsShape, SettledInv, StatusStays
  <2> QED  BY <2>1, <2>5, <2>6, <2>7, <2>8 DEF SettledInv
<1>2. ASSUME NEW p \in Managed, NEW d \in Decisions, AdminResolvePoll(h, p, d[1], d[2])
      PROVE  SettledInv' /\ StatusStays
  <2> DEFINE r == [Idle EXCEPT
          !.pc = IF d[1] \in {"resolved", "cancelled"} THEN "preview" ELSE "move",
          !.poll = p, !.status = d[1], !.outcome = d[2]]
  <2>1. /\ IsHandler(r) /\ r.poll = p /\ r.pc \in {"preview", "move"}
        /\ r.pc = "preview" => r.status \in Final
    BY DEF IsHandler, Idle, Final
  <2>2. Becomes(h, r) /\ ApplyMarketAutomation /\ ~RefusesStatus(Automated(p))
    BY <1>2 DEF AdminResolvePoll
  <2> HIDE DEF r
  <2> QED  BY <1>1, <2>1, <2>2
<1>3. ASSUME NEW p \in Managed, NEW edit \in Edits, AdminUpdatePoll(h, p, edit)
      PROVE  SettledInv' /\ StatusStays
  <2> DEFINE r == [Idle EXCEPT !.pc = "save", !.poll = p, !.edit = edit]
  <2>1. IsHandler(r) /\ r.poll = p /\ r.pc = "save" /\ r.edit = edit
    BY DEF IsHandler, Idle
  <2>2. /\ Becomes(h, r) /\ ApplyMarketAutomation
        /\ RefusesStatus(Automated(p)) => edit.status = Automated(p).status
    BY <1>3 DEF AdminUpdatePoll
  <2> HIDE DEF r
  <2> QED  BY <1>1, <2>1, <2>2
<1>4. ASSUME NEW p \in Managed, NEW edit \in Edits, AdminCreatePoll(h, p, edit)
      PROVE  SettledInv' /\ StatusStays
  <2>1. /\ p \in Polls /\ polls[p].settlement = "none" /\ IsPoll(polls[p])
        /\ handlers[h].pc = "idle" /\ UNCHANGED handlers
    BY <1>4, MarketsAssumption DEF AdminCreatePoll, SettledInv, PollsShape
  <2>2. IsPoll(SavedPoll(p, edit)) /\ SavedPoll(p, edit).settlement = "none"
    BY <2>1 DEF SavedPoll, IsPoll
  <2>3. polls' = [polls EXCEPT ![p] = SavedPoll(p, edit)]
    BY <1>4 DEF AdminCreatePoll
  <2>4. /\ PollsShape' /\ StatusStays
        /\ \A q \in Polls : polls'[q].settlement # "none" => polls'[q].status \in Final
    BY <2>1, <2>2, <2>3 DEF PollsShape, StatusStays, SettledInv
  <2>5. ASSUME NEW g \in Handlers
        PROVE  MarketKnown(g)'
    <3>1. MarketKnown(g) /\ handlers'[g] = handlers[g]
      BY <2>1 DEF SettledInv
    <3>2. handlers[g].pc \notin AdminSteps
      BY <2>1, <3>1 DEF MarketKnown, AdminSteps
    <3> QED  BY <3>1, <3>2 DEF MarketKnown
  <2> QED  BY <2>1, <2>4, <2>5 DEF SettledInv, HandlersShape
<1> QED  BY <1>2, <1>3, <1>4 DEF AdminRequest

LEMMA AdminStepSettled ==
    ASSUME SettledInv, NEW h \in Admins, AdminStep(h), \A g \in Admins : g = h
    PROVE  SettledInv' /\ StatusStays
<1> USE DEF Handlers
<1> DEFINE p == handlers[h].poll
<1>1. /\ MarketKnown(h) /\ IsHandler(handlers[h])
      /\ \A q \in Polls : IsPoll(polls[q])
  BY DEF SettledInv, HandlersShape, PollsShape
<1>2. ASSUME NEW g \in Handlers \ {h}, handlers'[g] = handlers[g]
      PROVE  MarketKnown(g)'
  <2>1. MarketKnown(g)
    BY DEF SettledInv
  <2> QED  BY <1>2, <2>1 DEF MarketKnown
<1>3. CASE PreviewPollSettlement(h)
  <2> PICK s : Becomes(h, [handlers[h] EXCEPT !.pc = "resolve", !.payoutStatus = s])
    BY <1>3 DEF PreviewPollSettlement
  <2> DEFINE r == [handlers[h] EXCEPT !.pc = "resolve", !.payoutStatus = s]
  <2>1. /\ IsHandler(r) /\ r.pc = "resolve" /\ r.poll = p
        /\ r.status = handlers[h].status
    BY <1>1 DEF IsHandler
  <2>2. Becomes(h, r) /\ UNCHANGED polls
    BY <1>3 DEF PreviewPollSettlement
  <2> HIDE DEF r
  <2>3. /\ HandlersShape' /\ handlers'[h] = r
        /\ \A g \in Handlers \ {h} : handlers'[g] = handlers[g]
    BY <2>1, <2>2, BecomesHandler DEF SettledInv
  <2>4. MarketKnown(h)'
    BY <1>1, <1>3, <2>1, <2>2, <2>3 DEF MarketKnown, PreviewPollSettlement, AdminSteps
  <2> QED  BY <1>2, <2>2, <2>3, <2>4 DEF SettledInv, PollsShape, StatusStays
<1>4. CASE UpdatePollResolution(h)
  <2>1. p \in Polls /\ polls[p].settlement = "none" /\ handlers[h].pc \in {"resolve", "move"}
    BY <1>1, <1>4 DEF UpdatePollResolution, MarketKnown, AdminSteps
  <2>2. /\ polls' = [q \in Polls |-> polls'[q]]
        /\ \A q \in Polls : q # p => polls'[q] = polls[q]
        /\ IsPoll(polls'[p]) /\ polls'[p].settlement = "none"
        /\ polls'[p].status = handlers[h].status
    BY <1>1, <1>4, <2>1 DEF UpdatePollResolution, SettledInv, PollsShape, IsPoll
  <2>3. /\ PollsShape' /\ StatusStays
        /\ \A q \in Polls : polls'[q].settlement # "none" => polls'[q].status \in Final
    BY <1>1, <2>1, <2>2 DEF PollsShape, StatusStays, SettledInv
  <2>4. CASE Return(h)
    <3>1. /\ HandlersShape' /\ handlers'[h] = Idle
          /\ \A g \in Handlers \ {h} : handlers'[g] = handlers[g]
      BY <2>4, ReturnHandler DEF SettledInv
    <3>2. MarketKnown(h)'
      BY <3>1 DEF MarketKnown, Idle, AdminSteps
    <3> QED  BY <1>2, <2>3, <3>1, <3>2 DEF SettledInv
  <2>5. CASE handlers[h].pc = "resolve" /\ Becomes(h, [handlers[h] EXCEPT !.pc = "settle"])
    <3> DEFINE r == [handlers[h] EXCEPT !.pc = "settle"]
    <3>1. /\ IsHandler(r) /\ r.pc = "settle" /\ r.poll = p
          /\ r.status = handlers[h].status
      BY <1>1 DEF IsHandler
    <3>2. Becomes(h, r)
      BY <2>5
    <3> HIDE DEF r
    <3>3. /\ HandlersShape' /\ handlers'[h] = r
          /\ \A g \in Handlers \ {h} : handlers'[g] = handlers[g]
      BY <3>1, <3>2, BecomesHandler DEF SettledInv
    <3>4. MarketKnown(h)'
      BY <1>1, <2>1, <2>2, <2>5, <3>1, <3>3 DEF MarketKnown, AdminSteps
    <3> QED  BY <1>2, <2>3, <3>3, <3>4 DEF SettledInv
  <2> QED  BY <1>4, <2>4, <2>5 DEF UpdatePollResolution
<1>5. CASE SettlePollTrades(h) \/ SavePoll(h)
  <2>1. Return(h) /\ p \in Polls
    BY <1>1, <1>5 DEF SettlePollTrades, SavePoll, MarketKnown, AdminSteps
  <2>2. /\ HandlersShape' /\ handlers'[h] = Idle
        /\ \A g \in Handlers \ {h} : handlers'[g] = handlers[g]
    BY <2>1, ReturnHandler DEF SettledInv
  <2>3. MarketKnown(h)'
    BY <2>2 DEF MarketKnown, Idle, AdminSteps
  <2>4. /\ polls' = [q \in Polls |-> polls'[q]]
        /\ \A q \in Polls : q # p => polls'[q] = polls[q]
        /\ IsPoll(polls'[p])
    <3>1. CASE SettlePollTrades(h)
      BY <1>1, <2>1, <3>1 DEF SettlePollTrades, SettledInv, PollsShape, IsPoll
    <3>2. CASE SavePoll(h)
      <4>1. IsPoll(SavedPoll(p, handlers[h].edit))
        BY <1>1, <2>1 DEF SavedPoll, IsPoll
      <4>2. polls' = [polls EXCEPT ![p] = SavedPoll(p, handlers[h].edit)]
        BY <3>2 DEF SavePoll
      <4> QED  BY <2>1, <4>1, <4>2 DEF SettledInv, PollsShape
    <3> QED  BY <1>5, <3>1, <3>2
  <2>5. CASE SettlePollTrades(h)
    <3>1. polls'[p].status = polls[p].status /\ polls[p].status \in Final
      BY <1>1, <2>1, <2>5
      DEF SettlePollTrades, MarketKnown, AdminSteps, SettledInv, PollsShape, IsPoll
    <3> QED  BY <1>1, <1>2, <2>2, <2>3, <2>4, <3>1 DEF PollsShape, StatusStays, SettledInv
  <2>6. CASE SavePoll(h)
    <3>1. /\ polls'[p].settlement = polls[p].settlement
          /\ polls[p].settlement # "none" => polls'[p].status = polls[p].status
      BY <1>1, <2>1, <2>6
      DEF SavePoll, SavedPoll, MarketKnown, AdminSteps, SettledInv, PollsShape, IsPoll
    <3> QED  BY <1>1, <1>2, <2>2, <2>3, <2>4, <3>1 DEF PollsShape, StatusStays, SettledInv
  <2> QED  BY <1>5, <2>5, <2>6
<1> QED  BY <1>3, <1>4, <1>5 DEF AdminStep

LEMMA RestSettled ==
    ASSUME SettledInv, Environment \/ Fault
    PROVE  SettledInv' /\ StatusStays
<1>1. CASE Fault
  <2>1. HandlersShape' /\ \A g \in Handlers : \/ handlers'[g] = handlers[g]
                                              \/ handlers'[g].pc \notin AdminSteps
    <3>1. IsHandler(Idle) /\ Idle.pc \notin AdminSteps
      BY DEF IsHandler, Idle, AdminSteps
    <3>2. CASE Restart
      BY <3>1, <3>2 DEF Restart, HandlersShape
    <3>3. CASE \E h \in Handlers : StoreFails(h)
      BY <3>1, <3>3, ReturnHandler DEF StoreFails, SettledInv
    <3> QED  BY <1>1, <3>2, <3>3 DEF Fault
  <2>2. UNCHANGED polls
    BY <1>1 DEF Fault, Restart, StoreFails
  <2> QED  BY <2>1, <2>2, PollsUnchanged, KeptStep
<1>2. CASE Environment
  <2>1. UNCHANGED handlers
    BY <1>2 DEF Environment, Automate, Ends, EscrowMined
  <2>2. HandlersShape'
    BY <2>1 DEF SettledInv, HandlersShape
  <2>3. polls' = [p \in Polls |-> polls'[p]] /\ \A p \in Polls : Kept(p)
    <3>1. CASE Automate
      BY <3>1, AutomationKeeps DEF Automate
    <3>2. CASE \E p \in Polls : Ends(p)
      <4> PICK q \in Polls : Ends(q)
        BY <3>2
      <4>1. /\ polls' = [p \in Polls |-> polls'[p]]
            /\ \A p \in Polls : \/ polls'[p] = polls[p]
                                \/ polls'[p] = [polls[p] EXCEPT !.over = TRUE]
        BY DEF Ends, SettledInv, PollsShape
      <4>2. \A p \in Polls : IsPoll(polls[p])
        BY DEF SettledInv, PollsShape
      <4> QED  BY <4>1, <4>2 DEF IsPoll, Kept
    <3>3. CASE \E e \in Escrows : EscrowMined(e)
      BY <3>3, PollsUnchanged DEF EscrowMined
    <3> QED  BY <1>2, <3>1, <3>2, <3>3 DEF Environment
  <2> QED  BY <2>1, <2>2, <2>3, KeptStep
<1> QED  BY <1>1, <1>2

LEMMA NextSettled ==
    ASSUME SettledInv, [Next]_vars, ~SlugReuse, \A g, h \in Admins : g = h
    PROVE  SettledInv' /\ [StatusStays]_vars
<1>1. CASE \E h \in Requests : UserRequest(h) \/ UserStep(h)
  BY <1>1, UserSettled
<1>2. CASE \E h \in Admins : AdminRequest(h) \/ AdminStep(h)
  BY <1>2, AdminRequestSettled, AdminStepSettled
<1>3. CASE Environment \/ Fault
  BY <1>3, RestSettled
<1>4. CASE UNCHANGED vars
  BY <1>4 DEF vars, SettledInv, PollsShape, HandlersShape, MarketKnown
<1> QED  BY <1>1, <1>2, <1>3, <1>4 DEF Next

----------------------------------------------------------------------------
(* Types *)

\* The shares of every trade.
SharesIn(tr) == [t \in Trades |-> tr[t].shares]

\* SharesOf is a sum in the sense of SumTheorems, before a step and after it.
LEMMA SharesTotal ==
    ASSUME NEW ts, ts \subseteq Trades
    PROVE  /\ SharesOf(ts) = Total(SharesIn(trades), ts)
           /\ SharesOf(ts)' = Total(SharesIn(trades'), ts)
<1> DEFINE SumIn(tr) == MapThenSumSet(LAMBDA t : tr[t].shares, ts)
<1>0. IsFiniteSet(ts)
    BY MarketsAssumption, FS_Subset
<1>1. ASSUME NEW tr
      PROVE  SumIn(tr) = Total(SharesIn(tr), ts)
    <2> DEFINE f == SharesIn(tr)
               h == CHOOSE iter : iter = [s \in SUBSET ts |->
                        IF s = {} THEN 0
                        ELSE tr[CHOOSE x \in s : TRUE].shares
                             + iter[s \ {CHOOSE x \in s : TRUE}]]
    <2>1. SumIn(tr) = h[ts]
        BY DEF MapThenSumSet, MapThenFoldSet
    <2>2. PICK g : IsSum(g, f, ts)
        BY <1>0, SumExists
    <2>3. ASSUME NEW s \in SUBSET ts, s # {}
          PROVE  f[Pick(s)] = tr[Pick(s)].shares
        BY <2>3, PickIn DEF SharesIn
    <2> HIDE DEF f, SumIn
    <2>4. g = [s \in SUBSET ts |->
                  IF s = {} THEN 0
                  ELSE tr[CHOOSE x \in s : TRUE].shares
                       + g[s \ {CHOOSE x \in s : TRUE}]]
        BY <2>2, <2>3 DEF IsSum, Pick
    <2>5. h = [s \in SUBSET ts |->
                  IF s = {} THEN 0
                  ELSE tr[CHOOSE x \in s : TRUE].shares
                       + h[s \ {CHOOSE x \in s : TRUE}]]
        BY <2>4
    <2> HIDE DEF h
    <2>6. IsSum(h, f, ts)
        BY <2>3, <2>5 DEF IsSum, Pick
    <2> QED  BY <1>0, <2>1, <2>6, SumIsTotal DEF f
<1>2. SharesOf(ts) = SumIn(trades) /\ SharesOf(ts)' = SumIn(trades')
    BY DEF SharesOf, MapThenSumSet, MapThenFoldSet
<1> HIDE DEF SumIn
<1> QED  BY <1>1, <1>2

LEMMA SharesNat ==
    ASSUME TypeOK, NEW ts, ts \subseteq Trades
    PROVE  SharesOf(ts) \in Nat
<1>1. IsFiniteSet(ts) /\ \A t \in ts : SharesIn(trades)[t] \in Nat
    BY MarketsAssumption, FS_Subset DEF SharesIn, TypeOK, TradeStates
<1> QED  BY <1>1, SharesTotal, TotalNat

\* What the steps that use a field need of it.
Fits(state) ==
    /\ state.pc \in {"checkEscrow", "createTrade", "payCashout", "recordCashout"}
          => state.poll \in Polls /\ state.user \in Users
    /\ state.pc \in {"checkEscrow", "createTrade"} => state.escrow \in Escrows
    /\ state.pc \in {"preview", "resolve", "settle"} => state.status \in Final

TypeInv == TypeOK /\ \A h \in Handlers : Fits(handlers[h])

LEMMA IdleTyped == Idle \in HandlerStates /\ Fits(Idle)
BY MarketsAssumption
DEF Idle, HandlerStates, Fits, Steps, Sides, Outcomes, Statuses, EditInputs, NoEdit

LEMMA BecomesTyped ==
    ASSUME TypeInv, NEW h \in Handlers, NEW r \in HandlerStates, Fits(r), Becomes(h, r)
    PROVE  /\ handlers' \in [Handlers -> HandlerStates]
           /\ \A g \in Handlers : Fits(handlers'[g])
BY DEF TypeInv, TypeOK, Becomes

LEMMA ReturnTyped ==
    ASSUME TypeInv, NEW h \in Handlers, Return(h)
    PROVE  /\ handlers' \in [Handlers -> HandlerStates]
           /\ \A g \in Handlers : Fits(handlers'[g])
BY IdleTyped, BecomesTyped DEF Return

LEMMA InitTyped ==
    ASSUME Init
    PROVE  TypeInv
<1>1. polls \in [Polls -> PollStates]
    BY MarketsAssumption DEF Init, PollStates, Statuses, Outcomes
<1>2. trades \in [Trades -> TradeStates]
    BY MarketsAssumption
    DEF Init, TradeStates, NoTrade, TradeStatuses, Sides, Outcomes
<1>3. handlers \in [Handlers -> HandlerStates] /\ \A h \in Handlers : Fits(handlers[h])
    BY IdleTyped DEF Init
<1>4. payments \in Seq(PaymentStates) /\ Len(payments) <= MaxPayments
    BY MarketsAssumption DEF Init
<1> QED  BY <1>1, <1>2, <1>3, <1>4 DEF Init, TypeInv, TypeOK

LEMMA UserRequestTyped ==
    ASSUME TypeInv, NEW h \in Requests, UserRequest(h)
    PROVE  TypeInv'
<1> USE DEF Handlers
<1>1. ASSUME NEW r \in HandlerStates, Fits(r), Becomes(h, r), mutex' = h,
             UNCHANGED <<polls, trades, escrows, payments>>
      PROVE  TypeInv'
    BY <1>1, BecomesTyped DEF TypeInv, TypeOK
<1>2. Idle \in HandlerStates
    BY IdleTyped
<1>3. ASSUME NEW p \in Polls, NEW e \in Escrows, QuoteEscrow(h, e, p)
      PROVE  TypeInv'
    <2> DEFINE r == [Idle EXCEPT !.pc = "sendEscrow", !.escrow = e]
    <2>1. r \in HandlerStates /\ Fits(r)
        BY <1>2 DEF Idle, HandlerStates, Fits, Steps
    <2> HIDE DEF r
    <2> QED  BY <1>1, <1>3, <2>1 DEF QuoteEscrow, r
<1>4. ASSUME NEW p \in Polls, NEW e \in Escrows, NEW side \in Sides,
             QuoteTrade(h, e, p, side)
      PROVE  TypeInv'
    <2> DEFINE r == [Idle EXCEPT !.pc = "checkEscrow", !.poll = p, !.side = side,
                                 !.user = EscrowFrom[e], !.escrow = e]
    <2>1. EscrowFrom[e] \in Users
        BY MarketsAssumption
    <2>2. r \in HandlerStates /\ Fits(r)
        BY <1>2, <2>1 DEF Idle, HandlerStates, Fits, Steps
    <2> HIDE DEF r
    <2> QED  BY <1>1, <1>4, <2>2 DEF QuoteTrade, r
<1>5. ASSUME NEW p \in Polls, NEW u \in Users, NEW side \in Sides,
             NEW half \in BOOLEAN, QuoteCashout(h, p, u, side, half)
      PROVE  TypeInv'
    <2> DEFINE n == Sold(Position(p, u, side), half)
               r == [Idle EXCEPT !.pc = "payCashout", !.poll = p, !.user = u,
                              !.side = side, !.half = half, !.shares = n]
    <2>1. n \in Nat
        <3>1. Position(p, u, side) \subseteq Trades
            BY DEF Position, OpenSide, OpenOn
        <3>2. SharesOf(Position(p, u, side)) \in Nat
            BY <3>1, SharesNat DEF TypeInv
        <3> QED  BY <3>2 DEF Sold
    <2> HIDE DEF n
    <2>2. r \in HandlerStates /\ Fits(r)
        BY <1>2, <2>1 DEF Idle, HandlerStates, Fits, Steps
    <2> HIDE DEF r
    <2> QED  BY <1>1, <1>5, <2>2 DEF QuoteCashout, r, n
<1> QED  BY <1>3, <1>4, <1>5 DEF UserRequest

LEMMA PollTyped ==
    ASSUME NEW poll \in PollStates, NEW v \in [Sides -> Nat]
    PROVE  [poll EXCEPT !.shares = v] \in PollStates
BY DEF PollStates

LEMMA SharesTyped ==
    ASSUME TypeInv, NEW p \in Polls, NEW v \in [Sides -> Nat],
           polls' = [polls EXCEPT ![p].shares = v]
    PROVE  polls' \in [Polls -> PollStates]
<1>1. polls \in [Polls -> PollStates]
    BY DEF TypeInv, TypeOK
<1>2. \A q \in Polls : polls'[q] = IF q = p THEN [polls[p] EXCEPT !.shares = v]
                                   ELSE polls[q]
    BY <1>1
<1>3. \A q \in Polls : polls'[q] \in PollStates
    BY <1>1, <1>2, PollTyped
<1> QED  BY <1>1, <1>3

\* The trades that createTrade and a partial cashout make.
LEMMA NewTradeTyped ==
    ASSUME NEW poll \in Polls, NEW user \in Users, NEW side \in Sides,
           NEW shares \in Nat, NEW escrow \in Escrows
    PROVE  [NoTrade EXCEPT !.status = "open", !.poll = poll, !.user = user,
                           !.side = side, !.shares = shares, !.escrow = escrow]
              \in TradeStates
<1>1. 0 \in 0 .. MaxPayments
    BY MarketsAssumption
<1> QED  BY <1>1 DEF NoTrade, TradeStates, TradeStatuses, Outcomes

LEMMA SoldTradeTyped ==
    ASSUME NEW poll \in Polls, NEW user \in Users, NEW side \in Sides,
           NEW shares \in Nat, NEW payment \in 0 .. MaxPayments
    PROVE  [NoTrade EXCEPT !.status = "cashed_out", !.poll = poll, !.user = user,
                           !.side = side, !.shares = shares, !.payment = payment]
              \in TradeStates
BY DEF NoTrade, TradeStates, TradeStatuses, Outcomes

LEMMA TradeTyped ==
    ASSUME NEW trade \in TradeStates, NEW payment \in 0 .. MaxPayments
    PROVE  /\ [trade EXCEPT !.status = "cashed_out", !.payment = payment] \in TradeStates
           /\ [trade EXCEPT !.shares = @ \div 2] \in TradeStates
<1>1. trade.shares \div 2 \in Nat
    BY DEF TradeStates
<1> QED  BY <1>1 DEF TradeStates, TradeStatuses

LEMMA UserStepTyped ==
    ASSUME TypeInv, NEW h \in Requests, UserStep(h)
    PROVE  TypeInv'
<1> USE DEF Handlers
<1> DEFINE own == handlers[h]
<1>0. own \in HandlerStates /\ Fits(own)
    BY DEF TypeInv, TypeOK
<1>1. Unlock(h) => mutex' \in Requests \cup {None}
    BY DEF Unlock, TypeInv, TypeOK
<1>2. CASE SendEscrow(h)
    <2>1. escrows' \in [Escrows -> {"unsent", "pending", "confirmed", "failed"}]
        BY <1>2 DEF SendEscrow, TypeInv, TypeOK
    <2> QED  BY <1>1, <1>2, <2>1, ReturnTyped DEF SendEscrow, TypeInv, TypeOK
<1>3. CASE CheckEscrow(h)
    <2>1. CASE Return(h) /\ Unlock(h)
        BY <1>1, <1>3, <2>1, ReturnTyped DEF CheckEscrow, TypeInv, TypeOK
    <2>2. CASE Becomes(h, [own EXCEPT !.pc = "createTrade"]) /\ UNCHANGED mutex
        <3> DEFINE r == [own EXCEPT !.pc = "createTrade"]
        <3>1. r \in HandlerStates /\ Fits(r)
            BY <1>0, <1>3 DEF CheckEscrow, HandlerStates, Fits, Steps
        <3> HIDE DEF r
        <3>2. Becomes(h, r)
            BY <2>2 DEF r
        <3> QED  BY <1>3, <2>2, <3>1, <3>2, BecomesTyped DEF CheckEscrow, TypeInv, TypeOK
    <2> QED  BY <1>3, <2>1, <2>2 DEF CheckEscrow
<1>4. CASE CreateTrade(h)
    <2> DEFINE p == own.poll
               new == [NoTrade EXCEPT !.status = "open", !.poll = p,
                                      !.user = own.user, !.side = own.side,
                                      !.shares = Whole, !.escrow = own.escrow]
    <2>1. new \in TradeStates
        <3>1. own.side \in Sides /\ p \in Polls /\ own.user \in Users /\ own.escrow \in Escrows
            BY <1>0, <1>4 DEF CreateTrade, HandlerStates, Fits
        <3>2. Whole \in Nat
            BY DEF Whole
        <3> HIDE DEF own
        <3> QED  BY <3>1, <3>2, NewTradeTyped
    <2>2. trades' \in [Trades -> TradeStates]
        <3> HIDE DEF new
        <3>1. trades' = [trades EXCEPT ![NextTrade] = new] \/ UNCHANGED trades
            BY <1>4 DEF CreateTrade, new
        <3> QED  BY <2>1, <3>1 DEF TypeInv, TypeOK
    <2>3. polls' \in [Polls -> PollStates]
        <3> DEFINE v == [polls[p].shares EXCEPT ![own.side] = @ + Whole]
        <3>1. own.side \in Sides /\ p \in Polls
            BY <1>0, <1>4 DEF CreateTrade, HandlerStates, Fits
        <3>2. v \in [Sides -> Nat]
            BY <3>1 DEF TypeInv, TypeOK, PollStates, Whole
        <3>3. polls' = [polls EXCEPT ![p].shares = v] \/ UNCHANGED polls
            BY <1>4 DEF CreateTrade
        <3> HIDE DEF v
        <3> QED  BY <3>1, <3>2, <3>3, SharesTyped DEF TypeInv, TypeOK
    <2> HIDE DEF new
    <2> QED  BY <1>1, <1>4, <2>2, <2>3, ReturnTyped DEF CreateTrade, TypeInv, TypeOK
<1>5. CASE PayCashout(h)
    <2>1. CASE Return(h) /\ Unlock(h) /\ UNCHANGED payments
        BY <1>1, <1>5, <2>1, ReturnTyped DEF PayCashout, TypeInv, TypeOK
    <2>2. CASE /\ Len(payments) < MaxPayments
               /\ payments' = Append(payments,
                    [poll |-> own.poll, user |-> own.user,
                     side |-> own.side, shares |-> own.shares])
               /\ Becomes(h, [own EXCEPT !.pc = "recordCashout",
                                         !.payment = Len(payments) + 1])
               /\ UNCHANGED mutex
        <3> DEFINE r == [own EXCEPT !.pc = "recordCashout",
                                    !.payment = Len(payments) + 1]
                   paid == [poll |-> own.poll, user |-> own.user,
                            side |-> own.side, shares |-> own.shares]
        <3>1. Len(payments) \in Nat /\ MaxPayments \in Nat /\ payments \in Seq(PaymentStates)
            BY MarketsAssumption DEF TypeInv, TypeOK
        <3>2. Len(payments) + 1 \in 0 .. MaxPayments
            BY <2>2, <3>1
        <3>3. r \in HandlerStates /\ Fits(r)
            BY <1>0, <1>5, <3>2 DEF PayCashout, HandlerStates, Fits, Steps
        <3>4. paid \in PaymentStates
            BY <1>0, <1>5 DEF PayCashout, HandlerStates, Fits, PaymentStates
        <3>5. Becomes(h, r) /\ payments' = Append(payments, paid)
            BY <2>2
        <3> HIDE DEF r, paid
        <3>6. payments' \in Seq(PaymentStates) /\ Len(payments') <= MaxPayments
            BY <3>1, <3>2, <3>4, <3>5
        <3> QED  BY <1>5, <2>2, <3>3, <3>5, <3>6, BecomesTyped
                 DEF PayCashout, TypeInv, TypeOK
    <2> QED  BY <1>5, <2>1, <2>2 DEF PayCashout
<1>6. CASE CashoutPosition(h)
    <2> DEFINE p == own.poll
               position == Position(p, own.user, own.side)
               sold == Sold(position, own.half)
    <2>1. sold \in Nat /\ own.side \in Sides /\ own.payment \in 0 .. MaxPayments
        <3>1. position \subseteq Trades
            BY DEF Position, OpenSide, OpenOn
        <3> HIDE DEF position
        <3>2. SharesOf(position) \in Nat
            BY <3>1, SharesNat DEF TypeInv
        <3> QED  BY <1>0, <3>2 DEF Sold, HandlerStates
    <2>2. p \in Polls /\ own.user \in Users
        BY <1>0, <1>6 DEF CashoutPosition, Fits
    <2>3. trades' = Recorded(position, own.half, sold, h) \/ UNCHANGED trades
        BY <1>6 DEF CashoutPosition
    <2>4. polls' = [polls EXCEPT ![p].shares = SharesWithout(p, own.side, sold)]
             \/ UNCHANGED polls
        BY <1>6 DEF CashoutPosition
    <2> HIDE DEF position, sold
    <2>5. trades' \in [Trades -> TradeStates]
        <3>1. CASE trades' = Recorded(position, own.half, sold, h) /\ ~own.half
            BY <2>1, <3>1, TradeTyped DEF Recorded, TypeInv, TypeOK
        <3>2. CASE trades' = Recorded(position, own.half, sold, h) /\ own.half
            <4>1. \A t \in Trades : [trades[t] EXCEPT !.shares = @ \div 2] \in TradeStates
                BY <2>1, TradeTyped DEF TypeInv, TypeOK
            <4>2. [NoTrade EXCEPT !.status = "cashed_out", !.poll = p, !.user = own.user,
                                  !.side = own.side, !.shares = sold,
                                  !.payment = own.payment] \in TradeStates
                BY <2>1, <2>2, SoldTradeTyped
            <4> QED  BY <3>2, <4>1, <4>2 DEF Recorded, TypeInv, TypeOK
        <3> QED  BY <2>3, <3>1, <3>2 DEF TypeInv, TypeOK
    <2>6. polls' \in [Polls -> PollStates]
        <3>1. SharesWithout(p, own.side, sold) \in [Sides -> Nat]
            BY <2>1, <2>2 DEF SharesWithout, Monus, TypeInv, TypeOK, PollStates
        <3> QED  BY <2>2, <2>4, <3>1, SharesTyped DEF TypeInv, TypeOK
    <2> QED  BY <1>1, <1>6, <2>5, <2>6, ReturnTyped DEF CashoutPosition, TypeInv, TypeOK
<1> QED  BY <1>2, <1>3, <1>4, <1>5, <1>6 DEF UserStep

LEMMA AutomationTyped ==
    ASSUME TypeInv, ApplyMarketAutomation
    PROVE  polls' \in [Polls -> PollStates]
<1>1. polls' = [p \in Polls |-> Automated(p)]
    BY DEF ApplyMarketAutomation
<1>2. ASSUME NEW p \in Polls
      PROVE  Automated(p) \in PollStates
    <2> DEFINE v == [s \in Sides |-> SharesOf(OpenSide(p, s))]
    <2>1. polls[p] \in PollStates
        BY DEF TypeInv, TypeOK
    <2>2. v \in [Sides -> Nat]
        <3>1. \A s \in Sides : OpenSide(p, s) \subseteq Trades
            BY DEF OpenSide, OpenOn
        <3> QED  BY <3>1, SharesNat DEF TypeInv
    <2>3. [polls[p] EXCEPT !.shares = v] \in PollStates
        <3> HIDE DEF v
        <3> QED  BY <2>1, <2>2, PollTyped
    <2>4. [polls[p] EXCEPT !.status = "paused"] \in PollStates
        BY <2>1 DEF PollStates, Statuses
    <2> QED  BY <2>1, <2>3, <2>4 DEF Automated
<1> QED  BY <1>1, <1>2

\* The market after an edit and after UpdatePollResolution.
LEMMA SavedTyped ==
    ASSUME NEW poll \in PollStates, NEW edit \in EditInputs
    PROVE  [poll EXCEPT !.status = edit.status, !.frozen = edit.frozen,
                        !.over = edit.over, !.outcome = edit.outcome] \in PollStates
BY DEF PollStates, EditInputs

LEMMA ResolvedTyped ==
    ASSUME NEW poll \in PollStates, NEW status \in Statuses,
           NEW outcome \in Outcomes, NEW resolvedAt \in BOOLEAN
    PROVE  [poll EXCEPT !.status = status, !.outcome = outcome,
                        !.resolvedAt = resolvedAt] \in PollStates
BY DEF PollStates

\* A trade after SettlePollTrades.
LEMMA SettledTyped ==
    ASSUME NEW trade \in TradeStates, NEW status \in TradeStatuses,
           NEW outcome \in Outcomes \cup {"cancelled"},
           NEW payoutStatus \in {"none", "claimable"}
    PROVE  [trade EXCEPT !.status = status, !.outcome = outcome,
                         !.payoutStatus = payoutStatus] \in TradeStates
BY DEF TradeStates

LEMMA PollWritten ==
    ASSUME TypeInv, NEW p \in Polls, NEW r \in PollStates,
           polls' = [polls EXCEPT ![p] = r]
    PROVE  polls' \in [Polls -> PollStates]
BY DEF TypeInv, TypeOK

LEMMA DecisionsTyped ==
    \A d \in Decisions : d[1] \in Statuses /\ d[2] \in Outcomes
BY MarketsAssumption DEF AllDecisions, Statuses, Outcomes

LEMMA AdminRequestTyped ==
    ASSUME TypeInv, NEW h \in Admins, AdminRequest(h)
    PROVE  TypeInv'
<1> USE DEF Handlers
<1>1. ASSUME NEW p \in Managed, NEW d \in Decisions, AdminResolvePoll(h, p, d[1], d[2])
      PROVE  TypeInv'
    <2> DEFINE r == [Idle EXCEPT
            !.pc = IF d[1] \in {"resolved", "cancelled"} THEN "preview" ELSE "move",
            !.poll = p, !.status = d[1], !.outcome = d[2]]
    <2>1. p \in Polls /\ d[1] \in Statuses /\ d[2] \in Outcomes
        BY MarketsAssumption, DecisionsTyped
    <2>2. r \in HandlerStates /\ Fits(r)
        BY <2>1, IdleTyped, ZenonT(30) DEF Idle, HandlerStates, Fits, Steps, Final
    <2>3. Becomes(h, r) /\ ApplyMarketAutomation
        BY <1>1 DEF AdminResolvePoll
    <2> HIDE DEF r
    <2> QED  BY <1>1, <2>2, <2>3, BecomesTyped, AutomationTyped
             DEF AdminResolvePoll, TypeInv, TypeOK
<1>2. ASSUME NEW p \in Managed, NEW edit \in Edits, AdminUpdatePoll(h, p, edit)
      PROVE  TypeInv'
    <2> DEFINE r == [Idle EXCEPT !.pc = "save", !.poll = p, !.edit = edit]
    <2>1. p \in Polls /\ edit \in EditInputs
        BY MarketsAssumption
    <2>2. r \in HandlerStates /\ Fits(r)
        BY <2>1, IdleTyped DEF Idle, HandlerStates, Fits, Steps
    <2>3. Becomes(h, r) /\ ApplyMarketAutomation
        BY <1>2 DEF AdminUpdatePoll
    <2> HIDE DEF r
    <2> QED  BY <1>2, <2>2, <2>3, BecomesTyped, AutomationTyped
             DEF AdminUpdatePoll, TypeInv, TypeOK
<1>3. ASSUME NEW p \in Managed, NEW edit \in Edits, AdminCreatePoll(h, p, edit)
      PROVE  TypeInv'
    <2>1. p \in Polls /\ edit \in EditInputs /\ polls[p] \in PollStates
        BY MarketsAssumption DEF TypeInv, TypeOK
    <2>2. SavedPoll(p, edit) \in PollStates
        BY <2>1, SavedTyped DEF SavedPoll
    <2>3. polls' = [polls EXCEPT ![p] = SavedPoll(p, edit)]
        BY <1>3 DEF AdminCreatePoll
    <2> QED  BY <1>3, <2>1, <2>2, <2>3, PollWritten
             DEF AdminCreatePoll, TypeInv, TypeOK
<1> QED  BY <1>1, <1>2, <1>3 DEF AdminRequest

LEMMA AdminStepTyped ==
    ASSUME TypeInv, NEW h \in Admins, AdminStep(h)
    PROVE  TypeInv'
<1> USE DEF Handlers
<1> DEFINE own == handlers[h]
           p == own.poll
<1>0. own \in HandlerStates /\ Fits(own)
    BY DEF TypeInv, TypeOK
<1>1. CASE PreviewPollSettlement(h)
    <2> PICK s \in {"none", "claimable"} :
              Becomes(h, [own EXCEPT !.pc = "resolve", !.payoutStatus = s])
        BY <1>1 DEF PreviewPollSettlement
    <2> DEFINE r == [own EXCEPT !.pc = "resolve", !.payoutStatus = s]
    <2>1. r \in HandlerStates /\ Fits(r)
        BY <1>0, <1>1 DEF PreviewPollSettlement, HandlerStates, Fits, Steps
    <2>2. Becomes(h, r)
        OBVIOUS
    <2> HIDE DEF r
    <2> QED  BY <1>1, <2>1, <2>2, BecomesTyped DEF PreviewPollSettlement, TypeInv, TypeOK
<1>2. CASE UpdatePollResolution(h)
    <2> DEFINE w == [polls[p] EXCEPT
                        !.status = own.status,
                        !.outcome = StoredOutcome(own.status, own.outcome),
                        !.resolvedAt = own.status \in {"resolved", "cancelled"}]
    <2>1. polls' = [polls EXCEPT ![p] = w]
        BY <1>2 DEF UpdatePollResolution
    <2>2. polls' \in [Polls -> PollStates]
        <3>1. CASE p \in Polls
            <4>1. own.status \in Statuses /\ StoredOutcome(own.status, own.outcome) \in Outcomes
                BY <1>0 DEF HandlerStates, StoredOutcome, Outcomes
            <4>2. polls[p] \in PollStates
                BY <3>1 DEF TypeInv, TypeOK
            <4>3. w \in PollStates
                <5> DEFINE outcome == StoredOutcome(own.status, own.outcome)
                           closes == own.status \in {"resolved", "cancelled"}
                <5>1. closes \in BOOLEAN
                    OBVIOUS
                <5> HIDE DEF closes, outcome
                <5> QED  BY <4>1, <4>2, <5>1, ResolvedTyped DEF closes, outcome
            <4> HIDE DEF w
            <4> QED  BY <2>1, <3>1, <4>3, PollWritten
        <3>2. CASE p \notin Polls
            <4> HIDE DEF w
            <4> QED  BY <2>1, <3>2 DEF TypeInv, TypeOK
        <3> QED  BY <3>1, <3>2
    <2>3. CASE Return(h)
        BY <1>2, <2>2, <2>3, ReturnTyped DEF UpdatePollResolution, TypeInv, TypeOK
    <2>4. CASE own.pc = "resolve" /\ Becomes(h, [own EXCEPT !.pc = "settle"])
        <3> DEFINE r == [own EXCEPT !.pc = "settle"]
        <3>1. r \in HandlerStates /\ Fits(r)
            BY <1>0, <2>4 DEF HandlerStates, Fits, Steps
        <3>2. Becomes(h, r)
            BY <2>4
        <3> HIDE DEF r
        <3> QED  BY <1>2, <2>2, <3>1, <3>2, BecomesTyped
                 DEF UpdatePollResolution, TypeInv, TypeOK
    <2> QED  BY <1>2, <2>3, <2>4 DEF UpdatePollResolution
<1>3. CASE SettlePollTrades(h)
    <2>1. trades' = [t \in Trades |-> IF t \in OpenOn(p) THEN SettledTrade(t, h)
                                      ELSE trades[t]]
        BY <1>3 DEF SettlePollTrades
    <2>2. ASSUME NEW t \in Trades
          PROVE  trades[t] \in TradeStates /\ SettledTrade(t, h) \in TradeStates
        <3> DEFINE pays == ShouldPay(t, own.status, own.outcome)
                   status == IF own.status = "cancelled" THEN "cancelled"
                             ELSE IF pays THEN "won" ELSE "lost"
                   outcome == IF own.status = "cancelled" THEN "cancelled" ELSE own.outcome
                   payout == IF pays THEN own.payoutStatus ELSE "none"
        <3>1. /\ status \in TradeStatuses
              /\ outcome \in Outcomes \cup {"cancelled"}
              /\ payout \in {"none", "claimable"}
            BY <1>0 DEF TradeStatuses, HandlerStates
        <3>2. SettledTrade(t, h) = [trades[t] EXCEPT !.status = status,
                                        !.outcome = outcome, !.payoutStatus = payout]
            BY DEF SettledTrade
        <3>3. trades[t] \in TradeStates
            BY DEF TypeInv, TypeOK
        <3> HIDE DEF pays, status, outcome, payout
        <3>4. [trades[t] EXCEPT !.status = status, !.outcome = outcome,
                                !.payoutStatus = payout] \in TradeStates
            BY <3>1, <3>3, SettledTyped
        <3> QED  BY <3>2, <3>3, <3>4
    <2>3. polls' \in [Polls -> PollStates]
        <3>1. own.status \in {"none", "resolved", "cancelled"}
            BY <1>0, <1>3 DEF Fits, Final, SettlePollTrades
        <3>2. polls' = [polls EXCEPT ![p].settlement = own.status]
            BY <1>3 DEF SettlePollTrades
        <3>3. ASSUME NEW q \in Polls
              PROVE  [polls[q] EXCEPT !.settlement = own.status] \in PollStates
            BY <3>1 DEF TypeInv, TypeOK, PollStates
        <3> HIDE DEF p, own
        <3> QED  BY <3>2, <3>3 DEF TypeInv, TypeOK
    <2>4. trades' \in [Trades -> TradeStates]
        BY <2>1, <2>2
    <2> QED  BY <1>3, <2>3, <2>4, ReturnTyped DEF SettlePollTrades, TypeInv, TypeOK
<1>4. CASE SavePoll(h)
    <2>1. polls' = [polls EXCEPT ![p] = SavedPoll(p, own.edit)]
        BY <1>4 DEF SavePoll
    <2>2. polls' \in [Polls -> PollStates]
        <3>1. CASE p \in Polls
            <4>1. own.edit \in EditInputs /\ polls[p] \in PollStates
                BY <1>0, <3>1 DEF TypeInv, TypeOK, HandlerStates
            <4>2. SavedPoll(p, own.edit) \in PollStates
                BY <4>1, SavedTyped DEF SavedPoll
            <4> QED  BY <2>1, <3>1, <4>2, PollWritten
        <3>2. CASE p \notin Polls
            BY <2>1, <3>2 DEF TypeInv, TypeOK
        <3> QED  BY <3>1, <3>2
    <2> QED  BY <1>4, <2>2, ReturnTyped DEF SavePoll, TypeInv, TypeOK
<1> QED  BY <1>1, <1>2, <1>3, <1>4 DEF AdminStep

LEMMA RestTyped ==
    ASSUME TypeInv, Environment \/ Fault
    PROVE  TypeInv'
<1>1. CASE Automate
    BY <1>1, AutomationTyped DEF Automate, TypeInv, TypeOK
<1>2. ASSUME NEW p \in Polls, Ends(p)
      PROVE  TypeInv'
    <2>1. \A q \in Polls : [polls[q] EXCEPT !.over = TRUE] \in PollStates
        BY DEF TypeInv, TypeOK, PollStates
    <2> QED  BY <1>2, <2>1 DEF Ends, TypeInv, TypeOK
<1>3. CASE \E e \in Escrows : EscrowMined(e)
    BY <1>3 DEF EscrowMined, TypeInv, TypeOK
<1>4. CASE Restart
    BY <1>4, IdleTyped DEF Restart, TypeInv, TypeOK
<1>5. ASSUME NEW h \in Handlers, StoreFails(h)
      PROVE  TypeInv'
    BY <1>5, ReturnTyped DEF StoreFails, Unlock, TypeInv, TypeOK
<1> QED  BY <1>1, <1>2, <1>3, <1>4, <1>5 DEF Environment, Fault

LEMMA NextTyped ==
    ASSUME TypeInv, [Next]_vars
    PROVE  TypeInv'
<1>1. CASE UNCHANGED vars
    BY <1>1 DEF vars, TypeInv, TypeOK
<1> QED  BY <1>1, UserRequestTyped, UserStepTyped, AdminRequestTyped,
            AdminStepTyped, RestTyped DEF Next

\* Markets, trades, transfers and requests have their types in every reachable
\* state; in particular no count of shares becomes negative.
THEOREM MarketsTyped == Spec => []TypeOK
<1>1. TypeInv => TypeOK
    BY DEF TypeInv
<1> QED  BY <1>1, InitTyped, NextTyped, PTL DEF Spec

LEMMA OpenSideTotal ==
    ASSUME NEW p, NEW s
    PROVE  /\ SharesOf(OpenSide(p, s)) = Total(SharesIn(trades), OpenSide(p, s))
           /\ SharesOf(OpenSide(p, s))' = Total(SharesIn(trades'), OpenSide(p, s)')
<1>1. OpenSide(p, s) \subseteq Trades /\ OpenSide(p, s)' \subseteq Trades
    BY DEF OpenSide, OpenOn
<1>2. SharesOf(OpenSide(p, s)) = Total(SharesIn(trades), OpenSide(p, s))
    BY <1>1, SharesTotal
<1>3. PICK T \in SUBSET Trades : T = OpenSide(p, s)'
    BY <1>1
<1>4. SharesOf(T)' = Total(SharesIn(trades'), T)
    BY <1>3, SharesTotal
<1>5. SharesOf(OpenSide(p, s))' = SharesOf(T)'
    BY <1>3
<1> QED  BY <1>2, <1>3, <1>4, <1>5

----------------------------------------------------------------------------
(* The market maker's shares match the open trades *)

\* What SharesMatchOpenTrades says of one market.
Matches(p) ==
    \E base \in {InitialShares[p], [s \in Sides |-> 0]} :
        \A s \in Sides :
            polls[p].shares[s] = SharesOf(OpenSide(p, s)) + base[s]

LEMMA BaseNat ==
    \A p \in Polls : \A base \in {InitialShares[p], [s \in Sides |-> 0]} :
        \A s \in Sides : base[s] \in Nat
BY MarketsAssumption

LEMMA SharesKnown ==
    ASSUME TypeInv, NEW p, NEW s
    PROVE  /\ OpenSide(p, s) \in SUBSET Trades /\ IsFiniteSet(OpenSide(p, s))
           /\ \A t \in Trades : SharesIn(trades)[t] = trades[t].shares /\ trades[t].shares \in Nat
           /\ SharesOf(OpenSide(p, s)) \in Nat
<1>1. OpenSide(p, s) \in SUBSET Trades
    BY DEF OpenSide, OpenOn
<1>2. IsFiniteSet(OpenSide(p, s))
    BY <1>1, MarketsAssumption, FS_Subset
<1>3. \A t \in Trades : SharesIn(trades)[t] = trades[t].shares /\ trades[t].shares \in Nat
    BY DEF SharesIn, TypeInv, TypeOK, TradeStates
<1>4. SharesOf(OpenSide(p, s)) \in Nat
    BY <1>1, SharesNat DEF TypeInv
<1> QED  BY <1>1, <1>2, <1>3, <1>4

\* The open trades of a side are as they were.
LEMMA SharesSame ==
    ASSUME TypeInv, NEW p, NEW s, OpenSide(p, s)' = OpenSide(p, s),
           \A t \in OpenSide(p, s) : trades'[t].shares = trades[t].shares
    PROVE  SharesOf(OpenSide(p, s))' = SharesOf(OpenSide(p, s))
<1>1. PICK T \in SUBSET Trades : T = OpenSide(p, s) /\ IsFiniteSet(T)
    BY SharesKnown
<1>2. \A t \in T : SharesIn(trades')[t] = SharesIn(trades)[t]
    BY <1>1 DEF SharesIn
<1>3. Total(SharesIn(trades'), T) = Total(SharesIn(trades), T)
    BY <1>1, <1>2, TotalSame
<1> QED  BY <1>1, <1>3, OpenSideTotal

LEMMA MatchKept ==
    ASSUME TypeInv, NEW p \in Polls, Matches(p), polls'[p].shares = polls[p].shares,
           \A s \in Sides : /\ OpenSide(p, s)' = OpenSide(p, s)
                            /\ \A t \in OpenSide(p, s) : trades'[t].shares = trades[t].shares
    PROVE  Matches(p)'
<1>1. \A s \in Sides : SharesOf(OpenSide(p, s))' = SharesOf(OpenSide(p, s))
    BY SharesSame
<1> QED  BY <1>1 DEF Matches

\* The steps that leave the trades alone.
LEMMA MatchTradesKept ==
    ASSUME TypeInv, UNCHANGED trades, NEW p \in Polls, Matches(p),
           polls'[p].shares = polls[p].shares
    PROVE  Matches(p)'
<1>1. \A s \in Sides : OpenSide(p, s)' = OpenSide(p, s)
    BY DEF OpenSide, OpenOn
<1> QED  BY <1>1, MatchKept

LEMMA AutomationMatches ==
    ASSUME TypeInv, SharesMatchOpenTrades, ApplyMarketAutomation, UNCHANGED trades
    PROVE  SharesMatchOpenTrades'
<1> SUFFICES ASSUME NEW p \in Polls, polls'[p].settlement = "none"
             PROVE  Matches(p)'
    BY DEF SharesMatchOpenTrades, Matches
<1>1. polls'[p] = Automated(p) /\ polls[p] \in PollStates
    BY DEF ApplyMarketAutomation, TypeInv, TypeOK
<1>2. polls'[p].settlement = polls[p].settlement
    BY <1>1 DEF Automated, PollStates
<1>3. Matches(p)
    BY <1>2 DEF SharesMatchOpenTrades, Matches
<1>4. CASE polls'[p].shares = polls[p].shares
    BY <1>3, <1>4, MatchTradesKept
<1>5. CASE polls'[p].shares = [s \in Sides |-> SharesOf(OpenSide(p, s))]
    <2> DEFINE zero == [s \in Sides |-> 0]
    <2>1. \A s \in Sides : SharesOf(OpenSide(p, s))' = SharesOf(OpenSide(p, s))
        <3>1. \A s \in Sides : OpenSide(p, s)' = OpenSide(p, s)
            BY DEF OpenSide, OpenOn
        <3> QED  BY <3>1, SharesSame
    <2>2. \A s \in Sides : SharesOf(OpenSide(p, s)) \in Nat
        BY SharesKnown
    <2>3. \A s \in Sides : polls'[p].shares[s] = SharesOf(OpenSide(p, s))' + zero[s]
        BY <1>5, <2>1, <2>2
    <2> QED  BY <2>3 DEF Matches
<1> QED  BY <1>1, <1>4, <1>5 DEF Automated, PollStates

\* The trades and the shares of one side change together.
LEMMA MatchMoved ==
    ASSUME TypeInv, NEW p \in Polls, Matches(p), NEW side \in Sides,
           \A s \in Sides \ {side} :
              /\ OpenSide(p, s)' = OpenSide(p, s)
              /\ \A t \in OpenSide(p, s) : trades'[t].shares = trades[t].shares
              /\ polls'[p].shares[s] = polls[p].shares[s],
           NEW m \in Nat, NEW n \in Nat,
           SharesOf(OpenSide(p, side))' = (SharesOf(OpenSide(p, side)) + m) - n,
           polls'[p].shares[side] = (polls[p].shares[side] + m) - n
    PROVE  Matches(p)'
<1>1. PICK base \in {InitialShares[p], [s \in Sides |-> 0]} :
          \A s \in Sides : polls[p].shares[s] = SharesOf(OpenSide(p, s)) + base[s]
    BY DEF Matches
<1>2. \A s \in Sides : base[s] \in Nat /\ SharesOf(OpenSide(p, s)) \in Nat
    BY SharesKnown, BaseNat
<1>3. ASSUME NEW s \in Sides
      PROVE  polls'[p].shares[s] = SharesOf(OpenSide(p, s))' + base[s]
    <2>1. CASE s # side
        BY <1>1, <2>1, SharesSame
    <2>2. CASE s = side
        <3>1. \A a, b \in Nat : ((a + b) + m) - n = ((a + m) - n) + b
            OBVIOUS
        <3> QED  BY <1>1, <1>2, <2>2, <3>1
    <2> QED  BY <2>1, <2>2
<1> QED  BY <1>3 DEF Matches

LEMMA NextUnused ==
    ASSUME \E t \in Trades : trades[t].status = "unused"
    PROVE  NextTrade \in Trades /\ trades[NextTrade].status = "unused"
BY DEF NextTrade

LEMMA CreateMatches ==
    ASSUME TypeInv, SharesMatchOpenTrades, NEW h \in Requests, CreateTrade(h)
    PROVE  SharesMatchOpenTrades'
<1> USE DEF Handlers
<1> SUFFICES ASSUME NEW q \in Polls, polls'[q].settlement = "none"
             PROVE  Matches(q)'
    BY DEF SharesMatchOpenTrades, Matches
<1>a. PICK user, e : user = handlers[h].user /\ e = handlers[h].escrow
    OBVIOUS
<1>0. PICK p \in Polls, side \in Sides :
          p = handlers[h].poll /\ side = handlers[h].side
    BY DEF CreateTrade, TypeInv, TypeOK, Fits, HandlerStates
<1> DEFINE new == [NoTrade EXCEPT !.status = "open", !.poll = p,
                                  !.user = user, !.side = side,
                                  !.shares = Whole, !.escrow = e]
<1>1. CASE UNCHANGED <<polls, trades>>
    BY <1>1, MatchTradesKept DEF SharesMatchOpenTrades, Matches
<1>2. CASE /\ \E t \in Trades : trades[t].status = "unused"
           /\ trades' = [trades EXCEPT ![NextTrade] = new]
           /\ polls' = [polls EXCEPT ![p].shares[side] = @ + Whole]
    <2>1. p \in Polls /\ side \in Sides
        BY <1>0
    <2>2. /\ new.status = "open" /\ new.poll = p /\ new.side = side /\ new.shares = Whole
        BY DEF NoTrade
    <2>3. trades' = [trades EXCEPT ![NextTrade] = new]
        BY <1>2
    <2>4. PICK n \in Trades : n = NextTrade /\ trades[n].status = "unused"
        BY <1>2, NextUnused
    <2> HIDE DEF new
    <2>5. \A t \in Trades : trades'[t] = IF t = n THEN new ELSE trades[t]
        BY <2>3, <2>4 DEF TypeInv, TypeOK
    <2>6. /\ polls'[q].settlement = polls[q].settlement
          /\ q # p => polls'[q] = polls[q]
          /\ \A s \in Sides : polls'[p].shares[s] =
                IF s = side THEN polls[p].shares[s] + Whole ELSE polls[p].shares[s]
        BY <1>2, <2>1 DEF TypeInv, TypeOK, PollStates
    <2>7. Matches(q)
        BY <2>6 DEF SharesMatchOpenTrades, Matches
    <2>8. \A r \in Polls : \A s \in Sides :
              OpenSide(r, s)' = IF r = p /\ s = side THEN OpenSide(r, s) \cup {n}
                                ELSE OpenSide(r, s)
        BY <2>2, <2>4, <2>5 DEF OpenSide, OpenOn
    <2>9. \A r \in Polls : \A s \in Sides : \A t \in OpenSide(r, s) : trades'[t] = trades[t]
        BY <2>4, <2>5 DEF OpenSide, OpenOn
    <2>10. CASE q # p
        BY <2>6, <2>7, <2>8, <2>9, <2>10, MatchKept
    <2>11. CASE q = p
        <3>1. PICK T \in SUBSET Trades : T = OpenSide(p, side) /\ IsFiniteSet(T)
            BY SharesKnown
        <3>2. n \notin T
            BY <2>4, <3>1 DEF OpenSide, OpenOn
        <3>3. \A t \in T : SharesIn(trades')[t] = SharesIn(trades)[t]
            BY <2>1, <2>9, <3>1 DEF SharesIn
        <3>4. SharesIn(trades')[n] = Whole
            BY <2>2, <2>5 DEF SharesIn
        <3>5. \A t \in T : SharesIn(trades)[t] \in Nat
            BY <3>1, SharesKnown
        <3>6. \A t \in T \cup {n} : SharesIn(trades')[t] \in Int
            BY <3>3, <3>4, <3>5 DEF Whole
        <3>7. Total(SharesIn(trades'), T \cup {n}) = Whole + Total(SharesIn(trades'), T)
            BY <3>1, <3>2, <3>4, <3>6, TotalAdd
        <3>8. Total(SharesIn(trades'), T) = Total(SharesIn(trades), T)
            BY <3>1, <3>3, TotalSame
        <3>9. /\ SharesOf(OpenSide(p, side)) = Total(SharesIn(trades), T)
              /\ SharesOf(OpenSide(p, side))' = Total(SharesIn(trades'), T \cup {n})
            BY <2>1, <2>8, <3>1, OpenSideTotal
        <3>10. SharesOf(OpenSide(p, side)) \in Nat
            BY SharesKnown
        <3> DEFINE before == SharesOf(OpenSide(p, side))
                   after == SharesOf(OpenSide(p, side))'
                   held == polls[p].shares[side]
        <3>11. /\ after = Whole + before /\ held \in Nat
               /\ polls'[p].shares[side] = held + Whole
            BY <2>1, <2>6, <3>7, <3>8, <3>9 DEF TypeInv, TypeOK, PollStates
        <3>12. /\ after = (before + Whole) - 0 /\ Whole \in Nat
               /\ polls'[p].shares[side] = (held + Whole) - 0
            <4> HIDE DEF before, after, held
            <4> QED  BY <3>10, <3>11 DEF before, Whole
        <3>13. \A s \in Sides \ {side} :
                  /\ OpenSide(p, s)' = OpenSide(p, s)
                  /\ \A t \in OpenSide(p, s) : trades'[t].shares = trades[t].shares
                  /\ polls'[p].shares[s] = polls[p].shares[s]
            BY <2>1, <2>6, <2>8, <2>9
        <3>14. Matches(p)
            BY <2>7, <2>11
        <3>15. Matches(p)'
            BY <2>1, <3>12, <3>13, <3>14, MatchMoved
        <3> QED  BY <2>11, <3>15 DEF Matches
    <2> QED  BY <2>10, <2>11
<1> QED  BY <1>a, <1>0, <1>1, <1>2 DEF CreateTrade

\* The shares of a position, of what it is part of, and of what is left.
LEMMA PositionPart ==
    ASSUME TypeInv, NEW P, NEW T, \E p, u, s : P = Position(p, u, s) /\ T = OpenSide(p, s)
    PROVE  /\ P \in SUBSET T /\ T \in SUBSET Trades
           /\ IsFiniteSet(P) /\ IsFiniteSet(T) /\ IsFiniteSet(T \ P)
           /\ SharesOf(P) = Total(SharesIn(trades), P)
           /\ SharesOf(T) = Total(SharesIn(trades), T)
           /\ Total(SharesIn(trades), T) =
                 Total(SharesIn(trades), P) + Total(SharesIn(trades), T \ P)
           /\ Total(SharesIn(trades), P) \in Nat
           /\ Total(SharesIn(trades), T) \in Nat
           /\ Total(SharesIn(trades), T \ P) \in Nat
<1>1. P \in SUBSET T /\ T \in SUBSET Trades /\ IsFiniteSet(T)
    BY SharesKnown DEF Position
<1>2. IsFiniteSet(P) /\ IsFiniteSet(T \ P)
    BY <1>1, FS_Subset
<1>3. \A t \in T : SharesIn(trades)[t] \in Nat
    BY <1>1, SharesKnown
<1>4. SharesOf(P) = Total(SharesIn(trades), P) /\ SharesOf(T) = Total(SharesIn(trades), T)
    BY <1>1, SharesTotal
<1>5. P \cap (T \ P) = {} /\ P \cup (T \ P) = T
    BY <1>1
<1>6. Total(SharesIn(trades), P \cup (T \ P)) =
          Total(SharesIn(trades), P) + Total(SharesIn(trades), T \ P)
    BY <1>1, <1>2, <1>3, <1>5, TotalUnion
<1>7. /\ Total(SharesIn(trades), P) \in Nat
      /\ Total(SharesIn(trades), T) \in Nat
      /\ Total(SharesIn(trades), T \ P) \in Nat
    BY <1>1, <1>2, <1>3, TotalNat
<1> QED  BY <1>1, <1>2, <1>4, <1>5, <1>6, <1>7

\* Halving trades of Whole shares halves their sum.
LEMMA HalvedSum ==
    ASSUME NEW P, IsFiniteSet(P), NEW f, NEW g,
           \A t \in P : f[t] = Whole /\ g[t] = Whole \div 2
    PROVE  Total(g, P) = Total(f, P) \div 2 /\ Total(f, P) = Total(g, P) + Total(g, P)
<1>1. \A t \in P : g[t] \in Nat /\ g[t] \in Int /\ f[t] = g[t] + g[t]
    BY DEF Whole
<1>2. Total(f, P) = Total(g, P) + Total(g, P)
    BY <1>1, TotalPlus
<1>3. Total(g, P) \in Nat
    BY <1>1, TotalNat
<1>4. \A n \in Nat : (n + n) \div 2 = n
    OBVIOUS
<1> QED  BY <1>2, <1>3, <1>4

LEMMA CashoutMatches ==
    ASSUME TypeInv, SharesMatchOpenTrades, NEW h \in Requests, CashoutPosition(h)
    PROVE  SharesMatchOpenTrades'
<1> USE DEF Handlers
<1> SUFFICES ASSUME NEW q \in Polls, polls'[q].settlement = "none"
             PROVE  Matches(q)'
    BY DEF SharesMatchOpenTrades, Matches
<1>1. CASE UNCHANGED <<polls, trades>>
    BY <1>1, MatchTradesKept DEF SharesMatchOpenTrades, Matches
<1>2. PICK p \in Polls, side \in Sides, user \in Users, half \in BOOLEAN :
          /\ p = handlers[h].poll /\ side = handlers[h].side
          /\ user = handlers[h].user /\ half = handlers[h].half
    BY DEF CashoutPosition, TypeInv, TypeOK, Fits, HandlerStates
<1>3. PICK P, T : P = Position(p, user, side) /\ T = OpenSide(p, side)
    OBVIOUS
<1>4. PICK sold : sold = Sold(P, half)
    OBVIOUS
<1>5. CASE /\ CanSell(P, half)
           /\ half => \E t \in Trades : trades[t].status = "unused"
           /\ trades' = Recorded(P, half, sold, h)
           /\ polls' = [polls EXCEPT ![p].shares = SharesWithout(p, side, sold)]
    <2> DEFINE f == SharesIn(trades)
               g == SharesIn(trades')
               R == T \ P
    <2>1. /\ P \in SUBSET T /\ T \in SUBSET Trades
          /\ IsFiniteSet(P) /\ IsFiniteSet(T) /\ IsFiniteSet(R)
          /\ SharesOf(P) = Total(f, P) /\ SharesOf(T) = Total(f, T)
          /\ Total(f, T) = Total(f, P) + Total(f, R)
          /\ Total(f, P) \in Nat /\ Total(f, T) \in Nat /\ Total(f, R) \in Nat
        <3> HIDE DEF f, R
        <3>1. /\ P \in SUBSET T /\ T \in SUBSET Trades
              /\ IsFiniteSet(P) /\ IsFiniteSet(T) /\ IsFiniteSet(T \ P)
              /\ SharesOf(P) = Total(SharesIn(trades), P)
              /\ SharesOf(T) = Total(SharesIn(trades), T)
              /\ Total(SharesIn(trades), T) =
                    Total(SharesIn(trades), P) + Total(SharesIn(trades), T \ P)
              /\ Total(SharesIn(trades), P) \in Nat
              /\ Total(SharesIn(trades), T) \in Nat
              /\ Total(SharesIn(trades), T \ P) \in Nat
            <4>1. \E r, u, s : P = Position(r, u, s) /\ T = OpenSide(r, s)
                BY <1>3
            <4> QED  BY <4>1, PositionPart
        <3> QED  BY <3>1 DEF f, R
    <2>2. PICK U \in SUBSET Trades : U = OpenSide(p, side)'
        BY DEF OpenSide, OpenOn
    <2>3. SharesOf(OpenSide(p, side))' = Total(g, U)
        BY <2>2, OpenSideTotal
    <2>4. \A t \in P : /\ trades[t].status = "open" /\ trades[t].poll = p
                       /\ trades[t].side = side
        BY <1>3 DEF Position, OpenSide, OpenOn
    <2>5. \A t \in Trades : trades[t] \in TradeStates
        BY DEF TypeInv, TypeOK
    <2>6. half \in BOOLEAN
        BY <1>2 DEF TypeInv, TypeOK, HandlerStates
    <2> DEFINE Rest == /\ \A t \in R : g[t] = f[t]
                       /\ \A r \in Polls : \A s \in Sides : ~(r = p /\ s = side) =>
                             /\ OpenSide(r, s)' = OpenSide(r, s)
                             /\ \A t \in OpenSide(r, s) : trades'[t].shares = trades[t].shares
    <2>7. Rest /\ sold \in Nat /\ Total(f, T) = Total(g, U) + sold
        <3>1. CASE ~half
            <4>1. \A t \in Trades : /\ t \in P => trades'[t].status = "cashed_out"
                                    /\ t \notin P => trades'[t] = trades[t]
                BY <1>5, <2>5, <3>1 DEF Recorded, TradeStates
            <4>2. U = R
                BY <1>3, <2>1, <2>2, <2>4, <4>1 DEF OpenSide, OpenOn
            <4>3. Rest
                BY <2>1, <2>4, <4>1 DEF OpenSide, OpenOn, SharesIn
            <4>4. sold = Total(f, P)
                BY <1>4, <2>1, <3>1 DEF Sold
            <4>5. Total(g, R) = Total(f, R)
                BY <2>1, <4>3, TotalSame
            <4> HIDE DEF f, g, R, Rest
            <4>6. Total(f, T) = Total(g, U) + sold
                BY <2>1, <4>2, <4>4, <4>5
            <4> QED  BY <2>1, <4>3, <4>4, <4>6
        <3>2. CASE half
            <4>1. PICK n \in Trades : n = NextTrade /\ trades[n].status = "unused"
                BY <1>5, <3>2, NextUnused
            <4>2. n \notin P
                BY <2>4, <4>1
            <4>3. \A t \in Trades :
                      /\ t \in P => /\ trades'[t].status = "open" /\ trades'[t].poll = p
                                    /\ trades'[t].side = side
                                    /\ trades'[t].shares = trades[t].shares \div 2
                      /\ t = n => trades'[t].status = "cashed_out"
                      /\ t \notin P /\ t # n => trades'[t] = trades[t]
                BY <1>5, <2>4, <2>5, <3>2, <4>1, <4>2 DEF Recorded, TradeStates, NoTrade
            <4>4. U = T
                BY <1>3, <2>1, <2>2, <2>4, <4>1, <4>3 DEF OpenSide, OpenOn
            <4>5. Rest
                BY <1>3, <2>1, <2>4, <4>1, <4>3 DEF OpenSide, OpenOn, SharesIn
            <4>6. Total(g, R) = Total(f, R)
                BY <2>1, <4>5, TotalSame
            <4>7. \A t \in P : trades[t].shares = Whole
                BY <1>5, <3>2 DEF CanSell
            <4>8. \A t \in P : f[t] = Whole /\ g[t] = Whole \div 2
                BY <2>1, <4>3, <4>7 DEF SharesIn
            <4>9. /\ Total(g, P) = Total(f, P) \div 2
                  /\ Total(f, P) = Total(g, P) + Total(g, P)
                BY <2>1, <4>8, HalvedSum
            <4>10. \A t \in T : g[t] \in Nat
                <5>1. \A t \in P : g[t] \in Nat
                    BY <4>8 DEF Whole
                <5>2. \A t \in R : f[t] \in Nat
                    BY <2>1, <2>5 DEF SharesIn, TradeStates
                <5>3. \A t \in R : g[t] \in Nat
                    BY <4>5, <5>2
                <5> QED  BY <5>1, <5>3
            <4>11. Total(g, P) \in Nat /\ Total(g, R) \in Nat
                BY <2>1, <4>10, TotalNat
            <4>12. P \cap R = {} /\ P \cup R = T
                BY <2>1
            <4>13. Total(g, P \cup R) = Total(g, P) + Total(g, R)
                BY <2>1, <4>10, <4>12, TotalUnion
            <4>14. sold = Total(g, P)
                BY <1>4, <2>1, <3>2, <4>9 DEF Sold
            <4>15. Total(g, T) = Total(g, P) + Total(g, R)
                BY <4>12, <4>13
            <4> HIDE DEF f, g, R, Rest
            <4>16. Total(f, T) = Total(g, U) + sold
                <5>1. \A a, b \in Nat : (a + a) + b = (a + b) + a
                    OBVIOUS
                <5>2. Total(g, U) = Total(g, P) + Total(g, R)
                    BY <4>4, <4>15
                <5>3. Total(f, T) = (Total(g, P) + Total(g, P)) + Total(g, R)
                    BY <2>1, <4>6, <4>9
                <5> QED  BY <4>11, <4>14, <5>1, <5>2, <5>3
            <4> QED  BY <4>5, <4>11, <4>14, <4>16
        <3> QED  BY <2>6, <3>1, <3>2
    <2>8. Total(g, U) \in Nat
        <3>1. \A t \in U : g[t] \in Nat
            <4>1. \A t \in Trades : trades'[t].shares \in Nat
                <5>1. TypeInv'
                    BY UserStepTyped DEF UserStep
                <5> QED  BY <5>1 DEF TypeInv, TypeOK, TradeStates
            <4> QED  BY <2>2, <4>1 DEF SharesIn
        <3>2. IsFiniteSet(U)
            BY <2>2, MarketsAssumption, FS_Subset
        <3> QED  BY <3>1, <3>2, TotalNat
    <2>9. /\ polls'[q].settlement = polls[q].settlement
          /\ q # p => polls'[q] = polls[q]
          /\ \A s \in Sides : polls'[p].shares[s] =
                IF s = side THEN Monus(polls[p].shares[s], sold) ELSE polls[p].shares[s]
        BY <1>5 DEF SharesWithout, TypeInv, TypeOK, PollStates
    <2>10. Matches(q)
        BY <2>9 DEF SharesMatchOpenTrades, Matches
    <2>11. CASE q # p
        BY <2>7, <2>9, <2>10, <2>11, MatchKept
    <2>12. CASE q = p
        <3> DEFINE before == SharesOf(OpenSide(p, side))
                   after == SharesOf(OpenSide(p, side))'
                   held == polls[p].shares[side]
        <3>1. before = after + sold /\ before \in Nat /\ after \in Nat /\ held \in Nat
            BY <1>3, <2>1, <2>3, <2>7, <2>8 DEF TypeInv, TypeOK, PollStates
        <3>2. before <= held
            <4>1. PICK base \in {InitialShares[p], [s \in Sides |-> 0]} :
                      held = before + base[side]
                BY <2>10, <2>12 DEF Matches
            <4>2. base[side] \in Nat
                BY BaseNat
            <4> HIDE DEF before, held
            <4> QED  BY <3>1, <4>1, <4>2
        <3>3. polls'[p].shares[side] = Monus(held, sold)
            BY <2>9
        <3>4. after = (before + 0) - sold /\ polls'[p].shares[side] = (held + 0) - sold
            <4> HIDE DEF before, after, held
            <4> QED  BY <2>7, <3>1, <3>2, <3>3 DEF Monus
        <3>5. \A s \in Sides \ {side} :
                  /\ OpenSide(p, s)' = OpenSide(p, s)
                  /\ \A t \in OpenSide(p, s) : trades'[t].shares = trades[t].shares
                  /\ polls'[p].shares[s] = polls[p].shares[s]
            BY <2>7, <2>9
        <3>6. Matches(p)'
            BY <2>7, <2>10, <2>12, <3>4, <3>5, MatchMoved
        <3> QED  BY <2>12, <3>6 DEF Matches
    <2> QED  BY <2>11, <2>12
<1> QED  BY <1>1, <1>2, <1>3, <1>4, <1>5 DEF CashoutPosition

\* A settled market is not looked at; the trades of the others are left alone.
LEMMA SettleMatches ==
    ASSUME TypeInv, SharesMatchOpenTrades, NEW h \in Admins, SettlePollTrades(h)
    PROVE  SharesMatchOpenTrades'
<1> USE DEF Handlers
<1> SUFFICES ASSUME NEW q \in Polls, polls'[q].settlement = "none"
             PROVE  Matches(q)'
    BY DEF SharesMatchOpenTrades, Matches
<1>1. PICK p : p = handlers[h].poll
    OBVIOUS
<1>2. handlers[h].status \in Final
    BY DEF SettlePollTrades, TypeInv, Fits
<1>3. polls' = [polls EXCEPT ![p].settlement = handlers[h].status]
    BY <1>1 DEF SettlePollTrades
<1>4. q # p /\ polls'[q] = polls[q]
    BY <1>2, <1>3 DEF TypeInv, TypeOK, PollStates, Final
<1>5. Matches(q)
    BY <1>4 DEF SharesMatchOpenTrades, Matches
<1>6. \A t \in Trades : /\ trades[t].poll # p => trades'[t] = trades[t]
                        /\ trades[t].poll = p => trades'[t].poll = p
    <2>1. \A t \in Trades : SettledTrade(t, h).poll = trades[t].poll
        BY DEF SettledTrade, TypeInv, TypeOK, TradeStates
    <2>2. trades' = [t \in Trades |-> IF t \in OpenOn(p) THEN SettledTrade(t, h)
                                      ELSE trades[t]]
        BY <1>1 DEF SettlePollTrades
    <2>3. \A t \in OpenOn(p) : trades[t].poll = p
        BY DEF OpenOn
    <2> QED  BY <2>1, <2>2, <2>3
<1>7. \A s \in Sides :
          /\ OpenSide(q, s)' = OpenSide(q, s)
          /\ \A t \in OpenSide(q, s) : trades'[t].shares = trades[t].shares
    BY <1>4, <1>6 DEF OpenSide, OpenOn
<1> QED  BY <1>4, <1>5, <1>7, MatchKept

\* The steps that write neither trades nor shares, and settle nothing.
LEMMA QuietMatches ==
    ASSUME TypeInv, SharesMatchOpenTrades, UNCHANGED trades,
           \A p \in Polls : /\ polls'[p].settlement = polls[p].settlement
                            /\ polls'[p].shares = polls[p].shares
    PROVE  SharesMatchOpenTrades'
BY MatchTradesKept DEF SharesMatchOpenTrades, Matches

LEMMA SavedMatches ==
    ASSUME TypeInv, SharesMatchOpenTrades, UNCHANGED trades, NEW p, NEW edit,
           polls' = [polls EXCEPT ![p] = SavedPoll(p, edit)]
    PROVE  SharesMatchOpenTrades'
BY QuietMatches DEF SavedPoll, TypeInv, TypeOK, PollStates

LEMMA InitMatches ==
    ASSUME Init
    PROVE  SharesMatchOpenTrades
<1> SUFFICES ASSUME NEW p \in Polls
             PROVE  Matches(p)
    BY DEF SharesMatchOpenTrades, Matches
<1>1. \A s \in Sides : OpenSide(p, s) = {}
    BY DEF Init, NoTrade, OpenSide, OpenOn
<1>2. \A s \in Sides : SharesOf(OpenSide(p, s)) = 0
    BY <1>1, OpenSideTotal, TotalEmpty
<1>3. /\ polls[p].shares = InitialShares[p]
      /\ \A s \in Sides : InitialShares[p][s] \in Nat
    BY MarketsAssumption DEF Init
<1> QED  BY <1>2, <1>3 DEF Matches

LEMMA NextMatches ==
    ASSUME TypeInv, SharesMatchOpenTrades, [Next]_vars
    PROVE  SharesMatchOpenTrades'
<1>1. CASE UNCHANGED <<polls, trades>>
    BY <1>1, QuietMatches
<1>2. ASSUME NEW h \in Requests, UserRequest(h) \/ UserStep(h)
      PROVE  SharesMatchOpenTrades'
    BY <1>1, <1>2, CreateMatches, CashoutMatches
    DEF UserRequest, QuoteEscrow, QuoteTrade, QuoteCashout,
        UserStep, SendEscrow, CheckEscrow, PayCashout
<1>3. ASSUME NEW h \in Admins, AdminRequest(h)
      PROVE  SharesMatchOpenTrades'
    BY <1>3, AutomationMatches, SavedMatches
    DEF AdminRequest, AdminResolvePoll, AdminUpdatePoll, AdminCreatePoll
<1>4. ASSUME NEW h \in Admins, AdminStep(h)
      PROVE  SharesMatchOpenTrades'
    <2>1. CASE UpdatePollResolution(h)
        <3>1. UNCHANGED trades
            BY <2>1 DEF UpdatePollResolution
        <3>2. \A p \in Polls : /\ polls'[p].settlement = polls[p].settlement
                               /\ polls'[p].shares = polls[p].shares
            BY <2>1 DEF UpdatePollResolution, TypeInv, TypeOK, PollStates
        <3> QED  BY <3>1, <3>2, QuietMatches
    <2>2. CASE SavePoll(h)
        <3>1. PICK p, edit : p = handlers[h].poll /\ edit = handlers[h].edit
            OBVIOUS
        <3> QED  BY <2>2, <3>1, SavedMatches DEF SavePoll
    <2> QED  BY <1>1, <1>4, <2>1, <2>2, SettleMatches DEF AdminStep, PreviewPollSettlement
<1>5. CASE Environment
    <2>1. ASSUME NEW p \in Polls, Ends(p)
          PROVE  SharesMatchOpenTrades'
        BY <2>1, QuietMatches DEF Ends, TypeInv, TypeOK, PollStates
    <2> QED  BY <1>1, <1>5, <2>1, AutomationMatches DEF Environment, Automate, EscrowMined
<1>6. CASE Fault
    BY <1>1, <1>6 DEF Fault, Restart, StoreFails
<1> QED  BY <1>1, <1>2, <1>3, <1>4, <1>5, <1>6 DEF Next, vars

\* Whatever users, administrators and the automation do at the same time, until a
\* market is settled its market maker owes each side exactly the shares of its
\* open trades, on top of what the market started with.
THEOREM SharesMatch == Spec => []SharesMatchOpenTrades
<1>1. Init => TypeInv /\ SharesMatchOpenTrades
    BY InitTyped, InitMatches
<1>2. TypeInv /\ SharesMatchOpenTrades /\ [Next]_vars => (TypeInv /\ SharesMatchOpenTrades)'
    BY NextTyped, NextMatches
<1> QED  BY <1>1, <1>2, PTL DEF Spec

----------------------------------------------------------------------------
(* A recorded cashout took out of the position what its transfer paid for *)

\* The position that a cashout was quoted for is sold meanwhile, or still there.
Stands(r) ==
    LET position == Position(r.poll, r.user, r.side)
    IN  position = {} \/ Sold(position, r.half) = r.shares

Quoted(r) == r.pc \in {"payCashout", "recordCashout"} => Stands(r)

\* The transfer of a cashout about to be recorded is recorded nowhere.
Unrecorded(r) ==
    r.pc = "recordCashout" =>
        /\ r.payment \in 1 .. Len(payments)
        /\ payments[r.payment].shares = r.shares
        /\ \A t \in Trades : trades[t].payment # r.payment

Closed(i) == {t \in Trades : trades[t].payment = i}

TradesPaid ==
    \A t \in Trades :
        /\ trades[t].payment <= Len(payments)
        /\ trades[t].status \in {"unused", "open"} => trades[t].payment = 0

CashoutInv ==
    /\ TypeInv
    /\ EscrowInv
    /\ \A h \in Handlers : Quoted(handlers[h]) /\ Unrecorded(handlers[h])
    /\ TradesPaid
    /\ RecordedCashoutIsPaid

LEMMA SumKept ==
    ASSUME NEW T, T \subseteq Trades, \A t \in T : trades'[t].shares = trades[t].shares
    PROVE  SharesOf(T)' = SharesOf(T)
<1>1. IsFiniteSet(T) /\ \A t \in T : SharesIn(trades')[t] = SharesIn(trades)[t]
    BY MarketsAssumption, FS_Subset DEF SharesIn
<1>2. Total(SharesIn(trades'), T) = Total(SharesIn(trades), T)
    BY <1>1, TotalSame
<1> QED  BY <1>2, SharesTotal

LEMMA StandsMoved ==
    ASSUME NEW r, Stands(r),
           \/ Position(r.poll, r.user, r.side)' = {}
           \/ /\ Position(r.poll, r.user, r.side)' = Position(r.poll, r.user, r.side)
              /\ \A t \in Position(r.poll, r.user, r.side) :
                     trades'[t].shares = trades[t].shares
    PROVE  Stands(r)'
<1>1. PICK T \in SUBSET Trades : T = Position(r.poll, r.user, r.side)
    BY DEF Position, OpenSide, OpenOn
<1>2. CASE Position(r.poll, r.user, r.side)' = {}
    BY <1>2 DEF Stands
<1>3. CASE /\ Position(r.poll, r.user, r.side)' = T
           /\ \A t \in T : trades'[t].shares = trades[t].shares
    <2>1. SharesOf(T)' = SharesOf(T)
        BY <1>3, SumKept
    <2>2. Sold(T, r.half)' = Sold(T, r.half)
        BY <2>1 DEF Sold
    <2>3. T = {} \/ Sold(T, r.half) = r.shares
        BY <1>1 DEF Stands
    <2>4. T = {} \/ Sold(T, r.half)' = r.shares
        BY <2>2, <2>3
    <2> QED  BY <1>3, <2>4 DEF Stands
<1> QED  BY <1>1, <1>2, <1>3

LEMMA StandsKept ==
    ASSUME NEW r, UNCHANGED trades, Stands(r)
    PROVE  Stands(r)'
<1>1. Position(r.poll, r.user, r.side)' = Position(r.poll, r.user, r.side)
    BY DEF Position, OpenSide, OpenOn
<1> QED  BY <1>1, StandsMoved

\* The steps that leave trades and payments alone.
LEMMA HandlerKept ==
    ASSUME CashoutInv, UNCHANGED <<trades, payments>>, NEW h \in Handlers,
           \/ handlers'[h] = handlers[h]
           \/ handlers'[h].pc \notin {"payCashout", "recordCashout"}
    PROVE  (Quoted(handlers[h]) /\ Unrecorded(handlers[h]))'
<1>1. PICK r : r = handlers'[h]
    OBVIOUS
<1>2. CASE r = handlers[h]
    <2>1. Quoted(r) /\ Unrecorded(r)
        BY <1>2 DEF CashoutInv
    <2>2. Quoted(r)' /\ Unrecorded(r)'
        BY <2>1, StandsKept DEF Quoted, Unrecorded
    <2> QED  BY <1>1, <2>2
<1>3. CASE r.pc \notin {"payCashout", "recordCashout"}
    BY <1>1, <1>3 DEF Quoted, Unrecorded
<1> QED  BY <1>1, <1>2, <1>3

LEMMA PaidKept ==
    ASSUME CashoutInv, UNCHANGED <<trades, payments>>
    PROVE  TradesPaid' /\ RecordedCashoutIsPaid'
<1>1. TradesPaid'
    BY DEF CashoutInv, TradesPaid
<1>2. RecordedCashoutIsPaid'
    <2>1. \A T \in SUBSET Trades : SharesOf(T)' = SharesOf(T)
        BY SumKept
    <2> SUFFICES ASSUME NEW i \in 1 .. Len(payments), Closed(i) # {}
                 PROVE  SharesOf(Closed(i))' = payments[i].shares
        BY DEF RecordedCashoutIsPaid, Closed
    <2>2. PICK T \in SUBSET Trades : T = Closed(i) /\ T = Closed(i)'
        BY DEF Closed
    <2>3. SharesOf(T) = payments[i].shares
        BY <2>2 DEF CashoutInv, RecordedCashoutIsPaid, Closed
    <2> QED  BY <2>1, <2>2, <2>3
<1> QED  BY <1>1, <1>2

LEMMA QuietCashout ==
    ASSUME CashoutInv, TypeInv', EscrowInv', UNCHANGED <<trades, payments>>,
           \A h \in Handlers : \/ handlers'[h] = handlers[h]
                               \/ handlers'[h].pc \notin {"payCashout", "recordCashout"}
    PROVE  CashoutInv'
BY HandlerKept, PaidKept DEF CashoutInv

\* One request at a time is past its quote.
LEMMA OthersUnlocked ==
    ASSUME EscrowInv, NEW h \in Handlers, handlers[h].pc \in LockedSteps
    PROVE  \A g \in Handlers \ {h} : handlers[g].pc \notin LockedSteps
BY DEF EscrowInv, LockHeld

LEMMA UserRequestCashout ==
    ASSUME CashoutInv, TypeInv', EscrowInv', NEW h \in Requests, UserRequest(h)
    PROVE  CashoutInv'
<1> USE DEF Handlers
<1>0. UNCHANGED <<trades, payments>> /\ handlers = [g \in Handlers |-> handlers[g]]
    BY DEF UserRequest, QuoteEscrow, QuoteTrade, QuoteCashout, CashoutInv, EscrowInv,
           HandlersShape
<1>1. ASSUME NEW r, Becomes(h, r), r.pc \notin {"payCashout", "recordCashout"}
      PROVE  CashoutInv'
    BY <1>0, <1>1, QuietCashout DEF Becomes
<1>2. ASSUME NEW p \in Polls, NEW e \in Escrows, QuoteEscrow(h, e, p)
      PROVE  CashoutInv'
    BY <1>1, <1>2 DEF QuoteEscrow, Idle
<1>3. ASSUME NEW p \in Polls, NEW e \in Escrows, NEW side \in Sides,
             QuoteTrade(h, e, p, side)
      PROVE  CashoutInv'
    BY <1>1, <1>3 DEF QuoteTrade, Idle
<1>4. ASSUME NEW p \in Polls, NEW u \in Users, NEW side \in Sides,
             NEW half \in BOOLEAN, QuoteCashout(h, p, u, side, half)
      PROVE  CashoutInv'
    <2>1. PICK shares : shares = Sold(Position(p, u, side), half)
        OBVIOUS
    <2> DEFINE r == [Idle EXCEPT !.pc = "payCashout", !.poll = p, !.user = u,
                              !.side = side, !.half = half, !.shares = shares]
    <2>2. /\ r.pc = "payCashout" /\ r.poll = p /\ r.user = u /\ r.side = side
          /\ r.half = half /\ r.shares = shares
        BY DEF Idle
    <2>3. Becomes(h, r)
        BY <1>4, <2>1 DEF QuoteCashout
    <2> HIDE DEF r
    <2>4. Stands(r)
        BY <2>1, <2>2 DEF Stands
    <2>5. Quoted(r)' /\ Unrecorded(r)'
        BY <1>0, <2>2, <2>4, StandsKept DEF Quoted, Unrecorded
    <2>6. handlers'[h] = r /\ \A g \in Handlers \ {h} : handlers'[g] = handlers[g]
        BY <1>0, <2>3 DEF Becomes
    <2>7. /\ \A g \in Handlers : (Quoted(handlers[g]) /\ Unrecorded(handlers[g]))'
          /\ TradesPaid' /\ RecordedCashoutIsPaid'
        <3>1. TradesPaid' /\ RecordedCashoutIsPaid'
            BY <1>0, PaidKept DEF CashoutInv
        <3>2. ASSUME NEW g \in Handlers
              PROVE  (Quoted(handlers[g]) /\ Unrecorded(handlers[g]))'
            BY <1>0, <2>5, <2>6, HandlerKept
        <3> QED  BY <3>1, <3>2
    <2> QED  BY <2>7 DEF CashoutInv
<1> QED  BY <1>2, <1>3, <1>4 DEF UserRequest

LEMMA ClosedKept ==
    ASSUME NEW i, Closed(i)' = Closed(i),
           \A t \in Closed(i) : trades'[t].shares = trades[t].shares
    PROVE  SharesOf(Closed(i))' = SharesOf(Closed(i))
<1>1. PICK T \in SUBSET Trades : T = Closed(i) /\ T = Closed(i)'
    BY DEF Closed
<1>2. SharesOf(T)' = SharesOf(T)
    BY <1>1, SumKept
<1> QED  BY <1>1, <1>2

\* A request past its quote ends: no cashout is under way.
LEMMA CashoutEnds ==
    ASSUME EscrowInv, NEW h \in Handlers, handlers[h].pc \in LockedSteps, Return(h)
    PROVE  \A g \in Handlers : (Quoted(handlers[g]) /\ Unrecorded(handlers[g]))'
<1>1. /\ handlers'[h] = Idle
      /\ \A g \in Handlers \ {h} : handlers'[g] = handlers[g]
    BY ReturnHandler DEF EscrowInv
<1>2. \A g \in Handlers : handlers'[g].pc \notin {"payCashout", "recordCashout"}
    BY <1>1, OthersUnlocked DEF Idle, LockedSteps
<1> QED  BY <1>2 DEF Quoted, Unrecorded

LEMMA CreateCashout ==
    ASSUME CashoutInv, TypeInv', EscrowInv', NEW h \in Requests, CreateTrade(h)
    PROVE  CashoutInv'
<1> USE DEF Handlers
<1>1. \A g \in Handlers : (Quoted(handlers[g]) /\ Unrecorded(handlers[g]))'
    BY CashoutEnds DEF CreateTrade, LockedSteps, CashoutInv
<1>2. UNCHANGED payments
    BY DEF CreateTrade
<1>3. CASE UNCHANGED trades
    BY <1>1, <1>2, <1>3, PaidKept DEF CashoutInv
<1>4. CASE /\ \E t \in Trades : trades[t].status = "unused"
           /\ \E r : /\ trades' = [trades EXCEPT ![NextTrade] = r]
                     /\ r.payment = 0
    <2>1. PICK r : trades' = [trades EXCEPT ![NextTrade] = r] /\ r.payment = 0
        BY <1>4
    <2>2. PICK n \in Trades : n = NextTrade /\ trades[n].status = "unused"
        BY <1>4, NextUnused
    <2>3. trades[n].payment = 0
        BY <2>2 DEF CashoutInv, TradesPaid
    <2>4. \A t \in Trades : trades'[t] = IF t = n THEN r ELSE trades[t]
        BY <2>1, <2>2 DEF CashoutInv, TypeInv, TypeOK
    <2>5. Len(payments) \in Nat
        BY DEF CashoutInv, TypeInv, TypeOK
    <2>6. TradesPaid'
        BY <1>2, <2>1, <2>4, <2>5 DEF CashoutInv, TradesPaid
    <2>7. RecordedCashoutIsPaid'
        <3> SUFFICES ASSUME NEW i \in 1 .. Len(payments), Closed(i)' # {}
                     PROVE  SharesOf(Closed(i))' = payments[i].shares
            BY <1>2 DEF RecordedCashoutIsPaid, Closed
        <3>1. /\ Closed(i)' = Closed(i)
              /\ \A t \in Closed(i) : trades'[t].shares = trades[t].shares
            BY <2>1, <2>3, <2>4, <2>5 DEF Closed
        <3> QED  BY <3>1, ClosedKept DEF CashoutInv, RecordedCashoutIsPaid, Closed
    <2> QED  BY <1>1, <2>6, <2>7 DEF CashoutInv
<1> DEFINE new == [NoTrade EXCEPT
              !.status = "open", !.poll = handlers[h].poll, !.user = handlers[h].user,
              !.side = handlers[h].side, !.shares = Whole, !.escrow = handlers[h].escrow]
<1>5. new.payment = 0
    BY DEF NoTrade
<1>6. \/ UNCHANGED trades
      \/ /\ \E t \in Trades : trades[t].status = "unused"
         /\ trades' = [trades EXCEPT ![NextTrade] = new]
    BY DEF CreateTrade
<1> HIDE DEF new
<1> QED  BY <1>3, <1>4, <1>5, <1>6

LEMMA PayCashoutCashout ==
    ASSUME CashoutInv, TypeInv', EscrowInv', NEW h \in Requests, PayCashout(h)
    PROVE  CashoutInv'
<1> USE DEF Handlers
<1>1. CASE Return(h) /\ UNCHANGED payments
    <2>1. \A g \in Handlers : (Quoted(handlers[g]) /\ Unrecorded(handlers[g]))'
        BY <1>1, CashoutEnds DEF PayCashout, LockedSteps, CashoutInv
    <2> QED  BY <1>1, <2>1, PaidKept DEF PayCashout, CashoutInv
<1>2. ASSUME payments' = Append(payments,
                [poll |-> handlers[h].poll, user |-> handlers[h].user,
                 side |-> handlers[h].side, shares |-> handlers[h].shares]),
             Becomes(h, [handlers[h] EXCEPT !.pc = "recordCashout",
                                            !.payment = Len(payments) + 1])
      PROVE  CashoutInv'
    <2>1. PICK own : own = handlers[h]
        OBVIOUS
    <2> DEFINE r == [own EXCEPT !.pc = "recordCashout", !.payment = Len(payments) + 1]
    <2>2. own \in HandlerStates /\ own.pc = "payCashout"
        BY <2>1 DEF CashoutInv, TypeInv, TypeOK, PayCashout
    <2>3. /\ r.pc = "recordCashout" /\ r.payment = Len(payments) + 1
          /\ r.poll = own.poll /\ r.user = own.user /\ r.side = own.side
          /\ r.half = own.half /\ r.shares = own.shares
        BY <2>2 DEF HandlerStates
    <2>4. /\ Len(payments) \in Nat /\ Len(payments') = Len(payments) + 1
          /\ payments'[Len(payments) + 1].shares = own.shares
          /\ \A i \in 1 .. Len(payments) : payments'[i] = payments[i]
        BY <1>2, <2>1 DEF CashoutInv, TypeInv, TypeOK
    <2>5. UNCHANGED trades
        BY DEF PayCashout
    <2>6. Becomes(h, r)
        BY <1>2, <2>1
    <2>7. PICK s : s = r
        OBVIOUS
    <2> HIDE DEF r
    <2>8. Stands(s)
        <3>1. Stands(own)
            BY <2>1, <2>2 DEF CashoutInv, Quoted
        <3> QED  BY <2>3, <2>7, <3>1 DEF Stands
    <2>9. Stands(s)'
        BY <2>5, <2>8, StandsKept
    <2>10. Unrecorded(s)'
        <3>1. \A t \in Trades : trades[t].payment \in Nat /\ trades[t].payment <= Len(payments)
            BY MarketsAssumption DEF CashoutInv, TradesPaid, TypeInv, TypeOK, TradeStates
        <3> QED  BY <2>3, <2>4, <2>5, <2>7, <3>1 DEF Unrecorded
    <2>11. /\ handlers'[h] = s
           /\ \A g \in Handlers \ {h} :
                 /\ handlers'[g] = handlers[g]
                 /\ handlers'[g].pc \notin {"payCashout", "recordCashout"}
        BY <2>1, <2>2, <2>6, <2>7, OthersUnlocked
        DEF Becomes, CashoutInv, EscrowInv, HandlersShape, LockedSteps
    <2>12. ASSUME NEW g \in Handlers
           PROVE  (Quoted(handlers[g]) /\ Unrecorded(handlers[g]))'
        BY <2>9, <2>10, <2>11 DEF Quoted, Unrecorded
    <2>13. TradesPaid'
        <3>1. \A t \in Trades : trades[t].payment \in Nat /\ trades[t].payment <= Len(payments)
            BY MarketsAssumption DEF CashoutInv, TradesPaid, TypeInv, TypeOK, TradeStates
        <3> QED  BY <2>4, <2>5, <3>1 DEF CashoutInv, TradesPaid
    <2>14. RecordedCashoutIsPaid'
        <3> SUFFICES ASSUME NEW i \in 1 .. Len(payments'), Closed(i)' # {}
                     PROVE  SharesOf(Closed(i))' = payments'[i].shares
            BY DEF RecordedCashoutIsPaid, Closed
        <3>1. Closed(i)' = Closed(i)
            BY <2>5 DEF Closed
        <3>2. SharesOf(Closed(i))' = SharesOf(Closed(i))
            BY <2>5, <3>1, ClosedKept
        <3>3. i \in 1 .. Len(payments)
            <4>1. PICK t \in Trades : trades[t].payment = i
                BY <3>1 DEF Closed
            <4>2. i <= Len(payments)
                BY <4>1 DEF CashoutInv, TradesPaid
            <4> QED  BY <2>4, <4>2
        <3>4. SharesOf(Closed(i)) = payments[i].shares
            BY <3>1, <3>3 DEF CashoutInv, RecordedCashoutIsPaid, Closed
        <3> QED  BY <2>4, <3>2, <3>3, <3>4
    <2> QED  BY <2>12, <2>13, <2>14 DEF CashoutInv
<1> QED  BY <1>1, <1>2 DEF PayCashout

LEMMA RecordCashout ==
    ASSUME CashoutInv, TypeInv', EscrowInv', NEW h \in Requests, CashoutPosition(h)
    PROVE  CashoutInv'
<1> USE DEF Handlers
<1>1. \A g \in Handlers : (Quoted(handlers[g]) /\ Unrecorded(handlers[g]))'
    BY CashoutEnds DEF CashoutPosition, LockedSteps, CashoutInv
<1>2. UNCHANGED payments /\ Len(payments) \in Nat
    BY DEF CashoutPosition, CashoutInv, TypeInv, TypeOK
<1>3. CASE UNCHANGED trades
    BY <1>1, <1>2, <1>3, PaidKept DEF CashoutInv
<1>4. PICK r : r = handlers[h]
    OBVIOUS
<1>5. PICK P \in SUBSET Trades : P = Position(r.poll, r.user, r.side)
    BY DEF Position, OpenSide, OpenOn
<1>6. PICK sold : sold = Sold(P, r.half)
    OBVIOUS
<1>7. CASE /\ P # {}
           /\ CanSell(P, r.half)
           /\ r.half => \E t \in Trades : trades[t].status = "unused"
           /\ trades' = Recorded(P, r.half, sold, h)
    <2>1. /\ r \in HandlerStates /\ r.pc = "recordCashout"
          /\ Quoted(r) /\ Unrecorded(r)
        BY <1>4 DEF CashoutPosition, CashoutInv, TypeInv, TypeOK
    <2>2. sold = r.shares /\ r.shares \in Nat /\ r.half \in BOOLEAN
        BY <1>5, <1>6, <1>7, <2>1 DEF Quoted, Stands, HandlerStates
    <2>3. PICK k \in 1 .. Len(payments) :
              /\ k = r.payment /\ payments[k].shares = sold
              /\ \A t \in Trades : trades[t].payment # k
        BY <2>1, <2>2 DEF Unrecorded
    <2>4. \A t \in Trades : /\ trades[t] \in TradeStates
                            /\ trades[t].payment <= Len(payments)
                            /\ trades[t].status \in {"unused", "open"} => trades[t].payment = 0
        BY DEF CashoutInv, TradesPaid, TypeInv, TypeOK
    <2>5. \A t \in P : trades[t].status = "open"
        BY <1>5 DEF Position, OpenSide, OpenOn
    <2> DEFINE Result ==
                 /\ \A t \in Trades : trades'[t].payment # trades[t].payment =>
                       trades'[t].payment = k /\ trades'[t].status = "cashed_out"
                 /\ \A t \in Trades : trades[t].payment # 0 => trades'[t] = trades[t]
                 /\ \A t \in Trades : trades'[t].status \in {"unused", "open"} =>
                       trades'[t].payment = trades[t].payment
                                  /\ trades[t].status \in {"unused", "open"}
                 /\ SharesOf(Closed(k))' = sold
    <2>6. ASSUME ~r.half
          PROVE  Result
        <3>1. \A t \in Trades :
                  /\ t \in P => /\ trades'[t].status = "cashed_out" /\ trades'[t].payment = k
                                /\ trades'[t].shares = trades[t].shares
                  /\ t \notin P => trades'[t] = trades[t]
            BY <1>4, <1>7, <2>3, <2>4, <2>6 DEF Recorded, TradeStates
        <3>2. Closed(k)' = P
            BY <2>3, <3>1 DEF Closed
        <3>3. SharesOf(P)' = SharesOf(P)
            BY <3>1, SumKept
        <3>4. SharesOf(Closed(k))' = SharesOf(P)'
            BY <3>2
        <3>5. SharesOf(P) = sold
            BY <1>6, <2>6 DEF Sold
        <3> QED  BY <2>4, <2>5, <3>1, <3>3, <3>4, <3>5
    <2>7. ASSUME r.half
          PROVE  Result
        <3>1. PICK n \in Trades : n = NextTrade /\ trades[n].status = "unused"
            BY <1>7, <2>7, NextUnused
        <3>2. n \notin P
            BY <2>5, <3>1
        <3>3. \A t \in Trades :
                  /\ t \in P => /\ trades'[t].status = trades[t].status
                                /\ trades'[t].payment = trades[t].payment
                  /\ t = n => /\ trades'[t].status = "cashed_out" /\ trades'[t].payment = k
                              /\ trades'[t].shares = sold
                  /\ t \notin P /\ t # n => trades'[t] = trades[t]
            BY <1>4, <1>7, <2>3, <2>4, <2>7, <3>1, <3>2 DEF Recorded, TradeStates, NoTrade
        <3>4. Closed(k)' = {n}
            BY <2>3, <3>3 DEF Closed
        <3>5. SharesIn(trades')[n] = sold
            BY <3>3 DEF SharesIn
        <3>6. SharesOf({n})' = sold
            BY <2>2, <3>5, SharesTotal, TotalOne
        <3>7. SharesOf(Closed(k))' = SharesOf({n})'
            BY <3>4
        <3> QED  BY <2>4, <2>5, <3>1, <3>3, <3>6, <3>7
    <2>8. Result
        BY <2>2, <2>6, <2>7
    <2>9. TradesPaid'
        BY <1>2, <2>3, <2>4, <2>8 DEF TradesPaid
    <2>10. RecordedCashoutIsPaid'
        <3> SUFFICES ASSUME NEW i \in 1 .. Len(payments), Closed(i)' # {}
                     PROVE  SharesOf(Closed(i))' = payments[i].shares
            BY <1>2 DEF RecordedCashoutIsPaid, Closed
        <3>1. CASE i = k
            BY <2>3, <2>8, <3>1
        <3>2. CASE i # k
            <4>1. \A t \in Trades : /\ trades'[t].payment = i <=> trades[t].payment = i
                                    /\ trades[t].payment = i => trades'[t] = trades[t]
                BY <1>2, <2>8, <3>2
            <4>2. /\ Closed(i)' = Closed(i)
                  /\ \A t \in Closed(i) : trades'[t].shares = trades[t].shares
                BY <4>1 DEF Closed
            <4> QED  BY <4>2, ClosedKept DEF CashoutInv, RecordedCashoutIsPaid, Closed
        <3> QED  BY <3>1, <3>2
    <2> QED  BY <1>1, <2>9, <2>10 DEF CashoutInv
<1> QED  BY <1>3, <1>4, <1>5, <1>6, <1>7 DEF CashoutPosition

LEMMA SettleCashout ==
    ASSUME CashoutInv, TypeInv', EscrowInv', NEW h \in Admins, SettlePollTrades(h)
    PROVE  CashoutInv'
<1> USE DEF Handlers
<1>1. PICK p : p = handlers[h].poll
    OBVIOUS
<1>2. UNCHANGED payments
    BY DEF SettlePollTrades
<1>3. \A t \in Trades :
          /\ trades'[t].payment = trades[t].payment
          /\ trades'[t].shares = trades[t].shares
          /\ trades[t].poll # p \/ trades[t].status # "open" => trades'[t] = trades[t]
          /\ trades[t].poll = p => trades'[t].poll = p /\ trades'[t].status # "open"
          /\ trades'[t].status \in {"unused", "open"} => trades'[t] = trades[t]
    <2>1. \A t \in Trades : trades[t] \in TradeStates
        BY DEF CashoutInv, TypeInv, TypeOK
    <2>2. \A t \in Trades : LET s == SettledTrade(t, h) IN
              /\ s.payment = trades[t].payment /\ s.shares = trades[t].shares
              /\ s.poll = trades[t].poll /\ s.status \notin {"unused", "open"}
        BY <2>1 DEF SettledTrade, TradeStates
    <2>3. trades' = [t \in Trades |-> IF t \in OpenOn(p) THEN SettledTrade(t, h)
                                      ELSE trades[t]]
        BY <1>1 DEF SettlePollTrades
    <2>4. \A t \in Trades : t \in OpenOn(p) <=> trades[t].poll = p /\ trades[t].status = "open"
        BY DEF OpenOn
    <2> QED  BY <2>1, <2>2, <2>3, <2>4
<1>4. ASSUME NEW r, Stands(r)
      PROVE  Stands(r)'
    <2>1. CASE r.poll = p
        <3>1. Position(r.poll, r.user, r.side)' = {}
            BY <1>3, <2>1 DEF Position, OpenSide, OpenOn
        <3> QED  BY <1>4, <3>1, StandsMoved
    <2>2. CASE r.poll # p
        <3>1. Position(r.poll, r.user, r.side)' = Position(r.poll, r.user, r.side)
            BY <1>3, <2>2 DEF Position, OpenSide, OpenOn
        <3>2. \A t \in Position(r.poll, r.user, r.side) : trades'[t].shares = trades[t].shares
            BY <1>3 DEF Position, OpenSide, OpenOn
        <3> QED  BY <1>4, <3>1, <3>2, StandsMoved
    <2> QED  BY <2>1, <2>2
<1>5. handlers'[h] = Idle /\ \A g \in Handlers \ {h} : handlers'[g] = handlers[g]
    BY ReturnHandler DEF SettlePollTrades, CashoutInv, EscrowInv
<1>6. ASSUME NEW g \in Handlers
      PROVE  (Quoted(handlers[g]) /\ Unrecorded(handlers[g]))'
    <2>1. PICK r : r = handlers'[g]
        OBVIOUS
    <2>2. CASE g = h
        BY <1>5, <2>2 DEF Quoted, Unrecorded, Idle
    <2>3. CASE g # h
        <3>1. r = handlers[g]
            BY <1>5, <2>1, <2>3
        <3>2. Quoted(r) /\ Unrecorded(r)
            BY <3>1 DEF CashoutInv
        <3>3. Quoted(r)' /\ Unrecorded(r)'
            BY <1>2, <1>3, <1>4, <3>2 DEF Quoted, Unrecorded
        <3> QED  BY <2>1, <3>3
    <2> QED  BY <2>2, <2>3
<1>7. TradesPaid'
    BY <1>2, <1>3 DEF CashoutInv, TradesPaid
<1>8. RecordedCashoutIsPaid'
    <2> SUFFICES ASSUME NEW i \in 1 .. Len(payments), Closed(i)' # {}
                 PROVE  SharesOf(Closed(i))' = payments[i].shares
        BY <1>2 DEF RecordedCashoutIsPaid, Closed
    <2>1. /\ Closed(i)' = Closed(i)
          /\ \A t \in Closed(i) : trades'[t].shares = trades[t].shares
        BY <1>3 DEF Closed
    <2> QED  BY <2>1, ClosedKept DEF CashoutInv, RecordedCashoutIsPaid, Closed
<1> QED  BY <1>6, <1>7, <1>8 DEF CashoutInv

LEMMA InitCashout ==
    ASSUME Init
    PROVE  CashoutInv
<1>1. payments = <<>> /\ Len(payments) = 0
    BY DEF Init
<1>2. \A h \in Handlers : Quoted(handlers[h]) /\ Unrecorded(handlers[h])
    BY DEF Init, Quoted, Unrecorded, Idle
<1>3. TradesPaid
    BY <1>1 DEF Init, TradesPaid, NoTrade
<1>4. RecordedCashoutIsPaid
    BY <1>1 DEF RecordedCashoutIsPaid
<1> QED  BY <1>2, <1>3, <1>4, InitTyped, InitEscrow DEF CashoutInv

LEMMA NextCashout ==
    ASSUME CashoutInv, [Next]_vars
    PROVE  CashoutInv'
<1>0. /\ TypeInv' /\ EscrowInv' /\ handlers = [g \in Handlers |-> handlers[g]]
    BY NextTyped, NextEscrow DEF CashoutInv, EscrowInv, HandlersShape
<1>1. CASE UNCHANGED <<trades, payments, handlers>>
    BY <1>0, <1>1, QuietCashout
<1>2. ASSUME NEW h \in Handlers, NEW r, Becomes(h, r), UNCHANGED <<trades, payments>>,
             r.pc \notin {"payCashout", "recordCashout"}
      PROVE  CashoutInv'
    BY <1>0, <1>2, QuietCashout DEF Becomes
<1>3. ASSUME NEW h \in Handlers, Return(h), UNCHANGED <<trades, payments>>
      PROVE  CashoutInv'
    BY <1>2, <1>3 DEF Return, Idle
<1>4. ASSUME NEW h \in Requests, UserStep(h)
      PROVE  CashoutInv'
    <2>1. handlers[h] \in HandlerStates /\ h \in Handlers
        BY DEF Handlers, CashoutInv, TypeInv, TypeOK
    <2>2. CASE Becomes(h, [handlers[h] EXCEPT !.pc = "createTrade"])
               /\ UNCHANGED <<trades, payments>>
        BY <1>2, <2>1, <2>2 DEF HandlerStates
    <2> QED  BY <1>0, <1>3, <1>4, <2>1, <2>2, CreateCashout, PayCashoutCashout, RecordCashout
             DEF UserStep, SendEscrow, CheckEscrow
<1>5. ASSUME NEW h \in Admins, AdminRequest(h)
      PROVE  CashoutInv'
    <2>1. CASE \E p \in Managed, d \in Decisions : AdminResolvePoll(h, p, d[1], d[2])
        BY <1>2, <2>1 DEF AdminResolvePoll, Handlers, Idle
    <2>2. CASE \E p \in Managed, edit \in Edits : AdminUpdatePoll(h, p, edit)
        BY <1>2, <2>2 DEF AdminUpdatePoll, Handlers, Idle
    <2> QED  BY <1>1, <1>5, <2>1, <2>2 DEF AdminRequest, AdminCreatePoll
<1>6. ASSUME NEW h \in Admins, AdminStep(h)
      PROVE  CashoutInv'
    <2>1. handlers[h] \in HandlerStates /\ h \in Handlers
        BY DEF Handlers, CashoutInv, TypeInv, TypeOK
    <2>2. CASE PreviewPollSettlement(h)
        BY <1>2, <2>1, <2>2 DEF PreviewPollSettlement, HandlerStates
    <2>3. CASE UpdatePollResolution(h)
        <3>1. Becomes(h, [handlers[h] EXCEPT !.pc = "settle"]) \/ Return(h)
            BY <2>3 DEF UpdatePollResolution
        <3> QED  BY <1>2, <1>3, <2>1, <2>3, <3>1 DEF UpdatePollResolution, HandlerStates
    <2> QED  BY <1>0, <1>3, <1>6, <2>1, <2>2, <2>3, SettleCashout DEF AdminStep, SavePoll
<1>7. CASE Environment
    BY <1>1, <1>7 DEF Environment, Automate, Ends, EscrowMined
<1>8. CASE Fault
    <2>1. CASE Restart
        <3>1. \A h \in Handlers : handlers'[h].pc \notin {"payCashout", "recordCashout"}
            BY <2>1 DEF Restart, Idle
        <3> QED  BY <1>0, <2>1, <3>1, QuietCashout DEF Restart
    <2> QED  BY <1>3, <1>8, <2>1 DEF Fault, StoreFails
<1>9. CASE UNCHANGED vars
    BY <1>1, <1>9 DEF vars
<1> QED  BY <1>0, <1>4, <1>5, <1>6, <1>7, <1>8, <1>9, UserRequestCashout DEF Next

\* Whatever happens between the quote of a cashout and its record, a recorded
\* cashout closed as many shares as its transfer paid for.
THEOREM CashoutsArePaid == Spec => []RecordedCashoutIsPaid
<1>1. CashoutInv => RecordedCashoutIsPaid
    BY DEF CashoutInv
<1> QED  BY <1>1, InitCashout, NextCashout, PTL DEF Spec

----------------------------------------------------------------------------
(* A settlement settles every trade, in one way *)

SettledStatuses == {"won", "lost", "cancelled"}

\* The trades of a market are settled with the market, not before, and alike.
TradesSettled(p) ==
    /\ polls[p].settlement = "none" =>
          \A t \in Trades : trades[t].poll = p => trades[t].status \notin SettledStatuses
    /\ polls[p].settlement # "none" =>
          /\ OpenOn(p) = {}
          /\ \E outcome : \A t \in Trades :
                trades[t].poll = p /\ trades[t].status \in SettledStatuses =>
                    trades[t].outcome = outcome
          /\ \A t \in Trades : trades[t].poll = p =>
                /\ trades[t].status = "cancelled" => polls[p].settlement = "cancelled"
                /\ trades[t].status \in {"won", "lost"} => polls[p].settlement = "resolved"

CompleteInv ==
    /\ TypeInv
    /\ SettledInv
    /\ \A p \in Polls : TradesSettled(p)

LEMMA CompleteIsComplete ==
    ASSUME CompleteInv
    PROVE  SettlementComplete
<1> SUFFICES ASSUME NEW p \in Polls, polls[p].settlement # "none"
             PROVE  Cardinality({trades[t].outcome : t \in
                      {s \in Trades : trades[s].poll = p
                          /\ trades[s].status \in {"won", "lost", "cancelled"}}}) <= 1
    BY DEF CompleteInv, TradesSettled, SettlementComplete
<1> DEFINE outcomes == {trades[t].outcome : t \in
                          {s \in Trades : trades[s].poll = p
                              /\ trades[s].status \in {"won", "lost", "cancelled"}}}
<1>1. PICK outcome : \A t \in Trades :
          trades[t].poll = p /\ trades[t].status \in SettledStatuses =>
              trades[t].outcome = outcome
    BY DEF CompleteInv, TradesSettled
<1>2. outcomes \subseteq {outcome}
    BY <1>1 DEF SettledStatuses
<1>3. IsFiniteSet({outcome}) /\ Cardinality({outcome}) = 1
    BY FS_Singleton
<1> HIDE DEF outcomes
<1>4. Cardinality(outcomes) <= Cardinality({outcome})
    BY <1>2, <1>3, FS_Subset
<1> QED  BY <1>3, <1>4 DEF outcomes

\* No settlement is written, and trades change on unsettled markets only.
LEMMA CompleteMoved ==
    ASSUME CompleteInv, TypeInv', SettledInv',
           \A p \in Polls : polls'[p].settlement = polls[p].settlement,
           \A p \in Polls : \A t \in Trades : trades'[t].poll = p =>
               \/ trades'[t] = trades[t]
               \/ /\ polls[p].settlement = "none"
                  /\ trades'[t].status \in {"open", "cashed_out"}
    PROVE  CompleteInv'
<1> SUFFICES ASSUME NEW p \in Polls
             PROVE  TradesSettled(p)'
    BY DEF CompleteInv
<1>1. TradesSettled(p)
    BY DEF CompleteInv
<1>2. CASE polls[p].settlement = "none"
    BY <1>1, <1>2 DEF TradesSettled, SettledStatuses
<1>3. CASE polls[p].settlement # "none"
    <2>1. \A t \in Trades : trades'[t].poll = p => trades'[t] = trades[t]
        BY <1>3
    <2>2. OpenOn(p)' = {}
        BY <1>1, <1>3, <2>1 DEF TradesSettled, OpenOn
    <2>3. PICK outcome : \A t \in Trades :
              trades[t].poll = p /\ trades[t].status \in SettledStatuses =>
                  trades[t].outcome = outcome
        BY <1>1, <1>3 DEF TradesSettled
    <2>4. \A t \in Trades :
              trades'[t].poll = p /\ trades'[t].status \in SettledStatuses =>
                  trades'[t].outcome = outcome
        BY <2>1, <2>3
    <2> QED  BY <1>1, <1>3, <2>1, <2>2, <2>4 DEF TradesSettled
<1> QED  BY <1>2, <1>3

\* What users trade on is not settled.
LEMMA TradeableUnsettled ==
    ASSUME CompleteInv, NEW p \in Polls, Tradeable(p)
    PROVE  polls[p].settlement = "none"
BY DEF CompleteInv, SettledInv, Tradeable, Quotable, Final

LEMMA UserStepComplete ==
    ASSUME CompleteInv, TypeInv', SettledInv', NEW h \in Requests, UserStep(h)
    PROVE  CompleteInv'
<1>1. h \in Handlers /\ \A t \in Trades : trades[t] \in TradeStates
    BY DEF Handlers, CompleteInv, TypeInv, TypeOK
<1>2. \A p \in Polls : polls'[p].settlement = polls[p].settlement
    <2>1. UNCHANGED polls \/ \E q, v : polls' = [polls EXCEPT ![q].shares = v]
        BY DEF UserStep, SendEscrow, CheckEscrow, CreateTrade, PayCashout, CashoutPosition
    <2>2. ASSUME NEW q, NEW v, polls' = [polls EXCEPT ![q].shares = v]
          PROVE  \A p \in Polls : polls'[p].settlement = polls[p].settlement
        BY <2>2 DEF CompleteInv, TypeInv, TypeOK, PollStates
    <2> QED  BY <2>1, <2>2
<1>3. CASE UNCHANGED trades
    BY <1>2, <1>3, CompleteMoved
<1>4. CASE CreateTrade(h) /\ ~UNCHANGED trades
    <2>1. PICK p \in Polls : p = handlers[h].poll /\ Tradeable(p)
        BY <1>1, <1>4 DEF CreateTrade, CompleteInv, TypeInv, Fits, AcceptsTrade
    <2> DEFINE new == [NoTrade EXCEPT
              !.status = "open", !.poll = handlers[h].poll, !.user = handlers[h].user,
              !.side = handlers[h].side, !.shares = Whole, !.escrow = handlers[h].escrow]
    <2>2. new.status = "open" /\ new.poll = p
        BY <2>1 DEF NoTrade
    <2>3. trades' = [trades EXCEPT ![NextTrade] = new]
        BY <1>4 DEF CreateTrade
    <2> HIDE DEF new
    <2>4. \A t \in Trades : trades'[t] = trades[t] \/ trades'[t] = new
        BY <2>3 DEF CompleteInv, TypeInv, TypeOK
    <2>5. polls[p].settlement = "none"
        BY <2>1, TradeableUnsettled
    <2> QED  BY <1>2, <2>2, <2>4, <2>5, CompleteMoved
<1>5. CASE CashoutPosition(h) /\ ~UNCHANGED trades
    <2>1. PICK p \in Polls : p = handlers[h].poll /\ Tradeable(p)
        BY <1>1, <1>5 DEF CashoutPosition, CompleteInv, TypeInv, Fits
    <2>2. PICK P, half, sold : /\ trades' = Recorded(P, half, sold, h)
                               /\ \A t \in P : trades[t].poll = p /\ trades[t].status = "open"
        BY <1>5, <2>1 DEF CashoutPosition, Position, OpenSide, OpenOn
    <2>3. polls[p].settlement = "none"
        BY <2>1, TradeableUnsettled
    <2>4. \A t \in Trades : \/ trades'[t] = trades[t]
                            \/ /\ trades'[t].poll = p
                               /\ trades'[t].status \in {"open", "cashed_out"}
        BY <1>1, <2>1, <2>2 DEF Recorded, NoTrade, TradeStates
    <2> QED  BY <1>2, <2>3, <2>4, CompleteMoved
<1> QED  BY <1>3, <1>4, <1>5 DEF UserStep, SendEscrow, CheckEscrow, PayCashout

LEMMA SettleComplete ==
    ASSUME CompleteInv, TypeInv', SettledInv', NEW h \in Admins, SettlePollTrades(h)
    PROVE  CompleteInv'
<1>1. PICK p \in Polls, status \in Final, outcome \in Outcomes :
          /\ p = handlers[h].poll /\ status = handlers[h].status
          /\ outcome = handlers[h].outcome /\ polls[p].settlement = "none"
    <2>1. MarketKnown(h)
        BY DEF Handlers, CompleteInv, SettledInv
    <2>2. handlers[h].outcome \in Outcomes
        BY DEF Handlers, CompleteInv, TypeInv, TypeOK, HandlerStates
    <2> QED  BY <2>1, <2>2 DEF SettlePollTrades, MarketKnown, AdminSteps
<1>2. \A q \in Polls : /\ q # p => polls'[q] = polls[q]
                       /\ q = p => polls'[q].settlement = status
    BY <1>1 DEF SettlePollTrades, CompleteInv, TypeInv, TypeOK, PollStates
<1>3. \A t \in Trades : LET s == SettledTrade(t, h) IN
          /\ s.poll = trades[t].poll
          /\ s.status \in IF status = "cancelled" THEN {"cancelled"} ELSE {"won", "lost"}
          /\ s.outcome = IF status = "cancelled" THEN "cancelled" ELSE outcome
    <2>1. \A t \in Trades : trades[t] \in TradeStates
        BY DEF CompleteInv, TypeInv, TypeOK
    <2> QED  BY <1>1, <2>1 DEF SettledTrade, TradeStates
<1>4. trades' = [t \in Trades |-> IF t \in OpenOn(p) THEN SettledTrade(t, h) ELSE trades[t]]
    BY <1>1 DEF SettlePollTrades
<1>5. ASSUME NEW q \in Polls
      PROVE  TradesSettled(q)'
    <2>1. TradesSettled(q)
        BY DEF CompleteInv
    <2>2. CASE q # p
        <3>1. \A t \in Trades : /\ trades'[t].poll = trades[t].poll
                                /\ trades[t].poll = q => trades'[t] = trades[t]
            BY <1>3, <1>4, <2>2 DEF OpenOn
        <3>2. polls'[q] = polls[q] /\ OpenOn(q)' = OpenOn(q)
            BY <1>2, <2>2, <3>1 DEF OpenOn
        <3>3. \A t \in Trades : trades'[t].poll = q => trades'[t] = trades[t]
            BY <3>1
        <3>4. CASE polls[q].settlement = "none"
            BY <2>1, <3>2, <3>3, <3>4 DEF TradesSettled
        <3>5. CASE polls[q].settlement # "none"
            <4>1. PICK o : \A t \in Trades :
                      trades[t].poll = q /\ trades[t].status \in SettledStatuses =>
                          trades[t].outcome = o
                BY <2>1, <3>5 DEF TradesSettled
            <4>2. \A t \in Trades :
                      trades'[t].poll = q /\ trades'[t].status \in SettledStatuses =>
                          trades'[t].outcome = o
                BY <3>3, <4>1
            <4> QED  BY <2>1, <3>2, <3>3, <3>5, <4>2 DEF TradesSettled
        <3> QED  BY <3>4, <3>5
    <2>3. CASE q = p
        <3>1. \A t \in Trades : trades[t].poll = p => trades[t].status \notin SettledStatuses
            BY <1>1, <2>1, <2>3 DEF TradesSettled
        <3>2. \A t \in Trades : trades'[t].poll = p =>
                  /\ trades'[t].status # "open"
                  /\ trades'[t].status \in SettledStatuses =>
                        /\ trades'[t].outcome =
                              IF status = "cancelled" THEN "cancelled" ELSE outcome
                        /\ trades'[t].status \in
                              IF status = "cancelled" THEN {"cancelled"} ELSE {"won", "lost"}
            BY <1>3, <1>4, <3>1 DEF OpenOn
        <3>3. OpenOn(p)' = {}
            BY <3>2 DEF OpenOn
        <3>4. polls'[p].settlement = status
            BY <1>2
        <3>5. \A t \in Trades : trades'[t].poll = p =>
                  /\ trades'[t].status = "cancelled" => status = "cancelled"
                  /\ trades'[t].status \in {"won", "lost"} => status = "resolved"
            BY <3>2 DEF Final, SettledStatuses
        <3> QED  BY <2>3, <3>2, <3>3, <3>4, <3>5 DEF TradesSettled, Final
    <2> QED  BY <2>2, <2>3
<1> QED  BY <1>5 DEF CompleteInv

LEMMA NextComplete ==
    ASSUME CompleteInv, [Next]_vars, ~SlugReuse, \A g, h \in Admins : g = h
    PROVE  CompleteInv'
<1>0. TypeInv' /\ SettledInv'
    BY NextTyped, NextSettled DEF CompleteInv
<1>1. ASSUME UNCHANGED trades,
             \A p \in Polls : polls'[p].settlement = polls[p].settlement
      PROVE  CompleteInv'
    BY <1>0, <1>1, CompleteMoved
<1>2. CASE UNCHANGED <<polls, trades>>
    BY <1>1, <1>2
<1>3. ASSUME UNCHANGED trades, ApplyMarketAutomation
      PROVE  CompleteInv'
    BY <1>1, <1>3, AutomationKeeps DEF Kept, CompleteInv
<1>4. ASSUME UNCHANGED trades, NEW p, NEW edit,
             polls' = [polls EXCEPT ![p] = SavedPoll(p, edit)]
      PROVE  CompleteInv'
    BY <1>1, <1>4 DEF SavedPoll, CompleteInv, TypeInv, TypeOK, PollStates
<1>5. ASSUME NEW h \in Requests, UserRequest(h) \/ UserStep(h)
      PROVE  CompleteInv'
    BY <1>0, <1>2, <1>5, UserStepComplete
    DEF UserRequest, QuoteEscrow, QuoteTrade, QuoteCashout
<1>6. ASSUME NEW h \in Admins, AdminRequest(h)
      PROVE  CompleteInv'
    BY <1>3, <1>4, <1>6
    DEF AdminRequest, AdminResolvePoll, AdminUpdatePoll, AdminCreatePoll
<1>7. ASSUME NEW h \in Admins, AdminStep(h)
      PROVE  CompleteInv'
    <2>1. CASE UpdatePollResolution(h)
        <3>1. \A p \in Polls : polls'[p].settlement = polls[p].settlement
            BY <2>1 DEF UpdatePollResolution, CompleteInv, TypeInv, TypeOK, PollStates
        <3> QED  BY <1>1, <2>1, <3>1 DEF UpdatePollResolution
    <2>2. CASE SavePoll(h)
        BY <1>4, <2>2 DEF SavePoll
    <2> QED  BY <1>0, <1>2, <1>7, <2>1, <2>2, SettleComplete DEF AdminStep, PreviewPollSettlement
<1>8. CASE Environment \/ Fault
    <2>1. CASE \E p \in Polls : Ends(p)
        <3>1. \A p \in Polls : polls'[p].settlement = polls[p].settlement
            BY <2>1 DEF Ends, CompleteInv, TypeInv, TypeOK, PollStates
        <3> QED  BY <1>1, <2>1, <3>1 DEF Ends
    <2> QED  BY <1>2, <1>3, <1>8, <2>1
             DEF Environment, Automate, EscrowMined, Fault, Restart, StoreFails
<1> QED  BY <1>2, <1>5, <1>6, <1>7, <1>8 DEF Next, vars

LEMMA InitComplete ==
    ASSUME Init
    PROVE  CompleteInv
<1>1. \A p \in Polls : TradesSettled(p)
    BY DEF Init, TradesSettled, NoTrade, SettledStatuses
<1> QED  BY <1>1, InitTyped, InitSettled DEF CompleteInv

\* When one administrator request is served at a time and no market is created
\* with the slug of an old one, a settled market has no open trade, and all its
\* trades were settled with one outcome, the one the market was settled with.
THEOREM SettlementsComplete ==
    ASSUME ~SlugReuse, \A g, h \in Admins : g = h
    PROVE  Spec => []SettlementComplete
BY InitComplete, NextComplete, CompleteIsComplete, PTL DEF Spec

----------------------------------------------------------------------------
(* The markets keep their promise *)

\* What a request past its quote relies on: its escrow is still as it was when
\* the request took collateralMu, and its cashout was paid for its position.
Funded(r) ==
    /\ r.pc = "sendEscrow" => r.escrow \in Escrows /\ escrows[r.escrow] = "unsent"
    /\ r.pc \in {"checkEscrow", "createTrade"} =>
          escrows[r.escrow] = "confirmed" /\ r.user = EscrowFrom[r.escrow]
    /\ r.pc = "recordCashout" =>
          /\ payments[r.payment].poll = r.poll
          /\ payments[r.payment].user = r.user
          /\ payments[r.payment].side = r.side

FundedSteps == {"sendEscrow", "checkEscrow", "createTrade", "recordCashout"}

\* A Trade node not yet created has no escrow.
Blank == \A t \in Trades : trades[t].status = "unused" => trades[t].escrow = None

FundsInv == Blank /\ \A h \in Handlers : Funded(handlers[h])

PromiseInv == CashoutInv /\ CompleteInv /\ FundsInv

LEMMA FundedSame ==
    ASSUME NEW r, Funded(r), UNCHANGED payments,
           r.pc \in {"sendEscrow", "checkEscrow", "createTrade"} =>
               escrows'[r.escrow] = escrows[r.escrow]
    PROVE  Funded(r)'
BY DEF Funded

\* The steps that leave escrows and payments alone.
LEMMA QuietFunds ==
    ASSUME FundsInv, Blank', UNCHANGED <<escrows, payments>>,
           \A h \in Handlers : \/ handlers'[h] = handlers[h]
                               \/ handlers'[h].pc \notin FundedSteps
    PROVE  FundsInv'
<1> SUFFICES ASSUME NEW h \in Handlers
             PROVE  Funded(handlers[h])'
    BY DEF FundsInv
<1>1. CASE handlers'[h] = handlers[h]
    BY <1>1 DEF FundsInv, Funded
<1>2. CASE handlers'[h].pc \notin FundedSteps
    BY <1>2 DEF Funded, FundedSteps
<1> QED  BY <1>1, <1>2

\* A step of one request that leaves escrows and payments alone.
LEMMA OneFunded ==
    ASSUME FundsInv, HandlersShape, Blank', UNCHANGED <<escrows, payments>>,
           NEW h \in Handlers, NEW r, Becomes(h, r), Funded(r)
    PROVE  FundsInv'
<1>1. handlers'[h] = r /\ \A g \in Handlers \ {h} : handlers'[g] = handlers[g]
    BY DEF Becomes, HandlersShape
<1>2. ASSUME NEW g \in Handlers
      PROVE  Funded(handlers[g])'
    BY <1>1 DEF Funded, FundsInv
<1> QED  BY <1>2 DEF FundsInv

\* A request past its quote ends: no other is past its own.
LEMMA FundsEnd ==
    ASSUME EscrowInv, Blank', NEW h \in Handlers, handlers[h].pc \in LockedSteps, Return(h)
    PROVE  FundsInv'
<1>1. /\ handlers'[h] = Idle
      /\ \A g \in Handlers \ {h} : handlers'[g] = handlers[g]
    BY ReturnHandler DEF EscrowInv
<1>2. \A g \in Handlers : handlers'[g].pc \notin LockedSteps
    BY <1>1, OthersUnlocked DEF Idle, LockedSteps
<1>3. \A g \in Handlers : Funded(handlers[g])'
    BY <1>2 DEF Funded, LockedSteps
<1> QED  BY <1>3 DEF FundsInv

\* Only an unused Trade node becomes a trade, and none becomes unused again.
LEMMA UsedStays ==
    ASSUME TypeInv, [Next]_vars
    PROVE  \A t \in Trades : trades'[t].status = "unused" => trades'[t] = trades[t]
<1>0. \A t \in Trades : trades[t] \in TradeStates
    BY DEF TypeInv, TypeOK
<1>1. CASE UNCHANGED trades
    BY <1>1
<1>2. ASSUME NEW h \in Requests, CreateTrade(h), ~UNCHANGED trades
      PROVE  \A t \in Trades : trades'[t].status = "unused" => trades'[t] = trades[t]
    <2> DEFINE new == [NoTrade EXCEPT
              !.status = "open", !.poll = handlers[h].poll, !.user = handlers[h].user,
              !.side = handlers[h].side, !.shares = Whole, !.escrow = handlers[h].escrow]
    <2>1. new.status = "open"
        BY DEF NoTrade
    <2>2. trades' = [trades EXCEPT ![NextTrade] = new]
        BY <1>2 DEF CreateTrade
    <2> HIDE DEF new
    <2> QED  BY <2>1, <2>2 DEF TypeInv, TypeOK
<1>3. ASSUME NEW h \in Requests, CashoutPosition(h), ~UNCHANGED trades
      PROVE  \A t \in Trades : trades'[t].status = "unused" => trades'[t] = trades[t]
    <2>1. PICK P, half, sold : /\ trades' = Recorded(P, half, sold, h)
                               /\ \A t \in P : trades[t].status = "open"
        BY <1>3 DEF CashoutPosition, Position, OpenSide, OpenOn
    <2> QED  BY <1>0, <2>1 DEF Recorded, NoTrade, TradeStates
<1>4. ASSUME NEW h \in Admins, SettlePollTrades(h)
      PROVE  \A t \in Trades : trades'[t].status = "unused" => trades'[t] = trades[t]
    <2>1. \A t \in Trades : SettledTrade(t, h).status # "unused"
        BY <1>0 DEF SettledTrade, TradeStates
    <2> QED  BY <1>4, <2>1 DEF SettlePollTrades
<1>5. ASSUME NEW h \in Requests, UserRequest(h) \/ UserStep(h)
      PROVE  \A t \in Trades : trades'[t].status = "unused" => trades'[t] = trades[t]
    <2>1. CASE UserRequest(h)
        BY <1>1, <2>1 DEF UserRequest, QuoteEscrow, QuoteTrade, QuoteCashout
    <2>2. CASE UserStep(h)
        BY <1>1, <1>2, <1>3, <2>2 DEF UserStep, SendEscrow, CheckEscrow, PayCashout
    <2> QED  BY <1>5, <2>1, <2>2
<1>6. CASE \E h \in Admins : AdminRequest(h) \/ AdminStep(h)
    BY <1>1, <1>4, <1>6
    DEF AdminRequest, AdminResolvePoll, AdminUpdatePoll, AdminCreatePoll, AdminStep,
        PreviewPollSettlement, UpdatePollResolution, SavePoll
<1>7. CASE Environment \/ Fault
    BY <1>1, <1>7
    DEF Environment, Automate, Ends, EscrowMined, Fault, Restart, StoreFails
<1> QED  BY <1>1, <1>5, <1>6, <1>7 DEF Next, vars

LEMMA BlankKept ==
    ASSUME TypeInv, Blank, [Next]_vars
    PROVE  Blank'
BY UsedStays DEF Blank

LEMMA UserRequestFunds ==
    ASSUME CashoutInv, FundsInv, Blank', NEW h \in Requests, UserRequest(h)
    PROVE  FundsInv'
<1> USE DEF Handlers
<1>0. UNCHANGED payments /\ UNCHANGED escrows /\ HandlersShape
    BY DEF UserRequest, QuoteEscrow, QuoteTrade, QuoteCashout, CashoutInv, EscrowInv
<1>1. ASSUME NEW p \in Polls, NEW e \in Escrows, QuoteEscrow(h, e, p)
      PROVE  FundsInv'
    <2> DEFINE r == [Idle EXCEPT !.pc = "sendEscrow", !.escrow = e]
    <2>1. r.pc = "sendEscrow" /\ r.escrow = e
        BY DEF Idle
    <2>2. Becomes(h, r) /\ escrows[e] = "unsent"
        BY <1>1 DEF QuoteEscrow
    <2> HIDE DEF r
    <2>3. Funded(r)
        BY <2>1, <2>2 DEF Funded
    <2> QED  BY <1>0, <2>2, <2>3, OneFunded
<1>2. ASSUME NEW p \in Polls, NEW e \in Escrows, NEW side \in Sides,
             QuoteTrade(h, e, p, side)
      PROVE  FundsInv'
    <2> DEFINE r == [Idle EXCEPT !.pc = "checkEscrow", !.poll = p, !.side = side,
                                 !.user = EscrowFrom[e], !.escrow = e]
    <2>1. r.pc = "checkEscrow" /\ r.escrow = e /\ r.user = EscrowFrom[e]
        BY DEF Idle
    <2>2. Becomes(h, r) /\ escrows[e] = "confirmed"
        BY <1>2 DEF QuoteTrade
    <2> HIDE DEF r
    <2>3. Funded(r)
        BY <2>1, <2>2 DEF Funded
    <2> QED  BY <1>0, <2>2, <2>3, OneFunded
<1>3. ASSUME NEW p \in Polls, NEW u \in Users, NEW side \in Sides,
             NEW half \in BOOLEAN, QuoteCashout(h, p, u, side, half)
      PROVE  FundsInv'
    <2> DEFINE r == [Idle EXCEPT !.pc = "payCashout", !.poll = p, !.user = u,
                              !.side = side, !.half = half,
                              !.shares = Sold(Position(p, u, side), half)]
    <2>1. r.pc = "payCashout"
        BY DEF Idle
    <2>2. Becomes(h, r)
        BY <1>3 DEF QuoteCashout
    <2> HIDE DEF r
    <2>3. Funded(r)
        BY <2>1 DEF Funded
    <2> QED  BY <1>0, <2>2, <2>3, OneFunded
<1> QED  BY <1>1, <1>2, <1>3 DEF UserRequest

LEMMA UserStepFunds ==
    ASSUME CashoutInv, FundsInv, Blank', NEW h \in Requests, UserStep(h)
    PROVE  FundsInv'
<1> USE DEF Handlers
<1>0. /\ EscrowInv /\ HandlersShape /\ handlers[h] \in HandlerStates
      /\ Len(payments) \in Nat
    BY DEF CashoutInv, EscrowInv, TypeInv, TypeOK
<1>1. handlers[h].pc \in LockedSteps
    BY DEF UserStep, SendEscrow, CheckEscrow, CreateTrade, PayCashout, CashoutPosition,
           LockedSteps
<1>2. CASE Return(h)
    BY <1>0, <1>1, <1>2, FundsEnd
<1>3. CASE CheckEscrow(h) /\ ~Return(h)
    <2>1. PICK own : own = handlers[h]
        OBVIOUS
    <2> DEFINE r == [own EXCEPT !.pc = "createTrade"]
    <2>2. /\ r.pc = "createTrade" /\ own.pc = "checkEscrow"
          /\ r.escrow = own.escrow /\ r.user = own.user
        BY <1>0, <1>3, <2>1 DEF CheckEscrow, HandlerStates
    <2>3. Becomes(h, r) /\ UNCHANGED escrows /\ UNCHANGED payments
        BY <1>3, <2>1 DEF CheckEscrow
    <2> HIDE DEF r
    <2>4. Funded(own)
        BY <2>1 DEF FundsInv
    <2>5. Funded(r)
        BY <2>2, <2>4 DEF Funded
    <2> QED  BY <1>0, <2>3, <2>5, OneFunded
<1>4. CASE PayCashout(h) /\ ~Return(h)
    <2>1. PICK own : own = handlers[h]
        OBVIOUS
    <2> DEFINE r == [own EXCEPT !.pc = "recordCashout", !.payment = Len(payments) + 1]
    <2>2. /\ r.pc = "recordCashout" /\ r.payment = Len(payments) + 1
          /\ r.poll = own.poll /\ r.user = own.user /\ r.side = own.side
        BY <1>0, <1>4, <2>1 DEF PayCashout, HandlerStates
    <2>3. Becomes(h, r)
        BY <1>4, <2>1 DEF PayCashout
    <2> DEFINE paid == [poll |-> own.poll, user |-> own.user,
                        side |-> own.side, shares |-> own.shares]
    <2>4. payments' = Append(payments, paid)
        BY <1>4, <2>1 DEF PayCashout
    <2>5. paid.poll = own.poll /\ paid.user = own.user /\ paid.side = own.side
        OBVIOUS
    <2> HIDE DEF r, paid
    <2>6. payments'[Len(payments) + 1] = paid
        BY <1>0, <2>4 DEF CashoutInv, TypeInv, TypeOK
    <2>7. handlers'[h] = r /\ \A g \in Handlers \ {h} : handlers'[g] = handlers[g]
        BY <1>0, <2>3 DEF Becomes, HandlersShape
    <2>8. ASSUME NEW g \in Handlers
          PROVE  Funded(handlers[g])'
        <3>1. CASE g = h
            BY <2>2, <2>5, <2>6, <2>7, <3>1 DEF Funded
        <3>2. CASE g # h
            <4>1. handlers[g].pc \notin LockedSteps
                BY <1>0, <1>1, <3>2, OthersUnlocked
            <4> QED  BY <2>7, <3>2, <4>1 DEF Funded, LockedSteps
        <3> QED  BY <3>1, <3>2
    <2> QED  BY <2>8 DEF FundsInv
<1> QED  BY <1>2, <1>3, <1>4 DEF UserStep, SendEscrow, CheckEscrow, CreateTrade,
         PayCashout, CashoutPosition

LEMMA NextFunds ==
    ASSUME CashoutInv, FundsInv, [Next]_vars
    PROVE  FundsInv'
<1>0. /\ Blank' /\ HandlersShape /\ EscrowInv
      /\ handlers = [g \in Handlers |-> handlers[g]]
    BY BlankKept DEF CashoutInv, FundsInv, EscrowInv, HandlersShape
<1>1. CASE UNCHANGED <<escrows, payments, handlers>>
    BY <1>0, <1>1, QuietFunds
<1>2. ASSUME NEW h \in Handlers, NEW r, Becomes(h, r), UNCHANGED <<escrows, payments>>,
             r.pc \notin FundedSteps
      PROVE  FundsInv'
    BY <1>0, <1>2, QuietFunds DEF Becomes
<1>3. ASSUME NEW h \in Handlers, Return(h), UNCHANGED <<escrows, payments>>
      PROVE  FundsInv'
    BY <1>2, <1>3 DEF Return, Idle, FundedSteps
<1>4. ASSUME NEW h \in Requests, UserRequest(h) \/ UserStep(h)
      PROVE  FundsInv'
    BY <1>0, <1>4, UserRequestFunds, UserStepFunds
<1>5. ASSUME NEW h \in Admins, AdminRequest(h)
      PROVE  FundsInv'
    <2>1. CASE \E p \in Managed, d \in Decisions : AdminResolvePoll(h, p, d[1], d[2])
        BY <1>2, <2>1 DEF AdminResolvePoll, Handlers, Idle, FundedSteps
    <2>2. CASE \E p \in Managed, edit \in Edits : AdminUpdatePoll(h, p, edit)
        BY <1>2, <2>2 DEF AdminUpdatePoll, Handlers, Idle, FundedSteps
    <2> QED  BY <1>1, <1>5, <2>1, <2>2 DEF AdminRequest, AdminCreatePoll
<1>6. ASSUME NEW h \in Admins, AdminStep(h)
      PROVE  FundsInv'
    <2>1. handlers[h] \in HandlerStates /\ h \in Handlers
        BY DEF Handlers, CashoutInv, TypeInv, TypeOK
    <2>2. CASE PreviewPollSettlement(h)
        BY <1>2, <2>1, <2>2 DEF PreviewPollSettlement, HandlerStates, FundedSteps
    <2>3. CASE UpdatePollResolution(h)
        <3>1. Becomes(h, [handlers[h] EXCEPT !.pc = "settle"]) \/ Return(h)
            BY <2>3 DEF UpdatePollResolution
        <3> QED  BY <1>2, <1>3, <2>1, <2>3, <3>1
                 DEF UpdatePollResolution, HandlerStates, FundedSteps
    <2> QED  BY <1>3, <1>6, <2>1, <2>2, <2>3 DEF AdminStep, SavePoll, SettlePollTrades
<1>7. CASE Environment
    <2>1. ASSUME NEW e \in Escrows, EscrowMined(e)
          PROVE  FundsInv'
        <3>1. /\ UNCHANGED <<payments, handlers>> /\ escrows[e] = "pending"
              /\ \A d \in Escrows : d # e => escrows'[d] = escrows[d]
            BY <2>1 DEF EscrowMined, CashoutInv, TypeInv, TypeOK
        <3>2. ASSUME NEW h \in Handlers
              PROVE  Funded(handlers[h])'
            <4>1. Funded(handlers[h]) /\ Fits(handlers[h])
                BY DEF FundsInv, CashoutInv, TypeInv
            <4> QED  BY <3>1, <4>1 DEF Funded, Fits
        <3> QED  BY <1>0, <3>2 DEF FundsInv
    <2> QED  BY <1>1, <1>7, <2>1 DEF Environment, Automate, Ends
<1>8. CASE Fault
    <2>1. CASE Restart
        <3>1. \A h \in Handlers : handlers'[h].pc \notin FundedSteps
            BY <2>1 DEF Restart, Idle, FundedSteps
        <3> QED  BY <1>0, <2>1, <3>1, QuietFunds DEF Restart
    <2> QED  BY <1>3, <1>8, <2>1 DEF Fault, StoreFails
<1>9. CASE UNCHANGED vars
    BY <1>1, <1>9 DEF vars
<1> QED  BY <1>4, <1>5, <1>6, <1>7, <1>8, <1>9 DEF Next

LEMMA InitFunds ==
    ASSUME Init
    PROVE  FundsInv
BY DEF Init, FundsInv, Blank, Funded, NoTrade, Idle

PromiseStep == [Promise!PromiseNext]_(Promise!promiseVars)

\* The shares of a position that came to this, before a step and after it.
LEMMA ThoseTotal ==
    ASSUME NEW x, NEW fates
    PROVE  /\ Those(x, fates) \in SUBSET Trades /\ Those(x, fates)' \in SUBSET Trades
           /\ SharesOf(Those(x, fates)) = Total(SharesIn(trades), Those(x, fates))
           /\ SharesOf(Those(x, fates))' = Total(SharesIn(trades'), Those(x, fates)')
<1>1. Those(x, fates) \in SUBSET Trades /\ Those(x, fates)' \in SUBSET Trades
    BY DEF Those
<1>2. SharesOf(Those(x, fates)) = Total(SharesIn(trades), Those(x, fates))
    BY <1>1, SharesTotal
<1>3. PICK T \in SUBSET Trades : T = Those(x, fates)'
    BY <1>1
<1>4. SharesOf(T)' = Total(SharesIn(trades'), T)
    BY SharesTotal
<1>5. SharesOf(Those(x, fates))' = SharesOf(T)'
    BY <1>3
<1> QED  BY <1>1, <1>2, <1>3, <1>4, <1>5

LEMMA ThoseKept ==
    ASSUME NEW x, NEW fates, Those(x, fates)' = Those(x, fates),
           \A t \in Those(x, fates) : trades'[t].shares = trades[t].shares
    PROVE  SharesOf(Those(x, fates))' = SharesOf(Those(x, fates))
<1>1. PICK T \in SUBSET Trades : T = Those(x, fates) /\ T = Those(x, fates)'
    BY DEF Those
<1>2. SharesOf(T)' = SharesOf(T)
    BY <1>1, SumKept
<1> QED  BY <1>1, <1>2

\* The trades of a position change only as far as they are the trades of others.
LEMMA ThoseElsewhere ==
    ASSUME NEW x, NEW fates,
           \A t \in Trades :
              \/ trades'[t] = trades[t]
              \/ t \notin Those(x, fates) /\ t \notin Those(x, fates)'
    PROVE  SharesOf(Those(x, fates))' = SharesOf(Those(x, fates))
<1>1. Those(x, fates)' = Those(x, fates)
    BY DEF Those
<1>2. \A t \in Those(x, fates) : trades'[t].shares = trades[t].shares
    BY <1>1 DEF Those
<1> QED  BY <1>1, <1>2, ThoseKept

LEMMA HeldForm ==
    /\ Held = [x \in Positions |-> Held[x]] /\ Held' = [x \in Positions |-> Held'[x]]
    /\ Owed = [x \in Positions |-> Owed[x]] /\ Owed' = [x \in Positions |-> Owed'[x]]
    /\ \A x \in Positions :
          /\ Held[x] = SharesOf(Those(x, {"open"}))
          /\ Held'[x] = SharesOf(Those(x, {"open"}))'
          /\ Owed[x] = SharesOf(Those(x, {"won", "cancelled"}))
          /\ Owed'[x] = SharesOf(Those(x, {"won", "cancelled"}))'
BY DEF Held, Owed, Positions

\* A position is its market, its user and its side.
LEMMA PositionKey ==
    /\ \A x \in Positions : /\ x[1] \in Polls /\ x[2] \in Users /\ x[3] \in Sides
                            /\ x = <<x[1], x[2], x[3]>>
    /\ \A p \in Polls : \A u \in Users : \A s \in Sides : <<p, u, s>> \in Positions
    /\ Promise!Positions = Positions
BY DEF Positions, Promise!Positions

LEMMA TradesHeld ==
    ASSUME UNCHANGED trades
    PROVE  UNCHANGED <<Spent, Closings, Held, Owed>>
<1>1. UNCHANGED <<Spent, Closings>>
    BY DEF Spent, Closings
<1>2. \A x, fates : SharesOf(Those(x, fates))' = SharesOf(Those(x, fates))
    BY ThoseElsewhere
<1>3. \A x \in Positions : Held'[x] = Held[x] /\ Owed'[x] = Owed[x]
    BY <1>2, HeldForm
<1>4. Held' = Held /\ Owed' = Owed
    BY <1>3, HeldForm
<1> QED  BY <1>1, <1>4

\* No market is settled by the step, and those that are stay as they are.
LEMMA VerdictKept ==
    ASSUME \A p \in Polls : polls'[p].settlement = polls[p].settlement,
           StatusStays \/ UNCHANGED polls
    PROVE  UNCHANGED Verdict
BY DEF Verdict, StatusStays

\* The steps that are none of the promise's.
LEMMA QuietPromise ==
    ASSUME UNCHANGED <<trades, payments>>, UNCHANGED Arrived, UNCHANGED Verdict
    PROVE  PromiseStep
<1>1. UNCHANGED <<Spent, Closings, Held, Owed>>
    BY TradesHeld
<1> QED  BY <1>1 DEF PromiseStep, Promise!promiseVars

\* Only SettlePollTrades settles a market.
LEMMA SettlementKept ==
    ASSUME CompleteInv, [Next]_vars, \A h \in Admins : ~SettlePollTrades(h)
    PROVE  \A p \in Polls : polls'[p].settlement = polls[p].settlement
<1>0. \A p \in Polls : polls[p] \in PollStates
    BY DEF CompleteInv, TypeInv, TypeOK
<1>1. CASE UNCHANGED polls
    BY <1>1
<1>2. CASE ApplyMarketAutomation
    BY <1>2, AutomationKeeps DEF Kept, CompleteInv
<1>3. ASSUME NEW p, NEW edit, polls' = [polls EXCEPT ![p] = SavedPoll(p, edit)]
      PROVE  \A q \in Polls : polls'[q].settlement = polls[q].settlement
    BY <1>0, <1>3 DEF SavedPoll, CompleteInv, TypeInv, TypeOK, PollStates
<1>4. ASSUME NEW h \in Requests, UserRequest(h)
      PROVE  \A p \in Polls : polls'[p].settlement = polls[p].settlement
    BY <1>1, <1>4 DEF UserRequest, QuoteEscrow, QuoteTrade, QuoteCashout
<1>5. ASSUME NEW h \in Requests, UserStep(h)
      PROVE  \A p \in Polls : polls'[p].settlement = polls[p].settlement
    <2>1. UNCHANGED polls \/ \E q, v : polls' = [polls EXCEPT ![q].shares = v]
        BY <1>5 DEF UserStep, SendEscrow, CheckEscrow, CreateTrade, PayCashout,
                    CashoutPosition
    <2>2. ASSUME NEW q, NEW v, polls' = [polls EXCEPT ![q].shares = v]
          PROVE  \A p \in Polls : polls'[p].settlement = polls[p].settlement
        BY <2>2 DEF CompleteInv, TypeInv, TypeOK, PollStates
    <2> QED  BY <2>1, <2>2
<1>6. ASSUME NEW h \in Admins, AdminRequest(h)
      PROVE  \A p \in Polls : polls'[p].settlement = polls[p].settlement
    BY <1>2, <1>3, <1>6
    DEF AdminRequest, AdminResolvePoll, AdminUpdatePoll, AdminCreatePoll
<1>7. ASSUME NEW h \in Admins, AdminStep(h)
      PROVE  \A p \in Polls : polls'[p].settlement = polls[p].settlement
    <2>1. CASE UpdatePollResolution(h)
        BY <2>1 DEF UpdatePollResolution, CompleteInv, TypeInv, TypeOK, PollStates
    <2>2. CASE SavePoll(h)
        BY <1>3, <2>2 DEF SavePoll
    <2> QED  BY <1>1, <1>7, <2>1, <2>2 DEF AdminStep, PreviewPollSettlement
<1>8. CASE Environment \/ Fault
    <2>1. ASSUME NEW p \in Polls, Ends(p)
          PROVE  \A q \in Polls : polls'[q].settlement = polls[q].settlement
        BY <2>1 DEF Ends, CompleteInv, TypeInv, TypeOK, PollStates
    <2> QED  BY <1>1, <1>2, <1>8, <2>1
             DEF Environment, Automate, EscrowMined, Fault, Restart, StoreFails
<1> QED  BY <1>1, <1>4, <1>5, <1>6, <1>7, <1>8 DEF Next, vars

\* ... so that the verdicts are given by it alone.
LEMMA NoVerdict ==
    ASSUME CompleteInv, [Next]_vars, \A h \in Admins : ~SettlePollTrades(h),
           ~SlugReuse, \A g, h \in Admins : g = h
    PROVE  UNCHANGED Verdict
<1>1. \A p \in Polls : polls'[p].settlement = polls[p].settlement
    BY SettlementKept
<1>2. StatusStays \/ UNCHANGED polls
    BY NextSettled DEF CompleteInv, vars
<1> QED  BY <1>1, <1>2, VerdictKept

LEMMA MinedPromise ==
    ASSUME PromiseInv, NEW e \in Escrows, EscrowMined(e), UNCHANGED Verdict
    PROVE  PromiseStep
<1>1. /\ UNCHANGED <<trades, payments>> /\ escrows[e] = "pending"
      /\ escrows'[e] \in {"confirmed", "failed"}
      /\ \A d \in Escrows : d # e => escrows'[d] = escrows[d]
    BY DEF EscrowMined, PromiseInv, CashoutInv, TypeInv, TypeOK
<1>2. e \notin Arrived
    BY <1>1 DEF Arrived
<1>3. CASE escrows'[e] = "confirmed"
    <2>1. Arrived' = Arrived \cup {e}
        BY <1>1, <1>3 DEF Arrived
    <2>2. UNCHANGED <<Spent, Closings, Held, Owed>>
        BY <1>1, TradesHeld
    <2>3. Promise!Arrive(e)
        BY <1>1, <1>2, <2>1, <2>2 DEF Promise!Arrive
    <2> QED  BY <2>3 DEF PromiseStep, Promise!PromiseNext
<1>4. CASE escrows'[e] = "failed"
    <2>1. Arrived' = Arrived
        BY <1>1, <1>4 DEF Arrived
    <2> QED  BY <1>1, <2>1, QuietPromise
<1> QED  BY <1>1, <1>3, <1>4

LEMMA SendPromise ==
    ASSUME PromiseInv, NEW h \in Requests, SendEscrow(h), UNCHANGED Verdict
    PROVE  PromiseStep
<1>1. PICK e \in Escrows : e = handlers[h].escrow /\ escrows[e] = "unsent"
    BY DEF SendEscrow, PromiseInv, FundsInv, Funded, Handlers
<1>2. UNCHANGED <<trades, payments>>
    BY DEF SendEscrow
<1>3. UNCHANGED Arrived
    BY <1>1 DEF SendEscrow, Arrived, PromiseInv, CashoutInv, TypeInv, TypeOK
<1> QED  BY <1>2, <1>3, QuietPromise

LEMMA PayPromise ==
    ASSUME PromiseInv, NEW h \in Requests, PayCashout(h), UNCHANGED Verdict
    PROVE  PromiseStep
<1>1. UNCHANGED trades /\ UNCHANGED Arrived
    BY DEF PayCashout, Arrived
<1>2. CASE UNCHANGED payments
    BY <1>1, <1>2, QuietPromise
<1>3. ASSUME NEW r, payments' = Append(payments, r)
      PROVE  PromiseStep
    <2>1. /\ Len(payments') = Len(payments) + 1
          /\ payments'[Len(payments) + 1] = r
        BY <1>3 DEF PromiseInv, CashoutInv, TypeInv, TypeOK
    <2>2. UNCHANGED <<Spent, Closings, Held, Owed>>
        BY <1>1, TradesHeld
    <2>3. Promise!PayOut
        BY <1>1, <1>3, <2>1, <2>2 DEF Promise!PayOut
    <2> QED  BY <2>3 DEF PromiseStep, Promise!PromiseNext
<1> QED  BY <1>2, <1>3 DEF PayCashout

\* A new trade adds its shares to its own position.
LEMMA BuyPromise ==
    ASSUME PromiseInv, NEW h \in Requests, CreateTrade(h), UNCHANGED Verdict
    PROVE  PromiseStep
<1> USE DEF Handlers
<1>0. UNCHANGED payments /\ UNCHANGED Arrived
    BY DEF CreateTrade, Arrived
<1>1. CASE UNCHANGED trades
    BY <1>0, <1>1, QuietPromise
<1>2. PICK p \in Polls, user \in Users, side \in Sides, e \in Escrows :
          /\ p = handlers[h].poll /\ user = handlers[h].user
          /\ side = handlers[h].side /\ e = handlers[h].escrow
    BY DEF CreateTrade, PromiseInv, CashoutInv, TypeInv, TypeOK, Fits, HandlerStates
<1>3. PICK x \in Positions : x = <<p, user, side>>
    BY PositionKey
<1> DEFINE new == [NoTrade EXCEPT !.status = "open", !.poll = p, !.user = user,
                                  !.side = side, !.shares = Whole, !.escrow = e]
<1>4. CASE /\ Tradeable(p)
           /\ \E t \in Trades : trades[t].status = "unused"
           /\ trades' = [trades EXCEPT ![NextTrade] = new]
    <2>1. /\ new.status = "open" /\ new.poll = p /\ new.side = side /\ new.user = user
          /\ new.shares = Whole /\ new.escrow = e /\ new.payment = 0
        BY DEF NoTrade
    <2>2. trades' = [trades EXCEPT ![NextTrade] = new]
        BY <1>4
    <2>3. PICK n \in Trades : n = NextTrade /\ trades[n].status = "unused"
        BY <1>4, NextUnused
    <2> HIDE DEF new
    <2>4. \A t \in Trades : trades'[t] = IF t = n THEN new ELSE trades[t]
        BY <2>2, <2>3 DEF PromiseInv, CashoutInv, TypeInv, TypeOK
    <2>5. trades[n].escrow = None /\ trades[n].payment = 0
        BY <2>3 DEF PromiseInv, FundsInv, Blank, CashoutInv, TradesPaid
    <2>6. e # None /\ e \in Arrived /\ EscrowFrom[e] = user /\ e \notin Spent
        <3>1. Funded(handlers[h])
            BY DEF PromiseInv, FundsInv
        <3>2. \A t \in Trades : trades[t].escrow # e
            BY <1>2 DEF CreateTrade, PromiseInv, CashoutInv, EscrowInv, EscrowUnused
        <3> QED  BY <1>2, <3>1, <3>2, MarketsAssumption
                 DEF CreateTrade, Funded, Arrived, Spent
    <2>7. Spent' = Spent \cup {e}
        BY <2>1, <2>4, <2>5, <2>6 DEF Spent
    <2>8. Closings' = Closings
        BY <2>1, <2>4, <2>5 DEF Closings
    <2>9. Verdict[p] = "none"
        BY <1>4, TradeableUnsettled DEF PromiseInv, Verdict
    <2>10. \A y \in Positions : Owed'[y] = Owed[y]
        <3> SUFFICES ASSUME NEW y \in Positions
                     PROVE  SharesOf(Those(y, {"won", "cancelled"}))'
                                = SharesOf(Those(y, {"won", "cancelled"}))
            BY HeldForm
        <3>1. \A t \in Trades :
                  \/ trades'[t] = trades[t]
                  \/ /\ t \notin Those(y, {"won", "cancelled"})
                     /\ t \notin Those(y, {"won", "cancelled"})'
            BY <2>1, <2>3, <2>4 DEF Those
        <3> QED  BY <3>1, ThoseElsewhere
    <2>11. Owed' = Owed
        BY <2>10, HeldForm
    <2>12. \A y \in Positions : y # x => Held'[y] = Held[y]
        <3> SUFFICES ASSUME NEW y \in Positions, y # x
                     PROVE  SharesOf(Those(y, {"open"}))' = SharesOf(Those(y, {"open"}))
            BY HeldForm
        <3>1. ~(y[1] = p /\ y[2] = user /\ y[3] = side)
            BY <1>3, PositionKey
        <3>2. \A t \in Trades :
                  \/ trades'[t] = trades[t]
                  \/ t \notin Those(y, {"open"}) /\ t \notin Those(y, {"open"})'
            BY <2>1, <2>3, <2>4, <3>1 DEF Those
        <3> QED  BY <3>2, ThoseElsewhere
    <2>13. Held' = [Held EXCEPT ![x] = Held'[x]]
        BY <2>12, HeldForm
    <2>14. Held'[x] > Held[x]
        <3>1. PICK T \in SUBSET Trades : T = Those(x, {"open"}) /\ IsFiniteSet(T)
            BY MarketsAssumption, ThoseTotal, FS_Subset
        <3>2. x[1] = p /\ x[2] = user /\ x[3] = side
            BY <1>3
        <3>3. Those(x, {"open"})' = T \cup {n} /\ n \notin T
            BY <2>1, <2>3, <2>4, <3>1, <3>2 DEF Those
        <3>4. \A t \in T : SharesIn(trades')[t] = SharesIn(trades)[t]
            BY <2>4, <3>3 DEF SharesIn
        <3>5. SharesIn(trades')[n] = Whole
            BY <2>1, <2>4 DEF SharesIn
        <3>6. \A t \in T : SharesIn(trades)[t] \in Nat
            BY DEF SharesIn, PromiseInv, CashoutInv, TypeInv, TypeOK, TradeStates
        <3>7. Total(SharesIn(trades'), T \cup {n}) = Whole + Total(SharesIn(trades'), T)
            <4>1. \A t \in T \cup {n} : SharesIn(trades')[t] \in Int
                BY <3>4, <3>5, <3>6 DEF Whole
            <4> QED  BY <3>1, <3>3, <3>5, <4>1, TotalAdd
        <3>8. Total(SharesIn(trades'), T) = Total(SharesIn(trades), T)
            BY <3>1, <3>4, TotalSame
        <3>9. Total(SharesIn(trades), T) \in Nat
            BY <3>1, <3>6, TotalNat
        <3>10. Held[x] = Total(SharesIn(trades), T)
            BY <3>1, HeldForm, ThoseTotal
        <3>11. Held'[x] = Total(SharesIn(trades'), T \cup {n})
            <4>1. SharesOf(Those(x, {"open"}))' =
                      Total(SharesIn(trades'), Those(x, {"open"})')
                BY ThoseTotal
            <4>2. Held'[x] = SharesOf(Those(x, {"open"}))'
                BY HeldForm
            <4> QED  BY <3>3, <4>1, <4>2
        <3>12. PICK m \in Nat : m = Total(SharesIn(trades), T)
            BY <3>9
        <3>13. Held[x] = m /\ Held'[x] = 2 + m
            BY <3>7, <3>8, <3>10, <3>11, <3>12 DEF Whole
        <3> QED  BY <3>13
    <2>15. Promise!Buy(e)
        <3>1. x[1] = p /\ x[2] = user /\ x \in Promise!Positions
            BY <1>3, PositionKey
        <3> QED  BY <1>0, <2>6, <2>7, <2>8, <2>9, <2>11, <2>13, <2>14, <3>1
                 DEF Promise!Buy
    <2> QED  BY <2>15 DEF PromiseStep, Promise!PromiseNext
<1> QED  BY <1>1, <1>2, <1>4 DEF CreateTrade, AcceptsTrade

\* A recorded cashout takes what its transfer paid for out of its position.
LEMMA SellPromise ==
    ASSUME PromiseInv, NEW h \in Requests, CashoutPosition(h), UNCHANGED Verdict
    PROVE  PromiseStep
<1> USE DEF Handlers
<1>0. UNCHANGED payments /\ UNCHANGED Arrived
    BY DEF CashoutPosition, Arrived
<1>1. CASE UNCHANGED trades
    BY <1>0, <1>1, QuietPromise
<1>2. PICK p \in Polls, user \in Users, side \in Sides, half \in BOOLEAN :
          /\ p = handlers[h].poll /\ user = handlers[h].user
          /\ side = handlers[h].side /\ half = handlers[h].half
    BY DEF CashoutPosition, PromiseInv, CashoutInv, TypeInv, TypeOK, Fits, HandlerStates
<1>3. PICK x \in Positions : x = <<p, user, side>>
    BY PositionKey
<1>4. PICK P \in SUBSET Trades : P = Position(p, user, side) /\ IsFiniteSet(P)
    <2>1. Position(p, user, side) \in SUBSET Trades
        BY DEF Position, OpenSide, OpenOn
    <2> QED  BY <2>1, MarketsAssumption, FS_Subset
<1>5. PICK sold : sold = Sold(P, half)
    OBVIOUS
<1>6. CASE /\ Tradeable(p) /\ P # {} /\ CanSell(P, half)
           /\ half => \E t \in Trades : trades[t].status = "unused"
           /\ trades' = Recorded(P, half, sold, h)
    <2> DEFINE f == SharesIn(trades)
               g == SharesIn(trades')
    <2>1. /\ P = Those(x, {"open"})
          /\ \A t \in P : /\ trades[t].status = "open" /\ trades[t].poll = p
                          /\ trades[t].user = user /\ trades[t].side = side
        BY <1>3, <1>4 DEF Those, Position, OpenSide, OpenOn
    <2>2. \A t \in Trades : /\ trades[t] \in TradeStates
                            /\ trades[t].status \in {"unused", "open"} => trades[t].payment = 0
                            /\ trades[t].status = "unused" => trades[t].escrow = None
        BY DEF PromiseInv, CashoutInv, TypeInv, TypeOK, TradesPaid, FundsInv, Blank
    <2>3. handlers[h].pc = "recordCashout" /\ handlers[h].shares \in Nat
        BY DEF CashoutPosition, PromiseInv, CashoutInv, TypeInv, TypeOK, HandlerStates
    <2>4. sold = handlers[h].shares
        <3>1. Stands(handlers[h])
            BY <2>3 DEF PromiseInv, CashoutInv, Quoted
        <3> QED  BY <1>2, <1>4, <1>5, <1>6, <3>1 DEF Stands
    <2>5. PICK k \in 1 .. Len(payments) :
              /\ k = handlers[h].payment /\ payments[k].shares = sold
              /\ payments[k].poll = p /\ payments[k].user = user /\ payments[k].side = side
              /\ \A t \in Trades : trades[t].payment # k
        <3>1. Unrecorded(handlers[h]) /\ Funded(handlers[h])
            BY DEF PromiseInv, CashoutInv, FundsInv
        <3> QED  BY <1>2, <2>3, <2>4, <3>1 DEF Unrecorded, Funded
    <2>6. k # 0 /\ k \notin Closings
        <3>1. Len(payments) \in Nat
            BY DEF PromiseInv, CashoutInv, TypeInv, TypeOK
        <3> QED  BY <2>5, <3>1 DEF Closings
    <2>7. Total(f, P) \in Nat /\ SharesOf(P) = Total(f, P)
        <3>1. \A t \in P : f[t] \in Nat
            BY <1>4, <2>2 DEF SharesIn, TradeStates
        <3> QED  BY <1>4, <3>1, SharesTotal, TotalNat
    <2> DEFINE Result ==
                 /\ \A y \in Positions : y # x =>
                       SharesOf(Those(y, {"open"}))' = SharesOf(Those(y, {"open"}))
                 /\ \A y \in Positions :
                       SharesOf(Those(y, {"won", "cancelled"}))'
                           = SharesOf(Those(y, {"won", "cancelled"}))
                 /\ Spent' = Spent /\ Closings' = Closings \cup {k}
                 /\ \E m \in Nat : /\ SharesOf(P) = m + sold
                                   /\ SharesOf(Those(x, {"open"}))' = m
    <2>8. ASSUME ~half
          PROVE  Result
        <3>1. \A t \in Trades :
                  /\ t \in P => /\ trades'[t].status = "cashed_out" /\ trades'[t].payment = k
                                /\ trades'[t].escrow = trades[t].escrow
                  /\ t \notin P => trades'[t] = trades[t]
            <4>1. \A t \in Trades : trades'[t] =
                      IF t \in P THEN [trades[t] EXCEPT !.status = "cashed_out",
                                                       !.payment = handlers[h].payment]
                                 ELSE trades[t]
                BY <1>6, <2>8 DEF Recorded
            <4>2. k = handlers[h].payment
                BY <2>5
            <4> HIDE DEF Result, f, g
            <4> QED  BY <2>2, <4>1, <4>2 DEF TradeStates
        <3>2. ASSUME NEW y \in Positions
              PROVE  /\ y # x => SharesOf(Those(y, {"open"}))' = SharesOf(Those(y, {"open"}))
                     /\ SharesOf(Those(y, {"won", "cancelled"}))'
                            = SharesOf(Those(y, {"won", "cancelled"}))
            <4>1. ASSUME y # x
                  PROVE  \A t \in Trades : \/ trades'[t] = trades[t]
                                           \/ /\ t \notin Those(y, {"open"})
                                              /\ t \notin Those(y, {"open"})'
                <5>1. ~(y[1] = p /\ y[2] = user /\ y[3] = side)
                    BY <1>3, <4>1, PositionKey
                <5> QED  BY <2>1, <3>1, <5>1 DEF Those
            <4>2. \A t \in Trades : \/ trades'[t] = trades[t]
                                    \/ /\ t \notin Those(y, {"won", "cancelled"})
                                       /\ t \notin Those(y, {"won", "cancelled"})'
                BY <2>1, <3>1 DEF Those
            <4> QED  BY <4>1, <4>2, ThoseElsewhere
        <3>3. Spent' = Spent
            BY <3>1 DEF Spent
        <3>4. Closings' = Closings \cup {k}
            BY <1>4, <1>6, <2>1, <2>2, <2>5, <2>6, <3>1 DEF Closings
        <3>5. Those(x, {"open"})' = {}
            BY <1>3, <2>1, <3>1 DEF Those
        <3>6. SharesOf(Those(x, {"open"}))' = 0
            <4>1. SharesOf(Those(x, {"open"}))' =
                      Total(SharesIn(trades'), Those(x, {"open"})')
                BY ThoseTotal
            <4> QED  BY <3>5, <4>1, TotalEmpty
        <3>7. sold = SharesOf(P)
            BY <1>5, <2>8 DEF Sold
        <3>8. SharesOf(P) = 0 + sold
            BY <2>7, <3>7
        <3> QED  BY <3>2, <3>3, <3>4, <3>6, <3>8
    <2>9. ASSUME half
          PROVE  Result
        <3>1. PICK n \in Trades : n = NextTrade /\ trades[n].status = "unused"
            BY <1>6, <2>9, NextUnused
        <3>2. n \notin P
            BY <2>1, <3>1
        <3>3. \A t \in Trades :
                  /\ t \in P => /\ trades'[t].status = "open"
                                /\ trades'[t].poll = trades[t].poll
                                /\ trades'[t].user = trades[t].user
                                /\ trades'[t].side = trades[t].side
                                /\ trades'[t].payment = trades[t].payment
                                /\ trades'[t].escrow = trades[t].escrow
                                /\ trades'[t].shares = trades[t].shares \div 2
                  /\ t = n => /\ trades'[t].status = "cashed_out" /\ trades'[t].payment = k
                              /\ trades'[t].escrow = None
                  /\ t \notin P /\ t # n => trades'[t] = trades[t]
            BY <1>6, <2>1, <2>2, <2>5, <2>9, <3>1, <3>2 DEF Recorded, TradeStates, NoTrade
        <3>4. ASSUME NEW y \in Positions
              PROVE  /\ y # x => SharesOf(Those(y, {"open"}))' = SharesOf(Those(y, {"open"}))
                     /\ SharesOf(Those(y, {"won", "cancelled"}))'
                            = SharesOf(Those(y, {"won", "cancelled"}))
            <4>1. ASSUME y # x
                  PROVE  \A t \in Trades : \/ trades'[t] = trades[t]
                                           \/ /\ t \notin Those(y, {"open"})
                                              /\ t \notin Those(y, {"open"})'
                <5>1. ~(y[1] = p /\ y[2] = user /\ y[3] = side)
                    BY <1>3, <4>1, PositionKey
                <5> QED  BY <2>1, <3>1, <3>3, <5>1 DEF Those
            <4>2. \A t \in Trades : \/ trades'[t] = trades[t]
                                    \/ /\ t \notin Those(y, {"won", "cancelled"})
                                       /\ t \notin Those(y, {"won", "cancelled"})'
                BY <2>1, <3>1, <3>3 DEF Those
            <4> QED  BY <4>1, <4>2, ThoseElsewhere
        <3>5. Spent' = Spent
            BY <2>2, <3>1, <3>3 DEF Spent
        <3>6. Closings' = Closings \cup {k}
            BY <2>2, <2>6, <3>1, <3>2, <3>3 DEF Closings
        <3>7. Those(x, {"open"})' = P
            BY <1>3, <2>1, <3>1, <3>3 DEF Those
        <3>8. \A t \in P : f[t] = Whole /\ g[t] = Whole \div 2
            <4>1. \A t \in P : trades[t].shares = Whole
                BY <1>6, <2>9 DEF CanSell
            <4> QED  BY <1>4, <3>3, <4>1 DEF SharesIn
        <3>9. /\ Total(g, P) = Total(f, P) \div 2
              /\ Total(f, P) = Total(g, P) + Total(g, P)
            BY <1>4, <3>8, HalvedSum
        <3>10. Total(g, P) \in Nat
            BY <1>4, <3>8, TotalNat DEF Whole
        <3>11. SharesOf(Those(x, {"open"}))' = Total(g, P)
            <4>1. SharesOf(Those(x, {"open"}))' =
                      Total(SharesIn(trades'), Those(x, {"open"})')
                BY ThoseTotal
            <4> QED  BY <3>7, <4>1
        <3>12. sold = Total(g, P)
            BY <1>5, <2>7, <2>9, <3>9 DEF Sold
        <3>13. SharesOf(P) = Total(g, P) + sold
            BY <2>7, <3>9, <3>12
        <3> HIDE DEF g
        <3> QED  BY <3>4, <3>5, <3>6, <3>10, <3>11, <3>13
    <2>10. Result
        BY <2>8, <2>9
    <2>11. Owed' = Owed
        BY <2>10, HeldForm
    <2>12. PICK m \in Nat : Held[x] = m + sold /\ Held'[x] = m
        BY <2>1, <2>10, HeldForm
    <2>13. sold \in Nat
        BY <2>3, <2>4
    <2>14. Held[x] >= sold /\ Held'[x] = Held[x] - sold
        BY <2>12, <2>13
    <2>15. \A y \in Positions : y # x => Held'[y] = Held[y]
        BY <2>10, HeldForm
    <2>16. Held' = [Held EXCEPT ![x] = @ - sold]
        BY <2>14, <2>15, HeldForm
    <2>17. Verdict[p] = "none"
        BY <1>6, TradeableUnsettled DEF PromiseInv, Verdict
    <2>18. Promise!Sell(k)
        <3>1. <<payments[k].poll, payments[k].user, payments[k].side>> = x
            BY <1>3, <2>5
        <3> HIDE DEF Result
        <3> QED  BY <1>0, <2>5, <2>6, <2>10, <2>11, <2>14, <2>16, <2>17, <3>1
                 DEF Promise!Sell, Result
    <2> QED  BY <2>18 DEF PromiseStep, Promise!PromiseNext
<1> QED  BY <1>1, <1>2, <1>4, <1>5, <1>6 DEF CashoutPosition

\* A settlement decides every open share of its market.
LEMMA DecidePromise ==
    ASSUME PromiseInv, NEW h \in Admins, SettlePollTrades(h)
    PROVE  PromiseStep
<1> USE DEF Handlers
<1>0. UNCHANGED payments /\ UNCHANGED Arrived
    BY DEF SettlePollTrades, Arrived
<1>1. PICK p \in Polls, status \in Final, outcome \in Outcomes :
          /\ p = handlers[h].poll /\ status = handlers[h].status
          /\ outcome = handlers[h].outcome
          /\ polls[p].settlement = "none" /\ polls[p].status = status
    <2>1. MarketKnown(h)
        BY DEF PromiseInv, CompleteInv, SettledInv
    <2>2. handlers[h].outcome \in Outcomes
        BY DEF PromiseInv, CompleteInv, TypeInv, TypeOK, HandlerStates
    <2> QED  BY <2>1, <2>2 DEF SettlePollTrades, MarketKnown, AdminSteps
<1>2. /\ \A q \in Polls : q # p => polls'[q] = polls[q]
      /\ polls'[p].settlement = status /\ polls'[p].status = status
    BY <1>1 DEF SettlePollTrades, PromiseInv, CompleteInv, TypeInv, TypeOK, PollStates
<1> DEFINE winners == IF status = "cancelled" THEN Sides ELSE {WinnerSide(outcome)}
<1>3. \A t \in Trades :
          /\ trades'[t].poll = trades[t].poll /\ trades'[t].user = trades[t].user
          /\ trades'[t].side = trades[t].side /\ trades'[t].shares = trades[t].shares
          /\ trades'[t].escrow = trades[t].escrow
          /\ trades'[t].payment = trades[t].payment
          /\ trades[t].poll # p \/ trades[t].status # "open" => trades'[t] = trades[t]
          /\ trades[t].poll = p /\ trades[t].status = "open" =>
                /\ trades'[t].status # "open"
                /\ trades'[t].status \in {"won", "cancelled"}
                      <=> trades[t].side \in winners
    <2>1. \A t \in Trades : trades[t] \in TradeStates
        BY DEF PromiseInv, CashoutInv, TypeInv, TypeOK
    <2>2. \A t \in Trades : LET s == SettledTrade(t, h) IN
              /\ s.poll = trades[t].poll /\ s.user = trades[t].user
              /\ s.side = trades[t].side /\ s.shares = trades[t].shares
              /\ s.escrow = trades[t].escrow /\ s.payment = trades[t].payment
              /\ s.status # "open"
              /\ s.status \in {"won", "cancelled"} <=> trades[t].side \in winners
        BY <1>1, <2>1 DEF SettledTrade, ShouldPay, TradeStates
    <2>3. trades' = [t \in Trades |-> IF t \in OpenOn(p) THEN SettledTrade(t, h)
                                      ELSE trades[t]]
        BY <1>1 DEF SettlePollTrades
    <2>4. \A t \in Trades : t \in OpenOn(p) <=> trades[t].poll = p /\ trades[t].status = "open"
        BY DEF OpenOn
    <2> HIDE DEF winners
    <2> QED  BY <2>2, <2>3, <2>4
<1>4. winners \in {Sides} \cup {{s} : s \in Sides} /\ (winners = Sides <=> status = "cancelled")
    BY DEF Sides, WinnerSide
<1> HIDE DEF winners
<1>5. \A t \in Trades : trades[t].poll = p => trades[t].status \notin SettledStatuses
    <2>1. TradesSettled(p)
        BY DEF PromiseInv, CompleteInv
    <2> QED  BY <1>1, <2>1 DEF TradesSettled
<1>6. Spent' = Spent /\ Closings' = Closings
    BY <1>3 DEF Spent, Closings
<1>7. Verdict[p] = "none" /\ Verdict' = [Verdict EXCEPT ![p] = status] /\ Verdict'[p] = status
    BY <1>1, <1>2 DEF Verdict, Final
<1>8. ASSUME NEW x \in Positions, x[1] # p
      PROVE  Held'[x] = Held[x] /\ Owed'[x] = Owed[x]
    <2>1. ASSUME NEW fates
          PROVE  SharesOf(Those(x, fates))' = SharesOf(Those(x, fates))
        <3>1. \A t \in Trades : \/ trades'[t] = trades[t]
                                \/ t \notin Those(x, fates) /\ t \notin Those(x, fates)'
            BY <1>3, <1>8 DEF Those
        <3> QED  BY <3>1, ThoseElsewhere
    <2> QED  BY <2>1, HeldForm
<1>9. ASSUME NEW x \in Positions, x[1] = p
      PROVE  Held'[x] = 0 /\ Owed'[x] = IF x[3] \in winners THEN Held[x] ELSE 0
    <2>1. PICK T \in SUBSET Trades : T = Those(x, {"open"})
        BY ThoseTotal
    <2>2. Those(x, {"open"})' = {}
        BY <1>3, <1>9 DEF Those
    <2>3. Those(x, {"won", "cancelled"})' = IF x[3] \in winners THEN T ELSE {}
        BY <1>3, <1>5, <1>9, <2>1 DEF Those, SettledStatuses
    <2>4. SharesOf(T)' = SharesOf(T)
        BY <1>3, SumKept
    <2>5. Held'[x] = 0
        <3>1. SharesOf(Those(x, {"open"}))' =
                  Total(SharesIn(trades'), Those(x, {"open"})')
            BY ThoseTotal
        <3> QED  BY <2>2, <3>1, TotalEmpty, HeldForm
    <2>6. Held[x] = SharesOf(T) /\ Owed'[x] = SharesOf(Those(x, {"won", "cancelled"}))'
        BY <2>1, HeldForm
    <2>7. CASE x[3] \in winners
        <3>1. SharesOf(Those(x, {"won", "cancelled"}))' = SharesOf(T)'
            BY <2>3, <2>7
        <3> QED  BY <2>4, <2>5, <2>6, <2>7, <3>1
    <2>8. CASE x[3] \notin winners
        <3>1. SharesOf(Those(x, {"won", "cancelled"}))' =
                  Total(SharesIn(trades'), Those(x, {"won", "cancelled"})')
            BY ThoseTotal
        <3> QED  BY <2>3, <2>5, <2>6, <2>8, <3>1, TotalEmpty
    <2> QED  BY <2>7, <2>8
<1>10. Held' = [x \in Positions |-> IF x[1] = p THEN 0 ELSE Held[x]]
    BY <1>8, <1>9, HeldForm
<1>11. Owed' = [x \in Positions |-> IF x[1] # p THEN Owed[x]
                                   ELSE IF x[3] \in winners THEN Held[x] ELSE 0]
    BY <1>8, <1>9, HeldForm
<1>12. Promise!Decide(p)
    <2>1. Verdict'[p] \in {"resolved", "cancelled"}
        BY <1>7 DEF Final
    <2>2. winners = Sides <=> Verdict'[p] = "cancelled"
        BY <1>4, <1>7
    <2> QED  BY <1>0, <1>4, <1>6, <1>7, <1>10, <1>11, <2>1, <2>2, PositionKey
             DEF Promise!Decide
<1> QED  BY <1>12 DEF PromiseStep, Promise!PromiseNext

LEMMA NextPromise ==
    ASSUME PromiseInv, [Next]_vars, ~SlugReuse, \A g, h \in Admins : g = h
    PROVE  PromiseInv' /\ PromiseStep
<1>1. PromiseInv'
    BY NextCashout, NextComplete, NextFunds DEF PromiseInv
<1>2. CASE \E h \in Admins : SettlePollTrades(h)
    BY <1>1, <1>2, DecidePromise
<1>3. CASE \A h \in Admins : ~SettlePollTrades(h)
    <2>1. UNCHANGED Verdict
        BY <1>3, NoVerdict DEF PromiseInv
    <2>2. CASE UNCHANGED <<trades, payments, escrows>>
        <3>1. UNCHANGED Arrived
            BY <2>2 DEF Arrived
        <3> QED  BY <1>1, <2>1, <2>2, <3>1, QuietPromise
    <2>3. ASSUME NEW h \in Requests, UserRequest(h) \/ UserStep(h)
          PROVE  PromiseStep
        <3>1. CASE UserRequest(h)
            BY <2>2, <3>1 DEF UserRequest, QuoteEscrow, QuoteTrade, QuoteCashout
        <3>2. CASE UserStep(h)
            <4>1. CASE CheckEscrow(h)
                BY <2>2, <4>1 DEF CheckEscrow
            <4> QED  BY <2>1, <3>2, <4>1, SendPromise, BuyPromise, PayPromise, SellPromise
                     DEF UserStep
        <3> QED  BY <2>3, <3>1, <3>2
    <2>4. CASE \E h \in Admins : AdminRequest(h) \/ AdminStep(h)
        BY <1>3, <2>2, <2>4
        DEF AdminRequest, AdminResolvePoll, AdminUpdatePoll, AdminCreatePoll, AdminStep,
            PreviewPollSettlement, UpdatePollResolution, SavePoll
    <2>5. CASE Environment \/ Fault
        BY <1>1, <2>1, <2>2, <2>5, MinedPromise
        DEF Environment, Automate, Ends, Fault, Restart, StoreFails
    <2>6. CASE UNCHANGED vars
        BY <2>2, <2>6 DEF vars
    <2> QED  BY <1>1, <2>3, <2>4, <2>5, <2>6 DEF Next
<1> QED  BY <1>2, <1>3

LEMMA InitPromise ==
    ASSUME Init
    PROVE  Promise!PromiseInit
<1>1. \A t \in Trades : /\ trades[t].status = "unused" /\ trades[t].escrow = None
                        /\ trades[t].payment = 0
    BY DEF Init, NoTrade
<1>2. Arrived = {} /\ Spent = {} /\ Closings = {} /\ payments = <<>>
    BY <1>1 DEF Init, Arrived, Spent, Closings
<1>3. Verdict = [p \in Polls |-> "none"]
    BY DEF Init, Verdict
<1>4. ASSUME NEW x \in Positions
      PROVE  Held[x] = 0 /\ Owed[x] = 0
    <2>1. Those(x, {"open"}) = {} /\ Those(x, {"won", "cancelled"}) = {}
        BY <1>1 DEF Those
    <2>2. /\ SharesOf(Those(x, {"open"})) = 0
          /\ SharesOf(Those(x, {"won", "cancelled"})) = 0
        <3>1. SharesOf(Those(x, {"open"})) = Total(SharesIn(trades), Those(x, {"open"}))
            BY ThoseTotal
        <3>2. SharesOf(Those(x, {"won", "cancelled"})) =
                  Total(SharesIn(trades), Those(x, {"won", "cancelled"}))
            BY ThoseTotal
        <3> QED  BY <2>1, <3>1, <3>2, TotalEmpty
    <2> QED  BY <2>2, HeldForm
<1>5. Held = [x \in Positions |-> 0] /\ Owed = [x \in Positions |-> 0]
    BY <1>4, HeldForm
<1> QED  BY <1>2, <1>3, <1>5, PositionKey DEF Promise!PromiseInit

\* When one administrator request is served at a time and no market is created
\* with the slug of an old one, the markets implement MarketPromise: however
\* requests, automation and restarts interleave, every step is one step of the
\* promise or none.
THEOREM PromiseKept ==
    ASSUME ~SlugReuse, \A g, h \in Admins : g = h
    PROVE  Spec => KeepsPromise
<1>1. Init => PromiseInv /\ Promise!PromiseInit
    BY InitCashout, InitComplete, InitFunds, InitPromise DEF PromiseInv
<1>2. PromiseInv /\ [Next]_vars =>
          PromiseInv' /\ [Promise!PromiseNext]_(Promise!promiseVars)
    BY NextPromise DEF PromiseStep
<1> QED  BY <1>1, <1>2, PTL DEF Spec, KeepsPromise, Promise!PromiseSpec

=============================================================================
