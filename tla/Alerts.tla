------------------------------- MODULE Alerts -------------------------------
(***************************************************************************)
(* The alerts that users have set on one market: of its price, of its      *)
(* closing within a day, and of its settlement.                            *)
(*                                                                         *)
(* Users save and delete their alerts at any time.  A trade tells of the   *)
(* price while it still holds collateralMu, a cashout moves the price and  *)
(* tells nobody, administrators settle without a lock, and a worker looks  *)
(* for markets that close soon.  Each of the store's queries finds the     *)
(* alerts, creates the notifications and marks the alerts in one           *)
(* transaction; transactions are taken one at a time.                      *)
(*                                                                         *)
(* The price is that of "yes", of Whole.  Only trades and cashouts move    *)
(* it: an administrator's change of the liquidity is left out.  So are the *)
(* notifications a handler makes for its own user, reading them, and the   *)
(* watch list.                                                             *)
(***************************************************************************)
EXTENDS Naturals

CONSTANTS
    Subscribers,   \* the users
    Orders,        \* concurrently served trades and cashouts
    Settlers,      \* concurrently served POST /admin/polls/:id/resolution
    NoOrder,
    Whole,         \* the price of "yes" and that of "no" make this
    MaxSwitches,   \* bounds how often a user switches one alert on
    MaxServed      \* bounds the trades, cashouts and changes of the status

ASSUME AlertsAssumption ==
    /\ NoOrder \notin Orders
    /\ Whole \in Nat \ {0, 1}
    /\ MaxSwitches \in Nat /\ MaxServed \in Nat

VARIABLES
    alerts,     \* the HAS_MARKET_ALERT relationship of each user
    poll,       \* the market's status, and how far off its end is
    price,      \* the price of "yes"
    lock,       \* collateralMu: the order that holds it
    orders,     \* the local state of every trade and cashout
    settlers,   \* the local state of every change of the status
    inbox,      \* how many notifications of each kind a user was sent
    switched,   \* how often a user has switched each alert on
    heard,      \* the settlement a user was told of since switching that on
    beyond,     \* told of a crossing that the price has not left again?
    served      \* trades, cashouts and changes of the status begun

alertsVars == <<alerts, poll, price, lock, orders, settlers, inbox, switched,
                heard, beyond, served>>

----------------------------------------------------------------------------
(* Types *)

AlertKinds == {"price", "closing", "resolution"}
Settlements == {"resolved", "cancelled"}
PollStatuses == {"published", "paused"} \cup Settlements
Prices == 1 .. Whole - 1

\* on = {} stands for no relationship.
AlertStates == [on : SUBSET AlertKinds, direction : {"above", "below"},
                threshold : Prices, closingSent : BOOLEAN,
                status : Settlements \cup {"none"}]

NoAlert == [on |-> {}, direction |-> "above", threshold |-> 1,
            closingSent |-> FALSE, status |-> "none"]
IdleOrder == [pc |-> "idle", user |-> NoOrder, old |-> 1, new |-> 1]
IdleSettler == [pc |-> "idle", status |-> "paused"]

AlertsTypeOK ==
    /\ alerts \in [Subscribers -> AlertStates]
    /\ poll \in [status : PollStatuses, ends : {"later", "soon", "past"}]
    /\ price \in Prices
    /\ lock \in Orders \cup {NoOrder}
    /\ orders \in [Orders -> [pc : {"idle", "trade", "cashout", "notify"},
                              user : Subscribers \cup {NoOrder},
                              old : 0 .. Whole, new : Prices]]
    /\ \A o \in Orders : orders[o].pc # "idle" <=> lock = o
    /\ settlers \in [Settlers -> [pc : {"idle", "update", "notify"},
                                  status : PollStatuses]]
    /\ inbox \in [Subscribers -> [AlertKinds -> Nat]]
    /\ switched \in [Subscribers -> [AlertKinds -> 0 .. MaxSwitches]]
    /\ heard \in [Subscribers -> Settlements \cup {"none"}]
    /\ beyond \in [Subscribers -> BOOLEAN]
    /\ served \in 0 .. MaxServed

AlertsInit ==
    /\ alerts = [u \in Subscribers |-> NoAlert]
    /\ poll = [status |-> "published", ends |-> "later"]
    /\ price \in Prices
    /\ lock = NoOrder
    /\ orders = [o \in Orders |-> IdleOrder]
    /\ settlers = [a \in Settlers |-> IdleSettler]
    /\ inbox = [u \in Subscribers |-> [k \in AlertKinds |-> 0]]
    /\ switched = [u \in Subscribers |-> [k \in AlertKinds |-> 0]]
    /\ heard = [u \in Subscribers |-> "none"]
    /\ beyond = [u \in Subscribers |-> FALSE]
    /\ served = 0

----------------------------------------------------------------------------
(* PUT and DELETE /market-alerts/:slug *)

\* Mutant: whatever was saved before, the alert begins anew.
ForgottenSent(u, on) == FALSE

\* coalesce(a.closingAlertSentAt, "") while it is enabled, "" when it is not.
KeptSent(u, on) == "closing" \in on /\ alerts[u].closingSent

\* Mutant: the same of the settlement.
ForgottenStatus(u, on) == "none"

KeptStatus(u, on) == IF "resolution" \in on THEN alerts[u].status ELSE "none"

\* A price that is not asked for is stored as "above", 50.
UpsertMarketAlert(u, on, direction, threshold) ==
    LET saved == [on |-> on, closingSent |-> KeptSent(u, on),
                  status |-> KeptStatus(u, on),
                  direction |-> IF "price" \in on THEN direction ELSE "above",
                  threshold |-> IF "price" \in on THEN threshold
                                ELSE Whole \div 2]
        new == on \ alerts[u].on
    IN
    /\ on # {}
    /\ \A k \in new : switched[u][k] < MaxSwitches
    /\ alerts' = [alerts EXCEPT ![u] = saved]
    /\ switched' = [switched EXCEPT ![u] = [k \in AlertKinds |->
                       IF k \in new THEN @[k] + 1 ELSE @[k]]]
    /\ heard' = [heard EXCEPT ![u] = IF "resolution" \in on THEN @ ELSE "none"]
    /\ beyond' = [beyond EXCEPT ![u] =
                     /\ @
                     /\ "price" \in on \cap alerts[u].on
                     /\ direction = alerts[u].direction
                     /\ threshold = alerts[u].threshold]
    /\ UNCHANGED <<poll, price, lock, orders, settlers, inbox, served>>

DeleteMarketAlert(u) ==
    /\ alerts' = [alerts EXCEPT ![u] = NoAlert]
    /\ heard' = [heard EXCEPT ![u] = "none"]
    /\ beyond' = [beyond EXCEPT ![u] = FALSE]
    /\ UNCHANGED <<poll, price, lock, orders, settlers, inbox, switched, served>>

----------------------------------------------------------------------------
(* Notifications *)

Notified(us, kind) ==
    inbox' = [u \in Subscribers |-> IF u \in us THEN [inbox[u] EXCEPT ![kind] = @ + 1]
                                    ELSE inbox[u]]

\* Is this price on the side the alert waits for?
Reaches(alert, p) ==
    IF alert.direction = "above" THEN p >= alert.threshold
    ELSE p <= alert.threshold

\* NotifyMarketPriceAlerts: those whose threshold the trade crossed, but for the
\* trader.
Crossed(user, old, new) ==
    {u \in Subscribers \ {user} : /\ "price" \in alerts[u].on
                                  /\ ~Reaches(alerts[u], old)
                                  /\ Reaches(alerts[u], new)}

\* ProcessDueMarketClosingAlerts
DueClosing ==
    {u \in Subscribers : /\ "closing" \in alerts[u].on
                         /\ ~alerts[u].closingSent
                         /\ poll.status = "published"
                         /\ poll.ends = "soon"}

\* NotifyMarketResolutionAlerts
NotTold(status) ==
    {u \in Subscribers : /\ "resolution" \in alerts[u].on
                         /\ alerts[u].status # status}

----------------------------------------------------------------------------
(* Trades and cashouts *)

\* Mutant: the price of the side that is traded is taken for that of "yes".
SpotPrice(side) == IF side = "no" THEN Whole - price ELSE price

\* oldYesPercent
OldYesPercent(side) ==
    LET spot == IF side = "no" THEN Whole - price ELSE price IN
    IF side = "no" THEN Whole - spot ELSE spot

\* collateralMu is taken and the order quoted: a trade moves the price towards
\* its side, a cashout away from it.
QuoteOrder(o, u, pc, side, new) ==
    /\ orders[o].pc = "idle" /\ lock = NoOrder
    /\ poll.status = "published" /\ poll.ends # "past"
    /\ served < MaxServed
    /\ IF (pc = "trade") = (side = "yes") THEN new >= price ELSE new <= price
    /\ lock' = o
    /\ served' = served + 1
    /\ orders' = [orders EXCEPT ![o] = [pc |-> pc, user |-> u, new |-> new,
                                        old |-> OldYesPercent(side)]]
    /\ UNCHANGED <<alerts, poll, price, settlers, inbox, switched, heard, beyond>>

\* It is deferred to the end of the handler.
LockAfterFill(o) == IF orders[o].pc = "trade" THEN lock ELSE NoOrder

\* CreateTrade or CashoutPosition succeeds; it is refused when the market
\* has closed meanwhile.
FillOrder(o) ==
    /\ orders[o].pc \in {"trade", "cashout"}
    /\ poll.status = "published" /\ poll.ends # "past"
    /\ price' = orders[o].new
    /\ beyond' = [u \in Subscribers |-> beyond[u] /\ Reaches(alerts[u], price')]
    /\ orders' = [orders EXCEPT ![o] = IF @.pc = "trade" THEN [@ EXCEPT !.pc = "notify"]
                                       ELSE IdleOrder]
    /\ lock' = LockAfterFill(o)
    /\ UNCHANGED <<alerts, poll, settlers, inbox, switched, heard, served>>

NotifyMarketPriceAlerts(o) ==
    LET us == Crossed(orders[o].user, orders[o].old, orders[o].new) IN
    /\ orders[o].pc = "notify"
    /\ Notified(us, "price")
    /\ beyond' = [u \in Subscribers |-> beyond[u] \/ u \in us]
    /\ orders' = [orders EXCEPT ![o] = IdleOrder]
    /\ lock' = NoOrder
    /\ UNCHANGED <<alerts, poll, price, settlers, switched, heard, served>>

\* A refusal, or a failure of the store where the trade or its alerts are
\* written; nothing tries the alerts again.
OrderFails(o) ==
    /\ orders[o].pc # "idle"
    /\ orders' = [orders EXCEPT ![o] = IdleOrder]
    /\ lock' = NoOrder
    /\ UNCHANGED <<alerts, poll, price, settlers, inbox, switched, heard, beyond,
                   served>>

----------------------------------------------------------------------------
(* POST /admin/polls/:id/resolution, and the worker *)

\* GetPollByID and isSettledPoll: a settled market keeps its status.
ChangeStatus(a, status) ==
    /\ settlers[a].pc = "idle"
    /\ poll.status \notin Settlements
    /\ served < MaxServed
    /\ served' = served + 1
    /\ settlers' = [settlers EXCEPT ![a] = [pc |-> "update", status |-> status]]
    /\ UNCHANGED <<alerts, poll, price, lock, orders, inbox, switched, heard,
                   beyond>>

\* UpdatePollResolution, and SettlePollTrades when the market is settled.
UpdateStatus(a) ==
    LET status == settlers[a].status IN
    /\ settlers[a].pc = "update"
    /\ poll' = [poll EXCEPT !.status = status]
    /\ settlers' = IF status \in Settlements
                   THEN [settlers EXCEPT ![a].pc = "notify"]
                   ELSE [settlers EXCEPT ![a] = IdleSettler]
    /\ UNCHANGED <<alerts, price, lock, orders, inbox, switched, heard, beyond,
                   served>>

NotifyMarketResolutionAlerts(a) ==
    LET status == settlers[a].status
        us == NotTold(status)
    IN
    /\ settlers[a].pc = "notify"
    /\ Notified(us, "resolution")
    /\ alerts' = [u \in Subscribers |-> IF u \in us
                     THEN [alerts[u] EXCEPT !.status = status] ELSE alerts[u]]
    /\ heard' = [u \in Subscribers |-> IF u \in us THEN status ELSE heard[u]]
    /\ settlers' = [settlers EXCEPT ![a] = IdleSettler]
    /\ UNCHANGED <<poll, price, lock, orders, switched, beyond, served>>

SettlerFails(a) ==
    /\ settlers[a].pc # "idle"
    /\ settlers' = [settlers EXCEPT ![a] = IdleSettler]
    /\ UNCHANGED <<alerts, poll, price, lock, orders, inbox, switched, heard,
                   beyond, served>>

\* startMarketAlertWorker, a tick; there is one worker in every server.
ProcessDueMarketClosingAlerts ==
    /\ DueClosing # {}
    /\ Notified(DueClosing, "closing")
    /\ alerts' = [u \in Subscribers |-> IF u \in DueClosing
                     THEN [alerts[u] EXCEPT !.closingSent = TRUE] ELSE alerts[u]]
    /\ UNCHANGED <<poll, price, lock, orders, settlers, switched, heard, beyond,
                   served>>

\* Time passes, or an administrator moves the end.
EndComes ==
    /\ \E ends \in {"later", "soon", "past"} \ {poll.ends} :
          poll' = [poll EXCEPT !.ends = ends]
    /\ UNCHANGED <<alerts, price, lock, orders, settlers, inbox, switched, heard,
                   beyond, served>>

----------------------------------------------------------------------------
(* Specification *)

AlertsNext ==
    \/ \E u \in Subscribers :
          \/ \E on \in SUBSET AlertKinds, direction \in {"above", "below"},
                threshold \in Prices : UpsertMarketAlert(u, on, direction, threshold)
          \/ DeleteMarketAlert(u)
          \/ \E o \in Orders, pc \in {"trade", "cashout"}, side \in {"yes", "no"},
                new \in Prices : QuoteOrder(o, u, pc, side, new)
    \/ \E o \in Orders :
          FillOrder(o) \/ NotifyMarketPriceAlerts(o) \/ OrderFails(o)
    \/ \E a \in Settlers :
          \/ \E status \in PollStatuses : ChangeStatus(a, status)
          \/ UpdateStatus(a)
          \/ NotifyMarketResolutionAlerts(a)
          \/ SettlerFails(a)
    \/ ProcessDueMarketClosingAlerts
    \/ EndComes

AlertsSpec == AlertsInit /\ [][AlertsNext]_alertsVars

----------------------------------------------------------------------------
(* Properties *)

\* A user is sent one notice of the closing for every time she switches it on,
\* however often she saves her alerts, the end is moved, and whichever servers'
\* workers look (UpsertMarketAlert, ProcessDueMarketClosingAlerts).
ClosingToldOnce ==
    \A u \in Subscribers : inbox[u]["closing"] <= switched[u]["closing"]

\* Two administrators who settle a market alike at once do not tell its users
\* twice, though these save their alerts in between (NotifyMarketResolutionAlerts).
SettlementToldOnce ==
    [][\A u \in Subscribers :
          inbox'[u]["resolution"] # inbox[u]["resolution"]
             => heard'[u] # heard[u]]_alertsVars

\* Between two price alerts on one threshold the price has been on its other
\* side: the quote a trade tells of is that of the market, because trades and
\* cashouts hold collateralMu from the quote to the alert (createTrade).
PriceAlertsAlternate ==
    [][\A u \in Subscribers :
          inbox'[u]["price"] # inbox[u]["price"] => ~beyond[u]]_alertsVars

=============================================================================
