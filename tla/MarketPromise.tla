--------------------------- MODULE MarketPromise ---------------------------
(***************************************************************************)
(* What the markets promise those who trade on them: a transfer that has   *)
(* arrived buys once, for the user who sent it; shares leave a position    *)
(* when a cashout was paid for exactly so many; a verdict is given once,   *)
(* and at that moment every share of the market is decided: those of a     *)
(* winning side are owed to their holder, and nothing is left to trade.    *)
(*                                                                         *)
(* Trades, quotes, requests, prices and locks are not part of the promise. *)
(***************************************************************************)
EXTENDS Naturals, Sequences

CONSTANTS Polls, Users, Sides,
          Transfers, From  \* From[e]: the user who sends transfer e

VARIABLES
    arrived,   \* the transfers that reached the escrow
    spent,     \* those that bought shares
    held,      \* held[x]: the shares of position x
    payments,  \* the cashouts that were paid, in order
    recorded,  \* those that were taken out of their position
    owed,      \* owed[x]: the shares of position x whose payout is due
    verdict    \* verdict[p]: what was decided of market p

promiseVars == <<arrived, spent, payments, recorded, verdict, held, owed>>

Positions == Polls \X Users \X Sides

PromiseInit ==
    /\ arrived = {} /\ spent = {} /\ payments = <<>> /\ recorded = {}
    /\ verdict = [p \in Polls |-> "none"]
    /\ held = [x \in Positions |-> 0]
    /\ owed = [x \in Positions |-> 0]

Arrive(e) ==
    /\ e \notin arrived
    /\ arrived' = arrived \cup {e}
    /\ UNCHANGED <<spent, held, payments, recorded, owed, verdict>>

Buy(e) ==
    /\ e \in arrived \ spent
    /\ spent' = spent \cup {e}
    /\ \E x \in Positions :
          /\ x[2] = From[e] /\ verdict[x[1]] = "none"
          /\ held'[x] > held[x]
          /\ held' = [held EXCEPT ![x] = held'[x]]
    /\ UNCHANGED <<arrived, payments, recorded, owed, verdict>>

\* A payment may be lost: the market may be decided before it is recorded.
PayOut ==
    /\ Len(payments') = Len(payments) + 1
    /\ payments' = Append(payments, payments'[Len(payments) + 1])
    /\ UNCHANGED <<arrived, spent, held, recorded, owed, verdict>>

Sell(i) ==
    LET x == <<payments[i].poll, payments[i].user, payments[i].side>> IN
    /\ i \notin recorded
    /\ recorded' = recorded \cup {i}
    /\ verdict[payments[i].poll] = "none"
    /\ held[x] >= payments[i].shares
    /\ held' = [held EXCEPT ![x] = @ - payments[i].shares]
    /\ UNCHANGED <<arrived, spent, payments, owed, verdict>>

\* One side has won, or the market is cancelled and every side is owed its stake.
Decide(p) ==
    /\ verdict[p] = "none" /\ verdict'[p] \in {"resolved", "cancelled"}
    /\ verdict' = [verdict EXCEPT ![p] = verdict'[p]]
    /\ \E winners \in {Sides} \cup {{s} : s \in Sides} :
          /\ winners = Sides <=> verdict'[p] = "cancelled"
          /\ owed' = [x \in Positions |->
                IF x[1] # p THEN owed[x] ELSE IF x[3] \in winners THEN held[x] ELSE 0]
    /\ held' = [x \in Positions |-> IF x[1] = p THEN 0 ELSE held[x]]
    /\ UNCHANGED <<arrived, spent, payments, recorded>>

PromiseNext ==
    \/ \E e \in Transfers : Arrive(e) \/ Buy(e)
    \/ PayOut
    \/ \E i \in 1 .. Len(payments) : Sell(i)
    \/ \E p \in Polls : Decide(p)

PromiseSpec == PromiseInit /\ [][PromiseNext]_promiseVars

=============================================================================
