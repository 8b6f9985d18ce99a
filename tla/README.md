# BudolPH: a verification project

This directory holds TLA+ models of the BudolPH API (`src/`, a Go server over a
Memgraph store), TLC configurations that check them on small instances, and
theorems about them that TLAPS proves for instances of every size.

| module | component | question |
|---|---|---|
| `Markets` | escrow, trades, cashouts, settlement of markets | does every payment back one trade, and is a settlement complete and final? |
| `MarketPromise` | what the markets promise those who trade | (abstract specification, implemented by `Markets`) |
| `Payouts` | paying the trades of a settled market | is every trade paid once, and shown as paid only then? |
| `PayoutPromise` | what a settled market promises its users | (abstract specification, implemented by `Payouts`) |
| `ShieldedQueue` | the queue of relayed shielded withdrawals | is a withdrawal executed by one executor at a time, and decided in the end? |
| `WithdrawalPromise` | what that queue promises a user | (abstract specification, implemented by `ShieldedQueue`) |
| `Collateral` | the guarantee that payouts can be paid | by how much can what is owed exceed the treasury, with payments unmined, paid again or recorded late? |
| `Accounts` | logins, welcome grants, wallet history | is the grant of a User node sent once for each attempt, and does a challenge open one session? |
| `EngineKeys` | API keys, rotation, rate limiter | does a dead key stay dead, and what does the limiter really admit? |
| `SponsorPolicy` | daily limits of gas-free trades | by how much can stale counts exceed them? |
| `Alerts` | price, closing and settlement alerts | is nobody told twice? |
| `NewsScout` | scans, candidates, reviews | is a review final, and has an approval all its polls? |
| `NewsGroups` | grouping of articles into stories | are the stories of a scan apart from each other, and is a corroborated one corroborated? |

`MCMarkets`, `MCPayouts`, `MCShieldedQueue`, `MCAccounts` and `MCServices`
instantiate them for TLC.  The proofs are in `MarketsProofs`, `PayoutsProofs`,
`ShieldedQueueProofs`, `AccountsProofs`, `CollateralProofs` and `ServicesProofs`; they
share `SumTheorems`, lemmas about sums over finite sets.  `ScenesProofs` brings the
theorems about the services together for the run that checks them side by side.
`PROJECT.json` maps every definition to the lines it models, and names for every property
of a passing run a bug in those lines that would break it.

## 1. Inventory of the system

All state lives in three places: the nodes of the graph store, the chain behind
the gateway (GMR Engine, WalletOps), and what a handler has read and not yet
written.  A handler is a sequence of store transactions and gateway calls; one
process-wide mutex, `Server.collateralMu`, covers some of these sequences.
Nothing is shared between two servers but the store and the chain.  The store has
no uniqueness constraint, so that "one X per Y" is always a query's doing.

**Trading and settlement** (`httpapi/api.go`, `store/trading.go`,
`store/admin.go`).  State: `Poll` nodes (status, outcome, settlement, the market
maker's shares), `Trade` nodes, escrow and cashout transfers.  Operations:
escrow quote and transfer, `createTrade`, `cashoutPosition`, the automation run by
every listing, `adminResolvePoll`, `adminUpdatePoll`, `adminCreatePoll`.  Hard: the
administrator's handlers are read-then-write without the mutex; a payment comes
before its record; the preview of a settlement is older than the settlement.
Correct when: one escrow backs one trade; the shares equal what the open trades
are owed; settlement is complete and final; a recorded cashout is what was paid.

**Payouts** (`httpapi/private_claim.go`, `private_claim_registry.go`,
`shielded_payout.go`, `api.go`, `store/private_claim.go`, `store/trading.go`).
State: the payout status, transaction ids and claim of each trade, `PrivateClaim`
nodes by nullifier, transactions.  Operations: public claim, private claim (with
registration and, for some trades, a credit to the shielded pool in several
notes), the administrator's retry of a claim, retry of a settlement, and two
reconciliations.  Hard: reserve, pay and record are separate; whether a nullifier is used
is read from nodes that the transaction neither writes nor locks; the gateway's error
may come after the broadcast; waits time out; a credit stops half way.  Correct
when: a reservation is exclusive and stands; no unit is paid twice; "sent" means
confirmed; losers are never paid; a nullifier is used for one trade (it is not, see
section 7); a reservation is answered.

**Shielded withdrawal queue** (`httpapi/shielded_payout.go`,
`store/private_claim.go`).  State: `ShieldedWithdrawal` nodes, the pause setting,
each server's worker.  Operations: request, user's and administrator's retry, mark as
suspicious, force process, pause, the worker's batch (recover, list, mark,
execute, wait, record).  Hard: several servers, stale lists, restarts in
processing, answers that come late.  Correct when: one executor, bounded tries,
confirmed means paid and stays, suspicious is held, everything is decided.

**Collateral and pricing** (`httpapi/collateral.go`, `store/trading.go`).  State:
what open trades and fixed payouts bind, the treasury's balance on the chain.
Operations: the check of every outflow (trades, cashouts, payouts, grants,
administrators' transfers) and its release.  Hard: the balance is read before
accepted payments are mined; a settlement takes no lock; a claim reads its payout before
it has the lock and records it after; a settlement's retry releases what was sent before.
Correct when: the treasury covers the worst outcome of every market once everything is
mined, but for what the last check could not see, and nothing else.

**Logins and welcome grants** (`httpapi/api.go`, `wallet_auth.go`,
`session/session.go`, `store/user.go`).  State: `User`, `WalletLoginChallenge`
and `TokenGrant` nodes, the transfers of the project's wallet, notifications of
received transfers.  Operations: signed and Google logins, grant and its attempt
at login, the administrator's retry, the reconciliation with the wallet history.
Hard: several logins and a retry read one grant; the gateway's error may come
after the broadcast; the wallet may be replaced; nothing makes the user of an address or
of an e-mail unique, so that one owner may have several nodes.  Correct when: one session
for a challenge; a transfer of each node's grant for each counted attempt; a grant that
landed becomes sent.

**Engine keys and limiter** (`httpapi/engine_auth.go`, `store/engine_auth.go`).
State: `EngineAPIKey` nodes, buckets in memory.  Hard: the clock is read outside
the lock; a rotation is two writes; a restart forgets the buckets.  Correct when:
a rotated key is dead, a revoked one begins nothing, the limiter admits its limit.

**Sponsor policy** (`api.go`, `store/sponsor.go`).  State: the policy, the recorded
escrows of the day.  Hard: counted before the transfer, recorded after it, and the
record may fail; a policy that cannot be read is replaced by the default one.  Correct
when: the excess over the limits is bounded.

**Alerts** (`httpapi/market_alerts.go`, `store/notifications.go`).  State: the alerts
of a user on a market, with what was told.  Hard: saving an alert, trading, settling
and the worker interleave.  Correct when: nobody is told twice of one thing.

**News scout** (`newsagent/`, `httpapi/news_agent.go`, `store/news_candidates.go`).
State: a flag in memory, candidates, polls.  Hard: scans that fail; approvals in
several transactions among edits, rejections and other approvals.  Correct when: one
scan at a time; a review is final; an approved candidate has its polls; no two headlines of
a scan are alike, and corroboration is by another publisher.

**Not modelled** (each is a component in `PROJECT.json`; see section 8): the Merkle
tree and roots of private claims, wallet authorisations, titles and classifications
of polls, reconciliation of trade escrows, profiles and aliases, the clients,
configuration and start.

## 2. Markets

*State.*  `polls[p]` has the fields of a `Poll` that decide about trading and
settlement (`over`: `endsAt` has passed), `trades[t]` those of a `Trade`, `escrows`
and `payments` are transfers on the chain, `handlers[h]` holds the local variables
of a request with the step it stands at, `mutex` is `collateralMu`.

*Actions.*  A user's request is one action up to its next gateway call or store
transaction: `QuoteEscrow`, `SendEscrow`; `QuoteTrade`, `CheckEscrow` (the
transaction that looks for the escrow), `CreateTrade` (the one that writes);
`QuoteCashout`, `PayCashout`, `CashoutPosition`.  The trade's check and write are
one store transaction each side of which another transaction may run, because
they touch no common node when the two trades are on two markets.  An
administrator's request takes no mutex: `AdminResolvePoll` checks, then
`PreviewPollSettlement`, `UpdatePollResolution` and `SettlePollTrades` follow one
by one; `AdminUpdatePoll` checks and `SavePoll` writes; `AdminCreatePoll` leads to the
same save.  `Automate` is `ApplyMarketAutomation` at every listing; `Ends` is the
clock; `Restart` drops every handler and the mutex; `StoreFails` lets any store
transaction fail.

*Left out.*  Prices, amounts and visibility.  A trade has two shares, a cashout
sells a position or one half of it; a refused collateral check is a step not
taken.  New slugs are not created during a run: all markets exist at the start.
`Managed`, `Decisions`, `Edits` and `MaxPayments` bound what administrators ask for
and how many cashouts are paid.

*Runs.*

| run | instance | shows |
|---|---|---|
| `Markets` | 2 markets, 1 user, 2 trades, 2 escrows, 2 user requests, 1 administrator (on one market), 1 cashout payment | `TypeOK`, `EscrowBacksOneTrade`, `SharesMatchOpenTrades`, `SettlementComplete`, `RecordedCashoutIsPaid`, `KeepsPromise` hold |
| `MarketsReopened` | 1 market, slugs may be reused | `SettledMarketsStay` is violated: `POST /admin/polls` with the slug of a settled market overwrites it |

Two markets and two requests are what sharing an escrow needs; two trades are one
position that is halved, or two that are merged.  One administrator: with two the
code breaks `SettledMarketsStay` and with it the promise (both pass the check), see the
hazards.  Only the first market may end by its time (`SecondStaysOpen`): it is the one
administrators work on, and the end of the second would only refuse requests on it.
`SettledMarketsStay` is checked by the run that violates it only: it holds when no slug
is used again and one administrator acts at a time, neither of which the code sees to, and
`KeepsPromise`, which is claimed under these two assumptions, has it in its verdicts.
A trade placed between the preview of a settlement and the closing of its market is settled
with the others and may win with payout status `none`; a private claim and a settlement's
retry accept such a trade, the public claim does not.
Requests and escrows are symmetric; trades are chosen with CHOOSE and are not.

*The promise.*  `MarketPromise` is what those who trade may rely on, without trades,
quotes, requests or prices: transfers that arrive and buy once, positions with the shares
that are held and the shares that are owed, paid cashouts, and a verdict for each market.
`KeepsPromise` is that specification under a mapping that adds up trades: a position holds
the shares of its open trades and is owed those of its won or cancelled ones; a transfer is
spent when a trade names it, a cashout is recorded when a closed trade names its payment,
and the verdict is the status of a market that was settled.  `EscrowMined` is `Arrive`,
`CreateTrade` is `Buy`, `PayCashout` is `PayOut`, `CashoutPosition` is `Sell` and
`SettlePollTrades` is `Decide`; every other step is a stutter.  An escrow that buys twice
would be no step of the promise, nor would a cashout that takes more than was paid for, a
verdict that is changed, a trade on a decided market, or a settlement that forgets a share.
A cashout that was paid may never be recorded, because the code pays first; the promise
says so.

*Proved* (`MarketsProofs`), for every number of markets, users, trades, requests:

- `OneTradePerEscrow`: `Spec => []EscrowBacksOneTrade`.  The invariant `EscrowInv`
  adds to the shapes of the variables: `LockHeld`, a request between its quote and
  its last transaction holds the mutex, and `EscrowUnused`, the escrow of a request
  that passed the check is on no trade.  Without the mutex `EscrowUnused` is not
  kept by another request's `CreateTrade`, which is why the code needs it.
- `MarketsTyped`: `Spec => []TypeOK`.  `TypeInv` adds `Fits`, what a request at a
  step has in its variables.  A count of shares is never negative, because a cashout
  takes from its market only what it closes of its trades.
- `SharesMatch`: `Spec => []SharesMatchOpenTrades`.  The market maker's shares are
  the sum of those of the open trades, and every action moves both by the same
  number.  The steps are lemmas about a sum of which one summand changes
  (`SumTheorems`).
- `CashoutsArePaid`: `Spec => []RecordedCashoutIsPaid`.  `CashoutInv` adds `Quoted`,
  that the position a cashout was quoted for is there still, or gone altogether (a
  settlement may take it, an order of another request may not add to it);
  `Unrecorded`, that the transfer of a cashout about to be recorded paid for its
  quote and is on no trade yet; and `TradesPaid`, that only closed trades name a
  transfer.
- `SettlementsComplete`: `Spec => []SettlementComplete`, under two hypotheses:
  `~SlugReuse`, and at most one administrator's request at a time.  The code enforces
  neither, and without either it breaks the property (a settled market is reopened,
  or two settlements run at once).  `CompleteInv` is `SettledInv`, that a settled market
  is resolved or cancelled and that no administrator's request past its check is about
  to change it, with `TradesSettled`: before its settlement a market has no settled
  trade; after it, it has no open one, and all that were settled have one outcome, of
  the kind the market was settled with.
- `PromiseKept`: `Spec => KeepsPromise`, under the same two hypotheses.
  `PromiseInv` is `CashoutInv` and `CompleteInv` with two parts more: `Funded`, that an
  escrow about to be sent is unsent, that the escrow of a request which passed the check
  has arrived and is its user's, and that a cashout about to be recorded was paid for the
  position it closes; and `Blank`, that a trade not yet created has no escrow.  The first state maps
  to the first state; each action has a lemma that names its step of the promise, and
  the sums change as `SumTheorems` says.

All assume `MarketsAssumption`, which TLC evaluates.

## 3. Payouts

*State.*  `trades[t]`: payout status, transaction ids, claim.  `claims[t][n]`: the
`PrivateClaim` of a trade with a nullifier.  `pollTxs`: the ids a settlement retry left on the
poll.  `chain[x]`: which units transaction `x` pays, and whether it is pending,
confirmed or failed.  A payout is a set of units, so that a direct transfer (all
units) and a shielded credit (one per note) are compared on one scale.

*Actions.*  `ReserveDirectTradePayout` is the reserving transaction of the public claim,
with every early return before it: it tests and writes one trade, and the store refuses one
of two that do.  The private claim's transaction has two queries.  `RetryPrivateClaim` is
the first one, which takes up a failed claim and writes what it matched.  The second one
looks for the nullifier (`FindNullifier`) and creates the claim (`ReservePrivateClaim`):
what it read of its own trade is still true when it commits, since it writes it; what it
read of other claims need not be.  Then one action for each gateway
call, wait and recording: `RegisterPrivateClaim`, `TransferAccepted`,
`TransferRefused`, `WaitForTransactionStatus`, `BeginCredit`, `ApproveNote`,
`AwaitApproval`, `DepositNote`, `AwaitDeposit`, `CompleteDirectTradePayout`,
`CompletePrivateClaimPayout`.  `AdminRetryPrivateClaimPayout`,
`AdminReconcilePrivateClaimPayout`, `AdminRetrySettlementPayout` and
`AdminReconcileSettlementPayout` start the administrator's requests.  The fold of all
unfinished statuses to "submitted" is `walletopsTransactionStatus`'s.  The gateway
returns one id for each accepted transfer.  A deposit that is not awaited is recorded with
what the gateway answered at once, which may be final for this deposit already
(`DepositNote`), and the answer to the last one stands for the credit (`NoteCredited`).  `DirtyErrors` lets its error follow
the broadcast.

*Specifications.*  `UserSpec`: only users claim, with faults.  `Spec`: with the
administrator.  `LiveSpec`: users, no faults, and strong fairness of each request's
steps: gateway calls and waits have timeouts, and Go's mutex hands itself to
waiters in turn, so that a step possible again and again is taken.  Faults are left
out of it because the code recovers no reservation after a crash.

*Runs.*

| run | instance | shows |
|---|---|---|
| `PayoutsClaims` | 2 trades (won, cashed out), 2 users, 2 requests, 4 transactions, clean errors, direct payouts, faults | `TypeOK`, `ClaimExclusive`, `PaidAtMostOnce`, `KeepsPromise` |
| `PayoutsShielded` | 1 trade of two notes, 2 requests, deposits awaited, dirty errors, no faults | `ReservationStands`, `SentMeansPaid`, `ReservationAnswered` |
| `PayoutsAdmin` | winner and loser of one user, users and administrators, faults | `LosersNeverPaid`, `OneLockedSection` |
| `PayoutsNullifier` | 2 trades of one user, 1 nullifier, 2 requests | `NullifierUsedOnce` is violated: both find the nullifier unused, and both claims are reserved |
| `PayoutsDirtyGateway` | 1 trade, dirty errors | `PaidAtMostOnce` is violated: an error after the broadcast is recorded as failed and claimed again |
| `PayoutsFailedClaim` | a shielded credit that fails after its approval | `FailedClaimReconciledFirst` is violated by the public claim |
| `PayoutsSettlementRetry` | 2 trades, administrator | `RetryPaysOnlyOwed` is violated: a retry pays what is already sent |

The number of transactions bounds a behaviour: each trade can be paid, refused and
paid again, which is one more than any counterexample needs.  Requests and
nullifiers are symmetric.

*Proved.*  `TypeCorrect` (`Spec => []TypeOK`); its invariant adds `HandlerOK`, that a
request which pays has a trade.  `ClaimsExclusive` and `ReservationsStand`
(`UserSpec`): `ReservationInv` says that a request past the reservation of a trade
is the only one and the trade says `claim_pending`; each implies the other across a
step, so neither is inductive alone.  `PaidOnce` (`UserSpec`, direct payouts, clean
errors): `PaymentInv` adds `OpenUnpaid`, that no live transaction pays a trade that may
be reserved again, and `ClaimsKnow`, what a request past its reservation knows of the
transactions that pay its trade: none before its transfer, only its own while it
waits, none again once it has read that its own failed.

Two more hold with the administrator and the faults too (`Spec`).  `LockedAlone`
proves `OneLockedSection`: `LockInv` adds that only a settlement's retry sends under
the lock, and that it does nothing but send, wait and record, so that a failed credit,
which leaves the locked section, is never such a retry's.  `LosersUnpaid` proves
`LosersNeverPaid`: `WinnersInv` says that a losing trade has no claim, that every
request under way serves a payable trade, and that no transaction pays a loser.

`SentPaid` proves `SentMeansPaid` (`UserSpec`) for direct and shielded payouts and whatever
the gateway's errors say, under `CreditsAwaited`: every deposit is awaited, or no payout is
shielded.  Production requires the first where credits are enabled (`config.go:258`).
Without it the property is false: the last deposit's answer may be "confirmed" while an
earlier one is pending.  It is not inductive, since only the
request that records "sent" has seen the confirmations.  `SentInv` adds `KnowsPaid`, what
a request knows of the chain at each of its steps: the notes it has done are paid, the
transaction it waits for moves the note that is next (or the whole payout), and a result
"sent" stands for a payout that is confirmed in full.

*The promise.*  `PayoutPromise` is what a settled market promises its users: three sets
of trades, whose payout is `moving` to the chain, was `paid`, and is `shown` as sent.  A
trade that is due moves, then fails or lands, may move again only after it has failed, and
is shown when it has landed, for good.  A trade that was cashed out before the settlement
may begin at any of these stages.  `KeepsPromise` is that specification under the mapping
which reads `moving` and `paid` off the transactions (`PaidBy`) and `shown` off the payout
status; reservations, registrations, refusals, waits, lost records and restarts are
stutters.  A second transfer of what is moving or paid would be no step of the promise, nor
would a "sent" without a confirmation, or one that is taken back.  `PromiseKept` proves it
under the assumptions of `PaidOnce` (`CleanDirect`): the first states map to first states,
and every step to a step of the promise or a stutter.  It uses `PaymentInv` (no transfer
begins while another is under way or has landed), `SentInv` (what is shown was paid),
`WinnersInv` (what moves is due) and `WholePayouts`, that a transaction pays all the units
of one trade.

*Not claimed.*  `SentMeansPaid` is false once an administrator reconciles a private
claim by its first transaction only, or deposits are not awaited, and `PaidAtMostOnce` once administrators retry;
all are in the list of hazards.  The promise is broken in the same ways, and by an error
that follows the broadcast.  It says nothing of shielded credits: a credit is one payment
for each note, and one that fails after some of them leaves a trade neither paid nor
unpaid.

## 4. ShieldedQueue

*State.*  `withdrawals[w]`: status, attempts, and `late`, the one thing the code
asks of a time: a waiting withdrawal is due, or the last write of one in
processing is stale.  `granted`: how often it was retried by hand after it had
stopped (not in the code; the attempts are compared with it).  `txs[w]`: the
transactions sent.  `executors[x]`: worker or request, its batch and its current
withdrawal.  `paused`.

*Actions.*  One for each operation of section 1; a batch is `Tick` (the pause is
read), `RecoverStaleShieldedWithdrawals`, `ListDueShieldedWithdrawals`, and for each
entry `MarkShieldedWithdrawalProcessing`, `ExecuteShieldedWithdrawal`,
`WaitForGMRTransaction`, `CompleteShieldedWithdrawalExecution`.  `Mined` is the pool
contract, which pays a nullifier once; it is not in this repository.  `Restart` stops
an executor, `StoreFails` fails a transaction.  Production requires
`SHIELDED_PAYOUT_REQUIRED`, so every transaction is waited for.

`Overtaking = FALSE` is an assumption about time and operators: a withdrawal
becomes stale (default 600 s) only when nobody works on it (the wait ends after
90 s), and one that was marked suspicious is not retried by hand while its execution
still runs.  With `TRUE`, `OneExecutor`, `AttemptsBounded` and `ConfirmedStays` fail.

*Fairness* (`LiveSpec`).  Time passes (weak fairness of `BecomesDue`, `BecomesStale`).  A
worker is restarted by `main` and ticks again; restarts may recur for ever, so its
steps get strong fairness: none of them is interrupted each time.  `Mined` has none:
a transaction may stay pending for ever, and the wait ends by its timeout.

*The promise.*  `WithdrawalPromise` is what a user is promised: three sets that only
grow, of the withdrawals requested, paid and shown as confirmed, each a part of the
one before, one withdrawal a step.  `KeepsPromise` is its specification under the
mapping that reads the three sets off the statuses and the mined transactions; a
batch, a mark, a retry, a failure or a restart is a stutter.  A second payment of a
withdrawal would be no step of the promise, nor would a payment before the request,
or a confirmation that is missing a payment or is taken back.

*Run* `ShieldedQueue`: one withdrawal, two workers, one administrator's request, two
tries, one manual retry, under `LiveSpec`.  It shows `TypeOK`, `OneExecutor`,
`AttemptsBounded`, `ConfirmedMeansSpent`, `ConfirmedStays`, `SuspiciousHeld`,
`EventuallyDecided` and `KeepsPromise`.  Two workers and a request are what is needed
to overtake, to recover and to force at once.  Two withdrawals meet only in a batch,
whose length one withdrawal cannot fill: that the list is taken in order and its rest
is left to the next tick is in the model and not exercised by this run; the safety
theorems below hold for any number of them.

*Proved* (`ShieldedQueueProofs`), for every number of withdrawals, workers, requests
and tries, from `QueueAssumption`.  Under `~Overtaking`: `ExecutedByOne` (`OneExecutor`),
`TriesBounded` (`AttemptsBounded`) and `ConfirmedFinal` (`ConfirmedStays`).  Neither
`OneExecutor` nor `AttemptsBounded` is inductive: `QueueInv` adds `HeldInProcessing`, that
a withdrawal somebody executes is in processing or suspicious, not late, and has as
many attempts as its executor has counted, and `TriesLeft`, that a withdrawal that
waits has a try left.  Without any assumption about time: `ConfirmedPaid`
(`ConfirmedMeansSpent`, from `PaidInv`, which adds `ResultsTrue`, that an executor about
to record a success has seen it mined), `SuspiciousStays` (`SuspiciousHeld`) and
`QueueTypes` (`TypeOK`), for which `BatchesSound` says that a batch is no longer than its
limit and that an executor between two executions remembers its batch only.

`PromiseKept` (`~Overtaking`) proves the refinement: the first state maps to the first
one, and each step to a step of `WithdrawalPromise` or a stutter.  It uses `QueueInv` and
`PaidInv` (a result is recorded by the one executor that saw the payment) and
`SentRequested`, that a withdrawal with a transaction was asked for.  `Overtaking` matters
here too: a late result may be written over a confirmed withdrawal.

## 5. The services

These seven modules share no state, and one run, `Services` (`MCServices`), checks
them side by side: `scene` is chosen in the first state, and one module moves under
the bounds of that scene while the others keep their initial state.  The bounds
leave out steps, never change one; the proofs below are of the modules' own
specifications, without bounds.  `ScenesAreServices` (`ScenesProofs`) proves what that
means: a behaviour of the run is a behaviour of each of the seven specifications, so that
what is proved of them holds in every scene.  `ScenesTyped` follows, `ServicesTypeOK` for
the run itself.

| scene | module | instance | why it is enough |
|---|---|---|---|
| `retries` | `Accounts` | 1 Google user, 2 logins, 1 administrator's retry, 2 transfers, 1 retried attempt | two requests read one grant; one more transfer than the first |
| `replaced` | `Accounts` | the same without the retry, wallets 1 and 2 | the wallet changes between any two steps, once |
| `airdrops` | `Accounts` | an administrator's other transfers, one login, one reader | a transfer that looks like the grant and is not |
| `signatures` | `Accounts` | 2 challenges of one address, 2 User nodes of it, 2 logins | two requests consume one challenge, or two; the second login makes a second node |
| `limiter` | `EngineKeys` | 1 key, 3 callers, limit 1, 2 minutes, 1 restart | a caller with the old minute, and one of each minute |
| `rotation` | `EngineKeys` | 2 keys, 1 administrator, 1 caller | the old key and its successor |
| `prices`, `settlement` | `Alerts` | 1 of 2 users, 2 orders or 2 administrators, prices 1 to 3, each alert switched on at most twice, 2 orders or changes | a price below, at and above a threshold; two who tell at once |
| `news` | `NewsScout` | 1 story, 2 versions (one choice, two choices), 2 scans, 2 approvals | an edit under an approval, two approvals, a creation that stops half-way |
| `groups` | `NewsGroups` | 5 articles of 2 publishers, feeds of up to 3, limits 1 and 2, every filter | chains of likeness: the third article is like the second and not like the first |
| `treasury` | `Collateral` | 1 market, 2 trades, treasury up to 4, 1 payment unmined; the first trade may be claimed | two positions on one or both sides, one outflow under way and one not mined; a claim, a retry and a record of one payout |
| `sponsors` | `SponsorPolicy` | 2 wallets, 2 requests, 2 policies, of which the looser is the default, 1 lost record a wallet | one request counts while the other sends |

**`Accounts`.**  A request is at one of the steps between its store transactions:
`WalletLoginVerify` consumes a challenge, `UpsertExternalWallet`, `UpsertGoogleManaged`
and `CreateGoogleManaged` write the user, `GrantWelcomeTokens` is
`CreateTokenGrantIfMissing` with the decision to attempt, then the attempt with its
three outcomes, `UpdateTokenGrantStatus` and `IssueUserSession`.  The wallet page
goes through the transfers the chain shows (`OpenWalletHistory`,
`ReconcileTransfer`, `NoteReceivedTransfer`).  `retried` counts the attempts at a
grant that was there before: the code allows them, and `SentOncePerAttempt` says
that nothing else sends the tokens of a node again.

An owner (a Google account, or the key of a wallet) and a User node are two things.  The
store's MERGE finds a node by the e-mail, or by the address letter by letter, and makes one
when it finds none; nothing makes either unique and the case of an address is not folded.
So a signed login finds one of its owner's nodes, or makes a new one, under another
spelling or beside a first login that is still being stored; a Google login looks
(`UpsertGoogleManaged`) and creates (`CreateGoogleManaged`) in two steps, between which
another may create.  Each node has a welcome grant of its own to the one wallet:
`SentOncePerAttempt` bounds the tokens of a node, and the code has no bound for an owner.
The MERGE of a grant is one step, because its transaction writes an edge of the user, and
the store refuses one of two that do.  The run has two nodes of one address; two nodes of
one Google account are covered by the theorem.

*Fairness.*  `PageFairness` speaks of readers only: their requests go on (weak
fairness: every store call and gateway call has a timeout), users come back to their
wallet page, and the page is not interrupted at one transfer for ever (strong
fairness, since a restart may interrupt it any number of times).  The gateway has
no fairness, and neither have restarts, failures or administrators.
`LandedGrantBecomesSent` speaks of Google accounts, and names the two ways in which the
code leaves a landed grant pending: the wallet was replaced, or a failed reconciliation left a plain
notification, after which the transfer is not looked at again.

*Run* `WelcomeGrantStale` (1 user, 1 login): the promise of a unit test that a stale
pending grant is retried is broken at the only place a login could keep it, see
section 7.

*Proved* (`AccountsProofs`), for every number of owners, nodes, challenges, requests and
transfers: `AccountsTyped`, `OneSession`, `SentAsCounted`.  The invariant
`AccountsInv` adds to the types: `RequestsSound`, what a request at a step knows;
`SessionInv`, that a challenge is open, or in one request, or has opened its session,
and never two of these; `AttemptsCounted`, that the transfers of a grant and the
requests about to make one are together no more than the attempts counted.
`SentOncePerAttempt` alone is not inductive, since a request about to send has been
admitted already.  It needs the transfers and requests to be finitely many.

**`EngineKeys`.**  `RequireEngineScope` verifies the key, `ReadClock` is the line of
`allow` before its lock, `Allow` the rest under it.  `reopened` counts the restarts
and the requests that turn a bucket back to an earlier minute, and `RateLimited` says
that the limit is exceeded by one quota for each of these and by nothing else.

*Proved* (`ServicesProofs`): `KeysTyped`, `RotatedDead` (with `KeysHeld`: a rotation
on its way has revoked the key it replaces), `AdmittedWithinLimit` and
`RevokedBeginsNothing`.  `AdmittedCounted` strengthens the limit by what the present
bucket says of each minute: those before its window may be full, its own holds the
bucket's count, those after it are empty.  `RevokedKeyBeginsNothing` is proved and in no
run: TLC has nothing to add to it.

**`NewsScout`.**  A scan is `ScanWithFilter` (the flag, tested and set under its
mutex), `InvokeWorkflow`, one `CreateNewsCandidateIfMissing` for each story and
`EndScan`, the deferred reset.  An approval reads the candidate
(`AdminApproveNewsCandidate`), saves a poll for each choice (`UpsertPoll`) and records
the review (`ReviewNewsCandidate`); edits, rejections and other approvals run
between.  A slug is made of the candidate, the version and the choice, so that two
approvals of one version write the same polls.

*Proved* (`ServicesProofs`): `NewsTyped`, `ScansAlone`, `ApprovedIsPolled`,
`ReviewStands`.  `ApprovedHasItsPolls` needs `ReviewersSound`: an approval on its way
has a poll for each choice of the version it read that it has not still to save, and
none to save when it comes to the review.  The version of the candidate may have
changed by then; what holds is said of the version that was approved.

**`NewsGroups`.**  `groupArticles` as a recursion over the feed, one article a step:
`TakeArticle` joins, drops or begins a group, `KeepEligible` is the filter and the
limit, one group a step.  Likeness is the ratio of shared to all words, compared without
division.  It is not transitive: of a chain of titles the second may be like the first and
the third, and then the order of the feed decides whether they make one group or two.
`StoriesApart` says what holds in every order: within one scan no two headlines are alike
and every article is like the headline it is filed under.  It is not that one event makes
one story, and it says nothing of two scans.

*Proved* (`ServicesProofs`), for feeds of every length: `GroupsTyped`, `StoriesAreApart`,
`CorroborationsHold`.  `CorroboratedByTwo` is not inductive, since the filter counts
articles: `GroupsInv` adds `DomainsApart`, that no two articles of a group have one
publisher.  `StoriesApart` rests on `BestExists`, that of the groups of a feed one is
closest to an article, so that an article which is not like the closest is like none;
ratios are compared by multiplication across, which needs a lemma on their order.

**`Alerts`.**  An order quotes, fills and tells under `collateralMu`; `Crossed`
compares the price before and after.  `inbox`, `switched`, `heard` and `beyond` are not
in the code: they count what was sent and remember on which side of a threshold the
price has been since.

*Proved* (`ServicesProofs`), for every number of users, orders and administrators:
`AlertsTyped`, `ClosingOnce`, `SettlementOnce`, `PriceAlternates`.  `AlertsInv` has three
parts: `AlertsHeld`, the types (with who holds the mutex); `AlertsRemember`, that an alert's
own record of what was told agrees with what was sent; `PricesKnown`, that an order under
way has the price as it is, which is what the mutex is for.

**`Collateral`.**  `Requirement` is what the guarantee must hold: for each market the
worst outcome (yes, no, cancellation), and the payouts that are fixed and not recorded as
sent.  `OutflowCovered` is the check before each outflow.  A payment is queued in `moving`
until it is mined or fails; nonces make the queue one of order.  What is recorded
(`onRecord`) and what has left (`delivered`, `moving`) are apart: a claim reads its payout
before it waits for the lock (`ReservePayout`), sends and releases what it read
(`SendClaim`), gives the lock back, and is recorded later, when its transaction is found
mined (`RecordPayout`).  A settlement's retry (`RetrySettlementPayout`) selects all payable
trades of the market, those recorded as sent included, releases them all, and then writes
the status of its first transaction to all of them (`WriteStatus`), as the
reconciliation of a settlement does (`ReconcileSettlementPayout`).  A shielded credit
counts as one payment.

The guarantee is therefore not that the treasury covers what is owed.  `unseen` (not in
the code) is what the check of the last operation took for held or paid and was not:

- the payments it did not see mined, since it reads the balance of the chain;
- payouts recorded as sent that never left (a retry's first transaction was mined and
  another one was not);
- payouts it sent and released although they were recorded as sent, so that they were paid
  and released a second time;
- what a cashout that was paid and not recorded had released.

`TreasuryCoversWhatIsOwed` says that the treasury is short by no more than this, and so
that everything else (settlements without the lock, claims that come and are recorded late,
refused and lost payments, cashouts in parts) takes nothing from it.  It is an accurate
statement of what the code guarantees, and the reason to keep a buffer.

*Proved* (`CollateralProofs`), for every number of markets, trades and payments:
`CollateralTyped` and `TreasuryGuarantees` (`TreasuryCoversWhatIsOwed`).  The check is over
when the money moves, so that the property alone is not inductive.  In `CollateralInv`,
`TreasuryCovers` carries the check along: the treasury covers what is owed now, and what
will be owed once the operation that holds the mutex has sent what is left of it and has
recorded its trade.  `OperationKnows` and `CashoutKnows` say that the trade it is about to
write is as it was read or settled since; `BooksKnown` and `PaymentsKnown`, that what has
left the treasury is for a trade that is due, and no more than what is due.  A settlement
takes no lock, and need not: it moves what a market may owe into what it does owe, and a
lemma (`OwedSettled`) says that the worst outcome has counted that already.

**`SponsorPolicy`.**  The counts are taken before `collateralMu` and are stale when the
escrow is sent; a record that fails is not noticed; and a request that cannot read the
policy, or finds it empty or malformed, goes by the default one (`DefaultPolicy`, 20 for a
wallet and 1000 for all in the code).  `SponsoredWithinLimits` bounds the excess by the
other requests under way and the records lost, across changes of the policy and midnight;
the limits it speaks of (`loosest`) are the loosest a request has read or may read that day,
the default ones included once one request went by them.  A policy tighter than the default
does not bind such a request.

*Proved* (`ServicesProofs`), for every number of wallets and requests: `SponsorTyped` and
`SponsoredWithin`.  `SponsorInv` adds `LimitsKnown`, that a request past its check was
checked against no more than the loosest policy of the day, and `Counts`, once for each
wallet and once for all: what was sent was recorded, lost or awaits its record
(`Accounted`), and what was counted when a request passed, with the requests that passed
beside it, stays within the limit and the excess (`Bounded`).

## 6. What is only model-checked

Liveness is out of the provers' reach: `ReservationAnswered`, `EventuallyDecided` and
`LandedGrantBecomesSent` stay with TLC.  Every other property of a passing run is stated by
a theorem, and each theorem holds for constants of any size that satisfy the modules'
assumptions.  Where a sum or a count ranges over a set, the assumption says that the set
is finite.

The sums need an induction, and the library's induction theorems take an operator, which
the provers cannot instantiate.  `SumTheorems` does without one: "the sum is as claimed"
is made a set of subsets of a finite set; the strict order of finite subsets is
well-founded, a fact about sets, and a smallest subset outside that set is a contradiction.
From this follow the existence of the recursive function that `MapThenSumSet` folds with,
and what a sum does when an element is added, removed or changed.

## 7. Findings

Six runs end in a violation of a rule the repository words itself; each is quoted
in `PROJECT.json`.  In short: (1) a gateway error after the broadcast lets a claim be
paid twice; (2) a public claim accepts a failed private claim that already has
transaction ids; (3) a settlement retry pays trades already paid; (4) creating a
market with the slug of a settled one reopens it; (5) one nullifier submitted at once for
two trades is accepted for both, though `docs/private-claim-flow.md` says that the second
claim is rejected (a registry contract, if one is configured, may refuse it later); (6) a login that finds a stale pending grant
makes it fresh by reading it (`CreateTokenGrantIfMissing` sets `updatedAt` before the
age is looked at) and never retries it, though `welcome_grant_test.go` says it should.

## 8. Not modelled, and why

- The quotes of the market maker sum exponentials and logarithms in floating point;
  TLC has integers.  `Collateral` takes stakes and returns from a set, `Markets`
  two shares a trade.
- The Merkle tree, its roots and the zero-knowledge proofs: append-only state and
  cryptography.  `Payouts` models the claim that presents a proof.
- `adminReconcileTradeEscrow` rewrites the status of an escrow, which is shown and on
  which nothing is decided.
- Profiles, aliases, the watch list, reading of notifications, titles and classifications of
  polls, listings, usage records: writes of one user's or administrator's own record.
- Signatures, cookies, prompts and feeds: pure functions or I/O.
- `evm`, `gmrengine`, `walletops`: HTTP and JSON-RPC.  Each module says what the gateway
  and the chain may answer.  `main` and the configuration: a stop is the restart of
  every module, and what production requires is a constant.

## 9. Plan

The promise of `PayoutPromise` note by note, for shielded credits; a composition of
`Collateral` with `Payouts`, in which the trades that may be claimed again are those of
`Payouts` and the credit of several notes is several payments of the treasury.
