--------------------------- MODULE ShieldedQueue ---------------------------
(***************************************************************************)
(* The queue of relayed shielded withdrawals.                              *)
(*                                                                         *)
(* A withdrawal waits in the store until it is due.  The worker of each    *)
(* server takes due withdrawals in batches, an administrator can have one  *)
(* processed at once; whoever sets its status to "processing" sends the    *)
(* transaction to the pool contract, waits for it and records the result,  *)
(* which may be another try.  A withdrawal left in processing by a server  *)
(* that stopped is recovered when it is stale.                             *)
(*                                                                         *)
(* Modelled as production requires it: SHIELDED_PAYOUT_REQUIRED is set, so *)
(* that every transaction is waited for.  The pool contract, outside this  *)
(* repository, pays a nullifier once.  Times are reduced to one question:  *)
(* is a waiting withdrawal due, is the last write of one in processing     *)
(* stale?  Proofs, recipients and fees are left out.                       *)
(***************************************************************************)
EXTENDS Naturals, Sequences, FiniteSets, FiniteSetsExt

CONSTANTS
    Withdrawals,   \* the nullifiers: the store keeps one withdrawal of each
    Workers,       \* the queue workers, one to a server
    Requests,      \* concurrently served "process now" requests
    None,
    MaxAttempts,   \* SHIELDED_WITHDRAWAL_MAX_ATTEMPTS
    BatchLimit,    \* SHIELDED_WITHDRAWAL_BATCH_LIMIT
    MaxGrants,     \* bounds the manual retries of a stopped withdrawal
    Overtaking     \* may a withdrawal become stale, or be retried by hand,
                   \* while an executor still works on it?

Executors == Workers \cup Requests

ASSUME QueueAssumption ==
    /\ None \notin Withdrawals /\ IsFiniteSet(Withdrawals)
    /\ Workers \cap Requests = {}
    /\ MaxAttempts \in Nat \ {0}
    /\ BatchLimit \in Nat \ {0}
    /\ MaxGrants \in Nat
    /\ Overtaking \in BOOLEAN

VARIABLES
    withdrawals,  \* the ShieldedWithdrawal nodes
    granted,      \* how often each was retried by hand after it had stopped
    txs,          \* the transactions sent for each of them, in order
    executors,    \* the local state of every worker and request
    paused        \* the system setting shielded_withdrawal_queue_paused

vars == <<withdrawals, granted, txs, executors, paused>>

----------------------------------------------------------------------------
(* Types *)

Statuses == {"none", "queued", "retry", "processing", "confirmed", "failed",
             "suspicious"}
Waiting == {"queued", "retry"}
Stopped == {"failed", "suspicious"}
Steps == {"idle", "recover", "list", "mark", "execute", "wait", "record"}

WithdrawalStates ==
    [status : Statuses, attempts : Nat, late : BOOLEAN]
ExecutorStates ==
    [pc : Steps, batch : SUBSET Withdrawals, withdrawal : Withdrawals \cup {None},
     attempt : Nat, tx : Nat, result : {"error", "confirmed"}]

NotRequested == [status |-> "none", attempts |-> 0, late |-> FALSE]
Idle == [pc |-> "idle", batch |-> {}, withdrawal |-> None, attempt |-> 0,
         tx |-> 0, result |-> "error"]

TypeOK ==
    /\ withdrawals \in [Withdrawals -> WithdrawalStates]
    /\ granted \in [Withdrawals -> 0 .. MaxGrants]
    /\ txs \in [Withdrawals -> Seq({"pending", "confirmed", "failed"})]
    /\ executors \in [Executors -> ExecutorStates]
    /\ \A x \in Executors :
          /\ Cardinality(executors[x].batch) <= BatchLimit
          /\ executors[x].pc \notin {"execute", "wait", "record"} =>
                executors[x] = [Idle EXCEPT !.pc = executors[x].pc,
                                            !.batch = executors[x].batch]
    /\ paused \in BOOLEAN

Init ==
    /\ withdrawals = [w \in Withdrawals |-> NotRequested]
    /\ granted = [w \in Withdrawals |-> 0]
    /\ txs = [w \in Withdrawals |-> <<>>]
    /\ executors = [x \in Executors |-> Idle]
    /\ paused = FALSE

----------------------------------------------------------------------------
(* Helpers *)

Status(w) == withdrawals[w].status

\* x works on w: it has set the status to processing and not recorded a result.
Holds(x, w) ==
    /\ executors[x].pc \in {"execute", "wait", "record"}
    /\ executors[x].withdrawal = w

Free(w) == Overtaking \/ \A x \in Executors : ~Holds(x, w)

Spent(w) == \E i \in DOMAIN txs[w] : txs[w][i] = "confirmed"

Becomes(x, state) == executors' = [executors EXCEPT ![x] = state]

\* Mutant: what x knows of its last withdrawal is kept.
ContinueKnowing(x, batch) ==
    Becomes(x, [executors[x] EXCEPT !.pc = IF batch = {} THEN "idle" ELSE "mark",
                                    !.batch = batch])

\* What x does next: the rest of its batch, or nothing.
Continue(x, batch) ==
    Becomes(x, [Idle EXCEPT !.pc = IF batch = {} THEN "idle" ELSE "mark",
                            !.batch = batch])

\* Every write sets updatedAt, and one that makes w wait a later executeAfter.
Becoming(w, status) == [withdrawals[w] EXCEPT !.status = status, !.late = FALSE]

Write(w, state) == withdrawals' = [withdrawals EXCEPT ![w] = state]

----------------------------------------------------------------------------
(* Requests of users and administrators *)

CreateShieldedWithdrawal(w) ==
    /\ Status(w) = "none"
    /\ Write(w, Becoming(w, "queued"))
    /\ UNCHANGED <<granted, txs, executors, paused>>

\* Mutant: a retry asks only whether the withdrawal is being processed.
RetryableUnless(w) == Status(w) \notin {"none", "processing"}

RetryableByAdmin(w) == Status(w) \in Waiting \cup Stopped

Requeued(w, now) ==
    /\ Free(w)
    /\ granted' = [granted EXCEPT ![w] = IF Status(w) \in Waiting THEN @ ELSE @ + 1]
    /\ granted'[w] <= MaxGrants
    /\ Write(w, [Becoming(w, "retry") EXCEPT !.late = now])

RetryShieldedWithdrawal(w) ==
    /\ Status(w) = "failed"
    /\ Requeued(w, FALSE)
    /\ UNCHANGED <<txs, executors, paused>>

RetryAnyShieldedWithdrawal(w) ==
    /\ RetryableByAdmin(w)
    /\ Requeued(w, FALSE)
    /\ UNCHANGED <<txs, executors, paused>>

MarkShieldedWithdrawalSuspicious(w) ==
    /\ Status(w) \notin {"none", "confirmed"}
    /\ Write(w, Becoming(w, "suspicious"))
    /\ UNCHANGED <<granted, txs, executors, paused>>

SetPaused(value) ==
    /\ paused' = value
    /\ UNCHANGED <<withdrawals, granted, txs, executors>>

\* adminProcessShieldedWithdrawal: a retry that is due at once, then the steps of
\* a worker on this one withdrawal.  It does not ask whether the queue is paused.
AdminProcessShieldedWithdrawal(x, w) ==
    /\ executors[x].pc = "idle"
    /\ RetryableByAdmin(w)
    /\ Requeued(w, TRUE)
    /\ Continue(x, {w})
    /\ UNCHANGED <<txs, paused>>

----------------------------------------------------------------------------
(* The worker: processShieldedWithdrawalBatch *)

Tick(x) ==
    /\ executors[x].pc = "idle"
    /\ ~paused
    /\ Becomes(x, [Idle EXCEPT !.pc = "recover"])
    /\ UNCHANGED <<withdrawals, granted, txs, paused>>

\* Mutant: one try more than the limit.
BeyondLastAttempt(attempts) == attempts > MaxAttempts

LastAttempt(attempts) == attempts >= MaxAttempts

\* Mutant: what a stopped server left in processing stays there.
NeverRecovered(w) == withdrawals[w]

Recovered(w) ==
    IF Status(w) = "processing" /\ withdrawals[w].late
    THEN Becoming(w, IF LastAttempt(withdrawals[w].attempts) THEN "failed" ELSE "retry")
    ELSE withdrawals[w]

RecoverStaleShieldedWithdrawals(x) ==
    /\ executors[x].pc = "recover"
    /\ withdrawals' = [w \in Withdrawals |-> Recovered(w)]
    /\ Becomes(x, [executors[x] EXCEPT !.pc = "list"])
    /\ UNCHANGED <<granted, txs, paused>>

DueWithdrawals ==
    {w \in Withdrawals : Status(w) \in Waiting /\ withdrawals[w].late}

\* The earliest BatchLimit of them; which ones these are depends on times that
\* are left out.
Batches(due) == kSubset(IF Cardinality(due) < BatchLimit
                        THEN Cardinality(due) ELSE BatchLimit, due)

ListDueShieldedWithdrawals(x) ==
    /\ executors[x].pc = "list"
    /\ \E batch \in Batches(DueWithdrawals) : Continue(x, batch)
    /\ UNCHANGED <<withdrawals, granted, txs, paused>>

\* Mutant: a listed withdrawal is taken whatever has happened to it since.
TakesListed(w) == TRUE

Takes(w) == Status(w) \in Waiting

MarkShieldedWithdrawalProcessing(x) ==
    /\ executors[x].pc = "mark"
    /\ \E w \in executors[x].batch :
          LET batch == executors[x].batch \ {w}
              attempt == withdrawals[w].attempts + 1
          IN
          IF Takes(w)
          THEN /\ Write(w, [Becoming(w, "processing") EXCEPT !.attempts = attempt])
               /\ Becomes(x, [Idle EXCEPT !.pc = "execute", !.batch = batch,
                                 !.withdrawal = w, !.attempt = attempt])
          ELSE Continue(x, batch) /\ UNCHANGED withdrawals
    /\ UNCHANGED <<granted, txs, paused>>

\* executeShieldedWithdrawal: the proof is refused, or the transaction is sent;
\* the gateway may answer with an error although it was.
ExecuteShieldedWithdrawal(x) ==
    LET w == executors[x].withdrawal IN
    /\ executors[x].pc = "execute"
    /\ \/ /\ txs' = [txs EXCEPT ![w] = Append(@, "pending")]
          /\ Becomes(x, [executors[x] EXCEPT !.pc = "wait", !.tx = Len(txs[w]) + 1])
       \/ /\ txs' = [txs EXCEPT ![w] = Append(@, "pending")]
          /\ Becomes(x, [executors[x] EXCEPT !.pc = "record"])
       \/ /\ UNCHANGED txs
          /\ Becomes(x, [executors[x] EXCEPT !.pc = "record"])
    /\ UNCHANGED <<withdrawals, granted, paused>>

\* Mutant: a transaction that has not failed by the end of the wait is good.
NotFailed(w, i) == txs[w][i] # "failed"

Confirmed(w, i) == txs[w][i] = "confirmed"

\* waitForGMRTransaction: confirmed, or an error, which a timeout or a failing
\* request is as well.
WaitForGMRTransaction(x) ==
    /\ executors[x].pc = "wait"
    /\ \E result \in {"error", "confirmed"} :
          /\ result = "confirmed" => Confirmed(executors[x].withdrawal, executors[x].tx)
          /\ Becomes(x, [executors[x] EXCEPT !.pc = "record", !.result = result])
    /\ UNCHANGED <<withdrawals, granted, txs, paused>>

Result(x) ==
    IF executors[x].result = "confirmed" THEN "confirmed"
    ELSE IF LastAttempt(executors[x].attempt) THEN "failed" ELSE "retry"

\* CompleteShieldedWithdrawal or ScheduleShieldedWithdrawalRetry: neither asks
\* for the status the withdrawal has by now.
CompleteShieldedWithdrawalExecution(x) ==
    LET w == executors[x].withdrawal IN
    /\ executors[x].pc = "record"
    /\ Write(w, Becoming(w, Result(x)))
    /\ Continue(x, executors[x].batch)
    /\ UNCHANGED <<granted, txs, paused>>

----------------------------------------------------------------------------
(* Environment and faults *)

\* The pool contract pays a nullifier once and refuses it afterwards.
Mined(w) ==
    /\ \E i \in DOMAIN txs[w], result \in {"confirmed", "failed"} :
          /\ txs[w][i] = "pending"
          /\ result = "confirmed" => ~Spent(w)
          /\ txs' = [txs EXCEPT ![w][i] = result]
    /\ UNCHANGED <<withdrawals, granted, executors, paused>>

BecomesDue(w) ==
    /\ Status(w) \in Waiting
    /\ ~withdrawals[w].late
    /\ withdrawals' = [withdrawals EXCEPT ![w].late = TRUE]
    /\ UNCHANGED <<granted, txs, executors, paused>>

BecomesStale(w) ==
    /\ Status(w) = "processing"
    /\ ~withdrawals[w].late
    /\ Free(w)
    /\ withdrawals' = [withdrawals EXCEPT ![w].late = TRUE]
    /\ UNCHANGED <<granted, txs, executors, paused>>

\* The server stops, and with it what x was doing.
Restart(x) ==
    /\ executors[x].pc # "idle"
    /\ Becomes(x, Idle)
    /\ UNCHANGED <<withdrawals, granted, txs, paused>>

\* A store transaction fails: the batch goes on without recovery, without the
\* withdrawal or without a record, and ends when there is no list.
StoreFails(x) ==
    /\ \/ /\ executors[x].pc = "recover"
          /\ Becomes(x, [executors[x] EXCEPT !.pc = "list"])
       \/ /\ executors[x].pc = "list"
          /\ Becomes(x, Idle)
       \/ /\ executors[x].pc = "mark"
          /\ \E w \in executors[x].batch : Continue(x, executors[x].batch \ {w})
       \/ /\ executors[x].pc = "record"
          /\ Continue(x, executors[x].batch)
    /\ UNCHANGED <<withdrawals, granted, txs, paused>>

----------------------------------------------------------------------------
(* Specification *)

StoreRequest ==
    \/ \E w \in Withdrawals :
          \/ CreateShieldedWithdrawal(w)
          \/ RetryShieldedWithdrawal(w)
          \/ RetryAnyShieldedWithdrawal(w)
          \/ MarkShieldedWithdrawalSuspicious(w)
    \/ \E value \in BOOLEAN : SetPaused(value)

WorkerStep(x) ==
    \/ Tick(x)
    \/ RecoverStaleShieldedWithdrawals(x)
    \/ ListDueShieldedWithdrawals(x)

ExecutorStep(x) ==
    \/ MarkShieldedWithdrawalProcessing(x)
    \/ ExecuteShieldedWithdrawal(x)
    \/ WaitForGMRTransaction(x)
    \/ CompleteShieldedWithdrawalExecution(x)

Environment ==
    \E w \in Withdrawals : Mined(w) \/ BecomesDue(w) \/ BecomesStale(w)

Fault == \E x \in Executors : Restart(x) \/ StoreFails(x)

Next ==
    \/ StoreRequest
    \/ \E x \in Requests, w \in Withdrawals : AdminProcessShieldedWithdrawal(x, w)
    \/ \E x \in Workers : WorkerStep(x)
    \/ \E x \in Executors : ExecutorStep(x)
    \/ Environment
    \/ Fault

Spec == Init /\ [][Next]_vars

\* Time passes; requests end; and although the server may be restarted again and
\* again, or a store transaction fail again and again, each step of the worker is
\* not prevented for ever.
Fairness ==
    /\ \A w \in Withdrawals : WF_vars(BecomesDue(w)) /\ WF_vars(BecomesStale(w))
    /\ \A x \in Requests : WF_vars(ExecutorStep(x))
    /\ \A x \in Workers :
          /\ SF_vars(Tick(x))
          /\ SF_vars(RecoverStaleShieldedWithdrawals(x))
          /\ SF_vars(ListDueShieldedWithdrawals(x))
          /\ SF_vars(MarkShieldedWithdrawalProcessing(x))
          /\ WF_vars(ExecutorStep(x))

LiveSpec == Spec /\ Fairness

----------------------------------------------------------------------------
(* Properties *)

\* At most one executor works on a withdrawal (MarkShieldedWithdrawalProcessing).
OneExecutor ==
    \A w \in Withdrawals : \A x, y \in Executors : Holds(x, w) /\ Holds(y, w) => x = y

\* No withdrawal is tried more often than the limit allows, and once more for
\* every retry by hand after it had stopped: executions, recoveries and restarts
\* count together.
AttemptsBounded ==
    \A w \in Withdrawals : withdrawals[w].attempts <= MaxAttempts + granted[w]

\* A withdrawal is called confirmed when the pool has paid it, never because an
\* answer was missing.
ConfirmedMeansSpent ==
    \A w \in Withdrawals : Status(w) = "confirmed" => Spent(w)

\* No retry, recovery, late result or mark is written over a confirmed withdrawal.
ConfirmedStays ==
    [][\A w \in Withdrawals : Status(w) = "confirmed" => Status(w)' = "confirmed"]_vars

\* What was marked suspicious while nobody worked on it goes back to the queue by
\* hand only: a batch that had listed it before does not take it.
SuspiciousHeld ==
    [][\A w \in Withdrawals :
         Status(w) = "suspicious" /\ (\A x \in Executors : ~Holds(x, w))
             => \/ Status(w)' = "suspicious"
                \/ Status(w)' = "retry" /\ granted'[w] > granted[w]]_vars

\* A waiting withdrawal is given a later time by hand.
Postponed ==
    \E w \in Withdrawals :
        /\ Status(w) \in Waiting
        /\ \/ RetryAnyShieldedWithdrawal(w)
           \/ \E x \in Requests : AdminProcessShieldedWithdrawal(x, w)

\* Once the queue is no longer paused, and unless administrators postpone for
\* ever, a requested withdrawal is confirmed, fails or is stopped by an
\* administrator, through every restart: what a stopped server leaves in
\* processing is taken up again, and tries run out.
EventuallyDecided ==
    <>[]~paused /\ ~[]<><<Postponed>>_vars
        => \A w \in Withdrawals :
              Status(w) = "queued" ~> Status(w) \in {"confirmed", "failed", "suspicious"}

\* The queue keeps the promise of WithdrawalPromise.
Promise == INSTANCE WithdrawalPromise WITH
    requested <- {w \in Withdrawals : Status(w) # "none"},
    paid <- {w \in Withdrawals : Spent(w)},
    confirmed <- {w \in Withdrawals : Status(w) = "confirmed"}

\* What a user is promised of her withdrawals holds of the queue: it is paid once,
\* after she asked for it, and shown as confirmed for good once it was paid,
\* whatever workers, administrators, restarts and late transactions do
\* (processShieldedWithdrawalBatch and the pool contract).
KeepsPromise == Promise!PromiseSpec

=============================================================================
