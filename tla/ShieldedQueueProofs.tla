------------------------ MODULE ShieldedQueueProofs ------------------------
(***************************************************************************)
(* Safety of the withdrawal queue for every number of withdrawals, workers *)
(* and requests.  Unless an execution is overtaken, one executor works on  *)
(* a withdrawal, tries are bounded and a confirmed one stays so.  That a   *)
(* confirmed withdrawal was paid, and that a suspicious one is held, does  *)
(* not depend on times at all.  Together they give the promise the queue   *)
(* makes to its users, as a refinement.                                    *)
(***************************************************************************)
EXTENDS ShieldedQueue, FiniteSetTheorems, TLAPS

Executing == {"execute", "wait", "record"}

QueueTyped ==
    /\ withdrawals \in [Withdrawals -> WithdrawalStates]
    /\ granted \in [Withdrawals -> Nat]
    /\ txs \in [Withdrawals -> Seq({"pending", "confirmed", "failed"})]
    /\ executors \in [Executors -> ExecutorStates]
    /\ \A x \in Executors :
          executors[x].pc \in Executing => executors[x].withdrawal \in Withdrawals

\* What an executor works on is in processing, or was marked suspicious since;
\* it is not stale, and the executor knows how often it was tried.
HeldInProcessing ==
    \A w \in Withdrawals : \A x \in Executors : Holds(x, w) =>
        /\ Status(w) \in {"processing", "suspicious"}
        /\ ~withdrawals[w].late
        /\ executors[x].attempt = withdrawals[w].attempts

\* A withdrawal that waits, or was not requested yet, has a try left.
Untaken == Waiting \cup {"none"}

TriesLeft ==
    \A w \in Withdrawals : Status(w) \in Untaken =>
        withdrawals[w].attempts < MaxAttempts + granted[w]

QueueInv == OneExecutor /\ HeldInProcessing /\ AttemptsBounded /\ TriesLeft

\* An executor waits for a transaction it sent, and believes in a confirmation
\* that it has seen only.
ResultsTrue ==
    \A x \in Executors :
        /\ executors[x].pc \in {"execute", "wait"} => executors[x].result = "error"
        /\ executors[x].pc = "wait" =>
              executors[x].tx \in DOMAIN txs[executors[x].withdrawal]
        /\ executors[x].pc = "record" /\ executors[x].result = "confirmed" =>
              Spent(executors[x].withdrawal)

PaidInv == ResultsTrue /\ ConfirmedMeansSpent

----------------------------------------------------------------------------
(* How the helpers change a function *)

LEMMA BecomesMoves ==
    ASSUME QueueTyped, NEW x \in Executors, NEW s \in ExecutorStates, Becomes(x, s),
           s.pc \in Executing => s.withdrawal \in Withdrawals
    PROVE  /\ executors' \in [Executors -> ExecutorStates]
           /\ executors'[x] = s
           /\ \A y \in Executors \ {x} : executors'[y] = executors[y]
           /\ \A y \in Executors :
                 executors'[y].pc \in Executing => executors'[y].withdrawal \in Withdrawals
BY DEF QueueTyped, Becomes

LEMMA IdleTyped == Idle \in ExecutorStates
BY DEF Idle, ExecutorStates, Steps

\* Whoever continues works on nothing for the moment.
LEMMA ContinueMoves ==
    ASSUME QueueTyped, NEW x \in Executors, NEW batch \in SUBSET Withdrawals,
           Continue(x, batch)
    PROVE  /\ executors' \in [Executors -> ExecutorStates]
           /\ executors'[x].pc \notin Executing
           /\ \A y \in Executors \ {x} : executors'[y] = executors[y]
           /\ \A y \in Executors :
                 executors'[y].pc \in Executing => executors'[y].withdrawal \in Withdrawals
<1> DEFINE s == [Idle EXCEPT !.pc = IF batch = {} THEN "idle" ELSE "mark",
                             !.batch = batch]
<1>1. s \in ExecutorStates /\ s.pc \notin Executing
  BY DEF Idle, ExecutorStates, Steps, Executing
<1>2. Becomes(x, s)
  BY DEF Continue
<1> QED  BY <1>1, <1>2, BecomesMoves

LEMMA WriteChanges ==
    ASSUME QueueTyped, NEW w \in Withdrawals, NEW s \in WithdrawalStates, Write(w, s)
    PROVE  /\ withdrawals' \in [Withdrawals -> WithdrawalStates]
           /\ withdrawals'[w] = s
           /\ \A v \in Withdrawals \ {w} : withdrawals'[v] = withdrawals[v]
BY DEF QueueTyped, Write

LEMMA BecomingTyped ==
    ASSUME QueueTyped, NEW w \in Withdrawals, NEW status \in Statuses
    PROVE  /\ Becoming(w, status) \in WithdrawalStates
           /\ Becoming(w, status).status = status
           /\ Becoming(w, status).attempts = withdrawals[w].attempts
           /\ ~Becoming(w, status).late
BY DEF QueueTyped, Becoming, WithdrawalStates

LEMMA RequeuedChanges ==
    ASSUME QueueTyped, NEW w \in Withdrawals, NEW now \in BOOLEAN, Requeued(w, now)
    PROVE  /\ withdrawals' \in [Withdrawals -> WithdrawalStates]
           /\ withdrawals'[w].status = "retry"
           /\ withdrawals'[w].attempts = withdrawals[w].attempts
           /\ \A v \in Withdrawals \ {w} : withdrawals'[v] = withdrawals[v]
           /\ granted' \in [Withdrawals -> Nat]
           /\ granted'[w] = IF Status(w) \in Waiting THEN granted[w] ELSE granted[w] + 1
           /\ \A v \in Withdrawals \ {w} : granted'[v] = granted[v]
<1> DEFINE s == [Becoming(w, "retry") EXCEPT !.late = now]
<1>1. /\ s \in WithdrawalStates /\ s.status = "retry"
      /\ s.attempts = withdrawals[w].attempts
  <2>1. "retry" \in Statuses
    BY DEF Statuses
  <2> QED  BY <2>1, BecomingTyped DEF WithdrawalStates
<1>2. Write(w, s)
  BY DEF Requeued
<1>3. /\ granted' \in [Withdrawals -> Nat]
      /\ granted'[w] = IF Status(w) \in Waiting THEN granted[w] ELSE granted[w] + 1
      /\ \A v \in Withdrawals \ {w} : granted'[v] = granted[v]
  BY DEF Requeued, QueueTyped
<1> HIDE DEF s
<1> QED  BY <1>1, <1>2, <1>3, WriteChanges

----------------------------------------------------------------------------
(* Types *)

LEMMA InitTyped == Init => QueueTyped
BY IdleTyped, QueueAssumption
   DEF Init, QueueTyped, NotRequested, WithdrawalStates, Statuses, Idle, Executing

LEMMA StoreRequestTyped ==
    ASSUME QueueTyped, StoreRequest
    PROVE  QueueTyped'
<1>1. ASSUME NEW w \in Withdrawals, CreateShieldedWithdrawal(w)
      PROVE  QueueTyped'
  BY <1>1, WriteChanges, BecomingTyped
     DEF CreateShieldedWithdrawal, QueueTyped, Statuses
<1>2. ASSUME NEW w \in Withdrawals,
             RetryShieldedWithdrawal(w) \/ RetryAnyShieldedWithdrawal(w)
      PROVE  QueueTyped'
  BY <1>2, RequeuedChanges
     DEF RetryShieldedWithdrawal, RetryAnyShieldedWithdrawal, QueueTyped
<1>3. ASSUME NEW w \in Withdrawals, MarkShieldedWithdrawalSuspicious(w)
      PROVE  QueueTyped'
  BY <1>3, WriteChanges, BecomingTyped
     DEF MarkShieldedWithdrawalSuspicious, QueueTyped, Statuses
<1>4. ASSUME NEW value \in BOOLEAN, SetPaused(value)
      PROVE  QueueTyped'
  BY <1>4 DEF SetPaused, QueueTyped
<1> QED  BY <1>1, <1>2, <1>3, <1>4 DEF StoreRequest

LEMMA AdminProcessTyped ==
    ASSUME QueueTyped, NEW x \in Requests, NEW w \in Withdrawals,
           AdminProcessShieldedWithdrawal(x, w)
    PROVE  QueueTyped'
<1>1. x \in Executors /\ {w} \in SUBSET Withdrawals
  BY DEF Executors
<1>2. Requeued(w, TRUE) /\ Continue(x, {w}) /\ UNCHANGED txs
  BY DEF AdminProcessShieldedWithdrawal
<1> QED  BY <1>1, <1>2, RequeuedChanges, ContinueMoves DEF QueueTyped

LEMMA RecoveredTyped ==
    ASSUME QueueTyped, NEW w \in Withdrawals
    PROVE  /\ Recovered(w) \in WithdrawalStates
           /\ Recovered(w).attempts = withdrawals[w].attempts
<1>1. {"failed", "retry"} \subseteq Statuses
  BY DEF Statuses
<1>2. withdrawals[w] \in WithdrawalStates
  BY DEF QueueTyped
<1> QED  BY <1>1, <1>2, BecomingTyped DEF Recovered

\* A worker ticks, recovers and lists; it works on nothing meanwhile.
LEMMA WorkerMoves ==
    ASSUME QueueTyped, NEW x \in Workers, WorkerStep(x)
    PROVE  /\ x \in Executors
           /\ executors' \in [Executors -> ExecutorStates]
           /\ executors'[x].pc \notin Executing
           /\ \A y \in Executors \ {x} : executors'[y] = executors[y]
           /\ QueueTyped'
<1>1. x \in Executors
  BY DEF Executors
<1>2. CASE Tick(x)
  <2> DEFINE s == [Idle EXCEPT !.pc = "recover"]
  <2>1. s \in ExecutorStates /\ s.pc \notin Executing
    BY DEF Idle, ExecutorStates, Steps, Executing
  <2>2. Becomes(x, s) /\ UNCHANGED <<withdrawals, granted, txs>>
    BY <1>2 DEF Tick
  <2> HIDE DEF s
  <2> QED  BY <1>1, <2>1, <2>2, BecomesMoves DEF QueueTyped
<1>3. CASE RecoverStaleShieldedWithdrawals(x)
  <2> DEFINE s == [executors[x] EXCEPT !.pc = "list"]
  <2>1. s \in ExecutorStates /\ s.pc \notin Executing
    BY <1>1 DEF QueueTyped, ExecutorStates, Steps, Executing
  <2>2. Becomes(x, s) /\ UNCHANGED <<granted, txs>>
    BY <1>3 DEF RecoverStaleShieldedWithdrawals
  <2>3. withdrawals' \in [Withdrawals -> WithdrawalStates]
    BY <1>3, RecoveredTyped DEF RecoverStaleShieldedWithdrawals
  <2> HIDE DEF s
  <2> QED  BY <1>1, <2>1, <2>2, <2>3, BecomesMoves DEF QueueTyped
<1>4. CASE ListDueShieldedWithdrawals(x)
  <2>1. PICK batch \in Batches(DueWithdrawals) : Continue(x, batch)
    BY <1>4 DEF ListDueShieldedWithdrawals
  <2>2. batch \in SUBSET Withdrawals
    BY <2>1 DEF Batches, kSubset, DueWithdrawals
  <2> QED  BY <1>1, <1>4, <2>1, <2>2, ContinueMoves
              DEF ListDueShieldedWithdrawals, QueueTyped
<1> QED  BY <1>2, <1>3, <1>4 DEF WorkerStep

\* What the four steps of an execution do to an executor and its withdrawal.
LEMMA MarkMoves ==
    ASSUME QueueTyped, NEW x \in Executors, MarkShieldedWithdrawalProcessing(x)
    PROVE  /\ QueueTyped'
           /\ UNCHANGED <<granted, txs>>
           /\ \A y \in Executors \ {x} : executors'[y] = executors[y]
           /\ \/ executors'[x].pc \notin Executing /\ UNCHANGED withdrawals
              \/ \E w \in Withdrawals :
                    /\ Takes(w)
                    /\ withdrawals'[w].status = "processing"
                    /\ withdrawals'[w].attempts = withdrawals[w].attempts + 1
                    /\ ~withdrawals'[w].late
                    /\ \A v \in Withdrawals \ {w} : withdrawals'[v] = withdrawals[v]
                    /\ executors'[x].pc = "execute"
                    /\ executors'[x].withdrawal = w
                    /\ executors'[x].attempt = withdrawals'[w].attempts
                    /\ executors'[x].result = "error"
<1>1. PICK w \in executors[x].batch :
        LET batch == executors[x].batch \ {w}
            attempt == withdrawals[w].attempts + 1
        IN
        IF Takes(w)
        THEN /\ Write(w, [Becoming(w, "processing") EXCEPT !.attempts = attempt])
             /\ Becomes(x, [Idle EXCEPT !.pc = "execute", !.batch = batch,
                               !.withdrawal = w, !.attempt = attempt])
        ELSE Continue(x, batch) /\ UNCHANGED withdrawals
  BY DEF MarkShieldedWithdrawalProcessing
<1>2. UNCHANGED <<granted, txs>>
  BY DEF MarkShieldedWithdrawalProcessing
<1>3. w \in Withdrawals /\ executors[x].batch \ {w} \in SUBSET Withdrawals
  BY DEF QueueTyped, ExecutorStates
<1>4. CASE Takes(w)
  <2> DEFINE attempt == withdrawals[w].attempts + 1
  <2> DEFINE s == [Becoming(w, "processing") EXCEPT !.attempts = attempt]
  <2> DEFINE r == [Idle EXCEPT !.pc = "execute", !.batch = executors[x].batch \ {w},
                               !.withdrawal = w, !.attempt = attempt]
  <2>1. attempt \in Nat
    BY <1>3 DEF QueueTyped, WithdrawalStates
  <2>2. /\ s \in WithdrawalStates /\ s.status = "processing"
        /\ s.attempts = attempt /\ ~s.late
    <3>1. "processing" \in Statuses
      BY DEF Statuses
    <3> QED  BY <1>3, <2>1, <3>1, BecomingTyped DEF WithdrawalStates
  <2>3. /\ r \in ExecutorStates /\ r.pc = "execute" /\ r.withdrawal = w
        /\ r.attempt = attempt /\ r.result = "error"
    BY <1>3, <2>1 DEF Idle, ExecutorStates, Steps
  <2>4. Write(w, s) /\ Becomes(x, r)
    BY <1>1, <1>4
  <2> HIDE DEF s, r
  <2>5. /\ withdrawals' \in [Withdrawals -> WithdrawalStates] /\ withdrawals'[w] = s
        /\ \A v \in Withdrawals \ {w} : withdrawals'[v] = withdrawals[v]
    BY <1>3, <2>2, <2>4, WriteChanges
  <2>6. /\ executors' \in [Executors -> ExecutorStates] /\ executors'[x] = r
        /\ \A y \in Executors \ {x} : executors'[y] = executors[y]
        /\ \A y \in Executors :
              executors'[y].pc \in Executing => executors'[y].withdrawal \in Withdrawals
    BY <1>3, <2>3, <2>4, BecomesMoves
  <2>7. QueueTyped'
    BY <1>2, <2>5, <2>6 DEF QueueTyped
  <2> QED  BY <1>2, <1>3, <1>4, <2>2, <2>3, <2>5, <2>6, <2>7
<1>5. CASE ~Takes(w)
  <2>1. Continue(x, executors[x].batch \ {w}) /\ UNCHANGED withdrawals
    BY <1>1, <1>5
  <2> QED  BY <1>2, <1>3, <2>1, ContinueMoves DEF QueueTyped
<1> QED  BY <1>4, <1>5

\* A transaction more for w and nothing else, or no transaction.
Sends(w) ==
    /\ txs' = [txs EXCEPT ![w] = Append(@, "pending")]
    /\ w \in Withdrawals

LEMMA ExecuteMoves ==
    ASSUME QueueTyped, NEW x \in Executors, ExecuteShieldedWithdrawal(x)
    PROVE  /\ QueueTyped'
           /\ UNCHANGED <<withdrawals, granted>>
           /\ \A y \in Executors \ {x} : executors'[y] = executors[y]
           /\ executors[x].pc = "execute"
           /\ executors'[x].withdrawal = executors[x].withdrawal
           /\ executors'[x].attempt = executors[x].attempt
           /\ executors'[x].result = executors[x].result
           /\ \/ /\ executors'[x].pc = "wait" /\ Sends(executors[x].withdrawal)
                 /\ executors'[x].tx = Len(txs[executors[x].withdrawal]) + 1
              \/ /\ executors'[x].pc = "record"
                 /\ Sends(executors[x].withdrawal) \/ UNCHANGED txs
<1> DEFINE w == executors[x].withdrawal
<1> DEFINE last == Len(txs[w]) + 1
<1> DEFINE waiting == [executors[x] EXCEPT !.pc = "wait", !.tx = last]
<1> DEFINE failing == [executors[x] EXCEPT !.pc = "record"]
<1>1. executors[x].pc = "execute" /\ UNCHANGED <<withdrawals, granted>>
  BY DEF ExecuteShieldedWithdrawal
<1>2. w \in Withdrawals /\ executors[x] \in ExecutorStates
  BY <1>1 DEF QueueTyped, Executing
<1>3. /\ txs[w] \in Seq({"pending", "confirmed", "failed"}) /\ last \in Nat
      /\ Append(txs[w], "pending") \in Seq({"pending", "confirmed", "failed"})
  BY <1>2 DEF QueueTyped
<1>4. /\ waiting \in ExecutorStates /\ waiting.pc = "wait"
      /\ waiting.tx = last /\ waiting.withdrawal = w
      /\ waiting.attempt = executors[x].attempt /\ waiting.result = executors[x].result
  <2> HIDE DEF last
  <2> QED  BY <1>2, <1>3 DEF ExecutorStates, Steps
<1>5. /\ failing \in ExecutorStates /\ failing.pc = "record" /\ failing.withdrawal = w
      /\ failing.attempt = executors[x].attempt /\ failing.result = executors[x].result
  BY <1>2 DEF ExecutorStates, Steps
<1>6. \/ Sends(w) /\ Becomes(x, waiting)
      \/ (Sends(w) \/ UNCHANGED txs) /\ Becomes(x, failing)
  BY <1>2 DEF ExecuteShieldedWithdrawal, Sends
<1>7. txs' \in [Withdrawals -> Seq({"pending", "confirmed", "failed"})]
  <2>1. CASE Sends(w)
    <3> DEFINE S == Seq({"pending", "confirmed", "failed"})
    <3>1. txs \in [Withdrawals -> S] /\ Append(txs[w], "pending") \in S
      BY <1>3 DEF QueueTyped
    <3>2. txs' = [txs EXCEPT ![w] = Append(txs[w], "pending")]
      BY <2>1 DEF Sends
    <3> HIDE DEF S
    <3>3. txs' \in [Withdrawals -> S]
      BY <3>1, <3>2
    <3> QED  BY <3>3 DEF S
  <2>2. CASE UNCHANGED txs
    BY <2>2 DEF QueueTyped
  <2> QED  BY <1>6, <2>1, <2>2
<1> HIDE DEF waiting, failing
<1>8. CASE Sends(w) /\ Becomes(x, waiting)
  <2>1. /\ executors' \in [Executors -> ExecutorStates] /\ executors'[x] = waiting
        /\ \A y \in Executors \ {x} : executors'[y] = executors[y]
        /\ \A y \in Executors :
              executors'[y].pc \in Executing => executors'[y].withdrawal \in Withdrawals
    BY <1>2, <1>4, <1>8, BecomesMoves
  <2>2. QueueTyped'
    BY <1>1, <1>7, <2>1 DEF QueueTyped
  <2> QED  BY <1>1, <1>4, <1>8, <2>1, <2>2
<1>9. CASE (Sends(w) \/ UNCHANGED txs) /\ Becomes(x, failing)
  <2>1. /\ executors' \in [Executors -> ExecutorStates] /\ executors'[x] = failing
        /\ \A y \in Executors \ {x} : executors'[y] = executors[y]
        /\ \A y \in Executors :
              executors'[y].pc \in Executing => executors'[y].withdrawal \in Withdrawals
    BY <1>2, <1>5, <1>9, BecomesMoves
  <2>2. QueueTyped'
    BY <1>1, <1>7, <2>1 DEF QueueTyped
  <2> QED  BY <1>1, <1>5, <1>9, <2>1, <2>2
<1> QED  BY <1>6, <1>8, <1>9

LEMMA WaitMoves ==
    ASSUME QueueTyped, NEW x \in Executors, WaitForGMRTransaction(x)
    PROVE  /\ QueueTyped'
           /\ UNCHANGED <<withdrawals, granted, txs>>
           /\ \A y \in Executors \ {x} : executors'[y] = executors[y]
           /\ executors[x].pc = "wait" /\ executors'[x].pc = "record"
           /\ executors'[x].withdrawal = executors[x].withdrawal
           /\ executors'[x].attempt = executors[x].attempt
           /\ executors'[x].result = "confirmed" =>
                 Confirmed(executors[x].withdrawal, executors[x].tx)
<1>1. PICK result \in {"error", "confirmed"} :
        /\ result = "confirmed" => Confirmed(executors[x].withdrawal, executors[x].tx)
        /\ Becomes(x, [executors[x] EXCEPT !.pc = "record", !.result = result])
  BY DEF WaitForGMRTransaction
<1>2. executors[x].pc = "wait" /\ UNCHANGED <<withdrawals, granted, txs>>
  BY DEF WaitForGMRTransaction
<1>3. executors[x].withdrawal \in Withdrawals /\ executors[x] \in ExecutorStates
  BY <1>2 DEF QueueTyped, Executing
<1> DEFINE s == [executors[x] EXCEPT !.pc = "record", !.result = result]
<1>4. /\ s \in ExecutorStates /\ s.pc = "record" /\ s.result = result
      /\ s.withdrawal = executors[x].withdrawal /\ s.attempt = executors[x].attempt
  BY <1>3 DEF ExecutorStates, Steps
<1>5. Becomes(x, s)
  BY <1>1
<1> HIDE DEF s
<1>6. /\ executors' \in [Executors -> ExecutorStates] /\ executors'[x] = s
      /\ \A y \in Executors \ {x} : executors'[y] = executors[y]
      /\ \A y \in Executors :
            executors'[y].pc \in Executing => executors'[y].withdrawal \in Withdrawals
  BY <1>3, <1>4, <1>5, BecomesMoves
<1>7. QueueTyped'
  BY <1>2, <1>6 DEF QueueTyped
<1> QED  BY <1>1, <1>2, <1>4, <1>6, <1>7

LEMMA CompleteMoves ==
    ASSUME QueueTyped, NEW x \in Executors, CompleteShieldedWithdrawalExecution(x)
    PROVE  /\ QueueTyped'
           /\ UNCHANGED <<granted, txs>>
           /\ executors[x].pc = "record"
           /\ executors[x].withdrawal \in Withdrawals
           /\ withdrawals'[executors[x].withdrawal].status = Result(x)
           /\ withdrawals'[executors[x].withdrawal].attempts
                 = withdrawals[executors[x].withdrawal].attempts
           /\ \A v \in Withdrawals \ {executors[x].withdrawal} :
                 withdrawals'[v] = withdrawals[v]
           /\ executors'[x].pc \notin Executing
           /\ \A y \in Executors \ {x} : executors'[y] = executors[y]
<1>1. /\ executors[x].pc = "record" /\ UNCHANGED <<granted, txs>>
      /\ Continue(x, executors[x].batch)
      /\ Write(executors[x].withdrawal, Becoming(executors[x].withdrawal, Result(x)))
  BY DEF CompleteShieldedWithdrawalExecution
<1>2. /\ executors[x].withdrawal \in Withdrawals
      /\ executors[x].batch \in SUBSET Withdrawals
  BY <1>1 DEF QueueTyped, Executing, ExecutorStates
<1>3. Result(x) \in Statuses
  BY DEF Result, Statuses
<1> QED  BY <1>1, <1>2, <1>3, BecomingTyped, WriteChanges, ContinueMoves DEF QueueTyped

LEMMA MinedTyped ==
    ASSUME QueueTyped, NEW w \in Withdrawals, Mined(w)
    PROVE  /\ QueueTyped'
           /\ UNCHANGED <<withdrawals, granted, executors>>
           /\ \A v \in Withdrawals : DOMAIN txs'[v] = DOMAIN txs[v]
           /\ \A v \in Withdrawals : Spent(v) => Spent(v)'
<1>1. PICK i \in DOMAIN txs[w], result \in {"confirmed", "failed"} :
        txs[w][i] = "pending" /\ txs' = [txs EXCEPT ![w][i] = result]
  BY DEF Mined
<1>2. txs[w] \in Seq({"pending", "confirmed", "failed"})
  BY DEF QueueTyped
<1>3. /\ txs'[w] = [txs[w] EXCEPT ![i] = result]
      /\ \A v \in Withdrawals \ {w} : txs'[v] = txs[v]
  BY <1>1 DEF QueueTyped
<1>4. txs'[w] \in Seq({"pending", "confirmed", "failed"}) /\ DOMAIN txs'[w] = DOMAIN txs[w]
  BY <1>1, <1>2, <1>3
<1>5. txs' \in [Withdrawals -> Seq({"pending", "confirmed", "failed"})]
  BY <1>1, <1>3, <1>4 DEF QueueTyped
<1>6. \A j \in DOMAIN txs[w] : txs[w][j] = "confirmed" => txs'[w][j] = "confirmed"
  BY <1>1, <1>2, <1>3
<1>7. UNCHANGED <<withdrawals, granted, executors>>
  BY DEF Mined
<1>8. QueueTyped'
  BY <1>5, <1>7 DEF QueueTyped
<1> QED  BY <1>3, <1>4, <1>6, <1>7, <1>8 DEF Spent

\* A flag is set; nothing else changes.
LEMMA LatenessTyped ==
    ASSUME QueueTyped, NEW w \in Withdrawals, BecomesDue(w) \/ BecomesStale(w)
    PROVE  /\ QueueTyped'
           /\ UNCHANGED <<granted, txs, executors>>
           /\ withdrawals'[w].status = withdrawals[w].status
           /\ withdrawals'[w].attempts = withdrawals[w].attempts
           /\ \A v \in Withdrawals \ {w} : withdrawals'[v] = withdrawals[v]
<1>1. /\ withdrawals' = [withdrawals EXCEPT ![w].late = TRUE]
      /\ UNCHANGED <<granted, txs, executors>>
    BY DEF BecomesDue, BecomesStale
<1>2. withdrawals \in [Withdrawals -> WithdrawalStates]
    BY DEF QueueTyped
<1>3. withdrawals' \in [Withdrawals -> WithdrawalStates]
    BY <1>1, <1>2 DEF WithdrawalStates
<1>4. /\ withdrawals'[w].status = withdrawals[w].status
      /\ withdrawals'[w].attempts = withdrawals[w].attempts
      /\ \A v \in Withdrawals \ {w} : withdrawals'[v] = withdrawals[v]
    BY <1>1, <1>2 DEF WithdrawalStates
<1> QED  BY <1>1, <1>3, <1>4 DEF QueueTyped

LEMMA FaultMoves ==
    ASSUME QueueTyped, NEW x \in Executors, Restart(x) \/ StoreFails(x)
    PROVE  /\ QueueTyped'
           /\ UNCHANGED <<withdrawals, granted, txs>>
           /\ executors'[x].pc \notin Executing
           /\ \A y \in Executors \ {x} : executors'[y] = executors[y]
<1>1. UNCHANGED <<withdrawals, granted, txs>>
  BY DEF Restart, StoreFails
<1>2. executors[x] \in ExecutorStates
  BY DEF QueueTyped
<1>3. ASSUME Becomes(x, Idle)
      PROVE  /\ QueueTyped'
             /\ executors'[x].pc \notin Executing
             /\ \A y \in Executors \ {x} : executors'[y] = executors[y]
  <2>1. Idle.pc \notin Executing
    BY DEF Idle, Executing
  <2> QED  BY <1>1, <1>3, <2>1, IdleTyped, BecomesMoves DEF QueueTyped
<1>4. ASSUME executors[x].pc = "recover",
             Becomes(x, [executors[x] EXCEPT !.pc = "list"])
      PROVE  /\ QueueTyped'
             /\ executors'[x].pc \notin Executing
             /\ \A y \in Executors \ {x} : executors'[y] = executors[y]
  <2> DEFINE s == [executors[x] EXCEPT !.pc = "list"]
  <2>1. s \in ExecutorStates /\ s.pc \notin Executing
    BY <1>2 DEF ExecutorStates, Steps, Executing
  <2>2. Becomes(x, s)
    BY <1>4
  <2> HIDE DEF s
  <2> QED  BY <1>1, <2>1, <2>2, BecomesMoves DEF QueueTyped
<1>5. ASSUME NEW batch \in SUBSET executors[x].batch, Continue(x, batch)
      PROVE  /\ QueueTyped'
             /\ executors'[x].pc \notin Executing
             /\ \A y \in Executors \ {x} : executors'[y] = executors[y]
  <2>1. batch \in SUBSET Withdrawals
    BY <1>2 DEF ExecutorStates
  <2> QED  BY <1>1, <1>5, <2>1, ContinueMoves DEF QueueTyped
<1>6. CASE Restart(x)
  BY <1>1, <1>3, <1>6 DEF Restart
<1>7. CASE StoreFails(x)
  <2>1. CASE /\ executors[x].pc = "recover"
             /\ Becomes(x, [executors[x] EXCEPT !.pc = "list"])
    BY <1>1, <1>4, <2>1
  <2>2. CASE Becomes(x, Idle)
    BY <1>1, <1>3, <2>2
  <2>3. CASE \E w \in executors[x].batch : Continue(x, executors[x].batch \ {w})
    BY <1>1, <1>5, <2>3
  <2>4. CASE Continue(x, executors[x].batch)
    BY <1>1, <1>5, <2>4
  <2> QED  BY <1>7, <2>1, <2>2, <2>3, <2>4 DEF StoreFails
<1> QED  BY <1>6, <1>7

LEMMA NextTyped == QueueTyped /\ [Next]_vars => QueueTyped'
<1> SUFFICES ASSUME QueueTyped, [Next]_vars
             PROVE  QueueTyped'
  OBVIOUS
<1>1. CASE StoreRequest
  BY <1>1, StoreRequestTyped
<1>2. ASSUME NEW x \in Requests, NEW w \in Withdrawals,
             AdminProcessShieldedWithdrawal(x, w)
      PROVE  QueueTyped'
  BY <1>2, AdminProcessTyped
<1>3. ASSUME NEW x \in Workers, WorkerStep(x)
      PROVE  QueueTyped'
  BY <1>3, WorkerMoves
<1>4. ASSUME NEW x \in Executors, ExecutorStep(x)
      PROVE  QueueTyped'
  BY <1>4, MarkMoves, ExecuteMoves, WaitMoves, CompleteMoves DEF ExecutorStep
<1>5. CASE Environment
  BY <1>5, MinedTyped, LatenessTyped DEF Environment
<1>6. CASE Fault
  BY <1>6, FaultMoves DEF Fault
<1>7. CASE UNCHANGED vars
  BY <1>7 DEF vars, QueueTyped
<1> QED  BY <1>1, <1>2, <1>3, <1>4, <1>5, <1>6, <1>7 DEF Next

----------------------------------------------------------------------------
(* One executor, bounded tries *)

\* Nobody begins to work on a withdrawal.
NoNewHolder ==
    \A x \in Executors : \A v \in Withdrawals :
        Holds(x, v)' => Holds(x, v) /\ executors'[x].attempt = executors[x].attempt

LEMMA HoldersKept ==
    ASSUME QueueInv, NoNewHolder,
           \A x \in Executors : \A v \in Withdrawals : Holds(x, v)' =>
               /\ withdrawals'[v].status \in {"processing", "suspicious"}
               /\ ~withdrawals'[v].late
               /\ withdrawals'[v].attempts = withdrawals[v].attempts
    PROVE  OneExecutor' /\ HeldInProcessing'
<1>1. OneExecutor'
  BY DEF QueueInv, OneExecutor, NoNewHolder
<1>2. HeldInProcessing'
  BY DEF QueueInv, HeldInProcessing, NoNewHolder, Status
<1> QED  BY <1>1, <1>2

\* Whoever starts to wait has a try left, or was given one.
LEMMA TriesKept ==
    ASSUME QueueTyped, QueueTyped', QueueInv,
           \A v \in Withdrawals :
              /\ withdrawals'[v].attempts = withdrawals[v].attempts
              /\ granted'[v] >= granted[v]
              /\ withdrawals'[v].status \in Untaken =>
                    \/ withdrawals[v].status \in Untaken
                    \/ granted'[v] > granted[v]
                    \/ withdrawals[v].attempts < MaxAttempts
    PROVE  AttemptsBounded' /\ TriesLeft'
<1> SUFFICES ASSUME NEW v \in Withdrawals
             PROVE  /\ withdrawals'[v].attempts <= MaxAttempts + granted'[v]
                    /\ withdrawals'[v].status \in Untaken =>
                          withdrawals'[v].attempts < MaxAttempts + granted'[v]
  BY DEF AttemptsBounded, TriesLeft, Status
<1>1. /\ withdrawals[v].attempts \in Nat /\ granted[v] \in Nat /\ granted'[v] \in Nat
      /\ MaxAttempts \in Nat
  BY QueueAssumption DEF QueueTyped, WithdrawalStates
<1>2. withdrawals[v].attempts <= MaxAttempts + granted[v]
  BY DEF QueueInv, AttemptsBounded
<1>3. withdrawals[v].status \in Untaken =>
         withdrawals[v].attempts < MaxAttempts + granted[v]
  BY DEF QueueInv, TriesLeft, Status
<1>4. /\ withdrawals'[v].attempts = withdrawals[v].attempts
      /\ granted'[v] >= granted[v]
      /\ withdrawals'[v].status \in Untaken =>
            \/ withdrawals[v].status \in Untaken
            \/ granted'[v] > granted[v]
            \/ withdrawals[v].attempts < MaxAttempts
  OBVIOUS
<1> QED  BY <1>1, <1>2, <1>3, <1>4

LEMMA InitQueue == Init => QueueInv
<1> SUFFICES ASSUME Init PROVE QueueInv
  OBVIOUS
<1>1. \A x \in Executors, w \in Withdrawals : ~Holds(x, w)
  BY DEF Init, Holds, Idle
<1>2. \A w \in Withdrawals : /\ withdrawals[w].attempts = 0 /\ granted[w] = 0
                            /\ Status(w) = "none"
  BY DEF Init, NotRequested, Status
<1>3. MaxAttempts \in Nat \ {0}
  BY QueueAssumption
<1> QED  BY <1>1, <1>2, <1>3
         DEF QueueInv, OneExecutor, HeldInProcessing, AttemptsBounded, TriesLeft

\* w, on which nobody works, is retried by hand.
LEMMA RequeuedQueue ==
    ASSUME QueueTyped, QueueTyped', QueueInv, ~Overtaking, NEW w \in Withdrawals,
           NEW now \in BOOLEAN, Requeued(w, now), NoNewHolder
    PROVE  QueueInv'
<1>1. \A x \in Executors : ~Holds(x, w)
  BY DEF Requeued, Free
<1>2. \A v \in Withdrawals \ {w} :
        withdrawals'[v] = withdrawals[v] /\ granted'[v] = granted[v]
  BY RequeuedChanges
<1>3. OneExecutor' /\ HeldInProcessing'
  <2>1. \A x \in Executors : \A v \in Withdrawals : Holds(x, v)' =>
               /\ withdrawals'[v].status \in {"processing", "suspicious"}
               /\ ~withdrawals'[v].late
               /\ withdrawals'[v].attempts = withdrawals[v].attempts
    BY <1>1, <1>2 DEF NoNewHolder, QueueInv, HeldInProcessing, Status
  <2> QED  BY <2>1, HoldersKept
<1>4. AttemptsBounded' /\ TriesLeft'
  <2>1. \A v \in Withdrawals : granted[v] \in Nat
    BY DEF QueueTyped
  <2>2. /\ withdrawals'[w].attempts = withdrawals[w].attempts
        /\ granted'[w] = IF Status(w) \in Waiting THEN granted[w] ELSE granted[w] + 1
    BY RequeuedChanges
  <2>3. granted'[w] >= granted[w]
    BY <2>1, <2>2
  <2>4. withdrawals[w].status \in Untaken \/ granted'[w] > granted[w]
    BY <2>1, <2>2 DEF Status, Untaken
  <2>5. \A v \in Withdrawals :
              /\ withdrawals'[v].attempts = withdrawals[v].attempts
              /\ granted'[v] >= granted[v]
              /\ withdrawals'[v].status \in Untaken =>
                    \/ withdrawals[v].status \in Untaken
                    \/ granted'[v] > granted[v]
                    \/ withdrawals[v].attempts < MaxAttempts
    BY <1>2, <2>1, <2>2, <2>3, <2>4
  <2> QED  BY <2>5, TriesKept
<1> QED  BY <1>3, <1>4 DEF QueueInv

\* Only the status of withdrawals changes, and no held one begins to wait.
LEMMA StatusQueue ==
    ASSUME QueueTyped, QueueTyped', QueueInv, NoNewHolder, UNCHANGED granted,
           \A v \in Withdrawals :
              /\ withdrawals'[v].attempts = withdrawals[v].attempts
              /\ withdrawals'[v].status \in Untaken =>
                    \/ withdrawals[v].status \in Untaken
                    \/ withdrawals[v].attempts < MaxAttempts,
           \A x \in Executors : \A v \in Withdrawals : Holds(x, v)' =>
               /\ withdrawals'[v].status \in {"processing", "suspicious"}
               /\ ~withdrawals'[v].late
    PROVE  QueueInv'
<1>1. \A v \in Withdrawals : granted[v] \in Nat /\ granted'[v] >= granted[v]
  BY DEF QueueTyped
<1>2. AttemptsBounded' /\ TriesLeft'
  BY <1>1, TriesKept
<1>3. OneExecutor' /\ HeldInProcessing'
  BY HoldersKept
<1> QED  BY <1>2, <1>3 DEF QueueInv

ConfirmedKept ==
    \A w \in Withdrawals : Status(w) = "confirmed" => Status(w)' = "confirmed"

LEMMA StoreRequestQueue ==
    ASSUME QueueTyped, QueueInv, ~Overtaking, StoreRequest
    PROVE  QueueInv' /\ ConfirmedKept
<1>1. QueueTyped' /\ UNCHANGED executors
  BY StoreRequestTyped
     DEF StoreRequest, CreateShieldedWithdrawal, RetryShieldedWithdrawal,
         RetryAnyShieldedWithdrawal, MarkShieldedWithdrawalSuspicious, SetPaused
<1>2. NoNewHolder
  BY <1>1 DEF NoNewHolder, Holds
<1>3. \A x \in Executors : \A v \in Withdrawals : Holds(x, v)' =>
        /\ Holds(x, v) /\ withdrawals[v].status \in {"processing", "suspicious"}
        /\ ~withdrawals[v].late
  BY <1>2 DEF NoNewHolder, QueueInv, HeldInProcessing, Status
<1>4. ASSUME NEW w \in Withdrawals, CreateShieldedWithdrawal(w)
      PROVE  QueueInv' /\ ConfirmedKept
  <2>1. /\ withdrawals'[w].status = "queued" /\ withdrawals[w].status = "none"
        /\ withdrawals'[w].attempts = withdrawals[w].attempts
        /\ \A v \in Withdrawals \ {w} : withdrawals'[v] = withdrawals[v]
        /\ UNCHANGED granted
    BY <1>4, BecomingTyped, WriteChanges DEF CreateShieldedWithdrawal, Statuses, Status
  <2>2. QueueInv'
    BY <1>1, <1>2, <1>3, <2>1, StatusQueue DEF Untaken
  <2> QED  BY <2>1, <2>2 DEF ConfirmedKept, Status
<1>5. ASSUME NEW w \in Withdrawals,
             RetryShieldedWithdrawal(w) \/ RetryAnyShieldedWithdrawal(w)
      PROVE  QueueInv' /\ ConfirmedKept
  <2>1. Requeued(w, FALSE) /\ Status(w) # "confirmed"
    BY <1>5 DEF RetryShieldedWithdrawal, RetryAnyShieldedWithdrawal, RetryableByAdmin,
                Waiting, Stopped
  <2>2. QueueInv'
    BY <1>1, <1>2, <2>1, RequeuedQueue
  <2> QED  BY <2>1, <2>2, RequeuedChanges DEF ConfirmedKept, Status
<1>6. ASSUME NEW w \in Withdrawals, MarkShieldedWithdrawalSuspicious(w)
      PROVE  QueueInv' /\ ConfirmedKept
  <2>1. /\ withdrawals'[w].status = "suspicious" /\ withdrawals[w].status # "confirmed"
        /\ ~withdrawals'[w].late
        /\ withdrawals'[w].attempts = withdrawals[w].attempts
        /\ \A v \in Withdrawals \ {w} : withdrawals'[v] = withdrawals[v]
        /\ UNCHANGED granted
    BY <1>6, BecomingTyped, WriteChanges
       DEF MarkShieldedWithdrawalSuspicious, Statuses, Status
  <2>2. QueueInv'
    BY <1>1, <1>2, <1>3, <2>1, StatusQueue DEF Untaken, Waiting
  <2> QED  BY <2>1, <2>2 DEF ConfirmedKept, Status
<1>7. ASSUME NEW value \in BOOLEAN, SetPaused(value)
      PROVE  QueueInv' /\ ConfirmedKept
  <2>1. UNCHANGED <<withdrawals, granted>>
    BY <1>7 DEF SetPaused
  <2>2. QueueInv'
    BY <1>1, <1>2, <1>3, <2>1, StatusQueue
  <2> QED  BY <2>1, <2>2 DEF ConfirmedKept, Status
<1> QED  BY <1>4, <1>5, <1>6, <1>7 DEF StoreRequest

LEMMA AdminProcessQueue ==
    ASSUME QueueTyped, QueueInv, ~Overtaking, NEW x \in Requests,
           NEW w \in Withdrawals, AdminProcessShieldedWithdrawal(x, w)
    PROVE  QueueInv' /\ ConfirmedKept
<1>1. /\ x \in Executors /\ {w} \in SUBSET Withdrawals
      /\ RetryableByAdmin(w) /\ Requeued(w, TRUE) /\ Continue(x, {w})
  BY DEF AdminProcessShieldedWithdrawal, Executors
<1>2. NoNewHolder
  BY <1>1, ContinueMoves DEF NoNewHolder, Holds, Executing
<1>3. QueueInv'
  BY <1>1, <1>2, AdminProcessTyped, RequeuedQueue
<1>4. Status(w) # "confirmed"
  BY <1>1 DEF RetryableByAdmin, Waiting, Stopped
<1> QED  BY <1>1, <1>3, <1>4, RequeuedChanges DEF ConfirmedKept, Status

LEMMA WorkerQueue ==
    ASSUME QueueTyped, QueueInv, NEW x \in Workers, WorkerStep(x)
    PROVE  QueueInv' /\ ConfirmedKept
<1>1. QueueTyped'
  BY WorkerMoves
<1>2. NoNewHolder
  BY WorkerMoves DEF NoNewHolder, Holds, Executing
<1>3. \A y \in Executors : \A v \in Withdrawals : Holds(y, v)' =>
        /\ withdrawals[v].status \in {"processing", "suspicious"}
        /\ ~withdrawals[v].late
  BY <1>2 DEF NoNewHolder, QueueInv, HeldInProcessing, Status
<1>4. UNCHANGED granted
  BY DEF WorkerStep, Tick, RecoverStaleShieldedWithdrawals, ListDueShieldedWithdrawals
<1>5. CASE UNCHANGED withdrawals
  <2>1. QueueInv'
    BY <1>1, <1>2, <1>3, <1>4, <1>5, StatusQueue
  <2> QED  BY <1>5, <2>1 DEF ConfirmedKept, Status
<1>6. CASE RecoverStaleShieldedWithdrawals(x)
  <2>1. \A v \in Withdrawals : withdrawals'[v] = Recovered(v)
    BY <1>6 DEF RecoverStaleShieldedWithdrawals
  <2>2. \A v \in Withdrawals :
          withdrawals[v].status # "processing" \/ ~withdrawals[v].late =>
              withdrawals'[v] = withdrawals[v]
    BY <2>1 DEF Recovered, Status
  <2>3. \A v \in Withdrawals :
          /\ withdrawals'[v].attempts = withdrawals[v].attempts
          /\ withdrawals'[v].status \in Untaken =>
                \/ withdrawals[v].status \in Untaken
                \/ withdrawals[v].attempts < MaxAttempts
    <3> SUFFICES ASSUME NEW v \in Withdrawals
                 PROVE  /\ withdrawals'[v].attempts = withdrawals[v].attempts
                        /\ withdrawals'[v].status \in Untaken =>
                              \/ withdrawals[v].status \in Untaken
                              \/ withdrawals[v].attempts < MaxAttempts
      OBVIOUS
    <3>1. CASE withdrawals'[v] = withdrawals[v]
      BY <3>1
    <3>2. CASE Status(v) = "processing" /\ withdrawals[v].late
      <4>1. {"failed", "retry"} \subseteq Statuses
        BY DEF Statuses
      <4>2. withdrawals'[v] = Becoming(v, IF LastAttempt(withdrawals[v].attempts)
                                          THEN "failed" ELSE "retry")
        BY <2>1, <3>2 DEF Recovered
      <4>3. /\ withdrawals'[v].attempts = withdrawals[v].attempts
            /\ withdrawals'[v].status = IF LastAttempt(withdrawals[v].attempts)
                                         THEN "failed" ELSE "retry"
        BY <4>1, <4>2, BecomingTyped
      <4>4. withdrawals[v].attempts \in Nat /\ MaxAttempts \in Nat
        BY QueueAssumption DEF QueueTyped, WithdrawalStates
      <4> QED  BY <4>3, <4>4 DEF LastAttempt, Untaken, Waiting
    <3> QED  BY <2>2, <3>1, <3>2 DEF Status
  <2>4. QueueInv'
    BY <1>1, <1>2, <1>3, <1>4, <2>2, <2>3, StatusQueue
  <2> QED  BY <2>2, <2>4 DEF ConfirmedKept, Status
<1>7. UNCHANGED withdrawals \/ RecoverStaleShieldedWithdrawals(x)
  BY DEF WorkerStep, Tick, ListDueShieldedWithdrawals
<1> QED  BY <1>5, <1>6, <1>7

\* Steps that change no withdrawal and after which nobody works on more than before.
LEMMA QuietQueue ==
    ASSUME QueueTyped, QueueTyped', QueueInv, NoNewHolder,
           UNCHANGED <<withdrawals, granted>>
    PROVE  QueueInv' /\ ConfirmedKept
<1>1. \A y \in Executors : \A v \in Withdrawals : Holds(y, v)' =>
        /\ withdrawals'[v].status \in {"processing", "suspicious"}
        /\ ~withdrawals'[v].late
  BY DEF NoNewHolder, QueueInv, HeldInProcessing, Status
<1>2. QueueInv'
  BY <1>1, StatusQueue
<1> QED  BY <1>2 DEF ConfirmedKept, Status

LEMMA MarkQueue ==
    ASSUME QueueTyped, QueueInv, NEW x \in Executors,
           MarkShieldedWithdrawalProcessing(x)
    PROVE  QueueInv' /\ ConfirmedKept
<1>1. QueueTyped' /\ UNCHANGED granted
      /\ \A y \in Executors \ {x} : executors'[y] = executors[y]
  BY MarkMoves
<1>2. CASE executors'[x].pc \notin Executing /\ UNCHANGED withdrawals
  <2>1. NoNewHolder
    BY <1>1, <1>2 DEF NoNewHolder, Holds, Executing
  <2> QED  BY <1>1, <1>2, <2>1, QuietQueue
<1>3. ASSUME NEW w \in Withdrawals,
             Takes(w),
             withdrawals'[w].status = "processing",
             withdrawals'[w].attempts = withdrawals[w].attempts + 1,
             ~withdrawals'[w].late,
             \A v \in Withdrawals \ {w} : withdrawals'[v] = withdrawals[v],
             executors'[x].pc = "execute",
             executors'[x].withdrawal = w,
             executors'[x].attempt = withdrawals'[w].attempts
      PROVE  QueueInv' /\ ConfirmedKept
  <2>1. \A y \in Executors : ~Holds(y, w)
    BY <1>3 DEF QueueInv, HeldInProcessing, Takes, Waiting
  <2>2. /\ \A y \in Executors : Holds(y, w)' <=> y = x
        /\ \A y \in Executors : \A v \in Withdrawals \ {w} :
              Holds(y, v)' => Holds(y, v) /\ y # x
    BY <1>1, <1>3, <2>1 DEF Holds
  <2>3. OneExecutor'
    BY <2>2 DEF QueueInv, OneExecutor
  <2>4. HeldInProcessing'
    BY <1>1, <1>3, <2>2 DEF QueueInv, HeldInProcessing, Status
  <2>5. AttemptsBounded' /\ TriesLeft'
    <3>1. withdrawals[w].attempts < MaxAttempts + granted[w]
      BY <1>3 DEF QueueInv, TriesLeft, Takes, Untaken, Status
    <3>2. withdrawals[w].attempts \in Nat /\ granted[w] \in Nat /\ MaxAttempts \in Nat
      BY QueueAssumption DEF QueueTyped, WithdrawalStates
    <3>3. withdrawals'[w].attempts <= MaxAttempts + granted'[w]
      BY <1>1, <1>3, <3>1, <3>2
    <3>4. withdrawals'[w].status \notin Untaken
      BY <1>3 DEF Untaken, Waiting
    <3> QED  BY <1>1, <1>3, <3>3, <3>4
             DEF QueueInv, AttemptsBounded, TriesLeft, Status
  <2>6. ConfirmedKept
    BY <1>3 DEF ConfirmedKept, Status, Takes, Waiting
  <2> QED  BY <2>3, <2>4, <2>5, <2>6 DEF QueueInv
<1> QED  BY <1>2, <1>3, MarkMoves

LEMMA CompleteQueue ==
    ASSUME QueueTyped, QueueInv, NEW x \in Executors,
           CompleteShieldedWithdrawalExecution(x)
    PROVE  QueueInv' /\ ConfirmedKept
<1>0. PICK w \in Withdrawals : w = executors[x].withdrawal
  BY CompleteMoves
<1>1. /\ QueueTyped' /\ UNCHANGED granted
      /\ executors[x].pc = "record" /\ executors'[x].pc \notin Executing
      /\ withdrawals'[w].status = Result(x)
      /\ withdrawals'[w].attempts = withdrawals[w].attempts
      /\ \A v \in Withdrawals \ {w} : withdrawals'[v] = withdrawals[v]
      /\ \A y \in Executors \ {x} : executors'[y] = executors[y]
  BY <1>0, CompleteMoves
<1>2. Holds(x, w)
  BY <1>0, <1>1 DEF Holds
<1>3. NoNewHolder
  BY <1>1 DEF NoNewHolder, Holds, Executing
<1>4. \A y \in Executors : ~Holds(y, w)'
  BY <1>1, <1>2, <1>3 DEF NoNewHolder, Holds, Executing, QueueInv, OneExecutor
<1>5. \A y \in Executors : \A v \in Withdrawals : Holds(y, v)' =>
        /\ withdrawals'[v].status \in {"processing", "suspicious"}
        /\ ~withdrawals'[v].late
  BY <1>1, <1>3, <1>4 DEF NoNewHolder, QueueInv, HeldInProcessing, Status
<1>6. executors[x].attempt = withdrawals[w].attempts /\ Status(w) # "confirmed"
  BY <1>1, <1>2 DEF QueueInv, HeldInProcessing
<1>7. Result(x) \in Untaken => withdrawals[w].attempts < MaxAttempts
  <2>1. withdrawals[w].attempts \in Nat /\ MaxAttempts \in Nat
    BY <1>1, QueueAssumption DEF QueueTyped, WithdrawalStates
  <2> QED  BY <1>6, <2>1 DEF Result, LastAttempt, Untaken, Waiting
<1>8. QueueInv'
  BY <1>1, <1>3, <1>5, <1>7, StatusQueue
<1> QED  BY <1>1, <1>6, <1>8 DEF ConfirmedKept, Status

LEMMA ExecutorQueue ==
    ASSUME QueueTyped, QueueInv, NEW x \in Executors, ExecutorStep(x)
    PROVE  QueueInv' /\ ConfirmedKept
<1>1. CASE ExecuteShieldedWithdrawal(x)
  <2>1. NoNewHolder
    BY <1>1, ExecuteMoves DEF NoNewHolder, Holds
  <2> QED  BY <1>1, <2>1, ExecuteMoves, QuietQueue
<1>2. CASE WaitForGMRTransaction(x)
  <2>1. NoNewHolder
    BY <1>2, WaitMoves DEF NoNewHolder, Holds
  <2> QED  BY <1>2, <2>1, WaitMoves, QuietQueue
<1> QED  BY <1>1, <1>2, MarkQueue, CompleteQueue DEF ExecutorStep

LEMMA RestQueue ==
    ASSUME QueueTyped, QueueInv, ~Overtaking, Environment \/ Fault \/ UNCHANGED vars
    PROVE  QueueInv' /\ ConfirmedKept
<1>1. ASSUME NEW w \in Withdrawals, Mined(w)
      PROVE  QueueInv' /\ ConfirmedKept
  <2>1. NoNewHolder
    BY <1>1, MinedTyped DEF NoNewHolder, Holds
  <2> QED  BY <1>1, <2>1, MinedTyped, QuietQueue
<1>2. ASSUME NEW w \in Withdrawals, BecomesDue(w) \/ BecomesStale(w)
      PROVE  QueueInv' /\ ConfirmedKept
  <2>1. \A x \in Executors : ~Holds(x, w)
    BY <1>2 DEF BecomesDue, BecomesStale, Free, QueueInv, HeldInProcessing, Waiting
  <2>2. NoNewHolder
    BY <1>2, LatenessTyped DEF NoNewHolder, Holds
  <2>3. \A y \in Executors : \A v \in Withdrawals : Holds(y, v)' =>
          /\ withdrawals'[v].status \in {"processing", "suspicious"}
          /\ ~withdrawals'[v].late
    BY <1>2, <2>1, <2>2, LatenessTyped DEF NoNewHolder, QueueInv, HeldInProcessing, Status
  <2>4. QueueInv'
    BY <1>2, <2>2, <2>3, LatenessTyped, StatusQueue
  <2> QED  BY <1>2, <2>4, LatenessTyped DEF ConfirmedKept, Status
<1>3. ASSUME NEW x \in Executors, Restart(x) \/ StoreFails(x)
      PROVE  QueueInv' /\ ConfirmedKept
  <2>1. NoNewHolder
    BY <1>3, FaultMoves DEF NoNewHolder, Holds, Executing
  <2> QED  BY <1>3, <2>1, FaultMoves, QuietQueue
<1>4. CASE UNCHANGED vars
  <2>1. NoNewHolder /\ QueueTyped' /\ UNCHANGED <<withdrawals, granted>>
    BY <1>4 DEF NoNewHolder, Holds, vars, QueueTyped
  <2> QED  BY <2>1, QuietQueue
<1> QED  BY <1>1, <1>2, <1>3, <1>4 DEF Environment, Fault

LEMMA NextQueue ==
    ASSUME QueueTyped, QueueInv, ~Overtaking, [Next]_vars
    PROVE  QueueInv' /\ ConfirmedKept
BY StoreRequestQueue, AdminProcessQueue, WorkerQueue, ExecutorQueue, RestQueue DEF Next

LEMMA QueueInvariant ==
    ASSUME ~Overtaking
    PROVE  Spec => [](QueueTyped /\ QueueInv)
<1>1. Init => QueueTyped /\ QueueInv
  BY InitTyped, InitQueue
<1>2. QueueTyped /\ QueueInv /\ [Next]_vars => QueueTyped' /\ QueueInv'
  BY NextTyped, NextQueue
<1> QED  BY <1>1, <1>2, PTL DEF Spec

\* Unless an execution is overtaken, MarkShieldedWithdrawalProcessing gives a
\* withdrawal to one executor at a time.
THEOREM ExecutedByOne ==
    ASSUME ~Overtaking
    PROVE  Spec => []OneExecutor
<1>1. QueueInv => OneExecutor
  BY DEF QueueInv
<1> QED  BY <1>1, QueueInvariant, PTL

\* Unless an execution is overtaken, executions, recoveries and restarts together
\* try a withdrawal no more often than the limit and its manual retries allow.
THEOREM TriesBounded ==
    ASSUME ~Overtaking
    PROVE  Spec => []AttemptsBounded
<1>1. QueueInv => AttemptsBounded
  BY DEF QueueInv
<1> QED  BY <1>1, QueueInvariant, PTL

\* Unless an execution is overtaken, no retry, recovery, mark or late result is
\* written over a confirmed withdrawal, although the code records results without
\* asking for the status they replace.
THEOREM ConfirmedFinal ==
    ASSUME ~Overtaking
    PROVE  Spec => ConfirmedStays
<1>1. QueueTyped /\ QueueInv /\ [Next]_vars => [ConfirmedKept]_vars
  BY NextQueue
<1> QED  BY <1>1, QueueInvariant, PTL DEF Spec, ConfirmedStays, ConfirmedKept

----------------------------------------------------------------------------
(* What is confirmed was paid, what is suspicious is held *)

LEMMA InitPaid == Init => PaidInv
BY DEF Init, PaidInv, ResultsTrue, ConfirmedMeansSpent, NotRequested, Idle, Status

\* No transaction is touched and nothing becomes confirmed.
LEMMA PaidKept ==
    ASSUME PaidInv, UNCHANGED txs,
           \A x \in Executors :
              executors'[x] = executors[x] \/ executors'[x].pc \notin Executing,
           \A v \in Withdrawals :
              withdrawals'[v].status = "confirmed" => withdrawals[v].status = "confirmed"
    PROVE  PaidInv'
<1>1. ResultsTrue'
  <2> SUFFICES ASSUME NEW x \in Executors
               PROVE  /\ executors'[x].pc \in {"execute", "wait"} =>
                            executors'[x].result = "error"
                      /\ executors'[x].pc = "wait" =>
                            executors'[x].tx \in DOMAIN txs'[executors'[x].withdrawal]
                      /\ executors'[x].pc = "record" /\ executors'[x].result = "confirmed"
                            => \E i \in DOMAIN txs'[executors'[x].withdrawal] :
                                 txs'[executors'[x].withdrawal][i] = "confirmed"
    BY DEF ResultsTrue, Spent
  <2>1. CASE executors'[x] = executors[x]
    BY <2>1 DEF PaidInv, ResultsTrue, Spent
  <2>2. CASE executors'[x].pc \notin Executing
    BY <2>2 DEF Executing
  <2> QED  BY <2>1, <2>2
<1>2. ConfirmedMeansSpent'
  BY DEF PaidInv, ConfirmedMeansSpent, Status, Spent
<1> QED  BY <1>1, <1>2 DEF PaidInv

SuspiciousKept ==
    \A w \in Withdrawals :
        Status(w) = "suspicious" /\ (\A x \in Executors : ~Holds(x, w))
            => \/ Status(w)' = "suspicious"
               \/ Status(w)' = "retry" /\ granted'[w] > granted[w]

LEMMA RequeuedPaid ==
    ASSUME QueueTyped, PaidInv, NEW w \in Withdrawals, NEW now \in BOOLEAN,
           Requeued(w, now), UNCHANGED txs,
           \A x \in Executors :
              executors'[x] = executors[x] \/ executors'[x].pc \notin Executing
    PROVE  PaidInv' /\ SuspiciousKept
<1>1. /\ withdrawals'[w].status = "retry"
      /\ \A v \in Withdrawals \ {w} : withdrawals'[v] = withdrawals[v]
      /\ granted'[w] = IF Status(w) \in Waiting THEN granted[w] ELSE granted[w] + 1
  BY RequeuedChanges
<1>2. PaidInv'
  BY <1>1, PaidKept
<1>3. Status(w) = "suspicious" => granted'[w] > granted[w]
  BY <1>1 DEF QueueTyped, Waiting
<1> QED  BY <1>1, <1>2, <1>3 DEF SuspiciousKept, Status

LEMMA StoreRequestPaid ==
    ASSUME QueueTyped, PaidInv, StoreRequest
    PROVE  PaidInv' /\ SuspiciousKept
<1>1. UNCHANGED executors /\ UNCHANGED txs
  BY DEF StoreRequest, CreateShieldedWithdrawal, RetryShieldedWithdrawal,
         RetryAnyShieldedWithdrawal, MarkShieldedWithdrawalSuspicious, SetPaused
<1>2. ASSUME NEW w \in Withdrawals, CreateShieldedWithdrawal(w)
      PROVE  PaidInv' /\ SuspiciousKept
  <2>1. /\ withdrawals'[w].status = "queued" /\ withdrawals[w].status = "none"
        /\ \A v \in Withdrawals \ {w} : withdrawals'[v] = withdrawals[v]
    BY <1>2, BecomingTyped, WriteChanges DEF CreateShieldedWithdrawal, Statuses, Status
  <2>2. PaidInv'
    BY <1>1, <2>1, PaidKept
  <2> QED  BY <2>1, <2>2 DEF SuspiciousKept, Status
<1>3. ASSUME NEW w \in Withdrawals,
             RetryShieldedWithdrawal(w) \/ RetryAnyShieldedWithdrawal(w)
      PROVE  PaidInv' /\ SuspiciousKept
  BY <1>1, <1>3, RequeuedPaid DEF RetryShieldedWithdrawal, RetryAnyShieldedWithdrawal
<1>4. ASSUME NEW w \in Withdrawals, MarkShieldedWithdrawalSuspicious(w)
      PROVE  PaidInv' /\ SuspiciousKept
  <2>1. /\ withdrawals'[w].status = "suspicious"
        /\ \A v \in Withdrawals \ {w} : withdrawals'[v] = withdrawals[v]
    BY <1>4, BecomingTyped, WriteChanges DEF MarkShieldedWithdrawalSuspicious, Statuses
  <2>2. PaidInv'
    BY <1>1, <2>1, PaidKept
  <2> QED  BY <2>1, <2>2 DEF SuspiciousKept, Status
<1>5. ASSUME NEW value \in BOOLEAN, SetPaused(value)
      PROVE  PaidInv' /\ SuspiciousKept
  <2>1. UNCHANGED withdrawals
    BY <1>5 DEF SetPaused
  <2> QED  BY <1>1, <2>1, PaidKept DEF SuspiciousKept, Status
<1> QED  BY <1>2, <1>3, <1>4, <1>5 DEF StoreRequest

LEMMA AdminProcessPaid ==
    ASSUME QueueTyped, PaidInv, NEW x \in Requests, NEW w \in Withdrawals,
           AdminProcessShieldedWithdrawal(x, w)
    PROVE  PaidInv' /\ SuspiciousKept
<1>1. /\ x \in Executors /\ {w} \in SUBSET Withdrawals
      /\ Requeued(w, TRUE) /\ Continue(x, {w}) /\ UNCHANGED txs
  BY DEF AdminProcessShieldedWithdrawal, Executors
<1>2. \A y \in Executors :
        executors'[y] = executors[y] \/ executors'[y].pc \notin Executing
  BY <1>1, ContinueMoves
<1> QED  BY <1>1, <1>2, RequeuedPaid

LEMMA WorkerPaid ==
    ASSUME QueueTyped, PaidInv, NEW x \in Workers, WorkerStep(x)
    PROVE  PaidInv' /\ SuspiciousKept
<1>1. \A y \in Executors :
        executors'[y] = executors[y] \/ executors'[y].pc \notin Executing
  BY WorkerMoves
<1>2. UNCHANGED txs
  BY DEF WorkerStep, Tick, RecoverStaleShieldedWithdrawals, ListDueShieldedWithdrawals
<1>3. \A v \in Withdrawals :
        \/ withdrawals'[v] = withdrawals[v]
        \/ /\ withdrawals[v].status = "processing"
           /\ withdrawals'[v].status \in {"failed", "retry"}
  <2>1. CASE RecoverStaleShieldedWithdrawals(x)
    <3>1. \A v \in Withdrawals : withdrawals'[v] = Recovered(v)
      BY <2>1 DEF RecoverStaleShieldedWithdrawals
    <3>2. {"failed", "retry"} \subseteq Statuses
      BY DEF Statuses
    <3> QED  BY <3>1, <3>2, BecomingTyped DEF Recovered, Status
  <2>2. CASE UNCHANGED withdrawals
    BY <2>2
  <2> QED  BY <2>1, <2>2 DEF WorkerStep, Tick, ListDueShieldedWithdrawals
<1>4. PaidInv'
  BY <1>1, <1>2, <1>3, PaidKept
<1> QED  BY <1>3, <1>4 DEF SuspiciousKept, Status

\* Transactions are added and confirmed, never taken back.
ChainGrows ==
    \A v \in Withdrawals :
        DOMAIN txs[v] \subseteq DOMAIN txs'[v] /\ (Spent(v) => Spent(v)')

LEMMA SendsGrows ==
    ASSUME QueueTyped, NEW w, Sends(w) \/ UNCHANGED txs
    PROVE  /\ ChainGrows
           /\ Sends(w) => Len(txs[w]) + 1 \in DOMAIN txs'[w]
<1>1. CASE Sends(w)
  <2>1. /\ w \in Withdrawals /\ txs'[w] = Append(txs[w], "pending")
        /\ \A v \in Withdrawals \ {w} : txs'[v] = txs[v]
    BY <1>1 DEF Sends, QueueTyped
  <2>2. txs[w] \in Seq({"pending", "confirmed", "failed"})
    BY <2>1 DEF QueueTyped
  <2>3. /\ DOMAIN txs[w] = 1 .. Len(txs[w]) /\ Len(txs[w]) \in Nat
        /\ DOMAIN txs'[w] = 1 .. Len(txs[w]) + 1
        /\ \A i \in 1 .. Len(txs[w]) : txs'[w][i] = txs[w][i]
    BY <2>1, <2>2
  <2>4. DOMAIN txs[w] \subseteq DOMAIN txs'[w] /\ Len(txs[w]) + 1 \in DOMAIN txs'[w]
    BY <2>3
  <2>5. Spent(w) => \E i \in DOMAIN txs'[w] : txs'[w][i] = "confirmed"
    BY <2>3, <2>4 DEF Spent
  <2> QED  BY <2>1, <2>4, <2>5 DEF ChainGrows, Spent
<1>2. CASE UNCHANGED txs /\ ~Sends(w)
  BY <1>2 DEF ChainGrows, Spent
<1> QED  BY <1>1, <1>2

\* What holds of an executor that takes no step goes on to hold.
LEMMA OthersTrue ==
    ASSUME QueueTyped, ResultsTrue, ChainGrows, NEW y \in Executors,
           executors'[y] = executors[y]
    PROVE  /\ executors'[y].pc \in {"execute", "wait"} => executors'[y].result = "error"
           /\ executors'[y].pc = "wait" =>
                 executors'[y].tx \in DOMAIN txs'[executors'[y].withdrawal]
           /\ executors'[y].pc = "record" /\ executors'[y].result = "confirmed" =>
                 \E i \in DOMAIN txs'[executors'[y].withdrawal] :
                    txs'[executors'[y].withdrawal][i] = "confirmed"
<1>1. executors[y].pc \in Executing => executors[y].withdrawal \in Withdrawals
  BY DEF QueueTyped
<1> QED  BY <1>1 DEF ResultsTrue, ChainGrows, Executing, Spent

\* The step of one executor.
LEMMA OneTrue ==
    ASSUME QueueTyped, PaidInv, ChainGrows, NEW x \in Executors,
           \A y \in Executors \ {x} : executors'[y] = executors[y],
           executors'[x].pc \in {"execute", "wait"} => executors'[x].result = "error",
           executors'[x].pc = "wait" =>
              executors'[x].tx \in DOMAIN txs'[executors'[x].withdrawal],
           executors'[x].pc = "record" /\ executors'[x].result = "confirmed" =>
              \E i \in DOMAIN txs'[executors'[x].withdrawal] :
                 txs'[executors'[x].withdrawal][i] = "confirmed",
           \A v \in Withdrawals : withdrawals'[v].status = "confirmed" =>
              Spent(v)'
    PROVE  PaidInv'
<1>1. ResultsTrue'
  BY OthersTrue DEF PaidInv, ResultsTrue, Spent
<1>2. ConfirmedMeansSpent'
  BY DEF ConfirmedMeansSpent, Status
<1> QED  BY <1>1, <1>2 DEF PaidInv

LEMMA ExecutorPaid ==
    ASSUME QueueTyped, PaidInv, NEW x \in Executors, ExecutorStep(x)
    PROVE  PaidInv' /\ SuspiciousKept
<1>1. CASE MarkShieldedWithdrawalProcessing(x)
  <2>1. /\ ChainGrows
        /\ \A y \in Executors \ {x} : executors'[y] = executors[y]
    BY <1>1, MarkMoves DEF ChainGrows, Spent
  <2>2. /\ \A v \in Withdrawals : withdrawals'[v] # withdrawals[v] =>
                 Takes(v) /\ withdrawals'[v].status = "processing"
        /\ \/ executors'[x].pc \notin Executing
           \/ executors'[x].pc = "execute" /\ executors'[x].result = "error"
    <3>1. CASE executors'[x].pc \notin Executing /\ UNCHANGED withdrawals
      BY <3>1
    <3>2. ASSUME NEW w \in Withdrawals, Takes(w),
                 withdrawals'[w].status = "processing",
                 \A v \in Withdrawals \ {w} : withdrawals'[v] = withdrawals[v],
                 executors'[x].pc = "execute", executors'[x].result = "error"
          PROVE  /\ \A v \in Withdrawals : withdrawals'[v] # withdrawals[v] =>
                       Takes(v) /\ withdrawals'[v].status = "processing"
                 /\ executors'[x].pc = "execute" /\ executors'[x].result = "error"
      BY <3>2
    <3> QED  BY <1>1, <3>1, <3>2, MarkMoves
  <2>3. \A v \in Withdrawals : withdrawals'[v].status = "confirmed" => Spent(v)'
    BY <2>1, <2>2 DEF PaidInv, ConfirmedMeansSpent, Status, ChainGrows
  <2>4. PaidInv'
    BY <2>1, <2>2, <2>3, OneTrue DEF Executing
  <2> QED  BY <2>2, <2>4 DEF SuspiciousKept, Status, Takes, Waiting
<1>2. CASE ExecuteShieldedWithdrawal(x)
  <2>1. PICK w \in Withdrawals : w = executors[x].withdrawal
    BY <1>2 DEF ExecuteShieldedWithdrawal, QueueTyped, Executing
  <2>2. Sends(w) \/ UNCHANGED txs
    BY <1>2, <2>1, ExecuteMoves
  <2>3. /\ ChainGrows /\ (Sends(w) => Len(txs[w]) + 1 \in DOMAIN txs'[w])
        /\ UNCHANGED withdrawals
    BY <1>2, <2>2, ExecuteMoves, SendsGrows
  <2>4. \A v \in Withdrawals : withdrawals'[v].status = "confirmed" => Spent(v)'
    BY <2>3 DEF PaidInv, ConfirmedMeansSpent, Status, ChainGrows
  <2>5. executors'[x].result = "error"
    BY <1>2, ExecuteMoves DEF PaidInv, ResultsTrue
  <2>6. executors'[x].pc = "wait" =>
          executors'[x].tx \in DOMAIN txs'[executors'[x].withdrawal]
    BY <1>2, <2>1, <2>3, ExecuteMoves
  <2>7. PaidInv'
    BY <1>2, <2>3, <2>4, <2>5, <2>6, ExecuteMoves, OneTrue
  <2> QED  BY <2>3, <2>7 DEF SuspiciousKept, Status
<1>3. CASE WaitForGMRTransaction(x)
  <2>1. ChainGrows /\ UNCHANGED <<withdrawals, txs>>
    BY <1>3, WaitMoves DEF ChainGrows, Spent
  <2>2. \A v \in Withdrawals : withdrawals'[v].status = "confirmed" => Spent(v)'
    BY <2>1 DEF PaidInv, ConfirmedMeansSpent, Status, ChainGrows
  <2>3. executors[x].tx \in DOMAIN txs[executors[x].withdrawal]
    BY <1>3, WaitMoves DEF PaidInv, ResultsTrue
  <2>4. PaidInv'
    BY <1>3, <2>1, <2>2, <2>3, WaitMoves, OneTrue DEF Confirmed
  <2> QED  BY <2>1, <2>4 DEF SuspiciousKept, Status
<1>4. CASE CompleteShieldedWithdrawalExecution(x)
  <2>1. PICK w \in Withdrawals : w = executors[x].withdrawal
    BY <1>4, CompleteMoves
  <2>2. /\ executors[x].pc = "record" /\ executors'[x].pc \notin Executing
        /\ withdrawals'[w].status = Result(x)
        /\ \A v \in Withdrawals \ {w} : withdrawals'[v] = withdrawals[v]
        /\ \A y \in Executors \ {x} : executors'[y] = executors[y]
        /\ UNCHANGED txs
    BY <1>4, <2>1, CompleteMoves
  <2>3. ChainGrows
    BY <2>2 DEF ChainGrows, Spent
  <2>4. withdrawals'[w].status = "confirmed" => Spent(w)
    BY <2>1, <2>2 DEF Result, PaidInv, ResultsTrue
  <2>5. \A v \in Withdrawals : withdrawals'[v].status = "confirmed" => Spent(v)'
    BY <2>2, <2>3, <2>4 DEF PaidInv, ConfirmedMeansSpent, Status, ChainGrows
  <2>6. PaidInv'
    BY <2>2, <2>3, <2>5, OneTrue DEF Executing
  <2>7. Holds(x, w)
    BY <2>1, <2>2 DEF Holds
  <2> QED  BY <2>2, <2>6, <2>7 DEF SuspiciousKept, Status
<1> QED  BY <1>1, <1>2, <1>3, <1>4 DEF ExecutorStep

LEMMA RestPaid ==
    ASSUME QueueTyped, PaidInv, Environment \/ Fault \/ UNCHANGED vars
    PROVE  PaidInv' /\ SuspiciousKept
<1>1. ASSUME NEW w \in Withdrawals, Mined(w)
      PROVE  PaidInv' /\ SuspiciousKept
  <2>1. ChainGrows /\ UNCHANGED <<withdrawals, executors>>
    BY <1>1, MinedTyped DEF ChainGrows
  <2>2. ResultsTrue'
    BY <2>1, OthersTrue DEF PaidInv, ResultsTrue, Spent
  <2>3. ConfirmedMeansSpent'
    BY <2>1 DEF PaidInv, ConfirmedMeansSpent, Status, ChainGrows
  <2> QED  BY <2>1, <2>2, <2>3 DEF PaidInv, SuspiciousKept, Status
<1>2. ASSUME NEW w \in Withdrawals, BecomesDue(w) \/ BecomesStale(w)
      PROVE  PaidInv' /\ SuspiciousKept
  <2>1. /\ UNCHANGED <<executors, txs>>
        /\ \A v \in Withdrawals : withdrawals'[v].status = withdrawals[v].status
    BY <1>2, LatenessTyped
  <2> QED  BY <2>1, PaidKept DEF SuspiciousKept, Status
<1>3. ASSUME NEW x \in Executors, Restart(x) \/ StoreFails(x)
      PROVE  PaidInv' /\ SuspiciousKept
  <2>1. /\ UNCHANGED <<withdrawals, txs>>
        /\ \A y \in Executors :
              executors'[y] = executors[y] \/ executors'[y].pc \notin Executing
    BY <1>3, FaultMoves
  <2> QED  BY <2>1, PaidKept DEF SuspiciousKept, Status
<1>4. CASE UNCHANGED vars
  BY <1>4, PaidKept DEF vars, SuspiciousKept, Status
<1> QED  BY <1>1, <1>2, <1>3, <1>4 DEF Environment, Fault

LEMMA NextPaid ==
    ASSUME QueueTyped, PaidInv, [Next]_vars
    PROVE  PaidInv' /\ SuspiciousKept
BY StoreRequestPaid, AdminProcessPaid, WorkerPaid, ExecutorPaid, RestPaid DEF Next

LEMMA PaidInvariant == Spec => [](QueueTyped /\ PaidInv)
<1>1. Init => QueueTyped /\ PaidInv
  BY InitTyped, InitPaid
<1>2. QueueTyped /\ PaidInv /\ [Next]_vars => QueueTyped' /\ PaidInv'
  BY NextTyped, NextPaid
<1> QED  BY <1>1, <1>2, PTL DEF Spec

\* Whatever is overtaken, lost, late or restarted, a withdrawal is called confirmed
\* only when the pool has paid it.
THEOREM ConfirmedPaid == Spec => []ConfirmedMeansSpent
<1>1. PaidInv => ConfirmedMeansSpent
  BY DEF PaidInv
<1> QED  BY <1>1, PaidInvariant, PTL

\* A withdrawal marked suspicious while nobody works on it goes back to the queue
\* by hand only, whichever lists it is still on.
THEOREM SuspiciousStays == Spec => SuspiciousHeld
<1>1. QueueTyped /\ PaidInv /\ [Next]_vars => [SuspiciousKept]_vars
  BY NextPaid
<1> QED  BY <1>1, PaidInvariant, PTL DEF Spec, SuspiciousHeld, SuspiciousKept

----------------------------------------------------------------------------
(* The queue keeps its promise *)

\* What was not requested was not sent to the pool.
SentRequested == \A w \in Withdrawals : Status(w) = "none" => DOMAIN txs[w] = {}

\* No transaction is touched; nothing becomes confirmed, requested or forgotten.
Quiet ==
    /\ UNCHANGED txs
    /\ \A v \in Withdrawals :
          /\ withdrawals'[v].status = "confirmed" => Status(v) = "confirmed"
          /\ withdrawals'[v].status = "none" <=> Status(v) = "none"

Keeps == SentRequested' /\ [Promise!PromiseNext]_(Promise!promiseVars)

LEMMA QuietKeeps ==
    ASSUME SentRequested, ConfirmedKept, Quiet
    PROVE  Keeps
<1>1. SentRequested'
  BY DEF SentRequested, Quiet, Status
<1>2. /\ {w \in Withdrawals : Status(w) # "none"}'
            = {w \in Withdrawals : Status(w) # "none"}
      /\ {w \in Withdrawals : Status(w) = "confirmed"}'
            = {w \in Withdrawals : Status(w) = "confirmed"}
      /\ {w \in Withdrawals : Spent(w)}' = {w \in Withdrawals : Spent(w)}
  BY DEF Quiet, ConfirmedKept, Status, Spent
<1> QED  BY <1>1, <1>2 DEF Keeps, Promise!promiseVars

LEMMA StoreRequestKeeps ==
    ASSUME QueueTyped, SentRequested, ConfirmedKept, StoreRequest
    PROVE  Keeps
<1>1. ASSUME NEW w \in Withdrawals, CreateShieldedWithdrawal(w)
      PROVE  Keeps
  <2>1. /\ Status(w) = "none" /\ withdrawals'[w].status = "queued"
        /\ \A v \in Withdrawals \ {w} : withdrawals'[v] = withdrawals[v]
        /\ UNCHANGED txs
    BY <1>1, WriteChanges, BecomingTyped DEF CreateShieldedWithdrawal, Statuses
  <2>2. SentRequested'
    BY <2>1 DEF SentRequested, Status
  <2>3. /\ w \notin {v \in Withdrawals : Status(v) # "none"}
        /\ {v \in Withdrawals : Status(v) # "none"}'
              = {v \in Withdrawals : Status(v) # "none"} \cup {w}
        /\ {v \in Withdrawals : Status(v) = "confirmed"}'
              = {v \in Withdrawals : Status(v) = "confirmed"}
        /\ {v \in Withdrawals : Spent(v)}' = {v \in Withdrawals : Spent(v)}
    BY <2>1 DEF Status, Spent
  <2>4. Promise!Request(w)
    BY <2>3 DEF Promise!Request
  <2> QED  BY <2>2, <2>4 DEF Keeps, Promise!PromiseNext
<1>2. ASSUME NEW w \in Withdrawals,
             RetryShieldedWithdrawal(w) \/ RetryAnyShieldedWithdrawal(w)
      PROVE  Keeps
  <2>1. Requeued(w, FALSE) /\ UNCHANGED txs /\ Status(w) # "none"
    BY <1>2 DEF RetryShieldedWithdrawal, RetryAnyShieldedWithdrawal,
                RetryableByAdmin, Waiting, Stopped
  <2>2. Quiet
    BY <2>1, RequeuedChanges DEF Quiet, Status
  <2> QED  BY <2>2, QuietKeeps
<1>3. ASSUME NEW w \in Withdrawals, MarkShieldedWithdrawalSuspicious(w)
      PROVE  Keeps
  <2>1. /\ Status(w) # "none" /\ withdrawals'[w].status = "suspicious"
        /\ \A v \in Withdrawals \ {w} : withdrawals'[v] = withdrawals[v]
        /\ UNCHANGED txs
    BY <1>3, WriteChanges, BecomingTyped
       DEF MarkShieldedWithdrawalSuspicious, Statuses
  <2>2. Quiet
    BY <2>1 DEF Quiet, Status
  <2> QED  BY <2>2, QuietKeeps
<1>4. ASSUME NEW value \in BOOLEAN, SetPaused(value)
      PROVE  Keeps
  BY <1>4, QuietKeeps DEF SetPaused, Quiet, Status
<1> QED  BY <1>1, <1>2, <1>3, <1>4 DEF StoreRequest

LEMMA AdminProcessKeeps ==
    ASSUME QueueTyped, SentRequested, ConfirmedKept,
           NEW x \in Requests, NEW w \in Withdrawals, AdminProcessShieldedWithdrawal(x, w)
    PROVE  Keeps
<1>1. Requeued(w, TRUE) /\ UNCHANGED txs /\ Status(w) # "none"
  BY DEF AdminProcessShieldedWithdrawal, RetryableByAdmin, Waiting, Stopped
<1>2. Quiet
  BY <1>1, RequeuedChanges DEF Quiet, Status
<1> QED  BY <1>2, QuietKeeps

LEMMA WorkerKeeps ==
    ASSUME QueueTyped, SentRequested, ConfirmedKept,
           NEW x \in Workers, WorkerStep(x)
    PROVE  Keeps
<1>1. CASE RecoverStaleShieldedWithdrawals(x)
  <2>1. \A v \in Withdrawals : withdrawals'[v] = Recovered(v) /\ UNCHANGED txs
    BY <1>1 DEF RecoverStaleShieldedWithdrawals
  <2>2. \A v \in Withdrawals :
           \/ Recovered(v) = withdrawals[v]
           \/ /\ Status(v) = "processing"
              /\ Recovered(v).status \in {"failed", "retry"}
    BY BecomingTyped DEF Recovered, Statuses
  <2>3. Quiet
    BY <1>1, <2>1, <2>2 DEF Quiet, Status, RecoverStaleShieldedWithdrawals
  <2> QED  BY <2>3, QuietKeeps
<1>2. CASE Tick(x) \/ ListDueShieldedWithdrawals(x)
  BY <1>2, QuietKeeps DEF Tick, ListDueShieldedWithdrawals, Quiet, Status
<1> QED  BY <1>1, <1>2 DEF WorkerStep

\* What is sent is pending, and of a withdrawal that was requested.
LEMMA ExecuteKeeps ==
    ASSUME QueueTyped, QueueInv, SentRequested,
           NEW x \in Executors, ExecuteShieldedWithdrawal(x)
    PROVE  Keeps
<1>0. PICK w \in Withdrawals : w = executors[x].withdrawal
  BY ExecuteMoves DEF QueueTyped, Executing
<1>1. UNCHANGED withdrawals /\ executors[x].pc = "execute"
      /\ (Sends(w) \/ UNCHANGED txs)
  BY <1>0, ExecuteMoves
<1>2. w \in Withdrawals /\ Holds(x, w)
  BY <1>0, <1>1 DEF Holds
<1>3. Status(w) # "none"
  BY <1>2 DEF QueueInv, HeldInProcessing
<1>4. \A v \in Withdrawals \ {w} : txs'[v] = txs[v]
  BY <1>1 DEF Sends, QueueTyped
<1>5. SentRequested'
  BY <1>1, <1>3, <1>4 DEF SentRequested, Status
<1>6. Spent(w)' <=> Spent(w)
  <2>1. CASE txs'[w] = Append(txs[w], "pending")
    <3>1. txs[w] \in Seq({"pending", "confirmed", "failed"})
      BY <1>2 DEF QueueTyped
    <3>2. /\ DOMAIN txs[w] = 1 .. Len(txs[w]) /\ Len(txs[w]) \in Nat
          /\ DOMAIN txs'[w] = 1 .. Len(txs[w]) + 1
          /\ \A i \in 1 .. Len(txs[w]) : txs'[w][i] = txs[w][i]
          /\ txs'[w][Len(txs[w]) + 1] = "pending"
      BY <2>1, <3>1
    <3>3. \A i \in DOMAIN txs'[w] : i \in DOMAIN txs[w] \/ i = Len(txs[w]) + 1
      BY <3>2
    <3>4. DOMAIN txs[w] \subseteq DOMAIN txs'[w]
      BY <3>2
    <3>5. (\E i \in DOMAIN txs'[w] : txs'[w][i] = "confirmed")
             <=> \E i \in DOMAIN txs[w] : txs[w][i] = "confirmed"
      BY <3>2, <3>3, <3>4
    <3> QED  BY <3>5 DEF Spent
  <2>2. CASE txs' = txs
    BY <2>2 DEF Spent
  <2> QED  BY <1>1, <1>2, <2>1, <2>2 DEF Sends, QueueTyped
<1>7. \A v \in Withdrawals : Spent(v)' <=> Spent(v)
  BY <1>4, <1>6 DEF Spent
<1>8. /\ {v \in Withdrawals : Status(v) # "none"}'
            = {v \in Withdrawals : Status(v) # "none"}
      /\ {v \in Withdrawals : Status(v) = "confirmed"}'
            = {v \in Withdrawals : Status(v) = "confirmed"}
      /\ {v \in Withdrawals : Spent(v)}' = {v \in Withdrawals : Spent(v)}
  BY <1>1, <1>7 DEF Status
<1> QED  BY <1>5, <1>8 DEF Keeps, Promise!promiseVars

\* A result that is confirmed is of a withdrawal that was paid and not yet shown
\* as confirmed, since the executor alone works on it.
LEMMA CompleteKeeps ==
    ASSUME QueueTyped, QueueInv, PaidInv, SentRequested, ConfirmedKept,
           NEW x \in Executors, CompleteShieldedWithdrawalExecution(x)
    PROVE  Keeps
<1> DEFINE w == executors[x].withdrawal
<1>1. /\ UNCHANGED txs
      /\ executors[x].pc = "record" /\ w \in Withdrawals
      /\ withdrawals'[w].status = Result(x)
      /\ \A v \in Withdrawals \ {w} : withdrawals'[v] = withdrawals[v]
  BY CompleteMoves
<1>2. Status(w) \in {"processing", "suspicious"}
  BY <1>1 DEF Holds, QueueInv, HeldInProcessing
<1>3. CASE Result(x) = "confirmed"
  <2>1. Spent(w)
    BY <1>1, <1>3 DEF Result, PaidInv, ResultsTrue
  <2>2. SentRequested'
    BY <1>1, <1>2, <1>3 DEF SentRequested, Status
  <2>3. /\ w \in {v \in Withdrawals : Spent(v)}
                  \ {v \in Withdrawals : Status(v) = "confirmed"}
        /\ {v \in Withdrawals : Status(v) # "none"}'
              = {v \in Withdrawals : Status(v) # "none"}
        /\ {v \in Withdrawals : Status(v) = "confirmed"}'
              = {v \in Withdrawals : Status(v) = "confirmed"} \cup {w}
        /\ {v \in Withdrawals : Spent(v)}' = {v \in Withdrawals : Spent(v)}
    BY <1>1, <1>2, <1>3, <2>1 DEF Status, Spent
  <2>4. Promise!Confirm(w)
    BY <2>3 DEF Promise!Confirm
  <2> QED  BY <1>1, <2>2, <2>4 DEF Keeps, Promise!PromiseNext
<1>4. CASE Result(x) \in {"failed", "retry"}
  <2>1. Quiet
    BY <1>1, <1>2, <1>4 DEF Quiet, Status
  <2> QED  BY <2>1, QuietKeeps
<1> QED  BY <1>3, <1>4 DEF Result

LEMMA ExecutorKeeps ==
    ASSUME QueueTyped, QueueInv, PaidInv, SentRequested, ConfirmedKept,
           NEW x \in Executors, ExecutorStep(x)
    PROVE  Keeps
<1>1. CASE MarkShieldedWithdrawalProcessing(x)
  <2>1. Quiet
    BY <1>1, MarkMoves DEF Quiet, Status, Takes, Waiting
  <2> QED  BY <2>1, QuietKeeps
<1>2. CASE WaitForGMRTransaction(x)
  BY <1>2, WaitMoves, QuietKeeps DEF Quiet, Status
<1> QED  BY <1>1, <1>2, ExecuteKeeps, CompleteKeeps DEF ExecutorStep

LEMMA MinedKeeps ==
    ASSUME QueueTyped, SentRequested, NEW w \in Withdrawals, Mined(w)
    PROVE  Keeps
<1>1. PICK i \in DOMAIN txs[w], result \in {"confirmed", "failed"} :
        /\ txs[w][i] = "pending"
        /\ result = "confirmed" => ~Spent(w)
        /\ txs' = [txs EXCEPT ![w][i] = result]
  BY DEF Mined
<1>2. /\ UNCHANGED withdrawals
      /\ \A v \in Withdrawals : DOMAIN txs'[v] = DOMAIN txs[v]
      /\ \A v \in Withdrawals \ {w} : txs'[v] = txs[v]
      /\ txs'[w] = [txs[w] EXCEPT ![i] = result]
  BY <1>1, MinedTyped DEF QueueTyped
<1>3. SentRequested'
  BY <1>2 DEF SentRequested, Status
<1>4. Status(w) # "none"
  BY <1>1 DEF SentRequested
<1>5. \A v \in Withdrawals \ {w} : Spent(v)' <=> Spent(v)
  BY <1>2 DEF Spent
<1>6. /\ {v \in Withdrawals : Status(v) # "none"}'
            = {v \in Withdrawals : Status(v) # "none"}
      /\ {v \in Withdrawals : Status(v) = "confirmed"}'
            = {v \in Withdrawals : Status(v) = "confirmed"}
  BY <1>2 DEF Status
<1>7. CASE result = "confirmed"
  <2>1. Spent(w)' /\ ~Spent(w)
    BY <1>1, <1>2, <1>7 DEF Spent
  <2>2. /\ w \in {v \in Withdrawals : Status(v) # "none"}
                  \ {v \in Withdrawals : Spent(v)}
        /\ {v \in Withdrawals : Spent(v)}' = {v \in Withdrawals : Spent(v)} \cup {w}
    BY <1>4, <1>5, <2>1
  <2>3. Promise!Pay(w)
    BY <1>6, <2>2 DEF Promise!Pay
  <2> QED  BY <1>3, <2>3 DEF Keeps, Promise!PromiseNext
<1>8. CASE result = "failed"
  <2>1. Spent(w)' <=> Spent(w)
    BY <1>1, <1>2, <1>8 DEF Spent
  <2>2. {v \in Withdrawals : Spent(v)}' = {v \in Withdrawals : Spent(v)}
    BY <1>5, <2>1
  <2> QED  BY <1>3, <1>6, <2>2 DEF Keeps, Promise!promiseVars
<1> QED  BY <1>7, <1>8

LEMMA RestKeeps ==
    ASSUME QueueTyped, SentRequested, ConfirmedKept,
           Environment \/ Fault \/ UNCHANGED vars
    PROVE  Keeps
<1>1. ASSUME NEW w \in Withdrawals, BecomesDue(w) \/ BecomesStale(w)
      PROVE  Keeps
  BY <1>1, LatenessTyped, QuietKeeps DEF Quiet, Status
<1>2. ASSUME NEW x \in Executors, Restart(x) \/ StoreFails(x)
      PROVE  Keeps
  BY <1>2, FaultMoves, QuietKeeps DEF Quiet, Status
<1>3. CASE UNCHANGED vars
  BY <1>3, QuietKeeps DEF vars, Quiet, Status
<1> QED  BY <1>1, <1>2, <1>3, MinedKeeps DEF Environment, Fault

LEMMA NextKeeps ==
    ASSUME ~Overtaking, QueueTyped, QueueInv, PaidInv, SentRequested, [Next]_vars
    PROVE  Keeps
BY NextQueue, StoreRequestKeeps, AdminProcessKeeps, WorkerKeeps, ExecutorKeeps,
   RestKeeps DEF Next

LEMMA InitKeeps == Init => SentRequested /\ Promise!PromiseInit
BY DEF Init, SentRequested, Promise!PromiseInit, NotRequested, Status, Spent

\* Unless an execution is overtaken, the queue implements what it promises its
\* users: a withdrawal is paid once, after it was asked for, and shown as confirmed
\* when it was paid and for good.
THEOREM PromiseKept ==
    ASSUME ~Overtaking
    PROVE  Spec => KeepsPromise
<1>1. /\ QueueTyped /\ QueueInv /\ QueueTyped /\ PaidInv /\ SentRequested /\ [Next]_vars
            => SentRequested'
      /\ QueueTyped /\ QueueInv /\ QueueTyped /\ PaidInv /\ SentRequested /\ [Next]_vars
            => [Promise!PromiseNext]_(Promise!promiseVars)
  BY NextKeeps DEF Keeps
<1> QED  BY <1>1, InitKeeps, QueueInvariant, PaidInvariant, PTL
         DEF Spec, KeepsPromise, Promise!PromiseSpec

----------------------------------------------------------------------------
(* Batches and what an executor remembers *)

\* A batch is no longer than the limit; an executor that executes nothing
\* remembers its batch and nothing else.
Sound(s) ==
    /\ Cardinality(s.batch) <= BatchLimit
    /\ s.pc \notin Executing => s = [Idle EXCEPT !.pc = s.pc, !.batch = s.batch]

BatchesSound ==
    /\ granted \in [Withdrawals -> 0 .. MaxGrants]
    /\ paused \in BOOLEAN
    /\ \A x \in Executors : Sound(executors[x])

LEMMA BatchesAreFinite ==
    ASSUME NEW batch \in SUBSET Withdrawals
    PROVE  IsFiniteSet(batch) /\ Cardinality(batch) \in Nat
BY FS_Subset, FS_CardinalityType, QueueAssumption

LEMMA BecomesSound ==
    ASSUME QueueTyped, BatchesSound, NEW x \in Executors, NEW s \in ExecutorStates,
           Becomes(x, s), Sound(s)
    PROVE  \A y \in Executors : Sound(executors'[y])
<1>1. executors'[x] = s /\ \A y \in Executors \ {x} : executors'[y] = executors[y]
    BY DEF QueueTyped, Becomes
<1> QED  BY <1>1 DEF BatchesSound

LEMMA ContinueSound ==
    ASSUME QueueTyped, BatchesSound, NEW x \in Executors,
           NEW batch \in SUBSET Withdrawals, Cardinality(batch) <= BatchLimit,
           Continue(x, batch)
    PROVE  \A y \in Executors : Sound(executors'[y])
<1> DEFINE s == [Idle EXCEPT !.pc = IF batch = {} THEN "idle" ELSE "mark",
                             !.batch = batch]
<1>1. s \in ExecutorStates /\ s.batch = batch
    BY DEF Idle, ExecutorStates, Steps
<1>2. s = [Idle EXCEPT !.pc = s.pc, !.batch = s.batch]
    BY DEF Idle
<1>3. Becomes(x, s)
    BY DEF Continue
<1> HIDE DEF s
<1> QED  BY <1>1, <1>2, <1>3, BecomesSound DEF Sound

LEMMA IdleSound == Idle \in ExecutorStates /\ Sound(Idle)
<1>1. Cardinality({}) <= BatchLimit
    BY FS_EmptySet, QueueAssumption
<1>2. Idle.batch = {} /\ Idle = [Idle EXCEPT !.pc = Idle.pc, !.batch = Idle.batch]
    BY DEF Idle
<1> QED  BY <1>1, <1>2, IdleTyped DEF Sound

LEMMA ShorterSound ==
    ASSUME NEW batch \in SUBSET Withdrawals, Cardinality(batch) <= BatchLimit, NEW w
    PROVE  batch \ {w} \in SUBSET Withdrawals /\ Cardinality(batch \ {w}) <= BatchLimit
<1>1. batch \ {w} \in SUBSET batch /\ batch \ {w} \in SUBSET Withdrawals
    OBVIOUS
<1>2. Cardinality(batch \ {w}) <= Cardinality(batch)
    BY <1>1, BatchesAreFinite, FS_Subset
<1>3. Cardinality(batch) \in Nat /\ Cardinality(batch \ {w}) \in Nat /\ BatchLimit \in Nat
    BY <1>1, BatchesAreFinite, QueueAssumption
<1> QED  BY <1>1, <1>2, <1>3

LEMMA RequeuedSound ==
    ASSUME QueueTyped, BatchesSound, NEW w \in Withdrawals, NEW now \in BOOLEAN,
           Requeued(w, now)
    PROVE  granted' \in [Withdrawals -> 0 .. MaxGrants]
<1>1. granted' = [granted EXCEPT ![w] = IF Status(w) \in Waiting THEN @ ELSE @ + 1]
      /\ granted'[w] <= MaxGrants
    BY DEF Requeued
<1>2. granted[w] \in 0 .. MaxGrants /\ MaxGrants \in Nat
    BY QueueAssumption DEF BatchesSound
<1>3. granted'[w] \in 0 .. MaxGrants
    BY <1>1, <1>2 DEF BatchesSound
<1> QED  BY <1>1, <1>3 DEF BatchesSound

LEMMA StoreRequestSound ==
    ASSUME QueueTyped, BatchesSound, StoreRequest
    PROVE  BatchesSound'
<1>1. executors' = executors
    BY DEF StoreRequest, CreateShieldedWithdrawal, RetryShieldedWithdrawal,
           RetryAnyShieldedWithdrawal, MarkShieldedWithdrawalSuspicious, SetPaused
<1>2. granted' \in [Withdrawals -> 0 .. MaxGrants]
    <2>1. CASE granted' = granted
        BY <2>1 DEF BatchesSound
    <2>2. ASSUME NEW w \in Withdrawals, NEW now \in BOOLEAN, Requeued(w, now)
          PROVE  granted' \in [Withdrawals -> 0 .. MaxGrants]
        BY <2>2, RequeuedSound
    <2> QED  BY <2>1, <2>2 DEF StoreRequest, CreateShieldedWithdrawal,
                RetryShieldedWithdrawal, RetryAnyShieldedWithdrawal,
                MarkShieldedWithdrawalSuspicious, SetPaused
<1>3. paused' \in BOOLEAN
    BY DEF StoreRequest, CreateShieldedWithdrawal, RetryShieldedWithdrawal,
           RetryAnyShieldedWithdrawal, MarkShieldedWithdrawalSuspicious, SetPaused,
           BatchesSound
<1> QED  BY <1>1, <1>2, <1>3 DEF BatchesSound

LEMMA AdminProcessSound ==
    ASSUME QueueTyped, BatchesSound, NEW x \in Requests, NEW w \in Withdrawals,
           AdminProcessShieldedWithdrawal(x, w)
    PROVE  BatchesSound'
<1>1. x \in Executors /\ Requeued(w, TRUE) /\ Continue(x, {w}) /\ paused' = paused
    BY DEF AdminProcessShieldedWithdrawal, Executors
<1>2. Cardinality({w}) <= BatchLimit
    BY FS_Singleton, QueueAssumption
<1> QED  BY <1>1, <1>2, ContinueSound, RequeuedSound DEF BatchesSound

LEMMA WorkerSound ==
    ASSUME QueueTyped, BatchesSound, NEW x \in Workers, WorkerStep(x)
    PROVE  BatchesSound'
<1>1. x \in Executors /\ granted' = granted /\ paused' = paused
    BY DEF Executors, WorkerStep, Tick, RecoverStaleShieldedWithdrawals,
           ListDueShieldedWithdrawals
<1>2. CASE Tick(x)
    <2> DEFINE s == [Idle EXCEPT !.pc = "recover"]
    <2>1. s \in ExecutorStates /\ s.batch = Idle.batch
          /\ s = [Idle EXCEPT !.pc = s.pc, !.batch = s.batch]
        BY DEF Idle, ExecutorStates, Steps
    <2>2. Becomes(x, s)
        BY <1>2 DEF Tick
    <2> HIDE DEF s
    <2> QED  BY <1>1, <2>1, <2>2, IdleSound, BecomesSound DEF BatchesSound, Sound
<1>3. CASE RecoverStaleShieldedWithdrawals(x)
    <2> DEFINE s == [executors[x] EXCEPT !.pc = "list"]
    <2>1. executors[x] \in ExecutorStates /\ Sound(executors[x]) /\ executors[x].pc = "recover"
        BY <1>1, <1>3 DEF QueueTyped, BatchesSound, RecoverStaleShieldedWithdrawals
    <2>2. s \in ExecutorStates /\ s.batch = executors[x].batch
          /\ s = [Idle EXCEPT !.pc = s.pc, !.batch = s.batch]
        BY <2>1 DEF Sound, Idle, ExecutorStates, Steps, Executing
    <2>3. Becomes(x, s)
        BY <1>3 DEF RecoverStaleShieldedWithdrawals
    <2> HIDE DEF s
    <2> QED  BY <1>1, <2>1, <2>2, <2>3, BecomesSound DEF BatchesSound, Sound
<1>4. CASE ListDueShieldedWithdrawals(x)
    <2>1. PICK batch \in Batches(DueWithdrawals) : Continue(x, batch)
        BY <1>4 DEF ListDueShieldedWithdrawals
    <2>2. batch \in SUBSET Withdrawals /\ DueWithdrawals \in SUBSET Withdrawals
          /\ Cardinality(batch) = IF Cardinality(DueWithdrawals) < BatchLimit
                                  THEN Cardinality(DueWithdrawals) ELSE BatchLimit
        BY <2>1 DEF Batches, kSubset, DueWithdrawals
    <2>3. Cardinality(DueWithdrawals) \in Nat /\ BatchLimit \in Nat
        BY <2>2, BatchesAreFinite, QueueAssumption
    <2>4. Cardinality(batch) <= BatchLimit
        BY <2>2, <2>3
    <2> QED  BY <1>1, <2>1, <2>2, <2>4, ContinueSound DEF BatchesSound
<1> QED  BY <1>2, <1>3, <1>4 DEF WorkerStep

LEMMA ExecutorSound ==
    ASSUME QueueTyped, BatchesSound, NEW x \in Executors, ExecutorStep(x)
    PROVE  BatchesSound'
<1>1. /\ granted' = granted /\ paused' = paused
      /\ executors[x] \in ExecutorStates /\ executors[x].batch \in SUBSET Withdrawals
      /\ Sound(executors[x]) /\ Cardinality(executors[x].batch) <= BatchLimit
    BY DEF ExecutorStep, MarkShieldedWithdrawalProcessing, ExecuteShieldedWithdrawal,
           WaitForGMRTransaction, CompleteShieldedWithdrawalExecution, QueueTyped,
           BatchesSound, Sound, ExecutorStates
<1>2. ASSUME NEW s \in ExecutorStates, s.batch = executors[x].batch, s.pc \in Executing,
             Becomes(x, s)
      PROVE  BatchesSound'
    BY <1>1, <1>2, BecomesSound DEF BatchesSound, Sound
<1>3. CASE MarkShieldedWithdrawalProcessing(x)
    <2>1. PICK w \in executors[x].batch :
             LET rest == executors[x].batch \ {w} IN
             \/ Becomes(x, [Idle EXCEPT !.pc = "execute", !.batch = rest, !.withdrawal = w,
                                        !.attempt = withdrawals[w].attempts + 1])
             \/ Continue(x, rest)
        BY <1>3 DEF MarkShieldedWithdrawalProcessing
    <2> DEFINE rest == executors[x].batch \ {w}
               n == withdrawals[w].attempts + 1
               s == [Idle EXCEPT !.pc = "execute", !.batch = rest, !.withdrawal = w,
                                 !.attempt = n]
    <2>2. rest \in SUBSET Withdrawals /\ Cardinality(rest) <= BatchLimit /\ w \in Withdrawals
        BY <1>1, ShorterSound
    <2>3. CASE Continue(x, rest)
        BY <1>1, <2>2, <2>3, ContinueSound DEF BatchesSound
    <2>4. CASE Becomes(x, s)
        <3>1. n \in Nat
            BY <2>2 DEF QueueTyped, WithdrawalStates
        <3> HIDE DEF n, rest
        <3>2. s \in ExecutorStates /\ s.batch = rest /\ s.pc \in Executing
            BY <2>2, <3>1 DEF Idle, ExecutorStates, Steps, Executing
        <3> HIDE DEF s
        <3> QED  BY <1>1, <2>2, <2>4, <3>2, BecomesSound DEF BatchesSound, Sound
    <2> QED  BY <2>1, <2>3, <2>4
<1>4. CASE ExecuteShieldedWithdrawal(x)
    <2> DEFINE i == Len(txs[executors[x].withdrawal]) + 1
               s == [executors[x] EXCEPT !.pc = "wait", !.tx = i]
               r == [executors[x] EXCEPT !.pc = "record"]
    <2>1. executors[x].withdrawal \in Withdrawals
        BY <1>4 DEF ExecuteShieldedWithdrawal, QueueTyped, Executing
    <2>2. i \in Nat
        BY <2>1 DEF QueueTyped
    <2> HIDE DEF i
    <2>3. s \in ExecutorStates /\ s.batch = executors[x].batch /\ s.pc \in Executing
        BY <1>1, <2>2 DEF ExecutorStates, Steps, Executing
    <2>4. r \in ExecutorStates /\ r.batch = executors[x].batch /\ r.pc \in Executing
        BY <1>1 DEF ExecutorStates, Steps, Executing
    <2>5. Becomes(x, s) \/ Becomes(x, r)
        BY <1>4 DEF ExecuteShieldedWithdrawal, i
    <2> HIDE DEF s, r
    <2> QED  BY <1>2, <2>3, <2>4, <2>5
<1>5. CASE WaitForGMRTransaction(x)
    <2>1. PICK result \in {"error", "confirmed"} :
             Becomes(x, [executors[x] EXCEPT !.pc = "record", !.result = result])
        BY <1>5 DEF WaitForGMRTransaction
    <2> DEFINE s == [executors[x] EXCEPT !.pc = "record", !.result = result]
    <2>2. s \in ExecutorStates /\ s.batch = executors[x].batch /\ s.pc \in Executing
        BY <1>1 DEF ExecutorStates, Steps, Executing
    <2> HIDE DEF s
    <2> QED  BY <1>2, <2>1, <2>2 DEF s
<1>6. CASE CompleteShieldedWithdrawalExecution(x)
    BY <1>1, <1>6, ContinueSound DEF CompleteShieldedWithdrawalExecution, BatchesSound
<1> QED  BY <1>3, <1>4, <1>5, <1>6 DEF ExecutorStep

LEMMA FaultSound ==
    ASSUME QueueTyped, BatchesSound, NEW x \in Executors, Restart(x) \/ StoreFails(x)
    PROVE  BatchesSound'
<1>1. /\ granted' = granted /\ paused' = paused
      /\ executors[x] \in ExecutorStates /\ executors[x].batch \in SUBSET Withdrawals
      /\ Sound(executors[x]) /\ Cardinality(executors[x].batch) <= BatchLimit
    BY DEF Restart, StoreFails, QueueTyped, BatchesSound, Sound, ExecutorStates
<1>2. CASE Becomes(x, Idle)
    BY <1>1, <1>2, IdleSound, BecomesSound DEF BatchesSound
<1>3. CASE executors[x].pc = "recover" /\ Becomes(x, [executors[x] EXCEPT !.pc = "list"])
    <2> DEFINE s == [executors[x] EXCEPT !.pc = "list"]
    <2>1. s \in ExecutorStates /\ s.batch = executors[x].batch
          /\ s = [Idle EXCEPT !.pc = s.pc, !.batch = s.batch]
        BY <1>1, <1>3 DEF Sound, Idle, ExecutorStates, Steps, Executing
    <2> HIDE DEF s
    <2> QED  BY <1>1, <1>3, <2>1, BecomesSound DEF BatchesSound, Sound, s
<1>4. ASSUME NEW w \in executors[x].batch, Continue(x, executors[x].batch \ {w})
      PROVE  BatchesSound'
    BY <1>1, <1>4, ShorterSound, ContinueSound DEF BatchesSound
<1>5. CASE Continue(x, executors[x].batch)
    BY <1>1, <1>5, ContinueSound DEF BatchesSound
<1> QED  BY <1>2, <1>3, <1>4, <1>5 DEF Restart, StoreFails

\* Withdrawals, transactions, executors and their batches keep their types, the
\* limit of a batch among them (ListDueShieldedWithdrawals).
THEOREM QueueTypes == Spec => []TypeOK
<1>1. Init => QueueTyped /\ BatchesSound
    <2> SUFFICES ASSUME Init
                 PROVE  BatchesSound
        BY InitTyped
    <2>1. granted \in [Withdrawals -> 0 .. MaxGrants]
        BY QueueAssumption DEF Init
    <2>2. \A x \in Executors : executors[x] = Idle
        BY DEF Init
    <2>3. paused \in BOOLEAN
        BY DEF Init
    <2> QED  BY <2>1, <2>2, <2>3, IdleSound DEF BatchesSound
<1>2. QueueTyped /\ BatchesSound /\ [Next]_vars => (QueueTyped /\ BatchesSound)'
    <2> SUFFICES ASSUME QueueTyped, BatchesSound, [Next]_vars
                 PROVE  BatchesSound'
        BY NextTyped
    <2>1. CASE Environment
        BY <2>1 DEF Environment, Mined, BecomesDue, BecomesStale, BatchesSound
    <2>2. CASE UNCHANGED vars
        BY <2>2 DEF vars, BatchesSound
    <2>3. CASE Fault
        BY <2>3, FaultSound DEF Fault
    <2> QED  BY <2>1, <2>2, <2>3, StoreRequestSound, AdminProcessSound, WorkerSound,
                ExecutorSound DEF Next
<1>3. QueueTyped /\ BatchesSound => TypeOK
    BY DEF QueueTyped, BatchesSound, Sound, TypeOK, Executing
<1> QED  BY <1>1, <1>2, <1>3, PTL DEF Spec

=============================================================================
