------------------------- MODULE WithdrawalPromise -------------------------
(***************************************************************************)
(* What the queue of shielded withdrawals promises its users: a withdrawal *)
(* is requested once, paid at most once and only when it was requested,    *)
(* and shown as confirmed when it has been paid, for good.                 *)
(*                                                                         *)
(* Workers, tries, marks, failures and times are not part of the promise.  *)
(***************************************************************************)
CONSTANT Withdrawals

VARIABLES
    requested,  \* the withdrawals asked for
    paid,       \* those of them the pool has paid
    confirmed   \* those of them that the user is shown as confirmed

promiseVars == <<requested, paid, confirmed>>

PromiseInit == requested = {} /\ paid = {} /\ confirmed = {}

Request(w) ==
    /\ w \notin requested
    /\ requested' = requested \cup {w}
    /\ UNCHANGED <<paid, confirmed>>

Pay(w) ==
    /\ w \in requested \ paid
    /\ paid' = paid \cup {w}
    /\ UNCHANGED <<requested, confirmed>>

Confirm(w) ==
    /\ w \in paid \ confirmed
    /\ confirmed' = confirmed \cup {w}
    /\ UNCHANGED <<requested, paid>>

PromiseNext == \E w \in Withdrawals : Request(w) \/ Pay(w) \/ Confirm(w)

PromiseSpec == PromiseInit /\ [][PromiseNext]_promiseVars

=============================================================================
