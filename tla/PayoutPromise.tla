--------------------------- MODULE PayoutPromise ---------------------------
(***************************************************************************)
(* What a settled market promises its users: a trade that is due is paid   *)
(* once, by one transfer at a time, and shown as sent when it was paid,    *)
(* for good.  A trade that was cashed out may be at any of these stages    *)
(* when its market is settled.                                             *)
(*                                                                         *)
(* Requests, reservations, nullifiers, locks and faults are not part of    *)
(* the promise.                                                            *)
(***************************************************************************)
CONSTANTS Trades,
          Due    \* the trades that are to be paid

VARIABLES
    moving,  \* the trades whose payout is under way to the chain
    paid,    \* the trades whose payout was confirmed
    shown    \* the trades the user is shown as sent

promiseVars == <<moving, paid, shown>>

PromiseInit ==
    /\ moving \in SUBSET Due
    /\ paid \in SUBSET (Due \ moving)
    /\ shown \in SUBSET paid

Move(t) ==
    /\ t \in Due \ (moving \cup paid)
    /\ moving' = moving \cup {t}
    /\ UNCHANGED <<paid, shown>>

Fail(t) ==
    /\ t \in moving
    /\ moving' = moving \ {t}
    /\ UNCHANGED <<paid, shown>>

Land(t) ==
    /\ t \in moving
    /\ moving' = moving \ {t}
    /\ paid' = paid \cup {t}
    /\ UNCHANGED shown

Show(t) ==
    /\ t \in paid \ shown
    /\ shown' = shown \cup {t}
    /\ UNCHANGED <<moving, paid>>

PromiseNext == \E t \in Trades : Move(t) \/ Fail(t) \/ Land(t) \/ Show(t)

PromiseSpec == PromiseInit /\ [][PromiseNext]_promiseVars

=============================================================================
