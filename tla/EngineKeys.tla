----------------------------- MODULE EngineKeys -----------------------------
(***************************************************************************)
(* The API keys of one Engine app: creation, revocation, rotation, and the *)
(* requests that present them to one server.                               *)
(*                                                                         *)
(* A request verifies its key in the store, passes the server's rate       *)
(* limiter, and is handled.  The limiter reads the clock before it takes   *)
(* its lock, keeps one bucket for each key, and forgets it when the server *)
(* restarts.                                                               *)
(*                                                                         *)
(* A secret stands for the key it belongs to.  Scopes, origins and         *)
(* addresses are checked on the key as it was read; they and the usage     *)
(* records, which nothing reads back, are left out.                        *)
(***************************************************************************)
EXTENDS Naturals

CONSTANTS
    Keys,        \* EngineAPIKey nodes: bounds those ever created
    NoKey,
    Callers,     \* concurrently served requests of the app
    Rotators,    \* concurrently served requests of administrators
    RateLimit,   \* RateLimitPerMin of the app
    LastMinute,  \* bounds the clock
    MaxResets    \* bounds the restarts that forget the buckets

ASSUME KeysAssumption ==
    /\ NoKey \notin Keys
    /\ Callers \cap Rotators = {}
    /\ RateLimit \in Nat \ {0}
    /\ LastMinute \in Nat /\ MaxResets \in Nat

VARIABLES
    keys,       \* the EngineAPIKey nodes
    callers,    \* the local state of every request of the app
    rotators,   \* the local state of every rotation
    buckets,    \* engineRateLimiter.buckets
    minute,     \* the clock, in minutes
    admitted,   \* admitted[k][m]: requests admitted that read the clock at m
    reopened    \* how often the bucket of each key was turned back or lost

keysVars == <<keys, callers, rotators, buckets, minute, admitted, reopened>>

----------------------------------------------------------------------------
(* Types *)

Minutes == 0 .. LastMinute

NoBucket == [window |-> 0, count |-> 0]
IdleCaller == [pc |-> "idle", key |-> NoKey, window |-> 0]
IdleRotator == [pc |-> "idle", key |-> NoKey]

KeysTypeOK ==
    /\ keys \in [Keys -> [status : {"unused", "active", "revoked"},
                          expired : BOOLEAN, rotated : Keys \cup {NoKey}]]
    /\ callers \in [Callers -> [pc : {"idle", "clock", "allow"},
                                key : Keys \cup {NoKey}, window : Minutes]]
    /\ rotators \in [Rotators -> [pc : {"idle", "create"},
                                  key : Keys \cup {NoKey}]]
    /\ buckets \in [Keys -> [window : Minutes, count : 0 .. RateLimit]]
    /\ minute \in Minutes
    /\ admitted \in [Keys -> [Minutes -> Nat]]
    /\ reopened \in [Keys -> Nat]

KeysInit ==
    /\ keys = [k \in Keys |-> [status |-> "unused", expired |-> FALSE,
                               rotated |-> NoKey]]
    /\ callers = [c \in Callers |-> IdleCaller]
    /\ rotators = [r \in Rotators |-> IdleRotator]
    /\ buckets = [k \in Keys |-> NoBucket]
    /\ minute = 0
    /\ admitted = [k \in Keys |-> [m \in Minutes |-> 0]]
    /\ reopened = [k \in Keys |-> 0]

----------------------------------------------------------------------------
(* POST /admin/engine/apps/:id/keys, /keys/:id/revoke and /keys/:id/rotate *)

Creates(k, expired, rotated) ==
    /\ keys[k].status = "unused"
    /\ keys' = [keys EXCEPT ![k] = [status |-> "active", expired |-> expired,
                                    rotated |-> rotated]]

CreateEngineAPIKey(k) ==
    /\ Creates(k, FALSE, NoKey)
    /\ UNCHANGED <<callers, rotators, buckets, minute, admitted, reopened>>

\* The current status is not asked for.
Revoked(k) == [keys EXCEPT ![k].status = "revoked"]

RevokeEngineAPIKey(k) ==
    /\ keys[k].status # "unused"
    /\ keys' = Revoked(k)
    /\ UNCHANGED <<callers, rotators, buckets, minute, admitted, reopened>>

\* Mutant: the old key is left to its holder until the new one is there.
RevokedLater(k) == keys

RevokedFirst(k) == Revoked(k)

AdminRotateEngineAPIKey(r, k) ==
    /\ rotators[r].pc = "idle"
    /\ keys[k].status # "unused"
    /\ keys' = RevokedFirst(k)
    /\ rotators' = [rotators EXCEPT ![r] = [pc |-> "create", key |-> k]]
    /\ UNCHANGED <<callers, buckets, minute, admitted, reopened>>

\* The new key takes the expiry of the old one; or the store fails, and
\* the app is left without a key.
CreateRotatedKey(r, k) ==
    LET old == rotators[r].key IN
    /\ rotators[r].pc = "create"
    /\ \/ Creates(k, keys[old].expired, old)
       \/ UNCHANGED keys
    /\ rotators' = [rotators EXCEPT ![r] = IdleRotator]
    /\ UNCHANGED <<callers, buckets, minute, admitted, reopened>>

\* expiresAt passes.
KeyExpires(k) ==
    /\ keys[k].status # "unused" /\ ~keys[k].expired
    /\ keys' = [keys EXCEPT ![k].expired = TRUE]
    /\ UNCHANGED <<callers, rotators, buckets, minute, admitted, reopened>>

----------------------------------------------------------------------------
(* requireEngineScope *)

Calls(c, state) == callers' = [callers EXCEPT ![c] = state]

Verifies(k) == keys[k].status = "active" /\ ~keys[k].expired

\* enginePrincipal, and the checks of the scope, the origin and the address; a
\* refused request is over.
RequireEngineScope(c, k) ==
    /\ callers[c].pc = "idle"
    /\ Verifies(k)
    /\ Calls(c, [IdleCaller EXCEPT !.pc = "clock", !.key = k])
    /\ UNCHANGED <<keys, rotators, buckets, minute, admitted, reopened>>

\* allow, its first line: the minute is read before the lock is taken.
ReadClock(c) ==
    /\ callers[c].pc = "clock"
    /\ Calls(c, [callers[c] EXCEPT !.pc = "allow", !.window = minute])
    /\ UNCHANGED <<keys, rotators, buckets, minute, admitted, reopened>>

\* Mutant: one request too many.
BeyondLimit(bucket) == bucket.count > RateLimit

AtLimit(bucket) == bucket.count >= RateLimit

\* The bucket of the window the request read, whichever one is open by now.
BucketFor(k, window) ==
    IF buckets[k].window = window THEN buckets[k]
    ELSE [window |-> window, count |-> 0]

\* allow, the rest, under its lock: the request is admitted, and handled without
\* looking at the key again, or refused.
Allow(c) ==
    LET k == callers[c].key
        window == callers[c].window
        bucket == BucketFor(k, window)
    IN
    /\ callers[c].pc = "allow"
    /\ Calls(c, IdleCaller)
    /\ IF AtLimit(bucket)
       THEN /\ buckets' = [buckets EXCEPT ![k] = bucket]
            /\ UNCHANGED admitted
       ELSE /\ buckets' = [buckets EXCEPT ![k] = [bucket EXCEPT !.count = @ + 1]]
            /\ admitted' = [admitted EXCEPT ![k][window] = @ + 1]
    /\ reopened' = IF window < buckets[k].window
                   THEN [reopened EXCEPT ![k] = @ + 1] ELSE reopened
    /\ UNCHANGED <<keys, rotators, minute>>

----------------------------------------------------------------------------
(* The clock and restarts *)

MinutePasses ==
    /\ minute < LastMinute
    /\ minute' = minute + 1
    /\ UNCHANGED <<keys, callers, rotators, buckets, admitted, reopened>>

\* newEngineRateLimiter: every bucket is empty again.
EngineRestart ==
    /\ \A k \in Keys : reopened[k] < MaxResets
    /\ callers' = [c \in Callers |-> IdleCaller]
    /\ rotators' = [r \in Rotators |-> IdleRotator]
    /\ buckets' = [k \in Keys |-> NoBucket]
    /\ reopened' = [k \in Keys |-> reopened[k] + 1]
    /\ UNCHANGED <<keys, minute, admitted>>

----------------------------------------------------------------------------
(* Specification *)

KeysNext ==
    \/ \E k \in Keys :
          \/ CreateEngineAPIKey(k)
          \/ RevokeEngineAPIKey(k)
          \/ KeyExpires(k)
          \/ \E r \in Rotators : AdminRotateEngineAPIKey(r, k) \/ CreateRotatedKey(r, k)
          \/ \E c \in Callers : RequireEngineScope(c, k)
    \/ \E c \in Callers : ReadClock(c) \/ Allow(c)
    \/ MinutePasses
    \/ EngineRestart

KeysSpec == KeysInit /\ [][KeysNext]_keysVars

----------------------------------------------------------------------------
(* Properties *)

\* "engine api key rate limit exceeded" (requireEngineScope): in the minute they
\* read, at most RateLimit requests with one key are admitted, and as many again
\* for every restart and for every request that read an earlier minute and got
\* the lock after the bucket had moved on: it turns the bucket back, and what was
\* counted is forgotten.
RateLimited ==
    \A k \in Keys, m \in Minutes :
        admitted[k][m] <= RateLimit * (1 + reopened[k])

\* A rotated key and the key it replaces are never both in force, through
\* failures, restarts and rotations at once (adminRotateEngineAPIKey).
RotatedKeysAreDead ==
    \A k \in Keys :
        keys[k].rotated # NoKey => keys[keys[k].rotated].status = "revoked"

\* A revoked key begins nothing: the requests that were verified before are all
\* that is served with it (VerifyEngineAPIKey, adminRevokeEngineAPIKey).
RevokedKeyBeginsNothing ==
    [][\A k \in Keys : keys[k].status = "revoked" =>
         \A c \in Callers : callers'[c].key = k => callers[c].key = k]_keysVars

=============================================================================
