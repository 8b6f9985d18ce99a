--------------------------- MODULE ServicesProofs ---------------------------
(***************************************************************************)
(* Theorems about the smaller services: API keys and the rate limiter, the *)
(* news scout, market alerts, the sponsor policy and the grouping of news. *)
(*                                                                         *)
(* Each has an inductive invariant of its own (KeysInv, AdmittedCounted,   *)
(* NewsInv, AlertsInv, SponsorInv, GroupsInv), which says what a request   *)
(* under way knows: a rotation has revoked its key, an approval has saved  *)
(* the polls of its version, an order has the price as it is, a sponsored  *)
(* request past its check is counted in the limit, and no two articles of  *)
(* a group have one publisher.                                             *)
(***************************************************************************)
EXTENDS EngineKeys, NewsScout, NewsGroups, Alerts, SponsorPolicy, SumTheorems, TLAPS

KeyStates == [status : {"unused", "active", "revoked"}, expired : BOOLEAN,
              rotated : Keys \cup {NoKey}]
CallerStates == [pc : {"idle", "clock", "allow"}, key : Keys \cup {NoKey},
                 window : Minutes]
RotatorStates == [pc : {"idle", "create"}, key : Keys \cup {NoKey}]
BucketStates == [window : Minutes, count : 0 .. RateLimit]

\* A request that is under way, and a rotation, have a key; a rotation has
\* revoked it.
KeysHeld ==
    /\ \A c \in Callers : callers[c].pc # "idle" => callers[c].key \in Keys
    /\ \A r \in Rotators : rotators[r].pc = "create" =>
          rotators[r].key \in Keys /\ keys[rotators[r].key].status = "revoked"

KeysInv == KeysTypeOK /\ KeysHeld /\ RotatedKeysAreDead

\* What the present bucket of k says of minute m: a minute before its window is
\* full, one after it has not begun.
Counted(k, m) ==
    IF m < buckets[k].window THEN RateLimit
    ELSE IF m = buckets[k].window THEN buckets[k].count ELSE 0

AdmittedCounted ==
    \A k \in Keys, m \in Minutes :
        admitted[k][m] <= RateLimit * reopened[k] + Counted(k, m)

----------------------------------------------------------------------------
(* Keys *)

LEMMA KeysInitHolds == KeysInit => KeysInv /\ AdmittedCounted
<1> SUFFICES ASSUME KeysInit
             PROVE  KeysInv /\ AdmittedCounted
  OBVIOUS
<1>1. 0 \in Minutes /\ RateLimit \in Nat \ {0}
  BY KeysAssumption DEF Minutes
<1>2. KeysTypeOK
  BY <1>1 DEF KeysInit, KeysTypeOK, IdleCaller, IdleRotator, NoBucket
<1>3. KeysHeld /\ RotatedKeysAreDead
  BY DEF KeysInit, KeysHeld, RotatedKeysAreDead, IdleCaller, IdleRotator
<1>4. AdmittedCounted
  BY <1>1 DEF KeysInit, AdmittedCounted, Counted, NoBucket, Minutes
<1> QED  BY <1>2, <1>3, <1>4 DEF KeysInv

\* One key is written: what was revoked stays so, and a key that was already
\* there keeps the one it replaces.
LEMMA KeyWritten ==
    ASSUME KeysInv, NEW k \in Keys, NEW s \in KeyStates,
           keys' = [keys EXCEPT ![k] = s],
           keys[k].status = "revoked" => s.status = "revoked"
    PROVE  /\ keys' \in [Keys -> KeyStates]
           /\ keys'[k] = s
           /\ \A j \in Keys \ {k} : keys'[j] = keys[j]
           /\ \A j \in Keys : keys[j].status = "revoked" => keys'[j].status = "revoked"
BY DEF KeysInv, KeysTypeOK, KeyStates

\* Requests of the app, the limiter and the clock are not touched.
LEMMA KeyOnly ==
    ASSUME KeysInv, NEW k \in Keys, NEW s \in KeyStates,
           keys' = [keys EXCEPT ![k] = s],
           keys[k].status = "revoked" => s.status = "revoked",
           \/ s.rotated = keys[k].rotated
           \/ s.rotated # NoKey => keys[s.rotated].status = "revoked",
           rotators' \in [Rotators -> RotatorStates],
           \A r \in Rotators : rotators'[r].pc = "create" =>
              /\ rotators'[r].key \in Keys
              /\ keys'[rotators'[r].key].status = "revoked",
           UNCHANGED <<callers, buckets, minute, admitted, reopened>>
    PROVE  KeysInv'
<1>1. /\ keys' \in [Keys -> KeyStates]
      /\ keys'[k] = s
      /\ \A j \in Keys \ {k} : keys'[j] = keys[j]
      /\ \A j \in Keys : keys[j].status = "revoked" => keys'[j].status = "revoked"
  BY KeyWritten
<1>2. KeysTypeOK'
  BY <1>1 DEF KeysInv, KeysTypeOK, KeyStates, RotatorStates
<1>3. KeysHeld'
  BY DEF KeysInv, KeysHeld
<1>4. ASSUME NEW j \in Keys, keys'[j].rotated # NoKey
      PROVE  keys'[keys'[j].rotated].status = "revoked"
  <2>1. keys'[j].rotated \in Keys
    BY <1>1, <1>4 DEF KeyStates
  <2>2. keys[keys'[j].rotated].status = "revoked"
    BY <1>1, <1>4 DEF KeysInv, RotatedKeysAreDead
  <2> QED  BY <1>1, <2>1, <2>2
<1> QED  BY <1>2, <1>3, <1>4 DEF KeysInv, RotatedKeysAreDead

LEMMA AdminHolds ==
    ASSUME KeysInv, NEW k \in Keys,
           \/ CreateEngineAPIKey(k) \/ RevokeEngineAPIKey(k) \/ KeyExpires(k)
           \/ \E r \in Rotators : AdminRotateEngineAPIKey(r, k) \/ CreateRotatedKey(r, k)
    PROVE  KeysInv'
<1>1. keys \in [Keys -> KeyStates] /\ rotators \in [Rotators -> RotatorStates]
  BY DEF KeysInv, KeysTypeOK, KeyStates, RotatorStates
<1>2. keys[k] \in KeyStates
  BY <1>1
<1>3. \A r \in Rotators : rotators[r].pc = "create" =>
         rotators[r].key \in Keys /\ keys[rotators[r].key].status = "revoked"
  BY DEF KeysInv, KeysHeld
<1> DEFINE revoked == [keys[k] EXCEPT !.status = "revoked"]
<1>4. /\ revoked \in KeyStates /\ revoked.status = "revoked"
      /\ revoked.rotated = keys[k].rotated
      /\ Revoked(k) = [keys EXCEPT ![k] = revoked]
  BY <1>1, <1>2 DEF KeyStates, Revoked
<1>5. CASE CreateEngineAPIKey(k)
  <2> DEFINE s == [status |-> "active", expired |-> FALSE, rotated |-> NoKey]
  <2>1. /\ keys' = [keys EXCEPT ![k] = s] /\ keys[k].status = "unused"
        /\ UNCHANGED <<callers, rotators, buckets, minute, admitted, reopened>>
    BY <1>5 DEF CreateEngineAPIKey, Creates
  <2>2. s \in KeyStates /\ s.rotated = NoKey
    BY DEF KeyStates
  <2> HIDE DEF s
  <2>3. \A j \in Keys : keys[j].status = "revoked" => keys'[j].status = "revoked"
    BY <2>1, <2>2, KeyWritten
  <2> QED  BY <1>1, <1>3, <2>1, <2>2, <2>3, KeyOnly
<1>6. CASE RevokeEngineAPIKey(k)
  <2>1. /\ keys' = [keys EXCEPT ![k] = revoked]
        /\ UNCHANGED <<callers, rotators, buckets, minute, admitted, reopened>>
    BY <1>4, <1>6 DEF RevokeEngineAPIKey
  <2> HIDE DEF revoked
  <2>2. \A j \in Keys : keys[j].status = "revoked" => keys'[j].status = "revoked"
    BY <1>4, <2>1, KeyWritten
  <2> QED  BY <1>1, <1>3, <1>4, <2>1, <2>2, KeyOnly
<1>7. CASE KeyExpires(k)
  <2> DEFINE s == [keys[k] EXCEPT !.expired = TRUE]
  <2>1. /\ keys' = [keys EXCEPT ![k] = s]
        /\ UNCHANGED <<callers, rotators, buckets, minute, admitted, reopened>>
    BY <1>1, <1>7 DEF KeyExpires, KeyStates
  <2>2. /\ s \in KeyStates /\ s.rotated = keys[k].rotated
        /\ s.status = keys[k].status
    BY <1>2 DEF KeyStates
  <2> HIDE DEF s
  <2>3. \A j \in Keys : keys[j].status = "revoked" => keys'[j].status = "revoked"
    BY <2>1, <2>2, KeyWritten
  <2> QED  BY <1>1, <1>3, <2>1, <2>2, <2>3, KeyOnly
<1>8. ASSUME NEW r \in Rotators, AdminRotateEngineAPIKey(r, k)
      PROVE  KeysInv'
  <2>1. /\ keys' = [keys EXCEPT ![k] = revoked]
        /\ rotators' = [rotators EXCEPT ![r] = [pc |-> "create", key |-> k]]
        /\ UNCHANGED <<callers, buckets, minute, admitted, reopened>>
    BY <1>4, <1>8 DEF AdminRotateEngineAPIKey, RevokedFirst
  <2> HIDE DEF revoked
  <2>2. /\ keys'[k].status = "revoked"
        /\ \A j \in Keys : keys[j].status = "revoked" => keys'[j].status = "revoked"
    BY <1>4, <2>1, KeyWritten
  <2>3. /\ rotators' \in [Rotators -> RotatorStates]
        /\ rotators'[r].key = k
        /\ \A q \in Rotators \ {r} : rotators'[q] = rotators[q]
    BY <1>1, <2>1 DEF RotatorStates
  <2>4. \A q \in Rotators : rotators'[q].pc = "create" =>
           rotators'[q].key \in Keys /\ keys'[rotators'[q].key].status = "revoked"
    BY <1>3, <2>2, <2>3
  <2> QED  BY <1>4, <2>1, <2>3, <2>4, KeyOnly
<1>9. ASSUME NEW r \in Rotators, CreateRotatedKey(r, k)
      PROVE  KeysInv'
  <2>1. PICK old \in Keys : old = rotators[r].key /\ keys[old].status = "revoked"
    BY <1>3, <1>9 DEF CreateRotatedKey
  <2> DEFINE s == [status |-> "active", expired |-> keys[old].expired, rotated |-> old]
  <2>2. /\ \/ keys' = [keys EXCEPT ![k] = s] /\ keys[k].status = "unused"
           \/ keys' = keys
        /\ rotators' = [rotators EXCEPT ![r] = IdleRotator]
        /\ UNCHANGED <<callers, buckets, minute, admitted, reopened>>
    BY <1>9, <2>1 DEF CreateRotatedKey, Creates
  <2>3. s \in KeyStates /\ s.rotated = old
    BY <1>1 DEF KeyStates
  <2> HIDE DEF s
  <2>4. /\ rotators' \in [Rotators -> RotatorStates]
        /\ rotators'[r].pc = "idle"
        /\ \A q \in Rotators \ {r} : rotators'[q] = rotators[q]
    BY <1>1, <2>2 DEF RotatorStates, IdleRotator
  <2>5. CASE keys' = [keys EXCEPT ![k] = s] /\ keys[k].status = "unused"
    <3>1. \A j \in Keys : keys[j].status = "revoked" => keys'[j].status = "revoked"
      BY <2>3, <2>5, KeyWritten
    <3>2. \A q \in Rotators : rotators'[q].pc = "create" =>
             rotators'[q].key \in Keys /\ keys'[rotators'[q].key].status = "revoked"
      BY <1>3, <2>4, <3>1
    <3> QED  BY <2>1, <2>2, <2>3, <2>4, <2>5, <3>2, KeyOnly
  <2>6. CASE keys' = keys
    BY <1>3, <2>2, <2>4, <2>6
       DEF KeysInv, KeysTypeOK, KeysHeld, RotatedKeysAreDead, RotatorStates
  <2> QED  BY <2>2, <2>5, <2>6
<1> QED  BY <1>5, <1>6, <1>7, <1>8, <1>9

----------------------------------------------------------------------------
(* The limiter *)

LEMMA Quotas ==
    ASSUME NEW k \in Keys, KeysTypeOK
    PROVE  /\ RateLimit * reopened[k] \in Nat
           /\ RateLimit * (reopened[k] + 1) = RateLimit * reopened[k] + RateLimit
BY KeysAssumption DEF KeysTypeOK

LEMMA CallsTyped ==
    ASSUME KeysInv, NEW c \in Callers, NEW s \in CallerStates, Calls(c, s),
           s.pc # "idle" => s.key \in Keys
    PROVE  /\ callers' \in [Callers -> CallerStates]
           /\ callers'[c] = s
           /\ \A d \in Callers \ {c} : callers'[d] = callers[d]
           /\ \A d \in Callers : callers'[d].pc # "idle" => callers'[d].key \in Keys
BY DEF KeysInv, KeysTypeOK, KeysHeld, Calls, CallerStates

LEMMA RequestHolds ==
    ASSUME KeysInv, NEW c \in Callers,
           ReadClock(c) \/ \E k \in Keys : RequireEngineScope(c, k)
    PROVE  /\ KeysInv'
           /\ UNCHANGED <<keys, rotators, buckets, minute, admitted, reopened>>
<1>1. UNCHANGED <<keys, rotators, buckets, minute, admitted, reopened>>
  BY DEF ReadClock, RequireEngineScope
<1>2. PICK s \in CallerStates : Calls(c, s) /\ (s.pc # "idle" => s.key \in Keys)
  <2>1. CASE ReadClock(c)
    <3> DEFINE s == [callers[c] EXCEPT !.pc = "allow", !.window = minute]
    <3>1. callers[c] \in CallerStates /\ minute \in Minutes /\ callers[c].key \in Keys
      BY <2>1 DEF ReadClock, KeysInv, KeysTypeOK, KeysHeld, CallerStates
    <3>2. s \in CallerStates /\ s.key \in Keys /\ Calls(c, s)
      BY <2>1, <3>1 DEF ReadClock, CallerStates
    <3> QED  BY <3>2
  <2>2. ASSUME NEW k \in Keys, RequireEngineScope(c, k)
        PROVE  \E s \in CallerStates : Calls(c, s) /\ (s.pc # "idle" => s.key \in Keys)
    <3> DEFINE s == [IdleCaller EXCEPT !.pc = "clock", !.key = k]
    <3>1. 0 \in Minutes
      BY KeysAssumption DEF Minutes
    <3>2. Calls(c, s)
      BY <2>2 DEF RequireEngineScope
    <3>3. s \in CallerStates /\ s.key \in Keys
      BY <3>1 DEF CallerStates, IdleCaller
    <3> HIDE DEF s
    <3> QED  BY <3>2, <3>3
  <2> QED  BY <2>1, <2>2
<1>3. /\ callers' \in [Callers -> CallerStates]
      /\ \A d \in Callers : callers'[d].pc # "idle" => callers'[d].key \in Keys
  BY <1>2, CallsTyped
<1>4. KeysTypeOK'
  BY <1>1, <1>3 DEF KeysInv, KeysTypeOK, CallerStates
<1>5. KeysHeld' /\ RotatedKeysAreDead'
  BY <1>1, <1>3 DEF KeysInv, KeysHeld, RotatedKeysAreDead
<1> QED  BY <1>1, <1>4, <1>5 DEF KeysInv

\* A request is decided in the bucket of the minute it read.  If that is a later
\* one than the bucket's, the bucket begins anew; if it is an earlier one, the
\* bucket is turned back, and what was counted is covered by one more quota.
LEMMA AllowHolds ==
    ASSUME KeysInv, AdmittedCounted, NEW c \in Callers, Allow(c)
    PROVE  KeysInv' /\ AdmittedCounted'
<1>1. PICK k \in Keys, window \in Minutes :
        k = callers[c].key /\ window = callers[c].window /\ callers[c].pc = "allow"
  BY DEF Allow, KeysInv, KeysTypeOK, KeysHeld, CallerStates
<1> DEFINE bucket == BucketFor(k, window)
<1>2. /\ Calls(c, IdleCaller)
      /\ IF AtLimit(bucket)
         THEN /\ buckets' = [buckets EXCEPT ![k] = bucket]
              /\ UNCHANGED admitted
         ELSE /\ buckets' = [buckets EXCEPT ![k] = [bucket EXCEPT !.count = @ + 1]]
              /\ admitted' = [admitted EXCEPT ![k][window] = @ + 1]
      /\ reopened' = IF window < buckets[k].window
                     THEN [reopened EXCEPT ![k] = @ + 1] ELSE reopened
      /\ UNCHANGED <<keys, rotators, minute>>
  BY <1>1 DEF Allow
<1>3. IdleCaller \in CallerStates /\ IdleCaller.pc = "idle"
  BY KeysAssumption DEF IdleCaller, CallerStates, Minutes
<1>4. /\ callers' \in [Callers -> CallerStates]
      /\ \A d \in Callers : callers'[d].pc # "idle" => callers'[d].key \in Keys
  BY <1>2, <1>3, CallsTyped
<1>5. /\ buckets \in [Keys -> BucketStates] /\ admitted \in [Keys -> [Minutes -> Nat]]
      /\ reopened \in [Keys -> Nat] /\ RateLimit \in Nat \ {0}
      /\ Minutes \subseteq Nat
  BY KeysAssumption, SMTT(20) DEF KeysInv, KeysTypeOK, BucketStates, Minutes
<1>6. /\ bucket \in BucketStates /\ bucket.window = window
      /\ bucket.count = IF buckets[k].window = window THEN buckets[k].count ELSE 0
  BY <1>5 DEF BucketFor, BucketStates
<1>7. \E n \in {0, 1} :
        /\ buckets' = [buckets EXCEPT ![k] =
              [window |-> window, count |-> bucket.count + n]]
        /\ bucket.count + n \in 0 .. RateLimit
        /\ admitted' = [admitted EXCEPT ![k] =
              [admitted[k] EXCEPT ![window] = admitted[k][window] + n]]
  <2>1. CASE AtLimit(bucket)
    <3>1. bucket = [window |-> window, count |-> bucket.count + 0]
      BY <1>6 DEF BucketStates
    <3>2. admitted = [admitted EXCEPT ![k] =
             [admitted[k] EXCEPT ![window] = admitted[k][window] + 0]]
      BY <1>5
    <3>3. buckets' = [buckets EXCEPT ![k] = bucket] /\ admitted' = admitted
      BY <1>2, <2>1
    <3>4. bucket.count + 0 \in 0 .. RateLimit
      BY <1>6 DEF BucketStates
    <3> HIDE DEF bucket
    <3> QED  BY <3>1, <3>2, <3>3, <3>4
  <2>2. CASE ~AtLimit(bucket)
    <3>1. [bucket EXCEPT !.count = @ + 1]
             = [window |-> window, count |-> bucket.count + 1]
      BY <1>6 DEF BucketStates
    <3>2. bucket.count + 1 \in 0 .. RateLimit
      BY <1>5, <1>6, <2>2 DEF AtLimit, BucketStates
    <3>3. admitted' = [admitted EXCEPT ![k] =
             [admitted[k] EXCEPT ![window] = admitted[k][window] + 1]]
      BY <1>2, <1>5, <2>2
    <3>4. buckets' = [buckets EXCEPT ![k] = [bucket EXCEPT !.count = @ + 1]]
      BY <1>2, <2>2
    <3> HIDE DEF bucket
    <3> QED  BY <3>1, <3>2, <3>3, <3>4
  <2> QED  BY <2>1, <2>2
<1> HIDE DEF bucket
<1>8. PICK n \in {0, 1} :
        /\ buckets' = [buckets EXCEPT ![k] =
              [window |-> window, count |-> bucket.count + n]]
        /\ bucket.count + n \in 0 .. RateLimit
        /\ admitted' = [admitted EXCEPT ![k] =
              [admitted[k] EXCEPT ![window] = admitted[k][window] + n]]
  BY <1>7
<1>9. /\ buckets' \in [Keys -> BucketStates]
      /\ buckets'[k].window = window /\ buckets'[k].count = bucket.count + n
      /\ \A j \in Keys \ {k} : buckets'[j] = buckets[j]
  BY <1>5, <1>8 DEF BucketStates
<1>10. /\ admitted' \in [Keys -> [Minutes -> Nat]]
       /\ admitted'[k][window] = admitted[k][window] + n
       /\ \A m \in Minutes \ {window} : admitted'[k][m] = admitted[k][m]
       /\ \A j \in Keys \ {k} : admitted'[j] = admitted[j]
  BY <1>5, <1>8
<1>11. /\ reopened' \in [Keys -> Nat]
       /\ reopened'[k] = IF window < buckets[k].window THEN reopened[k] + 1
                         ELSE reopened[k]
       /\ \A j \in Keys \ {k} : reopened'[j] = reopened[j]
  BY <1>2, <1>5
<1>12. KeysInv'
  <2>1. KeysTypeOK'
    BY <1>2, <1>4, <1>9, <1>10, <1>11
       DEF KeysInv, KeysTypeOK, CallerStates, BucketStates
  <2> QED  BY <1>2, <1>4, <2>1 DEF KeysInv, KeysHeld, RotatedKeysAreDead
<1>13. ASSUME NEW j \in Keys \ {k}, NEW m \in Minutes
       PROVE  admitted'[j][m] <= RateLimit * reopened'[j] + Counted(j, m)'
  <2>1. Counted(j, m)' = Counted(j, m)
    BY <1>9 DEF Counted
  <2> QED  BY <1>10, <1>11, <2>1 DEF AdmittedCounted
<1>14. ASSUME NEW m \in Minutes
       PROVE  admitted'[k][m] <= RateLimit * reopened'[k] + Counted(k, m)'
  <2>1. /\ admitted[k][m] \in Nat
        /\ admitted[k][m] <= RateLimit * reopened[k] + Counted(k, m)
        /\ admitted'[k][m] = IF m = window THEN admitted[k][m] + n ELSE admitted[k][m]
    BY <1>5, <1>10 DEF AdmittedCounted
  <2>2. /\ buckets[k].window \in Nat /\ buckets[k].count \in 0 .. RateLimit
        /\ window \in Nat /\ m \in Nat
    BY <1>5 DEF BucketStates
  <2>3. Counted(k, m)' = IF m < window THEN RateLimit
                         ELSE IF m = window THEN bucket.count + n ELSE 0
    BY <1>9 DEF Counted
  <2>4. /\ RateLimit * reopened[k] \in Nat
        /\ RateLimit * (reopened[k] + 1) = RateLimit * reopened[k] + RateLimit
    BY Quotas DEF KeysInv
  <2>5. CASE window < buckets[k].window
    <3>1. /\ RateLimit * reopened'[k] = RateLimit * reopened[k] + RateLimit
          /\ bucket.count = 0
      BY <1>6, <1>11, <2>2, <2>4, <2>5
    <3>2. Counted(k, m) <= RateLimit /\ Counted(k, m) \in Nat
      BY <1>5, <2>2 DEF Counted
    <3> QED  BY <1>5, <2>1, <2>2, <2>3, <2>4, <3>1, <3>2
  <2>6. CASE window = buckets[k].window
    <3>1. reopened'[k] = reopened[k] /\ bucket.count = buckets[k].count
      BY <1>6, <1>11, <2>2, <2>6
    <3> QED  BY <1>5, <2>1, <2>2, <2>3, <2>4, <2>6, <3>1 DEF Counted
  <2>7. CASE window > buckets[k].window
    <3>1. reopened'[k] = reopened[k] /\ bucket.count = 0
      BY <1>6, <1>11, <2>2, <2>7
    <3> QED  BY <1>5, <2>1, <2>2, <2>3, <2>4, <2>7, <3>1 DEF Counted
  <2> QED  BY <2>2, <2>5, <2>6, <2>7
<1> QED  BY <1>12, <1>13, <1>14 DEF AdmittedCounted

LEMMA EngineRestartHolds ==
    ASSUME KeysInv, AdmittedCounted, EngineRestart
    PROVE  KeysInv' /\ AdmittedCounted'
<1>1. /\ callers' = [c \in Callers |-> IdleCaller]
      /\ rotators' = [r \in Rotators |-> IdleRotator]
      /\ buckets' = [k \in Keys |-> NoBucket]
      /\ reopened' = [k \in Keys |-> reopened[k] + 1]
      /\ UNCHANGED <<keys, minute, admitted>>
  BY DEF EngineRestart
<1>2. 0 \in Minutes /\ RateLimit \in Nat \ {0} /\ Minutes \subseteq Nat
  BY KeysAssumption DEF Minutes
<1>3. KeysTypeOK'
  BY <1>1, <1>2 DEF KeysInv, KeysTypeOK, IdleCaller, IdleRotator, NoBucket
<1>4. KeysHeld' /\ RotatedKeysAreDead'
  BY <1>1 DEF KeysInv, KeysHeld, RotatedKeysAreDead, IdleCaller, IdleRotator
<1>5. ASSUME NEW k \in Keys, NEW m \in Minutes
      PROVE  admitted'[k][m] <= RateLimit * reopened'[k] + Counted(k, m)'
  <2>1. /\ admitted[k][m] \in Nat
        /\ admitted[k][m] <= RateLimit * reopened[k] + Counted(k, m)
        /\ buckets[k].count \in 0 .. RateLimit /\ buckets[k].window \in Nat /\ m \in Nat
    BY <1>2, ZenonT(30) DEF KeysInv, KeysTypeOK, AdmittedCounted
  <2>2. Counted(k, m) <= RateLimit /\ Counted(k, m) \in Nat
    BY <1>2, <2>1 DEF Counted
  <2>3. Counted(k, m)' \in Nat
    BY <1>1, <1>2 DEF Counted, NoBucket
  <2>4. /\ RateLimit * reopened[k] \in Nat
        /\ RateLimit * reopened'[k] = RateLimit * reopened[k] + RateLimit
    BY <1>1, Quotas DEF KeysInv
  <2> QED  BY <1>1, <1>2, <2>1, <2>2, <2>3, <2>4
<1> QED  BY <1>3, <1>4, <1>5 DEF KeysInv, AdmittedCounted

LEMMA KeysNextHolds ==
    ASSUME KeysInv, AdmittedCounted, [KeysNext]_keysVars
    PROVE  KeysInv' /\ AdmittedCounted'
<1>1. ASSUME UNCHANGED <<buckets, admitted, reopened>>
      PROVE  AdmittedCounted'
  BY <1>1 DEF AdmittedCounted, Counted
<1>2. CASE MinutePasses
  <2>1. minute' \in Minutes
    BY <1>2, KeysAssumption DEF MinutePasses, Minutes, KeysInv, KeysTypeOK
  <2> QED  BY <1>1, <1>2, <2>1
           DEF MinutePasses, KeysInv, KeysTypeOK, KeysHeld, RotatedKeysAreDead
<1>3. CASE UNCHANGED keysVars
  BY <1>1, <1>3 DEF keysVars, KeysInv, KeysTypeOK, KeysHeld, RotatedKeysAreDead
<1>4. ASSUME NEW k \in Keys,
             \/ CreateEngineAPIKey(k) \/ RevokeEngineAPIKey(k) \/ KeyExpires(k)
             \/ \E r \in Rotators : AdminRotateEngineAPIKey(r, k) \/ CreateRotatedKey(r, k)
      PROVE  KeysInv' /\ AdmittedCounted'
  <2>1. UNCHANGED <<buckets, admitted, reopened>>
    BY <1>4 DEF CreateEngineAPIKey, RevokeEngineAPIKey, KeyExpires,
                AdminRotateEngineAPIKey, CreateRotatedKey
  <2> QED  BY <1>1, <1>4, <2>1, AdminHolds
<1>5. ASSUME NEW c \in Callers,
             ReadClock(c) \/ \E k \in Keys : RequireEngineScope(c, k)
      PROVE  KeysInv' /\ AdmittedCounted'
  BY <1>1, <1>5, RequestHolds
<1> QED  BY <1>2, <1>3, <1>4, <1>5, AllowHolds, EngineRestartHolds DEF KeysNext

LEMMA KeysInvariant == KeysSpec => [](KeysInv /\ AdmittedCounted)
<1>1. KeysInv /\ AdmittedCounted /\ [KeysNext]_keysVars => KeysInv' /\ AdmittedCounted'
  BY KeysNextHolds
<1> QED  BY <1>1, KeysInitHolds, PTL DEF KeysSpec

----------------------------------------------------------------------------
(* The theorems *)

\* Keys, requests, rotations and buckets keep their types; no bucket counts beyond
\* the limit.
THEOREM KeysTyped == KeysSpec => []KeysTypeOK
<1>1. KeysInv => KeysTypeOK
  BY DEF KeysInv
<1> QED  BY <1>1, KeysInvariant, PTL

\* A rotated key and the key it replaces are never both in force
\* (adminRotateEngineAPIKey), whatever fails between the two writes.
THEOREM RotatedDead == KeysSpec => []RotatedKeysAreDead
<1>1. KeysInv => RotatedKeysAreDead
  BY DEF KeysInv
<1> QED  BY <1>1, KeysInvariant, PTL

\* The limiter admits what its limit allows in a minute, and one limit more for
\* every restart and every request that turned a bucket back (allow).
THEOREM AdmittedWithinLimit == KeysSpec => []RateLimited
<1>1. ASSUME KeysInv, AdmittedCounted, NEW k \in Keys, NEW m \in Minutes
      PROVE  admitted[k][m] <= RateLimit * (1 + reopened[k])
  <2>1. /\ admitted[k][m] <= RateLimit * reopened[k] + Counted(k, m)
        /\ admitted[k][m] \in Nat /\ buckets[k].count \in 0 .. RateLimit
        /\ RateLimit \in Nat /\ reopened[k] \in Nat
    BY <1>1, KeysAssumption DEF AdmittedCounted, KeysInv, KeysTypeOK
  <2>2. Counted(k, m) \in Nat /\ Counted(k, m) <= RateLimit
    BY <2>1 DEF Counted
  <2>3. /\ RateLimit * reopened[k] \in Nat
        /\ RateLimit * (1 + reopened[k]) = RateLimit * reopened[k] + RateLimit
    BY <1>1, <2>1, Quotas DEF KeysInv
  <2> QED  BY <2>1, <2>2, <2>3
<1>2. KeysInv /\ AdmittedCounted => RateLimited
  BY <1>1 DEF RateLimited
<1> QED  BY <1>2, KeysInvariant, PTL

\* A revoked key begins nothing, although a request that was verified before goes
\* on with it (VerifyEngineAPIKey).
THEOREM RevokedBeginsNothing == KeysSpec => RevokedKeyBeginsNothing
<1> DEFINE Step == \A k \in Keys : keys[k].status = "revoked" =>
                      \A c \in Callers : callers'[c].key = k => callers[c].key = k
<1>1. ASSUME KeysInv, KeysNext
      PROVE  Step
  <2> SUFFICES ASSUME NEW k \in Keys, keys[k].status = "revoked", NEW c \in Callers,
                      callers'[c].key = k
               PROVE  callers[c].key = k
    OBVIOUS
  <2>1. callers \in [Callers -> CallerStates] /\ NoKey \notin Keys
    BY <1>1, KeysAssumption DEF KeysInv, KeysTypeOK, CallerStates
  <2>2. ASSUME NEW j \in Keys, NEW d \in Callers, RequireEngineScope(d, j)
        PROVE  callers[c].key = k
    BY <2>1, <2>2 DEF RequireEngineScope, Verifies, Calls, CallerStates, IdleCaller
  <2>3. ASSUME NEW d \in Callers, ReadClock(d) \/ Allow(d)
        PROVE  callers[c].key = k
    <3>1. \/ Calls(d, [callers[d] EXCEPT !.pc = "allow", !.window = minute])
          \/ Calls(d, IdleCaller)
      BY <2>3 DEF ReadClock, Allow
    <3>2. callers'[d].key \in {callers[d].key, NoKey}
      <4>1. callers[d] \in CallerStates
        BY <2>1, <2>3
      <4>2. CASE Calls(d, [callers[d] EXCEPT !.pc = "allow", !.window = minute])
        <5>1. callers'[d] = [callers[d] EXCEPT !.pc = "allow", !.window = minute]
          BY <2>1, <2>3, <4>2 DEF Calls
        <5> QED  BY <4>1, <5>1 DEF CallerStates
      <4>3. CASE Calls(d, IdleCaller)
        BY <2>1, <2>3, <4>3 DEF Calls, IdleCaller
      <4> QED  BY <3>1, <4>2, <4>3
    <3>3. c # d => callers'[c] = callers[c]
      BY <2>1, <3>1 DEF Calls
    <3>4. k # NoKey
      BY <2>1
    <3> QED  BY <2>3, <3>2, <3>3, <3>4
  <2>4. CASE EngineRestart
    BY <2>1, <2>4 DEF EngineRestart, IdleCaller
  <2>5. CASE UNCHANGED callers
    BY <2>5
  <2> QED  BY <1>1, <2>2, <2>3, <2>4, <2>5
           DEF KeysNext, CreateEngineAPIKey, RevokeEngineAPIKey, KeyExpires,
               AdminRotateEngineAPIKey, CreateRotatedKey, MinutePasses
<1>2. KeysInv /\ AdmittedCounted /\ [KeysNext]_keysVars => [Step]_keysVars
  BY <1>1
<1> QED  BY <1>2, KeysInvariant, PTL DEF KeysSpec, RevokedKeyBeginsNothing

----------------------------------------------------------------------------
(* The inductive invariant *)

CandidateStates == [status : {"none", "pending", "approved", "rejected"},
                    version : Versions \cup {NoVersion},
                    poll : Versions \cup {NoVersion}]

ScannerStates == [pc : {"idle", "fetch", "save", "end"}, todo : SUBSET Stories]

ReviewerStates == [pc : {"idle", "polls", "review"}, story : Stories \cup {NoStory},
                   version : Versions \cup {NoVersion}, todo : SUBSET AllChoices]

Slugs == Stories \X Versions \X AllChoices

\* A candidate has a version.
CandidatesSound ==
    \A s \in Stories : candidates[s].status # "none" => candidates[s].version \in Versions

\* An approval has saved a poll for every choice it has not still to save.
ReviewersSound ==
    \A r \in Reviewers : reviewers[r].pc # "idle" =>
        /\ reviewers[r].story \in Stories
        /\ reviewers[r].version \in Versions
        /\ reviewers[r].pc = "review" => reviewers[r].todo = {}
        /\ \A c \in ChoicesOf[reviewers[r].version] \ reviewers[r].todo :
              polls[<<reviewers[r].story, reviewers[r].version, c>>] # "none"

NewsInv ==
    /\ NewsTypeOK
    /\ OneScan
    /\ CandidatesSound
    /\ ReviewersSound
    /\ ApprovedHasItsPolls

\* No poll is taken away.
PollsStay == \A p \in Slugs : polls[p] # "none" => polls'[p] # "none"

----------------------------------------------------------------------------
(* What is kept when little changes *)

\* A slug is made of the story, the version and one of its choices.
LEMMA ChoiceSlugs ==
    ASSUME NEW s \in Stories, NEW v \in Versions, NEW c \in ChoicesOf[v]
    PROVE  c \in AllChoices /\ <<s, v, c>> \in Slugs
BY NewsAssumption DEF Slugs

\* Approvals that go idle or stay where they are keep what they have saved.
LEMMA ReviewersKept ==
    ASSUME NewsInv, PollsStay,
           \A r \in Reviewers : reviewers'[r].pc = "idle" \/ reviewers'[r] = reviewers[r]
    PROVE  ReviewersSound'
<1> SUFFICES ASSUME NEW r \in Reviewers, reviewers'[r].pc # "idle"
             PROVE  /\ reviewers'[r].story \in Stories
                    /\ reviewers'[r].version \in Versions
                    /\ reviewers'[r].pc = "review" => reviewers'[r].todo = {}
                    /\ \A c \in ChoicesOf[reviewers'[r].version] \ reviewers'[r].todo :
                          polls'[<<reviewers'[r].story, reviewers'[r].version, c>>] # "none"
  BY DEF ReviewersSound
<1>1. reviewers'[r] = reviewers[r] /\ reviewers[r].pc # "idle"
  OBVIOUS
<1>2. /\ reviewers[r].story \in Stories
      /\ reviewers[r].version \in Versions
      /\ reviewers[r].pc = "review" => reviewers[r].todo = {}
      /\ \A c \in ChoicesOf[reviewers[r].version] \ reviewers[r].todo :
            polls[<<reviewers[r].story, reviewers[r].version, c>>] # "none"
  BY <1>1 DEF NewsInv, ReviewersSound
<1>3. ASSUME NEW c \in ChoicesOf[reviewers[r].version] \ reviewers[r].todo
      PROVE  polls'[<<reviewers[r].story, reviewers[r].version, c>>] # "none"
  BY <1>2, <1>3, ChoiceSlugs DEF PollsStay
<1> QED  BY <1>1, <1>2, <1>3

\* Where no candidate is approved anew, the approved ones keep their polls.
LEMMA ApprovalsKept ==
    ASSUME NewsInv, PollsStay,
           \A s \in Stories : candidates'[s].status = "approved"
                                 => /\ candidates[s].status = "approved"
                                    /\ candidates'[s].poll = candidates[s].poll
    PROVE  ApprovedHasItsPolls'
<1> SUFFICES ASSUME NEW s \in Stories, candidates'[s].status = "approved"
             PROVE  /\ candidates'[s].poll \in Versions
                    /\ \A c \in ChoicesOf[candidates'[s].poll] :
                          polls'[<<s, candidates'[s].poll, c>>] # "none"
  BY DEF ApprovedHasItsPolls
<1>1. /\ candidates'[s].poll = candidates[s].poll
      /\ candidates[s].poll \in Versions
      /\ \A c \in ChoicesOf[candidates[s].poll] : polls[<<s, candidates[s].poll, c>>] # "none"
  BY DEF NewsInv, ApprovedHasItsPolls
<1>2. ASSUME NEW c \in ChoicesOf[candidates[s].poll]
      PROVE  polls'[<<s, candidates[s].poll, c>>] # "none"
  BY <1>1, <1>2, ChoiceSlugs DEF PollsStay
<1> QED  BY <1>1, <1>2

LEMMA ScansKept ==
    ASSUME NewsInv, UNCHANGED <<running, scanners>>
    PROVE  OneScan'
BY DEF NewsInv, OneScan

----------------------------------------------------------------------------
(* The steps of a scan *)

\* Every step of a scan keeps OneScan: only the first of them, which the flag
\* admits when no scan is active, makes one active.
LEMMA ScanHolds ==
    ASSUME NewsInv, NEW n \in Scanners,
           \/ ScanWithFilter(n)
           \/ InvokeWorkflow(n)
           \/ \E s \in Stories, v \in Versions : CreateNewsCandidateIfMissing(n, s, v)
           \/ EndScan(n)
    PROVE  /\ scanners' \in [Scanners -> ScannerStates]
           /\ running' \in BOOLEAN
           /\ OneScan'
<1>1. scanners \in [Scanners -> ScannerStates] /\ running \in BOOLEAN
  BY DEF NewsInv, NewsTypeOK, ScannerStates
<1>2. PICK state \in ScannerStates : Scans(n, state)
  <2>1. CASE ScanWithFilter(n)
    <3>1. [IdleScanner EXCEPT !.pc = "fetch"] \in ScannerStates
      BY DEF IdleScanner, ScannerStates
    <3> QED  BY <2>1, <3>1 DEF ScanWithFilter
  <2>2. CASE InvokeWorkflow(n)
    <3>1. [IdleScanner EXCEPT !.pc = "end"] \in ScannerStates
      BY DEF IdleScanner, ScannerStates
    <3>2. \A todo \in SUBSET Stories :
             [pc |-> IF todo = {} THEN "end" ELSE "save", todo |-> todo] \in ScannerStates
      BY DEF ScannerStates
    <3> QED  BY <2>2, <3>1, <3>2 DEF InvokeWorkflow
  <2>3. ASSUME NEW s \in Stories, NEW v \in Versions, CreateNewsCandidateIfMissing(n, s, v)
        PROVE  \E state \in ScannerStates : Scans(n, state)
    <3> DEFINE todo == scanners[n].todo \ {s}
    <3>1. [IdleScanner EXCEPT !.pc = "end"] \in ScannerStates
      BY DEF IdleScanner, ScannerStates
    <3>2. [pc |-> IF todo = {} THEN "end" ELSE "save", todo |-> todo] \in ScannerStates
      BY <1>1 DEF ScannerStates
    <3> QED  BY <2>3, <3>1, <3>2 DEF CreateNewsCandidateIfMissing
  <2>4. CASE EndScan(n)
    <3>1. IdleScanner \in ScannerStates
      BY DEF IdleScanner, ScannerStates
    <3> QED  BY <2>4, <3>1 DEF EndScan
  <2> QED  BY <2>1, <2>2, <2>3, <2>4
<1>3. /\ scanners' \in [Scanners -> ScannerStates]
      /\ scanners'[n] = state
      /\ \A m \in Scanners \ {n} : scanners'[m] = scanners[m]
  BY <1>1, <1>2 DEF Scans
<1>4. /\ running <=> \E m \in Scanners : scanners[m].pc # "idle"
      /\ \A m1, m2 \in Scanners :
            scanners[m1].pc # "idle" /\ scanners[m2].pc # "idle" => m1 = m2
  BY DEF NewsInv, OneScan
<1>5. /\ running' <=> scanners'[n].pc # "idle"
      /\ \A m \in Scanners \ {n} : scanners[m].pc = "idle"
  <2>1. CASE ScanWithFilter(n)
    <3>1. scanners'[n] = [IdleScanner EXCEPT !.pc = "fetch"]
      BY <1>1, <2>1 DEF ScanWithFilter, Scans
    <3> QED  BY <1>4, <2>1, <3>1 DEF ScanWithFilter, MayStart, IdleScanner
  <2>2. CASE InvokeWorkflow(n)
    <3>1. scanners[n].pc = "fetch" /\ running' = running
      BY <2>2 DEF InvokeWorkflow
    <3>2. scanners'[n].pc \in {"save", "end"}
      BY <1>1, <2>2 DEF InvokeWorkflow, Scans, IdleScanner
    <3> QED  BY <1>4, <3>1, <3>2
  <2>3. ASSUME NEW s \in Stories, NEW v \in Versions, CreateNewsCandidateIfMissing(n, s, v)
        PROVE  /\ running' <=> scanners'[n].pc # "idle"
               /\ \A m \in Scanners \ {n} : scanners[m].pc = "idle"
    <3>1. scanners[n].pc = "save" /\ running' = running
      BY <2>3 DEF CreateNewsCandidateIfMissing
    <3>2. scanners'[n].pc \in {"save", "end"}
      BY <1>1, <2>3 DEF CreateNewsCandidateIfMissing, Scans, IdleScanner
    <3> QED  BY <1>4, <3>1, <3>2
  <2>4. CASE EndScan(n)
    <3>1. scanners[n].pc = "end" /\ running' = FALSE
      BY <2>4 DEF EndScan
    <3>2. scanners'[n].pc = "idle"
      BY <1>1, <2>4 DEF EndScan, Scans, IdleScanner
    <3> QED  BY <1>4, <3>1, <3>2
  <2> QED  BY <2>1, <2>2, <2>3, <2>4
<1>6. \A m \in Scanners \ {n} : scanners'[m].pc = "idle"
  BY <1>3, <1>5
<1>7. OneScan'
  BY <1>5, <1>6 DEF OneScan
<1>8. running' \in BOOLEAN
  BY <1>1 DEF ScanWithFilter, InvokeWorkflow, CreateNewsCandidateIfMissing, EndScan
<1> QED  BY <1>3, <1>7, <1>8

\* The whole invariant, after a step of a scan that leaves candidates alone or
\* gives a story without one its candidate.
LEMMA ScanStep ==
    ASSUME NewsInv, NEW n \in Scanners,
           \/ ScanWithFilter(n)
           \/ InvokeWorkflow(n)
           \/ \E s \in Stories, v \in Versions : CreateNewsCandidateIfMissing(n, s, v)
           \/ EndScan(n)
    PROVE  /\ NewsInv'
           /\ \A s \in Stories : candidates[s].status # "none"
                                    => candidates'[s] = candidates[s]
<1>1. /\ scanners' \in [Scanners -> ScannerStates]
      /\ running' \in BOOLEAN
      /\ OneScan'
  BY ScanHolds
<1>2. UNCHANGED <<polls, reviewers>>
  BY DEF ScanWithFilter, InvokeWorkflow, CreateNewsCandidateIfMissing, EndScan
<1>3. candidates \in [Stories -> CandidateStates]
  BY DEF NewsInv, NewsTypeOK, CandidateStates
<1>4. \/ UNCHANGED candidates
      \/ \E s \in Stories, v \in Versions :
            candidates' = [candidates EXCEPT ![s] = CandidateOf(s, v)]
  BY DEF ScanWithFilter, InvokeWorkflow, CreateNewsCandidateIfMissing, EndScan
<1>5. /\ candidates' \in [Stories -> CandidateStates]
      /\ \A s \in Stories : candidates[s].status # "none" => candidates'[s] = candidates[s]
      /\ \A s \in Stories : candidates'[s] # candidates[s]
                               => /\ candidates'[s].status = "pending"
                                  /\ candidates'[s].version \in Versions
  <2>1. CASE UNCHANGED candidates
    BY <1>3, <2>1
  <2>2. ASSUME NEW s \in Stories, NEW v \in Versions,
               candidates' = [candidates EXCEPT ![s] = CandidateOf(s, v)]
        PROVE  <1>5!:
    <3> DEFINE new == [NoCandidate EXCEPT !.status = "pending", !.version = v]
    <3>1. /\ new \in CandidateStates
          /\ new.status = "pending" /\ new.version \in Versions
      BY DEF NoCandidate, CandidateStates
    <3>2. CandidateOf(s, v) = IF candidates[s].status # "none" THEN candidates[s] ELSE new
      BY DEF CandidateOf
    <3> HIDE DEF new
    <3>3. CandidateOf(s, v) \in CandidateStates
      BY <1>3, <3>1, <3>2
    <3>4. /\ candidates' \in [Stories -> CandidateStates]
          /\ candidates'[s] = CandidateOf(s, v)
          /\ \A t \in Stories \ {s} : candidates'[t] = candidates[t]
      BY <1>3, <2>2, <3>3
    <3> QED  BY <3>1, <3>2, <3>4
  <2> QED  BY <1>4, <2>1, <2>2
<1>6. NewsTypeOK'
  BY <1>1, <1>2, <1>5 DEF NewsInv, NewsTypeOK, CandidateStates, ScannerStates
<1>7. CandidatesSound'
  BY <1>5 DEF NewsInv, CandidatesSound
<1>8. PollsStay
  BY <1>2 DEF PollsStay
<1>9. ReviewersSound'
  BY <1>2, <1>8, ReviewersKept
<1>10. \A s \in Stories : candidates'[s].status = "approved"
          => candidates[s].status = "approved" /\ candidates'[s].poll = candidates[s].poll
  BY <1>5
<1>11. ApprovedHasItsPolls'
  BY <1>8, <1>10, ApprovalsKept
<1> QED  BY <1>1, <1>5, <1>6, <1>7, <1>9, <1>11 DEF NewsInv

----------------------------------------------------------------------------
(* The steps of the administrators *)

\* An edit or a rejection is of a pending candidate, and leaves it unapproved.
LEMMA EditStep ==
    ASSUME NewsInv, NEW s \in Stories,
           \/ \E v \in Versions : UpdatePendingNewsCandidate(s, v)
           \/ AdminRejectNewsCandidate(s)
    PROVE  /\ NewsInv'
           /\ \A t \in Stories : candidates[t].status # "pending"
                                    => candidates'[t] = candidates[t]
<1>1. UNCHANGED <<polls, running, scanners, reviewers>> /\ candidates[s].status = "pending"
  BY DEF UpdatePendingNewsCandidate, AdminRejectNewsCandidate
<1>2. candidates \in [Stories -> CandidateStates] /\ candidates[s].version \in Versions
  BY <1>1 DEF NewsInv, NewsTypeOK, CandidateStates, CandidatesSound
<1>3. PICK new \in CandidateStates :
         /\ candidates' = [candidates EXCEPT ![s] = new]
         /\ new.status \in {"pending", "rejected"}
         /\ new.version \in Versions
  <2>1. ASSUME NEW v \in Versions, UpdatePendingNewsCandidate(s, v)
        PROVE  \E new \in CandidateStates :
                  /\ candidates' = [candidates EXCEPT ![s] = new]
                  /\ new.status \in {"pending", "rejected"}
                  /\ new.version \in Versions
    <3> DEFINE new == [candidates[s] EXCEPT !.version = v]
    <3>1. new \in CandidateStates /\ new.status = "pending" /\ new.version = v
      BY <1>1, <1>2 DEF CandidateStates
    <3>2. candidates' = [candidates EXCEPT ![s] = new]
      BY <1>2, <2>1 DEF UpdatePendingNewsCandidate
    <3> QED  BY <3>1, <3>2
  <2>2. CASE AdminRejectNewsCandidate(s)
    <3> DEFINE new == [candidates[s] EXCEPT !.status = "rejected"]
    <3>1. /\ new \in CandidateStates /\ new.status = "rejected"
          /\ new.version = candidates[s].version
      BY <1>2 DEF CandidateStates
    <3>2. candidates' = [candidates EXCEPT ![s] = new]
      BY <1>2, <2>2 DEF AdminRejectNewsCandidate
    <3> QED  BY <1>2, <3>1, <3>2
  <2> QED  BY <2>1, <2>2
<1>4. /\ candidates' \in [Stories -> CandidateStates]
      /\ candidates'[s] = new
      /\ \A t \in Stories \ {s} : candidates'[t] = candidates[t]
  BY <1>2, <1>3
<1>5. NewsTypeOK'
  BY <1>1, <1>4 DEF NewsInv, NewsTypeOK, CandidateStates
<1>6. CandidatesSound'
  BY <1>3, <1>4 DEF NewsInv, CandidatesSound
<1>7. OneScan'
  BY <1>1, ScansKept
<1>8. PollsStay
  BY <1>1 DEF PollsStay
<1>9. ReviewersSound'
  BY <1>1, <1>8, ReviewersKept
<1>10. \A t \in Stories : candidates'[t].status = "approved"
          => candidates[t].status = "approved" /\ candidates'[t].poll = candidates[t].poll
  BY <1>3, <1>4
<1>11. ApprovedHasItsPolls'
  BY <1>8, <1>10, ApprovalsKept
<1>12. \A t \in Stories : candidates[t].status # "pending" => candidates'[t] = candidates[t]
  BY <1>1, <1>4
<1> QED  BY <1>5, <1>6, <1>7, <1>9, <1>11, <1>12 DEF NewsInv

\* An approval begins with all the choices of the candidate's version to save.
LEMMA ApproveStep ==
    ASSUME NewsInv, NEW r \in Reviewers, NEW s \in Stories, AdminApproveNewsCandidate(r, s)
    PROVE  NewsInv'
<1> DEFINE v == candidates[s].version
           begun == [pc |-> "polls", story |-> s, version |-> v, todo |-> ChoicesOf[v]]
<1>1. /\ UNCHANGED <<candidates, polls, running, scanners>>
      /\ reviewers' = [reviewers EXCEPT ![r] = begun]
  BY DEF AdminApproveNewsCandidate, Reviews
<1>2. v \in Versions /\ ChoicesOf[v] \in SUBSET AllChoices
  BY NewsAssumption DEF AdminApproveNewsCandidate, NewsInv, CandidatesSound
<1>3. reviewers \in [Reviewers -> ReviewerStates] /\ begun \in ReviewerStates
  BY <1>2 DEF NewsInv, NewsTypeOK, ReviewerStates
<1>4. /\ reviewers' \in [Reviewers -> ReviewerStates]
      /\ reviewers'[r] = begun
      /\ \A q \in Reviewers \ {r} : reviewers'[q] = reviewers[q]
  BY <1>1, <1>3
<1>5. NewsTypeOK'
  BY <1>1, <1>4 DEF NewsInv, NewsTypeOK, ReviewerStates
<1>6. ReviewersSound'
  BY <1>1, <1>2, <1>4 DEF NewsInv, ReviewersSound
<1>7. OneScan'
  BY <1>1, ScansKept
<1>8. CandidatesSound' /\ ApprovedHasItsPolls'
  BY <1>1 DEF NewsInv, CandidatesSound, ApprovedHasItsPolls
<1> QED  BY <1>5, <1>6, <1>7, <1>8 DEF NewsInv

\* A poll is saved, and its choice is no longer to be saved; or the approval ends.
LEMMA UpsertStep ==
    ASSUME NewsInv, NEW r \in Reviewers, NEW c \in AllChoices, UpsertPoll(r, c)
    PROVE  NewsInv'
<1> DEFINE q == reviewers[r]
           todo == q.todo \ {c}
           slug == <<q.story, q.version, c>>
           saved == [q EXCEPT !.todo = todo,
                              !.pc = IF todo = {} THEN "review" ELSE "polls"]
<1>1. UNCHANGED <<candidates, running, scanners>> /\ q.pc = "polls"
  BY DEF UpsertPoll
<1>2. reviewers \in [Reviewers -> ReviewerStates] /\ q \in ReviewerStates
  BY DEF NewsInv, NewsTypeOK, ReviewerStates
<1>3. q.story \in Stories /\ q.version \in Versions /\ slug \in Slugs
  BY <1>1 DEF NewsInv, ReviewersSound, Slugs
<1>4. \/ /\ polls' = [polls EXCEPT ![slug] = "draft"]
         /\ reviewers' = [reviewers EXCEPT ![r] = saved]
      \/ /\ reviewers' = [reviewers EXCEPT ![r] = IdleReviewer]
         /\ UNCHANGED polls
  BY DEF UpsertPoll, Reviews, AfterFailure
<1>5. polls \in [Slugs -> {"none", "draft", "published"}]
  BY DEF NewsInv, NewsTypeOK, Slugs
<1>6. /\ polls' \in [Slugs -> {"none", "draft", "published"}]
      /\ PollsStay
  BY <1>3, <1>4, <1>5 DEF PollsStay
<1>7. /\ saved \in ReviewerStates
      /\ saved.story = q.story /\ saved.version = q.version /\ saved.todo = todo
      /\ saved.pc = "review" => todo = {}
  BY <1>2 DEF ReviewerStates
<1>8. IdleReviewer \in ReviewerStates /\ IdleReviewer.pc = "idle"
  BY DEF IdleReviewer, ReviewerStates
<1>9. /\ reviewers' \in [Reviewers -> ReviewerStates]
      /\ \A p \in Reviewers \ {r} : reviewers'[p] = reviewers[p]
  BY <1>2, <1>4, <1>7, <1>8
<1>10. NewsTypeOK'
  BY <1>1, <1>6, <1>9 DEF NewsInv, NewsTypeOK, ReviewerStates, Slugs
<1>11. ReviewersSound'
  <2>1. CASE reviewers' = [reviewers EXCEPT ![r] = IdleReviewer]
    <3>1. \A p \in Reviewers : reviewers'[p].pc = "idle" \/ reviewers'[p] = reviewers[p]
      BY <1>2, <1>8, <2>1
    <3> QED  BY <1>6, <3>1, ReviewersKept
  <2>2. CASE /\ polls' = [polls EXCEPT ![slug] = "draft"]
             /\ reviewers' = [reviewers EXCEPT ![r] = saved]
    <3>1. reviewers'[r] = saved
      BY <1>2, <2>2
    <3>2. \A d \in ChoicesOf[q.version] \ q.todo : polls[<<q.story, q.version, d>>] # "none"
      BY <1>1 DEF NewsInv, ReviewersSound
    <3>3. ASSUME NEW d \in ChoicesOf[q.version] \ todo
          PROVE  polls'[<<q.story, q.version, d>>] # "none"
      <4>1. CASE d = c
        <5>1. polls'[slug] = "draft"
          BY <1>3, <1>5, <2>2
        <5> QED  BY <4>1, <5>1
      <4>2. CASE d # c
        <5>1. /\ polls[<<q.story, q.version, d>>] # "none"
              /\ <<q.story, q.version, d>> \in Slugs
          BY <1>3, <3>2, <3>3, <4>2, ChoiceSlugs
        <5> QED  BY <1>6, <5>1 DEF PollsStay
      <4> QED  BY <4>1, <4>2
    <3> HIDE DEF saved
    <3>4. /\ reviewers'[r].story \in Stories
          /\ reviewers'[r].version \in Versions
          /\ reviewers'[r].pc = "review" => reviewers'[r].todo = {}
          /\ \A d \in ChoicesOf[reviewers'[r].version] \ reviewers'[r].todo :
                polls'[<<reviewers'[r].story, reviewers'[r].version, d>>] # "none"
      BY <1>3, <1>7, <3>1, <3>3
    <3>5. ASSUME NEW p \in Reviewers \ {r}, reviewers'[p].pc # "idle"
          PROVE  /\ reviewers'[p].story \in Stories
                 /\ reviewers'[p].version \in Versions
                 /\ reviewers'[p].pc = "review" => reviewers'[p].todo = {}
                 /\ \A d \in ChoicesOf[reviewers'[p].version] \ reviewers'[p].todo :
                       polls'[<<reviewers'[p].story, reviewers'[p].version, d>>] # "none"
      <4>1. reviewers'[p] = reviewers[p]
        BY <1>9, <3>5
      <4>2. /\ reviewers[p].story \in Stories
            /\ reviewers[p].version \in Versions
            /\ reviewers[p].pc = "review" => reviewers[p].todo = {}
            /\ \A d \in ChoicesOf[reviewers[p].version] \ reviewers[p].todo :
                  polls[<<reviewers[p].story, reviewers[p].version, d>>] # "none"
        BY <3>5, <4>1 DEF NewsInv, ReviewersSound
      <4>3. ASSUME NEW d \in ChoicesOf[reviewers[p].version] \ reviewers[p].todo
            PROVE  polls'[<<reviewers[p].story, reviewers[p].version, d>>] # "none"
        BY <1>6, <4>2, <4>3, ChoiceSlugs DEF PollsStay
      <4> QED  BY <4>1, <4>2, <4>3
    <3> QED  BY <3>4, <3>5 DEF ReviewersSound
  <2> QED  BY <1>4, <2>1, <2>2
<1>12. OneScan'
  BY <1>1, ScansKept
<1>13. CandidatesSound'
  BY <1>1 DEF NewsInv, CandidatesSound
<1>14. ApprovedHasItsPolls'
  BY <1>1, <1>6, ApprovalsKept
<1> QED  BY <1>10, <1>11, <1>12, <1>13, <1>14 DEF NewsInv

\* The candidate that is approved has the polls the approval has saved.
LEMMA ReviewStep ==
    ASSUME NewsInv, NEW r \in Reviewers, ReviewNewsCandidate(r)
    PROVE  /\ NewsInv'
           /\ \A t \in Stories : candidates[t].status # "pending"
                                    => candidates'[t] = candidates[t]
<1> DEFINE s == reviewers[r].story
           v == reviewers[r].version
           new == [candidates[s] EXCEPT !.status = "approved", !.poll = v]
<1>1. /\ UNCHANGED <<polls, running, scanners>>
      /\ reviewers[r].pc = "review"
      /\ reviewers' = [reviewers EXCEPT ![r] = IdleReviewer]
  BY DEF ReviewNewsCandidate, Reviews
<1>2. /\ s \in Stories /\ v \in Versions
      /\ \A c \in ChoicesOf[v] : polls[<<s, v, c>>] # "none"
  BY <1>1 DEF NewsInv, ReviewersSound
<1>3. /\ candidates \in [Stories -> CandidateStates]
      /\ reviewers \in [Reviewers -> ReviewerStates]
  BY DEF NewsInv, NewsTypeOK, CandidateStates, ReviewerStates
<1>4. /\ new \in CandidateStates /\ new.poll = v
      /\ new.version = candidates[s].version
  BY <1>2, <1>3 DEF CandidateStates
<1>5. \/ candidates[s].status = "pending" /\ candidates' = [candidates EXCEPT ![s] = new]
      \/ UNCHANGED candidates
  BY <1>2, <1>3 DEF ReviewNewsCandidate
<1> HIDE DEF new
<1>6. /\ candidates' \in [Stories -> CandidateStates]
      /\ candidates'[s] \in {new, candidates[s]}
      /\ candidates[s].status # "pending" => candidates'[s] = candidates[s]
      /\ \A t \in Stories \ {s} : candidates'[t] = candidates[t]
  BY <1>2, <1>3, <1>4, <1>5
<1>7. /\ reviewers' \in [Reviewers -> ReviewerStates]
      /\ \A p \in Reviewers : reviewers'[p].pc = "idle" \/ reviewers'[p] = reviewers[p]
  BY <1>1, <1>3 DEF ReviewerStates, IdleReviewer
<1>8. NewsTypeOK'
  BY <1>1, <1>6, <1>7 DEF NewsInv, NewsTypeOK, CandidateStates, ReviewerStates
<1>9. CandidatesSound'
  <2>1. candidates[s].status = "pending" => candidates[s].version \in Versions
    BY <1>2 DEF NewsInv, CandidatesSound
  <2>2. candidates'[s].status # "none" => candidates'[s].version \in Versions
    BY <1>2, <1>4, <1>5, <1>6, <2>1 DEF NewsInv, CandidatesSound
  <2> QED  BY <1>6, <2>2 DEF NewsInv, CandidatesSound
<1>10. OneScan'
  BY <1>1, ScansKept
<1>11. ReviewersSound'
  <2>1. PollsStay
    BY <1>1 DEF PollsStay
  <2> QED  BY <1>7, <2>1, ReviewersKept
<1>12. ApprovedHasItsPolls'
  BY <1>1, <1>2, <1>4, <1>6 DEF NewsInv, ApprovedHasItsPolls
<1>13. \A t \in Stories : candidates[t].status # "pending" => candidates'[t] = candidates[t]
  BY <1>6
<1> QED  BY <1>8, <1>9, <1>10, <1>11, <1>12, <1>13 DEF NewsInv

\* A publication keeps the poll; a restart ends the scan and the approvals.
LEMMA PublishStep ==
    ASSUME NewsInv, NEW p \in Slugs, PublishPoll(p)
    PROVE  NewsInv'
<1>1. /\ UNCHANGED <<candidates, running, scanners, reviewers>>
      /\ polls' = [polls EXCEPT ![p] = "published"]
  BY DEF PublishPoll
<1>2. polls \in [Slugs -> {"none", "draft", "published"}]
  BY DEF NewsInv, NewsTypeOK, Slugs
<1>3. polls' \in [Slugs -> {"none", "draft", "published"}] /\ PollsStay
  BY <1>1, <1>2 DEF PollsStay
<1>4. NewsTypeOK'
  BY <1>1, <1>3 DEF NewsInv, NewsTypeOK, Slugs
<1>5. ReviewersSound' /\ ApprovedHasItsPolls'
  BY <1>1, <1>3, ReviewersKept, ApprovalsKept
<1>6. OneScan' /\ CandidatesSound'
  BY <1>1, ScansKept DEF NewsInv, CandidatesSound
<1> QED  BY <1>4, <1>5, <1>6 DEF NewsInv

LEMMA RestartStep ==
    ASSUME NewsInv, NewsRestart
    PROVE  NewsInv'
<1>1. /\ UNCHANGED <<candidates, polls>>
      /\ running' = FALSE
      /\ scanners' = [n \in Scanners |-> IdleScanner]
      /\ reviewers' = [r \in Reviewers |-> IdleReviewer]
  BY DEF NewsRestart
<1>2. NewsTypeOK'
  BY <1>1 DEF NewsInv, NewsTypeOK, IdleScanner, IdleReviewer
<1>3. OneScan'
  BY <1>1 DEF OneScan, IdleScanner
<1>4. ReviewersSound'
  BY <1>1 DEF ReviewersSound, IdleReviewer
<1>5. CandidatesSound' /\ ApprovedHasItsPolls'
  BY <1>1 DEF NewsInv, CandidatesSound, ApprovedHasItsPolls
<1> QED  BY <1>2, <1>3, <1>4, <1>5 DEF NewsInv

----------------------------------------------------------------------------
(* The theorems *)

\* What every step keeps: the invariant, and every candidate that was reviewed.
LEMMA EveryStep ==
    ASSUME NewsInv, [NewsNext]_newsVars
    PROVE  /\ NewsInv'
           /\ \A s \in Stories : candidates[s].status \in {"approved", "rejected"}
                                    => candidates'[s] = candidates[s]
<1> DEFINE Final == \A s \in Stories : candidates[s].status \in {"approved", "rejected"}
                                          => candidates'[s] = candidates[s]
<1>1. CASE UNCHANGED newsVars
  <2>1. UNCHANGED <<candidates, polls, running, scanners, reviewers>>
    BY <1>1 DEF newsVars
  <2> QED  BY <2>1 DEF NewsInv, NewsTypeOK, OneScan, CandidatesSound, ReviewersSound,
                       ApprovedHasItsPolls
<1>2. ASSUME NEW n \in Scanners,
             \/ ScanWithFilter(n)
             \/ InvokeWorkflow(n)
             \/ \E s \in Stories, v \in Versions : CreateNewsCandidateIfMissing(n, s, v)
             \/ EndScan(n)
      PROVE  NewsInv' /\ Final
  BY <1>2, ScanStep
<1>3. ASSUME NEW s \in Stories,
             \/ \E v \in Versions : UpdatePendingNewsCandidate(s, v)
             \/ AdminRejectNewsCandidate(s)
      PROVE  NewsInv' /\ Final
  BY <1>3, EditStep
<1>4. ASSUME NEW s \in Stories, NEW r \in Reviewers, AdminApproveNewsCandidate(r, s)
      PROVE  NewsInv' /\ Final
  BY <1>4, ApproveStep DEF AdminApproveNewsCandidate
<1>5. ASSUME NEW r \in Reviewers, NEW c \in AllChoices, UpsertPoll(r, c)
      PROVE  NewsInv' /\ Final
  BY <1>5, UpsertStep DEF UpsertPoll
<1>6. ASSUME NEW r \in Reviewers, ReviewNewsCandidate(r)
      PROVE  NewsInv' /\ Final
  BY <1>6, ReviewStep
<1>7. ASSUME NEW p \in DOMAIN polls, PublishPoll(p)
      PROVE  NewsInv' /\ Final
  <2>1. p \in Slugs
    BY <1>7 DEF NewsInv, NewsTypeOK, Slugs
  <2> QED  BY <1>7, <2>1, PublishStep DEF PublishPoll
<1>8. CASE NewsRestart
  BY <1>8, RestartStep DEF NewsRestart
<1> QED  BY <1>1, <1>2, <1>3, <1>4, <1>5, <1>6, <1>7, <1>8 DEF NewsNext

LEMMA NewsInitHolds == NewsInit => NewsInv
<1> SUFFICES ASSUME NewsInit PROVE NewsInv
  OBVIOUS
<1>1. NewsTypeOK
  BY DEF NewsInit, NewsTypeOK, NoCandidate, IdleScanner, IdleReviewer
<1>2. OneScan
  BY DEF NewsInit, OneScan, IdleScanner
<1>3. CandidatesSound /\ ReviewersSound /\ ApprovedHasItsPolls
  BY DEF NewsInit, CandidatesSound, ReviewersSound, ApprovedHasItsPolls, NoCandidate,
         IdleReviewer
<1> QED  BY <1>1, <1>2, <1>3 DEF NewsInv

LEMMA NewsInvariant == NewsSpec => []NewsInv
<1>1. NewsInv /\ [NewsNext]_newsVars => NewsInv'
  BY EveryStep
<1> QED  BY <1>1, NewsInitHolds, PTL DEF NewsSpec

\* The variables of the scout keep their types.
THEOREM NewsTyped == NewsSpec => []NewsTypeOK
<1>1. NewsInv => NewsTypeOK
  BY DEF NewsInv
<1> QED  BY <1>1, NewsInvariant, PTL

\* The flag is up exactly while a scan goes on, and one goes on at a time
\* (ScanWithFilter), for any number of requests that run the agent.
THEOREM ScansAlone == NewsSpec => []OneScan
<1>1. NewsInv => OneScan
  BY DEF NewsInv
<1> QED  BY <1>1, NewsInvariant, PTL

\* An approved candidate has the polls of the version that was approved
\* (adminApproveNewsCandidate), for any number of stories and administrators.
THEOREM ApprovedIsPolled == NewsSpec => []ApprovedHasItsPolls
<1>1. NewsInv => ApprovedHasItsPolls
  BY DEF NewsInv
<1> QED  BY <1>1, NewsInvariant, PTL

\* What a review decided stands (ReviewNewsCandidate, UpdatePendingNewsCandidate).
THEOREM ReviewStands == NewsSpec => ReviewIsFinal
<1> DEFINE Final == \A s \in Stories : candidates[s].status \in {"approved", "rejected"}
                                          => candidates'[s] = candidates[s]
<1>1. NewsInv /\ [NewsNext]_newsVars => [Final]_newsVars
  BY EveryStep
<1>2. [][NewsNext]_newsVars /\ []NewsInv => [][Final]_newsVars
  BY <1>1, PTL
<1> QED  BY <1>2, NewsInvariant, PTL DEF NewsSpec, ReviewIsFinal

----------------------------------------------------------------------------
(* Alerts: types *)

OrderStates == [pc : {"idle", "trade", "cashout", "notify"},
                user : Subscribers \cup {NoOrder}, old : 0 .. Whole, new : Prices]
SettlerStates == [pc : {"idle", "update", "notify"}, status : PollStatuses]

\* The request that is about to tell of a settlement has settled the market.
AlertsHeld ==
    /\ AlertsTypeOK
    /\ \A a \in Settlers : settlers[a].pc = "notify" => settlers[a].status \in Settlements

\* What a notice was sent for and what the alert remembers of it: an alert that
\* is off remembers nothing.
AlertsRemember ==
    /\ \A u \in Subscribers :
          /\ "closing" \notin alerts[u].on => ~alerts[u].closingSent
          /\ inbox[u]["closing"] <= switched[u]["closing"]
          /\ "closing" \in alerts[u].on /\ ~alerts[u].closingSent =>
                inbox[u]["closing"] < switched[u]["closing"]
          /\ heard[u] = alerts[u].status

\* Who was told of a crossing has the price beyond her threshold, also as the
\* order under way knew it; and that order knows the price as it is.
PricesKnown ==
    /\ \A u \in Subscribers : beyond[u] => Reaches(alerts[u], price)
    /\ \A o \in Orders :
          /\ orders[o].pc \in {"trade", "cashout"} => orders[o].old = price
          /\ orders[o].pc = "notify" =>
                /\ orders[o].new = price
                /\ \A u \in Subscribers : beyond[u] => Reaches(alerts[u], orders[o].old)

AlertsInv == AlertsHeld /\ AlertsRemember /\ PricesKnown

LEMMA AlertNumbers ==
    /\ Whole \in Nat /\ Whole > 1 /\ Prices \subseteq 0 .. Whole /\ 1 \in Prices
    /\ Whole \div 2 \in Prices
    /\ \A p \in Prices : p \in Nat /\ Whole - p \in Prices /\ Whole - (Whole - p) = p
BY AlertsAssumption DEF Prices

LEMMA AlertsInitHolds == AlertsInit => AlertsInv
<1> SUFFICES ASSUME AlertsInit
             PROVE  AlertsInv
    OBVIOUS
<1> USE AlertNumbers, AlertsAssumption DEF AlertsInit
<1>1. alerts \in [Subscribers -> AlertStates]
    BY DEF NoAlert, AlertStates
<1>2. AlertsHeld
    <2>1. orders \in [Orders -> OrderStates] /\ \A o \in Orders : orders[o].pc = "idle"
        BY DEF OrderStates, IdleOrder
    <2>2. settlers \in [Settlers -> SettlerStates] /\ \A a \in Settlers : settlers[a].pc = "idle"
        BY DEF SettlerStates, IdleSettler, PollStatuses, Settlements
    <2>3. poll \in [status : PollStatuses, ends : {"later", "soon", "past"}]
        BY DEF PollStatuses
    <2>4. /\ inbox \in [Subscribers -> [AlertKinds -> Nat]]
          /\ switched \in [Subscribers -> [AlertKinds -> 0 .. MaxSwitches]]
        OBVIOUS
    <2>5. /\ heard \in [Subscribers -> Settlements \cup {"none"}]
          /\ beyond \in [Subscribers -> BOOLEAN] /\ served \in 0 .. MaxServed
        OBVIOUS
    <2> QED  BY <1>1, <2>1, <2>2, <2>3, <2>4, <2>5
             DEF AlertsHeld, AlertsTypeOK, OrderStates, SettlerStates
<1>3. AlertsRemember
    BY DEF AlertsRemember, NoAlert, AlertKinds
<1>4. PricesKnown
    BY DEF PricesKnown, IdleOrder
<1> QED  BY <1>2, <1>3, <1>4 DEF AlertsInv

\* The alert that UpsertMarketAlert saves.
LEMMA SavedTyped ==
    ASSUME AlertsInv, NEW u \in Subscribers, NEW on \in SUBSET AlertKinds,
           NEW direction \in {"above", "below"}, NEW threshold \in Prices
    PROVE  [on |-> on, closingSent |-> KeptSent(u, on), status |-> KeptStatus(u, on),
            direction |-> IF "price" \in on THEN direction ELSE "above",
            threshold |-> IF "price" \in on THEN threshold ELSE Whole \div 2]
              \in AlertStates
<1>1. alerts[u].closingSent \in BOOLEAN /\ alerts[u].status \in Settlements \cup {"none"}
    BY DEF AlertsInv, AlertsHeld, AlertsTypeOK, AlertStates
<1>2. KeptSent(u, on) \in BOOLEAN /\ KeptStatus(u, on) \in Settlements \cup {"none"}
    BY <1>1 DEF KeptSent, KeptStatus
<1> QED  BY <1>2, AlertNumbers DEF AlertStates

\* What a step may change of the users, given what it leaves alone.
LEMMA UsersStep ==
    ASSUME AlertsInv, UNCHANGED <<poll, price, lock, orders, settlers, served>>,
           alerts' \in [Subscribers -> AlertStates],
           inbox' \in [Subscribers -> [AlertKinds -> Nat]],
           switched' \in [Subscribers -> [AlertKinds -> 0 .. MaxSwitches]],
           heard' \in [Subscribers -> Settlements \cup {"none"}],
           beyond' \in [Subscribers -> BOOLEAN],
           \A u \in Subscribers : beyond'[u] =>
              /\ beyond[u]
              /\ alerts'[u].direction = alerts[u].direction
              /\ alerts'[u].threshold = alerts[u].threshold
    PROVE  AlertsHeld' /\ PricesKnown'
<1>1. AlertsHeld'
    BY DEF AlertsInv, AlertsHeld, AlertsTypeOK
<1>2. \A u \in Subscribers : \A p : beyond'[u] /\ Reaches(alerts[u], p) => Reaches(alerts'[u], p)
    BY DEF Reaches
<1>3. \A u \in Subscribers : beyond'[u] => beyond[u]
    OBVIOUS
<1> QED  BY <1>1, <1>2, <1>3 DEF AlertsInv, PricesKnown

LEMMA UpsertHolds ==
    ASSUME AlertsInv, NEW u \in Subscribers, NEW on \in SUBSET AlertKinds,
           NEW direction \in {"above", "below"}, NEW threshold \in Prices,
           UpsertMarketAlert(u, on, direction, threshold)
    PROVE  AlertsInv'
<1> DEFINE saved == [on |-> on, closingSent |-> KeptSent(u, on),
                     status |-> KeptStatus(u, on),
                     direction |-> IF "price" \in on THEN direction ELSE "above",
                     threshold |-> IF "price" \in on THEN threshold
                                   ELSE Whole \div 2]
           more == on \ alerts[u].on
<1>0. /\ alerts \in [Subscribers -> AlertStates]
      /\ inbox \in [Subscribers -> [AlertKinds -> Nat]]
      /\ switched \in [Subscribers -> [AlertKinds -> 0 .. MaxSwitches]]
      /\ heard \in [Subscribers -> Settlements \cup {"none"}]
      /\ beyond \in [Subscribers -> BOOLEAN]
      /\ alerts[u] \in AlertStates
    BY DEF AlertsInv, AlertsHeld, AlertsTypeOK
<1>1. saved \in AlertStates
    BY SavedTyped
<1>2. /\ saved.on = on /\ saved.closingSent = KeptSent(u, on)
      /\ saved.status = KeptStatus(u, on)
      /\ "price" \in on => saved.direction = direction /\ saved.threshold = threshold
    OBVIOUS
<1>3. /\ alerts' = [alerts EXCEPT ![u] = saved]
      /\ switched' = [switched EXCEPT ![u] = [k \in AlertKinds |->
                         IF k \in more THEN @[k] + 1 ELSE @[k]]]
      /\ heard' = [heard EXCEPT ![u] = IF "resolution" \in on THEN @ ELSE "none"]
      /\ beyond' = [beyond EXCEPT ![u] = /\ @ /\ "price" \in on \cap alerts[u].on
                                         /\ direction = alerts[u].direction
                                         /\ threshold = alerts[u].threshold]
      /\ UNCHANGED <<poll, price, lock, orders, settlers, inbox, served>>
      /\ \A k \in more : switched[u][k] < MaxSwitches
    BY DEF UpsertMarketAlert
<1> HIDE DEF saved
<1>4. alerts' \in [Subscribers -> AlertStates]
    BY <1>0, <1>1, <1>3
<1>5. switched' \in [Subscribers -> [AlertKinds -> 0 .. MaxSwitches]]
    <2>1. ASSUME NEW k \in AlertKinds
          PROVE  (IF k \in more THEN switched[u][k] + 1 ELSE switched[u][k]) \in 0 .. MaxSwitches
        BY <1>0, <1>3, AlertsAssumption
    <2>2. [k \in AlertKinds |-> IF k \in more THEN switched[u][k] + 1 ELSE switched[u][k]]
            \in [AlertKinds -> 0 .. MaxSwitches]
        BY <2>1
    <2> HIDE DEF more
    <2> QED  BY <1>0, <1>3, <2>2
<1>6. /\ heard' \in [Subscribers -> Settlements \cup {"none"}]
      /\ beyond' \in [Subscribers -> BOOLEAN]
    BY <1>0, <1>3
<1>7. \A v \in Subscribers : beyond'[v] =>
          /\ beyond[v]
          /\ alerts'[v].direction = alerts[v].direction
          /\ alerts'[v].threshold = alerts[v].threshold
    <2> SUFFICES ASSUME NEW v \in Subscribers, beyond'[v]
                 PROVE  /\ beyond[v]
                        /\ alerts'[v].direction = alerts[v].direction
                        /\ alerts'[v].threshold = alerts[v].threshold
        OBVIOUS
    <2>1. CASE v # u
        BY <1>0, <1>3, <2>1
    <2>2. CASE v = u
        BY <1>0, <1>2, <1>3, <2>2
    <2> QED  BY <2>1, <2>2
<1>8. AlertsHeld' /\ PricesKnown'
    BY <1>0, <1>3, <1>4, <1>5, <1>6, <1>7, UsersStep
<1>9. AlertsRemember'
    <2> SUFFICES ASSUME NEW v \in Subscribers
                 PROVE  /\ "closing" \notin alerts'[v].on => ~alerts'[v].closingSent
                        /\ inbox'[v]["closing"] <= switched'[v]["closing"]
                        /\ "closing" \in alerts'[v].on /\ ~alerts'[v].closingSent =>
                              inbox'[v]["closing"] < switched'[v]["closing"]
                        /\ heard'[v] = alerts'[v].status
        BY DEF AlertsRemember
    <2>1. /\ "closing" \notin alerts[v].on => ~alerts[v].closingSent
          /\ inbox[v]["closing"] <= switched[v]["closing"]
          /\ "closing" \in alerts[v].on /\ ~alerts[v].closingSent =>
                inbox[v]["closing"] < switched[v]["closing"]
          /\ heard[v] = alerts[v].status
        BY DEF AlertsInv, AlertsRemember
    <2>2. CASE v # u
        BY <1>0, <1>3, <2>1, <2>2
    <2>3. CASE v = u
        <3>1. /\ alerts'[v] = saved /\ inbox'[v] = inbox[v]
              /\ heard'[v] = IF "resolution" \in on THEN heard[v] ELSE "none"
              /\ switched'[v]["closing"] = IF "closing" \in more THEN switched[v]["closing"] + 1
                                           ELSE switched[v]["closing"]
            BY <1>0, <1>3, <2>3 DEF AlertKinds
        <3>2. inbox[v]["closing"] \in Nat /\ switched[v]["closing"] \in Nat
            BY <1>0, AlertsAssumption DEF AlertKinds
        <3>3. alerts[v].closingSent \in BOOLEAN
            BY <1>0, <2>3 DEF AlertStates
        <3>4. heard'[v] = alerts'[v].status
            BY <1>2, <2>1, <2>3, <3>1 DEF KeptStatus
        <3>5. /\ alerts'[v].on = on
              /\ alerts'[v].closingSent <=> "closing" \in on /\ alerts[v].closingSent
            BY <1>2, <2>3, <3>1, <3>3 DEF KeptSent
        <3>6. "closing" \notin alerts'[v].on => ~alerts'[v].closingSent
            BY <3>5
        <3>7. "closing" \in more <=> "closing" \in on /\ "closing" \notin alerts[v].on
            BY <2>3
        <3> HIDE DEF more
        <3>8. CASE "closing" \in more
            <4>1. switched'[v]["closing"] = switched[v]["closing"] + 1
                BY <3>1, <3>8
            <4>2. inbox'[v]["closing"] < switched'[v]["closing"]
                BY <2>1, <3>1, <3>2, <4>1
            <4> QED  BY <3>1, <3>2, <3>4, <3>6, <4>1, <4>2, <2>1
        <3>9. CASE "closing" \notin more
            <4>1. switched'[v]["closing"] = switched[v]["closing"]
                BY <3>1, <3>9
            <4>2. "closing" \in alerts'[v].on /\ ~alerts'[v].closingSent =>
                      "closing" \in alerts[v].on /\ ~alerts[v].closingSent
                BY <3>5, <3>7, <3>9
            <4> QED  BY <2>1, <3>1, <3>4, <3>6, <4>1, <4>2
        <3> QED  BY <3>8, <3>9
    <2> QED  BY <2>2, <2>3
<1> QED  BY <1>8, <1>9 DEF AlertsInv

LEMMA DeleteHolds ==
    ASSUME AlertsInv, NEW u \in Subscribers, DeleteMarketAlert(u)
    PROVE  AlertsInv'
<1>0. /\ alerts \in [Subscribers -> AlertStates]
      /\ inbox \in [Subscribers -> [AlertKinds -> Nat]]
      /\ switched \in [Subscribers -> [AlertKinds -> 0 .. MaxSwitches]]
      /\ heard \in [Subscribers -> Settlements \cup {"none"}]
      /\ beyond \in [Subscribers -> BOOLEAN]
    BY DEF AlertsInv, AlertsHeld, AlertsTypeOK
<1>1. NoAlert \in AlertStates
    BY AlertNumbers DEF NoAlert, AlertStates
<1>2. AlertsHeld' /\ PricesKnown'
    BY <1>0, <1>1, UsersStep DEF DeleteMarketAlert
<1>3. AlertsRemember'
    BY <1>0 DEF DeleteMarketAlert, AlertsInv, AlertsRemember, NoAlert
<1> QED  BY <1>2, <1>3 DEF AlertsInv

\* The steps of an order, or of the market, that no alert or notice of the
\* closing and of the settlement knows of.
LEMMA RememberKept ==
    ASSUME AlertsInv, UNCHANGED <<alerts, switched, heard>>,
           \A u \in Subscribers : inbox'[u]["closing"] = inbox[u]["closing"]
    PROVE  AlertsRemember'
BY DEF AlertsInv, AlertsRemember

\* The order under way is the only one.
LEMMA OneOrder ==
    ASSUME AlertsInv, NEW o \in Orders, orders[o].pc # "idle"
    PROVE  lock = o /\ \A q \in Orders \ {o} : orders[q].pc = "idle"
BY DEF AlertsInv, AlertsHeld, AlertsTypeOK

LEMMA QuoteHolds ==
    ASSUME AlertsInv, NEW o \in Orders, NEW u \in Subscribers,
           NEW pc \in {"trade", "cashout"}, NEW side \in {"yes", "no"}, NEW new \in Prices,
           QuoteOrder(o, u, pc, side, new)
    PROVE  AlertsInv'
<1> DEFINE r == [pc |-> pc, user |-> u, new |-> new, old |-> OldYesPercent(side)]
<1>1. OldYesPercent(side) = price /\ price \in 0 .. Whole
    BY AlertNumbers DEF OldYesPercent, AlertsInv, AlertsHeld, AlertsTypeOK
<1>2. r \in OrderStates
    BY <1>1 DEF OrderStates
<1>3. /\ orders' = [orders EXCEPT ![o] = r] /\ lock' = o /\ served' = served + 1
      /\ served < MaxServed /\ lock = NoOrder
      /\ UNCHANGED <<alerts, poll, price, settlers, inbox, switched, heard, beyond>>
    BY DEF QuoteOrder
<1>4. r.pc = pc /\ r.old = price
    BY <1>1
<1> HIDE DEF r
<1>5. /\ orders' \in [Orders -> OrderStates]
      /\ \A q \in Orders : orders'[q] = IF q = o THEN r ELSE orders[q]
    BY <1>2, <1>3 DEF AlertsInv, AlertsHeld, AlertsTypeOK, OrderStates
<1>6. \A q \in Orders : orders[q].pc = "idle"
    BY <1>3, AlertsAssumption DEF AlertsInv, AlertsHeld, AlertsTypeOK
<1>7. \A q \in Orders : orders'[q].pc # "idle" <=> lock' = q
    BY <1>3, <1>4, <1>5, <1>6
<1>8. served' \in 0 .. MaxServed
    BY <1>3, AlertsAssumption DEF AlertsInv, AlertsHeld, AlertsTypeOK
<1>9. AlertsHeld'
    BY <1>3, <1>5, <1>7, <1>8 DEF AlertsInv, AlertsHeld, AlertsTypeOK, OrderStates
<1>10. PricesKnown'
    BY <1>3, <1>4, <1>5, <1>6 DEF AlertsInv, PricesKnown
<1> QED  BY <1>3, <1>9, <1>10, RememberKept DEF AlertsInv

\* The order ends, and collateralMu is free.
LEMMA OrderEnds ==
    ASSUME AlertsInv, NEW o \in Orders, orders[o].pc # "idle",
           orders' = [orders EXCEPT ![o] = IdleOrder], lock' = NoOrder
    PROVE  /\ orders' \in [Orders -> OrderStates]
           /\ \A q \in Orders : orders'[q].pc = "idle"
           /\ \A q \in Orders : orders'[q].pc # "idle" <=> lock' = q
<1>1. IdleOrder \in OrderStates /\ IdleOrder.pc = "idle"
    BY AlertNumbers DEF IdleOrder, OrderStates
<1>2. orders \in [Orders -> OrderStates]
    BY DEF AlertsInv, AlertsHeld, AlertsTypeOK, OrderStates
<1>3. \A q \in Orders : orders'[q].pc = "idle"
    BY <1>1, <1>2, OneOrder
<1> QED  BY <1>1, <1>2, <1>3, AlertsAssumption

LEMMA FillHolds ==
    ASSUME AlertsInv, NEW o \in Orders, FillOrder(o)
    PROVE  AlertsInv'
<1>0. /\ orders \in [Orders -> OrderStates] /\ orders[o] \in OrderStates
      /\ orders[o].pc \in {"trade", "cashout"} /\ lock = o
      /\ \A q \in Orders \ {o} : orders[q].pc = "idle"
      /\ orders[o].old = price
    BY OneOrder DEF FillOrder, AlertsInv, AlertsHeld, AlertsTypeOK, OrderStates, PricesKnown
<1>1. /\ price' = orders[o].new
      /\ beyond' = [u \in Subscribers |-> beyond[u] /\ Reaches(alerts[u], price')]
      /\ UNCHANGED <<alerts, poll, settlers, inbox, switched, heard, served>>
    BY DEF FillOrder
<1>2. price' \in Prices /\ beyond' \in [Subscribers -> BOOLEAN]
    BY <1>0, <1>1 DEF OrderStates, AlertsInv, AlertsHeld, AlertsTypeOK
<1>3. \A u \in Subscribers : beyond'[u] => Reaches(alerts[u], price) /\ Reaches(alerts[u], price')
    BY <1>1 DEF AlertsInv, PricesKnown
<1>4. CASE orders[o].pc = "cashout"
    <2>1. orders' = [orders EXCEPT ![o] = IdleOrder] /\ lock' = NoOrder
        BY <1>4 DEF FillOrder, LockAfterFill
    <2>2. /\ orders' \in [Orders -> OrderStates]
          /\ \A q \in Orders : orders'[q].pc = "idle"
          /\ \A q \in Orders : orders'[q].pc # "idle" <=> lock' = q
        BY <1>4, <2>1, OrderEnds
    <2>3. AlertsHeld'
        BY <1>1, <1>2, <2>1, <2>2 DEF AlertsInv, AlertsHeld, AlertsTypeOK, OrderStates
    <2>4. PricesKnown'
        BY <1>1, <1>3, <2>2 DEF PricesKnown
    <2> QED  BY <1>1, <2>3, <2>4, RememberKept DEF AlertsInv
<1>5. CASE orders[o].pc = "trade"
    <2> DEFINE r == [orders[o] EXCEPT !.pc = "notify"]
    <2>1. orders' = [orders EXCEPT ![o] = r] /\ lock' = lock
        BY <1>5 DEF FillOrder, LockAfterFill
    <2>2. /\ r \in OrderStates /\ r.pc = "notify" /\ r.old = price
          /\ r.new = orders[o].new
        BY <1>0 DEF OrderStates
    <2> HIDE DEF r
    <2>3. /\ orders' \in [Orders -> OrderStates]
          /\ \A q \in Orders : orders'[q] = IF q = o THEN r ELSE orders[q]
        BY <1>0, <2>1, <2>2
    <2>4. \A q \in Orders : orders'[q].pc # "idle" <=> lock' = q
        BY <1>0, <2>1, <2>2, <2>3
    <2>5. lock' \in Orders \cup {NoOrder}
        BY <2>1 DEF AlertsInv, AlertsHeld, AlertsTypeOK
    <2>6. AlertsHeld'
        BY <1>1, <1>2, <2>3, <2>4, <2>5 DEF AlertsInv, AlertsHeld, AlertsTypeOK, OrderStates
    <2>7. PricesKnown'
        BY <1>0, <1>1, <1>3, <2>2, <2>3 DEF PricesKnown
    <2> QED  BY <1>1, <2>6, <2>7, RememberKept DEF AlertsInv
<1> QED  BY <1>0, <1>4, <1>5

\* Notices of one kind are added to the inboxes of some users.
LEMMA NotifiedTyped ==
    ASSUME AlertsInv, NEW us, NEW kind \in AlertKinds, Notified(us, kind)
    PROVE  /\ inbox' \in [Subscribers -> [AlertKinds -> Nat]]
           /\ \A u \in Subscribers : \A k \in AlertKinds :
                 inbox'[u][k] = IF u \in us /\ k = kind THEN inbox[u][k] + 1 ELSE inbox[u][k]
<1>1. inbox \in [Subscribers -> [AlertKinds -> Nat]]
    BY DEF AlertsInv, AlertsHeld, AlertsTypeOK
<1>2. ASSUME NEW u \in Subscribers
      PROVE  [inbox[u] EXCEPT ![kind] = @ + 1] \in [AlertKinds -> Nat]
    BY <1>1
<1> QED  BY <1>1, <1>2 DEF Notified

LEMMA PriceNoticeHolds ==
    ASSUME AlertsInv, NEW o \in Orders, NotifyMarketPriceAlerts(o)
    PROVE  /\ AlertsInv'
           /\ \A u \in Subscribers : inbox'[u]["price"] # inbox[u]["price"] => ~beyond[u]
<1>1. PICK us : /\ us = Crossed(orders[o].user, orders[o].old, orders[o].new)
                /\ Notified(us, "price")
                /\ beyond' = [u \in Subscribers |-> beyond[u] \/ u \in us]
    BY DEF NotifyMarketPriceAlerts
<1>2. /\ orders[o].pc = "notify" /\ orders[o].new = price
      /\ orders' = [orders EXCEPT ![o] = IdleOrder] /\ lock' = NoOrder
      /\ UNCHANGED <<alerts, poll, price, settlers, switched, heard, served>>
    BY DEF NotifyMarketPriceAlerts, AlertsInv, PricesKnown
<1>3. \A u \in us : ~Reaches(alerts[u], orders[o].old) /\ Reaches(alerts[u], price)
    BY <1>1, <1>2 DEF Crossed
<1>4. /\ orders' \in [Orders -> OrderStates]
      /\ \A q \in Orders : orders'[q].pc = "idle"
      /\ \A q \in Orders : orders'[q].pc # "idle" <=> lock' = q
    BY <1>2, OrderEnds
<1>5. /\ inbox' \in [Subscribers -> [AlertKinds -> Nat]]
      /\ \A u \in Subscribers : \A k \in AlertKinds :
            inbox'[u][k] = IF u \in us /\ k = "price" THEN inbox[u][k] + 1 ELSE inbox[u][k]
    BY <1>1, NotifiedTyped DEF AlertKinds
<1>6. beyond' \in [Subscribers -> BOOLEAN]
    BY <1>1 DEF AlertsInv, AlertsHeld, AlertsTypeOK
<1>7. AlertsHeld'
    BY <1>2, <1>4, <1>5, <1>6 DEF AlertsInv, AlertsHeld, AlertsTypeOK, OrderStates
<1>8. PricesKnown'
    BY <1>1, <1>2, <1>3, <1>4 DEF AlertsInv, PricesKnown
<1>9. AlertsRemember'
    BY <1>2, <1>5, RememberKept DEF AlertKinds
<1>10. \A u \in us : ~beyond[u]
    <2> SUFFICES ASSUME NEW u \in us, beyond[u]
                 PROVE  FALSE
        OBVIOUS
    <2>1. u \in Subscribers
        BY <1>1 DEF Crossed
    <2> QED  BY <1>2, <1>3, <2>1 DEF AlertsInv, PricesKnown
<1>11. \A u \in Subscribers : inbox'[u]["price"] # inbox[u]["price"] => ~beyond[u]
    BY <1>5, <1>10 DEF AlertKinds
<1> QED  BY <1>7, <1>8, <1>9, <1>11 DEF AlertsInv

LEMMA OrderFailsHolds ==
    ASSUME AlertsInv, NEW o \in Orders, OrderFails(o)
    PROVE  AlertsInv'
<1>1. /\ orders[o].pc # "idle" /\ orders' = [orders EXCEPT ![o] = IdleOrder]
      /\ lock' = NoOrder
      /\ UNCHANGED <<alerts, poll, price, settlers, inbox, switched, heard, beyond, served>>
    BY DEF OrderFails
<1>2. /\ orders' \in [Orders -> OrderStates]
      /\ \A q \in Orders : orders'[q].pc = "idle"
      /\ \A q \in Orders : orders'[q].pc # "idle" <=> lock' = q
    BY <1>1, OrderEnds
<1>3. AlertsHeld'
    BY <1>1, <1>2 DEF AlertsInv, AlertsHeld, AlertsTypeOK, OrderStates
<1>4. PricesKnown'
    BY <1>1, <1>2 DEF AlertsInv, PricesKnown
<1> QED  BY <1>1, <1>3, <1>4, RememberKept DEF AlertsInv

LEMMA SettlerIdleTyped ==
    ASSUME AlertsInv, NEW a \in Settlers, settlers' = [settlers EXCEPT ![a] = IdleSettler]
    PROVE  /\ settlers' \in [Settlers -> SettlerStates]
           /\ \A b \in Settlers : settlers'[b].pc = "notify" =>
                 settlers'[b].status \in Settlements
<1>1. IdleSettler \in SettlerStates /\ IdleSettler.pc = "idle"
    BY DEF IdleSettler, SettlerStates, PollStatuses
<1> QED  BY <1>1 DEF AlertsInv, AlertsHeld, AlertsTypeOK, SettlerStates

\* The steps that change only the market's status, its end, or a settler.
LEMMA SettlerStep ==
    ASSUME AlertsInv,
           UNCHANGED <<alerts, price, lock, orders, inbox, switched, heard, beyond>>,
           poll' \in [status : PollStatuses, ends : {"later", "soon", "past"}],
           settlers' \in [Settlers -> SettlerStates],
           \A b \in Settlers : settlers'[b].pc = "notify" => settlers'[b].status \in Settlements,
           served' \in 0 .. MaxServed
    PROVE  AlertsInv'
<1>1. AlertsHeld'
    BY DEF AlertsInv, AlertsHeld, AlertsTypeOK, SettlerStates
<1>2. PricesKnown'
    BY DEF AlertsInv, PricesKnown
<1> QED  BY <1>1, <1>2, RememberKept DEF AlertsInv

LEMMA ChangeHolds ==
    ASSUME AlertsInv, NEW a \in Settlers,
           \/ \E status \in PollStatuses : ChangeStatus(a, status)
           \/ UpdateStatus(a)
           \/ SettlerFails(a)
           \/ EndComes
    PROVE  AlertsInv'
<1>0. /\ poll \in [status : PollStatuses, ends : {"later", "soon", "past"}]
      /\ settlers \in [Settlers -> SettlerStates] /\ served \in 0 .. MaxServed
      /\ \A b \in Settlers : settlers[b].pc = "notify" => settlers[b].status \in Settlements
    BY DEF AlertsInv, AlertsHeld, AlertsTypeOK, SettlerStates
<1>1. ASSUME NEW status \in PollStatuses, ChangeStatus(a, status)
      PROVE  AlertsInv'
    <2> DEFINE r == [pc |-> "update", status |-> status]
    <2>1. r \in SettlerStates /\ r.pc = "update"
        BY DEF SettlerStates
    <2>2. settlers' = [settlers EXCEPT ![a] = r]
        BY <1>1 DEF ChangeStatus
    <2> HIDE DEF r
    <2>3. /\ settlers' \in [Settlers -> SettlerStates]
          /\ \A b \in Settlers : settlers'[b].pc = "notify" => settlers'[b].status \in Settlements
        BY <1>0, <2>1, <2>2
    <2>4. served' \in 0 .. MaxServed
        BY <1>0, <1>1, AlertsAssumption DEF ChangeStatus
    <2> QED  BY <1>0, <1>1, <2>3, <2>4, SettlerStep DEF ChangeStatus
<1>2. CASE UpdateStatus(a)
    <2>1. settlers[a] \in SettlerStates
        BY <1>0
    <2>2. poll' \in [status : PollStatuses, ends : {"later", "soon", "past"}]
        BY <1>0, <1>2, <2>1 DEF UpdateStatus, SettlerStates
    <2>3. /\ settlers' \in [Settlers -> SettlerStates]
          /\ \A b \in Settlers : settlers'[b].pc = "notify" => settlers'[b].status \in Settlements
        <3>1. CASE settlers' = [settlers EXCEPT ![a] = IdleSettler]
            BY <3>1, SettlerIdleTyped
        <3>2. CASE settlers[a].status \in Settlements
                   /\ settlers' = [settlers EXCEPT ![a].pc = "notify"]
            <4> DEFINE r == [settlers[a] EXCEPT !.pc = "notify"]
            <4>1. r \in SettlerStates /\ r.status \in Settlements
                BY <2>1, <3>2 DEF SettlerStates
            <4>2. settlers' = [settlers EXCEPT ![a] = r]
                BY <3>2
            <4> HIDE DEF r
            <4> QED  BY <1>0, <4>1, <4>2
        <3> QED  BY <1>2, <3>1, <3>2 DEF UpdateStatus
    <2> QED  BY <1>0, <1>2, <2>2, <2>3, SettlerStep DEF UpdateStatus
<1>3. CASE SettlerFails(a)
    BY <1>0, <1>3, SettlerIdleTyped, SettlerStep DEF SettlerFails
<1>4. CASE EndComes
    BY <1>0, <1>4, SettlerStep DEF EndComes
<1> QED  BY <1>1, <1>2, <1>3, <1>4

\* Notices of the closing and of the settlement write what they told of into the
\* alerts.
LEMMA NoticeStep ==
    ASSUME AlertsInv,
           UNCHANGED <<poll, price, lock, orders, switched, beyond, served>>,
           NEW us, NEW kind \in {"closing", "resolution"}, Notified(us, kind),
           alerts' \in [Subscribers -> AlertStates],
           \A u \in Subscribers : /\ alerts'[u].direction = alerts[u].direction
                                  /\ alerts'[u].threshold = alerts[u].threshold,
           settlers' \in [Settlers -> SettlerStates],
           \A b \in Settlers : settlers'[b].pc = "notify" => settlers'[b].status \in Settlements,
           heard' \in [Subscribers -> Settlements \cup {"none"}]
    PROVE  AlertsHeld' /\ PricesKnown'
<1>1. inbox' \in [Subscribers -> [AlertKinds -> Nat]]
    BY NotifiedTyped DEF AlertKinds
<1>2. AlertsHeld'
    BY <1>1 DEF AlertsInv, AlertsHeld, AlertsTypeOK, SettlerStates
<1>3. \A u \in Subscribers : \A p : Reaches(alerts[u], p) => Reaches(alerts'[u], p)
    BY DEF Reaches
<1>4. PricesKnown'
    BY <1>3 DEF AlertsInv, PricesKnown
<1> QED  BY <1>2, <1>4

LEMMA SettlementNoticeHolds ==
    ASSUME AlertsInv, NEW a \in Settlers, NotifyMarketResolutionAlerts(a)
    PROVE  /\ AlertsInv'
           /\ \A u \in Subscribers :
                 /\ inbox'[u]["resolution"] # inbox[u]["resolution"] => heard'[u] # heard[u]
                 /\ inbox'[u]["price"] = inbox[u]["price"]
<1>1. PICK us, status : us = NotTold(status) /\ status = settlers[a].status
    OBVIOUS
<1>2. /\ Notified(us, "resolution")
      /\ alerts' = [u \in Subscribers |-> IF u \in us
                       THEN [alerts[u] EXCEPT !.status = status] ELSE alerts[u]]
      /\ heard' = [u \in Subscribers |-> IF u \in us THEN status ELSE heard[u]]
      /\ settlers' = [settlers EXCEPT ![a] = IdleSettler]
      /\ UNCHANGED <<poll, price, lock, orders, switched, beyond, served>>
      /\ status \in Settlements
    BY <1>1 DEF NotifyMarketResolutionAlerts, AlertsInv, AlertsHeld
<1>3. \A u \in Subscribers : alerts[u] \in AlertStates /\ heard[u] = alerts[u].status
    BY DEF AlertsInv, AlertsHeld, AlertsTypeOK, AlertsRemember
<1>4. \A u \in Subscribers :
          /\ alerts'[u] \in AlertStates
          /\ alerts'[u].on = alerts[u].on /\ alerts'[u].closingSent = alerts[u].closingSent
          /\ alerts'[u].direction = alerts[u].direction
          /\ alerts'[u].threshold = alerts[u].threshold
          /\ alerts'[u].status = IF u \in us THEN status ELSE alerts[u].status
    BY <1>2, <1>3 DEF AlertStates
<1>5. alerts' \in [Subscribers -> AlertStates]
    BY <1>2, <1>4
<1>6. heard' \in [Subscribers -> Settlements \cup {"none"}]
    BY <1>2 DEF AlertsInv, AlertsHeld, AlertsTypeOK
<1>7. AlertsHeld' /\ PricesKnown'
    BY <1>2, <1>4, <1>5, <1>6, SettlerIdleTyped, NoticeStep
<1>8. \A u \in Subscribers : \A k \in AlertKinds :
          inbox'[u][k] = IF u \in us /\ k = "resolution" THEN inbox[u][k] + 1 ELSE inbox[u][k]
    BY <1>2, NotifiedTyped DEF AlertKinds
<1>9. \A u \in Subscribers : inbox'[u]["closing"] = inbox[u]["closing"]
                             /\ inbox'[u]["price"] = inbox[u]["price"]
    BY <1>8 DEF AlertKinds
<1>10. \A u \in Subscribers : heard'[u] = alerts'[u].status
    BY <1>2, <1>3, <1>4
<1>11. AlertsRemember'
    BY <1>2, <1>4, <1>9, <1>10 DEF AlertsInv, AlertsRemember
<1>12. \A u \in Subscribers : u \in us => alerts[u].status # status
    BY <1>1 DEF NotTold
<1>13. \A u \in Subscribers :
           inbox'[u]["resolution"] # inbox[u]["resolution"] => heard'[u] # heard[u]
    BY <1>2, <1>3, <1>8, <1>12 DEF AlertKinds
<1> QED  BY <1>7, <1>9, <1>11, <1>13 DEF AlertsInv

LEMMA ClosingNoticeHolds ==
    ASSUME AlertsInv, ProcessDueMarketClosingAlerts
    PROVE  /\ AlertsInv'
           /\ \A u \in Subscribers :
                 /\ inbox'[u]["resolution"] = inbox[u]["resolution"]
                 /\ inbox'[u]["price"] = inbox[u]["price"]
<1>1. PICK us : us = DueClosing
    OBVIOUS
<1>2. /\ Notified(us, "closing")
      /\ alerts' = [u \in Subscribers |-> IF u \in us
                       THEN [alerts[u] EXCEPT !.closingSent = TRUE] ELSE alerts[u]]
      /\ UNCHANGED <<poll, price, lock, orders, settlers, switched, heard, beyond, served>>
    BY <1>1 DEF ProcessDueMarketClosingAlerts
<1>3. \A u \in Subscribers : alerts[u] \in AlertStates
    BY DEF AlertsInv, AlertsHeld, AlertsTypeOK
<1>4. \A u \in Subscribers :
          /\ alerts'[u] \in AlertStates
          /\ alerts'[u].on = alerts[u].on /\ alerts'[u].status = alerts[u].status
          /\ alerts'[u].direction = alerts[u].direction
          /\ alerts'[u].threshold = alerts[u].threshold
          /\ u \in us => alerts'[u].closingSent
          /\ u \notin us => alerts'[u] = alerts[u]
    BY <1>2, <1>3 DEF AlertStates
<1>5. alerts' \in [Subscribers -> AlertStates]
    BY <1>2, <1>4
<1>6. AlertsHeld' /\ PricesKnown'
    <2>1. /\ settlers' \in [Settlers -> SettlerStates]
          /\ \A b \in Settlers : settlers'[b].pc = "notify" => settlers'[b].status \in Settlements
          /\ heard' \in [Subscribers -> Settlements \cup {"none"}]
        BY <1>2 DEF AlertsInv, AlertsHeld, AlertsTypeOK, SettlerStates
    <2> QED  BY <1>2, <1>4, <1>5, <2>1, NoticeStep
<1>7. \A u \in Subscribers : \A k \in AlertKinds :
          /\ inbox[u][k] \in Nat
          /\ inbox'[u][k] = IF u \in us /\ k = "closing" THEN inbox[u][k] + 1 ELSE inbox[u][k]
    BY <1>2, NotifiedTyped DEF AlertKinds, AlertsInv, AlertsHeld, AlertsTypeOK
<1>8. \A u \in Subscribers : u \in us => "closing" \in alerts[u].on /\ ~alerts[u].closingSent
    BY <1>1 DEF DueClosing
<1>9. \A u \in Subscribers : switched[u]["closing"] \in Nat /\ switched'[u] = switched[u]
    BY <1>2, AlertsAssumption DEF AlertKinds, AlertsInv, AlertsHeld, AlertsTypeOK
<1>10. AlertsRemember'
    <2> SUFFICES ASSUME NEW u \in Subscribers
                 PROVE  /\ "closing" \notin alerts'[u].on => ~alerts'[u].closingSent
                        /\ inbox'[u]["closing"] <= switched'[u]["closing"]
                        /\ "closing" \in alerts'[u].on /\ ~alerts'[u].closingSent =>
                              inbox'[u]["closing"] < switched'[u]["closing"]
                        /\ heard'[u] = alerts'[u].status
        BY DEF AlertsRemember
    <2>1. /\ "closing" \notin alerts[u].on => ~alerts[u].closingSent
          /\ inbox[u]["closing"] <= switched[u]["closing"]
          /\ "closing" \in alerts[u].on /\ ~alerts[u].closingSent =>
                inbox[u]["closing"] < switched[u]["closing"]
          /\ heard[u] = alerts[u].status
        BY DEF AlertsInv, AlertsRemember
    <2>2. CASE u \in us
        <3>1. inbox'[u]["closing"] = inbox[u]["closing"] + 1 /\ inbox[u]["closing"] \in Nat
            BY <1>7, <2>2 DEF AlertKinds
        <3>2. inbox'[u]["closing"] <= switched'[u]["closing"]
            BY <1>8, <1>9, <2>1, <2>2, <3>1
        <3> QED  BY <1>2, <1>4, <1>8, <2>1, <2>2, <3>2
    <2>3. CASE u \notin us
        <3>1. inbox'[u]["closing"] = inbox[u]["closing"]
            BY <1>7, <2>3 DEF AlertKinds
        <3> QED  BY <1>2, <1>4, <1>9, <2>1, <2>3, <3>1
    <2> QED  BY <2>2, <2>3
<1> QED  BY <1>6, <1>7, <1>10 DEF AlertsInv, AlertKinds

----------------------------------------------------------------------------
(* Alerts: every step, and the theorems *)

\* What SettlementToldOnce and PriceAlertsAlternate ask of a step.
ToldOnce ==
    /\ \A u \in Subscribers :
          inbox'[u]["resolution"] # inbox[u]["resolution"] => heard'[u] # heard[u]
    /\ \A u \in Subscribers : inbox'[u]["price"] # inbox[u]["price"] => ~beyond[u]

LEMMA AlertsStep ==
    ASSUME AlertsInv, [AlertsNext]_alertsVars
    PROVE  AlertsInv' /\ [ToldOnce]_alertsVars
<1>1. CASE UNCHANGED alertsVars
    BY <1>1 DEF alertsVars, AlertsInv, AlertsHeld, AlertsTypeOK, AlertsRemember, PricesKnown
<1>2. ASSUME UNCHANGED inbox
      PROVE  ToldOnce
    BY <1>2 DEF ToldOnce
<1>3. ASSUME NEW u \in Subscribers, NEW on \in SUBSET AlertKinds,
             NEW direction \in {"above", "below"}, NEW threshold \in Prices,
             UpsertMarketAlert(u, on, direction, threshold)
      PROVE  AlertsInv' /\ ToldOnce
    BY <1>2, <1>3, UpsertHolds DEF UpsertMarketAlert
<1>4. ASSUME NEW u \in Subscribers, DeleteMarketAlert(u)
      PROVE  AlertsInv' /\ ToldOnce
    BY <1>2, <1>4, DeleteHolds DEF DeleteMarketAlert
<1>5. ASSUME NEW u \in Subscribers, NEW o \in Orders, NEW pc \in {"trade", "cashout"},
             NEW side \in {"yes", "no"}, NEW new \in Prices, QuoteOrder(o, u, pc, side, new)
      PROVE  AlertsInv' /\ ToldOnce
    BY <1>2, <1>5, QuoteHolds DEF QuoteOrder
<1>6. ASSUME NEW o \in Orders, FillOrder(o) \/ OrderFails(o)
      PROVE  AlertsInv' /\ ToldOnce
    BY <1>2, <1>6, FillHolds, OrderFailsHolds DEF FillOrder, OrderFails
<1>7. ASSUME NEW o \in Orders, NotifyMarketPriceAlerts(o)
      PROVE  AlertsInv' /\ ToldOnce
    <2>1. PICK us : Notified(us, "price")
        BY <1>7 DEF NotifyMarketPriceAlerts
    <2>2. \A u \in Subscribers : inbox'[u]["resolution"] = inbox[u]["resolution"]
        BY <2>1, NotifiedTyped DEF AlertKinds
    <2> QED  BY <1>7, <2>2, PriceNoticeHolds DEF ToldOnce
<1>8. ASSUME NEW a \in Settlers,
             (\E status \in PollStatuses : ChangeStatus(a, status))
                \/ UpdateStatus(a) \/ SettlerFails(a)
      PROVE  AlertsInv' /\ ToldOnce
    BY <1>2, <1>8, ChangeHolds DEF ChangeStatus, UpdateStatus, SettlerFails
<1>9. ASSUME NEW a \in Settlers, NotifyMarketResolutionAlerts(a)
      PROVE  AlertsInv' /\ ToldOnce
    BY <1>9, SettlementNoticeHolds DEF ToldOnce
<1>10. CASE ProcessDueMarketClosingAlerts
    BY <1>10, ClosingNoticeHolds DEF ToldOnce
<1>11. CASE EndComes
    <2>1. poll' \in [status : PollStatuses, ends : {"later", "soon", "past"}]
        BY <1>11 DEF EndComes, AlertsInv, AlertsHeld, AlertsTypeOK
    <2>2. /\ settlers' \in [Settlers -> SettlerStates]
          /\ \A b \in Settlers : settlers'[b].pc = "notify" => settlers'[b].status \in Settlements
          /\ served' \in 0 .. MaxServed
        BY <1>11 DEF EndComes, AlertsInv, AlertsHeld, AlertsTypeOK, SettlerStates
    <2>3. AlertsInv'
        BY <1>11, <2>1, <2>2, SettlerStep DEF EndComes
    <2> QED  BY <1>2, <1>11, <2>3 DEF EndComes
<1> QED  BY <1>1, <1>3, <1>4, <1>5, <1>6, <1>7, <1>8, <1>9, <1>10, <1>11 DEF AlertsNext

\* Alerts, orders and settlements have their types, and collateralMu is held by
\* the one order under way, in every reachable state.
THEOREM AlertsTyped == AlertsSpec => []AlertsTypeOK
<1>1. AlertsInv => AlertsTypeOK
    BY DEF AlertsInv, AlertsHeld
<1> QED  BY <1>1, AlertsInitHolds, AlertsStep, PTL DEF AlertsSpec

\* However often a user saves her alert and whichever workers look, she gets one
\* notice of the closing for every time she switches it on.
THEOREM ClosingOnce == AlertsSpec => []ClosingToldOnce
<1>1. AlertsInv => ClosingToldOnce
    BY DEF AlertsInv, AlertsRemember, ClosingToldOnce
<1> QED  BY <1>1, AlertsInitHolds, AlertsStep, PTL DEF AlertsSpec

\* A user is told of a settlement only if it is not the one she was told of last,
\* whichever administrators settle the market at once.
THEOREM SettlementOnce == AlertsSpec => SettlementToldOnce
<1>1. ToldOnce => \A u \in Subscribers :
          inbox'[u]["resolution"] # inbox[u]["resolution"] => heard'[u] # heard[u]
    BY DEF ToldOnce
<1> QED  BY <1>1, AlertsInitHolds, AlertsStep, PTL DEF AlertsSpec, SettlementToldOnce

\* Between two price alerts on one threshold the price has been on its other side,
\* whatever users, trades and cashouts do at the same time.
THEOREM PriceAlternates == AlertsSpec => PriceAlertsAlternate
<1>1. ToldOnce => \A u \in Subscribers : inbox'[u]["price"] # inbox[u]["price"] => ~beyond[u]
    BY DEF ToldOnce
<1> QED  BY <1>1, AlertsInitHolds, AlertsStep, PTL DEF AlertsSpec, PriceAlertsAlternate

----------------------------------------------------------------------------
(* Helpers *)

\* A set that an element joins or leaves.
LEMMA CountMoves ==
    ASSUME NEW A, IsFiniteSet(A), NEW B, NEW r, B \ {r} = A \ {r}
    PROVE  /\ IsFiniteSet(B) /\ Cardinality(A) \in Nat /\ Cardinality(B) \in Nat
           /\ (r \in A <=> r \in B) => Cardinality(B) = Cardinality(A)
           /\ r \in A /\ r \notin B => Cardinality(B) = Cardinality(A) - 1
           /\ r \notin A /\ r \in B => Cardinality(B) = Cardinality(A) + 1
<1>1. CASE r \in A <=> r \in B
    <2>1. A = B
        BY <1>1
    <2> QED  BY <1>1, <2>1, FS_CardinalityType
<1>2. CASE r \in A /\ r \notin B
    <2>1. B = A \ {r}
        BY <1>2
    <2> QED  BY <1>2, <2>1, FS_CardinalityType, FS_RemoveElement
<1>3. CASE r \notin A /\ r \in B
    <2>1. B = A \cup {r}
        BY <1>3
    <2> QED  BY <1>3, <2>1, FS_CardinalityType, FS_AddElement
<1> QED  BY <1>1, <1>2, <1>3

LEMMA OfAllTotal == \A count : OfAll(count) = Total(count, Wallets)
BY DEF OfAll, Total

----------------------------------------------------------------------------
(* The inductive invariant of SponsorPolicy *)

\* The requests of these wallets that are at one of these places.
Has(req, W, places) == req.pc \in places /\ req.wallet \in W
Among(reqs, W, places) == {r \in Sponsored : Has(reqs[r], W, places)}

\* Requests go by limits that are at most the loosest of the day, and hold a
\* wallet.
LimitsKnown ==
    \A r \in Sponsored :
       /\ sponsoring[r].policy.wallet <= loosest.wallet
       /\ sponsoring[r].policy.global <= loosest.global
       /\ sponsoring[r].pc # "idle" => sponsoring[r].wallet \in Wallets

\* What is sent has a node, has lost it, or waits for it.
Accounted(W) ==
    Total(sent, W) <= Total(escrows, W) + Total(unrecorded, W)
                          + Cardinality(Among(sponsoring, W, {"record"}))

\* What is sent, and what those past their check may send.
Bounded(W, past, cap) ==
    Total(sent, W) + Cardinality(Among(sponsoring, W, past))
        <= (cap + (Cardinality(Sponsored) - 1)) + Total(unrecorded, W)

PastWallet == {"global", "allowed"}
PastGlobal == {"allowed"}

\* One of the two limits: what a check of these wallets' escrows lets through.
Counts(W, past, cap) == Accounted(W) /\ Bounded(W, past, cap)

SponsorInv ==
    /\ SponsorTypeOK
    /\ LimitsKnown
    /\ \A u \in Wallets : Counts({u}, PastWallet, loosest.wallet)
    /\ Counts(Wallets, PastGlobal, loosest.global)

----------------------------------------------------------------------------
(* Types *)

LEMMA LoosestIn ==
    ASSUME NEW P, IsFiniteSet(P), P # {}, P \subseteq Limits
    PROVE  /\ Loosest(P) \in Limits
           /\ \A p \in P : p.wallet <= Loosest(P).wallet /\ p.global <= Loosest(P).global
<1> DEFINE ws == {p.wallet : p \in P}
           gs == {p.global : p \in P}
<1>1. IsFiniteSet(ws) /\ ws # {} /\ ws \subseteq Nat \ {0}
    <2> DEFINE g == [p \in P |-> p.wallet]
    <2>1. g \in Surjection(P, ws)
        BY DEF Surjection
    <2> HIDE DEF g
    <2>2. IsFiniteSet(ws)
        BY <2>1, FS_Surjection
    <2> QED  BY <2>2 DEF Limits
<1>2. IsFiniteSet(gs) /\ gs # {} /\ gs \subseteq Nat \ {0}
    <2> DEFINE g == [p \in P |-> p.global]
    <2>1. g \in Surjection(P, gs)
        BY DEF Surjection
    <2> HIDE DEF g
    <2>2. IsFiniteSet(gs)
        BY <2>1, FS_Surjection
    <2> QED  BY <2>2 DEF Limits
<1>3. /\ Max(ws) \in ws /\ \A n \in ws : n <= Max(ws)
      /\ Max(gs) \in gs /\ \A n \in gs : n <= Max(gs)
    <2>1. ws \subseteq Int /\ gs \subseteq Int
        BY <1>1, <1>2
    <2> HIDE DEF ws, gs
    <2> QED  BY <1>1, <1>2, <2>1, GreatestIn
<1>4. Loosest(P) = [wallet |-> Max(ws), global |-> Max(gs)]
    BY DEF Loosest
<1>5. \A p \in P : p.wallet <= Max(ws) /\ p.global <= Max(gs)
    BY <1>3
<1> HIDE DEF ws, gs
<1>6. Max(ws) \in Nat \ {0} /\ Max(gs) \in Nat \ {0}
    BY <1>1, <1>2, <1>3
<1> QED  BY <1>4, <1>5, <1>6 DEF Limits

LEMMA LoosestOfTwo ==
    ASSUME NEW a \in Limits, NEW b \in Limits
    PROVE  LET both == Loosest({a, b}) IN
           /\ both \in Limits
           /\ a.wallet <= both.wallet /\ b.wallet <= both.wallet
           /\ a.global <= both.global /\ b.global <= both.global
<1>1. IsFiniteSet({a} \cup {b})
    BY FS_Singleton, FS_Union
<1>2. {a} \cup {b} = {a, b}
    OBVIOUS
<1>3. IsFiniteSet({a, b})
    BY <1>1, <1>2
<1> QED  BY <1>3, LoosestIn

LEMMA LoosestOfAll ==
    ASSUME NEW pol \in Limits, NEW f \in [Sponsored -> Limits]
    PROVE  LET all == Loosest({pol} \cup {f[r] : r \in Sponsored}) IN
           /\ all \in Limits
           /\ pol.wallet <= all.wallet /\ pol.global <= all.global
           /\ \A r \in Sponsored : f[r].wallet <= all.wallet /\ f[r].global <= all.global
<1> DEFINE I == {f[r] : r \in Sponsored}
           P == {pol} \cup I
<1>1. P \subseteq Limits /\ P # {} /\ pol \in P /\ \A r \in Sponsored : f[r] \in P
    OBVIOUS
<1>2. f \in Surjection(Sponsored, I)
    BY DEF Surjection
<1>3. IsFiniteSet(I)
    BY <1>2, SponsorAssumption, FS_Surjection
<1>4. P = I \cup {pol}
    OBVIOUS
<1>5. IsFiniteSet(P)
    <2> HIDE DEF P, I
    <2> QED  BY <1>3, <1>4, FS_AddElement
<1>6. /\ Loosest(P) \in Limits
      /\ \A p \in P : p.wallet <= Loosest(P).wallet /\ p.global <= Loosest(P).global
    <2> HIDE DEF P
    <2> QED  BY <1>1, <1>5, LoosestIn
<1> QED  BY <1>1, <1>6

Requests == [pc : {"idle", "wallet", "global", "allowed", "record"},
             wallet : Wallets \cup {NoWallet}, policy : Limits]

LEMMA GoesTyped ==
    ASSUME sponsoring \in [Sponsored -> Requests], NEW r \in Sponsored,
           NEW pc \in {"idle", "wallet", "global", "allowed", "record"}, Goes(r, pc)
    PROVE  /\ sponsoring' \in [Sponsored -> Requests]
           /\ \A q \in Sponsored : q # r => sponsoring'[q] = sponsoring[q]
           /\ sponsoring'[r].pc = pc /\ sponsoring'[r].wallet = sponsoring[r].wallet
           /\ sponsoring'[r].policy = sponsoring[r].policy
<1>1. sponsoring' = [sponsoring EXCEPT ![r] = [@ EXCEPT !.pc = pc]]
    BY DEF Goes
<1>2. sponsoring[r] \in Requests
    OBVIOUS
<1>3. [sponsoring[r] EXCEPT !.pc = pc] \in Requests
    BY <1>2 DEF Requests
<1>4. sponsoring'[r] = [sponsoring[r] EXCEPT !.pc = pc]
    BY <1>1
<1> QED  BY <1>1, <1>2, <1>3, <1>4 DEF Requests

LEMMA EndsTyped ==
    ASSUME sponsoring \in [Sponsored -> Requests], NEW r \in Sponsored, Ends(r)
    PROVE  /\ sponsoring' \in [Sponsored -> Requests]
           /\ \A q \in Sponsored : q # r => sponsoring'[q] = sponsoring[q]
           /\ sponsoring'[r] = NotSponsoring
BY DEF Ends, Requests, NotSponsoring, Limits

LEMMA LosesTyped ==
    ASSUME unrecorded \in [Wallets -> 0 .. MaxUnrecorded], NEW u \in Wallets, Loses(u)
    PROVE  unrecorded' \in [Wallets -> 0 .. MaxUnrecorded]
BY SponsorAssumption DEF Loses

LEMMA ReadTyped ==
    ASSUME SponsorTypeOK, NEW r \in Sponsored, NEW u \in Wallets, ReadSponsorPolicy(r, u)
    PROVE  /\ sponsoring' \in [Sponsored -> Requests]
           /\ \A q \in Sponsored : q # r => sponsoring'[q] = sponsoring[q]
           /\ sponsoring'[r].pc = "wallet" /\ sponsoring'[r].wallet = u
           /\ sponsoring'[r].policy.wallet <= loosest'.wallet
           /\ sponsoring'[r].policy.global <= loosest'.global
           /\ loosest' \in Limits
           /\ loosest.wallet <= loosest'.wallet /\ loosest.global <= loosest'.global
<1>0. PICK read \in {policy, DefaultPolicy} :
          /\ sponsoring' = [sponsoring EXCEPT ![r] =
                [pc |-> "wallet", wallet |-> u, policy |-> read]]
          /\ loosest' = Loosest({loosest, read})
    BY DEF ReadSponsorPolicy
<1>1. read \in Limits /\ loosest \in Limits
    BY SponsorAssumption DEF SponsorTypeOK, Limits
<1>2. [pc |-> "wallet", wallet |-> u, policy |-> read] \in Requests
    BY <1>1 DEF Requests
<1>3. sponsoring' = [sponsoring EXCEPT ![r] =
          [pc |-> "wallet", wallet |-> u, policy |-> read]]
    BY <1>0
<1>4. sponsoring \in [Sponsored -> Requests]
    BY DEF SponsorTypeOK, Requests
<1>5. loosest' = Loosest({loosest, read})
    BY <1>0
<1>6. /\ loosest' \in Limits
      /\ loosest.wallet <= loosest'.wallet /\ read.wallet <= loosest'.wallet
      /\ loosest.global <= loosest'.global /\ read.global <= loosest'.global
    BY <1>1, <1>5, LoosestOfTwo
<1> QED  BY <1>2, <1>3, <1>4, <1>6

LEMMA DayTyped ==
    ASSUME SponsorTypeOK, DayPasses
    PROVE  /\ loosest' \in Limits
           /\ policy.wallet <= loosest'.wallet /\ policy.global <= loosest'.global
           /\ \A r \in Sponsored : /\ sponsoring[r].policy.wallet <= loosest'.wallet
                                   /\ sponsoring[r].policy.global <= loosest'.global
<1> DEFINE f == [r \in Sponsored |-> sponsoring[r].policy]
<1>1. policy \in Limits /\ f \in [Sponsored -> Limits]
    BY SponsorAssumption DEF SponsorTypeOK, Limits
<1>2. {sponsoring[r].policy : r \in Sponsored} = {f[r] : r \in Sponsored}
    OBVIOUS
<1>3. loosest' = Loosest({policy} \cup {f[r] : r \in Sponsored})
    BY <1>2 DEF DayPasses
<1>4. \A r \in Sponsored : f[r] = sponsoring[r].policy
    OBVIOUS
<1> HIDE DEF f
<1> QED  BY <1>1, <1>3, <1>4, LoosestOfAll

LEMMA SponsorTypeStep ==
    ASSUME SponsorTypeOK, LimitsKnown, [SponsorNext]_sponsorVars
    PROVE  SponsorTypeOK' /\ LimitsKnown'
<1> USE DEF LimitsKnown
<1>0. sponsoring \in [Sponsored -> Requests] /\ loosest \in Limits
    BY DEF SponsorTypeOK, Requests
<1>t. SponsorTypeOK <=>
         /\ policy \in Policies /\ escrows \in [Wallets -> Nat]
         /\ sponsoring \in [Sponsored -> Requests] /\ sent \in [Wallets -> Nat]
         /\ unrecorded \in [Wallets -> 0 .. MaxUnrecorded] /\ loosest \in Limits
    BY DEF SponsorTypeOK, Requests
<1>p. SponsorTypeOK' <=>
         /\ policy' \in Policies /\ escrows' \in [Wallets -> Nat]
         /\ sponsoring' \in [Sponsored -> Requests] /\ sent' \in [Wallets -> Nat]
         /\ unrecorded' \in [Wallets -> 0 .. MaxUnrecorded] /\ loosest' \in Limits
    BY DEF SponsorTypeOK, Requests
<1>i. /\ NotSponsoring.pc = "idle" /\ NotSponsoring.policy.wallet <= loosest.wallet
      /\ NotSponsoring.policy.global <= loosest.global
    BY <1>0 DEF NotSponsoring, Limits
<1>1. ASSUME NEW r \in Sponsored, NEW u \in Wallets, ReadSponsorPolicy(r, u)
      PROVE  SponsorTypeOK' /\ LimitsKnown'
    <2>1. ASSUME NEW q \in Sponsored
          PROVE  /\ sponsoring[q].policy.wallet <= loosest'.wallet
                 /\ sponsoring[q].policy.global <= loosest'.global
        <3>1. /\ sponsoring[q].policy.wallet \in Nat /\ loosest.wallet \in Nat
              /\ sponsoring[q].policy.global \in Nat /\ loosest.global \in Nat
            BY <1>0 DEF Requests, Limits
        <3>2. /\ loosest'.wallet \in Nat /\ loosest.wallet <= loosest'.wallet
              /\ loosest'.global \in Nat /\ loosest.global <= loosest'.global
            BY <1>1, ReadTyped DEF Limits
        <3>3. /\ sponsoring[q].policy.wallet <= loosest.wallet
              /\ sponsoring[q].policy.global <= loosest.global
            OBVIOUS
        <3> QED  BY <3>1, <3>2, <3>3
    <2>2. \A q \in Sponsored : q # r => sponsoring'[q] = sponsoring[q]
        BY <1>1, ReadTyped
    <2>3. /\ sponsoring'[r].wallet \in Wallets
          /\ sponsoring'[r].policy.wallet <= loosest'.wallet
          /\ sponsoring'[r].policy.global <= loosest'.global
        BY <1>1, ReadTyped
    <2>4. LimitsKnown'
        BY <2>1, <2>2, <2>3
    <2>5. policy' = policy /\ UNCHANGED <<escrows, sent, unrecorded>>
        BY <1>1 DEF ReadSponsorPolicy
    <2> QED  BY <1>1, <1>t, <1>p, <2>4, <2>5, ReadTyped
<1>2. ASSUME NEW r \in Sponsored, CountSponsoredEscrows(r)
      PROVE  SponsorTypeOK' /\ LimitsKnown'
    <2>1. (Goes(r, "global") \/ Ends(r)) /\ sponsoring[r].pc # "idle"
        BY <1>2 DEF CountSponsoredEscrows
    <2>2. UNCHANGED <<policy, escrows, sent, unrecorded, loosest>>
        BY <1>2 DEF CountSponsoredEscrows
    <2> QED  BY <1>0, <1>t, <1>p, <1>i, <2>1, <2>2, GoesTyped, EndsTyped
<1>3. ASSUME NEW r \in Sponsored, CountGlobalSponsoredEscrows(r)
      PROVE  SponsorTypeOK' /\ LimitsKnown'
    <2>1. (Goes(r, "allowed") \/ Ends(r)) /\ sponsoring[r].pc # "idle"
        BY <1>3 DEF CountGlobalSponsoredEscrows
    <2>2. UNCHANGED <<policy, escrows, sent, unrecorded, loosest>>
        BY <1>3 DEF CountGlobalSponsoredEscrows
    <2> QED  BY <1>0, <1>t, <1>p, <1>i, <2>1, <2>2, GoesTyped, EndsTyped
<1>4. ASSUME NEW r \in Sponsored, SendSponsoredEscrow(r)
      PROVE  SponsorTypeOK' /\ LimitsKnown'
    <2>1. sponsoring[r].wallet \in Wallets /\ sponsoring[r].pc = "allowed"
        BY <1>4 DEF SendSponsoredEscrow
    <2>2. /\ UNCHANGED <<policy, escrows, loosest>>
          /\ sent' = [sent EXCEPT ![sponsoring[r].wallet] = @ + 1]
          /\ \/ Goes(r, "record") /\ UNCHANGED unrecorded
             \/ Ends(r) /\ Loses(sponsoring[r].wallet)
        BY <1>4 DEF SendSponsoredEscrow
    <2>3. sent' \in [Wallets -> Nat]
        BY <1>t, <2>1, <2>2
    <2>4. unrecorded' \in [Wallets -> 0 .. MaxUnrecorded]
        BY <1>t, <2>1, <2>2, LosesTyped
    <2> QED  BY <1>0, <1>t, <1>p, <1>i, <2>1, <2>2, <2>3, <2>4, GoesTyped, EndsTyped
<1>5. ASSUME NEW r \in Sponsored, CreateSponsoredEscrow(r)
      PROVE  SponsorTypeOK' /\ LimitsKnown'
    <2>1. sponsoring[r].wallet \in Wallets
        BY <1>5 DEF CreateSponsoredEscrow
    <2>2. /\ UNCHANGED <<policy, sent, unrecorded, loosest>> /\ Ends(r)
          /\ escrows' = [escrows EXCEPT ![sponsoring[r].wallet] = @ + 1]
        BY <1>5 DEF CreateSponsoredEscrow
    <2>3. escrows' \in [Wallets -> Nat]
        BY <1>t, <2>1, <2>2
    <2> QED  BY <1>0, <1>t, <1>p, <1>i, <2>1, <2>2, <2>3, EndsTyped
<1>6. ASSUME NEW r \in Sponsored, SponsoringFails(r)
      PROVE  SponsorTypeOK' /\ LimitsKnown'
    <2>1. sponsoring[r].wallet \in Wallets
        BY <1>6 DEF SponsoringFails
    <2>2. /\ UNCHANGED <<policy, escrows, sent, loosest>> /\ Ends(r)
          /\ Loses(sponsoring[r].wallet) \/ UNCHANGED unrecorded
        BY <1>6 DEF SponsoringFails
    <2>3. unrecorded' \in [Wallets -> 0 .. MaxUnrecorded]
        BY <1>t, <2>1, <2>2, LosesTyped
    <2> QED  BY <1>0, <1>t, <1>p, <1>i, <2>1, <2>2, <2>3, EndsTyped
<1>7. ASSUME NEW new \in Policies, AdminUpdateSponsorPolicy(new)
      PROVE  SponsorTypeOK' /\ LimitsKnown'
    BY <1>7, <1>t, <1>p DEF AdminUpdateSponsorPolicy
<1>8. CASE DayPasses
    BY <1>8, <1>t, <1>p, DayTyped, SponsorAssumption DEF DayPasses
<1>9. CASE UNCHANGED sponsorVars
    BY <1>9, <1>t, <1>p DEF sponsorVars
<1> QED  BY <1>1, <1>2, <1>3, <1>4, <1>5, <1>6, <1>7, <1>8, <1>9 DEF SponsorNext

----------------------------------------------------------------------------
(* Counts of requests, and sums over wallets *)

LEMMA AtCounted ==
    ASSUME NEW reqs, NEW W, NEW places
    PROVE  /\ IsFiniteSet(Among(reqs, W, places))
           /\ Cardinality(Among(reqs, W, places)) \in Nat
           /\ Cardinality(Among(reqs, W, places)) <= Cardinality(Sponsored)
           /\ Cardinality(Sponsored) \in Nat /\ Cardinality(Sponsored) >= 1
<1>1. Among(reqs, W, places) \subseteq Sponsored
    BY DEF Among
<1>2. Cardinality(Sponsored) # 0 /\ Cardinality(Sponsored) \in Nat
    BY SponsorAssumption, FS_EmptySet, FS_CardinalityType
<1> QED  BY <1>1, <1>2, SponsorAssumption, FS_Subset, FS_CardinalityType

\* One request moves.
LEMMA AtMoves ==
    ASSUME NEW reqs, NEW next, NEW r \in Sponsored,
           \A q \in Sponsored : q # r => next[q] = reqs[q],
           NEW W, NEW places
    PROVE  /\ Has(reqs[r], W, places) <=> r \in Among(reqs, W, places)
           /\ Has(next[r], W, places) <=> r \in Among(next, W, places)
           /\ (Has(reqs[r], W, places) <=> Has(next[r], W, places))
                 => Cardinality(Among(next, W, places)) = Cardinality(Among(reqs, W, places))
           /\ Has(reqs[r], W, places) /\ ~Has(next[r], W, places)
                 => Cardinality(Among(next, W, places)) = Cardinality(Among(reqs, W, places)) - 1
           /\ ~Has(reqs[r], W, places) /\ Has(next[r], W, places)
                 => Cardinality(Among(next, W, places)) = Cardinality(Among(reqs, W, places)) + 1
<1> DEFINE A == Among(reqs, W, places)
           B == Among(next, W, places)
<1>1. B \ {r} = A \ {r}
    BY DEF Among, Has
<1>2. /\ r \in A <=> Has(reqs[r], W, places)
      /\ r \in B <=> Has(next[r], W, places)
    BY DEF Among
<1>3. IsFiniteSet(A)
    BY AtCounted
<1> HIDE DEF A, B
<1>4. /\ (r \in A <=> r \in B) => Cardinality(B) = Cardinality(A)
      /\ r \in A /\ r \notin B => Cardinality(B) = Cardinality(A) - 1
      /\ r \notin A /\ r \in B => Cardinality(B) = Cardinality(A) + 1
    BY <1>1, <1>3, CountMoves
<1> QED  BY <1>2, <1>4 DEF A, B

LEMMA SumsNat ==
    ASSUME NEW W \in SUBSET Wallets, NEW c, \A u \in Wallets : c[u] \in Nat
    PROVE  IsFiniteSet(W) /\ Total(c, W) \in Nat
<1>1. IsFiniteSet(W)
    BY SponsorAssumption, FS_Subset
<1> QED  BY <1>1, TotalNat

\* One of the counts grows by one.
LEMMA SumOneMore ==
    ASSUME NEW W \in SUBSET Wallets, NEW c, NEW d, NEW u \in Wallets,
           \A x \in Wallets : c[x] \in Nat /\ d[x] \in Nat,
           \A x \in Wallets : d[x] = IF x = u THEN c[x] + 1 ELSE c[x]
    PROVE  /\ Total(c, W) \in Nat /\ Total(d, W) \in Nat
           /\ Total(d, W) = IF u \in W THEN Total(c, W) + 1 ELSE Total(c, W)
<1>0. \A x \in W : c[x] \in Nat /\ d[x] \in Nat
    OBVIOUS
<1>1. \A x \in W : c[x] \in Int /\ d[x] \in Int
    BY <1>0
<1>2. IsFiniteSet(W)
    BY SponsorAssumption, FS_Subset
<1>3. Total(c, W) \in Nat /\ Total(d, W) \in Nat
    BY <1>0, <1>2, TotalNat
<1>4. CASE u \in W
    <2>1. \A x \in W : x # u => d[x] = c[x]
        OBVIOUS
    <2>2. Total(d, W) = (Total(c, W) - c[u]) + d[u]
        BY <1>1, <1>2, <1>4, <2>1, TotalChange
    <2>3. d[u] = c[u] + 1 /\ c[u] \in Nat
        BY <1>4
    <2> QED  BY <1>3, <1>4, <2>2, <2>3
<1>5. CASE u \notin W
    <2>1. \A x \in W : d[x] = c[x]
        BY <1>5
    <2> QED  BY <1>2, <1>3, <1>5, <2>1, TotalSame
<1> QED  BY <1>4, <1>5

----------------------------------------------------------------------------
(* What a step does to the counts *)

Numbers(W, past) ==
    /\ Total(sent, W) \in Nat /\ Total(escrows, W) \in Nat
    /\ Total(unrecorded, W) \in Nat
    /\ Cardinality(Among(sponsoring, W, {"record"})) \in Nat
    /\ Cardinality(Among(sponsoring, W, past)) \in Nat
    /\ Cardinality(Sponsored) \in Nat /\ Cardinality(Sponsored) >= 1

LEMMA AreNumbers ==
    ASSUME SponsorTypeOK, NEW W \in SUBSET Wallets, NEW past
    PROVE  Numbers(W, past)
<1>1. \A u \in Wallets : sent[u] \in Nat /\ escrows[u] \in Nat /\ unrecorded[u] \in Nat
    BY SponsorAssumption DEF SponsorTypeOK
<1> QED  BY <1>1, SumsNat, AtCounted DEF Numbers

\* A request ends that has not sent anything, or one starts.
LEMMA LeavesCounts ==
    ASSUME SponsorTypeOK, SponsorTypeOK', NEW W \in SUBSET Wallets, NEW past,
           NEW cap \in Nat, Accounted(W), Bounded(W, past, cap),
           NEW r \in Sponsored,
           \A q \in Sponsored : q # r => sponsoring'[q] = sponsoring[q],
           sponsoring[r].pc # "record", sponsoring'[r].pc \notin past \cup {"record"},
           UNCHANGED <<sent, escrows, unrecorded>>
    PROVE  Accounted(W)' /\ Bounded(W, past, cap)'
<1>1. Cardinality(Among(sponsoring, W, {"record"})) = Cardinality(Among(sponsoring', W, {"record"}))
    <2>1. ~Has(sponsoring[r], W, {"record"}) /\ ~Has(sponsoring'[r], W, {"record"})
        BY DEF Has
    <2> QED  BY <2>1, AtMoves
<1>2. \/ Cardinality(Among(sponsoring', W, past)) = Cardinality(Among(sponsoring, W, past))
      \/ Cardinality(Among(sponsoring', W, past)) = Cardinality(Among(sponsoring, W, past)) - 1
    <2>1. ~Has(sponsoring'[r], W, past)
        BY DEF Has
    <2> QED  BY <2>1, AtMoves
<1>3. Numbers(W, past)
    BY AreNumbers
<1>4. /\ Total(sent', W) = Total(sent, W) /\ Total(escrows', W) = Total(escrows, W)
      /\ Total(unrecorded', W) = Total(unrecorded, W)
    OBVIOUS
<1> QED  BY <1>1, <1>2, <1>3, <1>4 DEF Accounted, Bounded, Numbers

\* A request passes its check.
LEMMA PassesCheck ==
    ASSUME SponsorTypeOK, SponsorTypeOK', NEW W \in SUBSET Wallets, NEW past,
           NEW cap \in Nat, Accounted(W), Bounded(W, past, cap), "record" \notin past,
           NEW r \in Sponsored,
           \A q \in Sponsored : q # r => sponsoring'[q] = sponsoring[q],
           sponsoring[r].pc # "record", sponsoring'[r].pc # "record",
           sponsoring'[r].wallet = sponsoring[r].wallet,
           sponsoring[r].pc \in past \/ Total(escrows, W) < cap,
           UNCHANGED <<sent, escrows, unrecorded>>
    PROVE  Accounted(W)' /\ Bounded(W, past, cap)'
<1> DEFINE rec == Among(sponsoring, W, {"record"})
           rec2 == Among(sponsoring', W, {"record"})
           may == Among(sponsoring, W, past)
           may2 == Among(sponsoring', W, past)
<1>1. Cardinality(rec2) = Cardinality(rec)
    <2>1. ~Has(sponsoring[r], W, {"record"}) /\ ~Has(sponsoring'[r], W, {"record"})
        BY DEF Has
    <2> QED  BY <2>1, AtMoves
<1>2. \/ Cardinality(may2) = Cardinality(may)
      \/ Cardinality(may2) = Cardinality(may) - 1
      \/ Cardinality(may2) = Cardinality(may) + 1 /\ r \notin may /\ r \in may2
    <2>1. CASE Has(sponsoring[r], W, past) <=> Has(sponsoring'[r], W, past)
        BY <2>1, AtMoves
    <2>2. CASE Has(sponsoring[r], W, past) /\ ~Has(sponsoring'[r], W, past)
        BY <2>2, AtMoves
    <2>3. CASE ~Has(sponsoring[r], W, past) /\ Has(sponsoring'[r], W, past)
        <3>1. Cardinality(may2) = Cardinality(may) + 1
            BY <2>3, AtMoves
        <3> QED  BY <2>3, <3>1 DEF Among
    <2> QED  BY <2>1, <2>2, <2>3
<1>3. Numbers(W, past) /\ Cardinality(may2) \in Nat
    BY AreNumbers, AtCounted
<1>4. /\ Total(sent', W) = Total(sent, W) /\ Total(escrows', W) = Total(escrows, W)
      /\ Total(unrecorded', W) = Total(unrecorded, W)
    OBVIOUS
<1>5. Cardinality(may2) + Cardinality(rec2) <= Cardinality(Sponsored)
    <2>1. may2 \cap rec2 = {}
        BY DEF Among, Has
    <2>2. IsFiniteSet(may2) /\ IsFiniteSet(rec2)
        BY AtCounted
    <2>3. may2 \cup rec2 \subseteq Sponsored
        BY DEF Among
    <2> HIDE DEF may2, rec2
    <2>4. /\ IsFiniteSet(may2 \cup rec2)
          /\ Cardinality(may2 \cup rec2) = Cardinality(may2) + Cardinality(rec2)
        <3>1. Cardinality(may2 \cap rec2) = 0
            BY <2>1, FS_EmptySet
        <3>2. Cardinality(may2) \in Nat /\ Cardinality(rec2) \in Nat
            BY <2>2, FS_CardinalityType
        <3>3. /\ IsFiniteSet(may2 \cup rec2)
              /\ Cardinality(may2 \cup rec2)
                     = Cardinality(may2) + Cardinality(rec2) - Cardinality(may2 \cap rec2)
            BY <2>2, FS_Union
        <3> QED  BY <3>1, <3>2, <3>3
    <2> QED  BY <2>3, <2>4, SponsorAssumption, FS_Subset
<1>6. CASE Cardinality(may2) = Cardinality(may) \/ Cardinality(may2) = Cardinality(may) - 1
    BY <1>1, <1>3, <1>4, <1>6 DEF Accounted, Bounded, Numbers
<1>7. CASE r \notin may /\ r \in may2
    <2>1. Total(escrows, W) < cap
        BY <1>7 DEF Among, Has
    <2>2. Accounted(W)'
        BY <1>1, <1>4 DEF Accounted
    <2>3. Total(sent, W) <= Total(escrows, W) + Total(unrecorded, W) + Cardinality(rec)
        BY DEF Accounted
    <2>4. Total(sent, W) + Cardinality(may2)
              <= (cap + (Cardinality(Sponsored) - 1)) + Total(unrecorded, W)
        BY <1>1, <1>3, <1>5, <2>1, <2>3 DEF Numbers
    <2> QED  BY <1>4, <2>2, <2>4 DEF Bounded
<1> QED  BY <1>2, <1>6, <1>7

\* An escrow is sent, and is to be recorded, or its record is lost.
LEMMA SendCounts ==
    ASSUME SponsorTypeOK, SponsorTypeOK', LimitsKnown, NEW W \in SUBSET Wallets, NEW past,
           NEW cap \in Nat, Accounted(W), Bounded(W, past, cap),
           "record" \notin past, "idle" \notin past, "allowed" \in past,
           NEW r \in Sponsored, SendSponsoredEscrow(r)
    PROVE  Accounted(W)' /\ Bounded(W, past, cap)'
<1> DEFINE u == sponsoring[r].wallet
           rec == Cardinality(Among(sponsoring, W, {"record"}))
           rec2 == Cardinality(Among(sponsoring', W, {"record"}))
           may == Cardinality(Among(sponsoring, W, past))
           may2 == Cardinality(Among(sponsoring', W, past))
<1>1. /\ sponsoring[r].pc = "allowed" /\ u \in Wallets
      /\ sent' = [sent EXCEPT ![u] = @ + 1]
      /\ escrows' = escrows
      /\ \/ Goes(r, "record") /\ UNCHANGED unrecorded
         \/ Ends(r) /\ Loses(u)
    BY DEF SendSponsoredEscrow, LimitsKnown
<1>2. /\ sponsoring \in [Sponsored -> Requests] /\ sent \in [Wallets -> Nat]
      /\ unrecorded \in [Wallets -> 0 .. MaxUnrecorded]
      /\ sent' \in [Wallets -> Nat] /\ unrecorded' \in [Wallets -> 0 .. MaxUnrecorded]
    BY DEF SponsorTypeOK, Requests
<1>3. \A q \in Sponsored : q # r => sponsoring'[q] = sponsoring[q]
    BY <1>1, <1>2, GoesTyped, EndsTyped
<1>4. /\ Total(sent, W) \in Nat /\ Total(sent', W) \in Nat
      /\ Total(sent', W) = IF u \in W THEN Total(sent, W) + 1 ELSE Total(sent, W)
    <2>1. \A x \in Wallets : sent[x] \in Nat /\ sent'[x] \in Nat
        BY <1>2
    <2>2. \A x \in Wallets : sent'[x] = IF x = u THEN sent[x] + 1 ELSE sent[x]
        BY <1>1, <1>2
    <2>3. u \in Wallets
        BY <1>1
    <2> HIDE DEF u
    <2> QED  BY <2>1, <2>2, <2>3, SumOneMore
<1>5. Has(sponsoring[r], W, past) <=> u \in W
    BY <1>1 DEF Has
<1>6. ~Has(sponsoring[r], W, {"record"})
    BY <1>1 DEF Has
<1>7. Numbers(W, past) /\ may2 \in Nat /\ rec2 \in Nat
    BY AreNumbers, AtCounted
<1>8. Total(escrows', W) = Total(escrows, W)
    BY <1>1
<1>9. ASSUME Goes(r, "record"), UNCHANGED unrecorded
      PROVE  Accounted(W)' /\ Bounded(W, past, cap)'
    <2>1. sponsoring'[r].pc = "record" /\ sponsoring'[r].wallet = u
        BY <1>2, <1>9, GoesTyped
    <2>2. (Has(sponsoring'[r], W, {"record"}) <=> u \in W) /\ ~Has(sponsoring'[r], W, past)
        BY <2>1 DEF Has
    <2>3. Total(unrecorded', W) = Total(unrecorded, W)
        BY <1>9
    <2> HIDE DEF u
    <2>4. CASE u \in W
        <3>1. may2 = may - 1
            BY <1>3, <1>5, <2>2, <2>4, AtMoves
        <3>2. rec2 = rec + 1
            BY <1>3, <1>6, <2>2, <2>4, AtMoves
        <3> QED  BY <1>4, <1>7, <1>8, <2>3, <2>4, <3>1, <3>2 DEF Numbers, Accounted, Bounded
    <2>5. CASE u \notin W
        <3>1. may2 = may
            BY <1>3, <1>5, <2>2, <2>5, AtMoves
        <3>2. rec2 = rec
            BY <1>3, <1>6, <2>2, <2>5, AtMoves
        <3> QED  BY <1>4, <1>7, <1>8, <2>3, <2>5, <3>1, <3>2 DEF Numbers, Accounted, Bounded
    <2> QED  BY <2>4, <2>5
<1>10. ASSUME Ends(r), Loses(u)
       PROVE  Accounted(W)' /\ Bounded(W, past, cap)'
    <2>1. sponsoring'[r].pc = "idle"
        BY <1>2, <1>10, EndsTyped DEF NotSponsoring
    <2>2. ~Has(sponsoring'[r], W, {"record"}) /\ ~Has(sponsoring'[r], W, past)
        BY <2>1 DEF Has
    <2>3. /\ Total(unrecorded, W) \in Nat /\ Total(unrecorded', W) \in Nat
          /\ Total(unrecorded', W) = IF u \in W THEN Total(unrecorded, W) + 1
                                     ELSE Total(unrecorded, W)
        <3>1. \A x \in Wallets : unrecorded[x] \in Nat /\ unrecorded'[x] \in Nat
            BY <1>2, SponsorAssumption
        <3>2. unrecorded' = [unrecorded EXCEPT ![u] = @ + 1]
            BY <1>10 DEF Loses
        <3>3. \A x \in Wallets :
                 unrecorded'[x] = IF x = u THEN unrecorded[x] + 1 ELSE unrecorded[x]
            BY <1>1, <1>2, <3>2
        <3>4. u \in Wallets
            BY <1>1
        <3> HIDE DEF u
        <3> QED  BY <3>1, <3>3, <3>4, SumOneMore
    <2> HIDE DEF u
    <2>6. rec2 = rec
        BY <1>3, <1>6, <2>2, AtMoves
    <2>4. CASE u \in W
        <3>1. may2 = may - 1
            BY <1>3, <1>5, <2>2, <2>4, AtMoves
        <3> QED  BY <1>4, <1>7, <1>8, <2>3, <2>4, <2>6, <3>1 DEF Numbers, Accounted, Bounded
    <2>5. CASE u \notin W
        <3>1. may2 = may
            BY <1>3, <1>5, <2>2, <2>5, AtMoves
        <3> QED  BY <1>4, <1>7, <1>8, <2>3, <2>5, <2>6, <3>1 DEF Numbers, Accounted, Bounded
    <2> QED  BY <2>4, <2>5
<1> QED  BY <1>1, <1>9, <1>10

\* An escrow gets its node, or loses it.
LEMMA RecordCounts ==
    ASSUME SponsorTypeOK, SponsorTypeOK', LimitsKnown, NEW W \in SUBSET Wallets, NEW past,
           NEW cap \in Nat, Accounted(W), Bounded(W, past, cap),
           "record" \notin past, "idle" \notin past,
           NEW r \in Sponsored, sponsoring[r].pc = "record", Ends(r), sent' = sent,
           \/ /\ escrows' = [escrows EXCEPT ![sponsoring[r].wallet] = @ + 1]
              /\ unrecorded' = unrecorded
           \/ Loses(sponsoring[r].wallet) /\ escrows' = escrows
    PROVE  Accounted(W)' /\ Bounded(W, past, cap)'
<1> DEFINE u == sponsoring[r].wallet
           rec == Cardinality(Among(sponsoring, W, {"record"}))
           rec2 == Cardinality(Among(sponsoring', W, {"record"}))
           may == Cardinality(Among(sponsoring, W, past))
           may2 == Cardinality(Among(sponsoring', W, past))
<1>1. u \in Wallets
    BY DEF LimitsKnown
<1>2. /\ sponsoring \in [Sponsored -> Requests] /\ escrows \in [Wallets -> Nat]
      /\ unrecorded \in [Wallets -> 0 .. MaxUnrecorded]
      /\ escrows' \in [Wallets -> Nat] /\ unrecorded' \in [Wallets -> 0 .. MaxUnrecorded]
    BY DEF SponsorTypeOK, Requests
<1>3. \A q \in Sponsored : q # r => sponsoring'[q] = sponsoring[q]
    BY <1>2, EndsTyped
<1>4. sponsoring'[r].pc = "idle"
    BY <1>2, EndsTyped DEF NotSponsoring
<1>5. /\ ~Has(sponsoring[r], W, past) /\ ~Has(sponsoring'[r], W, past)
      /\ ~Has(sponsoring'[r], W, {"record"})
      /\ Has(sponsoring[r], W, {"record"}) <=> u \in W
    BY <1>4 DEF Has
<1>6. Numbers(W, past) /\ may2 \in Nat /\ rec2 \in Nat
    BY AreNumbers, AtCounted
<1>7. Total(sent', W) = Total(sent, W)
    OBVIOUS
<1>8. /\ Total(escrows', W) \in Nat /\ Total(unrecorded', W) \in Nat
      /\ \/ /\ Total(escrows', W) = IF u \in W THEN Total(escrows, W) + 1
                                    ELSE Total(escrows, W)
            /\ Total(unrecorded', W) = Total(unrecorded, W)
         \/ /\ Total(unrecorded', W) = IF u \in W THEN Total(unrecorded, W) + 1
                                       ELSE Total(unrecorded, W)
            /\ Total(escrows', W) = Total(escrows, W)
    <2>1. /\ \A x \in Wallets : unrecorded[x] \in Nat /\ unrecorded'[x] \in Nat
          /\ \A x \in Wallets : escrows[x] \in Nat /\ escrows'[x] \in Nat
        BY <1>2, SponsorAssumption
    <2>2. Total(escrows', W) \in Nat /\ Total(unrecorded', W) \in Nat
        BY <2>1, SumsNat
    <2>3. CASE escrows' = [escrows EXCEPT ![u] = @ + 1] /\ unrecorded' = unrecorded
        <3>1. \A x \in Wallets : escrows'[x] = IF x = u THEN escrows[x] + 1 ELSE escrows[x]
            BY <1>2, <2>3
        <3>2. Total(escrows', W) = IF u \in W THEN Total(escrows, W) + 1
                                   ELSE Total(escrows, W)
            <4> HIDE DEF u
            <4> QED  BY <1>1, <2>1, <3>1, SumOneMore
        <3> QED  BY <2>2, <2>3, <3>2
    <2>4. CASE Loses(u) /\ escrows' = escrows
        <3>1. \A x \in Wallets :
                 unrecorded'[x] = IF x = u THEN unrecorded[x] + 1 ELSE unrecorded[x]
            BY <1>2, <2>4 DEF Loses
        <3>2. Total(unrecorded', W) = IF u \in W THEN Total(unrecorded, W) + 1
                                      ELSE Total(unrecorded, W)
            <4> HIDE DEF u
            <4> QED  BY <1>1, <2>1, <3>1, SumOneMore
        <3> QED  BY <2>2, <2>4, <3>2
    <2> QED  BY <2>3, <2>4
<1>9. may2 = may
    BY <1>3, <1>5, AtMoves
<1> HIDE DEF u
<1>10. rec2 = IF u \in W THEN rec - 1 ELSE rec
    <2>1. CASE u \in W
        BY <1>3, <1>5, <2>1, AtMoves
    <2>2. CASE u \notin W
        BY <1>3, <1>5, <2>2, AtMoves
    <2> QED  BY <2>1, <2>2
<1> QED  BY <1>6, <1>7, <1>8, <1>9, <1>10 DEF Numbers, Accounted, Bounded

----------------------------------------------------------------------------
(* The steps *)

\* What a step does to them; what a check lets through is below the limit.
LEMMA CountsStep ==
    ASSUME SponsorTypeOK, SponsorTypeOK', LimitsKnown, NEW W \in SUBSET Wallets,
           NEW past, past = PastWallet \/ past = PastGlobal,
           NEW cap \in Nat, Counts(W, past, cap), [SponsorNext]_sponsorVars, ~DayPasses,
           \A r \in Sponsored :
              /\ CountSponsoredEscrows(r) =>
                    past = PastGlobal \/ sponsoring[r].wallet \notin W
                    \/ Total(escrows, W) < cap \/ Ends(r)
              /\ CountGlobalSponsoredEscrows(r) =>
                    past = PastWallet \/ Total(escrows, W) < cap \/ Ends(r)
    PROVE  Counts(W, past, cap)'
<1> USE DEF Counts
<1>0. "record" \notin past /\ "idle" \notin past /\ "wallet" \notin past /\ "allowed" \in past
    BY DEF PastWallet, PastGlobal
<1>t. sponsoring \in [Sponsored -> Requests]
    BY DEF SponsorTypeOK, Requests
<1>1. ASSUME NEW r \in Sponsored, NEW u \in Wallets, ReadSponsorPolicy(r, u)
      PROVE  Counts(W, past, cap)'
    <2>1. /\ \A q \in Sponsored : q # r => sponsoring'[q] = sponsoring[q]
          /\ sponsoring'[r].pc = "wallet"
        BY <1>1, ReadTyped
    <2>2. sponsoring[r].pc = "idle" /\ UNCHANGED <<sent, escrows, unrecorded>>
        BY <1>1 DEF ReadSponsorPolicy
    <2>3. sponsoring[r].pc # "record" /\ sponsoring'[r].pc \notin past \cup {"record"}
        BY <1>0, <2>1, <2>2
    <2> QED  BY <2>1, <2>2, <2>3, LeavesCounts
<1>e. ASSUME NEW r \in Sponsored, Ends(r), sponsoring[r].pc # "record",
             UNCHANGED <<sent, escrows, unrecorded>>
      PROVE  Counts(W, past, cap)'
    <2>1. /\ \A q \in Sponsored : q # r => sponsoring'[q] = sponsoring[q]
          /\ sponsoring'[r].pc = "idle"
        BY <1>e, <1>t, EndsTyped DEF NotSponsoring
    <2>2. sponsoring'[r].pc \notin past \cup {"record"}
        BY <1>0, <2>1
    <2> QED  BY <1>e, <2>1, <2>2, LeavesCounts
<1>2. ASSUME NEW r \in Sponsored, CountSponsoredEscrows(r)
      PROVE  Counts(W, past, cap)'
    <2>1. /\ sponsoring[r].pc = "wallet" /\ UNCHANGED <<sent, escrows, unrecorded>>
          /\ Goes(r, "global") \/ Ends(r)
        BY <1>2 DEF CountSponsoredEscrows
    <2>2. ASSUME Goes(r, "global"), ~Ends(r)
          PROVE  Counts(W, past, cap)'
        <3>1. /\ \A q \in Sponsored : q # r => sponsoring'[q] = sponsoring[q]
              /\ sponsoring'[r].pc = "global"
              /\ sponsoring'[r].wallet = sponsoring[r].wallet
            BY <1>t, <2>2, GoesTyped
        <3>2. sponsoring[r].pc # "record" /\ sponsoring'[r].pc # "record"
            BY <2>1, <3>1
        <3>3. CASE past = PastGlobal
            <4>1. sponsoring'[r].pc \notin past \cup {"record"}
                BY <3>1, <3>3 DEF PastGlobal
            <4> QED  BY <2>1, <3>1, <3>2, <4>1, LeavesCounts
        <3>4. CASE Total(escrows, W) < cap
            BY <1>0, <2>1, <3>1, <3>2, <3>4, PassesCheck
        <3>5. CASE sponsoring[r].wallet \notin W
            <4>1. /\ ~Has(sponsoring[r], W, past) /\ ~Has(sponsoring'[r], W, past)
                  /\ ~Has(sponsoring[r], W, {"record"}) /\ ~Has(sponsoring'[r], W, {"record"})
                BY <3>1, <3>5 DEF Has
            <4>2. Cardinality(Among(sponsoring', W, past)) = Cardinality(Among(sponsoring, W, past))
                BY <3>1, <4>1, AtMoves
            <4>3. Cardinality(Among(sponsoring', W, {"record"}))
                      = Cardinality(Among(sponsoring, W, {"record"}))
                BY <3>1, <4>1, AtMoves
            <4> QED  BY <2>1, <4>2, <4>3 DEF Accounted, Bounded
        <3> QED  BY <1>2, <2>2, <3>3, <3>4, <3>5
    <2> QED  BY <1>e, <2>1, <2>2
<1>3. ASSUME NEW r \in Sponsored, CountGlobalSponsoredEscrows(r)
      PROVE  Counts(W, past, cap)'
    <2>1. /\ sponsoring[r].pc = "global" /\ UNCHANGED <<sent, escrows, unrecorded>>
          /\ Goes(r, "allowed") \/ Ends(r)
        BY <1>3 DEF CountGlobalSponsoredEscrows
    <2>2. ASSUME Goes(r, "allowed"), ~Ends(r)
          PROVE  Counts(W, past, cap)'
        <3>1. /\ \A q \in Sponsored : q # r => sponsoring'[q] = sponsoring[q]
              /\ sponsoring'[r].pc = "allowed"
              /\ sponsoring'[r].wallet = sponsoring[r].wallet
            BY <1>t, <2>2, GoesTyped
        <3>2. sponsoring[r].pc # "record" /\ sponsoring'[r].pc # "record"
            BY <2>1, <3>1
        <3>3. sponsoring[r].pc \in past \/ Total(escrows, W) < cap
            BY <1>3, <2>1, <2>2 DEF PastWallet
        <3> QED  BY <1>0, <2>1, <3>1, <3>2, <3>3, PassesCheck
    <2> QED  BY <1>e, <2>1, <2>2
<1>4. ASSUME NEW r \in Sponsored, SendSponsoredEscrow(r)
      PROVE  Counts(W, past, cap)'
    BY <1>0, <1>4, SendCounts
<1>5. ASSUME NEW r \in Sponsored, CreateSponsoredEscrow(r)
      PROVE  Counts(W, past, cap)'
    <2>1. /\ sponsoring[r].pc = "record" /\ Ends(r) /\ sent' = sent
          /\ escrows' = [escrows EXCEPT ![sponsoring[r].wallet] = @ + 1]
          /\ unrecorded' = unrecorded
        BY <1>5 DEF CreateSponsoredEscrow
    <2> QED  BY <1>0, <2>1, RecordCounts
<1>6. ASSUME NEW r \in Sponsored, SponsoringFails(r)
      PROVE  Counts(W, past, cap)'
    <2>1. Ends(r) /\ sent' = sent /\ escrows' = escrows
        BY <1>6 DEF SponsoringFails
    <2>2. CASE sponsoring[r].pc = "record"
        <3>1. Loses(sponsoring[r].wallet)
            BY <1>6, <2>2 DEF SponsoringFails
        <3> QED  BY <1>0, <2>1, <2>2, <3>1, RecordCounts
    <2>3. CASE sponsoring[r].pc # "record"
        <3>1. UNCHANGED unrecorded
            BY <1>6, <2>3 DEF SponsoringFails
        <3> QED  BY <1>e, <2>1, <2>3, <3>1
    <2> QED  BY <2>2, <2>3
<1>7. ASSUME NEW new \in Policies, AdminUpdateSponsorPolicy(new)
      PROVE  Counts(W, past, cap)'
    BY <1>7 DEF AdminUpdateSponsorPolicy, Accounted, Bounded
<1>8. CASE UNCHANGED sponsorVars
    BY <1>8 DEF sponsorVars, Accounted, Bounded
<1> QED  BY <1>1, <1>2, <1>3, <1>4, <1>5, <1>6, <1>7, <1>8 DEF SponsorNext

\* At midnight nothing is sent yet, and as many as there are may be.
LEMMA CountsOfDay ==
    ASSUME SponsorTypeOK, DayPasses, NEW W \in SUBSET Wallets, NEW past, NEW cap \in Nat \ {0}
    PROVE  Counts(W, past, cap)'
<1>1. /\ \A u \in W : escrows'[u] = 0 /\ sent'[u] = 0 /\ unrecorded'[u] = 0
      /\ sponsoring' = sponsoring
    BY DEF DayPasses
<1>2. IsFiniteSet(W)
    BY SponsorAssumption, FS_Subset
<1>3. Total(escrows', W) = 0 /\ Total(sent', W) = 0 /\ Total(unrecorded', W) = 0
    BY <1>1, <1>2, TotalZero
<1>4. /\ Cardinality(Among(sponsoring', W, past)) \in Nat
      /\ Cardinality(Among(sponsoring', W, past)) <= Cardinality(Sponsored)
      /\ Cardinality(Among(sponsoring', W, {"record"})) \in Nat
      /\ Cardinality(Sponsored) \in Nat
    BY AtCounted
<1> QED  BY <1>3, <1>4 DEF Counts, Accounted, Bounded

LEMMA CountsAtFirst ==
    ASSUME SponsorInit, SponsorTypeOK, NEW W \in SUBSET Wallets, NEW past, "idle" \notin past,
           NEW cap \in Nat
    PROVE  Counts(W, past, cap)
<1>1. /\ \A u \in W : escrows[u] = 0 /\ sent[u] = 0 /\ unrecorded[u] = 0
      /\ \A r \in Sponsored : sponsoring[r].pc = "idle"
    BY DEF SponsorInit, NotSponsoring
<1>2. IsFiniteSet(W)
    BY SponsorAssumption, FS_Subset
<1>3. Total(escrows, W) = 0 /\ Total(sent, W) = 0 /\ Total(unrecorded, W) = 0
    BY <1>1, <1>2, TotalZero
<1>4. Among(sponsoring, W, past) = {} /\ Among(sponsoring, W, {"record"}) = {}
    BY <1>1 DEF Among, Has
<1>5. Cardinality({}) = 0 /\ Cardinality(Sponsored) \in Nat /\ Cardinality(Sponsored) >= 1
    BY FS_EmptySet, AtCounted
<1> QED  BY <1>3, <1>4, <1>5 DEF Counts, Accounted, Bounded

LEMMA MoreIsLooser ==
    ASSUME SponsorTypeOK', NEW W \in SUBSET Wallets, NEW past, NEW low \in Nat, NEW high \in Nat,
           low <= high, Counts(W, past, low)'
    PROVE  Counts(W, past, high)'
<1>1. /\ Total(sent', W) \in Nat /\ Total(unrecorded', W) \in Nat
      /\ Cardinality(Among(sponsoring', W, past)) \in Nat /\ Cardinality(Sponsored) \in Nat
    <2>1. \A u \in Wallets : sent'[u] \in Nat /\ unrecorded'[u] \in Nat
        BY SponsorAssumption DEF SponsorTypeOK
    <2> QED  BY <2>1, SumsNat, AtCounted
<1> QED  BY <1>1 DEF Counts, Accounted, Bounded

LEMMA LimitsGrow ==
    ASSUME SponsorTypeOK, [SponsorNext]_sponsorVars, ~DayPasses
    PROVE  loosest.wallet <= loosest'.wallet /\ loosest.global <= loosest'.global
<1>1. loosest \in Limits /\ loosest.wallet \in Nat /\ loosest.global \in Nat
    BY DEF SponsorTypeOK, Limits
<1>2. ASSUME NEW r \in Sponsored, NEW u \in Wallets, ReadSponsorPolicy(r, u)
      PROVE  loosest.wallet <= loosest'.wallet /\ loosest.global <= loosest'.global
    BY <1>2, ReadTyped
<1>3. (\E r \in Sponsored, u \in Wallets : ReadSponsorPolicy(r, u)) \/ loosest' = loosest
    BY DEF SponsorNext, CountSponsoredEscrows, CountGlobalSponsoredEscrows,
           SendSponsoredEscrow, CreateSponsoredEscrow, SponsoringFails,
           AdminUpdateSponsorPolicy, sponsorVars
<1> QED  BY <1>1, <1>2, <1>3

LEMMA SponsorInvInit == SponsorInit => SponsorInv
<1> SUFFICES ASSUME SponsorInit PROVE SponsorInv
    OBVIOUS
<1>1. SponsorTypeOK /\ LimitsKnown
    BY SponsorAssumption DEF SponsorInit, SponsorTypeOK, LimitsKnown, NotSponsoring, Limits
<1>2. loosest.wallet \in Nat /\ loosest.global \in Nat
    BY <1>1 DEF SponsorTypeOK, Limits
<1>3. "idle" \notin PastWallet /\ "idle" \notin PastGlobal
    BY DEF PastWallet, PastGlobal
<1>4. PICK w \in Nat, g \in Nat : w = loosest.wallet /\ g = loosest.global
    BY <1>2
<1>5. \A u \in Wallets : Counts({u}, PastWallet, w)
    BY <1>1, <1>3, CountsAtFirst
<1>6. Counts(Wallets, PastGlobal, g)
    BY <1>1, <1>3, CountsAtFirst
<1> QED  BY <1>1, <1>4, <1>5, <1>6 DEF SponsorInv

LEMMA SponsorInvStep ==
    ASSUME SponsorInv, [SponsorNext]_sponsorVars
    PROVE  SponsorInv'
<1>1. SponsorTypeOK /\ LimitsKnown /\ SponsorTypeOK' /\ LimitsKnown'
    BY SponsorTypeStep DEF SponsorInv
<1>2. /\ loosest.wallet \in Nat /\ loosest.global \in Nat
      /\ loosest'.wallet \in Nat \ {0} /\ loosest'.global \in Nat \ {0}
    BY <1>1 DEF SponsorTypeOK, Limits
<1>3. PICK w \in Nat, g \in Nat : w = loosest.wallet /\ g = loosest.global
    BY <1>2
<1>4. PICK ww \in Nat \ {0}, gg \in Nat \ {0} : ww = loosest'.wallet /\ gg = loosest'.global
    BY <1>2
<1>5. \A u \in Wallets : Counts({u}, PastWallet, ww)'
    <2> SUFFICES ASSUME NEW u \in Wallets PROVE Counts({u}, PastWallet, ww)'
        OBVIOUS
    <2>1. CASE DayPasses
        BY <1>1, <2>1, CountsOfDay
    <2>2. CASE ~DayPasses
        <3>1. Counts({u}, PastWallet, w) /\ {u} \in SUBSET Wallets
            BY <1>3 DEF SponsorInv
        <3>2. ASSUME NEW r \in Sponsored
              PROVE  /\ CountSponsoredEscrows(r) =>
                           PastWallet = PastGlobal \/ sponsoring[r].wallet \notin {u}
                           \/ Total(escrows, {u}) < w \/ Ends(r)
                     /\ CountGlobalSponsoredEscrows(r) =>
                           PastWallet = PastWallet \/ Total(escrows, {u}) < w \/ Ends(r)
            <4>1. ASSUME CountSponsoredEscrows(r), sponsoring[r].wallet = u, ~Ends(r)
                  PROVE  Total(escrows, {u}) < w
                <5>1. escrows[u] < sponsoring[r].policy.wallet
                    BY <4>1 DEF CountSponsoredEscrows, Below
                <5>2. /\ escrows[u] \in Nat /\ sponsoring[r].policy.wallet \in Nat
                      /\ sponsoring[r].policy.wallet <= w
                    BY <1>1, <1>3 DEF SponsorTypeOK, LimitsKnown, Limits
                <5>3. Total(escrows, {u}) = escrows[u]
                    BY <5>2, TotalOne
                <5> QED  BY <5>1, <5>2, <5>3
            <4> QED  BY <4>1
        <3>3. Counts({u}, PastWallet, w)'
            BY <1>1, <2>2, <3>1, <3>2, CountsStep
        <3>4. w <= ww
            BY <1>1, <1>3, <1>4, <2>2, LimitsGrow
        <3> QED  BY <1>1, <3>1, <3>3, <3>4, MoreIsLooser
    <2> QED  BY <2>1, <2>2
<1>6. Counts(Wallets, PastGlobal, gg)'
    <2>1. CASE DayPasses
        BY <1>1, <2>1, CountsOfDay
    <2>2. CASE ~DayPasses
        <3>1. Counts(Wallets, PastGlobal, g)
            BY <1>3 DEF SponsorInv
        <3>2. ASSUME NEW r \in Sponsored
              PROVE  /\ CountSponsoredEscrows(r) =>
                           PastGlobal = PastGlobal \/ sponsoring[r].wallet \notin Wallets
                           \/ Total(escrows, Wallets) < g \/ Ends(r)
                     /\ CountGlobalSponsoredEscrows(r) =>
                           PastGlobal = PastWallet \/ Total(escrows, Wallets) < g \/ Ends(r)
            <4>1. ASSUME CountGlobalSponsoredEscrows(r), ~Ends(r)
                  PROVE  Total(escrows, Wallets) < g
                <5>1. Total(escrows, Wallets) < sponsoring[r].policy.global
                    BY <4>1, OfAllTotal DEF CountGlobalSponsoredEscrows, Below
                <5>2. /\ sponsoring[r].policy.global \in Nat
                      /\ sponsoring[r].policy.global <= g
                    BY <1>1, <1>3 DEF SponsorTypeOK, LimitsKnown, Limits
                <5>3. Total(escrows, Wallets) \in Nat
                    <6>1. \A x \in Wallets : escrows[x] \in Nat
                        BY <1>1 DEF SponsorTypeOK
                    <6> QED  BY <6>1, SumsNat
                <5> QED  BY <5>1, <5>2, <5>3
            <4> QED  BY <4>1
        <3>3. Counts(Wallets, PastGlobal, g)'
            BY <1>1, <2>2, <3>1, <3>2, CountsStep
        <3>4. g <= gg
            BY <1>1, <1>3, <1>4, <2>2, LimitsGrow
        <3> QED  BY <1>1, <3>3, <3>4, MoreIsLooser
    <2> QED  BY <2>1, <2>2
<1> QED  BY <1>1, <1>4, <1>5, <1>6 DEF SponsorInv

----------------------------------------------------------------------------
(* Theorems *)

LEMMA SponsorInvariant == SponsorSpec => []SponsorInv
<1>1. SponsorInv /\ [SponsorNext]_sponsorVars => SponsorInv'
    BY SponsorInvStep
<1> QED  BY SponsorInvInit, <1>1, PTL DEF SponsorSpec

LEMMA LimitsFollow ==
    ASSUME SponsorInv
    PROVE  SponsoredWithinLimits
<1> DEFINE n == Cardinality(Sponsored)
<1>1. SponsorTypeOK /\ loosest.wallet \in Nat /\ loosest.global \in Nat
    BY DEF SponsorInv, SponsorTypeOK, Limits
<1>2. ASSUME NEW u \in Wallets
      PROVE  sent[u] <= loosest.wallet + (n - 1) + unrecorded[u]
    <2>1. sent[u] \in Nat /\ unrecorded[u] \in Nat
        BY <1>1, SponsorAssumption DEF SponsorTypeOK
    <2>2. Total(sent, {u}) = sent[u] /\ Total(unrecorded, {u}) = unrecorded[u]
        BY <2>1, TotalOne
    <2>3. Numbers({u}, PastWallet)
        BY <1>1, AreNumbers
    <2>4. Bounded({u}, PastWallet, loosest.wallet)
        BY DEF SponsorInv, Counts
    <2> QED  BY <1>1, <2>1, <2>2, <2>3, <2>4 DEF Bounded, Numbers
<1>3. OfAll(sent) <= loosest.global + (n - 1) + OfAll(unrecorded)
    <2>1. Numbers(Wallets, PastGlobal)
        BY <1>1, AreNumbers
    <2>2. Bounded(Wallets, PastGlobal, loosest.global)
        BY DEF SponsorInv, Counts
    <2>3. OfAll(sent) = Total(sent, Wallets) /\ OfAll(unrecorded) = Total(unrecorded, Wallets)
        BY OfAllTotal
    <2> QED  BY <1>1, <2>1, <2>2, <2>3 DEF Bounded, Numbers
<1> QED  BY <1>2, <1>3 DEF SponsoredWithinLimits

\* Requests, limits and counts are of their types, for any number of wallets and
\* of requests under way, and any policies (createGaslessTradeEscrow).
THEOREM SponsorTyped == SponsorSpec => []SponsorTypeOK
<1>1. SponsorInv => SponsorTypeOK
    BY DEF SponsorInv
<1> QED  BY SponsorInvariant, <1>1, PTL

\* The daily limits of gas-free trades are passed by no more than one for every
\* other request under way and every lost record, for one wallet and for all of
\* them, whatever the policies and however many requests there are
\* (enforceSponsorPolicy, createGaslessTradeEscrow).
THEOREM SponsoredWithin == SponsorSpec => []SponsoredWithinLimits
<1>1. SponsorInv => SponsoredWithinLimits
    BY LimitsFollow
<1> QED  BY SponsorInvariant, <1>1, PTL

----------------------------------------------------------------------------
(* Groups: comparing ratios without division *)

LEMMA ProductGrows ==
    ASSUME NEW m \in Nat, NEW n \in Nat, NEW k \in Nat, m <= n
    PROVE  m * k <= n * k /\ m * k \in Nat /\ n * k \in Nat
OBVIOUS

LEMMA ProductShrinks ==
    ASSUME NEW m \in Nat, NEW n \in Nat, NEW k \in Nat \ {0}, m * k <= n * k
    PROVE  m <= n
OBVIOUS

LEMMA ProductAssoc ==
    ASSUME NEW m \in Nat, NEW n \in Nat, NEW k \in Nat
    PROVE  m * n \in Nat /\ m * n = n * m /\ (m * n) * k = m * (n * k)
OBVIOUS

\* s1/a1 >= s2/a2 >= s3/a3.
LEMMA RatiosOrdered ==
    ASSUME NEW s1 \in Nat, NEW s2 \in Nat, NEW s3 \in Nat,
           NEW a1 \in Nat \ {0}, NEW a2 \in Nat \ {0}, NEW a3 \in Nat \ {0},
           s2 * a1 <= s1 * a2, s3 * a2 <= s2 * a3
    PROVE  s3 * a1 <= s1 * a3
<1>1. (s2 * a1) * a3 <= (s1 * a2) * a3 /\ (s3 * a2) * a1 <= (s2 * a3) * a1
    BY ProductGrows, ProductAssoc
<1>2. (s2 * a1) * a3 = (s2 * a3) * a1
    BY ProductAssoc
<1>3. (s3 * a1) * a2 = (s3 * a2) * a1 /\ (s1 * a3) * a2 = (s1 * a2) * a3
    BY ProductAssoc
<1>4. (s3 * a1) * a2 <= (s1 * a3) * a2
    <2> DEFINE p == (s2 * a1) * a3
               q == (s1 * a2) * a3
               r == (s3 * a2) * a1
    <2>1. p \in Nat /\ q \in Nat /\ r \in Nat /\ r <= p /\ p <= q
        BY <1>1, <1>2, ProductAssoc
    <2>2. r <= q
        <3> HIDE DEF p, q, r
        <3> QED  BY <2>1
    <2> QED  BY <1>3, <2>2
<1>5. s3 * a1 \in Nat /\ s1 * a3 \in Nat
    BY ProductAssoc
<1> QED  BY <1>4, <1>5, ProductShrinks

----------------------------------------------------------------------------
(* Groups: the closest one *)

\* The group with the first title is at least as close to a as the one with the second.
AtLeast(a, b, c) == Shared(a, c) * All(a, b) <= Shared(a, b) * All(a, c)

LEMMA WordCounts ==
    ASSUME NEW a \in Articles, NEW b \in Articles
    PROVE  /\ Shared(a, b) \in Nat /\ All(a, b) \in Nat
           /\ Shared(a, b) = Shared(b, a) /\ All(a, b) = All(b, a)
           /\ Words[a] # {} => All(a, b) # 0
           /\ Shared(a, a) = Cardinality(Words[a]) /\ All(a, a) = Cardinality(Words[a])
           /\ Shared(a, b) > 0 => All(a, b) # 0
<1>1. IsFiniteSet(Words[a]) /\ IsFiniteSet(Words[b])
    BY GroupsAssumption
<1>2. IsFiniteSet(Words[a] \cap Words[b]) /\ IsFiniteSet(Words[a] \cup Words[b])
    BY <1>1, FS_Intersection, FS_Union
<1>3. /\ Words[a] \cap Words[b] = Words[b] \cap Words[a]
      /\ Words[a] \cup Words[b] = Words[b] \cup Words[a]
      /\ Words[a] \cap Words[a] = Words[a] /\ Words[a] \cup Words[a] = Words[a]
    OBVIOUS
<1>4. Words[a] # {} => All(a, b) # 0
    BY <1>2, FS_EmptySet DEF All
<1>5. Words[a] = {} => Shared(a, b) = 0
    <2> Words[a] = {} => Words[a] \cap Words[b] = {}
        OBVIOUS
    <2> QED  BY FS_EmptySet DEF Shared
<1>6. Shared(a, b) \in Nat /\ All(a, b) \in Nat
    BY <1>2, FS_CardinalityType DEF Shared, All
<1>7. Shared(a, b) > 0 => All(a, b) # 0
    BY <1>4, <1>5, <1>6
<1> QED  BY <1>3, <1>4, <1>6, <1>7 DEF Shared, All

LEMMA ClosenessLinear ==
    ASSUME NEW a \in Articles, NEW b \in Articles, NEW c \in Articles
    PROVE  /\ Closer(a, b, c) <=> ~AtLeast(a, c, b)
           /\ AtLeast(a, b, c) \/ AtLeast(a, c, b)
           /\ AtLeast(a, b, b)
<1>1. /\ Shared(a, b) * All(a, c) \in Nat /\ Shared(a, c) * All(a, b) \in Nat
      /\ Shared(a, b) * All(a, b) \in Nat
    BY WordCounts, ProductAssoc
<1> DEFINE p == Shared(a, b) * All(a, c)
           q == Shared(a, c) * All(a, b)
           r == Shared(a, b) * All(a, b)
<1>2. (p > q <=> ~(p <= q)) /\ (p <= q \/ q <= p) /\ r <= r
    <2>1. p \in Nat /\ q \in Nat /\ r \in Nat
        BY <1>1
    <2> HIDE DEF p, q, r
    <2> QED  BY <2>1
<1> QED  BY <1>2 DEF Closer, AtLeast

LEMMA AtLeastOrders ==
    ASSUME NEW a \in Articles, NEW b \in Articles, NEW c \in Articles, NEW d \in Articles,
           Shared(a, b) > 0, Shared(a, c) > 0, Shared(a, d) > 0,
           AtLeast(a, b, c), AtLeast(a, c, d)
    PROVE  AtLeast(a, b, d)
<1>1. /\ Shared(a, b) \in Nat /\ Shared(a, c) \in Nat /\ Shared(a, d) \in Nat
      /\ All(a, b) \in Nat \ {0} /\ All(a, c) \in Nat \ {0} /\ All(a, d) \in Nat \ {0}
    BY WordCounts
<1> QED  BY <1>1, RatiosOrdered DEF AtLeast

\* The group BestGroup returns, if any shares a word with a.
Sharing(a) == {i \in DOMAIN groups : Shared(a, groups[i].headline) > 0}
Best(a, i, u) ==
    \A j \in u :
        \/ Closer(a, groups[i].headline, groups[j].headline)
        \/ /\ ~Closer(a, groups[j].headline, groups[i].headline)
           /\ i <= j

LEMMA BestExists ==
    ASSUME NEW a \in Articles, groups \in Seq(GroupStates), Sharing(a) # {}
    PROVE  \E i \in Sharing(a) : Best(a, i, Sharing(a))
<1> DEFINE S == Sharing(a)
           h == [i \in S |-> groups[i].headline]
           B == {u \in SUBSET S : u = {} \/ \E i \in u : Best(a, i, u)}
<1>1. /\ IsFiniteSet(S) /\ S \subseteq Nat
      /\ \A i \in S : groups[i].headline \in Articles /\ Shared(a, groups[i].headline) > 0
    <2>1. S \subseteq 1 .. Len(groups) /\ Len(groups) \in Nat
        BY DEF Sharing
    <2>2. IsFiniteSet(1 .. Len(groups))
        BY <2>1, FS_Interval
    <2>3. IsFiniteSet(S) /\ S \subseteq Nat
        BY <2>1, <2>2, FS_Subset
    <2>4. \A i \in S : groups[i] \in GroupStates /\ Shared(a, groups[i].headline) > 0
        BY DEF Sharing
    <2> QED  BY <2>3, <2>4 DEF GroupStates
<1>2. ASSUME NEW i \in S, NEW j \in S
      PROVE  /\ Closer(a, groups[i].headline, groups[j].headline)
                   <=> ~AtLeast(a, groups[j].headline, groups[i].headline)
             /\ Closer(a, groups[j].headline, groups[i].headline)
                   <=> ~AtLeast(a, groups[i].headline, groups[j].headline)
             /\ AtLeast(a, groups[i].headline, groups[j].headline)
                   \/ AtLeast(a, groups[j].headline, groups[i].headline)
             /\ AtLeast(a, groups[i].headline, groups[i].headline)
    BY <1>1, ClosenessLinear
<1> DEFINE Ge(i, j) == AtLeast(a, groups[i].headline, groups[j].headline)
           Wins(i, j) == \/ ~Ge(j, i)
                         \/ Ge(i, j) /\ i <= j
<1>3. \A u \in SUBSET S : \A i \in S : Best(a, i, u) <=> \A j \in u : Wins(i, j)
    BY <1>2 DEF Best
<1>4. /\ \A i, j, k \in S : Ge(i, j) /\ Ge(j, k) => Ge(i, k)
      /\ \A i, j \in S : Ge(i, j) \/ Ge(j, i)
    BY <1>1, <1>2, AtLeastOrders
<1>5. \A i, j, k \in S : Wins(i, j) /\ Wins(j, k) => Wins(i, k)
    <2> SUFFICES ASSUME NEW i \in S, NEW j \in S, NEW k \in S, Wins(i, j), Wins(j, k)
                 PROVE  Wins(i, k)
        OBVIOUS
    <2>1. Ge(i, j) /\ Ge(j, k) /\ Ge(i, k)
        BY <1>4
    <2>2. i \in Nat /\ j \in Nat /\ k \in Nat
        BY <1>1
    <2>3. CASE Ge(k, i)
        <3>1. Ge(j, i) /\ Ge(k, j)
            BY <1>4, <2>1, <2>3
        <3>2. i <= j /\ j <= k
            BY <2>1, <3>1
        <3> QED  BY <2>1, <2>2, <3>2
    <2> QED  BY <2>3
<1>6. \A i, j \in S : Wins(i, i) /\ (Wins(i, j) \/ Wins(j, i))
    <2> SUFFICES ASSUME NEW i \in S, NEW j \in S
                 PROVE  Wins(i, i) /\ (Wins(i, j) \/ Wins(j, i))
        OBVIOUS
    <2>1. i \in Nat /\ j \in Nat /\ Ge(i, i) /\ (Ge(i, j) \/ Ge(j, i))
        BY <1>1, <1>4
    <2>2. i <= i /\ (i <= j \/ j <= i)
        BY <2>1
    <2> QED  BY <2>1, <2>2
<1> HIDE DEF Wins, Ge, S
<1>7. {} \in B
    OBVIOUS
<1>8. ASSUME NEW u \in SUBSET S, NEW x \in S \ u, u \in B
      PROVE  u \cup {x} \in B
    <2>1. CASE u = {}
        <3>1. Best(a, x, {x})
            BY <1>3, <1>6
        <3>2. u \cup {x} = {x}
            BY <2>1
        <3> QED  BY <3>1, <3>2
    <2>2. ASSUME NEW i \in u, Best(a, i, u)
          PROVE  u \cup {x} \in B
        <3>1. i \in S /\ x \in S /\ \A j \in u : Wins(i, j)
            BY <1>3, <2>2
        <3>2. CASE Wins(i, x)
            <4>1. Best(a, i, u \cup {x})
                BY <1>3, <3>1, <3>2
            <4> QED  BY <4>1
        <3>3. CASE ~Wins(i, x)
            <4>1. Wins(x, i) /\ Wins(x, x)
                BY <1>6, <3>1, <3>3
            <4>2. \A j \in u : Wins(x, j)
                BY <1>5, <3>1, <4>1
            <4>3. Best(a, x, u \cup {x})
                BY <1>3, <3>1, <4>1, <4>2
            <4> QED  BY <4>3
        <3> QED  BY <3>2, <3>3
    <2> QED  BY <1>8, <2>1, <2>2
<1>9. SUBSET S \subseteq B
    <2> HIDE DEF B
    <2> QED  BY <1>1, <1>7, <1>8, SubsetInduction
<1> QED  BY <1>9 DEF S

LEMMA BestFound ==
    ASSUME NEW a \in Articles, groups \in Seq(GroupStates)
    PROVE  /\ BestGroup(a) = 0 <=> Sharing(a) = {}
           /\ BestGroup(a) # 0 =>
                /\ BestGroup(a) \in DOMAIN groups
                /\ BestGroup(a) \in Sharing(a) /\ Best(a, BestGroup(a), Sharing(a))
<1>1. Sharing(a) \subseteq 1 .. Len(groups) /\ Sharing(a) \subseteq DOMAIN groups
    BY DEF Sharing
<1>2. CASE Sharing(a) = {}
    BY <1>2 DEF BestGroup, Sharing
<1>3. CASE Sharing(a) # {}
    <2>1. BestGroup(a) = CHOOSE i \in Sharing(a) : Best(a, i, Sharing(a))
        BY <1>3 DEF BestGroup, Sharing, Best
    <2>2. BestGroup(a) \in Sharing(a) /\ Best(a, BestGroup(a), Sharing(a))
        BY <1>3, <2>1, BestExists
    <2>3. BestGroup(a) # 0
        BY <1>1, <2>2
    <2> QED  BY <1>1, <1>3, <2>2, <2>3
<1> QED  BY <1>2, <1>3

\* An article that is not like the closest group is like none.
LEMMA LikeNone ==
    ASSUME NEW a \in Articles, groups \in Seq(GroupStates), Words[a] # {},
           BestGroup(a) # 0 => ~Similar(a, groups[BestGroup(a)].headline)
    PROVE  \A i \in DOMAIN groups : ~Similar(a, groups[i].headline)
<1> SUFFICES ASSUME NEW i \in DOMAIN groups, Similar(a, groups[i].headline)
             PROVE  FALSE
    OBVIOUS
<1> DEFINE c == groups[i].headline
<1>1. c \in Articles
    <2>1. groups[i] \in GroupStates
        OBVIOUS
    <2> QED  BY <2>1 DEF GroupStates
<1>2. Shared(a, c) \in Nat /\ All(a, c) \in Nat \ {0} /\ 28 * All(a, c) <= 100 * Shared(a, c)
    BY <1>1, WordCounts DEF Similar
<1>3. i \in Sharing(a)
    BY <1>2 DEF Sharing
<1> DEFINE k == BestGroup(a)
           b == groups[k].headline
<1>4. k \in Sharing(a) /\ k \in DOMAIN groups /\ Best(a, k, Sharing(a)) /\ ~Similar(a, b)
    BY <1>3, BestFound
<1>5. b \in Articles
    <2>1. groups[k] \in GroupStates
        BY <1>4
    <2> QED  BY <2>1 DEF GroupStates
<1>6. AtLeast(a, b, c)
    BY <1>1, <1>3, <1>4, <1>5, ClosenessLinear DEF Best
<1>7. /\ Shared(a, b) \in Nat /\ All(a, b) \in Nat \ {0}
      /\ 100 * Shared(a, b) < 28 * All(a, b)
    <2>1. Shared(a, b) > 0
        BY <1>4 DEF Sharing
    <2> QED  BY <1>4, <1>5, <2>1, WordCounts DEF Similar
<1> HIDE DEF b, c, k
<1> DEFINE sb == Shared(a, b)
           ab == All(a, b)
           sc == Shared(a, c)
           ac == All(a, c)
<1>8. sc * ab <= sb * ac /\ sb \in Nat /\ sc \in Nat /\ ab \in Nat \ {0} /\ ac \in Nat \ {0}
      /\ 28 * ac <= 100 * sc /\ 100 * sb < 28 * ab
    BY <1>2, <1>6, <1>7 DEF AtLeast
<1> HIDE DEF sb, ab, sc, ac
<1>9. 100 * (sc * ab) <= 100 * (sb * ac)
    <2>1. sc * ab \in Nat /\ sb * ac \in Nat
        BY <1>8, ProductAssoc
    <2> QED  BY <1>8, <2>1
<1>10. (28 * ac) * ab <= (100 * sc) * ab /\ (100 * sc) * ab = 100 * (sc * ab)
    BY <1>8, ProductGrows, ProductAssoc
<1>11. (100 * sb + 1) * ac <= (28 * ab) * ac
    BY <1>8, ProductGrows
<1>12. (28 * ab) * ac = (28 * ac) * ab /\ (100 * sb + 1) * ac = 100 * (sb * ac) + ac
    BY <1>8
<1> QED  BY <1>8, <1>9, <1>10, <1>11, <1>12, ProductAssoc

----------------------------------------------------------------------------
(* Groups: types, and what groups hold *)

\* No two articles of a group have one publisher.
DomainsApart ==
    \A i \in DOMAIN groups :
        /\ IsFiniteSet(groups[i].articles)
        /\ \A a, b \in groups[i].articles : a # b => Domain[a] # Domain[b]

GroupsInv == GroupsTypeOK /\ StoriesApart /\ DomainsApart /\ CorroboratedByTwo

LEMMA GroupsInitHolds == GroupsInit => GroupsInv
<1> SUFFICES ASSUME GroupsInit
             PROVE  GroupsInv
    OBVIOUS
<1>1. feed \in Seq(Articles)
    <2>1. PICK n \in 0 .. MaxFeed : feed \in [1 .. n -> Articles]
        BY DEF GroupsInit, Feeds
    <2> QED  BY <2>1, GroupsAssumption
<1>2. groups = <<>> /\ eligible = <<>> /\ looked = 0 /\ Len(groups) = 0
    BY DEF GroupsInit
<1>3. GroupsTypeOK
    BY <1>1, <1>2 DEF GroupsInit, GroupsTypeOK
<1>4. DOMAIN groups = {} /\ DOMAIN eligible = {}
    BY <1>2
<1> QED  BY <1>3, <1>4 DEF GroupsInv, StoriesApart, DomainsApart, CorroboratedByTwo

LEMMA SimilarTo ==
    ASSUME NEW a \in Articles, NEW b \in Articles
    PROVE  Similar(a, a) /\ (Similar(a, b) <=> Similar(b, a))
<1>1. Cardinality(Words[a]) \in Nat
    BY GroupsAssumption, FS_CardinalityType
<1> QED  BY <1>1, WordCounts DEF Similar

LEMMA JoinKeeps ==
    ASSUME GroupsInv, NEW a \in Articles, NEW k \in DOMAIN groups,
           Similar(a, groups[k].headline), ~GroupHasDomain(k, a),
           groups' = [groups EXCEPT ![k].articles = @ \cup {a}]
    PROVE  /\ groups' \in Seq(GroupStates) /\ Len(groups') = Len(groups)
           /\ StoriesApart' /\ DomainsApart'
<1>1. groups \in Seq(GroupStates) /\ StoriesApart /\ DomainsApart
    BY DEF GroupsInv, GroupsTypeOK
<1>2. groups[k] \in GroupStates
    BY <1>1
<1> DEFINE g == [groups[k] EXCEPT !.articles = groups[k].articles \cup {a}]
<1>3. g \in GroupStates /\ g.headline = groups[k].headline
      /\ g.articles = groups[k].articles \cup {a}
    BY <1>2 DEF GroupStates
<1>4. groups' = [groups EXCEPT ![k] = g]
    OBVIOUS
<1> HIDE DEF g
<1>5. /\ groups' \in Seq(GroupStates) /\ Len(groups') = Len(groups)
      /\ DOMAIN groups' = DOMAIN groups
      /\ groups'[k] = g /\ \A i \in DOMAIN groups \ {k} : groups'[i] = groups[i]
    <2> DEFINE n == Len(groups)
    <2>1. n \in Nat /\ groups \in [1 .. n -> GroupStates]
        BY <1>1
    <2>2. /\ groups' \in [1 .. n -> GroupStates] /\ groups'[k] = g
          /\ \A i \in DOMAIN groups \ {k} : groups'[i] = groups[i]
        <3> HIDE DEF n
        <3> QED  BY <1>3, <1>4, <2>1
    <2>3. groups' \in Seq(GroupStates) /\ Len(groups') = n /\ DOMAIN groups' = DOMAIN groups
        <3> HIDE DEF n
        <3> QED  BY <2>1, <2>2
    <2> QED  BY <2>2, <2>3
<1>6. \A i \in DOMAIN groups :
         /\ groups'[i].headline = groups[i].headline
         /\ groups'[i].articles = IF i = k THEN groups[i].articles \cup {a}
                                  ELSE groups[i].articles
    BY <1>3, <1>5
<1>7. StoriesApart'
    BY <1>1, <1>5, <1>6 DEF StoriesApart
<1>8. DomainsApart'
    <2>1. \A i \in DOMAIN groups : IsFiniteSet(groups'[i].articles)
        <3>1. \A i \in DOMAIN groups :
                 /\ IsFiniteSet(groups[i].articles)
                 /\ IsFiniteSet(groups[i].articles \cup {a})
            BY <1>1, FS_AddElement DEF DomainsApart
        <3> QED  BY <1>6, <3>1
    <2>2. \A b \in groups[k].articles : Domain[b] # Domain[a]
        BY DEF GroupHasDomain
    <2>3. ASSUME NEW i \in DOMAIN groups, NEW b \in groups'[i].articles,
                 NEW d \in groups'[i].articles, b # d
          PROVE  Domain[b] # Domain[d]
        BY <1>1, <1>6, <2>2, <2>3 DEF DomainsApart
    <2> QED  BY <1>5, <2>1, <2>3 DEF DomainsApart
<1> QED  BY <1>5, <1>7, <1>8

LEMMA BeginKeeps ==
    ASSUME GroupsInv, NEW a \in Articles, \A i \in DOMAIN groups : ~Similar(a, groups[i].headline),
           groups' = Append(groups, [headline |-> a, articles |-> {a}])
    PROVE  /\ groups' \in Seq(GroupStates) /\ Len(groups') = Len(groups) + 1
           /\ StoriesApart' /\ DomainsApart'
<1>1. groups \in Seq(GroupStates) /\ StoriesApart /\ DomainsApart
    BY DEF GroupsInv, GroupsTypeOK
<1> DEFINE g == [headline |-> a, articles |-> {a}]
           n == Len(groups) + 1
<1>2. g \in GroupStates /\ g.headline = a /\ g.articles = {a}
    BY DEF GroupStates
<1> HIDE DEF g
<1>3. /\ groups' \in Seq(GroupStates) /\ Len(groups') = n
      /\ DOMAIN groups' = DOMAIN groups \cup {n} /\ n \notin DOMAIN groups
      /\ groups'[n] = g /\ \A i \in DOMAIN groups : groups'[i] = groups[i]
    BY <1>1, <1>2 DEF g
<1> HIDE DEF n
<1>4. \A i \in DOMAIN groups : groups[i].headline \in Articles
    <2> \A i \in DOMAIN groups : groups[i] \in GroupStates
        BY <1>1
    <2> QED  BY DEF GroupStates
<1>5. \A i \in DOMAIN groups : ~Similar(groups[i].headline, a)
    BY <1>4, SimilarTo
<1>6. StoriesApart'
    BY <1>1, <1>2, <1>3, <1>5, SimilarTo DEF StoriesApart
<1>7. IsFiniteSet({a})
    BY FS_Singleton
<1>8. DomainsApart'
    BY <1>1, <1>2, <1>3, <1>7 DEF DomainsApart
<1> QED  BY <1>3, <1>6, <1>8 DEF n

LEMMA TakeArticleKeeps ==
    ASSUME GroupsInv, TakeArticle
    PROVE  GroupsInv'
<1> DEFINE a == Head(feed)
           best == BestGroup(a)
<1>1. /\ a \in Articles /\ feed' \in Seq(Articles)
      /\ groups \in Seq(GroupStates) /\ Len(groups) \in Nat
    BY DEF GroupsInv, GroupsTypeOK, TakeArticle
<1>2. UNCHANGED <<filter, limit, looked, eligible>>
    BY DEF TakeArticle
<1>3. CorroboratedByTwo'
    BY <1>2 DEF GroupsInv, CorroboratedByTwo
<1>4. /\ groups' \in Seq(GroupStates) /\ Len(groups') >= Len(groups)
      /\ StoriesApart' /\ DomainsApart' /\ Len(groups') \in Nat
    <2>1. CASE groups' = groups
        BY <1>1, <2>1 DEF GroupsInv, StoriesApart, DomainsApart
    <2>2. CASE /\ best # 0 /\ Similar(a, groups[best].headline)
               /\ ~GroupHasDomain(best, a)
               /\ groups' = [groups EXCEPT ![best].articles = @ \cup {a}]
        <3>1. best \in DOMAIN groups
            BY <1>1, <2>2, BestFound
        <3> HIDE DEF best, a
        <3>2. /\ groups' \in Seq(GroupStates) /\ Len(groups') = Len(groups)
              /\ StoriesApart' /\ DomainsApart'
            BY <1>1, <2>2, <3>1, JoinKeeps
        <3> QED  BY <1>1, <3>2
    <2>3. CASE /\ ~(Cardinality(Words[a]) < 3)
               /\ ~(best # 0 /\ Similar(a, groups[best].headline))
               /\ groups' = Append(groups, [headline |-> a, articles |-> {a}])
        <3>1. Words[a] # {}
            <4> SUFFICES ASSUME Words[a] = {}
                         PROVE  Cardinality(Words[a]) < 3
                BY <2>3
            <4>1. Cardinality(Words[a]) = 0
                BY FS_EmptySet
            <4> QED  BY <4>1
        <3>2. \A i \in DOMAIN groups : ~Similar(a, groups[i].headline)
            BY <1>1, <2>3, <3>1, LikeNone
        <3> HIDE DEF best, a
        <3>3. /\ groups' \in Seq(GroupStates) /\ Len(groups') = Len(groups) + 1
              /\ StoriesApart' /\ DomainsApart'
            BY <1>1, <2>3, <3>2, BeginKeeps
        <3> QED  BY <1>1, <3>3
    <2> QED  BY <2>1, <2>2, <2>3 DEF TakeArticle
<1>5. GroupsTypeOK'
    BY <1>1, <1>2, <1>4 DEF GroupsInv, GroupsTypeOK
<1> QED  BY <1>3, <1>4, <1>5 DEF GroupsInv

LEMMA TwoOf ==
    ASSUME NEW S, IsFiniteSet(S), Cardinality(S) >= 2
    PROVE  \E a, b \in S : a # b
<1>1. S # {}
    BY FS_EmptySet
<1>2. PICK a \in S : TRUE
    BY <1>1
<1>3. S # {a}
    BY FS_Singleton
<1> QED  BY <1>2, <1>3

LEMMA KeepEligibleKeeps ==
    ASSUME GroupsInv, KeepEligible
    PROVE  GroupsInv'
<1> DEFINE n == looked + 1
           group == groups[n]
<1>1. /\ UNCHANGED <<feed, filter, limit, groups>> /\ looked' = looked + 1
      /\ looked < Len(groups)
      /\ eligible' = IF GroupMatchesFilter(group) THEN Append(eligible, group) ELSE eligible
    BY DEF KeepEligible
<1>2. groups \in Seq(GroupStates) /\ eligible \in Seq(GroupStates) /\ looked \in 0 .. Len(groups)
    BY DEF GroupsInv, GroupsTypeOK
<1>3. n \in DOMAIN groups /\ group \in GroupStates /\ looked' \in 0 .. Len(groups')
    BY <1>1, <1>2
<1>4. StoriesApart' /\ DomainsApart'
    BY <1>1 DEF GroupsInv, StoriesApart, DomainsApart
<1>5. GroupsTypeOK' /\ CorroboratedByTwo'
    <2>1. CASE eligible' = eligible
        BY <1>1, <1>2, <1>3, <2>1 DEF GroupsInv, GroupsTypeOK, CorroboratedByTwo
    <2>2. CASE eligible' = Append(eligible, group) /\ GroupMatchesFilter(group)
        <3> HIDE DEF n, group
        <3>1. /\ eligible' \in Seq(GroupStates)
              /\ \A i \in DOMAIN eligible' :
                    eligible'[i] = group \/ (i \in DOMAIN eligible /\ eligible'[i] = eligible[i])
            BY <1>2, <1>3, <2>2
        <3>2. GroupsTypeOK'
            BY <1>1, <1>2, <1>3, <3>1 DEF GroupsInv, GroupsTypeOK
        <3>3. filter = "corroborated" =>
                 \E a, b \in group.articles : Domain[a] # Domain[b]
            <4> SUFFICES ASSUME filter = "corroborated"
                         PROVE  \E a, b \in group.articles : Domain[a] # Domain[b]
                OBVIOUS
            <4>1. Cardinality(group.articles) >= 2
                BY <2>2 DEF GroupMatchesFilter
            <4>2. IsFiniteSet(group.articles)
                BY <1>3 DEF GroupsInv, DomainsApart, group
            <4>3. PICK a \in group.articles, b \in group.articles : a # b
                BY <4>1, <4>2, TwoOf
            <4>4. Domain[a] # Domain[b]
                BY <1>3, <4>3 DEF GroupsInv, DomainsApart, group
            <4> QED  BY <4>4
        <3>4. CorroboratedByTwo'
            BY <1>1, <3>1, <3>3 DEF GroupsInv, CorroboratedByTwo
        <3> QED  BY <3>2, <3>4
    <2> QED  BY <1>1, <2>1, <2>2
<1> QED  BY <1>4, <1>5 DEF GroupsInv

LEMMA GroupsInvariant == GroupsSpec => []GroupsInv
<1>1. GroupsInv /\ [GroupsNext]_groupsVars => GroupsInv'
    <2> SUFFICES ASSUME GroupsInv, [GroupsNext]_groupsVars
                 PROVE  GroupsInv'
        OBVIOUS
    <2>1. CASE UNCHANGED groupsVars
        BY <2>1 DEF groupsVars, GroupsInv, GroupsTypeOK, StoriesApart, DomainsApart,
                    CorroboratedByTwo
    <2> QED  BY <2>1, TakeArticleKeeps, KeepEligibleKeeps DEF GroupsNext
<1> QED  BY <1>1, GroupsInitHolds, PTL DEF GroupsSpec

\* Feeds, groups and results keep their types, for feeds of every length.
THEOREM GroupsTyped == GroupsSpec => []GroupsTypeOK
<1>1. GroupsInv => GroupsTypeOK
    BY DEF GroupsInv
<1> QED  BY <1>1, GroupsInvariant, PTL

\* The headlines of two groups are never alike enough for one group, and a group's
\* articles are alike enough to its headline: an article that is not like the
\* closest headline is like none of them (groupArticles).  Which articles of a
\* chain of likeness come together, the order decides.
THEOREM StoriesAreApart == GroupsSpec => []StoriesApart
<1>1. GroupsInv => StoriesApart
    BY DEF GroupsInv
<1> QED  BY <1>1, GroupsInvariant, PTL

\* What passes the filter "corroborated" has two publishers, although the filter
\* counts articles only (groupMatchesFilter, groupHasDomain).
THEOREM CorroborationsHold == GroupsSpec => []CorroboratedByTwo
<1>1. GroupsInv => CorroboratedByTwo
    BY DEF GroupsInv
<1> QED  BY <1>1, GroupsInvariant, PTL

=============================================================================
