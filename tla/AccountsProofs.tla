---------------------------- MODULE AccountsProofs ----------------------------
(***************************************************************************)
(* Logins and the welcome grant, for every number of owners, User nodes,   *)
(* challenges, requests and transfers: a signed challenge opens one        *)
(* session, and the welcome tokens of a User node are sent no more often   *)
(* than they were attempted for a reason.                                  *)
(***************************************************************************)
EXTENDS Accounts, FiniteSetTheorems, TLAPS

ClientStates ==
    [pc : ClientSteps, owner : Owners \cup {Nobody},
     user : Users \cup {Nobody}, wallet : 0 .. LastWallet, nonce : Nonces \cup {Nobody},
     status : GrantStatuses, ids : SUBSET Transfers, todo : SUBSET (Users \cup Transfers)]

GrantStates ==
    [status : GrantStatuses, wallet : 0 .. LastWallet, ids : SUBSET Transfers,
     before : SUBSET Transfers, stale : BOOLEAN]

Serving == ClientSteps \ {"idle", "next", "upsert", "create"}

\* A login knows whose it is, and a request that serves a user which; it records a
\* result, and looks through transfers.
Sound(s) ==
    /\ s \in ClientStates
    /\ s.pc \in {"upsert", "create"} => s.owner \in Owners
    /\ s.pc \in Serving => s.user \in Users
    /\ s.pc = "record" => s.status # "none" /\ (s.status = "sent" <=> s.ids # {})
    /\ s.pc \in {"reconcile", "note"} => s.todo \subseteq Transfers

RequestsSound == \A c \in Clients : Sound(clients[c])

\* A challenge that has not been consumed is in no request and opened nothing; a
\* consumed one is in one request at most, and in none once it opened a session.
SessionInv ==
    /\ \A n \in Nonces : sessions[n] <= 1
    /\ \A n \in Nonces : challenges[n] # "consumed" => sessions[n] = 0
    /\ \A n \in Nonces, c \in Clients : clients[c].nonce = n =>
          challenges[n] = "consumed" /\ sessions[n] = 0
    /\ \A n \in Nonces, c, d \in Clients :
          clients[c].nonce = n /\ clients[d].nonce = n => c = d

\* The requests that are about to send u her tokens.
Attempting(u) == {c \in Clients : clients[c].pc = "attempt" /\ clients[c].user = u}

Allowed(u) == retried[u] + (IF grants[u].status = "none" THEN 0 ELSE 1)

\* Each attempt that was made or is being made is the first, with which the grant
\* was created, or was counted.
AttemptsCounted ==
    \A u \in Users :
        Cardinality(GrantTransfers(u)) + Cardinality(Attempting(u)) <= Allowed(u)

AccountsInv ==
    AccountsTypeOK /\ RequestsSound /\ SessionInv /\ AttemptsCounted

----------------------------------------------------------------------------
(* How the parts of the invariant are kept *)

\* No challenge is touched, and no request takes one.
NoncesKept ==
    /\ UNCHANGED <<challenges, sessions>>
    /\ \A c \in Clients : clients'[c].nonce \in {clients[c].nonce, Nobody}

LEMMA SessionsKept ==
    ASSUME SessionInv, NoncesKept
    PROVE  SessionInv'
BY AccountsAssumption DEF SessionInv, NoncesKept

\* No request begins an attempt and no tokens of a grant are sent.
AttemptsKept ==
    /\ \A x \in Transfers : transfers'[x].grant =>
          transfers[x].grant /\ transfers'[x].user = transfers[x].user
    /\ \A c \in Clients : clients'[c].pc = "attempt" =>
          clients[c].pc = "attempt" /\ clients'[c].user = clients[c].user
    /\ \A u \in Users :
          /\ retried'[u] >= retried[u]
          /\ grants'[u].status = "none" => grants[u].status = "none"

LEMMA CountedSetsFinite ==
    ASSUME NEW u
    PROVE  /\ IsFiniteSet(GrantTransfers(u)) /\ IsFiniteSet(GrantTransfers(u)')
           /\ IsFiniteSet(Attempting(u)) /\ IsFiniteSet(Attempting(u)')
<1>1. /\ GrantTransfers(u) \subseteq Transfers /\ GrantTransfers(u)' \subseteq Transfers
      /\ Attempting(u) \subseteq Clients /\ Attempting(u)' \subseteq Clients
  BY DEF GrantTransfers, Attempting
<1> QED  BY <1>1, AccountsAssumption, FS_Subset

LEMMA CountsFewer ==
    ASSUME AccountsTypeOK, AccountsTypeOK', NEW u \in Users,
           GrantTransfers(u)' \subseteq GrantTransfers(u),
           Attempting(u)' \subseteq Attempting(u),
           Cardinality(GrantTransfers(u)) + Cardinality(Attempting(u)) <= Allowed(u),
           retried'[u] >= retried[u],
           grants'[u].status = "none" => grants[u].status = "none"
    PROVE  Cardinality(GrantTransfers(u)') + Cardinality(Attempting(u)') <= Allowed(u)'
<1>1. /\ Cardinality(GrantTransfers(u)') <= Cardinality(GrantTransfers(u))
      /\ Cardinality(Attempting(u)') <= Cardinality(Attempting(u))
  BY CountedSetsFinite, FS_Subset
<1>2. /\ Cardinality(GrantTransfers(u)') \in Nat /\ Cardinality(GrantTransfers(u)) \in Nat
      /\ Cardinality(Attempting(u)') \in Nat /\ Cardinality(Attempting(u)) \in Nat
  BY CountedSetsFinite, FS_CardinalityType
<1>3. retried[u] \in Nat /\ retried'[u] \in Nat
  BY AccountsAssumption DEF AccountsTypeOK
<1>4. Allowed(u)' >= Allowed(u) /\ Allowed(u) \in Nat /\ Allowed(u)' \in Nat
  BY <1>3 DEF Allowed
<1> QED  BY <1>1, <1>2, <1>4

LEMMA CountedKept ==
    ASSUME AccountsTypeOK, AccountsTypeOK', AttemptsCounted, AttemptsKept
    PROVE  AttemptsCounted'
<1> SUFFICES ASSUME NEW u \in Users
             PROVE  (Cardinality(GrantTransfers(u)) + Cardinality(Attempting(u))
                        <= Allowed(u))'
  BY DEF AttemptsCounted
<1>1. GrantTransfers(u)' \subseteq GrantTransfers(u) /\ Attempting(u)' \subseteq Attempting(u)
  BY DEF AttemptsKept, GrantTransfers, Attempting
<1> QED  BY <1>1, CountsFewer DEF AttemptsKept, AttemptsCounted

LEMMA IdleSound == Sound(IdleClient)
BY AccountsAssumption DEF Sound, IdleClient, ClientStates, ClientSteps, GrantStatuses,
                          Serving

LEMMA TurnsSound ==
    ASSUME AccountsTypeOK, RequestsSound, NEW c \in Clients, NEW s, Sound(s), Turns(c, s)
    PROVE  /\ clients' \in [Clients -> ClientStates]
           /\ RequestsSound'
           /\ clients'[c] = s
           /\ \A d \in Clients \ {c} : clients'[d] = clients[d]
BY DEF AccountsTypeOK, RequestsSound, Sound, Turns, ClientStates

\* What a request becomes when it is through with a grant.
LEMMA AfterGrantSound ==
    ASSUME NEW c \in Clients, Sound(clients[c]), clients[c].user \in Users
    PROVE  /\ Sound(AfterGrant(c))
           /\ AfterGrant(c).pc # "attempt"
           /\ AfterGrant(c).nonce \in {clients[c].nonce, Nobody}
<1> DEFINE next == [IdleClient EXCEPT !.pc = "next", !.todo = clients[c].todo]
<1> DEFINE done == [clients[c] EXCEPT !.pc = "session", !.status = "none", !.ids = {}]
<1>1. AfterGrant(c) \in {IdleClient, next, done}
  BY DEF AfterGrant
<1>2. IdleClient.pc = "idle" /\ IdleClient.nonce = Nobody /\ IdleClient \in ClientStates
  BY IdleSound DEF Sound, IdleClient
<1>3. clients[c] \in ClientStates
  BY DEF Sound
<1>4. next \in ClientStates /\ next.pc = "next" /\ next.nonce = Nobody
  BY <1>2, <1>3 DEF ClientStates, ClientSteps
<1>5. /\ done \in ClientStates /\ done.pc = "session" /\ done.user \in Users
      /\ done.nonce = clients[c].nonce
  BY <1>3 DEF ClientStates, ClientSteps, GrantStatuses
<1> HIDE DEF next, done
<1>6. Sound(next) /\ Sound(done)
  BY <1>4, <1>5 DEF Sound, Serving
<1> QED  BY <1>1, <1>2, <1>4, <1>5, <1>6, IdleSound

\* The ledger of grants goes on: no grant is forgotten, no count falls, and no
\* grant's tokens are sent.
LedgerKept ==
    /\ \A x \in Transfers : transfers'[x].grant =>
          transfers[x].grant /\ transfers'[x].user = transfers[x].user
    /\ \A u \in Users :
          /\ retried'[u] >= retried[u]
          /\ grants'[u].status = "none" => grants[u].status = "none"

LEMMA LedgerUnchanged ==
    ASSUME AccountsTypeOK, UNCHANGED <<transfers, retried, grants>>
    PROVE  LedgerKept
<1>1. \A u \in Users : retried[u] \in Nat
  BY AccountsAssumption DEF AccountsTypeOK
<1> QED  BY <1>1 DEF LedgerKept

\* One request goes on, and not to an attempt.
LEMMA GoesOn ==
    ASSUME AccountsInv, AccountsTypeOK', NEW c \in Clients, NEW s, Sound(s),
           Turns(c, s), s.pc # "attempt", s.nonce \in {clients[c].nonce, Nobody},
           UNCHANGED <<challenges, sessions>>, LedgerKept
    PROVE  AccountsInv'
<1>1. /\ RequestsSound' /\ clients'[c] = s
      /\ \A d \in Clients \ {c} : clients'[d] = clients[d]
  BY TurnsSound DEF AccountsInv
<1>2. NoncesKept
  BY <1>1 DEF NoncesKept
<1>3. AttemptsKept
  BY <1>1 DEF AttemptsKept, LedgerKept
<1> QED  BY <1>1, <1>2, <1>3, SessionsKept, CountedKept DEF AccountsInv

\* ... and touches nothing but its own state.
LEMMA GoesOnAlone ==
    ASSUME AccountsInv, NEW c \in Clients, NEW s, Sound(s),
           Turns(c, s), s.pc # "attempt", s.nonce \in {clients[c].nonce, Nobody},
           UNCHANGED <<wallet, engineWallet, challenges, sessions, grants, transfers,
                       noted, amountValid, retried>>
    PROVE  AccountsInv'
<1>1. clients' \in [Clients -> ClientStates]
  BY TurnsSound DEF AccountsInv
<1>2. AccountsTypeOK'
  BY <1>1 DEF AccountsInv, AccountsTypeOK, ClientStates
<1> QED  BY <1>2, GoesOn, LedgerUnchanged DEF AccountsInv

\* No request moves.
LEMMA NobodyMoves ==
    ASSUME AccountsInv, AccountsTypeOK', UNCHANGED clients, LedgerKept
    PROVE  RequestsSound' /\ AttemptsCounted'
<1>1. AttemptsKept
  BY DEF AttemptsKept, LedgerKept
<1> QED  BY <1>1, CountedKept DEF AccountsInv, RequestsSound

LEMMA AccountsInitHolds == AccountsInit => AccountsInv
<1> SUFFICES ASSUME AccountsInit
             PROVE  AccountsInv
  OBVIOUS
<1>1. AccountsTypeOK
  BY AccountsAssumption, IdleSound
     DEF AccountsInit, AccountsTypeOK, Sound, ClientStates, NoGrant, Unsent, GrantStatuses
<1>2. RequestsSound
  BY IdleSound DEF AccountsInit, RequestsSound
<1>3. SessionInv
  BY AccountsAssumption DEF AccountsInit, SessionInv, IdleClient
<1>4. ASSUME NEW u \in Users
      PROVE  Cardinality(GrantTransfers(u)) + Cardinality(Attempting(u)) <= Allowed(u)
  <2>1. GrantTransfers(u) = {} /\ Attempting(u) = {}
    BY DEF AccountsInit, GrantTransfers, Attempting, Unsent, IdleClient
  <2>2. Allowed(u) = 0
    BY DEF AccountsInit, Allowed, NoGrant
  <2> QED  BY <2>1, <2>2, FS_EmptySet
<1> QED  BY <1>1, <1>2, <1>3, <1>4 DEF AccountsInv, AttemptsCounted

----------------------------------------------------------------------------
(* The actions *)

LEMMA ChallengesHold ==
    ASSUME AccountsInv, NEW n \in Nonces,
           CreateWalletLoginChallenge(n) \/ ChallengeExpires(n)
    PROVE  AccountsInv'
<1>1. /\ challenges[n] # "consumed" /\ challenges'[n] \in {"open", "expired"}
      /\ \A k \in Nonces \ {n} : challenges'[k] = challenges[k]
      /\ challenges' \in [Nonces -> {"none", "open", "expired", "consumed"}]
      /\ UNCHANGED <<wallet, engineWallet, sessions, grants, transfers, noted,
                     clients, amountValid, retried>>
  BY DEF CreateWalletLoginChallenge, ChallengeExpires, AccountsInv, AccountsTypeOK
<1>2. AccountsTypeOK'
  BY <1>1 DEF AccountsInv, AccountsTypeOK
<1>3. SessionInv'
  BY <1>1 DEF AccountsInv, SessionInv
<1> QED  BY <1>1, <1>2, <1>3, NobodyMoves, LedgerUnchanged DEF AccountsInv

LEMMA WalletLoginVerifyHolds ==
    ASSUME AccountsInv, NEW c \in Clients, NEW n \in Nonces, WalletLoginVerify(c, n)
    PROVE  AccountsInv'
<1> DEFINE s == [IdleClient EXCEPT !.pc = "upsert", !.owner = NonceOf[n],
                                   !.wallet = 1, !.nonce = n]
<1>1. /\ challenges[n] = "open" /\ challenges'[n] = "consumed"
      /\ \A k \in Nonces \ {n} : challenges'[k] = challenges[k]
      /\ challenges' \in [Nonces -> {"none", "open", "expired", "consumed"}]
      /\ Turns(c, s) \/ UNCHANGED clients
      /\ UNCHANGED <<wallet, engineWallet, sessions, grants, transfers, noted,
                     amountValid, retried>>
  BY DEF WalletLoginVerify, ConsumedState, AccountsInv, AccountsTypeOK
<1>2. Sound(s) /\ s.pc = "upsert" /\ s.nonce = n
  <2>1. NonceOf[n] \in Owners /\ 1 \in 0 .. LastWallet
    BY AccountsAssumption
  <2>2. s \in ClientStates /\ s.pc = "upsert" /\ s.nonce = n /\ s.owner \in Owners
    BY <2>1 DEF IdleClient, ClientStates, ClientSteps, GrantStatuses
  <2> QED  BY <2>2 DEF Sound, Serving
<1> HIDE DEF s
<1>3. CASE Turns(c, s)
  <2>1. /\ clients' \in [Clients -> ClientStates] /\ RequestsSound' /\ clients'[c] = s
        /\ \A d \in Clients \ {c} : clients'[d] = clients[d]
    BY <1>2, <1>3, TurnsSound DEF AccountsInv
  <2>2. AccountsTypeOK'
    BY <1>1, <2>1 DEF AccountsInv, AccountsTypeOK, ClientStates
  <2>3. SessionInv'
    BY <1>1, <1>2, <2>1 DEF AccountsInv, SessionInv
  <2>4. AttemptsKept
    BY <1>1, <1>2, <2>1, LedgerUnchanged DEF AccountsInv, AttemptsKept, LedgerKept
  <2> QED  BY <2>1, <2>2, <2>3, <2>4, CountedKept DEF AccountsInv
<1>4. CASE UNCHANGED clients
  <2>1. AccountsTypeOK'
    BY <1>1, <1>4 DEF AccountsInv, AccountsTypeOK
  <2>2. SessionInv'
    BY <1>1, <1>4 DEF AccountsInv, SessionInv
  <2> QED  BY <1>1, <1>4, <2>1, <2>2, NobodyMoves, LedgerUnchanged DEF AccountsInv
<1> QED  BY <1>1, <1>3, <1>4

LEMMA GoogleOAuthCallbackHolds ==
    ASSUME AccountsInv, NEW c \in Clients, NEW o \in Owners, GoogleOAuthCallback(c, o)
    PROVE  AccountsInv'
<1> DEFINE s == [IdleClient EXCEPT !.pc = "upsert", !.owner = o,
                                   !.wallet = engineWallet[o]]
<1>1. engineWallet[o] \in 0 .. LastWallet
  BY AccountsAssumption DEF AccountsInv, AccountsTypeOK
<1>2. Sound(s) /\ s.pc # "attempt" /\ s.nonce = Nobody
  BY <1>1, AccountsAssumption
     DEF Sound, IdleClient, ClientStates, ClientSteps, GrantStatuses, Serving
<1> QED  BY <1>2, GoesOnAlone DEF GoogleOAuthCallback

\* A node gets a wallet, and the request goes on with the grant.
LEMMA WalletStored ==
    ASSUME AccountsInv, NEW c \in Clients, NEW s, Sound(s), s.pc # "attempt",
           s.nonce \in {clients[c].nonce, Nobody}, Turns(c, s),
           wallet' \in [Users -> 0 .. LastWallet],
           UNCHANGED <<engineWallet, challenges, sessions, grants, transfers, noted,
                       amountValid, retried>>
    PROVE  AccountsInv'
<1>1. clients' \in [Clients -> ClientStates]
  BY TurnsSound DEF AccountsInv
<1>2. AccountsTypeOK'
  BY <1>1 DEF AccountsInv, AccountsTypeOK, ClientStates
<1> QED  BY <1>2, GoesOn, LedgerUnchanged DEF AccountsInv

LEMMA MeHolds ==
    ASSUME AccountsInv, NEW c \in Clients, NEW u \in Users, Me(c, u)
    PROVE  AccountsInv'
<1> DEFINE w == engineWallet[OwnerOf[u]]
<1> DEFINE s == [IdleClient EXCEPT !.pc = "grant", !.user = u, !.wallet = w]
<1>1. w \in 0 .. LastWallet
  BY AccountsAssumption DEF AccountsInv, AccountsTypeOK
<1>2. wallet' = [wallet EXCEPT ![u] = w] /\ wallet \in [Users -> 0 .. LastWallet]
  BY DEF Me, AccountsInv, AccountsTypeOK
<1>3. Turns(c, s)
  BY <1>2 DEF Me
<1> HIDE DEF w
<1>4. Sound(s) /\ s.pc # "attempt" /\ s.nonce = Nobody
  BY <1>1, AccountsAssumption
     DEF Sound, IdleClient, ClientStates, ClientSteps, GrantStatuses, Serving
<1> HIDE DEF s
<1>5. wallet' \in [Users -> 0 .. LastWallet]
  BY <1>1, <1>2
<1> QED  BY <1>3, <1>4, <1>5, WalletStored DEF Me

\* The User node of a login is found or made.
LEMMA BecomesUserSound ==
    ASSUME AccountsInv, NEW c \in Clients, NEW u \in Users
    PROVE  LET s == [clients[c] EXCEPT !.pc = "grant", !.user = u] IN
           Sound(s) /\ s.pc # "attempt" /\ s.nonce = clients[c].nonce
BY DEF AccountsInv, RequestsSound, Sound, ClientStates, ClientSteps, Serving

LEMMA BecomesUserHolds ==
    ASSUME AccountsInv, NEW c \in Clients, NEW u \in Users, BecomesUser(c, u),
           wallet' \in [Users -> 0 .. LastWallet],
           UNCHANGED <<engineWallet, challenges, sessions, grants, transfers, noted,
                       amountValid, retried>>
    PROVE  AccountsInv'
<1> DEFINE s == [clients[c] EXCEPT !.pc = "grant", !.user = u]
<1>1. Turns(c, s)
  BY DEF BecomesUser
<1>2. Sound(s) /\ s.pc # "attempt" /\ s.nonce = clients[c].nonce
  BY BecomesUserSound
<1> HIDE DEF s
<1> QED  BY <1>1, <1>2, WalletStored

LEMMA UpsertExternalWalletHolds ==
    ASSUME AccountsInv, NEW c \in Clients, UpsertExternalWallet(c)
    PROVE  AccountsInv'
<1> DEFINE o == clients[c].owner
<1>1. UNCHANGED <<engineWallet, challenges, sessions, grants, transfers, noted,
                  amountValid, retried>>
  BY DEF UpsertExternalWallet
<1>2. wallet \in [Users -> 0 .. LastWallet] /\ clients[c].wallet \in 0 .. LastWallet
  BY DEF AccountsInv, AccountsTypeOK
<1>3. \/ \E u \in NodesOf(o) : BecomesUser(c, u) /\ UNCHANGED wallet
      \/ /\ Uncreated(o) # {}
         /\ wallet' = [wallet EXCEPT ![NewNode(o)] = clients[c].wallet]
         /\ BecomesUser(c, NewNode(o))
  BY DEF UpsertExternalWallet
<1>4. NodesOf(o) \subseteq Users /\ (Uncreated(o) # {} => NewNode(o) \in Users)
  BY DEF NodesOf, Uncreated, NewNode
<1> HIDE DEF o
<1>5. wallet' \in [Users -> 0 .. LastWallet]
  BY <1>2, <1>3
<1> QED  BY <1>1, <1>3, <1>4, <1>5, BecomesUserHolds

LEMMA UpsertGoogleManagedHolds ==
    ASSUME AccountsInv, NEW c \in Clients, UpsertGoogleManaged(c)
    PROVE  AccountsInv'
<1> DEFINE o == clients[c].owner
<1>1. /\ clients[c].pc = "upsert"
      /\ UNCHANGED <<engineWallet, challenges, sessions, grants, transfers, noted,
                     amountValid, retried>>
  BY DEF UpsertGoogleManaged, At
<1>2. wallet \in [Users -> 0 .. LastWallet] /\ clients[c].wallet \in 0 .. LastWallet
  BY DEF AccountsInv, AccountsTypeOK
<1>3. \/ \E u \in NodesOf(o) :
            /\ wallet' = [v \in Users |-> IF v \in NodesOf(o) THEN clients[c].wallet
                                          ELSE wallet[v]]
            /\ BecomesUser(c, u)
      \/ Turns(c, [clients[c] EXCEPT !.pc = "create"]) /\ UNCHANGED wallet
  BY DEF UpsertGoogleManaged
<1>4. CASE Turns(c, [clients[c] EXCEPT !.pc = "create"]) /\ UNCHANGED wallet
  <2> DEFINE s == [clients[c] EXCEPT !.pc = "create"]
  <2>1. Sound(s) /\ s.pc # "attempt" /\ s.nonce = clients[c].nonce
    BY <1>1 DEF AccountsInv, RequestsSound, Sound, ClientStates, ClientSteps, Serving
  <2> HIDE DEF s
  <2> QED  BY <1>1, <1>4, <2>1, GoesOnAlone DEF s
<1>5. ASSUME NEW u \in NodesOf(o), BecomesUser(c, u),
             wallet' = [v \in Users |-> IF v \in NodesOf(o) THEN clients[c].wallet
                                       ELSE wallet[v]]
      PROVE  AccountsInv'
  <2>1. u \in Users
    BY DEF NodesOf
  <2> HIDE DEF o
  <2>2. wallet' \in [Users -> 0 .. LastWallet]
    BY <1>2, <1>5
  <2> QED  BY <1>1, <1>5, <2>1, <2>2, BecomesUserHolds
<1> QED  BY <1>3, <1>4, <1>5

LEMMA CreateGoogleManagedHolds ==
    ASSUME AccountsInv, NEW c \in Clients, CreateGoogleManaged(c)
    PROVE  AccountsInv'
<1> DEFINE u == NewNode(clients[c].owner)
<1>1. u \in Users
  BY DEF CreateGoogleManaged, NewNode, Uncreated
<1>2. /\ wallet' = [wallet EXCEPT ![u] = clients[c].wallet] /\ BecomesUser(c, u)
      /\ UNCHANGED <<engineWallet, challenges, sessions, grants, transfers, noted,
                     amountValid, retried>>
  BY DEF CreateGoogleManaged
<1> HIDE DEF u
<1>3. wallet' \in [Users -> 0 .. LastWallet]
  BY <1>2 DEF AccountsInv, AccountsTypeOK
<1> QED  BY <1>1, <1>2, <1>3, BecomesUserHolds

LEMMA IssueUserSessionHolds ==
    ASSUME AccountsInv, NEW c \in Clients, IssueUserSession(c)
    PROVE  AccountsInv'
<1> DEFINE m == clients[c].nonce
<1>1. /\ Turns(c, IdleClient)
      /\ IF m = Nobody THEN UNCHANGED sessions
         ELSE sessions' = [sessions EXCEPT ![m] = @ + 1]
      /\ UNCHANGED <<wallet, engineWallet, challenges, grants, transfers, noted,
                     amountValid, retried>>
  BY DEF IssueUserSession
<1>2. /\ clients' \in [Clients -> ClientStates] /\ RequestsSound'
      /\ clients'[c] = IdleClient
      /\ \A d \in Clients \ {c} : clients'[d] = clients[d]
  BY <1>1, IdleSound, TurnsSound DEF AccountsInv
<1>3. m \in Nonces \cup {Nobody} /\ sessions \in [Nonces -> Nat]
  BY DEF AccountsInv, AccountsTypeOK
<1>4. sessions' \in [Nonces -> Nat]
  BY <1>1, <1>3
<1>5. AccountsTypeOK'
  BY <1>1, <1>2, <1>4 DEF AccountsInv, AccountsTypeOK, ClientStates
<1>6. SessionInv'
  <2>1. clients'[c].nonce = Nobody /\ Nobody \notin Nonces
    BY <1>2, AccountsAssumption DEF IdleClient
  <2>2. CASE m = Nobody
    BY <1>1, <1>2, <2>1, <2>2 DEF AccountsInv, SessionInv
  <2>3. CASE m \in Nonces
    <3>1. PICK n \in Nonces : n = m
      BY <2>3
    <3>2. /\ sessions'[n] = sessions[n] + 1
          /\ \A k \in Nonces \ {n} : sessions'[k] = sessions[k]
      BY <1>1, <1>3, <2>1, <3>1
    <3>3. challenges[n] = "consumed" /\ sessions[n] = 0
      BY <3>1 DEF AccountsInv, SessionInv
    <3>4. \A d \in Clients \ {c} : clients[d].nonce # n
      BY <3>1 DEF AccountsInv, SessionInv
    <3> QED  BY <1>1, <1>2, <2>1, <3>2, <3>3, <3>4 DEF AccountsInv, SessionInv
  <2> QED  BY <1>3, <2>2, <2>3
<1>7. AttemptsKept
  BY <1>1, <1>2, LedgerUnchanged DEF AccountsInv, AttemptsKept, LedgerKept, IdleClient
<1> QED  BY <1>2, <1>5, <1>6, <1>7, CountedKept DEF AccountsInv

LEMMA GrantTyped ==
    ASSUME AccountsInv, NEW u \in Users, NEW g \in GrantStates,
           g.status = "sent" <=> g.ids # {},
           grants' = [grants EXCEPT ![u] = g]
    PROVE  /\ grants' \in [Users -> GrantStates]
           /\ grants'[u] = g
           /\ \A v \in Users \ {u} : grants'[v] = grants[v]
           /\ \A v \in Users : grants'[v].status = "sent" <=> grants'[v].ids # {}
BY DEF AccountsInv, AccountsTypeOK, GrantStates

LEMMA GrantAgesHolds ==
    ASSUME AccountsInv, NEW u \in Users, GrantAges(u)
    PROVE  AccountsInv'
<1> DEFINE g == [grants[u] EXCEPT !.stale = TRUE]
<1>1. /\ grants' = [grants EXCEPT ![u] = g]
      /\ UNCHANGED <<wallet, engineWallet, challenges, sessions, transfers, noted,
                     clients, amountValid, retried>>
  BY DEF GrantAges, AccountsInv, AccountsTypeOK
<1>2. grants[u] \in GrantStates /\ (grants[u].status = "sent" <=> grants[u].ids # {})
  BY DEF AccountsInv, AccountsTypeOK, GrantStates
<1>3. /\ g \in GrantStates /\ (g.status = "sent" <=> g.ids # {})
      /\ g.status = grants[u].status
  BY <1>2 DEF GrantStates
<1> HIDE DEF g
<1>4. /\ grants' \in [Users -> GrantStates]
      /\ \A v \in Users : grants'[v].status = "sent" <=> grants'[v].ids # {}
      /\ \A v \in Users : grants'[v].status = grants[v].status
  BY <1>1, <1>3, GrantTyped
<1>5. AccountsTypeOK'
  BY <1>1, <1>4 DEF AccountsInv, AccountsTypeOK, GrantStates
<1>6. LedgerKept
  BY <1>1, <1>4, AccountsAssumption DEF LedgerKept, AccountsInv, AccountsTypeOK
<1>7. SessionInv'
  BY <1>1, SessionsKept DEF AccountsInv, NoncesKept
<1> QED  BY <1>1, <1>5, <1>6, <1>7, NobodyMoves DEF AccountsInv

\* A request begins an attempt, which was counted or created the grant.
LEMMA OneMoreAttempt ==
    ASSUME AccountsInv, AccountsTypeOK', NEW c \in Clients, NEW u \in Users,
           \A d \in Clients \ {c} : clients'[d] = clients[d],
           clients'[c].user = u, UNCHANGED transfers,
           \A v \in Users : /\ retried'[v] >= retried[v]
                            /\ grants'[v].status = "none" => grants[v].status = "none",
           Allowed(u)' >= Allowed(u) + 1
    PROVE  AttemptsCounted'
<1>1. \A v \in Users : GrantTransfers(v)' = GrantTransfers(v)
  BY DEF GrantTransfers
<1>2. ASSUME NEW v \in Users \ {u}
      PROVE  Cardinality(GrantTransfers(v)') + Cardinality(Attempting(v)') <= Allowed(v)'
  <2>1. Attempting(v)' \subseteq Attempting(v)
    BY DEF Attempting
  <2> QED  BY <1>1, <2>1, CountsFewer DEF AccountsInv, AttemptsCounted
<1>3. Cardinality(GrantTransfers(u)') + Cardinality(Attempting(u)') <= Allowed(u)'
  <2>1. Attempting(u)' \subseteq Attempting(u) \cup {c}
    BY DEF Attempting
  <2>2. Cardinality(Attempting(u)') <= Cardinality(Attempting(u)) + 1
    <3>1. /\ IsFiniteSet(Attempting(u) \cup {c})
          /\ Cardinality(Attempting(u) \cup {c}) <= Cardinality(Attempting(u)) + 1
      <4>1. IsFiniteSet(Attempting(u)) /\ Cardinality(Attempting(u)) \in Nat
        BY CountedSetsFinite, FS_CardinalityType
      <4>2. /\ IsFiniteSet(Attempting(u) \cup {c})
            /\ Cardinality(Attempting(u) \cup {c})
                  = IF c \in Attempting(u) THEN Cardinality(Attempting(u))
                    ELSE Cardinality(Attempting(u)) + 1
        BY <4>1, FS_AddElement
      <4> QED  BY <4>1, <4>2
    <3>2. Cardinality(Attempting(u)') <= Cardinality(Attempting(u) \cup {c})
      BY <2>1, <3>1, FS_Subset
    <3>3. /\ Cardinality(Attempting(u)') \in Nat /\ Cardinality(Attempting(u)) \in Nat
          /\ Cardinality(Attempting(u) \cup {c}) \in Nat
      BY <3>1, CountedSetsFinite, FS_CardinalityType
    <3> QED  BY <3>1, <3>2, <3>3
  <2>3. Cardinality(GrantTransfers(u)) + Cardinality(Attempting(u)) <= Allowed(u)
    BY DEF AccountsInv, AttemptsCounted
  <2>4. /\ Cardinality(Attempting(u)') \in Nat /\ Cardinality(Attempting(u)) \in Nat
        /\ Cardinality(GrantTransfers(u)) \in Nat
    BY CountedSetsFinite, FS_CardinalityType
  <2>5. Allowed(u) \in Nat /\ Allowed(u)' \in Nat
    BY AccountsAssumption DEF AccountsInv, AccountsTypeOK, Allowed
  <2> QED  BY <1>1, <2>2, <2>3, <2>4, <2>5
<1> QED  BY <1>2, <1>3 DEF AttemptsCounted

LEMMA GrantWelcomeTokensHolds ==
    ASSUME AccountsInv, NEW c \in Clients, GrantWelcomeTokens(c)
    PROVE  AccountsInv'
<1>0. PICK u \in Users : u = clients[c].user
  BY DEF GrantWelcomeTokens, At, AccountsInv, RequestsSound, Sound, Serving, ClientSteps
<1> DEFINE grant == Touched(c, grants[u])
<1> DEFINE created == Created(grants[u])
<1> DEFINE retry == /\ ~created /\ ShouldRetryTokenGrant(grant)
                    /\ retried[u] < MaxRetries
<1> DEFINE s == [clients[c] EXCEPT !.pc = "attempt"]
<1>1. /\ grants' = [grants EXCEPT ![u] = grant]
      /\ retried' = IF retry THEN [retried EXCEPT ![u] = @ + 1] ELSE retried
      /\ Turns(c, IF created \/ retry THEN s ELSE AfterGrant(c))
      /\ UNCHANGED <<wallet, engineWallet, challenges, sessions, transfers, noted,
                     amountValid>>
  BY <1>0 DEF GrantWelcomeTokens
<1>2. Sound(clients[c])
  BY DEF AccountsInv, RequestsSound
<1>3. /\ grants[u] \in GrantStates
      /\ grants[u].status = "sent" <=> grants[u].ids # {}
      /\ clients[c].wallet \in 0 .. LastWallet
  BY <1>2 DEF AccountsInv, AccountsTypeOK, GrantStates, Sound, ClientStates
<1>4. /\ grant \in GrantStates /\ (grant.status = "sent" <=> grant.ids # {})
      /\ grant.status # "none"
      /\ created <=> grants[u].status = "none"
  BY <1>3 DEF Touched, Created, NoGrant, GrantStates, GrantStatuses, Landed
<1>5. Sound(s) /\ s.pc = "attempt" /\ s.user = u /\ s.nonce = clients[c].nonce
  BY <1>0, <1>2 DEF Sound, ClientStates, ClientSteps
<1> HIDE DEF grant, created, s
<1>6. /\ grants' \in [Users -> GrantStates]
      /\ \A v \in Users : grants'[v].status = "sent" <=> grants'[v].ids # {}
      /\ grants'[u] = grant
      /\ \A v \in Users \ {u} : grants'[v] = grants[v]
  BY <1>1, <1>4, GrantTyped
<1>7. /\ retried' \in [Users -> 0 .. MaxRetries]
      /\ \A v \in Users : retried'[v] >= retried[v]
      /\ retry => retried'[u] = retried[u] + 1
  BY <1>1, AccountsAssumption DEF AccountsInv, AccountsTypeOK
<1> HIDE DEF retry
<1>8. \A v \in Users : grants'[v].status = "none" => grants[v].status = "none"
  BY <1>4, <1>6
<1>9. CASE created \/ retry
  <2>1. /\ clients' \in [Clients -> ClientStates] /\ RequestsSound'
        /\ clients'[c] = s
        /\ \A d \in Clients \ {c} : clients'[d] = clients[d]
    BY <1>1, <1>5, <1>9, TurnsSound DEF AccountsInv
  <2>2. AccountsTypeOK'
    BY <1>1, <1>6, <1>7, <2>1 DEF AccountsInv, AccountsTypeOK, ClientStates, GrantStates
  <2>3. NoncesKept
    BY <1>1, <1>5, <2>1 DEF NoncesKept
  <2>4. Allowed(u)' >= Allowed(u) + 1
    <3>1. retried[u] \in Nat /\ retried'[u] \in Nat /\ retried'[u] >= retried[u]
      BY <1>7, AccountsAssumption DEF AccountsInv, AccountsTypeOK
    <3>2. grants'[u].status # "none"
      BY <1>4, <1>6
    <3>3. CASE created
      BY <1>4, <3>1, <3>2, <3>3 DEF Allowed
    <3>4. CASE retry
      <4>1. ~created
        BY <3>4 DEF retry
      <4> QED  BY <1>4, <1>7, <3>1, <3>2, <3>4, <4>1 DEF Allowed
    <3> QED  BY <1>9, <3>3, <3>4
  <2>5. AttemptsCounted'
    BY <1>1, <1>5, <1>7, <1>8, <2>1, <2>2, <2>4, OneMoreAttempt
  <2> QED  BY <2>1, <2>2, <2>3, <2>5, SessionsKept DEF AccountsInv
<1>10. CASE ~(created \/ retry)
  <2>1. /\ Sound(AfterGrant(c)) /\ AfterGrant(c).pc # "attempt"
        /\ AfterGrant(c).nonce \in {clients[c].nonce, Nobody}
    BY <1>0, <1>2, AfterGrantSound
  <2>2. Turns(c, AfterGrant(c))
    BY <1>1, <1>10
  <2>3. clients' \in [Clients -> ClientStates]
    BY <2>1, <2>2, TurnsSound DEF AccountsInv
  <2>4. AccountsTypeOK'
    BY <1>1, <1>6, <1>7, <2>3 DEF AccountsInv, AccountsTypeOK, ClientStates, GrantStates
  <2>5. LedgerKept
    BY <1>1, <1>7, <1>8 DEF LedgerKept
  <2> QED  BY <1>1, <2>1, <2>2, <2>4, <2>5, GoesOn
<1> QED  BY <1>9, <1>10

\* An administrator's list is gone through.
LEMMA AdminRetryHolds ==
    ASSUME AccountsInv, NEW c \in Clients,
           AdminRetryWelcomeGrants(c) \/ \E u \in Users : AdminRetryNext(c, u)
    PROVE  AccountsInv'
<1>1. CASE AdminRetryWelcomeGrants(c)
  <2> DEFINE todo == {u \in Users : grants[u].status \in {"pending", "failed"}}
  <2> DEFINE s == [IdleClient EXCEPT !.pc = "next", !.todo = todo]
  <2>1. Turns(c, s)
    BY <1>1 DEF AdminRetryWelcomeGrants
  <2>2. todo \subseteq Users \cup Transfers
    OBVIOUS
  <2> HIDE DEF todo
  <2>3. s \in ClientStates /\ s.pc = "next" /\ s.nonce = Nobody
    BY <2>2, IdleSound DEF Sound, IdleClient, ClientStates, ClientSteps
  <2>4. Sound(s)
    BY <2>3 DEF Sound, Serving
  <2> HIDE DEF s
  <2> QED  BY <1>1, <2>1, <2>3, <2>4, GoesOnAlone DEF AdminRetryWelcomeGrants
<1>2. ASSUME NEW u \in Users, AdminRetryNext(c, u)
      PROVE  AccountsInv'
  <2> DEFINE next == [IdleClient EXCEPT !.user = u, !.wallet = wallet[u],
                                        !.todo = clients[c].todo \ {u}]
  <2> DEFINE s == [next EXCEPT !.pc = "attempt"]
  <2> DEFINE f == [next EXCEPT !.pc = "record", !.status = "failed"]
  <2>1. wallet[u] \in 0 .. LastWallet /\ clients[c].todo \subseteq Users \cup Transfers
    BY DEF AccountsInv, AccountsTypeOK
  <2>2. /\ Sound(s) /\ s.pc = "attempt" /\ s.user = u /\ s.nonce = Nobody
        /\ Sound(f) /\ f.pc = "record" /\ f.nonce = Nobody
    BY <2>1, AccountsAssumption
       DEF Sound, IdleClient, ClientStates, ClientSteps, GrantStatuses, Serving
  <2>3. \/ /\ retried[u] < MaxRetries
           /\ retried' = [retried EXCEPT ![u] = @ + 1]
           /\ Turns(c, s)
        \/ Turns(c, f) /\ UNCHANGED retried
    BY <1>2 DEF AdminRetryNext
  <2>4. UNCHANGED <<wallet, engineWallet, challenges, sessions, grants, transfers,
                    noted, amountValid>>
    BY <1>2 DEF AdminRetryNext
  <2> HIDE DEF s, f
  <2>5. CASE Turns(c, f) /\ UNCHANGED retried
    BY <2>2, <2>4, <2>5, GoesOnAlone
  <2>6. CASE /\ retried[u] < MaxRetries
             /\ retried' = [retried EXCEPT ![u] = @ + 1]
             /\ Turns(c, s)
    <3>1. /\ clients' \in [Clients -> ClientStates] /\ RequestsSound'
          /\ clients'[c] = s
          /\ \A d \in Clients \ {c} : clients'[d] = clients[d]
      BY <2>2, <2>6, TurnsSound DEF AccountsInv
    <3>2. /\ retried' \in [Users -> 0 .. MaxRetries]
          /\ \A v \in Users : retried'[v] >= retried[v]
          /\ retried'[u] = retried[u] + 1 /\ retried[u] \in Nat
      BY <2>6, AccountsAssumption DEF AccountsInv, AccountsTypeOK
    <3>3. AccountsTypeOK'
      BY <2>4, <3>1, <3>2 DEF AccountsInv, AccountsTypeOK, ClientStates
    <3>4. NoncesKept
      BY <2>2, <2>4, <3>1 DEF NoncesKept
    <3>5. Allowed(u)' >= Allowed(u) + 1
      BY <2>4, <3>2 DEF Allowed
    <3>6. AttemptsCounted'
      BY <2>2, <2>4, <3>1, <3>2, <3>3, <3>5, OneMoreAttempt
    <3> QED  BY <3>1, <3>3, <3>4, <3>6, SessionsKept DEF AccountsInv
  <2> QED  BY <2>3, <2>5, <2>6
<1> QED  BY <1>1, <1>2

\* The tokens are sent: the request that was about to send them is not any more.
LEMMA TokensSent ==
    ASSUME AccountsInv, AccountsTypeOK', NEW c \in Clients, NEW x \in Transfers,
           clients[c].pc = "attempt", clients'[c].pc = "record",
           \A d \in Clients \ {c} : clients'[d] = clients[d],
           transfers'[x].user = clients[c].user,
           \A y \in Transfers \ {x} : transfers'[y] = transfers[y],
           UNCHANGED <<grants, retried>>
    PROVE  AttemptsCounted'
<1>1. ASSUME NEW v \in Users, v # clients[c].user
      PROVE  Cardinality(GrantTransfers(v)') + Cardinality(Attempting(v)') <= Allowed(v)'
  <2>1. /\ GrantTransfers(v)' \subseteq GrantTransfers(v)
        /\ Attempting(v)' \subseteq Attempting(v)
    BY <1>1 DEF GrantTransfers, Attempting
  <2>2. retried[v] \in Nat /\ UNCHANGED <<grants, retried>>
    BY AccountsAssumption DEF AccountsInv, AccountsTypeOK
  <2> QED  BY <2>1, <2>2, CountsFewer DEF AccountsInv, AttemptsCounted
<1>2. ASSUME NEW u \in Users, u = clients[c].user
      PROVE  Cardinality(GrantTransfers(u)') + Cardinality(Attempting(u)') <= Allowed(u)'
  <2>1. /\ GrantTransfers(u)' \subseteq GrantTransfers(u) \cup {x}
        /\ Attempting(u)' \subseteq Attempting(u) \ {c}
        /\ c \in Attempting(u)
    BY <1>2 DEF GrantTransfers, Attempting
  <2>2. /\ IsFiniteSet(GrantTransfers(u)) /\ IsFiniteSet(GrantTransfers(u)')
        /\ IsFiniteSet(Attempting(u)) /\ IsFiniteSet(Attempting(u)')
    BY CountedSetsFinite
  <2>3. /\ IsFiniteSet(GrantTransfers(u) \cup {x})
        /\ Cardinality(GrantTransfers(u) \cup {x})
              = IF x \in GrantTransfers(u) THEN Cardinality(GrantTransfers(u))
                ELSE Cardinality(GrantTransfers(u)) + 1
    BY <2>2, FS_AddElement
  <2>4. /\ IsFiniteSet(Attempting(u) \ {c})
        /\ Cardinality(Attempting(u) \ {c}) = Cardinality(Attempting(u)) - 1
    BY <2>1, <2>2, FS_RemoveElement
  <2>5. /\ Cardinality(GrantTransfers(u)') <= Cardinality(GrantTransfers(u) \cup {x})
        /\ Cardinality(Attempting(u)') <= Cardinality(Attempting(u) \ {c})
    BY <2>1, <2>3, <2>4, FS_Subset
  <2>6. /\ Cardinality(GrantTransfers(u)) \in Nat /\ Cardinality(Attempting(u)) \in Nat
        /\ Cardinality(GrantTransfers(u)') \in Nat /\ Cardinality(Attempting(u)') \in Nat
    BY <2>2, FS_CardinalityType
  <2>7. /\ Cardinality(GrantTransfers(u)) + Cardinality(Attempting(u)) <= Allowed(u)
        /\ Allowed(u)' = Allowed(u) /\ Allowed(u) \in Nat
    BY AccountsAssumption DEF AccountsInv, AccountsTypeOK, AttemptsCounted, Allowed
  <2> QED  BY <2>3, <2>4, <2>5, <2>6, <2>7
<1> QED  BY <1>1, <1>2 DEF AttemptsCounted

LEMMA AttemptHolds ==
    ASSUME AccountsInv, NEW c \in Clients, AttemptWelcomeTokenGrant(c)
    PROVE  AccountsInv'
<1> DEFINE r(status, ids) ==
        [clients[c] EXCEPT !.pc = "record", !.status = status, !.ids = ids]
<1>1. /\ clients[c].pc = "attempt"
      /\ UNCHANGED <<wallet, engineWallet, challenges, sessions, grants, noted,
                     amountValid, retried>>
  BY DEF AttemptWelcomeTokenGrant, At
<1>2. Sound(clients[c]) /\ clients[c].user \in Users
  BY <1>1 DEF AccountsInv, RequestsSound, Sound, Serving, ClientSteps
<1>3. ASSUME NEW status \in {"pending", "failed", "sent"}, NEW ids \in SUBSET Transfers,
             status = "sent" <=> ids # {}
      PROVE  /\ Sound(r(status, ids)) /\ r(status, ids).pc = "record"
             /\ r(status, ids).nonce = clients[c].nonce
  BY <1>2, <1>3 DEF Sound, ClientStates, ClientSteps, GrantStatuses
<1>4. ASSUME NEW status \in {"pending", "failed"}, Records(c, status, {}),
             UNCHANGED transfers
      PROVE  AccountsInv'
  <2>1. Turns(c, r(status, {}))
    BY <1>4 DEF Records
  <2>2. /\ Sound(r(status, {})) /\ r(status, {}).pc = "record"
        /\ r(status, {}).nonce = clients[c].nonce
    <3>1. /\ status \in {"pending", "failed", "sent"} /\ status # "sent"
          /\ {} \in SUBSET Transfers
      BY <1>4
    <3> HIDE DEF r
    <3> QED  BY <1>3, <3>1
  <2> HIDE DEF r
  <2> QED  BY <1>1, <1>4, <2>1, <2>2, GoesOnAlone
<1>5. ASSUME NEW status \in {"sent", "pending"}, NEW ids \in SUBSET Transfers,
             status = "sent" <=> ids # {}, Records(c, status, ids),
             Sends(clients[c].user, clients[c].wallet, TRUE)
      PROVE  AccountsInv'
  <2>1. Turns(c, r(status, ids))
    BY <1>5 DEF Records
  <2>2. /\ Sound(r(status, ids)) /\ r(status, ids).pc = "record"
        /\ r(status, ids).nonce = clients[c].nonce
    BY <1>3, <1>5
  <2> HIDE DEF r
  <2>3. /\ clients' \in [Clients -> ClientStates] /\ RequestsSound'
        /\ clients'[c] = r(status, ids)
        /\ \A d \in Clients \ {c} : clients'[d] = clients[d]
    BY <2>1, <2>2, TurnsSound DEF AccountsInv
  <2>4. PICK x \in Transfers : transfers' = [transfers EXCEPT ![x] =
            [state |-> "pending", user |-> clients[c].user,
             wallet |-> clients[c].wallet, grant |-> TRUE]]
    BY <1>5 DEF Sends, TransfersLeft, NextTransfer
  <2>5. AccountsTypeOK'
    BY <1>1, <1>2, <2>3, <2>4
       DEF AccountsInv, AccountsTypeOK, ClientStates, Sound
  <2>6. /\ transfers'[x].user = clients[c].user
        /\ \A y \in Transfers \ {x} : transfers'[y] = transfers[y]
    BY <2>4 DEF AccountsInv, AccountsTypeOK
  <2>7. AttemptsCounted'
    BY <1>1, <2>2, <2>3, <2>5, <2>6, TokensSent
  <2>8. NoncesKept
    BY <1>1, <2>2, <2>3 DEF NoncesKept
  <2> QED  BY <2>3, <2>5, <2>7, <2>8, SessionsKept DEF AccountsInv
<1>6. \/ Records(c, "pending", {}) /\ UNCHANGED transfers
      \/ Records(c, "failed", {}) /\ UNCHANGED transfers
      \/ /\ Sends(clients[c].user, clients[c].wallet, TRUE)
         /\ Records(c, "sent", {NextTransfer}) \/ Records(c, "pending", {})
  BY DEF AttemptWelcomeTokenGrant
<1>7. TransfersLeft => {NextTransfer} \in SUBSET Transfers
  BY DEF TransfersLeft, NextTransfer
<1> QED  BY <1>4, <1>5, <1>6, <1>7 DEF Sends

LEMMA UpdateTokenGrantStatusHolds ==
    ASSUME AccountsInv, NEW c \in Clients, UpdateTokenGrantStatus(c)
    PROVE  AccountsInv'
<1>1. /\ clients[c].pc = "record" /\ Turns(c, AfterGrant(c))
      /\ UNCHANGED <<wallet, engineWallet, challenges, sessions, transfers, noted,
                     amountValid, retried>>
  BY DEF UpdateTokenGrantStatus, At
<1>2. Sound(clients[c]) /\ clients[c].user \in Users
  BY <1>1 DEF AccountsInv, RequestsSound, Sound, Serving, ClientSteps
<1>3. /\ Sound(AfterGrant(c)) /\ AfterGrant(c).pc # "attempt"
      /\ AfterGrant(c).nonce \in {clients[c].nonce, Nobody}
  BY <1>2, AfterGrantSound
<1>4. CASE UNCHANGED grants
  BY <1>1, <1>3, <1>4, GoesOnAlone
<1>5. ASSUME NEW u \in Users, u = clients[c].user,
             grants' = [grants EXCEPT ![u] =
                [@ EXCEPT !.status = clients[c].status, !.ids = clients[c].ids,
                          !.stale = FALSE]]
      PROVE  AccountsInv'
  <2> DEFINE g == [grants[u] EXCEPT !.status = clients[c].status,
                                    !.ids = clients[c].ids, !.stale = FALSE]
  <2>1. grants' = [grants EXCEPT ![u] = g] /\ grants[u] \in GrantStates
    BY <1>5 DEF AccountsInv, AccountsTypeOK, GrantStates
  <2>2. /\ g \in GrantStates /\ (g.status = "sent" <=> g.ids # {})
        /\ g.status # "none"
    BY <1>1, <1>2, <2>1 DEF GrantStates, Sound, ClientStates
  <2> HIDE DEF g
  <2>3. /\ grants' \in [Users -> GrantStates]
        /\ \A v \in Users : grants'[v].status = "sent" <=> grants'[v].ids # {}
        /\ grants'[u] = g
        /\ \A v \in Users \ {u} : grants'[v] = grants[v]
    BY <2>1, <2>2, GrantTyped
  <2>4. clients' \in [Clients -> ClientStates]
    BY <1>1, <1>3, TurnsSound DEF AccountsInv
  <2>5. AccountsTypeOK'
    BY <1>1, <2>3, <2>4 DEF AccountsInv, AccountsTypeOK, ClientStates, GrantStates
  <2>6. LedgerKept
    <3>1. \A v \in Users : grants'[v].status = "none" => grants[v].status = "none"
      BY <2>2, <2>3
    <3>2. \A v \in Users : retried'[v] >= retried[v]
      BY <1>1, AccountsAssumption DEF AccountsInv, AccountsTypeOK
    <3> QED  BY <1>1, <3>1, <3>2 DEF LedgerKept
  <2> QED  BY <1>1, <1>3, <2>5, <2>6, GoesOn
<1> QED  BY <1>2, <1>4, <1>5 DEF UpdateTokenGrantStatus

\* A page goes on without a transfer, and without a user when it is through.
LEMMA PageSound ==
    ASSUME NEW c \in Clients, Sound(clients[c]), clients[c].user \in Users,
           clients[c].pc \in {"reconcile", "note"}, NEW x
    PROVE  /\ Sound(PageWithout(c, x)) /\ PageWithout(c, x).pc # "attempt"
           /\ PageWithout(c, x).nonce \in {clients[c].nonce, Nobody}
<1>1. IdleClient.pc = "idle" /\ IdleClient.nonce = Nobody
  BY DEF IdleClient
<1> DEFINE s == [clients[c] EXCEPT !.pc = "reconcile",
                                   !.todo = clients[c].todo \ {x}, !.ids = {}]
<1>2. PageWithout(c, x) \in {IdleClient, s}
  BY DEF PageWithout
<1>3. clients[c] \in ClientStates /\ clients[c].todo \subseteq Transfers
  BY DEF Sound
<1>4. /\ s \in ClientStates /\ s.pc = "reconcile" /\ s.nonce = clients[c].nonce
      /\ s.user \in Users /\ s.todo \subseteq Transfers
  BY <1>3 DEF ClientStates, ClientSteps
<1> HIDE DEF s
<1>5. Sound(s)
  BY <1>4 DEF Sound
<1> QED  BY <1>1, <1>2, <1>4, <1>5, IdleSound

LEMMA NoteSound ==
    ASSUME NEW c \in Clients, Sound(clients[c]), clients[c].user \in Users,
           clients[c].pc = "reconcile", NEW x \in Transfers
    PROVE  LET s == [clients[c] EXCEPT !.pc = "note", !.ids = {x}] IN
           Sound(s) /\ s.pc = "note" /\ s.nonce = clients[c].nonce
BY DEF Sound, ClientStates, ClientSteps

LEMMA OpenWalletHistoryHolds ==
    ASSUME AccountsInv, NEW c \in Clients, NEW u \in Users, OpenWalletHistory(c, u)
    PROVE  AccountsInv'
<1> DEFINE todo == History(u) \ noted[u]
<1> DEFINE s == [IdleClient EXCEPT !.pc = "reconcile", !.user = u,
                                   !.wallet = wallet[u], !.todo = todo]
<1>1. Turns(c, s)
  BY DEF OpenWalletHistory
<1>2. todo \subseteq Transfers /\ wallet[u] \in 0 .. LastWallet
  BY DEF History, AccountsInv, AccountsTypeOK
<1> HIDE DEF todo
<1>3. /\ s \in ClientStates /\ s.pc = "reconcile" /\ s.nonce = Nobody
      /\ s.user \in Users /\ s.todo \subseteq Transfers
  BY <1>2, IdleSound DEF Sound, IdleClient, ClientStates, ClientSteps
<1>4. Sound(s)
  BY <1>3 DEF Sound
<1> HIDE DEF s
<1> QED  BY <1>1, <1>3, <1>4, GoesOnAlone DEF OpenWalletHistory

LEMMA ReconcileTransferHolds ==
    ASSUME AccountsInv, NEW c \in Clients, NEW x \in Transfers, ReconcileTransfer(c, x)
    PROVE  AccountsInv'
<1>1. /\ clients[c].pc = "reconcile"
      /\ UNCHANGED <<wallet, engineWallet, challenges, sessions, transfers, noted,
                     amountValid, retried>>
  BY DEF ReconcileTransfer, At
<1>2. Sound(clients[c])
  BY DEF AccountsInv, RequestsSound
<1>3. PICK u \in Users : u = clients[c].user
  BY <1>1, <1>2 DEF Sound, Serving, ClientSteps
<1>4. PICK s : /\ Turns(c, s) /\ Sound(s) /\ s.pc # "attempt"
               /\ s.nonce \in {clients[c].nonce, Nobody}
  <2>1. \/ Turns(c, PageWithout(c, x))
        \/ Turns(c, [clients[c] EXCEPT !.pc = "note", !.ids = {x}])
    BY DEF ReconcileTransfer
  <2> QED  BY <1>1, <1>2, <1>3, <2>1, PageSound, NoteSound
<1>5. CASE UNCHANGED grants
  BY <1>1, <1>4, <1>5, GoesOnAlone
<1>6. CASE grants' = [grants EXCEPT ![u] = Reconciled(@, x)]
  <2> DEFINE g == Reconciled(grants[u], x)
  <2>1. grants' = [grants EXCEPT ![u] = g] /\ grants[u] \in GrantStates
    BY <1>6 DEF AccountsInv, AccountsTypeOK, GrantStates
  <2>2. g \in GrantStates /\ g.status = "sent" /\ g.ids # {}
    BY <2>1 DEF Reconciled, GrantStates, GrantStatuses
  <2> HIDE DEF g
  <2>3. /\ grants' \in [Users -> GrantStates]
        /\ \A v \in Users : grants'[v].status = "sent" <=> grants'[v].ids # {}
        /\ grants'[u] = g
        /\ \A v \in Users \ {u} : grants'[v] = grants[v]
    BY <2>1, <2>2, GrantTyped
  <2>4. clients' \in [Clients -> ClientStates]
    BY <1>4, TurnsSound DEF AccountsInv
  <2>5. AccountsTypeOK'
    BY <1>1, <2>3, <2>4 DEF AccountsInv, AccountsTypeOK, ClientStates, GrantStates
  <2>6. LedgerKept
    <3>1. \A v \in Users : grants'[v].status = "none" => grants[v].status = "none"
      BY <2>2, <2>3
    <3>2. \A v \in Users : retried'[v] >= retried[v]
      BY <1>1, AccountsAssumption DEF AccountsInv, AccountsTypeOK
    <3> QED  BY <1>1, <3>1, <3>2 DEF LedgerKept
  <2> QED  BY <1>1, <1>4, <2>5, <2>6, GoesOn
<1> QED  BY <1>3, <1>5, <1>6 DEF ReconcileTransfer

LEMMA NoteReceivedTransferHolds ==
    ASSUME AccountsInv, NEW c \in Clients, NEW x \in Transfers,
           NoteReceivedTransfer(c, x)
    PROVE  AccountsInv'
<1>1. /\ clients[c].pc = "note" /\ Turns(c, PageWithout(c, x))
      /\ \/ noted' = [noted EXCEPT ![clients[c].user] = @ \cup {x}]
         \/ UNCHANGED noted
      /\ UNCHANGED <<wallet, engineWallet, challenges, sessions, grants, transfers,
                     amountValid, retried>>
  BY DEF NoteReceivedTransfer, At
<1>2. Sound(clients[c]) /\ clients[c].user \in Users
  BY <1>1 DEF AccountsInv, RequestsSound, Sound, Serving, ClientSteps
<1>3. /\ Sound(PageWithout(c, x)) /\ PageWithout(c, x).pc # "attempt"
      /\ PageWithout(c, x).nonce \in {clients[c].nonce, Nobody}
  BY <1>1, <1>2, PageSound
<1>4. clients' \in [Clients -> ClientStates]
  BY <1>1, <1>3, TurnsSound DEF AccountsInv
<1>5. noted' \in [Users -> SUBSET Transfers]
  BY <1>1 DEF AccountsInv, AccountsTypeOK
<1>6. AccountsTypeOK'
  BY <1>1, <1>4, <1>5 DEF AccountsInv, AccountsTypeOK, ClientStates
<1> QED  BY <1>1, <1>3, <1>6, GoesOn, LedgerUnchanged DEF AccountsInv

LEMMA EnvironmentHolds ==
    ASSUME AccountsInv, AccountsEnvironment
    PROVE  AccountsInv'
<1>1. ASSUME NEW o \in Owners, EngineWalletReplaced(o)
      PROVE  AccountsInv'
  <2>1. /\ engineWallet' \in [Owners -> 1 .. LastWallet]
        /\ UNCHANGED <<wallet, challenges, sessions, grants, transfers, noted,
                       clients, amountValid, retried>>
    BY <1>1, AccountsAssumption DEF EngineWalletReplaced, AccountsInv, AccountsTypeOK
  <2>2. AccountsTypeOK'
    BY <2>1 DEF AccountsInv, AccountsTypeOK
  <2>3. SessionInv'
    BY <2>1, SessionsKept DEF AccountsInv, NoncesKept
  <2> QED  BY <2>1, <2>2, <2>3, NobodyMoves, LedgerUnchanged DEF AccountsInv
<1>2. ASSUME NEW u \in Users, OtherTransfer(u)
      PROVE  AccountsInv'
  <2>1. PICK x \in Transfers :
          /\ transfers' = [transfers EXCEPT ![x] = [state |-> "pending", user |-> u,
                               wallet |-> wallet[u], grant |-> FALSE]]
          /\ UNCHANGED <<wallet, engineWallet, challenges, sessions, grants, noted,
                         clients, amountValid, retried>>
    BY <1>2 DEF OtherTransfer, Sends, TransfersLeft, NextTransfer
  <2>2. AccountsTypeOK'
    <3>1. wallet[u] \in 0 .. LastWallet
      BY DEF AccountsInv, AccountsTypeOK
    <3>2. transfers' \in [Transfers ->
             [state : {"unsent", "pending", "landed", "failed"},
              user : Users \cup {Nobody}, wallet : 0 .. LastWallet, grant : BOOLEAN]]
      BY <2>1, <3>1 DEF AccountsInv, AccountsTypeOK
    <3> QED  BY <2>1, <3>2 DEF AccountsInv, AccountsTypeOK
  <2>3. LedgerKept
    BY <2>1, AccountsAssumption DEF LedgerKept, AccountsInv, AccountsTypeOK
  <2>4. SessionInv'
    BY <2>1, SessionsKept DEF AccountsInv, NoncesKept
  <2> QED  BY <2>1, <2>2, <2>3, <2>4, NobodyMoves DEF AccountsInv
<1>3. ASSUME NEW x \in Transfers, TransferMined(x)
      PROVE  AccountsInv'
  <2>1. PICK result \in {"landed", "failed"} :
          /\ transfers' = [transfers EXCEPT ![x].state = result]
          /\ UNCHANGED <<wallet, engineWallet, challenges, sessions, grants, noted,
                         clients, amountValid, retried>>
    BY <1>3 DEF TransferMined
  <2>2. AccountsTypeOK'
    <3>1. transfers' \in [Transfers ->
             [state : {"unsent", "pending", "landed", "failed"},
              user : Users \cup {Nobody}, wallet : 0 .. LastWallet, grant : BOOLEAN]]
      <4> DEFINE States == [state : {"unsent", "pending", "landed", "failed"},
                            user : Users \cup {Nobody}, wallet : 0 .. LastWallet,
                            grant : BOOLEAN]
      <4> DEFINE t == [transfers[x] EXCEPT !.state = result]
      <4>1. transfers \in [Transfers -> States] /\ transfers[x] \in States
        BY DEF AccountsInv, AccountsTypeOK
      <4>2. t \in States
        BY <4>1
      <4>3. transfers' = [transfers EXCEPT ![x] = t]
        BY <2>1, <4>1
      <4> HIDE DEF t, States
      <4>4. transfers' \in [Transfers -> States]
        BY <4>1, <4>2, <4>3
      <4> QED  BY <4>4 DEF States
    <3> QED  BY <2>1, <3>1 DEF AccountsInv, AccountsTypeOK
  <2>3. LedgerKept
    BY <2>1, AccountsAssumption DEF LedgerKept, AccountsInv, AccountsTypeOK
  <2>4. SessionInv'
    BY <2>1, SessionsKept DEF AccountsInv, NoncesKept
  <2> QED  BY <2>1, <2>2, <2>3, <2>4, NobodyMoves DEF AccountsInv
<1> QED  BY <1>1, <1>2, <1>3, ChallengesHold, GrantAgesHolds DEF AccountsEnvironment

\* Whatever was being served is forgotten; what it was about to send is not sent.
LEMMA ServerRestartHolds ==
    ASSUME AccountsInv, ServerRestart
    PROVE  AccountsInv'
<1>1. /\ clients' = [c \in Clients |-> IdleClient]
      /\ amountValid' \in BOOLEAN
      /\ UNCHANGED <<wallet, engineWallet, challenges, sessions, grants, transfers,
                     noted, retried>>
  BY DEF ServerRestart
<1>2. clients' \in [Clients -> ClientStates] /\ RequestsSound'
  BY <1>1, IdleSound DEF RequestsSound, Sound
<1>3. AccountsTypeOK'
  BY <1>1, <1>2 DEF AccountsInv, AccountsTypeOK, ClientStates
<1>4. IdleClient.pc # "attempt" /\ IdleClient.nonce = Nobody
  BY DEF IdleClient
<1>5. NoncesKept
  BY <1>1, <1>4 DEF NoncesKept
<1>6. AttemptsKept
  BY <1>1, <1>4, LedgerUnchanged DEF AttemptsKept, LedgerKept, AccountsInv
<1> QED  BY <1>2, <1>3, <1>5, <1>6, SessionsKept, CountedKept DEF AccountsInv

LEMMA RequestFailsHolds ==
    ASSUME AccountsInv, NEW c \in Clients, RequestFails(c)
    PROVE  AccountsInv'
<1>1. /\ clients[c].pc \in {"upsert", "create", "grant", "reconcile"}
      /\ UNCHANGED <<wallet, engineWallet, challenges, sessions, grants, transfers,
                     noted, amountValid, retried>>
  BY DEF RequestFails, At
<1>2. /\ Sound(clients[c])
      /\ clients[c].pc \in {"grant", "reconcile"} => clients[c].user \in Users
  BY DEF AccountsInv, RequestsSound, Sound, Serving, ClientSteps
<1>3. CASE Turns(c, IdleClient)
  <2>1. IdleClient.pc = "idle" /\ IdleClient.nonce = Nobody
    BY DEF IdleClient
  <2> QED  BY <1>1, <1>3, <2>1, IdleSound, GoesOnAlone
<1>4. CASE clients[c].pc = "grant" /\ Turns(c, AfterGrant(c))
  BY <1>1, <1>2, <1>4, AfterGrantSound, GoesOnAlone
<1>5. ASSUME NEW x \in clients[c].todo, clients[c].pc = "reconcile",
             Turns(c, [clients[c] EXCEPT !.pc = "note", !.ids = {x}])
      PROVE  AccountsInv'
  <2>1. x \in Transfers
    BY <1>2, <1>5 DEF Sound
  <2>2. LET s == [clients[c] EXCEPT !.pc = "note", !.ids = {x}] IN
        Sound(s) /\ s.pc = "note" /\ s.nonce = clients[c].nonce
    BY <1>2, <1>5, <2>1, NoteSound
  <2> QED  BY <1>1, <1>5, <2>2, GoesOnAlone
<1> QED  BY <1>3, <1>4, <1>5 DEF RequestFails, At

LEMMA NextHolds ==
    ASSUME AccountsInv, [AccountsNext]_accountsVars
    PROVE  AccountsInv'
<1>1. /\ Logins \subseteq Clients /\ Retriers \subseteq Clients
      /\ Readers \subseteq Clients
  BY AccountsAssumption DEF Clients
<1>2. ASSUME NEW c \in Clients, LoginRequest(c)
      PROVE  AccountsInv'
  BY <1>2, WalletLoginVerifyHolds, GoogleOAuthCallbackHolds, MeHolds DEF LoginRequest
<1>3. ASSUME NEW c \in Clients, GrantStep(c)
      PROVE  AccountsInv'
  BY <1>3, AttemptHolds, UpdateTokenGrantStatusHolds DEF GrantStep
<1>4. ASSUME NEW c \in Clients, RequestStep(c)
      PROVE  AccountsInv'
  BY <1>3, <1>4, UpsertExternalWalletHolds, UpsertGoogleManagedHolds,
     CreateGoogleManagedHolds, GrantWelcomeTokensHolds, IssueUserSessionHolds,
     ReconcileTransferHolds, NoteReceivedTransferHolds DEF RequestStep
<1>5. CASE UNCHANGED accountsVars
  <2>1. AccountsTypeOK'
    BY <1>5 DEF accountsVars, AccountsInv, AccountsTypeOK
  <2>2. NoncesKept
    BY <1>5 DEF accountsVars, NoncesKept
  <2> QED  BY <1>5, <2>1, <2>2, SessionsKept, NobodyMoves, LedgerUnchanged
           DEF accountsVars, AccountsInv
<1> QED  BY <1>1, <1>2, <1>3, <1>4, <1>5, OpenWalletHistoryHolds, AdminRetryHolds,
            RequestFailsHolds, EnvironmentHolds, ServerRestartHolds DEF AccountsNext

LEMMA AccountsInvariant == AccountsSpec => []AccountsInv
<1>1. AccountsInv /\ [AccountsNext]_accountsVars => AccountsInv'
  BY NextHolds
<1> QED  BY <1>1, AccountsInitHolds, PTL DEF AccountsSpec

----------------------------------------------------------------------------
(* The theorems *)

\* Logins, grants, transfers and requests keep their types, a grant is "sent"
\* exactly when its transfer is recorded, and no user is retried beyond the bound.
THEOREM AccountsTyped == AccountsSpec => []AccountsTypeOK
<1>1. AccountsInv => AccountsTypeOK
  BY DEF AccountsInv
<1> QED  BY <1>1, AccountsInvariant, PTL

\* A signed challenge opens one session, however many requests present it, and
\* however often the server stops (ConsumeWalletLoginChallenge).
THEOREM OneSession == AccountsSpec => []ChallengeOpensOneSession
<1>1. AccountsInv => ChallengeOpensOneSession
  BY DEF AccountsInv, SessionInv, ChallengeOpensOneSession
<1> QED  BY <1>1, AccountsInvariant, PTL

\* The welcome tokens of a User node are sent once, and at most once more for each
\* attempt at a grant that was there before, whatever requests run at once, fail
\* or are forgotten, and however many nodes their owner has got
\* (CreateTokenGrantIfMissing, shouldRetryTokenGrant).
THEOREM SentAsCounted == AccountsSpec => []SentOncePerAttempt
<1>1. ASSUME AccountsInv, NEW u \in Users
      PROVE  Cardinality(GrantTransfers(u)) <= 1 + retried[u]
  <2>1. Cardinality(GrantTransfers(u)) + Cardinality(Attempting(u)) <= Allowed(u)
    BY <1>1 DEF AccountsInv, AttemptsCounted
  <2>2. Cardinality(GrantTransfers(u)) \in Nat /\ Cardinality(Attempting(u)) \in Nat
    BY CountedSetsFinite, FS_CardinalityType
  <2>3. retried[u] \in Nat
    BY <1>1, AccountsAssumption DEF AccountsInv, AccountsTypeOK
  <2>4. Allowed(u) <= 1 + retried[u] /\ Allowed(u) \in Nat
    BY <2>3 DEF Allowed
  <2> QED  BY <2>1, <2>2, <2>3, <2>4
<1>2. AccountsInv => SentOncePerAttempt
  BY <1>1 DEF SentOncePerAttempt
<1> QED  BY <1>2, AccountsInvariant, PTL

=============================================================================
