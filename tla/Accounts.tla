------------------------------ MODULE Accounts ------------------------------
(***************************************************************************)
(* Logins, the welcome grant, and the page that shows a user's transfers.  *)
(*                                                                         *)
(* A login finds or creates the User node, sees to the welcome grant and   *)
(* issues a session.  Each of these is a store transaction or a gateway    *)
(* call of its own; no lock covers the grant from its read to its record.  *)
(* The wallet and notification pages compare the transfers the chain shows *)
(* with the grant, and note each of them.                                  *)
(*                                                                         *)
(* A User node is found by the e-mail of a Google account, or by a wallet  *)
(* address letter by letter, and nothing in the store makes either unique: *)
(* two first logins at once, or another spelling of the address, give one  *)
(* owner several nodes, each with a welcome grant to the one wallet.       *)
(*                                                                         *)
(* A store transaction is one step where the store refuses one of two that *)
(* write the same node; two that create User nodes are not refused.        *)
(* Amounts are left out: a grant and an administrator's transfer are of    *)
(* the same amount.  So are notifications, but for the plain ones of       *)
(* received transfers, which end the search for the grant they belong to.  *)
(***************************************************************************)
EXTENDS Naturals, FiniteSets

CONSTANTS
    Owners,        \* Google accounts, and keys of wallets
    ManagedOwners, \* the Google accounts; the others sign challenges
    Users,         \* User nodes: bounds those ever created
    OwnerOf,       \* OwnerOf[u]: whose logins find node u
    Nonces,        \* WalletLoginChallenge nodes: bounds those ever created
    NonceOf,       \* NonceOf[n]: the owner of the address challenge n is for
    Transfers,     \* token transfers of the project wallet
    Logins,        \* concurrently served login and /me requests
    Readers,       \* those of them that are also used to look at the wallet
    Retriers,      \* concurrently served POST /admin/wallet/retry-grants
    Nobody,
    LastWallet,    \* bounds the wallets the Engine gives one account
    MaxRetries     \* bounds the grants taken up by retries of one user

Clients == Logins \cup Retriers

ASSUME AccountsAssumption ==
    /\ ManagedOwners \subseteq Owners
    /\ OwnerOf \in [Users -> Owners]
    /\ NonceOf \in [Nonces -> Owners \ ManagedOwners]
    /\ Readers \subseteq Logins
    /\ Logins \cap Retriers = {}
    /\ Nobody \notin Owners \cup Users \cup Nonces \cup Transfers
    /\ IsFiniteSet(Transfers) /\ IsFiniteSet(Clients)
    /\ LastWallet \in Nat \ {0} /\ MaxRetries \in Nat

VARIABLES
    wallet,        \* wallet[u]: User.walletAddress, 0 while there is no node
    engineWallet,  \* the wallet the Engine holds for each Google account
    challenges,    \* the WalletLoginChallenge nodes
    sessions,      \* sessions[n]: how many sessions challenge n has opened
    grants,        \* the welcome TokenGrant node of each user
    transfers,     \* the transfers on the chain
    noted,         \* noted[u]: those with a "wallet_received" notification of u
    clients,       \* the local state of every request being served
    amountValid,   \* is the configured welcome amount above zero?
    retried        \* retried[u]: attempts at a grant that existed before

accountsVars == <<wallet, engineWallet, challenges, sessions, grants, transfers,
                  noted, clients, amountValid, retried>>

----------------------------------------------------------------------------
(* Types *)

GrantStatuses == {"none", "pending", "failed", "sent"}
ClientSteps == {"idle", "upsert", "create", "grant", "attempt", "record",
                "session", "next", "reconcile", "note"}

NoGrant == [status |-> "none", wallet |-> 0, ids |-> {}, before |-> {},
            stale |-> FALSE]
Unsent == [state |-> "unsent", user |-> Nobody, wallet |-> 0, grant |-> FALSE]
IdleClient == [pc |-> "idle", owner |-> Nobody, user |-> Nobody, wallet |-> 0,
               nonce |-> Nobody, status |-> "none", ids |-> {}, todo |-> {}]

AccountsTypeOK ==
    /\ wallet \in [Users -> 0 .. LastWallet]
    /\ engineWallet \in [Owners -> 1 .. LastWallet]
    /\ challenges \in [Nonces -> {"none", "open", "expired", "consumed"}]
    /\ sessions \in [Nonces -> Nat]
    /\ grants \in [Users -> [status : GrantStatuses, wallet : 0 .. LastWallet,
                             ids : SUBSET Transfers, before : SUBSET Transfers,
                             stale : BOOLEAN]]
    /\ \A u \in Users : grants[u].status = "sent" <=> grants[u].ids # {}
    /\ transfers \in [Transfers ->
          [state : {"unsent", "pending", "landed", "failed"},
           user : Users \cup {Nobody}, wallet : 0 .. LastWallet,
           grant : BOOLEAN]]
    /\ noted \in [Users -> SUBSET Transfers]
    /\ clients \in [Clients ->
          [pc : ClientSteps, owner : Owners \cup {Nobody},
           user : Users \cup {Nobody}, wallet : 0 .. LastWallet,
           nonce : Nonces \cup {Nobody}, status : GrantStatuses,
           ids : SUBSET Transfers, todo : SUBSET (Users \cup Transfers)]]
    /\ amountValid \in BOOLEAN
    /\ retried \in [Users -> 0 .. MaxRetries]

AccountsInit ==
    /\ wallet = [u \in Users |-> 0]
    /\ engineWallet = [o \in Owners |-> 1]
    /\ challenges = [n \in Nonces |-> "none"]
    /\ sessions = [n \in Nonces |-> 0]
    /\ grants = [u \in Users |-> NoGrant]
    /\ transfers = [x \in Transfers |-> Unsent]
    /\ noted = [u \in Users |-> {}]
    /\ clients = [c \in Clients |-> IdleClient]
    /\ amountValid \in BOOLEAN
    /\ retried = [u \in Users |-> 0]

----------------------------------------------------------------------------
(* Helpers *)

Turns(c, state) == clients' = [clients EXCEPT ![c] = state]

At(c, pc) == clients[c].pc = pc

\* What a request does when it is through with a grant.
AfterGrant(c) ==
    IF c \in Retriers
    THEN IF clients[c].todo = {} THEN IdleClient
         ELSE [IdleClient EXCEPT !.pc = "next", !.todo = clients[c].todo]
    ELSE [clients[c] EXCEPT !.pc = "session", !.status = "none", !.ids = {}]

NextTransfer == CHOOSE x \in Transfers : transfers[x].state = "unsent"

TransfersLeft == \E x \in Transfers : transfers[x].state = "unsent"

Sends(u, w, isGrant) ==
    /\ TransfersLeft
    /\ transfers' = [transfers EXCEPT ![NextTransfer] =
          [state |-> "pending", user |-> u, wallet |-> w, grant |-> isGrant]]

\* What the chain shows of the user's present wallet, whichever node of its owner
\* it was sent for.
History(u) ==
    {x \in Transfers : /\ transfers[x].state = "landed"
                       /\ OwnerOf[transfers[x].user] = OwnerOf[u]
                       /\ transfers[x].wallet = wallet[u]}

Landed == {x \in Transfers : transfers[x].state = "landed"}

\* The User nodes of an owner, and those that are yet to be created.
NodesOf(o) == {u \in Users : OwnerOf[u] = o /\ wallet[u] # 0}

Uncreated(o) == {u \in Users : OwnerOf[u] = o /\ wallet[u] = 0}

NewNode(o) == CHOOSE u \in Uncreated(o) : TRUE

ManagedUsers == {u \in Users : OwnerOf[u] \in ManagedOwners}

----------------------------------------------------------------------------
(* POST /auth/wallet/nonce and /auth/wallet/verify *)

CreateWalletLoginChallenge(n) ==
    /\ challenges[n] = "none"
    /\ challenges' = [challenges EXCEPT ![n] = "open"]
    /\ UNCHANGED <<wallet, engineWallet, sessions, grants, transfers, noted,
                   clients, amountValid, retried>>

ChallengeExpires(n) ==
    /\ challenges[n] = "open"
    /\ challenges' = [challenges EXCEPT ![n] = "expired"]
    /\ UNCHANGED <<wallet, engineWallet, sessions, grants, transfers, noted,
                   clients, amountValid, retried>>

\* Mutant: the challenge is looked up and not marked.
LeftOpen(n) == "open"

ConsumedState(n) == "consumed"

\* ConsumeWalletLoginChallenge; then the message and the signature match or the
\* request fails, with the challenge used up either way.
WalletLoginVerify(c, n) ==
    /\ At(c, "idle")
    /\ challenges[n] = "open"
    /\ challenges' = [challenges EXCEPT ![n] = ConsumedState(n)]
    /\ \/ Turns(c, [IdleClient EXCEPT !.pc = "upsert", !.owner = NonceOf[n],
                                      !.wallet = 1, !.nonce = n])
       \/ UNCHANGED clients
    /\ UNCHANGED <<wallet, engineWallet, sessions, grants, transfers, noted,
                   amountValid, retried>>

----------------------------------------------------------------------------
(* GET /auth/google/callback and GET /me *)

\* The state matches the browser's cookie, Google names the account, and the
\* Engine returns the wallet it holds for it.
GoogleOAuthCallback(c, o) ==
    /\ At(c, "idle")
    /\ o \in ManagedOwners
    /\ Turns(c, [IdleClient EXCEPT !.pc = "upsert", !.owner = o,
                                   !.wallet = engineWallet[o]])
    /\ UNCHANGED <<wallet, engineWallet, challenges, sessions, grants,
                   transfers, noted, amountValid, retried>>

\* The Engine no longer has the wallet and gives the account another one.
EngineWalletReplaced(o) ==
    /\ o \in ManagedOwners
    /\ engineWallet[o] < LastWallet
    /\ engineWallet' = [engineWallet EXCEPT ![o] = @ + 1]
    /\ UNCHANGED <<wallet, challenges, sessions, grants, transfers, noted,
                   clients, amountValid, retried>>

\* The login is that of node u from here on.
BecomesUser(c, u) == Turns(c, [clients[c] EXCEPT !.pc = "grant", !.user = u])

\* MERGE by the address as it is written this time.  It finds the node with that
\* spelling; a new one is made when the spelling is new, or when the first login
\* with it is still being stored.
UpsertExternalWallet(c) ==
    LET o == clients[c].owner IN
    /\ At(c, "upsert")
    /\ o \notin ManagedOwners
    /\ \/ \E u \in NodesOf(o) : BecomesUser(c, u) /\ UNCHANGED wallet
       \/ /\ Uncreated(o) # {}
          /\ wallet' = [wallet EXCEPT ![NewNode(o)] = clients[c].wallet]
          /\ BecomesUser(c, NewNode(o))
    /\ UNCHANGED <<engineWallet, challenges, sessions, grants, transfers, noted,
                   amountValid, retried>>

Creating(o) == {d \in Clients : clients[d].pc = "create" /\ clients[d].owner = o}

\* MERGE by the account's e-mail: every node it finds gets the wallet, and one of
\* them is returned; or it finds none.  (No more logins find none than there are
\* nodes to create.)
UpsertGoogleManaged(c) ==
    LET o == clients[c].owner IN
    /\ At(c, "upsert")
    /\ o \in ManagedOwners
    /\ \/ \E u \in NodesOf(o) :
             /\ wallet' = [v \in Users |-> IF v \in NodesOf(o) THEN clients[c].wallet
                                           ELSE wallet[v]]
             /\ BecomesUser(c, u)
       \/ /\ NodesOf(o) = {}
          /\ Cardinality(Creating(o)) < Cardinality(Uncreated(o))
          /\ Turns(c, [clients[c] EXCEPT !.pc = "create"])
          /\ UNCHANGED wallet
    /\ UNCHANGED <<engineWallet, challenges, sessions, grants, transfers, noted,
                   amountValid, retried>>

\* It makes one, whatever other logins have made since.
CreateGoogleManaged(c) ==
    LET u == NewNode(clients[c].owner) IN
    /\ At(c, "create")
    /\ Uncreated(clients[c].owner) # {}
    /\ wallet' = [wallet EXCEPT ![u] = clients[c].wallet]
    /\ BecomesUser(c, u)
    /\ UNCHANGED <<engineWallet, challenges, sessions, grants, transfers, noted,
                   amountValid, retried>>

\* repairManagedOAuthWallet: a session and the grant follow only when the
\* wallet was replaced.
Me(c, u) ==
    /\ At(c, "idle")
    /\ u \in ManagedUsers
    /\ wallet[u] \notin {0, engineWallet[OwnerOf[u]]}
    /\ wallet' = [wallet EXCEPT ![u] = engineWallet[OwnerOf[u]]]
    /\ Turns(c, [IdleClient EXCEPT !.pc = "grant", !.user = u, !.wallet = wallet'[u]])
    /\ UNCHANGED <<engineWallet, challenges, sessions, grants, transfers, noted,
                   amountValid, retried>>

\* The cookie is set.  What follows the grant in /me changes nothing here.
IssueUserSession(c) ==
    /\ At(c, "session")
    /\ Turns(c, IdleClient)
    /\ IF clients[c].nonce = Nobody THEN UNCHANGED sessions
       ELSE sessions' = [sessions EXCEPT ![clients[c].nonce] = @ + 1]
    /\ UNCHANGED <<wallet, engineWallet, challenges, grants, transfers, noted,
                   amountValid, retried>>

----------------------------------------------------------------------------
(* The welcome grant *)

\* Two minutes pass since the grant was last written.
GrantAges(u) ==
    /\ grants[u].status = "pending" /\ ~grants[u].stale
    /\ grants' = [grants EXCEPT ![u].stale = TRUE]
    /\ UNCHANGED <<wallet, engineWallet, challenges, sessions, transfers, noted,
                   clients, amountValid, retried>>

\* ON CREATE, a pending grant for the wallet; and SET updatedAt, for every grant.
Touched(c, grant) ==
    IF grant.status = "none"
    THEN [NoGrant EXCEPT !.status = "pending", !.wallet = clients[c].wallet,
                             !.before = Landed]
    ELSE [grant EXCEPT !.stale = FALSE]

\* The transaction ids of a pending grant are always empty.
ShouldRetryTokenGrant(grant) ==
    \/ grant.status = "failed"
    \/ grant.status = "pending" /\ grant.ids = {} /\ grant.stale

\* Mutant: a grant still pending without a transaction passes for a new one.
CreatedWhilePending(grant) == grant.status \in {"none", "pending"}

\* The MERGE found no grant: its id is the new one.
Created(grant) == grant.status = "none"

\* CreateTokenGrantIfMissing, which also writes an edge of the user, so that two
\* cannot both create; and the decision on the grant it returns.
GrantWelcomeTokens(c) ==
    LET u == clients[c].user
        created == Created(grants[u])
        grant == Touched(c, grants[u])
        retry == /\ ~created /\ ShouldRetryTokenGrant(grant)
                 /\ retried[u] < MaxRetries
    IN
    /\ At(c, "grant")
    /\ grants' = [grants EXCEPT ![u] = grant]
    /\ retried' = IF retry THEN [retried EXCEPT ![u] = @ + 1] ELSE retried
    /\ Turns(c, IF created \/ retry
                THEN [clients[c] EXCEPT !.pc = "attempt"] ELSE AfterGrant(c))
    /\ UNCHANGED <<wallet, engineWallet, challenges, sessions, transfers, noted,
                   amountValid>>

\* POST /admin/wallet/retry-grants: list the pending and failed grants.
AdminRetryWelcomeGrants(c) ==
    LET todo == {u \in Users : grants[u].status \in {"pending", "failed"}} IN
    /\ At(c, "idle")
    /\ todo # {}
    /\ Turns(c, [IdleClient EXCEPT !.pc = "next", !.todo = todo])
    /\ UNCHANGED <<wallet, engineWallet, challenges, sessions, grants,
                   transfers, noted, amountValid, retried>>

\* GetByID, and an attempt whatever the grant is by now; when the user cannot be
\* loaded, it has failed, whatever it was.
AdminRetryNext(c, u) ==
    LET next == [IdleClient EXCEPT !.user = u, !.wallet = wallet[u],
                                   !.todo = clients[c].todo \ {u}]
    IN
    /\ At(c, "next")
    /\ u \in clients[c].todo
    /\ \/ /\ retried[u] < MaxRetries
          /\ retried' = [retried EXCEPT ![u] = @ + 1]
          /\ Turns(c, [next EXCEPT !.pc = "attempt"])
       \/ /\ Turns(c, [next EXCEPT !.pc = "record", !.status = "failed"])
          /\ UNCHANGED retried
    /\ UNCHANGED <<wallet, engineWallet, challenges, sessions, grants,
                   transfers, noted, amountValid>>

Records(c, status, ids) ==
    Turns(c, [clients[c] EXCEPT !.pc = "record", !.status = status, !.ids = ids])

\* attemptWelcomeTokenGrant up to its transfer.  Something is missing (Engine,
\* wallet, gas, tokens, free collateral); the amount is not valid; the transfer
\* is accepted; or the gateway reports an error, before or after broadcasting it.
AttemptWelcomeTokenGrant(c) ==
    LET u == clients[c].user IN
    /\ At(c, "attempt")
    /\ \/ Records(c, "pending", {}) /\ UNCHANGED transfers
       \/ ~amountValid /\ Records(c, "failed", {}) /\ UNCHANGED transfers
       \/ /\ amountValid
          /\ Sends(u, clients[c].wallet, TRUE)
          /\ \/ Records(c, "sent", {NextTransfer})
             \/ Records(c, "pending", {})
    /\ UNCHANGED <<wallet, engineWallet, challenges, sessions, grants, noted,
                   amountValid, retried>>

\* UpdateTokenGrantStatus, which does not ask what the grant has become, and
\* goes on without a record when it fails.
UpdateTokenGrantStatus(c) ==
    LET u == clients[c].user IN
    /\ At(c, "record")
    /\ \/ grants' = [grants EXCEPT ![u] =
             [@ EXCEPT !.status = clients[c].status, !.ids = clients[c].ids,
                       !.stale = FALSE]]
       \/ UNCHANGED grants
    /\ Turns(c, AfterGrant(c))
    /\ UNCHANGED <<wallet, engineWallet, challenges, sessions, transfers, noted,
                   amountValid, retried>>

----------------------------------------------------------------------------
(* GET /wallet/history and GET /notifications *)

\* The transfers the chain shows, but for those with a plain notification.
OpenWalletHistory(c, u) ==
    LET todo == History(u) \ noted[u] IN
    /\ At(c, "idle")
    /\ wallet[u] # 0
    /\ todo # {}
    /\ Turns(c, [IdleClient EXCEPT !.pc = "reconcile", !.user = u,
                     !.wallet = wallet[u], !.todo = todo])
    /\ UNCHANGED <<wallet, engineWallet, challenges, sessions, grants,
                   transfers, noted, amountValid, retried>>

\* Mutant: a grant that is pending is left alone.
OnlyPending(c, grant, x, dated) ==
    /\ grant.wallet = clients[c].wallet
    /\ \/ grant.status = "sent" /\ x \in grant.ids
       \/ grant.status = "failed" /\ ~(dated /\ x \in grant.before)

\* The transfer may be the welcome grant: a grant to this wallet, which was sent
\* by it, or is not known to be sent and not known to be younger.
MatchesGrant(c, grant, x, dated) ==
    /\ grant.wallet = clients[c].wallet
    /\ \/ grant.status = "sent" /\ x \in grant.ids
       \/ grant.status \in {"pending", "failed"} /\ ~(dated /\ x \in grant.before)

\* The page goes on with the rest of its list.
PageWithout(c, x) ==
    LET todo == clients[c].todo \ {x} IN
    IF todo = {} THEN IdleClient
    ELSE [clients[c] EXCEPT !.pc = "reconcile", !.todo = todo, !.ids = {}]

\* Mutant: the transfer is not recorded with the grant.
ReconciledStatus(grant, x) == [grant EXCEPT !.status = "sent", !.stale = FALSE]

Reconciled(grant, x) ==
    [grant EXCEPT !.status = "sent", !.ids = {x}, !.stale = FALSE]

\* ReconcileWelcomeTokenGrantTransfer for one transfer of the list, the time of
\* which the chain's node may fail to tell.
ReconcileTransfer(c, x) ==
    LET grant == grants[clients[c].user] IN
    /\ At(c, "reconcile")
    /\ x \in clients[c].todo
    /\ \E dated \in BOOLEAN :
          IF MatchesGrant(c, grant, x, dated)
          THEN /\ grants' = IF grant.status = "sent" THEN grants
                            ELSE [grants EXCEPT ![clients[c].user] = Reconciled(@, x)]
               /\ Turns(c, PageWithout(c, x))
          ELSE /\ UNCHANGED grants
               /\ Turns(c, [clients[c] EXCEPT !.pc = "note", !.ids = {x}])
    /\ UNCHANGED <<wallet, engineWallet, challenges, sessions, transfers, noted,
                   amountValid, retried>>

\* It is not the grant's; the notification may fail.
NoteReceivedTransfer(c, x) ==
    /\ At(c, "note")
    /\ x \in clients[c].ids
    /\ \/ noted' = [noted EXCEPT ![clients[c].user] = @ \cup {x}]
       \/ UNCHANGED noted
    /\ Turns(c, PageWithout(c, x))
    /\ UNCHANGED <<wallet, engineWallet, challenges, sessions, grants,
                   transfers, amountValid, retried>>

----------------------------------------------------------------------------
(* The chain, the administrators' other transfers, and faults *)

\* An airdrop or a transfer by hand of the amount of a grant.
OtherTransfer(u) ==
    /\ wallet[u] # 0
    /\ Sends(u, wallet[u], FALSE)
    /\ UNCHANGED <<wallet, engineWallet, challenges, sessions, grants, noted,
                   clients, amountValid, retried>>

TransferMined(x) ==
    /\ transfers[x].state = "pending"
    /\ \E result \in {"landed", "failed"} :
          transfers' = [transfers EXCEPT ![x].state = result]
    /\ UNCHANGED <<wallet, engineWallet, challenges, sessions, grants, noted,
                   clients, amountValid, retried>>

\* The server stops and comes back, with another configuration perhaps.
ServerRestart ==
    /\ clients' = [c \in Clients |-> IdleClient]
    /\ amountValid' \in BOOLEAN
    /\ UNCHANGED <<wallet, engineWallet, challenges, sessions, grants,
                   transfers, noted, retried>>

\* A store transaction of a login or a list fails, and the request with it; a
\* failure where the grant is created or reconciled only skips that.
RequestFails(c) ==
    /\ \/ At(c, "upsert") /\ Turns(c, IdleClient)
       \/ At(c, "create") /\ Turns(c, IdleClient)
       \/ At(c, "grant") /\ Turns(c, AfterGrant(c))
       \/ /\ At(c, "reconcile")
          /\ \E x \in clients[c].todo :
                Turns(c, [clients[c] EXCEPT !.pc = "note", !.ids = {x}])
    /\ UNCHANGED <<wallet, engineWallet, challenges, sessions, grants,
                   transfers, noted, amountValid, retried>>

----------------------------------------------------------------------------
(* Specification *)

LoginRequest(c) ==
    \/ \E n \in Nonces : WalletLoginVerify(c, n)
    \/ \E o \in Owners : GoogleOAuthCallback(c, o)
    \/ \E u \in Users : Me(c, u)

GrantStep(c) ==
    \/ AttemptWelcomeTokenGrant(c)
    \/ UpdateTokenGrantStatus(c)

RequestStep(c) ==
    \/ UpsertExternalWallet(c)
    \/ UpsertGoogleManaged(c)
    \/ CreateGoogleManaged(c)
    \/ GrantWelcomeTokens(c)
    \/ GrantStep(c)
    \/ IssueUserSession(c)
    \/ \E x \in Transfers : ReconcileTransfer(c, x) \/ NoteReceivedTransfer(c, x)

AccountsEnvironment ==
    \/ \E n \in Nonces : CreateWalletLoginChallenge(n) \/ ChallengeExpires(n)
    \/ \E o \in Owners : EngineWalletReplaced(o)
    \/ \E u \in Users : GrantAges(u) \/ OtherTransfer(u)
    \/ \E x \in Transfers : TransferMined(x)

AccountsNext ==
    \/ \E c \in Logins : LoginRequest(c) \/ RequestStep(c)
    \/ \E c \in Readers, u \in Users : OpenWalletHistory(c, u)
    \/ \E c \in Retriers :
          \/ AdminRetryWelcomeGrants(c)
          \/ \E u \in Users : AdminRetryNext(c, u)
          \/ GrantStep(c)
    \/ \E c \in Clients : RequestFails(c)
    \/ AccountsEnvironment
    \/ ServerRestart

AccountsSpec == AccountsInit /\ [][AccountsNext]_accountsVars

\* Requests go on.  Users come back to their wallet page, and one that is opened
\* again and again is not interrupted, nor its store refused, at one step for ever.
PageFairness ==
    \A c \in Readers :
        /\ WF_accountsVars(RequestStep(c))
        /\ \A u \in ManagedUsers :
              /\ SF_accountsVars(OpenWalletHistory(c, u))
              /\ \A x \in Transfers :
                    SF_accountsVars(clients[c].user = u /\ ReconcileTransfer(c, x))

----------------------------------------------------------------------------
(* Properties *)

GrantTransfers(u) == {x \in Transfers : transfers[x].grant /\ transfers[x].user = u}

\* However many logins run at once, fail or are restarted, the welcome tokens of
\* a User node are sent once, and at most once more for every attempt at a grant
\* that was there before (created in CreateTokenGrantIfMissing,
\* shouldRetryTokenGrant).  It says nothing of an owner's other nodes, each of
\* which has its own grant to the same wallet.
SentOncePerAttempt ==
    \A u \in Users : Cardinality(GrantTransfers(u)) <= 1 + retried[u]

\* A signed challenge opens one session, whoever presents it when
\* (ConsumeWalletLoginChallenge).
ChallengeOpensOneSession == \A n \in Nonces : sessions[n] <= 1

\* "Keep the grant pending until wallet history confirms whether it landed"
\* (attemptWelcomeTokenGrant): once a grant's transfer has landed, the grant
\* becomes "sent" when its managed user looks at her wallet, unless her wallet was
\* replaced after the grant was created, or a failed reconciliation has left a
\* plain notification of the transfer, which ends all looking at it.
LandedGrantBecomesSent ==
    \A u \in ManagedUsers, x \in Transfers :
        transfers[x].grant /\ transfers[x].user = u /\ x \in History(u)
            ~> \/ grants[u].status = "sent"
               \/ grants[u].wallet # wallet[u]
               \/ x \in noted[u]

\* "stale pending grant without a transaction ID should be retried"
\* (welcome_grant_test.go): a login that finds one attempts it.
StalePendingRetried ==
    [][\A c \in Logins :
         LET grant == grants[clients[c].user] IN
         /\ At(c, "grant") /\ GrantWelcomeTokens(c)
         /\ grant.status = "pending" /\ grant.stale
         => At(c, "attempt")']_accountsVars

=============================================================================
