----------------------------- MODULE MCServices -----------------------------
(***************************************************************************)
(* The small services beside the markets and their payouts, for TLC.  They *)
(* share no state, so one run checks them side by side: a behaviour plays  *)
(* one scene, in which one component moves under the bounds of that scene. *)
(***************************************************************************)
EXTENDS Accounts, EngineKeys, Alerts, NewsScout, NewsGroups, Collateral,
        SponsorPolicy, TLC

CONSTANTS g1, e1, u1, u2, u3, n1, n2, k1, k2, c1, c2, a1, o1, o2, s1, v1, v2, east, west,
          p1, p2, p3, p4, p5, daily, herald, m1, t1, t2

VARIABLE scene

\* u1 is a Google account's User node; u2 and u3 are of the address that both
\* challenges are for.
Holders == u1 :> g1 @@ u2 :> e1 @@ u3 :> e1
ForTheAddress == [n \in Nonces |-> e1]

\* One version of a story is a plain question, the other has two choices.
EastOrBoth == v1 :> {east} @@ v2 :> {east, west}

\* p1 and p2 tell one story, p3 tells p2's and not p1's, p4 is too short, and p5
\* lies between p1 and p3.
Titles == p1 :> 1 .. 5 @@ p2 :> 3 .. 7 @@ p3 :> 6 .. 10 @@ p4 :> 1 .. 2
          @@ p5 :> {1, 2, 6, 7}
Publishers == p1 :> daily @@ p2 :> herald @@ p3 :> daily @@ p4 :> herald
              @@ p5 :> daily

\* An administrator sends one token at once.
OneToken == {{1}}

\* One trade a day for each wallet, and one or two for all of them.
Tight == [wallet |-> 1, global |-> 1]
Loose == [wallet |-> 1, global |-> 2]
TightAndLoose == {Tight, Loose}

GrantScenes == {"retries", "replaced", "airdrops", "signatures"}
KeyScenes == {"limiter", "rotation"}
AlertScenes == {"prices", "settlement"}
Scenes == GrantScenes \cup KeyScenes \cup AlertScenes
          \cup {"news", "groups", "treasury", "sponsors"}

servicesVars == <<accountsVars, keysVars, alertsVars, newsVars, groupsVars,
                  collateralVars, sponsorVars, scene>>

ServicesInit ==
    /\ AccountsInit /\ KeysInit /\ AlertsInit /\ NewsInit /\ GroupsInit
    /\ CollateralInit /\ SponsorInit
    /\ scene \in Scenes
    /\ scene \notin GrantScenes => amountValid
    /\ scene # "prices" => price = 1
    /\ balance = MaxBalance
    /\ scene # "sponsors" => policy.global = 1
    /\ scene # "groups" => feed = <<>> /\ filter = "no_skip" /\ limit = 1

\* What each scene leaves out; none of it is an action with fairness.
GrantBounds ==
    /\ \A c \in Clients :
          clients'[c].owner \in {Nobody, IF scene = "signatures" THEN e1 ELSE g1}
    /\ scene # "retries" => \A c \in Retriers : clients'[c].pc = "idle"
    /\ scene # "replaced" => engineWallet' = engineWallet
    /\ scene = "airdrops" => clients'[c2].pc = "idle"
    /\ scene # "airdrops" => \A x \in Transfers : transfers'[x].state # "unsent"
                                                   => transfers'[x].grant
    /\ IF scene = "signatures"
       THEN /\ UNCHANGED amountValid
            /\ challenges'[n2] # "expired"
            /\ ~grants'[u2].stale /\ ~grants'[u3].stale
            /\ clients'[c1].todo # {} => clients'[c1].user = u2
       ELSE challenges' = challenges

KeyBounds ==
    IF scene = "limiter"
    THEN /\ keys'[k2].status = "unused"
         /\ \A r \in Rotators : rotators'[r].pc = "idle"
    ELSE /\ minute' = 0
         /\ \A c \in Callers : c # c1 => callers'[c].pc = "idle"

AlertBounds ==
    /\ alerts'[u2].on = {}
    /\ IF scene = "prices"
       THEN /\ alerts'[u1].on \subseteq {"price"}
            /\ UNCHANGED <<settlers, poll>>
       ELSE /\ "price" \notin alerts'[u1].on
            /\ UNCHANGED orders

\* The first trade is on yes and the only one whose owner claims, a cashout pays
\* half of the shares, and a deposit fills the treasury.
TreasuryBounds ==
    /\ Unused = Trades => operation'.next.side = "yes"
    /\ operation'.kind = "cashout" => operation'.paid = 2
    /\ claims' \subseteq {t1}
    /\ balance' > balance => balance' = MaxBalance

ServicesNext ==
    /\ UNCHANGED scene
    /\ \/ /\ scene \in GrantScenes
          /\ AccountsNext /\ GrantBounds
          /\ UNCHANGED <<keysVars, alertsVars, newsVars, groupsVars,
                        collateralVars, sponsorVars>>
       \/ /\ scene \in KeyScenes
          /\ KeysNext /\ KeyBounds
          /\ UNCHANGED <<accountsVars, alertsVars, newsVars, groupsVars,
                        collateralVars, sponsorVars>>
       \/ /\ scene \in AlertScenes
          /\ AlertsNext /\ AlertBounds
          /\ UNCHANGED <<accountsVars, keysVars, newsVars, groupsVars,
                        collateralVars, sponsorVars>>
       \/ /\ scene = "news"
          /\ NewsNext
          /\ UNCHANGED <<accountsVars, keysVars, alertsVars, groupsVars,
                        collateralVars, sponsorVars>>
       \/ /\ scene = "groups"
          /\ GroupsNext
          /\ UNCHANGED <<accountsVars, keysVars, alertsVars, newsVars,
                        collateralVars, sponsorVars>>
       \/ /\ scene = "treasury"
          /\ CollateralNext /\ TreasuryBounds
          /\ UNCHANGED <<accountsVars, keysVars, alertsVars, newsVars,
                        groupsVars, sponsorVars>>
       \/ /\ scene = "sponsors"
          /\ SponsorNext
          /\ UNCHANGED <<accountsVars, keysVars, alertsVars, newsVars,
                        groupsVars, collateralVars>>

ServicesSpec == ServicesInit /\ [][ServicesNext]_servicesVars /\ PageFairness

\* The state of every service is of its type (the TypeOK of each module), with
\* a grant "sent" exactly when its transfer is recorded and collateralMu held by
\* the one order that is under way.
ServicesTypeOK ==
    /\ AccountsTypeOK
    /\ KeysTypeOK
    /\ AlertsTypeOK
    /\ NewsTypeOK
    /\ GroupsTypeOK
    /\ CollateralTypeOK
    /\ SponsorTypeOK

=============================================================================
