---------------------------- MODULE ScenesProofs ----------------------------
(***************************************************************************)
(* The scenes in which TLC checks the services are theirs: whatever a      *)
(* scene leaves out, each of its steps is a step of one service and none   *)
(* of the others.  So what is proved of the services holds in every scene. *)
(***************************************************************************)
EXTENDS MCServices, AccountsProofs, CollateralProofs, ServicesProofs

\* The first state of a scene is one of every service.
LEMMA InitServed ==
    ServicesInit => /\ AccountsInit /\ KeysInit /\ AlertsInit /\ NewsInit
                    /\ GroupsInit /\ CollateralInit /\ SponsorInit
BY DEF ServicesInit

\* One service moves, as its own module says, or none.
LEMMA NextServed ==
    ASSUME [ServicesNext]_servicesVars
    PROVE  /\ [AccountsNext]_accountsVars /\ [KeysNext]_keysVars
           /\ [AlertsNext]_alertsVars /\ [NewsNext]_newsVars
           /\ [GroupsNext]_groupsVars /\ [CollateralNext]_collateralVars
           /\ [SponsorNext]_sponsorVars
<1>1. CASE UNCHANGED servicesVars
    BY <1>1 DEF servicesVars
<1>2. CASE ServicesNext
    BY <1>2 DEF ServicesNext
<1> QED  BY <1>1, <1>2

\* Every behaviour of a scene is a behaviour of each service: the bounds leave out
\* steps and change none, and the services share no state.
THEOREM ScenesAreServices ==
    ServicesSpec => /\ AccountsSpec /\ KeysSpec /\ AlertsSpec /\ NewsSpec
                    /\ GroupsSpec /\ CollateralSpec /\ SponsorSpec
BY InitServed, NextServed, PTL
DEF ServicesSpec, AccountsSpec, KeysSpec, AlertsSpec, NewsSpec, GroupsSpec,
    CollateralSpec, SponsorSpec

\* In every scene the state of every service keeps its type, whichever requests,
\* workers and administrators move in it.
THEOREM ScenesTyped == ServicesSpec => []ServicesTypeOK
BY ScenesAreServices, AccountsTyped, KeysTyped, AlertsTyped, NewsTyped,
   GroupsTyped, CollateralTyped, SponsorTyped, PTL
DEF ServicesTypeOK

=============================================================================
