----------------------------- MODULE NewsGroups -----------------------------
(***************************************************************************)
(* groupArticles: how a scan of the news scout sorts articles into         *)
(* stories, one article after the other, and which stories it keeps.       *)
(*                                                                         *)
(* A group is known by the title of its first article.  An article joins   *)
(* the group whose title shares most words with its own, if that is enough *)
(* and the group has no article of its publisher; else it is dropped, or   *)
(* begins a group.  Titles are their sets of words (titleTokens).          *)
(***************************************************************************)
EXTENDS Naturals, FiniteSets, Sequences

CONSTANTS
    Articles,
    Words,      \* Words[a]: titleTokens of a's title
    Domain,     \* Domain[a]: its publisher
    Primary,    \* the articles of primary publishers
    MaxFeed,    \* bounds the articles of one scan
    MaxGroups   \* bounds the limit

ASSUME GroupsAssumption ==
    /\ \A a \in Articles : IsFiniteSet(Words[a])
    /\ MaxFeed \in Nat /\ MaxGroups \in Nat

VARIABLES
    feed,       \* the articles that are left
    filter,     \* the filter of the scan
    limit,      \* how many stories it may keep
    groups,     \* the groups so far
    looked,     \* how many of them the filter has looked at
    eligible    \* the result

groupsVars == <<feed, filter, limit, groups, looked, eligible>>

Filters == {"no_skip", "corroborated_or_primary", "corroborated", "primary"}

Feeds == UNION {[1 .. n -> Articles] : n \in 0 .. MaxFeed}

GroupsInit ==
    /\ feed \in Feeds
    /\ filter \in Filters
    /\ limit \in 1 .. MaxGroups
    /\ groups = <<>> /\ looked = 0
    /\ eligible = <<>>

----------------------------------------------------------------------------
(* Helpers *)

Shared(a, b) == Cardinality(Words[a] \cap Words[b])
All(a, b) == Cardinality(Words[a] \cup Words[b])

\* bestScore >= 0.28
Similar(a, b) == 100 * Shared(a, b) >= 28 * All(a, b)

\* jaccard(a, b) > jaccard(a, c)
Closer(a, b, c) == Shared(a, b) * All(a, c) > Shared(a, c) * All(a, b)

\* Mutant: the last group that shares a word is taken.
LastGroup(a) ==
    LET some == {i \in DOMAIN groups : Shared(a, groups[i].headline) > 0} IN
    IF some = {} THEN 0 ELSE CHOOSE i \in some : \A j \in some : j <= i

\* The first of the closest groups, 0 when none shares a word.
BestGroup(a) ==
    LET some == {i \in DOMAIN groups : Shared(a, groups[i].headline) > 0} IN
    IF some = {} THEN 0
    ELSE CHOOSE i \in some : \A j \in some :
             \/ Closer(a, groups[i].headline, groups[j].headline)
             \/ /\ ~Closer(a, groups[j].headline, groups[i].headline)
                /\ i <= j

\* Mutant: publishers are not compared.
NeverHas(i, a) == a \in groups[i].articles

GroupHasDomain(i, a) == \E b \in groups[i].articles : Domain[b] = Domain[a]

GroupHasPrimary(group) == \E a \in group.articles : a \in Primary

GroupMatchesFilter(group) ==
    CASE filter = "corroborated_or_primary" ->
              Cardinality(group.articles) >= 2 \/ GroupHasPrimary(group)
      [] filter = "corroborated" -> Cardinality(group.articles) >= 2
      [] filter = "primary" -> GroupHasPrimary(group)
      [] OTHER -> TRUE

----------------------------------------------------------------------------
(* groupArticles *)

TakeArticle ==
    LET a == Head(feed)
        best == BestGroup(a)
    IN
    /\ feed # <<>>
    /\ feed' = Tail(feed)
    /\ groups' =
          IF Cardinality(Words[a]) < 3 THEN groups
          ELSE IF best # 0 /\ Similar(a, groups[best].headline)
               THEN IF GroupHasDomain(best, a) THEN groups
                    ELSE [groups EXCEPT ![best].articles = @ \cup {a}]
               ELSE Append(groups, [headline |-> a, articles |-> {a}])
    /\ UNCHANGED <<filter, limit, looked, eligible>>

\* The next group is kept if the filter lets it, until there are enough.
KeepEligible ==
    LET group == groups[looked + 1] IN
    /\ feed = <<>> /\ looked < Len(groups) /\ Len(eligible) < limit
    /\ looked' = looked + 1
    /\ eligible' = IF GroupMatchesFilter(group) THEN Append(eligible, group) ELSE eligible
    /\ UNCHANGED <<feed, filter, limit, groups>>

GroupsNext == TakeArticle \/ KeepEligible

GroupsSpec == GroupsInit /\ [][GroupsNext]_groupsVars

----------------------------------------------------------------------------
(* Properties *)

GroupStates == [headline : Articles, articles : SUBSET Articles]

GroupsTypeOK ==
    /\ feed \in Seq(Articles)
    /\ filter \in Filters
    /\ limit \in 1 .. MaxGroups
    /\ groups \in Seq(GroupStates)
    /\ looked \in 0 .. Len(groups)
    /\ eligible \in Seq(GroupStates)

\* The headlines of two groups of one scan are never alike enough for one of them
\* to have joined the other, and every article a group counts is alike enough to
\* its headline (groupArticles takes the closest headline, wherever it stands).
\* It is not that one event makes one group: likeness is not transitive, and of
\* three titles in a chain the order decides which two come together.
StoriesApart ==
    \A i, j \in DOMAIN groups :
        /\ i # j => ~Similar(groups[i].headline, groups[j].headline)
        /\ \A a \in groups[i].articles : Similar(a, groups[i].headline)

\* Under "corroborated" a story is kept only when two publishers have it
\* (groupHasDomain, groupMatchesFilter).
CorroboratedByTwo ==
    filter = "corroborated" =>
        \A i \in DOMAIN eligible : \E a, b \in eligible[i].articles :
            Domain[a] # Domain[b]

=============================================================================
