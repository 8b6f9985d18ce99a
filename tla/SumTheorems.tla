----------------------------- MODULE SumTheorems -----------------------------
(***************************************************************************)
(* Sums over finite sets: what MapThenSumSet returns when the set grows by *)
(* an element, shrinks, falls into two parts, or when the values change.   *)
(*                                                                         *)
(* MapThenSumSet folds with a recursive function, which is a CHOOSE of its *)
(* equation.  The induction is on the subsets of a finite set: a set of    *)
(* subsets that holds the empty one, and each it can reach by adding an    *)
(* element, holds them all.                                                *)
(***************************************************************************)
EXTENDS Integers, FiniteSetsExt, FiniteSetTheorems, WellFoundedInduction, TLAPS

\* The element that MapThenSumSet takes first.
Pick(s) == CHOOSE x \in s : TRUE

\* g holds the sum of f over every subset of S.
IsSum(g, f, S) ==
    g = [s \in SUBSET S |-> IF s = {} THEN 0 ELSE f[Pick(s)] + g[s \ {Pick(s)}]]

\* The sum of the values that f has on S.
Total(f, S) == MapThenSumSet(LAMBDA x : f[x], S)

----------------------------------------------------------------------------
(* Induction on the subsets of a finite set *)

\* A set of subsets which is not all of them leaves out a smallest one.
LEMMA SmallestSubset ==
    ASSUME NEW S, IsFiniteSet(S), NEW B, NEW t \in SUBSET S, t \notin B
    PROVE  \E u \in SUBSET S : u \notin B /\ \A v \in SUBSET u : v # u => v \in B
<1> DEFINE Bad == {u \in SUBSET S : u \notin B}
<1>1. Bad # {} /\ Bad \subseteq FiniteSubsetsOf(S)
    BY FS_FiniteSubsetsOfFinite
<1>2. IsWellFoundedOn(StrictSubsetOrdering(S), FiniteSubsetsOf(S))
    BY FS_StrictSubsetOrderingWellFounded
<1> HIDE DEF Bad
<1>3. PICK u \in Bad : \A v \in Bad : <<v, u>> \notin StrictSubsetOrdering(S)
    BY <1>1, <1>2, WFMin
<1> USE DEF Bad
<1>4. ASSUME NEW v \in SUBSET u, v # u
      PROVE  v \in B
    <2>1. <<v, u>> \in StrictSubsetOrdering(S)
        BY <1>4 DEF StrictSubsetOrdering
    <2> QED  BY <1>3, <2>1
<1> QED  BY <1>3, <1>4

LEMMA SubsetInduction ==
    ASSUME NEW S, IsFiniteSet(S), NEW B, {} \in B,
           \A u \in SUBSET S : \A x \in S \ u : u \in B => u \cup {x} \in B
    PROVE  SUBSET S \subseteq B
<1> SUFFICES ASSUME NEW t \in SUBSET S, t \notin B
             PROVE  FALSE
    OBVIOUS
<1>1. PICK u \in SUBSET S : u \notin B /\ \A v \in SUBSET u : v # u => v \in B
    BY SmallestSubset
<1>2. PICK x \in u : TRUE
    BY <1>1
<1>3. u \ {x} \in B /\ u = (u \ {x}) \cup {x}
    BY <1>1, <1>2
<1> QED  BY <1>1, <1>3

----------------------------------------------------------------------------
(* The recursive function of a sum *)

LEMMA PickIn == \A s : s # {} => Pick(s) \in s
BY DEF Pick

LEMMA SumStep ==
    ASSUME NEW f, NEW S, NEW g, IsSum(g, f, S)
    PROVE  /\ g[{}] = 0
           /\ \A s \in SUBSET S : s # {} => g[s] = f[Pick(s)] + g[s \ {Pick(s)}]
BY DEF IsSum

\* Two such functions agree, whichever sets they are over.
LEMMA SumsAgree ==
    ASSUME NEW f, NEW S, NEW T, NEW g, NEW h, IsSum(g, f, S), IsSum(h, f, T),
           NEW u \in (SUBSET S) \cap (SUBSET T), IsFiniteSet(u)
    PROVE  g[u] = h[u]
<1> DEFINE B == {s \in SUBSET u : g[s] = h[s]}
<1> SUFFICES ASSUME u \notin B
             PROVE  FALSE
    OBVIOUS
<1> HIDE DEF B
<1>1. PICK s \in SUBSET u : s \notin B /\ \A v \in SUBSET s : v # s => v \in B
    BY SmallestSubset
<1> USE DEF B
<1>2. s # {}
    BY <1>1, SumStep
<1>3. g[s \ {Pick(s)}] = h[s \ {Pick(s)}]
    BY <1>1, <1>2, PickIn
<1>4. /\ g[s] = f[Pick(s)] + g[s \ {Pick(s)}]
      /\ h[s] = f[Pick(s)] + h[s \ {Pick(s)}]
    <2>1. s \in SUBSET S /\ s \in SUBSET T
        OBVIOUS
    <2> QED  BY <1>2, <2>1, SumStep
<1> QED  BY <1>1, <1>3, <1>4

LEMMA SumExists ==
    ASSUME NEW S, IsFiniteSet(S), NEW f
    PROVE  \E g : IsSum(g, f, S)
<1> DEFINE B == {s \in SUBSET S : \E g : IsSum(g, f, s)}
<1> SUFFICES ASSUME S \notin B
             PROVE  FALSE
    OBVIOUS
<1> HIDE DEF B
<1>1. PICK s \in SUBSET S : s \notin B /\ \A v \in SUBSET s : v # s => v \in B
    BY SmallestSubset
<1> USE DEF B
<1> DEFINE G(u) == CHOOSE g : IsSum(g, f, u)
           v == [u \in SUBSET s |-> IF u = {} THEN 0
                                    ELSE f[Pick(u)] + G(u \ {Pick(u)})[u \ {Pick(u)}]]
<1>2. \A u \in SUBSET s : u # s => IsSum(G(u), f, u)
    BY <1>1
<1> HIDE DEF G
<1>3. ASSUME NEW u \in SUBSET s, u # s
      PROVE  v[u] = G(u)[u]
    <2>1. CASE u = {}
        BY <1>2, <1>3, <2>1, SumStep
    <2>2. CASE u # {}
        <3> DEFINE w == u \ {Pick(u)}
        <3>1. w \in SUBSET s /\ w # s /\ w \in SUBSET u
            BY <2>2, PickIn
        <3>2. IsFiniteSet(w)
            BY <3>1, FS_Subset
        <3>3. G(w)[w] = G(u)[w]
            <4>1. IsSum(G(w), f, w) /\ IsSum(G(u), f, u)
                BY <1>2, <1>3, <3>1
            <4> HIDE DEF w
            <4> QED  BY <3>1, <3>2, <4>1, SumsAgree
        <3>4. G(u)[u] = f[Pick(u)] + G(u)[w]
            BY <1>2, <1>3, <2>2, SumStep
        <3> QED  BY <2>2, <3>3, <3>4
    <2> QED  BY <2>1, <2>2
<1>4. v = [u \in SUBSET s |-> IF u = {} THEN 0 ELSE f[Pick(u)] + v[u \ {Pick(u)}]]
    <2>1. ASSUME NEW u \in SUBSET s, u # {}
          PROVE  v[u \ {Pick(u)}] = G(u \ {Pick(u)})[u \ {Pick(u)}]
        <3>1. u \ {Pick(u)} \in SUBSET s /\ u \ {Pick(u)} # s
            BY <2>1, PickIn
        <3> HIDE DEF v
        <3> QED  BY <1>3, <3>1
    <2> QED  BY <2>1
<1>5. IsSum(v, f, s)
    BY <1>4 DEF IsSum
<1> QED  BY <1>1, <1>5

LEMMA TotalForm ==
    ASSUME NEW f, NEW S, IsFiniteSet(S)
    PROVE  \E g : IsSum(g, f, S) /\ Total(f, S) = g[S]
<1> DEFINE h == CHOOSE iter : iter = [s \in SUBSET S |->
                    IF s = {} THEN 0
                    ELSE f[CHOOSE x \in s : TRUE] + iter[s \ {CHOOSE x \in s : TRUE}]]
<1>1. Total(f, S) = h[S]
    BY DEF Total, MapThenSumSet, MapThenFoldSet
<1>2. IsSum(h, f, S)
    <2>1. PICK g : IsSum(g, f, S)
        BY SumExists
    <2>2. g = [s \in SUBSET S |->
                 IF s = {} THEN 0
                 ELSE f[CHOOSE x \in s : TRUE] + g[s \ {CHOOSE x \in s : TRUE}]]
        BY <2>1 DEF IsSum, Pick
    <2>3. h = [s \in SUBSET S |->
                 IF s = {} THEN 0
                 ELSE f[CHOOSE x \in s : TRUE] + h[s \ {CHOOSE x \in s : TRUE}]]
        BY <2>2
    <2> HIDE DEF h
    <2> QED  BY <2>3 DEF IsSum, Pick
<1> QED  BY <1>1, <1>2

----------------------------------------------------------------------------
(* What a sum is *)

LEMMA TotalEmpty == \A f : Total(f, {}) = 0
BY FS_EmptySet, TotalForm, SumStep

\* Whatever function satisfies the equation gives the sum.
LEMMA SumIsTotal ==
    ASSUME NEW f, NEW S, IsFiniteSet(S), NEW h, IsSum(h, f, S)
    PROVE  h[S] = Total(f, S)
BY TotalForm, SumsAgree

LEMMA TotalStep ==
    ASSUME NEW f, NEW S, IsFiniteSet(S), S # {}
    PROVE  Total(f, S) = f[Pick(S)] + Total(f, S \ {Pick(S)})
<1> DEFINE s == S \ {Pick(S)}
<1>1. PICK g : IsSum(g, f, S) /\ Total(f, S) = g[S]
    BY TotalForm
<1>2. IsFiniteSet(s) /\ s \subseteq S
    BY FS_Subset
<1> HIDE DEF s
<1>3. PICK h : IsSum(h, f, s) /\ Total(f, s) = h[s]
    BY <1>2, TotalForm
<1>4. g[s] = h[s]
    BY <1>1, <1>2, <1>3, SumsAgree
<1>5. g[S] = f[Pick(S)] + g[s]
    BY <1>1, SumStep DEF s
<1> QED  BY <1>1, <1>3, <1>4, <1>5 DEF s

LEMMA TotalInt ==
    ASSUME NEW S, IsFiniteSet(S), NEW f, \A x \in S : f[x] \in Int
    PROVE  Total(f, S) \in Int
<1> DEFINE B == {s \in SUBSET S : Total(f, s) \in Int}
<1> SUFFICES ASSUME S \notin B
             PROVE  FALSE
    OBVIOUS
<1> HIDE DEF B
<1>1. PICK s \in SUBSET S : s \notin B /\ \A v \in SUBSET s : v # s => v \in B
    BY SmallestSubset
<1> USE DEF B
<1>2. s # {}
    <2>1. {} \in B
        BY TotalEmpty
    <2> QED  BY <1>1, <2>1
<1>3. Pick(s) \in s /\ s \ {Pick(s)} \in B /\ IsFiniteSet(s)
    BY <1>1, <1>2, PickIn, FS_Subset
<1>4. Total(f, s) = f[Pick(s)] + Total(f, s \ {Pick(s)})
    BY <1>2, <1>3, TotalStep
<1> QED  BY <1>1, <1>3, <1>4

\* It does not matter which element is counted first.
LEMMA TotalRemove ==
    ASSUME NEW S, IsFiniteSet(S), NEW f, \A x \in S : f[x] \in Int, NEW y \in S
    PROVE  Total(f, S) = f[y] + Total(f, S \ {y})
<1> DEFINE B == {s \in SUBSET S : \A x \in s : Total(f, s) = f[x] + Total(f, s \ {x})}
<1> SUFFICES ASSUME S \notin B
             PROVE  FALSE
    OBVIOUS
<1> HIDE DEF B
<1>1. PICK s \in SUBSET S : s \notin B /\ \A v \in SUBSET s : v # s => v \in B
    BY SmallestSubset
<1> USE DEF B
<1>2. PICK x \in s : Total(f, s) # f[x] + Total(f, s \ {x})
    BY <1>1
<1> DEFINE p == Pick(s)
<1>3. p \in s /\ Total(f, s) = f[p] + Total(f, s \ {p})
    BY <1>2, PickIn, TotalStep, FS_Subset
<1> HIDE DEF p
<1>4. x # p
    BY <1>2, <1>3
<1>5. s \ {p} \in B /\ s \ {x} \in B
    BY <1>1, <1>2, <1>3
<1>6. /\ Total(f, s \ {p}) = f[x] + Total(f, (s \ {p}) \ {x})
      /\ Total(f, s \ {x}) = f[p] + Total(f, (s \ {x}) \ {p})
    BY <1>2, <1>3, <1>4, <1>5
<1>7. (s \ {p}) \ {x} = (s \ {x}) \ {p}
    OBVIOUS
<1>8. Total(f, (s \ {p}) \ {x}) \in Int
    <2>1. (s \ {p}) \ {x} \in SUBSET S
        OBVIOUS
    <2> QED  BY <2>1, FS_Subset, TotalInt
<1>9. f[x] \in Int /\ f[p] \in Int
    BY <1>2, <1>3
<1>10. Total(f, s) = f[x] + Total(f, s \ {x})
    <2> DEFINE c == Total(f, (s \ {p}) \ {x})
    <2>1. Total(f, s \ {x}) = f[p] + c
        BY <1>6, <1>7
    <2>2. Total(f, s) = f[p] + (f[x] + c) /\ c \in Int
        BY <1>3, <1>6, <1>8
    <2> HIDE DEF c
    <2> QED  BY <1>9, <2>1, <2>2
<1> QED  BY <1>2, <1>10

LEMMA TotalAdd ==
    ASSUME NEW S, IsFiniteSet(S), NEW f, NEW y, y \notin S,
           \A x \in S \cup {y} : f[x] \in Int
    PROVE  Total(f, S \cup {y}) = f[y] + Total(f, S)
<1>1. (S \cup {y}) \ {y} = S /\ y \in S \cup {y}
    OBVIOUS
<1>2. IsFiniteSet(S \cup {y})
    BY FS_AddElement
<1>3. Total(f, S \cup {y}) = f[y] + Total(f, (S \cup {y}) \ {y})
    BY <1>1, <1>2, TotalRemove
<1> QED  BY <1>1, <1>3

\* The sum over one element.
LEMMA TotalOne ==
    ASSUME NEW f, NEW y, f[y] \in Int
    PROVE  Total(f, {y}) = f[y]
<1>1. Total(f, {} \cup {y}) = f[y] + Total(f, {})
    <2> \A x \in {} \cup {y} : f[x] \in Int
        OBVIOUS
    <2> QED  BY TotalAdd, FS_EmptySet
<1>2. {} \cup {y} = {y}
    OBVIOUS
<1> QED  BY <1>1, <1>2, TotalEmpty

LEMMA TotalSame ==
    ASSUME NEW S, IsFiniteSet(S), NEW f, NEW g, \A x \in S : f[x] = g[x]
    PROVE  Total(f, S) = Total(g, S)
<1> DEFINE B == {s \in SUBSET S : Total(f, s) = Total(g, s)}
<1> SUFFICES ASSUME S \notin B
             PROVE  FALSE
    OBVIOUS
<1> HIDE DEF B
<1>1. PICK s \in SUBSET S : s \notin B /\ \A v \in SUBSET s : v # s => v \in B
    BY SmallestSubset
<1> USE DEF B
<1>2. s # {}
    <2>1. {} \in B
        BY TotalEmpty
    <2> QED  BY <1>1, <2>1
<1>3. Pick(s) \in s /\ s \ {Pick(s)} \in B /\ IsFiniteSet(s)
    BY <1>1, <1>2, PickIn, FS_Subset
<1>4. /\ Total(f, s) = f[Pick(s)] + Total(f, s \ {Pick(s)})
      /\ Total(g, s) = g[Pick(s)] + Total(g, s \ {Pick(s)})
    BY <1>2, <1>3, TotalStep
<1> QED  BY <1>1, <1>3, <1>4

LEMMA TotalPlus ==
    ASSUME NEW S, IsFiniteSet(S), NEW f, NEW g, NEW h,
           \A x \in S : f[x] \in Int /\ g[x] \in Int /\ h[x] = f[x] + g[x]
    PROVE  Total(h, S) = Total(f, S) + Total(g, S)
<1> DEFINE B == {s \in SUBSET S : Total(h, s) = Total(f, s) + Total(g, s)}
<1> SUFFICES ASSUME S \notin B
             PROVE  FALSE
    OBVIOUS
<1> HIDE DEF B
<1>1. PICK s \in SUBSET S : s \notin B /\ \A v \in SUBSET s : v # s => v \in B
    BY SmallestSubset
<1> USE DEF B
<1>2. s # {}
    <2>1. {} \in B
        BY TotalEmpty
    <2> QED  BY <1>1, <2>1
<1> DEFINE p == Pick(s)
           r == s \ {p}
<1>3. p \in s /\ r \in B /\ IsFiniteSet(s) /\ IsFiniteSet(r)
    BY <1>1, <1>2, PickIn, FS_Subset
<1>4. /\ Total(f, s) = f[p] + Total(f, r)
      /\ Total(g, s) = g[p] + Total(g, r)
      /\ Total(h, s) = h[p] + Total(h, r)
    BY <1>2, <1>3, TotalStep
<1>5. Total(f, r) \in Int /\ Total(g, r) \in Int
    BY <1>3, TotalInt
<1>6. f[p] \in Int /\ g[p] \in Int /\ h[p] = f[p] + g[p]
    BY <1>3
<1>7. Total(h, r) = Total(f, r) + Total(g, r)
    BY <1>3
<1> HIDE DEF p, r
<1>8. Total(h, s) = Total(f, s) + Total(g, s)
    BY <1>4, <1>5, <1>6, <1>7
<1> QED  BY <1>1, <1>8

LEMMA TotalLess ==
    ASSUME NEW S, IsFiniteSet(S), NEW f, NEW g,
           \A x \in S : f[x] \in Int /\ g[x] \in Int /\ f[x] <= g[x]
    PROVE  Total(f, S) <= Total(g, S)
<1> DEFINE B == {s \in SUBSET S : Total(f, s) <= Total(g, s)}
<1> SUFFICES ASSUME S \notin B
             PROVE  FALSE
    OBVIOUS
<1> HIDE DEF B
<1>1. PICK s \in SUBSET S : s \notin B /\ \A v \in SUBSET s : v # s => v \in B
    BY SmallestSubset
<1> USE DEF B
<1>2. s # {}
    <2>1. {} \in B
        BY TotalEmpty
    <2> QED  BY <1>1, <2>1
<1> DEFINE p == Pick(s)
           r == s \ {p}
<1>3. p \in s /\ r \in B /\ IsFiniteSet(s) /\ IsFiniteSet(r)
    BY <1>1, <1>2, PickIn, FS_Subset
<1>4. /\ Total(f, s) = f[p] + Total(f, r)
      /\ Total(g, s) = g[p] + Total(g, r)
    BY <1>2, <1>3, TotalStep
<1>5. Total(f, r) \in Int /\ Total(g, r) \in Int
    BY <1>3, TotalInt
<1>6. f[p] \in Int /\ g[p] \in Int /\ f[p] <= g[p]
    BY <1>3
<1>7. Total(f, r) <= Total(g, r)
    BY <1>3
<1> HIDE DEF p, r
<1>8. Total(f, s) <= Total(g, s)
    BY <1>4, <1>5, <1>6, <1>7
<1> QED  BY <1>1, <1>8

LEMMA TotalZero ==
    ASSUME NEW S, IsFiniteSet(S), NEW f, \A x \in S : f[x] = 0
    PROVE  Total(f, S) = 0
<1>1. Total(f, S) = Total(f, S) + Total(f, S)
    BY TotalPlus
<1>2. Total(f, S) \in Int
    BY TotalInt
<1>3. \A t \in Int : t = t + t => t = 0
    OBVIOUS
<1> QED  BY <1>1, <1>2, <1>3

LEMMA TotalNat ==
    ASSUME NEW S, IsFiniteSet(S), NEW f, \A x \in S : f[x] \in Nat
    PROVE  Total(f, S) \in Nat
<1> DEFINE zero == [x \in S |-> 0]
<1>1. Total(zero, S) = 0
    BY TotalZero
<1>2. Total(zero, S) <= Total(f, S)
    BY TotalLess
<1>3. Total(f, S) \in Int
    BY TotalInt
<1> QED  BY <1>1, <1>2, <1>3

\* The sum falls into those over two parts.
LEMMA TotalUnion ==
    ASSUME NEW S, IsFiniteSet(S), NEW T, IsFiniteSet(T), S \cap T = {},
           NEW f, \A x \in S \cup T : f[x] \in Int
    PROVE  Total(f, S \cup T) = Total(f, S) + Total(f, T)
<1> DEFINE B == {s \in SUBSET S : Total(f, s \cup T) = Total(f, s) + Total(f, T)}
<1>1. {} \in B
    <2>1. Total(f, T) \in Int /\ Total(f, {}) = 0 /\ {} \cup T = T
        BY TotalInt, TotalEmpty
    <2> QED  BY <2>1
<1>2. ASSUME NEW u \in SUBSET S, NEW x \in S \ u, u \in B
      PROVE  u \cup {x} \in B
    <2>1. IsFiniteSet(u) /\ IsFiniteSet(u \cup T)
        BY FS_Subset, FS_Union
    <2>2. Total(f, u \cup {x}) = f[x] + Total(f, u)
        BY <2>1, TotalAdd
    <2>3. Total(f, (u \cup T) \cup {x}) = f[x] + Total(f, u \cup T)
        <3> DEFINE v == u \cup T
        <3> SUFFICES Total(f, v \cup {x}) = f[x] + Total(f, v)
            OBVIOUS
        <3>1. x \notin v /\ IsFiniteSet(v) /\ \A y \in v \cup {x} : f[y] \in Int
            BY <2>1
        <3> HIDE DEF v
        <3> QED  BY <3>1, TotalAdd
    <2>4. (u \cup T) \cup {x} = (u \cup {x}) \cup T
        OBVIOUS
    <2>5. Total(f, (u \cup {x}) \cup T) = f[x] + (Total(f, u) + Total(f, T))
        BY <1>2, <2>3, <2>4
    <2>6. Total(f, u) \in Int /\ Total(f, T) \in Int /\ f[x] \in Int
        BY <2>1, TotalInt
    <2>7. Total(f, (u \cup {x}) \cup T) = Total(f, u \cup {x}) + Total(f, T)
        BY <2>2, <2>5, <2>6
    <2> QED  BY <2>7
<1> HIDE DEF B
<1>3. S \in B
    BY <1>1, <1>2, SubsetInduction
<1> QED  BY <1>3 DEF B

LEMMA TotalSubset ==
    ASSUME NEW S, IsFiniteSet(S), NEW T \in SUBSET S, NEW f,
           \A x \in S : f[x] \in Nat
    PROVE  Total(f, T) <= Total(f, S)
<1> DEFINE R == S \ T
<1>1. IsFiniteSet(T) /\ IsFiniteSet(R) /\ T \cap R = {} /\ T \cup R = S
    BY FS_Subset
<1>2. Total(f, T) \in Nat /\ Total(f, R) \in Nat
    BY <1>1, TotalNat
<1>3. Total(f, T \cup R) = Total(f, T) + Total(f, R)
    <2>1. \A x \in T \cup R : f[x] \in Int
        OBVIOUS
    <2> HIDE DEF R
    <2> QED  BY <1>1, <2>1, TotalUnion
<1> HIDE DEF R
<1>4. Total(f, S) = Total(f, T) + Total(f, R)
    BY <1>1, <1>3
<1> QED  BY <1>2, <1>4

\* One value changes.
LEMMA TotalChange ==
    ASSUME NEW S, IsFiniteSet(S), NEW f, NEW g, NEW y \in S,
           \A x \in S : f[x] \in Int /\ g[x] \in Int,
           \A x \in S : x # y => g[x] = f[x]
    PROVE  Total(g, S) = (Total(f, S) - f[y]) + g[y]
<1>1. /\ Total(f, S) = f[y] + Total(f, S \ {y})
      /\ Total(g, S) = g[y] + Total(g, S \ {y})
    BY TotalRemove
<1>2. IsFiniteSet(S \ {y})
    BY FS_Subset
<1>3. Total(g, S \ {y}) = Total(f, S \ {y}) /\ Total(f, S \ {y}) \in Int
    BY <1>2, TotalSame, TotalInt
<1>4. f[y] \in Int /\ g[y] \in Int
    OBVIOUS
<1> QED  BY <1>1, <1>3, <1>4

\* The elements are renamed, each to another.
LEMMA TotalRenamed ==
    ASSUME NEW S, IsFiniteSet(S), NEW f, NEW g, NEW pi,
           \A x \in S : g[x] \in Int /\ f[pi[x]] = g[x],
           \A x, y \in S : pi[x] = pi[y] => x = y
    PROVE  LET T == {pi[x] : x \in S} IN IsFiniteSet(T) /\ Total(f, T) = Total(g, S)
<1> DEFINE Im(s) == {pi[x] : x \in s}
           B == {s \in SUBSET S : IsFiniteSet(Im(s)) /\ Total(f, Im(s)) = Total(g, s)}
<1>1. {} \in B
    <2>1. Im({}) = {}
        OBVIOUS
    <2> HIDE DEF Im
    <2> QED  BY <2>1, TotalEmpty, FS_EmptySet
<1>2. ASSUME NEW u \in SUBSET S, NEW x \in S \ u, u \in B
      PROVE  u \cup {x} \in B
    <2>1. Im(u \cup {x}) = Im(u) \cup {pi[x]} /\ pi[x] \notin Im(u)
        OBVIOUS
    <2>2. \A z \in Im(u) \cup {pi[x]} : f[z] \in Int
        OBVIOUS
    <2>3. IsFiniteSet(Im(u)) /\ Total(f, Im(u)) = Total(g, u)
        BY <1>2
    <2> HIDE DEF Im
    <2>4. /\ IsFiniteSet(Im(u) \cup {pi[x]})
          /\ Total(f, Im(u) \cup {pi[x]}) = f[pi[x]] + Total(f, Im(u))
        BY <2>1, <2>2, <2>3, TotalAdd, FS_AddElement
    <2>5. Total(g, u \cup {x}) = g[x] + Total(g, u)
        BY FS_Subset, TotalAdd
    <2> QED  BY <2>1, <2>3, <2>4, <2>5
<1> HIDE DEF B
<1>3. S \in B
    BY <1>1, <1>2, SubsetInduction
<1> QED  BY <1>3 DEF B

\* A sum of ones is no more than the number of elements.
LEMMA TotalCounts ==
    ASSUME NEW S, IsFiniteSet(S), NEW f, \A x \in S : f[x] \in 0 .. 1
    PROVE  Total(f, S) <= Cardinality(S)
<1> DEFINE B == {s \in SUBSET S : Total(f, s) <= Cardinality(s)}
<1>1. {} \in B
    BY TotalEmpty, FS_EmptySet
<1>2. ASSUME NEW u \in SUBSET S, NEW x \in S \ u, u \in B
      PROVE  u \cup {x} \in B
    <2>1. IsFiniteSet(u)
        BY FS_Subset
    <2>2. Total(f, u \cup {x}) = f[x] + Total(f, u)
        <3>1. \A y \in u \cup {x} : f[y] \in Int
            OBVIOUS
        <3> QED  BY <2>1, <3>1, TotalAdd
    <2>3. Cardinality(u \cup {x}) = Cardinality(u) + 1
        BY <2>1, FS_AddElement
    <2>4. Cardinality(u) \in Int /\ Total(f, u) \in Int /\ f[x] \in 0 .. 1
        BY <2>1, FS_CardinalityType, TotalInt
    <2>5. Total(f, u) <= Cardinality(u)
        BY <1>2
    <2>6. Total(f, u \cup {x}) <= Cardinality(u \cup {x})
        BY <2>2, <2>3, <2>4, <2>5
    <2> QED  BY <2>6
<1> HIDE DEF B
<1>3. S \in B
    BY <1>1, <1>2, SubsetInduction
<1> QED  BY <1>3 DEF B

----------------------------------------------------------------------------
(* The greatest *)

\* A finite set of numbers has a greatest.
LEMMA GreatestIn ==
    ASSUME NEW S, IsFiniteSet(S), S # {}, S \subseteq Int
    PROVE  Max(S) \in S /\ \A n \in S : n <= Max(S)
<1> DEFINE B == {u \in SUBSET S : u = {} \/ \E m \in u : \A n \in u : n <= m}
<1>1. {} \in B
    OBVIOUS
<1>2. ASSUME NEW u \in SUBSET S, NEW x \in S \ u, u \in B
      PROVE  u \cup {x} \in B
    <2>1. CASE u = {}
        BY <2>1
    <2>2. ASSUME NEW m \in u, \A n \in u : n <= m
          PROVE  u \cup {x} \in B
        <3>1. m \in Int /\ x \in Int /\ \A n \in u : n \in Int
            OBVIOUS
        <3>2. CASE x <= m
            BY <2>2, <3>2
        <3>3. CASE ~(x <= m)
            <4>1. \A n \in u \cup {x} : n <= x
                BY <2>2, <3>1, <3>3
            <4> QED  BY <4>1
        <3> QED  BY <3>2, <3>3
    <2> QED  BY <1>2, <2>1, <2>2
<1>3. SUBSET S \subseteq B
    <2> HIDE DEF B
    <2> QED  BY <1>1, <1>2, SubsetInduction
<1>4. PICK m \in S : \A n \in S : n <= m
    BY <1>3
<1>5. \A n \in S : m >= n
    BY <1>4
<1>6. Max(S) \in S /\ \A n \in S : Max(S) >= n
    BY <1>5 DEF Max
<1> QED  BY <1>6

=============================================================================
