-------------------------- MODULE CollateralProofs --------------------------
(***************************************************************************)
(* The treasury covers what it owes, for every number of markets and       *)
(* trades, every stake, payout and buffer, and every sequence of trades,   *)
(* cashouts, settlements, payments and refusals.                           *)
(*                                                                         *)
(* TreasuryCoversWhatIsOwed is not inductive: a step inside an operation   *)
(* would rest on the operation's check, which is past.  TreasuryCovers     *)
(* carries the check along: what the treasury must hold once the operation *)
(* has sent what is left of it, and once it has recorded the trade as it   *)
(* means to.  It holds because no other operation runs meanwhile, and      *)
(* because a settlement, the one step that takes no lock, moves what a     *)
(* market may owe into what it does owe and never adds to it               *)
(* (OwedSettled).  A payment that leaves the treasury is for a             *)
(* trade that is due (PaymentsKnown), and what comes back from one that    *)
(* fails is what falls due again.                                          *)
(*                                                                         *)
(* A check goes by what is recorded as sent, the guarantee by what has     *)
(* left.  OwedOverlooked bounds the difference by the payouts that the     *)
(* check overlooks, and from then on the records do not matter.            *)
(*                                                                         *)
(* The requirement is a sum of maxima over markets: the lemmas write it as *)
(* totals over all trades, and say how it changes with one trade.          *)
(***************************************************************************)
EXTENDS Collateral, SumTheorems, TLAPS

----------------------------------------------------------------------------
(* The inductive invariant of Collateral *)

\* What is owed for these trades, if these payouts have left the treasury.
OwedBy(bk, gone) == Requirement(Unpaid(bk, gone))

\* So much covers what is under way, and what is owed.
Covers(funds, bk, gone) == funds >= Moving + OwedBy(bk, gone)

\* The node of a cashout that is not recorded yet: its payment settles nothing.
Pending == IF operation.kind = "cashout" THEN {operation.spare} ELSE {}
Told == Left \ Pending

\* What the operation is about to send, and what for.
ToSend == TotalOf(operation.left)
SentFor == {x.pays : x \in operation.left}

\* The trades as a cashout will record them.
Projected ==
    [book EXCEPT ![operation.trade] = operation.next,
                 ![operation.spare] = [NoBook EXCEPT !.status = "due",
                                                     !.payout = operation.paid]]

\* The trade of an operation that creates one, or cashes it out, is what it was.
OperationKnows ==
    /\ operation.pc = "idle" => operation = Idle
    /\ operation.pc = "create" =>
          /\ operation.kind = "trade" /\ operation.trade \in Trades
          /\ book[operation.trade].status = "none"
          /\ operation.next.status = "open" /\ operation.next.poll \in Polls
    /\ operation.pc \in {"send", "record"} =>
          operation.kind \in {"spend", "claim", "retry", "cashout"}
    /\ operation.pc = "record" =>
          operation.left = {} /\ operation.kind \in {"retry", "cashout"}
    /\ operation.kind # "cashout" => operation.release = 0
    /\ IsFiniteSet(operation.left)

CashoutKnows ==
    operation.kind = "cashout" =>
       /\ operation.trade \in Trades /\ operation.spare \in Trades
       /\ operation.spare # operation.trade => book[operation.spare].status = "none"
       /\ book[operation.trade].status # "none"
       /\ operation.pc = "send" =>
             operation.left = {[amount |-> operation.paid, pays |-> operation.spare]}
       /\ book[operation.trade].status = "open" =>
             /\ operation.next.status = "open"
             /\ operation.next.poll = book[operation.trade].poll
             /\ operation.next.side = book[operation.trade].side
             /\ operation.next.payout <= book[operation.trade].payout
             /\ operation.next.amount <= book[operation.trade].amount
             /\ book[operation.trade].payout > 0

\* An open trade has a poll, and a claim that waits is of a payout that is due.
BooksKnown ==
    /\ \A t \in Trades : book[t].status = "open" => book[t].poll \in Polls
    /\ claims \subseteq Due

\* What has left for a trade is at least what is due, and nothing leaves for an
\* open trade but what cashes it out.
PaymentsKnown ==
    /\ \A t \in Trades : t \in Told => book[t].status \in {"due", "done"}
    /\ operation.pc = "send" => Pending \cap Left = {}
    /\ \A i \in DOMAIN moving :
          /\ moving[i].pays \in Pending => moving[i].amount = operation.paid
          /\ moving[i].pays \in Trades \ Pending /\ book[moving[i].pays].status = "due"
                => moving[i].amount = book[moving[i].pays].payout
    /\ operation.kind \in {"claim", "retry"} =>
         \A x \in operation.left :
          x.pays \in Trades /\ book[x.pays].status \in {"due", "done"}
          /\ (book[x.pays].status = "due" => x.amount = book[x.pays].payout)
    /\ operation.kind = "spend" => \A x \in operation.left : x.pays = NoTrade

\* The treasury covers what is owed, and what will be when the operation is over.
TreasuryCovers ==
    /\ Covers(balance + unseen, book, Told)
    /\ operation.pc = "send" =>
          Covers((balance + operation.gap + operation.release) - ToSend, book,
                 Told \cup (SentFor \ Pending))
    /\ operation.kind = "cashout" /\ book[operation.trade].status = "open" =>
          Covers((balance + operation.gap) - ToSend, Projected, Left \cup SentFor)
    /\ operation.pc = "create" /\ operation.next.poll \notin settled =>
          Covers(balance + operation.gap, [book EXCEPT ![operation.trade] = operation.next],
                 Left)

CollateralInv ==
    /\ CollateralTypeOK
    /\ OperationKnows /\ CashoutKnows /\ BooksKnown /\ PaymentsKnown
    /\ TreasuryCovers

----------------------------------------------------------------------------
(* The requirement as a sum *)

\* What each trade adds to the payouts that are fixed, to those of one outcome,
\* and to a refund.
DueOf(bk) == [t \in Trades |-> IF bk[t].status = "due" THEN bk[t].payout ELSE 0]
SideOf(bk, p, side) ==
    [t \in Trades |-> IF bk[t].status = "open" /\ bk[t].poll = p /\ bk[t].side = side
                      THEN bk[t].payout ELSE 0]
RefundOf(bk, p) ==
    [t \in Trades |-> IF bk[t].status = "open" /\ bk[t].poll = p
                      THEN bk[t].amount ELSE 0]
WorstOf(bk) == [p \in Polls |-> OpenRequirement(bk, p)]

\* The sum over the elements that count, and over all with 0 for the others.
LEMMA TotalWhere ==
    ASSUME NEW S, IsFiniteSet(S), NEW A \in SUBSET S, NEW f, NEW g,
           \A x \in A : f[x] \in Int /\ g[x] = f[x],
           \A x \in S \ A : g[x] = 0
    PROVE  Total(f, A) = Total(g, S)
<1>1. IsFiniteSet(A) /\ IsFiniteSet(S \ A)
    BY FS_Subset
<1>2. A \cap (S \ A) = {} /\ A \cup (S \ A) = S
    OBVIOUS
<1>3. \A x \in S : g[x] \in Int
    OBVIOUS
<1>4. Total(g, A \cup (S \ A)) = Total(g, A) + Total(g, S \ A)
    <2>1. \A x \in A \cup (S \ A) : g[x] \in Int
        BY <1>3
    <2> QED  BY <1>1, <1>2, <2>1, TotalUnion
<1>5. Total(g, S \ A) = 0
    BY <1>1, TotalZero
<1>6. Total(g, A) = Total(f, A)
    BY <1>1, TotalSame
<1>7. Total(g, A) \in Int
    BY <1>1, <1>3, TotalInt
<1>8. Total(g, S) = Total(g, A) + Total(g, S \ A)
    <2>1. A \cup (S \ A) = S
        OBVIOUS
    <2> QED  BY <1>4, <2>1
<1> QED  BY <1>5, <1>6, <1>7, <1>8

\* Payout and the refund of a market are sums in the sense of SumTheorems.
LEMMA PayoutTotal ==
    ASSUME NEW bk, NEW ts \in SUBSET Trades
    PROVE  Payout(bk, ts) = Total([t \in Trades |-> bk[t].payout], ts)
<1> DEFINE f == [t \in Trades |-> bk[t].payout]
           h == CHOOSE iter : iter = [s \in SUBSET ts |->
                    IF s = {} THEN 0
                    ELSE bk[CHOOSE x \in s : TRUE].payout
                         + iter[s \ {CHOOSE x \in s : TRUE}]]
<1>0. IsFiniteSet(ts)
    BY CollateralAssumption, FS_Subset
<1>1. Payout(bk, ts) = h[ts]
    BY DEF Payout, MapThenSumSet, MapThenFoldSet
<1>2. PICK g : IsSum(g, f, ts)
    BY <1>0, SumExists
<1>3. ASSUME NEW s \in SUBSET ts, s # {}
      PROVE  f[Pick(s)] = bk[Pick(s)].payout
    BY <1>3, PickIn
<1> HIDE DEF f
<1>4. g = [s \in SUBSET ts |->
              IF s = {} THEN 0
              ELSE bk[CHOOSE x \in s : TRUE].payout + g[s \ {CHOOSE x \in s : TRUE}]]
    BY <1>2, <1>3 DEF IsSum, Pick
<1>5. h = [s \in SUBSET ts |->
              IF s = {} THEN 0
              ELSE bk[CHOOSE x \in s : TRUE].payout + h[s \ {CHOOSE x \in s : TRUE}]]
    BY <1>4
<1> HIDE DEF h
<1>6. IsSum(h, f, ts)
    BY <1>3, <1>5 DEF IsSum, Pick
<1> QED  BY <1>0, <1>1, <1>6, SumIsTotal DEF f

LEMMA RefundTotal ==
    ASSUME NEW bk, NEW p
    PROVE  RefundLiability(bk, p) = Total([t \in Trades |-> bk[t].amount], OpenOn(bk, p))
<1> DEFINE ts == OpenOn(bk, p)
           f == [t \in Trades |-> bk[t].amount]
           h == CHOOSE iter : iter = [s \in SUBSET ts |->
                    IF s = {} THEN 0
                    ELSE bk[CHOOSE x \in s : TRUE].amount
                         + iter[s \ {CHOOSE x \in s : TRUE}]]
<1>0. ts \subseteq Trades /\ IsFiniteSet(ts)
    BY CollateralAssumption, FS_Subset DEF OpenOn
<1>1. RefundLiability(bk, p) = h[ts]
    BY DEF RefundLiability, MapThenSumSet, MapThenFoldSet
<1> HIDE DEF ts
<1>2. PICK g : IsSum(g, f, ts)
    BY <1>0, SumExists
<1>3. ASSUME NEW s \in SUBSET ts, s # {}
      PROVE  f[Pick(s)] = bk[Pick(s)].amount
    BY <1>0, <1>3, PickIn
<1> HIDE DEF f
<1>4. g = [s \in SUBSET ts |->
              IF s = {} THEN 0
              ELSE bk[CHOOSE x \in s : TRUE].amount + g[s \ {CHOOSE x \in s : TRUE}]]
    BY <1>2, <1>3 DEF IsSum, Pick
<1>5. h = [s \in SUBSET ts |->
              IF s = {} THEN 0
              ELSE bk[CHOOSE x \in s : TRUE].amount + h[s \ {CHOOSE x \in s : TRUE}]]
    BY <1>4
<1> HIDE DEF h
<1>6. IsSum(h, f, ts)
    BY <1>3, <1>5 DEF IsSum, Pick
<1> QED  BY <1>0, <1>1, <1>6, SumIsTotal DEF f, ts

\* The three liabilities of a market, and the payouts that are fixed.
LEMMA Liabilities ==
    ASSUME NEW bk \in [Trades -> Books]
    PROVE  /\ FixedPayouts(bk) = Total(DueOf(bk), Trades)
           /\ \A p : /\ Liability(bk, p, "yes") = Total(SideOf(bk, p, "yes"), Trades)
                     /\ Liability(bk, p, "no") = Total(SideOf(bk, p, "no"), Trades)
                     /\ RefundLiability(bk, p) = Total(RefundOf(bk, p), Trades)
<1> DEFINE f == [t \in Trades |-> bk[t].payout]
           a == [t \in Trades |-> bk[t].amount]
<1>1. \A t \in Trades : f[t] \in Int /\ a[t] \in Int
    BY DEF Books
<1>2. FixedPayouts(bk) = Total(DueOf(bk), Trades)
    <2> DEFINE A == {t \in Trades : bk[t].status = "due"}
               g == DueOf(bk)
    <2>1. A \in SUBSET Trades /\ FixedPayouts(bk) = Payout(bk, A)
        BY DEF FixedPayouts
    <2>2. (\A x \in A : f[x] \in Int /\ g[x] = f[x]) /\ \A x \in Trades \ A : g[x] = 0
        BY <1>1 DEF DueOf
    <2>3. Payout(bk, A) = Total(f, A)
        BY <2>1, PayoutTotal
    <2> HIDE DEF A, f, g
    <2>4. Total(f, A) = Total(g, Trades)
        BY <2>1, <2>2, TotalWhere, CollateralAssumption
    <2> QED  BY <2>1, <2>3, <2>4 DEF g
<1>3. ASSUME NEW p, NEW side
      PROVE  Liability(bk, p, side) = Total(SideOf(bk, p, side), Trades)
    <2> DEFINE A == {t \in OpenOn(bk, p) : bk[t].side = side}
               g == SideOf(bk, p, side)
    <2>1. A \in SUBSET Trades /\ Liability(bk, p, side) = Payout(bk, A)
        BY DEF Liability, OpenOn
    <2>2. (\A x \in A : f[x] \in Int /\ g[x] = f[x]) /\ \A x \in Trades \ A : g[x] = 0
        BY <1>1 DEF SideOf, OpenOn
    <2>3. Payout(bk, A) = Total(f, A)
        BY <2>1, PayoutTotal
    <2> HIDE DEF A, f, g
    <2>4. Total(f, A) = Total(g, Trades)
        BY <2>1, <2>2, TotalWhere, CollateralAssumption
    <2> QED  BY <2>1, <2>3, <2>4 DEF g
<1>4. ASSUME NEW p
      PROVE  RefundLiability(bk, p) = Total(RefundOf(bk, p), Trades)
    <2> DEFINE A == OpenOn(bk, p)
               g == RefundOf(bk, p)
    <2>1. A \in SUBSET Trades /\ RefundLiability(bk, p) = Total(a, A)
        BY RefundTotal DEF OpenOn
    <2>2. (\A x \in A : a[x] \in Int /\ g[x] = a[x]) /\ \A x \in Trades \ A : g[x] = 0
        BY <1>1 DEF RefundOf, OpenOn
    <2> HIDE DEF A, a, g
    <2>4. Total(a, A) = Total(g, Trades)
        BY <2>1, <2>2, TotalWhere, CollateralAssumption
    <2> QED  BY <2>1, <2>4 DEF g
<1> QED  BY <1>2, <1>3, <1>4

LEMMA SumsOfBooks ==
    ASSUME NEW bk \in [Trades -> Books]
    PROVE  /\ Total(DueOf(bk), Trades) \in Nat
           /\ \A p, side : Total(SideOf(bk, p, side), Trades) \in Nat
           /\ \A p : Total(RefundOf(bk, p), Trades) \in Nat
<1>1. /\ \A t \in Trades : DueOf(bk)[t] \in Nat
      /\ \A p, side : \A t \in Trades : SideOf(bk, p, side)[t] \in Nat
      /\ \A p : \A t \in Trades : RefundOf(bk, p)[t] \in Nat
    BY DEF DueOf, SideOf, RefundOf, Books
<1>2. Total(DueOf(bk), Trades) \in Nat
    BY <1>1, TotalNat, CollateralAssumption
<1>3. ASSUME NEW p, NEW side
      PROVE  Total(SideOf(bk, p, side), Trades) \in Nat
    <2>1. \A t \in Trades : SideOf(bk, p, side)[t] \in Nat
        BY <1>1
    <2> QED  BY <2>1, TotalNat, CollateralAssumption
<1>4. ASSUME NEW p
      PROVE  Total(RefundOf(bk, p), Trades) \in Nat
    <2>1. \A t \in Trades : RefundOf(bk, p)[t] \in Nat
        BY <1>1
    <2> QED  BY <2>1, TotalNat, CollateralAssumption
<1> QED  BY <1>2, <1>3, <1>4

LEMMA GreatestOfThree ==
    ASSUME NEW a \in Nat, NEW b \in Nat, NEW c \in Nat
    PROVE  /\ Max({a, b, c}) \in {a, b, c}
           /\ a <= Max({a, b, c}) /\ b <= Max({a, b, c}) /\ c <= Max({a, b, c})
<1>1. {a, b, c} = (({} \cup {a}) \cup {b}) \cup {c}
    OBVIOUS
<1>2. IsFiniteSet((({} \cup {a}) \cup {b}) \cup {c})
    BY FS_EmptySet, FS_AddElement
<1>3. IsFiniteSet({a, b, c})
    BY <1>1, <1>2
<1> QED  BY <1>3, GreatestIn

\* The worst outcome of a market is one of the three, and as bad as each.
LEMMA WorstOutcome ==
    ASSUME NEW bk \in [Trades -> Books], NEW p
    PROVE  /\ OpenRequirement(bk, p) \in Nat
           /\ OpenRequirement(bk, p) \in {Total(SideOf(bk, p, "yes"), Trades),
                  Total(SideOf(bk, p, "no"), Trades), Total(RefundOf(bk, p), Trades)}
           /\ Total(SideOf(bk, p, "yes"), Trades) <= OpenRequirement(bk, p)
           /\ Total(SideOf(bk, p, "no"), Trades) <= OpenRequirement(bk, p)
           /\ Total(RefundOf(bk, p), Trades) <= OpenRequirement(bk, p)
<1> DEFINE a == Total(SideOf(bk, p, "yes"), Trades)
           b == Total(SideOf(bk, p, "no"), Trades)
           c == Total(RefundOf(bk, p), Trades)
<1>1. OpenRequirement(bk, p) = Max({a, b, c})
    BY Liabilities DEF OpenRequirement
<1>2. a \in Nat /\ b \in Nat /\ c \in Nat
    BY SumsOfBooks
<1> HIDE DEF a, b, c
<1>3. /\ Max({a, b, c}) \in {a, b, c}
      /\ a <= Max({a, b, c}) /\ b <= Max({a, b, c}) /\ c <= Max({a, b, c})
    BY <1>2, GreatestOfThree
<1>4. Max({a, b, c}) \in Nat
    BY <1>2, <1>3
<1> QED  BY <1>1, <1>3, <1>4 DEF a, b, c

LEMMA RequirementTotal ==
    ASSUME NEW bk \in [Trades -> Books]
    PROVE  /\ Requirement(bk) = Total(DueOf(bk), Trades) + Total(WorstOf(bk), Polls)
           /\ Total(WorstOf(bk), Polls) \in Nat
           /\ Requirement(bk) \in Nat
<1> DEFINE SumIn == MapThenSumSet(LAMBDA p : OpenRequirement(bk, p), Polls)
           f == WorstOf(bk)
           h == CHOOSE iter : iter = [s \in SUBSET Polls |->
                    IF s = {} THEN 0
                    ELSE OpenRequirement(bk, CHOOSE x \in s : TRUE)
                         + iter[s \ {CHOOSE x \in s : TRUE}]]
<1>0. IsFiniteSet(Polls)
    BY CollateralAssumption
<1>1. SumIn = h[Polls]
    BY DEF MapThenSumSet, MapThenFoldSet
<1>2. PICK g : IsSum(g, f, Polls)
    BY <1>0, SumExists
<1>3. ASSUME NEW s \in SUBSET Polls, s # {}
      PROVE  f[Pick(s)] = OpenRequirement(bk, Pick(s))
    BY <1>3, PickIn DEF WorstOf
<1> HIDE DEF f
<1>4. g = [s \in SUBSET Polls |->
              IF s = {} THEN 0
              ELSE OpenRequirement(bk, CHOOSE x \in s : TRUE)
                   + g[s \ {CHOOSE x \in s : TRUE}]]
    BY <1>2, <1>3 DEF IsSum, Pick
<1>5. h = [s \in SUBSET Polls |->
              IF s = {} THEN 0
              ELSE OpenRequirement(bk, CHOOSE x \in s : TRUE)
                   + h[s \ {CHOOSE x \in s : TRUE}]]
    BY <1>4
<1> HIDE DEF h, SumIn
<1>6. IsSum(h, f, Polls)
    BY <1>3, <1>5 DEF IsSum, Pick
<1>7. SumIn = Total(f, Polls)
    BY <1>0, <1>1, <1>6, SumIsTotal
<1>8. Requirement(bk) = FixedPayouts(bk) + SumIn
    BY DEF Requirement, SumIn
<1>9. Total(f, Polls) \in Nat
    <2>1. \A p \in Polls : f[p] \in Nat
        BY WorstOutcome DEF f, WorstOf
    <2> QED  BY <1>0, <2>1, TotalNat
<1>10. /\ FixedPayouts(bk) = Total(DueOf(bk), Trades)
       /\ Total(DueOf(bk), Trades) \in Nat
    BY Liabilities, SumsOfBooks
<1> QED  BY <1>7, <1>8, <1>9, <1>10 DEF f

----------------------------------------------------------------------------
(* What changes the requirement *)

OpenBelow(low, high) ==
    \A t \in Trades : low[t].status = "open" =>
       /\ high[t].status = "open"
       /\ high[t].poll = low[t].poll /\ high[t].side = low[t].side
       /\ low[t].payout <= high[t].payout /\ low[t].amount <= high[t].amount

DueBelow(low, high) ==
    \A t \in Trades : low[t].status = "due" =>
       high[t].status = "due" /\ low[t].payout <= high[t].payout

\* Smaller positions make no market's worst outcome worse.
LEMMA WorstBelow ==
    ASSUME NEW low \in [Trades -> Books], NEW high \in [Trades -> Books],
           OpenBelow(low, high), NEW p
    PROVE  OpenRequirement(low, p) <= OpenRequirement(high, p)
<1>1. ASSUME NEW side
      PROVE  Total(SideOf(low, p, side), Trades) <= Total(SideOf(high, p, side), Trades)
    <2>1. \A t \in Trades : /\ SideOf(low, p, side)[t] \in Int
                            /\ SideOf(high, p, side)[t] \in Int
                            /\ SideOf(low, p, side)[t] <= SideOf(high, p, side)[t]
        BY DEF OpenBelow, SideOf, Books
    <2> QED  BY <2>1, TotalLess, CollateralAssumption
<1>2. Total(RefundOf(low, p), Trades) <= Total(RefundOf(high, p), Trades)
    <2>1. \A t \in Trades : /\ RefundOf(low, p)[t] \in Int
                            /\ RefundOf(high, p)[t] \in Int
                            /\ RefundOf(low, p)[t] <= RefundOf(high, p)[t]
        BY DEF OpenBelow, RefundOf, Books
    <2> QED  BY <2>1, TotalLess, CollateralAssumption
<1> DEFINE a == Total(SideOf(low, p, "yes"), Trades)
           b == Total(SideOf(low, p, "no"), Trades)
           c == Total(RefundOf(low, p), Trades)
           a2 == Total(SideOf(high, p, "yes"), Trades)
           b2 == Total(SideOf(high, p, "no"), Trades)
           c2 == Total(RefundOf(high, p), Trades)
           n == OpenRequirement(low, p)
           m == OpenRequirement(high, p)
<1>3. a <= a2 /\ b <= b2 /\ c <= c2
    BY <1>1, <1>2
<1>4. n \in {a, b, c} /\ m \in Nat /\ a2 <= m /\ b2 <= m /\ c2 <= m
    BY WorstOutcome
<1>5. a \in Nat /\ b \in Nat /\ c \in Nat /\ a2 \in Nat /\ b2 \in Nat /\ c2 \in Nat
    BY SumsOfBooks
<1> HIDE DEF a, b, c, a2, b2, c2, n, m
<1>6. n <= m
    BY <1>3, <1>4, <1>5
<1> QED  BY <1>6 DEF n, m

LEMMA OpenPartBelow ==
    ASSUME NEW low \in [Trades -> Books], NEW high \in [Trades -> Books], OpenBelow(low, high)
    PROVE  Total(WorstOf(low), Polls) <= Total(WorstOf(high), Polls)
<1>1. \A p \in Polls : /\ WorstOf(low)[p] \in Int /\ WorstOf(high)[p] \in Int
                       /\ WorstOf(low)[p] <= WorstOf(high)[p]
    BY WorstOutcome, WorstBelow DEF WorstOf
<1> QED  BY <1>1, TotalLess, CollateralAssumption

LEMMA DuePartBelow ==
    ASSUME NEW low \in [Trades -> Books], NEW high \in [Trades -> Books], DueBelow(low, high)
    PROVE  Total(DueOf(low), Trades) <= Total(DueOf(high), Trades)
<1>1. \A t \in Trades : /\ DueOf(low)[t] \in Int /\ DueOf(high)[t] \in Int
                        /\ DueOf(low)[t] <= DueOf(high)[t]
    BY DEF DueBelow, DueOf, Books
<1> QED  BY <1>1, TotalLess, CollateralAssumption

LEMMA UnpaidTyped ==
    ASSUME NEW bk \in [Trades -> Books], NEW gone
    PROVE  /\ Unpaid(bk, gone) \in [Trades -> Books]
           /\ OwedBy(bk, gone) \in Nat
           /\ OwedBy(bk, gone) = Total(DueOf(Unpaid(bk, gone)), Trades)
                                     + Total(WorstOf(Unpaid(bk, gone)), Polls)
           /\ Total(DueOf(Unpaid(bk, gone)), Trades) \in Nat
           /\ Total(WorstOf(Unpaid(bk, gone)), Polls) \in Nat
<1>1. Paid \in Books
    BY DEF Paid, NoBook, Books
<1>2. Unpaid(bk, gone) \in [Trades -> Books]
    BY <1>1 DEF Unpaid
<1> QED  BY <1>2, RequirementTotal, SumsOfBooks DEF OwedBy

LEMMA UnpaidAt ==
    ASSUME NEW bk, NEW gone, NEW t \in Trades
    PROVE  /\ Unpaid(bk, gone)[t].status = "due" <=> bk[t].status = "due" /\ t \notin gone
           /\ Unpaid(bk, gone)[t].status = "open" <=> bk[t].status = "open"
           /\ Unpaid(bk, gone)[t].status \in {"due", "open"} => Unpaid(bk, gone)[t] = bk[t]
<1>1. Paid.status = "done"
    BY DEF Paid, NoBook
<1> QED  BY <1>1 DEF Unpaid

\* Smaller positions, and fewer payouts that are still to leave.
LEMMA OwedBelow ==
    ASSUME NEW low \in [Trades -> Books], NEW high \in [Trades -> Books], NEW g, NEW h,
           \A t \in Trades : low[t].status = "open" =>
              /\ high[t].status = "open"
              /\ high[t].poll = low[t].poll /\ high[t].side = low[t].side
              /\ low[t].payout <= high[t].payout /\ low[t].amount <= high[t].amount,
           \A t \in Trades : low[t].status = "due" /\ t \notin g =>
              high[t].status = "due" /\ t \notin h /\ low[t].payout <= high[t].payout
    PROVE  OwedBy(low, g) <= OwedBy(high, h)
<1> DEFINE v == Unpaid(low, g)
           w == Unpaid(high, h)
<1>1. OpenBelow(v, w) /\ DueBelow(v, w)
    BY UnpaidAt DEF OpenBelow, DueBelow
<1>2. v \in [Trades -> Books] /\ w \in [Trades -> Books]
    BY UnpaidTyped
<1>3. /\ OwedBy(low, g) = Total(DueOf(v), Trades) + Total(WorstOf(v), Polls)
      /\ OwedBy(high, h) = Total(DueOf(w), Trades) + Total(WorstOf(w), Polls)
      /\ Total(DueOf(v), Trades) \in Nat /\ Total(WorstOf(v), Polls) \in Nat
      /\ Total(DueOf(w), Trades) \in Nat /\ Total(WorstOf(w), Polls) \in Nat
    BY UnpaidTyped
<1> HIDE DEF v, w
<1>4. Total(DueOf(v), Trades) <= Total(DueOf(w), Trades)
    BY <1>1, <1>2, DuePartBelow
<1>5. Total(WorstOf(v), Polls) <= Total(WorstOf(w), Polls)
    BY <1>1, <1>2, OpenPartBelow
<1> QED  BY <1>3, <1>4, <1>5

\* A payment that fails is owed again.
LEMMA OwedAgain ==
    ASSUME NEW bk \in [Trades -> Books], NEW g, NEW h, NEW one, NEW n \in Nat,
           \A t \in Trades : t \in h => t \in g \/ t = one,
           one \in Trades /\ bk[one].status = "due" => bk[one].payout <= n
    PROVE  OwedBy(bk, g) <= n + OwedBy(bk, h)
<1> DEFINE v == Unpaid(bk, g)
           w == Unpaid(bk, h)
<1>1. v \in [Trades -> Books] /\ w \in [Trades -> Books]
    BY UnpaidTyped
<1>2. /\ OwedBy(bk, g) = Total(DueOf(v), Trades) + Total(WorstOf(v), Polls)
      /\ OwedBy(bk, h) = Total(DueOf(w), Trades) + Total(WorstOf(w), Polls)
      /\ Total(DueOf(v), Trades) \in Nat /\ Total(WorstOf(v), Polls) \in Nat
      /\ Total(DueOf(w), Trades) \in Nat /\ Total(WorstOf(w), Polls) \in Nat
    BY UnpaidTyped
<1>3. OpenBelow(v, w)
    BY <1>1, UnpaidAt DEF OpenBelow, Books
<1>4. /\ \A t \in Trades : t # one => DueOf(v)[t] <= DueOf(w)[t]
      /\ one \in Trades => DueOf(v)[one] <= n + DueOf(w)[one]
      /\ \A t \in Trades : DueOf(v)[t] \in Nat /\ DueOf(w)[t] \in Nat
    <2>1. ASSUME NEW t \in Trades
          PROVE  /\ t # one => DueOf(v)[t] <= DueOf(w)[t]
                 /\ t = one => DueOf(v)[t] <= n + DueOf(w)[t]
                 /\ DueOf(v)[t] \in Nat /\ DueOf(w)[t] \in Nat
        <3>1. /\ DueOf(v)[t] = IF bk[t].status = "due" /\ t \notin g THEN bk[t].payout ELSE 0
              /\ DueOf(w)[t] = IF bk[t].status = "due" /\ t \notin h THEN bk[t].payout ELSE 0
            BY UnpaidAt DEF DueOf
        <3>2. bk[t].payout \in Nat
            BY DEF Books
        <3> QED  BY <3>1, <3>2
    <2> QED  BY <2>1
<1>5. Total(WorstOf(v), Polls) <= Total(WorstOf(w), Polls)
    <2> HIDE DEF v, w
    <2> QED  BY <1>1, <1>3, OpenPartBelow
<1> DEFINE f == DueOf(v)
           k == DueOf(w)
<1>6. Total(f, Trades) <= n + Total(k, Trades)
    <2> HIDE DEF f, k
    <2>1. CASE one \in Trades
        <3> DEFINE m == [t \in Trades |-> IF t = one THEN n + k[t] ELSE k[t]]
        <3>1. \A t \in Trades : m[t] \in Int /\ f[t] \in Int /\ f[t] <= m[t]
            BY <1>4, <2>1 DEF f, k
        <3>2. \A t \in Trades : k[t] \in Int /\ m[t] \in Int
            BY <1>4 DEF f, k
        <3>3. (\A t \in Trades : t # one => m[t] = k[t]) /\ m[one] = n + k[one]
            BY <2>1
        <3> HIDE DEF m
        <3>4. Total(f, Trades) <= Total(m, Trades)
            <4>1. \A t \in Trades : f[t] \in Int /\ m[t] \in Int /\ f[t] <= m[t]
                BY <3>1
            <4> QED  BY <4>1, TotalLess, CollateralAssumption
        <3>5. Total(m, Trades) = (Total(k, Trades) - k[one]) + m[one]
            BY <2>1, <3>2, <3>3, TotalChange, CollateralAssumption
        <3>6. Total(k, Trades) \in Int /\ Total(f, Trades) \in Int /\ k[one] \in Int
              /\ Total(m, Trades) \in Int
            BY <2>1, <3>1, <3>2, TotalInt, CollateralAssumption
        <3> QED  BY <3>3, <3>4, <3>5, <3>6
    <2>2. CASE one \notin Trades
        <3>1. \A t \in Trades : f[t] \in Int /\ k[t] \in Int /\ f[t] <= k[t]
            BY <1>4, <2>2 DEF f, k
        <3>2. Total(f, Trades) <= Total(k, Trades)
            BY <3>1, TotalLess, CollateralAssumption
        <3>3. Total(k, Trades) \in Int /\ Total(f, Trades) \in Int
            BY <3>1, TotalInt, CollateralAssumption
        <3> QED  BY <3>2, <3>3
    <2> QED  BY <2>1, <2>2
<1> HIDE DEF v, w
<1> QED  BY <1>2, <1>5, <1>6

\* What a check misses: it takes the payouts that are recorded as sent for gone, and
\* releases those of ts, where those that have gone and those of ts are.
LEMMA OwedOverlooked ==
    ASSUME NEW bk \in [Trades -> Books], NEW top \in [Trades -> Books],
           NEW ts \in SUBSET Trades, NEW paid \in SUBSET Trades, NEW gone, NEW over,
           \A t \in ts : bk[t].status = "due",
           \A t \in Trades : bk[t].status = "due" => top[t].payout = bk[t].payout,
           over = {t \in paid : t \notin gone \/ t \in ts}
    PROVE  /\ OwedBy(bk, gone \cup ts) + Payout(top, ts) <= OwedBy(bk, paid) + Payout(top, over)
           /\ Payout(top, ts) \in Nat /\ Payout(top, over) \in Nat
<1> DEFINE v == Unpaid(bk, gone \cup ts)
           w == Unpaid(bk, paid)
           f == DueOf(v)
           d == DueOf(w)
           a == [t \in Trades |-> top[t].payout]
           k == [t \in Trades |-> IF t \in ts THEN top[t].payout ELSE 0]
           e == [t \in Trades |-> IF t \in over THEN top[t].payout ELSE 0]
<1>1. /\ v \in [Trades -> Books] /\ w \in [Trades -> Books]
      /\ OwedBy(bk, gone \cup ts) = Total(f, Trades) + Total(WorstOf(v), Polls)
      /\ OwedBy(bk, paid) = Total(d, Trades) + Total(WorstOf(w), Polls)
      /\ Total(f, Trades) \in Nat /\ Total(WorstOf(v), Polls) \in Nat
      /\ Total(d, Trades) \in Nat /\ Total(WorstOf(w), Polls) \in Nat
    BY UnpaidTyped
<1>2. Total(WorstOf(v), Polls) <= Total(WorstOf(w), Polls)
    <2>1. OpenBelow(v, w)
        BY <1>1, UnpaidAt DEF OpenBelow, Books
    <2> HIDE DEF v, w
    <2> QED  BY <1>1, <2>1, OpenPartBelow
<1>3. \A t \in Trades : /\ f[t] \in Nat /\ k[t] \in Nat /\ d[t] \in Nat /\ e[t] \in Nat
                        /\ f[t] + k[t] <= d[t] + e[t]
    <2> SUFFICES ASSUME NEW t \in Trades
                 PROVE  /\ f[t] \in Nat /\ k[t] \in Nat /\ d[t] \in Nat /\ e[t] \in Nat
                        /\ f[t] + k[t] <= d[t] + e[t]
        OBVIOUS
    <2>1. /\ f[t] = IF bk[t].status = "due" /\ t \notin gone \cup ts THEN bk[t].payout ELSE 0
          /\ d[t] = IF bk[t].status = "due" /\ t \notin paid THEN bk[t].payout ELSE 0
        BY UnpaidAt DEF DueOf
    <2>2. bk[t].payout \in Nat /\ top[t].payout \in Nat
        BY DEF Books
    <2>3. CASE t \in ts
        <3>1. bk[t].status = "due" /\ top[t].payout = bk[t].payout
            BY <2>3
        <3> QED  BY <2>1, <2>2, <2>3, <3>1
    <2>4. CASE t \notin ts
        BY <2>1, <2>2, <2>4
    <2> QED  BY <2>3, <2>4
<1>4. over \subseteq Trades
    OBVIOUS
<1>5. /\ \A x \in ts : a[x] \in Int /\ k[x] = a[x]
      /\ \A x \in Trades \ ts : k[x] = 0
      /\ \A x \in over : a[x] \in Int /\ e[x] = a[x]
      /\ \A x \in Trades \ over : e[x] = 0
    BY <1>4 DEF Books
<1>6. Payout(top, ts) = Total(a, ts) /\ Payout(top, over) = Total(a, over)
    BY <1>4, PayoutTotal
<1> HIDE DEF v, w, f, d, a, k, e
<1>7. Total(a, ts) = Total(k, Trades) /\ Total(a, over) = Total(e, Trades)
    BY <1>4, <1>5, TotalWhere, CollateralAssumption
<1>8. Total(k, Trades) \in Nat /\ Total(e, Trades) \in Nat
    BY <1>3, TotalNat, CollateralAssumption
<1>9. Total(f, Trades) + Total(k, Trades) <= Total(d, Trades) + Total(e, Trades)
    <2> DEFINE m == [t \in Trades |-> f[t] + k[t]]
               n == [t \in Trades |-> d[t] + e[t]]
    <2>1. \A t \in Trades : /\ f[t] \in Int /\ k[t] \in Int /\ m[t] = f[t] + k[t]
                            /\ d[t] \in Int /\ e[t] \in Int /\ n[t] = d[t] + e[t]
                            /\ m[t] \in Int /\ n[t] \in Int /\ m[t] <= n[t]
        BY <1>3
    <2> HIDE DEF m, n
    <2>2. Total(m, Trades) <= Total(n, Trades)
        BY <2>1, TotalLess, CollateralAssumption
    <2>3. Total(m, Trades) = Total(f, Trades) + Total(k, Trades)
        BY <2>1, TotalPlus, CollateralAssumption
    <2>4. Total(n, Trades) = Total(d, Trades) + Total(e, Trades)
        BY <2>1, TotalPlus, CollateralAssumption
    <2> QED  BY <2>2, <2>3, <2>4
<1> QED  BY <1>1, <1>2, <1>6, <1>7, <1>8, <1>9

\* A check that releases nothing.
LEMMA OwedMissed ==
    ASSUME NEW bk \in [Trades -> Books], NEW top \in [Trades -> Books],
           NEW paid \in SUBSET Trades, NEW gone,
           \A t \in Trades : bk[t].status = "due" => top[t].payout = bk[t].payout
    PROVE  /\ OwedBy(bk, gone) <= OwedBy(bk, paid) + Payout(top, paid \ gone)
           /\ Payout(top, paid \ gone) \in Nat
           /\ OwedBy(bk, gone) \in Nat /\ OwedBy(bk, paid) \in Nat
<1>1. PICK ts \in SUBSET Trades : ts = {}
    OBVIOUS
<1>2. \A t \in ts : bk[t].status = "due"
    BY <1>1
<1>3. PICK over \in SUBSET Trades : over = {t \in paid : t \notin gone \/ t \in ts}
    OBVIOUS
<1>4. /\ OwedBy(bk, gone \cup ts) + Payout(top, ts) <= OwedBy(bk, paid) + Payout(top, over)
      /\ Payout(top, ts) \in Nat /\ Payout(top, over) \in Nat
    BY <1>2, <1>3, OwedOverlooked
<1>5. over = paid \ gone /\ gone \cup ts = gone
    BY <1>1, <1>3
<1>6. /\ OwedBy(bk, gone) + Payout(top, ts) <= OwedBy(bk, paid) + Payout(top, paid \ gone)
      /\ Payout(top, ts) \in Nat /\ Payout(top, paid \ gone) \in Nat
    BY <1>4, <1>5, Zenon
<1>7. OwedBy(bk, gone) \in Nat /\ OwedBy(bk, paid) \in Nat
    BY UnpaidTyped
<1> QED  BY <1>6, <1>7

LEMMA OwedUnseen ==
    ASSUME CollateralTypeOK, NEW bk \in [Trades -> Books],
           \A t \in Trades : bk[t].status = "due" => book[t].payout = bk[t].payout
    PROVE  /\ OwedBy(bk, Left) <= OwedBy(bk, onRecord) + Payout(book, Overlooked({}))
           /\ Payout(book, Overlooked({})) \in Nat
<1>1. book \in [Trades -> Books] /\ onRecord \in SUBSET Trades
    BY DEF CollateralTypeOK
<1>2. Overlooked({}) = onRecord \ Left
    BY DEF Overlooked
<1> QED  BY <1>1, <1>2, OwedMissed

\* What a settlement fixes is one of the outcomes that the worst one covered.
Outcome(bk, p, outcome) ==
    IF outcome = "cancelled" THEN RefundOf(bk, p) ELSE SideOf(bk, p, outcome)

LEMMA OwedSettled ==
    ASSUME NEW low \in [Trades -> Books], NEW high \in [Trades -> Books], NEW gone,
           NEW p \in Polls, NEW outcome \in {"yes", "no", "cancelled"},
           \A t \in Trades :
              IF high[t].status = "open" /\ high[t].poll = p
              THEN /\ low[t].status # "open"
                   /\ low[t].status = "due" => low[t].payout <= Outcome(high, p, outcome)[t]
              ELSE low[t] = high[t]
    PROVE  OwedBy(low, gone) <= OwedBy(high, gone)
<1> DEFINE v == Unpaid(low, gone)
           w == Unpaid(high, gone)
           out == Outcome(w, p, outcome)
           f == DueOf(v)
           k == DueOf(w)
<1>1. v \in [Trades -> Books] /\ w \in [Trades -> Books]
    BY UnpaidTyped
<1>2. /\ OwedBy(low, gone) = Total(f, Trades) + Total(WorstOf(v), Polls)
      /\ OwedBy(high, gone) = Total(k, Trades) + Total(WorstOf(w), Polls)
      /\ Total(f, Trades) \in Nat /\ Total(WorstOf(v), Polls) \in Nat
      /\ Total(k, Trades) \in Nat /\ Total(WorstOf(w), Polls) \in Nat
    BY UnpaidTyped
<1>3. \A t \in Trades : /\ f[t] \in Nat /\ k[t] \in Nat /\ out[t] \in Nat
                        /\ f[t] <= k[t] + out[t]
    <2> SUFFICES ASSUME NEW t \in Trades
                 PROVE  /\ f[t] \in Nat /\ k[t] \in Nat /\ out[t] \in Nat
                        /\ f[t] <= k[t] + out[t]
        OBVIOUS
    <2>1. /\ f[t] = IF low[t].status = "due" /\ t \notin gone THEN low[t].payout ELSE 0
          /\ k[t] = IF high[t].status = "due" /\ t \notin gone THEN high[t].payout ELSE 0
        BY UnpaidAt DEF DueOf
    <2>2. out[t] = Outcome(high, p, outcome)[t]
        <3>1. CASE high[t].status = "open"
            <4>1. w[t] = high[t]
                BY <3>1, UnpaidAt
            <4> QED  BY <4>1 DEF Outcome, SideOf, RefundOf
        <3>2. CASE high[t].status # "open"
            <4>1. w[t].status # "open"
                BY <3>2, UnpaidAt
            <4> QED  BY <3>2, <4>1 DEF Outcome, SideOf, RefundOf
        <3> QED  BY <3>1, <3>2
    <2>3. /\ low[t].payout \in Nat /\ high[t].payout \in Nat
          /\ Outcome(high, p, outcome)[t] \in Nat
        BY DEF Books, Outcome, SideOf, RefundOf
    <2> QED  BY <2>1, <2>2, <2>3
<1>4. OpenBelow(v, w)
    <2> SUFFICES ASSUME NEW t \in Trades, v[t].status = "open"
                 PROVE  v[t] = w[t]
        BY <1>1 DEF OpenBelow, Books
    <2>1. low[t].status = "open" /\ v[t] = low[t]
        BY UnpaidAt
    <2>2. low[t] = high[t]
        BY <2>1
    <2> QED  BY <2>1, <2>2, UnpaidAt
<1>5. OpenRequirement(v, p) = 0
    <2>1. \A t \in Trades : ~(v[t].status = "open" /\ v[t].poll = p)
        BY UnpaidAt
    <2>2. /\ \A t \in Trades : SideOf(v, p, "yes")[t] = 0 /\ SideOf(v, p, "no")[t] = 0
          /\ \A t \in Trades : RefundOf(v, p)[t] = 0
        <3> HIDE DEF v
        <3> QED  BY <2>1 DEF SideOf, RefundOf
    <2>3. /\ Total(SideOf(v, p, "yes"), Trades) = 0 /\ Total(SideOf(v, p, "no"), Trades) = 0
          /\ Total(RefundOf(v, p), Trades) = 0
        BY <2>2, TotalZero, CollateralAssumption
    <2> HIDE DEF v
    <2>4. OpenRequirement(v, p) \in {Total(SideOf(v, p, "yes"), Trades),
              Total(SideOf(v, p, "no"), Trades), Total(RefundOf(v, p), Trades)}
        BY <1>1, WorstOutcome
    <2> QED  BY <2>3, <2>4
<1>6. Total(out, Trades) <= OpenRequirement(w, p) /\ Total(out, Trades) \in Nat
    <2> HIDE DEF w
    <2> QED  BY <1>1, WorstOutcome, SumsOfBooks DEF Outcome
<1>7. Total(f, Trades) <= Total(k, Trades) + Total(out, Trades)
    <2> HIDE DEF f, k, out
    <2> DEFINE m == [t \in Trades |-> k[t] + out[t]]
    <2>1. \A t \in Trades : f[t] \in Int /\ m[t] \in Int /\ f[t] <= m[t]
        BY <1>3
    <2>2. \A t \in Trades : k[t] \in Int /\ out[t] \in Int /\ m[t] = k[t] + out[t]
        BY <1>3
    <2> HIDE DEF m
    <2>3. Total(f, Trades) <= Total(m, Trades)
        BY <2>1, TotalLess, CollateralAssumption
    <2>4. Total(m, Trades) = Total(k, Trades) + Total(out, Trades)
        BY <2>2, TotalPlus, CollateralAssumption
    <2> QED  BY <2>3, <2>4
<1>8. Total(WorstOf(v), Polls) <= Total(WorstOf(w), Polls) - OpenRequirement(w, p)
    <2> DEFINE r == WorstOf(v)
               s == WorstOf(w)
               m == [q \in Polls |-> IF q = p THEN 0 ELSE s[q]]
    <2>1. \A q \in Polls : r[q] \in Int /\ s[q] \in Int /\ m[q] \in Int /\ r[q] <= m[q]
        <3>1. \A q \in Polls : OpenRequirement(v, q) \in Nat /\ OpenRequirement(w, q) \in Nat
                               /\ OpenRequirement(v, q) <= OpenRequirement(w, q)
            <4> HIDE DEF v, w
            <4> QED  BY <1>1, <1>4, WorstOutcome, WorstBelow
        <3> HIDE DEF v, w
        <3> QED  BY <1>5, <3>1 DEF WorstOf
    <2>2. (\A q \in Polls : q # p => m[q] = s[q]) /\ m[p] = 0 /\ s[p] = OpenRequirement(w, p)
        BY DEF WorstOf
    <2> HIDE DEF r, s, m
    <2>3. Total(r, Polls) <= Total(m, Polls)
        <3>1. \A q \in Polls : r[q] \in Int /\ m[q] \in Int /\ r[q] <= m[q]
            BY <2>1
        <3> QED  BY <3>1, TotalLess, CollateralAssumption
    <2>4. Total(m, Polls) = (Total(s, Polls) - s[p]) + m[p]
        <3>1. \A q \in Polls : s[q] \in Int /\ m[q] \in Int
            BY <2>1
        <3>2. \A q \in Polls : q # p => m[q] = s[q]
            BY <2>2
        <3>3. IsFiniteSet(Polls)
            BY CollateralAssumption
        <3> QED  BY <3>1, <3>2, <3>3, TotalChange
    <2>5. Total(s, Polls) \in Int /\ s[p] \in Int
        BY <2>1, TotalInt, CollateralAssumption
    <2>6. Total(r, Polls) <= Total(s, Polls) - s[p]
        BY <2>2, <2>3, <2>4, <2>5
    <2> QED  BY <2>2, <2>6 DEF r, s
<1>9. OpenRequirement(w, p) \in Nat
    <2> HIDE DEF w
    <2> QED  BY <1>1, WorstOutcome
<1> HIDE DEF v, w, f, k, out
<1> QED  BY <1>2, <1>6, <1>7, <1>8, <1>9

\* The buffer asks for no less.
LEMMA BufferAdds ==
    ASSUME NEW n \in Nat
    PROVE  WithBuffer(n) \in Nat /\ WithBuffer(n) >= n
<1>1. Buffer \in Nat
    BY CollateralAssumption
<1>2. n * (100 + Buffer) = n * 100 + n * Buffer /\ n * Buffer \in Nat
    BY <1>1
<1>3. PICK e \in Nat : e = n * Buffer
    BY <1>2
<1>4. (n * 100 + e) \div 100 \in Nat /\ (n * 100 + e) \div 100 >= n
    OBVIOUS
<1> QED  BY <1>2, <1>3, <1>4 DEF WithBuffer

----------------------------------------------------------------------------
(* Payments: those that are under way, and those of an operation *)

MovingIn(queue) == MapThenSumSet(LAMBDA i : queue[i].amount, DOMAIN queue)
AmountsIn(queue) == [i \in DOMAIN queue |-> queue[i].amount]

LEMMA MovingTotal ==
    ASSUME NEW queue, IsFiniteSet(DOMAIN queue)
    PROVE  MovingIn(queue) = Total(AmountsIn(queue), DOMAIN queue)
<1> DEFINE is == DOMAIN queue
           f == AmountsIn(queue)
           h == CHOOSE iter : iter = [s \in SUBSET is |->
                    IF s = {} THEN 0
                    ELSE queue[CHOOSE x \in s : TRUE].amount
                         + iter[s \ {CHOOSE x \in s : TRUE}]]
<1>1. MovingIn(queue) = h[is]
    BY DEF MovingIn, MapThenSumSet, MapThenFoldSet
<1>0. \A i \in is : f[i] = queue[i].amount
    BY DEF AmountsIn
<1>f. IsFiniteSet(is)
    OBVIOUS
<1> HIDE DEF f, is
<1>2. PICK g : IsSum(g, f, is)
    BY <1>f, SumExists
<1>3. ASSUME NEW s \in SUBSET is, s # {}
      PROVE  f[Pick(s)] = queue[Pick(s)].amount
    BY <1>0, <1>3, PickIn
<1>4. g = [s \in SUBSET is |->
              IF s = {} THEN 0
              ELSE queue[CHOOSE x \in s : TRUE].amount + g[s \ {CHOOSE x \in s : TRUE}]]
    BY <1>2, <1>3 DEF IsSum, Pick
<1>5. h = [s \in SUBSET is |->
              IF s = {} THEN 0
              ELSE queue[CHOOSE x \in s : TRUE].amount + h[s \ {CHOOSE x \in s : TRUE}]]
    BY <1>4
<1> HIDE DEF h
<1>6. IsSum(h, f, is)
    BY <1>3, <1>5 DEF IsSum, Pick
<1> QED  BY <1>f, <1>1, <1>6, SumIsTotal DEF f, is

LEMMA MovingNow == Moving = MovingIn(moving) /\ Moving' = MovingIn(moving')
BY DEF Moving, MovingIn, MapThenSumSet, MapThenFoldSet

Queued == [amount : Nat, pays : Trades \cup {NoTrade}]

LEMMA QueueNat ==
    ASSUME NEW queue \in Seq(Queued)
    PROVE  /\ IsFiniteSet(DOMAIN queue) /\ DOMAIN queue = 1 .. Len(queue)
           /\ Len(queue) \in Nat
           /\ \A i \in DOMAIN queue : queue[i].amount \in Nat
           /\ MovingIn(queue) \in Nat
           /\ MovingIn(queue) = Total(AmountsIn(queue), DOMAIN queue)
<1>1. DOMAIN queue = 1 .. Len(queue) /\ Len(queue) \in Nat
    OBVIOUS
<1>2. IsFiniteSet(1 .. Len(queue))
    BY <1>1, FS_Interval
<1>3. IsFiniteSet(DOMAIN queue)
    BY <1>1, <1>2
<1>4. \A i \in DOMAIN queue : queue[i].amount \in Nat
    <2>1. \A i \in DOMAIN queue : queue[i] \in Queued
        BY <1>1
    <2>2. \A x \in Queued : x.amount \in Nat
        BY DEF Queued
    <2> QED  BY <2>1, <2>2
<1>5. \A i \in DOMAIN queue : AmountsIn(queue)[i] \in Nat
    BY <1>4 DEF AmountsIn
<1>6. Total(AmountsIn(queue), DOMAIN queue) \in Nat
    BY <1>3, <1>5, TotalNat
<1> QED  BY <1>1, <1>3, <1>4, <1>6, MovingTotal

LEMMA MovingNone == MovingIn(<<>>) = 0
<1>1. DOMAIN <<>> = {} /\ <<>> \in Seq(Queued)
    OBVIOUS
<1>2. MovingIn(<<>>) = Total(AmountsIn(<<>>), DOMAIN <<>>)
    BY <1>1, QueueNat
<1>3. MovingIn(<<>>) = Total(AmountsIn(<<>>), {})
    BY <1>1, <1>2
<1> QED  BY <1>3, TotalEmpty

\* The same amounts, whatever they pay.
LEMMA MovingSame ==
    ASSUME NEW queue \in Seq(Queued), NEW next \in Seq(Queued), Len(next) = Len(queue),
           \A i \in 1 .. Len(queue) : next[i].amount = queue[i].amount
    PROVE  MovingIn(next) = MovingIn(queue)
<1>1. /\ IsFiniteSet(1 .. Len(queue)) /\ DOMAIN queue = 1 .. Len(queue)
      /\ DOMAIN next = 1 .. Len(queue)
    BY QueueNat
<1>2. MovingIn(queue) = Total(AmountsIn(queue), 1 .. Len(queue))
    BY <1>1, QueueNat
<1>3. MovingIn(next) = Total(AmountsIn(next), 1 .. Len(queue))
    BY <1>1, QueueNat
<1>4. \A i \in 1 .. Len(queue) : AmountsIn(next)[i] = AmountsIn(queue)[i]
    BY <1>1 DEF AmountsIn
<1>5. Total(AmountsIn(next), 1 .. Len(queue)) = Total(AmountsIn(queue), 1 .. Len(queue))
    BY <1>1, <1>4, TotalSame, ZenonT(30)
<1> QED  BY <1>2, <1>3, <1>5

LEMMA MovingMore ==
    ASSUME NEW queue \in Seq(Queued), NEW x \in Queued
    PROVE  MovingIn(Append(queue, x)) = MovingIn(queue) + x.amount
<1> DEFINE n == Len(queue)
           next == Append(queue, x)
           f == AmountsIn(next)
<1>1. /\ next \in Seq(Queued) /\ Len(next) = n + 1 /\ n \in Nat
      /\ next[n + 1] = x /\ \A i \in 1 .. n : next[i] = queue[i]
    OBVIOUS
<1>2. /\ DOMAIN next = 1 .. (n + 1) /\ DOMAIN queue = 1 .. n
      /\ IsFiniteSet(1 .. n) /\ 1 .. (n + 1) = (1 .. n) \cup {n + 1} /\ n + 1 \notin 1 .. n
    BY <1>1, QueueNat
<1>3. MovingIn(next) = Total(f, (1 .. n) \cup {n + 1})
    <2>1. MovingIn(next) = Total(f, DOMAIN next)
        BY <1>1, QueueNat
    <2> QED  BY <1>2, <2>1
<1>4. MovingIn(queue) = Total(AmountsIn(queue), 1 .. n) /\ MovingIn(queue) \in Nat
    BY <1>2, QueueNat
<1>5. /\ \A i \in 1 .. n : f[i] = AmountsIn(queue)[i]
      /\ \A i \in (1 .. n) \cup {n + 1} : f[i] \in Int
      /\ f[n + 1] = x.amount
    <2>1. \A i \in 1 .. (n + 1) : f[i] = next[i].amount
        BY <1>2 DEF AmountsIn
    <2>2. \A i \in 1 .. n : AmountsIn(queue)[i] = queue[i].amount
        BY <1>2 DEF AmountsIn
    <2>3. \A i \in 1 .. (n + 1) : next[i].amount \in Nat
        BY <1>1, <1>2, QueueNat
    <2> HIDE DEF f, next, n
    <2> QED  BY <1>1, <1>2, <2>1, <2>2, <2>3
<1> HIDE DEF f
<1>6. Total(f, (1 .. n) \cup {n + 1}) = f[n + 1] + Total(f, 1 .. n)
    BY <1>2, <1>5, TotalAdd
<1>7. Total(f, 1 .. n) = Total(AmountsIn(queue), 1 .. n)
    BY <1>2, <1>5, TotalSame
<1>8. x.amount \in Nat
    BY DEF Queued
<1> HIDE DEF n, next
<1> QED  BY <1>3, <1>4, <1>5, <1>6, <1>7, <1>8 DEF next

LEMMA MovingLess ==
    ASSUME NEW queue \in Seq(Queued), queue # <<>>
    PROVE  /\ Tail(queue) \in Seq(Queued) /\ Head(queue) \in Queued
           /\ MovingIn(queue) = Head(queue).amount + MovingIn(Tail(queue))
           /\ MovingIn(Tail(queue)) \in Nat
<1> DEFINE n == Len(Tail(queue))
           rest == Tail(queue)
           f == AmountsIn(queue)
           g == AmountsIn(rest)
           pi == [i \in 1 .. n |-> i + 1]
           T == {pi[i] : i \in 1 .. n}
<1>1. /\ rest \in Seq(Queued) /\ Head(queue) \in Queued
      /\ n \in Nat /\ Len(queue) = n + 1 /\ queue[1] = Head(queue)
      /\ \A i \in 1 .. n : rest[i] = queue[i + 1]
    OBVIOUS
<1>2. /\ DOMAIN queue = 1 .. (n + 1) /\ DOMAIN rest = 1 .. n
      /\ IsFiniteSet(1 .. n) /\ IsFiniteSet(1 .. (n + 1))
    BY <1>1, QueueNat
<1>3. MovingIn(queue) = Total(f, 1 .. (n + 1))
    BY <1>2, QueueNat
<1>4. MovingIn(rest) = Total(g, 1 .. n) /\ MovingIn(rest) \in Nat
    BY <1>1, <1>2, QueueNat
<1>5. (1 .. (n + 1)) \ {1} = T /\ 1 \in 1 .. (n + 1)
    <2>1. ASSUME NEW j \in (1 .. (n + 1)) \ {1}
          PROVE  j \in T
        <3>1. j - 1 \in 1 .. n /\ pi[j - 1] = j
            BY <1>1
        <3> QED  BY <3>1
    <2>2. ASSUME NEW i \in 1 .. n
          PROVE  pi[i] \in (1 .. (n + 1)) \ {1}
        <3>1. i + 1 \in 1 .. (n + 1) /\ i + 1 # 1
            BY <1>1
        <3> QED  BY <3>1
    <2>3. 1 \in 1 .. (n + 1)
        BY <1>1
    <2> HIDE DEF pi, n
    <2> QED  BY <2>1, <2>2, <2>3
<1>6. /\ \A i \in 1 .. n : g[i] \in Int /\ f[pi[i]] = g[i]
      /\ \A i, j \in 1 .. n : pi[i] = pi[j] => i = j
      /\ \A i \in 1 .. (n + 1) : f[i] \in Int
      /\ f[1] = Head(queue).amount
    <2>1. \A i \in 1 .. (n + 1) : f[i] = queue[i].amount /\ queue[i].amount \in Nat
        BY <1>2, QueueNat DEF AmountsIn
    <2>2. \A i \in 1 .. n : g[i] = rest[i].amount
        BY <1>2 DEF AmountsIn
    <2>3. \A i \in 1 .. n : pi[i] = i + 1 /\ i + 1 \in 1 .. (n + 1) /\ i \in Int
        BY <1>1
    <2> HIDE DEF f, g, pi, rest, n
    <2>4. \A i, j \in 1 .. n : pi[i] = pi[j] => i = j
        BY <2>3
    <2>5. ASSUME NEW i \in 1 .. n
          PROVE  g[i] \in Int /\ f[pi[i]] = g[i]
        <3>1. pi[i] = i + 1 /\ i + 1 \in 1 .. (n + 1)
            BY <2>3
        <3>2. rest[i] = queue[i + 1] /\ g[i] = rest[i].amount
            BY <1>1, <1>2, <2>2
        <3>3. f[i + 1] = queue[i + 1].amount /\ queue[i + 1].amount \in Nat
            BY <2>1, <3>1
        <3> QED  BY <3>1, <3>2, <3>3
    <2> QED  BY <1>1, <1>5, <2>1, <2>4, <2>5
<1>7. Total(f, T) = Total(g, 1 .. n)
    <2> DEFINE I == 1 .. n
    <2>1. /\ \A i \in I : g[i] \in Int /\ f[pi[i]] = g[i]
          /\ \A i, j \in I : pi[i] = pi[j] => i = j
          /\ IsFiniteSet(I)
        BY <1>2, <1>6
    <2>2. T = {pi[i] : i \in I}
        OBVIOUS
    <2> HIDE DEF I, pi, f, g, T
    <2>3. Total(f, {pi[i] : i \in I}) = Total(g, I)
        BY <2>1, TotalRenamed
    <2> QED  BY <2>2, <2>3 DEF I
<1> HIDE DEF T
<1>8. Total(f, 1 .. (n + 1)) = f[1] + Total(f, (1 .. (n + 1)) \ {1})
    <2>1. \A i \in 1 .. (n + 1) : f[i] \in Int
        BY <1>6
    <2> HIDE DEF f
    <2> QED  BY <1>2, <1>5, <2>1, TotalRemove
<1> HIDE DEF f, g, n, pi
<1>9. MovingIn(queue) = f[1] + Total(f, T)
    BY <1>3, <1>5, <1>8
<1> QED  BY <1>1, <1>4, <1>6, <1>7, <1>9

LEMMA TotalOfForm ==
    ASSUME NEW ps, IsFiniteSet(ps), NEW all, ps \subseteq all
    PROVE  TotalOf(ps) = Total([x \in all |-> x.amount], ps)
<1> DEFINE f == [x \in all |-> x.amount]
           h == CHOOSE iter : iter = [s \in SUBSET ps |->
                    IF s = {} THEN 0
                    ELSE (CHOOSE x \in s : TRUE).amount
                         + iter[s \ {CHOOSE x \in s : TRUE}]]
<1>1. TotalOf(ps) = h[ps]
    BY DEF TotalOf, MapThenSumSet, MapThenFoldSet
<1>2. PICK g : IsSum(g, f, ps)
    BY SumExists
<1>3. ASSUME NEW s \in SUBSET ps, s # {}
      PROVE  f[Pick(s)] = Pick(s).amount
    BY <1>3, PickIn
<1> HIDE DEF f
<1>4. g = [s \in SUBSET ps |->
              IF s = {} THEN 0
              ELSE (CHOOSE x \in s : TRUE).amount + g[s \ {CHOOSE x \in s : TRUE}]]
    BY <1>2, <1>3 DEF IsSum, Pick
<1>5. h = [s \in SUBSET ps |->
              IF s = {} THEN 0
              ELSE (CHOOSE x \in s : TRUE).amount + h[s \ {CHOOSE x \in s : TRUE}]]
    BY <1>4
<1> HIDE DEF h
<1>6. IsSum(h, f, ps)
    BY <1>3, <1>5 DEF IsSum, Pick
<1> QED  BY <1>1, <1>6, SumIsTotal DEF f

LEMMA TotalOfParts ==
    ASSUME NEW ps \in SUBSET Queued, IsFiniteSet(ps)
    PROVE  /\ TotalOf(ps) \in Nat
           /\ TotalOf({}) = 0
           /\ \A x \in ps : /\ TotalOf(ps) = x.amount + TotalOf(ps \ {x})
                            /\ TotalOf(ps \ {x}) \in Nat /\ IsFiniteSet(ps \ {x})
<1> DEFINE f == [x \in ps |-> x.amount]
<1>1. \A x \in ps : f[x] \in Nat /\ f[x] = x.amount
    BY DEF Queued
<1>2. TotalOf(ps) = Total(f, ps)
    BY TotalOfForm
<1>3. TotalOf({}) = Total(f, {})
    BY TotalOfForm, FS_EmptySet
<1>4. \A x \in ps : IsFiniteSet(ps \ {x}) /\ TotalOf(ps \ {x}) = Total(f, ps \ {x})
    BY TotalOfForm, FS_Subset
<1> HIDE DEF f
<1>5. Total(f, ps) \in Nat
    BY <1>1, TotalNat
<1>6. ASSUME NEW x \in ps
      PROVE  /\ Total(f, ps) = f[x] + Total(f, ps \ {x})
             /\ Total(f, ps \ {x}) \in Nat
    <2>1. \A y \in ps : f[y] \in Int
        BY <1>1
    <2>2. Total(f, ps) = f[x] + Total(f, ps \ {x})
        BY <2>1, TotalRemove
    <2>3. \A y \in ps \ {x} : f[y] \in Nat
        BY <1>1
    <2> QED  BY <1>4, <2>2, <2>3, TotalNat
<1> QED  BY <1>1, <1>2, <1>3, <1>4, <1>5, <1>6, TotalEmpty

LEMMA TotalOfOne ==
    ASSUME NEW x \in Queued
    PROVE  IsFiniteSet({x}) /\ TotalOf({x}) = x.amount
<1>1. {x} = {} \cup {x} /\ {x} \ {x} = {}
    OBVIOUS
<1>2. IsFiniteSet({x})
    BY <1>1, FS_EmptySet, FS_AddElement
<1>3. TotalOf({x}) = x.amount + TotalOf({x} \ {x}) /\ TotalOf({}) = 0
    BY <1>2, TotalOfParts
<1>4. x.amount \in Nat
    BY DEF Queued
<1> QED  BY <1>1, <1>2, <1>3, <1>4

\* The payments of payouts add up to the payouts.
LEMMA TotalOfPayouts ==
    ASSUME NEW bk \in [Trades -> Books], NEW ts \in SUBSET Trades
    PROVE  LET ps == {[amount |-> bk[t].payout, pays |-> t] : t \in ts} IN
           /\ IsFiniteSet(ps) /\ ps \subseteq Queued
           /\ TotalOf(ps) = Payout(bk, ts)
<1> DEFINE pi == [t \in ts |-> [amount |-> bk[t].payout, pays |-> t]]
           ps == {[amount |-> bk[t].payout, pays |-> t] : t \in ts}
           f == [x \in ps |-> x.amount]
           g == [t \in Trades |-> bk[t].payout]
           T == {pi[t] : t \in ts}
<1>1. ps = T
    OBVIOUS
<1>2. /\ \A t \in ts : g[t] \in Int /\ f[pi[t]] = g[t]
      /\ \A t, u \in ts : pi[t] = pi[u] => t = u
    BY DEF Books
<1>3. IsFiniteSet(ts)
    BY CollateralAssumption, FS_Subset
<1>s. pi \in Surjection(ts, T)
    BY DEF Surjection
<1>4. IsFiniteSet(T) /\ Total(f, T) = Total(g, ts)
    <2>1. \A t \in ts : g[t] \in Int /\ f[pi[t]] = g[t]
        BY <1>2
    <2>2. \A t, u \in ts : pi[t] = pi[u] => t = u
        BY <1>2
    <2> HIDE DEF pi, f, g, T, ps
    <2>3. Total(f, {pi[t] : t \in ts}) = Total(g, ts)
        BY <1>3, <2>1, <2>2, TotalRenamed
    <2>4. IsFiniteSet(T)
        BY <1>3, <1>s, FS_Surjection
    <2> QED  BY <2>3, <2>4 DEF T
<1>5. ps \subseteq Queued
    BY DEF Books, Queued
<1>6. IsFiniteSet(ps)
    <2> HIDE DEF ps, T
    <2> QED  BY <1>1, <1>4
<1>7. TotalOf(ps) = Total(f, ps)
    BY <1>6, TotalOfForm
<1>8. Total(f, ps) = Total(g, ts)
    <2> HIDE DEF ps, T, f, g
    <2> QED  BY <1>1, <1>4
<1>9. Payout(bk, ts) = Total(g, ts)
    BY PayoutTotal
<1> QED  BY <1>5, <1>6, <1>7, <1>8, <1>9

\* An administrator's amounts are as many payments.
LEMMA SpendsAreFinite ==
    ASSUME NEW amounts, IsFiniteSet(amounts), amounts \subseteq Nat
    PROVE  LET ps == {[amount |-> a, pays |-> NoTrade] : a \in amounts} IN
           IsFiniteSet(ps) /\ ps \subseteq Queued
<1> DEFINE ps == {[amount |-> a, pays |-> NoTrade] : a \in amounts}
           pi == [a \in amounts |-> [amount |-> a, pays |-> NoTrade]]
<1>1. pi \in Surjection(amounts, ps)
    BY DEF Surjection
<1>2. ps \subseteq Queued
    <2>1. \A a \in amounts : [amount |-> a, pays |-> NoTrade] \in Queued
        BY DEF Queued
    <2> QED  BY <2>1
<1> HIDE DEF pi, ps
<1>3. IsFiniteSet(ps)
    BY <1>1, FS_Surjection
<1> QED  BY <1>2, <1>3 DEF ps

----------------------------------------------------------------------------
(* Types *)

Operations == [pc : {"idle", "create", "send", "record"},
               kind : {"none", "trade", "spend", "claim", "retry", "cashout"},
               left : SUBSET Payments, of : Polls \cup {NoTrade},
               trade : Trades \cup {NoTrade}, spare : Trades \cup {NoTrade}, next : Books,
               paid : Nat, gap : Nat, release : Nat]

\* All but what is recorded of payouts and claims.
CoreTyped ==
    /\ book \in [Trades -> Books] /\ settled \subseteq Polls /\ balance \in Amounts
    /\ moving \in Seq(Payments) /\ Len(moving) <= MaxMoving
    /\ delivered \subseteq Trades /\ operation \in Operations /\ unseen \in Nat

RecordsTyped ==
    /\ onRecord \subseteq Trades /\ claims \subseteq Trades
    /\ firstPaid \in [Polls -> Trades \cup {NoTrade}]

LEMMA TypesSplit ==
    /\ CollateralTypeOK => CoreTyped /\ RecordsTyped
    /\ CoreTyped /\ RecordsTyped => CollateralTypeOK
    /\ CollateralTypeOK' => CoreTyped' /\ RecordsTyped'
    /\ CoreTyped' /\ RecordsTyped' => CollateralTypeOK'
    /\ CoreTyped =>
          /\ book \in [Trades -> Books] /\ settled \subseteq Polls /\ balance \in Amounts
          /\ moving \in Seq(Payments) /\ Len(moving) <= MaxMoving
          /\ delivered \subseteq Trades /\ operation \in Operations /\ unseen \in Nat
    /\ RecordsTyped => onRecord \subseteq Trades /\ claims \subseteq Trades
    /\ CoreTyped' <=>
          /\ book' \in [Trades -> Books] /\ settled' \subseteq Polls /\ balance' \in Amounts
          /\ moving' \in Seq(Payments) /\ Len(moving') <= MaxMoving
          /\ delivered' \subseteq Trades /\ operation' \in Operations /\ unseen' \in Nat
BY DEF CollateralTypeOK, Operations, CoreTyped, RecordsTyped

LEMMA PaymentsQueued ==
    /\ Payments \subseteq Queued /\ Seq(Payments) \subseteq Seq(Queued)
    /\ Amounts \subseteq Nat /\ \A x \in Payments : x.amount \in Nat
<1>1. Amounts \subseteq Nat
    BY CollateralAssumption DEF Amounts
<1>2. Payments \subseteq Queued
    BY <1>1 DEF Payments, Queued
<1>3. \A x \in Payments : x.amount \in Nat
    BY <1>1 DEF Payments
<1>4. Seq(Payments) \subseteq Seq(Queued)
    <2> SUFFICES ASSUME NEW q \in Seq(Payments) PROVE q \in Seq(Queued)
        OBVIOUS
    <2> QED  BY <1>2
<1> QED  BY <1>1, <1>2, <1>3, <1>4

LEMMA IdleTyped ==
    /\ Idle \in Operations
    /\ Idle.pc = "idle" /\ Idle.kind = "none" /\ Idle.left = {} /\ Idle.release = 0
<1>1. NoBook \in Books
    BY DEF NoBook, Books
<1> QED  BY <1>1 DEF Idle, Operations

LEMMA MovingTyped ==
    ASSUME CollateralTypeOK
    PROVE  /\ Moving \in Nat /\ moving \in Seq(Queued) /\ balance \in Nat
           /\ Moving = MovingIn(moving)
<1>1. moving \in Seq(Queued) /\ balance \in Nat
    BY TypesSplit, PaymentsQueued
<1> QED  BY <1>1, QueueNat, MovingNow

\* What a check does not see is a number.
LEMMA GapTyped ==
    ASSUME CollateralTypeOK, NEW ts
    PROVE  Gap(ts) = Moving + Payout(book, Overlooked(ts)) /\ Gap(ts) \in Nat
<1>1. book \in [Trades -> Books] /\ Overlooked(ts) \in SUBSET Trades
    BY DEF CollateralTypeOK, Overlooked
<1>2. Payout(book, Overlooked(ts)) \in Nat
    <2> DEFINE over == Overlooked(ts)
    <2>1. IsFiniteSet(over) /\ over \in SUBSET Trades
        BY <1>1, CollateralAssumption, FS_Subset
    <2>2. \A t \in over : [u \in Trades |-> book[u].payout][t] \in Nat
        BY <1>1 DEF Books
    <2> HIDE DEF over
    <2>3. Total([u \in Trades |-> book[u].payout], over) \in Nat
        BY <2>1, <2>2, TotalNat
    <2> QED  BY <2>1, <2>3, PayoutTotal DEF over
<1> QED  BY <1>2, MovingTyped DEF Gap

\* What a check that lets a payment through has shown.
LEMMA CheckedCovers ==
    ASSUME CollateralTypeOK, NEW out \in Nat, NEW release \in Int,
           OutflowCovered(out, release)
    PROVE  balance - out >= OwedBy(book, onRecord) - release /\ out <= balance
<1>1. OwedBy(book, onRecord) \in Nat /\ balance \in Nat
    BY UnpaidTyped, MovingTyped, TypesSplit
<1> DEFINE n == OwedBy(book, onRecord) - release
           m == Max({0, n})
<1>2. n \in Int
    BY <1>1
<1>3. balance - out >= WithBuffer(m)
    BY DEF OutflowCovered, OwedBy
<1> HIDE DEF n
<1>4. m \in Nat /\ m >= n
    <2>1. {0, n} = ({} \cup {0}) \cup {n}
        OBVIOUS
    <2>2. IsFiniteSet(({} \cup {0}) \cup {n})
        BY FS_EmptySet, FS_AddElement
    <2>3. IsFiniteSet({0, n}) /\ {0, n} # {} /\ {0, n} \subseteq Int
        BY <1>2, <2>1, <2>2
    <2>4. m \in {0, n} /\ \A k \in {0, n} : k <= m
        BY <2>3, GreatestIn
    <2> HIDE DEF m
    <2> QED  BY <1>2, <2>4
<1> HIDE DEF m
<1>5. WithBuffer(m) \in Nat /\ WithBuffer(m) >= m
    BY <1>4, BufferAdds
<1> QED  BY <1>1, <1>2, <1>3, <1>4, <1>5 DEF n

\* Payments that a check lets through are of their type.
LEMMA CheckedTyped ==
    ASSUME CollateralTypeOK, NEW ps \in SUBSET Queued, IsFiniteSet(ps), TotalOf(ps) <= balance
    PROVE  ps \subseteq Payments
<1> SUFFICES ASSUME NEW x \in ps PROVE x \in Payments
    OBVIOUS
<1>1. /\ TotalOf(ps) \in Nat
      /\ TotalOf(ps) = x.amount + TotalOf(ps \ {x}) /\ TotalOf(ps \ {x}) \in Nat
    BY TotalOfParts
<1>2. balance \in Nat /\ balance <= MaxBalance /\ MaxBalance \in Nat
    BY TypesSplit, CollateralAssumption DEF Amounts
<1>3. x \in Queued /\ x.amount \in Nat
    BY DEF Queued
<1>4. x.amount <= MaxBalance
    BY <1>1, <1>2, <1>3
<1> QED  BY <1>2, <1>3, <1>4 DEF Payments, Queued, Amounts

\* The actions that start an operation, in the fields they set.
LEMMA StartsTrade ==
    ASSUME CollateralTypeOK, NEW p \in Polls, NEW side \in {"yes", "no"},
           NEW amount \in Stakes, NEW payout \in Returns,
           CollateralizeQuote(p, side, amount, payout)
    PROVE  /\ operation = Idle /\ operation' \in Operations
           /\ operation'.pc = "create" /\ operation'.kind = "trade" /\ operation'.left = {}
           /\ operation'.trade \in Trades /\ book[operation'.trade].status = "none"
           /\ operation'.next.status = "open" /\ operation'.next.poll = p
           /\ operation'.gap = Gap({}) /\ operation'.release = 0
           /\ balance >= WithBuffer(OwedBy([book EXCEPT ![operation'.trade]
                                                = operation'.next], onRecord))
           /\ UNCHANGED <<book, settled, balance, moving, delivered, unseen>>
<1> DEFINE new == [status |-> "open", poll |-> p, side |-> side, amount |-> amount,
                   payout |-> payout]
           tr == NextTrade
<1>1. tr \in Unused
    BY DEF CollateralizeQuote, NextTrade
<1>2. tr \in Trades /\ book[tr].status = "none"
    BY <1>1 DEF Unused
<1>3. new \in Books
    BY CollateralAssumption DEF Books
<1>4. /\ operation = Idle
      /\ balance >= WithBuffer(OwedBy([book EXCEPT ![tr] = new], onRecord))
      /\ operation' = [Idle EXCEPT !.pc = "create", !.kind = "trade", !.trade = tr,
                                   !.next = new, !.gap = Gap({})]
      /\ UNCHANGED <<book, settled, balance, moving, delivered, unseen>>
    BY DEF CollateralizeQuote, Does, OwedBy
<1>5. new.status = "open" /\ new.poll = p
    OBVIOUS
<1> HIDE DEF new, tr
<1>6. operation' = [pc |-> "create", kind |-> "trade", left |-> {}, of |-> NoTrade,
                    trade |-> tr, spare |-> NoTrade, next |-> new, paid |-> 0,
                    gap |-> Gap({}), release |-> 0]
    BY <1>4 DEF Idle
<1>7. Gap({}) \in Nat
    BY GapTyped
<1>8. operation' \in Operations
    BY <1>2, <1>3, <1>6, <1>7 DEF Operations
<1>9. /\ operation'.pc = "create" /\ operation'.kind = "trade" /\ operation'.left = {}
      /\ operation'.trade = tr /\ operation'.next = new
      /\ operation'.gap = Gap({}) /\ operation'.release = 0
    BY <1>6
<1> QED  BY <1>2, <1>4, <1>5, <1>8, <1>9

LEMMA StartsSpend ==
    ASSUME CollateralTypeOK, NEW amounts \in Spends, SendWalletTokens(amounts)
    PROVE  /\ operation = Idle /\ operation' \in Operations
           /\ operation'.pc = "send" /\ operation'.kind = "spend"
           /\ operation'.gap = Gap({}) /\ operation'.release = 0
           /\ IsFiniteSet(operation'.left)
           /\ \A x \in operation'.left : x.pays = NoTrade
           /\ TotalOf(operation'.left) \in Nat
           /\ balance - TotalOf(operation'.left) >= OwedBy(book, onRecord)
           /\ UNCHANGED <<book, settled, balance, moving, delivered, unseen>>
<1> DEFINE ps == {[amount |-> a, pays |-> NoTrade] : a \in amounts}
<1>1. IsFiniteSet(ps) /\ ps \subseteq Queued
    BY CollateralAssumption, SpendsAreFinite
<1>2. \A x \in ps : x.pays = NoTrade
    OBVIOUS
<1>3. /\ operation = Idle /\ OutflowCovered(TotalOf(ps), 0)
      /\ operation' = [Idle EXCEPT !.pc = "send", !.kind = "spend", !.left = ps,
                                   !.gap = Gap({})]
      /\ UNCHANGED <<book, settled, balance, moving, delivered, unseen>>
    BY DEF SendWalletTokens, Checked, Does
<1> HIDE DEF ps
<1>4. TotalOf(ps) \in Nat
    BY <1>1, TotalOfParts
<1>5. balance - TotalOf(ps) >= OwedBy(book, onRecord) - 0 /\ TotalOf(ps) <= balance
    BY <1>3, <1>4, CheckedCovers
<1>6. ps \subseteq Payments
    BY <1>1, <1>5, CheckedTyped
<1>7. operation' = [pc |-> "send", kind |-> "spend", left |-> ps, of |-> NoTrade,
                    trade |-> NoTrade, spare |-> NoTrade, next |-> NoBook, paid |-> 0,
                    gap |-> Gap({}), release |-> 0]
    BY <1>3 DEF Idle
<1>8. Gap({}) \in Nat /\ OwedBy(book, onRecord) \in Nat
    BY GapTyped, UnpaidTyped, TypesSplit
<1>9. NoBook \in Books
    BY DEF NoBook, Books
<1>10. operation' \in Operations
    BY <1>6, <1>7, <1>8, <1>9 DEF Operations
<1>11. /\ operation'.pc = "send" /\ operation'.kind = "spend" /\ operation'.left = ps
       /\ operation'.gap = Gap({}) /\ operation'.release = 0
    BY <1>7
<1>12. balance - TotalOf(ps) >= OwedBy(book, onRecord)
    BY <1>5, <1>8
<1> QED  BY <1>1, <1>2, <1>3, <1>4, <1>10, <1>11, <1>12

LEMMA StartsPayouts ==
    ASSUME CollateralTypeOK, NEW kind \in {"claim", "retry"}, NEW p \in Polls \cup {NoTrade},
           NEW ts \in SUBSET Due, SendPayouts(kind, p, ts)
    PROVE  /\ operation = Idle /\ operation' \in Operations
           /\ operation'.pc = "send" /\ operation'.kind = kind
           /\ operation'.gap = Gap(ts) /\ operation'.release = 0
           /\ IsFiniteSet(operation'.left)
           /\ ts \subseteq Trades /\ \A t \in ts : book[t].status = "due"
           /\ \A x \in operation'.left : x.pays \in ts /\ x.amount = book[x.pays].payout
           /\ {x.pays : x \in operation'.left} = ts
           /\ TotalOf(operation'.left) = Payout(book, ts)
           /\ balance - TotalOf(operation'.left) >= OwedBy(book, onRecord) - Payout(book, ts)
           /\ UNCHANGED <<book, settled, balance, moving, delivered, unseen>>
<1> DEFINE ps == {[amount |-> book[t].payout, pays |-> t] : t \in ts}
<1>0. /\ ts \subseteq Trades /\ \A t \in ts : book[t].status = "due"
      /\ book \in [Trades -> Books]
    BY TypesSplit DEF Due
<1>1. IsFiniteSet(ps) /\ ps \subseteq Queued /\ TotalOf(ps) = Payout(book, ts)
    BY <1>0, TotalOfPayouts
<1>2. (\A x \in ps : x.pays \in ts /\ x.amount = book[x.pays].payout) /\ {x.pays : x \in ps} = ts
    <2>1. \A x \in ps : x.pays \in ts /\ x.amount = book[x.pays].payout
        OBVIOUS
    <2>2. \A t \in ts : [amount |-> book[t].payout, pays |-> t] \in ps
        OBVIOUS
    <2>3. \A t \in ts : \E x \in ps : x.pays = t
        BY <2>2
    <2> HIDE DEF ps
    <2> QED  BY <2>1, <2>3
<1>3. /\ operation = Idle /\ OutflowCovered(TotalOf(ps), Payout(book, ts))
      /\ operation' = [Idle EXCEPT !.pc = "send", !.kind = kind, !.left = ps,
                                   !.of = p, !.gap = Gap(ts)]
      /\ UNCHANGED <<book, settled, balance, moving, delivered, unseen>>
    BY DEF SendPayouts, Checked, Does
<1> HIDE DEF ps
<1>4. TotalOf(ps) \in Nat /\ Payout(book, ts) \in Nat
    BY <1>1, TotalOfParts
<1>5. balance - TotalOf(ps) >= OwedBy(book, onRecord) - Payout(book, ts) /\ TotalOf(ps) <= balance
    BY <1>3, <1>4, CheckedCovers
<1>6. ps \subseteq Payments
    BY <1>1, <1>5, CheckedTyped
<1>7. operation' = [pc |-> "send", kind |-> kind, left |-> ps, of |-> p,
                    trade |-> NoTrade, spare |-> NoTrade, next |-> NoBook, paid |-> 0,
                    gap |-> Gap(ts), release |-> 0]
    BY <1>3 DEF Idle
<1>8. Gap(ts) \in Nat
    BY GapTyped
<1>9. NoBook \in Books
    BY DEF NoBook, Books
<1>10. operation' \in Operations
    BY <1>0, <1>6, <1>7, <1>8, <1>9 DEF Operations
<1>11. /\ operation'.pc = "send" /\ operation'.kind = kind /\ operation'.left = ps
       /\ operation'.gap = Gap(ts) /\ operation'.release = 0
    BY <1>7
<1> QED  BY <1>0, <1>1, <1>2, <1>3, <1>5, <1>10, <1>11

LEMMA StartsCashout ==
    ASSUME CollateralTypeOK, NEW t \in Trades, NEW shares \in 1 .. book[t].payout,
           NEW amount \in 1 .. book[t].amount, NEW proceeds \in 1 .. shares,
           CashOut(t, shares, amount, proceeds)
    PROVE  /\ operation = Idle /\ operation' \in Operations
           /\ operation'.pc = "send" /\ operation'.kind = "cashout"
           /\ operation'.gap = Gap({}) /\ IsFiniteSet(operation'.left)
           /\ operation'.trade = t /\ book[t].status = "open" /\ book[t].payout > 0
           /\ operation'.spare \in Trades
           /\ operation'.spare # t => book[operation'.spare].status = "none"
           /\ operation'.left = {[amount |-> operation'.paid, pays |-> operation'.spare]}
           /\ TotalOf(operation'.left) = operation'.paid
           /\ operation'.next.status = "open" /\ operation'.next.poll = book[t].poll
           /\ operation'.next.side = book[t].side
           /\ operation'.next.payout <= book[t].payout
           /\ operation'.next.amount <= book[t].amount
           /\ balance - operation'.paid
                 >= OwedBy([book EXCEPT ![t] = operation'.next], onRecord)
           /\ (balance - operation'.paid) + operation'.release >= OwedBy(book, onRecord)
           /\ UNCHANGED <<book, settled, balance, moving, delivered, unseen>>
<1> DEFINE spare == IF shares = book[t].payout THEN t ELSE NextTrade
           next == Reduced(t, shares, amount)
           low == [book EXCEPT ![t] = next]
           release == CollateralRelease(t, shares, amount)
           x == [amount |-> proceeds, pays |-> spare]
<1>0. book \in [Trades -> Books] /\ book[t] \in Books /\ balance \in Nat
    BY TypesSplit, MovingTyped
<1>1. spare \in Trades /\ (spare # t => book[spare].status = "none")
    <2>1. CASE shares = book[t].payout
        BY <2>1
    <2>2. CASE shares # book[t].payout
        <3>1. Unused # {} /\ spare = NextTrade
            BY <2>2 DEF CashOut
        <3>2. NextTrade \in Unused
            BY <3>1 DEF NextTrade
        <3> QED  BY <3>1, <3>2 DEF Unused
    <2> QED  BY <2>1, <2>2
<1>2. /\ next.status = book[t].status /\ next.poll = book[t].poll /\ next.side = book[t].side
      /\ next.payout = book[t].payout - shares /\ next.amount = book[t].amount - amount
      /\ next \in Books
    <2>1. next = [book[t] EXCEPT !.payout = @ - shares, !.amount = @ - amount]
        BY DEF Reduced
    <2>2. book[t].payout \in Nat /\ book[t].amount \in Nat
        BY <1>0 DEF Books
    <2>3. book[t].payout - shares \in Nat /\ book[t].amount - amount \in Nat
        BY <2>2
    <2> HIDE DEF next
    <2> QED  BY <1>0, <2>1, <2>3 DEF Books
<1>3. book[t].payout \in Nat /\ book[t].amount \in Nat
    BY <1>0 DEF Books
<1>4. /\ next.payout <= book[t].payout /\ next.amount <= book[t].amount
      /\ book[t].payout > 0 /\ proceeds \in Nat
    BY <1>2, <1>3
<1>5. /\ operation = Idle /\ book[t].status = "open"
      /\ OutflowCovered(TotalOf({x}), release)
      /\ operation' = [Idle EXCEPT !.pc = "send", !.kind = "cashout", !.left = {x},
                           !.trade = t, !.spare = spare, !.next = next, !.paid = proceeds,
                           !.gap = Gap({}), !.release = release]
      /\ UNCHANGED <<book, settled, balance, moving, delivered, unseen>>
    BY DEF CashOut, Checked, Does
<1>6. low \in [Trades -> Books]
    BY <1>0, <1>2
<1>7. release = OwedBy(book, onRecord) - OwedBy(low, onRecord)
    BY DEF CollateralRelease, OwedBy
<1>8. OwedBy(low, onRecord) \in Nat /\ OwedBy(book, onRecord) \in Nat
    BY <1>0, <1>6, UnpaidTyped
<1>9. OwedBy(low, onRecord) <= OwedBy(book, onRecord)
    <2>1. \A u \in Trades : low[u] = IF u = t THEN next ELSE book[u]
        BY <1>0
    <2>2. /\ \A u \in Trades : low[u].status = "open" =>
                /\ book[u].status = "open"
                /\ book[u].poll = low[u].poll /\ book[u].side = low[u].side
                /\ low[u].payout <= book[u].payout /\ low[u].amount <= book[u].amount
          /\ \A u \in Trades : low[u].status = "due" /\ u \notin onRecord =>
                book[u].status = "due" /\ u \notin onRecord
                /\ low[u].payout <= book[u].payout
        BY <1>0, <1>2, <1>4, <1>5, <2>1 DEF Books
    <2> HIDE DEF low
    <2> QED  BY <1>0, <1>6, <2>2, OwedBelow
<1>10. x \in Queued /\ x.amount = proceeds
    BY <1>1, <1>4 DEF Queued
<1> HIDE DEF x
<1>11. IsFiniteSet({x}) /\ TotalOf({x}) = proceeds
    BY <1>10, TotalOfOne
<1> HIDE DEF low, release, next
<1>12. release \in Nat
    BY <1>7, <1>8, <1>9
<1>13. balance - proceeds >= OwedBy(book, onRecord) - release /\ proceeds <= balance
    BY <1>4, <1>5, <1>11, <1>12, CheckedCovers
<1>14. {x} \subseteq Payments
    BY <1>10, <1>11, <1>13, CheckedTyped
<1>15. Gap({}) \in Nat
    BY GapTyped
<1> HIDE DEF spare
<1>16. operation' = [pc |-> "send", kind |-> "cashout", left |-> {x}, of |-> NoTrade,
                     trade |-> t, spare |-> spare, next |-> next, paid |-> proceeds,
                     gap |-> Gap({}), release |-> release]
    BY <1>5 DEF Idle
<1>17. operation' \in Operations
    BY <1>1, <1>2, <1>4, <1>12, <1>14, <1>15, <1>16 DEF Operations
<1>18. /\ operation'.pc = "send" /\ operation'.kind = "cashout" /\ operation'.left = {x}
       /\ operation'.trade = t /\ operation'.spare = spare /\ operation'.next = next
       /\ operation'.paid = proceeds /\ operation'.gap = Gap({})
       /\ operation'.release = release
    BY <1>16
<1>19. balance - proceeds >= OwedBy(low, onRecord)
    BY <1>0, <1>4, <1>7, <1>8, <1>13
<1>20. (balance - proceeds) + release >= OwedBy(book, onRecord)
    BY <1>0, <1>4, <1>8, <1>12, <1>13
<1> QED  BY <1>1, <1>2, <1>4, <1>5, <1>11, <1>17, <1>18, <1>19, <1>20 DEF low, x

\* A claim, and the retry of a market, pay what is due.
LEMMA PaysDue ==
    ASSUME BooksKnown
    PROVE  /\ \A t : SendClaim(t) => {t} \in SUBSET Due /\ SendPayouts("claim", NoTrade, {t})
           /\ \A p : RetrySettlementPayout(p) =>
                 Payable(p) \in SUBSET Due /\ SendPayouts("retry", p, Payable(p))
BY DEF BooksKnown, SendClaim, RetrySettlementPayout, Payable

\* What TransferToken does, if the gateway accepts the payment, and if it reports
\* an error.
LEMMA TransferSums ==
    ASSUME CollateralTypeOK, TransferToken
    PROVE  \E x \in operation.left :
              LET left == operation.left \ {x} IN
              /\ operation.pc = "send" /\ x \in Payments
              /\ unseen' = operation.gap + operation.release
              /\ Append(moving, x) \in Seq(Payments) /\ Len(moving) < MaxMoving
              /\ UNCHANGED <<book, settled, balance>>
              /\ \/ /\ left = {} /\ operation.kind \in {"spend", "claim"} /\ operation' = Idle
                    /\ moving' = Append(moving, x) /\ delivered' = delivered
                 \/ /\ operation' \in Operations /\ operation'.left = left
                    /\ operation'.pc = IF left = {} THEN "record" ELSE "send"
                    /\ left = {} => operation.kind \notin {"spend", "claim"}
                    /\ operation'.trade = IF operation.trade = NoTrade THEN x.pays
                                          ELSE operation.trade
                    /\ operation'.kind = operation.kind /\ operation'.spare = operation.spare
                    /\ operation'.next = operation.next /\ operation'.paid = operation.paid
                    /\ operation'.gap = operation.gap
                    /\ operation'.release = operation.release
                    /\ moving' = Append(moving, x) /\ delivered' = delivered
                 \/ /\ operation' = Idle /\ operation.kind # "cashout"
                    /\ moving' = Append(moving, x) /\ delivered' = delivered
                 \/ /\ operation' = Idle /\ operation.kind = "cashout"
                    /\ Forget(Append(moving, x))
<1>1. PICK x \in operation.left :
        LET left == operation.left \ {x}
            queue == Append(moving, x)
            first == [operation EXCEPT !.left = left,
                                       !.trade = IF @ = NoTrade THEN x.pays ELSE @]
        IN
        /\ operation.pc = "send"
        /\ Len(moving) < MaxMoving
        /\ unseen' = operation.gap + operation.release
        /\ \/ /\ Does(IF left # {} THEN first
                      ELSE IF operation.kind \in {"spend", "claim"} THEN Idle
                      ELSE [first EXCEPT !.pc = "record"])
              /\ moving' = queue
              /\ UNCHANGED delivered
           \/ /\ Does(Idle)
              /\ IF operation.kind = "cashout" THEN Forget(queue)
                 ELSE moving' = queue /\ UNCHANGED delivered
        /\ UNCHANGED <<book, settled, balance>>
    BY DEF TransferToken
<1> DEFINE left == operation.left \ {x}
           queue == Append(moving, x)
           trade == IF operation.trade = NoTrade THEN x.pays ELSE operation.trade
           first == [operation EXCEPT !.left = left, !.trade = trade]
           last == [operation EXCEPT !.left = left, !.trade = trade, !.pc = "record"]
<1>2. operation \in Operations /\ moving \in Seq(Payments)
    BY TypesSplit
<1>3. operation.left \subseteq Payments /\ x \in Payments
    BY <1>2 DEF Operations
<1>4. queue \in Seq(Payments)
    BY <1>2, <1>3
<1>5. trade \in Trades \cup {NoTrade}
    BY <1>2, <1>3 DEF Operations, Payments
<1>6. left \in SUBSET Payments
    BY <1>3
<1>7. /\ operation.pc = "send"
      /\ Len(moving) < MaxMoving
      /\ unseen' = operation.gap + operation.release
      /\ \/ /\ operation' = IF left # {} THEN first
                            ELSE IF operation.kind \in {"spend", "claim"} THEN Idle
                            ELSE last
            /\ moving' = queue
            /\ UNCHANGED delivered
         \/ /\ operation' = Idle
            /\ IF operation.kind = "cashout" THEN Forget(queue)
               ELSE moving' = queue /\ UNCHANGED delivered
      /\ UNCHANGED <<book, settled, balance>>
    BY <1>1 DEF Does
<1> HIDE DEF left, queue, trade
<1>8. /\ first \in Operations /\ last \in Operations
      /\ first.pc = operation.pc /\ last.pc = "record"
      /\ first.left = left /\ last.left = left
      /\ first.trade = trade /\ last.trade = trade
      /\ first.kind = operation.kind /\ last.kind = operation.kind
      /\ first.spare = operation.spare /\ last.spare = operation.spare
      /\ first.next = operation.next /\ last.next = operation.next
      /\ first.paid = operation.paid /\ last.paid = operation.paid
      /\ first.gap = operation.gap /\ last.gap = operation.gap
      /\ first.release = operation.release /\ last.release = operation.release
    BY <1>2, <1>5, <1>6 DEF Operations
<1> HIDE DEF first, last
<1> QED  BY <1>3, <1>4, <1>7, <1>8 DEF left, queue, trade

LEMMA Forgets ==
    ASSUME NEW queue \in Seq(Payments), delivered \subseteq Trades, Forget(queue)
    PROVE  /\ moving' \in Seq(Payments) /\ Len(moving') = Len(queue)
           /\ DOMAIN moving' = 1 .. Len(queue) /\ DOMAIN queue = 1 .. Len(queue)
           /\ \A i \in 1 .. Len(queue) :
                 /\ moving'[i].amount = queue[i].amount
                 /\ queue[i].pays = operation.spare => moving'[i].pays = NoTrade
                 /\ queue[i].pays # operation.spare => moving'[i].pays = queue[i].pays
           /\ delivered' = delivered \ {operation.spare}
           /\ MovingIn(moving') = MovingIn(queue)
<1>1. DOMAIN queue = 1 .. Len(queue) /\ Len(queue) \in Nat
      /\ \A i \in 1 .. Len(queue) : queue[i] \in Payments
    OBVIOUS
<1>2. /\ moving' = [i \in 1 .. Len(queue) |->
             IF queue[i].pays = operation.spare THEN [queue[i] EXCEPT !.pays = NoTrade]
             ELSE queue[i]]
      /\ delivered' = delivered \ {operation.spare}
    BY <1>1 DEF Forget
<1>3. \A x \in Payments : /\ [x EXCEPT !.pays = NoTrade] \in Payments
                          /\ [x EXCEPT !.pays = NoTrade].amount = x.amount
                          /\ [x EXCEPT !.pays = NoTrade].pays = NoTrade
    BY DEF Payments
<1>4. \A i \in 1 .. Len(queue) :
         /\ moving'[i] \in Payments
         /\ moving'[i].amount = queue[i].amount
         /\ queue[i].pays = operation.spare => moving'[i].pays = NoTrade
         /\ queue[i].pays # operation.spare => moving'[i].pays = queue[i].pays
    BY <1>1, <1>2, <1>3
<1>5. moving' \in Seq(Payments) /\ Len(moving') = Len(queue)
      /\ DOMAIN moving' = 1 .. Len(queue)
    <2>1. moving' \in [1 .. Len(queue) -> Payments]
        BY <1>2, <1>4
    <2> QED  BY <1>1, <2>1
<1>6. moving' \in Seq(Queued) /\ queue \in Seq(Queued)
    BY <1>5, PaymentsQueued
<1>7. MovingIn(moving') = MovingIn(queue)
    BY <1>4, <1>5, <1>6, MovingSame
<1> QED  BY <1>1, <1>2, <1>4, <1>5, <1>7

\* The shares that stay are worth no more than they were.
LEMMA Shrinks ==
    ASSUME NEW n \in Nat, NEW o \in Nat, n <= o, o > 0
    PROVE  (n * n) \div o \in Nat /\ (n * n) \div o <= n
<1>1. n * n \in Nat /\ n * n <= n * o /\ n * o \in Nat
    OBVIOUS
<1>2. PICK q \in Int, r \in Int : q = (n * n) \div o /\ r = (n * n) % o
    BY <1>1
<1>3. n * n = o * q + r /\ r >= 0 /\ r < o
    BY <1>1, <1>2
<1>4. q >= 0
    <2> SUFFICES ASSUME q <= -1 PROVE FALSE
        OBVIOUS
    <2>1. o * q <= o * (-1)
        OBVIOUS
    <2> QED  BY <1>1, <1>3, <2>1
<1>5. q <= n
    <2> SUFFICES ASSUME q >= n + 1 PROVE FALSE
        OBVIOUS
    <2>1. o * q >= o * (n + 1) /\ o * (n + 1) = n * o + o
        OBVIOUS
    <2>2. o * q \in Int
        OBVIOUS
    <2> QED  BY <1>1, <1>3, <2>1, <2>2
<1> QED  BY <1>2, <1>4, <1>5

LEMMA RecordsCashout ==
    ASSUME CollateralTypeOK, CashoutKnows, RecordCashout
    PROVE  LET t == operation.trade
               spare == operation.spare
           IN
           /\ operation.pc = "record" /\ operation.kind = "cashout"
           /\ t \in Trades /\ spare \in Trades /\ book[t].status = "open"
           /\ book' \in [Trades -> Books]
           /\ book'[spare].status = "due" /\ book'[spare].payout = operation.paid
           /\ t # spare => /\ book'[t].status = "open" /\ book'[t].poll = operation.next.poll
                           /\ book'[t].side = operation.next.side
                           /\ book'[t].payout <= operation.next.payout
                           /\ book'[t].amount = operation.next.amount
                           /\ operation.next.poll = book[t].poll
           /\ \A u \in Trades : u # t /\ u # spare => book'[u] = book[u]
           /\ operation' = Idle /\ unseen' = operation.gap
           /\ UNCHANGED <<settled, balance, moving, delivered>>
<1> DEFINE t == operation.trade
           spare == operation.spare
           proceeds == [NoBook EXCEPT !.status = "due", !.poll = book[t].poll,
                                      !.payout = operation.paid]
<1>1. /\ operation.pc = "record" /\ operation.kind = "cashout" /\ book[t].status = "open"
      /\ operation' = Idle /\ unseen' = operation.gap
      /\ UNCHANGED <<settled, balance, moving, delivered>>
    BY DEF RecordCashout, Does
<1>2. PICK rest \in Remaining(book[t], operation.next) :
         book' = [book EXCEPT ![t] = rest, ![spare] = proceeds]
    BY DEF RecordCashout
<1>3. /\ t \in Trades /\ spare \in Trades
      /\ operation.next.status = "open" /\ operation.next.poll = book[t].poll
      /\ operation.next.side = book[t].side
      /\ operation.next.payout <= book[t].payout /\ book[t].payout > 0
    BY <1>1 DEF CashoutKnows
<1>4. /\ book \in [Trades -> Books] /\ book[t] \in Books /\ operation.next \in Books
      /\ operation.paid \in Nat
    BY <1>3, TypesSplit DEF Operations
<1>5. book[t].payout \in Nat /\ operation.next.payout \in Nat
    BY <1>4 DEF Books
<1>6. /\ (operation.next.payout * operation.next.payout) \div book[t].payout \in Nat
      /\ (operation.next.payout * operation.next.payout) \div book[t].payout
            <= operation.next.payout
    BY <1>3, <1>5, Shrinks
<1>7. /\ rest \in Books /\ rest.status = "open" /\ rest.poll = operation.next.poll
      /\ rest.side = operation.next.side /\ rest.payout <= operation.next.payout
      /\ rest.amount = operation.next.amount
    <2>1. CASE rest = operation.next
        BY <1>3, <1>4, <1>5, <2>1
    <2>2. CASE rest = [operation.next EXCEPT !.payout = (@ * @) \div book[t].payout]
        <3> DEFINE m == (operation.next.payout * operation.next.payout) \div book[t].payout
        <3>1. rest = [operation.next EXCEPT !.payout = m]
            BY <2>2
        <3>2. m \in Nat /\ m <= operation.next.payout
            BY <1>6
        <3> HIDE DEF m
        <3> QED  BY <1>3, <1>4, <3>1, <3>2 DEF Books
    <2> QED  BY <1>2, <2>1, <2>2 DEF Remaining
<1>8. /\ proceeds \in Books
      /\ proceeds.status = "due" /\ proceeds.payout = operation.paid
    <2>1. NoBook \in Books
        BY DEF NoBook, Books
    <2>2. book[t].poll \in Polls \cup {NoTrade}
        BY <1>4 DEF Books
    <2> QED  BY <1>4, <2>1, <2>2 DEF Books
<1> HIDE DEF proceeds, t, spare
<1>9. /\ book' \in [Trades -> Books] /\ book'[spare] = proceeds
      /\ t # spare => book'[t] = rest
      /\ \A u \in Trades : u # t /\ u # spare => book'[u] = book[u]
    BY <1>2, <1>3, <1>4, <1>7, <1>8
<1> QED  BY <1>1, <1>3, <1>7, <1>8, <1>9 DEF t, spare

LEMMA Settles ==
    ASSUME CollateralTypeOK, NEW p \in Polls, NEW outcome \in {"yes", "no", "cancelled"},
           SettlePollTrades(p, outcome)
    PROVE  /\ book' \in [Trades -> Books] /\ settled' = settled \cup {p}
           /\ \A t \in Trades :
                 IF book[t].status = "open" /\ book[t].poll = p
                 THEN \/ book'[t].status = "done"
                      \/ book'[t].status = "due"
                         /\ book'[t].payout = Outcome(book, p, outcome)[t]
                 ELSE book'[t] = book[t]
           /\ UNCHANGED <<balance, moving, delivered, operation, unseen>>
<1>1. book' = [t \in Trades |-> SettledBook(t, p, outcome)] /\ settled' = settled \cup {p}
      /\ UNCHANGED <<balance, moving, delivered, operation, unseen>>
    BY DEF SettlePollTrades
<1>2. ASSUME NEW t \in Trades
      PROVE  /\ SettledBook(t, p, outcome) \in Books
             /\ IF book[t].status = "open" /\ book[t].poll = p
                THEN \/ SettledBook(t, p, outcome).status = "done"
                     \/ /\ SettledBook(t, p, outcome).status = "due"
                        /\ SettledBook(t, p, outcome).payout = Outcome(book, p, outcome)[t]
                ELSE SettledBook(t, p, outcome) = book[t]
    <2>1. t \in OpenOn(book, p) <=> book[t].status = "open" /\ book[t].poll = p
        BY DEF OpenOn
    <2>2. book[t] \in Books /\ book[t].amount \in Nat /\ book[t].payout \in Nat
        BY TypesSplit DEF Books
    <2>3. NoBook \in Books /\ Paid \in Books /\ Paid.status = "done"
        BY DEF NoBook, Paid, Books
    <2>4. ASSUME NEW n \in Nat
          PROVE  LET due == [NoBook EXCEPT !.status = "due", !.poll = p, !.payout = n] IN
                 due \in Books /\ due.status = "due" /\ due.payout = n
        BY <2>3 DEF Books
    <2>5. CASE ~(book[t].status = "open" /\ book[t].poll = p)
        BY <2>1, <2>2, <2>5 DEF SettledBook
    <2>6. CASE book[t].status = "open" /\ book[t].poll = p /\ outcome = "cancelled"
        <3>1. SettledBook(t, p, outcome)
                  = [NoBook EXCEPT !.status = "due", !.poll = p, !.payout = book[t].amount]
            BY <2>1, <2>6 DEF SettledBook
        <3>2. Outcome(book, p, outcome)[t] = book[t].amount
            BY <2>6 DEF Outcome, RefundOf
        <3>3. /\ SettledBook(t, p, outcome) \in Books
              /\ SettledBook(t, p, outcome).status = "due"
              /\ SettledBook(t, p, outcome).payout = book[t].amount
            BY <2>2, <2>4, <3>1
        <3> QED  BY <2>6, <3>2, <3>3
    <2>7. CASE book[t].status = "open" /\ book[t].poll = p /\ outcome # "cancelled"
               /\ outcome = book[t].side
        <3>1. SettledBook(t, p, outcome)
                  = [NoBook EXCEPT !.status = "due", !.poll = p, !.payout = book[t].payout]
            BY <2>1, <2>7 DEF SettledBook
        <3>2. Outcome(book, p, outcome)[t] = book[t].payout
            BY <2>7 DEF Outcome, SideOf
        <3>3. /\ SettledBook(t, p, outcome) \in Books
              /\ SettledBook(t, p, outcome).status = "due"
              /\ SettledBook(t, p, outcome).payout = book[t].payout
            BY <2>2, <2>4, <3>1
        <3> QED  BY <2>7, <3>2, <3>3
    <2>8. CASE book[t].status = "open" /\ book[t].poll = p /\ outcome # "cancelled"
               /\ outcome # book[t].side
        BY <2>1, <2>3, <2>8 DEF SettledBook
    <2> QED  BY <2>5, <2>6, <2>7, <2>8
<1> QED  BY <1>1, <1>2

LEMMA RetryRecorded ==
    ASSUME RecordSettlementPayoutRetry
    PROVE  /\ operation.pc = "record" /\ operation.kind = "retry" /\ operation' = Idle
           /\ UNCHANGED <<book, settled, balance, moving, delivered, unseen>>
BY DEF RecordSettlementPayoutRetry, Does

\* The steps that read a payout, or write what is known of it.
OnlyRecords ==
    \/ \E t \in Trades : ReservePayout(t) \/ RecordPayout(t)
    \/ \E p \in Polls : ReconcileSettlementPayout(p)

Stays == UNCHANGED <<book, settled, balance, moving, delivered, operation, unseen>>

LEMMA RecordsOnly == OnlyRecords \/ UNCHANGED collateralVars => Stays
BY DEF OnlyRecords, Stays, ReservePayout, RecordPayout, ReconcileSettlementPayout,
       collateralVars

\* What is recorded is of trades, and only what is due is read for a claim.
LEMMA RecordsStep ==
    ASSUME CollateralTypeOK, [CollateralNext]_collateralVars
    PROVE  RecordsTyped' /\ claims' \subseteq claims \cup Due
<1>0. /\ onRecord \subseteq Trades /\ claims \subseteq Trades
      /\ firstPaid \in [Polls -> Trades \cup {NoTrade}]
      /\ operation \in Operations /\ Due \subseteq Trades
    BY DEF CollateralTypeOK, Operations, Due
<1>1. ASSUME UNCHANGED <<onRecord, firstPaid>>, claims' \subseteq claims \cup Due
      PROVE  RecordsTyped' /\ claims' \subseteq claims \cup Due
    BY <1>0, <1>1 DEF RecordsTyped
<1>2. ASSUME NEW p, NEW first, WriteStatus(p, first)
      PROVE  onRecord' \subseteq Trades
    BY <1>0, <1>2 DEF WriteStatus, Payable
<1>3. /\ \A p, side, amount, payout : CollateralizeQuote(p, side, amount, payout) =>
            UNCHANGED <<onRecord, firstPaid, claims>>
      /\ RecordTrade => UNCHANGED <<onRecord, firstPaid, claims>>
      /\ \A amounts : SendWalletTokens(amounts) => UNCHANGED <<onRecord, firstPaid, claims>>
      /\ \A p : RetrySettlementPayout(p) => UNCHANGED <<onRecord, firstPaid, claims>>
      /\ \A t, shares, amount, proceeds : CashOut(t, shares, amount, proceeds) =>
            UNCHANGED <<onRecord, firstPaid, claims>>
    BY ZenonT(40) DEF CollateralizeQuote, RecordTrade, SendWalletTokens,
       RetrySettlementPayout, SendPayouts, CashOut, Checked, recordVars
<1>4. /\ TransferToken => UNCHANGED <<onRecord, firstPaid, claims>>
      /\ OperationFails => UNCHANGED <<onRecord, firstPaid, claims>>
      /\ \A held : AdminUpdateWalletTokenContract(held) =>
            UNCHANGED <<onRecord, firstPaid, claims>>
      /\ \A p, outcome : SettlePollTrades(p, outcome) =>
            UNCHANGED <<onRecord, firstPaid, claims>>
      /\ PaymentMined => UNCHANGED <<onRecord, firstPaid, claims>>
      /\ \A amount : Deposit(amount) => UNCHANGED <<onRecord, firstPaid, claims>>
      /\ UNCHANGED collateralVars => UNCHANGED <<onRecord, firstPaid, claims>>
    BY DEF TransferToken, OperationFails, AdminUpdateWalletTokenContract, SettlePollTrades,
       PaymentMined, Deposit, collateralVars, recordVars
<1>5. ASSUME NEW t \in Trades, SendClaim(t)
      PROVE  UNCHANGED <<onRecord, firstPaid>> /\ claims' \subseteq claims \cup Due
    BY <1>5 DEF SendClaim, SendPayouts, Checked, recordVars
<1>6. ASSUME NEW t \in Trades, ReservePayout(t)
      PROVE  UNCHANGED <<onRecord, firstPaid>> /\ claims' \subseteq claims \cup Due
    BY <1>6 DEF ReservePayout, recordVars
<1>7. ASSUME NEW t \in Trades, RecordPayout(t)
      PROVE  RecordsTyped' /\ claims' \subseteq claims \cup Due
    BY <1>0, <1>7 DEF RecordPayout, RecordsTyped
<1>8. ASSUME NEW p \in Polls, ReconcileSettlementPayout(p)
      PROVE  RecordsTyped' /\ claims' \subseteq claims \cup Due
    BY <1>0, <1>2, <1>8 DEF ReconcileSettlementPayout, RecordsTyped
<1>9. CASE RecordSettlementPayoutRetry
    <2>1. operation.trade \in Trades \cup {NoTrade}
        BY <1>0 DEF Operations
    <2>2. /\ firstPaid' = [firstPaid EXCEPT ![operation.of] = operation.trade]
          /\ WriteStatus(operation.of, operation.trade) /\ claims' = claims
        BY <1>9 DEF RecordSettlementPayoutRetry
    <2>3. firstPaid' \in [Polls -> Trades \cup {NoTrade}]
        BY <1>0, <2>1, <2>2
    <2>4. onRecord' \subseteq Trades
        BY <1>2, <2>2
    <2> QED  BY <1>0, <2>2, <2>3, <2>4 DEF RecordsTyped
<1>10. CASE RecordCashout
    <2>1. /\ claims' = claims /\ firstPaid' = firstPaid
          /\ onRecord' \subseteq onRecord \cup delivered
        BY <1>10 DEF RecordCashout
    <2>2. delivered \subseteq Trades
        BY DEF CollateralTypeOK
    <2> QED  BY <1>0, <2>1, <2>2 DEF RecordsTyped
<1> QED  BY <1>1, <1>3, <1>4, <1>5, <1>6, <1>7, <1>8, <1>9, <1>10 DEF CollateralNext

\* The trade of an operation that records one.
LEMMA RecordsTrade ==
    ASSUME CollateralTypeOK, OperationKnows, RecordTrade
    PROVE  /\ operation.pc = "create" /\ operation.next.poll \notin settled
           /\ operation.trade \in Trades /\ book[operation.trade].status = "none"
           /\ book' = [book EXCEPT ![operation.trade] = operation.next]
           /\ book' \in [Trades -> Books]
           /\ operation' = Idle /\ unseen' = operation.gap
           /\ UNCHANGED <<settled, balance, moving, delivered>>
<1>1. book \in [Trades -> Books] /\ operation.next \in Books
    BY TypesSplit DEF Operations
<1> QED  BY <1>1 DEF RecordTrade, OperationKnows, Does

LEMMA Mines ==
    ASSUME CollateralTypeOK, PaymentMined
    PROVE  \E x \in Payments, n \in Nat :
              /\ x = Head(moving) /\ n = Len(moving') /\ Len(moving) = n + 1
              /\ moving' = Tail(moving) /\ moving' \in Seq(Payments)
              /\ moving[1] = x /\ \A i \in 1 .. n : moving'[i] = moving[i + 1]
              /\ Moving = x.amount + Moving' /\ Moving' \in Nat /\ Moving \in Nat
              /\ \/ /\ x.amount <= balance /\ balance' = balance - x.amount
                    /\ delivered' = delivered \cup ({x.pays} \ {NoTrade})
                 \/ balance' = balance /\ delivered' = delivered
              /\ UNCHANGED <<book, settled, operation, unseen>>
<1>1. moving \in Seq(Payments) /\ moving # <<>> /\ moving' = Tail(moving)
    BY TypesSplit DEF PaymentMined
<1>2. /\ Head(moving) \in Payments /\ Tail(moving) \in Seq(Payments)
      /\ Len(Tail(moving)) \in Nat /\ Len(moving) = Len(Tail(moving)) + 1
      /\ moving[1] = Head(moving)
      /\ \A i \in 1 .. Len(Tail(moving)) : Tail(moving)[i] = moving[i + 1]
    BY <1>1
<1>3. moving \in Seq(Queued)
    BY <1>1, PaymentsQueued
<1>4. /\ MovingIn(moving) = Head(moving).amount + MovingIn(Tail(moving))
      /\ MovingIn(Tail(moving)) \in Nat
    BY <1>1, <1>3, MovingLess
<1>5. /\ Moving = Head(moving).amount + Moving' /\ Moving' \in Nat /\ Moving \in Nat
    BY <1>1, <1>4, MovingNow, MovingTyped
<1>6. balance \in Nat /\ Head(moving).amount \in Nat
    BY <1>2, MovingTyped, PaymentsQueued
<1>7. /\ \/ /\ Head(moving).amount <= balance
            /\ balance' = balance - Head(moving).amount
            /\ delivered' = delivered \cup ({Head(moving).pays} \ {NoTrade})
         \/ balance' = balance /\ delivered' = delivered
      /\ UNCHANGED <<book, settled, operation, unseen>>
    BY <1>6 DEF PaymentMined
<1> QED  BY <1>1, <1>2, <1>5, <1>7

LEMMA Fails ==
    ASSUME CollateralTypeOK, OperationFails
    PROVE  /\ operation # Idle /\ operation' = Idle
           /\ \/ operation.kind = "cashout" /\ operation.pc = "record" /\ Forget(moving)
              \/ /\ ~(operation.kind = "cashout" /\ operation.pc = "record")
                 /\ UNCHANGED <<moving, delivered>>
           /\ UNCHANGED <<book, settled, balance, unseen>>
BY DEF OperationFails, Does

----------------------------------------------------------------------------
(* The state stays of its type, and the operation knows its trades *)

LEMMA CoreTypeStep ==
    ASSUME CollateralTypeOK, OperationKnows, CashoutKnows, BooksKnown,
           [CollateralNext]_collateralVars
    PROVE  CoreTyped'
<1>0. /\ book \in [Trades -> Books] /\ settled \subseteq Polls /\ balance \in Amounts
      /\ moving \in Seq(Payments) /\ Len(moving) <= MaxMoving
      /\ delivered \subseteq Trades /\ operation \in Operations /\ unseen \in Nat
    BY TypesSplit
<1>k. Idle \in Operations /\ operation.gap \in Nat /\ operation.release \in Nat
    BY <1>0, IdleTyped DEF Operations
<1>m. Len(moving) \in Nat /\ MaxMoving \in Nat
    BY <1>0, CollateralAssumption
<1>1. ASSUME NEW p \in Polls, NEW side \in {"yes", "no"}, NEW amount \in Stakes,
             NEW payout \in Returns, CollateralizeQuote(p, side, amount, payout)
      PROVE  CoreTyped'
    BY <1>0, <1>1, StartsTrade, TypesSplit
<1>2. CASE RecordTrade
    BY <1>0, <1>2, <1>k, RecordsTrade, TypesSplit
<1>3. ASSUME NEW amounts \in Spends, SendWalletTokens(amounts)
      PROVE  CoreTyped'
    BY <1>0, <1>3, StartsSpend, TypesSplit
<1>4. ASSUME NEW kind \in {"claim", "retry"}, NEW p \in Polls \cup {NoTrade},
             NEW ts \in SUBSET Due, SendPayouts(kind, p, ts)
      PROVE  CoreTyped'
    BY <1>0, <1>4, StartsPayouts, TypesSplit
<1>5. ASSUME NEW t \in Trades, NEW shares \in 1 .. book[t].payout,
             NEW amount \in 1 .. book[t].amount, NEW proceeds \in 1 .. shares,
             CashOut(t, shares, amount, proceeds)
      PROVE  CoreTyped'
    BY <1>0, <1>5, StartsCashout, TypesSplit
<1>6. CASE TransferToken
    <2>1. PICK x \in operation.left :
             /\ unseen' = operation.gap + operation.release
             /\ Append(moving, x) \in Seq(Payments) /\ Len(moving) < MaxMoving
             /\ UNCHANGED <<book, settled, balance>>
             /\ operation' \in Operations
             /\ \/ moving' = Append(moving, x) /\ delivered' = delivered
                \/ Forget(Append(moving, x))
        BY <1>6, <1>k, TransferSums
    <2>2. Len(Append(moving, x)) = Len(moving) + 1
        BY <1>0, <2>1
    <2>3. Len(Append(moving, x)) <= MaxMoving
        BY <1>m, <2>1, <2>2
    <2>4. CASE moving' = Append(moving, x) /\ delivered' = delivered
        BY <1>0, <1>k, <2>1, <2>3, <2>4, TypesSplit
    <2>5. CASE Forget(Append(moving, x))
        <3>1. moving' \in Seq(Payments) /\ Len(moving') <= MaxMoving /\ delivered' \subseteq Trades
            BY <1>0, <2>1, <2>3, <2>5, Forgets
        <3> QED  BY <1>0, <1>k, <2>1, <3>1, TypesSplit
    <2> QED  BY <2>1, <2>4, <2>5
<1>7. CASE RecordSettlementPayoutRetry
    BY <1>0, <1>7, <1>k, RetryRecorded, TypesSplit
<1>8. CASE RecordCashout
    BY <1>0, <1>8, <1>k, RecordsCashout, TypesSplit
<1>9. CASE OperationFails
    <2>1. moving' \in Seq(Payments) /\ Len(moving') <= MaxMoving /\ delivered' \subseteq Trades
        BY <1>0, <1>9, Fails, Forgets
    <2> QED  BY <1>0, <1>9, <1>k, <2>1, Fails, TypesSplit
<1>10. ASSUME NEW held \in Amounts, AdminUpdateWalletTokenContract(held)
       PROVE  CoreTyped'
    <2>1. <<>> \in Seq(Payments) /\ Len(<<>>) = 0
        OBVIOUS
    <2>2. Payout(book, onRecord \ delivered) \in Nat
        <3>1. onRecord \in SUBSET Trades
            BY TypesSplit
        <3> QED  BY <1>0, <3>1, OwedMissed
    <2> QED  BY <1>0, <1>10, <1>m, <2>1, <2>2, TypesSplit DEF AdminUpdateWalletTokenContract
<1>11. ASSUME NEW p \in Polls, NEW outcome \in {"yes", "no", "cancelled"},
              SettlePollTrades(p, outcome)
       PROVE  CoreTyped'
    BY <1>0, <1>11, Settles, TypesSplit
<1>12. CASE PaymentMined
    <2>1. PICK x \in Payments, n \in Nat :
             /\ n = Len(moving') /\ Len(moving) = n + 1 /\ moving' \in Seq(Payments)
             /\ \/ /\ x.amount <= balance /\ balance' = balance - x.amount
                   /\ delivered' = delivered \cup ({x.pays} \ {NoTrade})
                \/ balance' = balance /\ delivered' = delivered
             /\ UNCHANGED <<book, settled, operation, unseen>>
        BY <1>12, Mines
    <2>2. Len(moving') <= MaxMoving
        BY <1>0, <1>m, <2>1
    <2>3. delivered' \subseteq Trades
        <3>1. x.pays \in Trades \cup {NoTrade}
            BY DEF Payments
        <3> QED  BY <1>0, <2>1, <3>1
    <2>4. balance' \in Amounts
        <3>1. x.amount \in Nat /\ balance \in Nat /\ balance <= MaxBalance
            BY <1>0, PaymentsQueued DEF Amounts
        <3> QED  BY <1>0, <2>1, <3>1, CollateralAssumption DEF Amounts
    <2> QED  BY <1>0, <2>1, <2>2, <2>3, <2>4, TypesSplit
<1>13. ASSUME NEW amount \in Stakes, Deposit(amount)
       PROVE  CoreTyped'
    <2>1. balance + amount \in Amounts
        BY <1>0, <1>13, CollateralAssumption DEF Amounts, Deposit
    <2> QED  BY <1>0, <1>13, <2>1, TypesSplit DEF Deposit
<1>14. CASE OnlyRecords \/ UNCHANGED collateralVars
    BY <1>0, <1>14, RecordsOnly, TypesSplit DEF Stays
<1>15. ASSUME NEW t \in Trades, SendClaim(t)
       PROVE  CoreTyped'
    BY <1>4, <1>15, PaysDue
<1>16. ASSUME NEW p \in Polls, RetrySettlementPayout(p)
       PROVE  CoreTyped'
    BY <1>4, <1>16, PaysDue
<1> QED  BY <1>1, <1>2, <1>3, <1>5, <1>6, <1>7, <1>8, <1>9, <1>10, <1>11, <1>12, <1>13,
            <1>14, <1>15, <1>16 DEF CollateralNext, OnlyRecords

LEMMA CollateralTypeStep ==
    ASSUME CollateralTypeOK, OperationKnows, CashoutKnows, BooksKnown,
           [CollateralNext]_collateralVars
    PROVE  CollateralTypeOK'
BY CoreTypeStep, RecordsStep, TypesSplit

\* At rest the operation knows nothing.
LEMMA IdleKnows ==
    /\ operation = Idle => OperationKnows /\ CashoutKnows
    /\ operation' = Idle => OperationKnows' /\ CashoutKnows'
BY IdleTyped, FS_EmptySet DEF OperationKnows, CashoutKnows

\* While an operation goes on, trades settle and are reconciled.
LEMMA KnowsOn ==
    ASSUME CollateralTypeOK, OperationKnows, CashoutKnows, operation' = operation,
           \A t \in Trades :
              /\ book[t].status = "none" => book'[t].status = "none"
              /\ book[t].status # "none" => book'[t].status # "none"
              /\ book'[t].status = "open" => book'[t] = book[t]
    PROVE  OperationKnows' /\ CashoutKnows'
BY DEF OperationKnows, CashoutKnows

LEMMA KnowsStep ==
    ASSUME CollateralTypeOK, OperationKnows, CashoutKnows, BooksKnown,
           [CollateralNext]_collateralVars
    PROVE  OperationKnows' /\ CashoutKnows'
<1>1. ASSUME NEW p \in Polls, NEW side \in {"yes", "no"}, NEW amount \in Stakes,
             NEW payout \in Returns, CollateralizeQuote(p, side, amount, payout)
      PROVE  OperationKnows' /\ CashoutKnows'
    BY <1>1, StartsTrade, FS_EmptySet DEF OperationKnows, CashoutKnows
<1>2. CASE RecordTrade
    BY <1>2, RecordsTrade, IdleKnows
<1>3. ASSUME NEW amounts \in Spends, SendWalletTokens(amounts)
      PROVE  OperationKnows' /\ CashoutKnows'
    BY <1>3, StartsSpend DEF OperationKnows, CashoutKnows
<1>4. ASSUME NEW kind \in {"claim", "retry"}, NEW p \in Polls \cup {NoTrade},
             NEW ts \in SUBSET Due, SendPayouts(kind, p, ts)
      PROVE  OperationKnows' /\ CashoutKnows'
    BY <1>4, StartsPayouts DEF OperationKnows, CashoutKnows
<1>5. ASSUME NEW t \in Trades, NEW shares \in 1 .. book[t].payout,
             NEW amount \in 1 .. book[t].amount, NEW proceeds \in 1 .. shares,
             CashOut(t, shares, amount, proceeds)
      PROVE  OperationKnows' /\ CashoutKnows'
    BY <1>5, StartsCashout DEF OperationKnows, CashoutKnows
<1>6. CASE TransferToken
    <2>1. PICK x \in operation.left :
             /\ operation.pc = "send" /\ book' = book
             /\ \/ operation' = Idle
                \/ /\ operation'.left = operation.left \ {x}
                   /\ operation'.pc = IF operation.left \ {x} = {} THEN "record" ELSE "send"
                   /\ operation.left \ {x} = {} => operation.kind \notin {"spend", "claim"}
                   /\ operation'.trade = IF operation.trade = NoTrade THEN x.pays
                                         ELSE operation.trade
                   /\ operation'.kind = operation.kind /\ operation'.spare = operation.spare
                   /\ operation'.next = operation.next /\ operation'.paid = operation.paid
                   /\ operation'.release = operation.release
        BY <1>6, TransferSums
    <2>2. CASE operation' = Idle
        BY <2>2, IdleKnows
    <2>3. CASE operation' # Idle
        <3>1. IsFiniteSet(operation.left \ {x}) /\ NoTrade \notin Trades
            BY FS_Subset, CollateralAssumption DEF OperationKnows
        <3>2. OperationKnows'
            BY <2>1, <2>3, <3>1 DEF OperationKnows
        <3>3. CashoutKnows'
            <4> SUFFICES ASSUME operation.kind = "cashout" PROVE CashoutKnows'
                BY <2>1, <2>3 DEF CashoutKnows
            <4>1. /\ operation.trade \in Trades /\ operation.left \ {x} = {}
                BY <2>1 DEF CashoutKnows
            <4>2. operation'.trade = operation.trade /\ operation'.pc = "record"
                BY <2>1, <2>3, <3>1, <4>1
            <4> QED  BY <2>1, <2>3, <4>2 DEF CashoutKnows
        <3> QED  BY <3>2, <3>3
    <2> QED  BY <2>2, <2>3
<1>7. CASE RecordSettlementPayoutRetry
    BY <1>7, RetryRecorded, IdleKnows
<1>8. CASE RecordCashout
    BY <1>8, RecordsCashout, IdleKnows
<1>9. CASE OperationFails
    BY <1>9, Fails, IdleKnows
<1>10. ASSUME NEW held \in Amounts, AdminUpdateWalletTokenContract(held)
       PROVE  OperationKnows' /\ CashoutKnows'
    BY <1>10, KnowsOn DEF AdminUpdateWalletTokenContract
<1>11. ASSUME NEW p \in Polls, NEW outcome \in {"yes", "no", "cancelled"},
              SettlePollTrades(p, outcome)
       PROVE  OperationKnows' /\ CashoutKnows'
    <2>1. operation' = operation
          /\ \A t \in Trades :
                /\ book[t].status = "none" => book'[t].status = "none"
                /\ book[t].status # "none" => book'[t].status # "none"
                /\ book'[t].status = "open" => book'[t] = book[t]
        BY <1>11, Settles
    <2> QED  BY <2>1, KnowsOn
<1>12. CASE PaymentMined
    BY <1>12, KnowsOn DEF PaymentMined
<1>13. ASSUME NEW amount \in Stakes, Deposit(amount)
       PROVE  OperationKnows' /\ CashoutKnows'
    BY <1>13, KnowsOn DEF Deposit
<1>14. CASE OnlyRecords \/ UNCHANGED collateralVars
    BY <1>14, RecordsOnly, KnowsOn DEF Stays
<1>15. ASSUME NEW t \in Trades, SendClaim(t)
       PROVE  OperationKnows' /\ CashoutKnows'
    BY <1>4, <1>15, PaysDue
<1>16. ASSUME NEW p \in Polls, RetrySettlementPayout(p)
       PROVE  OperationKnows' /\ CashoutKnows'
    BY <1>4, <1>16, PaysDue
<1> QED  BY <1>1, <1>2, <1>3, <1>5, <1>6, <1>7, <1>8, <1>9, <1>10, <1>11, <1>12, <1>13,
            <1>14, <1>15, <1>16 DEF CollateralNext, OnlyRecords

\* An open trade keeps its poll, a new one has one, and what is due stays due.
LEMMA BooksStep ==
    ASSUME CollateralTypeOK, OperationKnows, CashoutKnows, BooksKnown,
           [CollateralNext]_collateralVars
    PROVE  BooksKnown'
<1>0. book \in [Trades -> Books]
    BY TypesSplit
<1>1. ASSUME \A t \in Trades : book'[t].status = "open" => book'[t] = book[t],
             \A t \in Trades : book[t].status = "due" => book'[t].status = "due"
      PROVE  BooksKnown'
    <2>1. \A t \in Trades : t \in Due => t \in Due'
        BY <1>1 DEF Due
    <2>2. claims' \subseteq Due'
        BY <2>1, RecordsStep DEF BooksKnown, Due
    <2> QED  BY <1>1, <2>2 DEF BooksKnown
<1>2. CASE RecordTrade
    <2>1. operation.next.poll \in Polls
        BY <1>2, RecordsTrade DEF OperationKnows
    <2>2. \A t \in Trades : book'[t] = book[t] \/ book'[t] = operation.next
        BY <1>0, <1>2, RecordsTrade
    <2>3. \A t \in Trades : t \in Due => t \in Due'
        BY <1>0, <1>2, RecordsTrade DEF Due
    <2>4. claims' \subseteq Due'
        BY <2>3, RecordsStep DEF BooksKnown, Due
    <2> QED  BY <2>1, <2>2, <2>4 DEF BooksKnown
<1>3. CASE RecordCashout
    <2>1. \A t \in Trades : book'[t].status = "open" => book'[t].poll \in Polls
        BY <1>3, RecordsCashout DEF BooksKnown
    <2>2. \A t \in Trades : t \in Due => t \in Due'
        <3>1. operation.kind = "cashout" /\ book[operation.trade].status = "open"
            BY <1>3 DEF RecordCashout
        <3>2. operation.spare # operation.trade => book[operation.spare].status = "none"
            BY <3>1 DEF CashoutKnows
        <3>3. \A t \in Trades : t # operation.trade /\ t # operation.spare => book'[t] = book[t]
            BY <1>3, RecordsCashout
        <3> QED  BY <3>1, <3>2, <3>3 DEF Due
    <2>3. claims' \subseteq Due'
        BY <2>2, RecordsStep DEF BooksKnown, Due
    <2> QED  BY <2>1, <2>3 DEF BooksKnown
<1>4. ASSUME ~RecordTrade, ~RecordCashout
      PROVE  /\ \A t \in Trades : book'[t].status = "open" => book'[t] = book[t]
             /\ \A t \in Trades : book[t].status = "due" => book'[t].status = "due"
    <2>1. ASSUME NEW p \in Polls, NEW outcome \in {"yes", "no", "cancelled"},
                 SettlePollTrades(p, outcome)
          PROVE  /\ \A t \in Trades : book'[t].status = "open" => book'[t] = book[t]
                 /\ \A t \in Trades : book[t].status = "due" => book'[t].status = "due"
        BY <2>1, Settles
    <2>2. CASE book' = book
        BY <2>2
    <2>3. /\ \A p, side, amount, payout :
                CollateralizeQuote(p, side, amount, payout) => book' = book
          /\ \A amounts : SendWalletTokens(amounts) => book' = book
          /\ \A t : SendClaim(t) => book' = book
          /\ \A p : RetrySettlementPayout(p) => book' = book
          /\ \A t, shares, amount, proceeds :
                CashOut(t, shares, amount, proceeds) => book' = book
        BY ZenonT(40) DEF CollateralizeQuote, SendWalletTokens, SendClaim,
           RetrySettlementPayout, SendPayouts, CashOut, Checked
    <2>4. /\ TransferToken => book' = book
          /\ RecordSettlementPayoutRetry => book' = book
          /\ OperationFails => book' = book
          /\ \A held : AdminUpdateWalletTokenContract(held) => book' = book
          /\ PaymentMined => book' = book
          /\ \A amount : Deposit(amount) => book' = book
        BY DEF TransferToken, RecordSettlementPayoutRetry, OperationFails,
               AdminUpdateWalletTokenContract, PaymentMined, Deposit
    <2>5. OnlyRecords \/ UNCHANGED collateralVars => book' = book
        BY RecordsOnly DEF Stays
    <2> QED  BY <1>4, <2>1, <2>2, <2>3, <2>4, <2>5 DEF CollateralNext, OnlyRecords
<1> QED  BY <1>1, <1>2, <1>3, <1>4

----------------------------------------------------------------------------
(* The payments are what is due *)

LEMMA LeftBy ==
    /\ \A t : t \in Left <=> t \in delivered \/ \E i \in DOMAIN moving : moving[i].pays = t
    /\ \A t : t \in Left' <=> t \in delivered' \/ \E i \in DOMAIN moving' : moving'[i].pays = t
BY DEF Left

\* A payment is accepted.
LEMMA LeftMore ==
    ASSUME NEW x \in Payments, moving \in Seq(Payments), moving' = Append(moving, x),
           delivered' = delivered
    PROVE  /\ Left' = Left \cup {x.pays}
           /\ \A i \in DOMAIN moving' :
                 \/ moving'[i] = x
                 \/ i \in DOMAIN moving /\ moving'[i] = moving[i]
<1> DEFINE n == Len(moving)
<1>1. /\ DOMAIN moving = 1 .. n /\ DOMAIN moving' = 1 .. (n + 1) /\ n \in Nat
      /\ moving'[n + 1] = x /\ \A i \in 1 .. n : moving'[i] = moving[i]
    OBVIOUS
<1> HIDE DEF n
<1>2. \A i \in 1 .. (n + 1) : i \in 1 .. n \/ i = n + 1
    BY <1>1
<1>3. \A i \in 1 .. n : i \in 1 .. (n + 1)
    BY <1>1
<1>4. n + 1 \in 1 .. (n + 1)
    BY <1>1
<1> QED  BY <1>1, <1>2, <1>3, <1>4, LeftBy

\* A cashout is forgotten.
LEMMA LeftForgotten ==
    ASSUME NEW x \in Payments, moving \in Seq(Payments), delivered \subseteq Trades,
           operation.spare \in Trades,
           \/ Forget(moving)
           \/ x.pays = operation.spare /\ Forget(Append(moving, x))
    PROVE  /\ \A t \in Trades : t \in Left' <=> t \in Left /\ t # operation.spare
           /\ \A i \in DOMAIN moving' :
                 \/ moving'[i].pays \notin Trades
                 \/ /\ i \in DOMAIN moving /\ moving'[i].pays = moving[i].pays
                    /\ moving'[i].amount = moving[i].amount
                    /\ moving[i].pays # operation.spare
<1>0. NoTrade \notin Trades
    BY CollateralAssumption
<1>1. CASE Forget(moving)
    <2>1. /\ DOMAIN moving = DOMAIN moving' /\ delivered' = delivered \ {operation.spare}
          /\ \A i \in DOMAIN moving :
                /\ moving'[i].amount = moving[i].amount
                /\ moving[i].pays = operation.spare => moving'[i].pays = NoTrade
                /\ moving[i].pays # operation.spare => moving'[i].pays = moving[i].pays
        BY <1>1, Forgets
    <2> QED  BY <1>0, <2>1, LeftBy
<1>2. CASE x.pays = operation.spare /\ Forget(Append(moving, x))
    <2> DEFINE queue == Append(moving, x)
               n == Len(moving)
    <2>1. /\ DOMAIN moving = 1 .. n /\ n \in Nat /\ Len(queue) = n + 1 /\ queue \in Seq(Payments)
          /\ queue[n + 1] = x /\ \A i \in 1 .. n : queue[i] = moving[i]
        OBVIOUS
    <2>2. Forget(queue)
        BY <1>2
    <2> HIDE DEF queue, n
    <2>3. /\ DOMAIN moving' = 1 .. (n + 1) /\ delivered' = delivered \ {operation.spare}
          /\ \A i \in 1 .. (n + 1) :
                /\ moving'[i].amount = queue[i].amount
                /\ queue[i].pays = operation.spare => moving'[i].pays = NoTrade
                /\ queue[i].pays # operation.spare => moving'[i].pays = queue[i].pays
        BY <2>1, <2>2, Forgets
    <2>4. \A i \in 1 .. (n + 1) : i \in 1 .. n \/ i = n + 1
        BY <2>1
    <2>5. \A i \in 1 .. n : i \in 1 .. (n + 1)
        BY <2>1
    <2>6. n + 1 \in 1 .. (n + 1)
        BY <2>1
    <2> QED  BY <1>0, <1>2, <2>1, <2>3, <2>4, <2>5, <2>6, LeftBy
<1> QED  BY <1>1, <1>2

\* A payment is mined, or fails.
LEMMA LeftMined ==
    ASSUME CollateralTypeOK, NEW x \in Payments, NEW n \in Nat,
           moving \in Seq(Payments), moving' \in Seq(Payments),
           n = Len(moving'), Len(moving) = n + 1, moving[1] = x,
           \A i \in 1 .. n : moving'[i] = moving[i + 1],
           \/ delivered' = delivered \cup ({x.pays} \ {NoTrade})
           \/ delivered' = delivered
    PROVE  /\ \A t \in Trades : t \in Left' => t \in Left
           /\ \A t \in Trades : t \in Left => t \in Left' \/ t = x.pays
           /\ delivered' = delivered \cup ({x.pays} \ {NoTrade}) =>
                 \A t \in Trades : t \in Left => t \in Left'
           /\ \A i \in DOMAIN moving' : \E j \in DOMAIN moving : moving'[i] = moving[j]
           /\ \E j \in DOMAIN moving : moving[j] = x
<1>0. NoTrade \notin Trades
    BY CollateralAssumption
<1>1. DOMAIN moving = 1 .. (n + 1) /\ DOMAIN moving' = 1 .. n
    OBVIOUS
<1>2. /\ 1 \in 1 .. (n + 1) /\ \A i \in 1 .. n : i + 1 \in 1 .. (n + 1)
    OBVIOUS
<1>3. \A j \in 1 .. (n + 1) : j = 1 \/ \E i \in 1 .. n : j = i + 1
    <2> SUFFICES ASSUME NEW j \in 1 .. (n + 1), j # 1 PROVE \E i \in 1 .. n : j = i + 1
        OBVIOUS
    <2>1. j - 1 \in 1 .. n /\ j = (j - 1) + 1
        OBVIOUS
    <2> QED  BY <2>1
<1> DEFINE I == 1 .. n
           J == 1 .. (n + 1)
<1>4. /\ \A i \in I : \E j \in J : moving'[i] = moving[j]
      /\ \A j \in J : moving[j] = x \/ \E i \in I : moving'[i] = moving[j]
      /\ \E j \in J : moving[j] = x
    BY <1>2, <1>3
<1>5. DOMAIN moving = J /\ DOMAIN moving' = I
    BY <1>1
<1> HIDE DEF I, J
<1>6. ASSUME NEW t \in Trades
      PROVE  /\ t \in Left' => t \in Left
             /\ t \in Left => t \in Left' \/ t = x.pays
             /\ delivered' = delivered \cup ({x.pays} \ {NoTrade})
                   => (t \in Left => t \in Left')
    <2>1. /\ t \in Left <=> t \in delivered \/ \E j \in J : moving[j].pays = t
          /\ t \in Left' <=> t \in delivered' \/ \E i \in I : moving'[i].pays = t
        BY <1>5, LeftBy
    <2>2. /\ t # x.pays => (t \in delivered' <=> t \in delivered)
          /\ t \in delivered => t \in delivered'
          /\ t = x.pays /\ t \in delivered' => t \in Left
          /\ delivered' = delivered \cup ({x.pays} \ {NoTrade}) /\ t = x.pays => t \in delivered'
        BY <1>0, <1>4, <2>1
    <2>3. /\ (\E i \in I : moving'[i].pays = t) => \E j \in J : moving[j].pays = t
          /\ (\E j \in J : moving[j].pays = t) => t = x.pays \/ \E i \in I : moving'[i].pays = t
        BY <1>4
    <2> QED  BY <2>1, <2>2, <2>3
<1>7. /\ \A t \in Trades : t \in Left' => t \in Left
      /\ \A t \in Trades : t \in Left => t \in Left' \/ t = x.pays
      /\ delivered' = delivered \cup ({x.pays} \ {NoTrade}) =>
            \A t \in Trades : t \in Left => t \in Left'
    BY <1>6, Zenon
<1> QED  BY <1>4, <1>5, <1>7, Zenon

\* When no cashout is under way, all that has left settles a trade.
LEMMA PendingIs ==
    /\ operation.kind # "cashout" => Pending = {} /\ Told = Left
    /\ operation'.kind # "cashout" => Pending' = {} /\ Told' = Left'
    /\ operation.kind = "cashout" => Pending = {operation.spare}
    /\ operation'.kind = "cashout" => Pending' = {operation'.spare}
    /\ \A t : t \in Told <=> t \in Left /\ t \notin Pending
    /\ \A t : t \in Told' <=> t \in Left' /\ t \notin Pending'
BY DEF Pending, Told

LEMMA PaymentsAtRest ==
    ASSUME operation' = Idle,
           \A t \in Trades : t \in Left' => book'[t].status \in {"due", "done"},
           \A i \in DOMAIN moving' :
              moving'[i].pays \in Trades /\ book'[moving'[i].pays].status = "due"
                 => moving'[i].amount = book'[moving'[i].pays].payout
    PROVE  PaymentsKnown'
<1>1. operation'.pc = "idle" /\ operation'.kind = "none" /\ operation'.left = {}
    BY IdleTyped
<1> QED  BY <1>1, PendingIs DEF PaymentsKnown

\* While an operation goes on, trades settle, and payments are mined.
LEMMA PaymentsOn ==
    ASSUME PaymentsKnown, operation' = operation,
           \A t \in Trades :
              /\ book[t].status = "due" => book'[t] = book[t] \/ book'[t].status = "done"
              /\ book[t].status = "done" => book'[t].status = "done",
           \A t \in Trades : t \in Left' => t \in Left,
           \A i \in DOMAIN moving' : \E j \in DOMAIN moving : moving'[i] = moving[j],
           Pending \subseteq Trades
    PROVE  PaymentsKnown'
<1>1. Pending' = Pending
    BY DEF Pending
<1>2. \A t \in Trades : t \in Told' => book'[t].status \in {"due", "done"}
    BY <1>1, PendingIs DEF PaymentsKnown
<1>3. operation'.pc = "send" => Pending' \cap Left' = {}
    BY <1>1 DEF PaymentsKnown
<1>4. ASSUME NEW i \in DOMAIN moving'
      PROVE  /\ moving'[i].pays \in Pending' => moving'[i].amount = operation'.paid
             /\ moving'[i].pays \in Trades \ Pending' /\ book'[moving'[i].pays].status = "due"
                   => moving'[i].amount = book'[moving'[i].pays].payout
    <2>1. PICK j \in DOMAIN moving : moving'[i] = moving[j]
        OBVIOUS
    <2>2. moving[j].pays \in Pending => moving[j].amount = operation.paid
        BY DEF PaymentsKnown
    <2>3. ASSUME moving[j].pays \in Trades \ Pending, book'[moving[j].pays].status = "due"
          PROVE  moving[j].amount = book'[moving[j].pays].payout
        <3>1. moving[j].pays \in Left
            BY LeftBy
        <3>2. book[moving[j].pays].status \in {"due", "done"}
            BY <2>3, <3>1, PendingIs DEF PaymentsKnown
        <3>3. book'[moving[j].pays] = book[moving[j].pays]
            BY <2>3, <3>2
        <3> QED  BY <2>3, <3>3 DEF PaymentsKnown
    <2> QED  BY <1>1, <2>1, <2>2, <2>3
<1>5. operation'.kind \in {"claim", "retry"} =>
         \A x \in operation'.left :
            /\ x.pays \in Trades /\ book'[x.pays].status \in {"due", "done"}
            /\ book'[x.pays].status = "due" => x.amount = book'[x.pays].payout
    BY DEF PaymentsKnown
<1>6. operation'.kind = "spend" => \A x \in operation'.left : x.pays = NoTrade
    BY DEF PaymentsKnown
<1> QED  BY <1>2, <1>3, <1>4, <1>5, <1>6 DEF PaymentsKnown

\* An operation starts, and nothing leaves yet.
LEMMA PaymentsStart ==
    ASSUME CollateralTypeOK, PaymentsKnown, operation = Idle,
           UNCHANGED <<book, moving, delivered>>,
           operation'.kind = "cashout" =>
              operation'.spare \in Trades /\ book[operation'.spare].status \in {"none", "open"},
           operation'.kind \in {"claim", "retry"} =>
              \A x \in operation'.left :
                 x.pays \in Trades /\ book[x.pays].status = "due" /\ x.amount = book[x.pays].payout,
           operation'.kind = "spend" => \A x \in operation'.left : x.pays = NoTrade
    PROVE  PaymentsKnown'
<1>1. Left' = Left
    BY DEF Left
<1>2. Pending = {} /\ Told = Left
    BY PendingIs, IdleTyped
<1>3. Pending' \cap Left = {} /\ Pending' \subseteq Trades
    BY <1>2, PendingIs DEF PaymentsKnown
<1>4. Told' = Left
    BY <1>1, <1>3 DEF Told
<1>5. \A i \in DOMAIN moving : moving[i].pays \in Left
    BY LeftBy
<1>6. \A i \in DOMAIN moving :
         moving[i].pays \in Trades /\ book[moving[i].pays].status = "due"
            => moving[i].amount = book[moving[i].pays].payout
    BY <1>2 DEF PaymentsKnown
<1>7. \A i \in DOMAIN moving' :
         /\ moving'[i].pays \in Pending' => moving'[i].amount = operation'.paid
         /\ moving'[i].pays \in Trades \ Pending' /\ book'[moving'[i].pays].status = "due"
               => moving'[i].amount = book'[moving'[i].pays].payout
    BY <1>3, <1>5, <1>6
<1>8. \A t \in Trades : t \in Told' => book'[t].status \in {"due", "done"}
    BY <1>2, <1>4 DEF PaymentsKnown
<1> QED  BY <1>1, <1>3, <1>7, <1>8 DEF PaymentsKnown

LEMMA PaymentsTransfer ==
    ASSUME CollateralTypeOK, OperationKnows, CashoutKnows, PaymentsKnown, TransferToken
    PROVE  PaymentsKnown'
<1>0. /\ moving \in Seq(Payments) /\ delivered \subseteq Trades /\ NoTrade \notin Trades
      /\ Left' = delivered' \cup {moving'[i].pays : i \in DOMAIN moving'}
    BY TypesSplit, CollateralAssumption DEF Left
<1>1. PICK x \in operation.left :
         /\ operation.pc = "send" /\ x \in Payments /\ book' = book
         /\ \/ /\ operation.left \ {x} = {} /\ operation.kind \in {"spend", "claim"}
               /\ operation' = Idle
               /\ moving' = Append(moving, x) /\ delivered' = delivered
            \/ /\ operation'.left = operation.left \ {x}
               /\ operation'.pc = IF operation.left \ {x} = {} THEN "record" ELSE "send"
               /\ operation'.kind = operation.kind /\ operation'.spare = operation.spare
               /\ operation'.paid = operation.paid
               /\ moving' = Append(moving, x) /\ delivered' = delivered
            \/ /\ operation' = Idle /\ operation.kind # "cashout"
               /\ moving' = Append(moving, x) /\ delivered' = delivered
            \/ /\ operation' = Idle /\ operation.kind = "cashout"
               /\ Forget(Append(moving, x))
    BY TransferSums
<1>2. operation.kind \in {"spend", "claim", "retry", "cashout"}
    BY <1>1 DEF OperationKnows
<1>3. /\ operation.kind = "spend" => x.pays = NoTrade
      /\ operation.kind \in {"claim", "retry"} =>
            /\ x.pays \in Trades /\ book[x.pays].status \in {"due", "done"}
            /\ book[x.pays].status = "due" => x.amount = book[x.pays].payout
      /\ operation.kind = "cashout" =>
            /\ x.pays = operation.spare /\ x.amount = operation.paid
            /\ operation.left \ {x} = {} /\ operation.spare \in Trades
    BY <1>1 DEF PaymentsKnown, CashoutKnows
<1>4. /\ \A t \in Trades : t \in Left /\ t \notin Pending => book[t].status \in {"due", "done"}
      /\ Pending \cap Left = {}
      /\ \A i \in DOMAIN moving :
            moving[i].pays \in Trades \ Pending /\ book[moving[i].pays].status = "due"
               => moving[i].amount = book[moving[i].pays].payout
    BY <1>1, PendingIs DEF PaymentsKnown
<1>5. \A i \in DOMAIN moving : moving[i].pays \in Left
    BY LeftBy
<1>6. ASSUME moving' = Append(moving, x), delivered' = delivered
      PROVE  /\ Left' = Left \cup {x.pays}
             /\ \A i \in DOMAIN moving' :
                   \/ moving'[i] = x
                   \/ i \in DOMAIN moving /\ moving'[i] = moving[i]
    BY <1>0, <1>1, <1>6, LeftMore
<1>7. CASE operation' = Idle /\ operation.kind # "cashout"
    <2>1. moving' = Append(moving, x) /\ delivered' = delivered
        BY <1>1, <1>7, <1>3, IdleTyped
    <2>2. \A t \in Trades : t \in Left' => book'[t].status \in {"due", "done"}
        BY <1>0, <1>1, <1>2, <1>3, <1>4, <1>6, <1>7, <2>1, PendingIs
    <2>3. \A i \in DOMAIN moving' :
             moving'[i].pays \in Trades /\ book'[moving'[i].pays].status = "due"
                => moving'[i].amount = book'[moving'[i].pays].payout
        BY <1>0, <1>1, <1>2, <1>3, <1>4, <1>6, <1>7, <2>1, PendingIs
    <2> QED  BY <1>7, <2>2, <2>3, PaymentsAtRest
<1>8. CASE operation' = Idle /\ operation.kind = "cashout"
    <2>1. x.pays = operation.spare /\ Forget(Append(moving, x)) /\ operation.spare \in Trades
        BY <1>1, <1>3, <1>8, IdleTyped
    <2>2. /\ \A t \in Trades : t \in Left' <=> t \in Left /\ t # operation.spare
          /\ \A i \in DOMAIN moving' :
                \/ moving'[i].pays \notin Trades
                \/ /\ i \in DOMAIN moving /\ moving'[i].pays = moving[i].pays
                   /\ moving'[i].amount = moving[i].amount
                   /\ moving[i].pays # operation.spare
        BY <1>0, <1>1, <2>1, LeftForgotten
    <2>3. \A t \in Trades : t \in Left' => book'[t].status \in {"due", "done"}
        BY <1>1, <1>4, <1>8, <2>2, PendingIs
    <2>4. \A i \in DOMAIN moving' :
             moving'[i].pays \in Trades /\ book'[moving'[i].pays].status = "due"
                => moving'[i].amount = book'[moving'[i].pays].payout
        BY <1>1, <1>4, <1>8, <2>2, PendingIs
    <2> QED  BY <1>8, <2>3, <2>4, PaymentsAtRest
<1>9. CASE operation' # Idle
    <2>1. /\ operation'.left = operation.left \ {x}
          /\ operation'.pc = IF operation.left \ {x} = {} THEN "record" ELSE "send"
          /\ operation'.kind = operation.kind /\ operation'.spare = operation.spare
          /\ operation'.paid = operation.paid
          /\ moving' = Append(moving, x) /\ delivered' = delivered
        BY <1>1, <1>9
    <2>2. /\ Left' = Left \cup {x.pays}
          /\ \A i \in DOMAIN moving' :
                \/ moving'[i] = x
                \/ i \in DOMAIN moving /\ moving'[i] = moving[i]
        BY <1>6, <2>1
    <2>3. Pending' = Pending
        BY <2>1 DEF Pending
    <2>4. \A t \in Trades : t \in Told' => book'[t].status \in {"due", "done"}
        BY <1>0, <1>1, <1>2, <1>3, <1>4, <2>2, <2>3, PendingIs
    <2>5. operation'.pc = "send" => Pending' \cap Left' = {}
        BY <1>0, <1>1, <1>2, <1>3, <1>4, <2>1, <2>2, <2>3, PendingIs
    <2>6. \A i \in DOMAIN moving' :
             moving'[i].pays \in Pending' => moving'[i].amount = operation'.paid
        BY <1>0, <1>2, <1>3, <1>4, <1>5, <2>1, <2>2, <2>3, PendingIs
    <2>7. \A i \in DOMAIN moving' :
             moving'[i].pays \in Trades \ Pending' /\ book'[moving'[i].pays].status = "due"
                => moving'[i].amount = book'[moving'[i].pays].payout
        BY <1>0, <1>1, <1>2, <1>3, <1>4, <2>2, <2>3, PendingIs
    <2>8. operation'.kind \in {"claim", "retry"} =>
             \A y \in operation'.left :
                /\ y.pays \in Trades /\ book'[y.pays].status \in {"due", "done"}
                /\ book'[y.pays].status = "due" => y.amount = book'[y.pays].payout
        BY <1>1, <2>1 DEF PaymentsKnown
    <2>9. operation'.kind = "spend" => \A y \in operation'.left : y.pays = NoTrade
        BY <2>1 DEF PaymentsKnown
    <2> QED  BY <2>4, <2>5, <2>6, <2>7, <2>8, <2>9 DEF PaymentsKnown
<1> QED  BY <1>7, <1>8, <1>9

LEMMA PaymentsStep ==
    ASSUME CollateralTypeOK, OperationKnows, CashoutKnows, BooksKnown, PaymentsKnown,
           [CollateralNext]_collateralVars
    PROVE  PaymentsKnown'
<1>0. /\ moving \in Seq(Payments) /\ delivered \subseteq Trades /\ NoTrade \notin Trades
      /\ book \in [Trades -> Books]
    BY TypesSplit, CollateralAssumption
<1>p. Pending \subseteq Trades
    BY PendingIs DEF CashoutKnows
<1>q. \A i \in DOMAIN moving : moving[i].pays \in Left
    BY LeftBy
<1>r. /\ \A t \in Trades : t \in Left /\ t \notin Pending => book[t].status \in {"due", "done"}
      /\ \A i \in DOMAIN moving :
            moving[i].pays \in Trades \ Pending /\ book[moving[i].pays].status = "due"
               => moving[i].amount = book[moving[i].pays].payout
      /\ \A i \in DOMAIN moving : moving[i].pays \in Pending => moving[i].amount = operation.paid
    BY PendingIs DEF PaymentsKnown
<1>s. UNCHANGED <<moving, delivered>> => Left' = Left
    BY DEF Left
<1>t. ASSUME UNCHANGED <<moving, delivered>>, operation' = operation,
             \A t \in Trades :
                /\ book[t].status = "due" => book'[t] = book[t] \/ book'[t].status = "done"
                /\ book[t].status = "done" => book'[t].status = "done"
      PROVE  PaymentsKnown'
    <2>1. \A i \in DOMAIN moving' : \E j \in DOMAIN moving : moving'[i] = moving[j]
        BY <1>t
    <2>2. \A t \in Trades : t \in Left' => t \in Left
        BY <1>s, <1>t
    <2> QED  BY <1>p, <1>t, <2>1, <2>2, PaymentsOn
<1>1. ASSUME NEW p \in Polls, NEW side \in {"yes", "no"}, NEW amount \in Stakes,
             NEW payout \in Returns, CollateralizeQuote(p, side, amount, payout)
      PROVE  PaymentsKnown'
    BY <1>1, StartsTrade, PaymentsStart
<1>2. CASE RecordTrade
    <2>1. /\ operation.kind = "trade" /\ book[operation.trade].status = "none"
          /\ operation.trade \in Trades /\ operation' = Idle
          /\ UNCHANGED <<moving, delivered>>
          /\ book' = [book EXCEPT ![operation.trade] = operation.next]
        BY <1>2, RecordsTrade DEF OperationKnows
    <2>2. Pending = {} /\ Left' = Left
        BY <1>s, <2>1, PendingIs
    <2>3. \A t \in Trades : t \in Left => t # operation.trade /\ book'[t] = book[t]
        BY <1>0, <1>r, <2>1, <2>2
    <2>4. \A t \in Trades : t \in Left' => book'[t].status \in {"due", "done"}
        BY <1>r, <2>2, <2>3
    <2>5. \A i \in DOMAIN moving' :
             moving'[i].pays \in Trades /\ book'[moving'[i].pays].status = "due"
                => moving'[i].amount = book'[moving'[i].pays].payout
        BY <1>q, <1>r, <2>1, <2>2, <2>3
    <2> QED  BY <2>1, <2>4, <2>5, PaymentsAtRest
<1>3. ASSUME NEW amounts \in Spends, SendWalletTokens(amounts)
      PROVE  PaymentsKnown'
    BY <1>3, StartsSpend, PaymentsStart
<1>4. ASSUME NEW kind \in {"claim", "retry"}, NEW p \in Polls \cup {NoTrade},
             NEW ts \in SUBSET Due, SendPayouts(kind, p, ts)
      PROVE  PaymentsKnown'
    <2>1. /\ operation = Idle /\ operation'.kind = kind
          /\ UNCHANGED <<book, moving, delivered>>
          /\ \A x \in operation'.left : x.pays \in Trades /\ book[x.pays].status = "due"
                                        /\ x.amount = book[x.pays].payout
        BY <1>4, StartsPayouts
    <2> QED  BY <2>1, PaymentsStart
<1>5. ASSUME NEW t \in Trades, NEW shares \in 1 .. book[t].payout,
             NEW amount \in 1 .. book[t].amount, NEW proceeds \in 1 .. shares,
             CashOut(t, shares, amount, proceeds)
      PROVE  PaymentsKnown'
    <2>1. /\ operation = Idle /\ operation'.kind = "cashout"
          /\ UNCHANGED <<book, moving, delivered>>
          /\ operation'.spare \in Trades /\ book[operation'.spare].status \in {"none", "open"}
        BY <1>5, StartsCashout
    <2> QED  BY <2>1, PaymentsStart
<1>6. CASE TransferToken
    BY <1>6, PaymentsTransfer
<1>7. CASE RecordSettlementPayoutRetry
    <2>1. /\ operation.kind = "retry" /\ operation' = Idle /\ UNCHANGED <<book, moving, delivered>>
        BY <1>7, RetryRecorded
    <2>2. Pending = {} /\ Left' = Left
        BY <1>s, <2>1, PendingIs
    <2>3. \A t \in Trades : t \in Left' => book'[t].status \in {"due", "done"}
        BY <1>r, <2>1, <2>2
    <2>4. \A i \in DOMAIN moving' :
             moving'[i].pays \in Trades /\ book'[moving'[i].pays].status = "due"
                => moving'[i].amount = book'[moving'[i].pays].payout
        BY <1>r, <2>1, <2>2
    <2> QED  BY <2>1, <2>3, <2>4, PaymentsAtRest
<1>8. CASE RecordCashout
    <2> DEFINE t == operation.trade
               spare == operation.spare
    <2>1. /\ operation.pc = "record" /\ operation.kind = "cashout"
          /\ t \in Trades /\ spare \in Trades /\ book[t].status = "open"
          /\ book'[spare].status = "due" /\ book'[spare].payout = operation.paid
          /\ \A u \in Trades : u # t /\ u # spare => book'[u] = book[u]
          /\ operation' = Idle /\ UNCHANGED <<moving, delivered>>
        BY <1>8, RecordsCashout
    <2> HIDE DEF t, spare
    <2>2. Pending = {spare} /\ Left' = Left
        BY <1>s, <2>1, PendingIs DEF spare
    <2>3. \A u \in Trades : u \in Left /\ u # spare => u # t /\ book'[u] = book[u]
        BY <1>r, <2>1, <2>2
    <2>4. \A u \in Trades : u \in Left' => book'[u].status \in {"due", "done"}
        BY <1>r, <2>1, <2>2, <2>3
    <2>5. \A i \in DOMAIN moving' :
             moving'[i].pays \in Trades /\ book'[moving'[i].pays].status = "due"
                => moving'[i].amount = book'[moving'[i].pays].payout
        BY <1>q, <1>r, <2>1, <2>2, <2>3
    <2> QED  BY <2>1, <2>4, <2>5, PaymentsAtRest
<1>9. CASE OperationFails
    <2>1. /\ operation # Idle /\ operation' = Idle /\ book' = book
          /\ \/ operation.kind = "cashout" /\ operation.pc = "record" /\ Forget(moving)
             \/ /\ ~(operation.kind = "cashout" /\ operation.pc = "record")
                /\ UNCHANGED <<moving, delivered>>
        BY <1>9, Fails
    <2>2. CASE operation.kind = "cashout" /\ operation.pc = "record" /\ Forget(moving)
        <3>0. operation.spare \in Trades /\ Pending = {operation.spare}
            BY <2>2, PendingIs DEF CashoutKnows
        <3>1. /\ \A t \in Trades : t \in Left' <=> t \in Left /\ t # operation.spare
              /\ \A i \in DOMAIN moving' :
                    \/ moving'[i].pays \notin Trades
                    \/ /\ i \in DOMAIN moving /\ moving'[i].pays = moving[i].pays
                       /\ moving'[i].amount = moving[i].amount
                       /\ moving[i].pays # operation.spare
            <4>1. PICK x \in Payments : TRUE
                <5>1. [amount |-> 0, pays |-> NoTrade] \in Payments
                    BY CollateralAssumption DEF Payments, Amounts
                <5> QED  BY <5>1
            <4> QED  BY <1>0, <2>2, <3>0, <4>1, LeftForgotten
        <3>2. \A t \in Trades : t \in Left' => book'[t].status \in {"due", "done"}
            BY <1>r, <2>1, <3>0, <3>1
        <3>3. \A i \in DOMAIN moving' :
                 moving'[i].pays \in Trades /\ book'[moving'[i].pays].status = "due"
                    => moving'[i].amount = book'[moving'[i].pays].payout
            BY <1>r, <2>1, <3>0, <3>1
        <3> QED  BY <2>1, <3>2, <3>3, PaymentsAtRest
    <2>3. CASE ~(operation.kind = "cashout" /\ operation.pc = "record")
               /\ UNCHANGED <<moving, delivered>>
        <3>1. operation.kind = "cashout" => operation.pc = "send"
            BY <1>0, <2>1, <2>3, TypesSplit, IdleTyped DEF OperationKnows, Operations
        <3>2. Pending \cap Left = {} /\ Left' = Left
            BY <1>s, <2>3, <3>1, PendingIs DEF PaymentsKnown
        <3>3. \A t \in Trades : t \in Left' => book'[t].status \in {"due", "done"}
            BY <1>r, <2>1, <3>2
        <3>4. \A i \in DOMAIN moving' :
                 moving'[i].pays \in Trades /\ book'[moving'[i].pays].status = "due"
                    => moving'[i].amount = book'[moving'[i].pays].payout
            BY <1>q, <1>r, <2>1, <2>3, <3>2
        <3> QED  BY <2>1, <3>3, <3>4, PaymentsAtRest
    <2> QED  BY <2>1, <2>2, <2>3
<1>10. ASSUME NEW held \in Amounts, AdminUpdateWalletTokenContract(held)
       PROVE  PaymentsKnown'
    <2>1. /\ operation' = operation /\ book' = book /\ delivered' = delivered /\ moving' = <<>>
        BY <1>10 DEF AdminUpdateWalletTokenContract
    <2>2. \A i \in DOMAIN moving' : \E j \in DOMAIN moving : moving'[i] = moving[j]
        BY <2>1
    <2>3. \A t \in Trades : t \in Left' => t \in Left
        BY <2>1, LeftBy
    <2> QED  BY <1>p, <2>1, <2>2, <2>3, PaymentsOn
<1>11. ASSUME NEW p \in Polls, NEW outcome \in {"yes", "no", "cancelled"},
              SettlePollTrades(p, outcome)
       PROVE  PaymentsKnown'
    <2>1. /\ UNCHANGED <<moving, delivered>> /\ operation' = operation
          /\ \A t \in Trades : book[t].status # "open" => book'[t] = book[t]
        BY <1>11, Settles
    <2> QED  BY <1>t, <2>1
<1>12. CASE PaymentMined
    <2>1. PICK x \in Payments, n \in Nat :
             /\ n = Len(moving') /\ Len(moving) = n + 1 /\ moving' \in Seq(Payments)
             /\ moving[1] = x /\ \A i \in 1 .. n : moving'[i] = moving[i + 1]
             /\ \/ delivered' = delivered \cup ({x.pays} \ {NoTrade})
                \/ delivered' = delivered
             /\ UNCHANGED <<book, settled, operation, unseen>>
        BY <1>12, Mines
    <2>2. /\ \A t \in Trades : t \in Left' => t \in Left
          /\ \A i \in DOMAIN moving' : \E j \in DOMAIN moving : moving'[i] = moving[j]
        <3>1. \A i \in 1 .. n : moving'[i] = moving[i + 1]
            BY <2>1
        <3> QED  BY <1>0, <2>1, <3>1, LeftMined
    <2> QED  BY <1>p, <2>1, <2>2, PaymentsOn
<1>13. ASSUME NEW amount \in Stakes, Deposit(amount)
       PROVE  PaymentsKnown'
    BY <1>13, <1>t DEF Deposit
<1>14. CASE OnlyRecords \/ UNCHANGED collateralVars
    BY <1>14, RecordsOnly, <1>t DEF Stays
<1>15. ASSUME NEW t \in Trades, SendClaim(t)
       PROVE  PaymentsKnown'
    BY <1>4, <1>15, PaysDue
<1>16. ASSUME NEW p \in Polls, RetrySettlementPayout(p)
       PROVE  PaymentsKnown'
    BY <1>4, <1>16, PaysDue
<1> QED  BY <1>1, <1>2, <1>3, <1>5, <1>6, <1>7, <1>8, <1>9, <1>10, <1>11, <1>12, <1>13,
            <1>14, <1>15, <1>16 DEF CollateralNext, OnlyRecords

----------------------------------------------------------------------------
(* The treasury covers what is owed *)

\* The requirement is what is owed before anything has left.
LEMMA OwedAtMost ==
    ASSUME NEW bk \in [Trades -> Books], NEW gone
    PROVE  OwedBy(bk, gone) <= Requirement(bk) /\ Requirement(bk) \in Nat
<1>1. Unpaid(bk, {}) = bk
    BY DEF Unpaid
<1>2. OwedBy(bk, {}) = Requirement(bk)
    BY <1>1 DEF OwedBy
<1>3. /\ \A t \in Trades : bk[t].status = "open" =>
            /\ bk[t].status = "open"
            /\ bk[t].poll = bk[t].poll /\ bk[t].side = bk[t].side
            /\ bk[t].payout <= bk[t].payout /\ bk[t].amount <= bk[t].amount
      /\ \A t \in Trades : bk[t].status = "due" /\ t \notin gone =>
            bk[t].status = "due" /\ t \notin {} /\ bk[t].payout <= bk[t].payout
    BY DEF Books
<1>4. OwedBy(bk, gone) <= OwedBy(bk, {})
    BY <1>3, OwedBelow
<1> QED  BY <1>2, <1>4, RequirementTotal

\* Only the payouts of due trades count.
LEMMA OwedSame ==
    ASSUME NEW bk \in [Trades -> Books], NEW g, NEW h,
           \A t \in Trades : t \in h => t \in g
    PROVE  OwedBy(bk, g) <= OwedBy(bk, h)
<1>1. /\ \A t \in Trades : bk[t].status = "open" =>
            /\ bk[t].status = "open"
            /\ bk[t].poll = bk[t].poll /\ bk[t].side = bk[t].side
            /\ bk[t].payout <= bk[t].payout /\ bk[t].amount <= bk[t].amount
      /\ \A t \in Trades : bk[t].status = "due" /\ t \notin g =>
            bk[t].status = "due" /\ t \notin h /\ bk[t].payout <= bk[t].payout
    BY DEF Books
<1> QED  BY <1>1, OwedBelow

\* Payments that are not sent after all are owed again.
LEMMA OwedUnsent ==
    ASSUME NEW bk \in [Trades -> Books], NEW g, NEW ps \in SUBSET Queued, IsFiniteSet(ps),
           \A y \in ps : y.pays \in Trades /\ bk[y.pays].status = "due"
                            => bk[y.pays].payout <= y.amount
    PROVE  OwedBy(bk, g) <= TotalOf(ps) + OwedBy(bk, g \cup {y.pays : y \in ps})
<1> DEFINE B == {s \in SUBSET ps :
                    OwedBy(bk, g) <= TotalOf(s) + OwedBy(bk, g \cup {y.pays : y \in s})}
<1>1. {} \in B
    <2>1. TotalOf({}) = 0
        BY TotalOfParts
    <2>2. g \cup {y.pays : y \in {}} = g
        OBVIOUS
    <2>3. OwedBy(bk, g) \in Nat
        BY UnpaidTyped
    <2> QED  BY <2>1, <2>2, <2>3
<1>2. ASSUME NEW s \in SUBSET ps, NEW x \in ps \ s, s \in B
      PROVE  s \cup {x} \in B
    <2> DEFINE here == g \cup {y.pays : y \in s}
               there == g \cup {y.pays : y \in s \cup {x}}
    <2>1. OwedBy(bk, g) <= TotalOf(s) + OwedBy(bk, here)
        BY <1>2
    <2>2. \A t \in Trades : t \in there => t \in here \/ t = x.pays
        OBVIOUS
    <2>3. x \in Queued /\ x.amount \in Nat
        BY DEF Queued
    <2>4. x.pays \in Trades /\ bk[x.pays].status = "due" => bk[x.pays].payout <= x.amount
        OBVIOUS
    <2> HIDE DEF here, there
    <2>5. OwedBy(bk, here) <= x.amount + OwedBy(bk, there)
        BY <2>2, <2>3, <2>4, OwedAgain
    <2>6. /\ IsFiniteSet(s) /\ IsFiniteSet(s \cup {x}) /\ (s \cup {x}) \ {x} = s
          /\ s \cup {x} \in SUBSET Queued /\ x \in s \cup {x}
        BY <2>3, FS_Subset, FS_AddElement
    <2>7. TotalOf(s \cup {x}) = x.amount + TotalOf((s \cup {x}) \ {x})
          /\ TotalOf((s \cup {x}) \ {x}) \in Nat
        BY <2>6, TotalOfParts
    <2>8. TotalOf(s \cup {x}) = x.amount + TotalOf(s) /\ TotalOf(s) \in Nat
        BY <2>6, <2>7
    <2>9. OwedBy(bk, g) \in Nat /\ OwedBy(bk, here) \in Nat /\ OwedBy(bk, there) \in Nat
        BY UnpaidTyped
    <2>10. OwedBy(bk, g) <= TotalOf(s \cup {x}) + OwedBy(bk, there)
        BY <2>1, <2>3, <2>5, <2>8, <2>9
    <2> QED  BY <2>6, <2>10 DEF there
<1> HIDE DEF B
<1>3. SUBSET ps \subseteq B
    BY <1>1, <1>2, SubsetInduction
<1> QED  BY <1>3 DEF B

\* The trades as an operation that creates one will record them.
Booked == [book EXCEPT ![operation.trade] = operation.next]

LEMMA TreasuryIs ==
    /\ TreasuryCovers <=>
          /\ balance + unseen >= Moving + OwedBy(book, Told)
          /\ operation.pc = "send" =>
                (balance + operation.gap + operation.release) - ToSend
                    >= Moving + OwedBy(book, Told \cup (SentFor \ Pending))
          /\ operation.kind = "cashout" /\ book[operation.trade].status = "open" =>
                (balance + operation.gap) - ToSend
                    >= Moving + OwedBy(Projected, Left \cup SentFor)
          /\ operation.pc = "create" /\ operation.next.poll \notin settled =>
                balance + operation.gap >= Moving + OwedBy(Booked, Left)
    /\ TreasuryCovers' <=>
          /\ balance' + unseen' >= Moving' + OwedBy(book', Told')
          /\ operation'.pc = "send" =>
                (balance' + operation'.gap + operation'.release) - ToSend'
                    >= Moving' + OwedBy(book', Told' \cup (SentFor' \ Pending'))
          /\ operation'.kind = "cashout" /\ book'[operation'.trade].status = "open" =>
                (balance' + operation'.gap) - ToSend'
                    >= Moving' + OwedBy(Projected', Left' \cup SentFor')
          /\ operation'.pc = "create" /\ operation'.next.poll \notin settled' =>
                balance' + operation'.gap >= Moving' + OwedBy(Booked', Left')
BY DEF TreasuryCovers, Covers, Booked

LEMMA TreasuryAtRest ==
    ASSUME operation' = Idle, balance' + unseen' >= Moving' + OwedBy(book', Left')
    PROVE  TreasuryCovers'
<1>1. operation'.pc = "idle" /\ operation'.kind = "none"
    BY IdleTyped
<1>2. Told' = Left'
    BY <1>1, PendingIs
<1> QED  BY <1>1, <1>2, TreasuryIs

\* The numbers that the treasury's cover compares.
LEMMA TreasuryTyped ==
    ASSUME CollateralTypeOK, OperationKnows
    PROVE  /\ balance \in Nat /\ unseen \in Nat /\ Moving \in Nat
           /\ operation.gap \in Nat /\ operation.release \in Nat /\ operation.paid \in Nat
           /\ ToSend \in Nat /\ ToSend = TotalOf(operation.left)
           /\ operation.left \in SUBSET Queued /\ IsFiniteSet(operation.left)
           /\ operation.left = {} => ToSend = 0 /\ SentFor = {}
           /\ \A gone : OwedBy(book, gone) \in Nat
<1>1. operation \in Operations /\ book \in [Trades -> Books] /\ unseen \in Nat
    BY TypesSplit
<1>2. operation.left \in SUBSET Queued /\ IsFiniteSet(operation.left)
    BY <1>1, PaymentsQueued DEF OperationKnows, Operations
<1>3. TotalOf(operation.left) \in Nat /\ TotalOf({}) = 0
    BY <1>2, TotalOfParts
<1>4. operation.left = {} => SentFor = {}
    BY DEF SentFor
<1>5. \A gone : OwedBy(book, gone) \in Nat
    BY <1>1, UnpaidTyped
<1> QED  BY <1>1, <1>2, <1>3, <1>4, <1>5, MovingTyped DEF ToSend, Operations

\* The trades as the operation will record them are trades.
LEMMA ProjectedTyped ==
    ASSUME CollateralTypeOK
    PROVE  /\ operation.trade \in Trades /\ operation.spare \in Trades =>
                 /\ Projected \in [Trades -> Books]
                 /\ Projected[operation.spare].status = "due"
                 /\ Projected[operation.spare].payout = operation.paid
                 /\ operation.trade # operation.spare =>
                       Projected[operation.trade] = operation.next
                 /\ \A t \in Trades : t # operation.trade /\ t # operation.spare =>
                       Projected[t] = book[t]
           /\ operation.trade \in Trades =>
                 /\ Booked \in [Trades -> Books]
                 /\ Booked[operation.trade] = operation.next
                 /\ \A t \in Trades : t # operation.trade => Booked[t] = book[t]
<1> DEFINE due == [NoBook EXCEPT !.status = "due", !.payout = operation.paid]
<1>1. book \in [Trades -> Books] /\ operation.next \in Books /\ operation.paid \in Nat
    BY TypesSplit DEF Operations
<1>2. due \in Books /\ due.status = "due" /\ due.payout = operation.paid
    BY <1>1 DEF NoBook, Books
<1>3. Projected = [book EXCEPT ![operation.trade] = operation.next, ![operation.spare] = due]
    BY DEF Projected
<1> HIDE DEF due
<1>4. ASSUME operation.trade \in Trades, operation.spare \in Trades
      PROVE  /\ Projected \in [Trades -> Books]
             /\ Projected[operation.spare] = due
             /\ operation.trade # operation.spare =>
                   Projected[operation.trade] = operation.next
             /\ \A t \in Trades : t # operation.trade /\ t # operation.spare =>
                   Projected[t] = book[t]
    BY <1>1, <1>2, <1>3, <1>4
<1>5. ASSUME operation.trade \in Trades
      PROVE  /\ Booked \in [Trades -> Books]
             /\ Booked[operation.trade] = operation.next
             /\ \A t \in Trades : t # operation.trade => Booked[t] = book[t]
    BY <1>1, <1>5 DEF Booked
<1> QED  BY <1>2, <1>4, <1>5

LEMMA ProjectedThen ==
    ASSUME CollateralTypeOK'
    PROVE  /\ operation'.trade \in Trades /\ operation'.spare \in Trades =>
                 /\ Projected' \in [Trades -> Books]
                 /\ Projected'[operation'.spare].status = "due"
                 /\ Projected'[operation'.spare].payout = operation'.paid
                 /\ operation'.trade # operation'.spare =>
                       Projected'[operation'.trade] = operation'.next
                 /\ \A t \in Trades : t # operation'.trade /\ t # operation'.spare =>
                       Projected'[t] = book'[t]
           /\ operation'.trade \in Trades =>
                 /\ Booked' \in [Trades -> Books]
                 /\ Booked'[operation'.trade] = operation'.next
                 /\ \A t \in Trades : t # operation'.trade => Booked'[t] = book'[t]
<1> DEFINE due == [NoBook EXCEPT !.status = "due", !.payout = operation'.paid]
<1>1. book' \in [Trades -> Books] /\ operation'.next \in Books /\ operation'.paid \in Nat
    BY TypesSplit DEF Operations
<1>2. due \in Books /\ due.status = "due" /\ due.payout = operation'.paid
    BY <1>1 DEF NoBook, Books
<1>3. Projected' = [book' EXCEPT ![operation'.trade] = operation'.next,
                                 ![operation'.spare] = due]
    BY DEF Projected
<1> HIDE DEF due
<1>4. ASSUME operation'.trade \in Trades, operation'.spare \in Trades
      PROVE  /\ Projected' \in [Trades -> Books]
             /\ Projected'[operation'.spare] = due
             /\ operation'.trade # operation'.spare =>
                   Projected'[operation'.trade] = operation'.next
             /\ \A t \in Trades : t # operation'.trade /\ t # operation'.spare =>
                   Projected'[t] = book'[t]
    BY <1>1, <1>2, <1>3, <1>4
<1>5. ASSUME operation'.trade \in Trades
      PROVE  /\ Booked' \in [Trades -> Books]
             /\ Booked'[operation'.trade] = operation'.next
             /\ \A t \in Trades : t # operation'.trade => Booked'[t] = book'[t]
    BY <1>1, <1>5 DEF Booked
<1> QED  BY <1>2, <1>4, <1>5

LEMMA NothingMoves ==
    /\ moving' = moving => Moving' = Moving
    /\ moving' = moving /\ delivered' = delivered => Left' = Left
    /\ ToSend = TotalOf(operation.left) /\ ToSend' = TotalOf(operation'.left)
<1>1. moving' = moving => Moving' = Moving
    BY MovingNow
<1>2. moving' = moving /\ delivered' = delivered => Left' = Left
    BY DEF Left
<1> QED  BY <1>1, <1>2 DEF ToSend

\* An operation starts: what was covered is, and its check covers the rest.
LEMMA TreasuryTrade ==
    ASSUME CollateralInv, CollateralTypeOK', NEW p \in Polls, NEW side \in {"yes", "no"},
           NEW amount \in Stakes, NEW payout \in Returns,
           CollateralizeQuote(p, side, amount, payout)
    PROVE  TreasuryCovers'
<1>1. /\ operation = Idle /\ operation'.pc = "create" /\ operation'.kind = "trade"
      /\ operation'.trade \in Trades /\ operation'.gap = Gap({})
      /\ balance >= WithBuffer(OwedBy([book EXCEPT ![operation'.trade]
                                           = operation'.next], onRecord))
      /\ UNCHANGED <<book, settled, balance, moving, delivered, unseen>>
    BY StartsTrade, TypesSplit DEF CollateralInv
<1>2. /\ Moving' = Moving /\ Left' = Left /\ Told' = Left /\ Told = Left
    BY <1>1, NothingMoves, PendingIs, IdleTyped
<1>3. /\ Booked' \in [Trades -> Books] /\ operation'.next.status = "open"
      /\ Booked'[operation'.trade] = operation'.next
      /\ \A t \in Trades : t # operation'.trade => Booked'[t] = book'[t]
    BY <1>1, ProjectedThen, StartsTrade DEF CollateralInv
<1> DEFINE bk == Booked'
           missed == Payout(book, Overlooked({}))
<1>4. balance >= WithBuffer(OwedBy(bk, onRecord))
    BY <1>1 DEF Booked
<1>5. /\ OwedBy(bk, Left) <= OwedBy(bk, onRecord) + missed
      /\ OwedBy(bk, onRecord) \in Nat /\ OwedBy(bk, Left) \in Nat /\ missed \in Nat
    <2>1. \A t \in Trades : bk[t].status = "due" => book[t].payout = bk[t].payout
        BY <1>1, <1>3
    <2>2. bk \in [Trades -> Books] /\ CollateralTypeOK
        BY <1>3 DEF CollateralInv
    <2> HIDE DEF bk
    <2> QED  BY <2>1, <2>2, OwedUnseen, UnpaidTyped
<1>6. WithBuffer(OwedBy(bk, onRecord)) \in Nat
      /\ WithBuffer(OwedBy(bk, onRecord)) >= OwedBy(bk, onRecord)
    BY <1>5, BufferAdds
<1>7. balance \in Nat /\ Moving \in Nat /\ Gap({}) = Moving + missed
    BY TreasuryTyped, GapTyped DEF CollateralInv
<1> HIDE DEF bk, missed
<1>8. balance + Gap({}) >= Moving + OwedBy(bk, Left)
    BY <1>4, <1>5, <1>6, <1>7
<1>9. balance + unseen >= Moving + OwedBy(book, Told)
    BY TreasuryIs DEF CollateralInv
<1> QED  BY <1>1, <1>2, <1>8, <1>9, TreasuryIs DEF bk

LEMMA TreasurySpend ==
    ASSUME CollateralInv, CollateralTypeOK', NEW amounts \in Spends, SendWalletTokens(amounts)
    PROVE  TreasuryCovers'
<1>1. /\ operation = Idle /\ operation'.pc = "send" /\ operation'.kind = "spend"
      /\ operation'.gap = Gap({}) /\ operation'.release = 0
      /\ TotalOf(operation'.left) \in Nat
      /\ balance - TotalOf(operation'.left) >= OwedBy(book, onRecord)
      /\ UNCHANGED <<book, settled, balance, moving, delivered, unseen>>
    BY StartsSpend DEF CollateralInv
<1>2. /\ Moving' = Moving /\ Told' = Left /\ Told = Left
      /\ ToSend' = TotalOf(operation'.left)
    BY <1>1, NothingMoves, PendingIs, IdleTyped
<1>3. book \in [Trades -> Books]
    BY TypesSplit DEF CollateralInv
<1> DEFINE gone == Told' \cup (SentFor' \ Pending')
<1>4. \A t \in Trades : t \in Left => t \in gone
    BY <1>2
<1> DEFINE missed == Payout(book, Overlooked({}))
<1>5. /\ OwedBy(book, Left) <= OwedBy(book, onRecord) + missed
      /\ OwedBy(book, onRecord) \in Nat /\ OwedBy(book, Left) \in Nat /\ missed \in Nat
    BY <1>3, OwedUnseen, UnpaidTyped DEF CollateralInv
<1>6. balance \in Nat /\ Moving \in Nat /\ Gap({}) = Moving + missed
    BY TreasuryTyped, GapTyped DEF CollateralInv
<1> HIDE DEF gone, missed
<1>7. OwedBy(book, gone) <= OwedBy(book, Left) /\ OwedBy(book, gone) \in Nat
    BY <1>3, <1>4, OwedSame, UnpaidTyped
<1>8. (balance + Gap({}) + 0) - TotalOf(operation'.left) >= Moving + OwedBy(book, gone)
    BY <1>1, <1>5, <1>6, <1>7
<1>9. balance + unseen >= Moving + OwedBy(book, Told)
    BY TreasuryIs DEF CollateralInv
<1> QED  BY <1>1, <1>2, <1>8, <1>9, TreasuryIs DEF gone

LEMMA TreasuryPayouts ==
    ASSUME CollateralInv, CollateralTypeOK', NEW kind \in {"claim", "retry"},
           NEW p \in Polls \cup {NoTrade}, NEW ts \in SUBSET Due, SendPayouts(kind, p, ts)
    PROVE  TreasuryCovers'
<1>1. /\ operation = Idle /\ operation'.pc = "send" /\ operation'.kind = kind
      /\ operation'.gap = Gap(ts) /\ operation'.release = 0
      /\ TotalOf(operation'.left) = Payout(book, ts)
      /\ balance - TotalOf(operation'.left) >= OwedBy(book, onRecord) - Payout(book, ts)
      /\ {x.pays : x \in operation'.left} = ts
      /\ UNCHANGED <<book, settled, balance, moving, delivered, unseen>>
    BY StartsPayouts DEF CollateralInv
<1>2. /\ Moving' = Moving /\ Told' = Left /\ Told = Left
      /\ ToSend' = Payout(book, ts)
    BY <1>1, NothingMoves, PendingIs, IdleTyped
<1>3. /\ book \in [Trades -> Books] /\ ts \in SUBSET Trades /\ onRecord \in SUBSET Trades
      /\ \A t \in ts : book[t].status = "due"
    BY TypesSplit DEF CollateralInv, Due
<1> DEFINE gone == Told' \cup (SentFor' \ Pending')
           missed == Payout(book, Overlooked(ts))
<1>4. SentFor' = ts /\ Pending' = {}
    BY <1>1, PendingIs DEF SentFor
<1>5. gone = Left \cup ts
    BY <1>2, <1>4
<1>6. /\ OwedBy(book, Left \cup ts) + Payout(book, ts) <= OwedBy(book, onRecord) + missed
      /\ Payout(book, ts) \in Nat /\ missed \in Nat
      /\ OwedBy(book, onRecord) \in Nat /\ OwedBy(book, Left \cup ts) \in Nat
    <2>1. Overlooked(ts) = {t \in onRecord : t \notin Left \/ t \in ts}
        BY DEF Overlooked
    <2> QED  BY <1>3, <2>1, OwedOverlooked, UnpaidTyped
<1>7. balance \in Nat /\ Moving \in Nat /\ Gap(ts) = Moving + missed
    BY TreasuryTyped, GapTyped DEF CollateralInv
<1> HIDE DEF gone, missed
<1>8. (balance + Gap(ts) + 0) - Payout(book, ts) >= Moving + OwedBy(book, gone)
    BY <1>1, <1>5, <1>6, <1>7
<1>9. balance + unseen >= Moving + OwedBy(book, Told)
    BY TreasuryIs DEF CollateralInv
<1> QED  BY <1>1, <1>2, <1>8, <1>9, TreasuryIs DEF gone

LEMMA TreasuryCashOut ==
    ASSUME CollateralInv, CollateralTypeOK', PaymentsKnown',
           NEW t \in Trades, NEW shares \in 1 .. book[t].payout,
           NEW amount \in 1 .. book[t].amount, NEW proceeds \in 1 .. shares,
           CashOut(t, shares, amount, proceeds)
    PROVE  TreasuryCovers'
<1> DEFINE spare == operation'.spare
           next == operation'.next
           low == [book EXCEPT ![t] = next]
           paid == operation'.paid
<1>1. /\ operation = Idle /\ operation'.pc = "send" /\ operation'.kind = "cashout"
      /\ operation'.gap = Gap({}) /\ operation'.trade = t /\ spare \in Trades
      /\ book[t].status = "open" /\ (spare # t => book[spare].status = "none")
      /\ operation'.left = {[amount |-> paid, pays |-> spare]}
      /\ TotalOf(operation'.left) = paid /\ next.status = "open"
      /\ balance - paid >= OwedBy(low, onRecord)
      /\ (balance - paid) + operation'.release >= OwedBy(book, onRecord)
      /\ UNCHANGED <<book, settled, balance, moving, delivered, unseen>>
    BY StartsCashout DEF CollateralInv
<1>2. next \in Books /\ paid \in Nat /\ operation'.release \in Nat /\ book \in [Trades -> Books]
    BY TypesSplit DEF Operations, CollateralInv
<1>3. /\ Moving' = Moving /\ Left' = Left /\ Pending' = {spare} /\ SentFor' = {spare}
      /\ Told = Left /\ ToSend' = paid
    BY <1>1, NothingMoves, PendingIs, IdleTyped DEF SentFor
<1>4. Told' = Left /\ Told' \cup (SentFor' \ Pending') = Left
    BY <1>1, <1>3, PendingIs DEF PaymentsKnown, Told
<1>5. low \in [Trades -> Books] /\ low[t] = next /\ \A u \in Trades : u # t => low[u] = book[u]
    BY <1>2
<1>6. /\ Projected' \in [Trades -> Books]
      /\ Projected'[spare].status = "due"
      /\ t # spare => Projected'[t] = next
      /\ \A u \in Trades : u # t /\ u # spare => Projected'[u] = book[u]
    BY <1>1, ProjectedThen
<1> DEFINE missed == Payout(book, Overlooked({}))
<1>7. balance \in Nat /\ Moving \in Nat /\ Gap({}) = Moving + missed
    BY TreasuryTyped, GapTyped DEF CollateralInv
<1>8. balance + unseen >= Moving + OwedBy(book, Told)
    BY TreasuryIs DEF CollateralInv
<1> DEFINE high == Projected'
           gone == Left' \cup SentFor'
<1>9. \A u \in Trades : u # spare => high[u] = low[u]
    BY <1>5, <1>6
<1>10. high \in [Trades -> Books] /\ high[spare].status = "due" /\ spare \in gone
    BY <1>3, <1>6
<1> HIDE DEF low, high, gone, spare, next, paid, missed
<1>11. OwedBy(high, gone) <= OwedBy(low, Left)
    <2>1. \A u \in Trades : high[u].status = "open" =>
             /\ low[u].status = "open"
             /\ low[u].poll = high[u].poll /\ low[u].side = high[u].side
             /\ high[u].payout <= low[u].payout /\ high[u].amount <= low[u].amount
        BY <1>5, <1>9, <1>10 DEF Books
    <2>2. \A u \in Trades : high[u].status = "due" /\ u \notin gone =>
             low[u].status = "due" /\ u \notin Left /\ high[u].payout <= low[u].payout
        <3>1. \A u \in Trades : u \notin gone => u # spare /\ u \notin Left
            BY <1>3, <1>10 DEF gone
        <3> QED  BY <1>5, <1>9, <1>10, <3>1 DEF Books
    <2> QED  BY <1>5, <1>10, <2>1, <2>2, OwedBelow
<1>12. /\ OwedBy(low, Left) <= OwedBy(low, onRecord) + missed
       /\ OwedBy(book, Left) <= OwedBy(book, onRecord) + missed
       /\ OwedBy(low, onRecord) \in Nat /\ OwedBy(book, onRecord) \in Nat /\ missed \in Nat
       /\ OwedBy(low, Left) \in Nat /\ OwedBy(high, gone) \in Nat /\ OwedBy(book, Left) \in Nat
    <2>1. \A u \in Trades : low[u].status = "due" => book[u].payout = low[u].payout
        BY <1>1, <1>5
    <2> QED  BY <1>2, <1>5, <1>10, <2>1, OwedUnseen, UnpaidTyped DEF missed, CollateralInv
<1>13. (balance + Gap({}) + operation'.release) - paid >= Moving + OwedBy(book, Left)
    BY <1>1, <1>2, <1>7, <1>12
<1>14. (balance + Gap({})) - paid >= Moving + OwedBy(high, gone)
    BY <1>1, <1>2, <1>7, <1>11, <1>12
<1> QED  BY <1>1, <1>3, <1>4, <1>8, <1>13, <1>14, TreasuryIs DEF high, gone

\* A payment is accepted: it was counted as one to send.
LEMMA TreasuryTransfer ==
    ASSUME CollateralInv, CollateralTypeOK', OperationKnows', PaymentsKnown',
           CashoutKnows', TransferToken
    PROVE  TreasuryCovers'
<1>0. /\ moving \in Seq(Payments) /\ moving \in Seq(Queued) /\ delivered \subseteq Trades
      /\ NoTrade \notin Trades
      /\ book \in [Trades -> Books] /\ CollateralTypeOK /\ OperationKnows /\ PaymentsKnown
      /\ CashoutKnows
    BY TypesSplit, PaymentsQueued, CollateralAssumption DEF CollateralInv
<1>1. PICK x \in operation.left :
         /\ operation.pc = "send" /\ x \in Payments
         /\ unseen' = operation.gap + operation.release
         /\ Append(moving, x) \in Seq(Payments)
         /\ UNCHANGED <<book, settled, balance>>
         /\ \/ /\ operation.left \ {x} = {} /\ operation.kind \in {"spend", "claim"}
               /\ operation' = Idle
               /\ moving' = Append(moving, x) /\ delivered' = delivered
            \/ /\ operation'.left = operation.left \ {x}
               /\ operation'.pc = IF operation.left \ {x} = {} THEN "record" ELSE "send"
               /\ operation'.trade = IF operation.trade = NoTrade THEN x.pays
                                     ELSE operation.trade
               /\ operation'.kind = operation.kind /\ operation'.spare = operation.spare
               /\ operation'.next = operation.next /\ operation'.paid = operation.paid
               /\ operation'.gap = operation.gap
               /\ operation'.release = operation.release
               /\ moving' = Append(moving, x) /\ delivered' = delivered
            \/ /\ operation' = Idle /\ operation.kind # "cashout"
               /\ moving' = Append(moving, x) /\ delivered' = delivered
            \/ /\ operation' = Idle /\ operation.kind = "cashout"
               /\ Forget(Append(moving, x))
    BY <1>0, TransferSums
<1> DEFINE left == operation.left \ {x}
           now == balance + operation.gap + operation.release
<1>2. /\ balance \in Nat /\ Moving \in Nat /\ ToSend \in Nat
      /\ operation.gap \in Nat /\ operation.release \in Nat
      /\ operation.left \in SUBSET Queued /\ IsFiniteSet(operation.left)
      /\ ToSend = TotalOf(operation.left) /\ \A gone : OwedBy(book, gone) \in Nat
    BY <1>0, TreasuryTyped
<1>3. /\ ToSend = x.amount + TotalOf(left) /\ TotalOf(left) \in Nat /\ IsFiniteSet(left)
      /\ x.amount \in Nat /\ left \in SUBSET Queued /\ x \in Queued
    BY <1>1, <1>2, TotalOfParts, PaymentsQueued
<1>4. Moving' = Moving + x.amount
    <2>1. MovingIn(Append(moving, x)) = MovingIn(moving) + x.amount
        BY <1>0, <1>3, MovingMore
    <2>2. MovingIn(moving') = MovingIn(Append(moving, x))
        BY <1>0, <1>1, Forgets
    <2> QED  BY <2>1, <2>2, MovingNow
<1>5. now - ToSend >= Moving + OwedBy(book, Told \cup (SentFor \ Pending))
    BY <1>0, <1>1, TreasuryIs DEF CollateralInv
<1>6. ASSUME moving' = Append(moving, x), delivered' = delivered
      PROVE  Left' = Left \cup {x.pays}
    BY <1>0, <1>1, <1>6, LeftMore
<1>7. CASE operation.kind # "cashout"
    <2> DEFINE g == Left \cup {x.pays}
               all == Left \cup SentFor
    <2>1. moving' = Append(moving, x) /\ delivered' = delivered
        BY <1>1, <1>7
    <2>2. operation'.kind # "cashout"
        BY <1>1, <1>7, IdleTyped
    <2>3. Left' = g /\ Told' = g /\ Told = Left /\ Pending = {} /\ Pending' = {}
        BY <1>6, <1>7, <2>1, <2>2, PendingIs
    <2>4. g \cup {y.pays : y \in left} = all
        <3>1. \A y \in operation.left : y = x \/ y \in left
            OBVIOUS
        <3>2. \A y \in left : y \in operation.left
            OBVIOUS
        <3> HIDE DEF left
        <3> QED  BY <3>1, <3>2 DEF SentFor
    <2>5. \A y \in left : y.pays \in Trades /\ book[y.pays].status = "due"
                             => book[y.pays].payout <= y.amount
        <3>1. operation.kind \in {"spend", "claim", "retry"}
            BY <1>0, <1>1, <1>7 DEF OperationKnows
        <3>2. ASSUME NEW y \in left, y.pays \in Trades, book[y.pays].status = "due"
              PROVE  book[y.pays].payout <= y.amount
            <4>1. operation.kind \in {"claim", "retry"}
                BY <1>0, <3>1, <3>2 DEF PaymentsKnown
            <4>2. y.amount = book[y.pays].payout
                BY <1>0, <3>2, <4>1 DEF PaymentsKnown
            <4>3. y.amount \in Nat
                BY <1>3, <3>2 DEF Queued
            <4> QED  BY <4>2, <4>3
        <3> QED  BY <3>2
    <2>6. OwedBy(book, g) <= TotalOf(left) + OwedBy(book, g \cup {y.pays : y \in left})
        <3> HIDE DEF g, left
        <3> QED  BY <1>0, <1>3, <2>5, OwedUnsent
    <2>7. now - ToSend >= Moving + OwedBy(book, all)
        <3>1. Told \cup (SentFor \ Pending) = all
            BY <2>3
        <3> QED  BY <1>5, <3>1
    <2>8. OwedBy(book, g) \in Nat /\ OwedBy(book, all) \in Nat
        BY <1>2
    <2>9. balance' + unseen' >= Moving' + OwedBy(book', Told')
        <3>1. balance + (operation.gap + operation.release) >= (Moving + x.amount) + OwedBy(book, g)
            <4>1. OwedBy(book, g) <= TotalOf(left) + OwedBy(book, all)
                BY <2>4, <2>6
            <4> HIDE DEF g, all, left
            <4> QED  BY <1>2, <1>3, <2>7, <2>8, <4>1
        <3> QED  BY <1>1, <1>4, <2>3, <3>1
    <2>10. CASE operation' = Idle
        BY <2>3, <2>9, <2>10, TreasuryAtRest
    <2>11. CASE operation' # Idle
        <3>1. /\ operation'.left = left /\ operation'.gap = operation.gap
              /\ operation'.release = operation.release /\ operation'.pc # "create"
            BY <1>1, <1>7, <2>11
        <3>2. ToSend' = TotalOf(left) /\ Told' \cup (SentFor' \ Pending') = all
            <4>1. SentFor' = {y.pays : y \in left}
                BY <3>1 DEF SentFor
            <4> QED  BY <2>3, <2>4, <3>1, <4>1, NothingMoves
        <3>3. (balance + operation.gap + operation.release) - TotalOf(left)
                  >= (Moving + x.amount) + OwedBy(book, all)
            <4> HIDE DEF all, left
            <4> QED  BY <1>2, <1>3, <2>7, <2>8
        <3>4. (balance' + operation'.gap + operation'.release) - ToSend'
                  >= Moving' + OwedBy(book', Told' \cup (SentFor' \ Pending'))
            BY <1>1, <1>4, <3>1, <3>2, <3>3
        <3> QED  BY <2>2, <2>9, <3>1, <3>4, TreasuryIs
    <2> QED  BY <2>10, <2>11
<1>8. CASE operation.kind = "cashout"
    <2>1. /\ operation.left = {[amount |-> operation.paid, pays |-> operation.spare]}
          /\ operation.spare \in Trades /\ operation.trade \in Trades
        BY <1>0, <1>1, <1>8 DEF CashoutKnows
    <2>2. /\ x.pays = operation.spare /\ left = {} /\ Pending = {operation.spare}
          /\ SentFor = {operation.spare}
        BY <1>8, <2>1, PendingIs DEF SentFor
    <2>3. Pending \cap Left = {}
        BY <1>0, <1>1 DEF PaymentsKnown
    <2>4. Told = Left /\ Told \cup (SentFor \ Pending) = Left
        BY <2>2, <2>3, PendingIs DEF Told
    <2>5. TotalOf(left) = 0
        BY <1>3, <2>2, TotalOfParts
    <2>6. balance + (operation.gap + operation.release) >= (Moving + x.amount) + OwedBy(book, Left)
        <3>1. now - ToSend >= Moving + OwedBy(book, Left)
            BY <1>5, <2>4
        <3> HIDE DEF left
        <3>2. ToSend = x.amount
            BY <1>3, <2>5
        <3> QED  BY <1>2, <1>3, <3>1, <3>2
    <2>7. CASE operation' = Idle
        <3>1. Forget(Append(moving, x))
            BY <1>1, <1>8, <2>7, IdleTyped
        <3>2. \A u \in Trades : u \in Left => u \in Left'
            BY <1>0, <1>1, <2>1, <2>2, <2>3, <3>1, LeftForgotten
        <3>3. OwedBy(book, Left') <= OwedBy(book, Left)
            BY <1>0, <3>2, OwedSame
        <3>4. balance + (operation.gap + operation.release)
                  >= (Moving + x.amount) + OwedBy(book, Left')
            BY <1>2, <1>3, <2>6, <3>3
        <3> QED  BY <1>1, <1>4, <2>7, <3>4, TreasuryAtRest
    <2>8. CASE operation' # Idle
        <3>1. /\ operation'.left = {} /\ operation'.pc = "record"
              /\ operation'.trade = operation.trade /\ operation'.kind = "cashout"
              /\ operation'.spare = operation.spare /\ operation'.next = operation.next
              /\ operation'.paid = operation.paid /\ operation'.gap = operation.gap
              /\ moving' = Append(moving, x) /\ delivered' = delivered
            BY <1>0, <1>1, <1>8, <2>1, <2>2, <2>8
        <3>2. Left' = Left \cup {operation.spare} /\ Told' = Left
            BY <1>6, <2>2, <2>3, <3>1, PendingIs DEF Told
        <3>3. balance' + unseen' >= Moving' + OwedBy(book', Told')
            BY <1>1, <1>4, <2>6, <3>2
        <3>4. ASSUME book'[operation'.trade].status = "open"
              PROVE  (balance' + operation'.gap) - ToSend'
                         >= Moving' + OwedBy(Projected', Left' \cup SentFor')
            <4>1. (balance + operation.gap) - ToSend
                      >= Moving + OwedBy(Projected, Left \cup SentFor)
                BY <1>1, <1>8, <3>1, <3>4, TreasuryIs DEF CollateralInv
            <4>2. Projected' = Projected
                BY <1>1, <3>1 DEF Projected
            <4>3. ToSend' = 0 /\ SentFor' = {}
                BY <3>1, TreasuryTyped, <2>5, <2>2, NothingMoves DEF SentFor
            <4>4. Left' \cup SentFor' = Left \cup SentFor
                BY <2>2, <3>2, <4>3
            <4>5. ToSend = x.amount
                BY <1>3, <2>5
            <4>6. OwedBy(Projected, Left \cup SentFor) \in Nat
                BY <1>0, <2>1, ProjectedTyped, UnpaidTyped
            <4>7. (balance + operation.gap) - 0
                      >= (Moving + x.amount) + OwedBy(Projected, Left \cup SentFor)
                BY <1>2, <1>3, <4>1, <4>5, <4>6
            <4> QED  BY <1>1, <1>4, <3>1, <4>2, <4>3, <4>4, <4>7
        <3> QED  BY <3>1, <3>3, <3>4, TreasuryIs
    <2> QED  BY <2>7, <2>8
<1> QED  BY <1>7, <1>8

\* An operation is recorded, or is over.
LEMMA TreasuryRecorded ==
    ASSUME CollateralInv, CollateralTypeOK',
           RecordTrade \/ RecordSettlementPayoutRetry \/ RecordCashout
    PROVE  TreasuryCovers'
<1>0. /\ CollateralTypeOK /\ OperationKnows /\ CashoutKnows /\ PaymentsKnown
      /\ book \in [Trades -> Books] /\ book' \in [Trades -> Books]
    BY TypesSplit DEF CollateralInv
<1>t. /\ balance \in Nat /\ unseen \in Nat /\ Moving \in Nat /\ operation.gap \in Nat
      /\ operation.left = {} => ToSend = 0 /\ SentFor = {}
      /\ \A gone : OwedBy(book, gone) \in Nat
    BY <1>0, TreasuryTyped
<1>1. CASE RecordTrade
    <2>1. /\ operation.pc = "create" /\ operation.next.poll \notin settled
          /\ book' = Booked /\ operation' = Idle /\ unseen' = operation.gap
          /\ UNCHANGED <<balance, moving, delivered>>
        BY <1>0, <1>1, RecordsTrade DEF Booked
    <2>2. balance + operation.gap >= Moving + OwedBy(Booked, Left)
        BY <2>1, TreasuryIs DEF CollateralInv
    <2>3. Moving' = Moving /\ Left' = Left
        BY <2>1, NothingMoves
    <2>4. balance' + unseen' >= Moving' + OwedBy(book', Left')
        BY <2>1, <2>2, <2>3
    <2> QED  BY <2>1, <2>4, TreasuryAtRest
<1>2. CASE RecordSettlementPayoutRetry
    <2>1. /\ operation.kind = "retry" /\ operation' = Idle
          /\ UNCHANGED <<book, balance, moving, delivered, unseen>>
        BY <1>2, RetryRecorded
    <2>2. Told = Left /\ Moving' = Moving /\ Left' = Left
        BY <2>1, NothingMoves, PendingIs
    <2>3. balance + unseen >= Moving + OwedBy(book, Left)
        BY <2>2, TreasuryIs DEF CollateralInv
    <2>4. balance' + unseen' >= Moving' + OwedBy(book', Left')
        BY <2>1, <2>2, <2>3
    <2> QED  BY <2>1, <2>4, TreasuryAtRest
<1>3. CASE RecordCashout
    <2> DEFINE t == operation.trade
               spare == operation.spare
    <2>1. /\ operation.pc = "record" /\ operation.kind = "cashout"
          /\ t \in Trades /\ spare \in Trades /\ book[t].status = "open"
          /\ book'[spare].status = "due" /\ book'[spare].payout = operation.paid
          /\ t # spare => /\ book'[t].status = "open" /\ book'[t].poll = operation.next.poll
                          /\ book'[t].side = operation.next.side
                          /\ book'[t].payout <= operation.next.payout
                          /\ book'[t].amount = operation.next.amount
          /\ \A u \in Trades : u # t /\ u # spare => book'[u] = book[u]
          /\ operation' = Idle /\ unseen' = operation.gap
          /\ UNCHANGED <<balance, moving, delivered>>
        BY <1>0, <1>3, RecordsCashout
    <2>2. operation.left = {} /\ operation.next.status = "open"
        BY <1>0, <2>1 DEF OperationKnows, CashoutKnows
    <2>3. (balance + operation.gap) - 0 >= Moving + OwedBy(Projected, Left)
        <3>1. (balance + operation.gap) - ToSend >= Moving + OwedBy(Projected, Left \cup SentFor)
            BY <2>1, TreasuryIs DEF CollateralInv
        <3>2. ToSend = 0 /\ Left \cup SentFor = Left
            BY <1>t, <2>2
        <3> QED  BY <3>1, <3>2
    <2> DEFINE high == Projected
    <2>4. /\ high \in [Trades -> Books]
          /\ high[spare].status = "due" /\ high[spare].payout = operation.paid
          /\ t # spare => high[t] = operation.next
          /\ \A u \in Trades : u # t /\ u # spare => high[u] = book[u]
        BY <1>0, <2>1, ProjectedTyped
    <2>5. operation.paid \in Nat /\ operation.next.amount \in Nat
        BY <1>0, TypesSplit DEF Operations, Books
    <2> HIDE DEF high, t, spare
    <2>6. OwedBy(book', Left) <= OwedBy(high, Left)
        <3>1. ASSUME NEW u \in Trades, book'[u].status = "open"
              PROVE  /\ high[u].status = "open"
                     /\ high[u].poll = book'[u].poll /\ high[u].side = book'[u].side
                     /\ book'[u].payout <= high[u].payout /\ book'[u].amount <= high[u].amount
            <4>1. u # spare
                BY <2>1, <3>1
            <4>2. CASE u = t
                BY <2>1, <2>2, <2>4, <2>5, <4>1, <4>2
            <4>3. CASE u # t
                BY <1>0, <2>1, <2>4, <3>1, <4>1, <4>3 DEF Books
            <4> QED  BY <4>2, <4>3
        <3>2. ASSUME NEW u \in Trades, book'[u].status = "due", u \notin Left
              PROVE  high[u].status = "due" /\ u \notin Left /\ book'[u].payout <= high[u].payout
            <4>1. CASE u = spare
                BY <2>1, <2>4, <2>5, <3>2, <4>1
            <4>2. CASE u # spare
                <5>1. u # t
                    BY <2>1, <3>2, <4>2
                <5> QED  BY <1>0, <2>1, <2>4, <3>2, <4>2, <5>1 DEF Books
            <4> QED  BY <4>1, <4>2
        <3>3. \A u \in Trades : book'[u].status = "open" =>
                 /\ high[u].status = "open"
                 /\ high[u].poll = book'[u].poll /\ high[u].side = book'[u].side
                 /\ book'[u].payout <= high[u].payout /\ book'[u].amount <= high[u].amount
            BY <3>1
        <3>4. \A u \in Trades : book'[u].status = "due" /\ u \notin Left =>
                 high[u].status = "due" /\ u \notin Left /\ book'[u].payout <= high[u].payout
            BY <3>2
        <3> QED  BY <1>0, <2>4, <3>3, <3>4, OwedBelow
    <2>7. OwedBy(book', Left) \in Nat /\ OwedBy(high, Left) \in Nat
        BY <1>0, <2>4, UnpaidTyped
    <2>8. Moving' = Moving /\ Left' = Left
        BY <2>1, NothingMoves
    <2>9. balance + operation.gap >= Moving + OwedBy(book', Left)
        <3>1. (balance + operation.gap) - 0 >= Moving + OwedBy(high, Left)
            BY <2>3 DEF high
        <3> QED  BY <1>t, <2>6, <2>7, <3>1
    <2>10. balance' + unseen' >= Moving' + OwedBy(book', Left')
        BY <2>1, <2>8, <2>9
    <2> QED  BY <2>1, <2>10, TreasuryAtRest
<1> QED  BY <1>1, <1>2, <1>3

LEMMA TreasuryFails ==
    ASSUME CollateralInv, CollateralTypeOK', OperationFails
    PROVE  TreasuryCovers'
<1>0. /\ CollateralTypeOK /\ OperationKnows /\ CashoutKnows /\ PaymentsKnown
      /\ book \in [Trades -> Books] /\ moving \in Seq(Payments) /\ delivered \subseteq Trades
      /\ operation \in Operations
    BY TypesSplit DEF CollateralInv
<1>1. /\ operation # Idle /\ operation' = Idle
      /\ \/ operation.kind = "cashout" /\ operation.pc = "record" /\ Forget(moving)
         \/ /\ ~(operation.kind = "cashout" /\ operation.pc = "record")
            /\ UNCHANGED <<moving, delivered>>
      /\ UNCHANGED <<book, settled, balance, unseen>>
    BY <1>0, Fails
<1>2. Moving' = Moving /\ \A t \in Trades : t \in Told => t \in Left'
    <2>1. CASE operation.kind = "cashout" /\ operation.pc = "record" /\ Forget(moving)
        <3>1. operation.spare \in Trades /\ Pending = {operation.spare}
            BY <1>0, <2>1, PendingIs DEF CashoutKnows
        <3>2. [amount |-> 0, pays |-> NoTrade] \in Payments
            BY CollateralAssumption DEF Payments, Amounts
        <3>3. \A t \in Trades : t \in Left' <=> t \in Left /\ t # operation.spare
            BY <1>0, <2>1, <3>1, <3>2, LeftForgotten
        <3>4. MovingIn(moving') = MovingIn(moving)
            BY <1>0, <2>1, Forgets
        <3> QED  BY <3>1, <3>3, <3>4, MovingNow, PendingIs
    <2>2. CASE UNCHANGED <<moving, delivered>>
        BY <2>2, NothingMoves, PendingIs
    <2> QED  BY <1>1, <2>1, <2>2
<1>3. OwedBy(book, Left') <= OwedBy(book, Told)
    BY <1>0, <1>2, OwedSame
<1>4. balance + unseen >= Moving + OwedBy(book, Told)
    BY TreasuryIs DEF CollateralInv
<1>5. /\ balance \in Nat /\ unseen \in Nat /\ Moving \in Nat
      /\ OwedBy(book, Told) \in Nat /\ OwedBy(book, Left') \in Nat
    BY <1>0, TreasuryTyped
<1>6. balance + unseen >= Moving + OwedBy(book, Left')
    BY <1>3, <1>4, <1>5
<1>7. balance' + unseen' >= Moving' + OwedBy(book', Left')
    BY <1>1, <1>2, <1>6
<1> QED  BY <1>1, <1>7, TreasuryAtRest

\* The new token's balance covers what the records require, and nothing moves.
LEMMA TreasuryOtherToken ==
    ASSUME CollateralInv, NEW held \in Amounts, AdminUpdateWalletTokenContract(held)
    PROVE  TreasuryCovers'
<1> DEFINE missed == Payout(book, onRecord \ delivered)
<1>1. /\ operation = Idle /\ operation' = Idle /\ balance' = held /\ unseen' = missed
      /\ moving' = <<>> /\ book' = book /\ delivered' = delivered
      /\ held >= WithBuffer(OwedBy(book, onRecord))
    BY DEF AdminUpdateWalletTokenContract, OwedBy
<1>2. book \in [Trades -> Books] /\ held \in Nat /\ onRecord \in SUBSET Trades
    BY TypesSplit, PaymentsQueued DEF CollateralInv
<1>3. Moving' = 0 /\ Left' = delivered
    BY <1>1, MovingNow, MovingNone DEF Left
<1>4. /\ OwedBy(book, delivered) <= OwedBy(book, onRecord) + missed /\ missed \in Nat
      /\ OwedBy(book, delivered) \in Nat /\ OwedBy(book, onRecord) \in Nat
    BY <1>2, OwedMissed
<1>5. WithBuffer(OwedBy(book, onRecord)) \in Nat
      /\ WithBuffer(OwedBy(book, onRecord)) >= OwedBy(book, onRecord)
    BY <1>4, BufferAdds
<1> HIDE DEF missed
<1>6. held + missed >= 0 + OwedBy(book, delivered)
    BY <1>1, <1>2, <1>4, <1>5
<1>7. balance' + unseen' >= Moving' + OwedBy(book', Left')
    BY <1>1, <1>3, <1>6
<1> QED  BY <1>1, <1>7, TreasuryAtRest

\* While an operation goes on: what falls due again has come back to the balance.
LEMMA TreasuryOn ==
    ASSUME CollateralInv, CollateralTypeOK', operation' = operation, unseen' = unseen,
           NEW n \in Nat, (balance' + Moving) >= (balance + Moving') + n,
           OwedBy(book', Told') <= n + OwedBy(book, Told),
           operation.pc = "send" =>
              OwedBy(book', Told' \cup (SentFor \ Pending))
                 <= n + OwedBy(book, Told \cup (SentFor \ Pending)),
           operation.kind = "cashout" /\ book'[operation.trade].status = "open" =>
              /\ book[operation.trade].status = "open"
              /\ OwedBy(Projected', Left' \cup SentFor)
                    <= n + OwedBy(Projected, Left \cup SentFor),
           operation.pc = "create" /\ operation.next.poll \notin settled' =>
              /\ operation.next.poll \notin settled
              /\ OwedBy(Booked', Left') <= n + OwedBy(Booked, Left)
    PROVE  TreasuryCovers'
<1>0. CollateralTypeOK /\ OperationKnows /\ CashoutKnows /\ TreasuryCovers
    BY DEF CollateralInv
<1>1. /\ balance \in Nat /\ unseen \in Nat /\ Moving \in Nat /\ ToSend \in Nat
      /\ operation.gap \in Nat /\ operation.release \in Nat
      /\ \A gone : OwedBy(book, gone) \in Nat
    BY <1>0, TreasuryTyped
<1>2. balance' \in Nat /\ Moving' \in Nat /\ \A gone : OwedBy(book', gone) \in Nat
    <2>1. moving' \in Seq(Queued) /\ balance' \in Nat /\ book' \in [Trades -> Books]
        BY TypesSplit, PaymentsQueued
    <2> QED  BY <2>1, QueueNat, MovingNow, UnpaidTyped
<1>3. ToSend' = ToSend /\ SentFor' = SentFor /\ Pending' = Pending
    BY NothingMoves DEF SentFor, Pending
<1>s. \A o, o2, s \in Int :
         o2 <= n + o /\ balance + s >= Moving + o => balance' + s >= Moving' + o2
    <2> DEFINE a == balance
               a2 == balance'
               m == Moving
               m2 == Moving'
    <2>1. a \in Nat /\ a2 \in Nat /\ m \in Nat /\ m2 \in Nat
        BY <1>1, <1>2, Zenon
    <2>2. (a2 + m) >= (a + m2) + n
        BY Zenon
    <2> HIDE DEF a, a2, m, m2
    <2>3. \A o, o2, s \in Int : o2 <= n + o /\ a + s >= m + o => a2 + s >= m2 + o2
        BY <2>1, <2>2
    <2> QED  BY <2>3, Zenon DEF a, a2, m, m2
<1>t. \A o, o2, g, r, s \in Int :
         o2 <= n + o /\ (balance + g + r) - s >= Moving + o
            => (balance' + g + r) - s >= Moving' + o2
    <2> DEFINE a == balance
               a2 == balance'
               m == Moving
               m2 == Moving'
    <2>1. a \in Nat /\ a2 \in Nat /\ m \in Nat /\ m2 \in Nat
        BY <1>1, <1>2, Zenon
    <2>2. (a2 + m) >= (a + m2) + n
        BY Zenon
    <2> HIDE DEF a, a2, m, m2
    <2>3. \A o, o2, g, r, s \in Int :
             o2 <= n + o /\ (a + g + r) - s >= m + o => (a2 + g + r) - s >= m2 + o2
        BY <2>1, <2>2
    <2> QED  BY <2>3, Zenon DEF a, a2, m, m2
<1>4. balance' + unseen' >= Moving' + OwedBy(book', Told')
    <2>1. balance + unseen >= Moving + OwedBy(book, Told)
        BY <1>0, TreasuryIs
    <2> DEFINE old == OwedBy(book, Told)
               new == OwedBy(book', Told')
    <2>2. old \in Nat /\ new \in Nat /\ new <= n + old /\ balance + unseen >= Moving + old
        BY <1>1, <1>2, <2>1
    <2> HIDE DEF old, new
    <2>3. balance' + unseen >= Moving' + new
        BY <1>1, <1>s, <2>2
    <2> QED  BY <2>3 DEF new
<1>5. ASSUME operation.pc = "send"
      PROVE  (balance' + operation'.gap + operation'.release) - ToSend'
                 >= Moving' + OwedBy(book', Told' \cup (SentFor' \ Pending'))
    <2> DEFINE old == OwedBy(book, Told \cup (SentFor \ Pending))
               new == OwedBy(book', Told' \cup (SentFor \ Pending))
    <2>1. (balance + operation.gap + operation.release) - ToSend >= Moving + old
        BY <1>0, <1>5, TreasuryIs
    <2>2. old \in Nat /\ new \in Nat /\ new <= n + old
        BY <1>1, <1>2, <1>5
    <2> HIDE DEF old, new
    <2>3. (balance' + operation.gap + operation.release) - ToSend >= Moving' + new
        <3>1. /\ old \in Int /\ new \in Int /\ operation.gap \in Int
              /\ operation.release \in Int /\ ToSend \in Int
            BY <1>1, <2>2
        <3> QED  BY <1>t, <2>1, <2>2, <3>1, Zenon
    <2> QED  BY <1>3, <2>3 DEF new
<1>6. ASSUME operation.kind = "cashout", book'[operation.trade].status = "open"
      PROVE  (balance' + operation'.gap) - ToSend'
                 >= Moving' + OwedBy(Projected', Left' \cup SentFor')
    <2> DEFINE old == OwedBy(Projected, Left \cup SentFor)
               new == OwedBy(Projected', Left' \cup SentFor)
    <2>1. (balance + operation.gap) - ToSend >= Moving + old
        BY <1>0, <1>6, TreasuryIs
    <2>2. operation.trade \in Trades /\ operation.spare \in Trades
        BY <1>0, <1>6 DEF CashoutKnows
    <2>3. old \in Nat /\ new \in Nat /\ new <= n + old
        BY <1>0, <1>6, <2>2, ProjectedTyped, ProjectedThen, UnpaidTyped
    <2> HIDE DEF old, new
    <2>4. balance + (operation.gap - ToSend) >= Moving + old /\ operation.gap - ToSend \in Int
        BY <1>1, <2>1, <2>3
    <2>5. balance' + (operation.gap - ToSend) >= Moving' + new
        BY <1>s, <2>3, <2>4
    <2>6. (balance' + operation.gap) - ToSend >= Moving' + new
        BY <1>1, <1>2, <2>3, <2>5
    <2> QED  BY <1>3, <2>6 DEF new
<1>7. ASSUME operation.pc = "create", operation.next.poll \notin settled'
      PROVE  balance' + operation'.gap >= Moving' + OwedBy(Booked', Left')
    <2> DEFINE old == OwedBy(Booked, Left)
               new == OwedBy(Booked', Left')
    <2>1. balance + operation.gap >= Moving + old
        BY <1>0, <1>7, TreasuryIs
    <2>2. operation.trade \in Trades
        BY <1>0, <1>7 DEF OperationKnows
    <2>3. old \in Nat /\ new \in Nat /\ new <= n + old
        BY <1>0, <1>7, <2>2, ProjectedTyped, ProjectedThen, UnpaidTyped
    <2> HIDE DEF old, new
    <2>4. balance' + operation.gap >= Moving' + new
        BY <1>1, <1>s, <2>1, <2>3
    <2> QED  BY <2>4 DEF new
<1> QED  BY <1>4, <1>5, <1>6, <1>7, TreasuryIs

LEMMA TreasuryMined ==
    ASSUME CollateralInv, CollateralTypeOK', PaymentMined
    PROVE  TreasuryCovers'
<1>0. /\ CollateralTypeOK /\ OperationKnows /\ CashoutKnows /\ PaymentsKnown
      /\ book \in [Trades -> Books] /\ moving \in Seq(Payments) /\ NoTrade \notin Trades
      /\ balance \in Nat
    BY TypesSplit, CollateralAssumption, TreasuryTyped DEF CollateralInv
<1>1. PICK x \in Payments, k \in Nat :
         /\ k = Len(moving') /\ Len(moving) = k + 1 /\ moving' \in Seq(Payments)
         /\ moving[1] = x /\ \A i \in 1 .. k : moving'[i] = moving[i + 1]
         /\ Moving = x.amount + Moving' /\ Moving' \in Nat /\ Moving \in Nat
         /\ \/ /\ x.amount <= balance /\ balance' = balance - x.amount
               /\ delivered' = delivered \cup ({x.pays} \ {NoTrade})
            \/ balance' = balance /\ delivered' = delivered
         /\ UNCHANGED <<book, settled, operation, unseen>>
    BY <1>0, Mines
<1>2. /\ \A t \in Trades : t \in Left' => t \in Left
      /\ \A t \in Trades : t \in Left => t \in Left' \/ t = x.pays
      /\ delivered' = delivered \cup ({x.pays} \ {NoTrade}) =>
            \A t \in Trades : t \in Left => t \in Left'
      /\ \E j \in DOMAIN moving : moving[j] = x
    <2>1. \A i \in 1 .. k : moving'[i] = moving[i + 1]
        BY <1>1
    <2>2. \/ delivered' = delivered \cup ({x.pays} \ {NoTrade})
          \/ delivered' = delivered
        BY <1>1
    <2> QED  BY <1>0, <1>1, <2>1, <2>2, LeftMined
<1>3. /\ x.amount \in Nat
      /\ x.pays \in Pending => x.amount = operation.paid
      /\ x.pays \in Trades \ Pending /\ book[x.pays].status = "due"
            => x.amount = book[x.pays].payout
    BY <1>0, <1>2, PaymentsQueued DEF PaymentsKnown
<1>4. Pending' = Pending /\ Projected' = Projected /\ Booked' = Booked
    BY <1>1 DEF Pending, Projected, Booked
<1>5. /\ operation.kind = "cashout" =>
            /\ operation.trade \in Trades /\ operation.spare \in Trades
            /\ Pending = {operation.spare}
      /\ operation.pc = "create" => operation.trade \in Trades /\ Pending = {}
    BY <1>0, PendingIs DEF CashoutKnows, OperationKnows
<1>6. CASE /\ x.amount <= balance /\ balance' = balance - x.amount
           /\ delivered' = delivered \cup ({x.pays} \ {NoTrade})
    <2>1. \A t \in Trades : t \in Left => t \in Left'
        BY <1>2, <1>6
    <2>2. /\ \A t \in Trades : t \in Told => t \in Told'
          /\ \A t \in Trades : t \in Told \cup (SentFor \ Pending)
                                  => t \in Told' \cup (SentFor \ Pending)
          /\ \A t \in Trades : t \in Left \cup SentFor => t \in Left' \cup SentFor
        BY <1>4, <2>1, PendingIs
    <2>3. (balance' + Moving) >= (balance + Moving') + 0
        BY <1>0, <1>1, <1>3, <1>6, SMTT(30)
    <2>4. OwedBy(book', Told') <= 0 + OwedBy(book, Told)
        BY <1>0, <1>1, <2>2, OwedSame, UnpaidTyped, SMTT(30)
    <2>5. OwedBy(book', Told' \cup (SentFor \ Pending))
             <= 0 + OwedBy(book, Told \cup (SentFor \ Pending))
        <3> DEFINE g == Told' \cup (SentFor \ Pending)
                   h == Told \cup (SentFor \ Pending)
        <3>1. \A t \in Trades : t \in h => t \in g
            BY <2>2
        <3> HIDE DEF g, h
        <3>2. OwedBy(book, g) <= OwedBy(book, h) /\ OwedBy(book, h) \in Nat
            BY <1>0, <3>1, OwedSame, UnpaidTyped
        <3> QED  BY <1>1, <3>2 DEF g, h
    <2>6. ASSUME operation.kind = "cashout"
          PROVE  OwedBy(Projected', Left' \cup SentFor)
                    <= 0 + OwedBy(Projected, Left \cup SentFor)
        <3> DEFINE g == Left' \cup SentFor
                   h == Left \cup SentFor
        <3>0. Projected \in [Trades -> Books]
            BY <1>0, <1>5, <2>6, ProjectedTyped
        <3>1. \A t \in Trades : t \in h => t \in g
            BY <2>2
        <3> HIDE DEF g, h
        <3>2. OwedBy(Projected, g) <= OwedBy(Projected, h) /\ OwedBy(Projected, h) \in Nat
            BY <3>0, <3>1, OwedSame, UnpaidTyped
        <3> QED  BY <1>4, <3>2 DEF g, h
    <2>7. ASSUME operation.pc = "create"
          PROVE  OwedBy(Booked', Left') <= 0 + OwedBy(Booked, Left)
        <3>0. Booked \in [Trades -> Books]
            BY <1>0, <1>5, <2>7, ProjectedTyped
        <3>1. OwedBy(Booked, Left') <= OwedBy(Booked, Left) /\ OwedBy(Booked, Left) \in Nat
            BY <2>1, <3>0, OwedSame, UnpaidTyped
        <3> QED  BY <1>4, <3>1
    <2>8. book' = book /\ settled' = settled /\ operation' = operation /\ unseen' = unseen
        BY <1>1
    <2> QED  BY <2>3, <2>4, <2>5, <2>6, <2>7, <2>8, TreasuryOn
<1>7. CASE balance' = balance /\ delivered' = delivered
    <2> DEFINE a == x.amount
               one == IF x.pays \in Pending THEN NoTrade ELSE x.pays
    <2>1. /\ \A t \in Trades : t \in Told => t \in Told' \/ t = one
          /\ \A t \in Trades : t \in Told \cup (SentFor \ Pending)
                                  => t \in Told' \cup (SentFor \ Pending) \/ t = one
          /\ \A t \in Trades : t \in Left \cup SentFor
                                  => t \in Left' \cup SentFor \/ t = x.pays
        BY <1>2, <1>4, PendingIs
    <2>2. /\ one \in Trades /\ book[one].status = "due" => book[one].payout <= a
          /\ a \in Nat
        <3>1. one \in Trades => one = x.pays /\ x.pays \in Trades \ Pending
            BY <1>0
        <3> QED  BY <1>3, <3>1
    <2>3. (balance' + Moving) >= (balance + Moving') + a
        BY <1>0, <1>1, <1>3, <1>7
    <2> HIDE DEF a, one
    <2>4. OwedBy(book', Told') <= a + OwedBy(book, Told)
        <3>1. OwedBy(book, Told') <= a + OwedBy(book, Told)
            BY <1>0, <2>1, <2>2, OwedAgain
        <3> QED  BY <1>1, <3>1
    <2>5. OwedBy(book', Told' \cup (SentFor \ Pending))
             <= a + OwedBy(book, Told \cup (SentFor \ Pending))
        <3> DEFINE g == Told' \cup (SentFor \ Pending)
                   h == Told \cup (SentFor \ Pending)
        <3>1. \A t \in Trades : t \in h => t \in g \/ t = one
            BY <2>1
        <3> HIDE DEF g, h
        <3>2. OwedBy(book, g) <= a + OwedBy(book, h)
            BY <1>0, <2>2, <3>1, OwedAgain
        <3> QED  BY <1>1, <3>2 DEF g, h
    <2>6. ASSUME operation.kind = "cashout", book[operation.trade].status = "open"
          PROVE  OwedBy(Projected', Left' \cup SentFor)
                    <= a + OwedBy(Projected, Left \cup SentFor)
        <3> DEFINE g == Left' \cup SentFor
                   h == Left \cup SentFor
                   y == x.pays
        <3>0. /\ Projected \in [Trades -> Books]
              /\ Projected[operation.spare].payout = operation.paid
              /\ operation.trade # operation.spare =>
                    Projected[operation.trade] = operation.next
              /\ \A t \in Trades : t # operation.trade /\ t # operation.spare =>
                    Projected[t] = book[t]
              /\ operation.next.status = "open"
            BY <1>0, <1>5, <2>6, ProjectedTyped DEF CashoutKnows
        <3>1. \A t \in Trades : t \in h => t \in g \/ t = y
            BY <2>1
        <3>2. y \in Trades /\ Projected[y].status = "due" => Projected[y].payout <= a
            <4>1. CASE y = operation.spare
                BY <1>3, <1>5, <2>2, <2>6, <3>0, <4>1 DEF a
            <4>2. CASE y # operation.spare
                <5> SUFFICES ASSUME y \in Trades, Projected[y].status = "due"
                             PROVE  Projected[y].payout <= a
                    OBVIOUS
                <5>1. y # operation.trade
                    BY <3>0, <4>2
                <5>2. Projected[y] = book[y]
                    BY <3>0, <4>2, <5>1
                <5>3. a = book[y].payout
                    BY <1>3, <1>5, <2>6, <4>2, <5>2 DEF a
                <5> QED  BY <2>2, <5>2, <5>3
            <4> QED  BY <4>1, <4>2
        <3> HIDE DEF g, h, y
        <3>3. OwedBy(Projected, g) <= a + OwedBy(Projected, h)
            BY <2>2, <3>0, <3>1, <3>2, OwedAgain
        <3> QED  BY <1>4, <3>3 DEF g, h
    <2>7. ASSUME operation.pc = "create"
          PROVE  OwedBy(Booked', Left') <= a + OwedBy(Booked, Left)
        <3>0. /\ Booked \in [Trades -> Books]
              /\ Booked[operation.trade].status = "open"
              /\ \A t \in Trades : t # operation.trade => Booked[t] = book[t]
            BY <1>0, <1>5, <2>7, ProjectedTyped DEF OperationKnows
        <3>1. one = x.pays
            BY <1>5, <2>7 DEF one
        <3>2. one \in Trades /\ Booked[one].status = "due" => Booked[one].payout <= a
            <4>1. one = operation.trade => Booked[one].status # "due"
                BY <3>0
            <4> QED  BY <2>2, <3>0, <4>1
        <3>3. \A t \in Trades : t \in Left => t \in Left' \/ t = one
            BY <1>2, <3>1
        <3>4. OwedBy(Booked, Left') <= a + OwedBy(Booked, Left)
            BY <2>2, <3>0, <3>2, <3>3, OwedAgain
        <3> QED  BY <1>4, <3>4
    <2>8. book' = book /\ settled' = settled /\ operation' = operation /\ unseen' = unseen
          /\ a \in Nat
        BY <1>1, <2>2
    <2> QED  BY <2>3, <2>4, <2>5, <2>6, <2>7, <2>8, TreasuryOn
<1> QED  BY <1>1, <1>6, <1>7

\* A settlement fixes one of the outcomes that the worst one covered.
LEMMA TreasurySettles ==
    ASSUME CollateralInv, CollateralTypeOK', NEW p \in Polls,
           NEW outcome \in {"yes", "no", "cancelled"}, SettlePollTrades(p, outcome)
    PROVE  TreasuryCovers'
<1>0. /\ CollateralTypeOK /\ OperationKnows /\ CashoutKnows
      /\ book \in [Trades -> Books] /\ book' \in [Trades -> Books]
      /\ balance \in Nat /\ Moving \in Nat
    BY TypesSplit, TreasuryTyped DEF CollateralInv
<1>1. /\ settled' = settled \cup {p}
      /\ \A t \in Trades :
            IF book[t].status = "open" /\ book[t].poll = p
            THEN \/ book'[t].status = "done"
                 \/ book'[t].status = "due"
                    /\ book'[t].payout = Outcome(book, p, outcome)[t]
            ELSE book'[t] = book[t]
      /\ UNCHANGED <<balance, moving, delivered, operation, unseen>>
    BY <1>0, Settles
<1>2. /\ Moving' = Moving /\ Left' = Left /\ Told' = Told
    <2>1. Moving' = Moving /\ Left' = Left
        BY <1>1, NothingMoves
    <2> QED  BY <1>1, <2>1 DEF Told, Pending
<1>3. \A t \in Trades : Outcome(book, p, outcome)[t] \in Nat
    BY <1>0 DEF Outcome, RefundOf, SideOf, Books
<1>4. ASSUME NEW low \in [Trades -> Books], NEW high \in [Trades -> Books], NEW gone,
             \A t \in Trades :
                \/ high[t] = book[t] /\ low[t] = book'[t]
                \/ low[t] = high[t] /\ ~(high[t].status = "open" /\ high[t].poll = p)
      PROVE  OwedBy(low, gone) <= 0 + OwedBy(high, gone)
    <2>1. \A t \in Trades : high[t] = book[t] =>
             Outcome(high, p, outcome)[t] = Outcome(book, p, outcome)[t]
        BY DEF Outcome, RefundOf, SideOf
    <2>2. \A t \in Trades :
             IF high[t].status = "open" /\ high[t].poll = p
             THEN /\ low[t].status # "open"
                  /\ low[t].status = "due" => low[t].payout <= Outcome(high, p, outcome)[t]
             ELSE low[t] = high[t]
        <3> SUFFICES ASSUME NEW t \in Trades
                     PROVE  IF high[t].status = "open" /\ high[t].poll = p
                            THEN /\ low[t].status # "open"
                                 /\ low[t].status = "due" =>
                                       low[t].payout <= Outcome(high, p, outcome)[t]
                            ELSE low[t] = high[t]
            OBVIOUS
        <3>1. CASE low[t] = high[t] /\ ~(high[t].status = "open" /\ high[t].poll = p)
            BY <3>1
        <3>2. CASE high[t] = book[t] /\ low[t] = book'[t]
            BY <1>1, <1>3, <2>1, <3>2
        <3> QED  BY <1>4, <3>1, <3>2
    <2>3. OwedBy(low, gone) <= OwedBy(high, gone)
        BY <2>2, OwedSettled
    <2>4. OwedBy(low, gone) \in Nat /\ OwedBy(high, gone) \in Nat
        BY UnpaidTyped
    <2> QED  BY <2>3, <2>4
<1>5. \A gone : OwedBy(book', gone) <= 0 + OwedBy(book, gone)
    BY <1>0, <1>4
<1>6. ASSUME operation.kind = "cashout", book'[operation.trade].status = "open"
      PROVE  /\ book[operation.trade].status = "open"
             /\ OwedBy(Projected', Left' \cup SentFor)
                   <= 0 + OwedBy(Projected, Left \cup SentFor)
    <2>1. operation.trade \in Trades /\ operation.spare \in Trades
        BY <1>0, <1>6 DEF CashoutKnows
    <2>2. book[operation.trade].status = "open" /\ book[operation.trade].poll # p
        BY <1>1, <1>6, <2>1
    <2>3. operation.next.poll # p
        BY <1>0, <1>6, <2>2 DEF CashoutKnows
    <2>4. /\ Projected \in [Trades -> Books]
          /\ Projected[operation.spare].status = "due"
          /\ operation.trade # operation.spare =>
                Projected[operation.trade] = operation.next
          /\ \A t \in Trades : t # operation.trade /\ t # operation.spare =>
                Projected[t] = book[t]
        BY <1>0, <2>1, ProjectedTyped
    <2>5. /\ Projected' \in [Trades -> Books]
          /\ operation.trade # operation.spare =>
                Projected'[operation.trade] = operation.next
          /\ \A t \in Trades : t # operation.trade /\ t # operation.spare =>
                Projected'[t] = book'[t]
        BY <1>1, <2>1, ProjectedThen
    <2>6. Projected'[operation.spare] = Projected[operation.spare]
        <3> DEFINE due == [NoBook EXCEPT !.status = "due", !.payout = operation.paid]
        <3>1. Projected = [book EXCEPT ![operation.trade] = operation.next,
                                       ![operation.spare] = due]
            BY DEF Projected
        <3>2. Projected' = [book' EXCEPT ![operation.trade] = operation.next,
                                         ![operation.spare] = due]
            BY <1>1 DEF Projected
        <3> HIDE DEF due
        <3>3. Projected[operation.spare] = due
            BY <1>0, <2>1, <3>1
        <3>4. Projected'[operation.spare] = due
            BY <1>0, <2>1, <3>2
        <3> QED  BY <3>3, <3>4
    <2> DEFINE low == Projected'
               high == Projected
               gone == Left \cup SentFor
    <2>7. \A t \in Trades :
             \/ high[t] = book[t] /\ low[t] = book'[t]
             \/ low[t] = high[t] /\ ~(high[t].status = "open" /\ high[t].poll = p)
        <3>1. ASSUME NEW t \in Trades
              PROVE  \/ high[t] = book[t] /\ low[t] = book'[t]
                     \/ low[t] = high[t] /\ ~(high[t].status = "open" /\ high[t].poll = p)
            <4>1. CASE t = operation.spare
                BY <2>4, <2>6, <4>1
            <4>2. CASE t # operation.spare /\ t = operation.trade
                BY <2>3, <2>4, <2>5, <4>2
            <4>3. CASE t # operation.spare /\ t # operation.trade
                BY <2>4, <2>5, <4>3
            <4> QED  BY <4>1, <4>2, <4>3
        <3> QED  BY <3>1
    <2>8. low \in [Trades -> Books] /\ high \in [Trades -> Books]
        BY <2>4, <2>5
    <2> HIDE DEF low, high, gone
    <2>9. OwedBy(low, gone) <= 0 + OwedBy(high, gone)
        BY <1>4, <2>7, <2>8
    <2> QED  BY <1>2, <2>2, <2>9 DEF low, high, gone
<1>7. ASSUME operation.pc = "create", operation.next.poll \notin settled'
      PROVE  /\ operation.next.poll \notin settled
             /\ OwedBy(Booked', Left') <= 0 + OwedBy(Booked, Left)
    <2>1. operation.trade \in Trades
        BY <1>0, <1>7 DEF OperationKnows
    <2>2. operation.next.poll \notin settled /\ operation.next.poll # p
        BY <1>1, <1>7
    <2>3. /\ Booked \in [Trades -> Books] /\ Booked[operation.trade] = operation.next
          /\ \A t \in Trades : t # operation.trade => Booked[t] = book[t]
        BY <1>0, <2>1, ProjectedTyped
    <2>4. /\ Booked' \in [Trades -> Books] /\ Booked'[operation.trade] = operation.next
          /\ \A t \in Trades : t # operation.trade => Booked'[t] = book'[t]
        BY <1>1, <2>1, ProjectedThen
    <2> DEFINE low == Booked'
               high == Booked
    <2>5. \A t \in Trades :
             \/ high[t] = book[t] /\ low[t] = book'[t]
             \/ low[t] = high[t] /\ ~(high[t].status = "open" /\ high[t].poll = p)
        BY <2>2, <2>3, <2>4
    <2>6. low \in [Trades -> Books] /\ high \in [Trades -> Books]
        BY <2>3, <2>4
    <2> HIDE DEF low, high
    <2>7. OwedBy(low, Left) <= 0 + OwedBy(high, Left)
        BY <1>4, <2>5, <2>6
    <2> QED  BY <1>2, <2>2, <2>7 DEF low, high
<1>8. (balance' + Moving) >= (balance + Moving') + 0
    BY <1>0, <1>1, <1>2
<1>9. OwedBy(book', Told') <= 0 + OwedBy(book, Told)
    BY <1>2, <1>5
<1>10. OwedBy(book', Told' \cup (SentFor \ Pending))
          <= 0 + OwedBy(book, Told \cup (SentFor \ Pending))
    BY <1>2, <1>5
<1>11. operation' = operation /\ unseen' = unseen /\ 0 \in Nat
    BY <1>1
<1> QED  BY <1>6, <1>7, <1>8, <1>9, <1>10, <1>11, TreasuryOn

\* The treasury gains, or what is recorded changes.
LEMMA TreasuryGains ==
    ASSUME CollateralInv, CollateralTypeOK',
           \/ \E amount \in Stakes : Deposit(amount)
           \/ OnlyRecords \/ UNCHANGED collateralVars
    PROVE  TreasuryCovers'
<1>0. /\ CollateralTypeOK /\ OperationKnows /\ CashoutKnows
      /\ balance \in Nat /\ Moving \in Nat /\ \A gone : OwedBy(book, gone) \in Nat
    BY TreasuryTyped DEF CollateralInv
<1>1. /\ balance' \in Nat /\ balance' >= balance /\ book' = book
      /\ UNCHANGED <<settled, moving, delivered, operation, unseen>>
    <2>1. ASSUME NEW amount \in Stakes, Deposit(amount)
          PROVE  /\ balance' \in Nat /\ balance' >= balance /\ book' = book
                 /\ UNCHANGED <<settled, moving, delivered, operation, unseen>>
        <3>1. amount \in Nat
            BY CollateralAssumption
        <3> QED  BY <1>0, <2>1, <3>1 DEF Deposit
    <2>2. CASE OnlyRecords \/ UNCHANGED collateralVars
        BY <1>0, <2>2, RecordsOnly DEF Stays
    <2> QED  BY <2>1, <2>2
<1>2. /\ Moving' = Moving /\ Left' = Left /\ Told' = Told
      /\ Projected' = Projected /\ Booked' = Booked
    <2>1. Moving' = Moving /\ Left' = Left
        BY <1>1, NothingMoves
    <2> QED  BY <1>1, <2>1 DEF Told, Pending, Projected, Booked
<1>3. \A n \in Nat : n <= 0 + n
    OBVIOUS
<1>4. ASSUME operation.kind = "cashout"
      PROVE  OwedBy(Projected, Left \cup SentFor) \in Nat
    BY <1>0, <1>4, ProjectedTyped, UnpaidTyped DEF CashoutKnows
<1>5. ASSUME operation.pc = "create"
      PROVE  OwedBy(Booked, Left) \in Nat
    BY <1>0, <1>5, ProjectedTyped, UnpaidTyped DEF OperationKnows
<1>6. (balance' + Moving') >= (balance + Moving') + 0
    <2>1. Moving' \in Nat /\ balance' \in Nat /\ balance' >= balance /\ balance \in Nat
        BY <1>0, <1>1, <1>2
    <2>2. \A a, b, m \in Nat : b >= a => (b + m) >= (a + m) + 0
        OBVIOUS
    <2> QED  BY <2>1, <2>2, Zenon
<1>7. (balance' + Moving) >= (balance + Moving') + 0
    BY <1>2, <1>6
<1>8. OwedBy(book', Told') <= 0 + OwedBy(book, Told)
    BY <1>0, <1>1, <1>2, <1>3, Zenon
<1>9. OwedBy(book', Told' \cup (SentFor \ Pending))
         <= 0 + OwedBy(book, Told \cup (SentFor \ Pending))
    BY <1>0, <1>1, <1>2, <1>3, Zenon
<1>10. operation.kind = "cashout" /\ book'[operation.trade].status = "open" =>
          /\ book[operation.trade].status = "open"
          /\ OwedBy(Projected', Left' \cup SentFor)
                <= 0 + OwedBy(Projected, Left \cup SentFor)
    BY <1>1, <1>2, <1>3, <1>4, Zenon
<1>11. operation.pc = "create" => OwedBy(Booked', Left') <= 0 + OwedBy(Booked, Left)
    BY <1>2, <1>3, <1>5, Zenon
<1>12. operation' = operation /\ unseen' = unseen /\ settled' = settled /\ 0 \in Nat
    BY <1>1
<1> QED  BY <1>7, <1>8, <1>9, <1>10, <1>11, <1>12, TreasuryOn

----------------------------------------------------------------------------
(* The invariant *)

LEMMA CollateralStarts ==
    ASSUME CollateralInit
    PROVE  CollateralInv
<1>1. /\ book = [t \in Trades |-> NoBook] /\ settled = {} /\ balance \in Amounts
      /\ moving = <<>> /\ delivered = {} /\ operation = Idle /\ unseen = 0
      /\ onRecord = {} /\ claims = {} /\ firstPaid = [p \in Polls |-> NoTrade]
    BY DEF CollateralInit
<1>2. NoBook \in Books /\ NoBook.status = "none"
    BY DEF NoBook, Books
<1>3. CollateralTypeOK
    <2>1. <<>> \in Seq(Payments) /\ Len(<<>>) = 0 /\ MaxMoving \in Nat
        BY CollateralAssumption
    <2>2. CoreTyped
        BY <1>1, <1>2, <2>1, IdleTyped DEF CoreTyped
    <2>3. RecordsTyped
        BY <1>1 DEF RecordsTyped
    <2> QED  BY <2>2, <2>3, TypesSplit
<1>4. OperationKnows /\ CashoutKnows
    BY <1>1, IdleKnows
<1>5. BooksKnown
    BY <1>1, <1>2 DEF BooksKnown
<1>6. Left = {} /\ Told = {}
    BY <1>1, IdleTyped, PendingIs DEF Left
<1>7. PaymentsKnown
    <2>1. DOMAIN moving = {}
        BY <1>1
    <2> QED  BY <1>1, <1>6, <2>1, IdleTyped DEF PaymentsKnown
<1>8. OwedBy(book, Told) = 0
    <2>0. book \in [Trades -> Books] /\ \A t \in Trades : book[t].status = "none"
        BY <1>1, <1>2
    <2> DEFINE v == Unpaid(book, Told)
    <2>1. v \in [Trades -> Books] /\ \A t \in Trades : v[t].status \notin {"due", "open"}
        BY <2>0, UnpaidTyped, UnpaidAt
    <2>2. OwedBy(book, Told) = Total(DueOf(v), Trades) + Total(WorstOf(v), Polls)
        BY <2>0, UnpaidTyped
    <2> HIDE DEF v
    <2>3. Total(DueOf(v), Trades) = 0
        <3>1. \A t \in Trades : DueOf(v)[t] = 0
            BY <2>1 DEF DueOf
        <3> QED  BY <3>1, TotalZero, CollateralAssumption
    <2>4. \A p, side : Total(SideOf(v, p, side), Trades) = 0
        <3>1. \A p, side : \A t \in Trades : SideOf(v, p, side)[t] = 0
            BY <2>1 DEF SideOf
        <3> QED  BY <3>1, TotalZero, CollateralAssumption
    <2>5. \A p : Total(RefundOf(v, p), Trades) = 0
        <3>1. \A p : \A t \in Trades : RefundOf(v, p)[t] = 0
            BY <2>1 DEF RefundOf
        <3> QED  BY <3>1, TotalZero, CollateralAssumption
    <2>6. Total(WorstOf(v), Polls) = 0
        <3>1. \A p \in Polls : WorstOf(v)[p] = 0
            BY <2>1, <2>4, <2>5, WorstOutcome DEF WorstOf
        <3> QED  BY <3>1, TotalZero, CollateralAssumption
    <2> QED  BY <2>2, <2>3, <2>6
<1>9. Moving = 0
    BY <1>1, MovingNow, MovingNone
<1>10. balance + unseen >= Moving + OwedBy(book, Told)
    <2>1. balance \in Nat
        BY <1>3, MovingTyped
    <2> QED  BY <1>1, <1>8, <1>9, <2>1
<1>11. TreasuryCovers
    BY <1>1, <1>10, IdleTyped, TreasuryIs
<1> QED  BY <1>3, <1>4, <1>5, <1>7, <1>11 DEF CollateralInv

LEMMA CollateralStep ==
    ASSUME CollateralInv, [CollateralNext]_collateralVars
    PROVE  CollateralInv'
<1>0. CollateralTypeOK /\ OperationKnows /\ CashoutKnows /\ BooksKnown /\ PaymentsKnown
    BY DEF CollateralInv
<1>1. CollateralTypeOK' /\ OperationKnows' /\ CashoutKnows' /\ BooksKnown' /\ PaymentsKnown'
    BY <1>0, CollateralTypeStep, KnowsStep, BooksStep, PaymentsStep
<1>2. TreasuryCovers'
    <2>1. ASSUME NEW p \in Polls, NEW side \in {"yes", "no"}, NEW amount \in Stakes,
                 NEW payout \in Returns, CollateralizeQuote(p, side, amount, payout)
          PROVE  TreasuryCovers'
        BY <1>1, <2>1, TreasuryTrade
    <2>2. CASE RecordTrade \/ RecordSettlementPayoutRetry \/ RecordCashout
        BY <1>1, <2>2, TreasuryRecorded
    <2>3. ASSUME NEW amounts \in Spends, SendWalletTokens(amounts)
          PROVE  TreasuryCovers'
        BY <1>1, <2>3, TreasurySpend
    <2>4. ASSUME NEW kind \in {"claim", "retry"}, NEW p \in Polls \cup {NoTrade},
                 NEW ts \in SUBSET Due, SendPayouts(kind, p, ts)
          PROVE  TreasuryCovers'
        BY <1>1, <2>4, TreasuryPayouts
    <2>5. ASSUME NEW t \in Trades, NEW shares \in 1 .. book[t].payout,
                 NEW amount \in 1 .. book[t].amount, NEW proceeds \in 1 .. shares,
                 CashOut(t, shares, amount, proceeds)
          PROVE  TreasuryCovers'
        BY <1>1, <2>5, TreasuryCashOut
    <2>6. CASE TransferToken
        BY <1>1, <2>6, TreasuryTransfer
    <2>7. CASE OperationFails
        BY <1>1, <2>7, TreasuryFails
    <2>8. ASSUME NEW held \in Amounts, AdminUpdateWalletTokenContract(held)
          PROVE  TreasuryCovers'
        BY <2>8, TreasuryOtherToken
    <2>9. ASSUME NEW p \in Polls, NEW outcome \in {"yes", "no", "cancelled"},
                 SettlePollTrades(p, outcome)
          PROVE  TreasuryCovers'
        BY <1>1, <2>9, TreasurySettles
    <2>10. CASE PaymentMined
        BY <1>1, <2>10, TreasuryMined
    <2>11. CASE \/ \E amount \in Stakes : Deposit(amount)
                \/ OnlyRecords \/ UNCHANGED collateralVars
        BY <1>1, <2>11, TreasuryGains
    <2>12. ASSUME NEW t \in Trades, SendClaim(t)
           PROVE  TreasuryCovers'
        BY <1>0, <2>4, <2>12, PaysDue
    <2>13. ASSUME NEW p \in Polls, RetrySettlementPayout(p)
           PROVE  TreasuryCovers'
        BY <1>0, <2>4, <2>13, PaysDue
    <2> QED  BY <2>1, <2>2, <2>3, <2>5, <2>6, <2>7, <2>8, <2>9, <2>10, <2>11, <2>12, <2>13
             DEF CollateralNext, OnlyRecords
<1> QED  BY <1>1, <1>2 DEF CollateralInv

LEMMA CollateralInvariant == CollateralSpec => []CollateralInv
BY CollateralStarts, CollateralStep, PTL DEF CollateralSpec

\* The books of the treasury are of their types, whatever is traded, settled, sent
\* or lost: what a cashout leaves is never less than nothing, and a payment never
\* more than the treasury can hold.
THEOREM CollateralTyped == CollateralSpec => []CollateralTypeOK
<1>1. CollateralInv => CollateralTypeOK
    BY DEF CollateralInv
<1> QED  BY <1>1, CollateralInvariant, PTL

\* The collateral guarantee (sendWalletTokensLocked, collateralizeQuote and
\* cashoutPosition): for every number of markets, trades and payments, the treasury
\* covers the worst outcome of each market and every payout that has not left, once all
\* that is under way is mined, except for what the last operation's check did not see.
THEOREM TreasuryGuarantees == CollateralSpec => []TreasuryCoversWhatIsOwed
<1>1. ASSUME CollateralInv
      PROVE  TreasuryCoversWhatIsOwed
    <2>1. CollateralTypeOK /\ OperationKnows /\ TreasuryCovers /\ book \in [Trades -> Books]
        BY <1>1, TypesSplit DEF CollateralInv
    <2>2. balance + unseen >= Moving + OwedBy(book, Told)
        BY <2>1, TreasuryIs
    <2>3. OwedBy(book, Left) <= OwedBy(book, Told)
        BY <2>1, PendingIs, OwedSame
    <2>4. /\ balance \in Nat /\ unseen \in Nat /\ Moving \in Nat
          /\ OwedBy(book, Left) \in Nat /\ OwedBy(book, Told) \in Nat
        BY <2>1, TreasuryTyped
    <2>5. Owed = OwedBy(book, Left)
        BY DEF Owed, OwedBy
    <2> QED  BY <2>2, <2>3, <2>4, <2>5 DEF TreasuryCoversWhatIsOwed
<1> QED  BY <1>1, CollateralInvariant, PTL

=============================================================================
