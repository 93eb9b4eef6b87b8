----------------------------- MODULE RulesProofs -----------------------------
(***************************************************************************)
(* What is bought, what a strategy answers and what the owner is told, for *)
(* every value of the constants: the entry pass and its limits, the bars   *)
(* that decide a signal, and the text of the messages.                     *)
(*                                                                         *)
(* All of them add up: what positions cost, what sections say, what a      *)
(* share closed at.  A sum of the library folds over a set in an order of  *)
(* its own; it is shown to be a function on the subsets that exists and is *)
(* the only one, and what a sum is follows from a smallest subset of which *)
(* it is not so.                                                           *)
(***************************************************************************)
EXTENDS EntryGate, OwnerMessages, StrategyRules, FiniteSetTheorems,
        SequenceTheorems, WellFoundedInduction, TLAPS

-----------------------------------------------------------------------------
(* Sums.  Total adds the values of a function in an order of its own; a sum *)
(* over each set of arguments is a function that one more step of the      *)
(* addition leaves alone.                                                  *)
Chosen(s) == CHOOSE x \in s : TRUE

OneMore(g, f) ==
  [s \in SUBSET DOMAIN f |-> IF s = {} THEN 0 ELSE f[Chosen(s)] + g[s \ {Chosen(s)}]]

SumsUp(g, f) == g = OneMore(g, f)

(* What is false of some subset is false of one of which it is true once    *)
(* any element is taken away.                                               *)
LEMMA SmallestSubset ==
  ASSUME NEW S, IsFiniteSet(S), NEW B, B \subseteq SUBSET S, B # {}
  PROVE  \E T \in B : \A x \in T : T \ {x} \notin B
<1> DEFINE R == StrictSubsetOrdering(S)
<1>1. IsWellFoundedOn(R, SUBSET S)
  BY FS_StrictSubsetOrderingWellFounded, FS_FiniteSubsetsOfFinite
<1>2. \A T \in SUBSET S : \A x \in T : <<T \ {x}, T>> \in R
  BY DEF StrictSubsetOrdering
<1> HIDE DEF R
<1>3. PICK T \in B : \A U \in B : ~ (<<U, T>> \in R)
  BY <1>1, WFMin
<1> QED BY <1>2, <1>3

LEMMA LeastFailing ==
  ASSUME NEW S, S \subseteq Nat, S # {}
  PROVE  \E m \in S : \A n \in Nat : n < m => n \notin S
<1> DEFINE R == OpToRel(<, Nat)
<1>1. IsWellFoundedOn(R, Nat)
  BY NatLessThanWellFounded
<1>2. \A a, b \in Nat : a < b => <<a, b>> \in R
  BY DEF OpToRel
<1> HIDE DEF R
<1>3. PICK m \in S : \A n \in S : ~ (<<n, m>> \in R)
  BY <1>1, WFMin
<1> QED BY <1>2, <1>3

Numbers(f) == IsFiniteSet(DOMAIN f) /\ f \in [DOMAIN f -> Int]

LEMMA ChosenIsIn == \A s : s # {} => Chosen(s) \in s
BY DEF Chosen

LEMMA OneMoreType ==
  ASSUME NEW f, Numbers(f), NEW g \in [SUBSET DOMAIN f -> Int]
  PROVE  OneMore(g, f) \in [SUBSET DOMAIN f -> Int]
BY ChosenIsIn DEF OneMore, Numbers

LEMMA SumsExist ==
  ASSUME NEW f, Numbers(f)
  PROVE  \E g \in [SUBSET DOMAIN f -> Int] : SumsUp(g, f)
<1> DEFINE D == DOMAIN f
           UpTo(g, n) == \A s \in SUBSET D : Cardinality(s) <= n => g[s] = OneMore(g, f)[s]
           Bad == {n \in Nat : ~ \E g \in [SUBSET D -> Int] : UpTo(g, n)}
<1>1. \A s \in SUBSET D : IsFiniteSet(s) /\ Cardinality(s) \in Nat
                          /\ Cardinality(s) <= Cardinality(D)
  BY FS_Subset, FS_CardinalityType DEF Numbers
<1>2. Cardinality(D) \in Nat
  BY FS_CardinalityType DEF Numbers
<1>3. 0 \notin Bad
  <2> DEFINE zero == [s \in SUBSET D |-> 0]
  <2>1. \A s \in SUBSET D : Cardinality(s) <= 0 => s = {}
    BY <1>1, FS_EmptySet
  <2>2. UpTo(zero, 0)
    BY <2>1 DEF OneMore
  <2>3. zero \in [SUBSET D -> Int]
    OBVIOUS
  <2> QED BY <2>2, <2>3
<1>4. \A n \in Nat : n \notin Bad => n + 1 \notin Bad
  <2> SUFFICES ASSUME NEW n \in Nat, NEW g \in [SUBSET D -> Int], UpTo(g, n)
               PROVE  \E h \in [SUBSET D -> Int] : UpTo(h, n + 1)
    OBVIOUS
  <2> DEFINE h == OneMore(g, f)
  <2>1. h \in [SUBSET D -> Int]
    BY OneMoreType
  <2>2. UpTo(h, n + 1)
    <3> SUFFICES ASSUME NEW s \in SUBSET D, Cardinality(s) <= n + 1
                 PROVE  h[s] = OneMore(h, f)[s]
      OBVIOUS
    <3>1. CASE s = {}
      BY <3>1 DEF OneMore
    <3>2. CASE s # {}
      <4> DEFINE u == s \ {Chosen(s)}
      <4>1. Chosen(s) \in s
        BY <3>2, ChosenIsIn
      <4>2. u \in SUBSET D /\ Cardinality(u) <= n
        BY <1>1, <4>1, FS_RemoveElement
      <4>3. g[u] = h[u]
        BY <4>2
      <4>4. h[s] = f[Chosen(s)] + g[u]
        BY <3>2 DEF OneMore
      <4>5. OneMore(h, f)[s] = f[Chosen(s)] + h[u]
        BY <3>2 DEF OneMore
      <4> QED BY <4>3, <4>4, <4>5
    <3> QED BY <3>1, <3>2
  <2> HIDE DEF h
  <2> QED BY <2>1, <2>2
<1>5. Bad = {}
  <2> SUFFICES ASSUME Bad # {} PROVE FALSE
    OBVIOUS
  <2>0. Bad \subseteq Nat
    OBVIOUS
  <2> HIDE DEF Bad
  <2>1. PICK m \in Bad : \A n \in Nat : n < m => n \notin Bad
    BY <2>0, LeastFailing
  <2>2. m \in Nat /\ m # 0
    BY <2>0, <1>3
  <2>3. m - 1 \in Nat /\ m - 1 \notin Bad
    BY <2>1, <2>2
  <2> QED BY <1>4, <2>2, <2>3
<1>6. PICK g \in [SUBSET D -> Int] : UpTo(g, Cardinality(D))
  BY <1>2, <1>5
<1>7. \A s \in SUBSET D : g[s] = OneMore(g, f)[s]
  BY <1>1, <1>6
<1>8. OneMore(g, f) \in [SUBSET D -> Int]
  BY OneMoreType
<1>9. g = OneMore(g, f)
  BY <1>7, <1>8
<1> QED BY <1>9 DEF SumsUp

(* Two sums of a function are the same: they agree on each set once they    *)
(* agree on it without the element that is chosen.                          *)
LEMMA SumsAreOne ==
  ASSUME NEW f, Numbers(f), NEW g, NEW h, SumsUp(g, f), SumsUp(h, f)
  PROVE  g = h
<1> DEFINE D == DOMAIN f
           Bad == {s \in SUBSET D : g[s] # h[s]}
<1>1. \A s \in SUBSET D : s # {} =>
        /\ Chosen(s) \in s /\ s \ {Chosen(s)} \in SUBSET D
        /\ g[s] = f[Chosen(s)] + g[s \ {Chosen(s)}]
        /\ h[s] = f[Chosen(s)] + h[s \ {Chosen(s)}]
  BY ChosenIsIn DEF SumsUp, OneMore
<1>2. g[{}] = 0 /\ h[{}] = 0
  BY DEF SumsUp, OneMore
<1>3. Bad = {}
  <2> SUFFICES ASSUME Bad # {} PROVE FALSE
    OBVIOUS
  <2>1. Bad \subseteq SUBSET D /\ IsFiniteSet(D)
    BY DEF Numbers
  <2>2. PICK T \in Bad : \A x \in T : T \ {x} \notin Bad
    <3> HIDE DEF Bad
    <3> QED BY <2>1, SmallestSubset
  <2> QED BY <1>1, <1>2, <2>2
<1>4. g = [s \in SUBSET D |-> g[s]] /\ h = [s \in SUBSET D |-> h[s]]
  BY DEF SumsUp, OneMore
<1> QED BY <1>3, <1>4

LEMMA TotalFolds ==
  ASSUME NEW f, Numbers(f)
  PROVE  \E g \in [SUBSET DOMAIN f -> Int] : SumsUp(g, f) /\ Total(f) = g[DOMAIN f]
<1> DEFINE G == CHOOSE g : SumsUp(g, f)
<1>1. PICK g \in [SUBSET DOMAIN f -> Int] : SumsUp(g, f)
  BY SumsExist
<1>2. SumsUp(G, f)
  BY <1>1
<1>3. Total(f) = G[DOMAIN f]
  BY DEF Total, SumFunction, SumFunctionOnSet, FoldFunctionOnSet, MapThenFoldSet,
         SumsUp, OneMore, Chosen
<1>4. G = g
  <2> HIDE DEF G
  <2> QED BY <1>1, <1>2, SumsAreOne
<1> QED BY <1>1, <1>3, <1>4

(* What the sums of this module are: the sum of numbers is a number, of no  *)
(* number below zero not below zero, of zeros zero; and it moves with the   *)
(* one value that changes.                                                  *)
LEMMA TotalIsInt ==
  ASSUME NEW f, Numbers(f)
  PROVE  Total(f) \in Int
<1>1. PICK g \in [SUBSET DOMAIN f -> Int] : SumsUp(g, f) /\ Total(f) = g[DOMAIN f]
  BY TotalFolds
<1> QED BY <1>1

LEMMA TotalNotNegative ==
  ASSUME NEW f, Numbers(f), \A x \in DOMAIN f : f[x] >= 0
  PROVE  Total(f) >= 0
<1>1. PICK g \in [SUBSET DOMAIN f -> Int] : SumsUp(g, f) /\ Total(f) = g[DOMAIN f]
  BY TotalFolds
<1> DEFINE Bad == {s \in SUBSET DOMAIN f : ~ g[s] >= 0}
<1>2. \A s \in SUBSET DOMAIN f : s # {} =>
        Chosen(s) \in s /\ g[s] = f[Chosen(s)] + g[s \ {Chosen(s)}]
  BY <1>1, ChosenIsIn DEF SumsUp, OneMore
<1>3. g[{}] = 0 /\ 0 >= 0
  BY <1>1 DEF SumsUp, OneMore
<1>4. Bad = {}
  <2> SUFFICES ASSUME Bad # {} PROVE FALSE
    OBVIOUS
  <2>1. Bad \subseteq SUBSET DOMAIN f /\ IsFiniteSet(DOMAIN f)
    BY DEF Numbers
  <2>2. PICK T \in Bad : \A x \in T : T \ {x} \notin Bad
    <3> HIDE DEF Bad
    <3> QED BY <2>1, SmallestSubset
  <2>3. T # {} /\ T \in SUBSET DOMAIN f /\ ~ g[T] >= 0
    <3>1. T \in Bad
      BY <2>2
    <3>2. T \in SUBSET DOMAIN f /\ ~ g[T] >= 0
      BY <3>1
    <3> QED BY <1>3, <3>2
  <2>4. Chosen(T) \in T /\ g[T] = f[Chosen(T)] + g[T \ {Chosen(T)}]
    BY <1>2, <2>3
  <2>5. g[T \ {Chosen(T)}] >= 0
    BY <2>2, <2>4
  <2>6. f[Chosen(T)] >= 0 /\ f[Chosen(T)] \in Int
    BY <2>3, <2>4 DEF Numbers
  <2> QED BY <2>3, <2>4, <2>5, <2>6
<1>5. g[DOMAIN f] >= 0
  BY <1>4
<1> QED BY <1>1, <1>5

LEMMA TotalOfZeros ==
  ASSUME NEW f, Numbers(f), \A x \in DOMAIN f : f[x] = 0
  PROVE  Total(f) = 0
<1>1. PICK g \in [SUBSET DOMAIN f -> Int] : SumsUp(g, f) /\ Total(f) = g[DOMAIN f]
  BY TotalFolds
<1> DEFINE zero == [s \in SUBSET DOMAIN f |-> 0]
<1>2. \A s \in SUBSET DOMAIN f : s # {} => f[Chosen(s)] = 0
  BY ChosenIsIn
<1>3. SumsUp(zero, f)
  BY <1>2, ChosenIsIn DEF SumsUp, OneMore
<1>4. g = zero
  <2> HIDE DEF zero
  <2> QED BY <1>1, <1>3, SumsAreOne
<1> QED BY <1>1, <1>4

LEMMA TotalMoves ==
  ASSUME NEW f, Numbers(f), NEW h, Numbers(h), DOMAIN h = DOMAIN f,
         NEW t \in DOMAIN f, \A x \in DOMAIN f : x # t => h[x] = f[x]
  PROVE  Total(h) = Total(f) + h[t] - f[t]
<1>1. PICK g \in [SUBSET DOMAIN f -> Int] : SumsUp(g, f) /\ Total(f) = g[DOMAIN f]
  BY TotalFolds
<1>2. f[t] \in Int /\ h[t] \in Int
  BY DEF Numbers
<1> DEFINE moved == [s \in SUBSET DOMAIN f |-> IF t \in s THEN g[s] + h[t] - f[t] ELSE g[s]]
<1>3. SumsUp(moved, h)
  <2>1. \A s \in SUBSET DOMAIN f : moved[s] = OneMore(moved, h)[s]
    <3> SUFFICES ASSUME NEW s \in SUBSET DOMAIN f
                 PROVE  moved[s] = OneMore(moved, h)[s]
      OBVIOUS
    <3>1. CASE s = {}
      BY <1>1, <3>1 DEF SumsUp, OneMore
    <3>2. CASE s # {}
      <4> DEFINE c == Chosen(s)
                 u == s \ {c}
      <4>1. c \in s /\ u \in SUBSET DOMAIN f
        BY <3>2, ChosenIsIn
      <4>2. g[s] = f[c] + g[u]
        BY <1>1, <3>2 DEF SumsUp, OneMore
      <4>3. OneMore(moved, h)[s] = h[c] + moved[u]
        BY <3>2, <4>1 DEF OneMore
      <4>4. g[u] \in Int /\ f[c] \in Int /\ h[c] \in Int
        BY <1>1, <4>1 DEF Numbers
      <4>5. t \in u <=> t \in s /\ t # c
        OBVIOUS
      <4>6. moved[s] = (IF t \in s THEN g[s] + h[t] - f[t] ELSE g[s])
            /\ moved[u] = (IF t \in u THEN g[u] + h[t] - f[t] ELSE g[u])
        BY <4>1
      <4>7. c # t => h[c] = f[c]
        BY <4>1
      <4> HIDE DEF moved, c, u
      <4> QED BY <1>2, <4>1, <4>2, <4>3, <4>4, <4>5, <4>6, <4>7
    <3> QED BY <3>1, <3>2
  <2>2. moved \in [SUBSET DOMAIN f -> Int]
    BY <1>1, <1>2
  <2>3. OneMore(moved, h) \in [SUBSET DOMAIN f -> Int]
    BY <2>2, OneMoreType
  <2> HIDE DEF moved
  <2> QED BY <2>1, <2>2, <2>3 DEF SumsUp
<1>4. PICK k \in [SUBSET DOMAIN h -> Int] : SumsUp(k, h) /\ Total(h) = k[DOMAIN h]
  BY TotalFolds
<1>5. k = moved
  <2> HIDE DEF moved
  <2> QED BY <1>3, <1>4, SumsAreOne
<1>6. moved[DOMAIN f] = g[DOMAIN f] + h[t] - f[t]
  OBVIOUS
<1> QED BY <1>1, <1>4, <1>5, <1>6

-----------------------------------------------------------------------------
(* Arithmetic *)

LEMMA DivisionBounds ==
  ASSUME NEW a \in Int, NEW k \in Nat, k > 0
  PROVE  /\ a \div k \in Int
         /\ (a \div k) * k <= a /\ a < (a \div k) * k + k
OBVIOUS

LEMMA MinOfTwo ==
  ASSUME NEW a \in Int, NEW b \in Int
  PROVE  /\ Min({a, b}) \in {a, b} /\ Min({a, b}) <= a /\ Min({a, b}) <= b
<1>1. \E x \in {a, b} : \A y \in {a, b} : x <= y
  OBVIOUS
<1> QED BY <1>1 DEF Min

LEMMA MinOfThree ==
  ASSUME NEW a \in Int, NEW b \in Int, NEW c \in Int
  PROVE  /\ Min({a, b, c}) \in {a, b, c}
         /\ Min({a, b, c}) <= a /\ Min({a, b, c}) <= b /\ Min({a, b, c}) <= c
<1>1. \E x \in {a, b, c} : \A y \in {a, b, c} : x <= y
  OBVIOUS
<1> QED BY <1>1 DEF Min

LEMMA MaxWithZero ==
  ASSUME NEW a \in Int
  PROVE  Max({0, a}) = IF a >= 0 THEN a ELSE 0
<1>1. \E x \in {0, a} : \A y \in {0, a} : x >= y
  OBVIOUS
<1> QED BY <1>1 DEF Max

LEMMA ProductGrows ==
  ASSUME NEW a \in Int, NEW b \in Int, NEW k \in Nat, a <= b
  PROVE  a * k <= b * k
OBVIOUS

LEMMA ProductReflects ==
  ASSUME NEW a \in Int, NEW b \in Int, NEW k \in Nat, k > 0, a * k < b * k
  PROVE  a < b
OBVIOUS

-----------------------------------------------------------------------------
(* The entry pass *)

HeldIn(a) == {t \in Tickers : a.lots[t] > 0}
Blocked == [t \in Tickers |-> waiting[t].blocked]
Above == [t \in Tickers |-> waiting[t].above]
Accounts == [lots : [Tickers -> Nat], paid : [Tickers -> Nat], roubles : Int]

GateTypes ==
  /\ account \in Accounts /\ behind \in Accounts
  /\ waiting \in [Tickers -> [lots : Nat, blocked : Nat, above : Nat]]
  /\ arrived \in [Tickers -> Nat] /\ rowLots \in [Tickers -> Nat]
  /\ extra \in [Tickers -> Nat]
  /\ portfolio.held \subseteq Tickers
  /\ portfolio.openCost \in Int /\ portfolio.cash \in Int
  /\ turn \in Nat
  /\ lagged \in BOOLEAN /\ overlooked \in BOOLEAN /\ clamped \in BOOLEAN

(* An order blocks at least what it costs above its price, and nothing when *)
(* there is none; no more was paid above the price than was paid.           *)
OrdersArePriced ==
  \A t \in Tickers :
    /\ waiting[t].above <= waiting[t].blocked
    /\ waiting[t].lots = 0 => waiting[t].blocked = 0
    /\ extra[t] <= account.paid[t]

(* As long as no entry was decided blindly, the shares of a ticker are in   *)
(* its row or are the fill of the one entry that is unresolved, and while   *)
(* there are any no entry is under way.                                     *)
RowsShow ==
  ~overlooked =>
    \A t \in Tickers :
      /\ account.lots[t] = rowLots[t] + arrived[t]
      /\ rowLots[t] > 0 => arrived[t] = 0
      /\ account.lots[t] > 0 => waiting[t].lots = 0

(* A portfolio that does not lag shows the account as it is in this pass,   *)
(* and no rouble too many.                                                  *)
ReadIsTrue ==
  turn > 0 /\ ~lagged =>
    /\ portfolio.held = HeldIn(account)
    /\ portfolio.openCost = Total(account.paid)
    /\ portfolio.cash <= PortfolioOf(account).cash

(* Shares in no row and of no unresolved entry were there before the last   *)
(* fill: whichever portfolio is answered shows them.                        *)
OldSharesShow ==
  \A t \in Tickers :
    account.lots[t] > 0 /\ rowLots[t] = 0 /\ arrived[t] = 0 =>
      /\ behind.lots[t] > 0
      /\ turn > 0 => t \in portfolio.held

TickersWithinLimit ==
  Cardinality({t \in Tickers : account.lots[t] + waiting[t].lots > 0}) <= MaxPositions

CostWithinLimit ==
  Total(account.paid) + Total(Blocked) <= Allocated + Total(extra) + Total(Above)

GateInv ==
  /\ GateTypes /\ OrdersArePriced /\ RowsShow /\ ReadIsTrue /\ OldSharesShow
  /\ ~overlooked => TickersWithinLimit /\ CostWithinLimit

LEMMA WatchOrderListsTickers ==
  /\ Cardinality(Tickers) \in Nat /\ Cardinality(Tickers) > 0
  /\ WatchOrder \in [1 .. Cardinality(Tickers) -> Tickers]
  /\ Len(WatchOrder) = Cardinality(Tickers)
<1>1. Cardinality(Tickers) \in Nat /\ ExistsBijection(1 .. Cardinality(Tickers), Tickers)
  BY FS_CardinalityType, GateLimits
<1>2. Cardinality(Tickers) # 0
  BY FS_EmptySet, GateLimits
<1>3. \E f \in [1 .. Cardinality(Tickers) -> Tickers] : IsInjective(f)
  BY <1>1 DEF ExistsBijection, Bijection, Injection, IsInjective
<1>4. WatchOrder \in [1 .. Cardinality(Tickers) -> Tickers]
  BY <1>3 DEF WatchOrder, SetToSeq
<1>5. WatchOrder \in Seq(Tickers)
  BY <1>1, <1>4
<1>6. Len(WatchOrder) = Cardinality(Tickers)
  BY <1>1, <1>4, <1>5
<1> QED BY <1>1, <1>2, <1>4, <1>6

LEMMA LookingAtATicker ==
  ASSUME turn \in Nat, NEW t \in Looking
  PROVE  t \in Tickers /\ turn > 0
<1> DEFINE n == Cardinality(Tickers)
<1>1. turn > 0 /\ t = WatchOrder[1 + ((turn - 1) % Len(WatchOrder))]
  BY DEF Looking
<1>2. 1 + ((turn - 1) % n) \in 1 .. n
  BY <1>1, WatchOrderListsTickers
<1> QED BY <1>1, <1>2, WatchOrderListsTickers

LEMMA OnwardsType ==
  ASSUME turn \in Nat, Onwards
  PROVE  turn' \in Nat
<1> DEFINE k == 1 + Strategies * Len(WatchOrder)
<1>1. k \in Nat /\ k > 0
  BY WatchOrderListsTickers, GateLimits
<1>2. turn' = (turn + 1) % k
  BY DEF Onwards
<1> HIDE DEF k
<1> QED BY <1>1, <1>2

(* What the portfolio of an account says. *)
LEMMA PortfolioSays ==
  ASSUME GateTypes, NEW a \in Accounts
  PROVE  /\ Total(a.paid) \in Int /\ Total(Blocked) \in Int
         /\ PortfolioOf(a).held = HeldIn(a)
         /\ PortfolioOf(a).openCost = Total(a.paid)
         /\ PortfolioOf(a).cash = IF a.roubles - Total(Blocked) >= 0
                                  THEN a.roubles - Total(Blocked) ELSE 0
         /\ PortfolioOf(a).cash \in Nat
<1>1. Numbers(a.paid)
  BY GateLimits DEF Numbers, Accounts
<1>2. Numbers(Blocked)
  BY GateLimits DEF Numbers, Blocked, GateTypes
<1>3. Total(a.paid) \in Int /\ Total(Blocked) \in Int /\ a.roubles \in Int
  BY <1>1, <1>2, TotalIsInt DEF Accounts
<1>4. PortfolioOf(a).cash = Max({0, a.roubles - Total(Blocked)})
  BY DEF PortfolioOf, Blocked
<1>5. PortfolioOf(a).held = HeldIn(a) /\ PortfolioOf(a).openCost = Total(a.paid)
  BY DEF PortfolioOf, HeldIn
<1>6. a.roubles - Total(Blocked) \in Int
  BY <1>3
<1>7. Max({0, a.roubles - Total(Blocked)})
        = IF a.roubles - Total(Blocked) >= 0 THEN a.roubles - Total(Blocked) ELSE 0
  BY <1>6, MaxWithZero
<1> QED BY <1>3, <1>4, <1>5, <1>6, <1>7

(* Lots never cost more than the money they were sized within. *)
LEMMA LotsWithinBound ==
  ASSUME NEW m \in Int, NEW c \in Nat, c > 0
  PROVE  /\ LotsWithin(m, c) \in Int
         /\ LotsWithin(m, c) > 0 => LotsWithin(m, c) * (100 * c) <= m
<1>1. 100 * c \in Nat /\ 100 * c > 0
  OBVIOUS
<1> DEFINE k == 100 * c
<1>2. LotsWithin(m, c) = IF m < k THEN 0 ELSE m \div k
  BY DEF LotsWithin
<1>3. m \div k \in Int /\ (m \div k) * k <= m
  <2> HIDE DEF k
  <2> QED BY <1>1, DivisionBounds DEF k
<1> QED BY <1>2, <1>3

LEMMA SizedWithin ==
  ASSUME GateTypes, NEW t \in Tickers, NEW price \in RefPrices
  PROVE  LET sized == Decision(t, price).lots
         IN  /\ sized \in Int
             /\ sized > 0 =>
                  /\ t \notin portfolio.held
                  /\ Cardinality(portfolio.held) < MaxPositions
                  /\ sized * price <= Allocated - portfolio.openCost
                  /\ sized * (100 * price) <= portfolio.cash * (100 - ReservePct)
<1> DEFINE budget == Allocated * SizePct
           head == 100 * (Allocated - portfolio.openCost)
           cash == portfolio.cash * (100 - ReservePct)
           room == Min({budget, head, cash})
           lots == LotsWithin(room, price)
           sized == Decision(t, price).lots
<1>1. /\ price \in Nat /\ price > 0 /\ Allocated \in Nat /\ SizePct \in Int
      /\ ReservePct \in Int /\ MaxPositions \in Nat
      /\ portfolio.openCost \in Int /\ portfolio.cash \in Int
  BY GateLimits DEF GateTypes
<1>2. budget \in Int /\ head \in Int /\ cash \in Int
  BY <1>1
<1>3. room \in Int /\ room <= head /\ room <= cash
  <2> HIDE DEF budget, head, cash
  <2> QED BY <1>2, MinOfThree
<1>4. lots \in Int /\ (lots > 0 => lots * (100 * price) <= room)
  <2> HIDE DEF room
  <2> QED BY <1>1, <1>3, LotsWithinBound
<1>5. SizePosition(price, Allocated, portfolio.cash, SizePct, portfolio.openCost, ReservePct)
        = lots
  BY <1>1 DEF SizePosition, PositionBudget
<1>6. \/ sized = 0
      \/ /\ sized = lots /\ t \notin portfolio.held
         /\ ~ Cardinality(portfolio.held) >= MaxPositions
  <2> HIDE DEF lots
  <2> QED BY <1>5 DEF Decision, Check, Rejected, Approved, Limits
<1>7. Cardinality(portfolio.held) \in Nat
  BY FS_Subset, FS_CardinalityType, GateLimits DEF GateTypes
<1> HIDE DEF sized
<1>8. sized \in Int
  BY <1>4, <1>6
<1>9. ASSUME sized > 0
      PROVE  /\ t \notin portfolio.held /\ Cardinality(portfolio.held) < MaxPositions
             /\ sized * (100 * price) <= head /\ sized * (100 * price) <= cash
  <2>1. sized = lots /\ t \notin portfolio.held /\ ~ Cardinality(portfolio.held) >= MaxPositions
    BY <1>6, <1>9
  <2>2. Cardinality(portfolio.held) < MaxPositions
    BY <1>1, <1>7, <2>1
  <2>3. sized * (100 * price) <= room
    BY <1>4, <1>9, <2>1
  <2>4. sized * (100 * price) \in Int
    BY <1>1, <1>8
  <2> HIDE DEF room, head, cash
  <2> QED BY <1>2, <1>3, <2>1, <2>2, <2>3, <2>4
<1>10. ASSUME sized > 0 PROVE sized * price <= Allocated - portfolio.openCost
  <2>1. sized * (100 * price) = 100 * (sized * price)
    BY <1>1, <1>8
  <2>2. sized * price \in Int
    BY <1>1, <1>8
  <2>3. 100 * (sized * price) <= 100 * (Allocated - portfolio.openCost)
    BY <1>9, <1>10, <2>1
  <2> QED BY <1>1, <2>2, <2>3
<1> QED BY <1>8, <1>9, <1>10 DEF sized

-----------------------------------------------------------------------------
(* open_position *)

Got(t, price, fillPrice) == Min({Decision(t, price).lots, AllowedLots(fillPrice)})

BoughtAccount(t, got, fillPrice) ==
  [account EXCEPT !.lots[t] = @ + got, !.paid[t] = @ + got * fillPrice,
                  !.roubles = @ - got * fillPrice]

(* The three outcomes of an entry, named. *)
Filled(t, got, price, fillPrice) ==
  /\ got > 0
  /\ account' = BoughtAccount(t, got, fillPrice)
  /\ rowLots' = [rowLots EXCEPT ![t] = got]
  /\ extra' = [extra EXCEPT ![t] = @ + got * (fillPrice - price)]
  /\ Read(BoughtAccount(t, got, fillPrice))
  /\ Onwards
  /\ UNCHANGED <<waiting, arrived>>

Refused ==
  /\ Onwards
  /\ UNCHANGED <<account, waiting, rowLots, portfolio, behind, lagged, extra, arrived>>

Unknown(t, got, price, fillPrice) ==
  /\ got > 0
  /\ turn' = 0
  /\ \/ UNCHANGED waiting
     \/ waiting' = [waiting EXCEPT ![t] =
                      [lots |-> @.lots + got, blocked |-> @.blocked + got * fillPrice,
                       above |-> @.above + got * (fillPrice - price)]]
  /\ UNCHANGED <<account, rowLots, portfolio, behind, lagged, extra, arrived>>

LEMMA EnterEndsInOne ==
  ASSUME NEW t, NEW price, NEW fillPrice, Enter(t, price, fillPrice)
  PROVE  \/ Filled(t, Got(t, price, fillPrice), price, fillPrice)
         \/ Refused
         \/ Unknown(t, Got(t, price, fillPrice), price, fillPrice)
BY DEF Enter, Filled, Refused, Unknown, Got, BoughtAccount, ReadAgain

LEMMA GotAtMostSized ==
  ASSUME GateInv, NEW t \in Tickers, NEW price \in RefPrices, NEW slip \in {0, Slip}
  PROVE  /\ Got(t, price, price + slip) \in Int
         /\ Got(t, price, price + slip) <= Decision(t, price).lots
         /\ price \in Nat /\ price > 0 /\ slip \in Nat
<1>1. price \in Nat /\ price > 0 /\ slip \in Nat
  BY GateLimits
<1>2. PortfolioOf(account).cash \in Nat
  BY PortfolioSays DEF GateInv, GateTypes
<1>3. AllowedLots(price + slip) \in Int
  BY <1>1, <1>2, DivisionBounds DEF AllowedLots
<1>4. Decision(t, price).lots \in Int
  BY SizedWithin DEF GateInv
<1> QED BY <1>1, <1>3, <1>4, MinOfTwo DEF Got

(* What is known of an entry that is posted. *)
LEMMA Entering ==
  ASSUME GateInv, NEW t \in Tickers, turn > 0, NEW price \in RefPrices,
         NEW slip \in {0, Slip}, Enter(t, price, price + slip)
  PROVE  /\ rowLots[t] = 0
         /\ t \notin portfolio.held
         /\ account.lots[t] > 0 => arrived[t] > 0
         /\ overlooked' \in BOOLEAN
         /\ ~overlooked' =>
              /\ ~overlooked /\ ~lagged
              /\ \A u \in Tickers : waiting[u].lots = 0
              /\ account.lots[t] = 0
              /\ Cardinality(HeldIn(account)) < MaxPositions
              /\ Decision(t, price).lots * price <= Allocated - Total(account.paid)
<1>1. Decision(t, price).lots > 0 /\ ~ rowLots[t] > 0
  BY DEF Enter, AlreadyOpen
<1>2. /\ t \notin portfolio.held /\ Cardinality(portfolio.held) < MaxPositions
      /\ Decision(t, price).lots * price <= Allocated - portfolio.openCost
  BY <1>1, SizedWithin DEF GateInv
<1>3. rowLots[t] = 0 /\ arrived[t] \in Nat /\ account.lots[t] \in Nat
  BY <1>1 DEF GateInv, GateTypes, Accounts
<1>4. account.lots[t] > 0 => arrived[t] > 0
  BY <1>2, <1>3 DEF GateInv, OldSharesShow
<1>5. overlooked' = (overlooked \/ lagged \/ \E u \in Tickers : waiting[u].lots > 0)
  BY DEF Enter
<1>6. overlooked' \in BOOLEAN
  BY <1>5 DEF GateInv, GateTypes
<1>7. ASSUME ~overlooked'
      PROVE  /\ ~overlooked /\ ~lagged
             /\ \A u \in Tickers : waiting[u].lots = 0
  <2>1. ~overlooked /\ ~lagged /\ \A u \in Tickers : ~ waiting[u].lots > 0
    BY <1>5, <1>7
  <2>2. \A u \in Tickers : waiting[u].lots \in Nat
    BY DEF GateInv, GateTypes
  <2> QED BY <2>1, <2>2
<1>8. ASSUME ~overlooked'
      PROVE  portfolio.held = HeldIn(account) /\ portfolio.openCost = Total(account.paid)
  BY <1>7, <1>8 DEF GateInv, ReadIsTrue
<1>9. ASSUME ~overlooked' PROVE account.lots[t] = 0
  <2>1. t \notin HeldIn(account)
    BY <1>2, <1>8, <1>9
  <2> QED BY <1>3, <2>1 DEF HeldIn
<1> QED BY <1>2, <1>3, <1>4, <1>6, <1>7, <1>8, <1>9

LEMMA CostsOf ==
  ASSUME NEW got \in Int, got > 0, NEW price \in Nat, NEW slip \in Nat
  PROVE  /\ got * (price + slip) \in Nat /\ got * slip \in Nat
         /\ got * (price + slip) = got * price + got * slip
         /\ got * ((price + slip) - price) = got * slip
         /\ got * slip <= got * (price + slip)
<1>1. got * price \in Nat /\ got * slip \in Nat
  OBVIOUS
<1>2. got * (price + slip) = got * price + got * slip
  OBVIOUS
<1>3. (price + slip) - price = slip
  OBVIOUS
<1> QED BY <1>1, <1>2, <1>3

LEMMA SumsOfGate ==
  ASSUME GateTypes
  PROVE  /\ Numbers(account.paid) /\ Numbers(extra) /\ Numbers(Blocked) /\ Numbers(Above)
         /\ Total(account.paid) \in Int /\ Total(extra) \in Int
         /\ Total(Blocked) \in Int /\ Total(Above) \in Int
         /\ Total(extra) >= 0 /\ Total(Above) >= 0 /\ Total(Blocked) >= 0
<1>1. Numbers(account.paid)
  BY GateLimits DEF Numbers, GateTypes, Accounts
<1>2. Numbers(extra) /\ \A x \in DOMAIN extra : extra[x] >= 0
  BY GateLimits DEF Numbers, GateTypes
<1>3. Numbers(Blocked) /\ \A x \in DOMAIN Blocked : Blocked[x] >= 0
  BY GateLimits DEF Numbers, Blocked, GateTypes
<1>4. Numbers(Above) /\ \A x \in DOMAIN Above : Above[x] >= 0
  BY GateLimits DEF Numbers, Above, GateTypes
<1> QED BY <1>1, <1>2, <1>3, <1>4, TotalIsInt, TotalNotNegative

AccountWith(t, lots, paid, roubles) ==
  [account EXCEPT !.lots[t] = lots, !.paid[t] = paid, !.roubles = roubles]

LEMMA AccountWithIs ==
  ASSUME account \in Accounts, NEW t \in Tickers, NEW lots, NEW paid, NEW roubles
  PROVE  AccountWith(t, lots, paid, roubles) =
           [lots |-> [account.lots EXCEPT ![t] = lots],
            paid |-> [account.paid EXCEPT ![t] = paid], roubles |-> roubles]
<1> DEFINE Fields == {"lots", "paid", "roubles"}
           x == AccountWith(t, lots, paid, roubles)
<1>1. DOMAIN account = Fields
  BY DEF Accounts
<1>2. x = [i \in Fields |-> x[i]]
  BY <1>1 DEF AccountWith
<1>3. /\ x["lots"] = [account.lots EXCEPT ![t] = lots]
      /\ x["paid"] = [account.paid EXCEPT ![t] = paid]
      /\ x["roubles"] = roubles
  BY <1>1 DEF AccountWith
<1> HIDE DEF x
<1>4. x = [lots |-> x["lots"], paid |-> x["paid"], roubles |-> x["roubles"]]
  BY <1>2
<1> QED BY <1>3, <1>4 DEF x

LEMMA AccountWithType ==
  ASSUME account \in Accounts, NEW t \in Tickers,
         NEW lots \in Nat, NEW paid \in Nat, NEW roubles \in Int
  PROVE  /\ AccountWith(t, lots, paid, roubles) \in Accounts
         /\ \A u \in Tickers :
              /\ AccountWith(t, lots, paid, roubles).lots[u]
                   = IF u = t THEN lots ELSE account.lots[u]
              /\ AccountWith(t, lots, paid, roubles).paid[u]
                   = IF u = t THEN paid ELSE account.paid[u]
<1>1. account.lots \in [Tickers -> Nat] /\ account.paid \in [Tickers -> Nat]
  BY DEF Accounts
<1> DEFINE l == [account.lots EXCEPT ![t] = lots]
           p == [account.paid EXCEPT ![t] = paid]
<1>2. l \in [Tickers -> Nat] /\ p \in [Tickers -> Nat]
  BY <1>1
<1>3. \A u \in Tickers : /\ l[u] = IF u = t THEN lots ELSE account.lots[u]
                         /\ p[u] = IF u = t THEN paid ELSE account.paid[u]
  BY <1>1
<1>4. AccountWith(t, lots, paid, roubles) = [lots |-> l, paid |-> p, roubles |-> roubles]
  BY AccountWithIs
<1> HIDE DEF l, p
<1> QED BY <1>2, <1>3, <1>4 DEF Accounts

(* An entry that was not decided blindly adds a ticker to fewer than the    *)
(* limit allows, and costs at its price no more than is left.               *)
LEMMA OneTickerMore ==
  ASSUME GateInv, NEW t \in Tickers, turn > 0, NEW price \in RefPrices,
         NEW slip \in {0, Slip}, Enter(t, price, price + slip), ~overlooked',
         NEW S, S \subseteq HeldIn(account) \cup {t}
  PROVE  Cardinality(S) <= MaxPositions
<1>1. Cardinality(HeldIn(account)) < MaxPositions /\ MaxPositions \in Nat
  BY Entering, GateLimits
<1>2. IsFiniteSet(HeldIn(account)) /\ Cardinality(HeldIn(account)) \in Nat
  BY FS_Subset, FS_CardinalityType, GateLimits DEF HeldIn
<1>3. IsFiniteSet(HeldIn(account) \cup {t})
      /\ Cardinality(HeldIn(account) \cup {t}) =
           IF t \in HeldIn(account) THEN Cardinality(HeldIn(account))
           ELSE Cardinality(HeldIn(account)) + 1
  BY <1>2, FS_AddElement
<1>4. Cardinality(S) \in Nat
      /\ Cardinality(S) <= Cardinality(HeldIn(account) \cup {t})
  BY <1>3, FS_Subset, FS_CardinalityType
<1> QED BY <1>1, <1>2, <1>3, <1>4

LEMMA EntryWithinCost ==
  ASSUME GateInv, NEW t \in Tickers, turn > 0, NEW price \in RefPrices,
         NEW slip \in {0, Slip}, Enter(t, price, price + slip), ~overlooked',
         NEW got \in Int, got <= Decision(t, price).lots
  PROVE  got * price <= Allocated - Total(account.paid) /\ Total(Blocked) = 0
<1>1. /\ Decision(t, price).lots * price <= Allocated - Total(account.paid)
      /\ \A u \in Tickers : waiting[u].lots = 0
  BY Entering
<1>2. Decision(t, price).lots \in Int /\ price \in Nat /\ Allocated \in Int
      /\ Total(account.paid) \in Int
  BY SizedWithin, SumsOfGate, GateLimits DEF GateInv
<1>3. got * price <= Decision(t, price).lots * price
  BY <1>2, ProductGrows
<1>4. got * price \in Int /\ Decision(t, price).lots * price \in Int
  BY <1>2
<1>5. \A u \in DOMAIN Blocked : Blocked[u] = 0
  BY <1>1 DEF Blocked, GateInv, OrdersArePriced
<1>6. Total(Blocked) = 0
  BY <1>5, SumsOfGate, TotalOfZeros DEF GateInv
<1> QED BY <1>1, <1>2, <1>3, <1>4, <1>6

(* The fill comes with the reply. *)
LEMMA FilledKeeps ==
  ASSUME GateInv, NEW t \in Tickers, turn > 0, NEW price \in RefPrices,
         NEW slip \in {0, Slip}, Enter(t, price, price + slip), clamped' \in BOOLEAN,
         Filled(t, Got(t, price, price + slip), price, price + slip)
  PROVE  GateInv'
<1> DEFINE got == Got(t, price, price + slip)
           cost == got * (price + slip)
           above == got * slip
           bought == BoughtAccount(t, got, price + slip)
<1>1. got \in Int /\ got > 0 /\ got <= Decision(t, price).lots
      /\ price \in Nat /\ price > 0 /\ slip \in Nat
  BY GotAtMostSized DEF Filled
<1>2. /\ cost \in Nat /\ above \in Nat /\ cost = got * price + above /\ above <= cost
      /\ got * ((price + slip) - price) = above
  <2> HIDE DEF got
  <2> QED BY <1>1, CostsOf
<1> HIDE DEF got
<1>3. /\ account.lots[t] \in Nat /\ account.paid[t] \in Nat /\ account.roubles \in Int
      /\ account \in Accounts
  BY DEF GateInv, GateTypes, Accounts
<1>4. /\ bought \in Accounts
      /\ \A u \in Tickers :
           /\ bought.lots[u] = IF u = t THEN account.lots[t] + got ELSE account.lots[u]
           /\ bought.paid[u] = IF u = t THEN account.paid[t] + cost ELSE account.paid[u]
  <2> DEFINE lots == account.lots[t] + got
             paid == account.paid[t] + cost
             roubles == account.roubles - cost
  <2>1. bought = AccountWith(t, lots, paid, roubles)
    BY DEF BoughtAccount, AccountWith
  <2>2. lots \in Nat /\ paid \in Nat /\ roubles \in Int
    <3>1. got \in Nat /\ cost \in Nat
      BY <1>1, <1>2
    <3> HIDE DEF cost
    <3> QED BY <1>3, <3>1
  <2> HIDE DEF bought, lots, paid, roubles
  <2>3. /\ bought \in Accounts
        /\ \A u \in Tickers :
             /\ bought.lots[u] = IF u = t THEN lots ELSE account.lots[u]
             /\ bought.paid[u] = IF u = t THEN paid ELSE account.paid[u]
    BY <1>3, <2>1, <2>2, AccountWithType
  <2> QED BY <2>3 DEF lots, paid
<1>5. /\ account' = bought /\ rowLots' = [rowLots EXCEPT ![t] = got]
      /\ extra' = [extra EXCEPT ![t] = @ + above]
      /\ waiting' = waiting /\ arrived' = arrived
  BY <1>2 DEF Filled, got
<1>6. Read(bought) /\ turn' \in Nat
  BY OnwardsType DEF Filled, GateInv, GateTypes, got
<1> HIDE DEF bought, cost, above
<1>7. GateTypes'
  <2>1. \A a \in Accounts : /\ PortfolioOf(a).held \subseteq Tickers
                            /\ PortfolioOf(a).openCost \in Int /\ PortfolioOf(a).cash \in Int
    BY PortfolioSays DEF GateInv, HeldIn
  <2>2. behind' \in Accounts /\ lagged' \in BOOLEAN
        /\ portfolio'.held \subseteq Tickers
        /\ portfolio'.openCost \in Int /\ portfolio'.cash \in Int
    BY <1>4, <1>6, <2>1 DEF Read, GateInv, GateTypes
  <2>3. rowLots' \in [Tickers -> Nat] /\ extra' \in [Tickers -> Nat]
    BY <1>1, <1>2, <1>5 DEF GateInv, GateTypes
  <2> QED BY <1>4, <1>5, <1>6, <2>2, <2>3, Entering DEF GateInv, GateTypes
<1>8. OrdersArePriced'
  BY <1>2, <1>4, <1>5 DEF OrdersArePriced, GateInv, GateTypes, Accounts
<1>9. RowsShow'
  <2> SUFFICES ASSUME ~overlooked', NEW u \in Tickers
               PROVE  /\ bought.lots[u] = rowLots'[u] + arrived[u]
                      /\ rowLots'[u] > 0 => arrived[u] = 0
                      /\ waiting[u].lots = 0
    BY <1>5 DEF RowsShow
  <2>1. /\ ~overlooked /\ waiting[u].lots = 0 /\ account.lots[t] = 0 /\ rowLots[t] = 0
    BY Entering
  <2>2. /\ account.lots[u] = rowLots[u] + arrived[u]
        /\ rowLots[u] > 0 => arrived[u] = 0
        /\ account.lots[t] = rowLots[t] + arrived[t]
    BY <2>1 DEF GateInv, RowsShow
  <2>3. /\ account.lots[u] \in Nat /\ rowLots[u] \in Nat /\ arrived[u] \in Nat
        /\ arrived[t] \in Nat
    BY DEF GateInv, GateTypes, Accounts
  <2>4. rowLots'[u] = IF u = t THEN got ELSE rowLots[u]
    BY <1>5 DEF GateInv, GateTypes
  <2>5. bought.lots[u] = IF u = t THEN account.lots[u] + got ELSE account.lots[u]
    BY <1>4
  <2> QED BY <1>1, <2>1, <2>2, <2>3, <2>4, <2>5
<1>10. ReadIsTrue'
  <2> SUFFICES ASSUME ~lagged'
               PROVE  /\ portfolio'.held = HeldIn(account)'
                      /\ portfolio'.openCost = Total(account'.paid)
                      /\ portfolio'.cash <= PortfolioOf(account)'.cash
    BY DEF ReadIsTrue
  <2>1. portfolio' = PortfolioOf(bought)
    BY <1>6 DEF Read
  <2>2. PortfolioOf(account)' = PortfolioOf(bought)
    BY <1>5 DEF PortfolioOf
  <2>3. HeldIn(account)' = HeldIn(bought)
    BY <1>5 DEF HeldIn
  <2>4. PortfolioOf(bought).held = HeldIn(bought)
        /\ PortfolioOf(bought).openCost = Total(bought.paid)
        /\ PortfolioOf(bought).cash \in Nat
    BY <1>4, PortfolioSays DEF GateInv
  <2> QED BY <1>5, <2>1, <2>2, <2>3, <2>4
<1>11. OldSharesShow'
  <2> SUFFICES ASSUME NEW u \in Tickers, bought.lots[u] > 0, rowLots'[u] = 0, arrived[u] = 0
               PROVE  behind'.lots[u] > 0 /\ u \in portfolio'.held
    BY <1>5 DEF OldSharesShow
  <2>1. u # t
    BY <1>1, <1>5 DEF GateInv, GateTypes
  <2>2. account.lots[u] = bought.lots[u] /\ rowLots[u] = rowLots'[u]
    BY <1>4, <1>5, <2>1 DEF GateInv, GateTypes
  <2>3. behind.lots[u] > 0
    BY <2>2 DEF GateInv, OldSharesShow
  <2>4. u \in PortfolioOf(bought).held /\ u \in PortfolioOf(behind).held
    BY <1>4, <2>3, PortfolioSays DEF GateInv, GateTypes, HeldIn
  <2> QED BY <1>6, <2>3, <2>4 DEF Read
<1>12. ASSUME ~overlooked' PROVE TickersWithinLimit'
  <2> DEFINE now == {u \in Tickers : bought.lots[u] + waiting[u].lots > 0}
  <2>1. \A u \in Tickers : waiting[u].lots = 0
    BY <1>12, Entering
  <2>2. \A u \in Tickers : bought.lots[u] = IF u = t THEN account.lots[u] + got
                                            ELSE account.lots[u]
    BY <1>4
  <2>3. \A u \in Tickers : bought.lots[u] \in Nat
    BY <1>4 DEF Accounts
  <2>4. now \subseteq HeldIn(account) \cup {t}
    BY <2>1, <2>2, <2>3 DEF HeldIn
  <2>5. Cardinality(now) <= MaxPositions => TickersWithinLimit'
    BY <1>5 DEF TickersWithinLimit
  <2> HIDE DEF now
  <2> QED BY <1>12, <2>4, <2>5, OneTickerMore
<1>13. ASSUME ~overlooked' PROVE CostWithinLimit'
  <2>1. got * price <= Allocated - Total(account.paid) /\ Total(Blocked) = 0
    BY <1>1, <1>13, EntryWithinCost
  <2>2. Blocked' = Blocked /\ Above' = Above
    BY <1>5 DEF Blocked, Above
  <2>3. Numbers(account'.paid) /\ Numbers(extra') /\ Numbers(account.paid) /\ Numbers(extra)
    BY <1>4, <1>5, <1>7, SumsOfGate, GateLimits DEF Numbers, GateInv, GateTypes, Accounts
  <2>4. Total(account'.paid) = Total(account.paid) + cost
    <3>1. DOMAIN account'.paid = DOMAIN account.paid /\ t \in DOMAIN account.paid
          /\ account'.paid[t] = account.paid[t] + cost /\ account.paid[t] \in Nat
          /\ \A x \in DOMAIN account.paid : x # t => account'.paid[x] = account.paid[x]
      BY <1>3, <1>4, <1>5 DEF GateInv, GateTypes, Accounts
    <3>2. Total(account'.paid) = Total(account.paid) + account'.paid[t] - account.paid[t]
      BY <2>3, <3>1, TotalMoves
    <3> QED BY <1>2, <3>1, <3>2, SumsOfGate DEF GateInv
  <2>5. Total(extra') = Total(extra) + above
    <3>1. DOMAIN extra' = DOMAIN extra /\ t \in DOMAIN extra
          /\ extra'[t] = extra[t] + above /\ extra[t] \in Nat
          /\ \A x \in DOMAIN extra : x # t => extra'[x] = extra[x]
      BY <1>5 DEF GateInv, GateTypes
    <3>2. Total(extra') = Total(extra) + extra'[t] - extra[t]
      BY <2>3, <3>1, TotalMoves
    <3> QED BY <1>2, <3>1, <3>2, SumsOfGate DEF GateInv
  <2>6. Total(account'.paid) + Total(Blocked) <= Allocated + Total(extra') + Total(Above)
          => CostWithinLimit'
    BY <2>2 DEF CostWithinLimit
  <2>7. got * price \in Int /\ Allocated \in Int
    BY <1>1, GateLimits
  <2>8. Total(account.paid) \in Int /\ Total(extra) \in Int /\ Total(Above) \in Int
         /\ Total(extra) >= 0 /\ Total(Above) >= 0
    BY SumsOfGate DEF GateInv
  <2> QED BY <1>2, <2>1, <2>4, <2>5, <2>6, <2>7, <2>8
<1> QED BY <1>7, <1>8, <1>9, <1>10, <1>11, <1>12, <1>13 DEF GateInv

(* Nothing but the pass itself moves. *)
LEMMA NothingMoves ==
  ASSUME GateInv, turn' \in Nat, turn' > 0 => turn > 0,
         overlooked' \in BOOLEAN, overlooked => overlooked', clamped' \in BOOLEAN,
         UNCHANGED <<account, waiting, arrived, rowLots, portfolio, behind, lagged, extra>>
  PROVE  GateInv'
<1>1. GateTypes'
  BY DEF GateInv, GateTypes
<1>2. OrdersArePriced' /\ RowsShow' /\ OldSharesShow'
  BY DEF GateInv, OrdersArePriced, RowsShow, OldSharesShow
<1>3. PortfolioOf(account)' = PortfolioOf(account) /\ HeldIn(account)' = HeldIn(account)
  BY DEF PortfolioOf, HeldIn
<1>4. ReadIsTrue'
  BY <1>3 DEF GateInv, ReadIsTrue
<1>5. Blocked' = Blocked /\ Above' = Above
  BY DEF Blocked, Above
<1>6. CostWithinLimit => CostWithinLimit'
  BY <1>5 DEF CostWithinLimit
<1>7. TickersWithinLimit => TickersWithinLimit'
  BY DEF TickersWithinLimit
<1> QED BY <1>1, <1>2, <1>4, <1>6, <1>7 DEF GateInv

(* The reply does not come, and the order stands at the broker. *)
LEMMA StandingKeeps ==
  ASSUME GateInv, NEW t \in Tickers, turn > 0, NEW price \in RefPrices,
         NEW slip \in {0, Slip}, Enter(t, price, price + slip), clamped' \in BOOLEAN,
         Unknown(t, Got(t, price, price + slip), price, price + slip), waiting' # waiting
  PROVE  GateInv'
<1> DEFINE got == Got(t, price, price + slip)
           cost == got * (price + slip)
           above == got * slip
           w == [lots |-> waiting[t].lots + got, blocked |-> waiting[t].blocked + cost,
                 above |-> waiting[t].above + above]
<1>1. got \in Int /\ got > 0 /\ got <= Decision(t, price).lots
      /\ price \in Nat /\ price > 0 /\ slip \in Nat
  BY GotAtMostSized DEF Unknown
<1>2. /\ cost \in Nat /\ above \in Nat /\ cost = got * price + above /\ above <= cost
      /\ got * ((price + slip) - price) = above
  <2> HIDE DEF got
  <2> QED BY <1>1, CostsOf
<1> HIDE DEF got
<1>3. /\ waiting' = [waiting EXCEPT ![t] = w] /\ turn' = 0
      /\ UNCHANGED <<account, rowLots, portfolio, behind, lagged, extra, arrived>>
  BY <1>2 DEF Unknown, got
<1>4. waiting[t].lots \in Nat /\ waiting[t].blocked \in Nat /\ waiting[t].above \in Nat
  BY DEF GateInv, GateTypes
<1>5. /\ w.lots = waiting[t].lots + got /\ w.blocked = waiting[t].blocked + cost
      /\ w.above = waiting[t].above + above
      /\ w \in [lots : Nat, blocked : Nat, above : Nat] /\ w.lots > 0
  <2> HIDE DEF cost, above
  <2>1. waiting[t].lots + got \in Nat /\ waiting[t].lots + got > 0
    BY <1>1, <1>4
  <2>2. waiting[t].blocked + cost \in Nat /\ waiting[t].above + above \in Nat
    BY <1>2, <1>4
  <2>3. /\ w.lots = waiting[t].lots + got /\ w.blocked = waiting[t].blocked + cost
        /\ w.above = waiting[t].above + above
    OBVIOUS
  <2>4. w \in [lots : Nat, blocked : Nat, above : Nat]
    BY <2>1, <2>2
  <2> HIDE DEF w
  <2> QED BY <2>1, <2>3, <2>4
<1> HIDE DEF cost, above, w
<1>6. \A u \in Tickers : waiting'[u] = IF u = t THEN w ELSE waiting[u]
  BY <1>3 DEF GateInv, GateTypes
<1>7. GateTypes'
  <2>1. waiting' \in [Tickers -> [lots : Nat, blocked : Nat, above : Nat]]
    BY <1>3, <1>5 DEF GateInv, GateTypes
  <2> QED BY <1>3, <2>1, Entering DEF GateInv, GateTypes
<1>8. OrdersArePriced'
  <2> SUFFICES ASSUME NEW u \in Tickers
               PROVE  /\ waiting'[u].above <= waiting'[u].blocked
                      /\ waiting'[u].lots = 0 => waiting'[u].blocked = 0
                      /\ extra[u] <= account.paid[u]
    BY <1>3 DEF OrdersArePriced
  <2>1. /\ waiting[u].above <= waiting[u].blocked
        /\ waiting[u].lots = 0 => waiting[u].blocked = 0
        /\ extra[u] <= account.paid[u]
    BY DEF GateInv, OrdersArePriced
  <2> QED BY <1>2, <1>4, <1>5, <1>6, <2>1
<1>9. RowsShow'
  <2> SUFFICES ASSUME ~overlooked', NEW u \in Tickers
               PROVE  /\ account.lots[u] = rowLots[u] + arrived[u]
                      /\ rowLots[u] > 0 => arrived[u] = 0
                      /\ account.lots[u] > 0 => waiting'[u].lots = 0
    BY <1>3 DEF RowsShow
  <2>1. ~overlooked /\ account.lots[t] = 0
    BY Entering
  <2>2. /\ account.lots[u] = rowLots[u] + arrived[u]
        /\ rowLots[u] > 0 => arrived[u] = 0
        /\ account.lots[u] > 0 => waiting[u].lots = 0
    BY <2>1 DEF GateInv, RowsShow
  <2>3. ~ 0 > 0
    OBVIOUS
  <2> QED BY <1>6, <2>1, <2>2, <2>3
<1>10. ReadIsTrue' /\ OldSharesShow'
  BY <1>3 DEF ReadIsTrue, OldSharesShow, GateInv
<1>11. ASSUME ~overlooked' PROVE TickersWithinLimit'
  <2> DEFINE now == {u \in Tickers : account.lots[u] + waiting'[u].lots > 0}
  <2>1. \A u \in Tickers : waiting[u].lots = 0 /\ account.lots[u] \in Nat
    BY <1>11, Entering DEF GateInv, GateTypes, Accounts
  <2>2. now \subseteq HeldIn(account) \cup {t}
    BY <1>6, <2>1 DEF HeldIn
  <2>3. Cardinality(now) <= MaxPositions => TickersWithinLimit'
    BY <1>3 DEF TickersWithinLimit
  <2> HIDE DEF now
  <2> QED BY <1>11, <2>2, <2>3, OneTickerMore
<1>12. ASSUME ~overlooked' PROVE CostWithinLimit'
  <2>1. got * price <= Allocated - Total(account.paid) /\ Total(Blocked) = 0
    BY <1>1, <1>12, EntryWithinCost
  <2>2. Numbers(Blocked) /\ Numbers(Above) /\ Numbers(Blocked') /\ Numbers(Above')
    BY <1>7, SumsOfGate, GateLimits DEF Numbers, GateInv, GateTypes, Blocked, Above
  <2>3. Total(Blocked') = Total(Blocked) + cost
    <3>1. DOMAIN Blocked' = DOMAIN Blocked /\ t \in DOMAIN Blocked
          /\ Blocked'[t] = w.blocked /\ Blocked[t] = waiting[t].blocked
          /\ \A x \in DOMAIN Blocked : x # t => Blocked'[x] = Blocked[x]
      BY <1>6 DEF Blocked
    <3>2. Total(Blocked') = Total(Blocked) + Blocked'[t] - Blocked[t]
      BY <2>2, <3>1, TotalMoves
    <3> QED BY <1>2, <1>4, <1>5, <3>1, <3>2, SumsOfGate DEF GateInv
  <2>4. Total(Above') = Total(Above) + above
    <3>1. DOMAIN Above' = DOMAIN Above /\ t \in DOMAIN Above
          /\ Above'[t] = w.above /\ Above[t] = waiting[t].above
          /\ \A x \in DOMAIN Above : x # t => Above'[x] = Above[x]
      BY <1>6 DEF Above
    <3>2. Total(Above') = Total(Above) + Above'[t] - Above[t]
      BY <2>2, <3>1, TotalMoves
    <3> QED BY <1>2, <1>4, <1>5, <3>1, <3>2, SumsOfGate DEF GateInv
  <2>5. Total(account.paid) + Total(Blocked') <= Allocated + Total(extra) + Total(Above')
          => CostWithinLimit'
    BY <1>3 DEF CostWithinLimit
  <2>6. got * price \in Int /\ Allocated \in Int
    BY <1>1, GateLimits
  <2>7. Total(account.paid) \in Int /\ Total(extra) \in Int /\ Total(Above) \in Int
        /\ Total(extra) >= 0 /\ Total(Above) >= 0
    BY SumsOfGate DEF GateInv
  <2> QED BY <1>2, <2>1, <2>3, <2>4, <2>5, <2>6, <2>7
<1> QED BY <1>7, <1>8, <1>9, <1>10, <1>11, <1>12 DEF GateInv

LEMMA EnterKeeps ==
  ASSUME GateInv, NEW t \in Looking, NEW price \in RefPrices, NEW slip \in {0, Slip},
         Enter(t, price, price + slip)
  PROVE  GateInv'
<1>1. t \in Tickers /\ turn > 0
  BY LookingAtATicker DEF GateInv, GateTypes
<1>2. clamped' \in BOOLEAN
  <2>1. clamped' = (clamped \/ (Min({Decision(t, price).lots, AllowedLots(price + slip)})
                                  < Decision(t, price).lots /\ ~overlooked'))
    BY DEF Enter
  <2> QED BY <2>1 DEF GateInv, GateTypes
<1>3. overlooked' \in BOOLEAN /\ (overlooked => overlooked')
  BY <1>1, Entering
<1>4. CASE Filled(t, Got(t, price, price + slip), price, price + slip)
  BY <1>1, <1>2, <1>4, FilledKeeps
<1>5. CASE Refused
  <2>1. turn' \in Nat
    BY <1>5, OnwardsType DEF Refused, GateInv, GateTypes
  <2> QED BY <1>1, <1>2, <1>3, <1>5, <2>1, NothingMoves DEF Refused
<1>6. CASE Unknown(t, Got(t, price, price + slip), price, price + slip)
  <2>1. CASE waiting' = waiting
    <3>1. turn' = 0 /\ UNCHANGED <<account, rowLots, portfolio, behind, lagged, extra, arrived>>
      BY <1>6 DEF Unknown
    <3> QED BY <1>1, <1>2, <1>3, <2>1, <3>1, NothingMoves
  <2>2. CASE waiting' # waiting
    BY <1>1, <1>2, <1>6, <2>2, StandingKeeps
  <2> QED BY <2>1, <2>2
<1> QED BY <1>4, <1>5, <1>6, EnterEndsInOne

-----------------------------------------------------------------------------
(* Between entries *)

LEMMA PassedOverKeeps ==
  ASSUME GateInv, NEW t \in Looking, PassedOver(t)
  PROVE  GateInv'
<1>1. turn' \in Nat
  BY OnwardsType DEF PassedOver, GateInv, GateTypes
<1> QED BY <1>1, NothingMoves DEF PassedOver, GateInv, GateTypes

LEMMA BeginPassKeeps ==
  ASSUME GateInv, BeginPass
  PROVE  GateInv'
<1>1. /\ UNCHANGED <<account, waiting, extra, clamped, overlooked>>
      /\ turn = 0 /\ turn' = 1 /\ Read(account)
  BY DEF BeginPass
<1>2. PICK answered \in SUBSET {t \in Tickers : arrived[t] > 0} : Resolved(answered)
  BY DEF BeginPass
<1>3. \A t \in Tickers :
        /\ arrived[t] \in Nat /\ rowLots[t] \in Nat
        /\ rowLots'[t] = IF t \in answered /\ rowLots[t] = 0 THEN arrived[t] ELSE rowLots[t]
        /\ arrived'[t] = IF t \in answered THEN 0 ELSE arrived[t]
        /\ t \in answered => arrived[t] > 0
  BY <1>2 DEF Resolved, GateInv, GateTypes
<1>4. GateTypes'
  <2>1. rowLots' \in [Tickers -> Nat] /\ arrived' \in [Tickers -> Nat]
    BY <1>2 DEF Resolved, GateInv, GateTypes
  <2>2. \A a \in Accounts : /\ PortfolioOf(a).held \subseteq Tickers
                            /\ PortfolioOf(a).openCost \in Int /\ PortfolioOf(a).cash \in Int
    BY PortfolioSays DEF GateInv, HeldIn
  <2>3. behind' \in Accounts /\ lagged' \in BOOLEAN
        /\ portfolio'.held \subseteq Tickers
        /\ portfolio'.openCost \in Int /\ portfolio'.cash \in Int
    BY <1>1, <2>2 DEF Read, GateInv, GateTypes
  <2> QED BY <1>1, <2>1, <2>3 DEF GateInv, GateTypes
<1>5. OrdersArePriced'
  BY <1>1 DEF GateInv, OrdersArePriced
<1>6. RowsShow'
  <2> SUFFICES ASSUME ~overlooked, NEW t \in Tickers
               PROVE  /\ account.lots[t] = rowLots'[t] + arrived'[t]
                      /\ rowLots'[t] > 0 => arrived'[t] = 0
                      /\ account.lots[t] > 0 => waiting[t].lots = 0
    BY <1>1 DEF RowsShow
  <2>1. /\ account.lots[t] = rowLots[t] + arrived[t]
        /\ rowLots[t] > 0 => arrived[t] = 0
        /\ account.lots[t] > 0 => waiting[t].lots = 0
    BY DEF GateInv, RowsShow
  <2> QED BY <1>3, <2>1
<1>7. PortfolioOf(account)' = PortfolioOf(account) /\ HeldIn(account)' = HeldIn(account)
  BY <1>1 DEF PortfolioOf, HeldIn
<1>8. ReadIsTrue'
  BY <1>1, <1>7, PortfolioSays DEF Read, ReadIsTrue, GateInv, GateTypes
<1>9. OldSharesShow'
  <2> SUFFICES ASSUME NEW t \in Tickers, account.lots[t] > 0, rowLots'[t] = 0, arrived'[t] = 0
               PROVE  behind'.lots[t] > 0 /\ t \in portfolio'.held
    BY <1>1 DEF OldSharesShow
  <2>1. rowLots[t] = 0 /\ arrived[t] = 0
    BY <1>3
  <2>2. behind.lots[t] > 0
    BY <2>1 DEF GateInv, OldSharesShow
  <2>3. t \in PortfolioOf(account).held /\ t \in PortfolioOf(behind).held
    BY <2>2, PortfolioSays DEF GateInv, GateTypes, HeldIn
  <2> QED BY <1>1, <2>2, <2>3 DEF Read
<1>10. Blocked' = Blocked /\ Above' = Above
  BY <1>1 DEF Blocked, Above
<1>11. (CostWithinLimit => CostWithinLimit') /\ (TickersWithinLimit => TickersWithinLimit')
  BY <1>1, <1>10 DEF CostWithinLimit, TickersWithinLimit
<1> QED BY <1>1, <1>4, <1>5, <1>6, <1>8, <1>9, <1>11 DEF GateInv

LEMMA WaitingDiesKeeps ==
  ASSUME GateInv, NEW t \in Tickers, WaitingDies(t)
  PROVE  GateInv'
<1>1. /\ waiting' = [waiting EXCEPT ![t] = NoOrder]
      /\ UNCHANGED <<account, arrived, rowLots, portfolio, behind, lagged, turn, extra,
                     clamped, overlooked>>
  BY DEF WaitingDies
<1>2. NoOrder \in [lots : Nat, blocked : Nat, above : Nat]
      /\ NoOrder.lots = 0 /\ NoOrder.blocked = 0 /\ NoOrder.above = 0
  BY DEF NoOrder
<1>3. \A u \in Tickers : waiting'[u] = IF u = t THEN NoOrder ELSE waiting[u]
  BY <1>1 DEF GateInv, GateTypes
<1>4. \A u \in Tickers : waiting[u].lots \in Nat /\ waiting[u].blocked \in Nat
                         /\ waiting[u].above \in Nat
  BY DEF GateInv, GateTypes
<1>5. GateTypes'
  <2>1. waiting' \in [Tickers -> [lots : Nat, blocked : Nat, above : Nat]]
    BY <1>1, <1>2 DEF GateInv, GateTypes
  <2> QED BY <1>1, <2>1 DEF GateInv, GateTypes
<1>6. OrdersArePriced' /\ RowsShow' /\ OldSharesShow'
  BY <1>1, <1>2, <1>3 DEF GateInv, OrdersArePriced, RowsShow, OldSharesShow
<1>7. Numbers(Blocked) /\ Numbers(Above) /\ Numbers(Blocked') /\ Numbers(Above')
      /\ Total(Blocked) \in Int /\ Total(Above) \in Int
  BY <1>5, SumsOfGate, GateLimits DEF Numbers, GateInv, GateTypes, Blocked, Above
<1>8. Total(Blocked') = Total(Blocked) - waiting[t].blocked
  <2>1. DOMAIN Blocked' = DOMAIN Blocked /\ t \in DOMAIN Blocked
        /\ Blocked'[t] = 0 /\ Blocked[t] = waiting[t].blocked
        /\ \A x \in DOMAIN Blocked : x # t => Blocked'[x] = Blocked[x]
    BY <1>2, <1>3 DEF Blocked
  <2>2. Total(Blocked') = Total(Blocked) + Blocked'[t] - Blocked[t]
    BY <1>7, <2>1, TotalMoves
  <2> QED BY <1>4, <1>7, <2>1, <2>2
<1>9. Total(Above') = Total(Above) - waiting[t].above
  <2>1. DOMAIN Above' = DOMAIN Above /\ t \in DOMAIN Above
        /\ Above'[t] = 0 /\ Above[t] = waiting[t].above
        /\ \A x \in DOMAIN Above : x # t => Above'[x] = Above[x]
    BY <1>2, <1>3 DEF Above
  <2>2. Total(Above') = Total(Above) + Above'[t] - Above[t]
    BY <1>7, <2>1, TotalMoves
  <2> QED BY <1>4, <1>7, <2>1, <2>2
<1>10. PortfolioOf(account).cash <= PortfolioOf(account)'.cash
       /\ PortfolioOf(account).cash \in Nat /\ PortfolioOf(account)'.cash \in Int
  <2> DEFINE x == account.roubles - Total(Blocked)
             y == account.roubles - Total(Blocked')
  <2>1. PortfolioOf(account).cash = (IF x >= 0 THEN x ELSE 0)
        /\ PortfolioOf(account).cash \in Nat
    BY PortfolioSays DEF GateInv, GateTypes
  <2>2. account.roubles \in Int
    BY DEF GateInv, GateTypes, Accounts
  <2>3. x \in Int /\ y \in Int /\ x <= y
    BY <1>4, <1>7, <1>8, <2>2
  <2>4. PortfolioOf(account)'.cash = Max({0, y})
    BY <1>1 DEF PortfolioOf, Blocked
  <2>5. Max({0, y}) = IF y >= 0 THEN y ELSE 0
    <3> HIDE DEF y
    <3> QED BY <2>3, MaxWithZero
  <2> HIDE DEF x, y
  <2> QED BY <2>1, <2>3, <2>4, <2>5
<1>11. HeldIn(account)' = HeldIn(account)
  BY <1>1 DEF HeldIn
<1>12. ReadIsTrue'
  BY <1>1, <1>10, <1>11 DEF GateInv, GateTypes, ReadIsTrue
<1>13. TickersWithinLimit => TickersWithinLimit'
  <2> DEFINE before == {u \in Tickers : account.lots[u] + waiting[u].lots > 0}
             now == {u \in Tickers : account.lots[u] + waiting'[u].lots > 0}
  <2>1. \A u \in Tickers : account.lots[u] \in Nat
    BY DEF GateInv, GateTypes, Accounts
  <2>2. now \subseteq before
    BY <1>2, <1>3, <1>4, <2>1
  <2>3. IsFiniteSet(before) /\ Cardinality(before) \in Nat
    BY FS_Subset, FS_CardinalityType, GateLimits
  <2>4. TickersWithinLimit => Cardinality(before) <= MaxPositions
    BY DEF TickersWithinLimit
  <2>5. Cardinality(now) <= MaxPositions => TickersWithinLimit'
    BY <1>1 DEF TickersWithinLimit
  <2> HIDE DEF before, now
  <2>6. Cardinality(now) \in Nat /\ Cardinality(now) <= Cardinality(before)
    BY <2>2, <2>3, FS_Subset, FS_CardinalityType
  <2>7. MaxPositions \in Nat
    BY GateLimits
  <2> QED BY <2>3, <2>4, <2>5, <2>6, <2>7
<1>14. CostWithinLimit => CostWithinLimit'
  <2>1. waiting[t].above <= waiting[t].blocked
    BY DEF GateInv, OrdersArePriced
  <2>2. CostWithinLimit' <=>
          Total(account.paid) + Total(Blocked') <= Allocated + Total(extra) + Total(Above')
    BY <1>1 DEF CostWithinLimit
  <2>3. CostWithinLimit <=>
          Total(account.paid) + Total(Blocked) <= Allocated + Total(extra) + Total(Above)
    BY DEF CostWithinLimit
  <2>4. Total(account.paid) \in Int /\ Total(extra) \in Int /\ Allocated \in Int
    BY SumsOfGate, GateLimits DEF GateInv
  <2> QED BY <1>4, <1>7, <1>8, <1>9, <2>1, <2>2, <2>3, <2>4
<1> QED BY <1>1, <1>5, <1>6, <1>12, <1>13, <1>14 DEF GateInv

(* The order that was left unresolved fills: what it blocked is now paid. *)
LEMMA WaitingFillsKeeps ==
  ASSUME GateInv, NEW t \in Tickers, WaitingFills(t)
  PROVE  GateInv'
<1> DEFINE l == waiting[t].lots
           b == waiting[t].blocked
           v == waiting[t].above
           lots == account.lots[t] + l
           paid == account.paid[t] + b
           roubles == account.roubles - b
<1>1. /\ l \in Nat /\ b \in Nat /\ v \in Nat /\ v <= b /\ arrived[t] \in Nat /\ extra[t] \in Nat
      /\ account.lots[t] \in Nat /\ account.paid[t] \in Nat /\ account.roubles \in Int
      /\ account \in Accounts
  BY DEF GateInv, GateTypes, Accounts, OrdersArePriced
<1>2. l > 0
  BY DEF WaitingFills
<1>3. lots \in Nat /\ paid \in Nat /\ roubles \in Int /\ lots > 0
  <2> HIDE DEF l, b
  <2> QED BY <1>1, <1>2
<1>4. /\ account' = AccountWith(t, lots, paid, roubles)
      /\ behind' = account /\ lagged' = TRUE
      /\ arrived' = [arrived EXCEPT ![t] = arrived[t] + l]
      /\ waiting' = [waiting EXCEPT ![t] = NoOrder]
      /\ extra' = [extra EXCEPT ![t] = extra[t] + v]
      /\ UNCHANGED <<rowLots, portfolio, turn, clamped, overlooked>>
  BY DEF WaitingFills, AccountWith
<1> HIDE DEF l, b, v
<1>5. /\ account' \in Accounts
      /\ \A u \in Tickers :
           /\ account'.lots[u] = IF u = t THEN lots ELSE account.lots[u]
           /\ account'.paid[u] = IF u = t THEN paid ELSE account.paid[u]
  <2> HIDE DEF lots, paid, roubles
  <2>1. account' = AccountWith(t, lots, paid, roubles)
    BY <1>4
  <2>2. account \in Accounts /\ lots \in Nat /\ paid \in Nat /\ roubles \in Int
    BY <1>1, <1>3
  <2> QED BY <2>1, <2>2, AccountWithType
<1>6. NoOrder \in [lots : Nat, blocked : Nat, above : Nat]
      /\ NoOrder.lots = 0 /\ NoOrder.blocked = 0 /\ NoOrder.above = 0
  BY DEF NoOrder
<1>7. \A u \in Tickers : /\ waiting'[u] = IF u = t THEN NoOrder ELSE waiting[u]
                         /\ arrived'[u] = IF u = t THEN arrived[t] + l ELSE arrived[u]
                         /\ extra'[u] = IF u = t THEN extra[t] + v ELSE extra[u]
  BY <1>4 DEF GateInv, GateTypes
<1>8. GateTypes'
  <2>1. waiting' \in [Tickers -> [lots : Nat, blocked : Nat, above : Nat]]
    BY <1>4, <1>6 DEF GateInv, GateTypes
  <2>2. arrived' \in [Tickers -> Nat] /\ extra' \in [Tickers -> Nat]
    BY <1>1, <1>4 DEF GateInv, GateTypes
  <2>3. behind' \in Accounts /\ lagged' \in BOOLEAN
    BY <1>1, <1>4
  <2> QED BY <1>4, <1>5, <2>1, <2>2, <2>3 DEF GateInv, GateTypes
<1>9. OrdersArePriced'
  <2> SUFFICES ASSUME NEW u \in Tickers
               PROVE  /\ waiting'[u].above <= waiting'[u].blocked
                      /\ waiting'[u].lots = 0 => waiting'[u].blocked = 0
                      /\ extra'[u] <= account'.paid[u]
    BY DEF OrdersArePriced
  <2>1. /\ waiting[u].above <= waiting[u].blocked
        /\ waiting[u].lots = 0 => waiting[u].blocked = 0
        /\ extra[u] <= account.paid[u]
    BY DEF GateInv, OrdersArePriced
  <2> QED BY <1>1, <1>5, <1>6, <1>7, <2>1
<1>10. RowsShow'
  <2> SUFFICES ASSUME ~overlooked, NEW u \in Tickers
               PROVE  /\ account'.lots[u] = rowLots[u] + arrived'[u]
                      /\ rowLots[u] > 0 => arrived'[u] = 0
                      /\ account'.lots[u] > 0 => waiting'[u].lots = 0
    BY <1>4 DEF RowsShow
  <2>1. /\ account.lots[u] = rowLots[u] + arrived[u]
        /\ rowLots[u] > 0 => arrived[u] = 0
        /\ account.lots[u] > 0 => waiting[u].lots = 0
    BY DEF GateInv, RowsShow
  <2>2. rowLots[u] \in Nat /\ arrived[u] \in Nat
    BY DEF GateInv, GateTypes
  <2>3. u = t => rowLots[u] = 0
    BY <1>2, <2>1, <2>2 DEF l
  <2> QED BY <1>1, <1>5, <1>6, <1>7, <2>1, <2>2, <2>3
<1>11. ReadIsTrue'
  BY <1>4 DEF ReadIsTrue
<1>12. OldSharesShow'
  <2> SUFFICES ASSUME NEW u \in Tickers, account'.lots[u] > 0, rowLots[u] = 0, arrived'[u] = 0
               PROVE  account.lots[u] > 0 /\ (turn > 0 => u \in portfolio.held)
    BY <1>4 DEF OldSharesShow
  <2>1. u # t
    BY <1>1, <1>2, <1>7
  <2> QED BY <1>5, <1>7, <2>1 DEF GateInv, OldSharesShow
<1>13. TickersWithinLimit => TickersWithinLimit'
  <2> DEFINE before == {u \in Tickers : account.lots[u] + waiting[u].lots > 0}
             now == {u \in Tickers : account'.lots[u] + waiting'[u].lots > 0}
  <2>1. \A u \in Tickers : account.lots[u] \in Nat /\ waiting[u].lots \in Nat
    BY DEF GateInv, GateTypes, Accounts
  <2>2. account.lots[t] + waiting[t].lots > 0
    BY <1>1, <1>2 DEF l
  <2>3. now = before
    BY <1>3, <1>5, <1>6, <1>7, <2>1, <2>2
  <2> QED BY <2>3 DEF TickersWithinLimit
<1>14. CostWithinLimit => CostWithinLimit'
  <2>1. /\ Numbers(Blocked) /\ Numbers(Above) /\ Numbers(Blocked') /\ Numbers(Above')
        /\ Numbers(extra) /\ Numbers(extra')
        /\ Numbers(account.paid) /\ Numbers(account'.paid)
    BY <1>8, SumsOfGate, GateLimits
       DEF Numbers, GateInv, GateTypes, Accounts, Blocked, Above
  <2>2. /\ Total(Blocked) \in Int /\ Total(Above) \in Int /\ Total(extra) \in Int
        /\ Total(account.paid) \in Int
    BY SumsOfGate DEF GateInv
  <2>3. Total(Blocked') = Total(Blocked) - b
    <3>1. DOMAIN Blocked' = DOMAIN Blocked /\ t \in DOMAIN Blocked
          /\ Blocked'[t] = 0 /\ Blocked[t] = b
          /\ \A x \in DOMAIN Blocked : x # t => Blocked'[x] = Blocked[x]
      BY <1>6, <1>7 DEF Blocked, b
    <3>2. Total(Blocked') = Total(Blocked) + Blocked'[t] - Blocked[t]
      BY <2>1, <3>1, TotalMoves
    <3> QED BY <1>1, <2>2, <3>1, <3>2
  <2>4. Total(Above') = Total(Above) - v
    <3>1. DOMAIN Above' = DOMAIN Above /\ t \in DOMAIN Above
          /\ Above'[t] = 0 /\ Above[t] = v
          /\ \A x \in DOMAIN Above : x # t => Above'[x] = Above[x]
      BY <1>6, <1>7 DEF Above, v
    <3>2. Total(Above') = Total(Above) + Above'[t] - Above[t]
      BY <2>1, <3>1, TotalMoves
    <3> QED BY <1>1, <2>2, <3>1, <3>2
  <2>5. Total(extra') = Total(extra) + v
    <3>1. DOMAIN extra' = DOMAIN extra /\ t \in DOMAIN extra
          /\ extra'[t] = extra[t] + v
          /\ \A x \in DOMAIN extra : x # t => extra'[x] = extra[x]
      BY <1>4 DEF GateInv, GateTypes
    <3>2. Total(extra') = Total(extra) + extra'[t] - extra[t]
      BY <2>1, <3>1, TotalMoves
    <3> QED BY <1>1, <2>2, <3>1, <3>2
  <2>6. Total(account'.paid) = Total(account.paid) + b
    <3>1. DOMAIN account'.paid = DOMAIN account.paid /\ t \in DOMAIN account.paid
          /\ account'.paid[t] = account.paid[t] + b
          /\ \A x \in DOMAIN account.paid : x # t => account'.paid[x] = account.paid[x]
      BY <1>5 DEF GateInv, GateTypes, Accounts
    <3>2. Total(account'.paid) = Total(account.paid) + account'.paid[t] - account.paid[t]
      BY <2>1, <3>1, TotalMoves
    <3> QED BY <1>1, <2>2, <3>1, <3>2
  <2>7. CostWithinLimit' <=>
          Total(account'.paid) + Total(Blocked') <= Allocated + Total(extra') + Total(Above')
    BY DEF CostWithinLimit
  <2>8. CostWithinLimit <=>
          Total(account.paid) + Total(Blocked) <= Allocated + Total(extra) + Total(Above)
    BY DEF CostWithinLimit
  <2>9. Allocated \in Int
    BY GateLimits
  <2> QED BY <1>1, <2>2, <2>3, <2>4, <2>5, <2>6, <2>7, <2>8, <2>9
<1> QED BY <1>4, <1>8, <1>9, <1>10, <1>11, <1>12, <1>13, <1>14 DEF GateInv

(* What is sold of some shares cost its part of them, rounded down. *)
LEMMA PartOfCost ==
  ASSUME NEW p \in Nat, NEW l \in Nat, NEW k \in Nat, l > 0, l <= k
  PROVE  /\ (p * l) \div k \in Nat /\ (p * l) \div k <= p
         /\ l = k => (p * l) \div k = p
<1> DEFINE a == p * l
           q == a \div k
<1>1. a \in Nat /\ k > 0 /\ a <= p * k /\ p * k \in Nat
  BY ProductGrows
<1>2. q \in Int /\ q * k <= a /\ a < q * k + k
  <2> HIDE DEF a
  <2> QED BY <1>1, DivisionBounds
<1> HIDE DEF a, q
<1>3. (q + 1) * k = q * k + k /\ 0 * k = 0 /\ (p + 1) * k = p * k + k /\ q * k \in Int
  BY <1>2
<1>4. 0 * k < (q + 1) * k
  BY <1>1, <1>2, <1>3
<1>5. q + 1 > 0
  BY <1>1, <1>2, <1>4, ProductReflects
<1>6. q * k < (p + 1) * k
  BY <1>1, <1>2, <1>3
<1>7. q < p + 1
  BY <1>1, <1>2, <1>6, ProductReflects
<1>8. ASSUME l = k PROVE q = p
  <2>1. a = p * k
    BY <1>8 DEF a
  <2>2. p * k < (q + 1) * k
    BY <1>1, <1>2, <1>3, <2>1
  <2>3. p < q + 1
    BY <1>1, <1>2, <2>2, ProductReflects
  <2> QED BY <1>2, <1>7, <2>3
<1>9. q \in Nat /\ q <= p
  BY <1>2, <1>5, <1>7
<1> QED BY <1>8, <1>9 DEF q, a

(* The lots of a row are sold. *)
LEMMA ExitKeeps ==
  ASSUME GateInv, NEW t \in Tickers, NEW price \in RefPrices, NEW days, NEW closing,
         Exit(t, price, days, closing)
  PROVE  GateInv'
<1> DEFINE l == rowLots[t]
           cost == (account.paid[t] * l) \div account.lots[t]
           lots == account.lots[t] - l
           paid == account.paid[t] - cost
           roubles == account.roubles + l * price
<1>1. /\ l \in Nat /\ arrived[t] \in Nat /\ extra[t] \in Nat /\ price \in Nat
      /\ account.lots[t] \in Nat /\ account.paid[t] \in Nat /\ account.roubles \in Int
      /\ account \in Accounts
  BY GateLimits DEF GateInv, GateTypes, Accounts
<1>2. turn = 0 /\ l > 0 /\ l <= account.lots[t]
  BY <1>1 DEF Exit
<1>3. cost \in Nat /\ cost <= account.paid[t] /\ (l = account.lots[t] => cost = account.paid[t])
  <2> HIDE DEF l
  <2> QED BY <1>1, <1>2, PartOfCost
<1>4. lots \in Nat /\ paid \in Nat /\ roubles \in Int
  <2>1. l * price \in Int
    BY <1>1
  <2> HIDE DEF l, cost
  <2> QED BY <1>1, <1>2, <1>3, <2>1
<1>5. /\ account' = AccountWith(t, lots, paid, roubles)
      /\ behind' = account
      /\ rowLots' = [rowLots EXCEPT ![t] = 0]
      /\ extra' = [extra EXCEPT ![t] = 0]
      /\ UNCHANGED <<waiting, arrived, portfolio, lagged, turn, clamped, overlooked>>
  BY DEF Exit, AccountWith
<1> HIDE DEF l, cost
<1>6. /\ account' \in Accounts
      /\ \A u \in Tickers :
           /\ account'.lots[u] = IF u = t THEN lots ELSE account.lots[u]
           /\ account'.paid[u] = IF u = t THEN paid ELSE account.paid[u]
  <2> HIDE DEF lots, paid, roubles
  <2>1. account' = AccountWith(t, lots, paid, roubles)
    BY <1>5
  <2>2. account \in Accounts /\ lots \in Nat /\ paid \in Nat /\ roubles \in Int
    BY <1>1, <1>4
  <2> QED BY <2>1, <2>2, AccountWithType
<1>7. \A u \in Tickers : /\ rowLots'[u] = IF u = t THEN 0 ELSE rowLots[u]
                         /\ extra'[u] = IF u = t THEN 0 ELSE extra[u]
  BY <1>5 DEF GateInv, GateTypes
<1>8. GateTypes'
  <2>1. rowLots' \in [Tickers -> Nat] /\ extra' \in [Tickers -> Nat] /\ behind' \in Accounts
    BY <1>1, <1>5 DEF GateInv, GateTypes
  <2> QED BY <1>5, <1>6, <2>1 DEF GateInv, GateTypes
<1>9. OrdersArePriced'
  BY <1>4, <1>5, <1>6, <1>7 DEF GateInv, OrdersArePriced
<1>10. ASSUME ~overlooked
       PROVE  l = account.lots[t] /\ lots = 0 /\ paid = 0
  <2>1. account.lots[t] = l + arrived[t] /\ (l > 0 => arrived[t] = 0)
    BY <1>10 DEF GateInv, RowsShow, l
  <2>2. l = account.lots[t]
    BY <1>1, <1>2, <2>1
  <2> QED BY <1>1, <1>3, <2>2
<1>11. RowsShow'
  <2> SUFFICES ASSUME ~overlooked, NEW u \in Tickers
               PROVE  /\ account'.lots[u] = rowLots'[u] + arrived[u]
                      /\ rowLots'[u] > 0 => arrived[u] = 0
                      /\ account'.lots[u] > 0 => waiting[u].lots = 0
    BY <1>5 DEF RowsShow
  <2>1. /\ account.lots[u] = rowLots[u] + arrived[u]
        /\ rowLots[u] > 0 => arrived[u] = 0
        /\ account.lots[u] > 0 => waiting[u].lots = 0
    BY DEF GateInv, RowsShow
  <2>2. CASE u = t
    <3>1. arrived[t] = 0
      BY <1>2, <2>1, <2>2 DEF l
    <3> QED BY <1>6, <1>7, <1>10, <2>2, <3>1
  <2>3. CASE u # t
    BY <1>6, <1>7, <2>1, <2>3
  <2> QED BY <2>2, <2>3
<1>12. ReadIsTrue'
  BY <1>2, <1>5 DEF ReadIsTrue
<1>13. OldSharesShow'
  <2> SUFFICES ASSUME NEW u \in Tickers, account'.lots[u] > 0
               PROVE  account.lots[u] > 0
    BY <1>2, <1>5 DEF OldSharesShow
  <2> QED BY <1>1, <1>2, <1>6
<1>14. TickersWithinLimit => TickersWithinLimit'
  <2> DEFINE before == {u \in Tickers : account.lots[u] + waiting[u].lots > 0}
             now == {u \in Tickers : account'.lots[u] + waiting[u].lots > 0}
  <2>1. \A u \in Tickers : account.lots[u] \in Nat /\ waiting[u].lots \in Nat
    BY DEF GateInv, GateTypes, Accounts
  <2>2. now \subseteq before
    BY <1>1, <1>2, <1>6, <2>1
  <2>3. IsFiniteSet(before) /\ Cardinality(before) \in Nat
    BY FS_Subset, FS_CardinalityType, GateLimits
  <2>4. TickersWithinLimit => Cardinality(before) <= MaxPositions
    BY DEF TickersWithinLimit
  <2>5. Cardinality(now) <= MaxPositions => TickersWithinLimit'
    BY <1>5 DEF TickersWithinLimit
  <2> HIDE DEF before, now
  <2>6. Cardinality(now) \in Nat /\ Cardinality(now) <= Cardinality(before)
    BY <2>2, <2>3, FS_Subset, FS_CardinalityType
  <2>7. MaxPositions \in Nat
    BY GateLimits
  <2> QED BY <2>3, <2>4, <2>5, <2>6, <2>7
<1>15. ASSUME ~overlooked PROVE CostWithinLimit => CostWithinLimit'
  <2>1. /\ Numbers(extra) /\ Numbers(extra')
        /\ Numbers(account.paid) /\ Numbers(account'.paid)
    BY <1>8, SumsOfGate, GateLimits DEF Numbers, GateInv, GateTypes, Accounts
  <2>2. /\ Total(Blocked) \in Int /\ Total(Above) \in Int /\ Total(extra) \in Int
        /\ Total(account.paid) \in Int
    BY SumsOfGate DEF GateInv
  <2>3. Total(extra') = Total(extra) - extra[t]
    <3>1. DOMAIN extra' = DOMAIN extra /\ t \in DOMAIN extra
          /\ extra'[t] = 0 /\ \A x \in DOMAIN extra : x # t => extra'[x] = extra[x]
      BY <1>5 DEF GateInv, GateTypes
    <3>2. Total(extra') = Total(extra) + extra'[t] - extra[t]
      BY <2>1, <3>1, TotalMoves
    <3> QED BY <1>1, <2>2, <3>1, <3>2
  <2>4. Total(account'.paid) = Total(account.paid) - account.paid[t]
    <3>1. DOMAIN account'.paid = DOMAIN account.paid /\ t \in DOMAIN account.paid
          /\ account'.paid[t] = 0
          /\ \A x \in DOMAIN account.paid : x # t => account'.paid[x] = account.paid[x]
      BY <1>6, <1>10, <1>15 DEF GateInv, GateTypes, Accounts
    <3>2. Total(account'.paid) = Total(account.paid) + account'.paid[t] - account.paid[t]
      BY <2>1, <3>1, TotalMoves
    <3> QED BY <1>1, <2>2, <3>1, <3>2
  <2>5. Blocked' = Blocked /\ Above' = Above
    BY <1>5 DEF Blocked, Above
  <2>6. CostWithinLimit' <=>
          Total(account'.paid) + Total(Blocked) <= Allocated + Total(extra') + Total(Above)
    BY <2>5 DEF CostWithinLimit
  <2>7. CostWithinLimit <=>
          Total(account.paid) + Total(Blocked) <= Allocated + Total(extra) + Total(Above)
    BY DEF CostWithinLimit
  <2>8. Allocated \in Int /\ extra[t] <= account.paid[t]
    BY GateLimits DEF GateInv, OrdersArePriced
  <2> QED BY <1>1, <2>2, <2>3, <2>4, <2>6, <2>7, <2>8
<1> QED BY <1>5, <1>8, <1>9, <1>11, <1>12, <1>13, <1>14, <1>15 DEF GateInv

-----------------------------------------------------------------------------
(* Every step *)

LEMMA GateStarts == GateInit => GateInv
<1> SUFFICES ASSUME GateInit PROVE GateInv
  OBVIOUS
<1>1. /\ account = [lots |-> NoLots, paid |-> NoLots, roubles |-> Allocated]
      /\ behind = account /\ waiting = [t \in Tickers |-> NoOrder]
      /\ arrived = NoLots /\ rowLots = NoLots /\ extra = NoLots
      /\ portfolio = PortfolioOf(account) /\ turn = 0
      /\ lagged = FALSE /\ clamped = FALSE /\ overlooked = FALSE
  BY DEF GateInit
<1>2. NoOrder \in [lots : Nat, blocked : Nat, above : Nat]
      /\ NoOrder.lots = 0 /\ NoOrder.blocked = 0 /\ NoOrder.above = 0
  BY DEF NoOrder
<1>3. NoLots \in [Tickers -> Nat] /\ \A t \in Tickers : NoLots[t] = 0
  BY DEF NoLots
<1>4. account \in Accounts
  BY <1>1, <1>3, GateLimits DEF Accounts
<1>5. Numbers(NoLots) /\ Numbers(Blocked) /\ Numbers(Above)
  BY <1>1, <1>2, <1>3, GateLimits DEF Numbers, Blocked, Above
<1>6. Total(NoLots) = 0 /\ Total(Blocked) = 0 /\ Total(Above) = 0
  <2>1. \A x \in DOMAIN NoLots : NoLots[x] = 0
    BY <1>3
  <2>2. \A x \in DOMAIN Blocked : Blocked[x] = 0
    BY <1>1, <1>2 DEF Blocked
  <2>3. \A x \in DOMAIN Above : Above[x] = 0
    BY <1>1, <1>2 DEF Above
  <2> QED BY <1>5, <2>1, <2>2, <2>3, TotalOfZeros
<1>7. /\ PortfolioOf(account).held \subseteq Tickers
      /\ PortfolioOf(account).openCost \in Int /\ PortfolioOf(account).cash \in Int
  <2>1. PortfolioOf(account).cash = Max({0, account.roubles - Total(Blocked)})
        /\ PortfolioOf(account).openCost = Total(NoLots)
        /\ PortfolioOf(account).held \subseteq Tickers
    BY <1>1 DEF PortfolioOf, Blocked
  <2>2. account.roubles - Total(Blocked) \in Int
    BY <1>4, <1>6 DEF Accounts
  <2>3. Max({0, account.roubles - Total(Blocked)}) \in Int
    BY <2>2, MaxWithZero
  <2> QED BY <1>6, <2>1, <2>3
<1>8. GateTypes
  BY <1>1, <1>2, <1>3, <1>4, <1>7 DEF GateTypes
<1>9. OrdersArePriced /\ RowsShow /\ OldSharesShow
  <2>1. \A t \in Tickers : /\ waiting[t] = NoOrder /\ arrived[t] = 0 /\ rowLots[t] = 0
                           /\ extra[t] = 0 /\ account.lots[t] = 0 /\ account.paid[t] = 0
    BY <1>1, <1>3
  <2> QED BY <1>2, <2>1 DEF OrdersArePriced, RowsShow, OldSharesShow
<1>10. ReadIsTrue
  BY <1>1 DEF ReadIsTrue
<1>11. TickersWithinLimit
  <2>1. {t \in Tickers : account.lots[t] + waiting[t].lots > 0} = {}
    BY <1>1, <1>2, <1>3
  <2>2. Cardinality({}) = 0 /\ MaxPositions \in Nat
    BY FS_EmptySet, GateLimits
  <2>3. 0 <= MaxPositions
    BY <2>2
  <2> QED BY <2>1, <2>2, <2>3 DEF TickersWithinLimit
<1>12. CostWithinLimit
  BY <1>1, <1>6, GateLimits DEF CostWithinLimit
<1> QED BY <1>8, <1>9, <1>10, <1>11, <1>12 DEF GateInv

LEMMA GateStep == GateInv /\ [GateNext]_gateVars => GateInv'
<1> SUFFICES ASSUME GateInv, [GateNext]_gateVars PROVE GateInv'
  OBVIOUS
<1>1. CASE UNCHANGED gateVars
  BY <1>1, NothingMoves DEF gateVars, GateInv, GateTypes
<1>2. CASE BeginPass
  BY <1>2, BeginPassKeeps
<1>3. ASSUME NEW t \in Looking, PassedOver(t) PROVE GateInv'
  BY <1>3, PassedOverKeeps
<1>4. ASSUME NEW t \in Looking, NEW price \in RefPrices, NEW slip \in {0, Slip},
             Enter(t, price, price + slip)
      PROVE  GateInv'
  BY <1>4, EnterKeeps
<1>5. ASSUME NEW t \in Tickers, WaitingFills(t) PROVE GateInv'
  BY <1>5, WaitingFillsKeeps
<1>6. ASSUME NEW t \in Tickers, WaitingDies(t) PROVE GateInv'
  BY <1>6, WaitingDiesKeeps
<1>7. ASSUME NEW t \in Tickers, NEW price \in RefPrices, NEW days, NEW closing,
             Exit(t, price, days, closing)
      PROVE  GateInv'
  BY <1>7, ExitKeeps
<1> QED BY <1>1, <1>2, <1>3, <1>4, <1>5, <1>6, <1>7 DEF GateNext

(* Shares already held are bought again only by an entry left unresolved:   *)
(* every other entry looks for a row, and at a portfolio in which shares    *)
(* without a row show, however far it lags.                                 *)
THEOREM HeldIsNeverBoughtAgain == GateSpec => HeldIsNotBoughtAgain
<1> DEFINE Again == \A t \in Tickers :
                      account.lots[t] > 0 /\ account'.lots[t] > account.lots[t]
                        => waiting[t].lots > 0 \/ arrived[t] > 0
<1>1. ASSUME GateInv, [GateNext]_gateVars PROVE [Again]_gateVars
  <2> SUFFICES ASSUME ~ UNCHANGED gateVars, NEW u \in Tickers,
                      account.lots[u] > 0, account'.lots[u] > account.lots[u]
               PROVE  waiting[u].lots > 0 \/ arrived[u] > 0
    OBVIOUS
  <2>1. account.lots[u] \in Nat /\ account'.lots[u] \in Nat
        /\ account'.lots[u] # account.lots[u]
    BY <1>1, GateStep DEF GateInv, GateTypes, Accounts
  <2>2. ASSUME UNCHANGED account PROVE FALSE
    BY <2>1, <2>2
  <2>3. ASSUME NEW t \in Looking, NEW price \in RefPrices, NEW slip \in {0, Slip},
               Enter(t, price, price + slip)
        PROVE  arrived[u] > 0
    <3>1. t \in Tickers /\ turn > 0
      BY <1>1, LookingAtATicker DEF GateInv, GateTypes
    <3>2. PICK got : account' = BoughtAccount(t, got, price + slip)
      BY <2>2, <2>3, EnterEndsInOne DEF Filled, Refused, Unknown
    <3>3. u = t
      BY <1>1, <2>1, <3>2 DEF BoughtAccount, GateInv, GateTypes, Accounts
    <3> QED BY <1>1, <2>3, <3>1, <3>3, Entering
  <2>4. ASSUME NEW t \in Tickers, WaitingFills(t) PROVE waiting[u].lots > 0
    <3>1. u = t
      BY <1>1, <2>1, <2>4 DEF WaitingFills, GateInv, GateTypes, Accounts
    <3> QED BY <2>4, <3>1 DEF WaitingFills
  <2>5. ASSUME NEW t \in Tickers, NEW price \in RefPrices, NEW days, NEW closing,
               Exit(t, price, days, closing)
        PROVE  FALSE
    <3>1. u = t
      BY <1>1, <2>1, <2>5 DEF Exit, GateInv, GateTypes, Accounts
    <3>2. account'.lots[t] = account.lots[t] - rowLots[t] /\ rowLots[t] > 0
          /\ rowLots[t] \in Nat
      BY <1>1, <2>5 DEF Exit, GateInv, GateTypes, Accounts
    <3> QED BY <2>1, <3>1, <3>2
  <2> QED BY <1>1, <2>2, <2>3, <2>4, <2>5
          DEF GateNext, BeginPass, PassedOver, WaitingDies
<1> QED BY <1>1, GateStarts, GateStep, PTL DEF GateSpec, HeldIsNotBoughtAgain

(* The reserve is worth the slippage of an entry on what it is sized on.    *)
ReserveCoversSlip ==
  \A price \in RefPrices : (price + Slip) * (100 - ReservePct) <= 100 * price

(* What an entry is sized on is free at the broker, with its slippage.      *)
LEMMA SizedIsAllowed ==
  ASSUME ReserveCoversSlip, GateInv, NEW t \in Tickers, turn > 0, NEW price \in RefPrices,
         NEW slip \in {0, Slip}, Enter(t, price, price + slip), ~overlooked'
  PROVE  ~ Min({Decision(t, price).lots, AllowedLots(price + slip)}) < Decision(t, price).lots
<1> DEFINE L == Decision(t, price).lots
           C == PortfolioOf(account).cash
           f == price + slip
           r == 100 - ReservePct
           q == AllowedLots(f)
<1>1. /\ price \in Nat /\ price > 0 /\ slip \in Nat /\ slip <= Slip /\ Slip \in Nat
      /\ r \in Nat /\ r > 0 /\ f \in Nat /\ f > 0
  BY GateLimits
<1>2. L \in Int /\ L > 0 /\ L * (100 * price) <= portfolio.cash * r
  BY SizedWithin DEF GateInv, Enter
<1>3. portfolio.cash <= C /\ C \in Nat /\ portfolio.cash \in Int
  BY Entering, PortfolioSays DEF GateInv, ReadIsTrue, GateTypes
<1>4. q \in Int /\ C < q * f + f
  <2>1. q = C \div f
    BY DEF AllowedLots
  <2> HIDE DEF C, f, q
  <2> QED BY <1>1, <1>3, <2>1, DivisionBounds
<1>5. f * r <= 100 * price
  <2>1. f * r <= (price + Slip) * r
    BY <1>1, ProductGrows
  <2>2. (price + Slip) * r <= 100 * price
    BY DEF ReserveCoversSlip
  <2>3. f * r \in Int /\ (price + Slip) * r \in Int /\ 100 * price \in Int
    BY <1>1
  <2> HIDE DEF f, r
  <2> QED BY <2>1, <2>2, <2>3
<1> HIDE DEF L, C, f, r, q
<1>6. (L * f) * r <= C * r
  <2>1. portfolio.cash * r <= C * r
    BY <1>1, <1>3, ProductGrows
  <2>2. (f * r) * L <= (100 * price) * L
    <3>1. f * r \in Int /\ 100 * price \in Int /\ L \in Nat
      BY <1>1, <1>2
    <3> QED BY <1>5, <3>1, ProductGrows
  <2>3. (f * r) * L = (L * f) * r /\ (100 * price) * L = L * (100 * price)
    BY <1>1, <1>2
  <2>4. /\ portfolio.cash * r \in Int /\ C * r \in Int /\ (L * f) * r \in Int
        /\ L * (100 * price) \in Int
    BY <1>1, <1>2, <1>3
  <2> QED BY <1>2, <2>1, <2>2, <2>3, <2>4
<1>7. L * f <= C
  <2>1. L * f \in Int /\ C \in Int
    BY <1>1, <1>2, <1>3
  <2>2. ~ C * r < (L * f) * r
    <3>1. C * r \in Int /\ (L * f) * r \in Int
      BY <1>1, <2>1
    <3> QED BY <1>6, <3>1
  <2>3. C < L * f => C * r < (L * f) * r
    <3> DEFINE m == L * f
    <3>1. C \in Int /\ m \in Int /\ r \in Nat /\ r > 0
      BY <1>1, <2>1
    <3> HIDE DEF m
    <3>2. C < m => C * r < m * r
      BY <3>1
    <3> QED BY <3>2 DEF m
  <2> QED BY <2>1, <2>2, <2>3
<1>8. L < q + 1
  <2>1. (q + 1) * f = q * f + f /\ L * f \in Int /\ q * f \in Int
    BY <1>1, <1>2, <1>4
  <2>2. L * f < (q + 1) * f
    BY <1>1, <1>3, <1>4, <1>7, <2>1
  <2> QED BY <1>1, <1>2, <1>4, <2>2, ProductReflects
<1>9. Min({L, q}) \in {L, q}
  BY <1>2, <1>4, MinOfTwo
<1> QED BY <1>2, <1>4, <1>8, <1>9 DEF L, q, f

(* Unless an entry was decided on a portfolio that did not show another's   *)
(* order or fill: no more tickers are held or ordered than MAX_POSITIONS,   *)
(* they cost no more than the allocated capital and the slippage of their   *)
(* fills, and, where the reserve is worth that slippage, no entry comes out *)
(* smaller than it was sized.                                               *)
THEOREM LimitsStayKept ==
  ASSUME ReserveCoversSlip
  PROVE  GateSpec => []LimitsKept
<1> DEFINE NotClamped == ~overlooked => ~clamped
<1>1. GateInit => NotClamped
  BY DEF GateInit
<1>2. GateInv /\ NotClamped /\ [GateNext]_gateVars => NotClamped'
  <2> SUFFICES ASSUME GateInv, NotClamped, [GateNext]_gateVars, ~overlooked'
               PROVE  ~clamped'
    OBVIOUS
  <2>1. ASSUME NEW t \in Looking, NEW price \in RefPrices, NEW slip \in {0, Slip},
               Enter(t, price, price + slip)
        PROVE  ~clamped'
    <3>1. t \in Tickers /\ turn > 0
      BY LookingAtATicker DEF GateInv, GateTypes
    <3>2. ~overlooked
      BY <2>1, <3>1, Entering
    <3>3. ~ Min({Decision(t, price).lots, AllowedLots(price + slip)}) < Decision(t, price).lots
      BY <2>1, <3>1, SizedIsAllowed
    <3>4. clamped' = (clamped \/ (Min({Decision(t, price).lots, AllowedLots(price + slip)})
                                    < Decision(t, price).lots /\ ~overlooked'))
      BY <2>1 DEF Enter
    <3> QED BY <3>2, <3>3, <3>4
  <2>2. ASSUME UNCHANGED <<clamped, overlooked>> PROVE ~clamped'
    BY <2>2
  <2> QED BY <2>1, <2>2 DEF GateNext, gateVars, BeginPass, PassedOver, WaitingFills,
                            WaitingDies, Exit
<1>3. GateInv /\ NotClamped => LimitsKept
  BY DEF GateInv, LimitsKept, TickersWithinLimit, CostWithinLimit, Blocked, Above
<1> QED BY <1>1, <1>2, <1>3, GateStarts, GateStep, PTL DEF GateSpec

-----------------------------------------------------------------------------
(* What the owner is told *)

LEMMA SequenceSum ==
  ASSUME NEW s \in Seq(Int)
  PROVE  Numbers(s) /\ FoldSeq(+, 0, s) = Total(s) /\ FoldSeq(+, 0, s) \in Int
<1>1. DOMAIN s = 1 .. Len(s) /\ Len(s) \in Nat /\ s \in [1 .. Len(s) -> Int]
  OBVIOUS
<1>2. Numbers(s)
  BY <1>1, FS_Interval DEF Numbers
<1>3. FoldSeq(+, 0, s) = Total(s)
  BY DEF FoldSeq, FoldFunction, Total, SumFunction, SumFunctionOnSet
<1> QED BY <1>2, <1>3, TotalIsInt

(* The values of a function added over a set. *)
SetStep(g, f, S) ==
  [s \in SUBSET S |-> IF s = {} THEN 0 ELSE f[Chosen(s)] + g[s \ {Chosen(s)}]]

SetTotal(f, S) == (CHOOSE g : g = SetStep(g, f, S))[S]

LEMMA SetSum ==
  ASSUME NEW f, NEW S, IsFiniteSet(S), \A x \in S : f[x] \in Int
  PROVE  SetTotal(f, S) = Total([x \in S |-> f[x]]) /\ SetTotal(f, S) \in Int
<1> DEFINE h == [x \in S |-> f[x]]
           G == CHOOSE g : g = SetStep(g, f, S)
<1>1. Numbers(h) /\ DOMAIN h = S
  BY DEF Numbers
<1>2. \A s \in SUBSET S : s # {} => h[Chosen(s)] = f[Chosen(s)]
  BY ChosenIsIn
<1>3. \A g : SetStep(g, f, S) = OneMore(g, h)
  <2> SUFFICES ASSUME NEW g PROVE SetStep(g, f, S) = OneMore(g, h)
    OBVIOUS
  <2>1. OneMore(g, h) = [s \in SUBSET S |-> IF s = {} THEN 0
                                             ELSE h[Chosen(s)] + g[s \ {Chosen(s)}]]
    BY <1>1 DEF OneMore
  <2> HIDE DEF h
  <2> QED BY <1>2, <2>1 DEF SetStep
<1>4. SetTotal(f, S) = G[S]
  BY DEF SetTotal
<1> HIDE DEF h
<1>5. PICK g \in [SUBSET S -> Int] : SumsUp(g, h) /\ Total(h) = g[S]
  BY <1>1, TotalFolds
<1>6. g = SetStep(g, f, S)
  BY <1>3, <1>5 DEF SumsUp
<1>7. G = SetStep(G, f, S)
  BY <1>6
<1>8. SumsUp(G, h)
  BY <1>3, <1>7 DEF SumsUp
<1> HIDE DEF G
<1>9. G = g
  BY <1>1, <1>5, <1>8, SumsAreOne
<1> QED BY <1>4, <1>5, <1>9 DEF h

(* Of naturals up to a bound there is a greatest. *)
LEMMA GreatestExists ==
  ASSUME NEW k \in Nat, NEW S, S \subseteq 0 .. k, S # {}
  PROVE  Max(S) \in S /\ \A x \in S : x <= Max(S)
<1> DEFINE R == {k - x : x \in S}
<1>1. R \subseteq Nat /\ R # {}
  <2>1. \A x \in S : k - x \in Nat
    OBVIOUS
  <2> QED BY <2>1
<1>2. PICK m \in R : \A n \in Nat : n < m => n \notin R
  <2> HIDE DEF R
  <2> QED BY <1>1, LeastFailing
<1>3. PICK x \in S : m = k - x
  BY <1>2
<1>4. \A y \in S : x >= y
  <2> SUFFICES ASSUME NEW y \in S PROVE x >= y
    OBVIOUS
  <2>0. x \in 0 .. k /\ y \in 0 .. k /\ k - y \in R
    OBVIOUS
  <2>1. k - y \in R /\ k - y \in Nat /\ x \in Int /\ y \in Int
    <3> HIDE DEF R
    <3> QED BY <2>0
  <2>2. ~ k - y < k - x
    BY <1>2, <1>3, <2>1
  <2> QED BY <2>1, <2>2
<1>5. \E z \in S : \A y \in S : z >= y
  BY <1>4
<1>6. Max(S) \in S /\ \A y \in S : Max(S) >= y
  BY <1>5 DEF Max
<1> QED BY <1>6

LEMMA LeastIsIn ==
  ASSUME NEW S, S \subseteq Nat, S # {}
  PROVE  Min(S) \in S /\ \A n \in S : Min(S) <= n
<1>1. PICK m \in S : \A n \in Nat : n < m => n \notin S
  BY LeastFailing
<1>2. \A n \in S : m <= n
  BY <1>1
<1> QED BY <1>2 DEF Min

(* The report as a function of its sections: its length without the first  *)
(* n of DropOrder, and how many are left out.                               *)
TextOf(r, n) ==
  HeaderLength + (IF n > 0 THEN NoteLength ELSE 0)
    + SetTotal(r, Sections \ {DropOrder[i] : i \in 1 .. n})

LeftOut(r) ==
  Min({Len(DropOrder)} \cup {n \in 0 .. Len(DropOrder) : TextOf(r, n) <= MessageLimit})

LEMMA ReportText ==
  /\ Dropped = LeftOut(report) /\ Composed(Dropped) = TextOf(report, LeftOut(report))
  /\ Dropped' = LeftOut(report') /\ Composed(Dropped)' = TextOf(report', LeftOut(report'))
<1>1. /\ \A n : Composed(n) = TextOf(report, n)
      /\ \A n : Composed(n)' = TextOf(report', n)
  BY DEF Composed, TextOf, SetTotal, SetStep, MapThenSumSet, MapThenFoldSet, Chosen
<1>2. Dropped = LeftOut(report)
  <2>1. {n \in 0 .. Len(DropOrder) : Composed(n) <= MessageLimit}
          = {n \in 0 .. Len(DropOrder) : TextOf(report, n) <= MessageLimit}
    BY <1>1
  <2> QED BY <2>1 DEF Dropped, LeftOut
<1>3. Dropped' = LeftOut(report')
  <2>1. {n \in 0 .. Len(DropOrder) : Composed(n)' <= MessageLimit}
          = {n \in 0 .. Len(DropOrder) : TextOf(report', n) <= MessageLimit}
    BY <1>1
  <2> QED BY <2>1 DEF Dropped, LeftOut
<1>4. Composed(Dropped)' = TextOf(report', Dropped')
  BY DEF Composed, TextOf, SetTotal, SetStep, MapThenSumSet, MapThenFoldSet, Chosen
<1> QED BY <1>1, <1>2, <1>3, <1>4

MessagesInv ==
  /\ lines \in Seq(Nat)
  /\ report \in [Sections -> Nat]
  /\ sending.attempt \in 0 .. Attempts
  /\ sending = NoMessage \/ sending.kind \in {"reply", "alert"}
  /\ sending.kind = "alert" =>
       /\ sending.length = TextOf(report, LeftOut(report))
       /\ sending.doomed => sending.attempt = 1

LEMMA CutIsNumber ==
  ASSUME lines \in Seq(Nat), NEW n \in 0 .. Len(lines)
  PROVE  CutAfter(n) \in Int
<1>1. \A i \in 1 .. n : lines[i] \in Int
  OBVIOUS
<1>2. SubSeq(lines, 1, n) \in Seq(Int)
  BY <1>1, SubSeqProperties
<1> DEFINE x == FoldSeq(+, 0, SubSeq(lines, 1, n))
<1>3. x \in Int
  BY <1>2, SequenceSum
<1>4. CutAfter(n) = HeaderLength + x + (IF n < Len(lines) THEN NoteLength ELSE 0)
  BY DEF CutAfter
<1> HIDE DEF x
<1> QED BY <1>3, <1>4, MessageBounds

(* A reply holds what fits with the note for the rest, and the note.        *)
LEMMA RepliesFit ==
  ASSUME lines \in Seq(Nat)
  PROVE  RepliesAccountForAll
<1> DEFINE k == Len(lines)
           S == {n \in 0 .. k : \A m \in 1 .. n : Fits(m)}
<1>1. k \in Nat /\ 0 \in S
  OBVIOUS
<1>2. Listed \in S
  <2>1. S \subseteq 0 .. k /\ S # {}
    BY <1>1
  <2>2. Max(S) \in S
    <3> HIDE DEF S
    <3> QED BY <1>1, <2>1, GreatestExists
  <2> QED BY <2>2 DEF Listed
<1>3. Listed \in 0 .. k /\ \A m \in 1 .. Listed : Fits(m)
  BY <1>2
<1> HIDE DEF S
<1>4. CutAfter(Listed) \in Int
  BY <1>3, CutIsNumber
<1>5. CutAfter(Listed) <= MessageLimit
  <2>1. CASE Listed = 0
    <3>1. SubSeq(lines, 1, 0) = << >>
      BY SubSeqEmpty
    <3>2. << >> \in Seq(Int) /\ DOMAIN << >> = {}
      OBVIOUS
    <3> DEFINE x == FoldSeq(+, 0, SubSeq(lines, 1, 0))
    <3>3. x = 0
      <4>1. Numbers(SubSeq(lines, 1, 0)) /\ x = Total(SubSeq(lines, 1, 0))
        BY <3>1, <3>2, SequenceSum
      <4> HIDE DEF x
      <4> QED BY <3>1, <3>2, <4>1, TotalOfZeros
    <3>4. CutAfter(0) = HeaderLength + x + (IF 0 < Len(lines) THEN NoteLength ELSE 0)
      BY DEF CutAfter
    <3> HIDE DEF x
    <3> QED BY <2>1, <3>3, <3>4, MessageBounds
  <2>2. CASE Listed # 0
    BY <1>1, <1>3, <2>2 DEF Fits
  <2> QED BY <2>1, <2>2
<1>6. Reply.length <= MessageLimit
  <2>1. Reply.length = Min({CutAfter(Listed), MessageLimit})
    BY DEF Reply
  <2>2. MessageLimit \in Int
    BY MessageBounds
  <2>3. Min({CutAfter(Listed), MessageLimit}) <= MessageLimit
    BY <1>4, <2>2, MinOfTwo
  <2> QED BY <2>1, <2>3
<1>7. Reply.listed + Reply.counted = Len(lines)
  BY <1>1, <1>3, <1>5 DEF Reply
<1> QED BY <1>6, <1>7 DEF RepliesAccountForAll

LEMMA SectionsFinite == IsFiniteSet(Sections)
<1> DEFINE A == {"P&L", "Per-strategy"}
           B == {"Win rate", "Worst trade"}
           C == {"Exit-trigger distribution", "Cooldown-blocked signals"}
           D == {"Gapped exits"}
<1>1. \A x, y : IsFiniteSet({x, y})
  <2> SUFFICES ASSUME NEW x, NEW y PROVE IsFiniteSet({x, y})
    OBVIOUS
  <2>1. {x, y} = {x} \cup {y} /\ IsFiniteSet({x}) /\ IsFiniteSet({y})
    BY FS_Singleton
  <2> QED BY <2>1, FS_Union
<1>2. IsFiniteSet(A) /\ IsFiniteSet(B) /\ IsFiniteSet(C) /\ IsFiniteSet(D)
  BY <1>1, FS_Singleton
<1>3. Sections = ((A \cup B) \cup C) \cup D
  BY DEF Sections
<1> HIDE DEF A, B, C, D
<1>4. IsFiniteSet(A \cup B)
  BY <1>2, FS_Union
<1>5. IsFiniteSet((A \cup B) \cup C)
  BY <1>2, <1>4, FS_Union
<1> QED BY <1>2, <1>3, <1>5, FS_Union

(* A report is too long only without all that may be left out. *)
LEMMA ReportsAreCut ==
  ASSUME NEW r \in [Sections -> Nat], TextOf(r, LeftOut(r)) > MessageLimit
  PROVE  LeftOut(r) = Len(DropOrder)
<1> DEFINE S == {n \in 0 .. Len(DropOrder) : TextOf(r, n) <= MessageLimit}
<1>1. Len(DropOrder) = 3
  BY DEF DropOrder
<1>2. LeftOut(r) \in {Len(DropOrder)} \cup S
  <2>1. {Len(DropOrder)} \cup S \subseteq Nat /\ {Len(DropOrder)} \cup S # {}
    BY <1>1
  <2>2. LeftOut(r) = Min({Len(DropOrder)} \cup S)
    BY DEF LeftOut
  <2> HIDE DEF S
  <2> QED BY <2>1, <2>2, LeastIsIn
<1>3. ASSUME LeftOut(r) \in S PROVE FALSE
  <2>1. LeftOut(r) \in 0 .. 3 /\ TextOf(r, LeftOut(r)) <= MessageLimit
    BY <1>1, <1>3
  <2> DEFINE T == Sections \ {DropOrder[i] : i \in 1 .. LeftOut(r)}
  <2>2. IsFiniteSet(T) /\ \A s \in T : r[s] \in Int
    BY SectionsFinite, FS_Subset
  <2>3. SetTotal(r, T) \in Int
    <3> HIDE DEF T
    <3> QED BY <2>2, SetSum
  <2>4. TextOf(r, LeftOut(r)) = HeaderLength + (IF LeftOut(r) > 0 THEN NoteLength ELSE 0)
                                  + SetTotal(r, T)
    BY DEF TextOf
  <2> HIDE DEF T
  <2>5. TextOf(r, LeftOut(r)) \in Int
    BY <2>3, <2>4, MessageBounds
  <2> QED BY <2>1, <2>5, MessageBounds
<1> HIDE DEF S
<1> QED BY <1>2, <1>3

LEMMA MessagesStart == MessagesInit => MessagesInv
<1> SUFFICES ASSUME MessagesInit PROVE MessagesInv
  OBVIOUS
<1>1. Min(SectionLengths) \in Nat
  BY LeastIsIn, MessageBounds
<1> QED BY <1>1 DEF MessagesInit, MessagesInv, EmptyReport, NoMessage, Attempts

LEMMA MessagesStep == MessagesInv /\ [MessagesNext]_messageVars => MessagesInv'
<1> SUFFICES ASSUME MessagesInv, [MessagesNext]_messageVars PROVE MessagesInv'
  OBVIOUS
<1>1. CASE UNCHANGED messageVars
  BY <1>1 DEF MessagesInv, messageVars
<1>2. CASE MoreToTell
  <2>1. sending' = NoMessage
    BY <1>2 DEF MoreToTell
  <2>2. lines' \in Seq(Nat)
    <3>1. \A n \in EntryLengths : Append(lines, n) \in Seq(Nat)
      BY MessageBounds DEF MessagesInv
    <3> QED BY <1>2, <3>1 DEF MoreToTell, MessagesInv
  <2>3. report' \in [Sections -> Nat]
    BY <1>2, MessageBounds DEF MoreToTell, MessagesInv
  <2> QED BY <2>1, <2>2, <2>3 DEF MessagesInv, NoMessage, Attempts
<1>3. ASSUME NEW kind \in {"reply", "alert"}, NEW length, NEW misconfigured,
             kind = "alert" => length = TextOf(report, LeftOut(report)),
             HandOver(kind, length, misconfigured)
      PROVE  MessagesInv'
  <2>1. /\ sending'.kind = kind /\ sending'.length = length /\ sending'.attempt = 1
        /\ UNCHANGED <<lines, report>>
    BY <1>3 DEF HandOver
  <2> QED BY <1>3, <2>1 DEF MessagesInv, Attempts
<1>4. ASSUME NEW misconfigured, AnswerCommand(misconfigured) \/ SendReport(misconfigured)
      PROVE  MessagesInv'
  <2>1. CASE AnswerCommand(misconfigured)
    BY <1>3, <2>1 DEF AnswerCommand
  <2>2. CASE SendReport(misconfigured)
    BY <1>3, <2>2, ReportText DEF SendReport
  <2> QED BY <1>4, <2>1, <2>2
<1>5. ASSUME NEW how, Ends(how) PROVE MessagesInv'
  BY <1>5 DEF Ends, MessagesInv, NoMessage, Attempts
<1>6. CASE Delivered
  BY <1>5, <1>6 DEF Delivered
<1>7. CASE AttemptFails
  <2>1. CASE sending.attempt < Attempts /\ WorthAnotherTry
    <3>1. /\ sending' = [sending EXCEPT !.attempt = sending.attempt + 1]
          /\ UNCHANGED <<lines, report, sent>> /\ sending # NoMessage
      BY <1>7, <2>1 DEF AttemptFails
    <3>2. /\ sending'.attempt \in 0 .. Attempts /\ sending'.kind = sending.kind
          /\ sending'.length = sending.length /\ sending'.doomed = sending.doomed
      BY <2>1, <3>1 DEF MessagesInv, Attempts
    <3>3. sending.kind \in {"reply", "alert"}
      BY <3>1 DEF MessagesInv
    <3>4. sending.kind = "alert" => ~sending.doomed
      BY <2>1 DEF WorthAnotherTry
    <3> QED BY <3>1, <3>2, <3>3, <3>4 DEF MessagesInv
  <2>2. CASE ~ (sending.attempt < Attempts /\ WorthAnotherTry)
    BY <1>5, <1>7, <2>2 DEF AttemptFails
  <2> QED BY <2>1, <2>2
<1> QED BY <1>1, <1>2, <1>4, <1>6, <1>7 DEF MessagesNext

(* A reply fits one message and accounts for every entry; a report is over  *)
(* the limit only without all that may be left out; and an alert that will  *)
(* never be taken delays its caller for one attempt: whatever the lengths.  *)
THEOREM MessagesStayWhole == MessagesSpec => []MessagesAreWhole
<1>1. MessagesInv => MessagesAreWhole
  <2> SUFFICES ASSUME MessagesInv PROVE MessagesAreWhole
    OBVIOUS
  <2>1. RepliesAccountForAll
    BY RepliesFit DEF MessagesInv
  <2>2. LongReportsAreCut
    BY ReportsAreCut, ReportText DEF MessagesInv, LongReportsAreCut
  <2>3. DoomedAlertsTriedOnce
    BY DEF MessagesInv, DoomedAlertsTriedOnce, Attempts
  <2> QED BY <2>1, <2>2, <2>3 DEF MessagesAreWhole
<1> QED BY <1>1, MessagesStart, MessagesStep, PTL DEF MessagesSpec

-----------------------------------------------------------------------------
(* What a strategy answers *)

LEMMA TotalOfOneValue ==
  ASSUME NEW f, Numbers(f), NEW c \in Int, \A x \in DOMAIN f : f[x] = c
  PROVE  Total(f) = c * Cardinality(DOMAIN f)
<1>1. PICK g \in [SUBSET DOMAIN f -> Int] : SumsUp(g, f) /\ Total(f) = g[DOMAIN f]
  BY TotalFolds
<1> DEFINE Bad == {s \in SUBSET DOMAIN f : g[s] # c * Cardinality(s)}
<1>2. \A s \in SUBSET DOMAIN f : s # {} =>
        /\ Chosen(s) \in s /\ s \ {Chosen(s)} \in SUBSET DOMAIN f
        /\ g[s] = c + g[s \ {Chosen(s)}]
  <2>1. \A s \in SUBSET DOMAIN f : s # {} =>
          Chosen(s) \in s /\ g[s] = f[Chosen(s)] + g[s \ {Chosen(s)}]
    BY <1>1, ChosenIsIn DEF SumsUp, OneMore
  <2> QED BY <2>1
<1>3. g[{}] = 0 /\ Cardinality({}) = 0
  BY <1>1, FS_EmptySet DEF SumsUp, OneMore
<1>4. \A s \in SUBSET DOMAIN f : IsFiniteSet(s) /\ Cardinality(s) \in Nat
  BY FS_Subset, FS_CardinalityType DEF Numbers
<1>5. Bad = {}
  <2> SUFFICES ASSUME Bad # {} PROVE FALSE
    OBVIOUS
  <2>1. Bad \subseteq SUBSET DOMAIN f /\ IsFiniteSet(DOMAIN f)
    BY DEF Numbers
  <2>2. PICK T \in Bad : \A x \in T : T \ {x} \notin Bad
    <3> HIDE DEF Bad
    <3> QED BY <2>1, SmallestSubset
  <2>3. T \in Bad
    BY <2>2
  <2>4. T \in SUBSET DOMAIN f /\ g[T] # c * Cardinality(T)
    BY <2>3
  <2>5. T # {}
    <3>1. c * 0 = 0
      OBVIOUS
    <3>2. g[{}] = c * Cardinality({})
      BY <1>3, <3>1
    <3> QED BY <2>4, <3>2
  <2> DEFINE y == Chosen(T)
             u == T \ {y}
  <2>6. y \in T /\ u \in SUBSET DOMAIN f /\ g[T] = c + g[u]
    BY <1>2, <2>4, <2>5
  <2>7. g[u] = c * Cardinality(u)
    BY <2>2, <2>6
  <2>8. Cardinality(u) = Cardinality(T) - 1 /\ Cardinality(T) \in Nat
    BY <1>4, <2>4, <2>6, FS_RemoveElement
  <2>9. c + c * (Cardinality(T) - 1) = c * Cardinality(T)
    <3> DEFINE n == Cardinality(T)
    <3>1. n \in Int
      BY <2>8
    <3> HIDE DEF n
    <3>2. c + c * (n - 1) = c * n
      BY <3>1
    <3> QED BY <3>2 DEF n
  <2> HIDE DEF u, y
  <2> QED BY <2>4, <2>6, <2>7, <2>8, <2>9
<1>6. g[DOMAIN f] = c * Cardinality(DOMAIN f)
  BY <1>5
<1> QED BY <1>1, <1>6

LEMMA LastOfIs ==
  ASSUME NEW S, NEW s \in Seq(S), NEW n \in 0 .. Len(s)
  PROVE  /\ LastOf(s, n) \in Seq(S) /\ Len(LastOf(s, n)) = n
         /\ \A i \in 1 .. n : LastOf(s, n)[i] = s[Len(s) - n + i]
<1> DEFINE a == Len(s) - n + 1
           b == Len(s)
<1>1. a \in Int /\ b \in Int /\ \A i \in a .. b : s[i] \in S
  OBVIOUS
<1>2. /\ SubSeq(s, a, b) \in Seq(S)
      /\ Len(SubSeq(s, a, b)) = (IF a <= b THEN b - a + 1 ELSE 0)
      /\ \A i \in 1 .. b - a + 1 : SubSeq(s, a, b)[i] = s[a + i - 1]
  <2> HIDE DEF a, b
  <2> QED BY <1>1, SubSeqProperties
<1>3. LastOf(s, n) = SubSeq(s, a, b)
  BY DEF LastOf
<1>4. b - a + 1 = n /\ (IF a <= b THEN b - a + 1 ELSE 0) = n
      /\ \A i \in 1 .. n : a + i - 1 = Len(s) - n + i
  OBVIOUS
<1> QED BY <1>2, <1>3, <1>4

LEMMA LastOfLast ==
  ASSUME NEW S, NEW s \in Seq(S), NEW n \in 0 .. Len(s), NEW m \in 0 .. n
  PROVE  LastOf(LastOf(s, n), m) = LastOf(s, m)
<1> DEFINE t == LastOf(s, n)
<1>1. /\ t \in Seq(S) /\ Len(t) = n /\ \A i \in 1 .. n : t[i] = s[Len(s) - n + i]
  BY LastOfIs
<1> HIDE DEF t
<1>2. /\ LastOf(t, m) \in Seq(S) /\ Len(LastOf(t, m)) = m
      /\ \A i \in 1 .. m : LastOf(t, m)[i] = t[n - m + i]
  BY <1>1, LastOfIs
<1>3. /\ LastOf(s, m) \in Seq(S) /\ Len(LastOf(s, m)) = m
      /\ \A i \in 1 .. m : LastOf(s, m)[i] = s[Len(s) - m + i]
  <2>1. m \in 0 .. Len(s)
    OBVIOUS
  <2> QED BY <2>1, LastOfIs
<1>4. \A i \in 1 .. m : LastOf(t, m)[i] = LastOf(s, m)[i]
  <2> SUFFICES ASSUME NEW i \in 1 .. m PROVE t[n - m + i] = s[Len(s) - m + i]
    BY <1>2, <1>3
  <2>1. n - m + i \in 1 .. n /\ Len(s) - n + (n - m + i) = Len(s) - m + i
    OBVIOUS
  <2> QED BY <1>1, <2>1
<1> QED BY <1>2, <1>3, <1>4, SeqEqual DEF t

LEMMA FrontIs ==
  ASSUME NEW S, NEW s \in Seq(S), Len(s) > 0
  PROVE  /\ Front(s) \in Seq(S) /\ Len(Front(s)) = Len(s) - 1
         /\ \A i \in 1 .. Len(s) - 1 : Front(s)[i] = s[i]
<1> DEFINE b == Len(s) - 1
<1>1. b \in Nat /\ \A i \in 1 .. b : s[i] \in S
  OBVIOUS
<1>2. /\ SubSeq(s, 1, b) \in Seq(S) /\ Len(SubSeq(s, 1, b)) = (IF 1 <= b THEN b - 1 + 1 ELSE 0)
      /\ \A i \in 1 .. b - 1 + 1 : SubSeq(s, 1, b)[i] = s[1 + i - 1]
  <2> HIDE DEF b
  <2> QED BY <1>1, SubSeqProperties
<1>3. Front(s) = SubSeq(s, 1, b)
  BY DEF Front
<1>4. b - 1 + 1 = b /\ (IF 1 <= b THEN b - 1 + 1 ELSE 0) = b
      /\ \A i \in 1 .. b : 1 + i - 1 = i
  <2>1. b \in Nat
    BY <1>1
  <2> HIDE DEF b
  <2>2. b - 1 + 1 = b /\ (~(1 <= b) => b = 0)
    BY <2>1
  <2>3. \A i \in 1 .. b : 1 + i - 1 = i
    OBVIOUS
  <2> QED BY <2>2, <2>3
<1> QED BY <1>2, <1>3, <1>4

LEMMA LastOfFront ==
  ASSUME NEW S, NEW s \in Seq(S), NEW n \in 1 .. Len(s), NEW m \in 0 .. n - 1
  PROVE  LastOf(Front(LastOf(s, n)), m) = LastOf(Front(s), m)
<1> DEFINE t == LastOf(s, n)
           p == Front(t)
           q == Front(s)
<1>0. n \in 0 .. Len(s) /\ n > 0 /\ Len(s) > 0 /\ m \in 0 .. n - 1
  OBVIOUS
<1>1. /\ t \in Seq(S) /\ Len(t) = n /\ \A i \in 1 .. n : t[i] = s[Len(s) - n + i]
  BY <1>0, LastOfIs
<1> HIDE DEF t
<1>2. /\ p \in Seq(S) /\ Len(p) = n - 1 /\ \A i \in 1 .. n - 1 : p[i] = t[i]
  <2>1. t \in Seq(S) /\ Len(t) > 0
    BY <1>0, <1>1
  <2>2. /\ Front(t) \in Seq(S) /\ Len(Front(t)) = Len(t) - 1
        /\ \A i \in 1 .. Len(t) - 1 : Front(t)[i] = t[i]
    BY <2>1, FrontIs
  <2> QED BY <1>1, <2>2
<1>3. /\ q \in Seq(S) /\ Len(q) = Len(s) - 1 /\ \A i \in 1 .. Len(s) - 1 : q[i] = s[i]
  BY <1>0, FrontIs
<1> HIDE DEF p, q
<1>4. /\ LastOf(p, m) \in Seq(S) /\ Len(LastOf(p, m)) = m
      /\ \A i \in 1 .. m : LastOf(p, m)[i] = p[n - 1 - m + i]
  <2>1. p \in Seq(S) /\ m \in 0 .. Len(p) /\ Len(p) = n - 1
    BY <1>0, <1>2
  <2>2. /\ LastOf(p, m) \in Seq(S) /\ Len(LastOf(p, m)) = m
        /\ \A i \in 1 .. m : LastOf(p, m)[i] = p[Len(p) - m + i]
    BY <2>1, LastOfIs
  <2> QED BY <2>1, <2>2, Zenon
<1>5. /\ LastOf(q, m) \in Seq(S) /\ Len(LastOf(q, m)) = m
      /\ \A i \in 1 .. m : LastOf(q, m)[i] = q[Len(s) - 1 - m + i]
  <2>1. q \in Seq(S) /\ m \in 0 .. Len(q) /\ Len(q) = Len(s) - 1
    BY <1>0, <1>3
  <2>2. /\ LastOf(q, m) \in Seq(S) /\ Len(LastOf(q, m)) = m
        /\ \A i \in 1 .. m : LastOf(q, m)[i] = q[Len(q) - m + i]
    BY <2>1, LastOfIs
  <2> QED BY <2>1, <2>2, Zenon
<1>6. \A i \in 1 .. m : LastOf(p, m)[i] = LastOf(q, m)[i]
  <2> SUFFICES ASSUME NEW i \in 1 .. m PROVE p[n - 1 - m + i] = q[Len(s) - 1 - m + i]
    BY <1>4, <1>5
  <2>1. /\ n - 1 - m + i \in 1 .. n - 1 /\ n - 1 - m + i \in 1 .. n
        /\ Len(s) - n + (n - 1 - m + i) = Len(s) - 1 - m + i
        /\ Len(s) - 1 - m + i \in 1 .. Len(s) - 1
    OBVIOUS
  <2>2. p[n - 1 - m + i] = s[Len(s) - 1 - m + i]
    BY <1>1, <1>2, <2>1
  <2>3. q[Len(s) - 1 - m + i] = s[Len(s) - 1 - m + i]
    BY <1>3, <2>1
  <2> QED BY <2>2, <2>3
<1> QED BY <1>4, <1>5, <1>6, SeqEqual DEF p, q, t

LEMMA BarsAreNumbers == \A b \in Bars : b.close \in Int
BY StrategyBounds DEF Bars

LEMMA ClosesOfIs ==
  ASSUME NEW s \in Seq(Bars)
  PROVE  /\ ClosesOf(s) \in Seq(Int) /\ Len(ClosesOf(s)) = Len(s)
         /\ \A i \in 1 .. Len(s) : ClosesOf(s)[i] = s[i].close
<1>1. Len(s) \in Nat /\ DOMAIN s = 1 .. Len(s) /\ \A i \in 1 .. Len(s) : s[i].close \in Int
  BY BarsAreNumbers
<1>2. ClosesOf(s) = [i \in 1 .. Len(s) |-> s[i].close]
  BY <1>1 DEF ClosesOf
<1> QED BY <1>1, <1>2

LEMMA ClosesOfLast ==
  ASSUME NEW s \in Seq(Bars), NEW n \in 0 .. Len(s)
  PROVE  ClosesOf(LastOf(s, n)) = LastOf(ClosesOf(s), n)
<1> DEFINE t == LastOf(s, n)
           c == ClosesOf(s)
<1>1. /\ t \in Seq(Bars) /\ Len(t) = n /\ \A i \in 1 .. n : t[i] = s[Len(s) - n + i]
  BY LastOfIs
<1>2. /\ c \in Seq(Int) /\ Len(c) = Len(s) /\ \A i \in 1 .. Len(s) : c[i] = s[i].close
  BY ClosesOfIs
<1> HIDE DEF t, c
<1>3. /\ ClosesOf(t) \in Seq(Int) /\ Len(ClosesOf(t)) = n
      /\ \A i \in 1 .. n : ClosesOf(t)[i] = t[i].close
  BY <1>1, ClosesOfIs
<1>4. /\ LastOf(c, n) \in Seq(Int) /\ Len(LastOf(c, n)) = n
      /\ \A i \in 1 .. n : LastOf(c, n)[i] = c[Len(s) - n + i]
  <2>1. c \in Seq(Int) /\ n \in 0 .. Len(c) /\ Len(c) = Len(s)
    BY <1>2
  <2>2. /\ LastOf(c, n) \in Seq(Int) /\ Len(LastOf(c, n)) = n
        /\ \A i \in 1 .. n : LastOf(c, n)[i] = c[Len(c) - n + i]
    BY <2>1, LastOfIs
  <2> QED BY <2>1, <2>2, Zenon
<1>5. \A i \in 1 .. n : ClosesOf(t)[i] = LastOf(c, n)[i]
  <2> SUFFICES ASSUME NEW i \in 1 .. n PROVE ClosesOf(t)[i] = LastOf(c, n)[i]
    OBVIOUS
  <2>1. Len(s) - n + i \in 1 .. Len(s)
    OBVIOUS
  <2> QED BY <1>1, <1>2, <1>3, <1>4, <2>1
<1> QED BY <1>3, <1>4, <1>5, SeqEqual DEF t, c

(* Where every close is the same, neither average is above the other. *)
LEMMA CrossingIsNotFlat ==
  ASSUME NEW c \in Seq(Int), Len(c) >= MaSlow, FastAbove(c)
  PROVE  ~Flat(c)
<1> SUFFICES ASSUME Flat(c) PROVE FALSE
  OBVIOUS
<1>1. /\ MaFast \in Nat /\ MaSlow \in Nat /\ MaFast <= MaSlow /\ MaFast > 0
      /\ Len(c) \in Nat
  BY StrategyBounds
<1>2. PICK v : \A i \in 1 .. Len(c) : c[i] = v
  <2>1. DOMAIN c = 1 .. Len(c) /\ Cardinality(Range(c)) = 1
    BY DEF Flat
  <2>2. IsFiniteSet(Range(c))
    <3>1. IsFiniteSet(DOMAIN c)
      BY <1>1, <2>1, FS_Interval
    <3>2. c \in Surjection(DOMAIN c, Range(c))
      BY DEF Surjection, Range
    <3> QED BY <3>1, <3>2, FS_Surjection
  <2>3. PICK v : Range(c) = {v}
    BY <2>1, <2>2, FS_Singleton
  <2>4. \A i \in 1 .. Len(c) : c[i] = v
    BY <2>1, <2>3 DEF Range
  <2> QED BY <2>4
<1>3. v \in Int
  BY <1>1, <1>2
<1>4. ASSUME NEW k \in 1 .. MaSlow PROVE Add(LastOf(c, k)) = v * k
  <2> DEFINE t == LastOf(c, k)
  <2>1. k \in 0 .. Len(c)
    BY <1>1
  <2>2. /\ t \in Seq(Int) /\ Len(t) = k /\ \A i \in 1 .. k : t[i] = c[Len(c) - k + i]
    BY <2>1, LastOfIs
  <2>3. \A i \in 1 .. k : t[i] = v
    <3>1. \A i \in 1 .. k : Len(c) - k + i \in 1 .. Len(c)
      BY <1>1, <2>1
    <3> QED BY <1>2, <2>2, <3>1
  <2> HIDE DEF t
  <2>4. DOMAIN t = 1 .. k /\ Cardinality(1 .. k) = k
    BY <1>1, <2>2, FS_Interval
  <2>5. Numbers(t) /\ FoldSeq(+, 0, t) = Total(t)
    BY <2>2, SequenceSum
  <2>6. Total(t) = v * Cardinality(1 .. k)
    BY <1>3, <2>3, <2>4, <2>5, TotalOfOneValue
  <2>7. Add(t) = Total(t)
    BY <2>5 DEF Add
  <2> QED BY <2>4, <2>6, <2>7 DEF t
<1>5. Add(LastOf(c, MaFast)) = v * MaFast /\ Add(LastOf(c, MaSlow)) = v * MaSlow
  BY <1>1, <1>4
<1>6. MaSlow * (v * MaFast) = MaFast * (v * MaSlow)
  BY <1>1, <1>3
<1>7. MaSlow * (v * MaFast) > MaFast * (v * MaSlow)
  BY <1>5 DEF FastAbove
<1>8. MaSlow * (v * MaFast) \in Int
  BY <1>1, <1>3
<1> QED BY <1>6, <1>7, <1>8

LEMMA MaWindow ==
  ASSUME NEW s \in Seq(Bars), Len(s) >= MaLookback
  PROVE  MaCrossover(s) <=> MaCrossover(LastOf(s, MaLookback))
<1> DEFINE n == MaSlow + 1
           w == LastOf(s, n)
           c == ClosesOf(s)
           d == ClosesOf(w)
<1>1. /\ MaFast \in Nat /\ MaSlow \in Nat /\ MaFast <= MaSlow /\ MaFast > 0
      /\ n \in 1 .. Len(s) /\ n \in 0 .. Len(s) /\ n = MaLookback
      /\ MaFast \in 0 .. n - 1 /\ MaSlow \in 0 .. n - 1 /\ MaFast \in 0 .. n /\ MaSlow \in 0 .. n
  BY StrategyBounds DEF MaLookback
<1>2. w \in Seq(Bars) /\ Len(w) = n
  BY <1>1, LastOfIs
<1>3. c \in Seq(Int) /\ Len(c) = Len(s)
  BY ClosesOfIs
<1>4. d = LastOf(c, n) /\ d \in Seq(Int) /\ Len(d) = n
  BY <1>1, <1>2, ClosesOfLast, ClosesOfIs
<1> HIDE DEF n, w, c, d
<1>5. FastAbove(d) <=> FastAbove(c)
  <2>1. LastOf(d, MaFast) = LastOf(c, MaFast) /\ LastOf(d, MaSlow) = LastOf(c, MaSlow)
    BY <1>1, <1>3, <1>4, LastOfLast
  <2> QED BY <2>1 DEF FastAbove
<1>6. FastAbove(Front(d)) <=> FastAbove(Front(c))
  <2>1. /\ LastOf(Front(d), MaFast) = LastOf(Front(c), MaFast)
        /\ LastOf(Front(d), MaSlow) = LastOf(Front(c), MaSlow)
    BY <1>1, <1>3, <1>4, LastOfFront
  <2> QED BY <2>1 DEF FastAbove
<1>7. FastAbove(c) => ~Flat(c) /\ ~Flat(d)
  <2>1. Len(c) >= MaSlow /\ Len(d) >= MaSlow
    BY <1>1, <1>3, <1>4 DEF n
  <2> QED BY <1>3, <1>4, <1>5, <2>1, CrossingIsNotFlat
<1>8. MaCrossover(s) <=> ~FastAbove(Front(c)) /\ FastAbove(c)
  BY <1>7 DEF MaCrossover, c
<1>9. MaCrossover(w) <=> ~FastAbove(Front(d)) /\ FastAbove(d)
  <2>1. Len(w) >= MaLookback
    BY <1>1, <1>2
  <2> QED BY <1>5, <1>7, <2>1 DEF MaCrossover, d
<1> QED BY <1>1, <1>5, <1>6, <1>8, <1>9 DEF w

LEMMA RsiWindow ==
  ASSUME NEW s \in Seq(Bars), Len(s) >= RsiLookback
  PROVE  RsiReversion(s) <=> RsiReversion(LastOf(s, RsiLookback))
<1> DEFINE n == RsiLookback
           w == LastOf(s, n)
<1>1. n \in 0 .. Len(s) /\ n \in 0 .. n
  BY StrategyBounds DEF RsiLookback
<1>2. w \in Seq(Bars) /\ Len(w) = n
  BY <1>1, LastOfIs
<1>3. ClosesOf(s) \in Seq(Int) /\ Len(ClosesOf(s)) = Len(s)
  BY ClosesOfIs
<1>4. ClosesOf(w) = LastOf(ClosesOf(s), n)
  BY <1>1, ClosesOfLast
<1>5. LastOf(ClosesOf(w), n) = LastOf(ClosesOf(s), n)
  BY <1>1, <1>3, <1>4, LastOfLast
<1>6. Len(w) >= n
  BY <1>1, <1>2
<1> HIDE DEF w
<1> QED BY <1>5, <1>6 DEF RsiReversion, w

LEMMA BandWindow ==
  ASSUME NEW s \in Seq(Bars), Len(s) >= Band
  PROVE  BollingerReversion(s) <=> BollingerReversion(LastOf(s, Band))
<1> DEFINE w == LastOf(s, Band)
<1>1. Band \in 0 .. Len(s) /\ Band \in 0 .. Band
  BY StrategyBounds
<1>2. w \in Seq(Bars) /\ Len(w) = Band
  BY <1>1, LastOfIs
<1>3. ClosesOf(s) \in Seq(Int) /\ Len(ClosesOf(s)) = Len(s)
  BY ClosesOfIs
<1>4. ClosesOf(w) = LastOf(ClosesOf(s), Band)
  BY <1>1, ClosesOfLast
<1>5. LastOf(ClosesOf(w), Band) = LastOf(ClosesOf(s), Band)
  BY <1>1, <1>3, <1>4, LastOfLast
<1>6. Len(w) >= Band
  BY <1>1, <1>2
<1> HIDE DEF w
<1> QED BY <1>5, <1>6 DEF BollingerReversion, w

LEMMA BreakoutWindow ==
  ASSUME NEW s \in Seq(Bars), Len(s) >= BreakoutLookback
  PROVE  /\ Momentum(s) <=> Momentum(LastOf(s, BreakoutLookback))
         /\ VolumeBreakout(s) <=> VolumeBreakout(LastOf(s, BreakoutLookback))
<1> DEFINE n == BreakoutLookback
           w == LastOf(s, n)
<1>1. n \in 0 .. Len(s) /\ n \in 0 .. n
  BY StrategyBounds DEF BreakoutLookback
<1>2. w \in Seq(Bars) /\ Len(w) = n
  BY <1>1, LastOfIs
<1>3. LastOf(w, n) = LastOf(s, n)
  BY <1>1, LastOfLast
<1>4. Len(w) >= n
  BY <1>1, <1>2
<1> HIDE DEF w
<1>5. Momentum(s) <=> Momentum(w)
  BY <1>3, <1>4 DEF Momentum
<1>6. VolumeBreakout(s) <=> VolumeBreakout(w)
  BY <1>3, <1>4 DEF VolumeBreakout
<1> QED BY <1>5, <1>6 DEF w

(* What a strategy answers depends on the bars of its own lookback and on   *)
(* no earlier one, however many were fetched: of ma_crossover because two   *)
(* averages that differ are not of one price.                               *)
THEOREM WindowsDecide == StrategySpec => []WindowDecides
<1> DEFINE I == series \in Seq(Bars)
<1>1. StrategyInit => I
  BY DEF StrategyInit
<1>2. I /\ [StrategyNext]_series => I'
  BY DEF StrategyNext, NextBar
<1>3. I => WindowDecides
  <2> SUFFICES ASSUME I PROVE WindowDecides
    OBVIOUS
  <2> QED BY MaWindow, RsiWindow, BandWindow, BreakoutWindow DEF WindowDecides
<1> QED BY <1>1, <1>2, <1>3, PTL DEF StrategySpec
=============================================================================
