---------------------------- MODULE MoneyProofs -----------------------------
(***************************************************************************)
(* The paper fund for any shares, calendar, prices and parameters: its     *)
(* books balance after any number of cycles and days, and settlement is    *)
(* waited for.  And the portfolio ledger for any number of clients, rows   *)
(* and imports: what its checks cover does not break.                      *)
(***************************************************************************)
EXTENDS PaperTrading, PortfolioLedger, FiniteSums

-----------------------------------------------------------------------------
(***************************************************************************)
(* Division and rounding.                                                  *)
(***************************************************************************)
LEMMA DivMod ==
    ASSUME NEW a \in Int, NEW b \in Nat \ {0}
    PROVE  /\ a \div b \in Int /\ a % b \in 0..(b - 1)
           /\ a = b * (a \div b) + (a % b)
PROOF OBVIOUS

LEMMA Distributes ==
    ASSUME NEW a \in Int, NEW b \in Int, NEW c \in Int
    PROVE  a * (b + c) = a * b + a * c /\ a * (b - c) = a * b - a * c
PROOF OBVIOUS

LEMMA DivIs ==
    ASSUME NEW b \in Nat \ {0}, NEW q \in Int, NEW r \in 0..(b - 1)
    PROVE  (b * q + r) \div b = q
PROOF OBVIOUS

LEMMA RoundedType ==
    ASSUME NEW n \in Int, NEW d \in Nat \ {0}
    PROVE  Rounded(n, d) \in Int /\ (n >= 0 => Rounded(n, d) \in Nat)
PROOF
<1>1. 2 * d \in Nat \ {0} /\ 2 * n + d \in Int /\ d - 2 * n \in Int
  OBVIOUS
<1>2. (2 * n + d) \div (2 * d) \in Int /\ (d - 2 * n) \div (2 * d) \in Int
  BY <1>1, DivMod
<1>3. n >= 0 => (2 * n + d) \div (2 * d) >= 0
  OBVIOUS
<1> QED
  BY <1>2, <1>3 DEF Rounded

\* Adding whole units of money rounds to as many more.
LEMMA RoundedPlus ==
    ASSUME NEW n \in Nat, NEW k \in Nat, NEW d \in Nat \ {0}
    PROVE  Rounded(n + k * d, d) = Rounded(n, d) + k
PROOF
<1> DEFINE e == 2 * d
           q == (2 * n + d) \div e
           r == (2 * n + d) % e
<1>1. e \in Nat \ {0} /\ 2 * n + d \in Int
  OBVIOUS
<1>2. q \in Int /\ r \in 0..(e - 1) /\ 2 * n + d = e * q + r
  BY <1>1, DivMod
<1>3. 2 * (n + k * d) + d = e * (q + k) + r
  <2>1. 2 * (k * d) = e * k
    OBVIOUS
  <2>2. e * (q + k) = e * q + e * k
    <3> HIDE DEF e, q, r
    <3> QED
      BY <1>1, <1>2, Distributes
  <2> HIDE DEF e, q, r
  <2> QED
    BY <1>1, <1>2, <2>1, <2>2
<1>4. (2 * (n + k * d) + d) \div e = q + k
  <2> HIDE DEF e, q, r
  <2>1. q + k \in Int
    BY <1>2
  <2>2. (e * (q + k) + r) \div e = q + k
    BY <1>1, <1>2, <2>1, DivIs
  <2> QED
    BY <1>3, <2>2
<1>5. n + k * d >= 0
  OBVIOUS
<1> QED
  BY <1>4, <1>5 DEF Rounded

\* The profit of a sale, rounded on its own, and the difference of the payments.
LEMMA ProfitRounded ==
    ASSUME NEW p \in Int, NEW c \in Nat, NEW d \in Nat \ {0}
    PROVE  Rounded(p * d - c, d) - (p - Rounded(c, d)) \in {0, 1}
PROOF
<1> DEFINE e == 2 * d
           q == (2 * c + d) \div e
           r == (2 * c + d) % e
<1>1. e \in Nat \ {0} /\ 2 * c + d \in Int /\ p * d \in Int /\ p * d - c \in Int
  OBVIOUS
<1>2. q \in Int /\ r \in 0..(e - 1) /\ 2 * c + d = e * q + r
  BY <1>1, DivMod
<1>3. Rounded(c, d) = q
  BY DEF Rounded
<1>4. 2 * (p * d) = e * p
  OBVIOUS
<1>5. CASE p * d - c >= 0
  <2>1. 2 * (p * d - c) + d = e * (p - q) + (e - r)
    <3>1. e * (p - q) = e * p - e * q
      <4> HIDE DEF e, q, r
      <4> QED
        BY <1>1, <1>2, Distributes
    <3> HIDE DEF q, r
    <3> QED
      BY <1>1, <1>2, <1>4, <3>1
  <2>2. (2 * (p * d - c) + d) \div e \in {p - q, p - q + 1}
    <3>1. CASE r = 0
      <4>1. e * (p - q) + (e - r) = e * (p - q + 1) + 0
        <5> HIDE DEF e, q, r
        <5> QED
          BY <1>1, <1>2, <3>1
      <4>2. (e * (p - q + 1) + 0) \div e = p - q + 1
        <5>1. p - q + 1 \in Int /\ 0 \in 0..(e - 1)
          BY <1>1, <1>2
        <5> HIDE DEF e, q, r
        <5> QED
          BY <1>1, <5>1, DivIs
      <4> QED
        BY <2>1, <4>1, <4>2
    <3>2. CASE r # 0
      <4>1. p - q \in Int /\ e - r \in 0..(e - 1)
        BY <1>1, <1>2, <3>2
      <4>2. (e * (p - q) + (e - r)) \div e = p - q
        <5> HIDE DEF e, q, r
        <5> QED
          BY <1>1, <4>1, DivIs
      <4> QED
        BY <2>1, <4>2
    <3> QED
      BY <3>1, <3>2
  <2>3. Rounded(p * d - c, d) = (2 * (p * d - c) + d) \div e
    BY <1>5 DEF Rounded
  <2> HIDE DEF e, q, r
  <2> QED
    BY <1>2, <1>3, <2>2, <2>3
<1>6. CASE ~(p * d - c >= 0)
  <2>1. d - 2 * (p * d - c) = e * (q - p) + r
    <3>1. e * (q - p) = e * q - e * p
      <4> HIDE DEF e, q, r
      <4> QED
        BY <1>1, <1>2, Distributes
    <3> HIDE DEF q, r
    <3> QED
      BY <1>1, <1>2, <1>4, <3>1
  <2>2. (d - 2 * (p * d - c)) \div e = q - p
    <3>1. q - p \in Int
      BY <1>2
    <3> HIDE DEF e, q, r
    <3>2. (e * (q - p) + r) \div e = q - p
      BY <1>1, <1>2, <3>1, DivIs
    <3> QED
      BY <2>1, <3>2
  <2>3. Rounded(p * d - c, d) = -((d - 2 * (p * d - c)) \div e)
    BY <1>6 DEF Rounded
  <2> HIDE DEF e, q, r
  <2> QED
    BY <1>2, <1>3, <2>2, <2>3
<1> QED
  BY <1>5, <1>6

(***************************************************************************)
(* Settlement dates.                                                       *)
(***************************************************************************)
LEMMA SessionsType ==
    ASSUME NEW d \in Nat, NEW e \in Nat
    PROVE  /\ IsFiniteSet({x \in (d + 1)..e : IsSession(x)})
           /\ Sessions(d, e) \in Nat
PROOF
<1>1. IsFiniteSet((d + 1)..e)
  BY FS_Interval
<1>2. IsFiniteSet({x \in (d + 1)..e : IsSession(x)})
  BY <1>1, FS_Subset
<1> QED
  BY <1>2, FS_CardinalityType DEF Sessions

LEMMA NextSession ==
    ASSUME NEW d \in Nat, NEW e \in Nat, e >= d
    PROVE  Sessions(d, e + 1) = IF IsSession(e + 1) THEN Sessions(d, e) + 1 ELSE Sessions(d, e)
PROOF
<1> DEFINE A == {x \in (d + 1)..e : IsSession(x)}
           B == {x \in (d + 1)..(e + 1) : IsSession(x)}
<1>1. (d + 1)..(e + 1) = ((d + 1)..e) \cup {e + 1} /\ e + 1 \notin (d + 1)..e
  OBVIOUS
<1>2. B = IF IsSession(e + 1) THEN A \cup {e + 1} ELSE A
  BY <1>1
<1>3. e + 1 \notin A /\ IsFiniteSet(A)
  BY <1>1, SessionsType
<1>4. Cardinality(A \cup {e + 1}) = Cardinality(A) + 1
  BY <1>3, FS_AddElement
<1>5. Sessions(d, e + 1) = Cardinality(B) /\ Sessions(d, e) = Cardinality(A)
  BY DEF Sessions
<1> HIDE DEF A, B
<1> QED
  BY <1>2, <1>4, <1>5

\* Holidays delay a settlement by at most their number.
LEMMA EnoughSessions ==
    ASSUME NEW d \in Nat, NEW k \in Nat
    PROVE  Sessions(d, d + k) >= k - Cardinality(Holidays)
PROOF
<1> DEFINE A == (d + 1)..(d + k)
<1>1. IsFiniteSet(A) /\ Cardinality(A) = k
  BY FS_Interval
<1>2. IsFiniteSet(Holidays) /\ Cardinality(Holidays) \in Nat
  BY PaperAssumption, FS_CardinalityType
<1>3. /\ Cardinality(A \ Holidays) = Cardinality(A) - Cardinality(A \cap Holidays)
  BY <1>1, FS_Difference
<1>4. Cardinality(A \cap Holidays) \in Nat /\ Cardinality(A \cap Holidays) <= Cardinality(Holidays)
  <2>1. A \cap Holidays \in SUBSET Holidays
    OBVIOUS
  <2> HIDE DEF A
  <2> QED
    BY <1>2, <2>1, FS_Subset, FS_CardinalityType
<1>5. {x \in A : IsSession(x)} = A \ Holidays
  BY DEF IsSession
<1>6. Sessions(d, d + k) = Cardinality(A \ Holidays)
  BY <1>5 DEF Sessions
<1> HIDE DEF A
<1> QED
  BY <1>1, <1>2, <1>3, <1>4, <1>6

\* The sessions a trade in s takes to settle.
Standard(s) == IF s \in GroupZ THEN 3 ELSE 2

LEMMA SettlementDateIs ==
    ASSUME NEW d \in Nat, NEW s
    PROVE  LET e == SettlementDate(d, s)
           IN  /\ e \in Nat /\ e > d
               /\ IsSession(e) /\ Sessions(d, e) = Standard(s)
PROOF
<1> DEFINE n == Standard(s)
           T == {k \in Nat : Sessions(d, d + k) < n}
           Ok(e) == IsSession(e) /\ Sessions(d, e) = n
           R == (d + 1)..(d + n + Cardinality(Holidays))
<1>1. n \in {2, 3}
  BY DEF Standard
<1>2. Cardinality(Holidays) \in Nat
  BY PaperAssumption, FS_CardinalityType
<1>3. 0 \in T
  <2>1. {x \in (d + 1)..d : IsSession(x)} = {}
    OBVIOUS
  <2>2. Sessions(d, d + 0) = 0
    BY <2>1, FS_EmptySet DEF Sessions
  <2> HIDE DEF n
  <2> QED
    BY <1>1, <2>2
<1>4. ASSUME NEW k \in T
      PROVE  k < n + Cardinality(Holidays)
  <2>1. k \in Nat /\ Sessions(d, d + k) < n /\ Sessions(d, d + k) \in Nat
    <3>1. k \in Nat /\ d + k \in Nat /\ Sessions(d, d + k) < n
      OBVIOUS
    <3> QED
      BY <3>1, SessionsType
  <2>2. Sessions(d, d + k) >= k - Cardinality(Holidays)
    BY <2>1, EnoughSessions
  <2> HIDE DEF n
  <2> QED
    BY <1>1, <1>2, <2>1, <2>2
<1>5. T # Nat
  <2>1. n + Cardinality(Holidays) \in Nat
    <3> HIDE DEF n
    <3> QED
      BY <1>1, <1>2
  <2>2. ~(n + Cardinality(Holidays) < n + Cardinality(Holidays))
    <3> HIDE DEF n
    <3> QED
      BY <2>1
  <2> HIDE DEF T, n
  <2> QED
    BY <1>4, <2>1, <2>2
<1>6. PICK k \in T : k + 1 \notin T
  <2>1. T \in SUBSET Nat
    OBVIOUS
  <2> HIDE DEF T
  <2> QED
    BY <1>3, <1>5, <2>1, NatSet
<1>7. Ok(d + k + 1)
  <2>1. k \in Nat /\ Sessions(d, d + k) < n /\ ~(Sessions(d, d + (k + 1)) < n)
    BY <1>6
  <2>2. d + (k + 1) = d + k + 1 /\ d + k \in Nat /\ d + k >= d /\ d + k + 1 \in Nat
    BY <2>1
  <2>3. Sessions(d, d + k + 1) = IF IsSession(d + k + 1) THEN Sessions(d, d + k) + 1
                                 ELSE Sessions(d, d + k)
    BY <2>2, NextSession
  <2>4. Sessions(d, d + k) \in Nat /\ Sessions(d, d + k + 1) \in Nat
    BY <2>2, SessionsType
  <2> HIDE DEF n
  <2> QED
    BY <1>1, <2>1, <2>2, <2>3, <2>4
<1>8. d + k + 1 \in R
  <2>1. k \in Nat
    OBVIOUS
  <2>2. k < n + Cardinality(Holidays)
    BY <1>4
  <2> HIDE DEF n, T
  <2> QED
    BY <1>1, <1>2, <2>1, <2>2
<1>9. SettlementDate(d, s) = CHOOSE e \in R : Ok(e)
  BY DEF SettlementDate, Standard
<1>10. (CHOOSE e \in R : Ok(e)) \in R /\ Ok(CHOOSE e \in R : Ok(e))
  <2> HIDE DEF R, Ok
  <2> QED
    BY <1>7, <1>8
<1>11. ASSUME NEW e \in R PROVE e \in Nat /\ e > d
  OBVIOUS
<1> HIDE DEF R
<1> QED
  BY <1>9, <1>10, <1>11

\* A day later a trade settles no earlier.
LEMMA SettlesNoEarlier ==
    ASSUME NEW d \in Nat, NEW s
    PROVE  SettlementDate(d, s) <= SettlementDate(d + 1, s)
PROOF
<1> DEFINE e == SettlementDate(d, s)
           f == SettlementDate(d + 1, s)
           A == {x \in (d + 1)..e : IsSession(x)}
           B == {x \in (d + 1 + 1)..f : IsSession(x)}
<1>1. d + 1 \in Nat
  OBVIOUS
<1>2. e \in Nat /\ e > d /\ IsSession(e) /\ Sessions(d, e) = Standard(s)
  BY SettlementDateIs
<1>3. f \in Nat /\ f > d + 1 /\ IsSession(f) /\ Sessions(d + 1, f) = Standard(s)
  BY <1>1, SettlementDateIs
<1> HIDE DEF e, f
<1> SUFFICES ASSUME f < e PROVE FALSE
  BY <1>2, <1>3 DEF e, f
<1>4. IsFiniteSet(A) /\ IsFiniteSet(B)
  BY <1>1, <1>2, <1>3, SessionsType
<1>5. e \notin B /\ B \cup {e} \subseteq A
  BY <1>2, <1>3
<1>6. Cardinality(B \cup {e}) = Cardinality(B) + 1
  BY <1>4, <1>5, FS_AddElement
<1>7. Cardinality(B \cup {e}) <= Cardinality(A)
  BY <1>4, <1>5, FS_Subset
<1>8. Cardinality(A) = Standard(s) /\ Cardinality(B) = Standard(s) /\ Standard(s) \in Nat
  BY <1>2, <1>3 DEF Sessions, Standard
<1> HIDE DEF A, B
<1> QED
  BY <1>6, <1>7, <1>8

(***************************************************************************)
(* The invariant.                                                          *)
(***************************************************************************)
PositionType == [quantity : Nat, entry : Nat, fee : Nat, opened : Nat, matures : Nat]

BooksType == [cash : Int, position : [Stocks -> PositionType],
              unsettled : SUBSET Settlement, realized : Int, closed : Nat,
              bought : SUBSET Stocks, sold : SUBSET Stocks]

AmountOf == [i \in Settlement |-> i.amount]
CostOf(b) == [s \in Stocks |-> Money(Cost(b.position[s]))]

\* What the fund has, a position at what was paid for it.
Worth(b) == b.cash + SumOver(AmountOf, b.unsettled) + SumOver(CostOf(b), Open(b))

Balanced(b) == b.realized - (Worth(b) - InitialCash) \in 0..b.closed

\* The proceeds of a share still on their way settle before what was bought of
\* it since matures.
Orderly(b) ==
    \A i \in b.unsettled :
      /\ i.due <= SettlementDate(day, i.stock)
      /\ i.stock \in Open(b) => i.due <= b.position[i.stock].matures

Good(b) ==
    /\ b \in BooksType
    /\ IsFiniteSet(b.unsettled)
    /\ Balanced(b)
    /\ Orderly(b)

MarketType ==
    /\ day \in Nat
    /\ price \in [Stocks -> Nat]

-----------------------------------------------------------------------------

LEMMA ParametersInNat ==
    /\ InitialCash \in Nat /\ MinCash \in Nat /\ SizePct \in Nat /\ MaxPositions \in Nat
    /\ FeePct \in Nat /\ SlipPct \in Nat /\ PriceUnits \in Nat \ {0}
PROOF BY PaperAssumption

LEMMA MoneyType ==
    /\ \A v \in Int : Money(v) \in Int /\ (v >= 0 => Money(v) \in Nat)
    /\ \A v \in Int : Fee(v) \in Int /\ (v >= 0 => Fee(v) \in Nat)
    /\ \A p \in Nat : BuyPrice(p) \in Nat /\ SellPrice(p) \in Int
    /\ \A p \in Nat : p # 0 => BuyPrice(p) # 0
PROOF
<1>1. ASSUME NEW v \in Int PROVE Money(v) \in Int /\ (v >= 0 => Money(v) \in Nat)
  BY ParametersInNat, RoundedType DEF Money
<1>2. ASSUME NEW v \in Int PROVE Fee(v) \in Int /\ (v >= 0 => Fee(v) \in Nat)
  <2>1. v * FeePct \in Int /\ 100 * PriceUnits \in Nat \ {0} /\ (v >= 0 => v * FeePct >= 0)
    BY ParametersInNat
  <2> QED
    BY <2>1, RoundedType DEF Fee
<1>3. ASSUME NEW p \in Nat PROVE BuyPrice(p) \in Nat /\ SellPrice(p) \in Int
  <2>1. p * (100 + SlipPct) \in Int /\ p * (100 - SlipPct) \in Int /\ p * (100 + SlipPct) >= 0
    BY ParametersInNat
  <2>2. 100 \in Nat \ {0}
    OBVIOUS
  <2> QED
    BY <2>1, <2>2, RoundedType DEF BuyPrice, SellPrice
<1>4. ASSUME NEW p \in Nat, p # 0 PROVE BuyPrice(p) # 0
  <2>1. p * (100 + SlipPct) \in Nat /\ p * (100 + SlipPct) >= 100
    BY <1>4, ParametersInNat
  <2>2. ASSUME NEW n \in Nat, n >= 100 PROVE Rounded(n, 100) # 0
    BY <2>2 DEF Rounded
  <2> QED
    BY <2>1, <2>2 DEF BuyPrice
<1> QED
  BY <1>1, <1>2, <1>3, <1>4

LEMMA CostType ==
    ASSUME NEW pos \in PositionType
    PROVE  Cost(pos) \in Nat /\ Money(Cost(pos)) \in Nat
PROOF
<1>1. Cost(pos) \in Nat
  BY ParametersInNat DEF Cost, PositionType
<1> QED
  BY <1>1, MoneyType

LEMMA SaleType ==
    ASSUME MarketType, NEW s \in Stocks, NEW pos \in PositionType
    PROVE  /\ Proceeds(s, pos) \in Int
           /\ Pnl(s, pos) \in Int
           /\ Pnl(s, pos) - (Proceeds(s, pos) - Money(Cost(pos))) \in {0, 1}
PROOF
<1>1. price[s] \in Nat /\ pos.quantity \in Nat
  BY DEF MarketType, PositionType
<1>2. SellPrice(price[s]) \in Int
  BY <1>1, MoneyType
<1>3. Notional(s, pos) \in Int
  <2>1. \A x \in Int, y \in Nat : x * y \in Int
    OBVIOUS
  <2> QED
    BY <1>1, <1>2, <2>1 DEF Notional
<1>4. Proceeds(s, pos) \in Int
  <2>1. Money(Notional(s, pos)) \in Int /\ Fee(Notional(s, pos)) \in Int
    BY <1>3, MoneyType
  <2> QED
    BY <2>1 DEF Proceeds
<1>5. Cost(pos) \in Nat
  BY CostType
<1>6. Proceeds(s, pos) * PriceUnits - Cost(pos) \in Int
  <2>1. \A x \in Int, y \in Nat, z \in Nat : x * y - z \in Int
    OBVIOUS
  <2> QED
    BY <1>4, <1>5, <2>1, ParametersInNat
<1>7. Pnl(s, pos) \in Int
  BY <1>6, MoneyType DEF Pnl
<1>8. Rounded(Proceeds(s, pos) * PriceUnits - Cost(pos), PriceUnits)
        - (Proceeds(s, pos) - Rounded(Cost(pos), PriceUnits)) \in {0, 1}
  BY <1>4, <1>5, ParametersInNat, ProfitRounded
<1> QED
  BY <1>4, <1>7, <1>8 DEF Pnl, Money

\* The sums of the books, over the same functions throughout.
LEMMA TotalAmounts ==
    ASSUME NEW U \in SUBSET Settlement, IsFiniteSet(U)
    PROVE  /\ Total(U, LAMBDA i : i.amount) = SumOver(AmountOf, U)
           /\ SumOver(AmountOf, U) \in Int
PROOF
<1> DEFINE g == [i \in U |-> i.amount]
<1>1. Total(U, LAMBDA i : i.amount) = SumOver(g, U)
  BY DEF Total, FoldFunction, SumOver
<1>2. \A i \in U : AmountOf[i] \in Int /\ g[i] = AmountOf[i]
  BY DEF AmountOf, Settlement
<1>3. SumOver(g, U) = SumOver(AmountOf, U)
  <2> HIDE DEF g
  <2> QED
    BY <1>2, SumAgree
<1>4. SumOver(AmountOf, U) \in Int
  BY <1>2, SumTake
<1> QED
  BY <1>1, <1>3, <1>4

LEMMA StocksFinite ==
    ASSUME NEW S \in SUBSET Stocks
    PROVE  IsFiniteSet(S) /\ Cardinality(S) \in Nat
PROOF BY PaperAssumption, FS_Subset, FS_CardinalityType

LEMMA CostOfType ==
    ASSUME NEW b \in BooksType
    PROVE  /\ Open(b) \in SUBSET Stocks
           /\ \A s \in Stocks : CostOf(b)[s] \in Int
           /\ \A S \in SUBSET Stocks : SumOver(CostOf(b), S) \in Int
PROOF
<1>1. \A s \in Stocks : CostOf(b)[s] \in Int
  <2> SUFFICES ASSUME NEW s \in Stocks PROVE CostOf(b)[s] \in Int
    OBVIOUS
  <2>1. b.position[s] \in PositionType
    BY DEF BooksType
  <2> QED
    BY <2>1, CostType DEF CostOf
<1>2. ASSUME NEW S \in SUBSET Stocks PROVE SumOver(CostOf(b), S) \in Int
  <2>1. \A s \in S : CostOf(b)[s] \in Int
    BY <1>1
  <2> QED
    BY <2>1, StocksFinite, SumTake
<1> QED
  BY <1>1, <1>2 DEF Open

LEMMA TotalCosts ==
    ASSUME NEW b \in BooksType
    PROVE  Total(Open(b), LAMBDA s : Money(Cost(b.position[s]))) = SumOver(CostOf(b), Open(b))
PROOF
<1> DEFINE g == [s \in Open(b) |-> Money(Cost(b.position[s]))]
<1>1. Total(Open(b), LAMBDA s : Money(Cost(b.position[s]))) = SumOver(g, Open(b))
  BY DEF Total, FoldFunction, SumOver
<1>2. \A s \in Open(b) : CostOf(b)[s] \in Int /\ g[s] = CostOf(b)[s]
  BY CostOfType DEF CostOf
<1>3. IsFiniteSet(Open(b))
  BY CostOfType, StocksFinite
<1> HIDE DEF g
<1> QED
  BY <1>1, <1>2, <1>3, SumAgree

\* What the run checks is the balance of this proof.
LEMMA BalanceSays ==
    ASSUME books \in BooksType, IsFiniteSet(books.unsettled)
    PROVE  BooksBalance <=> Balanced(books)
PROOF
<1> DEFINE under == Total(books.unsettled, LAMBDA i : i.amount)
           spent == Total(Open(books), LAMBDA s : Money(Cost(books.position[s])))
<1>1. books.unsettled \in SUBSET Settlement
  BY DEF BooksType
<1>2. under = SumOver(AmountOf, books.unsettled)
  BY <1>1, TotalAmounts
<1>3. spent = SumOver(CostOf(books), Open(books))
  BY TotalCosts
<1>4. BooksBalance <=> books.realized - (books.cash + under + spent - InitialCash) \in 0..books.closed
  BY DEF BooksBalance
<1>5. under \in Int /\ spent \in Int /\ books.cash \in Int /\ InitialCash \in Int
  BY <1>1, <1>2, <1>3, TotalAmounts, CostOfType, ParametersInNat DEF BooksType
<1> HIDE DEF under, spent
<1> QED
  BY <1>2, <1>3, <1>4, <1>5 DEF Balanced, Worth

(***************************************************************************)
(* The three parts of a cycle keep the books good.                         *)
(***************************************************************************)
LEMMA SettledGood ==
    ASSUME MarketType, NEW b, Good(b)
    PROVE  /\ Good(Settled(b))
           /\ Settled(b).unsettled = b.unsettled \ Due(b)
           /\ Settled(b).position = b.position
           /\ \A i \in Settled(b).unsettled : i.due > day
PROOF
<1> DEFINE paid == Total(Due(b), LAMBDA i : i.amount)
           c == Settled(b)
<1>1. b \in BooksType /\ IsFiniteSet(b.unsettled) /\ b.unsettled \in SUBSET Settlement
  BY DEF Good, BooksType
<1>2. Due(b) \in SUBSET b.unsettled /\ Due(b) \in SUBSET Settlement /\ IsFiniteSet(Due(b))
  <2>1. Due(b) \in SUBSET b.unsettled
    BY DEF Due
  <2> QED
    BY <1>1, <2>1, FS_Subset
<1>3. paid = SumOver(AmountOf, Due(b)) /\ paid \in Int
  BY <1>2, TotalAmounts
<1>4. c = [b EXCEPT !.cash = b.cash + paid, !.unsettled = b.unsettled \ Due(b)]
  BY DEF Settled
<1> HIDE DEF paid, c
<1>5. /\ c.cash = b.cash + paid /\ c.unsettled = b.unsettled \ Due(b)
      /\ c.position = b.position /\ c.realized = b.realized /\ c.closed = b.closed
      /\ c \in BooksType
  <2>1. b.cash + paid \in Int /\ b.unsettled \ Due(b) \in SUBSET Settlement
    BY <1>1, <1>3 DEF BooksType
  <2>2. /\ c.cash = b.cash + paid /\ c.unsettled = b.unsettled \ Due(b)
        /\ c.position = b.position /\ c.realized = b.realized /\ c.closed = b.closed
    BY <1>1, <1>4 DEF BooksType
  <2>3. c \in BooksType
    BY <1>1, <1>4, <2>1 DEF BooksType
  <2> QED
    BY <2>2, <2>3
<1>6. IsFiniteSet(c.unsettled)
  BY <1>1, <1>5, FS_Subset
<1>7. Open(c) = Open(b) /\ CostOf(c) = CostOf(b)
  BY <1>5 DEF Open, CostOf
<1>8. Balanced(c)
  <2>1. SumOver(AmountOf, b.unsettled) = paid + SumOver(AmountOf, c.unsettled)
    <3>1. \A i \in b.unsettled : AmountOf[i] \in Int
      BY <1>1 DEF AmountOf, Settlement
    <3> QED
      BY <1>1, <1>2, <1>3, <1>5, <3>1, SumSplit
  <2>2. /\ SumOver(AmountOf, c.unsettled) \in Int /\ SumOver(AmountOf, b.unsettled) \in Int
        /\ SumOver(CostOf(b), Open(b)) \in Int
    BY <1>1, <1>5, <1>6, TotalAmounts, CostOfType DEF BooksType
  <2>3. b.cash \in Int /\ b.realized \in Int /\ b.closed \in Nat
    BY <1>1 DEF BooksType
  <2>4. Worth(c) = Worth(b)
    BY <1>3, <1>5, <1>7, <2>1, <2>2, <2>3 DEF Worth
  <2> QED
    BY <1>5, <2>4 DEF Balanced, Good
<1>9. Orderly(c)
  BY <1>5, <1>7 DEF Orderly, Good
<1>10. \A i \in c.unsettled : i.due > day
  <2> SUFFICES ASSUME NEW i \in c.unsettled PROVE i.due > day
    OBVIOUS
  <2>1. i \in b.unsettled /\ ~(i.due <= day)
    BY <1>5 DEF Due
  <2>2. i.due \in Nat
    BY <1>1, <2>1 DEF Settlement
  <2> QED
    BY <2>1, <2>2 DEF MarketType
<1>11. Good(c)
  BY <1>5, <1>6, <1>8, <1>9 DEF Good
<1> QED
  BY <1>5, <1>10, <1>11 DEF c

\* The positions that a cycle closes and the proceeds they leave.
Leaving(b) == {s \in Open(b) : MustClose(s, b.position[s])}
Row(b, s) == [stock |-> s, amount |-> Proceeds(s, b.position[s]),
              due |-> SettlementDate(day, s)]
NewRows(b) == {Row(b, s) : s \in Leaving(b)}
ProceedsOf(b) == [s \in Stocks |-> Proceeds(s, b.position[s])]
PnlOf(b) == [s \in Stocks |-> Pnl(s, b.position[s])]

LEMMA RowsSum ==
    ASSUME MarketType, NEW b \in BooksType
    PROVE  /\ Leaving(b) \in SUBSET Open(b) /\ Leaving(b) \in SUBSET Stocks
           /\ IsFiniteSet(Leaving(b)) /\ IsFiniteSet(NewRows(b)) /\ NewRows(b) \in SUBSET Settlement
           /\ SumOver(AmountOf, NewRows(b)) = SumOver(ProceedsOf(b), Leaving(b))
           /\ Total(Leaving(b), LAMBDA s : Pnl(s, b.position[s])) = SumOver(PnlOf(b), Leaving(b))
           /\ SumOver(PnlOf(b), Leaving(b)) \in Int
           /\ SumOver(ProceedsOf(b), Leaving(b)) \in Int
           /\ SumOver(PnlOf(b), Leaving(b))
                - (SumOver(ProceedsOf(b), Leaving(b)) - SumOver(CostOf(b), Leaving(b)))
              \in 0..Cardinality(Leaving(b))
PROOF
<1> DEFINE L == Leaving(b)
           R == [s \in L |-> Row(b, s)]
           net == [s \in L |-> ProceedsOf(b)[s] - CostOf(b)[s]]
           g == [s \in L |-> Pnl(s, b.position[s])]
<1>1. L \in SUBSET Open(b) /\ L \in SUBSET Stocks
  BY CostOfType DEF Leaving
<1>2. IsFiniteSet(L)
  BY <1>1, StocksFinite
<1>3. ASSUME NEW s \in Stocks
      PROVE  /\ b.position[s] \in PositionType
             /\ ProceedsOf(b)[s] \in Int /\ PnlOf(b)[s] \in Int /\ CostOf(b)[s] \in Int
             /\ PnlOf(b)[s] - (ProceedsOf(b)[s] - CostOf(b)[s]) \in {0, 1}
  <2>1. b.position[s] \in PositionType
    BY DEF BooksType
  <2> QED
    BY <2>1, SaleType, CostOfType DEF ProceedsOf, PnlOf, CostOf
<1>4. \A s \in L : R[s] = Row(b, s) /\ R[s] \in Settlement /\ AmountOf[R[s]] = ProceedsOf(b)[s]
  <2> SUFFICES ASSUME NEW s \in L
               PROVE  R[s] = Row(b, s) /\ R[s] \in Settlement /\ AmountOf[R[s]] = ProceedsOf(b)[s]
    OBVIOUS
  <2>1. s \in Stocks /\ ProceedsOf(b)[s] \in Int /\ ProceedsOf(b)[s] = Proceeds(s, b.position[s])
    BY <1>1, <1>3 DEF ProceedsOf
  <2>2. SettlementDate(day, s) \in Nat
    BY SettlementDateIs DEF MarketType
  <2>3. R[s] = Row(b, s)
    OBVIOUS
  <2>4. Row(b, s) \in Settlement /\ Row(b, s).amount = ProceedsOf(b)[s]
    BY <2>1, <2>2 DEF Row, Settlement
  <2> HIDE DEF R
  <2> QED
    BY <2>3, <2>4 DEF AmountOf
<1>5. \A x, y \in L : R[x] = R[y] => x = y
  <2> SUFFICES ASSUME NEW x \in L, NEW y \in L, R[x] = R[y] PROVE x = y
    OBVIOUS
  <2>1. Row(b, x).stock = x /\ Row(b, y).stock = y
    BY DEF Row
  <2>2. Row(b, x) = Row(b, y)
    BY <1>4
  <2> QED
    BY <2>1, <2>2
<1>6. NewRows(b) = {R[s] : s \in L}
  BY <1>4 DEF NewRows
<1>7. IsFiniteSet(NewRows(b)) /\ NewRows(b) \in SUBSET Settlement
      /\ SumOver(AmountOf, NewRows(b)) = SumOver([s \in L |-> AmountOf[R[s]]], L)
  <2>1. \A s \in L : AmountOf[R[s]] \in Int
    BY <1>1, <1>3, <1>4
  <2>2. NewRows(b) \in SUBSET Settlement
    BY <1>4, <1>6
  <2> HIDE DEF R, L
  <2> QED
    BY <1>2, <1>5, <1>6, <2>1, <2>2, SumImage
<1>8. SumOver([s \in L |-> AmountOf[R[s]]], L) = SumOver(ProceedsOf(b), L)
  <2> DEFINE h == [s \in L |-> AmountOf[R[s]]]
  <2>1. \A s \in L : ProceedsOf(b)[s] \in Int /\ h[s] = ProceedsOf(b)[s]
    BY <1>1, <1>3, <1>4
  <2> HIDE DEF h, L
  <2> QED
    BY <1>2, <2>1, SumAgree DEF h
<1>9. Total(L, LAMBDA s : Pnl(s, b.position[s])) = SumOver(PnlOf(b), L)
  <2>1. Total(L, LAMBDA s : Pnl(s, b.position[s])) = SumOver(g, L)
    BY DEF Total, FoldFunction, SumOver
  <2>2. \A s \in L : PnlOf(b)[s] \in Int /\ g[s] = PnlOf(b)[s]
    BY <1>1, <1>3 DEF PnlOf
  <2>3. SumOver(g, L) = SumOver(PnlOf(b), L)
    <3> HIDE DEF g, L
    <3> QED
      BY <1>2, <2>2, SumAgree
  <2> QED
    BY <2>1, <2>3
<1>10. \A s \in L : /\ ProceedsOf(b)[s] \in Int /\ CostOf(b)[s] \in Int /\ PnlOf(b)[s] \in Int
                    /\ net[s] = ProceedsOf(b)[s] - CostOf(b)[s] /\ net[s] \in Int
                    /\ PnlOf(b)[s] - net[s] \in {0, 1}
  BY <1>1, <1>3
<1> HIDE DEF L, net
<1>11. SumOver(net, L) = SumOver(ProceedsOf(b), L) - SumOver(CostOf(b), L)
  BY <1>2, <1>10, SumMinus
<1>12. SumOver(PnlOf(b), L) - SumOver(net, L) \in 0..Cardinality(L)
  BY <1>2, <1>10, SumNear
<1>13. SumOver(PnlOf(b), L) \in Int /\ SumOver(ProceedsOf(b), L) \in Int
  BY <1>2, <1>10, SumTake
<1> QED
  BY <1>1, <1>2, <1>7, <1>8, <1>9, <1>11, <1>12, <1>13 DEF L

LEMMA ClosedGood ==
    ASSUME MarketType, NEW b, Good(b), \A i \in b.unsettled : i.due > day
    PROVE  /\ Good(Closed(b))
           /\ b.unsettled \subseteq Closed(b).unsettled
           /\ \A s \in Open(b) : day < b.position[s].matures
                                 => Closed(b).position[s] = b.position[s]
PROOF
<1> DEFINE L == Leaving(b)
           won == Total(L, LAMBDA s : Pnl(s, b.position[s]))
           kept == [s \in Stocks |-> IF s \in L THEN NoPosition ELSE b.position[s]]
           c == Closed(b)
<1>1. b \in BooksType /\ IsFiniteSet(b.unsettled) /\ b.unsettled \in SUBSET Settlement
  BY DEF Good, BooksType
<1>2. /\ L \in SUBSET Open(b) /\ L \in SUBSET Stocks
      /\ IsFiniteSet(L) /\ IsFiniteSet(NewRows(b)) /\ NewRows(b) \in SUBSET Settlement
      /\ SumOver(AmountOf, NewRows(b)) = SumOver(ProceedsOf(b), L)
      /\ won = SumOver(PnlOf(b), L)
      /\ won \in Int /\ SumOver(ProceedsOf(b), L) \in Int
      /\ won - (SumOver(ProceedsOf(b), L) - SumOver(CostOf(b), L)) \in 0..Cardinality(L)
  <2>1. Total(Leaving(b), LAMBDA s : Pnl(s, b.position[s])) = SumOver(PnlOf(b), Leaving(b))
    BY <1>1, RowsSum
  <2>2. won = SumOver(PnlOf(b), L)
    BY <2>1
  <2> HIDE DEF won
  <2> QED
    BY <1>1, <2>2, RowsSum
<1>3. c = [b EXCEPT !.position = kept, !.unsettled = b.unsettled \cup NewRows(b),
                    !.realized = b.realized + won, !.closed = b.closed + Cardinality(L),
                    !.sold = b.sold \cup L]
  BY DEF Closed, Leaving, NewRows, Row
<1>4. Cardinality(L) \in Nat
  BY <1>2, StocksFinite
<1>5. kept \in [Stocks -> PositionType]
  <2>1. NoPosition \in PositionType
    BY DEF NoPosition, PositionType
  <2>2. b.position \in [Stocks -> PositionType]
    BY <1>1 DEF BooksType
  <2> QED
    BY <2>1, <2>2
<1> HIDE DEF won, c
<1>6. /\ c.cash = b.cash /\ c.position = kept /\ c.unsettled = b.unsettled \cup NewRows(b)
      /\ c.realized = b.realized + won /\ c.closed = b.closed + Cardinality(L)
  <2> HIDE DEF kept, L
  <2> QED
    BY <1>1, <1>3 DEF BooksType
<1>7. c \in BooksType
  <2>1. /\ b.unsettled \cup NewRows(b) \in SUBSET Settlement /\ b.realized + won \in Int
        /\ b.closed + Cardinality(L) \in Nat /\ b.sold \cup L \in SUBSET Stocks
    BY <1>1, <1>2, <1>4 DEF BooksType
  <2> HIDE DEF kept, L
  <2> QED
    BY <1>1, <1>3, <1>5, <2>1 DEF BooksType
<1>8. IsFiniteSet(c.unsettled)
  <2>1. IsFiniteSet(b.unsettled \cup NewRows(b))
    BY <1>1, <1>2, FS_Union
  <2> QED
    BY <1>6, <2>1
<1>9. Open(c) = Open(b) \ L
  <2>1. \A s \in L : c.position[s].quantity = 0
    BY <1>2, <1>6 DEF NoPosition
  <2>2. \A s \in Stocks : s \notin L => c.position[s] = b.position[s]
    BY <1>6
  <2> HIDE DEF L, kept
  <2> QED
    BY <1>2, <2>1, <2>2 DEF Open
<1>10. \A i \in b.unsettled : i.stock \notin L
  <2> SUFFICES ASSUME NEW i \in b.unsettled, i.stock \in L PROVE FALSE
    OBVIOUS
  <2>1. i.due > day /\ i.due <= b.position[i.stock].matures
    BY <1>2 DEF Good, Orderly
  <2>2. day >= b.position[i.stock].matures
    BY DEF Leaving, MustClose
  <2>3. i.due \in Nat /\ b.position[i.stock] \in PositionType
    BY <1>1, <1>2 DEF Settlement, BooksType
  <2>4. b.position[i.stock].matures \in Nat
    BY <2>3 DEF PositionType
  <2> QED
    BY <2>1, <2>2, <2>3, <2>4 DEF MarketType
<1>11. \A i \in NewRows(b) : i.stock \in L /\ i.due = SettlementDate(day, i.stock)
  BY DEF NewRows, Row
<1>12. Balanced(c)
  <2>1. SumOver(AmountOf, c.unsettled) = SumOver(AmountOf, b.unsettled) + SumOver(AmountOf, NewRows(b))
    <3>1. \A i \in c.unsettled : AmountOf[i] \in Int
      BY <1>1, <1>2, <1>6 DEF AmountOf, Settlement
    <3>2. b.unsettled \in SUBSET c.unsettled /\ c.unsettled \ b.unsettled = NewRows(b)
      BY <1>6, <1>10, <1>11
    <3> QED
      BY <1>8, <3>1, <3>2, SumSplit
  <2>2. SumOver(CostOf(b), Open(b)) = SumOver(CostOf(b), L) + SumOver(CostOf(b), Open(b) \ L)
    <3>1. \A s \in Open(b) : CostOf(b)[s] \in Int
      BY <1>1, CostOfType
    <3>2. IsFiniteSet(Open(b))
      BY <1>1, CostOfType, StocksFinite
    <3> QED
      BY <1>2, <3>1, <3>2, SumSplit
  <2>3. SumOver(CostOf(c), Open(c)) = SumOver(CostOf(b), Open(b) \ L)
    <3>1. \A s \in Open(b) \ L : CostOf(b)[s] \in Int /\ CostOf(c)[s] = CostOf(b)[s]
      BY <1>1, <1>6, CostOfType DEF CostOf
    <3>2. IsFiniteSet(Open(b) \ L)
      BY <1>1, CostOfType, StocksFinite
    <3> QED
      BY <1>9, <3>1, <3>2, SumAgree
  <2>4. /\ SumOver(AmountOf, b.unsettled) \in Int /\ SumOver(CostOf(b), Open(b) \ L) \in Int
        /\ SumOver(CostOf(b), L) \in Int
    BY <1>1, <1>2, TotalAmounts, CostOfType
  <2>5. b.cash \in Int /\ b.realized \in Int /\ b.closed \in Nat /\ InitialCash \in Int
    BY <1>1, ParametersInNat DEF BooksType
  <2>6. b.realized - (Worth(b) - InitialCash) \in 0..b.closed
    BY DEF Good, Balanced
  <2> DEFINE x == SumOver(AmountOf, b.unsettled)
             y == SumOver(CostOf(b), L)
             z == SumOver(CostOf(b), Open(b) \ L)
             p == SumOver(ProceedsOf(b), L)
  <2>7. Worth(b) = b.cash + x + (y + z) /\ Worth(c) = b.cash + (x + p) + z
    BY <1>2, <1>6, <2>1, <2>2, <2>3 DEF Worth
  <2>8. x \in Int /\ y \in Int /\ z \in Int /\ p \in Int /\ won - (p - y) \in 0..Cardinality(L)
    BY <1>2, <2>4
  <2>9. /\ b.realized + won - (Worth(c) - InitialCash)
             = (b.realized - (Worth(b) - InitialCash)) + (won - (p - y))
    <3>1. won \in Int
      BY <1>2
    <3> HIDE DEF x, y, z, p, L
    <3>2. b.realized + won - ((b.cash + (x + p) + z) - InitialCash)
            = (b.realized - ((b.cash + x + (y + z)) - InitialCash)) + (won - (p - y))
      BY <2>5, <2>8, <3>1
    <3> QED
      BY <2>7, <3>2
  <2> DEFINE v == b.realized - (Worth(b) - InitialCash)
             w == won - (p - y)
  <2>10. v \in 0..b.closed /\ w \in 0..Cardinality(L) => v + w \in 0..(b.closed + Cardinality(L))
    <3> HIDE DEF v, w
    <3> QED
      BY <1>4, <2>5
  <2>11. b.realized + won - (Worth(c) - InitialCash) \in 0..(b.closed + Cardinality(L))
    BY <2>6, <2>8, <2>9, <2>10
  <2>12. Worth(c) \in Int
    <3> HIDE DEF x, y, z, p
    <3> QED
      BY <2>5, <2>7, <2>8
  <2> HIDE DEF x, y, z, p, v, w, L, kept
  <2> QED
    BY <1>2, <1>6, <2>5, <2>11, <2>12 DEF Balanced
<1>13. Orderly(c)
  <2> SUFFICES ASSUME NEW i \in c.unsettled
               PROVE  /\ i.due <= SettlementDate(day, i.stock)
                      /\ i.stock \in Open(c) => i.due <= c.position[i.stock].matures
    BY DEF Orderly
  <2>1. CASE i \in b.unsettled
    <3>1. /\ i.due <= SettlementDate(day, i.stock)
          /\ i.stock \in Open(b) => i.due <= b.position[i.stock].matures
      BY <2>1 DEF Good, Orderly
    <3>2. i.stock \in Open(c) => i.stock \in Open(b) /\ c.position[i.stock] = b.position[i.stock]
      BY <1>1, <1>6, <1>9, CostOfType
    <3> QED
      BY <3>1, <3>2
  <2>2. CASE i \in NewRows(b)
    <3>1. i.stock \in L /\ i.due = SettlementDate(day, i.stock) /\ i.due \in Nat
      BY <1>2, <1>11, <2>2 DEF Settlement
    <3> QED
      BY <1>9, <3>1
  <2> QED
    BY <1>6, <2>1, <2>2
<1>14. ASSUME NEW s \in Open(b), day < b.position[s].matures
       PROVE  c.position[s] = b.position[s]
  <2>1. s \in Stocks /\ b.position[s] \in PositionType
    BY <1>1, CostOfType DEF BooksType
  <2>2. b.position[s].matures \in Nat
    BY <2>1 DEF PositionType
  <2>3. s \notin L
    BY <1>14, <2>2 DEF Leaving, MustClose, MarketType
  <2> QED
    BY <1>6, <2>1, <2>3
<1>15. Good(c)
  BY <1>7, <1>8, <1>12, <1>13 DEF Good
<1>16. b.unsettled \subseteq c.unsettled
  BY <1>6
<1> QED
  BY <1>14, <1>15, <1>16 DEF c

LEMMA OpenOneGood ==
    ASSUME MarketType, NEW b \in BooksType, NEW s \in Stocks, price[s] # 0,
           NEW budget \in Int
    PROVE  LET c == OpenOne(b, s, budget)
           IN  /\ c \in BooksType
               /\ c.unsettled = b.unsettled
               /\ \A t \in Stocks \ {s} : c.position[t] = b.position[t]
               /\ Good(b) /\ s \notin Open(b) => Good(c)
PROOF
<1> DEFINE unit == BuyPrice(price[s])
           affordable == (budget * PriceUnits * 100) \div (unit * (100 + FeePct))
           quantity == IF affordable < Volume[s] THEN affordable ELSE Volume[s]
           fee == Fee(unit * quantity)
           paid == Money(unit * quantity) + fee
           new == [quantity |-> quantity, entry |-> unit, fee |-> fee, opened |-> day,
                   matures |-> SettlementDate(day, s)]
           c == OpenOne(b, s, budget)
<1>1. c = IF quantity < 1 \/ paid > b.cash THEN b
          ELSE [b EXCEPT !.cash = b.cash - paid, !.position[s] = new,
                         !.bought = b.bought \cup {s}]
  BY DEF OpenOne
<1>2. CASE quantity < 1 \/ paid > b.cash
  BY <1>1, <1>2
<1>3. CASE ~(quantity < 1 \/ paid > b.cash)
  <2>1. unit \in Nat /\ unit # 0
    BY MoneyType DEF MarketType
  <2>2. affordable \in Int
    <3>1. \A x, y \in Int : x * y \in Int
      OBVIOUS
    <3>2. budget * PriceUnits * 100 \in Int
      BY <3>1, ParametersInNat
    <3>3. unit * (100 + FeePct) \in Nat \ {0}
      <4>1. \A x, y \in Nat \ {0} : x * y \in Nat \ {0}
        OBVIOUS
      <4>2. 100 + FeePct \in Nat \ {0}
        BY ParametersInNat
      <4> HIDE DEF unit
      <4> QED
        BY <2>1, <4>1, <4>2
    <3> HIDE DEF unit
    <3> QED
      BY <3>2, <3>3, DivMod
  <2>3. quantity \in Nat
    <3>1. Volume[s] \in Nat
      BY PaperAssumption
    <3> HIDE DEF affordable
    <3>2. quantity \in Int
      BY <2>2, <3>1
    <3> HIDE DEF quantity
    <3> QED
      BY <1>3, <3>2
  <2>4. unit * quantity \in Nat
    <3> HIDE DEF unit, quantity
    <3> QED
      BY <2>1, <2>3
  <2>5. fee \in Nat /\ Money(unit * quantity) \in Nat /\ paid \in Nat
    <3>1. unit * quantity \in Int /\ unit * quantity >= 0
      BY <2>4
    <3>2. fee \in Nat /\ Money(unit * quantity) \in Nat
      <4> HIDE DEF unit, quantity
      <4> QED
        BY <3>1, MoneyType
    <3> HIDE DEF fee, unit, quantity
    <3> QED
      BY <3>2
  <2>6. SettlementDate(day, s) \in Nat /\ day \in Nat
    BY SettlementDateIs DEF MarketType
  <2>7. new \in PositionType
    <3> HIDE DEF unit, quantity, fee
    <3> QED
      BY <2>1, <2>3, <2>5, <2>6 DEF PositionType
  <2>8. Money(Cost(new)) = paid
    <3>1. Cost(new) = unit * quantity + fee * PriceUnits
      <4> HIDE DEF unit, quantity, fee
      <4> QED
        BY DEF Cost
    <3>2. Rounded(unit * quantity + fee * PriceUnits, PriceUnits)
            = Rounded(unit * quantity, PriceUnits) + fee
      <4> DEFINE n == unit * quantity
      <4>1. n \in Nat
        BY <2>4
      <4> HIDE DEF n, fee
      <4>2. Rounded(n + fee * PriceUnits, PriceUnits) = Rounded(n, PriceUnits) + fee
        BY <2>5, <4>1, ParametersInNat, RoundedPlus
      <4> QED
        BY <4>2 DEF n
    <3> HIDE DEF unit, quantity, fee
    <3> QED
      BY <3>1, <3>2 DEF Money
  <2>9. c = [b EXCEPT !.cash = b.cash - paid, !.position[s] = new, !.bought = b.bought \cup {s}]
    BY <1>1, <1>3
  <2> DEFINE held == [b.position EXCEPT ![s] = new]
  <2>10. c = [b EXCEPT !.cash = b.cash - paid, !.position = held, !.bought = b.bought \cup {s}]
    <3> HIDE DEF c, new, paid
    <3> QED
      BY <2>9 DEF BooksType
  <2>11. b.position \in [Stocks -> PositionType] /\ b.cash \in Int
    BY DEF BooksType
  <2>12. held \in [Stocks -> PositionType] /\ held[s] = new
         /\ \A t \in Stocks \ {s} : held[t] = b.position[t]
    <3> HIDE DEF new
    <3> QED
      BY <2>7, <2>11
  <2> HIDE DEF c, held, paid
  <2>13. c \in BooksType /\ c.cash = b.cash - paid /\ c.position = held
         /\ c.unsettled = b.unsettled /\ c.realized = b.realized /\ c.closed = b.closed
    <3>1. b.cash - paid \in Int /\ b.bought \cup {s} \in SUBSET Stocks
      BY <2>5, <2>11 DEF BooksType
    <3>2. c \in BooksType
      BY <2>10, <2>12, <3>1 DEF BooksType
    <3>3. /\ c.cash = b.cash - paid /\ c.position = held
          /\ c.unsettled = b.unsettled /\ c.realized = b.realized /\ c.closed = b.closed
      BY <2>10 DEF BooksType
    <3> QED
      BY <3>2, <3>3
  <2>14. ASSUME Good(b), s \notin Open(b) PROVE Good(c)
    <3>1. Open(c) = Open(b) \cup {s} /\ c.position[s] = new
      <4>1. new.quantity > 0
        <5>1. new.quantity = quantity
          BY DEF new
        <5> HIDE DEF new, quantity
        <5> QED
          BY <1>3, <2>3, <5>1
      <4> HIDE DEF new
      <4> QED
        BY <2>12, <2>13, <4>1 DEF Open
    <3>2. SumOver(CostOf(c), Open(c)) = SumOver(CostOf(b), Open(b)) + paid
      <4>1. \A t \in Open(c) : CostOf(c)[t] \in Int
        BY <2>13, CostOfType
      <4>2. IsFiniteSet(Open(c)) /\ IsFiniteSet(Open(b))
        BY <2>13, CostOfType, StocksFinite
      <4>3. SumOver(CostOf(c), Open(c)) = CostOf(c)[s] + SumOver(CostOf(c), Open(c) \ {s})
        BY <3>1, <4>1, <4>2, SumTake
      <4>4. CostOf(c)[s] = paid
        <5> HIDE DEF new
        <5> QED
          BY <2>8, <3>1 DEF CostOf
      <4>5. Open(c) \ {s} = Open(b)
        BY <2>14, <3>1
      <4>6. SumOver(CostOf(c), Open(b)) = SumOver(CostOf(b), Open(b))
        <5>1. \A t \in Open(b) : t \in Stocks \ {s} /\ CostOf(b)[t] \in Int
          BY <2>14, CostOfType
        <5>2. \A t \in Open(b) : CostOf(b)[t] \in Int /\ CostOf(c)[t] = CostOf(b)[t]
          BY <2>12, <2>13, <5>1 DEF CostOf
        <5> QED
          BY <4>2, <5>2, SumAgree
      <4>7. SumOver(CostOf(b), Open(b)) \in Int
        BY CostOfType
      <4>8. SumOver(CostOf(c), Open(c) \ {s}) = SumOver(CostOf(b), Open(b))
        BY <4>5, <4>6
      <4>9. paid \in Nat
        BY <2>5
      <4> HIDE DEF new, quantity, fee, unit
      <4> QED
        BY <4>3, <4>4, <4>7, <4>8, <4>9
    <3>3. Worth(c) = Worth(b)
      <4>1. SumOver(CostOf(b), Open(b)) \in Int /\ SumOver(AmountOf, b.unsettled) \in Int
        BY <2>14, CostOfType, TotalAmounts DEF Good, BooksType
      <4>2. b.cash \in Int /\ paid \in Int
        BY <2>5, <2>11
      <4> QED
        BY <2>13, <3>2, <4>1, <4>2 DEF Worth
    <3>4. Balanced(c)
      BY <2>13, <2>14, <3>3 DEF Good, Balanced
    <3>5. Orderly(c)
      <4> SUFFICES ASSUME NEW i \in c.unsettled
                   PROVE  /\ i.due <= SettlementDate(day, i.stock)
                          /\ i.stock \in Open(c) => i.due <= c.position[i.stock].matures
        BY DEF Orderly
      <4>1. /\ i.due <= SettlementDate(day, i.stock)
            /\ i.stock \in Open(b) => i.due <= b.position[i.stock].matures
        BY <2>13, <2>14 DEF Good, Orderly
      <4>2. i.stock = s => c.position[i.stock].matures = SettlementDate(day, i.stock)
        BY <3>1
      <4>3. i.stock # s /\ i.stock \in Open(c)
              => i.stock \in Open(b) /\ c.position[i.stock] = b.position[i.stock]
        <5>1. i.stock \in Open(c) => i.stock \in Stocks
          BY <2>13, CostOfType
        <5> QED
          BY <2>12, <2>13, <3>1, <5>1
      <4> QED
        BY <4>1, <4>2, <4>3
    <3> QED
      BY <2>13, <2>14, <3>4, <3>5 DEF Good
  <2>15. \A t \in Stocks \ {s} : c.position[t] = b.position[t]
    BY <2>12, <2>13
  <2> QED
    BY <2>13, <2>14, <2>15 DEF c
<1> QED
  BY <1>2, <1>3

\* A share is ranked once.
RankingType ==
    /\ IsFiniteSet(DOMAIN ranking) /\ DOMAIN ranking \subseteq Int
    /\ \A i \in DOMAIN ranking : ranking[i] \in Stocks
    /\ \A i, j \in DOMAIN ranking : i # j => ranking[i] # ranking[j]

LEMMA EquityType ==
    ASSUME MarketType, NEW b, Good(b)
    PROVE  Equity(b) \in Int
PROOF
<1> DEFINE Value(s) == b.position[s].quantity
                         * (IF price[s] = 0 THEN b.position[s].entry ELSE price[s])
           v == [s \in Open(b) |-> Value(s)]
           held == Total(Open(b), LAMBDA s : b.position[s].quantity
                         * (IF price[s] = 0 THEN b.position[s].entry ELSE price[s]))
           under == Total(b.unsettled, LAMBDA i : i.amount)
<1>1. b \in BooksType /\ IsFiniteSet(b.unsettled) /\ b.unsettled \in SUBSET Settlement
      /\ b.cash \in Int
  BY DEF Good, BooksType
<1>2. \A s \in Open(b) : Value(s) \in Nat
  <2> SUFFICES ASSUME NEW s \in Open(b) PROVE Value(s) \in Nat
    OBVIOUS
  <2>1. s \in Stocks /\ b.position[s] \in PositionType /\ price[s] \in Nat
    BY <1>1, CostOfType DEF BooksType, MarketType
  <2>2. b.position[s].quantity \in Nat /\ b.position[s].entry \in Nat
    BY <2>1 DEF PositionType
  <2>3. \A x, y \in Nat : x * y \in Nat
    OBVIOUS
  <2> QED
    BY <2>1, <2>2, <2>3
<1>3. held = SumOver(v, Open(b))
  BY DEF Total, FoldFunction, SumOver
<1>4. held \in Int
  <2>1. \A s \in Open(b) : v[s] \in Int
    BY <1>2
  <2>2. IsFiniteSet(Open(b))
    BY <1>1, CostOfType, StocksFinite
  <2> HIDE DEF v, held
  <2> QED
    BY <1>3, <2>1, <2>2, SumTake
<1>5. under \in Int
  <2>1. under = SumOver(AmountOf, b.unsettled)
    BY <1>1, TotalAmounts
  <2> HIDE DEF under
  <2> QED
    BY <1>1, <2>1, TotalAmounts
<1>6. Equity(b) = b.cash + Money(held) + under
  BY DEF Equity
<1>7. Money(held) \in Int
  <2> HIDE DEF held
  <2> QED
    BY <1>4, MoneyType
<1> HIDE DEF held, under
<1> QED
  BY <1>1, <1>5, <1>6, <1>7

LEMMA EnteredGood ==
    ASSUME MarketType, RankingType, NEW b, Good(b)
    PROVE  /\ Good(Entered(b))
           /\ Entered(b).unsettled = b.unsettled
           /\ \A s \in Open(b) : Entered(b).position[s] = b.position[s]
PROOF
<1> DEFINE D == DOMAIN ranking
           budget == Rounded(Equity(b) * SizePct, 100)
           chosen == Candidates(b)
           Enter(c, s) ==
             IF s \notin chosen \/ price[s] = 0 \/ c.cash < MinCash THEN c
             ELSE OpenOne(c, s, IF budget < c.cash THEN budget ELSE c.cash)
           G == [t \in SUBSET D |-> Max(t)]
           H == [p \in D \X BooksType |-> Enter(p[2], ranking[p[1]])]
           Steps(it) == it = [t \in SUBSET D |-> IF t = {} THEN b
                                ELSE Enter(it[t \ {Max(t)}], ranking[Max(t)])]
           it == CHOOSE jt : Steps(jt)
<1>1. b \in BooksType /\ Open(b) \in SUBSET Stocks
  BY CostOfType DEF Good
<1>2. budget \in Int
  <2>1. Equity(b) \in Int
    BY EquityType
  <2>2. \A x \in Int, y \in Nat : x * y \in Int
    OBVIOUS
  <2>3. Equity(b) * SizePct \in Int /\ 100 \in Nat \ {0}
    BY <2>1, <2>2, ParametersInNat
  <2> QED
    BY <2>3, RoundedType
<1>3. IsFiniteSet(D) /\ D \subseteq Int /\ \A i \in D : ranking[i] \in Stocks
  BY DEF RankingType
<1>4. chosen \cap Open(b) = {}
  BY DEF Candidates
<1> HIDE DEF budget, chosen
<1>5. ASSUME NEW c \in BooksType, NEW s \in Stocks
      PROVE  /\ Enter(c, s) \in BooksType
             /\ Enter(c, s).unsettled = c.unsettled
             /\ \A t \in Stocks \ {s} : Enter(c, s).position[t] = c.position[t]
             /\ s \notin chosen => Enter(c, s) = c
             /\ Good(c) /\ (s \in chosen => s \notin Open(c)) => Good(Enter(c, s))
  <2> DEFINE room == IF budget < c.cash THEN budget ELSE c.cash
  <2>1. room \in Int
    BY <1>2 DEF BooksType
  <2>2. CASE s \notin chosen \/ price[s] = 0 \/ c.cash < MinCash
    BY <2>2
  <2>3. CASE ~(s \notin chosen \/ price[s] = 0 \/ c.cash < MinCash)
    <3>1. Enter(c, s) = OpenOne(c, s, room) /\ price[s] # 0 /\ s \in chosen
      BY <2>3
    <3> HIDE DEF room, Enter
    <3> QED
      BY <2>1, <3>1, OpenOneGood
  <2> QED
    BY <2>2, <2>3
<1>6. \A t \in SUBSET D : t # {} => Max(t) \in t /\ IsFiniteSet(t)
  <2> SUFFICES ASSUME NEW t \in SUBSET D, t # {} PROVE Max(t) \in t /\ IsFiniteSet(t)
    OBVIOUS
  <2>1. IsFiniteSet(t) /\ t \in SUBSET Int
    BY <1>3, FS_Subset
  <2> QED
    BY <1>6, <2>1, Greatest
<1> HIDE DEF Enter
<1>7. PICK jt \in [SUBSET D -> BooksType] : IsFold(jt, G, H, b, D)
  <2>1. Choosing(G, D)
    BY <1>6 DEF Choosing
  <2>2. H \in [D \X BooksType -> BooksType]
    BY <1>3, <1>5
  <2> HIDE DEF G, H, D
  <2> QED
    BY <1>1, <1>3, <2>1, <2>2, FoldExists
<1>8. Steps(jt)
  <2>1. ASSUME NEW t \in SUBSET D
        PROVE  jt[t] = IF t = {} THEN b ELSE Enter(jt[t \ {Max(t)}], ranking[Max(t)])
    <3>1. CASE t # {}
      <4>1. Max(t) \in D /\ t \ {Max(t)} \in SUBSET D /\ G[t] = Max(t)
        BY <1>6, <3>1
      <4>2. jt[t \ {Max(t)}] \in BooksType
        BY <4>1
      <4>3. H[<<Max(t), jt[t \ {Max(t)}]>>] = Enter(jt[t \ {Max(t)}], ranking[Max(t)])
        BY <4>1, <4>2
      <4>4. jt[t] = H[<<G[t], jt[t \ {G[t]}]>>]
        BY <1>7, <3>1 DEF IsFold
      <4> QED
        BY <3>1, <4>1, <4>3, <4>4
    <3>2. CASE t = {}
      BY <1>7, <3>2 DEF IsFold
    <3> QED
      BY <3>1, <3>2
  <2> QED
    BY <2>1
<1>9. Steps(it)
  BY <1>8
<1>10. Entered(b) = it[D]
  BY DEF Entered, FoldLeft, MapThenFoldSet, Enter, budget, chosen
<1>11. /\ it[{}] = b
       /\ \A t \in SUBSET D : t # {} => it[t] = Enter(it[t \ {Max(t)}], ranking[Max(t)])
  <2> HIDE DEF it
  <2> QED
    BY <1>9
<1> HIDE DEF it, G, H
<1> DEFINE Seen(t) == {ranking[i] : i \in t}
           Kept(t) == /\ Good(it[t])
                      /\ it[t].unsettled = b.unsettled
                      /\ \A s \in Stocks : s \notin Seen(t) \cap chosen
                           => it[t].position[s] = b.position[s]
           T == {t \in SUBSET D : Kept(t)}
<1>12. {} \in T
  BY <1>11
<1>13. ASSUME NEW t \in SUBSET D, t # {}, \A i \in t : t \ {i} \in T PROVE t \in T
  <2> DEFINE m == Max(t)
             u == t \ {m}
             c == it[u]
             s == ranking[m]
  <2>1. m \in t /\ m \in D
    BY <1>6, <1>13
  <2>2. /\ u \in SUBSET D /\ Good(c) /\ c.unsettled = b.unsettled
        /\ \A r \in Stocks : r \notin Seen(u) \cap chosen => c.position[r] = b.position[r]
    BY <1>13, <2>1
  <2>3. c \in BooksType /\ s \in Stocks
    BY <1>3, <2>1, <2>2 DEF Good
  <2>4. s \notin Seen(u)
    BY <2>1 DEF RankingType
  <2>5. s \in chosen => s \notin Open(c)
    <3>1. c.position[s] = b.position[s]
      BY <2>2, <2>3, <2>4
    <3> QED
      BY <1>4, <2>3, <3>1 DEF Open
  <2>6. it[t] = Enter(c, s)
    BY <1>11, <1>13
  <2>7. Seen(t) = Seen(u) \cup {s}
    BY <2>1
  <2> HIDE DEF m, u, c, s
  <2>8. Good(it[t]) /\ it[t].unsettled = b.unsettled
    BY <1>5, <2>2, <2>3, <2>5, <2>6
  <2>9. ASSUME NEW r \in Stocks, r \notin Seen(t) \cap chosen
        PROVE  it[t].position[r] = b.position[r]
    <3>1. CASE r # s
      <4>1. r \in Stocks \ {s} /\ r \notin Seen(u) \cap chosen
        BY <2>7, <2>9, <3>1
      <4>2. Enter(c, s).position[r] = c.position[r]
        BY <1>5, <2>3, <4>1
      <4>3. c.position[r] = b.position[r]
        BY <2>2, <4>1
      <4> QED
        BY <2>6, <4>2, <4>3
    <3>2. CASE r = s
      <4>1. s \notin chosen /\ r \notin Seen(u) \cap chosen
        BY <2>4, <2>7, <2>9, <3>2
      <4>2. Enter(c, s) = c
        BY <1>5, <2>3, <4>1
      <4>3. c.position[r] = b.position[r]
        BY <2>2, <2>9, <4>1
      <4> QED
        BY <2>6, <4>2, <4>3
    <3> QED
      BY <3>1, <3>2
  <2> QED
    BY <2>8, <2>9
<1>14. T = SUBSET D
  <2>1. T \in SUBSET SUBSET D
    OBVIOUS
  <2>2. IsFiniteSet(D)
    BY <1>3
  <2> HIDE DEF T, D
  <2> QED
    BY <1>12, <1>13, <2>1, <2>2, SubsetInduction
<1>15. Kept(D)
  BY <1>14
<1>16. \A s \in Open(b) : s \in Stocks /\ s \notin chosen
  BY <1>1, <1>4
<1> QED
  BY <1>10, <1>15, <1>16

\* A cycle keeps them, and of settlement what a step must.
LEMMA CycledGood ==
    ASSUME MarketType, RankingType, NEW b, Good(b)
    PROVE  /\ Good(Cycled(b))
           /\ \A i \in b.unsettled : i.due > day => i \in Cycled(b).unsettled
           /\ \A s \in Open(b) : day < b.position[s].matures
                                 => Cycled(b).position[s] = b.position[s]
PROOF
<1> DEFINE c == Settled(b)
           d == Closed(c)
           e == Entered(d)
<1>1. /\ Good(c) /\ c.unsettled = b.unsettled \ Due(b) /\ c.position = b.position
      /\ \A i \in c.unsettled : i.due > day
  BY SettledGood
<1> HIDE DEF c
<1>2. /\ Good(d) /\ c.unsettled \subseteq d.unsettled
      /\ \A s \in Open(c) : day < c.position[s].matures => d.position[s] = c.position[s]
  BY <1>1, ClosedGood
<1> HIDE DEF d
<1>3. /\ Good(e) /\ e.unsettled = d.unsettled
      /\ \A s \in Open(d) : e.position[s] = d.position[s]
  BY <1>2, EnteredGood
<1>4. Cycled(b) = e
  BY DEF Cycled, c, d
<1> HIDE DEF e
<1>5. ASSUME NEW i \in b.unsettled, i.due > day PROVE i \in e.unsettled
  <2>1. i.due \in Nat
    BY DEF Good, BooksType, Settlement
  <2>2. i \notin Due(b)
    BY <1>5, <2>1 DEF Due, MarketType
  <2> QED
    BY <1>1, <1>2, <1>3, <2>2
<1>6. ASSUME NEW s \in Open(b), day < b.position[s].matures
      PROVE  e.position[s] = b.position[s]
  <2>1. s \in Stocks /\ b.position[s].quantity > 0
    BY DEF Open
  <2>2. s \in Open(c)
    BY <1>1, <2>1 DEF Open
  <2>3. d.position[s] = b.position[s]
    BY <1>1, <1>2, <1>6, <2>2
  <2>4. s \in Open(d)
    BY <2>1, <2>3 DEF Open
  <2> QED
    BY <1>3, <2>3, <2>4
<1> QED
  BY <1>3, <1>4, <1>5, <1>6

-----------------------------------------------------------------------------

PaperInv == MarketType /\ RankingType /\ Good(books)

\* What a step keeps of the books.
Kept == /\ \A i \in books.unsettled : i.due > day => i \in books'.unsettled
        /\ \A s \in Open(books) : day < books.position[s].matures
                                  => books'.position[s] = books.position[s]

LEMMA PaperInitially == Init => PaperInv
PROOF
<1> SUFFICES ASSUME Init PROVE PaperInv
  OBVIOUS
<1>1. MarketType /\ RankingType
  <2>1. DOMAIN ranking = {} /\ IsFiniteSet({})
    BY FS_EmptySet DEF Init
  <2> QED
    BY <2>1 DEF Init, MarketType, RankingType
<1>2. /\ books.cash = InitialCash /\ books.unsettled = {} /\ books.realized = 0
      /\ books.closed = 0 /\ books.position = [s \in Stocks |-> NoPosition]
      /\ books \in BooksType
  <2>1. NoPosition \in PositionType
    BY DEF NoPosition, PositionType
  <2> QED
    BY <2>1, ParametersInNat DEF Init, BooksType
<1>3. Open(books) = {}
  BY <1>2 DEF Open, NoPosition
<1>4. SumOver(AmountOf, {}) = 0 /\ SumOver(CostOf(books), {}) = 0 /\ IsFiniteSet({})
  BY FS_EmptySet, SumTake
<1>5. Balanced(books)
  BY <1>2, <1>3, <1>4, ParametersInNat DEF Balanced, Worth
<1>6. Orderly(books)
  BY <1>2 DEF Orderly
<1> QED
  BY <1>1, <1>2, <1>4, <1>5, <1>6 DEF PaperInv, Good

LEMMA PaperStep ==
    PaperInv /\ [Next]_vars => PaperInv' /\ [Kept]_books
PROOF
<1> SUFFICES ASSUME PaperInv, [Next]_vars PROVE PaperInv' /\ [Kept]_books
  OBVIOUS
<1> USE DEF PaperInv
<1>1. ASSUME books' = Cycled(books), UNCHANGED <<day, price, ranking, exits, active>>
      PROVE  PaperInv' /\ Kept
  <2>1. /\ Good(Cycled(books))
        /\ \A i \in books.unsettled : i.due > day => i \in Cycled(books).unsettled
        /\ \A s \in Open(books) : day < books.position[s].matures
                                  => Cycled(books).position[s] = books.position[s]
    BY CycledGood
  <2>2. MarketType' /\ RankingType'
    BY <1>1 DEF MarketType, RankingType
  <2>3. Good(books)'
    BY <1>1, <2>1 DEF Good, Orderly, Balanced, Worth
  <2> QED
    BY <1>1, <2>1, <2>2, <2>3 DEF Kept
<1>2. CASE ScheduledCycle
  BY <1>1, <1>2 DEF ScheduledCycle
<1>3. CASE ForcedCycle
  BY <1>1, <1>3 DEF ForcedCycle
<1>4. ASSUME UNCHANGED <<day, books>>, MarketType', RankingType'
      PROVE  PaperInv' /\ [Kept]_books
  <2>1. Good(books)'
    BY <1>4 DEF Good, Orderly, Balanced, Worth
  <2> QED
    BY <1>4, <2>1
<1>5. CASE StartOrPause
  BY <1>4, <1>5 DEF StartOrPause, MarketType, RankingType
<1>6. ASSUME NEW s \in Stocks, NEW p \in Prices, NewPrice(s, p)
      PROVE  PaperInv' /\ [Kept]_books
  <2>1. p \in Nat
    BY PaperAssumption
  <2>2. MarketType' /\ RankingType' /\ UNCHANGED <<day, books>>
    BY <1>6, <2>1 DEF NewPrice, MarketType, RankingType
  <2> QED
    BY <1>4, <2>2
<1>7. ASSUME NEW S \in SUBSET Stocks, NEW entries \in SetToSeqs(S), NEW out \in SUBSET Stocks,
             NewSignals(entries, out)
      PROVE  PaperInv' /\ [Kept]_books
  <2>1. Cardinality(S) \in Nat
    BY StocksFinite
  <2>2. /\ entries \in [1..Cardinality(S) -> S]
        /\ \A i, j \in 1..Cardinality(S) : i # j => entries[i] # entries[j]
    BY DEF SetToSeqs
  <2>3. IsFiniteSet(1..Cardinality(S)) /\ 1..Cardinality(S) \subseteq Int
    BY <2>1, FS_Interval
  <2>4. RankingType'
    <3>1. ranking' = entries
      BY <1>7 DEF NewSignals
    <3> HIDE DEF PaperInv
    <3> QED
      BY <2>2, <2>3, <3>1 DEF RankingType
  <2>5. MarketType' /\ UNCHANGED <<day, books>>
    BY <1>7 DEF NewSignals, MarketType
  <2> QED
    BY <1>4, <2>4, <2>5
<1>8. CASE NextDay
  <2> DEFINE b == books
             c == books'
  <2>1. b \in BooksType /\ IsFiniteSet(b.unsettled) /\ b.unsettled \in SUBSET Settlement
    BY DEF Good, BooksType
  <2>2. c = [b EXCEPT !.bought = {}, !.sold = {}]
    BY <1>8 DEF NextDay
  <2>3. /\ c.cash = b.cash /\ c.position = b.position /\ c.unsettled = b.unsettled
        /\ c.realized = b.realized /\ c.closed = b.closed /\ c \in BooksType
    BY <2>1, <2>2 DEF BooksType
  <2>4. day \in Nat /\ day' = day + 1 /\ price' = price /\ ranking' = ranking
    BY <1>8 DEF NextDay, MarketType
  <2>5. MarketType' /\ RankingType'
    BY <2>4 DEF MarketType, RankingType
  <2>6. Open(c) = Open(b) /\ CostOf(c) = CostOf(b)
    BY <2>3 DEF Open, CostOf
  <2>7. Balanced(c)
    BY <2>3, <2>6 DEF Good, Balanced, Worth
  <2>8. \A i \in b.unsettled : /\ i.due <= SettlementDate(day + 1, i.stock)
                               /\ i.stock \in Open(b) => i.due <= b.position[i.stock].matures
    <3> SUFFICES ASSUME NEW i \in b.unsettled PROVE i.due <= SettlementDate(day + 1, i.stock)
      BY DEF Good, Orderly
    <3>1. i.due \in Nat /\ i.due <= SettlementDate(day, i.stock)
      BY <2>1 DEF Settlement, Good, Orderly
    <3>2. day + 1 \in Nat
      BY <2>4
    <3>3. SettlementDate(day, i.stock) \in Nat /\ SettlementDate(day + 1, i.stock) \in Nat
      BY <2>4, <3>2, SettlementDateIs
    <3>4. SettlementDate(day, i.stock) <= SettlementDate(day + 1, i.stock)
      BY <2>4, SettlesNoEarlier
    <3> QED
      BY <3>1, <3>3, <3>4
  <2>9. Orderly(books)'
    <3>1. \A i \in c.unsettled : /\ i.due <= SettlementDate(day', i.stock)
                                 /\ i.stock \in Open(c) => i.due <= c.position[i.stock].matures
      BY <2>3, <2>4, <2>6, <2>8
    <3> QED
      BY <3>1, <2>4 DEF Orderly, SettlementDate, Sessions, IsSession
  <2>10. Good(books)'
    BY <2>1, <2>3, <2>7, <2>9 DEF Good
  <2>11. Kept
    BY <2>3 DEF Kept
  <2> QED
    BY <2>5, <2>10, <2>11
<1>9. CASE UNCHANGED vars
  <2>1. MarketType' /\ RankingType' /\ UNCHANGED <<day, books>>
    BY <1>9 DEF vars, MarketType, RankingType
  <2> QED
    BY <1>4, <2>1
<1> QED
  BY <1>2, <1>3, <1>5, <1>6, <1>7, <1>8, <1>9 DEF Next

LEMMA PaperAlways == Spec => []PaperInv
PROOF
<1>1. PaperInv /\ [Next]_vars => PaperInv'
  BY PaperStep
<1> QED
  BY PaperInitially, <1>1, PTL DEF Spec

\* After any number of cycles, forced or not, and of days, the money is in the
\* cash, on its way or in a position, up to a unit for each closed position.
THEOREM BooksKept == Spec => []BooksBalance
PROOF
<1>1. PaperInv => BooksBalance
  BY BalanceSays DEF PaperInv, Good
<1> QED
  BY PaperAlways, <1>1, PTL

\* No cycle spends proceeds before their settlement or sells what is not its own yet.
THEOREM SettlementKept == Spec => SettlementRespected
PROOF
<1>1. PaperInv /\ [Next]_vars => [Kept]_books
  BY PaperStep
<1>2. SettlementRespected <=> [][Kept]_books
  BY PTL DEF SettlementRespected, Kept
<1> QED
  BY PaperAlways, <1>1, <1>2, PTL DEF Spec

(***************************************************************************)
(* Replaying a ledger.                                                     *)
(***************************************************************************)
LedgerRow == [type : {"BUY", "SELL"}, quantity : Nat, date : Nat, created : Nat]
Calc == [held : Nat, error : BOOLEAN]
Nothing == [held |-> 0, error |-> FALSE]

\* A set of rows that can be put in order: no two were created together.
Ordered(l) ==
    /\ IsFiniteSet(DOMAIN l)
    /\ \A i \in DOMAIN l : l[i] \in LedgerRow
    /\ \A i, j \in DOMAIN l : i # j => l[i].created # l[j].created

LEMMA FillType ==
    ASSUME NEW txn \in LedgerRow, NEW calc \in Calc
    PROVE  /\ Fill(txn, calc) \in Calc
           /\ calc.error => Fill(txn, calc).error
           /\ txn.type = "BUY" => /\ Fill(txn, calc).error = calc.error
                                  /\ Fill(txn, calc).held = calc.held + txn.quantity
           /\ txn.type = "SELL" /\ txn.quantity <= calc.held
                => /\ Fill(txn, calc).error = calc.error
                   /\ Fill(txn, calc).held = calc.held - txn.quantity
           /\ txn.type = "SELL" /\ ~(txn.quantity <= calc.held)
                => Fill(txn, calc).error
PROOF
<1>1. /\ txn.quantity \in Nat /\ txn.type \in {"BUY", "SELL"}
      /\ calc.held \in Nat /\ calc.error \in BOOLEAN
      /\ calc = [held |-> calc.held, error |-> calc.error]
  BY DEF LedgerRow, Calc
<1>2. CASE txn.type = "BUY"
  <2>1. Fill(txn, calc) = [calc EXCEPT !.held = calc.held + txn.quantity]
    BY <1>2 DEF Fill
  <2>2. Fill(txn, calc) = [held |-> calc.held + txn.quantity, error |-> calc.error]
    BY <1>1, <2>1
  <2> QED
    BY <1>1, <1>2, <2>2 DEF Calc
<1>3. CASE txn.type = "SELL" /\ txn.quantity <= calc.held
  <2>1. Fill(txn, calc) = [calc EXCEPT !.held = calc.held - txn.quantity]
    BY <1>1, <1>3 DEF Fill
  <2>2. Fill(txn, calc) = [held |-> calc.held - txn.quantity, error |-> calc.error]
    BY <1>1, <2>1
  <2> QED
    BY <1>1, <1>3, <2>2 DEF Calc
<1>4. CASE txn.type = "SELL" /\ ~(txn.quantity <= calc.held)
  <2>1. Fill(txn, calc) = [calc EXCEPT !.error = TRUE]
    BY <1>1, <1>4 DEF Fill
  <2>2. Fill(txn, calc) = [held |-> calc.held, error |-> TRUE]
    BY <1>1, <2>1
  <2>3. Fill(txn, calc) \in Calc
    BY <1>1, <2>2 DEF Calc
  <2>4. Fill(txn, calc).error = TRUE
    BY <2>2
  <2> QED
    BY <1>1, <1>4, <2>3, <2>4
<1> QED
  BY <1>1, <1>2, <1>3, <1>4

LEMMA LatestIs ==
    ASSUME NEW l, Ordered(l), NEW S \in SUBSET DOMAIN l, S # {}
    PROVE  /\ Latest(l, S) \in S
           /\ \A j \in S \ {Latest(l, S)} : Before(l, j, Latest(l, S))
PROOF
<1> DEFINE IsLast(i, s) == i \in s /\ \A j \in s \ {i} : Before(l, j, i)
           T == {s \in SUBSET S : s = {} \/ \E i \in s : IsLast(i, s)}
<1>1. IsFiniteSet(S)
  BY FS_Subset DEF Ordered
<1>2. \A i \in S : l[i].date \in Nat /\ l[i].created \in Nat
  BY DEF Ordered, LedgerRow
<1>3. ASSUME NEW i \in S, NEW j \in S, i # j PROVE Before(l, i, j) \/ Before(l, j, i)
  <2>1. l[i].created # l[j].created
    BY <1>3 DEF Ordered
  <2> QED
    BY <1>2, <2>1 DEF Before
<1>4. ASSUME NEW i \in S, NEW j \in S, NEW k \in S, Before(l, i, j), Before(l, j, k)
      PROVE  Before(l, i, k)
  BY <1>2, <1>4 DEF Before
<1>5. {} \in T
  OBVIOUS
<1>6. ASSUME NEW s \in SUBSET S, s # {}, \A x \in s : s \ {x} \in T PROVE s \in T
  <2>1. PICK x \in s : TRUE
    BY <1>6
  <2>2. CASE s \ {x} = {}
    <3>1. IsLast(x, s)
      BY <2>2
    <3> QED
      BY <2>1, <3>1
  <2>3. CASE s \ {x} # {}
    <3>1. PICK i \in s \ {x} : IsLast(i, s \ {x})
      BY <1>6, <2>3
    <3>2. CASE Before(l, x, i)
      <4>1. IsLast(i, s)
        BY <3>1, <3>2
      <4> QED
        BY <4>1
    <3>3. CASE Before(l, i, x)
      <4>1. \A j \in s \ {x} : Before(l, j, x)
        BY <1>4, <3>1, <3>3
      <4>2. IsLast(x, s)
        BY <4>1
      <4> QED
        BY <2>1, <4>2
    <3>4. Before(l, x, i) \/ Before(l, i, x)
      BY <1>3
    <3> QED
      BY <3>2, <3>3, <3>4
  <2> QED
    BY <2>2, <2>3
<1>7. T = SUBSET S
  <2>1. T \in SUBSET SUBSET S
    OBVIOUS
  <2> HIDE DEF T
  <2> QED
    BY <1>1, <1>5, <1>6, <2>1, SubsetInduction
<1>8. S \in T
  BY <1>7
<1>9. \E i \in S : \A j \in S \ {i} : Before(l, j, i)
  BY <1>8
<1> QED
  BY <1>9 DEF Latest

\* The recursive function in the definition of the replay.
Replays(it, l, S) ==
    it = [s \in SUBSET S |-> IF s = {} THEN [held |-> 0, error |-> FALSE]
            ELSE Fill(l[Latest(l, s)], it[s \ {Latest(l, s)}])]

LEMMA ReplayIs ==
    ASSUME NEW l, Ordered(l), NEW S \in SUBSET DOMAIN l
    PROVE  \E it \in [SUBSET S -> Calc] : Replays(it, l, S) /\ Replay(l, S) = it[S]
PROOF
<1> DEFINE G == [s \in SUBSET S |-> Latest(l, s)]
           H == [p \in S \X Calc |-> Fill(l[p[1]], p[2])]
           it == CHOOSE jt : Replays(jt, l, S)
<1>1. IsFiniteSet(S) /\ \A i \in S : l[i] \in LedgerRow
  BY FS_Subset DEF Ordered
<1>2. \A s \in SUBSET S : s # {} => Latest(l, s) \in s
  BY LatestIs
<1>3. PICK jt \in [SUBSET S -> Calc] : IsFold(jt, G, H, Nothing, S)
  <2>1. Nothing \in Calc
    BY DEF Nothing, Calc
  <2>2. Choosing(G, S)
    BY <1>2 DEF Choosing
  <2>3. H \in [S \X Calc -> Calc]
    BY <1>1, FillType
  <2> HIDE DEF G, H
  <2> QED
    BY <1>1, <2>1, <2>2, <2>3, FoldExists, Zenon
<1>4. ASSUME NEW s \in SUBSET S
      PROVE  jt[s] = IF s = {} THEN [held |-> 0, error |-> FALSE]
                     ELSE Fill(l[Latest(l, s)], jt[s \ {Latest(l, s)}])
  <2>1. CASE s # {}
    <3>1. Latest(l, s) \in S /\ G[s] = Latest(l, s) /\ s \ {Latest(l, s)} \in SUBSET S
      BY <1>2, <2>1
    <3>2. jt[s \ {Latest(l, s)}] \in Calc
      BY <3>1
    <3>3. H[<<Latest(l, s), jt[s \ {Latest(l, s)}]>>] = Fill(l[Latest(l, s)], jt[s \ {Latest(l, s)}])
      BY <3>1, <3>2
    <3>4. jt[s] = H[<<G[s], jt[s \ {G[s]}]>>]
      BY <1>3, <2>1 DEF IsFold
    <3> QED
      BY <2>1, <3>1, <3>3, <3>4
  <2> QED
    BY <1>3, <2>1 DEF IsFold, Nothing
<1>5. Replays(jt, l, S)
  BY <1>4 DEF Replays
<1>6. Replays(it, l, S)
  BY <1>5
<1>7. Replay(l, S) = it[S]
  BY DEF Replay, MapThenFoldSet, Replays
<1>8. it = jt
  <2> DEFINE T == {s \in SUBSET S : it[s] = jt[s]}
  <2> HIDE DEF it
  <2>1. {} \in T
    <3>1. it[{}] = Nothing /\ jt[{}] = Nothing
      BY <1>4, <1>6 DEF Replays, Nothing
    <3> QED
      BY <3>1
  <2>2. ASSUME NEW s \in SUBSET S, s # {}, \A x \in s : s \ {x} \in T PROVE s \in T
    <3>1. Latest(l, s) \in s
      BY <1>2, <2>2
    <3>2. it[s \ {Latest(l, s)}] = jt[s \ {Latest(l, s)}]
      BY <2>2, <3>1
    <3>3. it[s] = Fill(l[Latest(l, s)], it[s \ {Latest(l, s)}])
      BY <1>6, <2>2 DEF Replays
    <3> QED
      BY <1>4, <2>2, <3>2, <3>3
  <2>3. T = SUBSET S
    <3>1. T \in SUBSET SUBSET S
      OBVIOUS
    <3> HIDE DEF T
    <3> QED
      BY <1>1, <2>1, <2>2, <3>1, SubsetInduction
  <2>4. \A s \in SUBSET S : it[s] = jt[s]
    BY <2>3
  <2>5. it = [s \in SUBSET S |-> it[s]] /\ jt = [s \in SUBSET S |-> jt[s]]
    BY <1>6 DEF Replays
  <2> QED
    BY <2>4, <2>5
<1> HIDE DEF it
<1> QED
  BY <1>6, <1>7, <1>8

\* Two ledgers that agree on S replay S alike; and so S and its parts.
Agree(m, l, S) == \A i \in S : m[i] = l[i]

LEMMA ReplayAgrees ==
    ASSUME NEW l, NEW m, Ordered(l), Ordered(m), NEW S \in SUBSET DOMAIN l,
           S \in SUBSET DOMAIN m, Agree(m, l, S),
           NEW it \in [SUBSET S -> Calc], Replays(it, l, S), NEW s \in SUBSET S
    PROVE  Replay(m, s) = it[s]
PROOF
<1> USE DEF Agree
<1>1. PICK jt \in [SUBSET s -> Calc] : Replays(jt, m, s) /\ Replay(m, s) = jt[s]
  <2>1. s \in SUBSET DOMAIN m
    OBVIOUS
  <2> QED
    BY <2>1, ReplayIs
<1>2. it[{}] = jt[{}]
  BY <1>1 DEF Replays
<1>3. ASSUME NEW t \in SUBSET s, t # {}
      PROVE  \E x \in t : it[t \ {x}] = jt[t \ {x}] => it[t] = jt[t]
  <2>1. \A i, j \in t : Before(m, i, j) <=> Before(l, i, j)
    BY DEF Before
  <2>2. Latest(m, t) = Latest(l, t)
    <3>1. \A i \in t : (\A j \in t \ {i} : Before(m, j, i)) <=> (\A j \in t \ {i} : Before(l, j, i))
      BY <2>1
    <3> QED
      BY <3>1 DEF Latest
  <2>3. Latest(l, t) \in t
    <3>1. t \in SUBSET DOMAIN l
      OBVIOUS
    <3> QED
      BY <1>3, <3>1, LatestIs
  <2>4. /\ it[t] = Fill(l[Latest(l, t)], it[t \ {Latest(l, t)}])
        /\ jt[t] = Fill(m[Latest(m, t)], jt[t \ {Latest(m, t)}])
    BY <1>1, <1>3 DEF Replays
  <2>5. m[Latest(l, t)] = l[Latest(l, t)]
    BY <2>3
  <2> QED
    BY <2>2, <2>3, <2>4, <2>5
<1>4. IsFiniteSet(s)
  BY FS_Subset DEF Ordered
<1>5. it[s] = jt[s]
  BY <1>2, <1>3, <1>4, SameCourse
<1> QED
  BY <1>1, <1>5

\* The last row is replayed last.
LEMMA ReplayLast ==
    ASSUME NEW l, Ordered(l), NEW S \in SUBSET DOMAIN l
    PROVE  /\ Replay(l, S) \in Calc
           /\ S = {} => Replay(l, S) = Nothing
           /\ S # {} => Replay(l, S) = Fill(l[Latest(l, S)], Replay(l, S \ {Latest(l, S)}))
PROOF
<1>1. PICK it \in [SUBSET S -> Calc] : Replays(it, l, S) /\ Replay(l, S) = it[S]
  BY ReplayIs
<1>2. \A s \in SUBSET S : Replay(l, s) = it[s]
  <2> SUFFICES ASSUME NEW s \in SUBSET S PROVE Replay(l, s) = it[s]
    OBVIOUS
  <2> HIDE DEF Ordered
  <2>1. Agree(l, l, S)
    BY DEF Agree
  <2>2. Ordered(l) /\ S \in SUBSET DOMAIN l
    OBVIOUS
  <2> QED
    BY <1>1, <2>1, <2>2, ReplayAgrees
<1>3. S \ {Latest(l, S)} \in SUBSET S
  OBVIOUS
<1>4. Replay(l, S \ {Latest(l, S)}) = it[S \ {Latest(l, S)}]
  BY <1>2, <1>3
<1>5. it[S] = IF S = {} THEN [held |-> 0, error |-> FALSE]
              ELSE Fill(l[Latest(l, S)], it[S \ {Latest(l, S)}])
  BY <1>1 DEF Replays
<1> QED
  BY <1>1, <1>4, <1>5 DEF Nothing

LEMMA ReplayOfPart ==
    ASSUME NEW l, NEW m, Ordered(l), Ordered(m), NEW S \in SUBSET DOMAIN l,
           S \in SUBSET DOMAIN m, Agree(m, l, S)
    PROVE  Replay(m, S) = Replay(l, S)
PROOF
<1>1. PICK it \in [SUBSET S -> Calc] : Replays(it, l, S) /\ Replay(l, S) = it[S]
  BY ReplayIs
<1>2. ASSUME NEW s \in SUBSET S PROVE Replay(m, s) = it[s]
  <2>1. Ordered(l) /\ Ordered(m) /\ S \in SUBSET DOMAIN l /\ S \in SUBSET DOMAIN m
    OBVIOUS
  <2> QED
    BY <1>1, <2>1, ReplayAgrees
<1> QED
  BY <1>1, <1>2

\* l with a row more, created after all the others.
Extends(m, l, k) ==
    /\ k \notin DOMAIN l
    /\ DOMAIN m = DOMAIN l \cup {k}
    /\ \A i \in DOMAIN l : m[i] = l[i]
    /\ \A i \in DOMAIN l : l[i].created < m[k].created

\* The new row is replayed last, or the last of the others still is.
LEMMA LatestOfMore ==
    ASSUME NEW l, NEW m, NEW k, Ordered(l), Ordered(m), Extends(m, l, k),
           NEW S \in SUBSET DOMAIN l
    PROVE  \/ /\ Latest(m, S \cup {k}) = k
              /\ \A i \in S : l[i].date <= m[k].date
           \/ /\ S # {}
              /\ Latest(m, S \cup {k}) = Latest(l, S)
              /\ Latest(l, S) \in S
              /\ l[Latest(l, S)].date > m[k].date
PROOF
<1> DEFINE x == Latest(m, S \cup {k})
<1>1. k \notin S /\ S \cup {k} \in SUBSET DOMAIN m /\ S \in SUBSET DOMAIN m
  BY DEF Extends
<1>2. x \in S \cup {k} /\ \A j \in (S \cup {k}) \ {x} : Before(m, j, x)
  BY <1>1, LatestIs
<1>3. \A i \in S : m[i] = l[i] /\ l[i].created < m[k].created
  BY DEF Extends
<1>4. \A i \in S \cup {k} : m[i].date \in Nat /\ m[i].created \in Nat
  BY <1>1 DEF Ordered, LedgerRow
<1> HIDE DEF x
<1>5. CASE x = k
  <2>1. \A i \in S : Before(m, i, k)
    BY <1>1, <1>2, <1>5
  <2>2. \A i \in S : l[i].date <= m[k].date
    BY <1>3, <1>4, <2>1 DEF Before
  <2> QED
    BY <1>5, <2>2 DEF x
<1>6. CASE x # k
  <2>1. x \in S
    BY <1>2, <1>6
  <2>2. Latest(l, S) \in S /\ \A j \in S \ {Latest(l, S)} : Before(l, j, Latest(l, S))
    BY <2>1, LatestIs
  <2>3. Latest(l, S) = x
    <3> SUFFICES ASSUME Latest(l, S) # x PROVE FALSE
      OBVIOUS
    <3>1. Before(l, x, Latest(l, S)) /\ Before(m, Latest(l, S), x)
      BY <1>2, <2>1, <2>2
    <3> QED
      BY <1>3, <1>4, <2>1, <2>2, <3>1 DEF Before
  <2>4. Before(m, k, x)
    BY <1>2, <1>6
  <2>5. m[x].date > m[k].date
    BY <1>3, <1>4, <2>1, <2>4 DEF Before
  <2> QED
    BY <1>3, <2>1, <2>3, <2>5 DEF x
<1> QED
  BY <1>5, <1>6

\* One more purchase: what was covered is covered still.
LEMMA MoreBought ==
    ASSUME NEW l, NEW m, NEW k, Ordered(l), Ordered(m), Extends(m, l, k),
           m[k].type = "BUY", Consistent(l)
    PROVE  Consistent(m)
PROOF
<1> DEFINE A(s) == Replay(l, s)
           B(s) == Replay(m, s \cup {k})
           T == {s \in SUBSET DOMAIN l : ~A(s).error => ~B(s).error /\ B(s).held >= A(s).held}
<1>1. DOMAIN m = DOMAIN l \cup {k} /\ k \notin DOMAIN l /\ \A i \in DOMAIN l : m[i] = l[i]
  BY DEF Extends
<1>2. \A s \in SUBSET DOMAIN l : A(s) \in Calc /\ B(s) \in Calc
  <2> SUFFICES ASSUME NEW s \in SUBSET DOMAIN l PROVE A(s) \in Calc /\ B(s) \in Calc
    OBVIOUS
  <2>1. s \cup {k} \in SUBSET DOMAIN m
    BY <1>1
  <2> QED
    BY <2>1, ReplayLast
<1>3. m[k] \in LedgerRow /\ \A i \in DOMAIN l : l[i] \in LedgerRow
  BY <1>1 DEF Ordered
<1>4. ASSUME NEW s \in SUBSET DOMAIN l, \A x \in s : s \ {x} \in T PROVE s \in T
  <2> SUFFICES ASSUME ~A(s).error PROVE ~B(s).error /\ B(s).held >= A(s).held
    OBVIOUS
  <2>1. s \cup {k} \in SUBSET DOMAIN m /\ s \in SUBSET DOMAIN m
    BY <1>1
  <2>2. B(s) = Fill(m[Latest(m, s \cup {k})], Replay(m, (s \cup {k}) \ {Latest(m, s \cup {k})}))
    BY <2>1, ReplayLast
  <2>3. CASE Latest(m, s \cup {k}) = k
    <3>1. (s \cup {k}) \ {k} = s
      BY <1>1
    <3>2. Replay(m, s) = A(s)
      BY <1>1, <2>1, ReplayOfPart DEF Agree
    <3>3. B(s) = Fill(m[k], A(s))
      BY <2>2, <2>3, <3>1, <3>2
    <3>4. A(s) \in Calc
      BY <1>2
    <3>5. B(s).error = A(s).error /\ B(s).held = A(s).held + m[k].quantity
      <4> HIDE DEF A, B
      <4> QED
        BY <1>3, <3>3, <3>4, FillType
    <3>6. m[k].quantity \in Nat /\ A(s).held \in Nat
      BY <1>3, <3>4 DEF LedgerRow, Calc
    <3> HIDE DEF A, B
    <3> QED
      BY <3>5, <3>6
  <2>4. CASE s # {} /\ Latest(m, s \cup {k}) = Latest(l, s) /\ Latest(l, s) \in s
    <3> DEFINE x == Latest(l, s)
    <3>1. (s \cup {k}) \ {x} = (s \ {x}) \cup {k}
      BY <1>1, <2>4
    <3>2. B(s) = Fill(l[x], B(s \ {x}))
      BY <1>1, <2>2, <2>4, <3>1
    <3>3. A(s) = Fill(l[x], A(s \ {x}))
      BY <2>4, ReplayLast
    <3>4. x \in s /\ s \ {x} \in T
      BY <1>4, <2>4
    <3>5. l[x] \in LedgerRow /\ A(s \ {x}) \in Calc /\ B(s \ {x}) \in Calc
      BY <1>2, <1>3, <3>4
    <3>6. ~A(s \ {x}).error => ~B(s \ {x}).error /\ B(s \ {x}).held >= A(s \ {x}).held
      BY <3>4
    <3> HIDE DEF A, B, x
    <3> DEFINE a == A(s \ {x})
               b == B(s \ {x})
               t == l[x]
    <3>7. a \in Calc /\ b \in Calc /\ t \in LedgerRow
      BY <3>5
    <3>8. B(s) = Fill(t, b) /\ A(s) = Fill(t, a)
      BY <3>2, <3>3
    <3>9. ~a.error => ~b.error /\ b.held >= a.held
      BY <3>6
    <3> HIDE DEF a, b, t
    <3>10. /\ a.error => A(s).error
           /\ t.type = "BUY" => A(s).held = a.held + t.quantity
           /\ t.type = "SELL" /\ t.quantity <= a.held => A(s).held = a.held - t.quantity
           /\ t.type = "SELL" /\ ~(t.quantity <= a.held) => A(s).error
      BY <3>7, <3>8, FillType
    <3>11. /\ t.type = "BUY" => B(s).error = b.error /\ B(s).held = b.held + t.quantity
           /\ t.type = "SELL" /\ t.quantity <= b.held
                => B(s).error = b.error /\ B(s).held = b.held - t.quantity
      BY <3>7, <3>8, FillType
    <3>12. /\ t.type \in {"BUY", "SELL"} /\ t.quantity \in Nat
           /\ a.held \in Nat /\ b.held \in Nat
      BY <3>7 DEF LedgerRow, Calc
    <3> QED
      BY <3>9, <3>10, <3>11, <3>12
  <2> QED
    BY <2>3, <2>4, LatestOfMore
<1>5. DOMAIN l \in T
  <2>1. T \in SUBSET SUBSET DOMAIN l /\ IsFiniteSet(DOMAIN l)
    BY DEF Ordered
  <2>2. {} \in T
    <3>1. \A x \in {} : {} \ {x} \in T
      OBVIOUS
    <3> QED
      BY <1>4, <3>1
  <2> HIDE DEF T
  <2>3. T = SUBSET DOMAIN l
    BY <1>4, <2>1, <2>2, SubsetInduction
  <2> QED
    BY <2>3
<1>6. ~A(DOMAIN l).error
  BY DEF Consistent
<1> QED
  BY <1>1, <1>5, <1>6 DEF Consistent

\* A covered SELL after which nothing is sold breaks nothing.
LEMMA SoldLast ==
    ASSUME NEW l, NEW m, NEW k, Ordered(l), Ordered(m), Extends(m, l, k),
           m[k].type = "SELL",
           \A i \in DOMAIN l : l[i].date > m[k].date => l[i].type = "BUY",
           m[k].quantity <= Replay(l, {i \in DOMAIN l : l[i].date <= m[k].date}).held,
           Consistent(l)
    PROVE  Consistent(m)
PROOF
<1> DEFINE D == {i \in DOMAIN l : l[i].date <= m[k].date}
           A(s) == Replay(l, s)
           B(s) == Replay(m, s \cup {k})
           T == {s \in SUBSET DOMAIN l : D \subseteq s /\ ~A(s).error => ~B(s).error}
<1>1. DOMAIN m = DOMAIN l \cup {k} /\ k \notin DOMAIN l /\ \A i \in DOMAIN l : m[i] = l[i]
  BY DEF Extends
<1>2. \A s \in SUBSET DOMAIN l : A(s) \in Calc /\ B(s) \in Calc
  <2> SUFFICES ASSUME NEW s \in SUBSET DOMAIN l PROVE A(s) \in Calc /\ B(s) \in Calc
    OBVIOUS
  <2>1. s \cup {k} \in SUBSET DOMAIN m
    BY <1>1
  <2> QED
    BY <2>1, ReplayLast
<1>3. m[k] \in LedgerRow /\ \A i \in DOMAIN l : l[i] \in LedgerRow
  BY <1>1 DEF Ordered
<1>4. ASSUME NEW s \in SUBSET DOMAIN l, \A x \in s : s \ {x} \in T PROVE s \in T
  <2> SUFFICES ASSUME D \subseteq s, ~A(s).error PROVE ~B(s).error
    OBVIOUS
  <2>1. s \cup {k} \in SUBSET DOMAIN m /\ s \in SUBSET DOMAIN m
    BY <1>1
  <2>2. B(s) = Fill(m[Latest(m, s \cup {k})], Replay(m, (s \cup {k}) \ {Latest(m, s \cup {k})}))
    BY <2>1, ReplayLast
  <2>3. CASE Latest(m, s \cup {k}) = k /\ \A i \in s : l[i].date <= m[k].date
    <3>1. (s \cup {k}) \ {k} = s
      BY <1>1
    <3>2. Replay(m, s) = A(s)
      BY <1>1, <2>1, ReplayOfPart DEF Agree
    <3>3. B(s) = Fill(m[k], A(s))
      BY <2>2, <2>3, <3>1, <3>2
    <3>4. s = D
      BY <2>3
    <3>5. m[k].quantity <= A(s).held
      BY <3>4
    <3>6. A(s) \in Calc
      BY <1>2
    <3> HIDE DEF A, B
    <3> QED
      BY <1>3, <3>3, <3>5, <3>6, FillType
  <2>4. CASE /\ s # {} /\ Latest(m, s \cup {k}) = Latest(l, s) /\ Latest(l, s) \in s
             /\ l[Latest(l, s)].date > m[k].date
    <3> DEFINE x == Latest(l, s)
    <3>1. (s \cup {k}) \ {x} = (s \ {x}) \cup {k}
      BY <1>1, <2>4
    <3>2. B(s) = Fill(l[x], B(s \ {x}))
      BY <1>1, <2>2, <2>4, <3>1
    <3>3. A(s) = Fill(l[x], A(s \ {x}))
      BY <2>4, ReplayLast
    <3>4. x \in s /\ s \ {x} \in T
      BY <1>4, <2>4
    <3>5. l[x] \in LedgerRow /\ A(s \ {x}) \in Calc /\ B(s \ {x}) \in Calc
      BY <1>2, <1>3, <3>4
    <3>6. l[x].type = "BUY" /\ D \subseteq s \ {x}
      <4>1. l[x].date \in Nat /\ m[k].date \in Nat /\ l[x].date > m[k].date
        BY <1>3, <2>4, <3>5 DEF LedgerRow
      <4>2. x \notin D
        BY <4>1
      <4> QED
        BY <2>4, <4>2
    <3>7. ~A(s \ {x}).error
      <4> HIDE DEF A, B, x
      <4> QED
        BY <3>3, <3>5, FillType
    <3>8. ~B(s \ {x}).error
      BY <3>4, <3>6, <3>7
    <3> HIDE DEF A, B, x
    <3> QED
      BY <3>2, <3>5, <3>6, <3>8, FillType
  <2> QED
    BY <2>3, <2>4, LatestOfMore
<1>5. DOMAIN l \in T
  <2>1. T \in SUBSET SUBSET DOMAIN l /\ IsFiniteSet(DOMAIN l)
    BY DEF Ordered
  <2>2. {} \in T
    <3>1. \A x \in {} : {} \ {x} \in T
      OBVIOUS
    <3> QED
      BY <1>4, <3>1
  <2> HIDE DEF T
  <2>3. T = SUBSET DOMAIN l
    BY <1>4, <2>1, <2>2, SubsetInduction
  <2> QED
    BY <2>3
<1>6. ~A(DOMAIN l).error /\ D \subseteq DOMAIN l
  BY DEF Consistent
<1> QED
  BY <1>1, <1>5, <1>6 DEF Consistent

(***************************************************************************)
(* The requests.                                                           *)
(***************************************************************************)
LedgerSteps == {"idle", "save", "validate", "commit"}
LedgerKinds == {"none", "create", "import", "update", "delete"}

RequestTyped(q, next) ==
    /\ q = [step |-> q.step, kind |-> q.kind, change |-> q.change,
            overtaken |-> q.overtaken]
    /\ q.overtaken \in BOOLEAN
    /\ IsFiniteSet(DOMAIN q.change)
    /\ \A i \in DOMAIN q.change :
         /\ i \in Nat \ {0}
         /\ i < next
         /\ q.change[i] # Deleted => q.change[i] \in LedgerRow /\ q.change[i].created < next

LedgerTyped ==
    /\ nextId \in Nat \ {0}
    /\ IsFiniteSet(DOMAIN ledger)
    /\ \A i \in DOMAIN ledger :
         /\ i \in Nat \ {0}
         /\ i < nextId
         /\ ledger[i] \in LedgerRow
         /\ ledger[i].created < nextId
    /\ client = [c \in Clients |-> client[c]]
    /\ \A c \in Clients : RequestTyped(client[c], nextId)

\* The moment t belongs to row i, committed or not.
CreatedAt(i, t) ==
    \/ i \in DOMAIN ledger /\ ledger[i].created = t
    \/ \E c \in Clients : /\ i \in DOMAIN client[c].change
                          /\ client[c].change[i] # Deleted
                          /\ client[c].change[i].created = t

\* No two rows are created at the same moment.
OneCreation == \A i, j, t : CreatedAt(i, t) /\ CreatedAt(j, t) => i = j

\* A request about to save has a row in hand; no creation waits for a check.
StepKept(q) ==
    /\ q.step \in {"save", "validate"} => q.kind # "create"
    /\ q.step = "save" => \E id \in Nat \ {0} : DOMAIN q.change = {id}
    /\ q.step = "save" /\ q.kind = "update"
         => \A i \in DOMAIN q.change : q.change[i] \in LedgerRow

\* What was validated, and not overtaken since, is still so.
Validated(q, l) ==
    q.step = "commit" /\ q.kind # "create" /\ ~q.overtaken
      => Consistent(Apply(l, q.change))

\* And so is what create_transaction has looked at.
CreatesLast(q, l) ==
    \E k \in Nat \ {0} : \E row \in Rows :
      /\ q.change = OneRow(k, Stamp(row, k))
      /\ k \notin DOMAIN l
      /\ \A i \in DOMAIN l : l[i].created < k
      /\ row.type = "SELL" => row.quantity <= HeldAt(l, row.date, 0)

Covered(q, l) ==
    q.step = "commit" /\ q.kind = "create" /\ ~q.overtaken => CreatesLast(q, l)

RequestSound(q, l) == StepKept(q) /\ Validated(q, l) /\ Covered(q, l)

LedgerInv ==
    /\ LedgerTyped
    /\ OneCreation
    /\ \A c \in Clients : RequestSound(client[c], ledger)

LEMMA StampRow ==
    ASSUME NEW row, row \in Rows \/ row \in LedgerRow, NEW t \in Nat
    PROVE  /\ Stamp(row, t) \in LedgerRow
           /\ Stamp(row, t) # Deleted
           /\ Stamp(row, t).created = t
           /\ Stamp(row, t).type = row.type
           /\ Stamp(row, t).quantity = row.quantity
           /\ Stamp(row, t).date = row.date
PROOF
<1>1. /\ row.type \in {"BUY", "SELL"} /\ row.quantity \in Nat /\ row.date \in Nat
  BY LedgerAssumption DEF Rows, LedgerRow
<1>2. Stamp(row, t).type # "none" /\ Deleted.type = "none"
  BY <1>1 DEF Stamp, Deleted
<1> QED
  BY <1>1, <1>2 DEF Stamp, LedgerRow

LEMMA ApplyIs ==
    ASSUME NEW l, NEW change
    PROVE  /\ DOMAIN Apply(l, change) =
                {i \in DOMAIN l \cup DOMAIN change : i \in DOMAIN change => change[i] # Deleted}
           /\ \A i \in DOMAIN Apply(l, change) :
                Apply(l, change)[i] = IF i \in DOMAIN change THEN change[i] ELSE l[i]
PROOF BY DEF Apply

\* A step of c moves c, and what it creates is new.
LEMMA OneCreationKept ==
    ASSUME LedgerTyped, OneCreation, nextId' \in Nat,
           NEW N, \A i, j, t : <<i, t>> \in N /\ <<j, t>> \in N => i = j,
           \A i, t : <<i, t>> \in N => t \in Nat /\ t >= nextId,
           \A i, t : CreatedAt(i, t)' => CreatedAt(i, t) \/ <<i, t>> \in N
    PROVE  OneCreation'
PROOF
<1>1. \A i, t : CreatedAt(i, t) => t \in Nat /\ t < nextId
  <2>1. \A i \in DOMAIN ledger : ledger[i].created \in Nat /\ ledger[i].created < nextId
    BY DEF LedgerTyped, LedgerRow
  <2>2. \A c \in Clients : \A i \in DOMAIN client[c].change :
          client[c].change[i] # Deleted =>
            client[c].change[i].created \in Nat /\ client[c].change[i].created < nextId
    BY DEF LedgerTyped, RequestTyped, LedgerRow
  <2> QED
    BY <2>1, <2>2 DEF CreatedAt
<1>2. nextId \in Nat
  BY DEF LedgerTyped
<1> SUFFICES ASSUME NEW i, NEW j, NEW t, CreatedAt(i, t)', CreatedAt(j, t)' PROVE i = j
  BY DEF OneCreation
<1>3. /\ CreatedAt(i, t) \/ <<i, t>> \in N
      /\ CreatedAt(j, t) \/ <<j, t>> \in N
  OBVIOUS
<1>4. CreatedAt(i, t) /\ CreatedAt(j, t) => i = j
  BY DEF OneCreation
<1> QED
  BY <1>1, <1>2, <1>3, <1>4

LEMMA LedgerStarts == LedgerInit => LedgerInv
PROOF
<1> SUFFICES ASSUME LedgerInit PROVE LedgerInv
  OBVIOUS
<1>1. DOMAIN NoChange = {} /\ IsFiniteSet({})
  BY FS_EmptySet DEF NoChange
<1>2. /\ ledger = NoChange /\ nextId = 1
      /\ \A c \in Clients : client[c] = NoMutation
      /\ client = [c \in Clients |-> client[c]]
  BY DEF LedgerInit
<1>3. RequestTyped(NoMutation, 1)
  BY <1>1 DEF RequestTyped, NoMutation
<1>4. LedgerTyped
  BY <1>1, <1>2, <1>3 DEF LedgerTyped
<1>5. OneCreation
  <2>1. \A c \in Clients : client[c].change = NoChange
    BY <1>2 DEF NoMutation
  <2>2. ASSUME NEW i, NEW t, CreatedAt(i, t) PROVE FALSE
    BY <1>1, <1>2, <2>1, <2>2 DEF CreatedAt
  <2> QED
    BY <2>2 DEF OneCreation
<1>6. RequestSound(NoMutation, ledger)
  BY DEF RequestSound, StepKept, Validated, Covered, NoMutation
<1> QED
  BY <1>2, <1>4, <1>5, <1>6 DEF LedgerInv

\* A step of one request that commits nothing.
LEMMA OneMoves ==
    ASSUME LedgerInv, NEW c \in Clients, NEW q, client' = [client EXCEPT ![c] = q],
           ledger' = ledger, nextId' \in Nat, nextId' >= nextId,
           RequestTyped(q, nextId'), RequestSound(q, ledger),
           NEW N, \A i, j, t : <<i, t>> \in N /\ <<j, t>> \in N => i = j,
           \A i, t : <<i, t>> \in N => t \in Nat /\ t >= nextId,
           \A i \in DOMAIN q.change : q.change[i] # Deleted =>
             CreatedAt(i, q.change[i].created) \/ <<i, q.change[i].created>> \in N
    PROVE  LedgerInv'
PROOF
<1>1. /\ client' = [d \in Clients |-> client'[d]]
      /\ client'[c] = q /\ \A d \in Clients \ {c} : client'[d] = client[d]
  BY DEF LedgerInv, LedgerTyped
<1>2. LedgerTyped'
  <2>1. nextId \in Nat \ {0} /\ nextId' \in Nat \ {0}
    BY DEF LedgerInv, LedgerTyped
  <2>2. ASSUME NEW d \in Clients PROVE RequestTyped(client'[d], nextId')
    <3>1. CASE d # c
      <4>1. client'[d] = client[d] /\ RequestTyped(client[d], nextId)
        BY <1>1, <3>1 DEF LedgerInv, LedgerTyped
      <4>2. \A i \in DOMAIN client[d].change :
              client[d].change[i] # Deleted => client[d].change[i].created \in Nat
        BY <4>1 DEF RequestTyped, LedgerRow
      <4>3. RequestTyped(client[d], nextId')
        BY <2>1, <4>1, <4>2 DEF RequestTyped
      <4> QED
        BY <4>1, <4>3
    <3> QED
      BY <1>1, <3>1
  <2>3. \A i \in DOMAIN ledger : ledger[i].created \in Nat
    BY DEF LedgerInv, LedgerTyped, LedgerRow
  <2> QED
    BY <1>1, <2>1, <2>2, <2>3 DEF LedgerInv, LedgerTyped
<1>3. ASSUME NEW i, NEW t, CreatedAt(i, t)' PROVE CreatedAt(i, t) \/ <<i, t>> \in N
  <2>1. CASE i \in DOMAIN ledger /\ ledger[i].created = t
    BY <2>1 DEF CreatedAt
  <2>2. CASE \E d \in Clients : /\ i \in DOMAIN client'[d].change
                                /\ client'[d].change[i] # Deleted
                                /\ client'[d].change[i].created = t
    <3>1. PICK d \in Clients : /\ i \in DOMAIN client'[d].change
                               /\ client'[d].change[i] # Deleted
                               /\ client'[d].change[i].created = t
      BY <2>2
    <3>2. CASE d = c
      BY <1>1, <3>1, <3>2
    <3>3. CASE d # c
      BY <1>1, <3>1, <3>3 DEF CreatedAt
    <3> QED
      BY <3>2, <3>3
  <2> QED
    BY <1>3, <2>1, <2>2 DEF CreatedAt, Deleted
<1>4. OneCreation'
  <2>1. LedgerTyped /\ OneCreation
    BY DEF LedgerInv
  <2> QED
    BY <1>3, <2>1, OneCreationKept
<1>5. \A d \in Clients : RequestSound(client'[d], ledger')
  BY <1>1 DEF LedgerInv
<1> QED
  BY <1>2, <1>4, <1>5 DEF LedgerInv

\* And one that creates nothing either.
LEMMA OneMovesOn ==
    ASSUME LedgerInv, NEW c \in Clients, NEW q, client' = [client EXCEPT ![c] = q],
           ledger' = ledger, nextId' = nextId,
           RequestTyped(q, nextId), RequestSound(q, ledger),
           \A i \in DOMAIN q.change : q.change[i] # Deleted =>
             CreatedAt(i, q.change[i].created)
    PROVE  LedgerInv'
PROOF
<1>1. nextId' \in Nat /\ nextId' >= nextId
  BY DEF LedgerInv, LedgerTyped
<1>2. PICK N : N = {}
  OBVIOUS
<1>3. /\ \A i, j, t : <<i, t>> \in N /\ <<j, t>> \in N => i = j
      /\ \A i, t : <<i, t>> \in N => t \in Nat /\ t >= nextId
      /\ \A i \in DOMAIN q.change : q.change[i] # Deleted =>
           CreatedAt(i, q.change[i].created) \/ <<i, q.change[i].created>> \in N
  BY <1>2
<1>4. RequestTyped(q, nextId')
  OBVIOUS
<1> QED
  BY <1>1, <1>3, <1>4, OneMoves

LEMMA CommitKeeps ==
    ASSUME LedgerInv, NEW c \in Clients, Commit(c)
    PROVE  LedgerInv'
PROOF
<1> DEFINE change == client[c].change
<1>1. /\ client[c].step = "commit"
      /\ ledger' = Apply(ledger, change)
      /\ nextId' = nextId
      /\ client' = [d \in Clients |-> client'[d]]
      /\ client'[c] = NoMutation
      /\ \A d \in Clients \ {c} :
           client'[d] = [client[d] EXCEPT !.overtaken = client[d].overtaken \/ client[d].step # "idle"]
  BY DEF Commit
<1>2. LedgerTyped /\ OneCreation /\ RequestTyped(client[c], nextId)
  BY DEF LedgerInv, LedgerTyped
<1>3. ASSUME NEW d \in Clients \ {c}
      PROVE  /\ client'[d] = [step |-> client[d].step, kind |-> client[d].kind,
                              change |-> client[d].change, overtaken |-> client'[d].overtaken]
             /\ client'[d].overtaken \in BOOLEAN
             /\ client[d].step = "commit" => client'[d].overtaken
             /\ client'[d].step = client[d].step /\ client'[d].kind = client[d].kind
             /\ client'[d].change = client[d].change
  <2>1. RequestTyped(client[d], nextId)
    BY <1>2 DEF LedgerTyped
  <2>2. PICK o \in BOOLEAN : o = (client[d].overtaken \/ client[d].step # "idle")
    BY <2>1 DEF RequestTyped
  <2>3. client'[d] = [client[d] EXCEPT !.overtaken = o]
    BY <1>1, <2>2
  <2>4. client[d] = [step |-> client[d].step, kind |-> client[d].kind,
                     change |-> client[d].change, overtaken |-> client[d].overtaken]
    BY <2>1 DEF RequestTyped
  <2>5. client'[d] = [step |-> client[d].step, kind |-> client[d].kind,
                      change |-> client[d].change, overtaken |-> o]
    BY <2>3, <2>4
  <2>6. client'[d].overtaken = o
    BY <2>5
  <2>7. client[d].step = "commit" => o
    BY <2>2
  <2>8. /\ client'[d].step = client[d].step /\ client'[d].kind = client[d].kind
        /\ client'[d].change = client[d].change
    BY <2>5
  <2> QED
    BY <2>5, <2>6, <2>7, <2>8
<1>4. /\ DOMAIN ledger' =
           {i \in DOMAIN ledger \cup DOMAIN change : i \in DOMAIN change => change[i] # Deleted}
      /\ \A i \in DOMAIN ledger' :
           ledger'[i] = IF i \in DOMAIN change THEN change[i] ELSE ledger[i]
  <2>1. /\ DOMAIN Apply(ledger, change) =
              {i \in DOMAIN ledger \cup DOMAIN change : i \in DOMAIN change => change[i] # Deleted}
        /\ \A i \in DOMAIN Apply(ledger, change) :
             Apply(ledger, change)[i] = IF i \in DOMAIN change THEN change[i] ELSE ledger[i]
    BY DEF Apply
  <2> HIDE DEF change
  <2> QED
    BY <1>1, <2>1
<1>5. LedgerTyped'
  <2>1. RequestTyped(NoMutation, nextId)
    <3>1. DOMAIN NoChange = {} /\ IsFiniteSet({})
      BY FS_EmptySet DEF NoChange
    <3> QED
      BY <3>1 DEF RequestTyped, NoMutation
  <2>2. ASSUME NEW d \in Clients PROVE RequestTyped(client'[d], nextId')
    <3>1. CASE d # c
      <4>1. RequestTyped(client[d], nextId)
        BY <1>2 DEF LedgerTyped
      <4>2. client'[d].change = client[d].change
        BY <1>3, <3>1
      <4> QED
        BY <1>1, <1>3, <3>1, <4>1, <4>2 DEF RequestTyped
    <3> QED
      BY <1>1, <2>1, <3>1
  <2>3. DOMAIN ledger' \in SUBSET (DOMAIN ledger \cup DOMAIN change)
    BY <1>4
  <2>4. IsFiniteSet(DOMAIN ledger')
    <3>1. IsFiniteSet(DOMAIN ledger \cup DOMAIN change)
      BY <1>2, FS_Union DEF LedgerTyped, RequestTyped
    <3> QED
      BY <2>3, <3>1, FS_Subset
  <2>5. ASSUME NEW i \in DOMAIN ledger'
        PROVE  /\ i \in Nat \ {0} /\ i < nextId
               /\ ledger'[i] \in LedgerRow /\ ledger'[i].created < nextId
    <3>1. CASE i \in DOMAIN change
      <4>1. change[i] # Deleted /\ ledger'[i] = change[i]
        BY <1>4, <3>1
      <4> QED
        BY <1>2, <3>1, <4>1 DEF RequestTyped
    <3>2. CASE i \notin DOMAIN change
      <4>1. i \in DOMAIN ledger /\ ledger'[i] = ledger[i]
        BY <1>4, <3>2
      <4> QED
        BY <1>2, <4>1 DEF LedgerTyped
    <3> QED
      BY <3>1, <3>2
  <2>6. nextId \in Nat \ {0}
    BY <1>2 DEF LedgerTyped
  <2> QED
    BY <1>1, <2>2, <2>4, <2>5, <2>6 DEF LedgerTyped
<1>6. ASSUME NEW i, NEW t, CreatedAt(i, t)' PROVE CreatedAt(i, t)
  <2>1. CASE i \in DOMAIN ledger' /\ ledger'[i].created = t
    <3>1. CASE i \in DOMAIN change
      <4>1. change[i] # Deleted /\ ledger'[i] = change[i]
        BY <1>4, <2>1, <3>1
      <4> QED
        BY <2>1, <3>1, <4>1 DEF CreatedAt
    <3>2. CASE i \notin DOMAIN change
      <4>1. i \in DOMAIN ledger /\ ledger'[i] = ledger[i]
        BY <1>4, <2>1, <3>2
      <4> QED
        BY <2>1, <4>1 DEF CreatedAt
    <3> QED
      BY <3>1, <3>2
  <2>2. CASE \E d \in Clients : /\ i \in DOMAIN client'[d].change
                                /\ client'[d].change[i] # Deleted
                                /\ client'[d].change[i].created = t
    <3>1. PICK d \in Clients : /\ i \in DOMAIN client'[d].change
                               /\ client'[d].change[i] # Deleted
                               /\ client'[d].change[i].created = t
      BY <2>2
    <3>2. d # c
      BY <1>1, <3>1 DEF NoMutation, NoChange
    <3>3. client'[d].change = client[d].change
      BY <1>3, <3>2
    <3> QED
      BY <3>1, <3>3 DEF CreatedAt
  <2> QED
    BY <1>6, <2>1, <2>2 DEF CreatedAt, Deleted
<1>7. OneCreation'
  BY <1>2, <1>6 DEF OneCreation
<1>8. ASSUME NEW d \in Clients PROVE RequestSound(client'[d], ledger')
  <2>1. CASE d = c
    BY <1>1, <2>1 DEF RequestSound, StepKept, Validated, Covered, NoMutation
  <2>2. CASE d # c
    <3>1. /\ client'[d].step = client[d].step /\ client'[d].kind = client[d].kind
          /\ client'[d].change = client[d].change
          /\ client[d].step = "commit" => client'[d].overtaken
      BY <1>3, <2>2
    <3>2. StepKept(client[d])
      BY DEF LedgerInv, RequestSound
    <3>3. StepKept(client'[d])
      BY <3>1, <3>2 DEF StepKept
    <3> QED
      BY <3>1, <3>3 DEF RequestSound, Validated, Covered
  <2> QED
    BY <2>1, <2>2
<1> QED
  BY <1>5, <1>7, <1>8 DEF LedgerInv

LEMMA CreateKeeps ==
    ASSUME LedgerInv, NEW c \in Clients, NEW row \in Rows, Create(c, row)
    PROVE  LedgerInv'
PROOF
<1>1. PICK k : k = nextId
  OBVIOUS
<1>2. PICK q : q = [step |-> "commit", kind |-> "create",
                    change |-> OneRow(k, Stamp(row, k)), overtaken |-> FALSE]
  OBVIOUS
<1>3. PICK N : N = {<<k, k>>}
  OBVIOUS
<1>4. /\ client' = [client EXCEPT ![c] = q]
      /\ ledger' = ledger /\ nextId' = k + 1 /\ Valid(ledger, row, 0)
  BY <1>1, <1>2 DEF Create, StepTo
<1>5. k \in Nat \ {0} /\ LedgerTyped
  BY <1>1 DEF LedgerInv, LedgerTyped
<1>6. Stamp(row, k) \in LedgerRow /\ Stamp(row, k) # Deleted /\ Stamp(row, k).created = k
  BY <1>5, StampRow
<1>7. /\ DOMAIN q.change = {k} /\ q.change[k] = Stamp(row, k)
      /\ q.change = OneRow(k, Stamp(row, k))
  BY <1>2 DEF OneRow
<1>8. RequestTyped(q, nextId')
  <2>1. IsFiniteSet({k})
    BY FS_Singleton
  <2> QED
    BY <1>2, <1>4, <1>5, <1>6, <1>7, <2>1 DEF RequestTyped
<1>9. RequestSound(q, ledger)
  <2>1. k \notin DOMAIN ledger /\ \A i \in DOMAIN ledger : ledger[i].created < k
    BY <1>1, <1>5 DEF LedgerTyped
  <2>2. row.type = "SELL" => row.quantity <= HeldAt(ledger, row.date, 0)
    BY <1>4 DEF Valid
  <2>3. CreatesLast(q, ledger)
    BY <1>5, <1>7, <2>1, <2>2 DEF CreatesLast
  <2> QED
    BY <1>2, <2>3 DEF RequestSound, StepKept, Validated, Covered
<1>10. /\ \A i, j, t : <<i, t>> \in N /\ <<j, t>> \in N => i = j
       /\ \A i, t : <<i, t>> \in N => t \in Nat /\ t >= nextId
       /\ \A i \in DOMAIN q.change : q.change[i] # Deleted =>
            CreatedAt(i, q.change[i].created) \/ <<i, q.change[i].created>> \in N
  BY <1>1, <1>3, <1>5, <1>6, <1>7
<1>11. nextId' \in Nat /\ nextId' >= nextId
  BY <1>1, <1>4, <1>5
<1> QED
  BY <1>4, <1>8, <1>9, <1>10, <1>11, OneMoves

LEMMA ImportKeeps ==
    ASSUME LedgerInv, NEW c \in Clients, NEW n \in 1..MaxImport, NEW file \in [1..n -> Rows],
           Import(c, file)
    PROVE  LedgerInv'
PROOF
<1>1. PICK k : k = nextId
  OBVIOUS
<1>2. PICK change : change = [i \in k..(k + n - 1) |-> Stamp(file[i - k + 1], i)]
  OBVIOUS
<1>3. PICK q : q = [step |-> "validate", kind |-> "import", change |-> change,
                    overtaken |-> FALSE]
  OBVIOUS
<1>4. PICK N : N = {<<i, i>> : i \in k..(k + n - 1)}
  OBVIOUS
<1>5. k \in Nat \ {0} /\ n \in Nat \ {0} /\ LedgerTyped
  BY <1>1, LedgerAssumption DEF LedgerInv, LedgerTyped
<1>6. Len(file) = n
  BY <1>5
<1>7. /\ client' = [client EXCEPT ![c] = q]
      /\ ledger' = ledger /\ nextId' = k + n
  BY <1>1, <1>2, <1>3, <1>6 DEF Import, StepTo
<1>8. /\ DOMAIN change = k..(k + n - 1)
      /\ \A i \in k..(k + n - 1) :
           i \in Nat \ {0} /\ change[i] \in LedgerRow /\ change[i].created = i
  <2>1. ASSUME NEW i \in k..(k + n - 1)
        PROVE  i \in Nat \ {0} /\ change[i] \in LedgerRow /\ change[i].created = i
    <3>1. i \in Nat \ {0} /\ i - k + 1 \in 1..n
      BY <1>5
    <3>2. PICK row \in Rows : row = file[i - k + 1]
      BY <3>1
    <3>3. change[i] = Stamp(row, i)
      BY <1>2, <3>2
    <3>4. Stamp(row, i) \in LedgerRow /\ Stamp(row, i).created = i
      BY <3>1, StampRow
    <3> QED
      BY <3>1, <3>3, <3>4
  <2> QED
    BY <1>2, <2>1
<1>9. q.change = change
  BY <1>3
<1>10. RequestTyped(q, nextId')
  <2>1. IsFiniteSet(k..(k + n - 1))
    BY <1>5, FS_Interval
  <2>2. \A i \in k..(k + n - 1) : i < k + n
    BY <1>5
  <2> QED
    BY <1>3, <1>7, <1>8, <2>1, <2>2 DEF RequestTyped
<1>11. RequestSound(q, ledger)
  BY <1>3 DEF RequestSound, StepKept, Validated, Covered
<1>12. /\ \A i, j, t : <<i, t>> \in N /\ <<j, t>> \in N => i = j
       /\ \A i, t : <<i, t>> \in N => t \in Nat /\ t >= nextId
       /\ \A i \in DOMAIN q.change : q.change[i] # Deleted =>
            CreatedAt(i, q.change[i].created) \/ <<i, q.change[i].created>> \in N
  BY <1>1, <1>4, <1>5, <1>8, <1>9
<1>13. nextId' \in Nat /\ nextId' >= nextId
  BY <1>1, <1>5, <1>7
<1> QED
  BY <1>7, <1>10, <1>11, <1>12, <1>13, OneMoves

LEMMA EditKeeps ==
    ASSUME LedgerInv, NEW c \in Clients, NEW id \in Ids,
           (\E row \in Rows : Update(c, id, row)) \/ Delete(c, id)
    PROVE  LedgerInv'
PROOF
<1>1. LedgerTyped /\ nextId \in Nat
  BY DEF LedgerInv, LedgerTyped
<1>2. CASE \E row \in Rows : Update(c, id, row)
  <2>1. PICK row \in Rows : Update(c, id, row)
    BY <1>2
  <2>2. PICK t : t = ledger[id].created
    OBVIOUS
  <2>3. PICK q : q = [step |-> "save", kind |-> "update",
                      change |-> OneRow(id, Stamp(row, t)), overtaken |-> FALSE]
    OBVIOUS
  <2>4. /\ client' = [client EXCEPT ![c] = q] /\ ledger' = ledger /\ nextId' = nextId
        /\ id \in DOMAIN ledger
    BY <2>1, <2>2, <2>3 DEF Update, StepTo
  <2>5. t \in Nat /\ t < nextId /\ id \in Nat \ {0} /\ id < nextId
    BY <1>1, <2>2, <2>4 DEF LedgerTyped, LedgerRow
  <2>6. Stamp(row, t) \in LedgerRow /\ Stamp(row, t).created = t
    BY <2>5, StampRow
  <2>7. DOMAIN q.change = {id} /\ q.change[id] = Stamp(row, t)
    BY <2>3 DEF OneRow
  <2>8. RequestTyped(q, nextId)
    <3>1. IsFiniteSet({id})
      BY FS_Singleton
    <3> QED
      BY <2>3, <2>5, <2>6, <2>7, <3>1 DEF RequestTyped
  <2>9. RequestSound(q, ledger)
    BY <2>3, <2>5, <2>6, <2>7 DEF RequestSound, StepKept, Validated, Covered
  <2>10. \A i \in DOMAIN q.change : CreatedAt(i, q.change[i].created)
    BY <2>2, <2>4, <2>6, <2>7 DEF CreatedAt
  <2> QED
    BY <2>4, <2>8, <2>9, <2>10, OneMovesOn
<1>3. CASE Delete(c, id)
  <2>1. PICK q : q = [step |-> "save", kind |-> "delete",
                      change |-> OneRow(id, Deleted), overtaken |-> FALSE]
    OBVIOUS
  <2>2. /\ client' = [client EXCEPT ![c] = q] /\ ledger' = ledger /\ nextId' = nextId
        /\ id \in DOMAIN ledger
    BY <1>3, <2>1 DEF Delete, StepTo
  <2>3. id \in Nat \ {0} /\ id < nextId
    BY <1>1, <2>2 DEF LedgerTyped
  <2>4. DOMAIN q.change = {id} /\ q.change[id] = Deleted
    BY <2>1 DEF OneRow
  <2>5. RequestTyped(q, nextId)
    <3>1. IsFiniteSet({id})
      BY FS_Singleton
    <3> QED
      BY <2>1, <2>3, <2>4, <3>1 DEF RequestTyped
  <2>6. RequestSound(q, ledger)
    BY <2>1, <2>3, <2>4 DEF RequestSound, StepKept, Validated, Covered
  <2>7. \A i \in DOMAIN q.change : q.change[i] # Deleted => CreatedAt(i, q.change[i].created)
    BY <2>4
  <2> QED
    BY <2>2, <2>5, <2>6, <2>7, OneMovesOn
<1> QED
  BY <1>2, <1>3

LEMMA SaveRowKeeps ==
    ASSUME LedgerInv, NEW c \in Clients, SaveRow(c)
    PROVE  LedgerInv'
PROOF
<1>1. /\ LedgerTyped /\ nextId \in Nat \ {0} /\ RequestTyped(client[c], nextId)
      /\ StepKept(client[c]) /\ client[c].step = "save"
  BY DEF LedgerInv, LedgerTyped, RequestSound, SaveRow
<1>2. PICK id \in Nat \ {0} : DOMAIN client[c].change = {id}
  BY <1>1 DEF StepKept
<1>3. (CHOOSE i \in DOMAIN client[c].change : TRUE) = id
  BY <1>2
<1>4. id < nextId /\ client[c].kind # "create"
  BY <1>1, <1>2 DEF RequestTyped, StepKept
<1>5. CASE client[c].kind = "update" /\ id \notin DOMAIN ledger
  <2>1. PICK k : k = nextId
    OBVIOUS
  <2>2. PICK row : row = client[c].change[id]
    OBVIOUS
  <2>3. PICK q : q = [step |-> "validate", kind |-> "update",
                      change |-> OneRow(id, Stamp(row, k)), overtaken |-> FALSE]
    OBVIOUS
  <2>4. PICK N : N = {<<id, k>>}
    OBVIOUS
  <2>5. /\ client' = [client EXCEPT ![c] = q] /\ ledger' = ledger /\ nextId' = k + 1
    BY <1>3, <1>5, <2>1, <2>2, <2>3 DEF SaveRow, StepTo
  <2>6. row \in LedgerRow /\ k \in Nat \ {0} /\ id < k
    BY <1>1, <1>2, <1>4, <1>5, <2>1, <2>2 DEF StepKept
  <2>7. Stamp(row, k) \in LedgerRow /\ Stamp(row, k).created = k
    BY <2>6, StampRow
  <2>8. DOMAIN q.change = {id} /\ q.change[id] = Stamp(row, k)
    BY <2>3 DEF OneRow
  <2>9. RequestTyped(q, nextId')
    <3>1. IsFiniteSet({id})
      BY FS_Singleton
    <3> QED
      BY <2>3, <2>5, <2>6, <2>7, <2>8, <3>1 DEF RequestTyped
  <2>10. RequestSound(q, ledger)
    BY <2>3 DEF RequestSound, StepKept, Validated, Covered
  <2>11. /\ \A i, j, t : <<i, t>> \in N /\ <<j, t>> \in N => i = j
         /\ \A i, t : <<i, t>> \in N => t \in Nat /\ t >= nextId
         /\ \A i \in DOMAIN q.change : q.change[i] # Deleted =>
              CreatedAt(i, q.change[i].created) \/ <<i, q.change[i].created>> \in N
    BY <2>1, <2>4, <2>6, <2>7, <2>8
  <2>12. nextId' \in Nat /\ nextId' >= nextId
    BY <2>1, <2>5, <2>6
  <2> QED
    BY <2>5, <2>9, <2>10, <2>11, <2>12, OneMoves
<1>6. CASE ~(client[c].kind = "update" /\ id \notin DOMAIN ledger)
  <2>1. PICK q : q = [step |-> "validate", kind |-> client[c].kind,
                      change |-> client[c].change, overtaken |-> FALSE]
    OBVIOUS
  <2>2. client' = [client EXCEPT ![c] = q] /\ ledger' = ledger /\ nextId' = nextId
    BY <1>3, <1>6, <2>1 DEF SaveRow, StepTo
  <2>3. q.change = client[c].change
    BY <2>1
  <2>4. RequestTyped(q, nextId)
    BY <1>1, <2>1, <2>3 DEF RequestTyped
  <2>5. RequestSound(q, ledger)
    BY <1>4, <2>1 DEF RequestSound, StepKept, Validated, Covered
  <2>6. \A i \in DOMAIN q.change : q.change[i] # Deleted => CreatedAt(i, q.change[i].created)
    BY <2>3 DEF CreatedAt
  <2> QED
    BY <2>2, <2>4, <2>5, <2>6, OneMovesOn
<1> QED
  BY <1>5, <1>6

LEMMA ValidateKeeps ==
    ASSUME LedgerInv, NEW c \in Clients, Validate(c)
    PROVE  LedgerInv'
PROOF
<1>1. RequestTyped(client[c], nextId) /\ StepKept(client[c]) /\ client[c].step = "validate"
  BY DEF LedgerInv, LedgerTyped, RequestSound, Validate
<1>2. PICK q : q = [step |-> "commit", kind |-> client[c].kind,
                    change |-> client[c].change, overtaken |-> FALSE]
  OBVIOUS
<1>3. /\ client' = [client EXCEPT ![c] = q] /\ ledger' = ledger /\ nextId' = nextId
      /\ Consistent(Apply(ledger, client[c].change))
  BY <1>2 DEF Validate, StepTo
<1>4. q.change = client[c].change /\ q.kind # "create"
  BY <1>1, <1>2 DEF StepKept
<1>5. RequestTyped(q, nextId)
  BY <1>1, <1>2, <1>4 DEF RequestTyped
<1>6. RequestSound(q, ledger)
  BY <1>2, <1>3, <1>4 DEF RequestSound, StepKept, Validated, Covered
<1>7. \A i \in DOMAIN q.change : q.change[i] # Deleted => CreatedAt(i, q.change[i].created)
  BY <1>4 DEF CreatedAt
<1> QED
  BY <1>3, <1>5, <1>6, <1>7, OneMovesOn

LEMMA GiveUpKeeps ==
    ASSUME LedgerInv, NEW c \in Clients, Reject(c) \/ Abort(c)
    PROVE  LedgerInv'
PROOF
<1>1. PICK q : q = NoMutation
  OBVIOUS
<1>2. client' = [client EXCEPT ![c] = q] /\ ledger' = ledger /\ nextId' = nextId
  BY <1>1 DEF Reject, Abort
<1>3. DOMAIN q.change = {} /\ IsFiniteSet({})
  BY <1>1, FS_EmptySet DEF NoMutation, NoChange
<1>4. RequestTyped(q, nextId)
  BY <1>1, <1>3 DEF RequestTyped, NoMutation
<1>5. RequestSound(q, ledger)
  BY <1>1 DEF RequestSound, StepKept, Validated, Covered, NoMutation
<1> QED
  BY <1>2, <1>3, <1>4, <1>5, OneMovesOn

LEMMA LedgerKept == LedgerInv /\ [LedgerNext]_ledgerVars => LedgerInv'
PROOF
<1> SUFFICES ASSUME LedgerInv, [LedgerNext]_ledgerVars PROVE LedgerInv'
  OBVIOUS
<1>1. CASE UNCHANGED ledgerVars
  BY <1>1 DEF ledgerVars, LedgerInv, LedgerTyped, OneCreation, CreatedAt
<1>2. CASE LedgerNext
  <2>1. PICK c \in Clients :
          \/ \E row \in Rows : Create(c, row)
          \/ \E n \in 1..MaxImport : \E file \in [1..n -> Rows] : Import(c, file)
          \/ \E id \in Ids : (\E row \in Rows : Update(c, id, row)) \/ Delete(c, id)
          \/ SaveRow(c) \/ Validate(c) \/ Reject(c) \/ Abort(c) \/ Commit(c)
    BY <1>2 DEF LedgerNext
  <2>2. CASE \E row \in Rows : Create(c, row)
    BY <2>2, CreateKeeps
  <2>3. CASE \E n \in 1..MaxImport : \E file \in [1..n -> Rows] : Import(c, file)
    BY <2>3, ImportKeeps
  <2>4. CASE \E id \in Ids : (\E row \in Rows : Update(c, id, row)) \/ Delete(c, id)
    BY <2>4, EditKeeps
  <2> QED
    BY <2>1, <2>2, <2>3, <2>4, SaveRowKeeps, ValidateKeeps, GiveUpKeeps, CommitKeeps
<1> QED
  BY <1>1, <1>2

\* What create_transaction adds to a consistent ledger, if it is no backdated
\* SELL, leaves it consistent.
LEMMA CreationConsistent ==
    ASSUME LedgerInv, NEW c \in Clients, CreatesLast(client[c], ledger),
           Consistent(ledger), ~IsBackdatedSell(ledger, client[c].change)
    PROVE  Consistent(Apply(ledger, client[c].change))
PROOF
<1>1. PICK k \in Nat \ {0}, row \in Rows :
        /\ client[c].change = OneRow(k, Stamp(row, k))
        /\ k \notin DOMAIN ledger
        /\ \A i \in DOMAIN ledger : ledger[i].created < k
        /\ row.type = "SELL" => row.quantity <= HeldAt(ledger, row.date, 0)
  BY DEF CreatesLast
<1>2. PICK change : change = client[c].change
  OBVIOUS
<1>3. PICK m : m = Apply(ledger, change)
  OBVIOUS
<1>4. /\ Stamp(row, k) \in LedgerRow /\ Stamp(row, k) # Deleted
      /\ Stamp(row, k).created = k /\ Stamp(row, k).type = row.type
      /\ Stamp(row, k).quantity = row.quantity /\ Stamp(row, k).date = row.date
  BY StampRow
<1>5. DOMAIN change = {k} /\ change[k] = Stamp(row, k)
  BY <1>1, <1>2 DEF OneRow
<1>6. /\ DOMAIN m = DOMAIN ledger \cup {k}
      /\ m[k] = Stamp(row, k) /\ \A i \in DOMAIN ledger : m[i] = ledger[i]
  <2>1. /\ DOMAIN m = {i \in DOMAIN ledger \cup DOMAIN change :
                         i \in DOMAIN change => change[i] # Deleted}
        /\ \A i \in DOMAIN m : m[i] = IF i \in DOMAIN change THEN change[i] ELSE ledger[i]
    BY <1>3 DEF Apply
  <2>2. DOMAIN m = DOMAIN ledger \cup {k}
    BY <1>4, <1>5, <2>1
  <2> QED
    BY <1>1, <1>5, <2>1, <2>2
<1>7. Ordered(ledger)
  <2>1. ASSUME NEW i \in DOMAIN ledger, NEW j \in DOMAIN ledger,
               ledger[i].created = ledger[j].created
        PROVE  i = j
    <3>1. CreatedAt(i, ledger[i].created) /\ CreatedAt(j, ledger[i].created)
      BY <2>1 DEF CreatedAt
    <3> QED
      BY <3>1 DEF LedgerInv, OneCreation
  <2> QED
    BY <2>1 DEF Ordered, LedgerInv, LedgerTyped
<1>8. Extends(m, ledger, k)
  BY <1>1, <1>4, <1>6 DEF Extends
<1>9. Ordered(m)
  <2>1. IsFiniteSet(DOMAIN m)
    BY <1>6, <1>7, FS_AddElement DEF Ordered
  <2>2. \A i \in DOMAIN ledger : ledger[i].created # k
    <3>1. \A i \in DOMAIN ledger : ledger[i].created \in Nat
      BY <1>7 DEF Ordered, LedgerRow
    <3> QED
      BY <1>1, <3>1
  <2> QED
    BY <1>4, <1>6, <1>7, <2>1, <2>2 DEF Ordered
<1>10. CASE row.type = "BUY"
  BY <1>2, <1>3, <1>4, <1>6, <1>7, <1>8, <1>9, <1>10, MoreBought
<1>11. CASE row.type = "SELL"
  <2>1. \A i \in DOMAIN ledger : ledger[i].date > row.date => ledger[i].type = "BUY"
    <3>1. ASSUME NEW i \in DOMAIN ledger, ledger[i].date > row.date PROVE ledger[i].type # "SELL"
      BY <1>2, <1>4, <1>5, <1>11, <3>1 DEF IsBackdatedSell
    <3>2. \A i \in DOMAIN ledger : ledger[i].type \in {"BUY", "SELL"}
      BY <1>7 DEF Ordered, LedgerRow
    <3> QED
      BY <3>1, <3>2
  <2>2. {i \in DOMAIN ledger : ledger[i].date <= row.date /\ i # 0}
          = {i \in DOMAIN ledger : ledger[i].date <= row.date}
    BY DEF LedgerInv, LedgerTyped
  <2>3. row.quantity <= Replay(ledger, {i \in DOMAIN ledger : ledger[i].date <= row.date}).held
    BY <1>1, <1>11, <2>2 DEF HeldAt
  <2>4. /\ m[k].type = "SELL"
        /\ \A i \in DOMAIN ledger : ledger[i].date > m[k].date => ledger[i].type = "BUY"
        /\ m[k].quantity <= Replay(ledger, {i \in DOMAIN ledger : ledger[i].date <= m[k].date}).held
    BY <1>4, <1>6, <1>11, <2>1, <2>3
  <2> QED
    BY <1>2, <1>3, <1>7, <1>8, <1>9, <2>4, SoldLast
<1> QED
  BY <1>10, <1>11 DEF Rows

\* A ledger breaks only by the creation of a backdated SELL, or by a request
\* that another one overtook between its last check and its commit; and what
\* validate_ledger_after_mutation checked, and nobody overtook, is consistent
\* whatever it found (market/services/portfolio.py).
THEOREM LedgerBreaks == LedgerSpec => BreaksOnlyUnchecked
PROOF
<1>1. ASSUME LedgerInv, [LedgerNext]_ledgerVars, NEW c \in Clients,
             client[c].step = "commit", client'[c].step = "idle", ~client[c].overtaken,
             ledger' # ledger, ~LedgerConsistent'
      PROVE  /\ client[c].kind = "create"
             /\ LedgerConsistent => IsBackdatedSell(ledger, client[c].change)
  <2>1. ledger' = Apply(ledger, client[c].change)
    <3>1. PICK d \in Clients : Commit(d)
      BY <1>1 DEF LedgerNext, ledgerVars, Create, Import, Update, Delete, SaveRow,
                  Validate, Reject, Abort
    <3>2. CASE d # c
      <4>1. client'[c] = [client[c] EXCEPT !.overtaken =
                            client[c].overtaken \/ client[c].step # "idle"]
        BY <3>1, <3>2 DEF Commit
      <4>2. client'[c].step = client[c].step
        <5>1. PICK o : o = (client[c].overtaken \/ client[c].step # "idle")
          OBVIOUS
        <5>2. client'[c] = [client[c] EXCEPT !.overtaken = o]
          BY <4>1, <5>1
        <5>3. client[c] = [step |-> client[c].step, kind |-> client[c].kind,
                           change |-> client[c].change, overtaken |-> client[c].overtaken]
          BY <1>1 DEF LedgerInv, LedgerTyped, RequestTyped
        <5> QED
          BY <5>2, <5>3
      <4> QED
        BY <1>1, <4>2
    <3> QED
      BY <3>1, <3>2 DEF Commit
  <2>2. ~Consistent(Apply(ledger, client[c].change))
    BY <1>1, <2>1 DEF LedgerConsistent
  <2>3. Validated(client[c], ledger) /\ Covered(client[c], ledger)
    BY <1>1 DEF LedgerInv, RequestSound
  <2>4. client[c].kind = "create"
    BY <1>1, <2>2, <2>3 DEF Validated
  <2>5. CreatesLast(client[c], ledger)
    BY <1>1, <2>3, <2>4 DEF Covered
  <2>6. Consistent(ledger) => IsBackdatedSell(ledger, client[c].change)
    BY <1>1, <2>2, <2>5, CreationConsistent
  <2> QED
    BY <2>4, <2>6 DEF LedgerConsistent
<1>2. LedgerInv /\ [LedgerNext]_ledgerVars
        => [\A c \in Clients :
              client[c].step = "commit" /\ client'[c].step = "idle" /\ ~client[c].overtaken
              /\ ledger' # ledger /\ ~LedgerConsistent'
              => /\ client[c].kind = "create"
                 /\ LedgerConsistent => IsBackdatedSell(ledger, client[c].change)]_ledgerVars
  BY <1>1
<1> QED
  BY <1>2, LedgerStarts, LedgerKept, PTL DEF LedgerSpec, BreaksOnlyUnchecked
=============================================================================
