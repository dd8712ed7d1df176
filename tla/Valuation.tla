------------------------------ MODULE Valuation ------------------------------
(***************************************************************************)
(* What a portfolio is worth: the weighted-average cost of its holdings,   *)
(* replayed from the ledger row by row, and the page made from them and    *)
(* from the stored quotes (market/services/portfolio.py).                  *)
(*                                                                         *)
(* Amounts are integers, a tenth of a cent each.  Decimal keeps 28 digits; *)
(* here a share of a position is rounded to Precision steps and the cost   *)
(* taken out with it to one unit, so that rounding shows.  What was read   *)
(* of the ledger comes in its order; PortfolioLedger has the requests that *)
(* change it.                                                              *)
(***************************************************************************)
EXTENDS Integers, Sequences, FiniteSets, FiniteSetsExt, Functions

CONSTANTS Shares, TradeSizes, TradePrices, TradeFees,
          MaxTrades,    \* bound: rows of the ledger
          SomeQuotes,   \* per share, what is stored about its price
          Precision     \* steps of a ratio

NoPrice == -1
BarRows == [age : Nat, synthetic : BOOLEAN, close : Nat]
QuoteRows ==
    [price : Nat \cup {NoPrice}, enabled : BOOLEAN, minutes : Nat, open : BOOLEAN, bars : Seq(BarRows)]

ASSUME ValuationAssumption ==
    /\ IsFiniteSet(Shares) /\ \A s \in Shares : SomeQuotes[s] \subseteq QuoteRows
    /\ TradeSizes \subseteq Nat \ {0} /\ TradePrices \subseteq Nat /\ TradeFees \subseteq Nat
    /\ MaxTrades \in Nat /\ Precision \in Nat \ {0}

Cent == 10
StaleDataDays == 4
LiveFreshnessMinutes == 5
RecentBarsLookbackDays == 15

VARIABLES holding,  \* HoldingCalc of each share
          flow,     \* auxiliary: what its trades brought less what they took
          trades,   \* rows replayed
          market    \* the stored quote of each share

valuationVars == <<holding, flow, trades, market>>

NoHolding == [quantity |-> 0, cost |-> 0, fees |-> 0, realized |-> 0, error |-> FALSE]

\* A quote without a price has NoPrice; bars are newest first, with their age in days.
ValuationInit ==
    /\ holding = [s \in Shares |-> NoHolding]
    /\ flow = [s \in Shares |-> 0]
    /\ trades = 0
    /\ market \in {m \in [Shares -> UNION {SomeQuotes[s] : s \in Shares}] :
                     \A s \in Shares : m[s] \in SomeQuotes[s]}

-----------------------------------------------------------------------------
(* Rounding                                                                *)

\* To the nearest, for a not negative.
Nearest(a, b) == (2 * a + b) \div (2 * b)

\* quantize_money: ROUND_HALF_UP goes away from zero.
Money(x) == IF x >= 0 THEN Cent * Nearest(x, Cent) ELSE -(Cent * Nearest(-x, Cent))

-----------------------------------------------------------------------------
(* _replay_transactions                                                    *)

Bought(h, size, price, fee) ==
    [h EXCEPT !.quantity = @ + size, !.cost = @ + size * price, !.fees = @ + fee]

\* Of the cost and of the fees, the share that is sold; all when all are sold.
Slice(amount, size, h) == Nearest(amount * Nearest(size * Precision, h.quantity), Precision)

\* Fault: the fees of what is sold stay in the basis.
SoldWithoutFees(h, size, price, fee) ==
    [h EXCEPT !.quantity = @ - size,
              !.cost = @ - Slice(h.cost, size, h),
              !.realized = @ + size * price - fee
                             - Slice(h.cost, size, h) - Slice(h.fees, size, h)]

Sold(h, size, price, fee) ==
    [h EXCEPT !.quantity = @ - size,
              !.cost = @ - Slice(h.cost, size, h),
              !.fees = @ - Slice(h.fees, size, h),
              !.realized = @ + size * price - fee
                             - Slice(h.cost, size, h) - Slice(h.fees, size, h)]

ReplayBuy(s, size, price, fee) ==
    /\ trades < MaxTrades /\ trades' = trades + 1
    /\ holding' = [holding EXCEPT ![s] = Bought(@, size, price, fee)]
    /\ flow' = [flow EXCEPT ![s] = @ - size * price - fee]
    /\ UNCHANGED market

ReplaySell(s, size, price, fee) ==
    /\ trades < MaxTrades /\ trades' = trades + 1
    /\ IF size > holding[s].quantity
         THEN holding' = [holding EXCEPT ![s].error = TRUE] /\ UNCHANGED flow
         ELSE /\ holding' = [holding EXCEPT ![s] = Sold(@, size, price, fee)]
              /\ flow' = [flow EXCEPT ![s] = @ + size * price - fee]
    /\ UNCHANGED market

ValuationNext ==
    \E s \in Shares, size \in TradeSizes, price \in TradePrices, fee \in TradeFees :
      ReplayBuy(s, size, price, fee) \/ ReplaySell(s, size, price, fee)

ValuationSpec == ValuationInit /\ [][ValuationNext]_valuationVars

-----------------------------------------------------------------------------
(* Quotes                                                                  *)

IsOpen(s) == holding[s].quantity > 0

\* The first of a share's bars, or none.
NoBar == [age |-> 0, synthetic |-> FALSE, close |-> 0]
FirstBar(s, Wanted(_)) ==
    LET at == {i \in DOMAIN market[s].bars : Wanted(market[s].bars[i])}
    IN  IF at = {} THEN NoBar ELSE market[s].bars[Min(at)]

\* bulk_recent_bars, for all the shares of a page.
IsRecent(b) == b.age \in 0..RecentBarsLookbackDays

\* quote_status, given the bar it looks at.
QuoteStatus(s, bar) ==
    LET q == market[s] IN
    IF q.price = NoPrice THEN "unavailable"
    ELSE IF ~q.enabled THEN "exchange_disabled"
    ELSE IF bar.synthetic THEN "synthetic"
    ELSE IF q.minutes \div 1440 > StaleDataDays THEN "stale"
    ELSE IF ~q.open THEN "market_closed"
    ELSE IF q.minutes <= LiveFreshnessMinutes THEN "live" ELSE "delayed"

\* On the portfolio's page, and on the share's own.
ShownInPortfolio(s) == QuoteStatus(s, FirstBar(s, IsRecent))
ShownForStock(s) == QuoteStatus(s, FirstBar(s, LAMBDA b : TRUE))

\* _previous_close: the last real close before today, or 0.
PreviousClose(s) ==
    FirstBar(s, LAMBDA b : IsRecent(b) /\ ~b.synthetic /\ b.age >= 1).close

-----------------------------------------------------------------------------
(* The page: holding_row and portfolio_summary                             *)

Price(s) == Money(market[s].price)
Priced == {s \in Shares : IsOpen(s) /\ market[s].price # NoPrice}
Basis(s) == Money(holding[s].cost + holding[s].fees)
Worth(s) == Money(Price(s) * holding[s].quantity)
Unrealized(s) == Money(Worth(s) - Basis(s))

\* Shown only when there is something to compare with.
HasToday(s) ==
    /\ s \in Priced /\ PreviousClose(s) > 0
    /\ ShownInPortfolio(s) # "exchange_disabled"
Today(s) == Money((Price(s) - PreviousClose(s)) * holding[s].quantity)

Total(Amount(_), set) == FoldFunction(+, 0, [s \in set |-> Amount(s)])
Header ==
    [basis      |-> Total(Basis, {s \in Shares : IsOpen(s)}),
     worth      |-> Total(Worth, Priced),
     unrealized |-> Money(Total(Worth, Priced) - Total(Basis, Priced)),
     realized   |-> Money(Total(LAMBDA s : holding[s].realized, Shares)),
     today      |-> Total(Today, {s \in Shares : HasToday(s)})]

\* allocation_pct, in hundredths of a percent.
Allocation(s) == Nearest(10000 * Worth(s), Header.worth)

-----------------------------------------------------------------------------

Near(a, b, n) == 2 * a - 2 * b \in -(n * Cent)..(n * Cent)

\* Profit is cash flow, whatever is lost to rounding: what the trades of a share
\* brought is its realized profit less the cost of what is held, and a closed
\* position has no cost left, "exactly 0, not a rounding-drifted near-zero"
\* (portfolio.py).  The header misses the sum of the exact figures by no more
\* than half a cent for each figure in it, and its unrealized profit is the sum
\* of the rows'; the allocations miss the whole by as little.  A share's quote is
\* called the same on the portfolio's page and on its own, unless its last bar is
\* older than the former looks back.
ProfitIsCashFlow ==
    /\ \A s \in Shares :
         /\ flow[s] = holding[s].realized - holding[s].cost - holding[s].fees
         /\ ~IsOpen(s) => holding[s].cost = 0 /\ holding[s].fees = 0
         /\ market[s].bars = <<>> \/ Head(market[s].bars).age \in 0..RecentBarsLookbackDays
              => ShownInPortfolio(s) = ShownForStock(s)
    /\ LET shown == Header
       IN  /\ shown.worth > 0 =>
                2 * Total(Allocation, Priced) - 20000 \in -Cardinality(Priced)..Cardinality(Priced)
           /\ shown.unrealized = Total(Unrealized, Priced)
           /\ Near(shown.realized + shown.worth - shown.basis,
                   Total(LAMBDA s : flow[s], Shares) + Total(Worth, Priced),
                   Cardinality(Shares) + 1)
=============================================================================
