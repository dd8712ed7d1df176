---------------------------- MODULE PaperTrading ----------------------------
(***************************************************************************)
(* The autonomous paper fund (market/services/paper_trading.py): a cycle   *)
(* credits settled proceeds, closes positions, opens new ones.  The        *)
(* scheduler runs it again and again within a session, an administrator    *)
(* forces it at any time, even when the fund is paused or the market       *)
(* closed.  A cycle is one transaction under the lock of the account row   *)
(* and changes the books as a whole or not at all.                         *)
(*                                                                         *)
(* Prices, signals and their ranking are whatever the analysis stored.     *)
(* Money is counted in the unit MONEY and rounded as _money does; prices   *)
(* are finer, PriceUnits to a unit of money (PRICE, 100 in the code).      *)
(* Every session leaves a daily bar of every share, so the bars that       *)
(* _holding_sessions counts are the sessions.  The strategy stays the same *)
(* and last_run_at, which only spaces the scheduled runs, is left out.     *)
(***************************************************************************)
EXTENDS Integers, SequencesExt

CONSTANTS Stocks, GroupZ,     \* shares; those of the Z group, which settle T+3
          MaxDay, Holidays,   \* bound: days 1..MaxDay; those without a session
          Prices, Volume,     \* last prices; shares a session may fill per stock
          InitialCash, MinCash,
          SizePct, MaxPositions, MaxHolding,
          StopPct, TakePct, FeePct, SlipPct,
          PriceUnits

ASSUME PaperAssumption ==
    /\ IsFiniteSet(Stocks) /\ GroupZ \subseteq Stocks
    /\ MaxDay \in Nat
    /\ Holidays \subseteq Nat /\ IsFiniteSet(Holidays)
    /\ Prices \subseteq Nat \ {0}
    /\ PriceUnits \in Nat \ {0}
    /\ Volume \in [Stocks -> Nat]
    /\ {InitialCash, MinCash, SizePct, MaxPositions, MaxHolding,
        StopPct, TakePct, FeePct, SlipPct} \subseteq Nat

VARIABLES day,      \* timezone.localdate()
          price,    \* Stock.last_price, 0 when there is none
          ranking,  \* the shares an entry signal stands for, best first
          exits,    \* the shares whose latest signal says SELL
          active,   \* PaperTradingAccount.is_active
          books     \* cash, open positions, unsettled proceeds, realized profit,
                    \* number of closed positions, shares bought and sold today

vars == <<day, price, ranking, exits, active, books>>

NoPosition == [quantity |-> 0, entry |-> 0, fee |-> 0, opened |-> 0, matures |-> 0]

\* An unsettled PaperCashSettlement; a share is sold at most once a day.
Settlement == [stock : Stocks, amount : Int, due : Nat]

Open(b) == {s \in Stocks : b.position[s].quantity > 0}

TypeOK ==
    /\ day \in 1..MaxDay
    /\ price \in [Stocks -> Prices \cup {0}]
    /\ Range(ranking) \subseteq Stocks
    /\ exits \subseteq Stocks
    /\ active \in BOOLEAN
    /\ books.cash \in Nat
    /\ books.position \in [Stocks -> [quantity : Nat, entry : Nat, fee : Nat,
                                      opened : Nat, matures : Nat]]
    /\ books.unsettled \subseteq Settlement
    /\ books.realized \in Int
    /\ books.closed \in Nat
    /\ books.bought \subseteq Stocks
    /\ books.sold \subseteq Stocks

Init ==
    /\ day = 1
    /\ price = [s \in Stocks |-> 0]
    /\ ranking = <<>>
    /\ exits = {}
    /\ active = TRUE
    /\ books = [cash |-> InitialCash, position |-> [s \in Stocks |-> NoPosition],
                unsettled |-> {}, realized |-> 0, closed |-> 0, bought |-> {}, sold |-> {}]

-----------------------------------------------------------------------------
(* Money and dates                                                         *)

\* ROUND_HALF_UP of n / d: half away from zero.
Rounded(n, d) == IF n >= 0 THEN (2 * n + d) \div (2 * d)
                 ELSE -((d - 2 * n) \div (2 * d))

\* A value in units of price as money.
Money(value) == Rounded(value, PriceUnits)

Fee(notional) == Rounded(notional * FeePct, 100 * PriceUnits)
BuyPrice(p) == Rounded(p * (100 + SlipPct), 100)
SellPrice(p) == Rounded(p * (100 - SlipPct), 100)

IsSession(d) == d \notin Holidays

\* The sessions after d up to e.
Sessions(d, e) == Cardinality({x \in (d + 1)..e : IsSession(x)})

\* The second session after a trade, the third for the Z group.
SettlementDate(d, s) ==
    LET n == IF s \in GroupZ THEN 3 ELSE 2
    IN  CHOOSE e \in (d + 1)..(d + n + Cardinality(Holidays)) :
          IsSession(e) /\ Sessions(d, e) = n

Total(S, Amount(_)) == FoldFunction(+, 0, [x \in S |-> Amount(x)])

\* What the fund holds: cash, holdings at market, proceeds on their way.
Equity(b) ==
    b.cash
    + Money(Total(Open(b), LAMBDA s : b.position[s].quantity
                         * (IF price[s] = 0 THEN b.position[s].entry ELSE price[s])))
    + Total(b.unsettled, LAMBDA i : i.amount)

-----------------------------------------------------------------------------
(* The cycle                                                               *)

\* Fault: proceeds are usable a day early.
DueEarly(b) == {i \in b.unsettled : i.due <= day + 1}

Due(b) == {i \in b.unsettled : i.due <= day}

\* _settle_cash
Settled(b) == [b EXCEPT !.cash = @ + Total(Due(b), LAMBDA i : i.amount),
                        !.unsettled = @ \ Due(b)]

\* One of the four reasons to close a matured position.
MustClose(s, pos) ==
    /\ price[s] # 0
    /\ day >= pos.matures
    /\ \/ s \in exits
       \/ (price[s] - pos.entry) * 100 <= -StopPct * pos.entry
       \/ (price[s] - pos.entry) * 100 >= TakePct * pos.entry
       \/ Sessions(pos.opened, day) >= MaxHolding

Notional(s, pos) == SellPrice(price[s]) * pos.quantity
Proceeds(s, pos) == Money(Notional(s, pos)) - Fee(Notional(s, pos))

\* What the position cost, in units of price.
Cost(pos) == pos.entry * pos.quantity + pos.fee * PriceUnits

\* Fault: the fee of the purchase is forgotten.
PnlWithoutFee(s, pos) == Money(Proceeds(s, pos) * PriceUnits - pos.entry * pos.quantity)

Pnl(s, pos) == Money(Proceeds(s, pos) * PriceUnits - Cost(pos))

\* _close_position for each position that must close: the proceeds are booked
\* for a later day, so no sale affects another.
Closed(b) ==
    LET out == {s \in Open(b) : MustClose(s, b.position[s])}
    IN  [b EXCEPT
          !.position = [s \in Stocks |-> IF s \in out THEN NoPosition ELSE @[s]],
          !.unsettled = @ \cup {[stock |-> s, amount |-> Proceeds(s, b.position[s]),
                                 due |-> SettlementDate(day, s)] : s \in out},
          !.realized = @ + Total(out, LAMBDA s : Pnl(s, b.position[s])),
          !.closed = @ + Cardinality(out),
          !.sold = @ \cup out]

\* _eligible_entry_signals: neither held nor traded today, and of these the best,
\* as many as positions are free.
Candidates(b) ==
    LET Eligible(s) == s \notin Open(b) \cup b.bought \cup b.sold
        Better(i) == {j \in 1..(i - 1) : Eligible(ranking[j])}
    IN  {ranking[i] : i \in {n \in DOMAIN ranking :
           /\ Eligible(ranking[n])
           /\ Cardinality(Better(n)) < MaxPositions - Cardinality(Open(b))}}

\* _open_position within a budget; nothing happens when it cannot be filled.
OpenOne(b, s, budget) ==
    LET unit == BuyPrice(price[s])
        affordable == (budget * PriceUnits * 100) \div (unit * (100 + FeePct))
        quantity == IF affordable < Volume[s] THEN affordable ELSE Volume[s]
        paid == Money(unit * quantity) + Fee(unit * quantity)
    IN  IF quantity < 1 \/ paid > b.cash THEN b
        ELSE [b EXCEPT
               !.cash = @ - paid,
               !.position[s] = [quantity |-> quantity, entry |-> unit,
                                fee |-> Fee(unit * quantity), opened |-> day,
                                matures |-> SettlementDate(day, s)],
               !.bought = @ \cup {s}]

\* The entries one after the other, each with what cash the ones before left.
Entered(b) ==
    LET budget == Rounded(Equity(b) * SizePct, 100)
        chosen == Candidates(b)
        Enter(c, s) ==
          IF s \notin chosen \/ price[s] = 0 \/ c.cash < MinCash THEN c
          ELSE OpenOne(c, s, IF budget < c.cash THEN budget ELSE c.cash)
    IN  FoldLeft(Enter, b, ranking)

\* run_autonomous_cycle: settle, close, open.
Cycled(b) == Entered(Closed(Settled(b)))

-----------------------------------------------------------------------------

\* run_paper_trading from the scheduler, within the session of a trading day.
ScheduledCycle ==
    /\ active
    /\ IsSession(day)
    /\ books' = Cycled(books)
    /\ UNCHANGED <<day, price, ranking, exits, active>>

\* ... and with force, by an administrator.
ForcedCycle ==
    /\ books' = Cycled(books)
    /\ UNCHANGED <<day, price, ranking, exits, active>>

\* paper_trading_control
StartOrPause ==
    /\ active' = ~active
    /\ UNCHANGED <<day, price, ranking, exits, books>>

\* A sync stores new prices.
NewPrice(s, p) ==
    /\ price' = [price EXCEPT ![s] = p]
    /\ UNCHANGED <<day, ranking, exits, active, books>>

\* An analysis stores new signals; no share is to be bought and sold.
NewSignals(entries, out) ==
    /\ Range(entries) \cap out = {}
    /\ ranking' = entries
    /\ exits' = out
    /\ UNCHANGED <<day, price, active, books>>

\* Midnight: bought and sold are the trades whose trade_date is today.
NextDay ==
    /\ day < MaxDay
    /\ day' = day + 1
    /\ books' = [books EXCEPT !.bought = {}, !.sold = {}]
    /\ UNCHANGED <<price, ranking, exits, active>>

Next ==
    \/ ScheduledCycle \/ ForcedCycle \/ StartOrPause \/ NextDay
    \/ \E s \in Stocks, p \in Prices : NewPrice(s, p)
    \/ \E S \in SUBSET Stocks : \E entries \in SetToSeqs(S), out \in SUBSET Stocks :
         NewSignals(entries, out)

Spec == Init /\ [][Next]_vars

-----------------------------------------------------------------------------

\* Every unit of money is in the cash, on its way, or was paid for an open
\* position: no fee, slippage, settlement or repeated run creates or loses any.
\* Only the profit of a closed position, rounded on its own and not as the
\* difference of the two payments, may be one unit above what came in.
BooksBalance ==
    books.realized - (books.cash + Total(books.unsettled, LAMBDA i : i.amount)
                      + Total(Open(books), LAMBDA s : Money(Cost(books.position[s])))
                      - InitialCash)
    \in 0..books.closed

\* What was sold pays for nothing before its settlement day, and what was bought
\* is held until its own.
SettlementRespected ==
    [][/\ \A i \in books.unsettled : i.due > day => i \in books'.unsettled
       /\ \A s \in Open(books) : day < books.position[s].matures
                                 => books'.position[s] = books.position[s]]_books
=============================================================================
