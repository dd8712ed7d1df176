------------------------------ MODULE Backtest ------------------------------
(***************************************************************************)
(* PortfolioBacktester.run (backtest_engine.py): one fund walks over the   *)
(* days of a window.  Each day it first tries the orders that are due, at  *)
(* the open; then looks which positions must be left, and which shares     *)
(* give a signal, at the close; what it decides there becomes an order for *)
(* the share's own next session.                                           *)
(*                                                                         *)
(* A day's bars are drawn when the day begins, so nothing can depend on a  *)
(* later one, except what the code knows of the future: on which days a    *)
(* share has a bar.  Indicators are abstracted to whether the bar gives a  *)
(* signal.  Prices are whole numbers, costs whole per cents, and money is  *)
(* counted in 1/10000, which makes all of it exact.                        *)
(***************************************************************************)
EXTENDS Integers, Sequences, FiniteSetsExt, Functions

CONSTANTS Universe,         \* the universe
          LastSession,        \* the window is 1..LastSession
          MaxGaps,        \* bound: sessions a share misses, over all shares
          Bars,           \* what a session may bring: open, low, close, volume
                          \* and whether it gives a signal
          InitialCash,    \* whole units
          SizePct, MaxPositions, HoldSessions, TargetPct,
          StopPct,        \* stop_loss_pct, 0 for None
          AdversePct,     \* spread_pct + slippage_pct
          FeePct,         \* brokerage_pct + tax_pct
          LiquidityPct, MinVolume,
          EntryAttempts   \* ENTRY_RETRY_SESSIONS

ASSUME BacktestAssumption ==
    /\ {LastSession, MaxPositions, EntryAttempts} \subseteq Nat \ {0}
    /\ {MaxGaps, InitialCash, SizePct, HoldSessions, TargetPct, StopPct,
        LiquidityPct, MinVolume} \subseteq Nat
    /\ {AdversePct, FeePct} \subseteq 0..100 /\ IsFiniteSet(Universe)
    /\ Bars \subseteq [open : Nat \ {0}, low : Nat, close : Nat, volume : Nat,
                       signal : BOOLEAN]

VARIABLES sessions,  \* the days each share has a bar
          now,       \* the day
          stage,     \* what is done of it: orders, exits, signals; "over" at the end
          todo,      \* the shares the stage has still to look at
          quote,       \* today's bars
          cash,
          position,  \* what is held of each share
          pending,   \* orders in the order they were given
          kept,      \* those of them that stay for a later day
          result     \* sums over the closed positions: net, gross, costs

backtestVars == <<sessions, now, stage, todo, quote, cash, position, pending, kept, result>>

Window == 1..LastSession
NotHeld == [shares |-> 0, entry |-> 0, signal |-> 0, open |-> 0, paid |-> 0, last |-> 0]
NoBarToday == [open |-> 1, low |-> 0, close |-> 0, volume |-> 0, signal |-> FALSE]

Held == {s \in Universe : position[s].shares > 0}

\* Where a share has a session today, some bar.
BarsOf(day) == {b \in [Universe -> Bars \cup {NoBarToday}] :
                  \A s \in Universe : b[s] = NoBarToday <=> day \notin sessions[s]}

Gaps(when) == MapThenSumSet(LAMBDA s : LastSession - Cardinality(when[s]), Universe)

\* The calendar is the days on which some share has a bar.
BacktestInit ==
    /\ sessions \in {when \in [Universe -> SUBSET Window \ {{}}] :
                       UNION {when[s] : s \in Universe} = Window /\ Gaps(when) <= MaxGaps}
    /\ now = 1 /\ stage = "orders" /\ todo = {}
    /\ quote \in BarsOf(1)
    /\ cash = InitialCash * 10000
    /\ position = [s \in Universe |-> NotHeld]
    /\ pending = <<>> /\ kept = <<>>
    /\ result = [net |-> 0, gross |-> 0, costs |-> 0]

-----------------------------------------------------------------------------
(* Dates and money                                                         *)

\* _stock_next_date; LastSession + 1 stands for None.
NextSession(s, day) == Min({d \in sessions[s] : d > day} \cup {LastSession + 1})

\* Fault: a session without trades will do.
TradesIfListed(s) == now \in sessions[s]

Trades(s) == now \in sessions[s] /\ quote[s].volume > 0

OverHeld(Amount(_)) == FoldFunction(+, 0, [s \in Held |-> Amount(s)])

Equity == cash + OverHeld(LAMBDA s : position[s].shares * position[s].last * 10000)

BuyCost(shares, open) == shares * open * (100 + AdversePct) * (100 + FeePct)

Affordable(open) == cash \div (open * (100 + AdversePct) * (100 + FeePct))

\* open_position: by size, by the session's volume and by the cash.
SharesToBuy(s) ==
    LET open == quote[s].open IN
    IF quote[s].volume < MinVolume THEN 0
    ELSE Min({(Equity * SizePct) \div (open * (100 + AdversePct) * 10000),
              (quote[s].volume * LiquidityPct) \div 100,
              Affordable(open)})

Opened(s, o) ==
    LET shares == SharesToBuy(s) IN
    [shares |-> shares, entry |-> now, signal |-> o.signal, open |-> quote[s].open,
     paid |-> BuyCost(shares, quote[s].open), last |-> quote[s].close]

\* close_position; a forced close pays the fee but no spread and slippage.
Received(p, price, adverse) == p.shares * price * (100 - adverse) * (100 - FeePct)
Costs(p, price, adverse) ==
    p.shares * (p.open * (AdversePct * 100 + (100 + AdversePct) * FeePct)
                + price * (adverse * 100 + (100 - adverse) * FeePct))

Close(s, price, adverse) ==
    LET p == position[s] IN
    /\ cash' = cash + Received(p, price, adverse)
    /\ position' = [position EXCEPT ![s] = NotHeld]
    /\ result' = [net |-> result.net + Received(p, price, adverse) - p.paid,
                  gross |-> result.gross + p.shares * (price - p.open) * 10000,
                  costs |-> result.costs + Costs(p, price, adverse)]

-----------------------------------------------------------------------------
(* 1) Orders                                                               *)

Drop == pending' = Tail(pending) /\ UNCHANGED kept
Keep(o) == pending' = Tail(pending) /\ kept' = Append(kept, o)

DuringOrders == stage = "orders" /\ pending # <<>>

NotDue ==
    LET o == Head(pending) IN
    /\ DuringOrders /\ now < o.target
    /\ Keep(o)
    /\ UNCHANGED <<sessions, now, stage, todo, quote, cash, position, result>>

\* No bar or no trade: a buy is given up after some attempts, a sell never.
NotTradable ==
    LET o == Head(pending)
        next == NextSession(o.stock, now)
        tried == [o EXCEPT !.left = @ - 1]
    IN  /\ DuringOrders /\ now >= o.target
        /\ ~Trades(o.stock)
        /\ IF next <= LastSession /\ tried.left > 0 THEN Keep([tried EXCEPT !.target = next])
           ELSE IF o.side = "buy" THEN Drop ELSE Keep(tried)
        /\ UNCHANGED <<sessions, now, stage, todo, quote, cash, position, result>>

Buy ==
    LET o == Head(pending)
        p == Opened(o.stock, o)
    IN  /\ DuringOrders /\ now >= o.target
        /\ o.side = "buy" /\ Trades(o.stock)
        /\ IF p.shares > 0 /\ p.paid <= cash
             THEN position' = [position EXCEPT ![o.stock] = p] /\ cash' = cash - p.paid
             ELSE UNCHANGED <<position, cash>>
        /\ Drop
        /\ UNCHANGED <<sessions, now, stage, todo, quote, result>>

Sell ==
    LET o == Head(pending) IN
    /\ DuringOrders /\ now >= o.target
    /\ o.side = "sell" /\ Trades(o.stock)
    /\ Close(o.stock, quote[o.stock].open, AdversePct)
    /\ Drop
    /\ UNCHANGED <<sessions, now, stage, todo, quote>>

\* 2) follows: the positions with a bar today and no order to leave them.
EndOrders ==
    /\ stage = "orders" /\ pending = <<>>
    /\ pending' = kept /\ kept' = <<>>
    /\ stage' = "exits"
    /\ todo' = {s \in Held : now \in sessions[s]
                             /\ \A i \in DOMAIN kept : kept[i].stock # s \/ kept[i].side # "sell"}
    /\ UNCHANGED <<sessions, now, quote, cash, position, result>>

-----------------------------------------------------------------------------
(* 2) Exits                                                                *)

SessionsHeld(s) == Cardinality({d \in sessions[s] : position[s].entry < d /\ d <= now})

MustLeave(s) ==
    LET basis == position[s].open * (100 + AdversePct) IN
    \/ quote[s].close * 10000 >= basis * (100 + TargetPct)
    \/ StopPct > 0 /\ quote[s].low * 10000 <= basis * (100 - StopPct)
    \/ SessionsHeld(s) >= HoldSessions

\* The close is the position's price from now on.
Seen(s) == [position EXCEPT ![s].last = quote[s].close]

Hold(s) ==
    /\ stage = "exits" /\ s \in todo /\ ~MustLeave(s)
    /\ position' = Seen(s)
    /\ todo' = todo \ {s}
    /\ UNCHANGED <<sessions, now, stage, quote, cash, pending, kept, result>>

OrderExit(s) ==
    /\ stage = "exits" /\ s \in todo /\ MustLeave(s)
    /\ NextSession(s, now) <= LastSession
    /\ position' = Seen(s)
    /\ pending' = Append(pending, [stock |-> s, side |-> "sell", signal |-> now,
                                   target |-> NextSession(s, now), left |-> 10000])
    /\ todo' = todo \ {s}
    /\ UNCHANGED <<sessions, now, stage, quote, cash, kept, result>>

\* forced_close_no_further_data
LeaveAtClose(s) ==
    /\ stage = "exits" /\ s \in todo /\ MustLeave(s)
    /\ NextSession(s, now) > LastSession
    /\ Close(s, quote[s].close, 0)
    /\ todo' = todo \ {s}
    /\ UNCHANGED <<sessions, now, stage, quote, pending, kept>>

EndExits ==
    /\ stage = "exits" /\ todo = {}
    /\ stage' = "signals"
    /\ todo' = {s \in Universe : quote[s].signal}
    /\ UNCHANGED <<sessions, now, quote, cash, position, pending, kept, result>>

-----------------------------------------------------------------------------
(* 3) Signals                                                              *)

PendingBuys == {i \in DOMAIN pending : pending[i].side = "buy"}

SlotsTaken == Cardinality(Held) + Cardinality(PendingBuys)

Wanted(s) ==
    /\ s \notin Held
    /\ \A i \in PendingBuys : pending[i].stock # s
    /\ SlotsTaken < MaxPositions
    /\ NextSession(s, now) <= LastSession

OrderEntry(s) ==
    /\ stage = "signals" /\ s \in todo
    /\ todo' = todo \ {s}
    /\ pending' = IF ~Wanted(s) THEN pending
                  ELSE Append(pending, [stock |-> s, side |-> "buy", signal |-> now,
                                        target |-> NextSession(s, now), left |-> EntryAttempts])
    /\ UNCHANGED <<sessions, now, stage, quote, cash, position, kept, result>>

EndDay ==
    /\ stage = "signals" /\ todo = {} /\ now < LastSession
    /\ now' = now + 1 /\ stage' = "orders"
    /\ quote' \in BarsOf(now + 1)
    /\ UNCHANGED <<sessions, todo, cash, position, pending, kept, result>>

\* After the last day what is left is closed at its last price.
EndWindow ==
    /\ stage = "signals" /\ todo = {} /\ now = LastSession
    /\ stage' = "over" /\ todo' = Held
    /\ UNCHANGED <<sessions, now, quote, cash, position, pending, kept, result>>

CloseRest(s) ==
    /\ stage = "over" /\ s \in todo
    /\ Close(s, position[s].last, 0)
    /\ todo' = todo \ {s}
    /\ UNCHANGED <<sessions, now, stage, quote, pending, kept>>

BacktestNext ==
    \/ NotDue \/ NotTradable \/ Buy \/ Sell \/ EndOrders \/ EndExits \/ EndDay \/ EndWindow
    \/ \E s \in Universe : Hold(s) \/ OrderExit(s) \/ LeaveAtClose(s) \/ OrderEntry(s) \/ CloseRest(s)

BacktestSpec == BacktestInit /\ [][BacktestNext]_backtestVars

-----------------------------------------------------------------------------

\* "executed at the OPEN of that stock's own next trading session - never the
\* same bar the signal fired on" (backtest_engine.py): a share is bought only
\* on a later day than its signal, with no more than ENTRY_RETRY_SESSIONS of its
\* sessions in between, and sold only for an exit decided on an earlier day;
\* both in a session with trades, and a purchase within its liquidity cap.
FillIsCausal(s) ==
    LET before == position[s]
        after == position'[s]
    IN  /\ before.shares = 0 /\ after.shares > 0 =>
             /\ after.signal < now /\ quote[s].volume > 0
             /\ Cardinality({d \in sessions[s] : after.signal < d /\ d <= now}) \in 1..EntryAttempts
             /\ after.shares * 100 <= quote[s].volume * LiquidityPct
        /\ before.shares > 0 /\ after.shares = 0 =>
             Head(pending).signal < now /\ quote[s].volume > 0

FillsAreCausal == [][stage = "orders" => \A s \in Universe : FillIsCausal(s)]_backtestVars

\* No money appears or gets lost: what is in cash and was paid for open
\* positions is what the fund began with and its closed trades brought; the fund
\* is never overdrawn; and, however a position was closed, its net result is its
\* gross result less its costs ("net_pnl == gross_pnl - total_costs holds
\* exactly", close_position).
FundBalances ==
    /\ cash >= 0
    /\ cash + OverHeld(LAMBDA s : position[s].paid) = InitialCash * 10000 + result.net
    /\ result.net = result.gross - result.costs

\* However long suspensions delay what was decided: positions and orders for
\* new ones never take more than max_positions slots, no share has two orders or
\* is ordered while it is held, and a position held for hold_days sessions has
\* its exit on the way.
SlotsRespected ==
    LET orders == pending \o kept
        Leaving == {orders[i].stock : i \in {j \in DOMAIN orders : orders[j].side = "sell"}}
    IN  /\ Cardinality(Held) + Cardinality({i \in DOMAIN orders : orders[i].side = "buy"})
             <= MaxPositions
        /\ stage # "over" =>
             /\ \A i, j \in DOMAIN orders : i # j => orders[i].stock # orders[j].stock
             /\ \A i \in DOMAIN orders : orders[i].side = "sell" <=> orders[i].stock \in Held
        /\ stage = "signals" =>
             \A s \in Held : SessionsHeld(s) >= HoldSessions => s \in Leaving

\* What a backtest's result rests on: its fills could have happened, its money
\* adds up, and it held no more than it says (the three above).
ResultIsAttainable == FillsAreCausal /\ []FundBalances /\ []SlotsRespected
=============================================================================
