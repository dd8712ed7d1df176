--------------------------- MODULE TradingCalendar ---------------------------
(***************************************************************************)
(* The days without a session: the MarketHoliday table, the sync that      *)
(* fills it from the exchange's own page (market/services/holiday_sync.py) *)
(* and what relies on it: the status on the pages (market_hours.py), the   *)
(* live quotes, which are not stored as a bar on such a day, and the       *)
(* target of a forecast.  The exchange may move a holiday up to its eve    *)
(* ("date might shift with moon sighting"), while the table is read from   *)
(* the page on the last day of a month, or by hand.                        *)
(*                                                                         *)
(* Days are numbers, 0 is a Sunday; one forecast is followed.              *)
(***************************************************************************)
EXTENDS Integers, Sequences, FiniteSets, FiniteSetsExt

CONSTANTS CalendarDays,  \* bound: the days are 0..CalendarDays
          HolidayPages,  \* what the page may say, sequences of rows
          MaxRevisions   \* bound: changes of the page and by an administrator

VARIABLES sessionDay, hour,
          page,      \* the exchange's; it is right about the present day
          holiday,   \* MarketHoliday: the name of a date
          barToday,  \* what is stored as sessionDay's bar
          due,       \* the forecast
          revised,   \* auxiliary: how many changes there were
          upToDate,  \* auxiliary: a sync has read all of this page, nothing was deleted since
          trusted    \* auxiliary: table and page agreed on the forecast's days

calendarVars == <<sessionDay, hour, page, holiday, barToday, due, revised, upToDate, trusted>>

Hours == {"before", "session", "after"}
NoForecastYet == [asOf |-> -1, target |-> -1, bar |-> "none", settled |-> FALSE, blind |-> FALSE]

CalendarInit ==
    /\ sessionDay = 0 /\ hour = "before"
    /\ page \in HolidayPages /\ holiday = <<>>
    /\ barToday = "none" /\ due = NoForecastYet
    /\ revised = 0 /\ upToDate = FALSE /\ trusted = TRUE

-----------------------------------------------------------------------------
(* trading_calendar                                                        *)

\* TRADING_WEEKDAYS: Sunday to Thursday
IsWeekend(d) == d % 7 \in {5, 6}

\* closure_reason
NoTrading(d) == IsWeekend(d) \/ d \in DOMAIN holiday

LookAhead == 15

\* Fault: holidays are not looked up.
NextTradingDayOfWeek(d) == Min({e \in (d + 1)..(d + LookAhead) : ~IsWeekend(e)})

\* next_trading_day and _next_trading_date
NextTradingDay(d) ==
    LET open == {e \in (d + 1)..(d + LookAhead) : ~NoTrading(e)}
    IN  IF open = {} THEN d + 2 ELSE Min(open)

\* What the exchange does.
Shut(d) == IsWeekend(d) \/ \E i \in DOMAIN page : d \in page[i].days

-----------------------------------------------------------------------------
(* market_hours.session_status                                             *)

IsOpen(d, h) == ~NoTrading(d) /\ h = "session"

\* next_event, and when
NextEvent(d, h) ==
    IF IsOpen(d, h) THEN [event |-> "closes", day |-> d, hour |-> "after"]
    ELSE [event |-> "opens", hour |-> "session",
          day |-> IF ~NoTrading(d) /\ h = "before" THEN d ELSE NextTradingDay(d)]

-----------------------------------------------------------------------------
(* sync_holiday_calendar                                                   *)

\* Rows whose date cell is not understood are skipped.
Entries == {i \in DOMAIN page : page[i].readable}
Listed == {d \in UNION {page[i].days : i \in Entries} : ~IsWeekend(d)}
\* setdefault: of several rows of a date the first one names it.
NameOf(d) == page[Min({i \in Entries : d \in page[i].days})].name

\* The page cannot be read, nothing on it is understood, or the time limit ends
\* the task before the last of the dates, which are written one by one.
SyncHolidays ==
    \E written \in {{}, Listed, {d \in Listed : \E e \in Listed : e > d}} :
      /\ holiday' = [d \in DOMAIN holiday \cup written |->
                       IF d \in written THEN NameOf(d) ELSE holiday[d]]
      /\ upToDate' = (upToDate \/ (Entries # {} /\ written = Listed))
      /\ UNCHANGED <<sessionDay, hour, page, barToday, due, revised>>

\* MarketHolidayAdmin
EnterHoliday(d) ==
    /\ d \notin DOMAIN holiday /\ revised < MaxRevisions /\ revised' = revised + 1
    /\ holiday' = [e \in DOMAIN holiday \cup {d} |-> IF e = d THEN "by hand" ELSE holiday[e]]
    /\ UNCHANGED <<sessionDay, hour, page, barToday, due, upToDate>>

DeleteHoliday(d) ==
    /\ revised < MaxRevisions /\ revised' = revised + 1
    /\ holiday' = [e \in DOMAIN holiday \ {d} |-> holiday[e]]
    /\ upToDate' = FALSE
    /\ UNCHANGED <<sessionDay, hour, page, barToday, due>>

\* What has been is not revised.
Revise(p) ==
    /\ p # page /\ revised < MaxRevisions /\ revised' = revised + 1
    /\ LET days == UNION {p[i].days : i \in DOMAIN p}
       IN  \A d \in 0..sessionDay : ~IsWeekend(d) => (d \in days <=> Shut(d))
    /\ page' = p /\ upToDate' = FALSE
    /\ UNCHANGED <<sessionDay, hour, holiday, barToday, due>>

-----------------------------------------------------------------------------
(* Bars and forecasts                                                      *)

\* upsert_live_quotes: until there are trades, the quotes are the last close.
LiveQuotes ==
    /\ ~NoTrading(sessionDay)
    /\ barToday' = IF ~Shut(sessionDay) /\ hour # "before" THEN "traded" ELSE "copied"
    /\ UNCHANGED <<sessionDay, hour, page, holiday, due, revised, upToDate>>

\* close_learn_settlement, after the close: first what is due is settled, ...
SettleTarget ==
    /\ hour = "after" /\ due # NoForecastYet /\ ~due.settled /\ due.target <= sessionDay
    /\ LET bar == IF due.target = sessionDay THEN barToday ELSE due.bar
       IN  bar # "none" /\ due' = [due EXCEPT !.settled = TRUE, !.bar = bar]
    /\ UNCHANGED <<sessionDay, hour, page, holiday, barToday, revised, upToDate>>

\* ... then the next is made, from the calendar as it is now.
ForecastNext ==
    /\ hour = "after" /\ due = NoForecastYet
    /\ due' = [NoForecastYet EXCEPT !.asOf = sessionDay, !.target = NextTradingDay(sessionDay),
                 !.blind = \A d \in (sessionDay + 1)..(sessionDay + LookAhead) : NoTrading(d)]
    /\ UNCHANGED <<sessionDay, hour, page, holiday, barToday, revised, upToDate>>

CalendarMoves ==
    /\ IF hour # "after"
         THEN /\ hour' = IF hour = "before" THEN "session" ELSE "after"
              /\ UNCHANGED <<sessionDay, barToday, due>>
         ELSE /\ sessionDay < CalendarDays /\ sessionDay' = sessionDay + 1 /\ hour' = "before"
              /\ barToday' = "none"
              /\ due' = IF due.target = sessionDay /\ ~due.settled
                          THEN [due EXCEPT !.bar = barToday] ELSE due
    /\ UNCHANGED <<page, holiday, revised, upToDate>>

\* From the day it was made to its target.
Agreed ==
    \A d \in (due.asOf + 1)..due.target : ~IsWeekend(d) => (d \in DOMAIN holiday <=> Shut(d))

CalendarNext ==
    /\ \/ SyncHolidays \/ LiveQuotes \/ SettleTarget \/ ForecastNext \/ CalendarMoves
       \/ \E d \in sessionDay..CalendarDays : EnterHoliday(d)
       \/ \E d \in DOMAIN holiday : DeleteHoliday(d)
       \/ \E p \in HolidayPages : Revise(p)
    /\ trusted' = (trusted /\ Agreed')

CalendarSpec == CalendarInit /\ [][CalendarNext]_calendarVars
-----------------------------------------------------------------------------

Moment(d, h) == 3 * d + (CASE h = "before" -> 0 [] h = "session" -> 1 [] h = "after" -> 2)

\* A complete sync knows every closure that was announced, whatever runs were cut
\* short before.  What the pages say happens next is the first change there is,
\* unless the exchange is closed for longer than is looked ahead.  And while
\* table and exchange agree on the days up to a forecast's target, the target is
\* the first session after it was made, whatever was announced or entered since.
CalendarServes ==
    LET next == NextEvent(sessionDay, hour)
        soon == \E d \in (sessionDay + 1)..(sessionDay + LookAhead) : ~NoTrading(d)
    IN  /\ upToDate => \A d \in DOMAIN page : ~page[d].readable \/
                         \A e \in page[d].days : NoTrading(e)
        /\ soon => /\ IsOpen(next.day, next.hour) # IsOpen(sessionDay, hour)
                   /\ \A d \in sessionDay..next.day, h \in Hours :
                        Moment(d, h) \in Moment(sessionDay, hour)..(Moment(next.day, next.hour) - 1)
                          => (IsOpen(d, h) <=> IsOpen(sessionDay, hour))
        /\ trusted /\ due # NoForecastYet /\ ~due.blind =>
             ~Shut(due.target) /\ \A d \in (due.asOf + 1)..(due.target - 1) : Shut(d)
=============================================================================
