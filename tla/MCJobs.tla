------------------------------- MODULE MCJobs -------------------------------
(* The scheduled jobs: those that take bars, quotes, holidays, events and    *)
(* sectors from the exchanges, paper trading, the once-a-day notices, the    *)
(* day's heavy tasks, and the alerts of an outage.  What one of them writes   *)
(* no other of them here reads, so each behaviour is one scene with one.      *)
(*                                                                           *)
(* A fund of 1000 trades two shares over five days with a holiday.  "z"       *)
(* settles in three sessions and trades so thinly that a position is one     *)
(* share, which at the odd prices costs half a unit of money too many or too *)
(* few.                                                                      *)
EXTENDS PaperTrading, DailyNotices, DayPipeline, PriceBars, LiveSync, TradingCalendar,
        PublishedNotices, OutageAlerts

VARIABLE scene

MCVolume == [s \in Stocks |-> IF s \in GroupZ THEN 1 ELSE 9]

Bar(o, h, l, c) == [open |-> o, high |-> h, low |-> l, close |-> c]
PaidQuotes == {Bar(6, 8, 4, 6), Bar(0, 0, 0, 4)}
MadeUpQuotes == {Bar(5, 7, 3, 5)}
Row(n, d, r) == [name |-> n, days |-> d, readable |-> r]
NoticePages ==
    {<<>>, <<Row("eve", {3}, TRUE), Row("eid", {3, 4}, TRUE)>>,
     <<Row("eid", {4, 5, 6, 7}, TRUE), Row("bank", {8}, FALSE)>>,
     <<Row("long", {3, 4} \cup 7..19, TRUE)>>}
Meeting(p, m, r, v) == [company |-> "acme", purpose |-> p, meeting |-> m, record |-> r, venue |-> v]
DseNotices ==
    {<<Meeting("AGM", 2, 1, "hall")>>, <<Meeting("AGM", NoDate, 1, "online")>>,
     <<Meeting("AGM", 3, 1, "hall"), Meeting("EGM", 3, 1, "online")>>}
SectorPage(s, n) == [sector |-> s, names |-> n]
DseDirectories ==
    {<<>>, <<SectorPage("bank", [a |-> "A", b |-> ""]), SectorPage("fuel", [b |-> "B"])>>,
     <<SectorPage("bank", [b |-> "B"]), SectorPage("fuel", [a |-> ""])>>}

MayAnswer == {{"DSE", "CSE"}, {}}

JobsInit ==
    /\ scene \in {"paper", "notices", "day", "bars", "live", "calendar", "events",
                  "sectors", "outage"}
    /\ Init /\ NoticesInit /\ DayInit /\ LiveInit /\ OutageInit
    /\ BarsInit /\ (scene # "bars" => \A k \in DOMAIN bar : bar[k] = NoBar)
    /\ scene # "calendar" => page = <<>>
    /\ CalendarInit
    /\ scene # "events" => notice = CHOOSE n \in Notices : TRUE
    /\ EventsInit
    /\ scene # "sectors" => directory = <<>>
    /\ SectorsInit

JobsNext ==
    /\ UNCHANGED scene
    /\ \/ /\ scene = "paper" /\ Next
          /\ UNCHANGED <<noticeVars, dayVars, barVars, liveVars, calendarVars, eventVars,
                       sectorVars, outageVars>>
       \/ /\ scene = "notices" /\ NoticesNext
          /\ UNCHANGED <<vars, dayVars, barVars, liveVars, calendarVars, eventVars,
                       sectorVars, outageVars>>
       \/ /\ scene = "day" /\ DayNext
          /\ UNCHANGED <<vars, noticeVars, barVars, liveVars, calendarVars, eventVars,
                       sectorVars, outageVars>>
       \/ /\ scene = "bars" /\ BarsNext
          /\ UNCHANGED <<vars, noticeVars, dayVars, liveVars, calendarVars, eventVars,
                       sectorVars, outageVars>>
       \/ /\ scene = "live" /\ LiveNext
          /\ UNCHANGED <<vars, noticeVars, dayVars, barVars, calendarVars, eventVars,
                       sectorVars, outageVars>>
       \/ /\ scene = "calendar" /\ CalendarNext
          /\ UNCHANGED <<vars, noticeVars, dayVars, barVars, liveVars, eventVars,
                       sectorVars, outageVars>>
       \/ /\ scene = "events" /\ EventsNext
          /\ UNCHANGED <<vars, noticeVars, dayVars, barVars, liveVars, calendarVars,
                       sectorVars, outageVars>>
       \/ /\ scene = "sectors" /\ SectorsNext
          /\ UNCHANGED <<vars, noticeVars, dayVars, barVars, liveVars, calendarVars,
                       eventVars, outageVars>>
       \/ /\ scene = "outage" /\ OutageNext
          /\ UNCHANGED <<vars, noticeVars, dayVars, barVars, liveVars, calendarVars,
                       eventVars, sectorVars>>

JobsSpec ==
    JobsInit
    /\ [][JobsNext]_<<scene, vars, noticeVars, dayVars, barVars,
                      liveVars, calendarVars, eventVars, sectorVars, outageVars>>
=============================================================================
