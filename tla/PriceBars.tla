------------------------------ MODULE PriceBars ------------------------------
(***************************************************************************)
(* Where a price bar comes from (dse_fetcher.py, cse_fetcher.py,           *)
(* data_quality.py, the import commands).  Live quotes, day-end histories, *)
(* demo seeds, a research file and the CSE mirror all upsert the same      *)
(* PriceHistory rows; what a write replaces goes to PriceHistoryRevision   *)
(* first.  The market write lock lets one of these jobs run at a time      *)
(* (MarketWriteLock), but all except the live upsert save row by row and   *)
(* may be killed in between.                                               *)
(*                                                                         *)
(* One share listed at both exchanges.  A price that a market really paid  *)
(* is even, one made up (demo, mirror) is odd, so that a bar shows what it *)
(* is made of.  Volumes, which travel with the close, and the ImportBatch  *)
(* rows, which only the staff page reads, are left out.                    *)
(***************************************************************************)
EXTENDS Integers, FiniteSetsExt

CONSTANTS LastDay,      \* bound: days 1..LastDay
          OpenDays,     \* days on which closure_reason is None
          Enabled,      \* enabled_exchanges()
          RealQuotes,   \* what feeds may deliver: open, high, low, close
          MadeQuotes    \* what generate_synthetic_history may deliver

ASSUME BarsAssumption ==
    /\ LastDay \in Nat \ {0}
    /\ Enabled \subseteq {"DSE", "CSE"}
    /\ \A q \in RealQuotes \cup MadeQuotes :
         /\ q \in [{"open", "high", "low", "close"} -> Nat]
         /\ \A f \in DOMAIN q : q[f] = 0 \/ (q[f] % 2 = 0 <=> q \in RealQuotes)

VARIABLES date,      \* timezone.localdate()
          bar,       \* PriceHistory by exchange and day
          last,      \* Stock.last_price by exchange, 0 for null
          revision,  \* the newest PriceHistoryRevision of the job or upsert that is
                     \* or was last at work: exchange, day, old prices and source
          job        \* the row-by-row write under way

barVars == <<date, bar, last, revision, job>>

Exchanges == {"DSE", "CSE"}
DaysSoFar == 1..date
SyntheticSources == {"cse_mirror_fallback", "synthetic_demo"}
LiveSource(x) == IF x = "DSE" THEN "dse_live" ELSE "cse_live"
HistorySource(x) == IF x = "DSE" THEN "dse_history" ELSE "cse_history"

NoBar == [open |-> 0, high |-> 0, low |-> 0, close |-> 0, source |-> "none"]
NoJob == [kind |-> "none", on |-> "none", source |-> "none", todo |-> <<>>, day |-> 0,
          next |-> NoBar, newest |-> 0, newestClose |-> 0]

Exists(b) == b.source # "none"
PricesOf(b) == <<b.open, b.high, b.low, b.close>>
NoRevision == <<"none", 0, PricesOf(NoBar), "none">>
Tagged(q, source) ==
    [open |-> q.open, high |-> q.high, low |-> q.low, close |-> q.close, source |-> source]

\* Rows from before provenance was tracked have an unknown source.
BarsInit ==
    /\ date = 1
    /\ bar \in {[x \in Exchanges, d \in 1..LastDay |->
                   IF x = "DSE" /\ d = 1 THEN b ELSE NoBar] :
                 b \in {NoBar} \cup {Tagged(q, "unknown") : q \in RealQuotes}}
    /\ last = [x \in Exchanges |-> 0]
    /\ revision = NoRevision
    /\ job = NoJob

-----------------------------------------------------------------------------
(* Live quotes                                                             *)

Or(a, b) == IF a # 0 THEN a ELSE b

\* A feed may leave everything but the traded price (and even that) empty.
Quoted(q) == [q EXCEPT !.open = Or(@, q.close), !.high = Or(@, q.close), !.low = Or(@, q.close)]

\* An existing bar keeps its open and widens its range; a new one takes the quote.
WithQuote(b, q) ==
    IF Exists(b)
      THEN [open |-> Or(b.open, q.open),
            high |-> Max({Or(b.high, q.close), q.high, q.close}),
            low |-> Min({Or(b.low, q.close), q.low, q.close}),
            close |-> q.close]
      ELSE [open |-> q.open, high |-> Max({q.high, q.close}),
            low |-> Min({q.low, q.close}), close |-> q.close]

\* Fault: only a new close counts as a change.
ChangesClose(b, q) == b.close # q.close

\* _materially_different
Changes(b, q) == <<q.open, q.high, q.low, q.close>> # PricesOf(b)

\* snapshot_revision_if_changed
Snapshot(x, d, q) ==
    IF Exists(bar[<<x, d>>]) /\ Changes(bar[<<x, d>>], q)
      THEN <<x, d, PricesOf(bar[<<x, d>>]), bar[<<x, d>>].source>> ELSE NoRevision

\* sync_dse_live and the first half of sync_cse_live: upsert_live_quotes is one
\* transaction.  On a closed day, or without a price, only the share is updated.
SyncLive(x, quote) ==
    LET q == Quoted(quote)
        merged == WithQuote(bar[<<x, date>>], q)
        writes == q.close > 0 /\ date \in OpenDays
    IN  /\ job.kind = "none"
        /\ x \in Enabled
        /\ last' = [last EXCEPT ![x] = q.close]
        /\ revision' = IF writes THEN Snapshot(x, date, merged) ELSE NoRevision
        /\ bar' = IF writes THEN [bar EXCEPT ![<<x, date>>] = Tagged(merged, LiveSource(x))]
                  ELSE bar
        /\ UNCHANGED <<date, job>>

\* The price sync_cse_live makes up from DSE's.
Mirrored(p) ==
    LET m == IF p % 2 = 0 THEN p - 1 ELSE p
    IN  [open |-> m, high |-> m + 2, low |-> m - 2, close |-> m]

\* Without a CSE feed the share mirrors DSE.
StartMirror ==
    LET price == IF last["DSE"] = 0 THEN 0 ELSE Mirrored(last["DSE"]).close IN
    /\ job.kind = "none" /\ "CSE" \in Enabled
    /\ last' = [last EXCEPT !["CSE"] = price]
    /\ job' = [NoJob EXCEPT !.kind = "mirror", !.on = "CSE", !.source = "cse_mirror_fallback",
                            !.todo = IF price > 0 /\ date \in OpenDays
                                       THEN [d \in {date} |-> Mirrored(last["DSE"])]
                                       ELSE <<>>]
    /\ revision' = NoRevision
    /\ UNCHANGED <<date, bar>>

-----------------------------------------------------------------------------
(* Histories, demo seed and research file                                  *)

\* sync_dse_history and sync_cse_history save the rows they got, oldest first.
StartHistory(x, rows) ==
    /\ job.kind = "none" /\ x \in Enabled
    /\ job' = [NoJob EXCEPT !.kind = "history", !.on = x, !.source = HistorySource(x),
                            !.todo = rows]
    /\ revision' = NoRevision
    /\ UNCHANGED <<date, bar, last>>

\* seed_demo_universe
StartDemo(x, rows) ==
    /\ job.kind = "none"
    /\ job' = [NoJob EXCEPT !.kind = "demo", !.on = x, !.source = "synthetic_demo",
                            !.todo = rows]
    /\ revision' = NoRevision
    /\ UNCHANGED <<date, bar, last>>

\* blocks_synthetic_overwrite
Blocks(b, source) ==
    /\ Exists(b) /\ source \in SyntheticSources
    /\ b.source \notin SyntheticSources \cup {"unknown"}

\* Today's bar keeps its close and its source and only widens its range.
MergedToday(b, q) ==
    [b EXCEPT !.open = Or(b.open, q.open),
              !.high = Max({b.high, q.high, b.close}),
              !.low = Min({p \in {b.low, q.low, b.close} : p > 0})]

\* The row a job is about to write for a day.
Target(d) ==
    LET b == bar[<<job.on, d>>]
        q == job.todo[d]
    IN  IF job.kind # "mirror" /\ d = date /\ Exists(b) THEN MergedToday(b, q)
        ELSE Tagged(q, job.source)

Without(rows, d) == [e \in DOMAIN rows \ {d} |-> rows[e]]

\* Look the row up and record what it was, or pass over it.  The mirror does not
\* ask blocks_synthetic_overwrite.
SnapshotRow ==
    LET d == Min(DOMAIN job.todo) IN
    /\ job.kind # "none" /\ job.day = 0 /\ DOMAIN job.todo # {}
    /\ IF job.kind # "mirror" /\ Blocks(bar[<<job.on, d>>], job.source)
         THEN /\ job' = [job EXCEPT !.todo = Without(@, d)]
              /\ UNCHANGED revision
         ELSE /\ job' = [job EXCEPT !.day = d, !.next = Target(d)]
              /\ revision' = Snapshot(job.on, d, Target(d))
    /\ UNCHANGED <<date, bar, last>>

\* The row itself; a history remembers the newest one for the share.
SaveRow ==
    LET d == job.day IN
    /\ job.kind # "none" /\ d # 0
    /\ bar' = [bar EXCEPT ![<<job.on, d>>] = job.next]
    /\ job' = [job EXCEPT !.todo = Without(@, d), !.day = 0, !.next = NoBar,
                          !.newest = d, !.newestClose = job.todo[d].close]
    /\ UNCHANGED <<date, last, revision>>

\* The end of save_history: the newest close becomes the share's price when it
\* is today's or there is none.
EndJob ==
    /\ job.kind # "none" /\ job.day = 0 /\ DOMAIN job.todo = {}
    /\ last' = IF job.kind # "mirror" /\ job.newest # 0
                    /\ (job.newest = date \/ last[job.on] = 0)
                 THEN [last EXCEPT ![job.on] = job.newestClose] ELSE last
    /\ job' = NoJob
    /\ revision' = NoRevision
    /\ UNCHANGED <<date, bar>>

\* A statement fails or the process is killed: nothing is rolled back.
JobBreaksOff ==
    /\ job.kind # "none"
    /\ job' = NoJob
    /\ revision' = NoRevision
    /\ UNCHANGED <<date, bar, last>>

\* import_dse_research_history: bulk_create(ignore_conflicts=True).
ImportResearch(rows) ==
    /\ job.kind = "none"
    /\ bar' = [k \in DOMAIN bar |->
                 IF k[1] = "DSE" /\ k[2] \in DOMAIN rows /\ ~Exists(bar[k])
                   THEN Tagged(rows[k[2]], "dse_research_backfill") ELSE bar[k]]
    /\ revision' = NoRevision
    /\ UNCHANGED <<date, last, job>>

Tomorrow ==
    /\ date < LastDay
    /\ date' = date + 1
    /\ UNCHANGED <<bar, last, revision, job>>

\* The same bar on every day delivered.
Rows(quotes) ==
    {[d \in S |-> q] : S \in SUBSET DaysSoFar, q \in quotes}

BarsNext ==
    \/ \E x \in Exchanges :
         \/ \E q \in RealQuotes : SyncLive(x, q)
         \/ \E rows \in Rows({q \in RealQuotes : q.low > 0}) : StartHistory(x, rows)
         \/ \E rows \in Rows(MadeQuotes) : StartDemo(x, rows)
    \/ \E rows \in Rows({q \in RealQuotes : q.low > 0}) : ImportResearch(rows)
    \/ StartMirror
    \/ SnapshotRow \/ SaveRow \/ EndJob \/ JobBreaksOff \/ Tomorrow

BarsSpec == BarsInit /\ [][BarsNext]_barVars

-----------------------------------------------------------------------------

ConfirmedReal(b) == Exists(b) /\ b.source \notin SyntheticSources \cup {"unknown"}

\* "an overwrite is never a silent loss" (README.md, Data provenance): whatever
\* changes the prices of a bar, however it is interrupted, what they were is in
\* the newest revision by then.
OverwritesRecorded ==
    [][\A k \in DOMAIN bar :
         (Exists(bar[k]) /\ PricesOf(bar'[k]) # PricesOf(bar[k]))
         => revision' = <<k[1], k[2], PricesOf(bar[k]), bar[k].source>>]_barVars

\* "synthetic/demo/mirror-fallback data is excluded" from analysis, training and
\* backtests by default (README.md, Demo isolation): a bar that .live() lets
\* through as a confirmed real one has no made-up price in it.
LiveBarsAreReal ==
    \A k \in DOMAIN bar :
      ConfirmedReal(bar[k]) =>
        \A p \in {bar[k].open, bar[k].high, bar[k].low, bar[k].close} : p % 2 = 0
=============================================================================
