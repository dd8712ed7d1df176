------------------------------ MODULE LiveSync ------------------------------
(***************************************************************************)
(* The live sync of quotes (autosync.py) and the intraday analysis of them *)
(* (intraday_analysis.py).  Beat triggers both every minute, a tick here,  *)
(* and both throttle themselves: the sync by what each worker process      *)
(* remembers of its own syncs, the analysis by the TaskRun rows of its own *)
(* successful runs and by Stock.updated_at.                                *)
(*                                                                         *)
(* Quotes are stamped when they are written and seen when they are         *)
(* committed; which stamp is later than the start of which run is all that *)
(* is kept of them, besides how many ticks ago things happened.            *)
(***************************************************************************)
EXTENDS Integers, FiniteSetsExt

CONSTANTS Syncers,          \* worker processes
          MarketInterval,   \* ticks, AUTO_SYNC_INTERVAL_MARKET
          OffInterval,      \* AUTO_SYNC_INTERVAL_OFF
          AnalysisInterval, \* AUTO_INTRADAY_ANALYSIS_INTERVAL
          Outages,          \* sets of exchanges that may answer
          Oldest            \* bound: what is older is as old as this

ASSUME LiveAssumption ==
    /\ {MarketInterval, OffInterval, AnalysisInterval} \subseteq Nat \ {0} /\ Oldest \in Nat
    /\ "nobody" \notin Syncers

VARIABLES marketOpen,
          feedUp,    \* exchanges that answer
          lockTaken, \* by another job
          triggered, \* beat's messages of this tick: sync, analysis
          memory,    \* of each process: ticks since its last success, if it knows
                     \* of one, or else since its last attempt
          syncing,   \* the process that syncs, or none
          late,      \* whether it began in the tick before
          step,      \* of a sync: fetching from DSE, stamped, or at the CSE
          stored,    \* whether it stored quotes of DSE
          quoteAge,  \* ticks since quotes of DSE were stored
          newer,     \* stamps later than the start of the last or the present run
          analysing, \* no, reading or ending
          lastRun,   \* ticks since the last successful run started
          unseen,    \* ticks since quotes were stored that no snapshot is of
          calm       \* history: ticks since market, DSE and lock are as they should

syncVars == <<syncing, late, step, stored, memory, quoteAge>>
runVars == <<analysing, lastRun>>
scopeVars == <<marketOpen, feedUp, lockTaken, triggered, calm>>
liveVars == <<scopeVars, syncVars, runVars, newer, unseen>>

Nobody == "nobody"
Never == -1
Blank == [succeeded |-> FALSE, age |-> Never]
OneMore(n, most) == IF n = Never \/ n = most THEN n ELSE n + 1

\* Longer than every interval.
Stale == Max({MarketInterval, OffInterval, AnalysisInterval}) + 1

LiveInit ==
    /\ marketOpen = TRUE /\ feedUp = {"DSE", "CSE"} /\ lockTaken = FALSE
    /\ triggered = {"sync", "analysis"}
    /\ memory = [w \in Syncers |-> Blank]
    /\ syncing = Nobody /\ late = FALSE /\ step = "none" /\ stored = FALSE
    /\ quoteAge = Never
    /\ newer = {} /\ analysing = "no" /\ lastRun = Never
    /\ unseen = 0 /\ calm = 0

-----------------------------------------------------------------------------
(* The sync                                                                *)

\* sync_interval_seconds
Interval == IF marketOpen THEN MarketInterval ELSE OffInterval

\* A sync is stamped some time into its tick: n ticks later its age is less than n.
Remembered(w) == memory[w].age # Never /\ memory[w].age <= Interval

\* Fault: being skipped is a success, too.
SkipStamped(w) ==
    /\ memory' = [memory EXCEPT ![w] = [succeeded |-> TRUE, age |-> 0]]
    /\ UNCHANGED <<syncing, late, step, stored, quoteAge>>

Skip(w) == UNCHANGED syncVars

\* maybe_sync, run_live_sync: the market lock is not waited for.
BeginSync(w) ==
    /\ "sync" \in triggered /\ triggered' = triggered \ {"sync"} /\ syncing # w
    /\ IF Remembered(w) \/ lockTaken \/ syncing # Nobody THEN Skip(w)
       ELSE /\ syncing' = w /\ step' = "fetching"
            /\ memory' = [memory EXCEPT ![w].age = IF memory[w].succeeded THEN @ ELSE 0]
            /\ UNCHANGED <<late, stored, quoteAge>>
    /\ UNCHANGED <<marketOpen, feedUp, lockTaken, calm, runVars, newer, unseen>>

\* Stamps that are later than the last run, and than the one under way.
Later(last, run) == {last} \cup IF analysing = "no" THEN {} ELSE {run}

\* DSE's page or bdshare has a table of quotes, one of the CSE's pages has one.
DseAnswers == "DSE" \in feedUp
CseAnswers == "CSE" \in feedUp

\* sync_dse_live, whose rows and Stock.updated_at are not visible yet.
FetchAndStamp ==
    /\ step = "fetching"
    /\ IF DseAnswers
         THEN step' = "stamped" /\ newer' = newer \cup Later("lastPending", "runPending")
         ELSE step' = "cse" /\ UNCHANGED newer
    /\ UNCHANGED <<scopeVars, syncing, late, stored, memory, quoteAge, runVars, unseen>>

\* The end of the transaction of upsert_live_quotes.
CommitQuotes ==
    /\ step = "stamped" /\ step' = "cse"
    /\ stored' = TRUE /\ quoteAge' = 0
    /\ newer' = (IF "lastPending" \in newer THEN {"last"} ELSE {})
                \cup (IF "runPending" \in newer THEN {"run"} ELSE {})
    /\ unseen' = IF unseen = 0 THEN 1 ELSE unseen
    /\ UNCHANGED <<scopeVars, syncing, late, memory, runVars>>

Over == syncing' = Nobody /\ late' = FALSE /\ step' = "none" /\ stored' = FALSE

\* sync_cse_live and the end of _run_live_sync_unlocked, in one step: rows of the
\* CSE, or rows made from those of DSE, which are stamped but no analysis reads.
\* It counts as a success when either exchange was stored, and nothing is
\* remembered when there is an error.
EndSync ==
    /\ step = "cse"
    /\ LET real == CseAnswers
           any == real \/ quoteAge # Never
       IN  /\ newer' = IF any THEN newer \cup Later("last", "run") ELSE newer
           /\ unseen' = IF real /\ unseen = 0 THEN 1 ELSE unseen
           /\ \/ UNCHANGED memory
              \/ /\ stored \/ any
                 /\ memory' = [memory EXCEPT ![syncing] = [succeeded |-> TRUE, age |-> 0]]
    /\ Over /\ UNCHANGED <<scopeVars, quoteAge, runVars>>

\* The worker is killed at the time limit, restarted or recycled; it forgets.
SyncerDies(w) ==
    /\ memory[w] # Blank
    /\ memory' = [memory EXCEPT ![w] = Blank]
    /\ IF syncing = w THEN Over ELSE UNCHANGED <<syncing, late, step, stored>>
    /\ newer' = IF syncing = w THEN newer \ {"lastPending", "runPending"} ELSE newer
    /\ calm' = 0
    /\ UNCHANGED <<marketOpen, feedUp, lockTaken, triggered, quoteAge, runVars, unseen>>

-----------------------------------------------------------------------------
(* The analysis                                                            *)

\* The interval since the start of the last successful run.
Elapsed == lastRun = Never \/ lastRun >= AnalysisInterval

\* _has_new_data_since
NewData == lastRun = Never \/ "last" \in newer

SkipAnalysis == UNCHANGED <<runVars, newer, unseen>>

\* maybe_run_intraday_analysis; its TaskRun row has just been started.
BeginAnalysis ==
    /\ "analysis" \in triggered /\ analysing = "no"
    /\ triggered' = triggered \ {"analysis"}
    /\ IF marketOpen /\ Elapsed /\ NewData
         THEN /\ analysing' = "reading"
              /\ newer' = newer \ {"run", "runPending"}
              /\ UNCHANGED <<lastRun, unseen>>
         ELSE SkipAnalysis
    /\ UNCHANGED <<marketOpen, feedUp, lockTaken, calm, syncVars>>

\* run_intraday_analysis_unlocked: what is committed now.
ReadQuotes ==
    /\ analysing = "reading" /\ analysing' = "ending" /\ unseen' = 0
    /\ UNCHANGED <<scopeVars, syncVars, lastRun, newer>>

EndAnalysis ==
    /\ analysing = "ending" /\ analysing' = "no" /\ lastRun' = 0
    /\ newer' = (IF "run" \in newer THEN {"last"} ELSE {})
                \cup (IF "runPending" \in newer THEN {"lastPending"} ELSE {})
    /\ UNCHANGED <<scopeVars, syncVars, unseen>>

\* An error or the time limit: no success is recorded.
AnalysisFails ==
    /\ analysing # "no" /\ analysing' = "no" /\ calm' = 0
    /\ newer' = newer \ {"run", "runPending"}
    /\ UNCHANGED <<marketOpen, feedUp, lockTaken, triggered, syncVars, lastRun, unseen>>

-----------------------------------------------------------------------------

\* The next minute; a task may last into it, but not into the one after.
LiveTick ==
    /\ triggered = {} /\ analysing = "no"
    /\ ~late /\ late' = (syncing # Nobody)
    /\ triggered' = {"sync", "analysis"}
    /\ \E open \in BOOLEAN, up \in Outages, taken \in BOOLEAN :
         /\ marketOpen' = open /\ feedUp' = up /\ lockTaken' = taken
         /\ taken => syncing = Nobody
         /\ calm' = IF open /\ "DSE" \in up /\ ~taken THEN OneMore(calm, Oldest) ELSE 0
    /\ memory' = [w \in Syncers |-> [memory[w] EXCEPT !.age = OneMore(@, Stale)]]
    /\ quoteAge' = OneMore(quoteAge, Oldest) /\ lastRun' = OneMore(lastRun, Stale)
    /\ unseen' = IF unseen = 0 THEN 0 ELSE OneMore(unseen, Oldest)
    /\ UNCHANGED <<syncing, step, stored, analysing, newer>>

LiveNext ==
    \/ \E w \in Syncers : BeginSync(w) \/ SyncerDies(w)
    \/ FetchAndStamp \/ CommitQuotes \/ EndSync
    \/ BeginAnalysis \/ ReadQuotes \/ EndAnalysis \/ AnalysisFails
    \/ LiveTick

LiveSpec == LiveInit /\ [][LiveNext]_liveVars

-----------------------------------------------------------------------------

\* "this staleness check is what keeps the *effective* cadence at
\* AUTO_SYNC_INTERVAL_*" (maybe_sync), whichever workers did what before: once
\* the market is open, DSE answers and no other job has the lock for long enough,
\* its quotes are old by at most the interval and three ticks: the success is
\* remembered a tick after its quotes, the next sync begins a tick late and stores
\* a tick later.  And quotes an analysis missed, committed after it started but
\* stamped before, are in the snapshots of the next but for its interval, though
\* its throttle and that of the sync know nothing of each other: the stamps of
\* the sync that stored them, or of the one after it, bring it about.
LiveDataStaysFresh ==
    calm > MarketInterval + 3 =>
      quoteAge \in 0..(MarketInterval + 3) /\ unseen <= AnalysisInterval + 2
=============================================================================
