---------------------------- MODULE OutageAlerts ----------------------------
(***************************************************************************)
(* How an outage of the quote providers comes to be told: the runs that    *)
(* sync_live_market and append_daily_bars record, whether they count as    *)
(* successes, and the scan that sends what is wrong to the administrator   *)
(* (send_ops_alerts_to_admin over evaluate_alerts).  It composes the       *)
(* throttling of the syncs, the health row of TaskHealth and the scan.     *)
(*                                                                         *)
(* Time goes in beats of a minute.  A scan is one step here; TaskHealth is *)
(* about what may happen within one.                                       *)
(***************************************************************************)
EXTENDS Integers

CONSTANTS Processes,     \* of celery-worker-light
          SyncInterval,  \* beats, AUTO_SYNC_INTERVAL_MARKET
          SlowInterval,  \* beats, AUTO_SYNC_INTERVAL_OFF
          CloseAt,       \* beat, the end of market hours
          ScanEvery,     \* beats between two scans
          AlertCooldown, \* beats, TELEGRAM_OPS_ALERT_COOLDOWN_MINUTES
          AbsentAfter,   \* beats, WORKER_ABSENCE_MINUTES
          FailureStreak, \* failures in a row that make a task unhealthy
          AppendAt,      \* beats at which append_daily_bars is due
          SettledBy,     \* beat, DAILY_APPEND_SETTLEMENT_HOUR
          LastBeat,      \* bound: the day
          MaxSwitches,  \* bound: providers that go down or come back
          MaxMishaps     \* bound: recycled processes, lost messages, stops of beat

ASSUME OutageAssumption ==
    /\ {SyncInterval, SlowInterval, CloseAt} \subseteq Nat
    /\ {ScanEvery, AlertCooldown, AbsentAfter, FailureStreak, SettledBy} \subseteq Nat \ {0}

VARIABLES answering,  \* providers that answer
          knows,      \* of each process: beats since its last success, or attempt
          latest,     \* status of the last run of sync_live_market
          silentFor,      \* beats since one started
          syncHealth, \* its TaskHealth row
          append,     \* status of the day's last run of append_daily_bars
          appended,   \* one of the day's runs is recorded as a success
          notified,   \* beats since an Alert row of a key, none is LongAgo
          beat, dueNow, switches, opsMishaps,
          paged,      \* history: the last word on the sync's health
          outage      \* history: beats of total outage, for processes that
                      \* remember a success

outageVars == <<answering, knows, latest, silentFor, syncHealth, append, appended,
                notified, beat, dueNow, switches, opsMishaps, paged, outage>>

Providers == {"DSE", "CSE"}
AlertKeys == {"silent append", "missing append", "worker absent"}
UpTo(n, most) == IF n > most THEN most ELSE n
\* Longer ago than anything asks.
Forgot == 1 + IF SyncInterval > SlowInterval THEN SyncInterval ELSE SlowInterval
LongAgo == AlertCooldown + ScanEvery
NothingKnown == [succeeded |-> FALSE, age |-> Forgot]

Health == INSTANCE TaskHealth WITH
            Runners <- Processes, Threshold <- FailureStreak, SenderMayDie <- FALSE,
            healthRow <- syncHealth, updater <- knows, sender <- knows, told <- paged

DueAt(b) == {"sync"} \cup (IF b % ScanEvery = 0 THEN {"scan"} ELSE {})
                     \cup (IF b \in AppendAt THEN {"append"} ELSE {})

OutageInit ==
    /\ answering = Providers /\ knows = [p \in Processes |-> NothingKnown]
    /\ latest = "none" /\ silentFor = 0 /\ syncHealth = Health!NewRow
    /\ append = "none" /\ appended = FALSE
    /\ notified = [k \in AlertKeys |-> LongAgo]
    /\ beat = 1 /\ dueNow = DueAt(1) /\ switches = 0 /\ opsMishaps = 0
    /\ paged = "nothing" /\ outage = 0

-----------------------------------------------------------------------------

\* _status_for_result: one child that is not ok makes a failure of the sync, and
\* the append looks at "live" alone, which is ok when a provider answered.
SyncStatus == IF answering = Providers THEN "success" ELSE "failure"
AppendStatus == IF answering = {} THEN "failure"
                ELSE IF answering = Providers THEN "success" ELSE "silent"

\* Fault: a failed attempt throttles the next sync, whatever came before.
KnowsAfterAnyRun(p) ==
    [knows EXCEPT ![p] = [succeeded |-> @.succeeded \/ answering # {}, age |-> 0]]

\* last_success, or last_attempt where there is none.
KnowsAfter(p) ==
    IF answering # {} THEN [knows EXCEPT ![p] = [succeeded |-> TRUE, age |-> 0]]
    ELSE IF knows[p].succeeded THEN knows ELSE [knows EXCEPT ![p].age = 0]

\* _update_task_health: a skipped run is as good as a success.
HealthAfter(status) ==
    IF status = "failure" THEN Health!AfterFailure(syncHealth) ELSE Health!AfterSuccess(syncHealth)

\* maybe_sync: fresh since the last success, or the last attempt without one.
FreshEnough(p) ==
    knows[p].age <= IF beat <= CloseAt THEN SyncInterval ELSE SlowInterval

\* sync_live_market runs in one of the processes.
SyncRuns(p) ==
    /\ "sync" \in dueNow /\ dueNow' = dueNow \ {"sync"} /\ silentFor' = 0
    /\ latest' = IF FreshEnough(p) THEN "skipped" ELSE SyncStatus
    /\ syncHealth' = HealthAfter(latest')
    /\ knows' = IF FreshEnough(p) THEN knows ELSE KnowsAfter(p)
    /\ UNCHANGED <<answering, append, appended, notified, beat, switches, opsMishaps, paged,
                   outage>>

\* append_daily_bars: _run_live_sync_unlocked without asking whether it is due.
AppendRuns(p) ==
    /\ "append" \in dueNow /\ dueNow' = dueNow \ {"append"}
    /\ append' = AppendStatus /\ appended' = (appended \/ AppendStatus # "failure")
    /\ knows' = KnowsAfter(p)
    /\ UNCHANGED <<answering, latest, silentFor, syncHealth, notified, beat, switches,
                   opsMishaps, paged, outage>>

\* evaluate_alerts, of what is wrong with the syncs.
Firing ==
    (IF append = "silent" THEN {"silent append"} ELSE {})
    \cup (IF ~appended /\ beat >= SettledBy THEN {"missing append"} ELSE {})
    \cup (IF silentFor > AbsentAfter /\ beat <= CloseAt THEN {"worker absent"} ELSE {})

NewlyFiring == {k \in Firing : notified[k] >= AlertCooldown}
HealthNews == syncHealth.alert \in Health!Pending

\* send_ops_alerts_to_admin; it gets no further when Telegram refuses, and
\* nothing is stored when it dies after the message.
Scan ==
    /\ "scan" \in dueNow /\ dueNow' = dueNow \ {"scan"}
    /\ \/ NewlyFiring = {} /\ ~HealthNews
          /\ UNCHANGED <<notified, syncHealth, paged, opsMishaps, outage>>
       \/ opsMishaps < MaxMishaps /\ opsMishaps' = opsMishaps + 1 /\ outage' = 0
          /\ UNCHANGED <<notified, syncHealth, paged>>
       \/ /\ NewlyFiring # {} \/ HealthNews
          /\ notified' = [k \in AlertKeys |->
                            IF k \in NewlyFiring THEN 0 ELSE notified[k]]
          /\ syncHealth' = IF HealthNews
                             THEN [syncHealth EXCEPT !.alert = Health!AlertAfterSend(syncHealth)]
                             ELSE syncHealth
          /\ paged' = IF ~HealthNews THEN paged
                     ELSE IF syncHealth.alert = "failure_pending" THEN "unhealthy"
                     ELSE "recovered"
          /\ UNCHANGED <<opsMishaps, outage>>
    /\ UNCHANGED <<answering, knows, latest, silentFor, append, appended, beat, switches>>

-----------------------------------------------------------------------------

ProviderChanges(x) ==
    /\ switches < MaxSwitches /\ switches' = switches + 1
    /\ answering' = IF x \in answering THEN answering \ {x} ELSE answering \cup {x}
    /\ outage' = 0
    /\ UNCHANGED <<knows, latest, silentFor, syncHealth, append, appended, notified, beat, dueNow,
                   opsMishaps, paged>>

\* --max-tasks-per-child, or a restart: what the process knew is gone.
Recycled(p) ==
    /\ opsMishaps < MaxMishaps /\ opsMishaps' = opsMishaps + 1
    /\ knows' = [knows EXCEPT ![p] = NothingKnown] /\ outage' = 0
    /\ UNCHANGED <<answering, latest, silentFor, syncHealth, append, appended, notified, beat,
                   dueNow, switches, paged>>

\* n beats later, which beat slept through but for the last.
BeatAfter(n) ==
    /\ beat + n <= LastBeat /\ beat' = beat + n /\ dueNow' = DueAt(beat + n)
    /\ silentFor' = UpTo(silentFor + n, AbsentAfter + 1)
    /\ knows' = [p \in Processes |-> [knows[p] EXCEPT !.age = UpTo(@ + n, Forgot)]]
    /\ notified' = [k \in AlertKeys |-> UpTo(notified[k] + n, LongAgo)]
    /\ UNCHANGED <<answering, latest, syncHealth, append, appended, switches, paged>>

Beat ==
    /\ dueNow = {} /\ BeatAfter(1) /\ UNCHANGED opsMishaps
    /\ outage' = IF answering = {} /\ beat < CloseAt /\ \A p \in Processes : knows[p].succeeded
                   THEN outage + 1 ELSE 0

BeatStops ==
    /\ dueNow = {} /\ opsMishaps < MaxMishaps /\ opsMishaps' = opsMishaps + 1
    /\ BeatAfter(ScanEvery * (1 + AbsentAfter \div ScanEvery)) /\ outage' = 0

OutageNext ==
    \/ \E p \in Processes : SyncRuns(p) \/ AppendRuns(p) \/ Recycled(p)
    \/ Scan \/ Beat \/ BeatStops
    \/ \E x \in Providers : ProviderChanges(x)

OutageSpec == OutageInit /\ [][OutageNext]_outageVars
-----------------------------------------------------------------------------

\* Once a total outage lasts, processes that remember a success find their data
\* stale, every run fails from then on, and "UNHEALTHY after 3 consecutive
\* failures" is what the next scan sends.
StreakPaged ==
    outage > SyncInterval + FailureStreak + ScanEvery => paged = "unhealthy"

\* Without mishaps, a day without a successful append is told by the first scan
\* after the hour both appends should have run, and again by the first scan after
\* each cooldown.
MissingAppendTold ==
    beat >= SettledBy + ScanEvery /\ opsMishaps = 0 /\ ~appended
        => notified["missing append"] < LongAgo

\* What goes wrong for good is told (task_status.py, ops_alerts.py, and
\* send_ops_alerts_to_admin).
OutagePaged == StreakPaged /\ MissingAppendTold
=============================================================================
