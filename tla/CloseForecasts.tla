--------------------------- MODULE CloseForecasts ---------------------------
(***************************************************************************)
(* The next-session close forecasts (market/services/close_learn.py) and   *)
(* the evidence kept about them (reliability_capture.py and                *)
(* reliability_settlement.py).                                             *)
(*                                                                         *)
(* Every evening a cycle settles the forecasts that are due against the    *)
(* bar of their target session, folds the errors into the learner's state, *)
(* decides whether the naive fallback serves, writes one forecast per      *)
(* stock for the next session and captures a snapshot of each.  Later the  *)
(* reliability assessment captures again and settles the snapshots.  A     *)
(* backfill command replays history over the same tables.                  *)
(*                                                                         *)
(* All of these run under the market-write lock, so one of them runs at a  *)
(* time; each row is a transaction of its own, so a run that is killed     *)
(* leaves the rows it had written.  Administrators, who activate and       *)
(* deactivate model versions, and the fetchers take no part in that lock   *)
(* here.  Prices, errors and biases are left out: a bar has traded or not, *)
(* and a prediction is known by its inputs and by the method served.       *)
(***************************************************************************)
EXTENDS Integers, FiniteSets

CONSTANTS Stocks,         \* the active stocks, numbered by trading code
          Liquid,         \* liquid_stock_ids()
          LastDay,        \* bound: the days that pass are 1..LastDay, and
                          \* forecasts for later sessions are not looked at
          NextTradingDay, \* next_trading_day, over a fixed calendar
          Versions,       \* tags of the next-close model versions
          NoVersion,
          MinSettles,     \* MIN_LIVE_SETTLES_FOR_GATE
          Patience,       \* MAX_PENDING_CALENDAR_DAYS
          MaxIncidents    \* bound: runs cut short, backfills and changes of
                          \* the active version, together

Days == 1 .. LastDay
Pairs == Stocks \X Days    \* unique_together = ("stock", "target_date")

ASSUME ConstantsAssumption ==
    /\ Stocks \subseteq Nat /\ IsFiniteSet(Stocks)
    /\ Liquid \subseteq Stocks
    /\ LastDay \in Nat \ {0}
    /\ NoVersion \notin Versions
    /\ MinSettles \in Nat \ {0}
    /\ Patience \in Nat
    /\ MaxIncidents \in Nat

ASSUME CalendarAssumption ==
    /\ NextTradingDay \in [Days -> Nat]
    /\ \A d \in Days : NextTradingDay[d] > d

VARIABLES today,
          bar,         \* PriceHistory of a stock and a session
          forecast,    \* NextDayCloseForecast
          count,       \* settled_count of CloseLearnState "global"
          stockCount,  \* settled_count of CloseLearnState "stock:<id>"
          fallback,    \* extras["serve_naive_fallback"]
          active,      \* active_model_version("next_close_rf")
          snapshots,   \* PredictionSnapshot of next_close_rf
          run,         \* the run that holds the market-write lock
          crashes,     \* how many runs were cut short
          backfills,   \* how many backfills have begun
          changes      \* how often an administrator changed active

data == <<forecast, snapshots>>
learner == <<count, stockCount, fallback>>
env == <<today, bar>>
past == <<crashes, backfills, changes>>
vars == <<env, data, learner, active, run, past>>

Methods == {"naive", "analogue", "ml"}

Forecasts ==
    [asOf : Days, method : Methods, by : {"live", "backfill"},
     settled : BOOLEAN]

\* No row: the method of a row is never "none".
NoForecast == [asOf |-> 0, method |-> "none", by |-> "none", settled |-> FALSE]

\* model_version_tag; the baselines have tags of their own.
BaselineTags == {"next-close-naive-fallback-v1", "next-close-ml-unknown-v1",
                 "next-close-analogue-v1", "next-close-baseline-v1"}
Tags == Versions \cup BaselineTags

Snapshots ==
    [stock : Stocks, asOf : Days, tag : Tags, target : Days,
     served : Methods, status : {"pending", "settled", "excluded"}]

Kinds == {"none", "cycle", "settle", "forecast", "assess", "backfill"}
Stages == {"idle", "settle", "downgrade", "learn", "gate", "generate",
           "capture", "outcome", "backfill"}

\* What a run keeps in its local variables.
Runs ==
    [kind : Kinds, stage : Stages,
     asOf : Days,             \* as_of, the day the run began
     todo : SUBSET Pairs,     \* what the loop of the stage has left
     due : SUBSET Snapshots,  \* the same for the loop over snapshots
     batch : SUBSET Pairs,    \* what this run has settled
     owed : SUBSET Pairs,     \* the row between its two saves
     stocks : SUBSET Stocks,  \* stocks whose backfill is not complete
     counted : Nat,           \* state.settled_count as read at the start
     naive : BOOLEAN]         \* naive_fallback_active

Idle ==
    [kind |-> "none", stage |-> "idle", asOf |-> 1, todo |-> {}, due |-> {},
     batch |-> {}, owed |-> {}, stocks |-> {}, counted |-> 0,
     naive |-> FALSE]

TypeOK ==
    /\ today \in Days
    /\ bar \in [Pairs -> {"none", "idle", "traded"}]
    /\ forecast \in [Pairs -> Forecasts \cup {NoForecast}]
    /\ count \in Nat
    /\ stockCount \in [Stocks -> Nat]
    /\ fallback \in BOOLEAN
    /\ active \in Versions \cup {NoVersion}
    /\ snapshots \subseteq Snapshots
    /\ run \in Runs
    /\ crashes \in Nat /\ backfills \in Nat /\ changes \in Nat

\* The bound on what happens now and then.
Incident == crashes + backfills + changes < MaxIncidents

Exists(p) == forecast[p].method # "none"
Settled == {p \in Pairs : forecast[p].settled}
SettledOf(s) == {p \in Settled : p[1] = s}

Init ==
    /\ today = 1
    /\ bar = [p \in Pairs |-> "none"]
    /\ forecast = [p \in Pairs |-> NoForecast]
    /\ count = 0
    /\ stockCount = [s \in Stocks |-> 0]
    /\ fallback = FALSE
    /\ active = NoVersion
    /\ snapshots = {}
    /\ run = Idle
    /\ crashes = 0
    /\ backfills = 0
    /\ changes = 0

-----------------------------------------------------------------------------
\* The loop over the active stocks, each with the next session.
Targets(day) == {p \in Pairs : p[2] = NextTradingDay[day]}

\* settle_due_forecasts, on its own or as the first half of a cycle.

\* Fault: the query does not leave out the settled ones.
DueForecastsAgain(day) == {p \in Pairs : Exists(p) /\ p[2] <= day}

\* Fault: only the day's own session is settled, not what was missed.
DueForecastsToday(day) ==
    {p \in Pairs : Exists(p) /\ ~forecast[p].settled /\ p[2] = day}

\* The query of the forecasts that are due.
DueForecasts(day) ==
    {p \in Pairs : Exists(p) /\ ~forecast[p].settled /\ p[2] <= day}

StartSettle(kind) ==
    /\ kind \in {"cycle", "settle"}
    /\ run.stage = "idle"
    /\ run' = [Idle EXCEPT !.kind = kind, !.stage = "settle",
                           !.asOf = today, !.todo = DueForecasts(today),
                           !.counted = count]
    /\ UNCHANGED <<env, data, learner, active, past>>

\* One turn of the loop: the forecast is saved before the learner's state.
\* Without a bar that traded the forecast waits for a later run.
SettleForecast(p) ==
    /\ run.stage = "settle" /\ run.owed = {}
    /\ p \in run.todo /\ \A q \in run.todo : p[2] <= q[2]
    /\ \/ /\ bar[p] = "traded"
          /\ forecast' = [forecast EXCEPT ![p].settled = TRUE]
          /\ run' = [run EXCEPT !.todo = @ \ {p}, !.batch = @ \cup {p},
                                !.owed = IF p[1] \in Liquid THEN {p} ELSE {}]
       \/ /\ bar[p] # "traded"
          /\ run' = [run EXCEPT !.todo = @ \ {p}]
          /\ UNCHANGED forecast
    /\ UNCHANGED <<env, snapshots, learner, active, past>>

\* The state of a liquid stock is saved at once, by itself.
LearnStock(p) ==
    /\ run.stage = "settle" /\ p \in run.owed
    /\ stockCount' = [stockCount EXCEPT ![p[1]] = @ + 1]
    /\ run' = [run EXCEPT !.owed = {}]
    /\ UNCHANGED <<env, data, count, fallback, active, past>>

EndLoop ==
    /\ run.stage = "settle" /\ run.owed = {} /\ run.todo = {}
    /\ run' = [run EXCEPT !.stage = "downgrade"]
    /\ UNCHANGED <<env, data, learner, active, past>>

\* _maybe_downgrade_on_live_skill: skill is a matter of the prices.
Downgrade ==
    /\ run.stage = "downgrade"
    /\ \/ Cardinality(Settled) >= MinSettles /\ active' = NoVersion
       \/ UNCHANGED active
    /\ run' = [run EXCEPT !.stage = "learn"]
    /\ UNCHANGED <<env, data, learner, past>>

\* The global state is saved once, from the copy read at the start.
Learn ==
    /\ run.stage = "learn"
    /\ count' = IF run.batch = {} THEN count
                ELSE run.counted + Cardinality(run.batch)
    /\ run' = [run EXCEPT !.stage = "gate"]
    /\ UNCHANGED <<env, data, stockCount, fallback, active, past>>

\* _maybe_toggle_naive_fallback, then the cycle's next half, which reads
\* the flag once and visits every stock.
Gate ==
    /\ run.stage = "gate"
    /\ \/ Cardinality(Settled) >= MinSettles /\ fallback' \in BOOLEAN
       \/ UNCHANGED fallback
    /\ run' = IF run.kind = "cycle"
              THEN [run EXCEPT !.stage = "generate", !.naive = fallback',
                       !.todo = Targets(run.asOf)]
              ELSE Idle
    /\ UNCHANGED <<env, data, count, stockCount, active, past>>

-----------------------------------------------------------------------------
\* generate_forecasts_for_as_of.

StartGenerate ==
    /\ run.stage = "idle"
    /\ run' = [Idle EXCEPT !.kind = "forecast", !.stage = "generate",
                           !.asOf = today, !.naive = fallback,
                           !.todo = Targets(today)]
    /\ UNCHANGED <<env, data, learner, active, past>>

\* The method that is served.  The model's part needs an active version.
ServedMethods ==
    IF run.naive THEN {"naive"}
    ELSE {"analogue"} \cup (IF active = NoVersion THEN {} ELSE {"ml"})

\* Fault: a retry writes the forecast again.
GenerateAgain(p) ==
    /\ run.stage = "generate"
    /\ p \in run.todo /\ \A q \in run.todo : p[1] <= q[1]
    /\ \/ \E m \in ServedMethods :
             forecast' = [forecast EXCEPT ![p] =
                 [asOf |-> run.asOf, method |-> m, by |-> "live",
                  settled |-> FALSE]]
       \/ UNCHANGED forecast
    /\ run' = [run EXCEPT !.todo = @ \ {p}]
    /\ UNCHANGED <<env, snapshots, learner, active, past>>

\* One stock: a row is created if there is none for its target session, and
\* no row at all without enough history.
Generate(p) ==
    /\ run.stage = "generate"
    /\ p \in run.todo /\ \A q \in run.todo : p[1] <= q[1]
    /\ \/ /\ ~Exists(p)
          /\ \E m \in ServedMethods :
               forecast' = [forecast EXCEPT ![p] =
                   [asOf |-> run.asOf, method |-> m, by |-> "live",
                    settled |-> FALSE]]
       \/ UNCHANGED forecast
    /\ run' = [run EXCEPT !.todo = @ \ {p}]
    /\ UNCHANGED <<env, snapshots, learner, active, past>>

\* Fault: earlier days' rows are captured as the day's.
DayForecastsAndOlder(day) ==
    {p \in Pairs : Exists(p) /\ forecast[p].asOf <= day}

\* capture_next_close_snapshots looks the day's rows up again.
DayForecasts(day) == {p \in Pairs : Exists(p) /\ forecast[p].asOf = day}

EndGenerate ==
    /\ run.stage = "generate" /\ run.todo = {}
    /\ run' = [run EXCEPT !.stage = "capture",
                          !.todo = DayForecasts(run.asOf)]
    /\ UNCHANGED <<env, data, learner, active, past>>

-----------------------------------------------------------------------------
\* run_reliability_assessment: capture once more, then settle_predictions.

StartAssess ==
    /\ run.stage = "idle"
    /\ run' = [Idle EXCEPT !.kind = "assess", !.stage = "capture",
                           !.asOf = today, !.todo = DayForecasts(today)]
    /\ UNCHANGED <<env, data, learner, active, past>>

\* next_close_serving_context: the version is the one active at capture.
TagFor(method, version) ==
    CASE method = "naive" -> "next-close-naive-fallback-v1"
      [] method = "ml" -> IF version = NoVersion
                          THEN "next-close-ml-unknown-v1" ELSE version
      [] OTHER -> IF version = NoVersion
                  THEN "next-close-baseline-v1" ELSE "next-close-analogue-v1"

\* get_or_create on the columns of uniq_prediction_snapshot.
Captured(p, tag) ==
    \E sn \in snapshots :
        sn.stock = p[1] /\ sn.asOf = run.asOf /\ sn.tag = tag

Capture(p) ==
    /\ run.stage = "capture" /\ p \in run.todo
    /\ LET tag == TagFor(forecast[p].method, active)
       IN  snapshots' = IF Captured(p, tag) THEN snapshots
                        ELSE snapshots \cup
                          {[stock |-> p[1], asOf |-> run.asOf, tag |-> tag,
                            target |-> p[2], served |-> forecast[p].method,
                            status |-> "pending"]}
    /\ run' = [run EXCEPT !.todo = @ \ {p}]
    /\ UNCHANGED <<env, forecast, learner, active, past>>

EndCapture ==
    /\ run.stage = "capture" /\ run.todo = {}
    /\ run' = IF run.kind = "assess"
              THEN [run EXCEPT !.stage = "outcome",
                       !.due = {sn \in snapshots : /\ sn.status = "pending"
                                                   /\ sn.target <= run.asOf}]
              ELSE Idle
    /\ UNCHANGED <<env, data, learner, active, past>>

\* A snapshot leaves "pending" once: settled, or excluded because its bars
\* are unfit or did not come in time.
Outcome(sn) ==
    LET traded == bar[<<sn.stock, sn.target>>] = "traded"
        late == run.asOf - sn.target >= Patience
        next == IF traded THEN {"settled", "excluded"}
                ELSE IF late THEN {"excluded"} ELSE {"pending"}
    IN  /\ run.stage = "outcome" /\ sn \in run.due
        /\ \E st \in next :
             snapshots' = (snapshots \ {sn}) \cup {[sn EXCEPT !.status = st]}
        /\ run' = [run EXCEPT !.due = @ \ {sn}]
        /\ UNCHANGED <<env, forecast, learner, active, past>>

EndAssess ==
    /\ run.stage = "outcome" /\ run.due = {}
    /\ run' = Idle
    /\ UNCHANGED <<env, data, learner, active, past>>

-----------------------------------------------------------------------------
\* backfill_learn_from_history: predict and settle over the stored bars.

\* The earlier sessions of the stock that have a bar.
Before(p) == {d \in Days : d < p[2] /\ bar[<<p[1], d>>] # "none"}

Replayable == {p \in Pairs : /\ p[2] <= today /\ bar[p] # "none"
                             /\ Before(p) # {}}

\* Liquid names are preferred; with too few of them any stock will do.
StartBackfill ==
    /\ run.stage = "idle" /\ Incident
    /\ \E S \in {Liquid, Stocks} :
         run' = [Idle EXCEPT !.kind = "backfill", !.stage = "backfill",
                             !.asOf = today, !.stocks = S,
                             !.todo = {p \in Replayable : p[1] \in S}]
    /\ backfills' = backfills + 1
    /\ UNCHANGED <<env, data, learner, active, crashes, changes>>

\* Stock by stock, and in a stock by date.  update_or_create: an existing
\* forecast is replaced, unsettled.  A pair without a prediction is passed
\* over.
Replay(p) ==
    /\ run.stage = "backfill" /\ run.owed = {}
    /\ p \in run.todo /\ \A s \in run.stocks : p[1] <= s
    /\ \A q \in run.todo : q[1] = p[1] => p[2] <= q[2]
    /\ \/ /\ \E d \in Before(p) :
               /\ \A e \in Before(p) : e <= d
               /\ forecast' = [forecast EXCEPT ![p] =
                      [asOf |-> d, method |-> "analogue",
                       by |-> "backfill", settled |-> FALSE]]
          /\ run' = [run EXCEPT !.todo = @ \ {p},
                        !.owed = IF bar[p] = "traded" THEN {p} ELSE {}]
       \/ /\ run' = [run EXCEPT !.todo = @ \ {p}]
          /\ UNCHANGED forecast
    /\ UNCHANGED <<env, snapshots, learner, active, past>>

ReplaySettle(p) ==
    /\ run.stage = "backfill" /\ p \in run.owed
    /\ forecast' = [forecast EXCEPT ![p].settled = TRUE]
    /\ run' = [run EXCEPT !.owed = {}, !.batch = @ \cup {p}]
    /\ UNCHANGED <<env, snapshots, learner, active, past>>

\* After the bars of a liquid stock its state is overwritten.
ReplayedStock(s) ==
    LET settles == Cardinality({p \in run.batch : p[1] = s})
    IN  /\ run.stage = "backfill" /\ run.owed = {}
        /\ s \in run.stocks /\ \A r \in run.stocks : s <= r
        /\ \A p \in run.todo : p[1] # s
        /\ run' = [run EXCEPT !.stocks = @ \ {s}]
        /\ stockCount' = IF s \in Liquid /\ settles > 0
                         THEN [stockCount EXCEPT ![s] = settles]
                         ELSE stockCount
        /\ UNCHANGED <<env, data, count, fallback, active, past>>

\* The global count is set to the number of settled rows.
EndBackfill ==
    /\ run.stage = "backfill" /\ run.stocks = {}
    /\ count' = IF Settled = {} THEN count ELSE Cardinality(Settled)
    /\ run' = Idle
    /\ UNCHANGED <<env, data, stockCount, fallback, active, past>>

-----------------------------------------------------------------------------
\* The surroundings.

\* The worker is killed, runs out of time or raises.  What a task retries
\* starts from the beginning, as a new run.
Crash ==
    /\ run.stage # "idle" /\ Incident
    /\ run' = Idle /\ crashes' = crashes + 1
    /\ UNCHANGED <<env, data, learner, active, backfills, changes>>

NextDay ==
    /\ today < LastDay
    /\ today' = today + 1
    /\ UNCHANGED <<bar, data, learner, active, run, past>>

\* A fetch stores a bar, today's or a missing one; volume only grows.
BarArrives(p) ==
    /\ p[2] <= today
    /\ \/ bar[p] = "none" /\ bar' \in {[bar EXCEPT ![p] = "idle"],
                                       [bar EXCEPT ![p] = "traded"]}
       \/ bar[p] = "idle" /\ bar' = [bar EXCEPT ![p] = "traded"]
    /\ UNCHANGED <<today, data, learner, active, run, past>>

\* The administrator's actions on model versions.
SetActive(v) ==
    /\ v # active /\ Incident
    /\ active' = v /\ changes' = changes + 1
    /\ UNCHANGED <<env, data, learner, run, crashes, backfills>>

SettleSteps == \/ \E p \in Pairs : SettleForecast(p) \/ LearnStock(p)
               \/ EndLoop \/ Downgrade \/ Learn \/ Gate
GenerateSteps == (\E p \in Pairs : Generate(p)) \/ EndGenerate
AssessSteps == \/ \E p \in Pairs : Capture(p)
               \/ \E sn \in run.due : Outcome(sn)
               \/ EndCapture \/ EndAssess
BackfillSteps == \/ \E p \in Pairs : Replay(p) \/ ReplaySettle(p)
                 \/ \E s \in Stocks : ReplayedStock(s)
                 \/ EndBackfill

RunStep == SettleSteps \/ GenerateSteps \/ AssessSteps \/ BackfillSteps

Start == \/ \E kind \in {"cycle", "settle"} : StartSettle(kind)
         \/ StartGenerate \/ StartAssess \/ StartBackfill

Surroundings == \/ Crash \/ NextDay
                \/ \E p \in Pairs : BarArrives(p)
                \/ \E v \in Versions \cup {NoVersion} : SetActive(v)

Next == RunStep \/ Start \/ Surroundings

Spec == Init /\ [][Next]_vars

\* A run that holds the lock goes on, and the daily trigger of the cycle is
\* not locked out for ever.
FairSpec == Spec /\ WF_vars(RunStep) /\ SF_vars(StartSettle("cycle"))

-----------------------------------------------------------------------------
\* Properties.

\* The fields of a forecast that say what was predicted.
Prediction(f) == <<f.asOf, f.method, f.by>>

\* A stored prediction is not replaced, and a settled one stays settled.
ForecastsKept ==
    \A p \in Pairs : Exists(p) =>
        /\ Prediction(forecast'[p]) = Prediction(forecast[p])
        /\ forecast[p].settled => forecast'[p].settled

\* A snapshot changes only its status, and that once.
SnapshotsKept ==
    \A sn \in snapshots : \E new \in snapshots' :
        /\ [new EXCEPT !.status = sn.status] = sn
        /\ sn.status # "pending" => new = sn

\* What was predicted is point-in-time evidence: whatever is retried, killed
\* or run again, stored forecasts and snapshots are kept as they are.  The
\* backfill, which rewrites forecasts, is the one exception.
EvidenceFrozen ==
    [][(run.kind # "backfill" => ForecastsKept) /\ SnapshotsKept]_vars

\* The learner learns from a settled forecast at most once, and exactly once
\* when no run is cut short: retries and reruns never count one again, and a
\* run that dies only loses what it had settled.  A backfill forgets the
\* stocks' own counts, and makes the global one exact.
LearnedAtMostOnce ==
    /\ (backfills = 0) =>
         /\ count <= Cardinality(Settled)
         /\ \A s \in Stocks : stockCount[s] <= Cardinality(SettledOf(s))
    /\ (crashes = 0 /\ run.stage = "idle") =>
         /\ count = Cardinality(Settled)
         /\ (backfills = 0) => \A s \in Liquid :
                stockCount[s] = Cardinality(SettledOf(s))

\* A snapshot records what was served: the forecast of its stock and target
\* exists, was made the day the snapshot names, with the method it names,
\* unless a backfill has since replaced it.
SnapshotIsForecast ==
    \A sn \in snapshots :
        LET f == forecast[<<sn.stock, sn.target>>]
        IN  /\ f.by # "none"
            /\ f.by = "live" => f.asOf = sn.asOf /\ f.method = sn.served

\* A forecast that is due, and whose session has a bar that traded, is
\* settled in the end, killed runs notwithstanding.
DueGetsSettled ==
    \A p \in Pairs :
        (Exists(p) /\ ~forecast[p].settled /\ p[2] <= today
           /\ bar[p] = "traded") ~> forecast[p].settled
=============================================================================
