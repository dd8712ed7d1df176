------------------------ MODULE CloseForecastsProofs ------------------------
(* CloseForecasts for any stocks, days, calendar and number of incidents,  *)
(* the folds of WalkForward for any history, the studies of                *)
(* ChallengerSelection for any panel, grid and scores, and the verdicts of *)
(* ReliabilityVerdict for any predictions, windows and samples.            *)
EXTENDS CloseForecasts, WalkForward, ChallengerSelection, ReliabilityVerdict, FiniteSums,
        FiniteSetTheorems, TLAPS

\* What a run relies on between its steps: it rewrites forecasts only as a
\* backfill, and the rows it has looked up are still there.
RunInv ==
    /\ run.stage = "backfill" => run.kind = "backfill"
    /\ run.stage = "capture" =>
         \A p \in run.todo : Exists(p) /\ forecast[p].asOf = run.asOf
    /\ run.stage = "settle" =>
         \A p \in run.todo : Exists(p) /\ ~forecast[p].settled
    /\ \A p \in run.owed : Exists(p)
    /\ run.due \subseteq {sn \in snapshots : sn.status = "pending"}

Inv == TypeOK /\ RunInv /\ SnapshotIsForecast

-----------------------------------------------------------------------------

LEMMA IdleTyped == Idle \in Runs
PROOF BY ConstantsAssumption DEF Idle, Runs, Kinds, Stages, Days

LEMMA IdleFields ==
    /\ Idle.stage = "idle" /\ Idle.todo = {} /\ Idle.owed = {}
    /\ Idle.due = {} /\ Idle.batch = {} /\ Idle.kind = "none"
PROOF BY DEF Idle

LEMMA DueTyped ==
    /\ \A d : DueForecasts(d) \subseteq Pairs
    /\ \A d : Targets(d) \subseteq Pairs
    /\ \A d : DayForecasts(d) \subseteq Pairs
    /\ Replayable \subseteq Pairs
PROOF BY DEF DueForecasts, Targets, DayForecasts, Replayable

LEMMA PairsFinite == IsFiniteSet(Pairs)
PROOF
<1>1. IsFiniteSet(Days)
  BY ConstantsAssumption, FS_Interval DEF Days
<1> QED
  BY <1>1, ConstantsAssumption, FS_Product DEF Pairs

LEMMA SettledFinite == IsFiniteSet(Settled) /\ \A s : IsFiniteSet(SettledOf(s))
PROOF
<1>1. Settled \subseteq Pairs /\ \A s : SettledOf(s) \subseteq Pairs
  BY DEF Settled, SettledOf
<1> QED
  BY <1>1, PairsFinite, FS_Subset

LEMMA RowTyped ==
    ASSUME NEW f \in Forecasts \cup {NoForecast}
    PROVE  /\ f.method # "none" => f \in Forecasts
           /\ f.method = "none" => f = NoForecast
           /\ f \in Forecasts => f.by \in {"live", "backfill"}
PROOF BY DEF Forecasts, NoForecast, Methods

LEMMA TagTyped ==
    ASSUME NEW m \in Methods, NEW v \in Versions \cup {NoVersion}
    PROVE  TagFor(m, v) \in Tags
PROOF BY DEF TagFor, Tags, BaselineTags, Methods

LEMMA InitInv == Init => Inv
PROOF
<1> SUFFICES ASSUME Init PROVE Inv
  OBVIOUS
<1>1. TypeOK
  <2>1. today \in Days
    BY ConstantsAssumption DEF Init, Days
  <2>2. forecast \in [Pairs -> Forecasts \cup {NoForecast}]
    BY DEF Init
  <2> QED
    BY <2>1, <2>2, IdleTyped DEF Init, TypeOK
<1>2. RunInv /\ SnapshotIsForecast
  BY IdleFields DEF Init, RunInv, SnapshotIsForecast
<1> QED
  BY <1>1, <1>2 DEF Inv

LEMMA SameForecasts == UNCHANGED forecast => ForecastsKept
PROOF BY DEF ForecastsKept

LEMMA SameSnapshots ==
    ASSUME TypeOK, snapshots \subseteq snapshots' PROVE SnapshotsKept
PROOF
<1> SUFFICES ASSUME NEW sn \in snapshots
             PROVE  [sn EXCEPT !.status = sn.status] = sn
  BY DEF SnapshotsKept
<1> QED
  BY DEF TypeOK, Snapshots

-----------------------------------------------------------------------------
\* The starts, the surroundings and the steps that leave the tables alone.

LEMMA StartStep == ASSUME Inv, Start PROVE Inv' /\ ForecastsKept /\ SnapshotsKept
PROOF
<1> USE ConstantsAssumption DEF Inv
<1>0. UNCHANGED <<env, data, learner, active>>
      /\ backfills' \in Nat /\ crashes' \in Nat /\ changes' \in Nat
  BY DEF Start, StartSettle, StartGenerate, StartAssess, StartBackfill, past,
         TypeOK
<1>1. run' \in Runs /\ RunInv'
  <2>1. ASSUME NEW work \in {"cycle", "settle"}, StartSettle(work)
        PROVE  run' \in Runs /\ RunInv'
    <3>1. run' \in Runs
      BY <2>1, DueTyped DEF StartSettle, Idle, Runs, Kinds, Stages, TypeOK
    <3>2. /\ run'.stage = "settle" /\ run'.owed = {} /\ run'.due = {}
          /\ run'.todo = DueForecasts(today)
      BY <2>1 DEF StartSettle, Idle
    <3> QED
      BY <1>0, <3>1, <3>2 DEF RunInv, DueForecasts, data, Exists
  <2>2. ASSUME StartGenerate PROVE run' \in Runs /\ RunInv'
    <3>1. run' \in Runs
      BY <2>2, DueTyped DEF StartGenerate, Idle, Runs, Kinds, Stages, TypeOK
    <3>2. run'.stage = "generate" /\ run'.owed = {} /\ run'.due = {}
      BY <2>2 DEF StartGenerate, Idle
    <3> QED
      BY <3>1, <3>2 DEF RunInv
  <2>3. ASSUME StartAssess PROVE run' \in Runs /\ RunInv'
    <3>1. run' \in Runs
      BY <2>3, DueTyped DEF StartAssess, Idle, Runs, Kinds, Stages, TypeOK
    <3>2. /\ run'.stage = "capture" /\ run'.owed = {} /\ run'.due = {}
          /\ run'.asOf = today /\ run'.todo = DayForecasts(today)
      BY <2>3 DEF StartAssess, Idle
    <3> QED
      BY <1>0, <3>1, <3>2 DEF RunInv, DayForecasts, data, Exists
  <2>4. ASSUME StartBackfill PROVE run' \in Runs /\ RunInv'
    <3>1. PICK S \in {Liquid, Stocks} :
            run' = [Idle EXCEPT !.kind = "backfill", !.stage = "backfill",
                                !.asOf = today, !.stocks = S,
                                !.todo = {p \in Replayable : p[1] \in S}]
      BY <2>4 DEF StartBackfill
    <3>2. {p \in Replayable : p[1] \in S} \subseteq Pairs
      BY DueTyped
    <3>3. run' \in Runs
      BY <3>1, <3>2 DEF Idle, Runs, Kinds, Stages, TypeOK
    <3>4. /\ run'.stage = "backfill" /\ run'.kind = "backfill"
          /\ run'.owed = {} /\ run'.due = {}
      BY <3>1 DEF Idle
    <3> QED
      BY <3>3, <3>4 DEF RunInv
  <2> QED
    BY <2>1, <2>2, <2>3, <2>4 DEF Start
<1>3. TypeOK' /\ SnapshotIsForecast'
  BY <1>0, <1>1 DEF TypeOK, SnapshotIsForecast, data, learner, env
<1> QED
  BY <1>0, <1>1, <1>3, SameForecasts, SameSnapshots DEF data

LEMMA SurroundingStep ==
    ASSUME Inv, Surroundings PROVE Inv' /\ ForecastsKept /\ SnapshotsKept
PROOF
<1> USE ConstantsAssumption DEF Inv
<1>0. UNCHANGED <<data, learner>>
  BY DEF Surroundings, Crash, NextDay, BarArrives, SetActive
<1>1. UNCHANGED run \/ run' = Idle
  BY DEF Surroundings, Crash, NextDay, BarArrives, SetActive
<1>2. TypeOK'
  <2>1. CASE Crash
    BY <2>1, IdleTyped DEF Crash, TypeOK, env, data, learner
  <2>2. CASE NextDay
    BY <2>2 DEF NextDay, TypeOK, data, learner, past, Days
  <2>3. ASSUME NEW p \in Pairs, BarArrives(p) PROVE TypeOK'
    BY <2>3 DEF BarArrives, TypeOK, data, learner, past
  <2>4. ASSUME NEW v \in Versions \cup {NoVersion}, SetActive(v)
        PROVE  TypeOK'
    BY <2>4 DEF SetActive, TypeOK, env, data, learner
  <2> QED
    BY <2>1, <2>2, <2>3, <2>4 DEF Surroundings
<1>3. RunInv' /\ SnapshotIsForecast'
  BY <1>0, <1>1, IdleFields DEF RunInv, SnapshotIsForecast, data, Exists
<1> QED
  BY <1>0, <1>2, <1>3, SameForecasts, SameSnapshots DEF data

-----------------------------------------------------------------------------
\* The steps of a run.

LEMMA SettleStep ==
    ASSUME Inv, SettleSteps PROVE Inv' /\ ForecastsKept /\ SnapshotsKept
PROOF
<1> USE ConstantsAssumption DEF Inv
<1>1. ASSUME NEW p \in Pairs, SettleForecast(p)
      PROVE  Inv' /\ ForecastsKept /\ SnapshotsKept
  <2>1. UNCHANGED <<env, snapshots, learner, active, past>>
    BY <1>1 DEF SettleForecast
  <2>2. /\ run' \in Runs /\ run'.stage = "settle" /\ run.stage = "settle"
        /\ run'.todo = run.todo \ {p} /\ p \in run.todo
        /\ run'.owed \subseteq {p} /\ run'.due = run.due
        /\ run.todo \subseteq Pairs
    <3>1. /\ run.stage = "settle" /\ run.owed = {} /\ p \in run.todo
          /\ run.todo \subseteq Pairs /\ run.batch \cup {p} \subseteq Pairs
      BY <1>1 DEF SettleForecast, TypeOK, Runs
    <3>2. CASE bar[p] = "traded"
      <4> DEFINE o == IF p[1] \in Liquid THEN {p} ELSE {}
                 b == run.batch \cup {p}
      <4>1. run' = [run EXCEPT !.todo = @ \ {p}, !.batch = b, !.owed = o]
        BY <1>1, <3>2 DEF SettleForecast
      <4>2. o \subseteq {p} /\ b \subseteq Pairs
        BY <3>1
      <4> HIDE DEF o, b
      <4> QED
        BY <3>1, <4>1, <4>2 DEF TypeOK, Runs
    <3>3. CASE bar[p] # "traded"
      <4>1. run' = [run EXCEPT !.todo = @ \ {p}]
        BY <1>1, <3>3 DEF SettleForecast
      <4> QED
        BY <3>1, <4>1 DEF TypeOK, Runs
    <3> QED
      BY <3>2, <3>3
  <2>3. Exists(p) /\ forecast[p] \in Forecasts
    BY <2>2, RowTyped DEF RunInv, TypeOK, Exists
  <2>4. forecast' = forecast
        \/ forecast' = [forecast EXCEPT ![p] = [forecast[p] EXCEPT !.settled = TRUE]]
    BY <1>1 DEF SettleForecast
  <2> DEFINE row == [forecast[p] EXCEPT !.settled = TRUE]
  <2>5. row \in Forecasts /\ row.settled /\ Prediction(row) = Prediction(forecast[p])
        /\ row.method = forecast[p].method /\ row.asOf = forecast[p].asOf
        /\ row.by = forecast[p].by
    BY <2>3 DEF Forecasts, Prediction
  <2> HIDE DEF row
  <2>10. forecast' \in [Pairs -> Forecasts \cup {NoForecast}]
    BY <2>4, <2>5 DEF TypeOK, row
  <2>11. \A q \in Pairs : q # p => forecast'[q] = forecast[q]
    BY <2>4 DEF TypeOK
  <2>12. forecast'[p] = forecast[p] \/ forecast'[p] = row
    BY <2>4 DEF TypeOK, row
  <2>6. \A q \in Pairs :
          /\ forecast'[q].method = forecast[q].method
          /\ forecast'[q].asOf = forecast[q].asOf
          /\ forecast'[q].by = forecast[q].by
          /\ Prediction(forecast'[q]) = Prediction(forecast[q])
          /\ forecast[q].settled => forecast'[q].settled
    BY <2>5, <2>11, <2>12
  <2>7. TypeOK'
    BY <2>1, <2>2, <2>10 DEF TypeOK, env, learner, past
  <2>8. RunInv'
    <3>1. snapshots' = snapshots
      BY <2>1
    <3>2. \A q \in run'.todo : q \in Pairs /\ q # p /\ q \in run.todo
      BY <2>2
    <3>3. \A q \in run'.todo : Exists(q)' /\ ~forecast'[q].settled
      BY <2>2, <2>11, <3>2 DEF RunInv, Exists
    <3>4. \A q \in run'.owed : Exists(q)'
      BY <2>2, <2>3, <2>6 DEF Exists
    <3> QED
      BY <2>2, <3>1, <3>3, <3>4 DEF RunInv
  <2>9. SnapshotIsForecast'
    <3> SUFFICES ASSUME NEW sn \in snapshots
                 PROVE  LET f == forecast'[<<sn.stock, sn.target>>]
                        IN  /\ f.by # "none"
                            /\ f.by = "live" => f.asOf = sn.asOf
                                                /\ f.method = sn.served
      BY <2>1 DEF SnapshotIsForecast
    <3> DEFINE q == <<sn.stock, sn.target>>
    <3>1. q \in Pairs
      BY DEF TypeOK, Snapshots, Pairs
    <3>2. /\ forecast[q].by # "none"
          /\ forecast[q].by = "live" => forecast[q].asOf = sn.asOf
                                        /\ forecast[q].method = sn.served
      BY DEF SnapshotIsForecast
    <3> HIDE DEF q
    <3>3. /\ forecast'[q].by # "none"
          /\ forecast'[q].by = "live" => forecast'[q].asOf = sn.asOf
                                         /\ forecast'[q].method = sn.served
      BY <2>6, <3>1, <3>2
    <3> QED
      BY <3>3 DEF q
  <2> QED
    BY <2>1, <2>6, <2>7, <2>8, <2>9, SameSnapshots DEF ForecastsKept
<1>2. ASSUME NEW p \in Pairs, LearnStock(p) PROVE Inv'
  <2>1. UNCHANGED <<env, data, active, past, count, fallback>>
        /\ stockCount' \in [Stocks -> Nat]
    BY <1>2 DEF LearnStock, TypeOK, Pairs
  <2>2. run' \in Runs /\ run' = [run EXCEPT !.owed = {}]
    BY <1>2 DEF LearnStock, TypeOK, Runs
  <2> QED
    BY <2>1, <2>2 DEF TypeOK, RunInv, Runs, SnapshotIsForecast, Exists, env, data,
                      past
<1>3. ASSUME EndLoop PROVE Inv'
  <2>1. UNCHANGED <<env, data, learner, active, past>>
    BY <1>3 DEF EndLoop
  <2>2. run' \in Runs /\ run' = [run EXCEPT !.stage = "downgrade"]
    BY <1>3 DEF EndLoop, TypeOK, Runs, Stages
  <2> QED
    BY <2>1, <2>2 DEF TypeOK, RunInv, Runs, SnapshotIsForecast, Exists, env, data,
                      past, learner
<1>4. ASSUME Downgrade PROVE Inv'
  <2>1. UNCHANGED <<env, data, learner, past>>
        /\ active' \in Versions \cup {NoVersion}
    BY <1>4 DEF Downgrade, TypeOK
  <2>2. run' \in Runs /\ run' = [run EXCEPT !.stage = "learn"]
    BY <1>4 DEF Downgrade, TypeOK, Runs, Stages
  <2> QED
    BY <2>1, <2>2 DEF TypeOK, RunInv, Runs, SnapshotIsForecast, Exists, env, data,
                      past, learner
<1>5. ASSUME Learn PROVE Inv'
  <2>1. UNCHANGED <<env, data, active, past, stockCount, fallback>>
    BY <1>5 DEF Learn
  <2>2. count' \in Nat
    <3>1. IsFiniteSet(run.batch)
      BY PairsFinite, FS_Subset DEF TypeOK, Runs
    <3> QED
      BY <1>5, <3>1, FS_CardinalityType DEF Learn, TypeOK, Runs
  <2>3. run' \in Runs /\ run' = [run EXCEPT !.stage = "gate"]
    BY <1>5 DEF Learn, TypeOK, Runs, Stages
  <2> QED
    BY <2>1, <2>2, <2>3 DEF TypeOK, RunInv, Runs, SnapshotIsForecast, Exists, env,
                            data, past
<1>6. ASSUME Gate PROVE Inv'
  <2>1. UNCHANGED <<env, data, active, past, stockCount, count>>
        /\ fallback' \in BOOLEAN
    BY <1>6 DEF Gate, TypeOK
  <2>2. \/ run' = Idle
        \/ run' = [run EXCEPT !.stage = "generate", !.naive = fallback',
                              !.todo = Targets(run.asOf)]
    BY <1>6 DEF Gate
  <2>3. run' \in Runs
    <3>1. CASE run' # Idle
      <4> DEFINE t == Targets(run.asOf)
      <4>1. t \in SUBSET Pairs
        BY DueTyped
      <4>2. run' = [run EXCEPT !.stage = "generate", !.naive = fallback', !.todo = t]
        BY <2>2, <3>1
      <4> HIDE DEF t
      <4> QED
        BY <2>1, <4>1, <4>2 DEF TypeOK, Runs, Stages
    <3> QED
      BY <3>1, IdleTyped
  <2>4. RunInv'
    <3>1. CASE run' = Idle
      BY <2>1, <3>1, IdleFields DEF RunInv
    <3>2. CASE run' # Idle
      <4>1. run'.stage = "generate" /\ run'.owed = run.owed /\ run'.due = run.due
        <5> DEFINE t == Targets(run.asOf)
        <5>1. run' = [run EXCEPT !.stage = "generate", !.naive = fallback', !.todo = t]
          BY <2>2, <3>2
        <5> HIDE DEF t
        <5> QED
          BY <5>1 DEF TypeOK, Runs
      <4> QED
        BY <2>1, <4>1 DEF RunInv, Exists, data
    <3> QED
      BY <3>1, <3>2
  <2> QED
    BY <2>1, <2>3, <2>4 DEF TypeOK, SnapshotIsForecast, env, data, past
<1>7. (\E p \in Pairs : LearnStock(p)) \/ EndLoop \/ Downgrade \/ Learn \/ Gate
        => UNCHANGED data
  BY DEF LearnStock, EndLoop, Downgrade, Learn, Gate
<1> QED
  BY <1>1, <1>2, <1>3, <1>4, <1>5, <1>6, <1>7, SameForecasts, SameSnapshots
  DEF SettleSteps, data

LEMMA GenerateStep ==
    ASSUME Inv, GenerateSteps PROVE Inv' /\ ForecastsKept /\ SnapshotsKept
PROOF
<1> USE ConstantsAssumption DEF Inv
<1>1. ASSUME NEW p \in Pairs, Generate(p)
      PROVE  Inv' /\ ForecastsKept /\ SnapshotsKept
  <2>1. UNCHANGED <<env, snapshots, learner, active, past>>
    BY <1>1 DEF Generate
  <2>2. /\ run' \in Runs /\ run'.stage = "generate"
        /\ run'.owed = run.owed /\ run'.due = run.due /\ run.asOf \in Days
    BY <1>1 DEF Generate, TypeOK, Runs
  <2>3. \/ forecast' = forecast
        \/ /\ ~Exists(p)
           /\ \E row \in Forecasts : forecast' = [forecast EXCEPT ![p] = row]
    BY <1>1, <2>2 DEF Generate, ServedMethods, Methods, Forecasts
  <2>4. forecast' \in [Pairs -> Forecasts \cup {NoForecast}]
        /\ \A q \in Pairs : Exists(q) => forecast'[q] = forecast[q]
    BY <2>3 DEF TypeOK, Exists
  <2>5. TypeOK'
    BY <2>1, <2>2, <2>4 DEF TypeOK, env, learner, past
  <2>6. RunInv'
    BY <2>1, <2>2, <2>4 DEF RunInv, Exists, TypeOK, Runs
  <2>7. SnapshotIsForecast'
    <3> SUFFICES ASSUME NEW sn \in snapshots
                 PROVE  LET f == forecast'[<<sn.stock, sn.target>>]
                        IN  /\ f.by # "none"
                            /\ f.by = "live" => f.asOf = sn.asOf
                                                /\ f.method = sn.served
      BY <2>1 DEF SnapshotIsForecast
    <3>1. <<sn.stock, sn.target>> \in Pairs
      BY DEF TypeOK, Snapshots, Pairs
    <3>2. Exists(<<sn.stock, sn.target>>)
      BY <3>1, RowTyped DEF SnapshotIsForecast, TypeOK, Exists, NoForecast
    <3> QED
      BY <2>4, <3>1, <3>2 DEF SnapshotIsForecast
  <2> QED
    BY <2>1, <2>4, <2>5, <2>6, <2>7, SameSnapshots DEF ForecastsKept
<1>2. ASSUME EndGenerate PROVE Inv'
  <2>1. UNCHANGED <<env, data, learner, active, past>>
    BY <1>2 DEF EndGenerate
  <2>2. run' = [run EXCEPT !.stage = "capture", !.todo = DayForecasts(run.asOf)]
        /\ run' \in Runs
    BY <1>2, DueTyped DEF EndGenerate, TypeOK, Runs, Stages
  <2> QED
    BY <2>1, <2>2 DEF TypeOK, RunInv, Runs, SnapshotIsForecast, Exists, env, data,
                      past, learner, DayForecasts
<1>3. EndGenerate => UNCHANGED data
  BY DEF EndGenerate
<1> QED
  BY <1>1, <1>2, <1>3, SameForecasts, SameSnapshots DEF GenerateSteps, data

LEMMA AssessStep ==
    ASSUME Inv, AssessSteps PROVE Inv' /\ ForecastsKept /\ SnapshotsKept
PROOF
<1> USE ConstantsAssumption DEF Inv
<1>1. ASSUME NEW p \in Pairs, Capture(p)
      PROVE  Inv' /\ SnapshotsKept /\ UNCHANGED forecast
  <2>1. UNCHANGED <<env, forecast, learner, active, past>>
    BY <1>1 DEF Capture
  <2>2. /\ run.stage = "capture" /\ p \in run.todo
        /\ run' = [run EXCEPT !.todo = @ \ {p}]
    BY <1>1 DEF Capture
  <2>3. run' \in Runs
    BY <2>2 DEF TypeOK, Runs
  <2>4. forecast[p] \in Forecasts /\ forecast[p].asOf = run.asOf
    BY <2>2, RowTyped DEF RunInv, TypeOK, Exists
  <2> DEFINE tag == TagFor(forecast[p].method, active)
             new == [stock |-> p[1], asOf |-> run.asOf, tag |-> tag,
                     target |-> p[2], served |-> forecast[p].method,
                     status |-> "pending"]
  <2>5. tag \in Tags
    BY <2>4, TagTyped DEF Forecasts, TypeOK
  <2>6. new \in Snapshots /\ <<new.stock, new.target>> = p
    BY <2>4, <2>5 DEF Snapshots, Forecasts, Pairs
  <2>7. snapshots' = snapshots \/ snapshots' = snapshots \cup {new}
    BY <1>1 DEF Capture
  <2>8. TypeOK'
    BY <2>1, <2>3, <2>6, <2>7 DEF TypeOK, env, learner, past
  <2>9. RunInv'
    BY <2>1, <2>2, <2>3, <2>7 DEF RunInv, Exists, TypeOK, Runs
  <2>10. SnapshotIsForecast'
    <3>1. forecast[p].by # "none" /\ forecast[p].asOf = new.asOf
          /\ forecast[p].method = new.served
      BY <2>4, RowTyped
    <3> HIDE DEF new
    <3> QED
      BY <2>1, <2>6, <2>7, <3>1 DEF SnapshotIsForecast
  <2> QED
    BY <2>1, <2>7, <2>8, <2>9, <2>10, SameSnapshots
<1>2. ASSUME NEW sn \in run.due, Outcome(sn)
      PROVE  Inv' /\ SnapshotsKept /\ UNCHANGED forecast
  <2>1. UNCHANGED <<env, forecast, learner, active, past>>
    BY <1>2 DEF Outcome
  <2>2. run.stage = "outcome" /\ run' = [run EXCEPT !.due = @ \ {sn}]
    BY <1>2 DEF Outcome
  <2>3. run' \in Runs
    BY <2>2 DEF TypeOK, Runs
  <2>4. sn \in snapshots /\ sn.status = "pending" /\ sn \in Snapshots
    BY DEF RunInv, TypeOK
  <2>5. PICK st \in {"pending", "settled", "excluded"} :
          snapshots' = (snapshots \ {sn}) \cup {[sn EXCEPT !.status = st]}
    BY <1>2 DEF Outcome
  <2> DEFINE new == [sn EXCEPT !.status = st]
  <2>6. /\ new \in Snapshots /\ new.stock = sn.stock /\ new.target = sn.target
        /\ new.asOf = sn.asOf /\ new.served = sn.served
        /\ [new EXCEPT !.status = sn.status] = sn
    BY <2>4 DEF Snapshots
  <2>7. snapshots' = (snapshots \ {sn}) \cup {new}
    BY <2>5
  <2> HIDE DEF new
  <2>8. TypeOK'
    BY <2>1, <2>3, <2>6, <2>7 DEF TypeOK, env, learner, past
  <2>9. RunInv'
    BY <2>1, <2>2, <2>3, <2>7 DEF RunInv, Exists, TypeOK, Runs
  <2>10. SnapshotIsForecast'
    <3> SUFFICES ASSUME NEW now \in snapshots'
                 PROVE  LET f == forecast[<<now.stock, now.target>>]
                        IN  /\ f.by # "none"
                            /\ f.by = "live" =>
                                 f.asOf = now.asOf /\ f.method = now.served
      BY <2>1 DEF SnapshotIsForecast
    <3>1. PICK old \in snapshots :
            /\ now.stock = old.stock /\ now.target = old.target
            /\ now.asOf = old.asOf /\ now.served = old.served
      BY <2>4, <2>6, <2>7
    <3> QED
      BY <3>1 DEF SnapshotIsForecast
  <2>11. SnapshotsKept
    <3> SUFFICES ASSUME NEW old \in snapshots
                 PROVE  \E now \in snapshots' :
                          /\ [now EXCEPT !.status = old.status] = old
                          /\ old.status # "pending" => now = old
      BY DEF SnapshotsKept
    <3>1. CASE old = sn
      BY <2>4, <2>6, <2>7, <3>1
    <3>2. CASE old # sn
      <4>1. old \in snapshots' /\ old \in Snapshots
        BY <2>7, <3>2 DEF TypeOK
      <4>2. [old EXCEPT !.status = old.status] = old
        BY <4>1 DEF Snapshots
      <4> QED
        BY <4>1, <4>2
    <3> QED
      BY <3>1, <3>2
  <2> QED
    BY <2>1, <2>8, <2>9, <2>10, <2>11
<1>3. ASSUME EndCapture PROVE Inv' /\ UNCHANGED data
  <2>1. UNCHANGED <<env, data, learner, active, past>>
    BY <1>3 DEF EndCapture
  <2> DEFINE due == {sn \in snapshots : /\ sn.status = "pending"
                                        /\ sn.target <= run.asOf}
  <2>2. due \subseteq Snapshots /\ due \subseteq {sn \in snapshots : sn.status = "pending"}
    BY DEF TypeOK
  <2>3. run' = Idle \/ run' = [run EXCEPT !.stage = "outcome", !.due = due]
    BY <1>3 DEF EndCapture
  <2> HIDE DEF due
  <2>4. CASE run' # Idle
    <3>1. run' \in Runs /\ run'.stage = "outcome" /\ run'.owed = run.owed
          /\ run'.due = due
      <4>1. run \in Runs /\ due \in SUBSET Snapshots
        BY <2>2 DEF TypeOK
      <4>2. run' = [run EXCEPT !.stage = "outcome", !.due = due]
        BY <2>3, <2>4
      <4> DEFINE mid == [run EXCEPT !.stage = "outcome"]
      <4>3. mid \in Runs /\ mid.stage = "outcome" /\ mid.owed = run.owed
        BY <4>1 DEF Runs, Stages
      <4>4. run' = [mid EXCEPT !.due = due]
        BY <4>2
      <4> HIDE DEF mid
      <4> QED
        BY <4>1, <4>3, <4>4 DEF Runs
    <3>2. RunInv'
      BY <2>1, <2>2, <3>1 DEF RunInv, Exists, data
    <3> QED
      BY <2>1, <3>1, <3>2
      DEF TypeOK, SnapshotIsForecast, env, data, past, learner
  <2>5. CASE run' = Idle
    BY <2>1, <2>5, IdleTyped, IdleFields
    DEF TypeOK, RunInv, SnapshotIsForecast, env, data, past, learner
  <2> QED
    BY <2>1, <2>4, <2>5
<1>4. ASSUME EndAssess PROVE Inv' /\ UNCHANGED data
  <2>1. UNCHANGED <<env, data, learner, active, past>> /\ run' = Idle
    BY <1>4 DEF EndAssess
  <2> QED
    BY <2>1, IdleTyped, IdleFields
    DEF TypeOK, RunInv, SnapshotIsForecast, env, data, past, learner
<1> QED
  BY <1>1, <1>2, <1>3, <1>4, SameForecasts, SameSnapshots DEF AssessSteps, data

LEMMA BackfillStep ==
    ASSUME Inv, BackfillSteps
    PROVE  Inv' /\ SnapshotsKept /\ run.kind = "backfill"
PROOF
<1> USE ConstantsAssumption DEF Inv
<1>1. run.stage = "backfill" /\ run.kind = "backfill"
  BY DEF BackfillSteps, Replay, ReplaySettle, ReplayedStock, EndBackfill, RunInv
<1>2. UNCHANGED snapshots
  BY DEF BackfillSteps, Replay, ReplaySettle, ReplayedStock, EndBackfill, data
<1>3. ASSUME NEW p \in Pairs, Replay(p) PROVE Inv'
  <2>1. UNCHANGED <<env, snapshots, learner, active, past>>
    BY <1>3 DEF Replay
  <2> DEFINE Row(d) == [asOf |-> d, method |-> "analogue", by |-> "backfill",
                        settled |-> FALSE]
  <2>2. \/ forecast' = forecast
        \/ \E d \in Days : forecast' = [forecast EXCEPT ![p] = Row(d)]
    BY <1>3 DEF Replay, Before
  <2>9. \A d \in Days : /\ Row(d) \in Forecasts /\ Row(d).by = "backfill"
                        /\ Row(d).method = "analogue"
    BY DEF Forecasts, Methods
  <2> HIDE DEF Row
  <2>3. forecast' \in [Pairs -> Forecasts \cup {NoForecast}]
    BY <2>2, <2>9 DEF TypeOK
  <2>4. /\ \A q \in Pairs : forecast'[q] = forecast[q] \/ forecast'[q].by = "backfill"
        /\ \A q \in Pairs : Exists(q) => Exists(q)'
    BY <2>2, <2>9 DEF TypeOK, Exists
  <2>5. /\ run' \in Runs /\ run'.stage = "backfill" /\ run'.kind = "backfill"
        /\ run'.due = run.due /\ (run'.owed = {} \/ (run'.owed = {p} /\ Exists(p)'))
    <3> DEFINE o == IF bar[p] = "traded" THEN {p} ELSE {}
    <3>1. \/ run' = [run EXCEPT !.todo = @ \ {p}, !.owed = o] /\ Exists(p)'
          \/ run' = [run EXCEPT !.todo = @ \ {p}] /\ run.owed = {}
      BY <1>3 DEF Replay, TypeOK, Exists
    <3>2. (o = {} \/ o = {p}) /\ o \in SUBSET Pairs
      OBVIOUS
    <3>3. run.todo \ {p} \in SUBSET Pairs
      BY DEF TypeOK, Runs
    <3> HIDE DEF o
    <3>4. CASE run' = [run EXCEPT !.todo = @ \ {p}, !.owed = o] /\ Exists(p)'
      <4>1. /\ run' \in Runs /\ run'.stage = run.stage /\ run'.kind = run.kind
            /\ run'.due = run.due /\ run'.owed = o
        <5>1. run \in Runs
          BY DEF TypeOK
        <5>2. run' = [run EXCEPT !.todo = run.todo \ {p}, !.owed = o]
          BY <3>4
        <5> DEFINE mid == [run EXCEPT !.todo = run.todo \ {p}]
        <5>3. /\ mid \in Runs /\ mid.stage = run.stage /\ mid.kind = run.kind
              /\ mid.due = run.due
          BY <3>3, <5>1 DEF Runs
        <5>4. run' = [mid EXCEPT !.owed = o]
          BY <5>2
        <5> HIDE DEF mid
        <5> QED
          BY <3>2, <5>3, <5>4 DEF Runs
      <4> QED
        BY <1>1, <3>2, <3>4, <4>1
    <3>5. CASE run' = [run EXCEPT !.todo = @ \ {p}] /\ run.owed = {}
      BY <1>1, <3>5 DEF TypeOK, Runs
    <3> QED
      BY <3>1, <3>4, <3>5
  <2>6. TypeOK'
    BY <2>1, <2>3, <2>5 DEF TypeOK, env, learner, past
  <2>7. RunInv'
    BY <2>1, <2>5 DEF RunInv
  <2>8. SnapshotIsForecast'
    <3>1. \A sn \in snapshots : <<sn.stock, sn.target>> \in Pairs
      BY DEF TypeOK, Snapshots, Pairs
    <3> QED
      BY <2>1, <2>4, <3>1 DEF SnapshotIsForecast
  <2> QED
    BY <2>6, <2>7, <2>8
<1>4. ASSUME NEW p \in Pairs, ReplaySettle(p) PROVE Inv'
  <2>1. UNCHANGED <<env, snapshots, learner, active, past>>
    BY <1>4 DEF ReplaySettle
  <2>2. run' = [run EXCEPT !.owed = {}, !.batch = @ \cup {p}] /\ p \in run.owed
    BY <1>4 DEF ReplaySettle
  <2>3. run' \in Runs
    BY <2>2 DEF TypeOK, Runs
  <2> DEFINE row == [forecast[p] EXCEPT !.settled = TRUE]
  <2>4. forecast[p] \in Forecasts
    BY <2>2, RowTyped DEF RunInv, TypeOK, Exists
  <2>5. /\ row \in Forecasts /\ row.method = forecast[p].method
        /\ row.asOf = forecast[p].asOf /\ row.by = forecast[p].by
    BY <2>4 DEF Forecasts
  <2>6. forecast' = [forecast EXCEPT ![p] = row]
    BY <1>4 DEF ReplaySettle
  <2> HIDE DEF row
  <2>7. forecast' \in [Pairs -> Forecasts \cup {NoForecast}]
    BY <2>5, <2>6 DEF TypeOK
  <2>8. \A q \in Pairs : /\ forecast'[q].method = forecast[q].method
                        /\ forecast'[q].asOf = forecast[q].asOf
                        /\ forecast'[q].by = forecast[q].by
    BY <2>5, <2>6 DEF TypeOK
  <2>9. TypeOK'
    BY <2>1, <2>3, <2>7 DEF TypeOK, env, learner, past
  <2>10. RunInv'
    BY <1>1, <2>1, <2>2 DEF RunInv, TypeOK, Runs
  <2>11. SnapshotIsForecast'
    <3>1. \A sn \in snapshots : <<sn.stock, sn.target>> \in Pairs
      BY DEF TypeOK, Snapshots, Pairs
    <3> QED
      BY <2>1, <2>8, <3>1 DEF SnapshotIsForecast
  <2> QED
    BY <2>9, <2>10, <2>11
<1>5. ASSUME NEW s \in Stocks, ReplayedStock(s) PROVE Inv'
  <2>1. UNCHANGED <<env, data, count, fallback, active, past>>
    BY <1>5 DEF ReplayedStock
  <2>2. run' = [run EXCEPT !.stocks = @ \ {s}] /\ run' \in Runs
    BY <1>5 DEF ReplayedStock, TypeOK, Runs
  <2>3. stockCount' \in [Stocks -> Nat]
    <3>1. {p \in run.batch : p[1] = s} \subseteq Pairs
      BY DEF TypeOK, Runs
    <3>2. Cardinality({p \in run.batch : p[1] = s}) \in Nat
      BY <3>1, PairsFinite, FS_Subset, FS_CardinalityType
    <3> QED
      BY <1>5, <3>2 DEF ReplayedStock, TypeOK
  <2> QED
    BY <2>1, <2>2, <2>3
    DEF TypeOK, RunInv, Runs, SnapshotIsForecast, Exists, env, data, past
<1>6. ASSUME EndBackfill PROVE Inv'
  <2>1. UNCHANGED <<env, data, stockCount, fallback, active, past>> /\ run' = Idle
    BY <1>6 DEF EndBackfill
  <2>2. count' \in Nat
    BY <1>6, SettledFinite, FS_CardinalityType DEF EndBackfill, TypeOK
  <2> QED
    BY <2>1, <2>2, IdleTyped, IdleFields
    DEF TypeOK, RunInv, SnapshotIsForecast, env, data, past
<1>7. Inv'
  BY <1>3, <1>4, <1>5, <1>6 DEF BackfillSteps
<1> QED
  BY <1>1, <1>2, <1>7, SameSnapshots

LEMMA NextInv ==
    ASSUME Inv, [Next]_vars
    PROVE  /\ Inv' /\ SnapshotsKept
           /\ run.kind # "backfill" => ForecastsKept
PROOF
<1>1. CASE UNCHANGED vars
  <2>1. Inv'
    BY <1>1 DEF vars, env, data, learner, past, Inv, TypeOK, RunInv, Exists,
                SnapshotIsForecast
  <2> QED
    BY <1>1, <2>1, SameForecasts, SameSnapshots DEF vars, data, Inv
<1>2. CASE RunStep
  BY <1>2, SettleStep, GenerateStep, AssessStep, BackfillStep DEF RunStep
<1> QED
  BY <1>1, <1>2, StartStep, SurroundingStep DEF Next

-----------------------------------------------------------------------------

\* The variables keep their types (rows of close_learn.py and the reliability
\* tables, and what a run keeps in between).
THEOREM TypeCorrect == Spec => []TypeOK
PROOF BY InitInv, NextInv, PTL DEF Spec, Inv

\* For any stocks and calendar and any number of crashes, retries, backfills
\* and activations: a snapshot records the forecast that was served.
THEOREM SnapshotCorrect == Spec => []SnapshotIsForecast
PROOF BY InitInv, NextInv, PTL DEF Spec, Inv

\* Only a backfill rewrites a forecast, and a snapshot changes its status
\* once: what was predicted and what it was settled to stays as it is.
THEOREM EvidenceStays == Spec => EvidenceFrozen
PROOF
<1>1. Inv /\ [Next]_vars =>
          [(run.kind # "backfill" => ForecastsKept) /\ SnapshotsKept]_vars
  BY NextInv
<1> QED
  BY <1>1, InitInv, NextInv, PTL DEF Spec, EvidenceFrozen

-----------------------------------------------------------------------------
\* What is learned: LearnedAtMostOnce.  The count of the learner is behind
\* the settled rows by what the run has settled and not yet learned, the
\* count of a stock by the row between its two saves.

Learning == run.stage \in {"settle", "downgrade", "learn"}
Replaying == run.stage = "backfill"
OwedOf(s) == {p \in run.owed : p[1] = s}

OwedInv ==
    /\ \A p \in run.owed : run.owed = {p}
    /\ run.owed # {} => run.stage = "settle" \/ Replaying
    /\ Replaying => /\ backfills > 0
                    /\ \A p \in run.todo \cup run.owed : p[1] \in run.stocks
    /\ Learning => run.batch \subseteq Settled

TradedInv ==
    /\ \A p \in Settled : bar[p] = "traded"
    /\ Replaying => \A p \in run.owed : bar[p] = "traded"

\* Without a backfill what is learned stays below what is settled.
BelowInv ==
    backfills = 0 =>
        /\ count <= Cardinality(Settled)
        /\ Learning => run.counted + Cardinality(run.batch)
                         <= Cardinality(Settled)
        /\ \A s \in Stocks : stockCount[s] + Cardinality(OwedOf(s))
                               <= Cardinality(SettledOf(s))

\* Without a crash it is exact between the steps that learn.
ExactInv ==
    crashes = 0 =>
        /\ (~Learning /\ ~Replaying) => count = Cardinality(Settled)
        /\ Learning => /\ run.counted = count
                       /\ count + Cardinality(run.batch) = Cardinality(Settled)
        /\ (Replaying /\ Settled = {} /\ run.owed = {}) => count = 0
        /\ (backfills = 0) => \A s \in Liquid :
               stockCount[s] + Cardinality(OwedOf(s)) = Cardinality(SettledOf(s))

CountInv == OwedInv /\ TradedInv /\ BelowInv /\ ExactInv

LEMMA Counted ==
    /\ Cardinality(Settled) \in Nat
    /\ \A s : Cardinality(SettledOf(s)) \in Nat
    /\ TypeOK => /\ IsFiniteSet(run.batch) /\ Cardinality(run.batch) \in Nat
                 /\ \A s : Cardinality(OwedOf(s)) \in Nat
PROOF
<1>1. Cardinality(Settled) \in Nat /\ \A s : Cardinality(SettledOf(s)) \in Nat
  BY SettledFinite, FS_CardinalityType
<1>2. ASSUME TypeOK
      PROVE  /\ IsFiniteSet(run.batch)
             /\ \A s : IsFiniteSet(OwedOf(s))
  <2>1. run.batch \subseteq Pairs /\ \A s : OwedOf(s) \subseteq Pairs
    BY <1>2 DEF TypeOK, Runs, OwedOf
  <2> QED
    BY <2>1, PairsFinite, FS_Subset
<1> QED
  BY <1>1, <1>2, FS_CardinalityType

LEMMA NothingOwed ==
    run.owed = {} => \A s : OwedOf(s) = {} /\ Cardinality(OwedOf(s)) = 0
PROOF BY FS_EmptySet DEF OwedOf

LEMMA CountInit == Init => CountInv
PROOF
<1> SUFFICES ASSUME Init PROVE CountInv
  OBVIOUS
<1>1. Settled = {} /\ \A s : SettledOf(s) = {}
  BY DEF Init, NoForecast, Settled, SettledOf
<1>2. run.owed = {} /\ run.stage = "idle" /\ run.batch = {}
  BY IdleFields DEF Init
<1>3. \A s \in Stocks : stockCount[s] = 0
  BY DEF Init
<1>4. count = 0 /\ Liquid \subseteq Stocks
  BY ConstantsAssumption DEF Init
<1> QED
  BY <1>1, <1>2, <1>3, <1>4, NothingOwed, FS_EmptySet
  DEF CountInv, OwedInv, TradedInv, BelowInv, ExactInv, Learning, Replaying

\* A step that neither settles nor learns, nor is part of a run that does.
LEMMA CountSame ==
    ASSUME TypeOK, CountInv, ~Learning, ~Replaying, ~Learning', ~Replaying',
           UNCHANGED <<Settled, bar, count, stockCount, backfills, crashes>>,
           run'.owed = {}
    PROVE  CountInv'
PROOF
<1>1. run.owed = {}
  BY DEF CountInv, OwedInv, Learning
<1>2. \A s : /\ SettledOf(s)' = SettledOf(s)
             /\ Cardinality(OwedOf(s)) = 0 /\ Cardinality(OwedOf(s)') = 0
  <2>1. \A s : OwedOf(s)' = {}
    BY DEF OwedOf
  <2> QED
    BY <1>1, <2>1, NothingOwed, FS_EmptySet DEF SettledOf
<1>3. OwedInv' /\ TradedInv'
  BY DEF CountInv, OwedInv, TradedInv
<1>4. BelowInv' /\ ExactInv'
  BY <1>2 DEF CountInv, BelowInv, ExactInv
<1> QED
  BY <1>3, <1>4 DEF CountInv

\* Settling p adds it to what is settled, to the batch, and, when its stock is
\* liquid, to what is owed.
LEMMA CountSettle ==
    ASSUME Inv, CountInv, NEW p \in Pairs, SettleForecast(p)
    PROVE  CountInv'
PROOF
<1> USE DEF Inv
<1>1. /\ run.stage = "settle" /\ run.owed = {} /\ p \in run.todo
      /\ UNCHANGED <<bar, count, stockCount, backfills, crashes>>
  BY DEF SettleForecast, env, learner, past
<1>2. ~forecast[p].settled /\ forecast[p] \in Forecasts
  BY <1>1, RowTyped DEF RunInv, TypeOK, Exists
<1>3. \A s : Cardinality(OwedOf(s)) = 0
  BY <1>1, NothingOwed
<1>4. CASE bar[p] = "traded"
  <2> DEFINE o == IF p[1] \in Liquid THEN {p} ELSE {}
             b == run.batch \cup {p}
  <2>1. run' = [run EXCEPT !.todo = @ \ {p}, !.batch = b, !.owed = o]
    BY <1>4 DEF SettleForecast
  <2>2. /\ run'.stage = "settle" /\ run'.batch = b /\ run'.owed = o
        /\ run'.counted = run.counted /\ run.counted \in Nat
    <3> HIDE DEF b, o
    <3> QED
      BY <1>1, <2>1 DEF TypeOK, Runs
  <2>3. forecast' = [forecast EXCEPT ![p].settled = TRUE]
    BY <1>4 DEF SettleForecast
  <2>4. \A q \in Pairs : forecast'[q].settled <=> (forecast[q].settled \/ q = p)
    <3>1. forecast'[p] = [forecast[p] EXCEPT !.settled = TRUE]
      BY <2>3 DEF TypeOK
    <3>2. forecast'[p].settled
      BY <1>2, <3>1 DEF Forecasts
    <3>3. \A q \in Pairs : q # p => forecast'[q] = forecast[q]
      BY <2>3 DEF TypeOK
    <3> QED
      BY <3>2, <3>3
  <2>5. p \notin Settled /\ Settled' = Settled \cup {p}
    BY <1>2, <2>4 DEF Settled
  <2>6. \A s : SettledOf(s)' = IF s = p[1] THEN SettledOf(s) \cup {p}
                               ELSE SettledOf(s)
    BY <2>5 DEF SettledOf
  <2>7. Cardinality(Settled') = Cardinality(Settled) + 1
    BY <2>5, SettledFinite, FS_AddElement
  <2>8. \A s : Cardinality(SettledOf(s)') = IF s = p[1]
                 THEN Cardinality(SettledOf(s)) + 1 ELSE Cardinality(SettledOf(s))
    <3> SUFFICES ASSUME NEW s
                 PROVE  Cardinality(SettledOf(s)') = IF s = p[1]
                          THEN Cardinality(SettledOf(s)) + 1
                          ELSE Cardinality(SettledOf(s))
      OBVIOUS
    <3>1. p \notin SettledOf(s) /\ IsFiniteSet(SettledOf(s))
      BY <2>5, SettledFinite DEF SettledOf
    <3>2. Cardinality(SettledOf(s) \cup {p}) = Cardinality(SettledOf(s)) + 1
      BY <3>1, FS_AddElement
    <3> QED
      BY <2>6, <3>2
  <2>9. p \notin run.batch /\ Cardinality(b) = Cardinality(run.batch) + 1
    BY <1>1, <2>5, Counted, FS_AddElement DEF CountInv, OwedInv, Learning
  <2>10. \A s \in Stocks : Cardinality(OwedOf(s)') =
              IF s = p[1] /\ s \in Liquid THEN 1 ELSE 0
    <3>1. \A s : OwedOf(s)' = IF s = p[1] /\ s \in Liquid THEN {p} ELSE {}
      BY <2>2 DEF OwedOf
    <3> QED
      BY <3>1, FS_EmptySet, FS_Singleton
  <2>11. OwedInv' /\ TradedInv'
    BY <1>1, <1>4, <2>2, <2>5
    DEF CountInv, OwedInv, TradedInv, Learning, Replaying
  <2> HIDE DEF b, o
  <2>12. BelowInv'
    <3>1. ASSUME backfills = 0, NEW s \in Stocks
          PROVE  stockCount'[s] + Cardinality(OwedOf(s)')
                   <= Cardinality(SettledOf(s)')
      <4>1. stockCount[s] \in Nat /\ stockCount[s] <= Cardinality(SettledOf(s))
        BY <1>3, <3>1 DEF CountInv, BelowInv, TypeOK
      <4> QED
        BY <1>1, <2>8, <2>10, <4>1, Counted
    <3>2. ASSUME backfills = 0
          PROVE  /\ count' <= Cardinality(Settled')
                 /\ run'.counted + Cardinality(run'.batch) <= Cardinality(Settled')
      <4>1. /\ count <= Cardinality(Settled) /\ count \in Nat
            /\ run.counted + Cardinality(run.batch) <= Cardinality(Settled)
        BY <1>1, <3>2 DEF CountInv, BelowInv, Learning, TypeOK
      <4> QED
        BY <1>1, <2>2, <2>7, <2>9, <4>1, Counted
    <3> QED
      BY <1>1, <3>1, <3>2 DEF BelowInv
  <2>13. ExactInv'
    <3>1. ASSUME crashes = 0, backfills = 0, NEW s \in Liquid
          PROVE  stockCount'[s] + Cardinality(OwedOf(s)')
                   = Cardinality(SettledOf(s)')
      <4>1. s \in Stocks
        BY ConstantsAssumption
      <4>2. stockCount[s] \in Nat /\ stockCount[s] = Cardinality(SettledOf(s))
        BY <1>3, <3>1, <4>1 DEF CountInv, ExactInv, TypeOK
      <4> QED
        BY <1>1, <2>8, <2>10, <4>1, <4>2, Counted
    <3>2. ASSUME crashes = 0
          PROVE  /\ run'.counted = count'
                 /\ count' + Cardinality(run'.batch) = Cardinality(Settled')
      <4>1. /\ run.counted = count
            /\ count + Cardinality(run.batch) = Cardinality(Settled)
        BY <1>1, <3>2 DEF CountInv, ExactInv, Learning
      <4> QED
        BY <1>1, <2>2, <2>7, <2>9, <4>1, Counted
    <3> QED
      BY <1>1, <2>2, <3>1, <3>2 DEF ExactInv, Learning, Replaying
  <2> QED
    BY <2>11, <2>12, <2>13 DEF CountInv
<1>5. CASE bar[p] # "traded"
  <2>1. run' = [run EXCEPT !.todo = @ \ {p}] /\ UNCHANGED forecast
    BY <1>5 DEF SettleForecast
  <2>2. /\ run'.stage = run.stage /\ run'.batch = run.batch
        /\ run'.owed = run.owed /\ run'.counted = run.counted
    BY <2>1 DEF TypeOK, Runs
  <2> QED
    BY <1>1, <2>1, <2>2
    DEF CountInv, OwedInv, TradedInv, BelowInv, ExactInv, Learning, Replaying,
        Settled, SettledOf, OwedOf
<1> QED
  BY <1>4, <1>5

LEMMA CountLearnStock ==
    ASSUME Inv, CountInv, NEW p \in Pairs, LearnStock(p)
    PROVE  CountInv'
PROOF
<1> USE DEF Inv
<1>1. /\ run.stage = "settle" /\ run.owed = {p}
      /\ UNCHANGED <<forecast, bar, count, backfills, crashes>>
  BY DEF LearnStock, CountInv, OwedInv, env, data, past
<1>2. run' = [run EXCEPT !.owed = {}]
      /\ stockCount' = [stockCount EXCEPT ![p[1]] = @ + 1]
  BY DEF LearnStock
<1>3. /\ run'.stage = run.stage /\ run'.batch = run.batch
      /\ run'.owed = {} /\ run'.counted = run.counted
  BY <1>2 DEF TypeOK, Runs
<1>4. UNCHANGED Settled /\ \A s : SettledOf(s)' = SettledOf(s)
  BY <1>1 DEF Settled, SettledOf
<1>5. \A s \in Stocks :
        stockCount'[s] + Cardinality(OwedOf(s)')
          = stockCount[s] + Cardinality(OwedOf(s))
  <2> SUFFICES ASSUME NEW s \in Stocks
               PROVE  stockCount'[s] + Cardinality(OwedOf(s)')
                        = stockCount[s] + Cardinality(OwedOf(s))
    OBVIOUS
  <2>1. OwedOf(s)' = {} /\ OwedOf(s) = IF s = p[1] THEN {p} ELSE {}
    BY <1>1, <1>3 DEF OwedOf
  <2>2. Cardinality(OwedOf(s)') = 0
        /\ Cardinality(OwedOf(s)) = IF s = p[1] THEN 1 ELSE 0
    BY <2>1, FS_EmptySet, FS_Singleton
  <2> QED
    BY <1>2, <2>2 DEF TypeOK
<1>6. OwedInv' /\ TradedInv'
  BY <1>1, <1>3, <1>4 DEF CountInv, OwedInv, TradedInv, Learning, Replaying
<1>7. BelowInv' /\ ExactInv'
  BY <1>1, <1>3, <1>4, <1>5, ConstantsAssumption
  DEF CountInv, BelowInv, ExactInv, Learning, Replaying
<1> QED
  BY <1>6, <1>7 DEF CountInv

LEMMA CountSettleSteps ==
    ASSUME Inv, CountInv, SettleSteps PROVE CountInv'
PROOF
<1> USE DEF Inv
<1>1. ASSUME EndLoop \/ Downgrade PROVE CountInv'
  <2>1. /\ Learning /\ run'.stage \in {"downgrade", "learn"}
        /\ run'.batch = run.batch /\ run'.owed = run.owed /\ run.owed = {}
        /\ run'.counted = run.counted
        /\ UNCHANGED <<forecast, bar, count, stockCount, backfills, crashes>>
    <3>1. /\ run.stage \in {"settle", "downgrade"} /\ run.owed = {}
          /\ UNCHANGED <<forecast, bar, count, stockCount, backfills, crashes>>
      BY <1>1 DEF EndLoop, Downgrade, CountInv, OwedInv, Replaying, env, data,
                  learner, past
    <3>2. \/ run' = [run EXCEPT !.stage = "downgrade"]
          \/ run' = [run EXCEPT !.stage = "learn"]
      BY <1>1 DEF EndLoop, Downgrade
    <3> QED
      BY <3>1, <3>2 DEF TypeOK, Runs, Learning
  <2>2. UNCHANGED Settled /\ \A s : /\ SettledOf(s)' = SettledOf(s)
                                    /\ OwedOf(s)' = OwedOf(s)
    BY <2>1 DEF Settled, SettledOf, OwedOf
  <2>3. Learning' /\ ~Replaying' /\ ~Replaying
    BY <2>1 DEF Learning, Replaying
  <2>4. OwedInv' /\ TradedInv'
    BY <2>1, <2>2, <2>3 DEF CountInv, OwedInv, TradedInv
  <2> QED
    BY <2>1, <2>2, <2>3, <2>4 DEF CountInv, BelowInv, ExactInv
<1>2. ASSUME Learn PROVE CountInv'
  <2>1. /\ run.stage = "learn" /\ run.owed = {} /\ Learning
        /\ UNCHANGED <<forecast, bar, stockCount, backfills, crashes>>
    BY <1>2 DEF Learn, CountInv, OwedInv, Learning, Replaying, env, data, past
  <2>2. run'.stage = "gate" /\ run'.owed = {}
    BY <1>2, <2>1 DEF Learn, TypeOK, Runs
  <2>3. UNCHANGED Settled /\ \A s : /\ SettledOf(s)' = SettledOf(s)
                                    /\ OwedOf(s)' = OwedOf(s)
    BY <2>1, <2>2 DEF Settled, SettledOf, OwedOf
  <2>4. count' = IF run.batch = {} THEN count
                 ELSE run.counted + Cardinality(run.batch)
    BY <1>2 DEF Learn
  <2>5. backfills = 0 => count' <= Cardinality(Settled)
    BY <2>1, <2>4 DEF CountInv, BelowInv
  <2>6. crashes = 0 => count' = Cardinality(Settled)
    <3> SUFFICES ASSUME crashes = 0 PROVE count' = Cardinality(Settled)
      OBVIOUS
    <3>1. /\ run.counted = count /\ count \in Nat
          /\ count + Cardinality(run.batch) = Cardinality(Settled)
      BY <2>1 DEF CountInv, ExactInv, TypeOK
    <3>2. CASE run.batch = {}
      BY <2>4, <3>1, <3>2, FS_EmptySet
    <3>3. CASE run.batch # {}
      BY <2>4, <3>1, <3>3
    <3> QED
      BY <3>2, <3>3
  <2>7. OwedInv' /\ TradedInv'
    BY <2>1, <2>2, <2>3 DEF CountInv, OwedInv, TradedInv, Learning, Replaying
  <2> QED
    BY <2>1, <2>2, <2>3, <2>5, <2>6, <2>7
    DEF CountInv, BelowInv, ExactInv, Learning, Replaying
<1>3. ASSUME Gate PROVE CountInv'
  <2>1. /\ run.stage = "gate" /\ run.owed = {}
        /\ UNCHANGED <<forecast, bar, count, stockCount, backfills, crashes>>
    BY <1>3 DEF Gate, CountInv, OwedInv, Replaying, env, data, past
  <2>2. run'.owed = {} /\ run'.stage \in {"generate", "idle"}
    <3>1. CASE run.kind = "cycle"
      BY <1>3, <2>1, <3>1 DEF Gate, TypeOK, Runs
    <3>2. CASE run.kind # "cycle"
      BY <1>3, <3>2, IdleFields DEF Gate
    <3> QED
      BY <3>1, <3>2
  <2>3. UNCHANGED Settled
    BY <2>1 DEF Settled
  <2> QED
    BY <2>1, <2>2, <2>3, CountSame DEF Learning, Replaying
<1> QED
  BY <1>1, <1>2, <1>3, CountSettle, CountLearnStock DEF SettleSteps

\* Generating adds rows that are not settled.
LEMMA CountGenerate ==
    ASSUME Inv, CountInv, NEW p \in Pairs, Generate(p)
    PROVE  CountInv'
PROOF
<1> USE DEF Inv
<1>1. /\ run.stage = "generate" /\ run.owed = {}
      /\ UNCHANGED <<bar, count, stockCount, backfills, crashes>>
  BY DEF Generate, CountInv, OwedInv, Replaying, env, learner, past
<1>2. run'.stage = "generate" /\ run'.owed = {}
  BY <1>1 DEF Generate, TypeOK, Runs
<1>3. \A q \in Pairs : forecast'[q].settled <=> forecast[q].settled
  <2> DEFINE Row(m) == [asOf |-> run.asOf, method |-> m, by |-> "live",
                        settled |-> FALSE]
  <2>1. \/ UNCHANGED forecast
        \/ ~Exists(p) /\ \E m : forecast' = [forecast EXCEPT ![p] = Row(m)]
    BY DEF Generate
  <2>2. \A m : Row(m).settled = FALSE
    OBVIOUS
  <2> HIDE DEF Row
  <2>3. ~Exists(p) => ~forecast[p].settled
    <3>1. ~Exists(p) => forecast[p] = NoForecast
      BY RowTyped DEF TypeOK, Exists
    <3> QED
      BY <3>1 DEF NoForecast
  <2>4. CASE UNCHANGED forecast
    BY <2>4
  <2>5. CASE ~Exists(p) /\ \E m : forecast' = [forecast EXCEPT ![p] = Row(m)]
    <3>1. forecast'[p].settled = FALSE
          /\ \A q \in Pairs : q # p => forecast'[q] = forecast[q]
      BY <2>2, <2>5 DEF TypeOK
    <3> QED
      BY <2>3, <2>5, <3>1
  <2> QED
    BY <2>1, <2>4, <2>5
<1>4. UNCHANGED Settled
  BY <1>3 DEF Settled
<1> QED
  BY <1>1, <1>2, <1>4, CountSame DEF Learning, Replaying

LEMMA CountOthers ==
    ASSUME Inv, CountInv, StartGenerate \/ StartAssess \/ EndGenerate \/ AssessSteps
    PROVE  CountInv'
PROOF
<1> USE DEF Inv
<1> DEFINE Away == {"idle", "generate", "capture", "outcome"}
<1>1. /\ run.stage \in Away
      /\ UNCHANGED <<forecast, bar, count, stockCount, backfills, crashes>>
  BY DEF StartGenerate, StartAssess, EndGenerate, AssessSteps, Capture, Outcome,
         EndCapture, EndAssess, env, data, learner, past
<1>2. run.owed = {}
  BY <1>1 DEF CountInv, OwedInv, Replaying
<1>3. run'.owed = {} /\ run'.stage \in Away
  <2>1. CASE StartGenerate \/ StartAssess
    BY <2>1 DEF StartGenerate, StartAssess, Idle
  <2>2. CASE EndGenerate
    BY <1>2, <2>2 DEF EndGenerate, TypeOK, Runs
  <2>3. ASSUME NEW p \in Pairs, Capture(p) 
        PROVE  run'.owed = {} /\ run'.stage \in Away
    <3>1. run' = [run EXCEPT !.todo = @ \ {p}]
      BY <2>3 DEF Capture
    <3> QED
      BY <1>1, <1>2, <3>1 DEF TypeOK, Runs
  <2>4. ASSUME NEW sn \in run.due, Outcome(sn) 
        PROVE  run'.owed = {} /\ run'.stage \in Away
    <3>1. run' = [run EXCEPT !.due = @ \ {sn}]
      BY <2>4 DEF Outcome
    <3> QED
      BY <1>1, <1>2, <3>1 DEF TypeOK, Runs
  <2>5. CASE EndCapture \/ EndAssess
    <3> DEFINE due == {sn \in snapshots : /\ sn.status = "pending"
                                          /\ sn.target <= run.asOf}
    <3>1. run' = Idle \/ run' = [run EXCEPT !.stage = "outcome", !.due = due]
      BY <2>5 DEF EndCapture, EndAssess
    <3> HIDE DEF due
    <3>2. CASE run' # Idle
      BY <1>2, <3>1, <3>2 DEF TypeOK, Runs
    <3> QED
      BY <3>2, IdleFields
  <2> QED
    BY <2>1, <2>2, <2>3, <2>4, <2>5 DEF AssessSteps
<1>4. UNCHANGED Settled
  BY <1>1 DEF Settled
<1> QED
  BY <1>1, <1>3, <1>4, CountSame DEF Learning, Replaying

LEMMA CountStartSettle ==
    ASSUME Inv, CountInv, NEW work, StartSettle(work) PROVE CountInv'
PROOF
<1> USE DEF Inv
<1>1. /\ run.stage = "idle"
      /\ UNCHANGED <<forecast, bar, count, stockCount, backfills, crashes>>
  BY DEF StartSettle, env, data, learner, past
<1>2. run.owed = {} /\ ~Learning /\ ~Replaying
  BY <1>1 DEF CountInv, OwedInv, Learning, Replaying
<1>3. /\ run'.stage = "settle" /\ run'.owed = {} /\ run'.batch = {}
      /\ run'.counted = count
  BY DEF StartSettle, Idle
<1>4. UNCHANGED Settled /\ \A s : SettledOf(s)' = SettledOf(s)
  BY <1>1 DEF Settled, SettledOf
<1>5. Learning' /\ ~Replaying' /\ Cardinality(run'.batch) = 0
  BY <1>3, FS_EmptySet DEF Learning, Replaying
<1>6. \A s : Cardinality(OwedOf(s)) = 0 /\ Cardinality(OwedOf(s)') = 0
  <2>1. \A s : OwedOf(s)' = {}
    BY <1>3 DEF OwedOf
  <2> QED
    BY <1>2, <2>1, NothingOwed, FS_EmptySet
<1>7. OwedInv' /\ TradedInv'
  BY <1>1, <1>2, <1>3, <1>4, <1>5 DEF CountInv, OwedInv, TradedInv
<1>8. BelowInv'
  BY <1>1, <1>2, <1>3, <1>4, <1>5, <1>6 DEF CountInv, BelowInv, TypeOK
<1>9. ExactInv'
  <2>1. crashes = 0 => count = Cardinality(Settled) /\ count \in Nat
    BY <1>2 DEF CountInv, ExactInv, TypeOK
  <2> QED
    BY <1>1, <1>2, <1>3, <1>4, <1>5, <1>6, <2>1 DEF CountInv, ExactInv
<1> QED
  BY <1>7, <1>8, <1>9 DEF CountInv

\* A backfill forgets what is below; what it replays had traded, so it settles
\* again what it takes up.
LEMMA CountBackfill ==
    ASSUME Inv, CountInv, StartBackfill \/ BackfillSteps PROVE CountInv'
PROOF
<1> USE DEF Inv
<1>1. ASSUME StartBackfill PROVE CountInv'
  <2>1. /\ run.stage = "idle" /\ backfills' > 0
        /\ UNCHANGED <<forecast, bar, count, stockCount, crashes>>
    BY <1>1 DEF StartBackfill, TypeOK, env, data, learner
  <2>2. /\ run'.stage = "backfill" /\ run'.owed = {}
        /\ \A p \in run'.todo : p[1] \in run'.stocks
    BY <1>1 DEF StartBackfill, Idle
  <2>3. UNCHANGED Settled
    BY <2>1 DEF Settled
  <2>4. ~Learning /\ ~Replaying /\ ~Learning' /\ Replaying'
    BY <2>1, <2>2 DEF Learning, Replaying
  <2>5. crashes = 0 /\ Settled = {} => count = 0
    BY <2>4, FS_EmptySet DEF CountInv, ExactInv
  <2> QED
    BY <2>1, <2>2, <2>3, <2>4, <2>5
    DEF CountInv, OwedInv, TradedInv, BelowInv, ExactInv
<1>2. ASSUME BackfillSteps PROVE CountInv'
  <2>1. /\ Replaying /\ ~Learning /\ backfills > 0
        /\ UNCHANGED <<bar, backfills, crashes>>
    BY <1>2 DEF BackfillSteps, Replay, ReplaySettle, ReplayedStock, EndBackfill,
                CountInv, OwedInv, Learning, Replaying, env, past
  <2>2. ASSUME NEW p \in Pairs, Replay(p) PROVE CountInv'
    <3>1. run.owed = {} /\ UNCHANGED count
      BY <2>2 DEF Replay, learner
    <3>2. /\ run'.stage = "backfill"
          /\ run'.owed = {} \/ (run'.owed = {p} /\ bar[p] = "traded")
          /\ run'.todo \subseteq run.todo /\ run'.stocks = run.stocks
          /\ p \in run.todo
      <4> DEFINE o == IF bar[p] = "traded" THEN {p} ELSE {}
      <4>1. \/ run' = [run EXCEPT !.todo = @ \ {p}, !.owed = o]
            \/ run' = [run EXCEPT !.todo = @ \ {p}]
        BY <2>2 DEF Replay
      <4>2. p \in run.todo
        BY <2>2 DEF Replay
      <4>3. o = {} \/ (o = {p} /\ bar[p] = "traded")
        OBVIOUS
      <4> HIDE DEF o
      <4>4. /\ run'.stage = run.stage /\ run'.stocks = run.stocks
            /\ run'.todo = run.todo \ {p}
        BY <4>1 DEF TypeOK, Runs
      <4>5. run'.owed = o \/ run'.owed = run.owed
        BY <4>1 DEF TypeOK, Runs
      <4> QED
        BY <2>1, <3>1, <4>2, <4>3, <4>4, <4>5 DEF Replaying
    <3>3. \A q \in Pairs : q # p => forecast'[q] = forecast[q]
      BY <2>2 DEF Replay, TypeOK
    <3>4. Settled' = Settled \/ Settled' = Settled \ {p}
      <4>1. \/ UNCHANGED forecast
            \/ forecast'[p].settled = FALSE
        <5> DEFINE Row(d) == [asOf |-> d, method |-> "analogue",
                              by |-> "backfill", settled |-> FALSE]
        <5>1. \/ UNCHANGED forecast
              \/ \E d : forecast' = [forecast EXCEPT ![p] = Row(d)]
          BY <2>2 DEF Replay
        <5>2. \A d : Row(d).settled = FALSE
          OBVIOUS
        <5> HIDE DEF Row
        <5> QED
          BY <5>1, <5>2 DEF TypeOK
      <4> QED
        BY <3>3, <4>1 DEF Settled
    <3>5. Settled' \cup run'.owed = {} => Settled = {}
      <4>1. p \in Settled => bar[p] = "traded"
        BY DEF CountInv, TradedInv
      <4>2. \/ run'.owed = {p}
            \/ UNCHANGED forecast
            \/ bar[p] # "traded"
        <5>1. CASE bar[p] = "traded" /\ ~UNCHANGED forecast
          <6>1. run' = [run EXCEPT !.todo = @ \ {p}, !.owed = {p}]
            BY <2>2, <5>1 DEF Replay
          <6> QED
            BY <6>1 DEF TypeOK, Runs
        <5> QED
          BY <5>1
      <4>3. UNCHANGED forecast => Settled' = Settled
        BY DEF Settled
      <4> QED
        BY <3>4, <4>1, <4>2, <4>3
    <3>6. TradedInv' /\ OwedInv'
      BY <2>1, <3>2, <3>4
      DEF CountInv, TradedInv, OwedInv, Replaying, Learning
    <3>7. BelowInv' /\ ExactInv'
      BY <2>1, <3>1, <3>2, <3>5
      DEF CountInv, BelowInv, ExactInv, Replaying, Learning
    <3> QED
      BY <3>6, <3>7 DEF CountInv
  <2>3. ASSUME NEW p \in Pairs, ReplaySettle(p) PROVE CountInv'
    <3>1. p \in run.owed /\ UNCHANGED count
          /\ run' = [run EXCEPT !.owed = {}, !.batch = @ \cup {p}]
          /\ forecast' = [forecast EXCEPT ![p].settled = TRUE]
      BY <2>3 DEF ReplaySettle, learner
    <3>2. /\ run'.stage = "backfill" /\ run'.owed = {}
          /\ run'.todo = run.todo /\ run'.stocks = run.stocks
      BY <2>1, <3>1 DEF TypeOK, Runs, Replaying
    <3>3. Settled' = Settled \cup {p}
      <4>1. forecast[p] \in Forecasts
        BY <3>1, RowTyped DEF RunInv, TypeOK, Exists
      <4>2. forecast'[p] = [forecast[p] EXCEPT !.settled = TRUE]
            /\ \A q \in Pairs : q # p => forecast'[q] = forecast[q]
        BY <3>1 DEF TypeOK
      <4>3. forecast'[p].settled
        BY <4>1, <4>2 DEF Forecasts
      <4> QED
        BY <4>2, <4>3 DEF Settled
    <3>4. bar[p] = "traded"
      BY <2>1, <3>1 DEF CountInv, TradedInv
    <3> QED
      BY <2>1, <3>1, <3>2, <3>3, <3>4
      DEF CountInv, TradedInv, OwedInv, BelowInv, ExactInv, Replaying, Learning
  <2>4. ASSUME NEW s \in Stocks, ReplayedStock(s) PROVE CountInv'
    <3>1. run.owed = {} /\ UNCHANGED <<forecast, count>>
          /\ run' = [run EXCEPT !.stocks = @ \ {s}]
          /\ \A p \in run.todo : p[1] # s
      BY <2>4 DEF ReplayedStock, data
    <3>2. /\ run'.stage = "backfill" /\ run'.owed = {}
          /\ run'.todo = run.todo /\ run'.stocks = run.stocks \ {s}
      BY <2>1, <3>1 DEF TypeOK, Runs, Replaying
    <3>3. UNCHANGED Settled
      BY <3>1 DEF Settled
    <3> QED
      BY <2>1, <3>1, <3>2, <3>3
      DEF CountInv, TradedInv, OwedInv, BelowInv, ExactInv, Replaying, Learning
  <2>5. ASSUME EndBackfill PROVE CountInv'
    <3>1. run' = Idle /\ UNCHANGED forecast
          /\ count' = IF Settled = {} THEN count ELSE Cardinality(Settled)
      BY <2>5 DEF EndBackfill, data
    <3>2. UNCHANGED Settled
      BY <3>1 DEF Settled
    <3>3. run'.stage = "idle" /\ run'.owed = {} /\ ~Learning' /\ ~Replaying'
      BY <3>1, IdleFields DEF Learning, Replaying
    <3>4. run.owed = {}
      BY <2>1, <2>5 DEF EndBackfill, CountInv, OwedInv
    <3> QED
      BY <2>1, <3>1, <3>2, <3>3, <3>4, FS_EmptySet
      DEF CountInv, TradedInv, OwedInv, BelowInv, ExactInv
  <2> QED
    BY <1>2, <2>2, <2>3, <2>4, <2>5 DEF BackfillSteps
<1> QED
  BY <1>1, <1>2

LEMMA CountSurroundings ==
    ASSUME Inv, CountInv, Surroundings PROVE CountInv'
PROOF
<1> USE DEF Inv
<1>1. UNCHANGED <<forecast, count, stockCount, backfills>>
  BY DEF Surroundings, Crash, NextDay, BarArrives, SetActive, data, learner, past
<1>2. UNCHANGED Settled /\ \A s : SettledOf(s)' = SettledOf(s)
  BY <1>1 DEF Settled, SettledOf
<1>3. CASE Crash
  <2>1. crashes' # 0 /\ UNCHANGED bar /\ run' = Idle
    BY <1>3 DEF Crash, env, TypeOK
  <2>2. run'.owed = {} /\ ~Learning' /\ ~Replaying'
    BY <2>1, IdleFields DEF Learning, Replaying
  <2>3. \A s : Cardinality(OwedOf(s)') = 0
    <3>1. \A s : OwedOf(s)' = {}
      BY <2>2 DEF OwedOf
    <3> QED
      BY <3>1, FS_EmptySet
  <2>4. BelowInv'
    <3>1. ASSUME backfills = 0, NEW s \in Stocks
          PROVE  stockCount[s] + 0 <= Cardinality(SettledOf(s))
      <4>1. stockCount[s] + Cardinality(OwedOf(s)) <= Cardinality(SettledOf(s))
        BY <3>1 DEF CountInv, BelowInv
      <4> QED
        BY <4>1, Counted DEF TypeOK
    <3> QED
      BY <1>1, <1>2, <2>2, <2>3, <3>1 DEF CountInv, BelowInv
  <2> QED
    BY <1>1, <1>2, <2>1, <2>2, <2>4
    DEF CountInv, OwedInv, TradedInv, ExactInv
<1>4. CASE ~Crash
  <2>1. UNCHANGED <<run, crashes>>
    BY <1>4 DEF Surroundings, NextDay, BarArrives, SetActive, past
  <2>2. \A q \in Pairs : bar[q] = "traded" => bar'[q] = "traded"
    BY <1>4 DEF Surroundings, NextDay, BarArrives, SetActive, env, TypeOK
  <2>3. /\ Learning' = Learning /\ Replaying' = Replaying
        /\ \A s : OwedOf(s)' = OwedOf(s)
    BY <2>1 DEF Learning, Replaying, OwedOf
  <2>4. Settled \subseteq Pairs /\ run.owed \subseteq Pairs
    BY DEF Settled, TypeOK, Runs
  <2>5. TradedInv' /\ OwedInv'
    BY <1>1, <1>2, <2>1, <2>2, <2>3, <2>4 DEF CountInv, TradedInv, OwedInv
  <2>6. BelowInv' /\ ExactInv'
    BY <1>1, <1>2, <2>1, <2>3 DEF CountInv, BelowInv, ExactInv
  <2> QED
    BY <2>5, <2>6 DEF CountInv
<1> QED
  BY <1>3, <1>4

LEMMA CountNext == Inv /\ CountInv /\ [Next]_vars => CountInv'
PROOF
<1> SUFFICES ASSUME Inv, CountInv, [Next]_vars PROVE CountInv'
  OBVIOUS
<1>1. CASE UNCHANGED vars
  <2>1. UNCHANGED <<run, forecast, bar, count, stockCount, backfills, crashes>>
    BY <1>1 DEF vars, env, data, learner, past
  <2> QED
    BY <2>1
    DEF CountInv, OwedInv, TradedInv, BelowInv, ExactInv, Learning, Replaying,
        Settled, SettledOf, OwedOf
<1>2. CASE RunStep
  BY <1>2, CountSettleSteps, CountGenerate, CountOthers, CountBackfill
  DEF RunStep, GenerateSteps
<1>3. CASE Start
  BY <1>3, CountStartSettle, CountOthers, CountBackfill DEF Start
<1> QED
  BY <1>1, <1>2, <1>3, CountSurroundings DEF Next

LEMMA CountInvLearned == TypeOK /\ CountInv => LearnedAtMostOnce
PROOF
<1> SUFFICES ASSUME TypeOK, CountInv PROVE LearnedAtMostOnce
  OBVIOUS
<1>1. ASSUME backfills = 0, NEW s \in Stocks
      PROVE  stockCount[s] <= Cardinality(SettledOf(s))
  <2>1. stockCount[s] + Cardinality(OwedOf(s)) <= Cardinality(SettledOf(s))
    BY <1>1 DEF CountInv, BelowInv
  <2> QED
    BY <2>1, Counted DEF TypeOK
<1>2. ASSUME run.stage = "idle", backfills = 0, crashes = 0, NEW s \in Liquid
      PROVE  stockCount[s] = Cardinality(SettledOf(s))
  <2>1. stockCount[s] + Cardinality(OwedOf(s)) = Cardinality(SettledOf(s))
    BY <1>2 DEF CountInv, ExactInv
  <2>2. Cardinality(OwedOf(s)) = 0
    BY <1>2, NothingOwed DEF CountInv, OwedInv, Replaying
  <2> QED
    BY <2>1, <2>2, ConstantsAssumption DEF TypeOK
<1> QED
  BY <1>1, <1>2
  DEF LearnedAtMostOnce, CountInv, BelowInv, ExactInv, Learning, Replaying

\* For any stocks and any number of crashes, retries and backfills: the
\* learner counts a settled forecast at most once, and exactly once when no
\* run is cut short.
THEOREM LearnedOnce == Spec => []LearnedAtMostOnce
PROOF
<1>1. Inv /\ CountInv /\ [Next]_vars => (Inv /\ CountInv)'
  BY NextInv, CountNext
<1>2. Init => Inv /\ CountInv
  BY InitInv, CountInit
<1>3. Inv /\ CountInv => LearnedAtMostOnce
  BY CountInvLearned DEF Inv
<1> QED
  BY <1>1, <1>2, <1>3, PTL DEF Spec

(***************************************************************************)
(* The folds.                                                              *)
(***************************************************************************)
LEMMA PlaceType ==
    ASSUME NEW S, IsFiniteSet(S), S \subseteq Nat, NEW n \in S
    PROVE  /\ IsFiniteSet({m \in S : m < n})
           /\ PlacesOf(S)[n] = Cardinality({m \in S : m < n})
           /\ PlacesOf(S)[n] \in Nat
           /\ DOMAIN PlacesOf(S) = S
PROOF
<1>1. {m \in S : m < n} \in SUBSET S
  OBVIOUS
<1>2. IsFiniteSet({m \in S : m < n}) /\ Cardinality({m \in S : m < n}) \in Nat
  BY <1>1, FS_Subset, FS_CardinalityType
<1> QED
  BY <1>2 DEF PlacesOf

\* Every place has a number.
LEMMA PlaceTaken ==
    ASSUME NEW S, IsFiniteSet(S), S \subseteq Nat, NEW p \in Nat, p < Cardinality(S)
    PROVE  NumberAt(PlacesOf(S), p) \in S /\ PlacesOf(S)[NumberAt(PlacesOf(S), p)] = p
PROOF
<1> DEFINE Below(s, n) == Cardinality({m \in s : m < n})
           T == {s \in SUBSET S : \A q \in Nat : q < Cardinality(s) => \E n \in s : Below(s, n) = q}
<1>1. ASSUME NEW s \in SUBSET S, s # {}, \A x \in s : s \ {x} \in T PROVE s \in T
  <2> DEFINE top == Max(s)
             t == s \ {top}
  <2>1. IsFiniteSet(s) /\ s \in SUBSET Int /\ Cardinality(s) \in Nat
    <3>1. IsFiniteSet(s)
      BY FS_Subset
    <3> QED
      BY <3>1, FS_CardinalityType
  <2>2. top \in s /\ \A y \in s : top >= y
    BY <1>1, <2>1, Greatest
  <2>3. t \in T /\ Cardinality(t) = Cardinality(s) - 1
    BY <1>1, <2>1, <2>2, FS_RemoveElement
  <2> HIDE DEF top
  <2>4. {m \in s : m < top} = t
    <3>1. \A y \in s : y \in Int
      BY <2>1
    <3>2. \A y \in s : y < top <=> y # top
      BY <2>2, <3>1
    <3> QED
      BY <3>2
  <2>5. Below(s, top) = Cardinality(s) - 1
    BY <2>3, <2>4
  <2>6. ASSUME NEW q \in Nat, q < Cardinality(s), q # Cardinality(s) - 1
        PROVE  \E n \in s : Below(s, n) = q
    <3>1. q < Cardinality(t)
      BY <2>1, <2>3, <2>6
    <3>2. PICK n \in t : Below(t, n) = q
      BY <2>3, <3>1
    <3>3. {m \in s : m < n} = {m \in t : m < n}
      BY <2>1, <2>2, <3>2
    <3> QED
      BY <3>2, <3>3
  <2>7. \A q \in Nat : q < Cardinality(s) => \E n \in s : Below(s, n) = q
    BY <2>2, <2>5, <2>6
  <2> QED
    BY <2>7
<1>2. {} \in T
  BY FS_EmptySet
<1>3. T = SUBSET S
  <2>1. T \in SUBSET SUBSET S
    OBVIOUS
  <2> HIDE DEF T
  <2> QED
    BY <1>1, <1>2, <2>1, SubsetInduction
<1>4. PICK n \in S : Below(S, n) = p
  BY <1>3
<1>5. DOMAIN PlacesOf(S) = S /\ PlacesOf(S)[n] = p
  BY <1>4 DEF PlacesOf
<1>6. \E k \in DOMAIN PlacesOf(S) : PlacesOf(S)[k] = p
  BY <1>5
<1>7. NumberAt(PlacesOf(S), p) \in DOMAIN PlacesOf(S) /\ PlacesOf(S)[NumberAt(PlacesOf(S), p)] = p
  BY <1>6 DEF NumberAt
<1> QED
  BY <1>5, <1>7

\* A later place is that of a larger number.
LEMMA PlacesRise ==
    ASSUME NEW S, IsFiniteSet(S), S \subseteq Nat, NEW a \in S, NEW b \in S, a <= b
    PROVE  PlacesOf(S)[a] <= PlacesOf(S)[b]
PROOF
<1>1. {m \in S : m < a} \in SUBSET {m \in S : m < b}
  <2>1. a \in Nat /\ b \in Nat
    OBVIOUS
  <2>2. ASSUME NEW m \in S, m < a PROVE m < b
    <3>1. m \in Nat
      OBVIOUS
    <3> QED
      BY <2>1, <2>2, <3>1
  <2>3. \A x \in {m \in S : m < a} : x \in {m \in S : m < b}
    BY <2>2
  <2> HIDE DEF PlacesOf
  <2> QED
    BY <2>3, Zenon
<1>2. IsFiniteSet({m \in S : m < b})
  BY PlaceType
<1>3. Cardinality({m \in S : m < a}) <= Cardinality({m \in S : m < b})
  BY <1>1, <1>2, FS_Subset
<1> QED
  BY <1>3, PlaceType

\* The weekdays of a fortnight are ten.
LEMMA Fortnight ==
    ASSUME NEW d \in Nat, d % 7 <= 4
    PROVE  LET W == {e \in (d + 1)..(d + 14) : e % 7 <= 4}
           IN  IsFiniteSet(W) /\ Cardinality(W) = 10
PROOF
<1> DEFINE I == (d + 1)..(d + 14)
           r == d % 7
           a == d + (5 - r)
           b == d + (6 - r)
           c == d + (12 - r)
           f == d + (13 - r)
           W == {e \in I : e % 7 <= 4}
<1>1. r \in 0..4 /\ \E q \in Nat : d = 7 * q + r
  BY Z3
<1>2. a \in I /\ b \in I /\ c \in I /\ f \in I /\ a # b /\ a # c /\ a # f /\ b # c /\ b # f /\ c # f
  BY <1>1
<1>3. ASSUME NEW e \in I PROVE e % 7 <= 4 <=> e \notin {a, b, c, f}
  BY <1>1, Z3
<1>4. W = (((I \ {a}) \ {b}) \ {c}) \ {f}
  BY <1>3
<1>5. IsFiniteSet(I) /\ Cardinality(I) = 14
  BY FS_Interval
<1> HIDE DEF I, a, b, c, f
<1>6. IsFiniteSet(I \ {a}) /\ Cardinality(I \ {a}) = 13
  BY <1>2, <1>5, FS_RemoveElement
<1>7. IsFiniteSet((I \ {a}) \ {b}) /\ Cardinality((I \ {a}) \ {b}) = 12
  BY <1>2, <1>6, FS_RemoveElement
<1>8. IsFiniteSet(((I \ {a}) \ {b}) \ {c}) /\ Cardinality(((I \ {a}) \ {b}) \ {c}) = 11
  BY <1>2, <1>7, FS_RemoveElement
<1>9. IsFiniteSet(W) /\ Cardinality(W) = 10
  BY <1>2, <1>4, <1>8, FS_RemoveElement
<1> QED
  BY <1>9 DEF I

\* Where bars are the weekdays, the close ten bars later is within a fortnight,
\* the next within three days.
LEMMA LabelSoon ==
    ASSUME NEW d \in DOMAIN LabelsOf(Weekdays, Horizon[model]), model \in Tasks
    PROVE  /\ d \in Nat /\ LabelsOf(Weekdays, Horizon[model])[d] \in Nat
           /\ LabelsOf(Weekdays, Horizon[model])[d] <= d + Embargo[model]
PROOF
<1> DEFINE W == Weekdays
           h == Horizon[model]
           e == LabelsOf(W, h)[d]
<1>1. IsFiniteSet(W) /\ W \subseteq Nat /\ \A x \in W : x \in Nat /\ x % 7 <= 4 /\ x <= HistoryDays - 1
  <2>1. W \in SUBSET (0..HistoryDays - 1) /\ IsFiniteSet(0..HistoryDays - 1)
    BY FoldsAssumption, FS_Interval DEF Weekdays
  <2>2. IsFiniteSet(W)
    BY <2>1, FS_Subset
  <2> QED
    BY <2>2, FoldsAssumption DEF Weekdays
<1>2. h \in {1, 10} /\ (h = 10 => Embargo[model] = 14) /\ (h = 1 => Embargo[model] = 3)
  BY DEF Tasks, Horizon, Embargo
<1> HIDE DEF W, h
<1>3. /\ d \in W /\ PlacesOf(W)[d] \in Nat /\ PlacesOf(W)[d] + h < Cardinality(W)
      /\ e = NumberAt(PlacesOf(W), PlacesOf(W)[d] + h)
  <2>1. DOMAIN LabelsOf(W, h) = {b \in W : PlacesOf(W)[b] + h < Cardinality(W)}
    BY DEF LabelsOf
  <2>2. d \in W /\ PlacesOf(W)[d] + h < Cardinality(W)
    BY <2>1 DEF W, h
  <2>3. PlacesOf(W)[d] \in Nat
    BY <1>1, <2>2, PlaceType
  <2> QED
    BY <2>1, <2>2, <2>3 DEF LabelsOf
<1>4. e \in W /\ PlacesOf(W)[e] = PlacesOf(W)[d] + h
  <2>1. PICK p \in Nat : p = PlacesOf(W)[d] + h
    BY <1>2, <1>3
  <2>2. p < Cardinality(W) /\ e = NumberAt(PlacesOf(W), p)
    BY <1>3, <2>1
  <2>3. NumberAt(PlacesOf(W), p) \in W /\ PlacesOf(W)[NumberAt(PlacesOf(W), p)] = p
    BY <1>1, <2>2, PlaceTaken
  <2> HIDE DEF e
  <2> QED
    BY <2>1, <2>2, <2>3
<1> HIDE DEF e
<1>5. e \in Nat /\ d \in Nat /\ d % 7 <= 4 /\ e <= HistoryDays - 1
  BY <1>1, <1>3, <1>4
<1> DEFINE Below(n) == {m \in W : m < n}
<1>6. \A n \in W : IsFiniteSet(Below(n)) /\ PlacesOf(W)[n] = Cardinality(Below(n))
  BY <1>1, PlaceType
<1>7. ASSUME NEW A, A \subseteq W, IsFiniteSet(A), \A x \in A : d < x /\ x < e
      PROVE  Cardinality(A) < h
  <2>0. \A x \in W : x \in Nat
    BY <1>1
  <2>1. d \notin Below(d) \cup A /\ Below(d) \cap A = {}
    <3>1. \A x \in A : x \in Nat /\ d < x /\ x # d /\ ~(x < d)
      BY <1>5, <1>7, <2>0
    <3>2. \A x \in Below(d) : x < d /\ x \in Nat
      BY <2>0
    <3>3. d \notin Below(d)
      BY <1>5
    <3> QED
      BY <3>1, <3>2, <3>3
  <2>2. IsFiniteSet(Below(d)) /\ IsFiniteSet(Below(d) \cup A)
    BY <1>3, <1>6, <1>7, FS_Union
  <2>3. Cardinality(Below(d) \cup A) = Cardinality(Below(d)) + Cardinality(A)
    <3>1. Cardinality(Below(d) \cap A) = 0
      BY <2>1, FS_EmptySet
    <3>2. Cardinality(Below(d) \cup A)
            = Cardinality(Below(d)) + Cardinality(A) - Cardinality(Below(d) \cap A)
      BY <1>7, <2>2, FS_Union
    <3>3. Cardinality(Below(d)) \in Nat /\ Cardinality(A) \in Nat
      BY <1>7, <2>2, FS_CardinalityType
    <3> QED
      BY <3>1, <3>2, <3>3
  <2>4. /\ IsFiniteSet((Below(d) \cup A) \cup {d})
        /\ Cardinality((Below(d) \cup A) \cup {d}) = Cardinality(Below(d) \cup A) + 1
    BY <2>1, <2>2, FS_AddElement
  <2>5. d < e
    <3>1. ASSUME e <= d PROVE FALSE
      <4>1. PlacesOf(W)[e] <= PlacesOf(W)[d]
        BY <1>1, <1>3, <1>4, <3>1, PlacesRise
      <4> QED
        BY <1>2, <1>3, <1>4, <4>1
    <3> QED
      BY <1>5, <3>1
  <2>6. (Below(d) \cup A) \cup {d} \in SUBSET Below(e)
    <3>1. \A x \in A : x \in W /\ x < e
      BY <1>7
    <3>2. \A x \in Below(d) : x \in W /\ x < e
      BY <1>5, <2>0, <2>5
    <3> QED
      BY <1>3, <2>5, <3>1, <3>2
  <2>7. Cardinality((Below(d) \cup A) \cup {d}) <= Cardinality(Below(e))
    BY <1>4, <1>6, <2>6, FS_Subset
  <2>8. Cardinality(Below(d)) = PlacesOf(W)[d] /\ Cardinality(Below(e)) = PlacesOf(W)[d] + h
    BY <1>3, <1>4, <1>6
  <2>9. Cardinality(A) \in Nat
    BY <1>7, FS_CardinalityType
  <2> HIDE DEF Below
  <2> QED
    BY <1>2, <1>3, <2>3, <2>4, <2>7, <2>8, <2>9
<1>8. \A x \in Nat : x % 7 <= 4 /\ x < e => x \in W
  BY <1>5, FoldsAssumption DEF W, Weekdays
<1>9. CASE h = 10
  <2> SUFFICES ASSUME e > d + 14 PROVE FALSE
    BY <1>2, <1>5, <1>9 DEF e, W, h
  <2> DEFINE A == {x \in (d + 1)..(d + 14) : x % 7 <= 4}
  <2>1. IsFiniteSet(A) /\ Cardinality(A) = 10
    BY <1>5, Fortnight
  <2>2. A \subseteq W /\ \A x \in A : d < x /\ x < e
    BY <1>5, <1>8
  <2> HIDE DEF A
  <2>3. Cardinality(A) < h
    BY <1>7, <2>1, <2>2
  <2> QED
    BY <1>9, <2>1, <2>3
<1>10. CASE h = 1
  <2> SUFFICES ASSUME e > d + 3 PROVE FALSE
    BY <1>2, <1>5, <1>10 DEF e, W, h
  <2>1. PICK x \in Nat : x % 7 <= 4 /\ d < x /\ x <= d + 3
    <3>1. (d + 1) % 7 <= 4 \/ (d + 3) % 7 <= 4
      BY <1>5, Z3
    <3> QED
      BY <1>5, <3>1
  <2>2. x \in W /\ x < e
    BY <1>5, <1>8, <2>1
  <2>3. IsFiniteSet({x}) /\ Cardinality({x}) = 1
    BY FS_Singleton
  <2>4. {x} \subseteq W /\ \A y \in {x} : d < y /\ y < e
    BY <2>1, <2>2
  <2>5. Cardinality({x}) < h
    BY <1>7, <2>3, <2>4
  <2> QED
    BY <1>10, <2>3, <2>5
<1> QED
  BY <1>2, <1>9, <1>10

LEMMA Tenth ==
    ASSUME NEW m \in Nat
    PROVE  m \div 10 \in Nat /\ 10 * (m \div 10) <= m
PROOF
  OBVIOUS

LEMMA EdgesArePlaces ==
    ASSUME NEW n \in Nat, n >= 2, NEW w \in {3, 5}
    PROVE  Edges(n, w) \subseteq 0..(n - 1)
PROOF
<1> DEFINE first == Max({(n * 4) \div 10, 1})
<1>1. (n * 4) \div 10 \in Nat /\ (n * 4) \div 10 <= n - 1
  <2>1. PICK m \in Nat : m = n * 4
    OBVIOUS
  <2>2. PICK q : q = m \div 10
    OBVIOUS
  <2>3. q \in Nat /\ 10 * q <= 4 * n
    BY <2>1, <2>2, Tenth
  <2> QED
    BY <2>1, <2>2, <2>3
<1>2. first \in {(n * 4) \div 10, 1}
  <2>1. {(n * 4) \div 10, 1} \in SUBSET Int /\ IsFiniteSet({(n * 4) \div 10, 1})
    <3>1. IsFiniteSet({1}) /\ {(n * 4) \div 10, 1} = {1} \cup {(n * 4) \div 10}
      BY FS_Singleton
    <3>2. IsFiniteSet({1} \cup {(n * 4) \div 10})
      BY <3>1, FS_AddElement
    <3> QED
      BY <1>1, <3>1, <3>2
  <2> QED
    BY <2>1, Greatest
<1>3. first \in Nat /\ first <= n - 1
  BY <1>1, <1>2
<1>4. ASSUME NEW k \in 0..w PROVE first + ((n - 1 - first) * k) \div w \in 0..(n - 1)
  <2> HIDE DEF first
  <2>1. PICK g \in Nat : g = n - 1 - first
    BY <1>3
  <2>2. (g * k) \div w \in 0..g
    <3>1. CASE w = 3
      <4>1. k \in {0, 1, 2, 3}
        BY <3>1
      <4> QED
        BY <3>1, <4>1, Z3
    <3>2. CASE w = 5
      <4>1. k \in {0, 1, 2, 3, 4, 5}
        BY <3>2
      <4> QED
        BY <3>2, <4>1, Z3
    <3> QED
      BY <3>1, <3>2
  <2>3. ((n - 1 - first) * k) \div w \in 0..g
    BY <2>1, <2>2
  <2> DEFINE x == ((n - 1 - first) * k) \div w
  <2>4. x \in 0..g
    BY <2>3
  <2> HIDE DEF x
  <2>5. first + x \in 0..(n - 1)
    BY <1>3, <2>1, <2>4
  <2> QED
    BY <2>5 DEF x
<1> HIDE DEF first
<1>5. Edges(n, w) = {first + ((n - 1 - first) * k) \div w : k \in 0..w}
  BY DEF Edges, first
<1> QED
  BY <1>4, <1>5

\* Every fold tests some date.
LEMMA FoldTests ==
    ASSUME NEW dates, dates \subseteq 0..HistoryDays - 1, NEW w \in {3, 5}
    PROVE  /\ Len(FoldsOf(dates, w)) \in Nat
           /\ \A k \in 1..Len(FoldsOf(dates, w)) :
                FoldsOf(dates, w)[k] # {} /\ FoldsOf(dates, w)[k] \subseteq dates
PROOF
<1> DEFINE E == Edges(Cardinality(dates), w)
           edge == PlacesOf(E)
           place == PlacesOf(dates)
<1>1. IsFiniteSet(dates) /\ dates \subseteq Nat /\ Cardinality(dates) \in Nat
  <2>1. IsFiniteSet(0..HistoryDays - 1)
    BY FoldsAssumption, FS_Interval
  <2>2. IsFiniteSet(dates)
    BY <2>1, FS_Subset
  <2> QED
    BY <2>2, FoldsAssumption, FS_CardinalityType
<1>2. CASE Cardinality(dates) < MinDates
  <2>1. FoldsOf(dates, w) = <<>>
    BY <1>2 DEF FoldsOf
  <2> QED
    BY <2>1
<1> SUFFICES ASSUME ~(Cardinality(dates) < MinDates)
             PROVE  /\ Len(FoldsOf(dates, w)) \in Nat
                    /\ \A k \in 1..Len(FoldsOf(dates, w)) :
                         FoldsOf(dates, w)[k] # {} /\ FoldsOf(dates, w)[k] \subseteq dates
  BY <1>2
<1>0. ~(Cardinality(dates) < MinDates)
  OBVIOUS
<1>3. Cardinality(dates) >= 2
  BY <1>0, <1>1, FoldsAssumption
<1>4. E \in SUBSET (0..(Cardinality(dates) - 1)) /\ E \subseteq Nat /\ IsFiniteSet(E) /\ Cardinality(E) \in Nat
  <2> HIDE DEF E
  <2>1. E \in SUBSET (0..(Cardinality(dates) - 1))
    BY <1>1, <1>3, EdgesArePlaces DEF E
  <2>2. IsFiniteSet(0..(Cardinality(dates) - 1))
    BY <1>1, FS_Interval
  <2>3. IsFiniteSet(E)
    BY <2>1, <2>2, FS_Subset
  <2> QED
    BY <1>1, <2>1, <2>3, FS_CardinalityType
<1>5. DOMAIN edge = E
  BY DEF PlacesOf
<1>6. FoldsOf(dates, w) = [j \in 1..Cardinality(E) - 1 |->
                             {d \in dates : place[d] \in NumberAt(edge, j - 1)..NumberAt(edge, j)}]
  BY <1>0, <1>5 DEF FoldsOf
<1> HIDE DEF E, edge, place
<1>7. Len(FoldsOf(dates, w)) \in Nat /\ Len(FoldsOf(dates, w)) <= Cardinality(E)
      /\ \A k \in 1..Len(FoldsOf(dates, w)) : k \in Nat /\ k >= 1 /\ k <= Cardinality(E) - 1
  <2>1. Cardinality(E) - 1 \in Nat \/ Cardinality(E) = 0
    BY <1>4
  <2>2. CASE Cardinality(E) = 0
    <3>1. 1..Cardinality(E) - 1 = {}
      BY <2>2
    <3>2. FoldsOf(dates, w) = <<>>
      BY <1>6, <3>1
    <3> QED
      BY <2>2, <3>2
  <2>3. CASE Cardinality(E) - 1 \in Nat
    <3>1. Len(FoldsOf(dates, w)) = Cardinality(E) - 1
      BY <1>6, <2>3
    <3> QED
      BY <1>4, <2>3, <3>1
  <2> QED
    BY <2>1, <2>2, <2>3
<1>15. ASSUME NEW k \in 1..Len(FoldsOf(dates, w))
      PROVE  FoldsOf(dates, w)[k] # {} /\ FoldsOf(dates, w)[k] \subseteq dates
  <2> DEFINE test == {d \in dates : place[d] \in NumberAt(edge, k - 1)..NumberAt(edge, k)}
             a == NumberAt(edge, k - 1)
             b == NumberAt(edge, k)
  <2>0. k \in Nat /\ k - 1 \in Nat /\ k - 1 < Cardinality(E) /\ k < Cardinality(E)
        /\ k \in 1..Cardinality(E) - 1
    BY <1>4, <1>7
  <2>1. FoldsOf(dates, w)[k] = test
    BY <1>6, <2>0
  <2>2. a \in E /\ edge[a] = k - 1 /\ b \in E /\ edge[b] = k
    <3>1. PICK p \in Nat : p = k - 1
      BY <2>0
    <3>2. NumberAt(PlacesOf(E), p) \in E /\ PlacesOf(E)[NumberAt(PlacesOf(E), p)] = p
      BY <1>4, <2>0, <3>1, PlaceTaken
    <3>3. NumberAt(PlacesOf(E), k) \in E /\ PlacesOf(E)[NumberAt(PlacesOf(E), k)] = k
      BY <1>4, <2>0, PlaceTaken
    <3> QED
      BY <3>1, <3>2, <3>3 DEF edge
  <2>3. a \in 0..(Cardinality(dates) - 1) /\ b \in 0..(Cardinality(dates) - 1)
    BY <1>4, <2>2
  <2>4. a < b
    <3>1. ASSUME b <= a PROVE FALSE
      <4>1. edge[b] <= edge[a]
        BY <1>4, <2>2, <3>1, PlacesRise DEF edge
      <4> QED
        BY <1>7, <2>2, <4>1
    <3> QED
      BY <1>1, <2>3, <3>1
  <2> HIDE DEF a, b
  <2>5. NumberAt(place, a) \in dates /\ place[NumberAt(place, a)] = a
    <3>1. a \in Nat /\ a < Cardinality(dates)
      BY <1>1, <2>3
    <3> QED
      BY <1>1, <3>1, PlaceTaken DEF place
  <2>6. a \in a..b
    BY <1>1, <2>3, <2>4
  <2>7. NumberAt(place, a) \in test
    BY <2>5, <2>6 DEF a, b
  <2> QED
    BY <2>1, <2>7
<1> QED
  BY <1>7, <1>15

-----------------------------------------------------------------------------
FoldsInv ==
    /\ model \in Tasks
    /\ PanelDates \subseteq 0..HistoryDays - 1
    /\ folds = FoldsOf(PanelDates, NFolds[model])
    /\ fold = 0 \/ fold \in 1..Len(folds)
    /\ regular => label["steady"] = LabelsOf(Weekdays, Horizon[model])

LEMMA FoldsStart == FoldsInit => FoldsInv
PROOF
<1> SUFFICES ASSUME FoldsInit PROVE FoldsInv
  OBVIOUS
<1>1. PICK closure \in Stretches(MaxClosure), missed \in Stretches(MaxMissed) :
        LET bars == [steady |-> Weekdays \ closure, gappy |-> Weekdays \ (closure \cup missed)]
        IN  /\ regular = (closure = {})
            /\ label = [s \in PanelStocks |-> LabelsOf(bars[s], Horizon[model])]
  BY DEF FoldsInit
<1> DEFINE bars == [steady |-> Weekdays \ closure, gappy |-> Weekdays \ (closure \cup missed)]
<1>2. /\ regular = (closure = {})
      /\ label = [s \in PanelStocks |-> LabelsOf(bars[s], Horizon[model])]
  BY <1>1
<1>3. \A s \in PanelStocks : bars[s] \subseteq Weekdays
  BY DEF PanelStocks
<1>4. bars["steady"] = Weekdays \ closure
  OBVIOUS
<1> HIDE DEF bars
<1>5. \A B : DOMAIN LabelsOf(B, Horizon[model]) \subseteq B
  BY DEF LabelsOf
<1>6. \A s \in PanelStocks : label[s] = LabelsOf(bars[s], Horizon[model])
  BY <1>2
<1>7. \A s \in PanelStocks : DOMAIN label[s] \subseteq Weekdays
  BY <1>3, <1>5, <1>6
<1>8. PanelDates \subseteq 0..HistoryDays - 1
  BY <1>7 DEF PanelDates, Weekdays
<1>9. ASSUME regular PROVE label["steady"] = LabelsOf(Weekdays, Horizon[model])
  <2>1. closure = {} /\ Weekdays \ closure = Weekdays
    BY <1>2, <1>9
  <2> QED
    BY <1>4, <1>6, <2>1 DEF PanelStocks
<1>10. folds = FoldsOf(PanelDates, NFolds[model]) /\ fold = 0 /\ model \in Tasks
  BY DEF FoldsInit
<1> QED
  BY <1>8, <1>9, <1>10 DEF FoldsInv

LEMMA FoldsKept == FoldsInv /\ [FoldsNext]_foldVars => FoldsInv'
PROOF
<1> SUFFICES ASSUME FoldsInv, [FoldsNext]_foldVars PROVE FoldsInv'
  OBVIOUS
<1>1. CASE UNCHANGED foldVars
  BY <1>1 DEF foldVars, FoldsInv, PanelDates
<1>2. CASE FoldsNext
  <2>1. fold < Len(folds) /\ fold' = fold + 1 /\ UNCHANGED <<model, label, folds, regular>>
    BY <1>2 DEF FoldsNext, EvaluateForward, EvaluateClose, NextFold
  <2>2. Len(folds) \in Nat
    <3>1. NFolds[model] \in {3, 5}
      BY DEF FoldsInv, Tasks, NFolds
    <3> QED
      BY <3>1, FoldTests DEF FoldsInv
  <2>3. fold' \in 1..Len(folds)
    BY <2>1, <2>2 DEF FoldsInv
  <2> QED
    BY <2>1, <2>3 DEF FoldsInv, PanelDates
<1> QED
  BY <1>1, <1>2

\* Whatever the length of the history, the closures and the days a share missed:
\* in a history without closures, a share that trades in every session teaches
\* nothing later than the first close of the test window (ml_training.py).
THEOREM EmbargoHolds == FoldsSpec => []OnlyTheFirstCloseLeaks
PROOF
<1>1. FoldsInv => OnlyTheFirstCloseLeaks
  <2> SUFFICES ASSUME FoldsInv, fold > 0, regular,
                      NEW d \in TrainRows("steady", folds[fold])
               PROVE  label["steady"][d] <= Min(folds[fold])
    BY DEF OnlyTheFirstCloseLeaks
  <2>1. NFolds[model] \in {3, 5} /\ Embargo[model] \in Nat /\ model \in Tasks
    BY DEF FoldsInv, Tasks, NFolds, Embargo
  <2>2. fold \in 1..Len(folds)
    BY DEF FoldsInv
  <2>3. folds[fold] # {} /\ folds[fold] \subseteq PanelDates
    BY <2>1, <2>2, FoldTests DEF FoldsInv
  <2>4. folds[fold] \subseteq Nat
    <3>1. PanelDates \subseteq 0..HistoryDays - 1
      BY DEF FoldsInv
    <3>2. \A x \in 0..HistoryDays - 1 : x \in Nat
      BY FoldsAssumption
    <3> HIDE DEF PanelDates
    <3> QED
      BY <2>3, <3>1, <3>2
  <2>5. Min(folds[fold]) \in Nat
    BY <2>3, <2>4, Smallest
  <2>6. d \in DOMAIN label["steady"] /\ d <= Min(folds[fold]) - Embargo[model]
    BY DEF TrainRows, TrainEnd
  <2>7. label["steady"] = LabelsOf(Weekdays, Horizon[model])
    BY DEF FoldsInv
  <2>8. d \in Nat /\ label["steady"][d] \in Nat /\ label["steady"][d] <= d + Embargo[model]
    BY <2>1, <2>6, <2>7, LabelSoon
  <2> QED
    BY <2>1, <2>5, <2>6, <2>8
<1> QED
  BY <1>1, FoldsStart, FoldsKept, PTL DEF FoldsSpec

(***************************************************************************)
(* The studies.  `best` is not beaten by anything tried so far that may    *)
(* win, and is one of the results.                                         *)
(***************************************************************************)
Results == [accuracy : Int, brier : 0..998, coverage : Nat]
MayWin(x) == study = "recent" \/ Cleared(x)

ScoresKept ==
    /\ study \in {"regime", "recent"} /\ tried \in Nat
    /\ \A x \in DOMAIN scores :
         x[1] \in Nat /\ x[1] <= tried /\ x[2] \in DOMAIN Bands /\ scores[x] \in Results

\* A round without a model leaves no result, and then no round has one.
RoundsKept ==
    /\ best # Nothing => \A c \in 1..tried : <<c, 1>> \in DOMAIN scores
    /\ tried > 0 => (study = "regime" => Untunable = {})
    /\ best # Nothing => tried > 0
    /\ \/ study = "regime" /\ Fitted("initial") = {} /\ best = Nothing
       \/ ~(study = "regime" /\ Fitted("initial") = {})
            /\ \A c \in 1..tried : <<c, 1>> \in DOMAIN scores

BestKept ==
    /\ best # Nothing =>
         /\ <<best.config, best.band>> \in DOMAIN scores
         /\ best.result = scores[<<best.config, best.band>>]
         /\ MayWin(best.result)
    /\ \A x \in DOMAIN scores :
         MayWin(scores[x]) => best # Nothing /\ ~Better(scores[x], best.result)

StudyInv == ScoresKept /\ RoundsKept /\ BestKept

-----------------------------------------------------------------------------
LEMMA WorstIsWorse ==
    ASSUME NEW x \in Results
    PROVE  /\ OrWorst(x.brier) \in Int
           /\ x.brier # 0 => OrWorst(x.brier) = x.brier
           /\ x.brier = 0 => OrWorst(x.brier) = 999
           /\ x.accuracy \in Int /\ x.coverage \in Nat /\ x.brier \in 0..998
BY DEF Results, OrWorst

\* Results are ordered.
LEMMA BetterOrders ==
    ASSUME NEW x \in Results, NEW y \in Results, NEW z \in Results
    PROVE  /\ ~Better(x, x)
           /\ ~Better(x, y) /\ Better(z, y) => ~Better(x, z)
           /\ ~Better(x, y) /\ ~Better(y, z) => ~Better(x, z)
PROOF
<1>1. PICK a \in Int, b \in Int, c \in Int :
        a = OrWorst(x.brier) /\ b = OrWorst(y.brier) /\ c = OrWorst(z.brier)
  BY WorstIsWorse
<1>2. PICK a1 \in Int, b1 \in Int, c1 \in Int : a1 = x.accuracy /\ b1 = y.accuracy /\ c1 = z.accuracy
  BY WorstIsWorse
<1>3. PICK a2 \in Int, b2 \in Int, c2 \in Int : a2 = x.coverage /\ b2 = y.coverage /\ c2 = z.coverage
  BY WorstIsWorse
<1>4. /\ Better(x, x) <=> a1 > a1 \/ (a1 = a1 /\ (a < a \/ (a = a /\ a2 > a2)))
      /\ Better(x, y) <=> a1 > b1 \/ (a1 = b1 /\ (a < b \/ (a = b /\ a2 > b2)))
      /\ Better(z, y) <=> c1 > b1 \/ (c1 = b1 /\ (c < b \/ (c = b /\ c2 > b2)))
      /\ Better(x, z) <=> a1 > c1 \/ (a1 = c1 /\ (a < c \/ (a = c /\ a2 > c2)))
      /\ Better(y, z) <=> b1 > c1 \/ (b1 = c1 /\ (b < c \/ (b = c /\ b2 > c2)))
  BY <1>1, <1>2, <1>3 DEF Better
<1> QED
  BY <1>4

\* What is not worse than a result with a Brier score has none of 0.
LEMMA NotBeaten ==
    ASSUME NEW x \in Results, NEW y \in Results, ~Better(x, y)
    PROVE  /\ x.accuracy <= y.accuracy
           /\ x.accuracy = y.accuracy /\ x.brier # 0 => y.brier \in 1..x.brier
PROOF
<1>1. PICK a \in Int, b \in Int : a = OrWorst(x.brier) /\ b = OrWorst(y.brier)
  BY WorstIsWorse
<1>2. ~(x.accuracy > y.accuracy) /\ (x.accuracy = y.accuracy => ~(a < b))
  BY <1>1 DEF Better
<1>3. x.accuracy \in Int /\ y.accuracy \in Int /\ x.brier \in 0..998 /\ y.brier \in 0..998
      /\ (x.brier # 0 => a = x.brier) /\ (y.brier # 0 => b = y.brier) /\ (y.brier = 0 => b = 999)
  BY <1>1, WorstIsWorse
<1>4. PICK m \in Int, n \in Int : m = x.brier /\ n = y.brier
  BY <1>3
<1>5. ASSUME x.accuracy = y.accuracy, x.brier # 0 PROVE n >= 1 /\ n <= m
  <2>1. ~(a < b)
    BY <1>2, <1>5
  <2>2. m \in 1..998 /\ a = m
    BY <1>3, <1>4, <1>5
  <2>3. n \in 0..998 /\ (n # 0 => b = n) /\ (n = 0 => b = 999)
    BY <1>3, <1>4
  <2> HIDE <1>2, <1>3, <1>4
  <2> QED
    BY <2>1, <2>2, <2>3
<1> QED
  BY <1>2, <1>3, <1>4, <1>5

LEMMA WinnerWins ==
    ASSUME NEW C \in SUBSET (DOMAIN Bands), C # {}, NEW o \in [DOMAIN Bands -> Results]
    PROVE  Winner(C, o) \in C /\ \A j \in C : ~Better(o[j], o[Winner(C, o)])
PROOF
<1> DEFINE HasTop(s) == \E i \in s : \A j \in s : ~Better(o[j], o[i])
           T == {s \in SUBSET C : s = {} \/ HasTop(s)}
           top == {i \in C : \A j \in C : ~Better(o[j], o[i])}
<1>1. IsFiniteSet(C) /\ C \subseteq Nat
  <2>1. IsFiniteSet(1..Len(Bands)) /\ 1..Len(Bands) \subseteq Nat
    BY StudyAssumption, FS_Interval
  <2> QED
    BY <2>1, StudyAssumption, FS_Subset
<1>2. ASSUME NEW s \in SUBSET C, s # {}, \A x \in s : s \ {x} \in T PROVE s \in T
  <2>1. PICK x \in s : TRUE
    BY <1>2
  <2>2. s \ {x} = {} \/ HasTop(s \ {x})
    BY <1>2, <2>1
  <2>3. \A y \in s : o[y] \in Results
    OBVIOUS
  <2>4. CASE s \ {x} = {}
    <3>1. \A j \in s : ~Better(o[j], o[x])
      BY <2>1, <2>3, <2>4, BetterOrders
    <3>2. HasTop(s)
      BY <2>1, <3>1
    <3> QED
      BY <3>2
  <2>5. CASE HasTop(s \ {x})
    <3>1. PICK i \in s \ {x} : \A j \in s \ {x} : ~Better(o[j], o[i])
      BY <2>5
    <3>2. CASE Better(o[x], o[i])
      <4>1. ~Better(o[x], o[x])
        BY <2>3, BetterOrders
      <4>2. \A j \in s \ {x} : ~Better(o[j], o[x])
        BY <2>3, <3>1, <3>2, BetterOrders
      <4>3. HasTop(s)
        BY <2>1, <4>1, <4>2
      <4> QED
        BY <4>3
    <3>3. CASE ~Better(o[x], o[i])
      <4>1. HasTop(s)
        BY <3>1, <3>3
      <4> QED
        BY <4>1
    <3> QED
      BY <3>2, <3>3
  <2> QED
    BY <2>2, <2>4, <2>5
<1>3. T = SUBSET C
  <2>1. T \in SUBSET SUBSET C /\ {} \in T
    OBVIOUS
  <2> HIDE DEF T
  <2> QED
    BY <1>1, <1>2, <2>1, SubsetInduction
<1>4. HasTop(C)
  BY <1>3
<1>5. top # {} /\ top \subseteq Nat
  BY <1>1, <1>4
<1>6. Winner(C, o) = Min(top)
  BY DEF Winner
<1> HIDE DEF top
<1>7. Winner(C, o) \in top
  BY <1>5, <1>6, Smallest
<1> QED
  BY <1>7 DEF top

\* The windows and who has rows in them depend on the panel alone.
LEMMA WindowsStand ==
    ASSUME UNCHANGED panel, NEW w
    PROVE  (Window(w))' = Window(w)
PROOF
<1>1. \A d : (RowsOn(d))' = RowsOn(d)
  BY DEF RowsOn
<1>2. PanelDays' = PanelDays
  BY <1>1 DEF PanelDays
<1>3. TestStart' = TestStart
  BY <1>2 DEF TestStart
<1> QED
  BY <1>2, <1>3 DEF Window, TestStart, ValidationStart, TrainStart

LEMMA RowsStand ==
    ASSUME UNCHANGED panel, NEW r, NEW w
    PROVE  (RowsOf(r, w))' = RowsOf(r, w)
PROOF
<1>1. PICK S : S = Window(w) /\ S = (Window(w))'
  BY WindowsStand
<1>2. (RowsOf(r, w))' = MapThenSumSet(LAMBDA d : panel'[r][d], S)
  BY <1>1 DEF RowsOf, MapThenSumSet, MapThenFoldSet
<1>3. RowsOf(r, w) = MapThenSumSet(LAMBDA d : panel[r][d], S)
  BY <1>1 DEF RowsOf, MapThenSumSet, MapThenFoldSet
<1>4. MapThenSumSet(LAMBDA d : panel'[r][d], S) = MapThenSumSet(LAMBDA d : panel[r][d], S)
  BY DEF MapThenSumSet, MapThenFoldSet
<1> QED
  BY <1>2, <1>3, <1>4, Zenon

LEMMA FitsStand ==
    ASSUME UNCHANGED <<panel, oneSided>>
    PROVE  /\ \A w : (Fitted(w))' = Fitted(w) /\ (WithRows(w))' = WithRows(w)
           /\ Untunable' = Untunable
PROOF
<1>1. UNCHANGED panel
  OBVIOUS
<1>2. \A r, w : (RowsOf(r, w))' = RowsOf(r, w)
  BY <1>1, RowsStand
<1>3. \A w : (Fitted(w))' = Fitted(w) /\ (WithRows(w))' = WithRows(w)
  BY <1>2 DEF Fitted, WithRows
<1> QED
  BY <1>3 DEF Untunable

LEMMA ABest ==
    ASSUME NEW c, NEW b, NEW r
    PROVE  [config |-> c, band |-> b, result |-> r] # Nothing
PROOF
<1>1. "band" \in DOMAIN [config |-> c, band |-> b, result |-> r]
  OBVIOUS
<1>2. "band" \notin DOMAIN Nothing
  BY DEF Nothing
<1> QED
  BY <1>1, <1>2

LEMMA ScoreTyped == Unscored \in Results /\ Outcomes \subseteq Results
BY StudyAssumption DEF Unscored, Results, NoScore

-----------------------------------------------------------------------------
LEMMA StudyStarts == StudyInit => StudyInv /\ BestIsJudged
PROOF
<1> SUFFICES ASSUME StudyInit PROVE StudyInv /\ BestIsJudged
  OBVIOUS
<1>1. DOMAIN scores = {}
  BY DEF StudyInit
<1>2. best = Nothing /\ tried = 0 /\ judged = Nothing /\ study \in {"regime", "recent"}
  BY DEF StudyInit
<1>3. ScoresKept /\ BestKept /\ BestIsJudged
  BY <1>1, <1>2 DEF ScoresKept, BestKept, BestIsJudged
<1>4. RoundsKept
  BY <1>2 DEF RoundsKept
<1> QED
  BY <1>3, <1>4 DEF StudyInv

\* One round that scores the places B of a configuration.
LEMMA RoundScored ==
    ASSUME StudyInv, NEW t, t = tried + 1, NEW B \in SUBSET (DOMAIN Bands), 1 \in B,
           NEW new \in [B -> Results], tried' = t, study' = study,
           ~(study = "regime" /\ Fitted("initial") = {}),
           scores' = [x \in DOMAIN scores \cup ({t} \X B) |->
                        IF x[1] = t THEN new[x[2]] ELSE scores[x]]
    PROVE  /\ ScoresKept'
           /\ \A c \in 1..t : <<c, 1>> \in DOMAIN scores'
           /\ \A x \in DOMAIN scores : x \in DOMAIN scores' /\ scores'[x] = scores[x]
           /\ \A b \in B : <<t, b>> \in DOMAIN scores' /\ scores'[<<t, b>>] = new[b]
           /\ \A x \in DOMAIN scores' : x \in DOMAIN scores \/ \E b \in B : x = <<t, b>>
PROOF
<1>0. tried \in Nat /\ t \in Nat /\ tried < t
  BY DEF StudyInv, ScoresKept
<1>1. PICK s : s = scores'
  OBVIOUS
<1>2. DOMAIN s = DOMAIN scores \cup ({t} \X B)
  BY <1>1
<1>3. \A x \in DOMAIN s : s[x] = IF x[1] = t THEN new[x[2]] ELSE scores[x]
  BY <1>1, <1>2
<1>4. ASSUME NEW x \in DOMAIN scores
      PROVE  /\ x \in DOMAIN s /\ s[x] = scores[x] /\ s[x] \in Results
             /\ x[1] \in Nat /\ x[1] <= t /\ x[2] \in DOMAIN Bands
  <2>1. x[1] \in Nat /\ x[1] <= tried /\ x[2] \in DOMAIN Bands /\ scores[x] \in Results
    BY DEF StudyInv, ScoresKept
  <2>2. x[1] # t /\ x[1] <= t
    BY <1>0, <2>1
  <2> QED
    BY <1>2, <1>3, <2>1, <2>2
<1>5. ASSUME NEW b \in B
      PROVE  /\ <<t, b>> \in DOMAIN s /\ s[<<t, b>>] = new[b] /\ new[b] \in Results
             /\ <<t, b>>[1] = t /\ <<t, b>>[2] = b /\ b \in DOMAIN Bands
  BY <1>2, <1>3
<1>6. ASSUME NEW x \in DOMAIN s PROVE x \in DOMAIN scores \/ \E b \in B : x = <<t, b>>
  BY <1>2
<1>7. \A x \in DOMAIN s : /\ x[1] \in Nat /\ x[1] <= t /\ x[2] \in DOMAIN Bands
                           /\ s[x] \in Results
  BY <1>0, <1>4, <1>5, <1>6
<1>8. ASSUME NEW c \in 1..t PROVE <<c, 1>> \in DOMAIN s
  <2>1. CASE c = t
    BY <1>5, <2>1
  <2>2. CASE c # t
    <3>1. c \in 1..tried
      BY <1>0, <2>2
    <3>2. \A k \in 1..tried : <<k, 1>> \in DOMAIN scores
      BY DEF StudyInv, RoundsKept
    <3> QED
      BY <1>4, <3>1, <3>2
  <2> QED
    BY <2>1, <2>2
<1>9. study' \in {"regime", "recent"}
  BY DEF StudyInv, ScoresKept
<1>10. ScoresKept'
  BY <1>0, <1>1, <1>7, <1>9 DEF ScoresKept
<1> QED
  BY <1>1, <1>4, <1>5, <1>6, <1>8, <1>10

LEMMA RegimeKept == StudyInv /\ TryRegime => StudyInv'
PROOF
<1> SUFFICES ASSUME StudyInv, TryRegime PROVE StudyInv'
  OBVIOUS
<1>1. /\ study = "regime" /\ Untunable = {} /\ tried' = tried + 1
      /\ UNCHANGED <<study, panel, oneSided, judged, kept>>
  BY DEF TryRegime, Searching
<1>0. /\ (Fitted("initial"))' = Fitted("initial") /\ Untunable' = Untunable
      /\ \A x : (Cleared(x))' <=> Cleared(x)
  BY <1>1, FitsStand DEF Cleared
<1>2. CASE Fitted("initial") = {}
  <2>1. UNCHANGED <<scores, best>>
    BY <1>2 DEF TryRegime
  <2>2. best = Nothing /\ tried \in Nat
    BY <1>1, <1>2 DEF StudyInv, RoundsKept, ScoresKept
  <2>3. \A x \in DOMAIN scores : x[1] \in Nat /\ x[1] <= tried => x[1] <= tried + 1
    BY <2>2
  <2>4. ScoresKept'
    BY <1>1, <2>1, <2>2, <2>3 DEF StudyInv, ScoresKept
  <2>5. RoundsKept'
    BY <1>0, <1>1, <1>2, <2>1, <2>2 DEF RoundsKept
  <2>6. BestKept'
    BY <1>1, <2>1, <2>2 DEF StudyInv, BestKept, MayWin, Cleared, Better, OrWorst
  <2> QED
    BY <2>4, <2>5, <2>6 DEF StudyInv
<1>3. CASE Fitted("initial") # {}
  <2>1. PICK outcome \in MayScore :
          LET cleared == {i \in DOMAIN Bands : Cleared(outcome[i])}
              band == Winner(cleared, outcome)
          IN  /\ scores' = [x \in DOMAIN scores \cup ({tried'} \X DOMAIN Bands) |->
                              IF x[1] = tried' THEN outcome[x[2]] ELSE scores[x]]
              /\ best' = IF cleared = {} \/ (best # Nothing /\ ~Better(outcome[band], best.result))
                           THEN best
                         ELSE [config |-> tried', band |-> band, result |-> outcome[band]]
    BY <1>3 DEF TryRegime
  <2> DEFINE cleared == {i \in DOMAIN Bands : Cleared(outcome[i])}
             band == Winner(cleared, outcome)
  <2>2. outcome \in [DOMAIN Bands -> Results] /\ 1 \in DOMAIN Bands
    BY ScoreTyped, StudyAssumption DEF MayScore
  <2>3. PICK t : t = tried + 1
    OBVIOUS
  <2>4. tried' = t /\ scores' = [x \in DOMAIN scores \cup ({t} \X DOMAIN Bands) |->
                                  IF x[1] = t THEN outcome[x[2]] ELSE scores[x]]
    BY <1>1, <2>1, <2>3
  <2>5. /\ ScoresKept'
        /\ \A c \in 1..t : <<c, 1>> \in DOMAIN scores'
        /\ \A x \in DOMAIN scores : x \in DOMAIN scores' /\ scores'[x] = scores[x]
        /\ \A b \in DOMAIN Bands : <<t, b>> \in DOMAIN scores' /\ scores'[<<t, b>>] = outcome[b]
        /\ \A x \in DOMAIN scores' : x \in DOMAIN scores \/ \E b \in DOMAIN Bands : x = <<t, b>>
    <3>1. study' = study
      BY <1>1
    <3> QED
      BY <1>3, <2>2, <2>3, <2>4, <3>1, RoundScored
  <2>6. tried \in Nat /\ t \in Nat /\ t > 0
    BY <2>3 DEF StudyInv, ScoresKept
  <2>7. RoundsKept'
    BY <1>0, <1>1, <1>3, <2>4, <2>5, <2>6 DEF RoundsKept
  <2>8. PICK sc, bs : sc = scores' /\ bs = best'
    OBVIOUS
  <2>9. \A i \in cleared : ~Better(outcome[i], outcome[band]) /\ band \in cleared
    <3>1. cleared \in SUBSET (DOMAIN Bands)
      OBVIOUS
    <3> HIDE DEF cleared
    <3> QED
      BY <2>2, <3>1, WinnerWins
  <2>10. \A x \in DOMAIN scores : scores[x] \in Results
    BY DEF StudyInv, ScoresKept
  <2>11. best # Nothing =>
           /\ <<best.config, best.band>> \in DOMAIN scores
           /\ best.result = scores[<<best.config, best.band>>] /\ best.result \in Results
           /\ Cleared(best.result)
    BY <1>1, <2>10 DEF StudyInv, BestKept, MayWin
  <2>12. \A x \in DOMAIN scores : Cleared(scores[x]) => best # Nothing /\ ~Better(scores[x], best.result)
    BY <1>1 DEF StudyInv, BestKept, MayWin
  <2>13. \A i \in DOMAIN Bands : outcome[i] \in Results /\ (Cleared(outcome[i]) <=> i \in cleared)
    BY <2>2
  <2>14. bs = IF cleared = {} \/ (best # Nothing /\ ~Better(outcome[band], best.result))
                THEN best ELSE [config |-> t, band |-> band, result |-> outcome[band]]
    BY <2>1, <2>4, <2>8
  <2>15. cleared \subseteq DOMAIN Bands
    OBVIOUS
  <2> HIDE DEF cleared, band
  <2>16. /\ bs # Nothing => /\ <<bs.config, bs.band>> \in DOMAIN sc
                            /\ bs.result = sc[<<bs.config, bs.band>>] /\ Cleared(bs.result)
         /\ \A x \in DOMAIN sc : Cleared(sc[x]) => bs # Nothing /\ ~Better(sc[x], bs.result)
    <3>1. CASE cleared = {}
      <4>1. bs = best
        BY <2>14, <3>1
      <4> QED
        BY <2>5, <2>8, <2>11, <2>12, <2>13, <3>1, <4>1
    <3>2. CASE cleared # {} /\ best # Nothing /\ ~Better(outcome[band], best.result)
      <4>1. bs = best
        BY <2>14, <3>2
      <4>2. \A i \in cleared : ~Better(outcome[i], best.result)
        BY <2>9, <2>11, <2>13, <2>15, <3>2, BetterOrders
      <4> QED
        BY <2>5, <2>8, <2>11, <2>12, <2>13, <3>2, <4>1, <4>2
    <3>3. CASE cleared # {} /\ (best = Nothing \/ Better(outcome[band], best.result))
      <4>1. bs = [config |-> t, band |-> band, result |-> outcome[band]]
        BY <2>14, <3>3
      <4>2. bs # Nothing /\ bs.config = t /\ bs.band = band /\ bs.result = outcome[band]
        BY <4>1, ABest
      <4>3. band \in cleared
        BY <2>9, <3>3
      <4>4. \A x \in DOMAIN scores : Cleared(scores[x]) => ~Better(scores[x], outcome[band])
        BY <2>10, <2>11, <2>12, <2>13, <2>15, <3>3, <4>3, BetterOrders
      <4> QED
        BY <2>5, <2>8, <2>9, <2>13, <2>15, <4>2, <4>3, <4>4
    <3> QED
      BY <3>1, <3>2, <3>3
  <2>17. BestKept'
    BY <1>1, <2>8, <2>16 DEF BestKept, MayWin, Cleared, Better, OrWorst
  <2> QED
    BY <2>5, <2>7, <2>17 DEF StudyInv
<1> QED
  BY <1>2, <1>3

LEMMA KindKept == StudyInv /\ TryKind => StudyInv'
PROOF
<1> SUFFICES ASSUME StudyInv, TryKind PROVE StudyInv'
  OBVIOUS
<1>1. /\ study = "recent" /\ tried' = tried + 1
      /\ UNCHANGED <<study, panel, oneSided, judged, kept>>
  BY DEF TryKind, Searching
<1>2. PICK o \in {x \in Outcomes : x.coverage = FullCoverage} \cup {Unscored} :
        LET result == IF o.accuracy = 0 THEN [o EXCEPT !.accuracy = NoScore] ELSE o
        IN  /\ scores' = [x \in DOMAIN scores \cup {<<tried', 1>>} |->
                            IF x[1] = tried' THEN result ELSE scores[x]]
            /\ best' = IF best # Nothing /\ ~Better(result, best.result) THEN best
                       ELSE [config |-> tried', band |-> 1, result |-> result]
  BY DEF TryKind
<1>3. PICK res : res = IF o.accuracy = 0 THEN [o EXCEPT !.accuracy = NoScore] ELSE o
  OBVIOUS
<1>4. res \in Results
  <2>1. o \in Results
    BY ScoreTyped
  <2> QED
    BY <1>3, <2>1 DEF Results, NoScore
<1>5. PICK t : t = tried + 1
  OBVIOUS
<1>6. /\ tried' = t
      /\ scores' = [x \in DOMAIN scores \cup ({t} \X {1}) |->
                      IF x[1] = t THEN [b \in {1} |-> res][x[2]] ELSE scores[x]]
      /\ best' = IF best # Nothing /\ ~Better(res, best.result) THEN best
                 ELSE [config |-> t, band |-> 1, result |-> res]
  <2>1. {t} \X {1} = {<<t, 1>>}
    OBVIOUS
  <2>2. tried \in Nat /\ \A x \in DOMAIN scores : x[1] \in Nat /\ x[1] <= tried
    BY DEF StudyInv, ScoresKept
  <2>3. \A x \in DOMAIN scores : x[1] # t
    BY <1>5, <2>2
  <2>4. \A x \in DOMAIN scores \cup {<<t, 1>>} :
          (IF x[1] = t THEN res ELSE scores[x]) = (IF x[1] = t THEN [b \in {1} |-> res][x[2]] ELSE scores[x])
    BY <2>3
  <2>5. tried' = t
    BY <1>1, <1>5
  <2>6. scores' = [x \in DOMAIN scores \cup {<<t, 1>>} |-> IF x[1] = t THEN res ELSE scores[x]]
    BY <1>2, <1>3, <2>5
  <2> QED
    BY <1>2, <1>3, <2>1, <2>4, <2>5, <2>6
<1>7. /\ ScoresKept'
      /\ \A c \in 1..t : <<c, 1>> \in DOMAIN scores'
      /\ \A x \in DOMAIN scores : x \in DOMAIN scores' /\ scores'[x] = scores[x]
      /\ \A b \in {1} : <<t, b>> \in DOMAIN scores' /\ scores'[<<t, b>>] = [c \in {1} |-> res][b]
      /\ \A x \in DOMAIN scores' : x \in DOMAIN scores \/ \E b \in {1} : x = <<t, b>>
  <2>1. study' = study /\ study # "regime" /\ [c \in {1} |-> res] \in [{1} -> Results]
        /\ {1} \in SUBSET (DOMAIN Bands) /\ 1 \in {1}
    BY <1>1, <1>4, StudyAssumption
  <2>2. PICK new : new = [c \in {1} |-> res]
    OBVIOUS
  <2> QED
    BY <1>5, <1>6, <2>1, <2>2, RoundScored
<1>8. tried \in Nat /\ t \in Nat /\ t > 0
  BY <1>5 DEF StudyInv, ScoresKept
<1>9. RoundsKept'
  BY <1>1, <1>6, <1>7, <1>8 DEF RoundsKept
<1>10. PICK sc, bs : sc = scores' /\ bs = best'
  OBVIOUS
<1>11. \A x \in DOMAIN scores : scores[x] \in Results
  BY DEF StudyInv, ScoresKept
<1>12. best # Nothing =>
         /\ <<best.config, best.band>> \in DOMAIN scores
         /\ best.result = scores[<<best.config, best.band>>] /\ best.result \in Results
  BY <1>11 DEF StudyInv, BestKept
<1>13. \A x \in DOMAIN scores : best # Nothing /\ ~Better(scores[x], best.result)
  BY <1>1 DEF StudyInv, BestKept, MayWin
<1>14. <<t, 1>> \in DOMAIN sc /\ sc[<<t, 1>>] = res
       /\ \A x \in DOMAIN sc : x \in DOMAIN scores \/ x = <<t, 1>>
  BY <1>7, <1>10
<1>15. /\ bs # Nothing => /\ <<bs.config, bs.band>> \in DOMAIN sc
                          /\ bs.result = sc[<<bs.config, bs.band>>]
       /\ \A x \in DOMAIN sc : bs # Nothing /\ ~Better(sc[x], bs.result)
  <2>1. CASE best # Nothing /\ ~Better(res, best.result)
    <3>1. bs = best
      BY <1>6, <1>10, <2>1
    <3> QED
      BY <1>7, <1>10, <1>12, <1>13, <1>14, <2>1, <3>1
  <2>2. CASE best = Nothing \/ Better(res, best.result)
    <3>1. bs = [config |-> t, band |-> 1, result |-> res]
      BY <1>6, <1>10, <2>2
    <3>2. bs # Nothing /\ bs.config = t /\ bs.band = 1 /\ bs.result = res
      BY <3>1, ABest
    <3>3. ~Better(res, res)
      BY <1>4, BetterOrders
    <3>4. \A x \in DOMAIN scores : ~Better(scores[x], res)
      BY <1>4, <1>11, <1>12, <1>13, <2>2, BetterOrders
    <3> QED
      BY <1>7, <1>10, <1>14, <3>2, <3>3, <3>4
  <2> QED
    BY <2>1, <2>2
<1>16. BestKept'
  BY <1>1, <1>10, <1>15 DEF BestKept, MayWin, Better, OrWorst
<1> QED
  BY <1>7, <1>9, <1>16 DEF StudyInv

\* Nothing else touches the results.
LEMMA RestKept ==
    ASSUME StudyInv, UNCHANGED <<study, panel, oneSided, tried, scores, best>>
    PROVE  StudyInv'
PROOF
<1>1. (Fitted("initial"))' = Fitted("initial") /\ Untunable' = Untunable
  BY FitsStand
<1>2. RoundsKept'
  BY <1>1 DEF StudyInv, RoundsKept
<1>3. ScoresKept' /\ BestKept'
  BY DEF StudyInv, ScoresKept, BestKept, MayWin, Cleared, Better, OrWorst
<1> QED
  BY <1>2, <1>3 DEF StudyInv

LEMMA JudgedWell == StudyInv /\ Judge => BestIsJudged'
PROOF
<1> SUFFICES ASSUME StudyInv, Judge PROVE BestIsJudged'
  OBVIOUS
<1>1. /\ tried = Len(Configs) /\ UNCHANGED <<study, panel, oneSided, tried, scores, best, kept>>
      /\ judged' = IF best = Nothing THEN Refusal
                   ELSE [config |-> best.config, band |-> best.band,
                         scored |-> {r \in Fitted("final") : RowsOf(r, "test") > 0},
                         untuned |-> Fitted("final") \ Tuned]
  BY DEF Judge
<1>2. CASE best = Nothing
  BY <1>1, <1>2 DEF BestIsJudged
<1>3. CASE best # Nothing
  <2>1. PICK j : j = judged'
    OBVIOUS
  <2>2. j.config = best.config /\ j.band = best.band /\ j.untuned = Fitted("final") \ Tuned
    BY <1>1, <1>3, <2>1
  <2>3. PICK mine : mine = scores[<<best.config, best.band>>]
    OBVIOUS
  <2>4. mine \in Results /\ MayWin(mine)
        /\ \A x \in DOMAIN scores : MayWin(scores[x]) => ~Better(scores[x], mine)
    BY <1>3, <2>3 DEF StudyInv, BestKept, ScoresKept
  <2>5. \A c \in DOMAIN Configs : \E x \in DOMAIN scores : x[1] = c
    <3>1. \A c \in 1..tried : <<c, 1>> \in DOMAIN scores /\ <<c, 1>>[1] = c
      BY <1>3 DEF StudyInv, RoundsKept
    <3> QED
      BY <1>1, <3>1, StudyAssumption
  <2>6. study = "regime" => mine.coverage >= MinCoverage /\ mine.accuracy # NoScore
    BY <2>4 DEF MayWin, Cleared
  <2>7. ASSUME NEW x \in DOMAIN scores, scores[x].coverage >= MinCoverage, scores[x].accuracy # NoScore
        PROVE  /\ scores[x].accuracy <= mine.accuracy
               /\ scores[x].accuracy = mine.accuracy /\ scores[x].brier # 0 =>
                    mine.brier \in 1..scores[x].brier
    <3>1. MayWin(scores[x]) /\ scores[x] \in Results
      BY <2>7 DEF MayWin, Cleared, StudyInv, ScoresKept
    <3> QED
      BY <2>4, <3>1, NotBeaten
  <2>8. ASSUME study = "regime", NEW r \in j.untuned, r \in WithRows("test")
        PROVE  r \notin Fitted("initial") \/ <<r, "validation">> \in oneSided
    <3>1. Untunable = {}
      BY <1>3, <2>8 DEF StudyInv, RoundsKept
    <3>2. r \in WithRows("validation") /\ r \notin Tuned
      BY <2>2, <2>8, <3>1 DEF Untunable
    <3> QED
      BY <3>2 DEF Tuned
  <2>9. /\ \A c \in DOMAIN Configs : \E x \in DOMAIN scores' : x[1] = c
        /\ scores'[<<judged'.config, judged'.band>>] = mine
    BY <1>1, <2>1, <2>2, <2>3, <2>5
  <2>10. (Fitted("initial"))' = Fitted("initial") /\ (WithRows("test"))' = WithRows("test")
    BY <1>1, FitsStand
  <2>11. \A r \in judged'.untuned \cap judged'.scored \cap (WithRows("test"))' :
           study' = "regime" => r \notin (Fitted("initial"))' \/ <<r, "validation">> \in oneSided'
    BY <1>1, <2>1, <2>8, <2>10
  <2>12. study' = study /\ scores' = scores
    BY <1>1
  <2> QED
    BY <2>6, <2>7, <2>9, <2>11, <2>12 DEF BestIsJudged
<1> QED
  BY <1>2, <1>3

\* Once judged, a study searches no more.
LEMMA JudgementStays == BestIsJudged /\ judged # Nothing /\ [StudyNext]_studyVars => BestIsJudged'
PROOF
<1> SUFFICES ASSUME BestIsJudged, judged # Nothing, [StudyNext]_studyVars PROVE BestIsJudged'
  OBVIOUS
<1>1. UNCHANGED <<study, panel, oneSided, scores, judged>>
  BY DEF StudyNext, studyVars, Refuse, TryRegime, TryKind, Searching, Judge, Keep
<1>2. (Fitted("initial"))' = Fitted("initial") /\ (WithRows("test"))' = WithRows("test")
  BY <1>1, FitsStand
<1> QED
  BY <1>1, <1>2 DEF BestIsJudged

\* Whatever the panel, the grid and the scores: what a study judges is beaten by
\* nothing it tried that clears the coverage floor (regime_tuning.py).
THEOREM BestJudged == StudySpec => []BestIsJudged
PROOF
<1>1. StudyInv /\ BestIsJudged /\ [StudyNext]_studyVars => StudyInv' /\ BestIsJudged'
  <2> SUFFICES ASSUME StudyInv, BestIsJudged, [StudyNext]_studyVars PROVE StudyInv' /\ BestIsJudged'
    OBVIOUS
  <2>1. StudyInv'
    <3>1. CASE TryRegime
      BY <3>1, RegimeKept
    <3>2. CASE TryKind
      BY <3>2, KindKept
    <3>3. CASE Refuse \/ Judge \/ Keep \/ UNCHANGED studyVars
      BY <3>3, RestKept DEF Refuse, Judge, Keep, studyVars
    <3> QED
      BY <3>1, <3>2, <3>3 DEF StudyNext
  <2>2. BestIsJudged'
    <3>1. CASE judged # Nothing
      BY <3>1, JudgementStays
    <3>2. CASE judged = Nothing /\ Judge
      BY <3>2, JudgedWell
    <3>3. CASE judged = Nothing /\ ~Judge
      <4>1. judged' \in {Nothing, Refusal}
        BY <3>3 DEF StudyNext, studyVars, Refuse, TryRegime, TryKind, Keep
      <4> QED
        BY <4>1 DEF BestIsJudged
    <3> QED
      BY <3>1, <3>2, <3>3
  <2> QED
    BY <2>1, <2>2
<1> QED
  BY <1>1, StudyStarts, PTL DEF StudySpec

-----------------------------------------------------------------------------
(* ReliabilityVerdict: bags of settled predictions, their sizes and parts *)

FiniteBag(b) == IsABag(b) /\ IsFiniteSet(DOMAIN b)

\* The size of a bag is the sum of its multiplicities.
LEMMA SizeIsSum ==
    ASSUME NEW b, FiniteBag(b)
    PROVE  Size(b) = SumOver(b, DOMAIN b)
PROOF
<1> DEFINE S == DOMAIN b
           Course(it) == it = [s \in SUBSET S |-> IF s = {} THEN 0
                                ELSE b[CHOOSE x \in s : TRUE] * 1 + it[s \ {CHOOSE x \in s : TRUE}]]
           it == CHOOSE i : Course(i)
<1>1. \A x \in S : b[x] \in Int /\ b[x] * 1 = b[x]
  BY DEF FiniteBag, IsABag
<1>2. PICK jt \in [SUBSET S -> Int] : Adds(jt, b, S) /\ SumOver(b, S) = jt[S]
  BY <1>1, SumIsFold DEF FiniteBag
<1>3. \A s \in SUBSET S : s # {} => (CHOOSE x \in s : TRUE) \in s
  OBVIOUS
<1>4. Course(jt)
  <2>1. jt = [s \in SUBSET S |-> IF s = {} THEN 0
                ELSE b[CHOOSE x \in s : TRUE] + jt[s \ {CHOOSE x \in s : TRUE}]]
    BY <1>2 DEF Adds
  <2>2. \A s \in SUBSET S : s # {} =>
           b[CHOOSE x \in s : TRUE] * 1 = b[CHOOSE x \in s : TRUE]
    BY <1>1, <1>3
  <2> QED
    BY <2>1, <2>2
<1>5. Course(it)
  BY <1>4
<1>6. Size(b) = it[S]
  BY DEF Size, Sum, MapThenSumSet, MapThenFoldSet
<1> HIDE DEF it
<1>7. it[{}] = jt[{}]
  BY <1>4, <1>5
<1>8. ASSUME NEW s \in SUBSET S, s # {}
      PROVE  \E x \in s : it[s \ {x}] = jt[s \ {x}] => it[s] = jt[s]
  <2> DEFINE x == CHOOSE x \in s : TRUE
  <2>1. x \in s
    BY <1>3, <1>8
  <2>2. it[s] = b[x] * 1 + it[s \ {x}] /\ jt[s] = b[x] * 1 + jt[s \ {x}]
    BY <1>4, <1>5, <1>8
  <2> QED
    BY <2>1, <2>2
<1> HIDE DEF S
<1>9. it[S] = jt[S]
  BY <1>7, <1>8, SameCourse DEF FiniteBag, S
<1> QED
  BY <1>2, <1>6, <1>9 DEF S

\* What is not negative sums to something that no term exceeds.
LEMMA SumAtLeast ==
    ASSUME NEW S, IsFiniteSet(S), NEW f, \A x \in S : f[x] \in Nat
    PROVE  SumOver(f, S) \in Nat /\ \A x \in S : f[x] <= SumOver(f, S)
PROOF
<1> DEFINE T == {s \in SUBSET S : SumOver(f, s) \in Nat}
<1>1. \A s \in SUBSET S : IsFiniteSet(s) /\ \A x \in s : f[x] \in Int
  BY FS_Subset
<1>2. {} \in T
  <2>1. SumOver(f, {}) = 0
    BY FS_EmptySet, SumTake
  <2> QED
    BY <2>1
<1>3. ASSUME NEW s \in SUBSET S, s # {}, \A x \in s : s \ {x} \in T PROVE s \in T
  <2>1. PICK x \in s : TRUE
    BY <1>3
  <2>2. SumOver(f, s) = f[x] + SumOver(f, s \ {x})
    BY <1>1, SumTake
  <2> QED
    BY <1>3, <2>1, <2>2
<1>4. T = SUBSET S
  <2>1. T \in SUBSET SUBSET S
    OBVIOUS
  <2> HIDE DEF T
  <2> QED
    BY <1>2, <1>3, <2>1, SubsetInduction
<1>5. ASSUME NEW x \in S PROVE f[x] <= SumOver(f, S)
  <2>1. SumOver(f, S) = f[x] + SumOver(f, S \ {x})
    BY <1>1, SumTake
  <2>2. S \ {x} \in T
    BY <1>4
  <2> QED
    BY <2>1, <2>2
<1> QED
  BY <1>4, <1>5

\* A bag within a bag of its size is that bag.
LEMMA NoSmallerPart ==
    ASSUME NEW v, NEW w, FiniteBag(v), FiniteBag(w), v \sqsubseteq w, Size(v) = Size(w)
    PROVE  v = w
PROOF
<1> DEFINE S == DOMAIN w
           A == DOMAIN v
           f == [r \in S |-> IF r \in A THEN v[r] ELSE 0]
           z == [r \in S |-> f[r] - f[r]]
           h == [r \in S |-> w[r] - f[r]]
<1>1. /\ IsFiniteSet(S) /\ A \in SUBSET S
      /\ \A r \in S : w[r] \in Nat /\ w[r] > 0
      /\ \A r \in A : v[r] \in Nat /\ v[r] > 0 /\ v[r] <= w[r]
  BY DEF FiniteBag, IsABag, \sqsubseteq
<1>2. IsFiniteSet(A) /\ IsFiniteSet(S \ A) /\ S \ A \in SUBSET S
  BY <1>1, FS_Subset
<1>3. \A r \in S : f[r] \in Nat /\ h[r] \in Nat /\ h[r] = w[r] - f[r] /\ (r \in A => f[r] = v[r])
                   /\ (r \in S \ A => f[r] = 0)
  BY <1>1
<1>4. SumOver(f, S) = SumOver(f, A) + SumOver(f, S \ A)
  <2> HIDE DEF S, A, f
  <2>1. \A r \in S : f[r] \in Int
    BY <1>3
  <2> QED
    BY <1>1, <2>1, SumSplit
<1>5. SumOver(f, A) = SumOver(v, A)
  <2> HIDE DEF S, A, f
  <2>1. \A r \in A : v[r] \in Int /\ f[r] = v[r]
    BY <1>1, <1>3
  <2> QED
    BY <1>2, <2>1, SumAgree
<1>6. SumOver(f, S \ A) = 0
  <2> DEFINE B == S \ A
  <2>1. \A r \in B : f[r] \in Int /\ f[r] \in Int /\ f[r] = f[r] - f[r]
    BY <1>3
  <2>2. IsFiniteSet(B) /\ \A r \in B : f[r] \in Int
    BY <1>2, <2>1
  <2> HIDE DEF S, A, B, f
  <2>3. SumOver(f, B) = SumOver(f, B) - SumOver(f, B)
    BY <2>1, <2>2, SumMinus
  <2>4. SumOver(f, B) \in Int
    BY <2>2, SumTake
  <2> QED
    BY <2>3, <2>4 DEF B
<1>7. SumOver(h, S) = SumOver(w, S) - SumOver(f, S)
  <2> HIDE DEF S, A, f, h
  <2>1. \A r \in S : w[r] \in Int /\ f[r] \in Int /\ h[r] = w[r] - f[r]
    BY <1>1, <1>3
  <2> QED
    BY <1>1, <2>1, SumMinus
<1>8. SumOver(v, A) = SumOver(w, S)
  BY SizeIsSum
<1>9. SumOver(f, A) \in Int /\ SumOver(f, S) \in Int /\ SumOver(w, S) \in Int
  <2> HIDE DEF S, A, f
  <2>1. \A r \in S : f[r] \in Int /\ w[r] \in Int
    BY <1>1, <1>3
  <2> QED
    BY <1>1, <1>2, <2>1, SumTake
<1>10. SumOver(h, S) = 0
  <2> HIDE DEF S, A, f, h
  <2> QED
    BY <1>4, <1>5, <1>6, <1>7, <1>8, <1>9
<1>11. \A r \in S : h[r] = 0
  <2> HIDE DEF S, A, f, h
  <2>1. \A r \in S : h[r] \in Nat /\ h[r] <= SumOver(h, S)
    BY <1>1, <1>3, SumAtLeast
  <2> QED
    BY <1>10, <2>1
<1>12. \A r \in S : r \in A /\ v[r] = w[r]
  BY <1>1, <1>3, <1>11
<1> QED
  BY <1>12 DEF FiniteBag, IsABag, \sqsubseteq

LEMMA SizeTyped ==
    ASSUME NEW b, FiniteBag(b)
    PROVE  /\ Size(b) \in Nat
           /\ \A r \in DOMAIN b : b[r] <= Size(b)
           /\ Size(b) = 0 <=> DOMAIN b = {}
PROOF
<1>1. IsFiniteSet(DOMAIN b) /\ \A r \in DOMAIN b : b[r] \in Nat /\ b[r] > 0
  BY DEF FiniteBag, IsABag
<1>2. SumOver(b, DOMAIN b) \in Nat /\ \A r \in DOMAIN b : b[r] <= SumOver(b, DOMAIN b)
  BY <1>1, SumAtLeast
<1>3. SumOver(b, {}) = 0
  BY FS_EmptySet, SumTake
<1>4. Size(b) = SumOver(b, DOMAIN b)
  BY SizeIsSum
<1> QED
  BY <1>1, <1>2, <1>3, <1>4

LEMMA PartTyped ==
    ASSUME NEW b, FiniteBag(b), NEW w \in Parts(b)
    PROVE  FiniteBag(w) /\ w \sqsubseteq b
PROOF
<1>1. PICK s \in SUBSET DOMAIN b : w \in [s -> 1..Size(b)]
  BY DEF Parts
<1>2. DOMAIN w = s /\ IsFiniteSet(s)
  BY <1>1, FS_Subset DEF FiniteBag
<1>3. w \in [DOMAIN w -> {n \in Nat : n > 0}]
  <2>1. Size(b) \in Nat
    BY SizeTyped
  <2>2. \A n \in 1..Size(b) : n \in Nat /\ n > 0
    BY <2>1
  <2> QED
    BY <1>1, <1>2, <2>2
<1> QED
  BY <1>2, <1>3 DEF Parts, FiniteBag, IsABag

\* What the assessment reads: one prediction is of one day.
OfDays(b) == \A r \in DOMAIN b : r.day \in Int
SettledTyped == FiniteBag(settled) /\ OfDays(settled)

LEMMA FromTyped ==
    ASSUME SettledTyped, NEW day \in Int, NEW mid \in Int
    PROVE  /\ FiniteBag(From(day)) /\ OfDays(From(day)) /\ From(day) \sqsubseteq settled
           /\ FiniteBag(Between(day, mid)) /\ OfDays(Between(day, mid))
           /\ Between(day, mid) \sqsubseteq From(day)
           /\ \A r \in DOMAIN settled :
                /\ r.day >= day => r \in DOMAIN From(day) /\ From(day)[r] = settled[r]
                /\ r \in DOMAIN From(day) => r.day >= day
                /\ day <= r.day /\ r.day < mid =>
                     r \in DOMAIN Between(day, mid) /\ Between(day, mid)[r] = settled[r]
                /\ r \in DOMAIN Between(day, mid) => day <= r.day /\ r.day < mid
PROOF
<1> DEFINE D == DOMAIN settled
           A == {r \in D : r.day >= day}
           B == {r \in D : day <= r.day /\ r.day < mid}
<1>1. IsFiniteSet(D) /\ \A r \in D : r.day \in Int /\ settled[r] \in Nat /\ settled[r] > 0
  BY DEF SettledTyped, FiniteBag, IsABag, OfDays
<1>2. A \subseteq D /\ B \subseteq A /\ IsFiniteSet(A) /\ IsFiniteSet(B)
  <2>1. A \subseteq D /\ B \subseteq A /\ B \subseteq D
    BY <1>1
  <2> QED
    BY <1>1, <2>1, FS_Subset
<1>3. From(day) = [r \in A |-> settled[r]]
  BY DEF From, Such
<1>4. Between(day, mid) = [r \in B |-> settled[r]]
  BY DEF Between, Such
<1>5. \A b : b = From(day) =>
        /\ FiniteBag(b) /\ OfDays(b) /\ b \sqsubseteq settled /\ DOMAIN b = A
        /\ \A r \in A : b[r] = settled[r]
  BY <1>1, <1>2, <1>3 DEF FiniteBag, IsABag, OfDays, \sqsubseteq
<1>6. \A b : b = Between(day, mid) =>
        /\ FiniteBag(b) /\ OfDays(b) /\ DOMAIN b = B
        /\ \A r \in B : b[r] = settled[r]
  BY <1>1, <1>2, <1>4 DEF FiniteBag, IsABag, OfDays
<1>7. Between(day, mid) \sqsubseteq From(day)
  BY <1>1, <1>2, <1>3, <1>4 DEF \sqsubseteq
<1> QED
  BY <1>5, <1>6, <1>7

\* Where a day says what is in the window, the database has no choice.
LEMMA OneWindow ==
    ASSUME SettledTyped, NEW day \in Int, NEW w \in Windows,
           Size(From(day)) = Min({WindowSize, Size(settled)})
    PROVE  w = From(day)
PROOF
<1> DEFINE F == From(day)
<1>1. /\ FiniteBag(F) /\ F \sqsubseteq settled
      /\ \A r \in DOMAIN settled : /\ r.day >= day => r \in DOMAIN F /\ F[r] = settled[r]
                                   /\ r \in DOMAIN F => r.day >= day
  BY FromTyped
<1>2. w \in Parts(settled) /\ Size(w) = Size(F)
      /\ \A r \in DOMAIN settled, s \in DOMAIN w :
            r.day > s.day => r \in DOMAIN w /\ w[r] = settled[r]
  BY DEF Windows
<1>3. FiniteBag(w) /\ w \sqsubseteq settled
  BY <1>2, PartTyped DEF SettledTyped
<1> HIDE DEF F
<1>4. CASE \E s \in DOMAIN w : s.day < day
  <2>1. PICK s \in DOMAIN w : s.day < day
    BY <1>4
  <2>2. s.day \in Int
    BY <1>3 DEF SettledTyped, OfDays, \sqsubseteq
  <2>3. \A r \in DOMAIN F : r \in DOMAIN settled /\ F[r] = settled[r] /\ r.day > s.day
    BY <1>1, <2>1, <2>2 DEF SettledTyped, OfDays, \sqsubseteq
  <2>4. \A r \in DOMAIN F : r \in DOMAIN w /\ w[r] = F[r] /\ F[r] \in Nat
    BY <1>1, <1>2, <2>3 DEF FiniteBag, IsABag
  <2>5. F \sqsubseteq w
    BY <2>4 DEF \sqsubseteq
  <2> QED
    BY <1>1, <1>2, <1>3, <2>5, NoSmallerPart DEF F
<1>5. CASE \A s \in DOMAIN w : ~(s.day < day)
  <2>1. \A s \in DOMAIN w : s \in DOMAIN settled /\ s.day >= day /\ w[s] <= settled[s]
    BY <1>3, <1>5 DEF SettledTyped, OfDays, \sqsubseteq
  <2>2. w \sqsubseteq F
    BY <1>1, <2>1 DEF \sqsubseteq
  <2> QED
    BY <1>1, <1>2, <1>3, <2>2, NoSmallerPart DEF F
<1> QED
  BY <1>4, <1>5

LEMMA OneHalf ==
    ASSUME SettledTyped, NEW day \in Int, NEW mid \in Int, NEW w, w = From(day),
           NEW old \in OlderHalves(w), Size(Between(day, mid)) = Size(w) \div 2
    PROVE  old = Between(day, mid)
PROOF
<1> DEFINE B == Between(day, mid)
<1>1. /\ FiniteBag(B) /\ B \sqsubseteq w /\ FiniteBag(w) /\ w \sqsubseteq settled
      /\ \A r \in DOMAIN settled :
           /\ r.day >= day => r \in DOMAIN w /\ w[r] = settled[r]
           /\ r \in DOMAIN w => r.day >= day
           /\ day <= r.day /\ r.day < mid => r \in DOMAIN B /\ B[r] = settled[r]
           /\ r \in DOMAIN B => day <= r.day /\ r.day < mid
  BY FromTyped
<1>2. old \in Parts(w) /\ Size(old) = Size(B)
      /\ \A r \in DOMAIN w, s \in DOMAIN old :
            r.day < s.day => r \in DOMAIN old /\ old[r] = w[r]
  BY DEF OlderHalves
<1>3. FiniteBag(old) /\ old \sqsubseteq w
  BY <1>1, <1>2, PartTyped
<1> HIDE DEF B
<1>4. \A r \in DOMAIN w : r \in DOMAIN settled /\ r.day \in Int /\ r.day >= day /\ w[r] = settled[r]
  BY <1>1 DEF SettledTyped, OfDays, \sqsubseteq
<1>5. CASE \E s \in DOMAIN old : s.day >= mid
  <2>1. PICK s \in DOMAIN old : s.day >= mid
    BY <1>5
  <2>2. s.day \in Int
    BY <1>3, <1>4 DEF \sqsubseteq
  <2>3. \A r \in DOMAIN B : r \in DOMAIN w /\ B[r] = w[r] /\ r.day < s.day
    BY <1>1, <1>4, <2>1, <2>2 DEF \sqsubseteq
  <2>4. \A r \in DOMAIN B : r \in DOMAIN old /\ old[r] = B[r] /\ B[r] \in Nat
    BY <1>1, <1>2, <2>3 DEF FiniteBag, IsABag
  <2>5. B \sqsubseteq old
    BY <2>4 DEF \sqsubseteq
  <2> QED
    BY <1>1, <1>2, <1>3, <2>5, NoSmallerPart DEF B
<1>6. CASE \A s \in DOMAIN old : ~(s.day >= mid)
  <2>1. \A s \in DOMAIN old : s \in DOMAIN B /\ B[s] = w[s] /\ old[s] <= w[s]
    BY <1>1, <1>3, <1>4, <1>6 DEF \sqsubseteq
  <2>2. old \sqsubseteq B
    BY <2>1 DEF \sqsubseteq
  <2> QED
    BY <1>1, <1>2, <1>3, <2>2, NoSmallerPart DEF B
<1> QED
  BY <1>5, <1>6

\* What is left of the window is its later days.
LEMMA LaterDays ==
    ASSUME SettledTyped, NEW day \in Int, NEW mid \in Int, day <= mid
    PROVE  From(day) (-) Between(day, mid) = From(mid)
PROOF
<1> DEFINE D == DOMAIN settled
           A == {r \in D : r.day >= day}
           B == {r \in D : day <= r.day /\ r.day < mid}
           C == {r \in D : r.day >= mid}
           Rest == [r \in A |-> IF r \in B THEN settled[r] - settled[r] ELSE settled[r]]
<1>1. \A r \in D : r.day \in Int /\ settled[r] \in Nat /\ settled[r] > 0
  BY DEF SettledTyped, FiniteBag, IsABag, OfDays
<1>2. From(day) = [r \in A |-> settled[r]] /\ From(mid) = [r \in C |-> settled[r]]
  BY DEF From, Such
<1>3. Between(day, mid) = [r \in B |-> settled[r]]
  BY DEF Between, Such
<1>4. From(day) (-) Between(day, mid) = [r \in {s \in A : Rest[s] > 0} |-> Rest[r]]
  BY <1>2, <1>3 DEF (-)
<1>5. {s \in A : Rest[s] > 0} = C
  BY <1>1
<1>6. \A r \in C : r \in A /\ Rest[r] = settled[r]
  BY <1>1
<1> HIDE DEF Rest
<1> QED
  BY <1>2, <1>4, <1>5, <1>6

-----------------------------------------------------------------------------
(* Nothing an assessment computes of given rows changes with the settled.  *)

LEMMA SameHits ==
    ASSUME NEW CONSTANT rows, kind' = kind
    PROVE  Hits(rows)' = Hits(rows)
  BY DEF Hits, Size, Sum, Such, SaysUp, WentUp, MapThenSumSet, MapThenFoldSet

LEMMA SameSizes ==
    ASSUME NEW CONSTANT rows
    PROVE  /\ Size(rows)' = Size(rows)
           /\ Ups(rows)' = Ups(rows) /\ Downs(rows)' = Downs(rows)
           /\ TwoSided(rows)' = TwoSided(rows)
           /\ Compared(rows)' = Compared(rows)
  BY DEF Size, Sum, Such, Ups, Downs, TwoSided, MapThenSumSet, MapThenFoldSet, Compared

LEMMA SameSkill ==
    ASSUME NEW CONSTANT w, kind' = kind
    PROVE  Skill(w)' = Skill(w)
PROOF
<1>1. RegressorSkill(w)' = RegressorSkill(w)
  BY DEF RegressorSkill, Sum, Distance, NoSkill, MapThenSumSet, MapThenFoldSet
<1>2. ClassifierSkill(w)' = ClassifierSkill(w)
  <2>1. Hits(Ups(w))' = Hits(Ups(w)) /\ Hits(Downs(w))' = Hits(Downs(w))
    BY DEF Hits, Size, Sum, Such, SaysUp, WentUp, MapThenSumSet, MapThenFoldSet, Ups, Downs
  <2>2. Size(Ups(w))' = Size(Ups(w)) /\ Size(Downs(w))' = Size(Downs(w)) /\ NoSkill' = NoSkill
        /\ TwoSided(w)' = TwoSided(w)
        /\ TwoSided(Such(w, LAMBDA r : r.naive # "none"))'
            = TwoSided(Such(w, LAMBDA r : r.naive # "none"))
    BY DEF Size, Sum, Such, MapThenSumSet, MapThenFoldSet, Ups, Downs, NoSkill, TwoSided
  <2> QED
    BY <2>1, <2>2 DEF ClassifierSkill
<1> QED
  BY <1>1, <1>2 DEF Skill

LEMMA SameDegraded ==
    ASSUME NEW CONSTANT old, NEW CONSTANT new, kind' = kind
    PROVE  Degraded(old, new)' = Degraded(old, new)
PROOF
<1>1. /\ Hits(old)' = Hits(old) /\ Hits(new)' = Hits(new)
      /\ Size(old)' = Size(old) /\ Size(new)' = Size(new)
  BY SameHits, SameSizes
<1> QED
  BY <1>1 DEF Degraded, Exceeds, MaxDegradation

LEMMA SameFrom ==
    ASSUME NEW CONSTANT day, NEW CONSTANT mid, settled' = settled
    PROVE  From(day)' = From(day) /\ Between(day, mid)' = Between(day, mid)
           /\ Size(settled)' = Size(settled)
  BY DEF From, Between, Such, Size, Sum, MapThenSumSet, MapThenFoldSet

-----------------------------------------------------------------------------
(* The verdict                                                             *)

\* What the database does not decide.
Clear(v) ==
    /\ v.status = "healthy" <=> v.advice = {"continue_serving"}
    /\ v.status \in {"degraded", "critical"} <=> "downgrade_to_experimental" \in v.advice
HalfRight(v, day, w) ==
    \A mid \in AssessedDays : \A old, new :
      /\ old = Between(day, mid) /\ new = From(mid)
      /\ Size(old) = Size(w) \div 2 /\ Compared(w)
      => ("retrain_using_newer_data" \in v.advice <=> Degraded(old, new))
Decided(v) ==
    \A day \in AssessedDays : \A w :
      /\ w = From(day)
      /\ Size(w) = Min({WindowSize, Size(settled)}) /\ Size(w) >= MinSamples
      => /\ v.status \in {"degraded", "critical"} <=> Skill(w) # NoSkill /\ Skill(w).over <= 0
         /\ HalfRight(v, day, w)

VerdictInv ==
    /\ SettledTyped
    /\ verdict # NoVerdict => Clear(verdict) /\ Decided(verdict)

LEMMA InvFollowsDays == VerdictInv => VerdictFollowsDays
PROOF
<1>1. SUFFICES ASSUME VerdictInv, verdict # NoVerdict,
               NEW day \in AssessedDays,
               Size(From(day)) = Min({WindowSize, Size(settled)}), Size(From(day)) >= MinSamples
      PROVE /\ (verdict.status \in {"degraded", "critical"})
                 <=> Skill(From(day)) # NoSkill /\ Skill(From(day)).over <= 0
            /\ \A mid \in AssessedDays :
                      Size(Between(day, mid)) = Size(From(day)) \div 2 /\ Compared(From(day)) =>
                        ("retrain_using_newer_data" \in verdict.advice
                         <=> Degraded(Between(day, mid), From(mid)))
  BY DEF VerdictInv, VerdictFollowsDays, Clear
<1>2. PICK w : w = From(day)
  OBVIOUS
<1>3. /\ verdict.status \in {"degraded", "critical"} <=> Skill(w) # NoSkill /\ Skill(w).over <= 0
      /\ HalfRight(verdict, day, w)
  BY <1>1, <1>2 DEF VerdictInv, Decided
<1>4. ASSUME NEW mid \in AssessedDays,
             Size(Between(day, mid)) = Size(w) \div 2, Compared(w)
      PROVE "retrain_using_newer_data" \in verdict.advice
                         <=> Degraded(Between(day, mid), From(mid))
  BY <1>3, <1>4 DEF HalfRight
<1> QED
  BY <1>2, <1>3, <1>4

LEMMA VerdictKept ==
    ASSUME NEW CONSTANT v, Decided(v), kind' = kind, settled' = settled
    PROVE  Decided(v)'
PROOF
<1> DEFINE n == Min({WindowSize, Size(settled)})
<1>1. n' = n
  BY SameFrom DEF Min
<1> HIDE DEF n
<1>2. ASSUME NEW day \in AssessedDays, NEW w, HalfRight(v, day, w) PROVE HalfRight(v, day, w)'
  <2>1. SUFFICES ASSUME NEW mid \in AssessedDays, NEW old, NEW new,
                        old = Between(day, mid)', new = From(mid)',
                        Size(old)' = (Size(w) \div 2)', Compared(w)'
                 PROVE  "retrain_using_newer_data" \in v.advice <=> Degraded(old, new)'
    BY DEF HalfRight
  <2>2. old = Between(day, mid) /\ new = From(mid)
    BY <2>1, SameFrom
  <2>3. Size(old) = Size(w) \div 2 /\ Compared(w)
    <3>1. Size(old)' = Size(old) /\ Size(w)' = Size(w) /\ Compared(w)' = Compared(w)
      BY SameSizes
    <3> QED
      BY <2>1, <3>1
  <2>4. Degraded(old, new)' = Degraded(old, new)
    BY SameDegraded
  <2>5. "retrain_using_newer_data" \in v.advice <=> Degraded(old, new)
    BY <1>2, <2>2, <2>3 DEF HalfRight
  <2> QED
    BY <2>4, <2>5
<1>3. SUFFICES ASSUME NEW day \in AssessedDays, NEW w, w = From(day)', Size(w)' = n', Size(w)' >= MinSamples
      PROVE  /\ v.status \in {"degraded", "critical"} <=> Skill(w)' # NoSkill /\ Skill(w)'.over <= 0
             /\ HalfRight(v, day, w)'
  BY DEF Decided, n, NoSkill
<1>4. w = From(day) /\ Size(w) = n /\ Size(w) >= MinSamples
  BY <1>1, <1>3, SameFrom, SameSizes
<1>5. /\ v.status \in {"degraded", "critical"} <=> Skill(w) # NoSkill /\ Skill(w).over <= 0
      /\ HalfRight(v, day, w)
  BY <1>4 DEF Decided, n
<1> QED
  BY <1>2, <1>5, SameSkill

LEMMA HitsTyped ==
    ASSUME NEW b, FiniteBag(b)
    PROVE  Hits(b) \in Nat /\ (Size(b) = 0 => Hits(b) = 0)
PROOF
<1> DEFINE A == {r \in DOMAIN b : SaysUp(r) = WentUp(r)}
<1>1. PICK h : h = Such(b, LAMBDA r : SaysUp(r) = WentUp(r))
  OBVIOUS
<1>2. h = [r \in A |-> b[r]]
  BY <1>1 DEF Such
<1>3. A \subseteq DOMAIN b /\ IsFiniteSet(A)
  BY FS_Subset DEF FiniteBag
<1>4. FiniteBag(h) /\ DOMAIN h = A
  <2> HIDE DEF A
  <2> QED
    BY <1>2, <1>3 DEF FiniteBag, IsABag
<1>5. Hits(b) = Size(h)
  BY <1>1 DEF Hits
<1>6. Size(h) \in Nat /\ (Size(h) = 0 <=> DOMAIN h = {}) /\ (Size(b) = 0 <=> DOMAIN b = {})
  BY <1>4, SizeTyped
<1> QED
  BY <1>3, <1>4, <1>5, <1>6

LEMMA NoneDegraded ==
    ASSUME NEW old, FiniteBag(old), Size(old) = 0, NEW new, FiniteBag(new)
    PROVE  ~Degraded(old, new)
PROOF
<1>1. Hits(old) = 0 /\ Hits(new) \in Nat /\ Size(new) \in Nat
  BY HitsTyped, SizeTyped
<1>2. \A hits, size \in Nat : ~(100 * (0 * size - hits * 0) > 15 * 0 * size)
  OBVIOUS
<1> QED
  BY <1>1, <1>2 DEF Degraded, Exceeds, MaxDegradation

\* What is advised of a window.
LEMMA AdviceClear ==
    ASSUME NEW w, Size(w) \in Nat, NEW drift, NEW status, status = Status(w, drift),
           NEW v, v = [status |-> status, advice |-> Recommendations(w, drift, status)]
    PROVE  /\ Clear(v)
           /\ Size(w) >= MinSamples =>
                /\ status \in {"degraded", "critical"} <=> Skill(w) # NoSkill /\ Skill(w).over <= 0
                /\ "retrain_using_newer_data" \in v.advice <=> "performance" \in drift
PROOF
<1> DEFINE few == Size(w) < MinSamples
           none == Skill(w) = NoSkill
           worse == Skill(w).over <= 0
           poor == Size(w) < MinSamplesWatch \/ PoorlyCalibrated(w) \/ drift # {}
<1>1. /\ MinSamples \in Nat /\ MinSamplesWatch \in Nat
  BY VerdictAssumption
<1>2. /\ few => status = "insufficient_data"
      /\ ~few /\ none => status = "watch"
      /\ ~few /\ ~none /\ worse => status \in {"critical", "degraded"}
      /\ ~few /\ ~none /\ ~worse => status = IF poor THEN "watch" ELSE "healthy"
  <2>1. ~few <=> Size(w) >= MinSamples
    BY <1>1
  <2> QED
    BY <2>1, Zenon DEF Status
<1>3. status = "healthy" => Concerns(w, drift, status) = {} /\ ~("performance" \in drift)
  <2>1. status = "healthy" => ~poor
    BY <1>2
  <2> QED
    BY <2>1 DEF Concerns
<1>4. status \in {"insufficient_data", "watch", "critical", "degraded", "healthy"}
  BY <1>2
<1>5. /\ v.status = status
      /\ status = "insufficient_data" => v.advice = {"collect_more_outcomes"}
      /\ status = "healthy" => v.advice = {"continue_serving"}
      /\ status \in {"watch", "critical", "degraded"} => v.advice = Concerns(w, drift, status)
  BY <1>3 DEF Recommendations
<1>6. LET those == Concerns(w, drift, status) IN
        /\ "continue_serving" \notin those
        /\ "downgrade_to_experimental" \in those <=> status \in {"critical", "degraded"}
        /\ "retrain_using_newer_data" \in those <=> "performance" \in drift
  BY DEF Concerns
<1>7. ~few <=> Size(w) >= MinSamples
  BY <1>1
<1> HIDE DEF few, none, worse, poor
<1>8. Clear(v)
  BY <1>4, <1>5, <1>6 DEF Clear
<1>9. ~few => (status \in {"degraded", "critical"} <=> ~none /\ worse)
  BY <1>2
<1>10. ~few => ("retrain_using_newer_data" \in v.advice <=> "performance" \in drift)
  <2>1. ~few => status \in {"watch", "critical", "degraded", "healthy"}
    BY <1>2
  <2> QED
    BY <1>3, <1>5, <1>6, <2>1
<1> QED
  BY <1>7, <1>8, <1>9, <1>10 DEF none, worse

\* What is right to conclude of any window and half the database may return.
LEMMA AssessmentRight ==
    ASSUME SettledTyped, NEW w \in Windows, NEW half \in OlderHalves(w),
           NEW shift \in {{}, {"predictions"}, {"predictions_major"}}, NEW changed \in BOOLEAN,
           NEW drift, drift = IF Size(w) = 0 THEN {} ELSE Drift(w, half, shift, changed),
           NEW status, status = Status(w, drift),
           NEW v, v = [status |-> status, advice |-> Recommendations(w, drift, status)]
    PROVE  Clear(v) /\ Decided(v)
PROOF
<1>1. FiniteBag(w) /\ Size(w) \in Nat
  BY PartTyped, SizeTyped DEF Windows, SettledTyped
<1>2. /\ Clear(v)
      /\ v.status = status
      /\ Size(w) >= MinSamples =>
           /\ status \in {"degraded", "critical"} <=> Skill(w) # NoSkill /\ Skill(w).over <= 0
           /\ "retrain_using_newer_data" \in v.advice <=> "performance" \in drift
  BY <1>1, AdviceClear
<1>3. ASSUME NEW day \in AssessedDays, NEW from, from = From(day),
             Size(from) = Min({WindowSize, Size(settled)})
      PROVE  w = from
  <2>1. day \in Int
    BY VerdictAssumption
  <2> QED
    BY <1>3, <2>1, OneWindow
<1>4. ASSUME NEW day \in AssessedDays, w = From(day),
             NEW mid \in AssessedDays, NEW old, NEW new, old = Between(day, mid), new = From(mid),
             Size(old) = Size(w) \div 2, Compared(w)
      PROVE  "performance" \in drift <=> Degraded(old, new)
  <2>1. day \in Int /\ mid \in Int
    BY VerdictAssumption
  <2>2. /\ half = old /\ FiniteBag(old) /\ FiniteBag(new)
        /\ \A r \in DOMAIN old : day <= r.day /\ r.day < mid /\ r.day \in Int
    <3>1. half = old
      BY <1>4, <2>1, OneHalf
    <3>2. FiniteBag(old) /\ FiniteBag(new) /\ OfDays(old) /\ old \sqsubseteq w /\ w \sqsubseteq settled
          /\ \A r \in DOMAIN settled : r \in DOMAIN old => day <= r.day /\ r.day < mid
      BY <1>4, <2>1, FromTyped
    <3> QED
      BY <3>1, <3>2 DEF OfDays, \sqsubseteq
  <2>3. CASE Size(w) = 0
    <3>1. Size(old) = 0
      BY <1>4, <2>3
    <3> QED
      BY <2>2, <2>3, <3>1, NoneDegraded
  <2>4. CASE Size(w) # 0
    <3>1. \A rest : rest = w (-) half => ("performance" \in drift <=> Degraded(half, rest))
      BY <1>4, <2>4 DEF Drift
    <3>2. CASE day <= mid
      <4>1. w (-) half = new
        BY <1>4, <2>1, <2>2, <3>2, LaterDays
      <4> QED
        BY <2>2, <3>1, <4>1
    <3>3. CASE mid < day
      <4>1. DOMAIN old = {}
        <5>1. ASSUME NEW r \in DOMAIN old PROVE FALSE
          <6>1. day <= r.day /\ r.day < mid /\ r.day \in Int
            BY <2>2
          <6> QED
            BY <2>1, <3>3, <6>1
        <5> QED
          BY <5>1
      <4>2. Size(old) = 0
        BY <2>2, <4>1, SizeTyped
      <4>3. PICK none : none = Between(day, day)
        OBVIOUS
      <4>4. FiniteBag(none) /\ DOMAIN none = {}
        <5>1. FiniteBag(none) /\ OfDays(none) /\ none \sqsubseteq w /\ w \sqsubseteq settled
              /\ \A r \in DOMAIN settled : r \in DOMAIN none => day <= r.day /\ r.day < day
          BY <1>4, <2>1, <4>3, FromTyped
        <5>2. ASSUME NEW r \in DOMAIN none PROVE FALSE
          <6>1. r \in DOMAIN settled /\ r.day \in Int
            BY <5>1 DEF OfDays, \sqsubseteq
          <6>2. day <= r.day /\ r.day < day
            BY <5>1, <6>1
          <6> QED
            BY <2>1, <6>1, <6>2
        <5> QED
          BY <5>1, <5>2
      <4>5. half = none
        BY <2>2, <4>1, <4>4 DEF FiniteBag, IsABag
      <4>6. w (-) half = w
        <5>1. day <= day
          BY <2>1
        <5> QED
          BY <1>4, <2>1, <4>3, <4>5, <5>1, LaterDays
      <4>7. ~("performance" \in drift)
        BY <1>1, <2>2, <3>1, <4>2, <4>6, NoneDegraded
      <4>8. ~Degraded(old, new)
        BY <2>2, <4>2, NoneDegraded
      <4> QED
        BY <4>7, <4>8
    <3> QED
      BY <2>1, <3>2, <3>3
  <2> QED
    BY <2>3, <2>4
<1>5. ASSUME NEW day \in AssessedDays, w = From(day), Size(w) >= MinSamples
      PROVE  HalfRight(v, day, w)
  BY <1>2, <1>4, <1>5 DEF HalfRight
<1>6. Decided(v)
  BY <1>2, <1>3, <1>5 DEF Decided
<1> QED
  BY <1>2, <1>6

LEMMA SettledMore ==
    ASSUME SettledTyped, NEW r, r.day \in AssessedDays
    PROVE  FiniteBag(settled (+) SetToBag({r})) /\ OfDays(settled (+) SetToBag({r}))
PROOF
<1> DEFINE one == SetToBag({r})
           D == DOMAIN settled \cup {r}
<1>1. one = [s \in {r} |-> 1]
  BY DEF SetToBag
<1>2. IsFiniteSet(D) /\ \A s \in D : s.day \in Int
  BY FS_AddElement, VerdictAssumption DEF SettledTyped, FiniteBag, OfDays
<1>3. PICK sum : sum = settled (+) one
  OBVIOUS
<1>4. /\ sum = [s \in D |-> sum[s]]
      /\ \A s \in D : sum[s] = (IF s \in DOMAIN settled THEN settled[s] ELSE 0)
                               + (IF s \in {r} THEN 1 ELSE 0)
  BY <1>1, <1>3 DEF (+)
<1>5. \A s \in D : sum[s] \in Nat /\ sum[s] > 0
  BY <1>4 DEF SettledTyped, FiniteBag, IsABag
<1>6. FiniteBag(sum) /\ OfDays(sum)
  BY <1>2, <1>4, <1>5 DEF FiniteBag, IsABag, OfDays
<1> QED
  BY <1>3, <1>6

\* An assessment calls a model degraded or critical, and advises retraining,
\* by the newest days alone, whichever rows of equal date the query returns.
THEOREM VerdictRight == VerdictSpec => []VerdictFollowsDays
PROOF
<1>1. VerdictInit => VerdictInv
  <2> SUFFICES ASSUME VerdictInit PROVE VerdictInv
    OBVIOUS
  <2>1. IsFiniteSet({})
    BY FS_EmptySet
  <2>2. settled = [s \in {} |-> 1]
    BY DEF VerdictInit, EmptyBag, SetToBag
  <2> QED
    BY <2>1, <2>2 DEF VerdictInit, VerdictInv, SettledTyped, FiniteBag, OfDays, IsABag
<1>2. VerdictInv /\ [VerdictNext]_verdictVars => VerdictInv'
  <2> SUFFICES ASSUME VerdictInv, [VerdictNext]_verdictVars PROVE VerdictInv'
    OBVIOUS
  <2>1. ASSUME settled' = settled PROVE SettledTyped'
    BY <2>1 DEF VerdictInv, SettledTyped, FiniteBag, OfDays, IsABag
  <2>2. CASE AssessOne
    <3>1. PICK w \in Windows, shift \in {{}, {"predictions"}, {"predictions_major"}},
               changed \in BOOLEAN : \E half \in OlderHalves(w) :
                 LET drift == IF Size(w) = 0 THEN {} ELSE Drift(w, half, shift, changed)
                     status == Status(w, drift)
                 IN  verdict' = [status |-> status, advice |-> Recommendations(w, drift, status)]
      BY <2>2 DEF AssessOne
    <3>2. PICK half, drift, status, v :
            /\ half \in OlderHalves(w)
            /\ drift = IF Size(w) = 0 THEN {} ELSE Drift(w, half, shift, changed)
            /\ status = Status(w, drift)
            /\ v = [status |-> status, advice |-> Recommendations(w, drift, status)]
            /\ verdict' = v
      BY <3>1
    <3>3. Clear(v) /\ Decided(v)
      BY <3>2, AssessmentRight DEF VerdictInv
    <3>4. kind' = kind /\ settled' = settled
      BY <2>2 DEF AssessOne
    <3>5. Decided(v)'
      BY <3>3, <3>4, VerdictKept
    <3>6. Clear(verdict)' /\ Decided(verdict)'
      BY <3>2, <3>3, <3>5 DEF Clear, Decided, HalfRight
    <3> QED
      BY <2>1, <3>4, <3>6 DEF VerdictInv
  <2>3. CASE \E r \in Predictions : SettleOne(r)
    <3>1. PICK r \in Predictions : SettleOne(r)
      BY <2>3
    <3>2. r.day \in AssessedDays
      BY DEF Predictions
    <3>3. FiniteBag(settled (+) SetToBag({r})) /\ OfDays(settled (+) SetToBag({r}))
      BY <3>2, SettledMore DEF VerdictInv
    <3>4. settled' = settled (+) SetToBag({r}) /\ verdict' = NoVerdict
      BY <3>1 DEF SettleOne
    <3>5. SettledTyped'
      BY <3>3, <3>4 DEF SettledTyped, FiniteBag, OfDays, IsABag
    <3> QED
      BY <3>4, <3>5 DEF VerdictInv, NoVerdict
  <2>4. CASE UNCHANGED verdictVars
    <3>1. kind' = kind /\ settled' = settled /\ verdict' = verdict /\ NoVerdict' = NoVerdict
      BY <2>4 DEF verdictVars, NoVerdict
    <3>2. PICK v : v = verdict
      OBVIOUS
    <3>3. ASSUME v # NoVerdict PROVE Clear(verdict)' /\ Decided(verdict)'
      <4>1. Clear(v) /\ Decided(v)
        BY <3>2, <3>3 DEF VerdictInv
      <4>2. Decided(v)'
        BY <3>1, <4>1, VerdictKept
      <4>3. verdict' = v
        BY <3>1, <3>2
      <4> QED
        BY <4>1, <4>2, <4>3 DEF Clear, Decided, HalfRight
    <3> QED
      BY <2>1, <3>1, <3>2, <3>3 DEF VerdictInv
  <2> QED
    BY <2>2, <2>3, <2>4 DEF VerdictNext
<1>3. VerdictInv => VerdictFollowsDays
  BY InvFollowsDays
<1> QED
  BY <1>1, <1>2, <1>3, PTL DEF VerdictSpec
=============================================================================
