----------------------------- MODULE MCForecasts -----------------------------
(* The figures that are shown: the forecasts of a share, the models that are  *)
(* trained, judged and served to make them, and what a portfolio is worth.   *)
(* Each behaviour is one scene with one of them; the fairness is that of     *)
(* CloseForecasts.                                                           *)
(*                                                                           *)
(* One liquid stock over three days.  The last day's forecasts look past the *)
(* horizon; a bar that comes late puts two sessions into one batch.  The     *)
(* models begin with nothing, with a pooled model and DSE's own, or with two  *)
(* versions of DSE's.                                                         *)
EXTENDS CloseForecasts, ModelServing, Valuation, TLC

VARIABLE scene

MCNextTradingDay == [d \in Days |-> d + 1]

Older(v, from) == [version |-> v, approved |-> TRUE, sources |-> from]
OlderRow(s, on, copy) == [scope |-> s, active |-> on, backup |-> copy]
Paths(c, d) == [combined |-> c, DSE |-> d, CSE |-> NoArtifact]
SomeHistory == {
  [rows |-> <<>>, artifact |-> Paths(NoArtifact, NoArtifact)],
  [rows |-> <<OlderRow("combined", TRUE, NoArtifact), OlderRow("DSE", TRUE, NoArtifact)>>,
   artifact |-> Paths(Older(1, Exchanges), Older(2, {"DSE"}))],
  [rows |-> <<OlderRow("DSE", FALSE, NoArtifact), OlderRow("DSE", TRUE, Older(1, {"DSE"}))>>,
   artifact |-> Paths(NoArtifact, Older(2, {"DSE"}))]}

RecentBar(a, demo, c) == [age |-> a, synthetic |-> demo, close |-> c]
StoredQuote(p, on, m, o, b) == [price |-> p, enabled |-> on, minutes |-> m, open |-> o, bars |-> b]
\* Fresh, with a made-up bar, not refreshed for days, of a disabled exchange;
\* and one that has no price yet or is late.
Quoted ==
  "a" :> {StoredQuote(73, TRUE, 3, TRUE, <<RecentBar(0, FALSE, 70), RecentBar(1, TRUE, 60), RecentBar(2, FALSE, 66)>>),
          StoredQuote(73, TRUE, 30, TRUE, <<RecentBar(1, TRUE, 60)>>),
          StoredQuote(73, TRUE, 9000, FALSE, <<RecentBar(20, TRUE, 60)>>),
          StoredQuote(73, FALSE, 30, TRUE, <<RecentBar(3, FALSE, 60)>>)} @@
  "b" :> {StoredQuote(NoPrice, TRUE, 3, TRUE, <<>>), StoredQuote(44, TRUE, 30, TRUE, <<RecentBar(3, FALSE, 41)>>)}

forecastsVars == <<scene, vars, servingVars, valuationVars>>

InForecasts(A) == scene = "forecasts" /\ A /\ UNCHANGED <<scene, servingVars, valuationVars>>

ForecastsInit ==
    /\ scene \in {"forecasts", "serving", "worth"}
    /\ Init
    /\ ServingInit /\ (scene # "serving" => family = "close" /\ made = 0)
    /\ ValuationInit /\ (scene # "worth" => market = [s \in Shares |-> CHOOSE q \in Quoted[s] : TRUE])

ForecastsNext ==
    \/ InForecasts(Next)
    \/ scene = "serving" /\ ServingNext /\ UNCHANGED <<scene, vars, valuationVars>>
    \/ scene = "worth" /\ ValuationNext /\ UNCHANGED <<scene, vars, servingVars>>

ForecastsSpec ==
    /\ ForecastsInit /\ [][ForecastsNext]_forecastsVars
    /\ WF_forecastsVars(InForecasts(RunStep))
    /\ SF_forecastsVars(InForecasts(StartSettle("cycle")))
=============================================================================
