------------------------- MODULE ChallengerSelection -------------------------
(***************************************************************************)
(* The research challengers of the forward-return model: the regime-routed *)
(* one (market/services/regime_tuning.py) and the recency-weighted one     *)
(* (recent_weighted_model.py).  A study cuts the panel into chronological  *)
(* windows, tries every configuration on the validation window, judges the *)
(* best one once on the test window, and may keep it as an experimental    *)
(* version.  What a fit scores is left open.                               *)
(*                                                                         *)
(* The rows of the panel stand on a few sample days, counted per regime.   *)
(* Balanced accuracy, Brier score and coverage are small numbers; an       *)
(* accuracy of NoScore is None.                                            *)
(***************************************************************************)
EXTENDS Integers, Sequences, FiniteSets, FiniteSetsExt, Functions

CONSTANTS Regimes,
          Configs,      \* the grid, or CANDIDATE_KINDS, in order
          Bands,        \* BAND_GRID in order; the first abstains from nothing
          SampleDays,   \* bound: the days that have rows
          Panels,       \* bound: the rows a regime has on a day
          Lopsided,     \* bound: which windows of a regime may have one label
          Outcomes,     \* bound: what the rows a band covers may score
          MinCoverage, FullCoverage

ASSUME StudyAssumption ==
    /\ Len(Configs) \in Nat /\ DOMAIN Configs = 1..Len(Configs)
    /\ Len(Bands) \in Nat \ {0} /\ DOMAIN Bands = 1..Len(Bands)
    /\ Outcomes \subseteq [accuracy : Nat, brier : 0..998, coverage : Nat]
    /\ MinCoverage \in Nat /\ FullCoverage \in Nat

VARIABLES study, panel,
          oneSided,     \* the <<regime, window>> whose rows all have one label
          tried,        \* how many configurations were tried
          scores,       \* auxiliary: <<configuration, band>> -> its result
          best,         \* the best so far
          judged,       \* the outcome of the study
          kept          \* auxiliary: what was stored of it

studyVars == <<study, panel, oneSided, tried, scores, best, judged, kept>>

NoScore == -1
Nothing == [config |-> "none"]
Refusal == [config |-> "refused"]

StudyInit ==
    /\ study \in {"regime", "recent"} /\ panel \in Panels /\ oneSided \in Lopsided
    /\ tried = 0 /\ scores = <<>> /\ best = Nothing /\ judged = Nothing
    /\ kept = "nothing"

-----------------------------------------------------------------------------
(* The windows                                                             *)

MinTrainRows == 100
MinEvalRows == 20

RowsOn(d) == SumFunction([r \in Regimes |-> panel[r][d]])
PanelDays == {d \in SampleDays : RowsOn(d) > 0}

TestStart == Max(PanelDays) - 30
ValidationStart == TestStart - 60
TrainStart == ValidationStart - 14 - 365

\* _chronological_windows
Window(w) ==
    {d \in PanelDays :
       CASE w = "initial"    -> d \in TrainStart..(ValidationStart - 14)
         [] w = "validation" -> d \in ValidationStart..(TestStart - 1)
         [] w = "final"      -> d \in TrainStart..(TestStart - 14)
         [] w = "test"       -> d >= TestStart}

RowsOf(r, w) == MapThenSumSet(LAMBDA d : panel[r][d], Window(w))
RowsIn(w) == MapThenSumSet(LAMBDA d : RowsOn(d), Window(w))

\* _regimes_with_rows
WithRows(w) == {r \in Regimes : RowsOf(r, w) >= MinEvalRows}

\* _fit_regime_models: the regimes that get a model
Fitted(w) == {r \in Regimes : RowsOf(r, w) >= MinTrainRows /\ <<r, w>> \notin oneSided}

TooFewRows ==
    \/ PanelDays = {}
    \/ Min({RowsIn("initial"), RowsIn("final")}) < MinTrainRows
    \/ Min({RowsIn("validation"), RowsIn("test")}) < MinEvalRows

\* A regime of the test window that cannot be tuned on the validation window.
Untunable == WithRows("test") \ WithRows("validation")

-----------------------------------------------------------------------------
(* The search                                                              *)

\* _EMPTY_METRICS, as for rows of one label
Unscored == [accuracy |-> NoScore, brier |-> 0, coverage |-> 0]

\* `or 999`
OrWorst(brier) == IF brier = 0 THEN 999 ELSE brier

\* The tuple (balanced accuracy, -Brier, coverage)
Better(x, y) ==
    \/ x.accuracy > y.accuracy
    \/ /\ x.accuracy = y.accuracy
       /\ \/ OrWorst(x.brier) < OrWorst(y.brier)
          \/ OrWorst(x.brier) = OrWorst(y.brier) /\ x.coverage > y.coverage

\* The first that no other is better than.
Winner(candidates, outcome) ==
    LET top == {i \in candidates : \A j \in candidates : ~Better(outcome[j], outcome[i])}
    IN  Min(top)

\* Fault: no coverage floor.
ClearedByFew(x) == x.accuracy # NoScore

Cleared(x) == x.coverage >= MinCoverage /\ x.accuracy # NoScore

\* What a configuration may score on the rows it was fitted for, band by band: a
\* wider band covers fewer of them.
MayScore ==
    LET scored == \E r \in Fitted("initial") : RowsOf(r, "validation") > 0
    IN  {o \in [DOMAIN Bands -> Outcomes \cup {Unscored}] :
           /\ o[1] # Unscored => scored /\ o[1].coverage = FullCoverage
           /\ \A i, j \in DOMAIN Bands : i < j => o[i].coverage > o[j].coverage \/ o[j] = Unscored}

\* _tune_thresholds: the regimes whose threshold is chosen by their validation
\* rows; too few of them, or of one label, leave it at 0.5.
Tuned == {r \in Fitted("initial") \cap WithRows("validation") : <<r, "validation">> \notin oneSided}

Refuse ==
    /\ judged = Nothing /\ tried = 0
    /\ TooFewRows \/ (study = "regime" /\ Untunable # {})
    /\ judged' = Refusal
    /\ UNCHANGED <<study, panel, oneSided, tried, scores, best, kept>>

Searching ==
    /\ judged = Nothing /\ tried < Len(Configs)
    /\ ~TooFewRows /\ (study = "regime" => Untunable = {})
    /\ tried' = tried + 1

\* One round of tune_regime_challenger, with _select_band.
TryRegime ==
    /\ study = "regime" /\ Searching
    /\ IF Fitted("initial") = {} THEN UNCHANGED <<scores, best>>
       ELSE \E outcome \in MayScore :
         LET cleared == {i \in DOMAIN Bands : Cleared(outcome[i])}
             band == Winner(cleared, outcome)
         IN  /\ scores' = [x \in DOMAIN scores \cup ({tried'} \X DOMAIN Bands) |->
                             IF x[1] = tried' THEN outcome[x[2]] ELSE scores[x]]
             /\ best' = IF cleared = {} \/ (best # Nothing /\ ~Better(outcome[band], best.result))
                          THEN best
                        ELSE [config |-> tried', band |-> band, result |-> outcome[band]]
    /\ UNCHANGED <<study, panel, oneSided, judged, kept>>

\* One round of train_recent_weighted_challenger; `or -1` for the accuracy.
TryKind ==
    /\ study = "recent" /\ Searching
    /\ \E o \in {x \in Outcomes : x.coverage = FullCoverage} \cup {Unscored} :
         LET result == IF o.accuracy = 0 THEN [o EXCEPT !.accuracy = NoScore] ELSE o
         IN  /\ scores' = [x \in DOMAIN scores \cup {<<tried', 1>>} |->
                             IF x[1] = tried' THEN result ELSE scores[x]]
             /\ best' = IF best # Nothing /\ ~Better(result, best.result) THEN best
                        ELSE [config |-> tried', band |-> 1, result |-> result]
    /\ UNCHANGED <<study, panel, oneSided, judged, kept>>

-----------------------------------------------------------------------------
(* The judgement                                                           *)

\* The test window, once: rows of a regime the final fit has no model for are
\* left out, and a regime the search had none for has the threshold 0.5.
Judge ==
    /\ judged = Nothing /\ tried = Len(Configs)
    /\ judged' = IF best = Nothing THEN Refusal
                 ELSE [config |-> best.config, band |-> best.band,
                       scored |-> {r \in Fitted("final") : RowsOf(r, "test") > 0},
                       untuned |-> Fitted("final") \ Tuned]
    /\ UNCHANGED <<study, panel, oneSided, tried, scores, best, kept>>

\* persist, unless the command is killed: the file at MODEL_PATH is replaced, then
\* an experimental version is recorded that is never active.
Keep ==
    /\ judged \notin {Nothing, Refusal} /\ kept # "version"
    /\ kept' = CASE kept = "nothing" -> "file" [] kept = "file" -> "version"
    /\ UNCHANGED <<study, panel, oneSided, tried, scores, best, judged>>

StudyNext == Refuse \/ TryRegime \/ TryKind \/ Judge \/ Keep

StudySpec == StudyInit /\ [][StudyNext]_studyVars
-----------------------------------------------------------------------------

\* "Every hyperparameter is chosen on a chronological validation window" and "a
\* minimum-coverage floor stops the search from winning by abstaining"
\* (regime_tuning.py): of all that was tried, band by band, nothing that clears
\* the floor beats what is judged, but for a Brier score of 0.  And a regime with
\* enough test rows is judged by a threshold no validation chose only when the
\* search had no model of it, or its validation rows had one label.
BestIsJudged ==
    judged \notin {Nothing, Refusal} =>
      LET mine == scores[<<judged.config, judged.band>>]
      IN  /\ \A c \in DOMAIN Configs : \E x \in DOMAIN scores : x[1] = c
          /\ study = "regime" => mine.coverage >= MinCoverage /\ mine.accuracy # NoScore
          /\ \A x \in DOMAIN scores :
               scores[x].coverage >= MinCoverage /\ scores[x].accuracy # NoScore =>
                 /\ scores[x].accuracy <= mine.accuracy
                 /\ scores[x].accuracy = mine.accuracy /\ scores[x].brier # 0 =>
                      mine.brier \in 1..scores[x].brier
          /\ study = "regime" => \A r \in judged.untuned \cap judged.scored \cap WithRows("test") :
               r \notin Fitted("initial") \/ <<r, "validation">> \in oneSided
=============================================================================
