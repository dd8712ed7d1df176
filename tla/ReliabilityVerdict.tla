------------------------- MODULE ReliabilityVerdict -------------------------
(***************************************************************************)
(* What one assessment of the reliability monitor concludes from settled   *)
(* predictions: reliability_report._assess_one with its metrics, drift,    *)
(* status and recommendations, for one exchange and one window.            *)
(*                                                                         *)
(* Several predictions are made on a day and the query orders by the day   *)
(* alone, so which of them are in the window, and which in its older half, *)
(* is for the database to say.  Shares are compared as fractions; their    *)
(* rounding to four digits is left out, as are the metrics that are only   *)
(* displayed.  How far the distribution of the predictions has shifted     *)
(* (PSI and Kolmogorov-Smirnov) is arbitrary.                              *)
(***************************************************************************)
EXTENDS Integers, FiniteSets, FiniteSetsExt, Bags

CONSTANTS AssessedDays,       \* on which predictions were made, numbers
          Probabilities,      \* of a rise, in percent, that the classifier gives
          Returns,            \* that the regressor predicts and that come true
          WindowSize,         \* one of WINDOW_SIZES
          MinSamples,         \* MIN_SAMPLES_INSUFFICIENT
          MinSamplesWatch,    \* MIN_SAMPLES_WATCH
          MinRowsPerHalf,     \* MIN_ROWS_PER_HALF
          MaxSettled          \* bound: predictions settled before the assessment

ASSUME VerdictAssumption ==
    /\ AssessedDays \subseteq Int
    /\ {WindowSize, MinSamples, MinSamplesWatch, MinRowsPerHalf, MaxSettled} \subseteq Nat

HighCalibrationError == 15  \* percent, as are the next two
MaxDegradation == 15
MaxCalibrationLoss == 10

VARIABLES kind,      \* of the model assessed
          settled,   \* a bag: several stocks may have the same numbers
          verdict    \* of the assessment, when it has been made

verdictVars == <<kind, settled, verdict>>

Predictions ==
    IF kind = "classifier"
      THEN [day : AssessedDays, predicted : Probabilities, naive : {"up", "none"},
            outcome : {-1, 1}]
      ELSE [day : AssessedDays, predicted : Returns, naive : {"zero"}, outcome : Returns]

NoVerdict == [status |-> "none", advice |-> {}]

VerdictInit ==
    /\ kind \in {"classifier", "regressor"}
    /\ settled = EmptyBag
    /\ verdict = NoVerdict

-----------------------------------------------------------------------------
(* Counting                                                                *)

Sum(rows, f(_)) == MapThenSumSet(LAMBDA r : rows[r] * f(r), DOMAIN rows)
Such(rows, P(_)) == [r \in {s \in DOMAIN rows : P(s)} |-> rows[r]]
Size(rows) == Sum(rows, LAMBDA r : 1)
Distance(a, b) == IF a < b THEN b - a ELSE a - b

NoSkill == [over |-> 0, of |-> 0]

-----------------------------------------------------------------------------
(* Metrics                                                                 *)

SaysUp(r) == IF kind = "classifier" THEN r.predicted > 50 ELSE r.predicted >= 0
WentUp(r) == IF kind = "classifier" THEN r.outcome = 1 ELSE r.outcome >= 0
Hits(rows) == Size(Such(rows, LAMBDA r : SaysUp(r) = WentUp(r)))

Ups(rows) == Such(rows, LAMBDA r : r.outcome = 1)
Downs(rows) == Such(rows, LAMBDA r : r.outcome = -1)
TwoSided(rows) == Size(Ups(rows)) > 0 /\ Size(Downs(rows)) > 0

\* balanced_accuracy_score less the naive class's, which is a half wherever both
\* outcomes occurred; none where one of the two is undefined.  The naive class
\* is known only of some rows and only these rows are the baseline's.
ClassifierSkill(rows) ==
    LET up == Ups(rows)
        down == Downs(rows)
    IN  IF ~TwoSided(rows) \/ ~TwoSided(Such(rows, LAMBDA r : r.naive # "none")) THEN NoSkill
        ELSE [over |-> 2 * (Hits(up) * Size(down) + Hits(down) * Size(up))
                       - 2 * Size(up) * Size(down),
              of |-> 4 * Size(up) * Size(down)]

\* One less the ratio of the mean absolute errors.
RegressorSkill(rows) ==
    LET error == Sum(rows, LAMBDA r : Distance(r.predicted, r.outcome))
        naive == Sum(rows, LAMBDA r : Distance(0, r.outcome))
    IN  IF naive = 0 THEN NoSkill ELSE [over |-> naive - error, of |-> naive]

Skill(rows) == IF kind = "classifier" THEN ClassifierSkill(rows) ELSE RegressorSkill(rows)

\* The expected calibration error in percent, times the number of rows.
Bucket(r) == IF r.predicted = 100 THEN 9 ELSE r.predicted \div 10
Miscalibration(rows) ==
    MapThenSumSet(
      LAMBDA b : LET those == Such(rows, LAMBDA r : Bucket(r) = b)
                 IN  Distance(Sum(those, LAMBDA r : r.predicted), 100 * Size(Ups(those))),
      {Bucket(r) : r \in DOMAIN rows})

PoorlyCalibrated(rows) ==
    kind = "classifier" /\ Miscalibration(rows) > HighCalibrationError * Size(rows)

-----------------------------------------------------------------------------
(* The window and its halves                                               *)

\* The bags within a bag.
Parts(rows) ==
    {part \in UNION {[s -> 1..Size(rows)] : s \in SUBSET DOMAIN rows} : part \sqsubseteq rows}

\* order_by("-data_cutoff_date")[:window_size]
Windows ==
    {w \in Parts(settled) :
       /\ Size(w) = Min({WindowSize, Size(settled)})
       /\ \A r \in DOMAIN settled, s \in DOMAIN w :
            r.day > s.day => r \in DOMAIN w /\ w[r] = settled[r]}

\* Fault: the rows are split in the order in which they were queried.
HalvesAsQueried(w) ==
    {h \in Parts(w) :
       /\ Size(h) = Size(w) \div 2
       /\ \A r \in DOMAIN w, s \in DOMAIN h : r.day > s.day => r \in DOMAIN h /\ h[r] = w[r]}

\* _split_half: the older half.
OlderHalves(w) ==
    {h \in Parts(w) :
       /\ Size(h) = Size(w) \div 2
       /\ \A r \in DOMAIN w, s \in DOMAIN h : r.day < s.day => r \in DOMAIN h /\ h[r] = w[r]}

-----------------------------------------------------------------------------
(* Drift                                                                   *)

Compared(w) == Size(w) >= 2 * MinRowsPerHalf

\* a of m is by more than so many percent above b of n.
Exceeds(a, m, b, n, percent) == 100 * (a * n - b * m) > percent * m * n

Degraded(old, new) == Exceeds(Hits(old), Size(old), Hits(new), Size(new), MaxDegradation)
LessCalibrated(old, new) ==
    /\ kind = "classifier"
    /\ Miscalibration(new) * Size(old) - Miscalibration(old) * Size(new)
         > MaxCalibrationLoss * Size(old) * Size(new)
OtherBalance(old, new) ==
    /\ kind = "classifier"
    /\ \/ Exceeds(Size(Ups(old)), Size(old), Size(Ups(new)), Size(new), MaxDegradation)
       \/ Exceeds(Size(Ups(new)), Size(new), Size(Ups(old)), Size(old), MaxDegradation)

\* assess_drift; shift what is said of the predictions, changed says that the model
\* was trained on other columns than are used now.
Drift(w, old, shift, changed) ==
    LET new == w (-) old IN
    (IF changed THEN {"schema"} ELSE {})
    \cup (IF ~Compared(w) THEN {}
          ELSE shift
               \cup (IF Degraded(old, new) THEN {"performance"} ELSE {})
               \cup (IF LessCalibrated(old, new) THEN {"calibration"} ELSE {})
               \cup (IF OtherBalance(old, new) THEN {"balance"} ELSE {}))

-----------------------------------------------------------------------------
(* Status and recommendations                                              *)

\* determine_status
Status(w, drift) ==
    LET skill == Skill(w) IN
    CASE Size(w) < MinSamples -> "insufficient_data"
      [] Size(w) >= MinSamples /\ skill = NoSkill -> "watch"
      [] Size(w) >= MinSamples /\ skill # NoSkill /\ skill.over <= 0 ->
           IF Size(w) >= MinSamplesWatch THEN "critical" ELSE "degraded"
      [] OTHER ->
           IF Size(w) < MinSamplesWatch \/ PoorlyCalibrated(w) \/ drift # {}
             THEN "watch" ELSE "healthy"

Concerns(w, drift, status) ==
    (IF PoorlyCalibrated(w) THEN {"recalibrate_probabilities"} ELSE {})
    \cup (IF "performance" \in drift THEN {"retrain_using_newer_data"} ELSE {})
    \cup (IF drift \cap {"schema", "predictions_major"} # {} THEN {"inspect_specific_feature"} ELSE {})
    \cup (IF "calibration" \in drift THEN {"reduce_confidence_or_abstain"} ELSE {})
    \cup (IF status \in {"degraded", "critical"}
            THEN {"downgrade_to_experimental", "compare_against_simpler_baseline"} ELSE {})

\* generate_recommendations
Recommendations(w, drift, status) ==
    IF status = "insufficient_data" THEN {"collect_more_outcomes"}
    ELSE IF status = "healthy" /\ Concerns(w, drift, status) = {} THEN {"continue_serving"}
    ELSE Concerns(w, drift, status)

-----------------------------------------------------------------------------
(* Steps                                                                   *)

\* settle_predictions, day by day.
SettleOne(r) ==
    /\ verdict = NoVerdict /\ Size(settled) < MaxSettled
    /\ \A s \in DOMAIN settled : s.day <= r.day
    /\ settled' = settled (+) SetToBag({r})
    /\ UNCHANGED <<kind, verdict>>

\* An assessment reads nothing that an earlier one wrote, so one is enough.
AssessOne ==
    /\ verdict = NoVerdict
    /\ \E w \in Windows, shift \in {{}, {"predictions"}, {"predictions_major"}}, changed \in BOOLEAN :
         \E old \in OlderHalves(w) :
           LET drift == IF Size(w) = 0 THEN {} ELSE Drift(w, old, shift, changed)
               status == Status(w, drift)
           IN  verdict' = [status |-> status, advice |-> Recommendations(w, drift, status)]
    /\ UNCHANGED <<kind, settled>>

VerdictNext == AssessOne \/ \E r \in Predictions : SettleOne(r)

VerdictSpec == VerdictInit /\ [][VerdictNext]_verdictVars
-----------------------------------------------------------------------------

From(day) == Such(settled, LAMBDA r : r.day >= day)
Between(day, end) == Such(settled, LAMBDA r : day <= r.day /\ r.day < end)

\* The verdict and its advice agree, and where days, not the database, decide
\* what is in the window, both are about the newest predictions: a model is
\* called degraded or critical, which suspends it, exactly when on those it had
\* no edge over the naive forecast, and a retraining is advised exactly when
\* it was right less often on the later days ("the older half of the current
\* evaluation window; current period = the newer half", reliability_drift.py).
VerdictFollowsDays ==
    LET bad == verdict.status \in {"degraded", "critical"}
        good == verdict.status = "healthy"
    IN  verdict # NoVerdict =>
          /\ good <=> verdict.advice = {"continue_serving"}
          /\ bad <=> "downgrade_to_experimental" \in verdict.advice
          /\ \A day \in AssessedDays :
               LET w == From(day) IN
               Size(w) = Min({WindowSize, Size(settled)}) /\ Size(w) >= MinSamples =>
                 /\ bad <=> Skill(w) # NoSkill /\ Skill(w).over <= 0
                 /\ \A mid \in AssessedDays :
                      Size(Between(day, mid)) = Size(w) \div 2 /\ Compared(w) =>
                        ("retrain_using_newer_data" \in verdict.advice
                         <=> Degraded(Between(day, mid), From(mid)))
=============================================================================
