----------------------------- MODULE WalkForward -----------------------------
(***************************************************************************)
(* How the models are judged before they are kept: the panel of labelled   *)
(* rows (build_training_panel, _build_next_close_panel) and the folds over *)
(* it (walk_forward_folds), each training on the rows up to an embargo     *)
(* before its test window.  Days are numbers, 0 is a Sunday; an exchange   *)
(* trades from Sunday to Thursday but for one closure.  Features, fitting  *)
(* and scores are left out: what matters here is which closes a row knows. *)
(***************************************************************************)
EXTENDS Integers, Sequences, FiniteSetsExt

CONSTANTS HistoryDays, \* the history is days 0..HistoryDays - 1
          MaxClosure,  \* bound: days in a row the exchange is closed
          MaxMissed,   \* bound: days in a row the second stock does not trade
          MinDates     \* dates a panel needs

ASSUME FoldsAssumption ==
    /\ HistoryDays \in Nat
    /\ MaxClosure \in Nat /\ MaxMissed \in Nat
    /\ MinDates \in Nat \ {0, 1}

PanelStocks == {"steady", "gappy"}
Tasks == {"forward", "close"}
Horizon == [forward |-> 10, close |-> 1]
Embargo == [forward |-> 14, close |-> 3]
NFolds == [forward |-> 5, close |-> 3]

VARIABLES model,
          label,   \* of each stock's rows: the day whose close the row knows
          folds,   \* the dates each fold tests
          fold,    \* the one being evaluated
          regular  \* history: nothing was closed

foldVars == <<model, label, folds, fold, regular>>

Weekdays == {d \in 0..HistoryDays - 1 : d % 7 <= 4}
Stretches(n) == {{}} \cup {a..(a + k) : a \in Weekdays, k \in 0..n - 1}

\* The places of the numbers in ascending order, counted from 0.
PlacesOf(numbers) == [n \in numbers |-> Cardinality({m \in numbers : m < n})]
NumberAt(places, p) == CHOOSE n \in DOMAIN places : places[n] = p

\* A row's label is the close so many of the stock's bars later; the last rows
\* have none and are dropped.
LabelsOf(bars, horizon) ==
    LET place == PlacesOf(bars)
    IN  [d \in {b \in bars : place[b] + horizon < Cardinality(bars)} |->
           NumberAt(place, place[d] + horizon)]

\* np.linspace over the positions from 40% of the dates on, counted from 0.
Edges(n, windows) ==
    LET first == Max({(n * 4) \div 10, 1})
    IN  {first + ((n - 1 - first) * k) \div windows : k \in 0..windows}

\* walk_forward_folds: from edge to edge, both inclusive.
FoldsOf(dates, windows) ==
    LET place == PlacesOf(dates)
        edge == PlacesOf(Edges(Cardinality(dates), windows))
    IN  IF Cardinality(dates) < MinDates THEN <<>>
        ELSE [k \in 1..Cardinality(DOMAIN edge) - 1 |->
                {d \in dates : place[d] \in NumberAt(edge, k - 1)..NumberAt(edge, k)}]

PanelDates == UNION {DOMAIN label[s] : s \in PanelStocks}

\* Fault: the embargo is a day short.
TrainEndShort(test) == Min(test) - Embargo[model] + 1

TrainEnd(test) == Min(test) - Embargo[model]

TrainRows(s, test) == {d \in DOMAIN label[s] : d <= TrainEnd(test)}

FoldsInit ==
    /\ model \in Tasks /\ fold = 0
    /\ \E closure \in Stretches(MaxClosure), missed \in Stretches(MaxMissed) :
         LET bars == [steady |-> Weekdays \ closure, gappy |-> Weekdays \ (closure \cup missed)]
         IN  /\ regular = (closure = {})
             /\ label = [s \in PanelStocks |-> LabelsOf(bars[s], Horizon[model])]
    /\ folds = FoldsOf(PanelDates, NFolds[model])

NextFold == fold < Len(folds) /\ fold' = fold + 1 /\ UNCHANGED <<model, label, folds, regular>>

\* walk_forward_evaluate and _evaluate_direction_candidate: one fold after another.
EvaluateForward == model = "forward" /\ NextFold
EvaluateClose == model = "close" /\ NextFold
FoldsNext == EvaluateForward \/ EvaluateClose

FoldsSpec == FoldsInit /\ [][FoldsNext]_foldVars

-----------------------------------------------------------------------------

\* What the embargo does guarantee: without closures, a stock that trades in
\* every session teaches nothing later than the first close of the test window.
OnlyTheFirstCloseLeaks ==
    fold > 0 /\ regular =>
      \A d \in TrainRows("steady", folds[fold]) : label["steady"][d] <= Min(folds[fold])

=============================================================================
