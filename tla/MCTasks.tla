------------------------------- MODULE MCTasks -------------------------------
(* What the decorator of every task records, the TaskRun rows of a task and  *)
(* its TaskHealth row, the batch of fetches a history task waits for, and    *)
(* what the tasks that train and assess models conclude.  Each behaviour is  *)
(* one scene with one of them; the fairness is that of the scene's module.   *)
(*                                                                           *)
(* The folds are those of six weeks with a closure of up to three days.  An  *)
(* assessment looks at the three newest of up to four predictions.           *)
EXTENDS TaskRuns, TaskHealth, ConcurrentFetch, WalkForward, ReliabilityVerdict,
        ChallengerSelection

VARIABLE scene

\* Of 469 days: one of the first fit, two of validation, of which one is within the
\* final fit's embargo, one of the test.
StudyDays == {100, 390, 432, 469}
StudyPanels ==
    {[r \in Regimes |-> IF r = "bull" THEN [d \in StudyDays |-> 100] ELSE rare] : rare \in
      {p \in [StudyDays -> {0, 20, 100}] : 20 \notin {p[100], p[390]} /\ 100 \notin {p[432], p[469]}}}
StudyLopsided ==
    {{}, {<<"bear", "validation">>}, {<<"bear", "initial">>}, {<<r, "initial">> : r \in {"bull", "bear"}}}
Scored(a, b, c) == [accuracy |-> a, brier |-> b, coverage |-> c]
StudyOutcomes ==
    {Scored(0, 1, 3), Scored(1, 1, 3), Scored(1, 2, 3),
     Scored(0, 1, 2), Scored(1, 0, 2), Scored(1, 1, 1)}
StudyConfigs == <<"logistic", "random forest">>
StudyBands == <<0, 8>>
PoorReturns == {-2, 0}

modelVars == <<foldVars, verdictVars, studyVars>>
tasksVars == <<scene, vars, healthVars, fetchVars, modelVars>>

InRuns(A) == scene = "runs" /\ A /\ UNCHANGED <<scene, healthVars, fetchVars, modelVars>>
InHealth(A) == scene = "health" /\ A /\ UNCHANGED <<scene, vars, fetchVars, modelVars>>
InFetch(A) == scene = "fetch" /\ A /\ UNCHANGED <<scene, vars, healthVars, modelVars>>
InModels ==
    /\ UNCHANGED <<scene, vars, healthVars, fetchVars>>
    /\ \/ scene = "folds" /\ FoldsNext /\ UNCHANGED <<verdictVars, studyVars>>
       \/ scene = "verdict" /\ VerdictNext /\ UNCHANGED <<foldVars, studyVars>>
       \/ scene = "study" /\ StudyNext /\ UNCHANGED <<foldVars, verdictVars>>

TasksInit ==
    /\ scene \in {"runs", "health", "fetch", "folds", "verdict", "study"}
    /\ Init /\ HealthInit /\ FetchInit
    /\ scene # "fetch" => mode = "sequential" /\ hung = Symbols
    /\ IF scene = "folds" THEN FoldsInit
       ELSE /\ model = "close" /\ label = [s \in PanelStocks |-> <<>>] /\ regular = TRUE
            /\ folds = <<>> /\ fold = 0
    /\ VerdictInit /\ (scene # "verdict" => kind = "classifier")
    /\ scene # "study" => /\ study = "recent" /\ panel = CHOOSE p \in Panels : TRUE
                          /\ oneSided = {}
    /\ StudyInit
TasksNext == InRuns(Next) \/ InHealth(HealthNext) \/ InFetch(FetchNext) \/ InModels

TasksSpec ==
    /\ TasksInit /\ [][TasksNext]_tasksVars
    /\ WF_tasksVars(InRuns(Tick))
    /\ \A r \in Runs : WF_tasksVars(InRuns(HardKill(r))) /\ WF_tasksVars(InRuns(Reconcile(r)))
    /\ \A u \in Runners : /\ WF_tasksVars(InHealth(ReadRow(u)))
                          /\ SF_tasksVars(InHealth(SaveSuccess(u) \/ SaveFailure(u)))
    /\ WF_tasksVars(InHealth(Collect)) /\ SF_tasksVars(InHealth(Send))
    /\ SF_tasksVars(InHealth(SaveAlertState))
    /\ WF_tasksVars(InFetch(FetchNext))
==============================================================================
