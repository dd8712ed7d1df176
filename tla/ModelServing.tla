---------------------------- MODULE ModelServing ----------------------------
(***************************************************************************)
(* Training, approval and serving of a family of models: the forward       *)
(* classifier (ml_model.py) or the next-close model (close_learn.py).      *)
(*                                                                         *)
(* A training run evaluates, copies the artifact in place aside, writes    *)
(* its own over it and then records a MLModelVersion row.  A row is made   *)
(* active by an administrator only, when the latest assessment allows it,  *)
(* and inactive by an administrator, by a critical assessment (forward) or *)
(* by live skill (close).  What is served is decided anew at each load,    *)
(* from the artifact and the row.  VersionIds are numbered in the order of *)
(* their training; those of History come from code that still approved a   *)
(* model when it was trained.                                              *)
(***************************************************************************)
EXTENDS Integers, Sequences, FiniteSetsExt

CONSTANTS History,     \* what may be there at first: rows and artifacts
          MaxVersions, MaxAssessments, MaxActs \* bounds

Exchanges == {"DSE", "CSE"}
VersionIds == 1..MaxVersions
None == 0

\* What can be loaded from a path; version None when nothing can.
NoArtifact == [version |-> None, approved |-> FALSE, sources |-> {}]
NoRow == [scope |-> "", active |-> FALSE, backup |-> NoArtifact]

\* The exchanges a model of scope s learned from and is served to.
Covers(s) == IF s = "combined" THEN Exchanges ELSE {s}

Scopes == {"combined"} \cup Exchanges
Artifacts(s) == [version : Nat, approved : BOOLEAN, sources : SUBSET Covers(s)]
VersionRows(s) == [scope : {s}, active : BOOLEAN, backup : Artifacts(s)]

\* Older code, too, saved each model to the path of its scope.
ASSUME ServingAssumption ==
    /\ MaxVersions \in Nat
    /\ \A h \in History :
         /\ DOMAIN h.artifact = Scopes /\ \A s \in Scopes : h.artifact[s] \in Artifacts(s)
         /\ Len(h.rows) \in 0..MaxVersions
         /\ \A v \in 1..Len(h.rows) : \E s \in Scopes : h.rows[v] \in VersionRows(s)

VARIABLES family,     \* forward or close
          enabled,    \* ENABLE_DSE, ENABLE_CSE
          artifact,   \* of each scope, at its path
          rows,       \* MLModelVersion
          old,        \* versions of older code
          made,       \* versions so far
          training,   \* the task: scopes to save, whether the first is written
          scored,     \* exchanges whose analyses of today carry a score
          captured,   \* exchanges of which captured predictions are evidence
          healthy,    \* versions and exchanges whose latest assessment found an edge
          out,        \* history: versions taken out of service for an exchange
          assessments, acts

world == <<family, enabled, old>>
models == <<artifact, rows, made, training>>
evidence == <<scored, captured, healthy>>
servingVars == <<family, enabled, artifact, rows, old, made, training, scored, captured,
                 healthy, out, assessments, acts>>

NoTraining == [todo |-> <<>>, written |-> FALSE, backup |-> NoArtifact]

ServingInit ==
    /\ family \in {"forward", "close"} /\ enabled = Exchanges
    /\ \E h \in History :
         /\ artifact = h.artifact /\ made = Len(h.rows) /\ old = made
         /\ rows = [v \in VersionIds |-> IF v <= made THEN h.rows[v] ELSE NoRow]
    /\ training = NoTraining
    /\ scored = {} /\ captured = {}
    /\ healthy = [v \in VersionIds |-> [e \in Exchanges |-> FALSE]]
    /\ out = [e \in Exchanges |-> {}]
    /\ assessments = 0 /\ acts = 0

-----------------------------------------------------------------------------
(* Serving                                                                 *)

\* active_model_version: the newest if there are several.
ActiveRow(s) == Max({v \in VersionIds : rows[v].scope = s /\ rows[v].active} \cup {None})

\* The artifact and the row must agree that this version is active.
Deployable(s) == artifact[s].approved /\ ActiveRow(s) = artifact[s].version

PooledAllowed == enabled = Exchanges

\* load_model, load_next_close_model
Served(e) ==
    IF PooledAllowed /\ Deployable("combined") THEN artifact["combined"].version
    ELSE IF Deployable(e) THEN artifact[e].version ELSE None

SourcesOf(e) ==
    IF PooledAllowed /\ Deployable("combined") THEN artifact["combined"].sources
    ELSE IF Deployable(e) THEN artifact[e].sources ELSE {}

\* _resolve_active_version
Ascribed(e) == IF ActiveRow("combined") # None THEN ActiveRow("combined") ELSE ActiveRow(e)

-----------------------------------------------------------------------------
(* Training                                                                *)

\* _final_fit_and_save: whatever its skill, a new artifact is experimental.
Fresh == [version |-> made + 1, approved |-> FALSE,
          sources |-> Covers(Head(training.todo))]

BeginTraining(plan) ==
    /\ training = NoTraining /\ made + Len(plan) <= MaxVersions
    /\ training' = [NoTraining EXCEPT !.todo = plan]
    /\ UNCHANGED <<world, artifact, rows, made, evidence, out, assessments, acts>>

\* Enough data and consistent skill on both exchanges.
PoolingJustified == enabled = Exchanges

\* train_model, under the lock of its task: the enabled exchanges with enough
\* data, pooled or each by itself.  A training that is not forced is skipped when
\* an active row already knows the day's data.
TrainForward ==
    /\ family = "forward"
    /\ \/ PoolingJustified /\ (BeginTraining(<<"combined">>) \/ BeginTraining(<<"DSE", "CSE">>))
       \/ \E e \in enabled : BeginTraining(<<e>>)

\* train_next_close_model: DSE only.
TrainClose == family = "close" /\ "DSE" \in enabled /\ BeginTraining(<<"DSE">>)

\* backup_existing_model, then joblib.dump over it.
Write ==
    /\ training.todo # <<>> /\ ~training.written
    /\ artifact' = [artifact EXCEPT ![Head(training.todo)] = Fresh]
    /\ made' = made + 1
    /\ training' = [training EXCEPT !.written = TRUE, !.backup = artifact[Head(training.todo)]]
    /\ UNCHANGED <<world, rows, evidence, out, assessments, acts>>

\* record_model_version
Record ==
    /\ training.written
    /\ rows' = [rows EXCEPT ![made] =
                  [scope |-> Head(training.todo), active |-> Fresh.approved,
                   backup |-> training.backup]]
    /\ training' = [NoTraining EXCEPT !.todo = Tail(training.todo)]
    /\ UNCHANGED <<world, artifact, made, evidence, out, assessments, acts>>

\* The task is killed at its limit, perhaps with half an artifact written.
KillTraining ==
    /\ training # NoTraining /\ training' = NoTraining
    /\ \/ UNCHANGED artifact
       \/ /\ ~training.written
          /\ artifact' = [artifact EXCEPT ![Head(training.todo)] = NoArtifact]
    /\ UNCHANGED <<world, rows, made, evidence, out, assessments, acts>>

-----------------------------------------------------------------------------
(* Predictions and their assessment                                        *)

\* run_full_analysis, generate_forecasts_for_as_of
Analyse(e) ==
    /\ e \in enabled
    /\ scored' = IF Served(e) # None THEN scored \cup {e} ELSE scored \ {e}
    /\ UNCHANGED <<world, models, captured, healthy, out, assessments, acts>>

\* capture_predictions: the classifier's scores, and every next-close forecast.
KeepPrediction(e) ==
    /\ IF family = "forward" THEN e \in scored /\ Ascribed(e) # None ELSE e \in enabled
    /\ captured' = captured \cup {e}
    /\ UNCHANGED <<world, models, scored, healthy, out, assessments, acts>>

Candidates(e) == {v \in VersionIds : rows[v].scope \in {"combined", e}}

\* _resolve_version_for_assessment, or a version named by the command.
AssessedOf(e) ==
    {IF Ascribed(e) # None THEN Ascribed(e) ELSE Max(Candidates(e) \cup {None})}
    \cup {v \in VersionIds : rows[v] # NoRow}

\* determine_status of the newest predictions with the features of today,
\* whichever version made them.
Statuses(e) == IF e \in captured THEN {"edge", "none", "critical"} ELSE {"none"}

\* Fault: a model pooled over both exchanges stays.
ServingOwn(e) == {v \in VersionIds : rows[v].active /\ rows[v].scope = e}

ServingFor(e) == {v \in VersionIds : rows[v].active /\ rows[v].scope \in {"combined", e}}

TakeOut(vs) == [v \in VersionIds |-> [rows[v] EXCEPT !.active = @ /\ v \notin vs]]

\* assess_ml_reliability and its gate.
Assess(e) ==
    /\ assessments < MaxAssessments /\ assessments' = assessments + 1
    /\ \E v \in AssessedOf(e) \ {None}, s \in Statuses(e) :
         /\ healthy' = [healthy EXCEPT ![v][e] = s = "edge"]
         /\ IF family = "forward" /\ s = "critical"
              THEN rows' = TakeOut(ServingFor(e)) /\ out' = [out EXCEPT ![e] = 1..made]
              ELSE UNCHANGED <<rows, out>>
    /\ UNCHANGED <<world, artifact, made, training, scored, captured, acts>>

\* _maybe_downgrade_on_live_skill: every row of the family.
DowngradeFamily ==
    /\ family = "close" /\ \E v \in VersionIds : rows[v].active
    /\ rows' = TakeOut(VersionIds) /\ out' = [e \in Exchanges |-> 1..made]
    /\ UNCHANGED <<world, artifact, made, training, evidence, assessments, acts>>

-----------------------------------------------------------------------------
(* Administrators                                                          *)

Acts == acts < MaxActs /\ acts' = acts + 1

\* deactivate_model_versions
Deactivate(v) ==
    /\ Acts /\ rows[v].active
    /\ rows' = TakeOut({v})
    /\ out' = [e \in Exchanges |-> out[e] \cup {v}]
    /\ UNCHANGED <<world, artifact, made, training, evidence, assessments>>

\* activation_eligibility: an edge on each exchange the version is for.
Eligible(v) == \A e \in Covers(rows[v].scope) : healthy[v][e]

\* reactivate_model_versions: other rows are not touched.
Reactivate(v) ==
    /\ Acts /\ rows[v] # NoRow /\ ~rows[v].active /\ Eligible(v)
    /\ rows' = [rows EXCEPT ![v].active = TRUE]
    /\ out' = [e \in Exchanges |-> out[e] \ {v}]
    /\ UNCHANGED <<world, artifact, made, training, evidence, assessments>>

\* The runbook's rollback: the copy a row names goes back to its path.
CopyBack(v) ==
    /\ Acts /\ rows[v].backup # NoArtifact
    /\ artifact' = [artifact EXCEPT ![rows[v].scope] = rows[v].backup]
    /\ UNCHANGED <<world, rows, made, training, evidence, out, assessments>>

\* New settings, and the services restarted.
Reconfigure ==
    /\ Acts /\ enabled' \in (SUBSET Exchanges \ {{}}) \ {enabled}
    /\ training' = NoTraining
    /\ UNCHANGED <<family, old, artifact, rows, made, evidence, out, assessments>>

ServingNext ==
    \/ TrainForward \/ TrainClose \/ Write \/ Record \/ KillTraining \/ DowngradeFamily \/ Reconfigure
    \/ \E e \in Exchanges : Analyse(e) \/ KeepPrediction(e) \/ Assess(e)
    \/ \E v \in VersionIds : Deactivate(v) \/ Reactivate(v) \/ CopyBack(v)

ServingSpec == ServingInit /\ [][ServingNext]_servingVars

-----------------------------------------------------------------------------

\* "a critical assessment cannot be bypassed by precedence" (live_model_gate.py):
\* a version a critical assessment, live skill or an administrator took out of
\* service for an exchange is not served to it, whatever is trained, killed,
\* copied back or reconfigured, until an administrator reactivates that version.
SuspendedStaysOut == \A e \in Exchanges : Served(e) \notin out[e]

\* And "CSE data never influences what gets served" by a deployment without it
\* (load_model): what is served learned from enabled exchanges only.
OnlyAllowedIsServed ==
    SuspendedStaysOut /\ \A e \in enabled : SourcesOf(e) \subseteq enabled

\* A new artifact remains "experimental ... until activation_eligibility() sees a
\* healthy 90-sample window" (_final_fit_and_save): once an administrator made
\* it active, and while it is the one in place, it is served.
ReactivatedIsServed ==
    \A e \in enabled :
      /\ ActiveRow(e) # None /\ artifact[e].version = ActiveRow(e) /\ ActiveRow("combined") = None
      => Served(e) = ActiveRow(e)
=============================================================================
