------------------------------ MODULE TaskRuns ------------------------------
(***************************************************************************)
(* The TaskRun rows of one Celery task (market/services/task_status.py):   *)
(* the decorator record_task_run creates a row when an execution starts    *)
(* and writes its outcome when it returns or raises; a process that dies   *)
(* writes nothing, and reconcile_orphaned_task_runs, run every five        *)
(* minutes, closes the rows such processes left behind.                    *)
(*                                                                         *)
(* The hard limit Celery enforces and the one the reconciler's table       *)
(* records for the task are two constants, as they are two in the code.    *)
(***************************************************************************)
EXTENDS Integers

CONSTANTS Runs,           \* the executions of the task
          HardLimit,      \* time_limit of its @shared_task
          RecordedLimit,  \* TASK_HARD_LIMIT_SECONDS.get(task_name, 600)
          Grace           \* ORPHAN_GRACE_SECONDS

ASSUME LimitsAssumption ==
    /\ HardLimit \in Nat \ {0}
    /\ RecordedLimit \in Nat
    /\ Grace \in Nat

VARIABLES process,  \* what the execution's process is doing
          row,      \* the status column of its TaskRun, "none" before create
          age       \* time since started_at

vars == <<process, row, age>>

\* What a service hands back to the decorator, as far as it matters.
Results == [skipped : BOOLEAN, partial : BOOLEAN, ok : BOOLEAN,
            childrenOk : BOOLEAN]

\* _status_for_result.  childrenOk is FALSE when one of live, dse, cse and
\* analysis is a failed and not skipped child.
StatusForResult(result) ==
    CASE result.skipped -> "skipped"
      [] ~result.skipped /\ result.partial -> "partial"
      [] ~result.skipped /\ ~result.partial ->
           IF result.ok /\ result.childrenOk THEN "success" ELSE "failure"

Finished == {"success", "partial", "skipped", "failure"}

TypeOK ==
    /\ process \in [Runs -> {"absent", "running", "dead", "ended"}]
    /\ row \in [Runs -> {"none", "started"} \cup Finished]
    /\ age \in [Runs -> Nat]

Init ==
    /\ process = [r \in Runs |-> "absent"]
    /\ row = [r \in Runs |-> "none"]
    /\ age = [r \in Runs |-> 0]

Start(r) ==
    /\ process[r] = "absent"
    /\ process' = [process EXCEPT ![r] = "running"]
    /\ row' = [row EXCEPT ![r] = "started"]
    /\ UNCHANGED age

\* The decorator saves an outcome over whatever the row holds.
Record(r, status) ==
    /\ process[r] = "running"
    /\ process' = [process EXCEPT ![r] = "ended"]
    /\ row' = [row EXCEPT ![r] = status]
    /\ UNCHANGED age

Return(r) == \E result \in Results : Record(r, StatusForResult(result))

\* An exception, SoftTimeLimitExceeded and retried errors included.
Raise(r) == Record(r, "failure")

Die(r) ==
    /\ process[r] = "running"
    /\ process' = [process EXCEPT ![r] = "dead"]
    /\ UNCHANGED <<row, age>>

OutOfTime(r) == process[r] = "running" /\ age[r] >= HardLimit

\* Celery kills the child at the hard limit; a crash kills it at any time.
HardKill(r) == OutOfTime(r) /\ Die(r)
Crash(r) == Die(r)

\* Faults of the reconciler: no grace period; only the rows whose cutoff is just
\* now.
ReconcileWithoutGrace(r) ==
    /\ row[r] = "started"
    /\ age[r] >= RecordedLimit
    /\ row' = [row EXCEPT ![r] = "failure"]
    /\ UNCHANGED <<process, age>>

ReconcileOnTheDot(r) ==
    /\ row[r] = "started"
    /\ age[r] = RecordedLimit + Grace
    /\ row' = [row EXCEPT ![r] = "failure"]
    /\ UNCHANGED <<process, age>>

\* The reconciler's conditional UPDATE of one row: only while it is still
\* "started" in the database, only past the recorded limit and the grace.
Reconcile(r) ==
    /\ row[r] = "started"
    /\ age[r] >= RecordedLimit + Grace
    /\ row' = [row EXCEPT ![r] = "failure"]
    /\ UNCHANGED <<process, age>>

\* No age above both cutoffs is told apart from the next one.
MaxAge == HardLimit + RecordedLimit + Grace

Tick ==
    /\ \E r \in Runs : process[r] # "absent" /\ age[r] < MaxAge
    /\ \A r \in Runs : ~OutOfTime(r)
    /\ age' = [r \in Runs |-> IF process[r] # "absent" /\ age[r] < MaxAge
                                THEN age[r] + 1 ELSE age[r]]
    /\ UNCHANGED <<process, row>>

Next ==
    \/ Tick
    \/ \E r \in Runs : \/ Start(r) \/ Return(r) \/ Raise(r)
                       \/ HardKill(r) \/ Crash(r) \/ Reconcile(r)

Spec == Init /\ [][Next]_vars

\* Time passes, Celery enforces the limit and beat keeps the reconciler
\* running (config/celery.py:92).
FairSpec ==
    /\ Spec
    /\ WF_vars(Tick)
    /\ \A r \in Runs : WF_vars(HardKill(r)) /\ WF_vars(Reconcile(r))

-----------------------------------------------------------------------------

\* What the two properties below need of the table in task_status.py.
TableCoversLimit == HardLimit < RecordedLimit + Grace

\* The reconciler never closes the row of an execution that still runs: "a
\* row is changed only after its task-specific hard limit plus a two-minute
\* grace period" (docstring of reconcile_orphaned_task_runs).
NoLiveRunReconciled ==
    \A r \in Runs : process[r] = "running" => row[r] = "started"

\* A row with an outcome keeps it: "TaskRun remains the immutable audit log"
\* (docstring of TaskHealth).  The decorator's save is unconditional, so this
\* rests on the reconciler never running ahead of a live execution.
OutcomesImmutable ==
    [][\A r \in Runs : row[r] \in Finished => row'[r] = row[r]]_vars

\* Every execution gets an outcome, also when its process was killed before
\* it could write one: no row says "started" for ever.
RowsGetOutcome == \A r \in Runs : (row[r] = "started") ~> (row[r] \in Finished)
=============================================================================
