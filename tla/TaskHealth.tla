----------------------------- MODULE TaskHealth -----------------------------
(***************************************************************************)
(* The TaskHealth row of one task and the Telegram notices drawn from it.  *)
(*                                                                         *)
(* Every execution that ends updates the row (_update_task_health in       *)
(* market/services/task_status.py): it reads the row, computes the next    *)
(* state from the copy and saves the whole copy.  The ops-alert job        *)
(* (send_ops_alerts_to_admin in notifications/tasks.py) reads the row,     *)
(* sends its message and then saves alert_state, computed from the copy it *)
(* read before the network call.  No transaction spans a read and its      *)
(* save, so other steps fall between them.                                 *)
(***************************************************************************)
EXTENDS Integers

CONSTANTS Runners,        \* executions of the task that may end concurrently
          Threshold,      \* consecutive failures that make it unhealthy
          SenderMayDie    \* whether the alert job may be killed half-way

ASSUME HealthAssumption ==
    /\ Threshold \in Nat \ {0}
    /\ SenderMayDie \in BOOLEAN

VARIABLES healthRow, \* the TaskHealth row in the database
          updater,   \* each runner's step and copy of the row
          sender,    \* the alert job's step and copy
          told       \* the last message the administrator got (history)

healthVars == <<healthRow, updater, sender, told>>

AlertStates == {"none", "failure_pending", "failure_sent", "recovery_pending"}
Pending == {"failure_pending", "recovery_pending"}

\* Failures beyond the threshold make no difference and are not counted.
Rows == [health : {"healthy", "unhealthy"}, failures : 0..Threshold,
         alert : AlertStates]

NewRow == [health |-> "healthy", failures |-> 0, alert |-> "none"]

\* Fault: a pending failure notice survives the recovery.
AfterSuccessKeepingAlert(h) == [h EXCEPT !.health = "healthy", !.failures = 0]

\* _update_task_health after a run recorded success, partial or skipped.
AfterSuccess(h) ==
    [health |-> "healthy", failures |-> 0,
     alert |-> IF h.health = "unhealthy" \/ h.alert = "recovery_pending"
                 THEN "recovery_pending" ELSE "none"]

Increment(n) == IF n < Threshold THEN n + 1 ELSE n

\* Fault: no notice is asked for.
AfterFailureUntold(h) ==
    IF Increment(h.failures) >= Threshold
      THEN [h EXCEPT !.health = "unhealthy", !.failures = Increment(h.failures)]
      ELSE [h EXCEPT !.failures = Increment(h.failures)]

\* ... and after a failure.
AfterFailure(h) ==
    IF Increment(h.failures) >= Threshold
      THEN [health |-> "unhealthy", failures |-> Increment(h.failures),
            alert |-> IF h.alert = "failure_sent" THEN "failure_sent"
                      ELSE "failure_pending"]
      ELSE [h EXCEPT !.failures = Increment(h.failures)]

\* What the alert job stores after its message went out.
AlertAfterSend(h) == IF h.health = "unhealthy" THEN "failure_sent" ELSE "none"

HealthTyped ==
    /\ healthRow \in Rows
    /\ updater \in [Runners -> [step : {"idle", "read"}, copy : Rows]]
    /\ sender \in [step : {"idle", "sending", "sent"}, copy : Rows]
    /\ told \in {"nothing", "unhealthy", "recovered"}

HealthInit ==
    /\ healthRow = NewRow
    /\ updater = [u \in Runners |-> [step |-> "idle", copy |-> NewRow]]
    /\ sender = [step |-> "idle", copy |-> NewRow]
    /\ told = "nothing"

-----------------------------------------------------------------------------

\* TaskHealth.objects.get_or_create.
ReadRow(u) ==
    /\ updater[u].step = "idle"
    /\ updater' = [updater EXCEPT ![u] = [step |-> "read", copy |-> healthRow]]
    /\ UNCHANGED <<healthRow, sender, told>>

UpdaterIdle(u) == updater' = [updater EXCEPT ![u] = [step |-> "idle", copy |-> NewRow]]

\* health.save() of a run that ended well.
SaveSuccess(u) ==
    /\ updater[u].step = "read"
    /\ healthRow' = AfterSuccess(updater[u].copy)
    /\ UpdaterIdle(u)
    /\ UNCHANGED <<sender, told>>

\* health.save() of a failed run.
SaveFailure(u) ==
    /\ updater[u].step = "read"
    /\ healthRow' = AfterFailure(updater[u].copy)
    /\ UpdaterIdle(u)
    /\ UNCHANGED <<sender, told>>

\* The save fails or the worker dies: exceptions here are swallowed.
LoseUpdate(u) ==
    /\ updater[u].step = "read"
    /\ UpdaterIdle(u)
    /\ UNCHANGED <<healthRow, sender, told>>

\* The alert job, alone under its Redis lock, finds a pending transition.
Collect ==
    /\ sender.step = "idle"
    /\ healthRow.alert \in Pending
    /\ sender' = [step |-> "sending", copy |-> healthRow]
    /\ UNCHANGED <<healthRow, updater, told>>

\* Telegram accepts the message.
Send ==
    /\ sender.step = "sending"
    /\ sender' = [sender EXCEPT !.step = "sent"]
    /\ told' = IF sender.copy.alert = "failure_pending" THEN "unhealthy" ELSE "recovered"
    /\ UNCHANGED <<healthRow, updater>>

SenderIdle == sender' = [step |-> "idle", copy |-> NewRow]

\* Telegram refuses it: the job raises with nothing saved.
SendFails ==
    /\ sender.step = "sending"
    /\ SenderIdle
    /\ UNCHANGED <<healthRow, updater, told>>

\* save(update_fields=["last_alert", "alert_state"]).
SaveAlertState ==
    /\ sender.step = "sent"
    /\ healthRow' = [healthRow EXCEPT !.alert = AlertAfterSend(sender.copy)]
    /\ SenderIdle
    /\ UNCHANGED <<updater, told>>

\* Killed between the message and the save.
SenderDies ==
    /\ SenderMayDie
    /\ sender.step = "sent"
    /\ SenderIdle
    /\ UNCHANGED <<healthRow, updater, told>>

HealthNext ==
    \/ \E u \in Runners : \/ ReadRow(u) \/ SaveSuccess(u)
                          \/ SaveFailure(u) \/ LoseUpdate(u)
    \/ Collect \/ Send \/ SendFails \/ SaveAlertState \/ SenderDies

HealthSpec == HealthInit /\ [][HealthNext]_healthVars

\* Beat starts the task and the alert job again and again; a run that keeps
\* ending gets its outcome saved now and then, Telegram answers now and then,
\* and the alert job is not killed every single time.
FairHealthSpec ==
    /\ HealthSpec
    /\ \A u \in Runners :
         WF_healthVars(ReadRow(u)) /\ SF_healthVars(SaveSuccess(u) \/ SaveFailure(u))
    /\ WF_healthVars(Collect) /\ SF_healthVars(Send) /\ SF_healthVars(SaveAlertState)

-----------------------------------------------------------------------------

\* A pending notice agrees with the health it reports, in the row and in
\* every copy that is about to be acted on: nobody is told of a recovery of a
\* task whose row says unhealthy, nor the reverse.
Agrees(h) ==
    /\ h.alert = "failure_pending" => h.health = "unhealthy"
    /\ h.alert = "recovery_pending" => h.health = "healthy"

PendingMatchesHealth ==
    /\ Agrees(healthRow)
    /\ sender.step # "idle" => Agrees(sender.copy)

\* A task that stays unhealthy gets paged, and "unhealthy" stays the last
\* word the administrator has, whatever falls between the alert job's read
\* and its save.
PersistentOutagePaged ==
    <>[](healthRow.health = "unhealthy") => <>[](told = "unhealthy")
=============================================================================
