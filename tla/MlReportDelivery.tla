-------------------------- MODULE MlReportDelivery --------------------------
(***************************************************************************)
(* The Telegram ML daily report of one date: the Celery task               *)
(* send_ml_daily_report (notifications/tasks.py), its Redis lock, its      *)
(* delivery row, and the tasks that race for it: beat ticks every minute,  *)
(* the administrator's "send now" and "force resend", and the retries of   *)
(* each.  The report is rebuilt by every attempt and sent in chunks; the   *)
(* row remembers how many have been confirmed.                             *)
(***************************************************************************)
EXTENDS Integers

CONSTANTS BeatTasks, ManualTasks, ForcedTasks,  \* task messages by origin
          Chunks,      \* Chunks[v]: chunks of the report built from evidence v
          MaxChunk,    \* the most chunks of any of them
          MaxRetries,  \* max_retries of the task
          MaxFaults,   \* bound: crashes and transient Telegram errors
          Free, Dead   \* the lock: not held; held by a process that is gone

Tasks == BeatTasks \cup ManualTasks \cup ForcedTasks
Evidence == DOMAIN Chunks

ASSUME ReportAssumption ==
    /\ MaxChunk \in Nat
    /\ 1 \in Evidence /\ Evidence \subseteq Nat
    /\ Chunks \in [Evidence -> 1..MaxChunk]
    /\ MaxRetries \in Nat
    /\ MaxFaults \in Nat
    /\ BeatTasks \cap (ManualTasks \cup ForcedTasks) = {}
    /\ ManualTasks \cap ForcedTasks = {}
    /\ Free \notin Tasks /\ Dead \notin Tasks /\ Free # Dead

VARIABLES due,        \* TELEGRAM_ML_REPORT_TIME has been reached
          configured, \* bot token and chat id are set
          blocked,    \* Telegram refuses: unknown chat, bad token
          evidence,   \* what build_report_context reads
          delivery,   \* the MlDailyReportDelivery row
          lock,       \* ml-daily-report:<key>
          task,       \* each task message
          received,   \* how often the chat received each chunk
          repeated,   \* auxiliary: how often it had received the chunk before
          faults

world == <<due, configured, blocked, evidence>>
chat == <<received, repeated>>
vars == <<world, delivery, lock, task, chat, faults>>

NoRow == "no_row"
Steps == {"new", "idle", "queued", "locked", "sending", "accepted", "waiting"}
Working == {"locked", "sending", "accepted"}

TypeOK ==
    /\ due \in BOOLEAN /\ configured \in BOOLEAN /\ blocked \in BOOLEAN
    /\ evidence \in Evidence
    /\ delivery \in
         [status : {NoRow, "pending", "retrying", "failed", "sent", "skipped"},
          chunksSent : 0..MaxChunk, text : Evidence]
    /\ lock \in Tasks \cup {Free, Dead}
    /\ task \in [Tasks -> [step : Steps, retries : 0..MaxRetries,
                           text : Evidence, sent : 0..MaxChunk]]
    /\ received \in [1..MaxChunk -> Nat] /\ repeated \in Nat
    /\ faults \in 0..MaxFaults

Message(step) == [step |-> step, retries |-> 0, text |-> 1, sent |-> 0]

Init ==
    /\ due = FALSE /\ configured \in BOOLEAN /\ blocked = FALSE
    /\ evidence = 1
    /\ delivery = [status |-> NoRow, chunksSent |-> 0, text |-> 1]
    /\ lock = Free
    /\ task = [t \in Tasks |-> Message(IF t \in BeatTasks THEN "idle" ELSE "new")]
    /\ received = [c \in 1..MaxChunk |-> 0] /\ repeated = 0
    /\ faults = 0

-----------------------------------------------------------------------------
(* The world                                                               *)

Others == <<delivery, lock, task, chat, faults>>

ReportTime ==
    /\ ~due
    /\ due' = TRUE
    /\ UNCHANGED <<configured, blocked, evidence, Others>>

\* The settings are read at start: a restart, once the running tasks are done.
Configure ==
    /\ ~configured
    /\ \A t \in Tasks : task[t].step \notin Working
    /\ configured' = TRUE
    /\ UNCHANGED <<due, blocked, evidence, Others>>

ChangeBlocked ==
    /\ blocked' = ~blocked
    /\ UNCHANGED <<due, configured, evidence, Others>>

NewEvidence ==
    /\ evidence + 1 \in Evidence
    /\ evidence' = evidence + 1
    /\ UNCHANGED <<due, configured, blocked, Others>>

LockExpires ==
    /\ lock = Dead
    /\ lock' = Free
    /\ UNCHANGED <<world, delivery, task, chat, faults>>

-----------------------------------------------------------------------------
(* Task messages                                                           *)

\* Beat publishes every minute; an administrator clicks once per message.
Submit(t) ==
    /\ task[t].step = IF t \in BeatTasks THEN "idle" ELSE "new"
    /\ task' = [task EXCEPT ![t] = Message("queued")]
    /\ UNCHANGED <<world, delivery, lock, chat, faults>>

\* The countdown of a retry ends.
Retry(t) ==
    /\ task[t].step = "waiting"
    /\ task' = [task EXCEPT ![t].step = "queued"]
    /\ UNCHANGED <<world, delivery, lock, chat, faults>>

\* Not yet time, or LockBusy: the run ends without effect.
Skip(t) ==
    /\ task[t].step = "queued"
    /\ \/ ~due /\ t \in BeatTasks
       \/ lock # Free
    /\ task' = [task EXCEPT ![t] = Message("idle")]
    /\ UNCHANGED <<world, delivery, lock, chat, faults>>

Acquire(t) ==
    /\ task[t].step = "queued"
    /\ due \/ t \notin BeatTasks
    /\ lock = Free
    /\ lock' = t
    /\ task' = [task EXCEPT ![t].step = "locked"]
    /\ UNCHANGED <<world, delivery, chat, faults>>

\* Fault: the run returns without releasing its lock.
EndHoldingLock(t, status, chunksSent) ==
    /\ delivery' = [status |-> status, chunksSent |-> chunksSent,
                    text |-> task[t].text]
    /\ task' = [task EXCEPT ![t] = Message("idle")]
    /\ UNCHANGED lock

\* The row is saved, the lock released, and the run over.
End(t, status, chunksSent) ==
    /\ delivery' = [status |-> status, chunksSent |-> chunksSent,
                    text |-> task[t].text]
    /\ lock' = Free
    /\ task' = [task EXCEPT ![t] = Message("idle")]

AlreadySent(t) ==
    /\ task[t].step = "locked"
    /\ delivery.status = "sent" /\ t \notin ForcedTasks
    /\ lock' = Free
    /\ task' = [task EXCEPT ![t] = Message("idle")]
    /\ UNCHANGED <<world, delivery, chat, faults>>

\* Faults: every attempt starts again; the count is taken for an index.
ResumedAtStart(t) == 0
\* get_or_create of the row, then the report is built from what is known now.
Resumed(t) == IF t \in ForcedTasks THEN 0 ELSE delivery.chunksSent

Build(t) ==
    /\ task[t].step = "locked"
    /\ delivery.status # "sent" \/ t \in ForcedTasks
    /\ delivery' = [delivery EXCEPT !.status = IF @ = NoRow THEN "pending" ELSE @]
    /\ task' = [task EXCEPT ![t].step = "sending", ![t].text = evidence,
                            ![t].sent = Resumed(t)]
    /\ UNCHANGED <<world, lock, chat, faults>>

NotConfigured(t) ==
    /\ task[t].step = "sending"
    /\ ~configured
    /\ End(t, "skipped", task[t].sent)
    /\ UNCHANGED <<world, chat, faults>>

-----------------------------------------------------------------------------
(* Sending                                                                 *)

\* Chunks are left to send and the bot is configured.
Pending(t) ==
    /\ task[t].step = "sending"
    /\ configured
    /\ task[t].sent < Chunks[task[t].text]

Receive(t) ==
    LET c == task[t].sent + 1 IN
    /\ received' = [received EXCEPT ![c] = @ + 1]
    /\ repeated' = IF received[c] > 0 THEN repeated + 1 ELSE repeated

Post(t) ==
    /\ Pending(t)
    /\ ~blocked
    /\ Receive(t)
    /\ task' = [task EXCEPT ![t].step = "accepted"]
    /\ UNCHANGED <<world, delivery, lock, faults>>

\* delivery.save() after the chunk.
Confirm(t) ==
    /\ task[t].step = "accepted"
    /\ delivery' = [delivery EXCEPT !.chunksSent = task[t].sent + 1,
                                    !.text = task[t].text]
    /\ task' = [task EXCEPT ![t].step = "sending", ![t].sent = @ + 1]
    /\ UNCHANGED <<world, lock, chat, faults>>

\* A network error, a timeout, 429 or 5xx: the chunk may have arrived all the
\* same.  autoretry publishes the message again unless its retries are used up.
TransientError(t) ==
    /\ Pending(t)
    /\ faults < MaxFaults
    /\ faults' = faults + 1
    /\ Receive(t) \/ UNCHANGED chat
    /\ IF task[t].retries >= MaxRetries
         THEN End(t, "failed", task[t].sent)
         ELSE /\ delivery' = [status |-> "retrying", chunksSent |-> task[t].sent,
                              text |-> task[t].text]
              /\ lock' = Free
              /\ task' = [task EXCEPT ![t].step = "waiting",
                                      ![t].retries = @ + 1]
    /\ UNCHANGED world

PermanentError(t) ==
    /\ Pending(t)
    /\ blocked
    /\ End(t, "failed", task[t].sent)
    /\ UNCHANGED <<world, chat, faults>>

\* Fault: the last chunk is not waited for.
FinishEarly(t) ==
    /\ task[t].step = "sending"
    /\ configured
    /\ task[t].sent + 1 >= Chunks[task[t].text]
    /\ End(t, "sent", task[t].sent)
    /\ UNCHANGED <<world, chat, faults>>

Finish(t) ==
    /\ task[t].step = "sending"
    /\ configured
    /\ task[t].sent >= Chunks[task[t].text]
    /\ End(t, "sent", task[t].sent)
    /\ UNCHANGED <<world, chat, faults>>

\* The worker is killed.  The lock stays until it expires; the message is
\* acknowledged late, so it is lost or delivered once more.
Crash(t) ==
    /\ task[t].step \in Working
    /\ faults < MaxFaults
    /\ faults' = faults + 1
    /\ lock' = Dead
    /\ \/ task' = [task EXCEPT ![t] = Message("idle")]
       \/ task' = [task EXCEPT ![t].step = "queued"]
    /\ UNCHANGED <<world, delivery, chat>>

-----------------------------------------------------------------------------

Run(t) == \/ Skip(t) \/ Acquire(t) \/ AlreadySent(t) \/ Build(t)
          \/ NotConfigured(t) \/ Post(t) \/ Confirm(t) \/ TransientError(t)
          \/ PermanentError(t) \/ Finish(t)

Next == \/ ReportTime \/ Configure \/ ChangeBlocked \/ NewEvidence \/ LockExpires
        \/ \E t \in Tasks : Submit(t) \/ Retry(t) \/ Run(t) \/ Crash(t)

Spec == Init /\ [][Next]_vars

\* Beat keeps publishing, countdowns end, workers take messages and run them,
\* and the lock's TTL passes.
FairSpec ==
    /\ Spec
    /\ WF_vars(LockExpires)
    /\ \A t \in Tasks : WF_vars(Run(t)) /\ WF_vars(Retry(t))
    /\ \A t \in BeatTasks : WF_vars(Submit(t))

-----------------------------------------------------------------------------

\* The chat receives a chunk again only for a reason: each repetition is paid
\* for by a crash or an unanswered request of its own.  Overlapping ticks,
\* clicks and retries never repeat a confirmed chunk, whatever the report says
\* by the time they run.
RepeatsNeedFaults == repeated <= faults

\* A row that says "sent" is the truth: the chat has every chunk position of
\* the report the row stores.
SentIsReceived ==
    delivery.status = "sent"
    => \A c \in 1..Chunks[delivery.text] : received[c] > 0

\* Once it is due, configured and no longer refused, the report is sent, in
\* spite of crashes, exhausted retries and locks left behind.
ReportIsSent ==
    <>[](due /\ configured /\ ~blocked) => <>(delivery.status = "sent")
=============================================================================
