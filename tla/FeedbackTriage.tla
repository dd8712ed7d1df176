--------------------------- MODULE FeedbackTriage ---------------------------
(***************************************************************************)
(* User feedback (feedback/services.py, views.py, tasks.py): reporters     *)
(* submit, follow up, withdraw and dispute; staff and administrators       *)
(* triage; a Celery task tells the reporter what became of the item.       *)
(*                                                                         *)
(* A request fetches the item, decides on its copy, and then takes three   *)
(* steps nothing binds together: it saves the named columns, records a     *)
(* FeedbackEvent and queues a notification.  Only the creation is a        *)
(* transaction, and queues its notification before it commits.  Texts are  *)
(* left out; a note, response, priority or assignment is the request that  *)
(* wrote it.                                                               *)
(***************************************************************************)
EXTENDS Integers

CONSTANTS Items,          \* feedback rows
          Posts,          \* POSTs, each made at most once
          ReporterRole,   \* the role of each item's reporter
          AccountIssues,  \* items of the category staff may not see
          Earlier,        \* the statuses items of earlier days have
          Asked,          \* the statuses the status form is tried with
          MaxRetries,     \* max_retries of notify_reporter
          MaxFaults       \* bound: killed requests and workers

Closed == {"implemented", "resolved", "duplicate", "cannot_reproduce",
           "declined", "withdrawn"}
StatusChoices == {"new", "under_review", "planned", "in_progress"} \cup Closed

ASSUME FeedbackAssumption ==
    /\ Items \cap Posts = {}
    /\ Earlier \subseteq StatusChoices /\ Asked \subseteq StatusChoices
    /\ ReporterRole \in [Items -> {"user", "staff", "admin"}]
    /\ AccountIssues \subseteq Items
    /\ {MaxRetries, MaxFaults} \subseteq Nat

VARIABLES phase,     \* of each item: absent, inserted in a transaction, stored
          item,      \* its columns
          post,      \* what each request is, has read and has done
          mail,      \* the notify_reporter message of each creation and request
          trail,     \* the status the newest status event of an item leads to
          receipt,   \* items whose creation was confirmed to the reporter
          told,      \* items whose present status the reporter has been shown
          contended, \* items two requests were at once in, or one died in
          lost,      \* items a notification of which was lost to a fault
          faults

feedbackVars == <<phase, item, post, mail, trail, receipt, told, contended, lost, faults>>

StaffAllowed == {"under_review", "in_progress", "duplicate", "cannot_reproduce"}
UserAllowed == {"withdrawn"}
ReporterKinds == {"withdraw", "dispute", "follow_up"}
TriageKinds == {"status", "note", "assign", "response"}
AdminKinds == {"priority", "duplicate"}
StatusKinds == {"status", "withdraw", "duplicate", "dispute"}
NotifyingKinds == {"status", "withdraw", "duplicate", "response"}

NewItem == [status |-> "new", reviewed |-> FALSE, resolved |-> FALSE, linked |-> FALSE,
            notes |-> {}, response |-> {}, priority |-> {}, assignee |-> {}]

Unused == [step |-> "unused", kind |-> "none", role |-> "none", on |-> "none",
           new |-> "none", copy |-> NewItem]

NoMail == [step |-> "none", seen |-> "none", tries |-> 0]
Queued == [NoMail EXCEPT !.step = "queued"]

\* An item is still to be submitted, or was dealt with on an earlier day.
FeedbackInit ==
    /\ phase \in [Items -> {"absent", "stored"}]
    /\ item \in [Items -> {NewItem} \cup
                {[NewItem EXCEPT !.status = s, !.reviewed = TRUE, !.resolved = s \in Closed] :
                    s \in Earlier}]
    /\ \A i \in Items : phase[i] = "absent" <=> item[i] = NewItem
    /\ post = [r \in Posts |-> Unused]
    /\ mail = [x \in Items \cup Posts |-> NoMail]
    /\ trail = [i \in Items |-> item[i].status]
    /\ receipt = {} /\ told = Items /\ contended = {} /\ lost = {} /\ faults = 0

-----------------------------------------------------------------------------
(* Submission                                                              *)

\* create_feedback inserts, records "created" and calls notify_reporter.delay.
CreateFeedback(i) ==
    /\ phase[i] = "absent"
    /\ phase' = [phase EXCEPT ![i] = "inserted"]
    /\ mail' = [mail EXCEPT ![i] = Queued]
    /\ UNCHANGED <<item, post, trail, receipt, told, contended, lost, faults>>

\* The end of @transaction.atomic: now others see the row.
CommitFeedback(i) ==
    /\ phase[i] = "inserted"
    /\ phase' = [phase EXCEPT ![i] = "stored"]
    /\ UNCHANGED <<item, post, mail, trail, receipt, told, contended, lost, faults>>

-----------------------------------------------------------------------------
(* A request on an item                                                    *)

InFlight(r) == post[r].step \in {"fetched", "saved", "recorded"}
On(i) == {r \in Posts : InFlight(r) /\ post[r].on = i}

\* The role and lookup queryset of the view: the reporter's own item; every
\* item but account issues for staff; every item for administrators.
MayFetch(kind, role, i) ==
    \/ kind \in ReporterKinds /\ role = ReporterRole[i]
    \/ kind \in TriageKinds /\ (role = "admin" \/ (role = "staff" /\ i \notin AccountIssues))
    \/ kind \in AdminKinds /\ role = "admin"

Fetch(r, kind, role, i, new) ==
    /\ post[r].step = "unused"
    /\ phase[i] = "stored"
    /\ MayFetch(kind, role, i)
    /\ post' = [post EXCEPT ![r] = [step |-> "fetched", kind |-> kind, role |-> role,
                                          on |-> i, new |-> new, copy |-> item[i]]]
    /\ contended' = IF On(i) = {} THEN contended ELSE contended \cup {i}
    /\ UNCHANGED <<phase, item, mail, trail, receipt, told, lost, faults>>

\* set_status by role; the other services' own conditions.
Permitted(q) ==
    CASE q.kind \in {"status", "withdraw"} ->
           \/ q.role = "user" /\ q.new \in UserAllowed /\ q.copy.status \notin Closed
           \/ q.role = "staff" /\ q.new \in StaffAllowed
           \/ q.role = "admin"
      [] q.kind = "dispute" -> q.copy.status \in {"resolved", "implemented"}
      [] q.kind = "follow_up" -> q.copy.status \notin Closed
      [] OTHER -> TRUE

\* set_status returns early when there is nothing to change.
NothingToSet(q) == q.kind \in {"status", "withdraw"} /\ q.new = q.copy.status

\* The copy after the service changed it.  The original of a duplicate is
\* some other item.
Edited(r) ==
    LET q == post[r] IN
    CASE q.kind \in {"status", "withdraw"} ->
           [q.copy EXCEPT !.status = q.new, !.reviewed = @ \/ q.new # "new",
                          !.resolved = @ \/ q.new \in Closed]
      [] q.kind = "duplicate" ->
           [q.copy EXCEPT !.status = "duplicate", !.resolved = TRUE, !.linked = TRUE]
      [] q.kind = "dispute" ->
           [q.copy EXCEPT !.status = "under_review", !.resolved = FALSE]
      [] q.kind = "note" -> [q.copy EXCEPT !.notes = @ \cup {r}]
      [] q.kind = "response" -> [q.copy EXCEPT !.response = {r}]
      [] q.kind = "priority" -> [q.copy EXCEPT !.priority = {r}]
      [] q.kind = "assign" -> [q.copy EXCEPT !.assignee = {r}]
      [] OTHER -> q.copy

\* The columns each service names; a follow-up only touches updated_at.
UpdateFields(kind) ==
    CASE kind \in {"status", "withdraw"} -> {"status", "reviewed", "resolved"}
      [] kind = "duplicate" -> {"linked", "status", "resolved"}
      [] kind = "dispute" -> {"status", "resolved"}
      [] kind = "note" -> {"notes"}
      [] kind = "response" -> {"response"}
      [] kind = "priority" -> {"priority"}
      [] kind = "assign" -> {"assignee"}
      [] OTHER -> {}

\* The row after save(update_fields=...).
Written(cur, r) ==
    [c \in DOMAIN NewItem |-> IF c \in UpdateFields(post[r].kind)
                                THEN Edited(r)[c] ELSE cur[c]]

Refuse(r) ==
    /\ post[r].step = "fetched"
    /\ ~Permitted(post[r]) \/ NothingToSet(post[r])
    /\ post' = [post EXCEPT ![r] = [Unused EXCEPT !.step = "refused"]]
    /\ UNCHANGED <<phase, item, mail, trail, receipt, told, contended, lost, faults>>

\* A reporter who disputes or follows up knows what the status is now.
SaveFields(r) ==
    LET q == post[r]
        i == q.on
        after == Written(item[i], r)
    IN  /\ q.step = "fetched"
        /\ Permitted(q) /\ ~NothingToSet(q)
        /\ item' = [item EXCEPT ![i] = after]
        /\ told' = IF q.kind \in StatusKinds \ {"dispute"} /\ after.status # item[i].status
                     THEN told \ {i}
                   ELSE IF q.kind = "dispute" THEN told \cup {i} ELSE told
        /\ post' = [post EXCEPT ![r].step = "saved"]
        /\ UNCHANGED <<phase, mail, trail, receipt, contended, lost, faults>>

\* Fault: a dispute leaves no event.
TrailUndisputed(q) ==
    CASE q.kind \in {"status", "withdraw"} -> q.new
      [] q.kind = "duplicate" -> "duplicate"
      [] OTHER -> trail[q.on]

TrailAfter(q) ==
    CASE q.kind \in {"status", "withdraw"} -> q.new
      [] q.kind = "duplicate" -> "duplicate"
      [] q.kind = "dispute" -> "under_review"
      [] OTHER -> trail[q.on]

\* _record_event; the kinds that do not notify are done.
RecordEvent(r) ==
    LET q == post[r] IN
    /\ q.step = "saved"
    /\ trail' = [trail EXCEPT ![q.on] = TrailAfter(q)]
    /\ post' = [post EXCEPT
         ![r] = IF q.kind \in NotifyingKinds THEN [q EXCEPT !.step = "recorded"]
                ELSE [Unused EXCEPT !.step = "done", !.kind = q.kind, !.on = q.on]]
    /\ UNCHANGED <<phase, item, mail, receipt, told, contended, lost, faults>>

\* notify_reporter.delay
Notify(r) ==
    /\ post[r].step = "recorded"
    /\ mail' = [mail EXCEPT ![r] = Queued]
    /\ post' = [post EXCEPT ![r] = [Unused EXCEPT !.step = "done", !.kind = post[r].kind, !.on = post[r].on]]
    /\ UNCHANGED <<phase, item, trail, receipt, told, contended, lost, faults>>

\* The web worker is killed between two of these steps.
RequestDies(r) ==
    LET i == post[r].on IN
    /\ post[r].step \in {"saved", "recorded"}
    /\ faults < MaxFaults
    /\ faults' = faults + 1
    /\ contended' = contended \cup {i}
    /\ lost' = lost \cup {i}
    /\ post' = [post EXCEPT ![r] = [Unused EXCEPT !.step = "done", !.kind = post[r].kind,
                                                    !.on = i]]
    /\ UNCHANGED <<phase, item, mail, trail, receipt, told>>

-----------------------------------------------------------------------------
(* notify_reporter                                                         *)

About(x) == IF x \in Items THEN x ELSE post[x].on

\* Fault: the text is made from the row as it was when the item was created.
SeenByOlder(i) == "new"

\* The row the task's query finds; an uncommitted one is not there.
SeenBy(i) == IF phase[i] = "stored" THEN item[i].status ELSE "missing"

ReadItem(x) ==
    /\ mail[x].step = "queued"
    /\ mail' = [mail EXCEPT ![x] = [@ EXCEPT !.step = "reading", !.seen = SeenBy(About(x))]]
    /\ UNCHANGED <<phase, item, post, trail, receipt, told, contended, lost, faults>>

\* "no reporter": the task ends well without having told anyone.
SkipMissing(x) ==
    /\ mail[x].step = "reading"
    /\ mail[x].seen = "missing"
    /\ mail' = [mail EXCEPT ![x] = [NoMail EXCEPT !.step = "done"]]
    /\ UNCHANGED <<phase, item, post, trail, receipt, told, contended, lost, faults>>

\* Alert.objects.create; Telegram and e-mail follow but cannot fail the task.
CreateAlert(x) ==
    LET i == About(x) IN
    /\ mail[x].step = "reading"
    /\ mail[x].seen # "missing"
    /\ mail' = [mail EXCEPT ![x] = [NoMail EXCEPT !.step = "done"]]
    /\ told' = IF mail[x].seen = item[i].status THEN told \cup {i} ELSE told
    /\ receipt' = IF x \in Items THEN receipt \cup {i} ELSE receipt
    /\ UNCHANGED <<phase, item, post, trail, contended, lost, faults>>

\* OperationalError: autoretry_for queues it again, max_retries times.
RetryMail(x) ==
    /\ mail[x].step = "reading"
    /\ mail[x].tries < MaxRetries
    /\ mail' = [mail EXCEPT ![x] = [Queued EXCEPT !.tries = mail[x].tries + 1]]
    /\ UNCHANGED <<phase, item, post, trail, receipt, told, contended, lost, faults>>

\* The last attempt fails as well.
GiveUpMail(x) ==
    /\ mail[x].step = "reading"
    /\ mail[x].tries = MaxRetries
    /\ mail' = [mail EXCEPT ![x] = [NoMail EXCEPT !.step = "done"]]
    /\ lost' = lost \cup {About(x)}
    /\ UNCHANGED <<phase, item, post, trail, receipt, told, contended, faults>>

\* The worker is killed: Celery acknowledges what its dead child was doing, so
\* the message is gone; a lost host leaves it to be delivered again.
LoseMail(x, redelivered) ==
    /\ mail[x].step = "reading"
    /\ faults < MaxFaults
    /\ faults' = faults + 1
    /\ mail' = [mail EXCEPT ![x] = IF redelivered THEN [Queued EXCEPT !.tries = mail[x].tries]
                                   ELSE [NoMail EXCEPT !.step = "done"]]
    /\ lost' = IF redelivered THEN lost ELSE lost \cup {About(x)}
    /\ UNCHANGED <<phase, item, post, trail, receipt, told, contended>>

FeedbackNext ==
    \/ \E i \in Items : CreateFeedback(i) \/ CommitFeedback(i)
    \/ \E r \in Posts, i \in Items, role \in {"user", "staff", "admin"} :
         \/ \E new \in Asked : Fetch(r, "status", role, i, new)
         \/ Fetch(r, "withdraw", role, i, "withdrawn")
         \/ \E kind \in (ReporterKinds \cup TriageKinds \cup AdminKinds)
                          \ {"status", "withdraw"} : Fetch(r, kind, role, i, "none")
    \/ \E r \in Posts : Refuse(r) \/ SaveFields(r) \/ RecordEvent(r) \/ Notify(r) \/ RequestDies(r)
    \/ \E x \in Items \cup Posts :
         \/ ReadItem(x) \/ SkipMissing(x) \/ CreateAlert(x)
         \/ RetryMail(x) \/ GiveUpMail(x)
         \/ \E redelivered \in BOOLEAN : LoseMail(x, redelivered)

FeedbackSpec == FeedbackInit /\ [][FeedbackNext]_feedbackVars

-----------------------------------------------------------------------------

\* Where requests did not overlap and none was killed, the audit trail ends in
\* the item's status and every note is there.  A note is lost only to another
\* request at the same time (add_internal_note appends to a copy).
QuietItemConsistent ==
    \A i \in Items \ contended : On(i) = {} =>
      /\ trail[i] = item[i].status
      /\ \A r \in Posts : (post[r].step = "done" /\ post[r].kind = "note"
                              /\ post[r].on = i) => r \in item[i].notes

\* Unless a process was killed, the present status of an item has been shown to
\* its reporter, or somebody is still to do so: a message about an older status
\* is never the last one ("on ... a status change", README.md, Notifications).
NobodyLeftUntold ==
    \A i \in Items \ (told \cup lost) :
      \/ \E r \in On(i) : post[r].step \in {"saved", "recorded"}
                          /\ post[r].kind \in NotifyingKinds
      \/ \E x \in Items \cup Posts :
           /\ About(x) = i
           /\ \/ mail[x].step = "queued"
              \/ mail[x].step = "reading" /\ mail[x].seen = item[i].status

=============================================================================
