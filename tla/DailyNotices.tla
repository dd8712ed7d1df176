---------------------------- MODULE DailyNotices ----------------------------
(***************************************************************************)
(* Notices that must go out once (notifications/tasks.py): the daily        *)
(* digest with its personal copies, the market open and close notices, and  *)
(* the administrators' reminders.                                           *)
(*                                                                          *)
(* Digest and session notice have the same shape: under a Redis lock of     *)
(* their own they look for the day's global Alert row, send to the shared   *)
(* chat and create the row.  The digest's personal copies follow when the   *)
(* lock is gone.  Reminders have no lock: each is looked up again, sent     *)
(* and then marked delivered.                                               *)
(***************************************************************************)
EXTENDS Integers, FiniteSets

CONSTANTS Workers,      \* task executions, one after the other in each
          Kinds,        \* notices sent: subset of digest, open, close
          Subscribers,  \* active users who get the digest by a channel
          Reminders,    \* AdminReminder rows whose day has come
          LastDate,     \* bound: local dates 1..LastDate
          TradingDays,  \* those on which the exchange opens
          NoticeRetries, NoticeFaults

ASSUME NoticesAssumption ==
    /\ IsFiniteSet(Workers) /\ {"free", "dead"} \cap Workers = {}
    /\ Kinds \subseteq {"digest", "open", "close"}
    /\ LastDate \in Nat \ {0}
    /\ {NoticeRetries, NoticeFaults} \subseteq Nat

VARIABLES today,
          posted,     \* <<kind, day>> of the global Alert rows
          noticeLock, \* the holder of each lock, "free", or "dead"
          task,       \* what each worker executes
          chat,       \* number of copies the shared chat got of a notice
          copies,     \* number of personal digests a user got of a day
          delivered,  \* reminders with delivered_at
          reminded,   \* number of copies of a reminder
          disturbed,  \* reminders two runs had in hand at once, or one died with
          mishaps,    \* killed workers, failed statements, leases that ended early
          overrun     \* a lease ended while its holder went on

noticeVars == <<today, posted, noticeLock, task, chat, copies, delivered, reminded,
                disturbed, mishaps, overrun>>
reminderVars == <<delivered, reminded, disturbed>>

Dates == 1..LastDate
NoTask == [step |-> "idle", kind |-> "none", title |-> 0, todo |-> {}, tries |-> 0]

\* The digest has one lock, a session notice one for each day.
LockOf(t) == IF t.kind = "digest" THEN <<"digest", 0>> ELSE <<t.kind, t.title>>
Locks == {<<"digest", 0>>} \cup ((Kinds \ {"digest"}) \X Dates)

NoticesInit ==
    /\ today = 1
    /\ posted = {}
    /\ noticeLock = [k \in Locks |-> "free"]
    /\ task = [w \in Workers |-> NoTask]
    /\ chat = [n \in Kinds \X Dates |-> 0]
    /\ copies = [c \in Subscribers \X Dates |-> 0]
    /\ delivered = {}
    /\ reminded = [r \in Reminders |-> 0]
    /\ disturbed = {} /\ mishaps = 0 /\ overrun = FALSE

At(w, step) == task[w].step = step
Goto(w, step) == task' = [task EXCEPT ![w].step = step]
EndTask(w) == task' = [task EXCEPT ![w] = NoTask]

-----------------------------------------------------------------------------
(* Digest and session notices                                               *)

\* The title, and with it the day, is fixed before the lock is taken; a session
\* notice ends here on a weekend or holiday.
BeginNotice(w, k, tries) ==
    IF k = "digest" \/ today \in TradingDays
      THEN task' = [task EXCEPT ![w] = [NoTask EXCEPT !.step = "lock", !.kind = k,
                                                      !.title = today, !.tries = tries]]
      ELSE EndTask(w)

TriggerNotice(w, k) ==
    /\ At(w, "idle")
    /\ BeginNotice(w, k, 0)
    /\ UNCHANGED <<today, posted, noticeLock, chat, copies, reminderVars, mishaps, overrun>>

TakeLock(w) ==
    /\ At(w, "lock")
    /\ noticeLock[LockOf(task[w])] = "free"
    /\ noticeLock' = [noticeLock EXCEPT ![LockOf(task[w])] = w]
    /\ Goto(w, "look")
    /\ UNCHANGED <<today, posted, chat, copies, reminderVars, mishaps, overrun>>

\* LockBusy: at once, or after the digest's 30 seconds.
LockBusy(w) ==
    /\ At(w, "lock")
    /\ noticeLock[LockOf(task[w])] # "free"
    /\ EndTask(w)
    /\ UNCHANGED <<today, posted, noticeLock, chat, copies, reminderVars, mishaps, overrun>>

\* Fault: the guard looks for a notice of today's, whatever the title says.
AlreadyPostedToday(t) == <<t.kind, today>> \in posted

AlreadyPosted(t) == <<t.kind, t.title>> \in posted

\* The lock is deleted only with its holder's token.
Unlocked(w) == [k \in Locks |-> IF noticeLock[k] = w THEN "free" ELSE noticeLock[k]]

LookForRow(w) ==
    /\ At(w, "look")
    /\ IF AlreadyPosted(task[w])
         THEN EndTask(w) /\ noticeLock' = Unlocked(w)
         ELSE Goto(w, "send") /\ UNCHANGED noticeLock
    /\ UNCHANGED <<today, posted, chat, copies, reminderVars, mishaps, overrun>>

\* send_telegram_message says whether it worked, and nobody asks.
SendToChat(w, accepted) ==
    LET t == task[w] IN
    /\ At(w, "send")
    /\ chat' = IF accepted THEN [chat EXCEPT ![<<t.kind, t.title>>] = @ + 1] ELSE chat
    /\ Goto(w, "post")
    /\ UNCHANGED <<today, posted, noticeLock, copies, reminderVars, mishaps, overrun>>

\* Where a task stands once its row is created and its lock released.
AfterPost(t) == IF t.kind = "digest" THEN [t EXCEPT !.step = "users", !.todo = Subscribers]
                ELSE NoTask

\* Alert.objects.create, and the end of the with block.
PostRow(w) ==
    LET t == task[w] IN
    /\ At(w, "post")
    /\ posted' = posted \cup {<<t.kind, t.title>>}
    /\ noticeLock' = Unlocked(w)
    /\ task' = [task EXCEPT ![w] = AfterPost(t)]
    /\ UNCHANGED <<today, chat, copies, reminderVars, mishaps, overrun>>

\* One user's own digest, by whatever channels the profile allows.
SendCopy(w, u) ==
    /\ At(w, "users")
    /\ u \in task[w].todo
    /\ copies' = [copies EXCEPT ![<<u, task[w].title>>] = @ + 1]
    /\ task' = [task EXCEPT ![w].todo = @ \ {u}]
    /\ UNCHANGED <<today, posted, noticeLock, chat, reminderVars, mishaps, overrun>>

EndUsers(w) ==
    /\ At(w, "users")
    /\ task[w].todo = {}
    /\ EndTask(w)
    /\ UNCHANGED <<today, posted, noticeLock, chat, copies, reminderVars, mishaps, overrun>>

\* A statement fails: the with block frees the lock, and where autoretry_for
\* names the error Celery runs the task again from the top, max_retries times.
NoticeRaises(w) ==
    LET t == task[w] IN
    /\ t.step \in {"look", "send", "post", "users"}
    /\ mishaps < NoticeFaults
    /\ mishaps' = mishaps + 1
    /\ noticeLock' = Unlocked(w)
    /\ \/ t.tries < NoticeRetries /\ BeginNotice(w, t.kind, t.tries + 1)
       \/ EndTask(w)
    /\ UNCHANGED <<today, posted, chat, copies, delivered, reminded, disturbed, overrun>>

\* The lease runs out under a slow holder (the digest's is 90 s, its hard limit
\* 120 s), or after the holder's death.
LeaseEnds(k) ==
    /\ noticeLock[k] # "free"
    /\ \/ noticeLock[k] = "dead" /\ UNCHANGED <<mishaps, overrun>>
       \/ noticeLock[k] # "dead" /\ mishaps < NoticeFaults /\ mishaps' = mishaps + 1 /\ overrun' = TRUE
    /\ noticeLock' = [noticeLock EXCEPT ![k] = "free"]
    /\ UNCHANGED <<today, posted, task, chat, copies, delivered, reminded, disturbed>>

-----------------------------------------------------------------------------
(* Reminders                                                                *)

\* The queryset of deliver_admin_reminders.
ListReminders(w) ==
    /\ At(w, "idle")
    /\ delivered # Reminders
    /\ task' = [task EXCEPT ![w] = [NoTask EXCEPT !.step = "remind", !.todo = Reminders \ delivered]]
    /\ UNCHANGED <<today, posted, noticeLock, chat, copies, reminderVars, mishaps, overrun>>

StillDue(r) == r \notin delivered

InHand(w) == IF task[w].step \in {"say", "mark"} THEN {task[w].title} ELSE {}

\* The look-up before a delivery; title holds the reminder in hand.
TakeReminder(w, r) ==
    LET t == task[w] IN
    /\ At(w, "remind")
    /\ r \in t.todo
    /\ task' = [task EXCEPT ![w] = IF StillDue(r)
                  THEN [t EXCEPT !.step = "say", !.title = r, !.todo = t.todo \ {r}]
                  ELSE [t EXCEPT !.todo = t.todo \ {r}]]
    /\ disturbed' = IF \E v \in Workers \ {w} : r \in InHand(v)
                      THEN disturbed \cup {r} ELSE disturbed
    /\ UNCHANGED <<today, posted, noticeLock, chat, copies, delivered, reminded, mishaps, overrun>>

\* The Alert row, and Telegram where the reminder asks for it.
SayReminder(w) ==
    /\ At(w, "say")
    /\ reminded' = [reminded EXCEPT ![task[w].title] = @ + 1]
    /\ Goto(w, "mark")
    /\ UNCHANGED <<today, posted, noticeLock, chat, copies, delivered, disturbed, mishaps, overrun>>

MarkReminder(w) ==
    /\ At(w, "mark")
    /\ delivered' = delivered \cup {task[w].title}
    /\ task' = [task EXCEPT ![w].step = "remind", ![w].title = 0]
    /\ UNCHANGED <<today, posted, noticeLock, chat, copies, reminded, disturbed, mishaps, overrun>>

EndReminders(w) ==
    /\ At(w, "remind")
    /\ task[w].todo = {}
    /\ EndTask(w)
    /\ UNCHANGED <<today, posted, noticeLock, chat, copies, reminderVars, mishaps, overrun>>

-----------------------------------------------------------------------------

\* A killed worker leaves its lock behind.
WorkerDies(w) ==
    /\ ~At(w, "idle")
    /\ mishaps < NoticeFaults
    /\ mishaps' = mishaps + 1
    /\ noticeLock' = [k \in Locks |-> IF noticeLock[k] = w THEN "dead" ELSE noticeLock[k]]
    /\ disturbed' = disturbed \cup InHand(w)
    /\ EndTask(w)
    /\ UNCHANGED <<today, posted, chat, copies, delivered, reminded, overrun>>

Midnight ==
    /\ today < LastDate
    /\ today' = today + 1
    /\ UNCHANGED <<posted, noticeLock, task, chat, copies, reminderVars, mishaps, overrun>>

NoticesNext ==
    \/ Midnight
    \/ \E k \in Locks : LeaseEnds(k)
    \/ \E w \in Workers, k \in Kinds : TriggerNotice(w, k)
    \/ \E w \in Workers :
         \/ TakeLock(w) \/ LockBusy(w) \/ LookForRow(w) \/ PostRow(w) \/ EndUsers(w)
         \/ \E accepted \in BOOLEAN : SendToChat(w, accepted)
         \/ \E u \in Subscribers : SendCopy(w, u)
         \/ NoticeRaises(w) \/ WorkerDies(w)
         \/ ListReminders(w) \/ SayReminder(w) \/ MarkReminder(w) \/ EndReminders(w)
         \/ \E r \in Reminders : TakeReminder(w, r)

NoticesSpec == NoticesInit /\ [][NoticesNext]_noticeVars

-----------------------------------------------------------------------------

\* "a duplicate trigger (retry, manual re-run, a double beat fire) for the same
\* day must not re-send" (comment in send_daily_digest).  The shared chat gets
\* one copy of a notice and one more for each fault at most.  A user gets at
\* most one copy of a digest as long as no lease ended under its holder, since
\* the copies go out after the row that stops every other run, and exactly one
\* when nothing failed; after a failure the same row keeps the rest from ever
\* getting theirs.  A reminder is repeated only when two runs had it in hand at
\* the same time or one was killed with it, and a delivered one was said.
NoticesRepeatOnlyAfterFaults ==
    /\ \A k \in Kinds, d \in Dates : chat[<<k, d>>] <= 1 + mishaps
    /\ \A u \in Subscribers, d \in Dates :
         /\ ~overrun => copies[<<u, d>>] <= 1
         /\ (/\ <<"digest", d>> \in posted /\ mishaps = 0
             /\ \A w \in Workers : At(w, "users") => task[w].title # d)
            => copies[<<u, d>>] = 1
    /\ \A r \in Reminders :
         /\ r \notin disturbed => reminded[r] <= 1
         /\ r \in delivered => reminded[r] >= 1
=============================================================================
