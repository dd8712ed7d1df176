---------------------------- MODULE TasksProofs -----------------------------
(***************************************************************************)
(* The records of task executions, the health of tasks, the outages that   *)
(* are paged and the freshness of what syncs keep fresh, for any number of *)
(* executions and processes, limits, thresholds and intervals.             *)
(***************************************************************************)
EXTENDS TaskRuns, TaskHealth, OutageAlerts, LiveSync, FiniteSums, TLAPS

\* A live execution is within its hard limit and its row is still open; one
\* that has not started has no row.
LiveRowOpen ==
    \A r \in Runs :
      /\ process[r] = "running" => row[r] = "started" /\ age[r] <= HardLimit
      /\ process[r] = "absent" => row[r] = "none" /\ age[r] = 0

RowInv == TypeOK /\ LiveRowOpen

LEMMA StatusIsFinished ==
    ASSUME NEW result \in Results
    PROVE  StatusForResult(result) \in Finished
  BY DEF Results, StatusForResult, Finished

LEMMA RowInitially == Init => RowInv
  BY LimitsAssumption DEF Init, RowInv, TypeOK, LiveRowOpen

LEMMA RowStep ==
    ASSUME TableCoversLimit
    PROVE  RowInv /\ [Next]_vars => RowInv'
<1> SUFFICES ASSUME RowInv, [Next]_vars PROVE RowInv'
  OBVIOUS
<1> USE LimitsAssumption DEF RowInv, TypeOK, LiveRowOpen
<1>1. ASSUME NEW r \in Runs, Start(r) PROVE RowInv'
  BY <1>1 DEF Start
<1>2. ASSUME NEW r \in Runs, NEW status \in Finished, Record(r, status)
      PROVE  RowInv'
  BY <1>2 DEF Record, Finished
<1>3. ASSUME NEW r \in Runs, Die(r) PROVE RowInv'
  BY <1>3 DEF Die
<1>4. ASSUME NEW r \in Runs, Reconcile(r) PROVE RowInv'
  <2>1. process[r] # "running"
    BY <1>4 DEF Reconcile, TableCoversLimit
  <2>. QED
    BY <1>4, <2>1 DEF Reconcile, Finished
<1>5. CASE Tick
  <2>1. \A r \in Runs : process[r] = "running" => age[r] < HardLimit
    BY <1>5 DEF Tick, OutOfTime
  <2>. QED
    BY <1>5, <2>1 DEF Tick
<1>6. CASE UNCHANGED vars
  BY <1>6 DEF vars
<1>. QED
  <2>1. ASSUME NEW r \in Runs, Return(r) PROVE RowInv'
    BY <1>2, <2>1, StatusIsFinished DEF Return
  <2>2. ASSUME NEW r \in Runs, Raise(r) PROVE RowInv'
    BY <1>2, <2>2 DEF Raise, Finished
  <2>. QED
    BY <1>1, <1>3, <1>4, <1>5, <1>6, <2>1, <2>2 DEF Next, HardKill, Crash

LEMMA RowInvariant ==
    ASSUME TableCoversLimit
    PROVE  Spec => []RowInv
  BY RowInitially, RowStep, PTL DEF Spec

\* A task whose limit the table covers never has a live row closed.
THEOREM ReconcilerSparesLiveRuns ==
    ASSUME TableCoversLimit
    PROVE  Spec => []NoLiveRunReconciled
<1>1. RowInv => NoLiveRunReconciled
  BY DEF RowInv, LiveRowOpen, NoLiveRunReconciled
<1>. QED
  BY <1>1, RowInvariant, PTL

\* ... and then no outcome is ever overwritten, although the decorator's save
\* is unconditional.
THEOREM AuditLogImmutable ==
    ASSUME TableCoversLimit
    PROVE  Spec => OutcomesImmutable
<1>1. ASSUME RowInv, [Next]_vars, NEW r \in Runs, row[r] \in Finished
      PROVE  row'[r] = row[r]
  <2>1. process[r] \notin {"running", "absent"} /\ row[r] # "started"
    BY <1>1 DEF RowInv, LiveRowOpen, Finished
  <2>2. TypeOK
    BY <1>1 DEF RowInv
  <2>. QED
    BY <1>1, <2>1, <2>2
    DEF Next, vars, Tick, Start, Return, Raise, Record, HardKill, Crash, Die,
        Reconcile, TypeOK
<1>2. RowInv /\ [Next]_vars
      => [\A r \in Runs : row[r] \in Finished => row'[r] = row[r]]_vars
  BY <1>1
<1>. QED
  BY <1>2, RowInvariant, PTL DEF Spec, OutcomesImmutable

(***************************************************************************)
(* The health of a task and the notices about it.                          *)
(***************************************************************************)

\* The row and every copy of it agree with themselves; a copy that no step
\* will act on is a fresh row.
CopiesAgree ==
    /\ Agrees(healthRow)
    /\ \A u \in Runners : Agrees(updater[u].copy)
    /\ Agrees(sender.copy)

HealthInv == HealthTyped /\ CopiesAgree

LEMMA NewRowAgrees == NewRow \in Rows /\ Agrees(NewRow)
  BY HealthAssumption DEF NewRow, Rows, Agrees, AlertStates

\* The two transitions keep the type and the agreement of the copy they are
\* computed from.
LEMMA TransitionsAgree ==
    ASSUME NEW h \in Rows, Agrees(h)
    PROVE  /\ AfterSuccess(h) \in Rows /\ Agrees(AfterSuccess(h))
           /\ AfterFailure(h) \in Rows /\ Agrees(AfterFailure(h))
<1>1. Increment(h.failures) \in 0..Threshold
  BY HealthAssumption DEF Rows, Increment
<1>2. AfterSuccess(h) \in Rows /\ Agrees(AfterSuccess(h))
  BY HealthAssumption DEF AfterSuccess, Rows, Agrees, AlertStates
<1>3. AfterFailure(h) \in Rows /\ Agrees(AfterFailure(h))
  BY <1>1, HealthAssumption DEF AfterFailure, Rows, Agrees, AlertStates
<1>. QED
  BY <1>2, <1>3

LEMMA HealthInitially == HealthInit => HealthInv
  BY NewRowAgrees DEF HealthInit, HealthInv, HealthTyped, CopiesAgree

LEMMA HealthStep == HealthInv /\ [HealthNext]_healthVars => HealthInv'
<1> SUFFICES ASSUME HealthInv, [HealthNext]_healthVars PROVE HealthInv'
  OBVIOUS
<1> USE NewRowAgrees DEF HealthInv, HealthTyped, CopiesAgree
<1>1. ASSUME NEW u \in Runners, ReadRow(u) PROVE HealthInv'
  BY <1>1 DEF ReadRow
<1>2. ASSUME NEW u \in Runners, SaveSuccess(u) PROVE HealthInv'
  <2>1. healthRow' \in Rows /\ Agrees(healthRow')
    BY <1>2, TransitionsAgree DEF SaveSuccess
  <2>. QED
    BY <1>2, <2>1 DEF SaveSuccess, UpdaterIdle
<1>3. ASSUME NEW u \in Runners, SaveFailure(u) PROVE HealthInv'
  <2>1. healthRow' \in Rows /\ Agrees(healthRow')
    BY <1>3, TransitionsAgree DEF SaveFailure
  <2>. QED
    BY <1>3, <2>1 DEF SaveFailure, UpdaterIdle
<1>4. ASSUME NEW u \in Runners, LoseUpdate(u) PROVE HealthInv'
  BY <1>4 DEF LoseUpdate, UpdaterIdle
<1>5. CASE Collect
  BY <1>5 DEF Collect
<1>6. CASE Send
  BY <1>6 DEF Send
<1>7. CASE SendFails \/ SenderDies
  BY <1>7 DEF SendFails, SenderDies, SenderIdle
<1>8. CASE SaveAlertState
  <2>1. healthRow' \in Rows /\ Agrees(healthRow')
    BY <1>8 DEF SaveAlertState, AlertAfterSend, Rows, Agrees, AlertStates
  <2>. QED
    BY <1>8, <2>1 DEF SaveAlertState, SenderIdle
<1>9. CASE UNCHANGED healthVars
  BY <1>9 DEF healthVars
<1>. QED
  BY <1>1, <1>2, <1>3, <1>4, <1>5, <1>6, <1>7, <1>8, <1>9 DEF HealthNext

\* No interleaving of runs and alert job makes a pending notice disagree with
\* the health it reports.
THEOREM NoticesAgree == HealthSpec => []PendingMatchesHealth
<1>1. HealthInv => PendingMatchesHealth
  BY DEF HealthInv, CopiesAgree, PendingMatchesHealth
<1>. QED
  BY <1>1, HealthInitially, HealthStep, PTL DEF HealthSpec

-----------------------------------------------------------------------------
(***************************************************************************)
(* OutageAlerts                                                            *)
(***************************************************************************)

\* The remainder of the next number.
LEMMA NextRemainder ==
    ASSUME NEW b \in Nat, NEW e \in Nat \ {0}
    PROVE  /\ b % e \in 0..(e - 1)
           /\ (b + 1) % e # 0 => (b + 1) % e = (b % e) + 1
           /\ (b + 1) % e = 0 => b % e = e - 1
PROOF
<1>1. PICK q, r : q = b \div e /\ r = b % e
  OBVIOUS
<1>2. q \in Int /\ r \in 0..(e - 1) /\ b = e * q + r
  BY <1>1
<1>3. CASE r + 1 < e
  <2>1. (b + 1) % e = r + 1
    <3>1. PICK s, t : s = (b + 1) \div e /\ t = (b + 1) % e
      OBVIOUS
    <3>2. s \in Int /\ t \in 0..(e - 1) /\ b + 1 = e * s + t
      BY <3>1
    <3>3. e * (s - q) = r + 1 - t
      BY <1>2, <3>2
    <3>4. s = q
      BY <1>2, <1>3, <3>2, <3>3
    <3> QED
      BY <1>2, <3>1, <3>2, <3>4
  <2> QED
    BY <1>1, <1>2, <2>1
<1>4. CASE r + 1 = e
  <2>1. (b + 1) % e = 0
    <3>1. b + 1 = e * (q + 1)
      BY <1>2, <1>4
    <3> QED
      BY <1>2, <3>1
  <2>2. r = e - 1
    BY <1>2, <1>4
  <2> QED
    BY <1>1, <1>2, <2>1, <2>2
<1> QED
  BY <1>2, <1>3, <1>4

-----------------------------------------------------------------------------
\* A row is unhealthy exactly at the threshold, and its notice is about that.
HealthSound(h) ==
    /\ h.health = "unhealthy" <=> h.failures = FailureStreak
    /\ h.health = "unhealthy" => h.alert \in {"failure_pending", "failure_sent"}
    /\ h.health = "healthy" => h.alert \in {"none", "recovery_pending"}

\* How many beats ago the last scan was, at most.
Waited == IF "scan" \in dueNow THEN ScanEvery ELSE beat % ScanEvery

\* How many syncs in a row the outage has made fail, at least.
Failing == outage - SyncInterval - IF "sync" \in dueNow THEN 1 ELSE 0

OutageTyped ==
    /\ answering \subseteq Providers
    /\ knows \in [Processes -> [succeeded : BOOLEAN, age : Nat]]
    /\ syncHealth \in Health!Rows /\ HealthSound(syncHealth)
    /\ notified \in [AlertKeys -> Nat]
    /\ beat \in Nat /\ opsMishaps \in Nat /\ outage \in Nat

SentIsPaged == syncHealth.alert = "failure_sent" => paged = "unhealthy"

\* While an outage lasts, every process remembers a success as old as it is.
OutageLasts ==
    outage > 0 =>
      /\ answering = {} /\ beat <= CloseAt
      /\ \A p \in Processes : knows[p].succeeded /\ (knows[p].age >= outage \/ knows[p].age >= Forgot)

StreakGrows == syncHealth.failures = FailureStreak \/ syncHealth.failures >= Failing

\* A notice about an outage that is pending was not yet there at the last scan.
ScanComes ==
    outage > SyncInterval + FailureStreak /\ syncHealth.alert = "failure_pending"
      => outage - (SyncInterval + FailureStreak) <= Waited

AppendScanned ==
    opsMishaps = 0 /\ ~appended /\ beat >= SettledBy
      => \/ beat - SettledBy < Waited
         \/ notified["missing append"] < AlertCooldown + Waited

OutageInv ==
    /\ OutageTyped /\ SentIsPaged /\ OutageLasts /\ StreakGrows /\ ScanComes /\ AppendScanned

LEMMA OutageConstants ==
    /\ SyncInterval \in Nat /\ SlowInterval \in Nat /\ CloseAt \in Nat
    /\ ScanEvery \in Nat \ {0} /\ AlertCooldown \in Nat \ {0} /\ AbsentAfter \in Nat \ {0}
    /\ FailureStreak \in Nat \ {0} /\ SettledBy \in Nat \ {0}
BY OutageAssumption

\* What a success and a failure make of the row.
LEMMA HealthMoves ==
    ASSUME NEW h \in Health!Rows, HealthSound(h)
    PROVE  /\ Health!AfterSuccess(h) \in Health!Rows /\ HealthSound(Health!AfterSuccess(h))
           /\ Health!AfterSuccess(h).alert \in {"none", "recovery_pending"}
           /\ Health!AfterFailure(h) \in Health!Rows /\ HealthSound(Health!AfterFailure(h))
           /\ \/ Health!AfterFailure(h).failures = FailureStreak
              \/ Health!AfterFailure(h).failures = h.failures + 1
           /\ Health!AfterFailure(h).alert = "failure_sent" => h.alert = "failure_sent"
           /\ h.failures = FailureStreak => Health!AfterFailure(h).alert = h.alert
PROOF
<1>1. PICK f \in Nat \ {0} : f = FailureStreak
  BY OutageConstants
<1>2. /\ h = [health |-> h.health, failures |-> h.failures, alert |-> h.alert]
      /\ h.health \in {"healthy", "unhealthy"} /\ h.failures \in 0..f
      /\ h.alert \in {"none", "failure_pending", "failure_sent", "recovery_pending"}
  BY <1>1 DEF Health!Rows, Health!AlertStates
<1>3. PICK s : s = Health!AfterSuccess(h)
  OBVIOUS
<1>4. PICK a : a = IF h.health = "unhealthy" \/ h.alert = "recovery_pending"
                     THEN "recovery_pending" ELSE "none"
  OBVIOUS
<1>5. s = [health |-> "healthy", failures |-> 0, alert |-> a]
  BY <1>3, <1>4 DEF Health!AfterSuccess
<1>6. a \in {"none", "recovery_pending"}
  BY <1>4
<1>7. s \in Health!Rows /\ HealthSound(s) /\ s.alert \in {"none", "recovery_pending"}
  BY <1>1, <1>5, <1>6 DEF Health!Rows, Health!AlertStates, HealthSound
<1>8. PICK n : n = Health!Increment(h.failures)
  OBVIOUS
<1>9. n \in 0..f /\ (n >= f => n = f) /\ (n = f \/ n = h.failures + 1)
  BY <1>1, <1>2, <1>8 DEF Health!Increment
<1>10. PICK g : g = Health!AfterFailure(h)
  OBVIOUS
<1>11. CASE n >= f
  <2>1. PICK b : b = IF h.alert = "failure_sent" THEN "failure_sent" ELSE "failure_pending"
    OBVIOUS
  <2>2. g = [health |-> "unhealthy", failures |-> f, alert |-> b]
    BY <1>1, <1>8, <1>9, <1>10, <1>11, <2>1 DEF Health!AfterFailure
  <2>3. b \in {"failure_pending", "failure_sent"} /\ (b = "failure_sent" <=> h.alert = "failure_sent")
    BY <2>1
  <2>4. g \in Health!Rows /\ HealthSound(g) /\ g.failures = f /\ g.alert = b
    BY <1>1, <2>2, <2>3 DEF Health!Rows, Health!AlertStates, HealthSound
  <2>5. h.failures = f => h.alert = b
    BY <1>1, <1>2, <2>1 DEF HealthSound
  <2> QED
    BY <1>1, <1>3, <1>7, <1>10, <2>3, <2>4, <2>5
<1>12. CASE ~(n >= f)
  <2>1. g = [h EXCEPT !.failures = n]
    BY <1>1, <1>8, <1>10, <1>12 DEF Health!AfterFailure
  <2>2. g = [health |-> h.health, failures |-> n, alert |-> h.alert]
    BY <1>2, <2>1
  <2>3. h.health = "healthy" /\ h.failures # f
    BY <1>1, <1>2, <1>8, <1>12 DEF HealthSound, Health!Increment
  <2>4. g.health = h.health /\ g.failures = n /\ g.alert = h.alert
    BY <2>2
  <2>5. g \in Health!Rows /\ HealthSound(g)
    BY <1>1, <1>2, <1>9, <1>12, <2>2, <2>3, <2>4 DEF Health!Rows, Health!AlertStates, HealthSound
  <2> QED
    BY <1>1, <1>3, <1>7, <1>9, <1>10, <1>12, <2>3, <2>4, <2>5
<1> QED
  BY <1>11, <1>12

LEMMA DueIs ==
    ASSUME NEW b
    PROVE  "sync" \in DueAt(b) /\ ("scan" \in DueAt(b) <=> b % ScanEvery = 0)
BY DEF DueAt

LEMMA OutageStart == OutageInit => OutageInv
PROOF
<1> SUFFICES ASSUME OutageInit PROVE OutageInv
  OBVIOUS
<1>1. /\ answering = Providers /\ knows = [p \in Processes |-> NothingKnown]
      /\ syncHealth = Health!NewRow /\ notified = [k \in AlertKeys |-> LongAgo]
      /\ beat = 1 /\ dueNow = DueAt(1) /\ opsMishaps = 0 /\ outage = 0
  BY DEF OutageInit
<1>2. OutageTyped
  <2>1. NothingKnown \in [succeeded : BOOLEAN, age : Nat]
    BY OutageConstants DEF NothingKnown, Forgot
  <2>2. LongAgo \in Nat
    BY OutageConstants DEF LongAgo
  <2>3. Health!NewRow \in Health!Rows /\ HealthSound(Health!NewRow)
    BY OutageConstants DEF Health!NewRow, Health!Rows, Health!AlertStates, HealthSound
  <2> QED
    BY <1>1, <2>1, <2>2, <2>3 DEF OutageTyped
<1>3. syncHealth.alert = "none" /\ syncHealth.failures = 0
  BY <1>1 DEF Health!NewRow
<1>4. SentIsPaged /\ OutageLasts /\ ScanComes
  BY <1>1, <1>3, OutageConstants DEF SentIsPaged, OutageLasts, ScanComes
<1>5. StreakGrows
  BY <1>1, <1>3, OutageConstants DEF StreakGrows, Failing
<1>6. AppendScanned
  <2>1. PICK r : r = 1 % ScanEvery
    OBVIOUS
  <2>2. r \in Nat
    BY <2>1, OutageConstants
  <2>3. "scan" \in dueNow <=> r = 0
    BY <1>1, <2>1, DueIs
  <2>4. Waited = IF r = 0 THEN ScanEvery ELSE r
    BY <1>1, <2>1, <2>3 DEF Waited
  <2>5. PICK w \in Nat \ {0} : w = Waited
    BY <2>2, <2>4, OutageConstants
  <2>6. PICK s \in Nat \ {0} : s = SettledBy
    BY OutageConstants
  <2>7. 1 >= s => 1 - s < w
    OBVIOUS
  <2>8. beat >= SettledBy => beat - SettledBy < Waited
    BY <1>1, <2>5, <2>6, <2>7
  <2> QED
    BY <2>8 DEF AppendScanned
<1> QED
  BY <1>2, <1>4, <1>5, <1>6 DEF OutageInv

\* A run forgets nothing of a success while nobody answers.
LEMMA KnowsKept ==
    ASSUME OutageTyped, NEW p \in Processes
    PROVE  /\ KnowsAfter(p) \in [Processes -> [succeeded : BOOLEAN, age : Nat]]
           /\ answering = {} /\ knows[p].succeeded => KnowsAfter(p) = knows
PROOF
<1>1. knows \in [Processes -> [succeeded : BOOLEAN, age : Nat]]
  BY DEF OutageTyped
<1>2. PICK r \in [succeeded : BOOLEAN, age : Nat] : r = knows[p]
  BY <1>1
<1>3. PICK s : s = [succeeded |-> TRUE, age |-> 0]
  OBVIOUS
<1>4. s \in [succeeded : BOOLEAN, age : Nat]
  BY <1>3
<1>5. PICK n : n = [r EXCEPT !.age = 0]
  OBVIOUS
<1>6. n \in [succeeded : BOOLEAN, age : Nat]
  <2>1. r = [succeeded |-> r.succeeded, age |-> r.age]
    OBVIOUS
  <2>2. n = [succeeded |-> r.succeeded, age |-> 0]
    BY <1>5, <2>1
  <2> QED
    BY <2>2
<1>7. KnowsAfter(p) = IF answering # {} THEN [knows EXCEPT ![p] = s]
                      ELSE IF r.succeeded THEN knows ELSE [knows EXCEPT ![p] = n]
  BY <1>2, <1>3, <1>5 DEF KnowsAfter
<1> QED
  BY <1>1, <1>2, <1>4, <1>6, <1>7

LEMMA SyncRunsKeeps == ASSUME OutageInv, NEW p \in Processes, SyncRuns(p) PROVE OutageInv'
PROOF
<1>1. OutageTyped
  BY DEF OutageInv
<1>2. PICK h \in Health!Rows : h = syncHealth /\ HealthSound(h)
  BY <1>1 DEF OutageTyped
<1>3. PICK fresh \in BOOLEAN : fresh <=> FreshEnough(p)
  OBVIOUS
<1>4. PICK l : l = IF fresh THEN "skipped" ELSE SyncStatus
  OBVIOUS
<1>5. /\ "sync" \in dueNow /\ dueNow' = dueNow \ {"sync"}
      /\ syncHealth' = IF l = "failure" THEN Health!AfterFailure(h) ELSE Health!AfterSuccess(h)
      /\ knows' = IF fresh THEN knows ELSE KnowsAfter(p)
      /\ UNCHANGED <<answering, appended, notified, beat, opsMishaps, paged, outage>>
  <2>1. latest' = l
    BY <1>3, <1>4 DEF SyncRuns
  <2>2. syncHealth' = HealthAfter(l)
    BY <2>1 DEF SyncRuns
  <2> QED
    BY <1>2, <1>3, <2>2 DEF SyncRuns, HealthAfter
<1>6. PICK g : g = syncHealth'
  OBVIOUS
<1>7. /\ g \in Health!Rows /\ HealthSound(g)
      /\ g.alert = "failure_sent" => h.alert = "failure_sent"
      /\ l = "failure" => /\ g.failures = FailureStreak \/ g.failures = h.failures + 1
                          /\ h.failures = FailureStreak => g.alert = h.alert
  <2>1. CASE l = "failure"
    <3>1. g = Health!AfterFailure(h)
      BY <1>5, <1>6, <2>1
    <3> QED
      BY <1>2, <2>1, <3>1, HealthMoves
  <2>2. CASE l # "failure"
    <3>1. g = Health!AfterSuccess(h)
      BY <1>5, <1>6, <2>2
    <3>2. g \in Health!Rows /\ HealthSound(g) /\ g.alert \in {"none", "recovery_pending"}
      BY <1>2, <3>1, HealthMoves
    <3> QED
      BY <2>2, <3>2
  <2> QED
    BY <2>1, <2>2
<1>8. PICK o, b : o = outage /\ b = beat
  OBVIOUS
<1>9. o \in Nat /\ b \in Nat
  BY <1>1, <1>8 DEF OutageTyped
<1>10. g.failures \in Nat /\ h.failures \in Nat
  BY <1>2, <1>7, OutageConstants DEF Health!Rows
<1>11. ASSUME o > 0
       PROVE  /\ knows' = knows
              /\ o > SyncInterval => l = "failure"
  <2>1. /\ answering = {} /\ b <= CloseAt
        /\ knows[p].succeeded /\ (knows[p].age >= o \/ knows[p].age >= Forgot)
    BY <1>8, <1>11 DEF OutageInv, OutageLasts
  <2>2. knows' = knows
    BY <1>1, <1>5, <2>1, KnowsKept
  <2>3. PICK a : a = knows[p].age
    OBVIOUS
  <2>4. a \in Nat
    BY <1>1, <2>3 DEF OutageTyped
  <2>5. fresh => a <= SyncInterval
    BY <1>3, <1>8, <2>1, <2>3 DEF FreshEnough
  <2>6. Forgot \in Nat /\ Forgot > SyncInterval
    BY OutageConstants DEF Forgot
  <2>7. o > SyncInterval => ~fresh
    BY <1>9, <2>1, <2>3, <2>4, <2>5, <2>6, OutageConstants
  <2>8. SyncStatus = "failure"
    BY <2>1 DEF SyncStatus, Providers
  <2> QED
    BY <1>4, <2>2, <2>7, <2>8
<1>12. OutageTyped'
  <2>1. knows' \in [Processes -> [succeeded : BOOLEAN, age : Nat]]
    BY <1>1, <1>5, KnowsKept DEF OutageTyped
  <2> QED
    BY <1>1, <1>5, <1>6, <1>7, <2>1 DEF OutageTyped
<1>13. SentIsPaged'
  BY <1>2, <1>5, <1>6, <1>7 DEF OutageInv, SentIsPaged
<1>14. OutageLasts'
  BY <1>5, <1>8, <1>11 DEF OutageInv, OutageLasts
<1>15. "sync" \notin dueNow' /\ ("scan" \in dueNow' <=> "scan" \in dueNow)
  BY <1>5
<1>16. h.failures = FailureStreak \/ h.failures >= o - SyncInterval - 1
  BY <1>2, <1>5, <1>8 DEF OutageInv, StreakGrows, Failing
<1>17. StreakGrows'
  <2>1. g.failures = FailureStreak \/ g.failures >= o - SyncInterval - 0
    <3>1. CASE o > SyncInterval
      <4>1. l = "failure"
        BY <1>9, <1>11, <3>1, OutageConstants
      <4> QED
        <5>1. CASE g.failures = h.failures + 1 /\ h.failures # FailureStreak
          BY <1>9, <1>10, <1>16, <5>1, OutageConstants
        <5>2. CASE g.failures = h.failures + 1 /\ h.failures = FailureStreak
          <6>1. g.failures \in 0..FailureStreak
            BY <1>7 DEF Health!Rows
          <6> QED
            BY <5>2, <6>1, OutageConstants
        <5> QED
          BY <1>7, <4>1, <5>1, <5>2
    <3>2. CASE ~(o > SyncInterval)
      BY <1>9, <1>10, <3>2, OutageConstants
    <3> QED
      BY <3>1, <3>2
  <2> QED
    BY <1>5, <1>6, <1>8, <1>15, <2>1 DEF StreakGrows, Failing
<1>18. ScanComes'
  <2> SUFFICES ASSUME o > SyncInterval + FailureStreak, g.alert = "failure_pending"
               PROVE  o - (SyncInterval + FailureStreak) <= Waited'
    BY <1>5, <1>6, <1>8 DEF ScanComes
  <2>1. Waited' = Waited
    BY <1>5, <1>15 DEF Waited
  <2>2. l = "failure"
    BY <1>9, <1>11, OutageConstants
  <2>3. h.failures = FailureStreak
    <3>1. h.failures \in 0..FailureStreak
      BY DEF Health!Rows
    <3> QED
      BY <1>9, <1>16, <3>1, OutageConstants
  <2>4. h.alert = "failure_pending"
    BY <1>7, <2>2, <2>3
  <2> QED
    BY <1>2, <1>8, <2>1, <2>4 DEF OutageInv, ScanComes
<1>19. AppendScanned'
  <2>1. Waited' = Waited
    BY <1>5, <1>15 DEF Waited
  <2> QED
    BY <1>5, <2>1 DEF OutageInv, AppendScanned
<1> QED
  BY <1>12, <1>13, <1>14, <1>17, <1>18, <1>19 DEF OutageInv

LEMMA AppendRunsKeeps == ASSUME OutageInv, NEW p \in Processes, AppendRuns(p) PROVE OutageInv'
PROOF
<1>1. OutageTyped
  BY DEF OutageInv
<1>2. /\ knows' = KnowsAfter(p) /\ appended' = (appended \/ AppendStatus # "failure")
      /\ dueNow' = dueNow \ {"append"}
      /\ UNCHANGED <<answering, syncHealth, notified, beat, opsMishaps, paged, outage>>
  BY DEF AppendRuns
<1>3. ("scan" \in dueNow' <=> "scan" \in dueNow) /\ ("sync" \in dueNow' <=> "sync" \in dueNow)
  BY <1>2
<1>4. Waited' = Waited /\ Failing' = Failing
  BY <1>2, <1>3 DEF Waited, Failing
<1>5. OutageTyped'
  BY <1>1, <1>2, KnowsKept DEF OutageTyped
<1>6. OutageLasts'
  <2> SUFFICES ASSUME outage > 0
               PROVE  /\ answering = {} /\ beat <= CloseAt
                      /\ \A x \in Processes :
                           knows'[x].succeeded /\ (knows'[x].age >= outage \/ knows'[x].age >= Forgot)
    BY <1>2 DEF OutageLasts
  <2>1. knows' = knows
    BY <1>1, <1>2, KnowsKept DEF OutageInv, OutageLasts
  <2> QED
    BY <2>1 DEF OutageInv, OutageLasts
<1>7. SentIsPaged' /\ StreakGrows' /\ ScanComes'
  BY <1>2, <1>4 DEF OutageInv, SentIsPaged, StreakGrows, ScanComes
<1>8. AppendScanned'
  <2>1. appended => appended'
    BY <1>2
  <2> QED
    BY <1>2, <1>4, <2>1 DEF OutageInv, AppendScanned
<1> QED
  BY <1>5, <1>6, <1>7, <1>8 DEF OutageInv

\* A scan that is due leaves no news and nothing that fires unnoticed.
LEMMA ScanKeeps == ASSUME OutageInv, Scan PROVE OutageInv'
PROOF
<1>1. OutageTyped
  BY DEF OutageInv
<1>2. /\ "scan" \in dueNow /\ dueNow' = dueNow \ {"scan"}
      /\ UNCHANGED <<answering, knows, appended, beat>>
  BY DEF Scan
<1>3. "scan" \notin dueNow' /\ ("sync" \in dueNow' <=> "sync" \in dueNow)
  BY <1>2
<1>4. PICK w : w = beat % ScanEvery
  OBVIOUS
<1>5. w \in Nat /\ Waited' = w
  BY <1>1, <1>2, <1>3, <1>4, OutageConstants DEF OutageTyped, Waited
<1>6. PICK h \in Health!Rows : h = syncHealth /\ HealthSound(h)
  BY <1>1 DEF OutageTyped
<1>7. /\ h = [health |-> h.health, failures |-> h.failures, alert |-> h.alert]
      /\ h.health \in {"healthy", "unhealthy"} /\ h.failures \in 0..FailureStreak
      /\ h.alert \in {"none", "failure_pending", "failure_sent", "recovery_pending"}
  BY DEF Health!Rows, Health!AlertStates
<1>8. ~appended /\ beat >= SettledBy => "missing append" \in Firing
  BY DEF Firing
<1>9. "missing append" \in AlertKeys /\ notified \in [AlertKeys -> Nat]
  BY <1>1 DEF AlertKeys, OutageTyped
<1>10. outage \in Nat /\ beat \in Nat /\ opsMishaps \in Nat
  BY <1>1 DEF OutageTyped
<1>11. CASE NewlyFiring = {} /\ ~HealthNews
            /\ UNCHANGED <<notified, syncHealth, paged, opsMishaps, outage>>
  <2>1. OutageTyped' /\ SentIsPaged' /\ OutageLasts' /\ StreakGrows'
    <3>1. Failing' = Failing
      BY <1>3, <1>11 DEF Failing
    <3>2. OutageTyped'
      BY <1>1, <1>2, <1>11 DEF OutageTyped
    <3> QED
      BY <1>2, <1>11, <3>1, <3>2 DEF OutageInv, SentIsPaged, OutageLasts, StreakGrows
  <2>2. ScanComes'
    BY <1>11 DEF ScanComes, HealthNews, Health!Pending
  <2>3. AppendScanned'
    <3> SUFFICES ASSUME ~appended, beat >= SettledBy
                 PROVE  notified["missing append"] < AlertCooldown + w
      BY <1>2, <1>5, <1>11 DEF AppendScanned
    <3>1. PICK n \in Nat : n = notified["missing append"]
      BY <1>9
    <3>2. ~(n >= AlertCooldown)
      BY <1>8, <1>11, <3>1 DEF NewlyFiring
    <3>3. n < AlertCooldown + w
      BY <1>5, <3>2, OutageConstants
    <3> QED
      BY <3>1, <3>3
  <2> QED
    BY <2>1, <2>2, <2>3 DEF OutageInv
<1>12. CASE /\ opsMishaps' = opsMishaps + 1 /\ outage' = 0
            /\ UNCHANGED <<notified, syncHealth, paged>>
  <2>1. OutageTyped' /\ SentIsPaged' /\ OutageLasts' /\ ScanComes'
    BY <1>1, <1>2, <1>10, <1>12, OutageConstants
       DEF OutageInv, OutageTyped, SentIsPaged, OutageLasts, ScanComes
  <2>2. StreakGrows'
    <3>1. h.failures >= 0 - SyncInterval - IF "sync" \in dueNow' THEN 1 ELSE 0
      BY <1>7, OutageConstants
    <3> QED
      BY <1>6, <1>12, <3>1 DEF StreakGrows, Failing
  <2>3. opsMishaps' # 0
    BY <1>10, <1>12
  <2>4. AppendScanned'
    BY <2>3 DEF AppendScanned
  <2> QED
    BY <2>1, <2>2, <2>4 DEF OutageInv
<1>13. CASE /\ notified' = [k \in AlertKeys |-> IF k \in NewlyFiring THEN 0 ELSE notified[k]]
            /\ syncHealth' = IF HealthNews
                               THEN [syncHealth EXCEPT !.alert = Health!AlertAfterSend(syncHealth)]
                               ELSE syncHealth
            /\ paged' = IF ~HealthNews THEN paged
                       ELSE IF syncHealth.alert = "failure_pending" THEN "unhealthy"
                       ELSE "recovered"
            /\ UNCHANGED <<opsMishaps, outage>>
  <2>1. PICK g : g = syncHealth'
    OBVIOUS
  <2>2. PICK a : a = Health!AlertAfterSend(h)
    OBVIOUS
  <2>3. a = IF h.health = "unhealthy" THEN "failure_sent" ELSE "none"
    BY <2>2 DEF Health!AlertAfterSend
  <2>6. /\ g \in Health!Rows /\ HealthSound(g) /\ g.failures = h.failures
        /\ g.alert # "failure_pending" /\ SentIsPaged'
    <3>1. CASE HealthNews
      <4>1. g = [h EXCEPT !.alert = a]
        BY <1>6, <1>13, <2>1, <2>2, <3>1
      <4>2. g = [health |-> h.health, failures |-> h.failures, alert |-> a]
        BY <1>7, <4>1
      <4>3. g.health = h.health /\ g.failures = h.failures /\ g.alert = a
        BY <4>2
      <4>4. g \in Health!Rows /\ HealthSound(g)
        BY <1>6, <1>7, <2>3, <4>2, <4>3 DEF Health!Rows, Health!AlertStates, HealthSound
      <4>5. g.alert = "failure_sent" => h.alert = "failure_pending"
        BY <1>6, <2>3, <3>1, <4>3 DEF HealthNews, HealthSound, Health!Pending
      <4>6. SentIsPaged'
        BY <1>6, <1>13, <2>1, <3>1, <4>5 DEF SentIsPaged
      <4> QED
        BY <2>3, <4>3, <4>4, <4>6
    <3>2. CASE ~HealthNews
      <4>1. syncHealth' = syncHealth /\ paged' = paged
        BY <1>13, <3>2
      <4>2. h.alert # "failure_pending"
        BY <1>6, <3>2 DEF HealthNews, Health!Pending
      <4>3. SentIsPaged'
        BY <4>1 DEF OutageInv, SentIsPaged
      <4> QED
        BY <1>6, <2>1, <4>1, <4>2, <4>3
    <3> QED
      BY <3>1, <3>2
  <2>7. OutageTyped'
    <3>1. notified' \in [AlertKeys -> Nat]
      BY <1>9, <1>13
    <3> QED
      BY <1>1, <1>2, <1>13, <2>1, <2>6, <3>1 DEF OutageTyped
  <2>8. OutageLasts'
    BY <1>2, <1>13 DEF OutageInv, OutageLasts
  <2>9. StreakGrows'
    <3>1. Failing' = Failing
      BY <1>3, <1>13 DEF Failing
    <3> QED
      BY <1>6, <2>1, <2>6, <3>1 DEF OutageInv, StreakGrows
  <2>10. ScanComes'
    BY <2>1, <2>6 DEF ScanComes
  <2>11. AppendScanned'
    <3> SUFFICES ASSUME ~appended, beat >= SettledBy
                 PROVE  notified'["missing append"] < AlertCooldown + w
      BY <1>2, <1>5 DEF AppendScanned
    <3>1. PICK n \in Nat : n = notified["missing append"]
      BY <1>9
    <3>2. n >= AlertCooldown => "missing append" \in NewlyFiring
      BY <1>8, <3>1 DEF NewlyFiring
    <3>3. PICK m : m = IF "missing append" \in NewlyFiring THEN 0 ELSE n
      OBVIOUS
    <3>4. notified'["missing append"] = m
      BY <1>9, <1>13, <3>1, <3>3
    <3>5. m = 0 \/ (m = n /\ ~(n >= AlertCooldown))
      BY <3>2, <3>3
    <3>6. m < AlertCooldown + w
      BY <1>5, <3>5, OutageConstants
    <3> QED
      BY <3>4, <3>6
  <2> QED
    BY <2>6, <2>7, <2>8, <2>9, <2>10, <2>11 DEF OutageInv
<1> QED
  BY <1>11, <1>12, <1>13 DEF Scan

\* What n beats do to the rest.
LEMMA BeatAfterIs ==
    ASSUME OutageInv, NEW n \in Nat \ {0}, BeatAfter(n)
    PROVE  /\ beat' = beat + n /\ "sync" \in dueNow'
           /\ knows' \in [Processes -> [succeeded : BOOLEAN, age : Nat]]
           /\ \A p \in Processes : /\ knows'[p].succeeded = knows[p].succeeded
                                   /\ knows'[p].age >= Forgot \/ knows'[p].age = knows[p].age + n
           /\ notified' \in [AlertKeys -> Nat]
           /\ notified'["missing append"] <= notified["missing append"] + n
           /\ UNCHANGED <<answering, syncHealth, appended, paged>>
PROOF
<1>1. /\ beat' = beat + n /\ dueNow' = DueAt(beat + n)
      /\ knows' = [p \in Processes |-> [knows[p] EXCEPT !.age = UpTo(@ + n, Forgot)]]
      /\ notified' = [k \in AlertKeys |-> UpTo(notified[k] + n, LongAgo)]
      /\ UNCHANGED <<answering, syncHealth, appended, paged>>
  BY DEF BeatAfter
<1>2. Forgot \in Nat /\ LongAgo \in Nat
  BY OutageConstants DEF Forgot, LongAgo
<1>3. knows \in [Processes -> [succeeded : BOOLEAN, age : Nat]] /\ notified \in [AlertKeys -> Nat]
  BY DEF OutageInv, OutageTyped
<1>4. \A m \in Nat, most \in Nat :
         UpTo(m, most) \in Nat /\ UpTo(m, most) <= m /\ (UpTo(m, most) >= most \/ UpTo(m, most) = m)
  BY DEF UpTo
<1>5. ASSUME NEW p \in Processes
      PROVE  /\ knows'[p] \in [succeeded : BOOLEAN, age : Nat]
             /\ knows'[p].succeeded = knows[p].succeeded
             /\ knows'[p].age >= Forgot \/ knows'[p].age = knows[p].age + n
  <2>1. PICK r \in [succeeded : BOOLEAN, age : Nat] : r = knows[p]
    BY <1>3
  <2>2. r = [succeeded |-> r.succeeded, age |-> r.age] /\ r.succeeded \in BOOLEAN /\ r.age \in Nat
    OBVIOUS
  <2>3. PICK a : a = UpTo(r.age + n, Forgot)
    OBVIOUS
  <2>4. a \in Nat /\ (a >= Forgot \/ a = r.age + n)
    <3>1. r.age + n \in Nat
      BY <2>2
    <3> QED
      BY <1>2, <1>4, <2>3, <3>1
  <2>5. PICK x : x = knows'[p]
    OBVIOUS
  <2>6. x = [r EXCEPT !.age = a]
    BY <1>1, <2>1, <2>3, <2>5
  <2>7. x = [succeeded |-> r.succeeded, age |-> a]
    BY <2>2, <2>6
  <2>8. x \in [succeeded : BOOLEAN, age : Nat] /\ x.succeeded = r.succeeded /\ x.age = a
    BY <2>2, <2>4, <2>7
  <2> QED
    BY <2>1, <2>4, <2>5, <2>8
<1>6. knows' \in [Processes -> [succeeded : BOOLEAN, age : Nat]]
  BY <1>1, <1>5
<1>7. ASSUME NEW k \in AlertKeys PROVE notified'[k] \in Nat /\ notified'[k] <= notified[k] + n
  <2>1. PICK m \in Nat : m = notified[k]
    BY <1>3
  <2>2. m + n \in Nat
    OBVIOUS
  <2>3. notified'[k] = UpTo(m + n, LongAgo)
    BY <1>1, <2>1
  <2> QED
    BY <1>2, <1>4, <2>1, <2>2, <2>3
<1>8. notified' \in [AlertKeys -> Nat]
  BY <1>1, <1>7
<1>9. "missing append" \in AlertKeys
  BY DEF AlertKeys
<1> QED
  BY <1>1, <1>5, <1>6, <1>7, <1>8, <1>9, DueIs

LEMMA BeatKeeps == ASSUME OutageInv, Beat PROVE OutageInv'
PROOF
<1>1. OutageTyped /\ dueNow = {} /\ BeatAfter(1) /\ opsMishaps' = opsMishaps
      /\ outage' = IF answering = {} /\ beat < CloseAt /\ \A p \in Processes : knows[p].succeeded
                     THEN outage + 1 ELSE 0
  BY DEF OutageInv, Beat
<1>2. /\ beat' = beat + 1 /\ "sync" \in dueNow'
      /\ knows' \in [Processes -> [succeeded : BOOLEAN, age : Nat]]
      /\ \A p \in Processes : /\ knows'[p].succeeded = knows[p].succeeded
                              /\ knows'[p].age >= Forgot \/ knows'[p].age = knows[p].age + 1
      /\ notified' \in [AlertKeys -> Nat]
      /\ notified'["missing append"] <= notified["missing append"] + 1
      /\ UNCHANGED <<answering, syncHealth, appended, paged>>
  <2>1. PICK n \in Nat \ {0} : n = 1
    OBVIOUS
  <2>2. BeatAfter(n)
    BY <1>1, <2>1
  <2> QED
    BY <2>1, <2>2, BeatAfterIs
<1>3. PICK b \in Nat, o \in Nat : b = beat /\ o = outage
  BY <1>1 DEF OutageTyped
<1>4. PICK v, w : v = Waited /\ w = Waited'
  OBVIOUS
<1>5. v \in Nat /\ w = v + 1
  <2>1. PICK r, s : r = b % ScanEvery /\ s = (b + 1) % ScanEvery
    OBVIOUS
  <2>2. r \in 0..(ScanEvery - 1) /\ s \in 0..(ScanEvery - 1)
    BY <2>1, OutageConstants, NextRemainder
  <2>3. (s # 0 => s = r + 1) /\ (s = 0 => r = ScanEvery - 1)
    BY <2>1, OutageConstants, NextRemainder
  <2>4. v = r
    BY <1>1, <1>3, <1>4, <2>1 DEF Waited
  <2>5. beat' = b + 1 /\ dueNow' = DueAt(b + 1)
    BY <1>1, <1>3 DEF BeatAfter
  <2>6. w = IF s = 0 THEN ScanEvery ELSE s
    BY <1>4, <2>1, <2>5, DueIs DEF Waited
  <2> QED
    BY <2>2, <2>3, <2>4, <2>6, OutageConstants
<1>6. outage' \in Nat /\ outage' \in {0, o + 1}
  BY <1>1, <1>3
<1>7. OutageTyped'
  <2>1. beat' = b + 1
    BY <1>2, <1>3, Zenon
  <2>2. b + 1 \in Nat /\ outage' \in Nat /\ opsMishaps' \in Nat
    BY <1>1, <1>6 DEF OutageTyped
  <2>3. beat' \in Nat
    BY <2>1, <2>2, Zenon
  <2> QED
    BY <1>1, <1>2, <2>2, <2>3 DEF OutageTyped
<1>8. SentIsPaged'
  BY <1>2 DEF OutageInv, SentIsPaged
<1>9. OutageLasts'
  <2> SUFFICES ASSUME outage' > 0
               PROVE  /\ answering = {} /\ b + 1 <= CloseAt
                      /\ \A p \in Processes :
                           knows'[p].succeeded /\ (knows'[p].age >= outage' \/ knows'[p].age >= Forgot)
    BY <1>2, <1>3 DEF OutageLasts
  <2>1. answering = {} /\ b < CloseAt /\ (\A p \in Processes : knows[p].succeeded) /\ outage' = o + 1
    BY <1>1, <1>3
  <2>2. b + 1 <= CloseAt
    BY <2>1, OutageConstants
  <2>3. ASSUME NEW p \in Processes
        PROVE  knows'[p].succeeded /\ (knows'[p].age >= o + 1 \/ knows'[p].age >= Forgot)
    <3>1. PICK a \in Nat : a = knows[p].age
      BY <1>1 DEF OutageTyped
    <3>2. PICK c \in Nat : c = knows'[p].age
      BY <1>2
    <3>3. PICK f \in Nat : f = Forgot
      BY OutageConstants DEF Forgot
    <3>4. a >= o \/ a >= f
      <4>1. CASE o = 0
        BY <4>1
      <4>2. CASE o # 0
        <5>1. outage > 0
          BY <1>3, <4>2
        <5> QED
          BY <1>3, <3>1, <3>3, <5>1 DEF OutageInv, OutageLasts
      <4> QED
        BY <4>1, <4>2
    <3>5. c >= f \/ c = a + 1
      BY <1>2, <3>1, <3>2, <3>3
    <3>6. c >= o + 1 \/ c >= f
      BY <3>4, <3>5
    <3> QED
      BY <1>2, <2>1, <3>2, <3>3, <3>6
  <2> QED
    BY <2>1, <2>2, <2>3
<1>10. PICK h \in Health!Rows : h = syncHealth
  BY <1>1 DEF OutageTyped
<1>11. h.failures \in Nat
  BY OutageConstants DEF Health!Rows
<1>12. h.failures = FailureStreak \/ h.failures >= o - SyncInterval - 0
  BY <1>1, <1>3, <1>10 DEF OutageInv, StreakGrows, Failing
<1>13. StreakGrows'
  <2>1. PICK u : u = outage'
    OBVIOUS
  <2>2. h.failures = FailureStreak \/ h.failures >= u - SyncInterval - 1
    BY <1>3, <1>6, <1>11, <1>12, <2>1, OutageConstants
  <2> QED
    BY <1>2, <1>10, <2>1, <2>2 DEF StreakGrows, Failing
<1>14. ScanComes'
  <2> SUFFICES ASSUME outage' > SyncInterval + FailureStreak, h.alert = "failure_pending"
               PROVE  outage' - (SyncInterval + FailureStreak) <= w
    BY <1>2, <1>4, <1>10 DEF ScanComes
  <2>1. outage' = o + 1
    BY <1>6, OutageConstants
  <2>2. o > SyncInterval + FailureStreak => o - (SyncInterval + FailureStreak) <= v
    BY <1>3, <1>4, <1>10 DEF OutageInv, ScanComes
  <2> QED
    BY <1>5, <2>1, <2>2, OutageConstants
<1>15. AppendScanned'
  <2> SUFFICES ASSUME opsMishaps = 0, ~appended, b + 1 >= SettledBy
               PROVE  \/ (b + 1) - SettledBy < w
                      \/ notified'["missing append"] < AlertCooldown + w
    BY <1>1, <1>2, <1>3, <1>4 DEF AppendScanned
  <2>1. PICK m \in Nat, n \in Nat : m = notified["missing append"] /\ n = notified'["missing append"]
    BY <1>1, <1>2 DEF OutageTyped, AlertKeys
  <2>2. b >= SettledBy => b - SettledBy < v \/ m < AlertCooldown + v
    BY <1>3, <1>4, <2>1 DEF OutageInv, AppendScanned
  <2>3. n <= m + 1
    BY <1>2, <2>1
  <2>4. (b + 1) - SettledBy < w \/ n < AlertCooldown + w
    BY <1>5, <2>2, <2>3, OutageConstants
  <2> QED
    BY <2>1, <2>4
<1> QED
  BY <1>7, <1>8, <1>9, <1>13, <1>14, <1>15 DEF OutageInv

LEMMA BeatStopsKeeps == ASSUME OutageInv, BeatStops PROVE OutageInv'
PROOF
<1>1. PICK n : n = ScanEvery * (1 + AbsentAfter \div ScanEvery)
  OBVIOUS
<1>2. n \in Nat \ {0}
  <2>1. PICK q : q = AbsentAfter \div ScanEvery
    OBVIOUS
  <2>2. q \in Nat
    BY <2>1, OutageConstants
  <2>3. ScanEvery * (1 + q) \in Nat \ {0}
    BY <2>2, OutageConstants
  <2> QED
    BY <1>1, <2>1, <2>3
<1>3. OutageTyped /\ BeatAfter(n) /\ opsMishaps' = opsMishaps + 1 /\ outage' = 0
  BY <1>1 DEF OutageInv, BeatStops
<1>4. /\ beat' = beat + n /\ knows' \in [Processes -> [succeeded : BOOLEAN, age : Nat]]
      /\ notified' \in [AlertKeys -> Nat] /\ UNCHANGED <<answering, syncHealth, appended, paged>>
  BY <1>2, <1>3, BeatAfterIs
<1>5. beat' \in Nat /\ opsMishaps' \in Nat \ {0}
  BY <1>2, <1>3, <1>4 DEF OutageTyped
<1>6. PICK h \in Health!Rows : h = syncHealth
  BY <1>3 DEF OutageTyped
<1>7. h.failures >= 0 - SyncInterval - IF "sync" \in dueNow' THEN 1 ELSE 0
  BY OutageConstants DEF Health!Rows
<1>8. OutageTyped'
  BY <1>3, <1>4, <1>5 DEF OutageTyped
<1>9. StreakGrows'
  BY <1>3, <1>4, <1>6, <1>7 DEF StreakGrows, Failing
<1>10. SentIsPaged'
  BY <1>4 DEF OutageInv, SentIsPaged
<1>11. OutageLasts' /\ ScanComes'
  BY <1>3, OutageConstants DEF OutageLasts, ScanComes
<1>12. AppendScanned'
  BY <1>5 DEF AppendScanned
<1> QED
  BY <1>8, <1>9, <1>10, <1>11, <1>12 DEF OutageInv

\* What ends an outage, or is a mishap, leaves nothing to keep but the types.
LEMMA OtherwiseKept ==
    ASSUME OutageInv, outage' = 0, opsMishaps' \in {opsMishaps, opsMishaps + 1},
           answering' \subseteq Providers, knows' \in [Processes -> [succeeded : BOOLEAN, age : Nat]],
           UNCHANGED <<syncHealth, appended, notified, beat, dueNow, paged>>
    PROVE  OutageInv'
PROOF
<1>1. OutageTyped
  BY DEF OutageInv
<1>2. PICK h \in Health!Rows : h = syncHealth
  BY <1>1 DEF OutageTyped
<1>3. h.failures >= 0 - SyncInterval - IF "sync" \in dueNow THEN 1 ELSE 0
  BY OutageConstants DEF Health!Rows
<1>4. OutageTyped'
  BY <1>1 DEF OutageTyped
<1>5. StreakGrows'
  BY <1>2, <1>3 DEF StreakGrows, Failing
<1>6. SentIsPaged' /\ OutageLasts' /\ ScanComes'
  BY OutageConstants DEF OutageInv, SentIsPaged, OutageLasts, ScanComes
<1>7. AppendScanned'
  <2>1. opsMishaps' = 0 => opsMishaps = 0
    BY <1>1 DEF OutageTyped
  <2>2. Waited' = Waited
    BY DEF Waited
  <2> QED
    BY <2>1, <2>2 DEF OutageInv, AppendScanned
<1> QED
  BY <1>4, <1>5, <1>6, <1>7 DEF OutageInv

LEMMA OutageStep == OutageInv /\ [OutageNext]_outageVars => OutageInv'
PROOF
<1> SUFFICES ASSUME OutageInv, [OutageNext]_outageVars PROVE OutageInv'
  OBVIOUS
<1>1. ASSUME NEW p \in Processes, SyncRuns(p) PROVE OutageInv'
  BY <1>1, SyncRunsKeeps
<1>2. ASSUME NEW p \in Processes, AppendRuns(p) PROVE OutageInv'
  BY <1>2, AppendRunsKeeps
<1>3. ASSUME NEW p \in Processes, Recycled(p) PROVE OutageInv'
  <2>1. PICK n : n = NothingKnown
    OBVIOUS
  <2>2. n \in [succeeded : BOOLEAN, age : Nat]
    BY <2>1, OutageConstants DEF NothingKnown, Forgot
  <2>3. knows' = [knows EXCEPT ![p] = n] /\ knows \in [Processes -> [succeeded : BOOLEAN, age : Nat]]
    BY <1>3, <2>1 DEF Recycled, OutageInv, OutageTyped
  <2>4. knows' \in [Processes -> [succeeded : BOOLEAN, age : Nat]]
    BY <2>2, <2>3
  <2> QED
    BY <1>3, <2>4, OtherwiseKept DEF Recycled, OutageInv, OutageTyped
<1>4. ASSUME NEW x \in Providers, ProviderChanges(x) PROVE OutageInv'
  BY <1>4, OtherwiseKept DEF ProviderChanges, OutageInv, OutageTyped
<1>5. CASE Scan \/ Beat \/ BeatStops
  BY <1>5, ScanKeeps, BeatKeeps, BeatStopsKeeps
<1>6. CASE UNCHANGED outageVars
  <2>1. UNCHANGED <<answering, knows, syncHealth, appended, notified, beat, dueNow, opsMishaps,
                    paged, outage>>
    BY <1>6 DEF outageVars
  <2>2. Waited' = Waited /\ Failing' = Failing
    BY <2>1 DEF Waited, Failing
  <2> QED
    BY <2>1, <2>2 DEF OutageInv, OutageTyped, SentIsPaged, OutageLasts, StreakGrows, ScanComes,
                      AppendScanned
<1> QED
  BY <1>1, <1>2, <1>3, <1>4, <1>5, <1>6 DEF OutageNext

\* Whatever the intervals, the limits and the number of processes: an outage
\* that lasts is paged by the first scan after it made the task unhealthy, and a
\* day without a successful append by the first scan after its hour and again
\* after each cooldown (task_status.py, ops_alerts.py).
THEOREM OutageTold == OutageSpec => []OutagePaged
PROOF
<1>1. OutageInv => OutagePaged
  <2> SUFFICES ASSUME OutageInv PROVE StreakPaged /\ MissingAppendTold
    BY DEF OutagePaged
  <2>0. PICK b \in Nat, o \in Nat : b = beat /\ o = outage
    BY DEF OutageInv, OutageTyped
  <2>1. PICK w : b = beat /\ o = outage /\ w = Waited
    BY <2>0
  <2>2. w \in Nat /\ w <= ScanEvery
    <3>1. PICK r : r = b % ScanEvery
      OBVIOUS
    <3>2. r \in 0..(ScanEvery - 1)
      BY <3>1, OutageConstants
    <3>3. w = IF "scan" \in dueNow THEN ScanEvery ELSE r
      BY <2>1, <3>1 DEF Waited
    <3> QED
      BY <3>2, <3>3, OutageConstants
  <2>3. PICK h \in Health!Rows : h = syncHealth /\ HealthSound(h)
    BY DEF OutageInv, OutageTyped
  <2>4. StreakPaged
    <3> SUFFICES ASSUME o > SyncInterval + FailureStreak + ScanEvery PROVE paged = "unhealthy"
      BY <2>1 DEF StreakPaged
    <3>1. h.failures = FailureStreak
      <4>1. h.failures \in 0..FailureStreak
        BY DEF Health!Rows
      <4>2. h.failures = FailureStreak
            \/ h.failures >= o - SyncInterval - IF "sync" \in dueNow THEN 1 ELSE 0
        BY <2>1, <2>3 DEF OutageInv, StreakGrows, Failing
      <4>3. h.failures = FailureStreak \/ h.failures >= o - SyncInterval - 1
        BY <4>1, <4>2, OutageConstants
      <4> QED
        BY <4>1, <4>3, OutageConstants
    <3>2. h.alert # "failure_pending"
      <4>1. o > SyncInterval + FailureStreak /\ ~(o - (SyncInterval + FailureStreak) <= w)
        BY <2>2, OutageConstants
      <4> QED
        BY <2>1, <2>3, <4>1 DEF OutageInv, ScanComes
    <3>3. h.alert = "failure_sent"
      BY <2>3, <3>1, <3>2 DEF HealthSound
    <3> QED
      BY <2>3, <3>3 DEF OutageInv, SentIsPaged
  <2>5. MissingAppendTold
    <3> SUFFICES ASSUME b >= SettledBy + ScanEvery, opsMishaps = 0, ~appended
                 PROVE  notified["missing append"] < AlertCooldown + ScanEvery
      BY <2>1 DEF MissingAppendTold, LongAgo
    <3>1. PICK m \in Nat : m = notified["missing append"]
      BY DEF OutageInv, OutageTyped, AlertKeys
    <3>2. b >= SettledBy => b - SettledBy < w \/ m < AlertCooldown + w
      BY <2>1, <3>1 DEF OutageInv, AppendScanned
    <3>3. m < AlertCooldown + ScanEvery
      BY <2>2, <3>2, OutageConstants
    <3> QED
      BY <3>1, <3>3
  <2> QED
    BY <2>4, <2>5
<1> QED
  BY <1>1, OutageStart, OutageStep, PTL DEF OutageSpec

(***************************************************************************)
(* LiveSync.  A process that remembers a sync within its interval, or the  *)
(* one it is in, accounts for quotes stored no longer ago, so the next one *)
(* comes in time.  Quotes that no snapshot is of and no later stamp tells  *)
(* of were missed before the calm began: nobody remembers a sync in it,    *)
(* and the next one stamps its own.                                        *)
(***************************************************************************)
LiveTyped ==
    /\ calm \in Nat /\ unseen \in Nat
    /\ quoteAge \in Nat \cup {Never} /\ lastRun \in Nat \cup {Never}
    /\ memory \in [Syncers -> [succeeded : BOOLEAN, age : Nat \cup {Never}]]
    /\ syncing \in Syncers \cup {Nobody} /\ late \in BOOLEAN
    /\ step \in {"none", "fetching", "stamped", "cse"} /\ (step = "none" <=> syncing = Nobody)
    /\ late => syncing # Nobody
    /\ analysing \in {"no", "reading", "ending"}
    /\ calm >= 1 => marketOpen /\ "DSE" \in feedUp /\ ~lockTaken

Recent(n) == quoteAge \in 0..n
Storing == step \in {"fetching", "stamped"}
BeforeCalm(n) == n = Never \/ n > MarketInterval \/ n >= calm

\* What a process remembers within the interval it or another has stored, or its
\* sync is about to.
MemoryTrue ==
    \A w \in Syncers :
      memory[w].age \in 0..MarketInterval =>
        \/ syncing = w /\ Storing
        \/ calm >= memory[w].age + 2 => Recent(memory[w].age + 1)

StoredHere ==
    step = "cse" => /\ calm >= 1 /\ ~late => Recent(0)
                    /\ calm >= 2 => Recent(1)

QuotesComing ==
    /\ calm >= MarketInterval + 2 /\ "sync" \notin triggered => Recent(MarketInterval + 1) \/ Storing
    /\ calm >= MarketInterval + 3 /\ ~(Storing /\ late) => Recent(MarketInterval + 2)
    /\ calm >= MarketInterval + 4 => Recent(MarketInterval + 3)

\* Which stamps there are.
StampsKept ==
    /\ step = "stamped" => /\ "last" \in newer => "lastPending" \in newer
                           /\ "run" \in newer => "runPending" \in newer
    /\ "runPending" \in newer => "lastPending" \in newer
    /\ analysing = "no" => newer \cap {"run", "runPending"} = {}
    /\ analysing # "no" => NewData
    /\ step = "stamped" /\ unseen >= 1 =>
         /\ analysing # "ending" => "lastPending" \in newer
         /\ analysing = "ending" => "runPending" \in newer

\* Quotes that no snapshot is of and that no later stamp tells of.
Untold ==
    /\ unseen >= 1
    /\ \/ analysing = "ending" /\ "run" \notin newer
       \/ analysing = "no" /\ ~NewData
Missed == Untold /\ step # "cse"

UntoldStored == Untold => quoteAge # Never
UntoldNew == Untold /\ step = "cse" => /\ calm >= 1 /\ ~late => unseen <= 1
                                       /\ calm >= 2 => unseen <= 2
MissedBefore ==
    Missed => \A w \in Syncers \ {syncing} : BeforeCalm(memory[w].age)
MissedEnds ==
    Missed => /\ calm >= MarketInterval + 1 /\ "sync" \notin triggered => syncing # Nobody
              /\ calm >= MarketInterval + 2 => late
              /\ calm < MarketInterval + 3

SinceRun ==
    /\ analysing = "ending" => unseen <= 1
    /\ unseen >= 1 => lastRun = Never \/ lastRun >= unseen - 1 \/ lastRun >= AnalysisInterval

SnapshotsComing ==
    /\ calm >= MarketInterval + 3 /\ "analysis" \notin triggered /\ analysing # "reading" =>
         unseen <= AnalysisInterval + 1
    /\ calm >= MarketInterval + 4 => unseen <= AnalysisInterval + 2

LiveInv ==
    /\ LiveTyped /\ MemoryTrue /\ StoredHere /\ QuotesComing
    /\ StampsKept /\ UntoldStored /\ UntoldNew /\ MissedBefore /\ MissedEnds
    /\ SinceRun /\ SnapshotsComing

LEMMA LiveConstants ==
    /\ MarketInterval \in Nat \ {0} /\ OffInterval \in Nat \ {0} /\ AnalysisInterval \in Nat \ {0}
    /\ Oldest \in Nat /\ Nobody \notin Syncers
    /\ Stale \in Nat /\ Stale > MarketInterval /\ Stale > AnalysisInterval
PROOF
<1>1. /\ MarketInterval \in Nat \ {0} /\ OffInterval \in Nat \ {0} /\ AnalysisInterval \in Nat \ {0}
      /\ Oldest \in Nat /\ Nobody \notin Syncers
  BY LiveAssumption DEF Nobody
<1> DEFINE S == {MarketInterval, OffInterval, AnalysisInterval}
<1>2. S \subseteq Nat /\ S # {} /\ IsFiniteSet(S)
  <2>1. IsFiniteSet({MarketInterval}) /\ IsFiniteSet({OffInterval}) /\ IsFiniteSet({AnalysisInterval})
    BY FS_Singleton
  <2>2. IsFiniteSet({MarketInterval} \cup {OffInterval})
    BY <2>1, FS_Union
  <2>3. IsFiniteSet(({MarketInterval} \cup {OffInterval}) \cup {AnalysisInterval})
    BY <2>1, <2>2, FS_Union
  <2>4. S = ({MarketInterval} \cup {OffInterval}) \cup {AnalysisInterval}
    OBVIOUS
  <2> QED
    BY <1>1, <2>3, <2>4
<1>3. Max(S) \in S /\ \A y \in S : Max(S) >= y
  <2>1. S \in SUBSET Int
    BY <1>2
  <2> HIDE DEF S
  <2> QED
    BY <1>2, <2>1, Greatest
<1>4. PICK m : m = Max(S)
  OBVIOUS
<1>5. m \in Nat /\ m >= MarketInterval /\ m >= AnalysisInterval
  BY <1>1, <1>3, <1>4
<1>6. Stale = m + 1
  BY <1>4 DEF Stale
<1> QED
  BY <1>1, <1>5, <1>6

\* m is what OneMore makes of n.
IsMore(m, n, most) ==
    /\ m \in Nat \cup {Never} /\ (m = Never <=> n = Never)
    /\ n # Never => m = n + 1 \/ (m = n /\ n = most)

LEMMA MoreIs ==
    ASSUME NEW n \in Nat \cup {Never}, NEW most \in Nat
    PROVE  IsMore(OneMore(n, most), n, most)
BY DEF IsMore, OneMore, Never

LEMMA LiveStarts == LiveInit => LiveInv
PROOF
<1> SUFFICES ASSUME LiveInit PROVE LiveInv
  OBVIOUS
<1>1. LiveTyped
  BY LiveConstants DEF LiveInit, LiveTyped, Blank, Never, Nobody
<1>2. MemoryTrue
  BY LiveConstants DEF LiveInit, MemoryTrue, Blank, Never
<1>3. StoredHere /\ StampsKept /\ UntoldStored /\ UntoldNew /\ MissedBefore /\ MissedEnds
  BY DEF LiveInit, StoredHere, StampsKept, UntoldStored, UntoldNew, MissedBefore, MissedEnds,
         Missed, Untold
<1>4. QuotesComing /\ SinceRun /\ SnapshotsComing
  BY LiveConstants DEF LiveInit, QuotesComing, SinceRun, SnapshotsComing
<1> QED
  BY <1>1, <1>2, <1>3, <1>4 DEF LiveInv

LEMMA BeginSyncKeeps == ASSUME LiveInv, NEW w \in Syncers, BeginSync(w) PROVE LiveInv'
PROOF
<1>1. /\ marketOpen' = marketOpen /\ feedUp' = feedUp
      /\ lockTaken' = lockTaken /\ calm' = calm /\ analysing' = analysing
      /\ lastRun' = lastRun /\ newer' = newer /\ unseen' = unseen
      /\ late' = late /\ stored' = stored /\ quoteAge' = quoteAge
      /\ "sync" \in triggered /\ triggered' = triggered \ {"sync"} /\ syncing # w
  BY DEF BeginSync, Skip, syncVars, runVars
<1>2. \/ /\ Remembered(w) \/ lockTaken \/ syncing # Nobody
         /\ syncing' = syncing /\ step' = step /\ memory' = memory
      \/ /\ syncing = Nobody /\ syncing' = w /\ step' = "fetching"
         /\ memory' = [memory EXCEPT ![w].age = IF memory[w].succeeded THEN @ ELSE 0]
  BY DEF BeginSync, Skip, syncVars
<1>3. "analysis" \in triggered' <=> "analysis" \in triggered
  BY <1>1
<1>4. "sync" \notin triggered'
  BY <1>1
<1>5. /\ MarketInterval \in Nat \ {0} /\ AnalysisInterval \in Nat \ {0} /\ calm \in Nat
      /\ Nobody \notin Syncers
  BY LiveConstants DEF LiveInv, LiveTyped
<1>6. CASE (Remembered(w) \/ lockTaken \/ syncing # Nobody) /\ syncing' = syncing
                                                            /\ step' = step
                                                            /\ memory' = memory
  <2>1. LiveTyped' /\ MemoryTrue' /\ StoredHere' /\ StampsKept' /\ UntoldStored' /\ UntoldNew'
        /\ MissedBefore' /\ SinceRun' /\ SnapshotsComing'
    BY <1>1, <1>3, <1>6 DEF LiveInv, LiveTyped, MemoryTrue, StoredHere, StampsKept, UntoldStored,
         UntoldNew, MissedBefore, SinceRun, SnapshotsComing, Missed, Untold, NewData, Recent, Storing,
         BeforeCalm
  <2>2. calm >= 1 => ~lockTaken /\ Interval = MarketInterval
    BY DEF LiveInv, LiveTyped, Interval
  <2>3. calm >= MarketInterval + 2 => Recent(MarketInterval + 1) \/ Storing
    <3> SUFFICES ASSUME calm >= MarketInterval + 2 PROVE Recent(MarketInterval + 1) \/ Storing
      OBVIOUS
    <3>1. CASE syncing # Nobody
      <4>1. step \in {"fetching", "stamped", "cse"} /\ calm >= 2 /\ MarketInterval + 1 \in Nat \ {0}
        BY <1>5, <3>1 DEF LiveInv, LiveTyped
      <4>2. step = "cse" => Recent(1)
        <5>1. calm >= 2
          BY <4>1
        <5> QED
          BY <5>1 DEF LiveInv, StoredHere
      <4> QED
        BY <4>1, <4>2 DEF Recent, Storing
    <3>2. CASE Remembered(w)
      <4>1. PICK a : a = memory[w].age
        OBVIOUS
      <4>2. a \in 0..MarketInterval
        BY <1>5, <2>2, <3>2, <4>1 DEF Remembered, LiveInv, LiveTyped, Never
      <4>3. Recent(a + 1)
        BY <1>1, <1>5, <4>1, <4>2 DEF LiveInv, MemoryTrue
      <4> QED
        BY <1>5, <4>2, <4>3 DEF Recent
    <3> QED
      BY <1>5, <1>6, <2>2, <3>1, <3>2
  <2>4. QuotesComing'
    BY <1>1, <1>6, <2>3 DEF LiveInv, QuotesComing, Recent, Storing
  <2>5. calm >= MarketInterval + 1 /\ Missed => syncing # Nobody
    <3> SUFFICES ASSUME calm >= MarketInterval + 1, Missed, syncing = Nobody PROVE FALSE
      OBVIOUS
    <3>1. Remembered(w)
      BY <1>5, <1>6, <2>2
    <3>2. PICK a : a = memory[w].age
      OBVIOUS
    <3>3. a \in 0..MarketInterval
      BY <1>5, <2>2, <3>1, <3>2 DEF Remembered, LiveInv, LiveTyped, Never
    <3>4. BeforeCalm(a)
      BY <1>1, <3>2 DEF LiveInv, MissedBefore
    <3> QED
      BY <1>5, <3>3, <3>4 DEF BeforeCalm, Never
  <2>6. MissedEnds'
    BY <1>1, <1>6, <2>5 DEF LiveInv, MissedEnds, Missed, Untold, NewData
  <2> QED
    BY <2>1, <2>4, <2>6 DEF LiveInv
<1>7. CASE /\ syncing = Nobody /\ syncing' = w /\ step' = "fetching"
           /\ memory' = [memory EXCEPT ![w].age = IF memory[w].succeeded THEN @ ELSE 0]
  <2>1. /\ memory' \in [Syncers -> [succeeded : BOOLEAN, age : Nat \cup {Never}]]
        /\ \A v \in Syncers \ {w} : memory'[v] = memory[v]
    BY <1>7 DEF LiveInv, LiveTyped
  <2>2. step = "none" /\ ~late
    BY <1>7 DEF LiveInv, LiveTyped
  <2>3. LiveTyped'
    BY <1>1, <1>5, <1>7, <2>1, <2>2 DEF LiveInv, LiveTyped
  <2>4. MemoryTrue'
    <3> SUFFICES ASSUME NEW v \in Syncers, v # w, memory[v].age \in 0..MarketInterval,
                        calm >= memory[v].age + 2
                 PROVE  Recent(memory[v].age + 1)
      BY <1>1, <1>7, <2>1 DEF MemoryTrue, Recent, Storing
    <3> QED
      BY <1>5, <1>7 DEF LiveInv, MemoryTrue
  <2>5. StoredHere' /\ StampsKept' /\ UntoldStored' /\ UntoldNew' /\ SinceRun' /\ SnapshotsComing'
    BY <1>1, <1>3, <1>7 DEF LiveInv, StoredHere, StampsKept, UntoldStored,
         UntoldNew, SinceRun, SnapshotsComing, Untold, NewData
  <2>6. QuotesComing'
    BY <1>1, <1>7, <2>2 DEF LiveInv, QuotesComing, Recent, Storing
  <2>7. Missed' <=> Missed
    BY <1>1, <1>7, <2>2 DEF Missed, Untold, NewData
  <2>8. MissedBefore'
    <3> SUFFICES ASSUME Missed, NEW v \in Syncers, v # w PROVE BeforeCalm(memory[v].age)
      BY <1>1, <1>7, <2>1, <2>7 DEF MissedBefore, BeforeCalm
    <3> QED
      BY <1>5, <1>7 DEF LiveInv, MissedBefore
  <2>9. MissedEnds'
    BY <1>1, <1>5, <1>7, <2>7 DEF LiveInv, MissedEnds
  <2> QED
    BY <2>3, <2>4, <2>5, <2>6, <2>8, <2>9 DEF LiveInv
<1> QED
  BY <1>2, <1>6, <1>7

LEMMA FetchKeeps == ASSUME LiveInv, FetchAndStamp PROVE LiveInv'
PROOF
<1>1. /\ step = "fetching"
      /\ marketOpen' = marketOpen /\ feedUp' = feedUp
      /\ lockTaken' = lockTaken /\ triggered' = triggered /\ calm' = calm
      /\ syncing' = syncing /\ late' = late /\ stored' = stored
      /\ memory' = memory /\ quoteAge' = quoteAge /\ analysing' = analysing
      /\ lastRun' = lastRun /\ unseen' = unseen
  BY DEF FetchAndStamp, scopeVars, runVars
<1>2. \/ /\ step' = "stamped" /\ newer' = newer \cup Later("lastPending", "runPending")
      \/ /\ calm = 0 /\ step' = "cse" /\ newer' = newer
  BY DEF FetchAndStamp, DseAnswers, LiveInv, LiveTyped
<1>3. /\ "last" \in newer' <=> "last" \in newer
      /\ "run" \in newer' <=> "run" \in newer
  BY <1>2 DEF Later
<1>4. MarketInterval \in Nat \ {0} /\ AnalysisInterval \in Nat \ {0} /\ calm \in Nat
  BY LiveConstants DEF LiveInv, LiveTyped
<1>5. Untold' <=> Untold
  BY <1>1, <1>3 DEF Untold, NewData
<1>6. LiveTyped'
  BY <1>1, <1>2 DEF LiveInv, LiveTyped
<1>7. MemoryTrue'
  <2> SUFFICES ASSUME NEW v \in Syncers, memory[v].age \in 0..MarketInterval
               PROVE  \/ syncing = v /\ Storing'
                      \/ calm >= memory[v].age + 2 => Recent(memory[v].age + 1)
    BY <1>1 DEF MemoryTrue, Recent
  <2>1. CASE calm = 0
    BY <1>4, <2>1
  <2> QED
    BY <1>1, <1>2, <2>1 DEF LiveInv, MemoryTrue, Storing
<1>8. StoredHere' /\ QuotesComing'
  BY <1>1, <1>2, <1>4 DEF LiveInv, StoredHere, QuotesComing, Recent, Storing
<1>9. StampsKept'
  <2>1. step' = "stamped" => /\ "lastPending" \in newer'
                             /\ analysing # "no" => "runPending" \in newer'
    BY <1>2 DEF Later
  <2>2. "runPending" \in newer' => "lastPending" \in newer'
    BY <1>2 DEF Later, LiveInv, StampsKept
  <2>3. analysing = "no" => newer' \cap {"run", "runPending"} = {}
    BY <1>2 DEF Later, LiveInv, StampsKept
  <2>4. analysing # "no" => NewData'
    BY <1>1, <1>3 DEF NewData, LiveInv, StampsKept
  <2>5. "run" \in newer => analysing # "no"
    BY DEF LiveInv, StampsKept
  <2> QED
    BY <1>1, <1>3, <2>1, <2>2, <2>3, <2>4, <2>5 DEF StampsKept
<1>10. UntoldStored' /\ UntoldNew' /\ SinceRun' /\ SnapshotsComing'
  BY <1>1, <1>2, <1>4, <1>5 DEF LiveInv, UntoldStored, UntoldNew, SinceRun, SnapshotsComing
<1>11. Missed' => Missed
  BY <1>1, <1>5 DEF Missed
<1>12. MissedBefore' /\ MissedEnds'
  BY <1>1, <1>11 DEF LiveInv, MissedBefore, MissedEnds, BeforeCalm
<1> QED
  BY <1>6, <1>7, <1>8, <1>9, <1>10, <1>12 DEF LiveInv

LEMMA CommitKeeps == ASSUME LiveInv, CommitQuotes PROVE LiveInv'
PROOF
<1>1. /\ step = "stamped" /\ step' = "cse" /\ quoteAge' = 0
      /\ unseen' = IF unseen = 0 THEN 1 ELSE unseen
      /\ marketOpen' = marketOpen /\ feedUp' = feedUp
      /\ lockTaken' = lockTaken /\ triggered' = triggered /\ calm' = calm
      /\ syncing' = syncing /\ late' = late /\ memory' = memory
      /\ analysing' = analysing /\ lastRun' = lastRun
  BY DEF CommitQuotes, scopeVars, runVars
<1>2. /\ "last" \in newer' <=> "lastPending" \in newer
      /\ "run" \in newer' <=> "runPending" \in newer
      /\ "lastPending" \notin newer' /\ "runPending" \notin newer'
  BY DEF CommitQuotes
<1>3. /\ MarketInterval \in Nat \ {0} /\ AnalysisInterval \in Nat \ {0} /\ calm \in Nat
      /\ unseen \in Nat
  BY LiveConstants DEF LiveInv, LiveTyped
<1>4. \A n \in Nat : Recent(n)'
  BY <1>1 DEF Recent
<1>5. LiveTyped'
  BY <1>1, <1>3 DEF LiveInv, LiveTyped
<1>6. MemoryTrue'
  <2> SUFFICES ASSUME NEW v \in Syncers, memory'[v].age \in 0..MarketInterval
               PROVE  Recent(memory[v].age + 1)'
    BY <1>1 DEF MemoryTrue
  <2> QED
    BY <1>1, <1>3, <1>4
<1>7. StoredHere' /\ QuotesComing'
  BY <1>3, <1>4 DEF StoredHere, QuotesComing
<1>8. StampsKept'
  BY <1>1, <1>2 DEF LiveInv, StampsKept, NewData
<1>9. UntoldStored'
  BY <1>1 DEF UntoldStored, Never
<1>10. UntoldNew'
  <2>1. ASSUME unseen >= 1 PROVE ~Untold'
    BY <1>1, <1>2, <2>1 DEF LiveInv, StampsKept, Untold, NewData
  <2> QED
    BY <1>1, <1>3, <2>1 DEF UntoldNew
<1>11. MissedBefore' /\ MissedEnds'
  BY <1>1 DEF MissedBefore, MissedEnds, Missed
<1>12. SinceRun' /\ SnapshotsComing'
  BY <1>1, <1>3 DEF LiveInv, LiveTyped, SinceRun, SnapshotsComing, Never
<1> QED
  BY <1>5, <1>6, <1>7, <1>8, <1>9, <1>10, <1>11, <1>12 DEF LiveInv

LEMMA EndSyncKeeps == ASSUME LiveInv, EndSync PROVE LiveInv'
PROOF
<1>1. /\ step = "cse" /\ syncing' = Nobody /\ late' = FALSE /\ step' = "none"
      /\ marketOpen' = marketOpen /\ feedUp' = feedUp /\ lockTaken' = lockTaken
      /\ triggered' = triggered /\ calm' = calm /\ quoteAge' = quoteAge
      /\ analysing' = analysing /\ lastRun' = lastRun
  BY DEF EndSync, Over, scopeVars, runVars
<1>2. /\ newer' = IF CseAnswers \/ quoteAge # Never THEN newer \cup Later("last", "run") ELSE newer
      /\ unseen' = IF CseAnswers /\ unseen = 0 THEN 1 ELSE unseen
  BY DEF EndSync
<1>3. syncing \in Syncers
  BY <1>1 DEF LiveInv, LiveTyped
<1>4. \/ memory' = memory
      \/ memory' = [memory EXCEPT ![syncing] = [succeeded |-> TRUE, age |-> 0]]
  BY DEF EndSync
<1>5. /\ MarketInterval \in Nat \ {0} /\ AnalysisInterval \in Nat \ {0} /\ calm \in Nat
      /\ unseen \in Nat /\ Nobody \notin Syncers
  BY LiveConstants DEF LiveInv, LiveTyped
<1>6. unseen' \in Nat /\ (unseen' = unseen \/ (CseAnswers /\ unseen = 0 /\ unseen' = 1))
  <2>1. CASE CseAnswers /\ unseen = 0
    BY <1>2, <1>5, <2>1
  <2>2. CASE ~(CseAnswers /\ unseen = 0)
    BY <1>2, <1>5, <2>2
  <2> QED
    BY <2>1, <2>2
<1>7. LiveTyped'
  <2>1. [succeeded |-> TRUE, age |-> 0] \in [succeeded : BOOLEAN, age : Nat \cup {Never}]
    OBVIOUS
  <2>2. memory \in [Syncers -> [succeeded : BOOLEAN, age : Nat \cup {Never}]]
    BY DEF LiveInv, LiveTyped
  <2>3. memory' \in [Syncers -> [succeeded : BOOLEAN, age : Nat \cup {Never}]]
    BY <1>3, <1>4, <2>1, <2>2
  <2> QED
    BY <1>1, <1>6, <2>3 DEF LiveInv, LiveTyped
<1>8. MemoryTrue'
  <2> SUFFICES ASSUME NEW v \in Syncers, memory'[v].age \in 0..MarketInterval,
                      calm >= memory'[v].age + 2
               PROVE  Recent(memory'[v].age + 1)
    BY <1>1 DEF MemoryTrue, Recent
  <2>1. CASE memory'[v] = memory[v]
    BY <1>1, <2>1 DEF LiveInv, MemoryTrue, Storing
  <2>2. CASE memory'[v].age = 0
    <3>1. calm >= 2
      BY <1>5, <2>2
    <3>2. Recent(1)
      BY <1>1, <3>1 DEF LiveInv, StoredHere
    <3>3. memory'[v].age + 1 = 1
      BY <2>2
    <3> QED
      BY <3>2, <3>3
  <2> QED
    BY <1>3, <1>4, <2>1, <2>2 DEF LiveInv, LiveTyped
<1>9. StoredHere' /\ QuotesComing'
  BY <1>1 DEF LiveInv, StoredHere, QuotesComing, Recent, Storing
<1>10. StampsKept'
  BY <1>1, <1>2 DEF LiveInv, StampsKept, NewData, Later
<1>11. ~Untold'
  <2>1. CASE CseAnswers \/ quoteAge # Never
    <3>1. "last" \in newer' /\ (analysing # "no" => "run" \in newer')
      BY <1>2, <2>1 DEF Later
    <3> QED
      BY <1>1, <3>1 DEF Untold, NewData
  <2>2. CASE ~(CseAnswers \/ quoteAge # Never)
    <3>1. newer' = newer /\ unseen' = unseen /\ ~Untold
      BY <1>2, <2>2 DEF LiveInv, UntoldStored
    <3> QED
      BY <1>1, <3>1 DEF Untold, NewData
  <2> QED
    BY <2>1, <2>2
<1>12. UntoldStored' /\ UntoldNew' /\ MissedBefore' /\ MissedEnds'
  BY <1>11 DEF UntoldStored, UntoldNew, MissedBefore, MissedEnds, Missed
<1>13. SinceRun'
  <2>1. CASE unseen' = unseen
    BY <1>1, <2>1 DEF LiveInv, SinceRun
  <2>2. CASE unseen' = 1
    <3>1. lastRun = Never \/ lastRun >= 1 - 1
      BY DEF LiveInv, LiveTyped
    <3> QED
      BY <1>1, <2>2, <3>1 DEF SinceRun
  <2> QED
    BY <1>6, <2>1, <2>2
<1>14. SnapshotsComing'
  BY <1>1, <1>5, <1>6 DEF LiveInv, SnapshotsComing
<1> QED
  BY <1>7, <1>8, <1>9, <1>10, <1>12, <1>13, <1>14 DEF LiveInv

LEMMA SyncerDiesKeeps == ASSUME LiveInv, NEW w \in Syncers, SyncerDies(w) PROVE LiveInv'
PROOF
<1>1. /\ memory' = [memory EXCEPT ![w] = Blank] /\ calm' = 0
      /\ marketOpen' = marketOpen /\ feedUp' = feedUp /\ lockTaken' = lockTaken
      /\ triggered' = triggered /\ quoteAge' = quoteAge /\ unseen' = unseen
      /\ analysing' = analysing /\ lastRun' = lastRun
  BY DEF SyncerDies, runVars
<1>2. \/ syncing' = Nobody /\ late' = FALSE /\ step' = "none"
      \/ syncing' = syncing /\ late' = late /\ step' = step
  BY DEF SyncerDies, Over
<1>3. \/ newer' = newer /\ step' = step
      \/ newer' = newer \ {"lastPending", "runPending"} /\ step' = "none"
  BY DEF SyncerDies, Over
<1>4. /\ MarketInterval \in Nat \ {0} /\ AnalysisInterval \in Nat \ {0} /\ calm \in Nat
      /\ unseen \in Nat /\ Nobody \notin Syncers
  BY LiveConstants DEF LiveInv, LiveTyped
<1>5. Blank \in [succeeded : BOOLEAN, age : Nat \cup {Never}]
  BY DEF Blank
<1>6. memory' \in [Syncers -> [succeeded : BOOLEAN, age : Nat \cup {Never}]]
  BY <1>1, <1>5 DEF LiveInv, LiveTyped
<1>7. LiveTyped'
  <2>1. step' \in {"none", "fetching", "stamped", "cse"} /\ (step' = "none" <=> syncing' = Nobody)
        /\ syncing' \in Syncers \cup {Nobody} /\ late' \in BOOLEAN /\ (late' => syncing' # Nobody)
    <3>1. CASE syncing' = Nobody /\ late' = FALSE /\ step' = "none"
      BY <3>1
    <3>2. CASE syncing' = syncing /\ late' = late /\ step' = step
      BY <3>2 DEF LiveInv, LiveTyped
    <3> QED
      BY <1>2, <3>1, <3>2
  <2>2. calm' \in Nat /\ ~(calm' >= 1)
    BY <1>1
  <2> QED
    BY <1>1, <1>6, <2>1, <2>2 DEF LiveInv, LiveTyped
<1>8. /\ "last" \in newer' <=> "last" \in newer
      /\ "run" \in newer' <=> "run" \in newer
  BY <1>3
<1>9. Untold' <=> Untold
  BY <1>1, <1>8 DEF Untold, NewData
<1>10. MemoryTrue'
  BY <1>1 DEF MemoryTrue
<1>11. StoredHere' /\ QuotesComing' /\ UntoldNew' /\ SnapshotsComing'
  BY <1>1, <1>4 DEF StoredHere, QuotesComing, UntoldNew, SnapshotsComing
<1>12. StampsKept'
  BY <1>1, <1>3, <1>8 DEF LiveInv, StampsKept, NewData
<1>13. UntoldStored' /\ SinceRun'
  BY <1>1, <1>9 DEF LiveInv, UntoldStored, SinceRun
<1>14. MissedBefore'
  BY <1>1, <1>6 DEF MissedBefore, BeforeCalm
<1>15. MissedEnds'
  BY <1>1, <1>4 DEF MissedEnds
<1> QED
  BY <1>7, <1>10, <1>11, <1>12, <1>13, <1>14, <1>15 DEF LiveInv

LEMMA BeginAnalysisKeeps == ASSUME LiveInv, BeginAnalysis PROVE LiveInv'
PROOF
<1>1. /\ analysing = "no" /\ triggered' = triggered \ {"analysis"}
      /\ marketOpen' = marketOpen /\ feedUp' = feedUp /\ lockTaken' = lockTaken /\ calm' = calm
      /\ syncing' = syncing /\ late' = late /\ step' = step /\ memory' = memory
      /\ quoteAge' = quoteAge /\ lastRun' = lastRun /\ unseen' = unseen
  BY DEF BeginAnalysis, SkipAnalysis, runVars, syncVars
<1>2. \/ /\ Elapsed /\ NewData /\ analysing' = "reading" /\ newer' = newer \ {"run", "runPending"}
      \/ /\ ~(marketOpen /\ Elapsed /\ NewData) /\ analysing' = "no" /\ newer' = newer
  BY <1>1 DEF BeginAnalysis, SkipAnalysis, runVars
<1>3. /\ "sync" \in triggered' <=> "sync" \in triggered
      /\ "last" \in newer' <=> "last" \in newer
      /\ "lastPending" \in newer' <=> "lastPending" \in newer
  BY <1>1, <1>2
<1>4. /\ MarketInterval \in Nat \ {0} /\ AnalysisInterval \in Nat \ {0} /\ calm \in Nat
      /\ unseen \in Nat
  BY LiveConstants DEF LiveInv, LiveTyped
<1>5. LiveTyped' /\ MemoryTrue' /\ StoredHere' /\ QuotesComing'
  BY <1>1, <1>2, <1>3 DEF LiveInv, LiveTyped, MemoryTrue, StoredHere, QuotesComing, Recent, Storing
<1>6. StampsKept'
  BY <1>1, <1>2, <1>3 DEF LiveInv, StampsKept, NewData
<1>7. Untold' => Untold
  BY <1>1, <1>2 DEF Untold, NewData
<1>8. Missed' => Missed
  BY <1>1, <1>7 DEF Missed
<1>9. UntoldStored' /\ UntoldNew' /\ MissedBefore' /\ MissedEnds'
  BY <1>1, <1>3, <1>7, <1>8 DEF LiveInv, UntoldStored, UntoldNew, MissedBefore, MissedEnds, BeforeCalm
<1>10. SinceRun'
  BY <1>1, <1>2 DEF LiveInv, SinceRun
<1>11. SnapshotsComing'
  <2> SUFFICES ASSUME calm >= MarketInterval + 3, analysing' # "reading"
               PROVE  unseen <= AnalysisInterval + 1
    BY <1>1 DEF LiveInv, SnapshotsComing
  <2>1. marketOpen /\ (~Elapsed \/ ~NewData)
    BY <1>2, <1>4 DEF LiveInv, LiveTyped
  <2>2. CASE ~Elapsed
    <3>1. lastRun # Never /\ ~(lastRun >= AnalysisInterval)
      BY <2>2 DEF Elapsed
    <3>2. unseen >= 1 => lastRun >= unseen - 1
      BY <3>1 DEF LiveInv, SinceRun
    <3>3. lastRun \in Nat
      BY <3>1 DEF LiveInv, LiveTyped
    <3> QED
      BY <1>4, <3>1, <3>2, <3>3
  <2>3. CASE ~NewData
    <3>1. CASE unseen >= 1
      <4>1. Untold
        BY <1>1, <2>3, <3>1 DEF Untold
      <4>2. step = "cse"
        BY <4>1, <1>4 DEF LiveInv, MissedEnds, Missed
      <4> QED
        BY <1>4, <4>1, <4>2 DEF LiveInv, UntoldNew
    <3> QED
      BY <1>4, <3>1
  <2> QED
    BY <2>1, <2>2, <2>3
<1> QED
  BY <1>5, <1>6, <1>9, <1>10, <1>11 DEF LiveInv

LEMMA ReadKeeps == ASSUME LiveInv, ReadQuotes PROVE LiveInv'
PROOF
<1>1. /\ analysing = "reading" /\ analysing' = "ending" /\ unseen' = 0
      /\ triggered' = triggered /\ newer' = newer
      /\ marketOpen' = marketOpen /\ feedUp' = feedUp /\ lockTaken' = lockTaken /\ calm' = calm
      /\ syncing' = syncing /\ late' = late /\ step' = step /\ memory' = memory
      /\ quoteAge' = quoteAge /\ lastRun' = lastRun
  BY DEF ReadQuotes, scopeVars, syncVars
<1>2. MarketInterval \in Nat \ {0} /\ AnalysisInterval \in Nat \ {0} /\ calm \in Nat
  BY LiveConstants DEF LiveInv, LiveTyped
<1>3. LiveTyped' /\ MemoryTrue' /\ StoredHere' /\ QuotesComing'
  BY <1>1 DEF LiveInv, LiveTyped, MemoryTrue, StoredHere, QuotesComing, Recent, Storing
<1>4. ~(unseen' >= 1)
  BY <1>1
<1>5. ~Untold'
  BY <1>4 DEF Untold
<1>6. StampsKept'
  BY <1>1, <1>4 DEF LiveInv, StampsKept, NewData
<1>7. UntoldStored' /\ UntoldNew' /\ MissedBefore' /\ MissedEnds'
  BY <1>5 DEF UntoldStored, UntoldNew, MissedBefore, MissedEnds, Missed
<1>8. SinceRun' /\ SnapshotsComing'
  BY <1>1, <1>2 DEF SinceRun, SnapshotsComing
<1> QED
  BY <1>3, <1>6, <1>7, <1>8 DEF LiveInv

LEMMA EndAnalysisKeeps == ASSUME LiveInv, EndAnalysis PROVE LiveInv'
PROOF
<1>1. /\ analysing = "ending" /\ analysing' = "no" /\ lastRun' = 0
      /\ triggered' = triggered /\ unseen' = unseen
      /\ marketOpen' = marketOpen /\ feedUp' = feedUp /\ lockTaken' = lockTaken /\ calm' = calm
      /\ syncing' = syncing /\ late' = late /\ step' = step /\ memory' = memory
      /\ quoteAge' = quoteAge
  BY DEF EndAnalysis, scopeVars, syncVars
<1>2. /\ "last" \in newer' <=> "run" \in newer
      /\ "lastPending" \in newer' <=> "runPending" \in newer
      /\ "run" \notin newer' /\ "runPending" \notin newer'
  BY DEF EndAnalysis
<1>3. /\ MarketInterval \in Nat \ {0} /\ AnalysisInterval \in Nat \ {0} /\ calm \in Nat
      /\ unseen \in Nat
  BY LiveConstants DEF LiveInv, LiveTyped
<1>4. LiveTyped' /\ MemoryTrue' /\ StoredHere' /\ QuotesComing'
  BY <1>1 DEF LiveInv, LiveTyped, MemoryTrue, StoredHere, QuotesComing, Recent, Storing
<1>5. StampsKept'
  BY <1>1, <1>2 DEF LiveInv, StampsKept
<1>6. Untold' => Untold
  BY <1>1, <1>2 DEF Untold, NewData
<1>7. Missed' => Missed
  BY <1>1, <1>6 DEF Missed
<1>8. UntoldStored' /\ UntoldNew' /\ MissedBefore' /\ MissedEnds'
  BY <1>1, <1>6, <1>7 DEF LiveInv, UntoldStored, UntoldNew, MissedBefore, MissedEnds, BeforeCalm
<1>9. unseen <= 1
  BY <1>1 DEF LiveInv, SinceRun
<1>10. SinceRun'
  BY <1>1, <1>3, <1>9 DEF SinceRun
<1>11. SnapshotsComing'
  BY <1>1, <1>3, <1>9 DEF LiveInv, SnapshotsComing
<1> QED
  BY <1>4, <1>5, <1>8, <1>10, <1>11 DEF LiveInv

LEMMA FailsKeeps == ASSUME LiveInv, AnalysisFails PROVE LiveInv'
PROOF
<1>1. /\ analysing # "no" /\ analysing' = "no" /\ calm' = 0
      /\ newer' = newer \ {"run", "runPending"}
      /\ marketOpen' = marketOpen /\ feedUp' = feedUp /\ lockTaken' = lockTaken
      /\ triggered' = triggered /\ lastRun' = lastRun /\ unseen' = unseen
      /\ syncing' = syncing /\ late' = late /\ step' = step /\ memory' = memory
      /\ quoteAge' = quoteAge
  BY DEF AnalysisFails, syncVars
<1>2. /\ MarketInterval \in Nat \ {0} /\ AnalysisInterval \in Nat \ {0}
      /\ unseen \in Nat
  BY LiveConstants DEF LiveInv, LiveTyped
<1>3. calm' \in Nat /\ ~(calm' >= 1)
  BY <1>1
<1>4. LiveTyped'
  BY <1>1, <1>3 DEF LiveInv, LiveTyped
<1>5. MemoryTrue'
  BY <1>1 DEF MemoryTrue
<1>6. StoredHere' /\ QuotesComing' /\ SnapshotsComing'
  BY <1>1, <1>2 DEF StoredHere, QuotesComing, SnapshotsComing
<1>7. StampsKept'
  BY <1>1 DEF LiveInv, StampsKept
<1>8. ~Untold'
  BY <1>1 DEF LiveInv, StampsKept, Untold, NewData
<1>9. UntoldStored' /\ UntoldNew' /\ MissedBefore' /\ MissedEnds'
  BY <1>8 DEF UntoldStored, UntoldNew, MissedBefore, MissedEnds, Missed
<1>10. SinceRun'
  BY <1>1 DEF LiveInv, SinceRun
<1> QED
  BY <1>4, <1>5, <1>6, <1>7, <1>9, <1>10 DEF LiveInv

LEMMA LiveTickKeeps == ASSUME LiveInv, LiveTick PROVE LiveInv'
PROOF
<1>1. /\ triggered = {} /\ analysing = "no" /\ ~late /\ late' = (syncing # Nobody)
      /\ triggered' = {"sync", "analysis"} /\ analysing' = analysing /\ newer' = newer
      /\ syncing' = syncing /\ step' = step
  BY DEF LiveTick
<1>2. PICK mem, q, r, u, c : mem = memory /\ q = quoteAge /\ r = lastRun /\ u = unseen /\ c = calm
  OBVIOUS
<1>3. /\ MarketInterval \in Nat \ {0} /\ AnalysisInterval \in Nat \ {0} /\ Oldest \in Nat
      /\ Stale \in Nat /\ Stale > MarketInterval /\ Stale > AnalysisInterval
  BY LiveConstants
<1>4. /\ q \in Nat \cup {Never} /\ r \in Nat \cup {Never} /\ u \in Nat /\ c \in Nat
      /\ mem \in [Syncers -> [succeeded : BOOLEAN, age : Nat \cup {Never}]]
  BY <1>2 DEF LiveInv, LiveTyped
<1>5. PICK st : st = Stale
  OBVIOUS
<1>6. IsMore(quoteAge', q, Oldest)
  BY <1>2, <1>3, <1>4, MoreIs DEF LiveTick
<1>7. IsMore(lastRun', r, st)
  BY <1>2, <1>3, <1>4, <1>5, MoreIs DEF LiveTick
<1>8. unseen' \in Nat /\ unseen' <= u + 1 /\ unseen' >= u /\ (unseen' >= 1 <=> u >= 1)
  <2>1. IsMore(OneMore(u, Oldest), u, Oldest)
    BY <1>3, <1>4, MoreIs
  <2>2. unseen' = IF u = 0 THEN 0 ELSE OneMore(u, Oldest)
    BY <1>2 DEF LiveTick
  <2>3. PICK z : z = OneMore(u, Oldest)
    OBVIOUS
  <2>4. z \in Nat /\ (z = u + 1 \/ z = u)
    BY <1>4, <2>1, <2>3 DEF IsMore, Never
  <2> QED
    BY <1>4, <2>2, <2>3, <2>4
<1>9. /\ calm' \in Nat /\ calm' <= c + 1
      /\ calm' >= 1 => marketOpen' /\ "DSE" \in feedUp' /\ ~lockTaken'
  <2>1. IsMore(OneMore(c, Oldest), c, Oldest)
    BY <1>3, <1>4, MoreIs
  <2>2. PICK z : z = OneMore(c, Oldest)
    OBVIOUS
  <2>3. z \in Nat /\ (z = c + 1 \/ z = c)
    BY <1>4, <2>1, <2>2 DEF IsMore, Never
  <2>4. \/ marketOpen' /\ "DSE" \in feedUp' /\ ~lockTaken' /\ calm' = z
        \/ calm' = 0
    BY <1>2, <2>2 DEF LiveTick
  <2> QED
    BY <1>4, <2>3, <2>4
<1>10. /\ memory' \in [Syncers -> [succeeded : BOOLEAN, age : Nat \cup {Never}]]
       /\ \A w \in Syncers : IsMore(memory'[w].age, mem[w].age, st)
  <2>1. memory' = [w \in Syncers |-> [mem[w] EXCEPT !.age = OneMore(mem[w].age, st)]]
    BY <1>2, <1>5 DEF LiveTick
  <2>2. ASSUME NEW w \in Syncers
        PROVE  /\ memory'[w] \in [succeeded : BOOLEAN, age : Nat \cup {Never}]
               /\ IsMore(memory'[w].age, mem[w].age, st)
    <3>1. PICK a, b : mem[w].age = a /\ b = OneMore(a, st)
      OBVIOUS
    <3>2. a \in Nat \cup {Never} /\ st \in Nat /\ mem[w] \in [succeeded : BOOLEAN, age : Nat \cup {Never}]
      BY <1>3, <1>4, <1>5, <3>1
    <3>3. IsMore(b, a, st)
      BY <3>1, <3>2, MoreIs
    <3>4. memory'[w] = [mem[w] EXCEPT !.age = b]
      BY <2>1, <3>1
    <3>5. b \in Nat \cup {Never}
      BY <3>3 DEF IsMore
    <3>6. /\ [mem[w] EXCEPT !.age = b] \in [succeeded : BOOLEAN, age : Nat \cup {Never}]
          /\ [mem[w] EXCEPT !.age = b].age = b
      BY <3>2, <3>5
    <3> QED
      BY <3>1, <3>3, <3>4, <3>6
  <2> QED
    BY <2>1, <2>2
<1>11. LiveTyped'
  <2>1. quoteAge' \in Nat \cup {Never} /\ lastRun' \in Nat \cup {Never}
    BY <1>6, <1>7 DEF IsMore
  <2> QED
    BY <1>1, <1>8, <1>9, <1>10, <2>1 DEF LiveInv, LiveTyped
<1>12. ASSUME NEW n \in Nat, Recent(n) PROVE Recent(n + 1)'
  <2>1. q \in 0..n
    BY <1>2, <1>12 DEF Recent
  <2>2. quoteAge' \in 0..(n + 1)
    BY <1>6, <2>1 DEF IsMore, Never
  <2> QED
    BY <2>2 DEF Recent
<1>13. MemoryTrue'
  <2> SUFFICES ASSUME NEW w \in Syncers, memory'[w].age \in 0..MarketInterval
               PROVE  \/ syncing' = w /\ Storing'
                      \/ calm' >= memory'[w].age + 2 => quoteAge' \in 0..(memory'[w].age + 1)
    BY DEF MemoryTrue, Recent
  <2>1. PICK a, b, d : a = mem[w].age /\ b = memory'[w].age /\ d = calm'
    OBVIOUS
  <2>2. a \in Nat /\ b = a + 1 /\ a \in 0..MarketInterval
    BY <1>3, <1>4, <1>5, <1>10, <2>1 DEF IsMore, Never
  <2>3. CASE syncing = w /\ Storing
    BY <1>1, <2>3 DEF Storing
  <2>4. CASE calm >= a + 2 => Recent(a + 1)
    <3>1. d \in Nat /\ d <= c + 1
      BY <1>9, <2>1
    <3>2. d >= b + 2 => c >= a + 2
      BY <1>4, <2>2, <3>1
    <3>3. d >= b + 2 => Recent(a + 1)
      BY <1>2, <2>4, <3>2
    <3>4. Recent(a + 1) => Recent((a + 1) + 1)'
      BY <1>12, <2>2
    <3>5. d >= b + 2 => quoteAge' \in 0..(b + 1)
      BY <2>2, <3>3, <3>4 DEF Recent
    <3> QED
      BY <2>1, <3>5
  <2>5. memory[w].age \in 0..MarketInterval
    BY <1>2, <2>1, <2>2
  <2> QED
    BY <1>2, <2>1, <2>3, <2>4, <2>5 DEF LiveInv, MemoryTrue
<1>14. \A n \in Nat : calm' >= n + 1 => calm >= n
  BY <1>2, <1>4, <1>9
<1>15. (0 \in Nat /\ MarketInterval + 1 \in Nat /\ MarketInterval + 2 \in Nat)
       /\ MarketInterval + 3 \in Nat /\ 1 \in Nat
  BY <1>3
<1>16. step = "none" <=> syncing = Nobody
  BY DEF LiveInv, LiveTyped
<1>17. step # "none" => late'
  BY <1>1, <1>16
<1>18. StoredHere'
  <2>1. calm' >= 2 => calm >= 1
    BY <1>14, <1>15
  <2>2. step = "cse" /\ calm' >= 2 => Recent(0)
    BY <1>1, <2>1 DEF LiveInv, StoredHere
  <2>3. step = "cse" /\ calm' >= 2 => Recent(1)'
    BY <1>12, <1>15, <2>2
  <2> QED
    BY <1>1, <1>17, <2>3 DEF StoredHere
<1>19. QuotesComing'
  <2>1. /\ calm' >= MarketInterval + 3 => calm >= MarketInterval + 2
        /\ calm' >= MarketInterval + 4 => calm >= MarketInterval + 3
    BY <1>2, <1>3, <1>4, <1>9
  <2>2. calm' >= MarketInterval + 3 /\ ~(Storing /\ late') => Recent(MarketInterval + 1)
    BY <1>1, <1>17, <2>1 DEF LiveInv, QuotesComing, Storing
  <2>3. calm' >= MarketInterval + 3 /\ ~(Storing /\ late') => Recent(MarketInterval + 2)'
    BY <1>3, <1>12, <1>15, <2>2
  <2>4. calm' >= MarketInterval + 4 => Recent(MarketInterval + 2)
    BY <1>1, <2>1 DEF LiveInv, QuotesComing
  <2>5. calm' >= MarketInterval + 4 => Recent(MarketInterval + 3)'
    BY <1>3, <1>12, <1>15, <2>4
  <2>6. Storing' = Storing
    BY <1>1 DEF Storing
  <2> QED
    BY <1>1, <1>3, <2>3, <2>5, <2>6 DEF QuotesComing
<1>20. NewData' <=> NewData
  BY <1>1, <1>2, <1>7 DEF IsMore, NewData
<1>21. unseen' >= 1 <=> unseen >= 1
  BY <1>2, <1>8
<1>22. StampsKept'
  BY <1>1, <1>20, <1>21 DEF LiveInv, StampsKept
<1>23. Untold' <=> Untold
  BY <1>1, <1>20, <1>21 DEF Untold
<1>24. Missed' <=> Missed
  BY <1>1, <1>23 DEF Missed
<1>25. UntoldStored'
  BY <1>2, <1>6, <1>23 DEF LiveInv, UntoldStored, IsMore
<1>26. UntoldNew'
  <2>1. calm' >= 2 => calm >= 1
    BY <1>14, <1>15
  <2>2. Untold' /\ step = "cse" /\ calm' >= 2 => unseen <= 1
    BY <1>1, <1>23, <2>1 DEF LiveInv, UntoldNew
  <2>3. Untold' /\ step = "cse" /\ calm' >= 2 => unseen' <= 2
    BY <1>2, <1>4, <1>8, <2>2
  <2> QED
    BY <1>1, <1>17, <2>3 DEF UntoldNew
<1>27. MissedBefore'
  <2> SUFFICES ASSUME Missed, NEW w \in Syncers \ {syncing}
               PROVE  BeforeCalm(memory[w].age)'
    BY <1>1, <1>24 DEF MissedBefore
  <2>1. PICK a, b, d : a = mem[w].age /\ b = memory'[w].age /\ d = calm'
    OBVIOUS
  <2>2. a = Never \/ a > MarketInterval \/ a >= c
    BY <1>2, <2>1 DEF LiveInv, MissedBefore, BeforeCalm
  <2>3. /\ a \in Nat \cup {Never} /\ b \in Nat \cup {Never} /\ (b = Never <=> a = Never)
        /\ a # Never => b = a + 1 \/ (b = a /\ b = st)
    BY <1>4, <1>10, <2>1 DEF IsMore
  <2>4. d \in Nat /\ d <= c + 1
    BY <1>9, <2>1
  <2>5. b = Never \/ b > MarketInterval \/ b >= d
    BY <1>3, <1>4, <1>5, <2>2, <2>3, <2>4 DEF Never
  <2> QED
    BY <2>1, <2>5 DEF BeforeCalm
<1>28. MissedEnds'
  <2>1. /\ calm' >= MarketInterval + 2 => calm >= MarketInterval + 1
        /\ calm' >= MarketInterval + 3 => calm >= MarketInterval + 2
    BY <1>2, <1>3, <1>4, <1>9
  <2>2. Missed /\ calm' >= MarketInterval + 2 => late'
    BY <1>1, <2>1 DEF LiveInv, MissedEnds
  <2>3. Missed => ~(calm' >= MarketInterval + 3)
    BY <1>1, <2>1 DEF LiveInv, MissedEnds
  <2>4. Missed => calm' < MarketInterval + 3
    BY <1>3, <1>9, <2>3
  <2> QED
    BY <1>1, <1>24, <2>2, <2>4 DEF MissedEnds
<1>29. SinceRun'
  <2>1. PICK s, v : s = lastRun' /\ v = unseen'
    OBVIOUS
  <2>2. u >= 1 => r = Never \/ r >= u - 1 \/ r >= AnalysisInterval
    BY <1>2 DEF LiveInv, SinceRun
  <2>3. v \in Nat /\ v <= u + 1 /\ (v >= 1 <=> u >= 1)
    BY <1>8, <2>1
  <2>4. s \in Nat \cup {Never} /\ (s = Never <=> r = Never) /\ (r # Never => s = r + 1 \/ (s = r /\ s = st))
    BY <1>7, <2>1 DEF IsMore
  <2>5. v >= 1 => s = Never \/ s >= v - 1 \/ s >= AnalysisInterval
    BY <1>3, <1>4, <1>5, <2>2, <2>3, <2>4 DEF Never
  <2> QED
    BY <1>1, <2>1, <2>5 DEF SinceRun
<1>30. SnapshotsComing'
  <2>1. calm' >= MarketInterval + 4 => calm >= MarketInterval + 3
    BY <1>2, <1>3, <1>4, <1>9
  <2>2. calm' >= MarketInterval + 4 => u <= AnalysisInterval + 1
    BY <1>1, <1>2, <2>1 DEF LiveInv, SnapshotsComing
  <2>3. calm' >= MarketInterval + 4 => unseen' <= AnalysisInterval + 2
    BY <1>3, <1>4, <1>8, <2>2
  <2> QED
    BY <1>1, <1>3, <2>3 DEF SnapshotsComing
<1> QED
  BY <1>11, <1>13, <1>18, <1>19, <1>22, <1>25, <1>26, <1>27, <1>28, <1>29, <1>30 DEF LiveInv

LEMMA LiveStepKeeps == LiveInv /\ [LiveNext]_liveVars => LiveInv'
PROOF
<1> SUFFICES ASSUME LiveInv, [LiveNext]_liveVars PROVE LiveInv'
  OBVIOUS
<1>1. ASSUME NEW w \in Syncers, BeginSync(w) PROVE LiveInv'
  BY <1>1, BeginSyncKeeps
<1>2. ASSUME NEW w \in Syncers, SyncerDies(w) PROVE LiveInv'
  BY <1>2, SyncerDiesKeeps
<1>3. CASE UNCHANGED liveVars
  <2>1. /\ marketOpen' = marketOpen /\ feedUp' = feedUp /\ lockTaken' = lockTaken
        /\ triggered' = triggered /\ calm' = calm /\ syncing' = syncing /\ late' = late
        /\ step' = step /\ memory' = memory /\ quoteAge' = quoteAge
        /\ analysing' = analysing /\ lastRun' = lastRun /\ newer' = newer /\ unseen' = unseen
    BY <1>3 DEF liveVars, scopeVars, syncVars, runVars
  <2>2. LiveTyped' /\ MemoryTrue' /\ StoredHere' /\ QuotesComing'
    BY <2>1 DEF LiveInv, LiveTyped, MemoryTrue, StoredHere, QuotesComing, Recent, Storing
  <2>3. NewData' = NewData /\ Untold' = Untold /\ Missed' = Missed
    BY <2>1 DEF NewData, Untold, Missed
  <2>4. StampsKept' /\ UntoldStored' /\ UntoldNew' /\ MissedEnds' /\ SinceRun' /\ SnapshotsComing'
    BY <2>1, <2>3 DEF LiveInv, StampsKept, UntoldStored, UntoldNew, MissedEnds, SinceRun,
                      SnapshotsComing
  <2>5. MissedBefore'
    BY <2>1, <2>3 DEF LiveInv, MissedBefore, BeforeCalm
  <2> QED
    BY <2>2, <2>4, <2>5 DEF LiveInv
<1> QED
  BY <1>1, <1>2, <1>3, FetchKeeps, CommitKeeps, EndSyncKeeps, BeginAnalysisKeeps, ReadKeeps,
     EndAnalysisKeeps, FailsKeeps, LiveTickKeeps DEF LiveNext

LEMMA FreshInCalm == LiveInv => LiveDataStaysFresh
PROOF
<1> SUFFICES ASSUME LiveInv, calm > MarketInterval + 3
             PROVE  quoteAge \in 0..(MarketInterval + 3) /\ unseen <= AnalysisInterval + 2
  BY DEF LiveDataStaysFresh
<1>1. MarketInterval \in Nat /\ calm \in Nat
  BY LiveConstants DEF LiveInv, LiveTyped
<1>2. calm >= MarketInterval + 4
  BY <1>1
<1> QED
  BY <1>2 DEF LiveInv, QuotesComing, SnapshotsComing, Recent

\* LiveDataStaysFresh of any number of processes, for any intervals and any
\* outages, kills and other holders of the lock: in an open market whose feed
\* answers, quotes get no older than the interval of the syncs and three ticks,
\* and snapshots lack them no longer than that of the analysis and two.
THEOREM QuotesStayFresh == LiveSpec => []LiveDataStaysFresh
PROOF
<1>1. LiveInit => LiveInv
  BY LiveStarts
<1>2. LiveInv /\ [LiveNext]_liveVars => LiveInv'
  BY LiveStepKeeps
<1>3. LiveInv => LiveDataStaysFresh
  BY FreshInCalm
<1> QED
  BY <1>1, <1>2, <1>3, PTL DEF LiveSpec
=============================================================================
