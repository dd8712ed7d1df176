----------------------------- MODULE DayPipeline -----------------------------
(***************************************************************************)
(* The heavy tasks of a day (tasks.py, daily_append.py) and what they      *)
(* queue for one another: an append of today's bars, the last batch of a   *)
(* history fetch and the button of the pipeline bring about a full         *)
(* analysis, a settlement that settled something brings about a training.  *)
(* The two followers, and the full fetch, take a lock of their own without *)
(* waiting and are skipped when a run like them is under way; everything   *)
(* that writes waits for the market lock.                                  *)
(*                                                                         *)
(* Messages are kept in no order, since retries and redeliveries change    *)
(* it.  The leases of the locks outlast their holders here, unless these   *)
(* die; MarketWriteLock is about the others.                               *)
(***************************************************************************)
EXTENDS Integers, Sequences, FiniteSets

CONSTANTS HeavyWorkers, \* processes of celery-worker-heavy
          LightWorkers, \* processes of celery-worker-light
          Started,      \* tasks that beat and the operations page may start
          MaxStarted,   \* bound: how many of them
          MaxFaults     \* bound: waits that time out, processes that die

Batches == <<"batch 1", "batch 2">>  \* bound: of HISTORY_BATCH_SIZE symbols
InBatches == {Batches[i] : i \in DOMAIN Batches}
DayWorkers == HeavyWorkers \cup LightWorkers
Free == "free"     \* nobody holds the lock
TheDead == "dead"  \* who held it was killed

\* run_end_of_day_pipeline calls the tasks themselves.
Stages == [pipeline |-> <<"append", "settlement", "assessment", "digest">>]
JobsOf(task) == IF task \in DOMAIN Stages THEN Stages[task] ELSE <<task>>

\* CELERY_TASK_ROUTES
WorkersFor(task) == IF task = "append" THEN LightWorkers ELSE HeavyWorkers

Followers == {"analysis", "training"}
OwnLocks == Followers \cup {"fetch"}
DayTasks == OwnLocks \cup {"append", "settlement", "pipeline"} \cup InBatches

\* Who reads what a job stores.
FollowerOf(job) == IF job = "settlement" THEN "training" ELSE "analysis"
Producers == {"append", "settlement", "fetch"} \cup InBatches

\* What a job that stored something queues; the rest of a chain follows a batch
\* whatever it found.
Queues(job) ==
    IF job \in InBatches
      THEN LET n == CHOOSE i \in DOMAIN Batches : Batches[i] = job
           IN  IF n < Len(Batches) THEN Batches[n + 1] ELSE "analysis"
      ELSE IF job = "fetch" THEN Batches[1] ELSE FollowerOf(job)

ASSUME DayAssumption ==
    /\ {Free, TheDead} \cap DayWorkers = {}
    /\ Started \subseteq DayTasks

VARIABLES waiting,  \* messages in the queues
          run,      \* of each worker
          own,      \* holders of the tasks' own locks
          market,   \* holder of the market lock
          owed,     \* followers for whom something is stored that none has used
          lost,     \* history: followers whose work a fault has lost
          started, faults

dayVars == <<waiting, run, own, market, owed, lost, started, faults>>

Resting == [task |-> "none", stage |-> 1, step |-> "resting",
            promises |-> FALSE, read |-> "nothing"]

JobOf(w) == JobsOf(run[w].task)[run[w].stage]
FirstStep(job) == IF job \in OwnLocks THEN "own lock"
                  ELSE IF job = "digest" THEN "leaving" ELSE "market lock"

DayInit ==
    /\ waiting = [t \in DayTasks |-> 0]
    /\ run = [w \in DayWorkers |-> Resting]
    /\ own = [t \in OwnLocks |-> Free] /\ market = Free
    /\ owed = {} /\ lost = {} /\ started = 0 /\ faults = 0

RunAt(w, step) == run[w].task # "none" /\ run[w].step = step
Move(w, step) == run' = [run EXCEPT ![w].step = step]

StageOf(task, n) ==
    [Resting EXCEPT !.task = task, !.stage = n,
                    !.step = FirstStep(JobsOf(task)[n])]

\* The next stage, or the message is acknowledged.
NextStage(w) ==
    IF run[w].stage < Len(JobsOf(run[w].task))
      THEN StageOf(run[w].task, run[w].stage + 1) ELSE Resting

\* The worker's message is in its queue once more.
Again(w) == [waiting EXCEPT ![run[w].task] = @ + 1]

OwnReleased(w) == [t \in OwnLocks |-> IF own[t] = w THEN Free ELSE own[t]]

-----------------------------------------------------------------------------

\* Beat or a button: delay().
StartTask(task) ==
    /\ started < MaxStarted /\ started' = started + 1
    /\ waiting' = [waiting EXCEPT ![task] = @ + 1]
    /\ UNCHANGED <<run, own, market, owed, lost, faults>>

Receive(w, task) ==
    /\ run[w] = Resting /\ waiting[task] > 0 /\ w \in WorkersFor(task)
    /\ waiting' = [waiting EXCEPT ![task] = @ - 1]
    /\ run' = [run EXCEPT ![w] = StageOf(task, 1)]
    /\ UNCHANGED <<own, market, owed, lost, started, faults>>

TakeOwnLock(w) ==
    /\ RunAt(w, "own lock") /\ own[JobOf(w)] = Free
    /\ own' = [own EXCEPT ![JobOf(w)] = w] /\ Move(w, "market lock")
    /\ UNCHANGED <<waiting, market, owed, lost, started, faults>>

\* The holder has done its work and only releases its locks.
Leaving(holder) == holder # TheDead /\ run[holder].step = "leaving"

\* LockBusy: "already_running".
SkipRunning(w) ==
    /\ RunAt(w, "own lock") /\ own[JobOf(w)] # Free
    /\ lost' = IF own[JobOf(w)] = TheDead \/ Leaving(own[JobOf(w)])
                 THEN lost \cup ({JobOf(w)} \cap owed) ELSE lost
    /\ run' = [run EXCEPT ![w] = NextStage(w)]
    /\ UNCHANGED <<waiting, own, market, owed, started, faults>>

TakeMarketLock(w) ==
    /\ RunAt(w, "market lock") /\ market = Free
    /\ market' = w /\ Move(w, "working")
    /\ UNCHANGED <<waiting, own, owed, lost, started, faults>>

\* What a failed run of a job leaves undone for good.
Forgotten(job) ==
    IF job \in Followers THEN {job} \cap owed
    ELSE IF job \in InBatches THEN {"analysis"} \cap owed ELSE {}

\* TimeoutError, retried unless it was retried too often, or is a stage's.
LockTimeout(w) ==
    /\ RunAt(w, "market lock") /\ market # Free
    /\ faults < MaxFaults /\ faults' = faults + 1
    /\ \/ run[w].task \notin DOMAIN Stages /\ waiting' = Again(w) /\ UNCHANGED lost
       \/ lost' = lost \cup Forgotten(JobOf(w)) /\ UNCHANGED waiting
    /\ own' = OwnReleased(w) /\ run' = [run EXCEPT ![w] = NextStage(w)]
    /\ UNCHANGED <<market, owed, started>>

\* append_today_bars_unlocked, fetch_all, fetch_market_history_batch,
\* run_close_learn_cycle: something is stored, or nothing.
Store(w) ==
    /\ RunAt(w, "working") /\ JobOf(w) \in Producers
    /\ \E stored \in BOOLEAN :
         LET f == FollowerOf(JobOf(w))
         IN  /\ owed' = IF stored THEN owed \cup {f} ELSE owed
             /\ run' = [x \in DayWorkers |->
                  IF x = w
                    THEN [run[w] EXCEPT !.step = "stored",
                                        !.promises = stored \/ JobOf(w) \in InBatches]
                  ELSE IF stored /\ run[x].task = f /\ run[x].read = "all"
                    THEN [run[x] EXCEPT !.read = "not all"]
                  ELSE run[x]]
    /\ UNCHANGED <<waiting, own, market, lost, started, faults>>

\* Fault: the rows are fetched while the market lock is waited for.
MayReadEarly(w) == RunAt(w, "working") \/ RunAt(w, "market lock")

MayRead(w) == RunAt(w, "working")

\* run_full_analysis, train_next_close_model
ReadAll(w) ==
    /\ MayRead(w) /\ JobOf(w) \in Followers /\ run[w].read = "nothing"
    /\ run' = [run EXCEPT ![w].read = "all"]
    /\ UNCHANGED <<waiting, own, market, owed, lost, started, faults>>

\* Its results are stored.
Conclude(w) ==
    /\ RunAt(w, "working") /\ JobOf(w) \in Followers /\ run[w].read # "nothing"
    /\ IF run[w].read = "all"
         THEN owed' = owed \ {JobOf(w)} /\ lost' = lost \ {JobOf(w)}
         ELSE UNCHANGED <<owed, lost>>
    /\ Move(w, "stored")
    /\ UNCHANGED <<waiting, own, market, started, faults>>

\* run_reliability_assessment: nothing waits for it.
AssessDay(w) ==
    /\ RunAt(w, "working") /\ JobOf(w) = "assessment" /\ Move(w, "stored")
    /\ UNCHANGED <<waiting, own, market, owed, lost, started, faults>>

ReleaseMarketLock(w) ==
    /\ RunAt(w, "stored") /\ market' = Free /\ Move(w, "leaving")
    /\ UNCHANGED <<waiting, own, owed, lost, started, faults>>

\* What is to follow is queued, the own lock released.
Leave(w) ==
    /\ RunAt(w, "leaving")
    /\ waiting' = IF run[w].promises
                    THEN [waiting EXCEPT ![Queues(JobOf(w))] = @ + 1] ELSE waiting
    /\ own' = OwnReleased(w) /\ run' = [run EXCEPT ![w] = NextStage(w)]
    /\ UNCHANGED <<market, owed, lost, started, faults>>

\* The process is killed, at the time limit for one, and its message is gone, or
\* its container is lost and the message is delivered again.
WorkerLost(w) ==
    /\ run[w] # Resting /\ faults < MaxFaults /\ faults' = faults + 1
    /\ \E again \in BOOLEAN :
         /\ waiting' = IF again THEN Again(w) ELSE waiting
         /\ lost' = lost
              \cup (IF again THEN {} ELSE Forgotten(JobOf(w)))
              \cup (IF run[w].promises /\ ~(again /\ JobOf(w) \in InBatches)
                      THEN {FollowerOf(JobOf(w))} \cap owed ELSE {})
    /\ own' = [t \in OwnLocks |-> IF own[t] = w THEN TheDead ELSE own[t]]
    /\ market' = IF market = w THEN TheDead ELSE market
    /\ run' = [run EXCEPT ![w] = Resting]
    /\ UNCHANGED <<owed, started>>

\* The lease of a lock nobody is left to release.
DeadLeaseEnds ==
    /\ \/ market = TheDead /\ market' = Free /\ UNCHANGED own
       \/ \E t \in OwnLocks :
            own[t] = TheDead /\ own' = [own EXCEPT ![t] = Free] /\ UNCHANGED market
    /\ UNCHANGED <<waiting, run, owed, lost, started, faults>>

DayNext ==
    \/ \E task \in Started : StartTask(task)
    \/ \E w \in DayWorkers :
         \/ \E task \in DayTasks : Receive(w, task)
         \/ TakeOwnLock(w) \/ SkipRunning(w)
         \/ TakeMarketLock(w) \/ LockTimeout(w)
         \/ Store(w) \/ ReadAll(w) \/ Conclude(w) \/ AssessDay(w)
         \/ ReleaseMarketLock(w) \/ Leave(w) \/ WorkerLost(w)
    \/ DeadLeaseEnds

DaySpec == DayInit /\ [][DayNext]_dayVars

-----------------------------------------------------------------------------

\* Messages and runs that will lead to a run of the follower that reads all.
Pending(f) ==
    \/ waiting[f] > 0
    \/ f = "analysis" /\ \E b \in InBatches : waiting[b] > 0
    \/ \E w \in DayWorkers :
         /\ run[w].task # "none"
         /\ \/ JobOf(w) = f /\ run[w].read # "not all"
               /\ run[w].step \in {"own lock", "market lock", "working"}
            \/ f = "analysis" /\ JobOf(w) \in InBatches
            \/ run[w].promises /\ FollowerOf(JobOf(w)) = f

\* "a duplicate (manual + scheduled colliding) is Skipped, not
\* queued-then-Failed" (run_full_analysis_task), and nothing is lost by that:
\* what was stored is read by a run that is to come or under way, unless a
\* process died, the retries were used up, or the run that was in the way was
\* done but for its locks.
NothingForgotten == \A f \in owed : Pending(f) \/ f \in lost
=============================================================================
