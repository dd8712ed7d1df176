--------------------------- MODULE MarketWriteLock ---------------------------
(***************************************************************************)
(* The locks of the market-writing Celery jobs (market/services/locking.py *)
(* and autosync.py, as market/tasks.py calls them).                        *)
(*                                                                         *)
(* A job may first take a lock of its own without waiting (duplicates are  *)
(* skipped), then the thread lock of its process, then the Redis lock      *)
(* "market-write"; it writes, and releases the three in the reverse order. *)
(* A Redis lock is a lease: the key carries the owner's token and expires  *)
(* after its time to live whether or not the owner has finished.  Celery   *)
(* kills the process of a job at the job's hard time limit.                *)
(*                                                                         *)
(* A token is the worker that drew it.  The uuid of the code is fresh for  *)
(* each acquisition; a worker that acquires a key again found it free, so  *)
(* none of its older tokens is left in Redis and the two are the same.     *)
(***************************************************************************)
EXTENDS Integers

CONSTANTS Workers,      \* the tasks that can run at once, one per thread
          Processes,
          ProcessOf,    \* [Workers -> Processes]
          Jobs,
          Serves,       \* [Workers -> SUBSET Jobs], the queues of a worker
          Timeout,      \* [Jobs -> Nat], exclusive_db_write(timeout=...)
          Blocking,     \* [Jobs -> BOOLEAN], exclusive_db_write(blocking=...)
          Margin,       \* what exclusive_db_write adds to get the lease
          HardLimit,    \* [Jobs -> Nat], Celery time_limit
          OwnKey,       \* [Jobs -> Keys], the job's own lock or NoKey
          OwnTtl,       \* [Jobs -> Nat], the lease of that lock
          Keys,         \* the Redis keys bazaar:lock:*
          MarketWrite,  \* the key exclusive_db_write uses
          NoKey, NoJob, Nobody

ASSUME ConstantsAssumption ==
    /\ ProcessOf \in [Workers -> Processes]
    /\ Serves \in [Workers -> SUBSET Jobs]
    /\ Timeout \in [Jobs -> Nat]
    /\ Blocking \in [Jobs -> BOOLEAN]
    /\ Margin \in Nat \ {0}
    /\ HardLimit \in [Jobs -> Nat \ {0}]
    /\ OwnKey \in [Jobs -> (Keys \ {MarketWrite}) \cup {NoKey}]
    /\ OwnTtl \in [Jobs -> Nat \ {0}]
    /\ MarketWrite \in Keys
    /\ NoKey \notin Keys
    /\ NoJob \notin Jobs
    /\ Nobody \notin Workers

VARIABLES pc,          \* where the worker is in its job
          job,         \* the job it runs
          elapsed,     \* time since the job started
          waited,      \* time spent in the acquire it is blocked in
          threadLock,  \* db_write_lock of each process
          lease        \* each Redis key: its token and remaining life

vars == <<pc, job, elapsed, waited, threadLock, lease>>

-----------------------------------------------------------------------------

Phases == {"idle", "own", "thread", "redis", "writing",
           "unredis", "unthread", "unown"}

Free == [token |-> Nobody, ttl |-> 0]

\* Fault: the lease does not outlast the wait.
TtlWithoutMargin(j) == Timeout[j]

Ttl(j) == Timeout[j] + Margin

Wait(j) == IF Blocking[j] THEN Timeout[j] ELSE 0

Held(k) == lease[k].token # Nobody

\* SET key token NX PX ttl on a key that does not exist.
SetKey(w, k, ttl) == lease' = [lease EXCEPT ![k] = [token |-> w, ttl |-> ttl]]

\* Fault: DEL without comparing the token.
ReleasedUnchecked(w, k) == {lease, [lease EXCEPT ![k] = Free]}

\* The keys a compare-and-delete by w may leave: the script deletes the key
\* only when it holds w's token, and a Redis error on the way is swallowed.
Released(w, k) ==
    {lease} \cup
    IF lease[k].token = w THEN {[lease EXCEPT ![k] = Free]} ELSE {}

Move(w, phase) == pc' = [pc EXCEPT ![w] = phase]

\* The workers of W are done with their jobs.
Quit(W) ==
    /\ pc' = [w \in Workers |-> IF w \in W THEN "idle" ELSE pc[w]]
    /\ job' = [w \in Workers |-> IF w \in W THEN NoJob ELSE job[w]]
    /\ elapsed' = [w \in Workers |-> IF w \in W THEN 0 ELSE elapsed[w]]
    /\ waited' = [w \in Workers |-> IF w \in W THEN 0 ELSE waited[w]]

TypeOK ==
    /\ pc \in [Workers -> Phases]
    /\ job \in [Workers -> Jobs \cup {NoJob}]
    /\ elapsed \in [Workers -> Nat]
    /\ waited \in [Workers -> Nat]
    /\ threadLock \in [Processes -> Workers \cup {Nobody}]
    /\ lease \in [Keys -> [token : Workers \cup {Nobody}, ttl : Nat]]

Init ==
    /\ pc = [w \in Workers |-> "idle"]
    /\ job = [w \in Workers |-> NoJob]
    /\ elapsed = [w \in Workers |-> 0]
    /\ waited = [w \in Workers |-> 0]
    /\ threadLock = [p \in Processes |-> Nobody]
    /\ lease = [k \in Keys |-> Free]

-----------------------------------------------------------------------------

\* The worker takes a message from one of its queues.
Start(w, j) ==
    /\ pc[w] = "idle"
    /\ j \in Serves[w]
    /\ Move(w, IF OwnKey[j] = NoKey THEN "thread" ELSE "own")
    /\ job' = [job EXCEPT ![w] = j]
    /\ elapsed' = [elapsed EXCEPT ![w] = 0]
    /\ waited' = [waited EXCEPT ![w] = 0]
    /\ UNCHANGED <<threadLock, lease>>

\* distributed_lock(own key, blocking_timeout=0) succeeds.
TakeOwn(w) ==
    /\ pc[w] = "own"
    /\ ~Held(OwnKey[job[w]])
    /\ SetKey(w, OwnKey[job[w]], OwnTtl[job[w]])
    /\ Move(w, "thread")
    /\ UNCHANGED <<job, elapsed, waited, threadLock>>

\* ... or raises LockBusy: the duplicate returns skipped="already_running".
SkipDuplicate(w) ==
    /\ pc[w] = "own"
    /\ Held(OwnKey[job[w]])
    /\ Quit({w})
    /\ UNCHANGED <<threadLock, lease>>

TakeThread(w) ==
    /\ pc[w] = "thread"
    /\ threadLock[ProcessOf[w]] = Nobody
    /\ threadLock' = [threadLock EXCEPT ![ProcessOf[w]] = w]
    /\ Move(w, "redis")
    /\ waited' = [waited EXCEPT ![w] = 0]
    /\ UNCHANGED <<job, elapsed, lease>>

\* TimeoutError before the Redis lock was tried.
ThreadTimeout(w) ==
    /\ pc[w] = "thread"
    /\ threadLock[ProcessOf[w]] # Nobody
    /\ waited[w] >= Wait(job[w])
    /\ Move(w, "unown")
    /\ UNCHANGED <<job, elapsed, waited, threadLock, lease>>

\* Fault: SET without NX.
TakeRedisAlways(w) ==
    /\ pc[w] = "redis"
    /\ SetKey(w, MarketWrite, Ttl(job[w]))
    /\ Move(w, "writing")
    /\ waited' = [waited EXCEPT ![w] = 0]
    /\ UNCHANGED <<job, elapsed, threadLock>>

\* One of the polls of distributed_lock("market-write") succeeds.
TakeRedis(w) ==
    /\ pc[w] = "redis"
    /\ ~Held(MarketWrite)
    /\ SetKey(w, MarketWrite, Ttl(job[w]))
    /\ Move(w, "writing")
    /\ waited' = [waited EXCEPT ![w] = 0]
    /\ UNCHANGED <<job, elapsed, threadLock>>

\* The poll at the deadline fails: LockBusy, turned into TimeoutError.
RedisTimeout(w) ==
    /\ pc[w] = "redis"
    /\ Held(MarketWrite)
    /\ waited[w] >= Wait(job[w])
    /\ Move(w, "unthread")
    /\ UNCHANGED <<job, elapsed, waited, threadLock, lease>>

\* The body of the with statement returns or raises.
EndWrite(w) ==
    /\ pc[w] = "writing"
    /\ Move(w, "unredis")
    /\ UNCHANGED <<job, elapsed, waited, threadLock, lease>>

ReleaseRedis(w) ==
    /\ pc[w] = "unredis"
    /\ lease' \in Released(w, MarketWrite)
    /\ Move(w, "unthread")
    /\ UNCHANGED <<job, elapsed, waited, threadLock>>

ReleaseThread(w) ==
    /\ pc[w] = "unthread"
    /\ threadLock' = [threadLock EXCEPT ![ProcessOf[w]] = Nobody]
    /\ Move(w, "unown")
    /\ UNCHANGED <<job, elapsed, waited, lease>>

\* The job ends.  A TimeoutError is retried by Celery as a new Start.
Finish(w) ==
    /\ pc[w] = "unown"
    /\ IF OwnKey[job[w]] = NoKey
         THEN lease' = lease
         ELSE lease' \in Released(w, OwnKey[job[w]])
    /\ Quit({w})
    /\ UNCHANGED threadLock

\* A process dies: its threads stop writing and its thread lock is gone,
\* but what its jobs hold in Redis stays there until it expires.
Die(p) ==
    /\ Quit({w \in Workers : ProcessOf[w] = p})
    /\ threadLock' = [threadLock EXCEPT ![p] = Nobody]
    /\ UNCHANGED lease

OutOfTime(w) == pc[w] # "idle" /\ elapsed[w] >= HardLimit[job[w]]

\* Celery's hard time limit.
TimeLimit(w) == OutOfTime(w) /\ Die(ProcessOf[w])

\* A worker restart, an out-of-memory kill, a power cut.
Crash(w) == pc[w] # "idle" /\ Die(ProcessOf[w])

\* Fault: SET without PX.
Persistent(l) == l
Aged(l) == IF l.ttl > 1 THEN [token |-> l.token, ttl |-> l.ttl - 1] ELSE Free

\* Time passes for every clock; a key whose life ends is gone.
Tick ==
    /\ \E w \in Workers : pc[w] # "idle"
       \/ \E k \in Keys : Held(k)
    /\ \A w \in Workers : ~OutOfTime(w)
    /\ elapsed' = [w \in Workers |->
                     IF pc[w] = "idle" THEN elapsed[w] ELSE elapsed[w] + 1]
    /\ waited' = [w \in Workers |->
                    IF pc[w] \in {"thread", "redis"} /\ waited[w] < Wait(job[w])
                      THEN waited[w] + 1 ELSE waited[w]]
    /\ lease' = [k \in Keys |-> Aged(lease[k])]
    /\ UNCHANGED <<pc, job, threadLock>>

\* What the code of a running job does next.
Run(w) ==
    \/ TakeOwn(w) \/ SkipDuplicate(w)
    \/ TakeThread(w) \/ ThreadTimeout(w)
    \/ TakeRedis(w) \/ RedisTimeout(w)
    \/ EndWrite(w)
    \/ ReleaseRedis(w) \/ ReleaseThread(w) \/ Finish(w)

Next ==
    \/ Tick
    \/ \E w \in Workers :
         \/ \E j \in Jobs : Start(w, j)
         \/ Run(w)
         \/ TimeLimit(w)
         \/ Crash(w)

Spec == Init /\ [][Next]_vars

\* Time passes, Celery enforces its limits, and a lock operation that can be
\* carried out is: the operating system does not suspend a process forever.
\* Nothing makes a write end, a job start or a process crash.
FairSpec ==
    /\ Spec
    /\ WF_vars(Tick)
    /\ \A w \in Workers :
         /\ WF_vars(TimeLimit(w))
         /\ WF_vars(TakeOwn(w) \/ SkipDuplicate(w) \/ ThreadTimeout(w)
                    \/ TakeThread(w) \/ TakeRedis(w) \/ RedisTimeout(w))

-----------------------------------------------------------------------------

\* What MutualExclusion needs of the constants: the lease of "market-write"
\* is longer than Celery lets the job run.
LeaseOutlivesJob == \A j \in Jobs : HardLimit[j] < Ttl(j)

OwnLeaseOutlivesJob ==
    \A j \in Jobs : OwnKey[j] # NoKey => HardLimit[j] < OwnTtl[j]

\* Whether w is inside exclusive_db_write.
Writing(w) == pc[w] = "writing"

\* Whether w runs past the successful acquisition of its own lock.
InOwnLock(w) ==
    /\ pc[w] \notin {"idle", "own"}
    /\ OwnKey[job[w]] # NoKey

\* At no time are two workers inside exclusive_db_write, so SQLite is never
\* hit by two writers (docstring of autosync.py).
MutualExclusion ==
    \A v, w \in Workers : Writing(v) /\ Writing(w) => v = w

\* Two threads of one process never write together, even when the lease of
\* the first one ran out under it: the thread lock is held for the whole
\* body, so "both must be held together" is not vacuous.
ThreadExclusion ==
    \A v, w \in Workers :
      Writing(v) /\ Writing(w) /\ ProcessOf[v] = ProcessOf[w] => v = w

\* Of the jobs that take a lock of their own, at most one instance is past
\* it: a duplicate trigger is skipped, not run beside the first.
OneRunPerOwnLock ==
    \A v, w \in Workers :
      /\ InOwnLock(v)
      /\ InOwnLock(w)
      /\ OwnKey[job[v]] = OwnKey[job[w]]
      => v = w

\* A key that holds a token loses it only by expiry or by the release of the
\* very worker the token belongs to: a worker whose lease ran out while it
\* was writing never frees the lock of the one that came after it.
OnlyOwnerReleases ==
    [][\A k \in Keys : \A w \in Workers :
         lease[k].token = w /\ lease'[k].token # w
         => \/ pc[w] \in {"unredis", "unown"} /\ pc'[w] # pc[w]
            \/ lease[k].ttl = 1 /\ lease'[k] = Free /\ pc' = pc]_vars

\* A started job is over at some point, however long it waits for locks, and a
\* holder that died cannot wedge a lock: its lease ends.
NothingLastsForEver ==
    \A w \in Workers :
      /\ (pc[w] # "idle") ~> (pc[w] = "idle")
      /\ \A k \in Keys : (pc[w] = "idle" /\ lease[k].token = w) ~> (lease[k].token # w)

\* The refinement of the abstract lock.
Abstract == INSTANCE SingleWriter WITH
    writer <- IF \E w \in Workers : Writing(w)
                THEN CHOOSE w \in Workers : Writing(w)
                ELSE Nobody

ImplementsSingleWriter == Abstract!Spec
=============================================================================
