-------------------------- MODULE MCMarketWriteLock --------------------------
(***************************************************************************)
(* Instances of MarketWriteLock for TLC: two threads of one process and a  *)
(* second process; job "full" has a lock of its own and waits for the      *)
(* market lock, job "sync" has neither.  Times are in abstract units; what *)
(* matters is the order of hard limit, lease and wait, which each          *)
(* configuration chooses.                                                  *)
(***************************************************************************)
EXTENDS MarketWriteLock

MCWorkers == {"w1", "w2", "w3"}
MCProcesses == {"p1", "p2"}
MCProcessOf == [w \in MCWorkers |-> IF w = "w3" THEN "p2" ELSE "p1"]
MCJobs == {"full", "sync"}
MCServes == [w \in MCWorkers |-> MCJobs]
MCBlocking == [full |-> TRUE, sync |-> FALSE]
MCOwnKey == [full |-> "full-analysis", sync |-> "none"]
MCKeys == {"market-write", "full-analysis"}

\* Only w1 runs the job with the lock of its own, for the liveness checks.
FewServes == [w \in MCWorkers |-> IF w = "w1" THEN {"full"} ELSE {"sync"}]

\* The two Celery services of docker-compose.yml, concurrency 1 each:
\* "celery-worker-light" (w1) serves sync_live_market, "-heavy" (w3) serves
\* run_full_analysis (CELERY_TASK_ROUTES).
DeployWorkers == {"w1", "w3"}
DeployProcessOf == [w \in DeployWorkers |-> MCProcessOf[w]]
DeployServes == [w \in DeployWorkers |-> IF w = "w1" THEN {"sync"} ELSE {"full"}]

\* Every lease is longer than the hard limit of its job.
LongTimeout == [full |-> 2, sync |-> 2]
LongLimit == [full |-> 3, sync |-> 2]
LongOwnTtl == [full |-> 4, sync |-> 1]

\* The leases run out before the hard limits.
ShortTimeout == [full |-> 1, sync |-> 1]
ShortLimit == [full |-> 3, sync |-> 2]
ShortOwnTtl == [full |-> 2, sync |-> 1]

\* The times of run_full_analysis and sync_live_market in units of 30
\* seconds: waits 600 and 120, hard limits 900 and 90, own lease 900, and
\* leases of 630 and 150, one unit more than the waits (autosync.py:122,
\* tasks.py:35,185,198,199).
RealTimeout == [full |-> 20, sync |-> 4]
RealLimit == [full |-> 30, sync |-> 3]
RealOwnTtl == [full |-> 30, sync |-> 1]

=============================================================================
