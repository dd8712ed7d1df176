------------------------ MODULE MarketWriteLockProofs ------------------------
(***************************************************************************)
(* Proofs about MarketWriteLock for every set of workers, processes, jobs  *)
(* and keys, and for all times.                                            *)
(***************************************************************************)
EXTENDS MarketWriteLock, TLAPS

\* A worker that runs has a job.
BusyHasJob == \A w \in Workers : pc[w] # "idle" => job[w] \in Jobs

Typed == TypeOK /\ BusyHasJob

\* A worker that has passed the thread lock holds the one of its process.
HoldsThreadLock ==
    \A w \in Workers :
      pc[w] \in {"redis", "writing", "unredis", "unthread"}
      => threadLock[ProcessOf[w]] = w

\* A writer's token is in Redis, and what is left of the lease together with
\* what the job has run is still the whole lease.
HoldsLease ==
    \A w \in Workers :
      Writing(w) => /\ lease[MarketWrite].token = w
                    /\ lease[MarketWrite].ttl + elapsed[w] >= Ttl(job[w])

-----------------------------------------------------------------------------

LEMMA ReleasedTyped ==
    ASSUME TypeOK, NEW w \in Workers, NEW k \in Keys,
           NEW l \in Released(w, k)
    PROVE  l \in [Keys -> [token : Workers \cup {Nobody}, ttl : Nat]]
  BY DEF TypeOK, Released, Free

LEMMA QuitTyped ==
    ASSUME TypeOK, NEW W, Quit(W)
    PROVE  /\ pc' \in [Workers -> Phases]
           /\ job' \in [Workers -> Jobs \cup {NoJob}]
           /\ elapsed' \in [Workers -> Nat]
           /\ waited' \in [Workers -> Nat]
  BY DEF TypeOK, Quit, Phases

LEMMA OwnKeyTyped ==
    ASSUME Typed, NEW w \in Workers, pc[w] # "idle"
    PROVE  /\ OwnKey[job[w]] # NoKey => OwnKey[job[w]] \in Keys
           /\ OwnKey[job[w]] # MarketWrite
           /\ OwnTtl[job[w]] \in Nat \ {0}
           /\ Ttl(job[w]) \in Nat \ {0}
           /\ HardLimit[job[w]] \in Nat \ {0}
  BY ConstantsAssumption DEF Typed, BusyHasJob, Ttl

LEMMA InitTyped == Init => Typed
  BY ConstantsAssumption DEF Init, Typed, TypeOK, BusyHasJob, Phases, Free

\* Every step keeps the types and keeps a job in every running worker.
LEMMA NextTyped == Typed /\ [Next]_vars => Typed'
<1> SUFFICES ASSUME Typed, [Next]_vars PROVE Typed'
  OBVIOUS
<1> USE ConstantsAssumption
<1>1. ASSUME NEW w \in Workers, NEW j \in Jobs, Start(w, j) PROVE Typed'
  BY <1>1 DEF Typed, TypeOK, BusyHasJob, Start, Move, Phases
<1>2. ASSUME NEW w \in Workers, TakeOwn(w) PROVE Typed'
  <2>1. pc[w] = "own"
    BY <1>2 DEF TakeOwn
  <2>2. OwnTtl[job[w]] \in Nat
    BY <2>1, OwnKeyTyped
  <2>3. lease' \in [Keys -> [token : Workers \cup {Nobody}, ttl : Nat]]
    BY <1>2, <2>2 DEF TakeOwn, SetKey, Typed, TypeOK
  <2>. QED
    BY <1>2, <2>1, <2>3 DEF Typed, TypeOK, BusyHasJob, TakeOwn, Move, Phases
<1>3. ASSUME NEW w \in Workers, SkipDuplicate(w) PROVE Typed'
  BY <1>3, QuitTyped
  DEF Typed, TypeOK, BusyHasJob, SkipDuplicate, Quit
<1>4. ASSUME NEW w \in Workers, TakeThread(w) PROVE Typed'
  BY <1>4 DEF Typed, TypeOK, BusyHasJob, TakeThread, Move, Phases
<1>5. ASSUME NEW w \in Workers, ThreadTimeout(w) PROVE Typed'
  BY <1>5 DEF Typed, TypeOK, BusyHasJob, ThreadTimeout, Move, Phases
<1>6. ASSUME NEW w \in Workers, TakeRedis(w) PROVE Typed'
  <2>1. pc[w] = "redis"
    BY <1>6 DEF TakeRedis
  <2>2. Ttl(job[w]) \in Nat
    BY <2>1, OwnKeyTyped
  <2>3. lease' \in [Keys -> [token : Workers \cup {Nobody}, ttl : Nat]]
    BY <1>6, <2>2 DEF TakeRedis, SetKey, Typed, TypeOK
  <2>. QED
    BY <1>6, <2>1, <2>3 DEF Typed, TypeOK, BusyHasJob, TakeRedis, Move, Phases
<1>7. ASSUME NEW w \in Workers, RedisTimeout(w) PROVE Typed'
  BY <1>7 DEF Typed, TypeOK, BusyHasJob, RedisTimeout, Move, Phases
<1>8. ASSUME NEW w \in Workers, EndWrite(w) PROVE Typed'
  BY <1>8 DEF Typed, TypeOK, BusyHasJob, EndWrite, Move, Phases
<1>9. ASSUME NEW w \in Workers, ReleaseRedis(w) PROVE Typed'
  <2>1. lease' \in [Keys -> [token : Workers \cup {Nobody}, ttl : Nat]]
    BY <1>9, ReleasedTyped DEF ReleaseRedis, Typed
  <2>. QED
    BY <1>9, <2>1 DEF Typed, TypeOK, BusyHasJob, ReleaseRedis, Move, Phases
<1>10. ASSUME NEW w \in Workers, ReleaseThread(w) PROVE Typed'
  BY <1>10 DEF Typed, TypeOK, BusyHasJob, ReleaseThread, Move, Phases
<1>11. ASSUME NEW w \in Workers, Finish(w) PROVE Typed'
  <2>1. pc[w] = "unown"
    BY <1>11 DEF Finish
  <2>2. lease' \in [Keys -> [token : Workers \cup {Nobody}, ttl : Nat]]
    <3>1. CASE OwnKey[job[w]] = NoKey
      BY <3>1, <1>11 DEF Finish, Typed, TypeOK
    <3>2. CASE OwnKey[job[w]] # NoKey
      BY <3>2, <1>11, <2>1, OwnKeyTyped, ReleasedTyped DEF Finish, Typed
    <3>. QED
      BY <3>1, <3>2
  <2>. QED
    BY <1>11, <2>2, QuitTyped DEF Typed, TypeOK, BusyHasJob, Finish, Quit
<1>12. ASSUME NEW w \in Workers, Die(ProcessOf[w]) PROVE Typed'
  BY <1>12, QuitTyped DEF Typed, TypeOK, BusyHasJob, Die, Quit
<1>13. CASE Tick
  <2>1. elapsed' \in [Workers -> Nat]
    BY <1>13 DEF Tick, Typed, TypeOK
  <2>2. waited' \in [Workers -> Nat]
    BY <1>13 DEF Tick, Typed, TypeOK
  <2>3. \A k \in Keys : Aged(lease[k]) \in [token : Workers \cup {Nobody}, ttl : Nat]
    BY DEF Typed, TypeOK, Aged, Free
  <2>. QED
    BY <1>13, <2>1, <2>2, <2>3 DEF Tick, Typed, TypeOK, BusyHasJob
<1>14. CASE UNCHANGED vars
  BY <1>14 DEF vars, Typed, TypeOK, BusyHasJob
<1>. QED
  BY <1>1, <1>2, <1>3, <1>4, <1>5, <1>6, <1>7, <1>8, <1>9, <1>10, <1>11,
     <1>12, <1>13, <1>14
  DEF Next, Run, TimeLimit, Crash

\* The types, and that a running worker has a job, in every reachable state.
LEMMA AlwaysTyped == Spec => []Typed
  BY InitTyped, NextTyped, PTL DEF Spec

\* The worker states, locks and leases keep their types.
THEOREM TypeCorrect == Spec => []TypeOK
<1>1. Typed => TypeOK
  BY DEF Typed
<1> QED
  BY <1>1, AlwaysTyped, PTL

-----------------------------------------------------------------------------

\* The thread lock is kept from TakeThread to ReleaseThread: no other thread
\* of the process can take it and no death of another process frees it.
LEMMA NextHoldsThreadLock ==
    Typed /\ HoldsThreadLock /\ [Next]_vars => HoldsThreadLock'
<1> SUFFICES ASSUME Typed, HoldsThreadLock, [Next]_vars
             PROVE  HoldsThreadLock'
  OBVIOUS
<1> USE ConstantsAssumption DEF Typed, TypeOK, HoldsThreadLock
<1>1. ASSUME NEW w \in Workers, NEW j \in Jobs, Start(w, j)
      PROVE  HoldsThreadLock'
  BY <1>1 DEF Start, Move
<1>2. ASSUME NEW w \in Workers, TakeOwn(w) PROVE HoldsThreadLock'
  BY <1>2 DEF TakeOwn, Move
<1>3. ASSUME NEW w \in Workers, SkipDuplicate(w) PROVE HoldsThreadLock'
  BY <1>3 DEF SkipDuplicate, Quit
<1>4. ASSUME NEW w \in Workers, TakeThread(w) PROVE HoldsThreadLock'
  BY <1>4 DEF TakeThread, Move
<1>5. ASSUME NEW w \in Workers, ThreadTimeout(w) PROVE HoldsThreadLock'
  BY <1>5 DEF ThreadTimeout, Move
<1>6. ASSUME NEW w \in Workers, TakeRedis(w) PROVE HoldsThreadLock'
  BY <1>6 DEF TakeRedis, Move
<1>7. ASSUME NEW w \in Workers, RedisTimeout(w) PROVE HoldsThreadLock'
  BY <1>7 DEF RedisTimeout, Move
<1>8. ASSUME NEW w \in Workers, EndWrite(w) PROVE HoldsThreadLock'
  BY <1>8 DEF EndWrite, Move
<1>9. ASSUME NEW w \in Workers, ReleaseRedis(w) PROVE HoldsThreadLock'
  BY <1>9 DEF ReleaseRedis, Move
<1>10. ASSUME NEW w \in Workers, ReleaseThread(w) PROVE HoldsThreadLock'
  BY <1>10 DEF ReleaseThread, Move
<1>11. ASSUME NEW w \in Workers, Finish(w) PROVE HoldsThreadLock'
  BY <1>11 DEF Finish, Quit
<1>12. ASSUME NEW w \in Workers, Die(ProcessOf[w]) PROVE HoldsThreadLock'
  BY <1>12 DEF Die, Quit
<1>13. CASE Tick
  BY <1>13 DEF Tick
<1>14. CASE UNCHANGED vars
  BY <1>14 DEF vars
<1>. QED
  BY <1>1, <1>2, <1>3, <1>4, <1>5, <1>6, <1>7, <1>8, <1>9, <1>10, <1>11,
     <1>12, <1>13, <1>14
  DEF Next, Run, TimeLimit, Crash

\* Two threads of one process are never both inside exclusive_db_write,
\* whatever the leases and the hard limits are.
THEOREM ThreadsExclude == Spec => []ThreadExclusion
<1>1. Init => HoldsThreadLock
  BY DEF Init, HoldsThreadLock
<1>2. HoldsThreadLock => ThreadExclusion
  BY DEF HoldsThreadLock, ThreadExclusion, Writing
<1>. QED
  BY <1>1, <1>2, AlwaysTyped, NextHoldsThreadLock, PTL DEF Spec

-----------------------------------------------------------------------------

\* While a writer runs within its hard limit its lease cannot run out, so no
\* poll of another worker succeeds and no script of another deletes the key.
LEMMA NextHoldsLease ==
    ASSUME LeaseOutlivesJob
    PROVE  Typed /\ HoldsLease /\ [Next]_vars => HoldsLease'
<1> SUFFICES ASSUME Typed, HoldsLease, [Next]_vars PROVE HoldsLease'
  OBVIOUS
<1> USE ConstantsAssumption DEF Typed, TypeOK, BusyHasJob, HoldsLease, Writing
<1>1. ASSUME NEW w \in Workers, NEW j \in Jobs, Start(w, j) PROVE HoldsLease'
  BY <1>1 DEF Start, Move
<1>2. ASSUME NEW w \in Workers, TakeOwn(w) PROVE HoldsLease'
  <2>1. pc[w] = "own" /\ OwnKey[job[w]] # MarketWrite
    BY <1>2, OwnKeyTyped DEF TakeOwn
  <2>. QED
    BY <1>2, <2>1 DEF TakeOwn, SetKey, Move
<1>3. ASSUME NEW w \in Workers, SkipDuplicate(w) PROVE HoldsLease'
  BY <1>3 DEF SkipDuplicate, Quit
<1>4. ASSUME NEW w \in Workers, TakeThread(w) PROVE HoldsLease'
  BY <1>4 DEF TakeThread, Move
<1>5. ASSUME NEW w \in Workers, ThreadTimeout(w) PROVE HoldsLease'
  BY <1>5 DEF ThreadTimeout, Move
<1>6. ASSUME NEW w \in Workers, TakeRedis(w) PROVE HoldsLease'
  <2>1. \A v \in Workers : ~Writing(v)
    BY <1>6 DEF TakeRedis, Held
  <2>2. Ttl(job[w]) \in Nat
    BY <1>6, OwnKeyTyped DEF TakeRedis
  <2>. QED
    BY <1>6, <2>1, <2>2 DEF TakeRedis, SetKey, Move
<1>7. ASSUME NEW w \in Workers, RedisTimeout(w) PROVE HoldsLease'
  BY <1>7 DEF RedisTimeout, Move
<1>8. ASSUME NEW w \in Workers, EndWrite(w) PROVE HoldsLease'
  BY <1>8 DEF EndWrite, Move
<1>9. ASSUME NEW w \in Workers, ReleaseRedis(w) PROVE HoldsLease'
  <2>1. \A v \in Workers : Writing(v) => v # w /\ Writing(v)' = Writing(v)
    BY <1>9 DEF ReleaseRedis, Move
  <2>2. CASE lease[MarketWrite].token = w
    BY <1>9, <2>1, <2>2 DEF ReleaseRedis, Move
  <2>3. CASE lease[MarketWrite].token # w
    BY <1>9, <2>1, <2>3 DEF ReleaseRedis, Released, Move
  <2>. QED
    BY <2>2, <2>3
<1>10. ASSUME NEW w \in Workers, ReleaseThread(w) PROVE HoldsLease'
  BY <1>10 DEF ReleaseThread, Move
<1>11. ASSUME NEW w \in Workers, Finish(w) PROVE HoldsLease'
  <2>1. OwnKey[job[w]] # MarketWrite
    BY <1>11, OwnKeyTyped DEF Finish
  <2>2. lease'[MarketWrite] = lease[MarketWrite]
    BY <1>11, <2>1 DEF Finish, Released
  <2>. QED
    BY <1>11, <2>2 DEF Finish, Quit
<1>12. ASSUME NEW w \in Workers, Die(ProcessOf[w]) PROVE HoldsLease'
  BY <1>12 DEF Die, Quit
<1>13. CASE Tick
  <2> SUFFICES ASSUME NEW w \in Workers, Writing(w)'
               PROVE  /\ lease'[MarketWrite].token = w
                      /\ lease'[MarketWrite].ttl + elapsed'[w] >= Ttl(job'[w])
    OBVIOUS
  <2>1. pc[w] = "writing" /\ job' = job
    BY <1>13 DEF Tick
  <2>2. elapsed[w] < HardLimit[job[w]]
    BY <1>13, <2>1, OwnKeyTyped DEF Tick, OutOfTime
  <2>3. HardLimit[job[w]] < Ttl(job[w])
    BY <2>1 DEF LeaseOutlivesJob
  <2>4. lease[MarketWrite].ttl > 1
    BY <2>1, <2>2, <2>3, OwnKeyTyped
  <2>5. lease'[MarketWrite] = [token |-> w, ttl |-> lease[MarketWrite].ttl - 1]
    BY <1>13, <2>1, <2>4 DEF Tick, Aged
  <2>6. elapsed'[w] = elapsed[w] + 1
    BY <1>13, <2>1 DEF Tick
  <2>. QED
    BY <2>1, <2>5, <2>6, OwnKeyTyped
<1>14. CASE UNCHANGED vars
  BY <1>14 DEF vars, Ttl
<1>. QED
  BY <1>1, <1>2, <1>3, <1>4, <1>5, <1>6, <1>7, <1>8, <1>9, <1>10, <1>11,
     <1>12, <1>13, <1>14
  DEF Next, Run, TimeLimit, Crash

LEMMA LeaseInvariant ==
    ASSUME LeaseOutlivesJob
    PROVE  Spec => [](Typed /\ HoldsLease)
<1>1. Init => HoldsLease
  BY DEF Init, HoldsLease, Writing
<1>. QED
  BY <1>1, AlwaysTyped, NextHoldsLease, PTL DEF Spec

\* When every lease is longer than the hard limit of its job, no two workers
\* are ever inside exclusive_db_write: what autosync.py promises.
THEOREM MutualExclusionHolds ==
    ASSUME LeaseOutlivesJob
    PROVE  Spec => []MutualExclusion
<1>1. HoldsLease => MutualExclusion
  BY DEF HoldsLease, MutualExclusion
<1>. QED
  BY <1>1, LeaseInvariant, PTL

-----------------------------------------------------------------------------

\* The abstract writer is the worker that writes.
WriterBar == IF \E w \in Workers : Writing(w)
               THEN CHOOSE w \in Workers : Writing(w)
               ELSE Nobody

LEMMA WriterBarIs ==
    ASSUME MutualExclusion, NEW w \in Workers, Writing(w)
    PROVE  WriterBar = w
<1>1. (CHOOSE v \in Workers : Writing(v)) \in Workers
      /\ Writing(CHOOSE v \in Workers : Writing(v))
  OBVIOUS
<1>. QED
  BY <1>1 DEF MutualExclusion, WriterBar

\* A step that changes who writes is the beginning or the end of one writer.
LEMMA WriterBarStep ==
    ASSUME Typed, MutualExclusion, MutualExclusion', [Next]_vars
    PROVE  \/ WriterBar' = WriterBar
           \/ WriterBar # Nobody /\ WriterBar' = Nobody
           \/ WriterBar = Nobody /\ \E w \in Workers : WriterBar' = w
<1>1. ASSUME NEW v \in Workers, NEW w \in Workers, Writing(v), Writing(w)'
      PROVE  v = w
  <2>1. CASE Writing(w)
    BY <1>1, <2>1 DEF MutualExclusion
  <2>2. CASE ~Writing(w)
    <3>1. TakeRedis(w) \/ Writing(v)'
      BY <1>1, <2>2
      DEF Next, Run, vars, Writing, Start, TakeOwn, SkipDuplicate, TakeThread,
          ThreadTimeout, TakeRedis, RedisTimeout, EndWrite, ReleaseRedis,
          ReleaseThread, Finish, TimeLimit, Crash, Die, Quit, Move, Tick, Typed,
          TypeOK
    <3>2. Writing(v)'
      BY <1>1, <2>2, <3>1 DEF TakeRedis, Move, Writing, Typed, TypeOK
    <3>. QED
      BY <1>1, <3>2 DEF MutualExclusion
  <2>. QED
    BY <2>1, <2>2
<1>2. CASE \E w \in Workers : Writing(w)
  <2>1. PICK v \in Workers : Writing(v)
    BY <1>2
  <2>2. WriterBar = v /\ v # Nobody
    BY <2>1, WriterBarIs, ConstantsAssumption
  <2>3. CASE \E w \in Workers : Writing(w)'
    <3>1. \A w \in Workers : Writing(w)' => w = v
      BY <1>1, <2>1
    <3>2. WriterBar' = v
      BY <2>3, <3>1 DEF WriterBar
    <3>. QED
      BY <2>2, <3>2
  <2>4. CASE ~\E w \in Workers : Writing(w)'
    BY <2>2, <2>4 DEF WriterBar
  <2>. QED
    BY <2>3, <2>4
<1>3. CASE ~\E w \in Workers : Writing(w)
  <2>1. WriterBar = Nobody
    BY <1>3 DEF WriterBar
  <2>2. WriterBar' \in Workers \cup {Nobody}
    BY DEF WriterBar
  <2>. QED
    BY <2>1, <2>2
<1>. QED
  BY <1>2, <1>3

\* With leases longer than the hard limits the locking code implements the
\* abstract single writer.
THEOREM Refinement ==
    ASSUME LeaseOutlivesJob
    PROVE  Spec => ImplementsSingleWriter
<1>1. Init => Abstract!Init
  BY DEF Init, Abstract!Init, Writing
<1>2. Typed /\ MutualExclusion /\ MutualExclusion' /\ [Next]_vars
      => [Abstract!Next]_WriterBar
  BY WriterBarStep
  DEF WriterBar, Abstract!Next, Abstract!Begin, Abstract!End
<1>. QED
  BY <1>1, <1>2, AlwaysTyped, MutualExclusionHolds, PTL
  DEF Spec, ImplementsSingleWriter, Abstract!Spec, WriterBar

-----------------------------------------------------------------------------

\* A job past its own lock still has its token in Redis.
HoldsOwnLease ==
    \A w \in Workers :
      InOwnLock(w) => /\ lease[OwnKey[job[w]]].token = w
                      /\ lease[OwnKey[job[w]]].ttl + elapsed[w] >= OwnTtl[job[w]]

LEMMA NextHoldsOwnLease ==
    ASSUME OwnLeaseOutlivesJob
    PROVE  Typed /\ HoldsOwnLease /\ [Next]_vars => HoldsOwnLease'
<1> SUFFICES ASSUME Typed, HoldsOwnLease, [Next]_vars PROVE HoldsOwnLease'
  OBVIOUS
<1> USE ConstantsAssumption
    DEF Typed, TypeOK, BusyHasJob, HoldsOwnLease, InOwnLock
<1>1. ASSUME NEW w \in Workers, NEW j \in Jobs, Start(w, j)
      PROVE  HoldsOwnLease'
  BY <1>1 DEF Start, Move
<1>2. ASSUME NEW w \in Workers, TakeOwn(w) PROVE HoldsOwnLease'
  <2>1. OwnTtl[job[w]] \in Nat /\ pc[w] = "own" /\ job' = job
    BY <1>2, OwnKeyTyped DEF TakeOwn
  <2>2. ASSUME NEW v \in Workers, InOwnLock(v)
        PROVE  OwnKey[job[v]] # OwnKey[job[w]]
    BY <1>2, <2>2 DEF TakeOwn, Held
  <2>3. \A v \in Workers : v # w => InOwnLock(v)' = InOwnLock(v)
    BY <1>2 DEF TakeOwn, Move
  <2>. QED
    BY <1>2, <2>1, <2>2, <2>3 DEF TakeOwn, SetKey, Move
<1>3. ASSUME NEW w \in Workers, SkipDuplicate(w) PROVE HoldsOwnLease'
  BY <1>3 DEF SkipDuplicate, Quit
<1>4. ASSUME NEW w \in Workers, TakeThread(w) PROVE HoldsOwnLease'
  BY <1>4 DEF TakeThread, Move
<1>5. ASSUME NEW w \in Workers, ThreadTimeout(w) PROVE HoldsOwnLease'
  BY <1>5 DEF ThreadTimeout, Move
<1>6. ASSUME NEW w \in Workers, TakeRedis(w) PROVE HoldsOwnLease'
  <2>1. \A v \in Workers : InOwnLock(v)' = InOwnLock(v)
    BY <1>6 DEF TakeRedis, Move
  <2>2. \A v \in Workers : InOwnLock(v) => OwnKey[job[v]] # MarketWrite
    BY OwnKeyTyped
  <2>. QED
    BY <1>6, <2>1, <2>2 DEF TakeRedis, SetKey
<1>7. ASSUME NEW w \in Workers, RedisTimeout(w) PROVE HoldsOwnLease'
  BY <1>7 DEF RedisTimeout, Move
<1>8. ASSUME NEW w \in Workers, EndWrite(w) PROVE HoldsOwnLease'
  BY <1>8 DEF EndWrite, Move
<1>9. ASSUME NEW w \in Workers, ReleaseRedis(w) PROVE HoldsOwnLease'
  <2>1. \A v \in Workers : InOwnLock(v)' = InOwnLock(v)
    BY <1>9 DEF ReleaseRedis, Move
  <2>2. \A v \in Workers : InOwnLock(v) => OwnKey[job[v]] # MarketWrite
    BY OwnKeyTyped
  <2>3. \A k \in Keys : k # MarketWrite => lease'[k] = lease[k]
    BY <1>9 DEF ReleaseRedis, Released
  <2>4. \A v \in Workers : InOwnLock(v) => OwnKey[job[v]] \in Keys
    BY OwnKeyTyped
  <2>. QED
    BY <1>9, <2>1, <2>2, <2>3, <2>4 DEF ReleaseRedis
<1>10. ASSUME NEW w \in Workers, ReleaseThread(w) PROVE HoldsOwnLease'
  BY <1>10 DEF ReleaseThread, Move
<1>11. ASSUME NEW w \in Workers, Finish(w) PROVE HoldsOwnLease'
  <2> SUFFICES ASSUME NEW v \in Workers, InOwnLock(v)'
               PROVE  /\ lease'[OwnKey[job'[v]]].token = v
                      /\ lease'[OwnKey[job'[v]]].ttl + elapsed'[v]
                           >= OwnTtl[job'[v]]
    OBVIOUS
  <2>1. v # w /\ InOwnLock(v) /\ job'[v] = job[v] /\ elapsed'[v] = elapsed[v]
    BY <1>11 DEF Finish, Quit
  <2>2. OwnKey[job[v]] \in Keys /\ lease[OwnKey[job[v]]].token = v
    BY <2>1, OwnKeyTyped
  <2>3. lease'[OwnKey[job[v]]] = lease[OwnKey[job[v]]]
    BY <1>11, <2>1, <2>2 DEF Finish, Released
  <2>. QED
    BY <2>1, <2>3
<1>12. ASSUME NEW w \in Workers, Die(ProcessOf[w]) PROVE HoldsOwnLease'
  BY <1>12 DEF Die, Quit
<1>13. CASE Tick
  <2> SUFFICES ASSUME NEW w \in Workers, InOwnLock(w)'
               PROVE  /\ lease'[OwnKey[job'[w]]].token = w
                      /\ lease'[OwnKey[job'[w]]].ttl + elapsed'[w]
                           >= OwnTtl[job'[w]]
    OBVIOUS
  <2>1. pc[w] # "idle" /\ job' = job /\ InOwnLock(w)
    BY <1>13 DEF Tick
  <2> DEFINE k == OwnKey[job[w]]
  <2>2. elapsed[w] < HardLimit[job[w]] /\ k \in Keys
    BY <1>13, <2>1, OwnKeyTyped DEF Tick, OutOfTime
  <2>3. HardLimit[job[w]] < OwnTtl[job[w]]
    BY <2>1 DEF OwnLeaseOutlivesJob
  <2>4. lease[k].ttl > 1
    BY <2>1, <2>2, <2>3, OwnKeyTyped
  <2>5. lease'[k] = [token |-> w, ttl |-> lease[k].ttl - 1]
    BY <1>13, <2>1, <2>2, <2>4 DEF Tick, Aged
  <2>6. elapsed'[w] = elapsed[w] + 1
    BY <1>13, <2>1 DEF Tick
  <2>. QED
    BY <2>1, <2>2, <2>5, <2>6, OwnKeyTyped
<1>14. CASE UNCHANGED vars
  BY <1>14 DEF vars
<1>. QED
  BY <1>1, <1>2, <1>3, <1>4, <1>5, <1>6, <1>7, <1>8, <1>9, <1>10, <1>11,
     <1>12, <1>13, <1>14
  DEF Next, Run, TimeLimit, Crash

\* When the lease of a job's own lock is longer than its hard limit, the
\* locked part of such jobs never runs twice at the same time.
THEOREM OwnLocksExclude ==
    ASSUME OwnLeaseOutlivesJob
    PROVE  Spec => []OneRunPerOwnLock
<1>1. Init => HoldsOwnLease
  BY DEF Init, HoldsOwnLease, InOwnLock
<1>2. HoldsOwnLease => OneRunPerOwnLock
  BY DEF HoldsOwnLease, OneRunPerOwnLock
<1>. QED
  BY <1>1, <1>2, AlwaysTyped, NextHoldsOwnLease, PTL DEF Spec

-----------------------------------------------------------------------------

\* What one step may do to a key that holds w's token.
KeepsOrOwnerReleases(w, k) ==
    lease[k].token = w /\ lease'[k].token # w
    => \/ pc[w] \in {"unredis", "unown"} /\ pc'[w] # pc[w]
       \/ lease[k].ttl = 1 /\ lease'[k] = Free /\ pc' = pc

\* Redis is cleared of a dead token only by time.
TtlPositive == \A k \in Keys : Held(k) => lease[k].ttl > 0

LEMMA NextTtlPositive == Typed /\ TtlPositive /\ [Next]_vars => TtlPositive'
<1> SUFFICES ASSUME Typed, TtlPositive, [Next]_vars PROVE TtlPositive'
  OBVIOUS
<1> USE ConstantsAssumption DEF Typed, TypeOK, TtlPositive, Held
<1>1. ASSUME NEW w \in Workers, TakeOwn(w) PROVE TtlPositive'
  <2>1. OwnTtl[job[w]] > 0
    BY <1>1, OwnKeyTyped DEF TakeOwn
  <2>. QED
    BY <1>1, <2>1 DEF TakeOwn, SetKey
<1>2. ASSUME NEW w \in Workers, TakeRedis(w) PROVE TtlPositive'
  <2>1. Ttl(job[w]) > 0
    BY <1>2, OwnKeyTyped DEF TakeRedis
  <2>. QED
    BY <1>2, <2>1 DEF TakeRedis, SetKey
<1>3. ASSUME NEW w \in Workers, ReleaseRedis(w) \/ Finish(w) PROVE TtlPositive'
  BY <1>3 DEF ReleaseRedis, Finish, Released, Free
<1>4. CASE Tick
  BY <1>4 DEF Tick, Aged, Free
<1>5. CASE UNCHANGED lease
  BY <1>5
<1>. QED
  BY <1>1, <1>2, <1>3, <1>4, <1>5
  DEF Next, Run, TimeLimit, Crash, Die, vars, Start, SkipDuplicate,
      TakeThread, ThreadTimeout, RedisTimeout, EndWrite, ReleaseThread

LEMMA StepKeepsOrOwnerReleases ==
    ASSUME Typed, TtlPositive, [Next]_vars, NEW w \in Workers, NEW k \in Keys
    PROVE  KeepsOrOwnerReleases(w, k)
<1> SUFFICES ASSUME lease[k].token = w, lease'[k].token # w
             PROVE  \/ pc[w] \in {"unredis", "unown"} /\ pc'[w] # pc[w]
                    \/ lease[k].ttl = 1 /\ lease'[k] = Free /\ pc' = pc
  BY DEF KeepsOrOwnerReleases
<1> USE ConstantsAssumption DEF Typed, TypeOK
<1>1. Held(k)
  BY DEF Held
<1>2. ASSUME NEW v \in Workers, TakeOwn(v) \/ TakeRedis(v) PROVE FALSE
  BY <1>2, <1>1 DEF TakeOwn, TakeRedis, SetKey, Held
<1>3. ASSUME NEW v \in Workers, ReleaseRedis(v)
      PROVE  pc[w] = "unredis" /\ pc'[w] # pc[w]
  BY <1>3 DEF ReleaseRedis, Released, Move
<1>4. ASSUME NEW v \in Workers, Finish(v)
      PROVE  pc[w] = "unown" /\ pc'[w] # pc[w]
  BY <1>4 DEF Finish, Released, Quit
<1>5. CASE Tick
  BY <1>1, <1>5 DEF Tick, Aged, TtlPositive
<1>6. ~ UNCHANGED lease
  OBVIOUS
<1>. QED
  BY <1>2, <1>3, <1>4, <1>5, <1>6
  DEF Next, Run, TimeLimit, Crash, Die, vars, Start, SkipDuplicate,
      TakeThread, ThreadTimeout, RedisTimeout, EndWrite, ReleaseThread

\* Whatever the leases and limits are, a Redis key loses its token only when
\* it expires or when its own worker releases it.
THEOREM OwnerReleases == Spec => OnlyOwnerReleases
<1>1. Init => TtlPositive
  BY DEF Init, TtlPositive, Held, Free
<1>2. Typed /\ TtlPositive /\ [Next]_vars
      => [\A k \in Keys : \A w \in Workers : KeepsOrOwnerReleases(w, k)]_vars
  BY StepKeepsOrOwnerReleases
<1>. QED
  BY <1>1, <1>2, AlwaysTyped, NextTtlPositive, PTL
  DEF Spec, OnlyOwnerReleases, KeepsOrOwnerReleases
=============================================================================
