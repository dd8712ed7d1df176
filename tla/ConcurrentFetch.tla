--------------------------- MODULE ConcurrentFetch ---------------------------
(***************************************************************************)
(* The network phase of a history fetch (concurrent_fetch.py): a batch of  *)
(* symbols is fetched one by one, by a pool of threads, or by coroutines   *)
(* over such a pool, and the caller gets one outcome for each symbol.  An  *)
(* attempt asks bdshare, which has no timeout and may never answer, and    *)
(* the archive; it is repeated while it finds nothing.                     *)
(*                                                                         *)
(* Symbols are numbered in the order of the batch.  Time is counted in     *)
(* ticks; whatever a thread or the batch can do at once it does before the *)
(* next tick.                                                              *)
(***************************************************************************)
EXTENDS Integers, FiniteSets

CONSTANTS Symbols,     \* a set 1..n
          Concurrency, \* MARKET_FETCH_CONCURRENCY
          MaxRetries,  \* MARKET_FETCH_MAX_RETRIES
          Patience,    \* ticks a symbol is waited for: timeout * (max_retries + 2)
          MaxWork      \* ticks a symbol's attempts and backoffs last, if they end

ASSUME BatchAssumption ==
    /\ Symbols \subseteq Nat /\ IsFiniteSet(Symbols)
    /\ Concurrency \in Nat \ {0} /\ MaxRetries \in Nat
    /\ MaxWork \in Nat \ {0} /\ Patience \in Nat /\ MaxWork < Patience

VARIABLES mode,    \* MARKET_FETCH_MODE
          hung,    \* symbols for which bdshare never answers
          place,   \* of a symbol's work: outside, queued, running, ended or cancelled
          tries,   \* attempts that ended
          found,   \* symbols whose attempts found rows
          worked,     \* ticks its thread has been at work
          waited,  \* ticks it has been waited for
          outcome, \* success, failure, timeout or still empty
          returned

fetchVars == <<mode, hung, place, tries, found, worked, waited, outcome, returned>>

FetchInit ==
    /\ mode \in {"sequential", "threadpool", "asyncio"}
    /\ hung \in SUBSET Symbols
    /\ place = [c \in Symbols |-> "outside"]
    /\ tries = [c \in Symbols |-> 0] /\ found = {}
    /\ worked = [c \in Symbols |-> 0] /\ waited = [c \in Symbols |-> 0]
    /\ outcome = [c \in Symbols |-> ""] /\ returned = FALSE

In(where) == {c \in Symbols : place[c] = where}
Open == {c \in Symbols : outcome[c] = ""}
Before(c) == {d \in Symbols : d < c}

-----------------------------------------------------------------------------
(* The pool                                                                *)

\* Fault: a permit is not given back.
RoomUnreleased(c) == mode = "asyncio" => Cardinality(Symbols \ In("outside")) < Concurrency

\* pool.submit of the whole batch; asyncio first takes one of Concurrency
\* permits, the loop of the sequential mode waits for the symbol before.
Room(c) ==
    CASE mode = "threadpool" -> TRUE
      [] mode = "asyncio"    -> Cardinality(Open \ In("outside")) < Concurrency
      [] OTHER               -> Before(c) \cap Open = {}

MaySubmit(c) == place[c] = "outside" /\ Before(c) \cap In("outside") = {} /\ Room(c)

Submit(c) ==
    /\ MaySubmit(c) /\ place' = [place EXCEPT ![c] = "queued"]
    /\ UNCHANGED <<mode, hung, tries, found, worked, waited, outcome, returned>>

MayStart(c) ==
    /\ place[c] = "queued" /\ Before(c) \cap In("queued") = {}
    /\ Cardinality(In("running")) < Concurrency

StartThread(c) ==
    /\ MayStart(c) /\ place' = [place EXCEPT ![c] = "running"]
    /\ UNCHANGED <<mode, hung, tries, found, worked, waited, outcome, returned>>

\* Whether there are rows; an error of bdshare or of the archive means there are none.
FromBdshare == BOOLEAN
FromArchive == BOOLEAN

\* fetch_dse_history: bdshare and the recent archive are both asked, the older
\* archive when neither has rows.
Merged(bdshare, recent, older) == bdshare \/ recent \/ older

\* _fetch_one_sync
AttemptEnds(c) ==
    /\ place[c] = "running" /\ c \notin hung
    /\ \E bdshare \in FromBdshare, recent \in FromArchive, older \in FromArchive :
         LET rows == Merged(bdshare, recent, older)
         IN  /\ found' = IF rows THEN found \cup {c} ELSE found
             /\ place' = [place EXCEPT ![c] = IF rows \/ tries[c] = MaxRetries THEN "ended" ELSE @]
    /\ tries' = [tries EXCEPT ![c] = @ + 1]
    /\ UNCHANGED <<mode, hung, worked, waited, outcome, returned>>

-----------------------------------------------------------------------------
(* The batch                                                               *)

\* Fault: every symbol's time counts from the start of the batch.
AwaitedAll == IF mode = "sequential" THEN {} ELSE Open

\* Futures are waited for in the order of the batch, coroutines each by itself
\* from the moment it has its permit.
Awaited ==
    CASE mode = "threadpool" -> {c \in Open : Before(c) \cap Open = {}}
      [] mode = "asyncio"    -> Open \ In("outside")
      [] OTHER               -> {}

MayCollect(c) == place[c] = "ended" /\ c \in IF mode = "sequential" THEN Open ELSE Awaited

CollectOutcome(c) ==
    /\ MayCollect(c)
    /\ outcome' = [outcome EXCEPT ![c] = IF c \in found THEN "success" ELSE "failure"]
    /\ UNCHANGED <<mode, hung, place, tries, found, worked, waited, returned>>

\* The thread is left alone; a coroutine's work that has not started is cancelled.
GiveUp(c) ==
    /\ c \in Awaited /\ place[c] # "ended" /\ waited[c] >= Patience
    /\ outcome' = [outcome EXCEPT ![c] = "timeout"]
    /\ place' = IF mode = "asyncio" /\ place[c] = "queued"
                  THEN [place EXCEPT ![c] = "cancelled"] ELSE place
    /\ UNCHANGED <<mode, hung, tries, found, worked, waited, returned>>

\* Leaving the pool's with block waits for its threads, given up or not.
ReturnBatch ==
    /\ ~returned /\ Open = {} /\ In("queued") \cup In("running") = {}
    /\ returned' = TRUE
    /\ UNCHANGED <<mode, hung, place, tries, found, worked, waited, outcome>>

FetchTick ==
    /\ ~returned
    /\ \A c \in Symbols : ~MaySubmit(c) /\ ~MayStart(c) /\ ~MayCollect(c)
    /\ \A c \in Awaited : waited[c] < Patience
    /\ \A c \in In("running") \ hung : worked[c] < MaxWork
    /\ worked' = [c \in Symbols |-> IF c \in In("running") \ hung THEN worked[c] + 1 ELSE worked[c]]
    /\ waited' = [c \in Symbols |-> IF c \in Awaited THEN waited[c] + 1 ELSE waited[c]]
    /\ worked' # worked \/ waited' # waited
    /\ UNCHANGED <<mode, hung, place, tries, found, outcome, returned>>

FetchNext ==
    \/ \E c \in Symbols : \/ Submit(c) \/ StartThread(c) \/ AttemptEnds(c)
                          \/ CollectOutcome(c) \/ GiveUp(c)
    \/ ReturnBatch \/ FetchTick

FetchSpec == FetchInit /\ [][FetchNext]_fetchVars /\ WF_fetchVars(FetchNext)

-----------------------------------------------------------------------------

\* "one failure, timeout, or retry exhaustion never cancels or blocks any other
\* symbol's fetch": so it is as long as a thread is left.  A symbol bdshare
\* answers for times out in the pool only when the symbols it does not answer for
\* hold every thread, with coroutines only when there is one; otherwise it gets
\* the outcome of its own attempts.
IsolatedWhileAThreadIsLeft ==
    \A c \in Symbols \ hung :
      outcome[c] = "timeout" => IF mode = "threadpool" THEN Cardinality(hung) >= Concurrency
                                ELSE mode = "asyncio" /\ hung # {}

\* Every symbol is tried, and tried again as often as it may be, unless it times
\* out; a batch bdshare answers ends with an outcome for each.
BatchEnds ==
    (hung = {}) => <>(/\ returned
                      /\ \A c \in Symbols : outcome[c] = IF c \in found THEN "success"
                                                        ELSE "failure")
=============================================================================
