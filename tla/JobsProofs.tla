----------------------------- MODULE JobsProofs -----------------------------
(***************************************************************************)
(* The jobs about the market, for every instance: no price is overwritten  *)
(* without a trace, a share that hangs costs the others nothing while a    *)
(* thread is left, a notice is repeated only after a fault, no owner of an *)
(* alert is left behind its rule, what a job of the day stores is read by  *)
(* another, the calendar answers for the days it covers, and what the      *)
(* exchange publishes is copied.                                           *)
(***************************************************************************)
EXTENDS PriceBars, ConcurrentFetch, DailyNotices, PersonalAlerts, DayPipeline,
        TradingCalendar, PublishedNotices, FiniteSums

(***************************************************************************)
(* PriceBars.  Between the look at a row and its save nobody else writes,  *)
(* so the revision recorded with the look is what the save replaces.       *)
(***************************************************************************)
JobShape ==
    job = [kind |-> job.kind, on |-> job.on, source |-> job.source, todo |-> job.todo,
           day |-> job.day, next |-> job.next, newest |-> job.newest,
           newestClose |-> job.newestClose]

RowRecorded ==
    /\ job.kind = "none" => job.day = 0
    /\ job.day # 0 => revision = Snapshot(job.on, job.day, job.next)

BarsInv == JobShape /\ RowRecorded

\* The property, of one step.
Recorded ==
    \A k \in DOMAIN bar :
      (Exists(bar[k]) /\ PricesOf(bar'[k]) # PricesOf(bar[k]))
        => revision' = <<k[1], k[2], PricesOf(bar[k]), bar[k].source>>

LEMMA NoJobShape ==
    ASSUME job' = NoJob PROVE JobShape' /\ job'.day = 0 /\ job'.kind = "none"
PROOF BY DEF NoJob, JobShape

\* One bar takes a quote or a row whose old prices are recorded.
LEMMA OneBarRecorded ==
    ASSUME NEW x, NEW d, NEW q, NEW b,
           bar' = [bar EXCEPT ![<<x, d>>] = b], revision' = Snapshot(x, d, q),
           PricesOf(b) = <<q.open, q.high, q.low, q.close>>
    PROVE  Recorded
PROOF
<1> SUFFICES ASSUME NEW k \in DOMAIN bar, Exists(bar[k]), PricesOf(bar'[k]) # PricesOf(bar[k])
             PROVE  revision' = <<k[1], k[2], PricesOf(bar[k]), bar[k].source>>
  BY DEF Recorded
<1>1. k = <<x, d>>
  OBVIOUS
<1>2. bar'[k] = b
  BY <1>1
<1>3. Changes(bar[<<x, d>>], q)
  BY <1>1, <1>2 DEF Changes
<1> QED
  BY <1>1, <1>3 DEF Snapshot

LEMMA BarsStep == BarsInv /\ [BarsNext]_barVars => BarsInv' /\ [Recorded]_barVars
PROOF
<1> SUFFICES ASSUME BarsInv, [BarsNext]_barVars PROVE BarsInv' /\ (Recorded \/ UNCHANGED barVars)
  OBVIOUS
<1>1. ASSUME UNCHANGED bar PROVE Recorded
  BY <1>1 DEF Recorded
<1>2. ASSUME NEW x \in Exchanges, NEW quote, SyncLive(x, quote) PROVE BarsInv' /\ Recorded
  <2> DEFINE q == Quoted(quote)
             merged == WithQuote(bar[<<x, date>>], q)
  <2>1. job.kind = "none" /\ job.day = 0 /\ UNCHANGED job
    BY <1>2 DEF SyncLive, BarsInv, RowRecorded
  <2>2. BarsInv'
    BY <2>1 DEF BarsInv, JobShape, RowRecorded
  <2>3. CASE q.close > 0 /\ date \in OpenDays
    <3>1. /\ revision' = Snapshot(x, date, merged)
          /\ bar' = [bar EXCEPT ![<<x, date>>] = Tagged(merged, LiveSource(x))]
      BY <1>2, <2>3 DEF SyncLive
    <3>2. PricesOf(Tagged(merged, LiveSource(x))) = <<merged.open, merged.high, merged.low, merged.close>>
      BY DEF PricesOf, Tagged
    <3> HIDE DEF merged
    <3> QED
      BY <2>2, <3>1, <3>2, OneBarRecorded
  <2>4. CASE ~(q.close > 0 /\ date \in OpenDays)
    BY <1>1, <1>2, <2>2, <2>4 DEF SyncLive
  <2> QED
    BY <2>3, <2>4
\* A job begins.
<1>3. ASSUME NEW kind, NEW on, NEW source, NEW todo,
             job' = [NoJob EXCEPT !.kind = kind, !.on = on, !.source = source, !.todo = todo],
             UNCHANGED bar
      PROVE  BarsInv' /\ Recorded
  <2>1. JobShape' /\ job'.day = 0
    BY <1>3 DEF NoJob, JobShape
  <2> QED
    BY <1>1, <1>3, <2>1 DEF BarsInv, RowRecorded
<1>4. CASE StartMirror
  BY <1>3, <1>4 DEF StartMirror
<1>5. ASSUME NEW x, NEW rows, StartHistory(x, rows) \/ StartDemo(x, rows) PROVE BarsInv' /\ Recorded
  <2>1. CASE StartHistory(x, rows)
    BY <1>3, <2>1 DEF StartHistory
  <2>2. CASE StartDemo(x, rows)
    BY <1>3, <2>2 DEF StartDemo
  <2> QED
    BY <1>5, <2>1, <2>2
<1>6. CASE SnapshotRow
  <2> DEFINE d == Min(DOMAIN job.todo)
  <2>1. job.kind # "none" /\ job.day = 0 /\ UNCHANGED bar
    BY <1>6 DEF SnapshotRow
  <2>2. CASE job.kind # "mirror" /\ Blocks(bar[<<job.on, d>>], job.source)
    <3>1. job' = [job EXCEPT !.todo = Without(@, d)]
      BY <1>6, <2>2 DEF SnapshotRow
    <3>2. JobShape' /\ job'.day = 0
      BY <2>1, <3>1 DEF BarsInv, JobShape
    <3> QED
      BY <1>1, <2>1, <3>2 DEF BarsInv, RowRecorded
  <2>3. CASE ~(job.kind # "mirror" /\ Blocks(bar[<<job.on, d>>], job.source))
    <3>1. /\ job' = [job EXCEPT !.day = d, !.next = Target(d)]
          /\ revision' = Snapshot(job.on, d, Target(d))
      BY <1>6, <2>3 DEF SnapshotRow
    <3> DEFINE target == Target(d)
    <3> HIDE DEF d, target
    <3>2. JobShape' /\ job'.day = d /\ job'.next = target /\ job'.on = job.on /\ job'.kind = job.kind
      BY <3>1 DEF BarsInv, JobShape, target
    <3> QED
      BY <1>1, <2>1, <3>1, <3>2 DEF BarsInv, RowRecorded, Snapshot, target
  <2> QED
    BY <2>2, <2>3
<1>7. CASE SaveRow
  <2>1. /\ job.kind # "none" /\ job.day # 0
        /\ bar' = [bar EXCEPT ![<<job.on, job.day>>] = job.next] /\ UNCHANGED revision
    BY <1>7 DEF SaveRow
  <2>2. revision' = Snapshot(job.on, job.day, job.next)
    BY <2>1 DEF BarsInv, RowRecorded
  <2>3. Recorded
    BY <2>1, <2>2, OneBarRecorded DEF PricesOf
  <2>4. JobShape' /\ job'.day = 0
    BY <1>7 DEF SaveRow, BarsInv, JobShape
  <2> QED
    BY <2>3, <2>4 DEF BarsInv, RowRecorded
<1>8. CASE EndJob \/ JobBreaksOff
  <2>1. job' = NoJob /\ UNCHANGED bar
    BY <1>8 DEF EndJob, JobBreaksOff
  <2> QED
    BY <1>1, <2>1, NoJobShape DEF BarsInv, RowRecorded
<1>9. ASSUME NEW rows, ImportResearch(rows) PROVE BarsInv' /\ Recorded
  <2>1. job.kind = "none" /\ UNCHANGED job
        /\ \A k \in DOMAIN bar : Exists(bar[k]) => bar'[k] = bar[k]
    BY <1>9 DEF ImportResearch
  <2> QED
    BY <2>1 DEF BarsInv, JobShape, RowRecorded, Recorded
<1>10. CASE Tomorrow \/ UNCHANGED barVars
  <2>1. UNCHANGED <<bar, revision, job>>
    BY <1>10 DEF Tomorrow, barVars
  <2> QED
    BY <1>1, <2>1 DEF BarsInv, JobShape, RowRecorded, Snapshot
<1> QED
  BY <1>2, <1>4, <1>5, <1>6, <1>7, <1>8, <1>9, <1>10 DEF BarsNext

\* OverwritesRecorded, for every feed, seed, research file and mirror, of any
\* number of days.
THEOREM OverwritesKept == BarsSpec => OverwritesRecorded
PROOF
<1>1. BarsInit => BarsInv
  <2> SUFFICES ASSUME BarsInit PROVE BarsInv
    OBVIOUS
  <2>1. job = NoJob
    BY DEF BarsInit
  <2> QED
    BY <2>1 DEF BarsInv, JobShape, RowRecorded, NoJob
<1>2. BarsInv /\ [BarsNext]_barVars => BarsInv' /\ [Recorded]_barVars
  BY BarsStep
<1>3. BarsSpec => [][Recorded]_barVars
  BY <1>1, <1>2, PTL DEF BarsSpec
<1> QED
  BY <1>3 DEF OverwritesRecorded, Recorded

(***************************************************************************)
(* ConcurrentFetch.  As long as a thread is left, whatever is waited for   *)
(* is at work whenever time passes: with a pool, what runs besides it are  *)
(* symbols before it that never end; with coroutines, no more than         *)
(* Concurrency have a permit.  So a symbol that ends has worked for as     *)
(* long as it has been waited for, and that is less than Patience.         *)
(***************************************************************************)
Places == {"outside", "queued", "running", "ended", "cancelled"}
FetchTyped ==
    /\ mode \in {"sequential", "threadpool", "asyncio"} /\ hung \subseteq Symbols
    /\ place \in [Symbols -> Places]
    /\ worked \in [Symbols -> Nat] /\ waited \in [Symbols -> Nat]
    /\ outcome \in [Symbols -> {"", "success", "failure", "timeout"}]

\* Symbols enter the pool and its threads in the order of the batch.
InOrder ==
    /\ \A c, d \in Symbols : c < d /\ place[c] = "outside" => place[d] = "outside"
    /\ mode = "threadpool" =>
         \A c, d \in Symbols : c < d /\ place[c] \in {"outside", "queued"} =>
                                 place[d] \in {"outside", "queued"}

AtWork(c) == place[c] \in {"running", "ended"}
Outcomes ==
    \A c \in Symbols : /\ mode = "asyncio" /\ place[c] = "outside" => outcome[c] = ""
                       /\ outcome[c] \in {"success", "failure"} => place[c] = "ended"
                       /\ place[c] = "cancelled" => outcome[c] = "timeout"

\* A thread is left for whatever ends.
ThreadLeft ==
    CASE mode = "threadpool" -> Cardinality(hung) < Concurrency
      [] mode = "asyncio"    -> hung = {}
      [] OTHER               -> TRUE

Permits == mode = "asyncio" => Cardinality(Open \ In("outside")) <= Concurrency

WorksAsLongAsAwaited ==
    ThreadLeft =>
      \A c \in Symbols \ hung : /\ outcome[c] # "timeout"
                                /\ waited[c] <= worked[c] /\ worked[c] <= MaxWork

FetchInv == FetchTyped /\ InOrder /\ Outcomes /\ Permits /\ WorksAsLongAsAwaited

LEMMA FetchInitInv == FetchInit => FetchInv
PROOF
<1> SUFFICES ASSUME FetchInit PROVE FetchInv
  OBVIOUS
<1>1. FetchTyped
  BY DEF FetchInit, FetchTyped, Places
<1>2. /\ \A c \in Symbols : place[c] = "outside" /\ outcome[c] = "" /\ waited[c] = 0 /\ worked[c] = 0
  BY DEF FetchInit
<1>3. Open \ In("outside") = {}
  BY <1>2 DEF Open, In
<1>4. Permits
  BY <1>3, FS_EmptySet, BatchAssumption DEF Permits
<1>5. WorksAsLongAsAwaited
  <2>1. 0 <= MaxWork /\ 0 <= 0
    BY BatchAssumption
  <2> QED
    BY <1>2, <2>1 DEF WorksAsLongAsAwaited
<1> QED
  BY <1>1, <1>2, <1>4, <1>5 DEF FetchInv, InOrder, Outcomes

LEMMA SubsetCounted ==
    ASSUME NEW S, S \subseteq Symbols
    PROVE  /\ IsFiniteSet(S) /\ Cardinality(S) \in Nat
           /\ \A T \in SUBSET S : Cardinality(T) <= Cardinality(S)
                                  /\ (T # S => Cardinality(T) < Cardinality(S))
PROOF
<1>1. IsFiniteSet(S)
  BY FS_Subset, BatchAssumption
<1>2. Cardinality(S) \in Nat
  BY <1>1, FS_CardinalityType
<1>3. ASSUME NEW T \in SUBSET S
      PROVE  Cardinality(T) <= Cardinality(S) /\ (T # S => Cardinality(T) < Cardinality(S))
  <2>1. Cardinality(T) <= Cardinality(S) /\ (Cardinality(S) = Cardinality(T) => S = T)
    BY <1>1, FS_Subset
  <2>2. Cardinality(T) \in Nat
    BY <1>1, FS_Subset, FS_CardinalityType
  <2> QED
    BY <1>2, <2>1, <2>2
<1> QED
  BY <1>1, <1>2, <1>3

\* Whoever is first in the queue can have a thread.
LEMMA QueueMoves ==
    ASSUME FetchInv, NEW c \in In("queued"), Cardinality(In("running")) < Concurrency
    PROVE  \E q \in Symbols : MayStart(q)
PROOF
<1>1. In("queued") \subseteq Nat /\ In("queued") # {}
  BY BatchAssumption DEF In
<1>2. PICK q \in In("queued") : \A y \in In("queued") : q <= y
  BY <1>1, Smallest
<1>3. Before(q) \cap In("queued") = {}
  <2> SUFFICES ASSUME NEW d \in Before(q), d \in In("queued") PROVE FALSE
    OBVIOUS
  <2>1. d < q /\ q <= d /\ d \in Nat /\ q \in Nat
    BY <1>1, <1>2 DEF Before
  <2> QED
    BY <2>1
<1> QED
  BY <1>2, <1>3 DEF MayStart, In

\* When time passes, what is waited for and can end is being worked on.
LEMMA AwaitedIsAtWork ==
    ASSUME FetchInv, FetchTick, ThreadLeft, NEW c \in Symbols \ hung, c \in Awaited
    PROVE  place[c] = "running"
PROOF
<1>1. \A q \in Symbols : ~MayStart(q) /\ ~MaySubmit(q) /\ ~MayCollect(q)
  BY DEF FetchTick
<1>2. mode # "sequential" /\ c \in Open
  BY DEF Awaited
<1>3. place[c] # "ended"
  BY <1>1, <1>2 DEF MayCollect
<1>4. place[c] # "cancelled"
  BY DEF FetchInv, WorksAsLongAsAwaited, Outcomes
<1>5. CASE mode = "threadpool"
  <2>1. Before(c) \cap Open = {}
    BY <1>5 DEF Awaited
  <2>2. place[c] # "outside"
    <3> SUFFICES ASSUME c \in In("outside") PROVE FALSE
      BY DEF In
    <3>1. In("outside") \subseteq Nat /\ In("outside") # {}
      BY BatchAssumption DEF In
    <3>2. PICK q \in In("outside") : \A y \in In("outside") : q <= y
      BY <3>1, Smallest
    <3>3. Before(q) \cap In("outside") = {}
      <4> SUFFICES ASSUME NEW d \in Before(q), d \in In("outside") PROVE FALSE
        OBVIOUS
      <4>1. d < q /\ q <= d /\ d \in Nat /\ q \in Nat
        BY <3>1, <3>2 DEF Before
      <4> QED
        BY <4>1
    <3> QED
      BY <1>1, <1>5, <3>2, <3>3 DEF MaySubmit, Room, In
  <2>3. ASSUME place[c] = "queued" PROVE FALSE
    <3>1. In("running") \subseteq hung
      <4> SUFFICES ASSUME NEW d \in In("running"), d \notin hung PROVE FALSE
        OBVIOUS
      <4>1. d \in Symbols /\ d # c /\ d \in Nat /\ c \in Nat /\ place[d] = "running"
        BY <2>3, BatchAssumption DEF In
      <4>2. ~(c < d)
        BY <1>5, <2>3, <4>1 DEF FetchInv, InOrder
      <4>3. d \in Before(c)
        BY <4>1, <4>2 DEF Before
      <4>4. outcome[d] # ""
        BY <2>1, <4>1, <4>3 DEF Open
      <4>5. outcome[d] # "timeout"
        BY <4>1 DEF FetchInv, WorksAsLongAsAwaited
      <4> QED
        BY <4>1, <4>4, <4>5 DEF FetchInv, FetchTyped, Outcomes
    <3>2. Cardinality(In("running")) <= Cardinality(hung) /\ Cardinality(In("running")) \in Nat
          /\ Cardinality(hung) \in Nat
      BY <3>1, SubsetCounted DEF FetchInv, FetchTyped, In
    <3>3. Cardinality(In("running")) < Concurrency
      BY <1>5, <3>2, BatchAssumption DEF ThreadLeft
    <3> QED
      BY <1>1, <2>3, <3>3, QueueMoves DEF In
  <2> QED
    BY <1>3, <1>4, <2>2, <2>3 DEF FetchInv, FetchTyped, Places
<1>6. CASE mode = "asyncio"
  <2>1. place[c] # "outside"
    BY <1>6 DEF Awaited, In
  <2>2. ASSUME place[c] = "queued" PROVE FALSE
    <3> DEFINE held == Open \ In("outside")
    <3>1. held \subseteq Symbols /\ c \in held /\ c \notin In("running")
      BY <1>2, <2>2 DEF Open, In
    <3>2. In("running") \subseteq held
      <4> SUFFICES ASSUME NEW d \in In("running") PROVE d \in Open
        BY DEF In
      <4>1. d \in Symbols \ hung /\ place[d] = "running"
        BY <1>6 DEF In, ThreadLeft
      <4>2. outcome[d] # "timeout"
        BY <4>1 DEF FetchInv, WorksAsLongAsAwaited
      <4> QED
        BY <4>1, <4>2 DEF FetchInv, FetchTyped, Outcomes, Open
    <3>3. Cardinality(In("running")) < Cardinality(held)
      BY <3>1, <3>2, SubsetCounted
    <3>4. Cardinality(held) <= Concurrency
      BY <1>6 DEF FetchInv, Permits
    <3>5. Cardinality(In("running")) \in Nat /\ Cardinality(held) \in Nat
      BY <3>1, <3>2, SubsetCounted
    <3>6. Cardinality(In("running")) < Concurrency
      BY <3>3, <3>4, <3>5, BatchAssumption
    <3> QED
      BY <1>1, <2>2, <3>6, QueueMoves DEF In
  <2> QED
    BY <1>3, <1>4, <2>1, <2>2 DEF FetchInv, FetchTyped, Places
<1> QED
  BY <1>2, <1>5, <1>6 DEF FetchInv, FetchTyped

LEMMA FetchStep == FetchInv /\ [FetchNext]_fetchVars => FetchInv'
PROOF
<1> SUFFICES ASSUME FetchInv, [FetchNext]_fetchVars PROVE FetchInv'
  OBVIOUS
<1>1. ASSUME NEW c \in Symbols, Submit(c) PROVE FetchInv'
  <2>1. /\ place[c] = "outside" /\ place' = [place EXCEPT ![c] = "queued"]
        /\ Before(c) \cap In("outside") = {} /\ Room(c)
        /\ UNCHANGED <<mode, hung, worked, waited, outcome>>
    BY <1>1 DEF Submit, MaySubmit
  <2>2. FetchTyped'
    BY <2>1 DEF FetchInv, FetchTyped, Places
  <2>3. InOrder'
    <3>1. \A d \in Symbols : d < c => place[d] # "outside"
      BY <2>1 DEF Before, In
    <3>2. \A d \in Symbols : d # c => place'[d] = place[d]
      BY <2>1 DEF FetchInv, FetchTyped
    <3>3. place'[c] = "queued"
      BY <2>1 DEF FetchInv, FetchTyped
    <3> QED
      BY <2>1, <3>1, <3>2, <3>3 DEF FetchInv, InOrder
  <2>4. Outcomes'
    BY <2>1 DEF FetchInv, FetchTyped, Outcomes
  <2>5. Permits'
    <3> SUFFICES ASSUME mode = "asyncio" PROVE Cardinality((Open \ In("outside"))') <= Concurrency
      BY <2>1 DEF Permits
    <3> DEFINE held == Open \ In("outside")
    <3>1. (Open \ In("outside"))' = held \cup {c}
      BY <2>1 DEF FetchInv, FetchTyped, Outcomes, Open, In
    <3>2. Cardinality(held) < Concurrency /\ c \notin held
      BY <2>1 DEF Room, In
    <3>3. held \subseteq Symbols
      BY DEF Open
    <3>4. IsFiniteSet(held) /\ Cardinality(held) \in Nat
      BY <3>3, SubsetCounted
    <3>5. Cardinality(held \cup {c}) = Cardinality(held) + 1
      BY <3>2, <3>4, FS_AddElement
    <3> QED
      BY <3>1, <3>2, <3>4, <3>5, BatchAssumption
  <2>6. WorksAsLongAsAwaited'
    BY <2>1 DEF FetchInv, WorksAsLongAsAwaited, ThreadLeft
  <2> QED
    BY <2>2, <2>3, <2>4, <2>5, <2>6 DEF FetchInv
\* Steps that neither submit nor give anything up.
<1>2. ASSUME UNCHANGED <<mode, hung, worked, waited>>,
             place' \in [Symbols -> Places], outcome' = outcome,
             \A c \in Symbols : place'[c] = "outside" <=> place[c] = "outside",
             \A c \in Symbols : place'[c] # place[c] => place'[c] \in {"running", "ended"} /\ place[c] # "ended",
             InOrder'
      PROVE  FetchInv'
  <2>1. FetchTyped'
    BY <1>2 DEF FetchInv, FetchTyped
  <2>2. Outcomes'
    BY <1>2 DEF FetchInv, FetchTyped, Outcomes
  <2>3. Open' = Open /\ In("outside")' = In("outside")
    BY <1>2 DEF Open, In
  <2>4. Permits'
    BY <1>2, <2>3 DEF FetchInv, Permits
  <2>5. WorksAsLongAsAwaited'
    BY <1>2 DEF FetchInv, WorksAsLongAsAwaited, ThreadLeft
  <2> QED
    BY <1>2, <2>1, <2>2, <2>4, <2>5 DEF FetchInv
<1>3. ASSUME NEW c \in Symbols, StartThread(c) PROVE FetchInv'
  <2>1. /\ place[c] = "queued" /\ place' = [place EXCEPT ![c] = "running"]
        /\ Before(c) \cap In("queued") = {}
        /\ UNCHANGED <<mode, hung, worked, waited, outcome>>
    BY <1>3 DEF StartThread, MayStart
  <2>2. /\ place'[c] = "running" /\ place' \in [Symbols -> Places]
        /\ \A d \in Symbols : d # c => place'[d] = place[d]
    BY <2>1 DEF FetchInv, FetchTyped, Places
  <2>3. \A d \in Symbols : d < c => place[d] \notin {"outside", "queued"}
    BY <2>1 DEF FetchInv, InOrder, Before, In
  <2>4. InOrder'
    BY <2>1, <2>2, <2>3 DEF FetchInv, InOrder
  <2> QED
    BY <1>2, <2>1, <2>2, <2>4
<1>4. ASSUME NEW c \in Symbols, AttemptEnds(c) PROVE FetchInv'
  <2>1. /\ place[c] = "running" /\ UNCHANGED <<mode, hung, worked, waited, outcome>>
        /\ \E p \in {"ended", "running"} : place' = [place EXCEPT ![c] = p]
    BY <1>4 DEF AttemptEnds
  <2>2. /\ place'[c] \in {"running", "ended"} /\ place' \in [Symbols -> Places]
        /\ \A d \in Symbols : d # c => place'[d] = place[d]
    BY <2>1 DEF FetchInv, FetchTyped, Places
  <2>3. InOrder'
    BY <2>1, <2>2 DEF FetchInv, InOrder
  <2> QED
    BY <1>2, <2>1, <2>2, <2>3
<1>5. ASSUME NEW c \in Symbols, CollectOutcome(c) PROVE FetchInv'
  <2>1. /\ place[c] = "ended" /\ UNCHANGED <<mode, hung, place, worked, waited>>
        /\ \E o \in {"success", "failure"} : outcome' = [outcome EXCEPT ![c] = o]
    BY <1>5 DEF CollectOutcome, MayCollect
  <2>2. /\ outcome'[c] \in {"success", "failure"}
        /\ outcome' \in [Symbols -> {"", "success", "failure", "timeout"}]
        /\ \A d \in Symbols : d # c => outcome'[d] = outcome[d]
    BY <2>1 DEF FetchInv, FetchTyped
  <2>3. FetchTyped' /\ InOrder' /\ Outcomes'
    BY <2>1, <2>2 DEF FetchInv, FetchTyped, InOrder, Outcomes
  <2>4. Permits'
    <3> DEFINE held == Open \ In("outside")
    <3>1. (Open \ In("outside"))' \subseteq held /\ held \subseteq Symbols
      BY <2>1, <2>2 DEF Open, In
    <3>2. Cardinality((Open \ In("outside"))') <= Cardinality(held)
          /\ Cardinality(held) \in Nat /\ Cardinality((Open \ In("outside"))') \in Nat
      BY <3>1, SubsetCounted
    <3> QED
      BY <2>1, <3>2, BatchAssumption DEF FetchInv, Permits
  <2>5. WorksAsLongAsAwaited'
    BY <2>1, <2>2 DEF FetchInv, WorksAsLongAsAwaited, ThreadLeft
  <2> QED
    BY <2>3, <2>4, <2>5 DEF FetchInv
<1>6. ASSUME NEW c \in Symbols, GiveUp(c) PROVE FetchInv'
  <2>1. /\ c \in Awaited /\ place[c] # "ended" /\ waited[c] >= Patience
        /\ outcome' = [outcome EXCEPT ![c] = "timeout"]
        /\ place' = place \/ (mode = "asyncio" /\ place[c] = "queued"
                              /\ place' = [place EXCEPT ![c] = "cancelled"])
        /\ UNCHANGED <<mode, hung, worked, waited>>
    BY <1>6 DEF GiveUp
  <2>2. c \in Open /\ (mode = "asyncio" => c \notin In("outside")) /\ mode # "sequential"
    BY <2>1 DEF Awaited
  <2>3. /\ place' \in [Symbols -> Places] /\ \A d \in Symbols : d # c => place'[d] = place[d]
        /\ outcome' \in [Symbols -> {"", "success", "failure", "timeout"}]
        /\ outcome'[c] = "timeout" /\ \A d \in Symbols : d # c => outcome'[d] = outcome[d]
        /\ place'[c] = place[c] \/ (mode = "asyncio" /\ place'[c] = "cancelled" /\ place[c] = "queued")
    BY <2>1 DEF FetchInv, FetchTyped, Places
  <2>4. FetchTyped'
    BY <2>1, <2>3 DEF FetchInv, FetchTyped
  <2>5. InOrder'
    BY <2>1, <2>3 DEF FetchInv, InOrder
  <2>6. mode = "asyncio" => place[c] # "outside"
    BY <2>2 DEF In, Open
  <2>7. Outcomes'
    BY <2>1, <2>3, <2>6 DEF FetchInv, Outcomes
  <2>8. Permits'
    <3> DEFINE held == Open \ In("outside")
    <3>1. mode = "asyncio" => (Open \ In("outside"))' \subseteq held
      BY <2>1, <2>3 DEF Open, In
    <3>2. held \subseteq Symbols
      BY DEF Open
    <3>3. mode = "asyncio" =>
            Cardinality((Open \ In("outside"))') <= Cardinality(held)
            /\ Cardinality(held) \in Nat /\ Cardinality((Open \ In("outside"))') \in Nat
      BY <3>1, <3>2, SubsetCounted
    <3> QED
      BY <2>1, <3>3, BatchAssumption DEF FetchInv, Permits
  <2>9. WorksAsLongAsAwaited'
    <3>1. ASSUME ThreadLeft, c \notin hung PROVE FALSE
      <4>1. waited[c] <= worked[c] /\ worked[c] <= MaxWork
        BY <3>1 DEF FetchInv, WorksAsLongAsAwaited
      <4>2. waited[c] \in Nat /\ worked[c] \in Nat
        BY DEF FetchInv, FetchTyped
      <4> QED
        BY <2>1, <4>1, <4>2, BatchAssumption
    <3> QED
      BY <2>1, <2>3, <3>1 DEF FetchInv, WorksAsLongAsAwaited, ThreadLeft
  <2> QED
    BY <2>4, <2>5, <2>7, <2>8, <2>9 DEF FetchInv
<1>7. CASE ReturnBatch \/ UNCHANGED fetchVars
  <2>1. UNCHANGED <<mode, hung, place, worked, waited, outcome>>
    BY <1>7 DEF ReturnBatch, fetchVars
  <2>2. InOrder'
    BY <2>1 DEF FetchInv, InOrder
  <2> QED
    BY <1>2, <2>1, <2>2 DEF FetchInv, FetchTyped
<1>8. CASE FetchTick
  <2>1. /\ UNCHANGED <<mode, hung, place, outcome>>
        /\ \A c \in In("running") \ hung : worked[c] < MaxWork
        /\ worked' = [c \in Symbols |-> IF c \in In("running") \ hung THEN worked[c] + 1 ELSE worked[c]]
        /\ waited' = [c \in Symbols |-> IF c \in Awaited THEN waited[c] + 1 ELSE waited[c]]
    BY <1>8 DEF FetchTick
  <2>2. \A c \in Symbols : waited[c] \in Nat /\ worked[c] \in Nat
    BY DEF FetchInv, FetchTyped
  <2>3. \A n \in Nat : n + 1 \in Nat
    OBVIOUS
  <2>4. FetchTyped'
    BY <2>1, <2>2, <2>3 DEF FetchInv, FetchTyped
  <2>5. InOrder' /\ Outcomes'
    BY <2>1 DEF FetchInv, InOrder, Outcomes
  <2>6. Permits'
    <3>1. Open' = Open /\ In("outside")' = In("outside")
      BY <2>1 DEF Open, In
    <3> QED
      BY <2>1, <3>1 DEF FetchInv, Permits
  <2>7. WorksAsLongAsAwaited'
    <3> SUFFICES ASSUME ThreadLeft, NEW c \in Symbols \ hung
                 PROVE  outcome[c] # "timeout" /\ waited'[c] <= worked'[c] /\ worked'[c] <= MaxWork
      BY <2>1 DEF WorksAsLongAsAwaited, ThreadLeft
    <3>1. outcome[c] # "timeout" /\ waited[c] <= worked[c] /\ worked[c] <= MaxWork
      BY DEF FetchInv, WorksAsLongAsAwaited
    <3>2. c \in Awaited => c \in In("running") \ hung
      BY <1>8, AwaitedIsAtWork DEF In
    <3>3. c \in In("running") \ hung => worked[c] < MaxWork
      BY <2>1
    <3>4. /\ waited'[c] = IF c \in Awaited THEN waited[c] + 1 ELSE waited[c]
          /\ worked'[c] = IF c \in In("running") \ hung THEN worked[c] + 1 ELSE worked[c]
      BY <2>1
    <3> DEFINE p == waited[c]
               k == worked[c]
    <3>5. p \in Nat /\ k \in Nat /\ MaxWork \in Nat
      BY <2>2, BatchAssumption
    <3>6. p <= k /\ k <= MaxWork /\ (c \in In("running") \ hung => k < MaxWork)
      BY <3>1, <3>3
    <3> HIDE DEF p, k
    <3>7. CASE c \in Awaited
      <4>1. waited'[c] = p + 1 /\ worked'[c] = k + 1 /\ k < MaxWork
        BY <3>2, <3>4, <3>6, <3>7 DEF p, k
      <4> QED
        BY <3>1, <3>5, <3>6, <4>1
    <3>8. CASE c \notin Awaited
      <4>1. waited'[c] = p /\ (worked'[c] = k \/ (worked'[c] = k + 1 /\ k < MaxWork))
        BY <3>4, <3>6, <3>8 DEF p, k
      <4> QED
        BY <3>1, <3>5, <3>6, <4>1
    <3> QED
      BY <3>7, <3>8
  <2> QED
    BY <2>4, <2>5, <2>6, <2>7 DEF FetchInv
<1> QED
  BY <1>1, <1>3, <1>4, <1>5, <1>6, <1>7, <1>8 DEF FetchNext

\* For every batch, pool and patience, in every mode.
THEOREM Isolated == FetchSpec => []IsolatedWhileAThreadIsLeft
PROOF
<1>1. FetchInv => IsolatedWhileAThreadIsLeft
  <2> SUFFICES ASSUME FetchInv, NEW c \in Symbols \ hung, outcome[c] = "timeout"
               PROVE  IF mode = "threadpool" THEN Cardinality(hung) >= Concurrency
                      ELSE mode = "asyncio" /\ hung # {}
    BY DEF IsolatedWhileAThreadIsLeft
  <2>1. ~ThreadLeft
    BY DEF FetchInv, WorksAsLongAsAwaited
  <2>2. Cardinality(hung) \in Nat
    BY SubsetCounted DEF FetchInv, FetchTyped
  <2> QED
    <3>1. CASE mode = "threadpool"
      BY <2>1, <2>2, <3>1, BatchAssumption DEF ThreadLeft
    <3>2. CASE mode = "asyncio"
      BY <2>1, <3>2 DEF ThreadLeft
    <3>3. CASE mode = "sequential"
      BY <2>1, <3>3 DEF ThreadLeft
    <3> QED
      BY <3>1, <3>2, <3>3 DEF FetchInv, FetchTyped
<1> QED
  BY <1>1, FetchInitInv, FetchStep, PTL DEF FetchSpec

(***************************************************************************)
(* PersonalAlerts.  While a run has a rule in hand and has not delivered,  *)
(* the rule's baseline is ahead of its owner; at any other time the owner  *)
(* is where the baseline is.                                               *)
(***************************************************************************)
RuleRow == [kind : {"signal", "level"}, inApp : BOOLEAN, live : BOOLEAN, on : BOOLEAN,
            last : Signals \cup {"none"}, cool : Int]

AlertsTyped ==
    /\ signal \in [Rules -> Signals]
    /\ rule \in [Rules -> RuleRow]
    /\ evaluator = [e \in Evaluators |->
                      [step |-> evaluator[e].step, todo |-> evaluator[e].todo,
                       copy |-> evaluator[e].copy, in |-> evaluator[e].in]]
    /\ known = [r \in Rules |-> known[r]]

RuleInHand == \A e \in Evaluators : evaluator[e].step \in {"idle", "next"} => evaluator[e].in = "none"

OwnerKnows ==
    \A r \in Rules \ (missed \cup shared) :
      (/\ rule[r].kind = "signal" /\ rule[r].live
       /\ \A e \in Holding(r) : evaluator[e].step # "tell")
        => known[r] = rule[r].last

AlertsInv == AlertsTyped /\ RuleInHand /\ OwnerKnows

LEMMA AlertsInitInv == AlertsInit => AlertsInv
PROOF
<1> SUFFICES ASSUME AlertsInit PROVE AlertsInv
  OBVIOUS
<1>1. \A k \in {"signal", "level"}, b \in BOOLEAN : NewRule(k, b) \in RuleRow /\ NewRule(k, b).last = "none"
  BY DEF NewRule, RuleRow
<1>2. rule \in [Rules -> RuleRow] /\ \A r \in Rules : rule[r].last = "none"
  <2>1. rule \in [Rules -> {NewRule(k, b) : k \in {"signal", "level"}, b \in BOOLEAN}]
    BY DEF AlertsInit
  <2>2. \A r \in Rules : \E k \in {"signal", "level"}, b \in BOOLEAN : rule[r] = NewRule(k, b)
    BY <2>1
  <2> QED
    BY <1>1, <2>1, <2>2
<1>3. AlertsTyped
  BY <1>2 DEF AlertsInit, AlertsTyped, NotEvaluating
<1>4. RuleInHand
  BY DEF AlertsInit, RuleInHand, NotEvaluating
<1>5. OwnerKnows
  BY <1>2 DEF AlertsInit, OwnerKnows
<1> QED
  BY <1>3, <1>4, <1>5 DEF AlertsInv

\* Runs that change places without a message, while no row's baseline moves.
LEMMA PlacesChange ==
    ASSUME AlertsInv, NEW e \in Evaluators, NEW new,
           evaluator' = [evaluator EXCEPT ![e] = new],
           new = [step |-> new.step, todo |-> new.todo, copy |-> new.copy, in |-> new.in],
           new.step \in {"idle", "next"} /\ new.in = "none",
           rule' \in [Rules -> RuleRow], signal' = signal, known' = known,
           \A r \in Rules : /\ rule'[r].kind = rule[r].kind /\ rule'[r].live = rule[r].live
                            /\ rule'[r].last = rule[r].last,
           missed \cup shared \subseteq missed' \cup shared',
           evaluator[e].step = "tell" => \/ evaluator[e].in \in missed'
                                         \/ ~rule[evaluator[e].in].live
    PROVE  AlertsInv'
PROOF
<1>1. /\ evaluator'[e] = new /\ \A o \in Evaluators \ {e} : evaluator'[o] = evaluator[o]
  BY DEF AlertsInv, AlertsTyped
<1>2. AlertsTyped'
  BY <1>1 DEF AlertsInv, AlertsTyped
<1>3. RuleInHand'
  BY <1>1 DEF AlertsInv, RuleInHand
<1>4. OwnerKnows'
  <2> SUFFICES ASSUME NEW r \in Rules, r \notin missed', r \notin shared',
                      rule[r].kind = "signal", rule[r].live,
                      \A o \in Holding(r)' : evaluator'[o].step # "tell"
               PROVE  known[r] = rule[r].last
    BY DEF OwnerKnows
  <2>1. ASSUME NEW o \in Holding(r) PROVE evaluator[o].step # "tell"
    <3>1. CASE o = e
      BY <3>1 DEF Holding
    <3>2. CASE o # e
      BY <1>1, <3>2 DEF Holding
    <3> QED
      BY <3>1, <3>2
  <2> QED
    BY <2>1 DEF AlertsInv, OwnerKnows
<1> QED
  BY <1>2, <1>3, <1>4 DEF AlertsInv

LEMMA AlertsStep == AlertsInv /\ [AlertsNext]_alertVars => AlertsInv'
PROOF
<1> SUFFICES ASSUME AlertsInv, [AlertsNext]_alertVars PROVE AlertsInv'
  OBVIOUS
<1>0. \A r \in Rules : rule[r] \in RuleRow
  BY DEF AlertsInv, AlertsTyped
\* The rows of the owner and the market, who touch no baseline.
<1>1. ASSUME rule' \in [Rules -> RuleRow], signal' \in [Rules -> Signals],
             \A r \in Rules : /\ rule'[r].kind = rule[r].kind /\ rule'[r].last = rule[r].last
                              /\ rule'[r].live => rule[r].live,
             UNCHANGED <<evaluator, known, missed, shared>>
      PROVE  AlertsInv'
  BY <1>1 DEF AlertsInv, AlertsTyped, RuleInHand, OwnerKnows, Holding
<1>2. ASSUME NEW r \in Rules, Toggle(r) PROVE AlertsInv'
  <2>1. [rule[r] EXCEPT !.on = ~@] \in RuleRow
    <3>1. \A b \in BOOLEAN : [rule[r] EXCEPT !.on = b] \in RuleRow
      BY <1>0 DEF RuleRow
    <3>2. (~rule[r].on) \in BOOLEAN
      OBVIOUS
    <3> QED
      BY <3>1, <3>2
  <2>2. \A b : LET c == [rule[r] EXCEPT !.on = b]
               IN  c.kind = rule[r].kind /\ c.last = rule[r].last /\ c.live = rule[r].live
    BY <1>0 DEF RuleRow
  <2>3. /\ rule' = [rule EXCEPT ![r] = [rule[r] EXCEPT !.on = ~@]]
        /\ UNCHANGED <<signal, evaluator, known, missed, shared>>
    BY <1>2 DEF Toggle
  <2> QED
    BY <1>1, <2>1, <2>2, <2>3 DEF AlertsInv, AlertsTyped
<1>3. ASSUME NEW r \in Rules, DeleteRule(r) PROVE AlertsInv'
  <2> DEFINE c == [rule[r] EXCEPT !.live = FALSE, !.on = FALSE]
  <2>1. c \in RuleRow /\ c.kind = rule[r].kind /\ c.last = rule[r].last /\ ~c.live
    BY <1>0 DEF RuleRow
  <2>2. /\ rule' = [rule EXCEPT ![r] = c]
        /\ UNCHANGED <<signal, evaluator, known, missed, shared>>
    BY <1>3 DEF DeleteRule
  <2> HIDE DEF c
  <2> QED
    BY <1>1, <2>1, <2>2 DEF AlertsInv, AlertsTyped
<1>4. ASSUME NEW r \in Rules, MarketMoves(r) PROVE AlertsInv'
  BY <1>0, <1>1, <1>4 DEF MarketMoves, AlertsInv, AlertsTyped
<1>5. CASE TimePasses
  <2> DEFINE Later(r) == [rule[r] EXCEPT !.cool = IF @ = 0 THEN 0 ELSE @ - 1]
  <2>1. \A r \in Rules : /\ Later(r) \in RuleRow /\ Later(r).kind = rule[r].kind
                         /\ Later(r).last = rule[r].last /\ Later(r).live = rule[r].live
    BY <1>0 DEF RuleRow
  <2>2. /\ rule' = [r \in Rules |-> Later(r)] /\ UNCHANGED <<signal, evaluator, known, missed, shared>>
    BY <1>5 DEF TimePasses
  <2> HIDE DEF Later
  <2> QED
    BY <1>1, <2>1, <2>2 DEF AlertsInv, AlertsTyped
<1>w. NotEvaluating = [step |-> NotEvaluating.step, todo |-> NotEvaluating.todo, copy |-> NotEvaluating.copy, in |-> NotEvaluating.in]
      /\ NotEvaluating.step = "idle" /\ NotEvaluating.in = "none"
  BY DEF NotEvaluating
<1>6. ASSUME NEW e \in Evaluators, LoadRules(e) PROVE AlertsInv'
  <2> DEFINE new == [NotEvaluating EXCEPT !.step = "next", !.todo = {r \in Rules : rule[r].on},
                           !.copy = [r \in {q \in Rules : rule[q].on} |-> rule[r]]]
  <2>1. /\ new = [step |-> new.step, todo |-> new.todo, copy |-> new.copy, in |-> new.in]
        /\ new.step = "next" /\ new.in = "none"
    <3> DEFINE todo == {r \in Rules : rule[r].on}
               copy == [r \in {q \in Rules : rule[q].on} |-> rule[r]]
               idle == NotEvaluating
    <3>1. idle = [step |-> idle.step, todo |-> idle.todo, copy |-> idle.copy, in |-> idle.in]
          /\ idle.in = "none"
      BY <1>w
    <3>2. new = [idle EXCEPT !.step = "next", !.todo = todo, !.copy = copy]
      OBVIOUS
    <3> HIDE DEF new, todo, copy, idle
    <3> QED
      BY <3>1, <3>2
  <2>2. /\ evaluator' = [evaluator EXCEPT ![e] = new] /\ evaluator[e].step = "idle"
        /\ UNCHANGED <<rule, signal, known, missed, shared>>
    BY <1>6 DEF LoadRules
  <2> HIDE DEF new
  <2> QED
    BY <1>0, <2>1, <2>2, PlacesChange DEF AlertsInv, AlertsTyped
<1>8. ASSUME NEW e \in Evaluators, RuleIsGone(e) \/ EndRun(e) PROVE AlertsInv'
  <2>1. /\ evaluator' = [evaluator EXCEPT ![e] = NotEvaluating]
        /\ evaluator[e].step = "tell" => ~rule[evaluator[e].in].live
        /\ UNCHANGED <<rule, signal, known, missed, shared>>
    BY <1>8 DEF RuleIsGone, EndRun
  <2> QED
    BY <1>w, <2>1, PlacesChange DEF AlertsInv, AlertsTyped
<1>9. ASSUME NEW e \in Evaluators, EvaluatorDies(e) PROVE AlertsInv'
  <2>1. /\ evaluator' = [evaluator EXCEPT ![e] = NotEvaluating]
        /\ evaluator[e].step = "tell" => evaluator[e].in \in missed'
        /\ missed \subseteq missed' /\ shared \subseteq shared'
        /\ UNCHANGED <<rule, signal, known>>
    BY <1>9 DEF EvaluatorDies
  <2> QED
    BY <1>w, <2>1, PlacesChange DEF AlertsInv, AlertsTyped
<1>10. ASSUME NEW e \in Evaluators, StampRule(e) PROVE AlertsInv'
  <2> DEFINE r == evaluator[e].in
             c == [rule[r] EXCEPT !.cool = Cooldown]
             new == [evaluator[e] EXCEPT !.step = "next", !.in = "none"]
  <2>1. /\ evaluator[e].step = "stamp" /\ rule' = [rule EXCEPT ![r] = c]
        /\ UNCHANGED <<signal, known, missed, shared>>
    BY <1>10 DEF StampRule
  <2>2. evaluator' = [evaluator EXCEPT ![e] = new]
    BY <1>10 DEF StampRule, Leaves
  <2>3. r \in Rules => /\ c \in RuleRow /\ c.kind = rule[r].kind /\ c.live = rule[r].live
                       /\ c.last = rule[r].last
    BY <1>0, AlertsAssumption DEF RuleRow
  <2>4. /\ rule' \in [Rules -> RuleRow]
        /\ \A q \in Rules : /\ rule'[q].kind = rule[q].kind /\ rule'[q].live = rule[q].live
                            /\ rule'[q].last = rule[q].last
    BY <1>0, <2>1, <2>3 DEF AlertsInv, AlertsTyped
  <2>5. /\ new = [step |-> new.step, todo |-> new.todo, copy |-> new.copy, in |-> new.in]
        /\ new.step = "next" /\ new.in = "none"
    <3>1. evaluator[e] = [step |-> evaluator[e].step, todo |-> evaluator[e].todo,
                          copy |-> evaluator[e].copy, in |-> evaluator[e].in]
      BY DEF AlertsInv, AlertsTyped
    <3> DEFINE ev == evaluator[e]
    <3>2. ev = [step |-> ev.step, todo |-> ev.todo, copy |-> ev.copy, in |-> ev.in]
      BY <3>1
    <3>3. new = [ev EXCEPT !.step = "next", !.in = "none"]
      OBVIOUS
    <3> HIDE DEF new, ev
    <3> QED
      BY <3>2, <3>3
  <2> HIDE DEF new, c
  <2> QED
    BY <2>1, <2>2, <2>4, <2>5, PlacesChange
<1>11. ASSUME NEW e \in Evaluators, NEW accepted \in BOOLEAN, Deliver(e, accepted) PROVE AlertsInv'
  <2> DEFINE r == evaluator[e].in
  <2>1. /\ evaluator[e].step = "tell" /\ UNCHANGED <<rule, signal, shared>>
        /\ evaluator' = [evaluator EXCEPT ![e].step = "stamp"]
        /\ missed \subseteq missed'
        /\ \/ known' = [known EXCEPT ![r] = rule[r].last]
           \/ known' = known /\ r \in missed'
    BY <1>11 DEF Deliver, Turns
  <2>2. /\ evaluator'[e].step = "stamp" /\ evaluator'[e].in = r
        /\ \A o \in Evaluators \ {e} : evaluator'[o] = evaluator[o]
    BY <2>1 DEF AlertsInv, AlertsTyped
  <2>3. AlertsTyped'
    BY <2>1 DEF AlertsInv, AlertsTyped
  <2>4. RuleInHand'
    BY <2>2 DEF AlertsInv, RuleInHand
  <2>5. OwnerKnows'
    <3> SUFFICES ASSUME NEW q \in Rules, q \notin missed', q \notin shared,
                        rule[q].kind = "signal", rule[q].live,
                        \A o \in Holding(q)' : evaluator'[o].step # "tell"
                 PROVE  known'[q] = rule[q].last
      BY <2>1 DEF OwnerKnows
    <3>1. CASE q = r
      BY <2>1, <3>1 DEF AlertsInv, AlertsTyped
    <3>2. CASE q # r
      <4>1. Holding(q)' = Holding(q) /\ \A o \in Holding(q) : evaluator'[o] = evaluator[o]
        BY <2>2, <3>2 DEF Holding
      <4>2. known[q] = rule[q].last
        <5>1. q \notin missed /\ q \notin shared
          BY <2>1
        <5>2. \A o \in Holding(q) : evaluator[o].step # "tell"
          BY <4>1
        <5> QED
          BY <5>1, <5>2 DEF AlertsInv, OwnerKnows
      <4> QED
        BY <2>1, <3>2, <4>2 DEF AlertsInv, AlertsTyped
    <3> QED
      BY <3>1, <3>2
  <2> QED
    BY <2>3, <2>4, <2>5 DEF AlertsInv
<1>12. ASSUME NEW e \in Evaluators, NEW r \in Rules, LookAt(e, r) PROVE AlertsInv'
  <2> DEFINE c == evaluator[e].copy[r]
             what == AfterLook(r, c)
             shifts == MovesBaseline(r, what)
             raises == shifts /\ ~rule[r].live
             went == [evaluator[e] EXCEPT !.todo = evaluator[e].todo \ {r},
                            !.step = IF what = "tell" THEN "tell" ELSE "next",
                            !.in = IF what = "tell" THEN r ELSE "none"]
             new == IF raises THEN NotEvaluating ELSE went
             moved == [rule[r] EXCEPT !.last = signal[r]]
  <2>1. /\ evaluator[e].step = "next" /\ evaluator' = [evaluator EXCEPT ![e] = new]
        /\ rule' = IF shifts /\ ~raises THEN [rule EXCEPT ![r] = moved] ELSE rule
        /\ known' = IF shifts /\ ~raises /\ Baseline(r, c)
                      THEN [known EXCEPT ![r] = signal[r]] ELSE known
        /\ shared \subseteq shared' /\ (Holding(r) # {} => r \in shared')
        /\ UNCHANGED <<signal, missed>>
    BY <1>12 DEF LookAt
  <2>2. /\ went = [step |-> went.step, todo |-> went.todo, copy |-> went.copy, in |-> went.in]
        /\ went.step = (IF what = "tell" THEN "tell" ELSE "next")
        /\ went.in = (IF what = "tell" THEN r ELSE "none")
    <3>1. evaluator[e] = [step |-> evaluator[e].step, todo |-> evaluator[e].todo,
                          copy |-> evaluator[e].copy, in |-> evaluator[e].in]
      BY DEF AlertsInv, AlertsTyped
    <3> DEFINE step == IF what = "tell" THEN "tell" ELSE "next"
               in == IF what = "tell" THEN r ELSE "none"
    <3>2. went = [evaluator[e] EXCEPT !.todo = @ \ {r}, !.step = step, !.in = in]
      OBVIOUS
    <3> HIDE DEF went, what, step, in
    <3>3. /\ went = [step |-> went.step, todo |-> went.todo, copy |-> went.copy, in |-> went.in]
          /\ went.step = step /\ went.in = in
      BY <3>1, <3>2
    <3> QED
      BY <3>3 DEF step, in
  <2>3. moved \in RuleRow /\ moved.kind = rule[r].kind /\ moved.live = rule[r].live /\ moved.last = signal[r]
    BY <1>0 DEF RuleRow, AlertsInv, AlertsTyped
  <2>4. shifts /\ what # "tell" => Baseline(r, c)
    BY DEF AfterLook, MovesBaseline
  <2> HIDE DEF went, moved, shifts, what, c
  <2>5. /\ new = [step |-> new.step, todo |-> new.todo, copy |-> new.copy, in |-> new.in]
        /\ new.step \in {"idle", "next"} => new.in = "none"
        /\ new.step = "tell" => new.in = r
        /\ new.step \in {"idle", "next", "tell"} /\ (~raises /\ what = "tell" => new.step = "tell")
        /\ new.in \in {r, "none"}
    BY <1>w, <2>2
  <2>6. /\ evaluator'[e] = new /\ \A o \in Evaluators \ {e} : evaluator'[o] = evaluator[o]
    BY <2>1 DEF AlertsInv, AlertsTyped
  <2>7. AlertsTyped'
    <3>1. rule' \in [Rules -> RuleRow]
      BY <1>0, <2>1, <2>3 DEF AlertsInv, AlertsTyped
    <3>2. known' = [q \in Rules |-> known'[q]]
      BY <2>1 DEF AlertsInv, AlertsTyped
    <3>3. evaluator' = [o \in Evaluators |->
                          [step |-> evaluator'[o].step, todo |-> evaluator'[o].todo,
                           copy |-> evaluator'[o].copy, in |-> evaluator'[o].in]]
      BY <2>1, <2>5, <2>6 DEF AlertsInv, AlertsTyped
    <3> QED
      BY <2>1, <3>1, <3>2, <3>3 DEF AlertsInv, AlertsTyped
  <2>8. RuleInHand'
    BY <2>5, <2>6 DEF AlertsInv, RuleInHand
  <2>9. OwnerKnows'
    <3> SUFFICES ASSUME NEW q \in Rules, q \notin missed, q \notin shared',
                        rule'[q].kind = "signal", rule'[q].live,
                        \A o \in Holding(q)' : evaluator'[o].step # "tell"
                 PROVE  known'[q] = rule'[q].last
      BY <2>1 DEF OwnerKnows
    <3>1. \A o \in Holding(q) : evaluator[o].step # "tell"
      <4> SUFFICES ASSUME NEW o \in Holding(q), evaluator[o].step = "tell" PROVE FALSE
        OBVIOUS
      <4>1. o # e /\ o \in Evaluators
        BY <2>1 DEF Holding
      <4> QED
        BY <2>6, <4>1 DEF Holding
    <3>2. CASE q # r
      <4>1. known[q] = rule[q].last
        BY <2>1, <3>1, <3>2 DEF AlertsInv, OwnerKnows, AlertsTyped
      <4> QED
        BY <2>1, <3>2, <4>1 DEF AlertsInv, AlertsTyped
    <3>3. CASE q = r
      <4>1. CASE shifts /\ ~raises
        <5>1. what # "tell"
          BY <2>5, <2>6, <3>3, <4>1 DEF Holding
        <5>2. known'[q] = signal[r]
          BY <2>1, <2>4, <3>3, <4>1, <5>1 DEF AlertsInv, AlertsTyped
        <5> QED
          BY <2>1, <2>3, <3>3, <4>1, <5>2 DEF AlertsInv, AlertsTyped
      <4>2. CASE ~(shifts /\ ~raises)
        BY <2>1, <3>1, <3>3, <4>2 DEF AlertsInv, OwnerKnows
      <4> QED
        BY <4>1, <4>2
    <3> QED
      BY <3>2, <3>3
  <2> QED
    BY <2>7, <2>8, <2>9 DEF AlertsInv
<1>13. CASE UNCHANGED alertVars
  BY <1>13 DEF alertVars, AlertsInv, AlertsTyped, RuleInHand, OwnerKnows, Holding
<1> QED
  BY <1>2, <1>3, <1>4, <1>5, <1>6, <1>8, <1>9, <1>10, <1>11, <1>12, <1>13 DEF AlertsNext

\* For any rules, signals and runs.
THEOREM OwnerTold == AlertsSpec => []SignalTold
PROOF
<1>1. AlertsInv => SignalTold
  BY DEF AlertsInv, OwnerKnows, SignalTold
<1> QED
  BY <1>1, AlertsInitInv, AlertsStep, PTL DEF AlertsSpec

(***************************************************************************)
(* DayPipeline.  Nobody stores while another is at work, so a follower     *)
(* that has concluded has left nothing unread; and a run that finds its    *)
(* own lock taken finds a run like it that has yet to read, or is to be    *)
(* counted as lost.                                                        *)
(***************************************************************************)
Job(r) == JobsOf(r.task)[r.stage]
DayRun == [task : DayTasks \cup {"none"}, stage : 1..4,
           step : {"resting", "own lock", "market lock", "working", "stored", "leaving"},
           promises : BOOLEAN, read : {"nothing", "all", "not all"}]
Held == {"market lock", "working", "stored", "leaving"}

DayTyped ==
    /\ waiting \in [DayTasks -> Nat]
    /\ run \in [DayWorkers -> DayRun]
    /\ own \in [OwnLocks -> DayWorkers \cup {Free, TheDead}]
    /\ market \in DayWorkers \cup {Free, TheDead}
    /\ owed \subseteq Followers

Fits(r) == r.task # "pipeline" => r.stage = 1
RunSound(r) ==
    r.task # "none" =>
      /\ Fits(r) /\ r.step # "resting"
      /\ r.step = "own lock" => Job(r) \in OwnLocks
      /\ r.step \in {"own lock", "market lock"} => r.read = "nothing"
      /\ r.step = "working" => r.read # "not all"
      /\ r.step \in {"own lock", "market lock", "working"} => ~r.promises
      /\ r.step \in {"stored", "leaving"} /\ Job(r) \in InBatches => r.promises
      /\ r.promises => Job(r) \in Producers
RunsSound == \A w \in DayWorkers : RunSound(run[w])

MarketHeld ==
    \A w \in DayWorkers :
      run[w].task # "none" /\ run[w].step \in {"working", "stored"} => market = w
OwnHeld ==
    \A t \in OwnLocks :
      own[t] \in DayWorkers => /\ run[own[t]].task # "none" /\ Job(run[own[t]]) = t
                               /\ run[own[t]].step \in Held
Concluded ==
    \A w \in DayWorkers :
      (/\ run[w].task # "none" /\ run[w].step = "stored"
       /\ Job(run[w]) \in Followers) => Job(run[w]) \notin owed

\* The two parts of Pending.
Queued(f) == waiting[f] > 0 \/ (f = "analysis" /\ \E b \in InBatches : waiting[b] > 0)
Helps(r, f) ==
    /\ r.task # "none"
    /\ \/ Job(r) = f /\ r.read # "not all" /\ r.step \in {"own lock", "market lock", "working"}
       \/ f = "analysis" /\ Job(r) \in InBatches
       \/ r.promises /\ FollowerOf(Job(r)) = f

DayInv == DayTyped /\ RunsSound /\ MarketHeld /\ OwnHeld /\ Concluded /\ NothingForgotten

LEMMA PendingIs == ASSUME NEW f PROVE Pending(f) <=> Queued(f) \/ \E w \in DayWorkers : Helps(run[w], f)
PROOF
  BY DEF Pending, Queued, Helps, Job, JobOf

LEMMA JobFacts ==
    /\ \A t \in DayTasks \ {"pipeline"} : JobsOf(t) = <<t>>
    /\ JobsOf("pipeline") = <<"append", "settlement", "assessment", "digest">>
    /\ InBatches = {"batch 1", "batch 2"}
    /\ Queues("batch 1") = "batch 2" /\ Queues("batch 2") = "analysis"
    /\ Queues("fetch") = "batch 1" /\ Queues("append") = "analysis"
    /\ Queues("settlement") = "training"
PROOF
<1>1. DOMAIN Stages = {"pipeline"} /\ Stages["pipeline"] = <<"append", "settlement", "assessment", "digest">>
  BY DEF Stages
<1>2. DOMAIN Batches = {1, 2} /\ Batches[1] = "batch 1" /\ Batches[2] = "batch 2" /\ Len(Batches) = 2
  BY DEF Batches
<1>3. InBatches = {"batch 1", "batch 2"}
  BY <1>2 DEF InBatches
<1>4. (CHOOSE i \in DOMAIN Batches : Batches[i] = "batch 1") = 1
  BY <1>2
<1>5. (CHOOSE i \in DOMAIN Batches : Batches[i] = "batch 2") = 2
  BY <1>2
<1>6. Queues("batch 1") = "batch 2"
  <2> DEFINE n == CHOOSE i \in DOMAIN Batches : Batches[i] = "batch 1"
  <2>1. Queues("batch 1") = IF n < Len(Batches) THEN Batches[n + 1] ELSE "analysis"
    BY <1>3 DEF Queues
  <2>2. n = 1
    BY <1>4
  <2> HIDE DEF n
  <2>a. 1 < 2 /\ 1 + 1 = 2
    OBVIOUS
  <2>3. n < Len(Batches) /\ n + 1 = 2
    BY <1>2, <2>2, <2>a, Zenon
  <2>4. Batches[n + 1] = Batches[2]
    BY <2>3, Zenon
  <2> QED
    BY <1>2, <2>1, <2>3, <2>4
<1>7. Queues("batch 2") = "analysis"
  <2> DEFINE n == CHOOSE i \in DOMAIN Batches : Batches[i] = "batch 2"
  <2>1. Queues("batch 2") = IF n < Len(Batches) THEN Batches[n + 1] ELSE "analysis"
    BY <1>3 DEF Queues
  <2>2. n = 2
    BY <1>5
  <2> HIDE DEF n
  <2>a. ~(2 < 2)
    OBVIOUS
  <2>3. ~(n < Len(Batches))
    BY <1>2, <2>2, <2>a, Zenon
  <2> QED
    BY <2>1, <2>3
<1>8. Queues("fetch") = "batch 1" /\ Queues("append") = "analysis" /\ Queues("settlement") = "training"
  BY <1>2, <1>3 DEF Queues, FollowerOf
<1> QED
  BY <1>1, <1>3, <1>6, <1>7, <1>8 DEF JobsOf

Tasks == {"analysis", "training", "fetch", "append", "settlement", "pipeline", "batch 1", "batch 2"}
LEMMA TaskFacts ==
    /\ DayTasks = Tasks
    /\ Producers = {"append", "settlement", "fetch", "batch 1", "batch 2"}
PROOF
  BY JobFacts DEF DayTasks, OwnLocks, Followers, Producers, Tasks

\* A job that is a follower, has an own lock or is a batch is a task by itself.
LEMMA JobIsTask ==
    ASSUME NEW r \in DayRun, r.task # "none", Fits(r)
    PROVE  /\ Job(r) \in (Tasks \ {"pipeline"}) \cup {"assessment", "digest"}
           /\ Job(r) \in OwnLocks \cup Followers \cup InBatches => r.task = Job(r)
           /\ r.task # "pipeline" => r.task = Job(r)
           /\ r.stage < Len(JobsOf(r.task)) => r.task = "pipeline" /\ r.stage + 1 \in 1..4
PROOF
<1>1. r.task \in DayTasks /\ r.stage \in 1..4
  BY DEF DayRun
<1>2. CASE r.task = "pipeline"
  <2>1. JobsOf(r.task) = <<"append", "settlement", "assessment", "digest">>
    BY <1>2, JobFacts
  <2>2. Len(JobsOf(r.task)) = 4
    BY <2>1
  <2>3. Job(r) \in {"append", "settlement", "assessment", "digest"}
    BY <1>1, <2>1 DEF Job
  <2>4. Job(r) \notin OwnLocks \cup Followers \cup InBatches
    BY <2>3, JobFacts DEF OwnLocks, Followers
  <2>5. Job(r) \in (Tasks \ {"pipeline"}) \cup {"assessment", "digest"}
    BY <2>3 DEF Tasks
  <2>6. r.stage < Len(JobsOf(r.task)) => r.stage + 1 \in 1..4
    BY <1>1, <2>2
  <2> QED
    BY <1>2, <2>4, <2>5, <2>6
<1>3. CASE r.task # "pipeline"
  <2>1. JobsOf(r.task) = <<r.task>> /\ r.stage = 1
    BY <1>1, <1>3, JobFacts DEF Fits
  <2>2. Len(JobsOf(r.task)) = 1
    BY <2>1
  <2>3. Job(r) = r.task
    BY <2>1 DEF Job
  <2>4. r.task \in Tasks \ {"pipeline"}
    BY <1>1, <1>3, TaskFacts
  <2>5. ~(r.stage < Len(JobsOf(r.task)))
    BY <2>1, <2>2
  <2> QED
    BY <1>3, <2>3, <2>4, <2>5
<1> QED
  BY <1>2, <1>3

\* A stage that begins: nothing is promised or read.
Begun(r, begun, n) ==
    /\ r \in DayRun /\ r.task = begun /\ r.read = "nothing" /\ ~r.promises
    /\ Job(r) = JobsOf(begun)[n] /\ r.step = FirstStep(JobsOf(begun)[n])
    /\ RunSound(r)
    /\ r.step \in {"own lock", "market lock", "leaving"}
LEMMA StageBegins ==
    ASSUME NEW begun \in DayTasks, NEW n, n \in 1..4, begun # "pipeline" => n = 1
    PROVE  Begun(StageOf(begun, n), begun, n)
PROOF
<1> DEFINE s == FirstStep(JobsOf(begun)[n])
           rest == Resting
           r == StageOf(begun, n)
<1>1. s \in {"own lock", "market lock", "leaving"}
  BY DEF FirstStep
<1>2. s = "own lock" => JobsOf(begun)[n] \in OwnLocks
  BY DEF FirstStep
<1>3. s = "leaving" => JobsOf(begun)[n] = "digest"
  BY DEF FirstStep
<1>4. rest \in DayRun /\ ~rest.promises /\ rest.read = "nothing"
  BY DEF Resting, DayRun
<1>a. r = [rest EXCEPT !.task = begun, !.stage = n, !.step = s]
  BY DEF StageOf
<1> HIDE DEF s, rest, r
<1>5. r \in DayRun /\ r.task = begun /\ r.stage = n /\ r.read = "nothing" /\ ~r.promises /\ r.step = s
  BY <1>1, <1>4, <1>a DEF DayRun
<1>6. Job(r) = JobsOf(begun)[n]
  BY <1>5 DEF Job
<1>7. RunSound(r)
  BY <1>1, <1>2, <1>3, <1>5, <1>6, JobFacts DEF RunSound, Fits
<1> QED
  BY <1>1, <1>5, <1>6, <1>7 DEF s, r, Begun

LEMMA NextStageBegins ==
    ASSUME DayTyped, RunsSound, NEW w \in DayWorkers, run[w].task # "none"
    PROVE  /\ NextStage(w) \in DayRun /\ RunSound(NextStage(w)) /\ ~NextStage(w).promises
           /\ NextStage(w).task # "none" => NextStage(w).step \in {"own lock", "market lock", "leaving"}
PROOF
<1>1. run[w] \in DayRun /\ Fits(run[w])
  BY DEF DayTyped, RunsSound, RunSound
<1>2. CASE run[w].stage < Len(JobsOf(run[w].task))
  <2>1. run[w].task = "pipeline" /\ run[w].stage + 1 \in 1..4
    BY <1>1, <1>2, JobIsTask
  <2>2. "pipeline" \in DayTasks
    BY TaskFacts DEF Tasks
  <2>3. NextStage(w) = StageOf("pipeline", run[w].stage + 1)
    BY <1>2, <2>1 DEF NextStage
  <2> DEFINE n == run[w].stage + 1
  <2>4. NextStage(w) = StageOf("pipeline", n) /\ n \in 1..4
    BY <2>1, <2>3
  <2> HIDE DEF n
  <2> QED
    <3>1. "pipeline" # "pipeline" => n = 1
      OBVIOUS
    <3>2. PICK r : r = NextStage(w)
      OBVIOUS
    <3>3. r = StageOf("pipeline", n)
      BY <2>4, <3>2
    <3>4. /\ r \in DayRun /\ ~r.promises /\ RunSound(r)
          /\ r.step \in {"own lock", "market lock", "leaving"}
      BY <2>2, <2>4, <3>1, <3>3, StageBegins DEF Begun
    <3> QED
      BY <3>2, <3>4
<1>3. CASE ~(run[w].stage < Len(JobsOf(run[w].task)))
  <2>1. NextStage(w) = Resting
    BY <1>3 DEF NextStage
  <2> QED
    BY <2>1 DEF Resting, DayRun, RunSound
<1> QED
  BY <1>2, <1>3

LEMMA DayInitInv == DayInit => DayInv
PROOF
<1> SUFFICES ASSUME DayInit PROVE DayInv
  OBVIOUS
<1>1. Resting \in DayRun /\ Resting.task = "none"
  BY DEF Resting, DayRun
<1>2. DayTyped
  BY <1>1 DEF DayInit, DayTyped
<1>3. RunsSound /\ MarketHeld /\ Concluded
  BY <1>1 DEF DayInit, RunsSound, RunSound, MarketHeld, Concluded
<1>4. OwnHeld
  BY DayAssumption DEF DayInit, OwnHeld
<1>5. NothingForgotten
  BY DEF DayInit, NothingForgotten
<1> QED
  BY <1>2, <1>3, <1>4, <1>5 DEF DayInv

\* One worker goes on; of the others at most what they have read grows old.
LEMMA OneGoesOn ==
    ASSUME DayInv, NEW w \in DayWorkers, NEW new \in DayRun, RunSound(new),
           run' \in [DayWorkers -> DayRun], run'[w] = new,
           \A x \in DayWorkers \ {w} :
             /\ run'[x].task = run[x].task /\ run'[x].stage = run[x].stage
             /\ run'[x].step = run[x].step /\ run'[x].promises = run[x].promises
             /\ run'[x].read = run[x].read \/ (run[x].task # "none" /\ run[x].step = "leaving"),
           waiting' \in [DayTasks -> Nat],
           own' \in [OwnLocks -> DayWorkers \cup {Free, TheDead}],
           market' \in DayWorkers \cup {Free, TheDead}, owed' \subseteq Followers,
           new.task # "none" /\ new.step \in {"working", "stored"} => market' = w,
           \A x \in DayWorkers \ {w} : market = x => market' = x,
           \A t \in OwnLocks : own'[t] \in {own[t], Free, TheDead, w},
           \A t \in OwnLocks : own'[t] = w => new.task # "none" /\ Job(new) = t /\ new.step \in Held,
           (new.task # "none" /\ new.step = "stored" /\ Job(new) \in Followers) => Job(new) \notin owed',
           \A f \in owed' \ owed : market = w /\ Helps(new, f),
           lost \cap owed' \subseteq lost',
           \A f \in owed' : Queued(f) => Queued(f)' \/ Helps(new, f),
           \A f \in owed' : Helps(run[w], f) =>
             Helps(new, f) \/ Queued(f)' \/ f \in lost' \/ \E x \in DayWorkers \ {w} : Helps(run[x], f)
    PROVE  DayInv'
PROOF
<1>1. \A x \in DayWorkers \ {w} : Job(run'[x]) = Job(run[x])
  BY DEF Job
<1>2. DayTyped'
  BY DEF DayTyped
<1>3. RunsSound'
  <2> SUFFICES ASSUME NEW x \in DayWorkers \ {w} PROVE RunSound(run'[x])
    BY DEF RunsSound
  <2>1. RunSound(run[x])
    BY DEF DayInv, RunsSound
  <2> QED
    BY <1>1, <2>1 DEF RunSound, Fits
<1>4. MarketHeld'
  BY DEF DayInv, MarketHeld
<1>5. OwnHeld'
  <2> SUFFICES ASSUME NEW t \in OwnLocks, own'[t] \in DayWorkers
               PROVE  /\ run'[own'[t]].task # "none" /\ Job(run'[own'[t]]) = t
                      /\ run'[own'[t]].step \in Held
    BY DEF OwnHeld
  <2>1. CASE own'[t] = w
    BY <2>1
  <2>2. CASE own'[t] # w
    <3>1. own'[t] = own[t]
      BY <2>2, DayAssumption
    <3> QED
      BY <1>1, <2>2, <3>1 DEF DayInv, OwnHeld
  <2> QED
    BY <2>1, <2>2
<1>6. Concluded'
  <2> SUFFICES ASSUME NEW x \in DayWorkers, run'[x].task # "none", run'[x].step = "stored",
                      Job(run'[x]) \in Followers
               PROVE  Job(run'[x]) \notin owed'
    BY DEF Concluded
  <2>1. CASE x = w
    BY <2>1
  <2>2. CASE x # w
    <3>1. market = x
      BY <2>2 DEF DayInv, MarketHeld
    <3>2. Job(run[x]) \notin owed /\ Job(run'[x]) = Job(run[x])
      BY <1>1, <2>2 DEF DayInv, Concluded
    <3> QED
      BY <2>2, <3>1, <3>2
  <2> QED
    BY <2>1, <2>2
<1>7. \A x \in DayWorkers \ {w}, f \in owed' : Helps(run[x], f) => Helps(run'[x], f)
  BY <1>1 DEF Helps
<1>8. NothingForgotten'
  <2> SUFFICES ASSUME NEW f \in owed', f \notin lost' PROVE Pending(f)'
    BY DEF NothingForgotten
  <2>1. Pending(f)' <=> Queued(f)' \/ \E x \in DayWorkers : Helps(run'[x], f)
    BY DEF Pending, Queued, Helps, Job, JobOf
  <2>2. CASE f \notin owed
    BY <2>1, <2>2
  <2>3. CASE f \in owed
    <3>1. Queued(f) \/ \E x \in DayWorkers : Helps(run[x], f)
      BY <2>3, PendingIs DEF DayInv, NothingForgotten
    <3>2. (\E x \in DayWorkers \ {w} : Helps(run[x], f)) => Pending(f)'
      BY <1>7, <2>1
    <3> QED
      BY <2>1, <3>1, <3>2
  <2> QED
    BY <2>2, <2>3
<1> QED
  BY <1>2, <1>3, <1>4, <1>5, <1>6, <1>8 DEF DayInv

\* Messages that come, leases that end.
LEMMA NobodyGoesOn ==
    ASSUME DayInv, UNCHANGED <<run, owed, lost>>, waiting' \in [DayTasks -> Nat],
           \A t \in DayTasks : waiting[t] > 0 => waiting'[t] > 0,
           own' \in [OwnLocks -> DayWorkers \cup {Free, TheDead}],
           \A t \in OwnLocks : own'[t] \in {own[t], Free},
           market' = market \/ (market' = Free /\ market \notin DayWorkers)
    PROVE  DayInv'
PROOF
<1>1. DayTyped'
  BY DEF DayInv, DayTyped
<1>2. RunsSound' /\ MarketHeld' /\ Concluded'
  BY DEF DayInv, RunsSound, MarketHeld, Concluded
<1>3. OwnHeld'
  BY DayAssumption DEF DayInv, OwnHeld
<1>4. NothingForgotten'
  <2> SUFFICES ASSUME NEW f \in owed, f \notin lost PROVE Pending(f)'
    BY DEF NothingForgotten
  <2>1. Queued(f) \/ \E x \in DayWorkers : Helps(run[x], f)
    BY PendingIs DEF DayInv, NothingForgotten
  <2>2. f \in DayTasks /\ InBatches \subseteq DayTasks
    BY TaskFacts, JobFacts DEF DayInv, DayTyped, Followers, Tasks
  <2>3. Queued(f) => Queued(f)'
    BY <2>2 DEF Queued
  <2>4. Pending(f)' <=> Queued(f)' \/ \E x \in DayWorkers : Helps(run'[x], f)
    BY DEF Pending, Queued, Helps, Job, JobOf
  <2> QED
    BY <2>1, <2>3, <2>4
<1> QED
  BY <1>1, <1>2, <1>3, <1>4 DEF DayInv

\* The same for a worker that goes on alone and brings about nothing new to read.
LEMMA OneMoves ==
    ASSUME DayInv, NEW w \in DayWorkers, NEW new \in DayRun, RunSound(new),
           run' = [run EXCEPT ![w] = new],
           waiting' \in [DayTasks -> Nat],
           own' \in [OwnLocks -> DayWorkers \cup {Free, TheDead}],
           market' \in DayWorkers \cup {Free, TheDead}, owed' \subseteq owed,
           new.task # "none" /\ new.step \in {"working", "stored"} => market' = w,
           market' = market \/ market \in {w, Free, TheDead},
           \A t \in OwnLocks : own'[t] \in {own[t], Free, TheDead, w},
           \A t \in OwnLocks : own'[t] = w => new.task # "none" /\ Job(new) = t /\ new.step \in Held,
           (new.task # "none" /\ new.step = "stored" /\ Job(new) \in Followers) => Job(new) \notin owed',
           lost \cap owed' \subseteq lost',
           \A f \in owed' : Queued(f) => Queued(f)' \/ Helps(new, f),
           \A f \in owed' : Helps(run[w], f) =>
             Helps(new, f) \/ Queued(f)' \/ f \in lost' \/ \E x \in DayWorkers \ {w} : Helps(run[x], f)
    PROVE  DayInv'
PROOF
<1>1. run' \in [DayWorkers -> DayRun] /\ run'[w] = new
      /\ \A x \in DayWorkers \ {w} : run'[x] = run[x]
  BY DEF DayInv, DayTyped
<1>2. \A x \in DayWorkers \ {w} : market = x => market' = x
  BY DayAssumption
<1>3. owed' \subseteq Followers /\ \A f \in owed' \ owed : market = w /\ Helps(new, f)
  BY DEF DayInv, DayTyped
<1> QED
  BY <1>1, <1>2, <1>3, OneGoesOn

LEMMA StepMoved ==
    ASSUME NEW r \in DayRun,
           NEW s \in {"resting", "own lock", "market lock", "working", "stored", "leaving"}
    PROVE  LET n == [r EXCEPT !.step = s]
           IN  /\ n \in DayRun /\ n.task = r.task /\ n.stage = r.stage /\ n.step = s
               /\ n.promises = r.promises /\ n.read = r.read /\ Job(n) = Job(r)
PROOF
<1> DEFINE n == [r EXCEPT !.step = s]
<1>1. /\ n \in DayRun /\ n.task = r.task /\ n.stage = r.stage /\ n.step = s
      /\ n.promises = r.promises /\ n.read = r.read
  BY DEF DayRun
<1> HIDE DEF n
<1>2. Job(n) = Job(r)
  BY <1>1 DEF Job
<1> QED
  BY <1>1, <1>2 DEF n

\* One more message, or one less.
LEMMA MessageKept ==
    ASSUME DayTyped, NEW t \in DayTasks, waiting' = [waiting EXCEPT ![t] = @ + 1]
    PROVE  /\ waiting' \in [DayTasks -> Nat] /\ waiting'[t] > 0
           /\ \A u \in DayTasks : waiting[u] > 0 => waiting'[u] > 0
           /\ \A f \in Followers : Queued(f) => Queued(f)'
           /\ t \in Followers => Queued(t)'
           /\ t \in InBatches => Queued("analysis")'
PROOF
<1>1. waiting \in [DayTasks -> Nat]
  BY DEF DayTyped
<1>2. /\ waiting' \in [DayTasks -> Nat] /\ waiting'[t] > 0
      /\ \A u \in DayTasks : waiting[u] > 0 => waiting'[u] > 0
  BY <1>1
<1>3. Followers \subseteq DayTasks /\ InBatches \subseteq DayTasks
  BY TaskFacts, JobFacts DEF Followers, Tasks
<1> QED
  BY <1>2, <1>3 DEF Queued

LEMMA OwnLockReleased ==
    ASSUME DayTyped, NEW w \in DayWorkers
    PROVE  /\ OwnReleased(w) \in [OwnLocks -> DayWorkers \cup {Free, TheDead}]
           /\ \A t \in OwnLocks : OwnReleased(w)[t] \in {own[t], Free} /\ OwnReleased(w)[t] # w
PROOF
  BY DayAssumption DEF DayTyped, OwnReleased

\* Without work at hand a run helps nobody but by what it promises, and batches do.
LEMMA FollowersApart ==
    /\ "analysis" \in Followers /\ Followers \cap InBatches = {} /\ Followers \cap Producers = {}
    /\ \A j : FollowerOf(j) \in Followers
    /\ \A b \in InBatches : FollowerOf(b) = "analysis"
    /\ Followers \subseteq OwnLocks /\ InBatches \cap OwnLocks = {}
    /\ InBatches \subseteq Producers
PROOF
  BY JobFacts DEF Followers, OwnLocks, Producers, FollowerOf

LEMMA DayStep == DayInv /\ [DayNext]_dayVars => DayInv'
PROOF
<1> SUFFICES ASSUME DayInv, [DayNext]_dayVars PROVE DayInv'
  OBVIOUS
<1>0. /\ DayTyped /\ RunsSound /\ \A w \in DayWorkers : run[w] \in DayRun /\ RunSound(run[w])
      /\ waiting \in [DayTasks -> Nat] /\ own \in [OwnLocks -> DayWorkers \cup {Free, TheDead}]
      /\ market \in DayWorkers \cup {Free, TheDead}
  BY DEF DayInv, DayTyped, RunsSound
<1>1. \A w : JobOf(w) = Job(run[w])
  BY DEF JobOf, Job
<1>2. \A w \in DayWorkers, t \in OwnLocks :
        own[t] = w => run[w].task # "none" /\ Job(run[w]) = t /\ run[w].step \in Held
  BY DEF DayInv, OwnHeld
\* What holds of a run by its place.
<1>3. ASSUME NEW w \in DayWorkers, run[w].task # "none"
      PROVE  /\ Job(run[w]) \in (Tasks \ {"pipeline"}) \cup {"assessment", "digest"}
             /\ Job(run[w]) \in OwnLocks \cup Followers \cup InBatches => run[w].task = Job(run[w])
             /\ run[w].task # "pipeline" => run[w].task = Job(run[w])
             /\ run[w].task \in DayTasks
  BY <1>0, <1>3, JobIsTask DEF RunSound, DayRun
<1>4. ASSUME NEW begun \in Started, StartTask(begun) PROVE DayInv'
  <2>1. begun \in DayTasks
    BY DayAssumption
  <2>2. waiting' = [waiting EXCEPT ![begun] = @ + 1] /\ UNCHANGED <<run, own, market, owed, lost>>
    BY <1>4 DEF StartTask
  <2> QED
    BY <1>0, <2>1, <2>2, MessageKept, NobodyGoesOn
<1>5. CASE DeadLeaseEnds
  <2>1. /\ UNCHANGED <<run, owed, lost, waiting>>
        /\ market' = market \/ (market' = Free /\ market = TheDead)
        /\ own' \in [OwnLocks -> DayWorkers \cup {Free, TheDead}]
        /\ \A t \in OwnLocks : own'[t] \in {own[t], Free}
    BY <1>0, <1>5 DEF DeadLeaseEnds
  <2> QED
    BY <1>0, <2>1, DayAssumption, NobodyGoesOn
<1>6. ASSUME NEW w \in DayWorkers, NEW begun \in DayTasks, Receive(w, begun) PROVE DayInv'
  <2> DEFINE new == StageOf(begun, 1)
  <2>1. /\ run[w] = Resting /\ waiting[begun] > 0
        /\ waiting' = [waiting EXCEPT ![begun] = @ - 1]
        /\ run' = [run EXCEPT ![w] = new]
        /\ UNCHANGED <<own, market, owed, lost>>
    BY <1>6 DEF Receive
  <2>2. /\ new \in DayRun /\ RunSound(new) /\ new.task = begun /\ new.read = "nothing"
        /\ Job(new) = JobsOf(begun)[1] /\ new.step = FirstStep(JobsOf(begun)[1])
        /\ new.step \in {"own lock", "market lock", "leaving"}
    <3>1. new = StageOf(begun, 1)
      OBVIOUS
    <3>2. PICK n \in 1..4 : n = 1
      OBVIOUS
    <3>3. Begun(StageOf(begun, n), begun, n)
      BY <3>2, StageBegins
    <3> HIDE DEF new
    <3> QED
      BY <3>1, <3>2, <3>3 DEF Begun
  <2> HIDE DEF new
  <2>3. run[w].task = "none"
    BY <2>1 DEF Resting
  <2>4. \A t \in OwnLocks : own[t] # w
    BY <1>2, <2>3
  <2>5. waiting' \in [DayTasks -> Nat] /\ \A t \in DayTasks \ {begun} : waiting'[t] = waiting[t]
    BY <1>0, <2>1
  <2>6. \A f : ~Helps(run[w], f)
    BY <2>3 DEF Helps
  <2>7. begun # "pipeline" => Job(new) = begun
    <3>1. begun # "pipeline" => JobsOf(begun) = <<begun>>
      BY JobFacts
    <3>2. <<begun>>[1] = begun
      OBVIOUS
    <3>3. Job(new) = JobsOf(begun)[1]
      BY <2>2
    <3> QED
      BY <3>1, <3>2, <3>3, Zenon
  <2>8. ASSUME NEW f \in owed, Queued(f) PROVE Queued(f)' \/ Helps(new, f)
    <3>1. f \in Followers /\ f \in DayTasks /\ InBatches \subseteq DayTasks
      BY TaskFacts, JobFacts DEF DayInv, DayTyped, Followers, Tasks
    <3>2. CASE waiting[f] > 0 /\ f = begun
      <4>1. Job(new) = f /\ new.step = "own lock"
        BY <2>2, <2>7, <3>1, <3>2 DEF Followers, OwnLocks, FirstStep
      <4> QED
        BY <2>2, <4>1, TaskFacts DEF Helps, Tasks
    <3>3. CASE waiting[f] > 0 /\ f # begun
      BY <2>5, <3>1, <3>3 DEF Queued
    <3>4. CASE ~(waiting[f] > 0)
      <4>1. PICK b \in InBatches : waiting[b] > 0 /\ f = "analysis"
        BY <2>8, <3>4 DEF Queued
      <4>2. CASE b = begun
        BY <2>2, <2>7, <4>1, <4>2, JobFacts DEF Helps
      <4>3. CASE b # begun
        BY <2>5, <3>1, <4>1, <4>3 DEF Queued
      <4> QED
        BY <4>2, <4>3
    <3> QED
      BY <3>2, <3>3, <3>4
  <2> QED
    BY <1>0, <2>1, <2>2, <2>4, <2>5, <2>6, <2>8, OneMoves
<1>7. ASSUME NEW w \in DayWorkers, TakeOwnLock(w) PROVE DayInv'
  <2> DEFINE new == [run[w] EXCEPT !.step = "market lock"]
             t == Job(run[w])
  <2>1. /\ run[w].task # "none" /\ run[w].step = "own lock" /\ own[t] = Free
        /\ own' = [own EXCEPT ![t] = w] /\ run' = [run EXCEPT ![w] = new]
        /\ UNCHANGED <<waiting, market, owed, lost>>
    BY <1>1, <1>7 DEF TakeOwnLock, RunAt, Move
  <2>2. /\ new \in DayRun /\ new.task = run[w].task /\ new.stage = run[w].stage /\ new.step = "market lock"
        /\ new.promises = run[w].promises /\ new.read = run[w].read /\ Job(new) = Job(run[w])
    BY <1>0, StepMoved
  <2> HIDE DEF new
  <2>3. t \in OwnLocks /\ RunSound(new)
    BY <1>0, <2>1, <2>2 DEF RunSound, Fits
  <2>4. \A f : Helps(run[w], f) => Helps(new, f)
    BY <2>1, <2>2 DEF Helps
  <2>5. \A f : Queued(f)' = Queued(f)
    BY <2>1 DEF Queued
  <2>6. /\ own' \in [OwnLocks -> DayWorkers \cup {Free, TheDead}]
        /\ \A u \in OwnLocks : own'[u] \in {own[u], w}
        /\ \A u \in OwnLocks : own'[u] = w => u = t
    BY <1>0, <1>2, <2>1, <2>3 DEF Held
  <2> HIDE DEF t
  <2>7. \A u \in OwnLocks : own'[u] = w => new.task # "none" /\ Job(new) = u /\ new.step \in Held
    BY <2>1, <2>2, <2>6 DEF t, Held
  <2> QED
    BY <1>0, <2>1, <2>2, <2>3, <2>4, <2>5, <2>6, <2>7, OneMoves
<1>8. ASSUME NEW w \in DayWorkers, SkipRunning(w) PROVE DayInv'
  <2> DEFINE new == NextStage(w)
  <2>0. PICK f : f = Job(run[w])
    OBVIOUS
  <2>1. /\ run[w].task # "none" /\ run[w].step = "own lock" /\ own[f] # Free
        /\ lost' = IF own[f] = TheDead \/ Leaving(own[f]) THEN lost \cup ({f} \cap owed) ELSE lost
        /\ run' = [run EXCEPT ![w] = new]
        /\ UNCHANGED <<waiting, own, market, owed>>
    BY <1>1, <1>8, <2>0 DEF SkipRunning, RunAt
  <2>2. /\ new \in DayRun /\ RunSound(new)
        /\ new.task # "none" => new.step \in {"own lock", "market lock", "leaving"}
    BY <1>0, <2>1, NextStageBegins
  <2> HIDE DEF new
  <2>3. f \in OwnLocks /\ ~run[w].promises
    BY <1>0, <2>0, <2>1 DEF RunSound
  <2>4. \A t \in OwnLocks : own[t] # w
    BY <1>2, <2>1 DEF Held
  <2>5. ASSUME NEW g \in owed, Helps(run[w], g)
        PROVE  g \in lost' \/ \E x \in DayWorkers \ {w} : Helps(run[x], g)
    <3>1. g = f
      BY <2>0, <2>3, <2>5, FollowersApart DEF Helps
    <3>2. CASE own[f] = TheDead \/ Leaving(own[f])
      BY <2>1, <3>1, <3>2
    <3>3. CASE ~(own[f] = TheDead \/ Leaving(own[f]))
      <4> DEFINE h == own[f]
      <4>1. h \in DayWorkers \ {w}
        BY <1>0, <2>1, <2>3, <2>4, <3>3
      <4>2. run[h].task # "none" /\ Job(run[h]) = f /\ run[h].step \in {"market lock", "working", "stored"}
        BY <1>2, <2>3, <3>3, <4>1 DEF Leaving, Held
      <4>3. f \in Followers
        BY <3>1 DEF DayInv, DayTyped
      <4>4. run[h].step # "stored"
        BY <3>1, <4>1, <4>2, <4>3 DEF DayInv, Concluded
      <4>5. run[h].read # "not all"
        BY <1>0, <4>1, <4>2, <4>4 DEF RunSound
      <4>6. Helps(run[h], g)
        BY <3>1, <4>2, <4>4, <4>5 DEF Helps
      <4> QED
        BY <4>1, <4>6
    <3> QED
      BY <3>2, <3>3
  <2>6. \A g : Queued(g)' = Queued(g)
    BY <2>1 DEF Queued
  <2>7. lost \subseteq lost'
    BY <2>1
  <2> QED
    BY <1>0, <2>1, <2>2, <2>4, <2>5, <2>6, <2>7, OneMoves
<1>9. ASSUME NEW w \in DayWorkers, TakeMarketLock(w) PROVE DayInv'
  <2> DEFINE new == [run[w] EXCEPT !.step = "working"]
  <2>1. /\ run[w].task # "none" /\ run[w].step = "market lock" /\ market = Free
        /\ market' = w /\ run' = [run EXCEPT ![w] = new]
        /\ UNCHANGED <<waiting, own, owed, lost>>
    BY <1>9 DEF TakeMarketLock, RunAt, Move
  <2>2. /\ new \in DayRun /\ new.task = run[w].task /\ new.stage = run[w].stage /\ new.step = "working"
        /\ new.promises = run[w].promises /\ new.read = run[w].read /\ Job(new) = Job(run[w])
    BY <1>0, StepMoved
  <2> HIDE DEF new
  <2>3. RunSound(new)
    BY <1>0, <2>1, <2>2 DEF RunSound, Fits
  <2>4. \A f : Helps(run[w], f) => Helps(new, f)
    BY <2>1, <2>2 DEF Helps
  <2>5. \A f : Queued(f)' = Queued(f)
    BY <2>1 DEF Queued
  <2>6. \A u \in OwnLocks : own[u] = w => new.task # "none" /\ Job(new) = u /\ new.step \in Held
    BY <1>2, <2>2 DEF Held
  <2> QED
    BY <1>0, <2>1, <2>2, <2>3, <2>4, <2>5, <2>6, OneMoves
<1>10. ASSUME NEW w \in DayWorkers, LockTimeout(w) PROVE DayInv'
  <2> DEFINE new == NextStage(w)
  <2>0. PICK f : f = Job(run[w])
    OBVIOUS
  <2>1. /\ run[w].task # "none" /\ run[w].step = "market lock"
        /\ \/ run[w].task \notin DOMAIN Stages /\ waiting' = Again(w) /\ UNCHANGED lost
           \/ lost' = lost \cup Forgotten(f) /\ UNCHANGED waiting
        /\ own' = OwnReleased(w) /\ run' = [run EXCEPT ![w] = new]
        /\ UNCHANGED <<market, owed>>
    BY <1>1, <1>10, <2>0 DEF LockTimeout, RunAt
  <2>2. /\ new \in DayRun /\ RunSound(new)
        /\ new.task # "none" => new.step \in {"own lock", "market lock", "leaving"}
    BY <1>0, <2>1, NextStageBegins
  <2> HIDE DEF new
  <2>3. ~run[w].promises
    BY <1>0, <2>1 DEF RunSound
  <2>4. waiting' \in [DayTasks -> Nat] /\ (\A g \in Followers : Queued(g) => Queued(g)') /\ lost \subseteq lost'
    <3>1. waiting' = Again(w) => waiting' = [waiting EXCEPT ![run[w].task] = @ + 1]
      BY DEF Again
    <3>2. waiting' = waiting => \A g : Queued(g)' = Queued(g)
      BY DEF Queued
    <3>3. PICK t \in DayTasks : t = run[w].task
      BY <1>3, <2>1
    <3> QED
      BY <1>0, <2>1, <3>1, <3>2, <3>3, MessageKept
  <2>5. ASSUME NEW g \in owed, Helps(run[w], g) PROVE g \in lost' \/ Queued(g)'
    <3>1. g \in Followers
      BY DEF DayInv, DayTyped
    <3>2. g = f \/ (g = "analysis" /\ f \in InBatches)
      BY <2>0, <2>3, <2>5 DEF Helps
    <3>3. f = run[w].task
      BY <1>3, <2>0, <2>1, <3>1, <3>2
    <3>4. CASE waiting' = Again(w)
      <4>1. waiting' = [waiting EXCEPT ![run[w].task] = @ + 1]
        BY <3>4 DEF Again
      <4>2. f \in DayTasks /\ waiting' = [waiting EXCEPT ![f] = @ + 1]
        BY <1>3, <2>1, <3>3, <4>1
      <4>3. (f \in Followers => Queued(f)') /\ (f \in InBatches => Queued("analysis")')
        BY <1>0, <4>2, MessageKept
      <4> QED
        BY <3>1, <3>2, <4>3
    <3>5. CASE lost' = lost \cup Forgotten(f)
      BY <3>1, <3>2, <3>5, FollowersApart DEF Forgotten
    <3> QED
      BY <2>1, <3>4, <3>5
  <2>6. \A t \in OwnLocks : own'[t] \in {own[t], Free} /\ own'[t] # w
    BY <1>0, <2>1, OwnLockReleased
  <2>7. own' \in [OwnLocks -> DayWorkers \cup {Free, TheDead}]
    BY <1>0, <2>1, OwnLockReleased
  <2>8. owed \subseteq Followers
    BY DEF DayInv, DayTyped
  <2> QED
    BY <1>0, <2>1, <2>2, <2>4, <2>5, <2>6, <2>7, <2>8, OneMoves
<1>11. ASSUME NEW w \in DayWorkers, Store(w) PROVE DayInv'
  <2> DEFINE j == Job(run[w])
             f == FollowerOf(j)
  <2>1. PICK stored \in BOOLEAN :
          /\ owed' = IF stored THEN owed \cup {f} ELSE owed
          /\ run' = [x \in DayWorkers |->
               IF x = w
                 THEN [run[w] EXCEPT !.step = "stored", !.promises = stored \/ j \in InBatches]
               ELSE IF stored /\ run[x].task = f /\ run[x].read = "all"
                 THEN [run[x] EXCEPT !.read = "not all"]
               ELSE run[x]]
    BY <1>1, <1>11 DEF Store
  <2>2. /\ run[w].task # "none" /\ run[w].step = "working" /\ j \in Producers
        /\ UNCHANGED <<waiting, own, market, lost>>
    BY <1>1, <1>11 DEF Store, RunAt
  <2> DEFINE p == stored \/ j \in InBatches
             new == [run[w] EXCEPT !.step = "stored", !.promises = p]
             Old(x) == [run[x] EXCEPT !.read = "not all"]
  <2>3. p \in BOOLEAN
    OBVIOUS
  <2>4. new = [run[w] EXCEPT !.step = "stored", !.promises = p]
    OBVIOUS
  <2>5. /\ run'[w] = new
        /\ \A x \in DayWorkers \ {w} :
             run'[x] = IF stored /\ run[x].task = f /\ run[x].read = "all" THEN Old(x) ELSE run[x]
    BY <2>1
  <2>6. \A x \in DayWorkers : /\ Old(x) \in DayRun /\ Old(x).task = run[x].task /\ Old(x).stage = run[x].stage
                              /\ Old(x).step = run[x].step /\ Old(x).promises = run[x].promises
    BY <1>0 DEF DayRun
  <2>7. DOMAIN run' = DayWorkers /\ run' = [x \in DayWorkers |-> run'[x]]
    BY <2>1
  <2> HIDE DEF p, Old, new
  <2>8. /\ new \in DayRun /\ new.task = run[w].task /\ new.stage = run[w].stage /\ new.step = "stored"
        /\ new.promises = p /\ new.read = run[w].read
    BY <1>0, <2>3, <2>4 DEF DayRun
  <2>9. Job(new) = j
    BY <2>8 DEF Job
  <2>10. RunSound(new)
    BY <1>0, <2>2, <2>8, <2>9 DEF RunSound, Fits, p
  <2>11. run' \in [DayWorkers -> DayRun]
    BY <1>0, <2>5, <2>6, <2>7, <2>8
  <2>12. market = w
    BY <2>2 DEF DayInv, MarketHeld
  \* Whoever has read all and is not gone has concluded and given the market back.
  <2>13. ASSUME NEW x \in DayWorkers \ {w}
         PROVE  /\ run'[x].task = run[x].task /\ run'[x].stage = run[x].stage
                /\ run'[x].step = run[x].step /\ run'[x].promises = run[x].promises
                /\ run'[x].read = run[x].read \/ (run[x].task # "none" /\ run[x].step = "leaving")
    <3>1. CASE run'[x] = run[x]
      BY <3>1
    <3>2. CASE stored /\ run[x].task = f /\ run[x].read = "all" /\ run'[x] = Old(x)
      <4>1. run[x].task # "none"
        BY <3>2, FollowersApart, TaskFacts DEF Followers
      <4>2. run[x].step \notin {"working", "stored"}
        BY <2>12, <4>1 DEF DayInv, MarketHeld
      <4>3. run[x].step \notin {"own lock", "market lock"}
        BY <1>0, <3>2, <4>1 DEF RunSound
      <4> QED
        <5>1. run[x].step # "resting" /\ run[x] \in DayRun
          BY <1>0, <4>1 DEF RunSound
        <5>2. run[x].step = "leaving"
          BY <4>2, <4>3, <5>1 DEF DayRun
        <5> QED
          BY <2>6, <3>2, <4>1, <5>2
    <3> QED
      BY <2>5, <3>1, <3>2
  <2>14. f \in Followers /\ j \notin Followers
    BY <2>2, FollowersApart
  <2>15. \A g \in owed' \ owed : market = w /\ Helps(new, g)
    BY <2>1, <2>2, <2>8, <2>9, <2>12 DEF Helps, p
  <2>16. \A g \in owed' : Helps(run[w], g) => Helps(new, g)
    <3> SUFFICES ASSUME NEW g \in owed', Helps(run[w], g) PROVE Helps(new, g)
      OBVIOUS
    <3>1. g \in Followers
      BY <2>1, <2>14 DEF DayInv, DayTyped
    <3>2. ~run[w].promises
      BY <1>0, <2>2 DEF RunSound
    <3> QED
      BY <2>2, <2>8, <2>9, <2>14, <3>1, <3>2 DEF Helps
  <2>17. \A u \in OwnLocks : own'[u] = w => new.task # "none" /\ Job(new) = u /\ new.step \in Held
    BY <1>2, <2>2, <2>8, <2>9 DEF Held
  <2>18. \A g : Queued(g)' = Queued(g)
    BY <2>2 DEF Queued
  <2>19. owed' \subseteq Followers
    BY <2>1, <2>14 DEF DayInv, DayTyped
  <2> HIDE DEF j, f
  <2>20. Job(new) \notin Followers
    BY <2>9, <2>14
  <2> QED
    BY <1>0, <2>2, <2>5, <2>8, <2>10, <2>11, <2>12, <2>13, <2>15, <2>16, <2>17, <2>18, <2>19, <2>20, OneGoesOn
<1>12. ASSUME NEW w \in DayWorkers, ReadAll(w) PROVE DayInv'
  <2> DEFINE new == [run[w] EXCEPT !.read = "all"]
  <2>1. /\ run[w].task # "none" /\ run[w].step = "working" /\ run' = [run EXCEPT ![w] = new]
        /\ UNCHANGED <<waiting, own, market, owed, lost>>
    BY <1>12 DEF ReadAll, MayRead, RunAt
  <2>2. /\ new \in DayRun /\ new.task = run[w].task /\ new.stage = run[w].stage
        /\ new.step = "working" /\ new.promises = run[w].promises /\ new.read = "all"
    BY <1>0, <2>1 DEF DayRun
  <2> HIDE DEF new
  <2>3. Job(new) = Job(run[w])
    BY <2>2 DEF Job
  <2>4. RunSound(new)
    BY <1>0, <2>1, <2>2, <2>3 DEF RunSound, Fits
  <2>5. market = w
    BY <2>1 DEF DayInv, MarketHeld
  <2>6. \A f : Helps(run[w], f) => Helps(new, f)
    BY <2>1, <2>2, <2>3 DEF Helps
  <2>7. \A f : Queued(f)' = Queued(f)
    BY <2>1 DEF Queued
  <2>8. \A u \in OwnLocks : own[u] = w => new.task # "none" /\ Job(new) = u /\ new.step \in Held
    BY <1>2, <2>2, <2>3 DEF Held
  <2> QED
    BY <1>0, <2>1, <2>2, <2>4, <2>5, <2>6, <2>7, <2>8, OneMoves
<1>13. ASSUME NEW w \in DayWorkers, Conclude(w) \/ AssessDay(w) PROVE DayInv'
  <2> DEFINE new == [run[w] EXCEPT !.step = "stored"]
             j == Job(run[w])
  <2>1. /\ run[w].task # "none" /\ run[w].step = "working" /\ run' = [run EXCEPT ![w] = new]
        /\ UNCHANGED <<waiting, own, market>>
    BY <1>13 DEF Conclude, AssessDay, RunAt, Move
  <2>2. run[w].read # "not all"
    BY <1>0, <2>1 DEF RunSound
  <2>3. \/ j \in Followers /\ owed' = owed \ {j} /\ lost' = lost \ {j}
        \/ j = "assessment" /\ UNCHANGED <<owed, lost>>
    <3>1. CASE Conclude(w)
      <4>1. run[w].read = "all"
        BY <1>0, <2>2, <3>1 DEF Conclude, DayRun
      <4> QED
        BY <1>1, <3>1, <4>1 DEF Conclude
    <3>2. CASE AssessDay(w)
      BY <1>1, <3>2 DEF AssessDay
    <3> QED
      BY <1>13, <3>1, <3>2
  <2>4. /\ new \in DayRun /\ new.task = run[w].task /\ new.stage = run[w].stage /\ new.step = "stored"
        /\ new.promises = run[w].promises /\ new.read = run[w].read /\ Job(new) = j
    BY <1>0, StepMoved
  <2> HIDE DEF new
  <2>5. j \notin InBatches /\ "assessment" \notin Followers
    BY <2>3, JobFacts, FollowersApart DEF Followers
  <2> HIDE DEF j
  <2>6. RunSound(new)
    BY <1>0, <2>1, <2>4, <2>5 DEF RunSound, Fits, j
  <2>7. market = w
    BY <2>1 DEF DayInv, MarketHeld
  <2>8. \A f \in owed' : Helps(run[w], f) => Helps(new, f)
    <3> SUFFICES ASSUME NEW f \in owed', Helps(run[w], f) PROVE Helps(new, f)
      OBVIOUS
    <3>1. ~run[w].promises
      BY <1>0, <2>1 DEF RunSound
    <3>2. f = j
      BY <2>5, <3>1 DEF Helps, j
    <3>3. f \in Followers
      BY <2>3 DEF DayInv, DayTyped
    <3> QED
      BY <2>3, <2>5, <3>2, <3>3
  <2>9. \A f : Queued(f)' = Queued(f)
    BY <2>1 DEF Queued
  <2>10. \A u \in OwnLocks : own[u] = w => new.task # "none" /\ Job(new) = u /\ new.step \in Held
    BY <1>2, <2>4 DEF Held, j
  <2>11. /\ owed' \subseteq owed /\ lost \cap owed' \subseteq lost'
         /\ Job(new) \in Followers => Job(new) \notin owed'
    BY <2>3, <2>4, <2>5
  <2> QED
    BY <1>0, <2>1, <2>4, <2>6, <2>7, <2>8, <2>9, <2>10, <2>11, OneMoves
<1>14. ASSUME NEW w \in DayWorkers, ReleaseMarketLock(w) PROVE DayInv'
  <2> DEFINE new == [run[w] EXCEPT !.step = "leaving"]
  <2>1. /\ run[w].task # "none" /\ run[w].step = "stored" /\ run' = [run EXCEPT ![w] = new]
        /\ market' = Free /\ UNCHANGED <<waiting, own, owed, lost>>
    BY <1>14 DEF ReleaseMarketLock, RunAt, Move
  <2>2. /\ new \in DayRun /\ new.task = run[w].task /\ new.stage = run[w].stage /\ new.step = "leaving"
        /\ new.promises = run[w].promises /\ new.read = run[w].read /\ Job(new) = Job(run[w])
    BY <1>0, StepMoved
  <2> HIDE DEF new
  <2>3. RunSound(new)
    BY <1>0, <2>1, <2>2 DEF RunSound, Fits
  <2>4. market = w
    BY <2>1 DEF DayInv, MarketHeld
  <2>5. \A f : Helps(run[w], f) => Helps(new, f)
    BY <2>1, <2>2 DEF Helps
  <2>6. \A f : Queued(f)' = Queued(f)
    BY <2>1 DEF Queued
  <2>7. \A u \in OwnLocks : own[u] = w => new.task # "none" /\ Job(new) = u /\ new.step \in Held
    BY <1>2, <2>2 DEF Held
  <2> QED
    BY <1>0, <2>1, <2>2, <2>3, <2>4, <2>5, <2>6, <2>7, OneMoves
<1>15. ASSUME NEW w \in DayWorkers, Leave(w) PROVE DayInv'
  <2> DEFINE new == NextStage(w)
  <2>0. PICK j : j = Job(run[w])
    OBVIOUS
  <2>1. /\ run[w].task # "none" /\ run[w].step = "leaving"
        /\ waiting' = IF run[w].promises THEN [waiting EXCEPT ![Queues(j)] = @ + 1] ELSE waiting
        /\ own' = OwnReleased(w) /\ run' = [run EXCEPT ![w] = new]
        /\ UNCHANGED <<market, owed, lost>>
    BY <1>1, <1>15, <2>0 DEF Leave, RunAt
  <2>2. /\ new \in DayRun /\ RunSound(new)
        /\ new.task # "none" => new.step \in {"own lock", "market lock", "leaving"}
    BY <1>0, <2>1, NextStageBegins
  <2> HIDE DEF new
  <2>3. (j \in InBatches => run[w].promises) /\ (run[w].promises => j \in Producers)
    BY <1>0, <2>0, <2>1 DEF RunSound
  <2>4. ASSUME run[w].promises
        PROVE  /\ waiting' \in [DayTasks -> Nat] /\ \A g : g = FollowerOf(j) => Queued(g)'
               /\ \A g \in Followers : Queued(g) => Queued(g)'
    <3>1. j \in {"append", "settlement", "fetch", "batch 1", "batch 2"}
      BY <2>3, <2>4, TaskFacts
    <3>2. /\ Queues(j) \in DayTasks
          /\ Queues(j) = FollowerOf(j) \/ (Queues(j) \in InBatches /\ FollowerOf(j) = "analysis")
      BY <3>1, JobFacts, TaskFacts DEF Tasks, FollowerOf
    <3>3. waiting' = [waiting EXCEPT ![Queues(j)] = @ + 1]
      BY <2>1, <2>4
    <3>4. PICK q \in DayTasks : q = Queues(j)
      BY <3>2
    <3>5. waiting' = [waiting EXCEPT ![q] = @ + 1]
      BY <3>3, <3>4
    <3>6. /\ waiting' \in [DayTasks -> Nat] /\ \A g \in Followers : Queued(g) => Queued(g)'
          /\ q \in Followers => Queued(q)'
          /\ q \in InBatches => Queued("analysis")'
      BY <1>0, <3>5, MessageKept
    <3> QED
      BY <3>2, <3>4, <3>6, FollowersApart
  <2>5. waiting' \in [DayTasks -> Nat] /\ \A g \in Followers : Queued(g) => Queued(g)'
    <3>1. ~run[w].promises => waiting' = waiting
      BY <2>1
    <3>2. waiting' = waiting => \A g : Queued(g)' = Queued(g)
      BY DEF Queued
    <3> QED
      BY <1>0, <2>4, <3>1, <3>2
  <2>6. \A g \in owed : Helps(run[w], g) => Queued(g)'
    <3> SUFFICES ASSUME NEW g \in owed, Helps(run[w], g) PROVE Queued(g)'
      OBVIOUS
    <3>1. run[w].promises /\ g = FollowerOf(j)
      BY <2>0, <2>1, <2>3, FollowersApart DEF Helps
    <3> QED
      BY <2>4, <3>1
  <2>7. /\ own' \in [OwnLocks -> DayWorkers \cup {Free, TheDead}]
        /\ \A t \in OwnLocks : own'[t] \in {own[t], Free} /\ own'[t] # w
    BY <1>0, <2>1, OwnLockReleased
  <2>8. owed \subseteq Followers
    BY DEF DayInv, DayTyped
  <2> QED
    BY <1>0, <2>1, <2>2, <2>5, <2>6, <2>7, <2>8, OneMoves
<1>16. ASSUME NEW w \in DayWorkers, WorkerLost(w) PROVE DayInv'
  <2>0. PICK j, begun : j = Job(run[w]) /\ begun = run[w].task
    OBVIOUS
  <2>1. PICK again \in BOOLEAN :
          /\ waiting' = IF again THEN Again(w) ELSE waiting
          /\ lost' = lost
               \cup (IF again THEN {} ELSE Forgotten(j))
               \cup (IF run[w].promises /\ ~(again /\ j \in InBatches)
                       THEN {FollowerOf(j)} \cap owed ELSE {})
    BY <1>1, <1>16, <2>0 DEF WorkerLost
  <2>2. /\ own' = [t \in OwnLocks |-> IF own[t] = w THEN TheDead ELSE own[t]]
        /\ market' = IF market = w THEN TheDead ELSE market
        /\ run' = [run EXCEPT ![w] = Resting] /\ owed' = owed
    BY <1>16 DEF WorkerLost
  <2>3. Resting \in DayRun /\ RunSound(Resting) /\ Resting.task = "none"
    BY DEF Resting, DayRun, RunSound
  <2>4. /\ waiting' \in [DayTasks -> Nat] /\ \A g \in Followers : Queued(g) => Queued(g)'
        /\ again /\ run[w].task # "none" =>
             /\ begun \in Followers => Queued(begun)'
             /\ begun \in InBatches => Queued("analysis")'
    <3>1. waiting' = waiting => \A g : Queued(g)' = Queued(g)
      BY DEF Queued
    <3>2. CASE begun \in DayTasks
      <4>1. CASE again
        <5>1. waiting' = [waiting EXCEPT ![begun] = @ + 1]
          BY <2>0, <2>1, <4>1 DEF Again
        <5> QED
          BY <1>0, <3>2, <5>1, MessageKept
      <4>2. CASE ~again
        BY <1>0, <2>1, <3>1, <4>2
      <4> QED
        BY <4>1, <4>2
    <3>3. CASE begun \notin DayTasks
      <4>1. waiting' = waiting
        BY <1>0, <2>0, <2>1, <3>3 DEF Again
      <4> QED
        BY <1>0, <1>3, <2>0, <3>1, <3>3, <4>1
    <3> QED
      BY <3>2, <3>3
  <2>5. ASSUME NEW g \in owed, Helps(run[w], g) PROVE g \in lost' \/ Queued(g)'
    <3>1. g \in Followers /\ run[w].task # "none"
      BY <2>5 DEF DayInv, DayTyped, Helps
    <3>2. CASE g = j
      <4>1. begun = j
        BY <1>3, <2>0, <3>1, <3>2
      <4>2. ~again => g \in lost'
        BY <2>1, <3>1, <3>2 DEF Forgotten
      <4> QED
        BY <2>4, <3>1, <3>2, <4>1, <4>2
    <3>3. CASE g = "analysis" /\ j \in InBatches
      <4>1. begun = j
        BY <1>3, <2>0, <3>1, <3>3
      <4>2. ~again => g \in lost'
        BY <2>1, <3>3, FollowersApart DEF Forgotten
      <4> QED
        BY <2>4, <3>1, <3>3, <4>1, <4>2
    <3>4. CASE run[w].promises /\ FollowerOf(j) = g /\ j \notin InBatches
      BY <2>1, <3>4
    <3> QED
      BY <2>0, <2>5, <3>2, <3>3, <3>4, FollowersApart DEF Helps
  <2>6. lost \subseteq lost'
    BY <2>1
  <2>7. /\ own' \in [OwnLocks -> DayWorkers \cup {Free, TheDead}]
        /\ \A t \in OwnLocks : own'[t] \in {own[t], TheDead} /\ own'[t] # w
    BY <1>0, <2>2, DayAssumption
  <2>8. market' \in DayWorkers \cup {Free, TheDead} /\ (market' = market \/ market = w)
    BY <1>0, <2>2
  <2>9. owed \subseteq Followers
    BY DEF DayInv, DayTyped
  <2> QED
    BY <2>2, <2>3, <2>4, <2>5, <2>6, <2>7, <2>8, <2>9, OneMoves
<1>17. CASE UNCHANGED dayVars
  <2>1. UNCHANGED <<waiting, run, own, market, owed, lost>>
    BY <1>17 DEF dayVars
  <2> QED
    BY <1>0, <2>1, NobodyGoesOn
<1> QED
  BY <1>4, <1>5, <1>6, <1>7, <1>8, <1>9, <1>10, <1>11, <1>12, <1>13, <1>14, <1>15, <1>16, <1>17 DEF DayNext

\* For any workers, tasks started, waits that time out and processes that die.
THEOREM NoneForgotten == DaySpec => []NothingForgotten
PROOF
<1>1. DayInv => NothingForgotten
  BY DEF DayInv
<1> QED
  BY <1>1, DayInitInv, DayStep, PTL DEF DaySpec

(***************************************************************************)
(* DailyNotices.  What a notice has cost so far, with what is on its way   *)
(* and what may still begin, is covered by the faults; the personal copies *)
(* belong to the one run that created the row, and a reminder to the one   *)
(* that has it in hand.                                                    *)
(***************************************************************************)
AtNotice == {"look", "send", "post"}
Shaped(t) == t = [step |-> t.step, kind |-> t.kind, title |-> t.title, todo |-> t.todo, tries |-> t.tries]
TasksShaped == task = [w \in Workers |-> task[w]] /\ \A w \in Workers : Shaped(task[w])

TaskSound(t) ==
    /\ t.step \in {"lock", "users"} \cup AtNotice => t.kind \in Kinds /\ t.title \in Dates
    /\ t.step = "users" => t.kind = "digest" /\ t.todo \subseteq Subscribers
    /\ t.step \in {"say", "mark"} => t.title \in Reminders
    /\ t.step \in {"remind", "say", "mark"} => t.todo \subseteq Reminders

NoticesTyped ==
    /\ today \in Dates
    /\ noticeLock \in [Locks -> Workers \cup {"free", "dead"}]
    /\ TasksShaped /\ \A w \in Workers : TaskSound(task[w])
    /\ chat \in [Kinds \X Dates -> Nat]
    /\ copies \in [Subscribers \X Dates -> Nat]
    /\ reminded \in [Reminders -> Nat]
    /\ mishaps \in Nat /\ overrun \in BOOLEAN

\* Who holds a lock is at work under it, and as long as no lease ended under
\* its holder the other way round.
LocksKept ==
    /\ \A k \in Locks : noticeLock[k] \in Workers =>
         task[noticeLock[k]].step \in AtNotice /\ LockOf(task[noticeLock[k]]) = k
    /\ ~overrun => \A w \in Workers : task[w].step \in AtNotice => noticeLock[LockOf(task[w])] = w
    /\ mishaps = 0 => ~overrun

Of(w, k, d) == task[w].kind = k /\ task[w].title = d
Coming(k, d) ==
    {w \in Workers : Of(w, k, d) /\ (\/ task[w].step = "send"
                                     \/ task[w].step = "look" /\ <<k, d>> \notin posted)}
HasHolder(k, d) ==
    \E w \in Workers : Of(w, k, d) /\ task[w].step \in AtNotice /\ noticeLock[LockOf(task[w])] = w
Opening(k, d) == IF <<k, d>> \in posted \/ HasHolder(k, d) THEN 0 ELSE 1
Covered(k, d) == chat[<<k, d>>] + Cardinality(Coming(k, d)) + Opening(k, d) <= 1 + mishaps
NoticesCovered == \A k \in Kinds, d \in Dates : Covered(k, d)

Digesting(w) == task[w].step = "users"
CopiesInOrder ==
    /\ \A w \in Workers : task[w].step \in {"send", "post"} => <<task[w].kind, task[w].title>> \notin posted
    /\ \A w \in Workers : Digesting(w) => <<"digest", task[w].title>> \in posted
    /\ \A v, w \in Workers : Digesting(v) /\ Digesting(w) /\ task[v].title = task[w].title => v = w
    /\ \A u \in Subscribers, d \in Dates :
         /\ <<"digest", d>> \notin posted => copies[<<u, d>>] = 0
         /\ copies[<<u, d>>] <= 1
         /\ \A w \in Workers : Digesting(w) /\ task[w].title = d /\ u \in task[w].todo => copies[<<u, d>>] = 0
CopiesComplete ==
    \A u \in Subscribers, d \in Dates :
      <<"digest", d>> \in posted =>
        \/ copies[<<u, d>>] = 1
        \/ \E w \in Workers : Digesting(w) /\ task[w].title = d /\ u \in task[w].todo
CopiesInv == (~overrun => CopiesInOrder) /\ (mishaps = 0 => CopiesComplete)

RemindersInv ==
    /\ \A w \in Workers : task[w].step = "mark" => reminded[task[w].title] >= 1
    /\ \A r \in Reminders :
         /\ r \in delivered => reminded[r] >= 1
         /\ r \notin disturbed =>
              /\ reminded[r] <= 1
              /\ \A v, w \in Workers : r \in InHand(v) /\ r \in InHand(w) => v = w
              /\ \A w \in Workers : task[w].step = "say" /\ task[w].title = r => reminded[r] = 0
              /\ reminded[r] >= 1 =>
                   r \in delivered \/ \E w \in Workers : task[w].step = "mark" /\ task[w].title = r

-----------------------------------------------------------------------------
(* What becomes of a task                                                  *)

Becomes(w, step, kind, title, todo) ==
    /\ task'[w].step = step /\ task'[w].kind = kind
    /\ task'[w].title = title /\ task'[w].todo = todo
    /\ \A x \in Workers \ {w} : task'[x] = task[x]
    /\ TasksShaped'

LEMMA TaskBecomes ==
    ASSUME TasksShaped, NEW w \in Workers, NEW new, Shaped(new), task' = [task EXCEPT ![w] = new]
    PROVE  Becomes(w, new.step, new.kind, new.title, new.todo)
PROOF
<1>1. task'[w] = new /\ \A x \in Workers \ {w} : task'[x] = task[x]
  BY DEF TasksShaped
<1>2. task' = [x \in Workers |-> task'[x]]
  BY DEF TasksShaped
<1>3. \A x \in Workers : Shaped(task'[x])
  BY <1>1 DEF TasksShaped
<1>4. TasksShaped'
  BY <1>2, <1>3 DEF TasksShaped, Shaped
<1> QED
  BY <1>1, <1>4 DEF Becomes

LEMMA NoTaskShaped == Shaped(NoTask) /\ NoTask.step = "idle" /\ NoTask.kind = "none" /\ NoTask.title = 0 /\ NoTask.todo = {}
PROOF
  BY DEF Shaped, NoTask

LEMMA TaskMoves ==
    ASSUME TasksShaped, NEW w \in Workers
    PROVE  /\ \A step : Goto(w, step) =>
                Becomes(w, step, task[w].kind, task[w].title, task[w].todo)
           /\ EndTask(w) => Becomes(w, "idle", "none", 0, {})
           /\ \A k, n : BeginNotice(w, k, n) =>
                Becomes(w, "lock", k, today, {}) \/ Becomes(w, "idle", "none", 0, {})
           /\ \A u : task' = [task EXCEPT ![w].todo = @ \ {u}] =>
                Becomes(w, task[w].step, task[w].kind, task[w].title, task[w].todo \ {u})
           /\ task' = [task EXCEPT ![w] = AfterPost(task[w])] =>
                IF task[w].kind = "digest" THEN Becomes(w, "users", "digest", task[w].title, Subscribers)
                ELSE Becomes(w, "idle", "none", 0, {})
PROOF
<1> DEFINE t == task[w]
<1>0. Shaped(t)
  BY DEF TasksShaped
<1>1. ASSUME NEW step, Goto(w, step) PROVE Becomes(w, step, t.kind, t.title, t.todo)
  <2> DEFINE new == [t EXCEPT !.step = step]
  <2>1. task' = [task EXCEPT ![w] = new]
    BY <1>1 DEF Goto
  <2>2. Shaped(new) /\ new.step = step /\ new.kind = t.kind /\ new.title = t.title /\ new.todo = t.todo
    <3> HIDE DEF t
    <3> QED
      BY <1>0 DEF Shaped
  <2> HIDE DEF new, t
  <2> QED
    BY <2>1, <2>2, TaskBecomes
<1>2. ASSUME EndTask(w) PROVE Becomes(w, "idle", "none", 0, {})
  BY <1>2, NoTaskShaped, TaskBecomes DEF EndTask
<1>3. ASSUME NEW k, NEW n, BeginNotice(w, k, n)
      PROVE  Becomes(w, "lock", k, today, {}) \/ Becomes(w, "idle", "none", 0, {})
  <2> DEFINE none == NoTask
             new == [none EXCEPT !.step = "lock", !.kind = k, !.title = today, !.tries = n]
  <2>1. task' = [task EXCEPT ![w] = new] \/ EndTask(w)
    BY <1>3 DEF BeginNotice
  <2>2. Shaped(new) /\ new.step = "lock" /\ new.kind = k /\ new.title = today /\ new.todo = {}
    <3>1. Shaped(none) /\ none.todo = {}
      BY NoTaskShaped
    <3>2. new = [none EXCEPT !.step = "lock", !.kind = k, !.title = today, !.tries = n]
      OBVIOUS
    <3> HIDE DEF none, new
    <3> QED
      BY <3>1, <3>2 DEF Shaped
  <2> HIDE DEF new
  <2> QED
    BY <1>2, <2>1, <2>2, TaskBecomes
<1>4. ASSUME NEW u, task' = [task EXCEPT ![w].todo = @ \ {u}]
      PROVE  Becomes(w, t.step, t.kind, t.title, t.todo \ {u})
  <2> DEFINE new == [t EXCEPT !.todo = t.todo \ {u}]
  <2>1. task' = [task EXCEPT ![w] = new]
    BY <1>4
  <2>2. Shaped(new) /\ new.step = t.step /\ new.kind = t.kind /\ new.title = t.title /\ new.todo = t.todo \ {u}
    <3> HIDE DEF t
    <3> QED
      BY <1>0 DEF Shaped
  <2> HIDE DEF new, t
  <2> QED
    BY <2>1, <2>2, TaskBecomes
<1>5. ASSUME task' = [task EXCEPT ![w] = AfterPost(t)]
      PROVE  IF t.kind = "digest" THEN Becomes(w, "users", "digest", t.title, Subscribers)
             ELSE Becomes(w, "idle", "none", 0, {})
  <2> DEFINE new == [t EXCEPT !.step = "users", !.todo = Subscribers]
  <2>1. IF t.kind = "digest" THEN task' = [task EXCEPT ![w] = new] ELSE EndTask(w)
    BY <1>5 DEF AfterPost, EndTask
  <2>2. Shaped(new) /\ new.step = "users" /\ new.kind = t.kind /\ new.title = t.title /\ new.todo = Subscribers
    <3>1. new = [t EXCEPT !.step = "users", !.todo = Subscribers]
      OBVIOUS
    <3> HIDE DEF t, new
    <3> QED
      BY <1>0, <3>1 DEF Shaped
  <2> HIDE DEF new, t
  <2> QED
    BY <1>2, <2>1, <2>2, TaskBecomes
<1> QED
  BY <1>1, <1>2, <1>3, <1>4, <1>5

LEMMA ReminderMoves ==
    ASSUME TasksShaped, NEW w \in Workers
    PROVE  /\ ListReminders(w) => Becomes(w, "remind", "none", 0, Reminders \ delivered)
           /\ \A r : TakeReminder(w, r) =>
                IF StillDue(r) THEN Becomes(w, "say", task[w].kind, r, task[w].todo \ {r})
                ELSE Becomes(w, "remind", task[w].kind, task[w].title, task[w].todo \ {r})
           /\ MarkReminder(w) => Becomes(w, "remind", task[w].kind, 0, task[w].todo)
PROOF
<1> DEFINE t == task[w]
<1>0. Shaped(t)
  BY DEF TasksShaped
<1>1. ASSUME ListReminders(w) PROVE Becomes(w, "remind", "none", 0, Reminders \ delivered)
  <2> DEFINE none == NoTask
             new == [none EXCEPT !.step = "remind", !.todo = Reminders \ delivered]
  <2>1. task' = [task EXCEPT ![w] = new]
    BY <1>1 DEF ListReminders
  <2>2. Shaped(new) /\ new.step = "remind" /\ new.kind = "none" /\ new.title = 0 /\ new.todo = Reminders \ delivered
    <3>1. Shaped(none) /\ none.kind = "none" /\ none.title = 0
      BY NoTaskShaped
    <3> DEFINE todo == Reminders \ delivered
    <3>2. new = [none EXCEPT !.step = "remind", !.todo = todo]
      OBVIOUS
    <3> HIDE DEF none, new, todo
    <3>3. Shaped(new) /\ new.step = "remind" /\ new.kind = "none" /\ new.title = 0 /\ new.todo = todo
      BY <3>1, <3>2 DEF Shaped
    <3> QED
      BY <3>3 DEF todo
  <2> HIDE DEF new
  <2> QED
    BY <2>1, <2>2, TaskBecomes
<1>2. ASSUME NEW r, TakeReminder(w, r)
      PROVE  IF StillDue(r) THEN Becomes(w, "say", t.kind, r, t.todo \ {r})
             ELSE Becomes(w, "remind", t.kind, t.title, t.todo \ {r})
  <2> DEFINE said == [t EXCEPT !.step = "say", !.title = r, !.todo = t.todo \ {r}]
             left == [t EXCEPT !.todo = t.todo \ {r}]
  <2>1. /\ t.step = "remind"
        /\ task' = [task EXCEPT ![w] = IF StillDue(r) THEN said ELSE left]
    BY <1>2 DEF TakeReminder, At
  <2>2. /\ Shaped(said) /\ said.step = "say" /\ said.kind = t.kind /\ said.title = r /\ said.todo = t.todo \ {r}
        /\ Shaped(left) /\ left.step = t.step /\ left.kind = t.kind /\ left.title = t.title
        /\ left.todo = t.todo \ {r}
    <3> DEFINE todo == t.todo \ {r}
    <3>1. /\ said = [t EXCEPT !.step = "say", !.title = r, !.todo = todo]
          /\ left = [t EXCEPT !.todo = todo]
      OBVIOUS
    <3> HIDE DEF t, said, left, todo
    <3>2. /\ Shaped(said) /\ said.step = "say" /\ said.kind = t.kind /\ said.title = r /\ said.todo = todo
          /\ Shaped(left) /\ left.step = t.step /\ left.kind = t.kind /\ left.title = t.title
          /\ left.todo = todo
      BY <1>0, <3>1 DEF Shaped
    <3> QED
      BY <3>2 DEF todo
  <2> HIDE DEF said, left, t
  <2> QED
    BY <2>1, <2>2, TaskBecomes
<1>3. ASSUME MarkReminder(w) PROVE Becomes(w, "remind", t.kind, 0, t.todo)
  <2> DEFINE new == [t EXCEPT !.step = "remind", !.title = 0]
  <2>1. task' = [task EXCEPT ![w] = new]
    BY <1>3 DEF MarkReminder, TasksShaped
  <2>2. Shaped(new) /\ new.step = "remind" /\ new.kind = t.kind /\ new.title = 0 /\ new.todo = t.todo
    <3>1. new = [t EXCEPT !.step = "remind", !.title = 0]
      OBVIOUS
    <3> HIDE DEF t, new
    <3> QED
      BY <1>0, <3>1 DEF Shaped
  <2> HIDE DEF new, t
  <2> QED
    BY <2>1, <2>2, TaskBecomes
<1> QED
  BY <1>1, <1>2, <1>3

-----------------------------------------------------------------------------
(* The locks                                                               *)

\* A worker stays inside or outside its lock, takes it, or is gone from it.
Stays(w) ==
    /\ UNCHANGED noticeLock
    /\ task'[w].step \in AtNotice <=> task[w].step \in AtNotice
    /\ task[w].step \in AtNotice => task'[w].kind = task[w].kind /\ task'[w].title = task[w].title
Takes(w) ==
    /\ task[w].step = "lock" /\ noticeLock[LockOf(task[w])] = "free"
    /\ noticeLock' = [noticeLock EXCEPT ![LockOf(task[w])] = w]
    /\ task'[w].step = "look" /\ task'[w].kind = task[w].kind /\ task'[w].title = task[w].title
IsGone(w) ==
    /\ noticeLock' \in [Locks -> Workers \cup {"free", "dead"}]
    /\ \A k \in Locks : IF noticeLock[k] = w THEN noticeLock'[k] \in {"free", "dead"}
                        ELSE noticeLock'[k] = noticeLock[k]
    /\ task'[w].step \notin AtNotice

LEMMA LockOfTitle ==
    /\ \A t, u : t.kind = u.kind /\ t.title = u.title => LockOf(t) = LockOf(u)
    /\ \A t : t.kind \in Kinds /\ t.title \in Dates => LockOf(t) \in Locks
PROOF
  BY DEF LockOf, Locks

LEMMA LocksMove ==
    ASSUME NoticesTyped, LocksKept, NEW w \in Workers,
           NEW step, NEW kind, NEW title, NEW todo, Becomes(w, step, kind, title, todo),
           TaskSound([step |-> step, kind |-> kind, title |-> title, todo |-> todo]),
           Stays(w) \/ Takes(w) \/ IsGone(w),
           UNCHANGED today \/ today' \in Dates,
           chat' \in [Kinds \X Dates -> Nat], copies' \in [Subscribers \X Dates -> Nat],
           reminded' \in [Reminders -> Nat],
           mishaps' = mishaps \/ mishaps' = mishaps + 1, overrun' = overrun
    PROVE  NoticesTyped' /\ LocksKept'
PROOF
<1>1. \A x \in Workers : TaskSound(task'[x])
  <2> SUFFICES ASSUME NEW x \in Workers PROVE TaskSound(task'[x])
    OBVIOUS
  <2>1. CASE x = w
    BY <2>1 DEF Becomes, TaskSound
  <2>2. CASE x # w
    BY <2>2 DEF Becomes, NoticesTyped
  <2> QED
    BY <2>1, <2>2
<1>2. task[w].step \in AtNotice \cup {"lock"} => LockOf(task[w]) \in Locks
  BY LockOfTitle DEF NoticesTyped, TaskSound
<1>3. noticeLock' \in [Locks -> Workers \cup {"free", "dead"}]
  BY <1>2 DEF NoticesTyped, Stays, Takes, IsGone
<1>4. NoticesTyped'
  BY <1>1, <1>3 DEF NoticesTyped, Becomes
<1>5. \A x \in Workers \ {w} : task'[x] = task[x]
  BY DEF Becomes
<1>6. ASSUME NEW k \in Locks, noticeLock'[k] \in Workers
      PROVE  task'[noticeLock'[k]].step \in AtNotice /\ LockOf(task'[noticeLock'[k]]) = k
  <2>1. CASE Stays(w)
    <3>1. noticeLock'[k] = noticeLock[k] /\ task[noticeLock[k]].step \in AtNotice /\ LockOf(task[noticeLock[k]]) = k
      BY <1>6, <2>1 DEF Stays, LocksKept
    <3>2. CASE noticeLock[k] = w
      <4>1. LockOf(task'[w]) = LockOf(task[w])
        BY <2>1, <3>1, <3>2, LockOfTitle DEF Stays
      <4> QED
        BY <2>1, <3>1, <3>2, <4>1 DEF Stays
    <3>3. CASE noticeLock[k] # w
      BY <1>5, <1>6, <3>1, <3>3
    <3> QED
      BY <3>2, <3>3
  <2>2. CASE Takes(w)
    <3>1. LockOf(task[w]) \in Locks /\ LockOf(task'[w]) = LockOf(task[w])
      BY <1>2, <2>2, LockOfTitle DEF Takes
    <3>2. CASE k = LockOf(task[w])
      BY <2>2, <3>1, <3>2 DEF Takes, NoticesTyped, AtNotice
    <3>3. CASE k # LockOf(task[w])
      <4>1. noticeLock'[k] = noticeLock[k]
        BY <2>2, <3>1, <3>3 DEF Takes, NoticesTyped
      <4>2. task[noticeLock[k]].step \in AtNotice /\ LockOf(task[noticeLock[k]]) = k
        BY <1>6, <4>1 DEF LocksKept
      <4>3. noticeLock[k] # w
        BY <2>2, <4>2 DEF Takes, AtNotice
      <4> QED
        BY <1>5, <1>6, <4>1, <4>2, <4>3
    <3> QED
      BY <3>2, <3>3
  <2>3. CASE IsGone(w)
    <3>1. noticeLock[k] # w /\ noticeLock'[k] = noticeLock[k]
      BY <1>6, <2>3, NoticesAssumption DEF IsGone
    <3> QED
      BY <1>5, <1>6, <3>1 DEF LocksKept
  <2> QED
    BY <2>1, <2>2, <2>3
<1>7. ASSUME ~overrun, NEW x \in Workers, task'[x].step \in AtNotice
      PROVE  noticeLock'[LockOf(task'[x])] = x
  <2>1. CASE x # w
    <3>1. noticeLock[LockOf(task[x])] = x /\ task'[x] = task[x]
      BY <1>5, <1>7, <2>1 DEF LocksKept
    <3>2. LockOf(task[x]) \in Locks
      BY <1>7, <3>1, LockOfTitle DEF NoticesTyped, TaskSound
    <3>3. noticeLock'[LockOf(task[x])] = x
      BY <2>1, <3>1, <3>2, <1>2, NoticesAssumption DEF Stays, Takes, IsGone, NoticesTyped
    <3> QED
      BY <3>1, <3>3
  <2>2. CASE x = w
    <3>1. CASE Stays(w)
      <4>1. task[w].step \in AtNotice /\ LockOf(task'[w]) = LockOf(task[w])
        BY <1>7, <2>2, <3>1, LockOfTitle DEF Stays
      <4> QED
        BY <1>7, <2>2, <3>1, <4>1 DEF Stays, LocksKept
    <3>2. CASE Takes(w)
      <4>1. LockOf(task[w]) \in Locks /\ LockOf(task'[w]) = LockOf(task[w])
        BY <1>2, <3>2, LockOfTitle DEF Takes
      <4> QED
        BY <2>2, <3>2, <4>1 DEF Takes, NoticesTyped
    <3> QED
      BY <1>7, <2>2, <3>1, <3>2 DEF IsGone
  <2> QED
    BY <2>1, <2>2
<1>8. mishaps' = 0 => ~overrun'
  BY DEF LocksKept, NoticesTyped
<1> QED
  BY <1>4, <1>6, <1>7, <1>8 DEF LocksKept

LEMMA HoldersMove ==
    ASSUME NoticesTyped, LocksKept, NEW w \in Workers,
           \A x \in Workers \ {w} : task'[x] = task[x],
           Stays(w) \/ Takes(w) \/ IsGone(w), NEW k \in Kinds, NEW d \in Dates
    PROVE  /\ Stays(w) => (HasHolder(k, d)' <=> HasHolder(k, d))
           /\ Takes(w) /\ Of(w, k, d) => HasHolder(k, d)' /\ ~HasHolder(k, d)
           /\ Takes(w) /\ ~Of(w, k, d) => (HasHolder(k, d)' <=> HasHolder(k, d))
           /\ IsGone(w) /\ ~Of(w, k, d) => (HasHolder(k, d)' <=> HasHolder(k, d))
PROOF
<1> DEFINE Holds(x) == Of(x, k, d) /\ task[x].step \in AtNotice /\ noticeLock[LockOf(task[x])] = x
           HoldsNow(x) == /\ task'[x].kind = k /\ task'[x].title = d /\ task'[x].step \in AtNotice
                          /\ noticeLock'[LockOf(task'[x])] = x
<1>1. (HasHolder(k, d) <=> \E x \in Workers : Holds(x)) /\ (HasHolder(k, d)' <=> \E x \in Workers : HoldsNow(x))
  BY DEF HasHolder, Of
<1>2. \A x \in Workers : Of(x, k, d) => LockOf(task[x]) \in Locks
  BY LockOfTitle DEF Of
<1>3. ASSUME NEW x \in Workers \ {w} PROVE HoldsNow(x) <=> Holds(x)
  <2>1. task'[x] = task[x]
    OBVIOUS
  <2>2. CASE Of(x, k, d)
    <3>1. LockOf(task[x]) \in Locks
      BY <1>2, <2>2
    <3>2. noticeLock'[LockOf(task[x])] = x <=> noticeLock[LockOf(task[x])] = x
      <4>1. CASE Stays(w)
        BY <4>1 DEF Stays
      <4>2. CASE Takes(w)
        BY <3>1, <4>2, NoticesAssumption DEF Takes, NoticesTyped
      <4>3. CASE IsGone(w)
        BY <3>1, <4>3, NoticesAssumption DEF IsGone
      <4> QED
        BY <4>1, <4>2, <4>3
    <3> QED
      BY <2>1, <3>2 DEF Of
  <2>3. CASE ~Of(x, k, d)
    BY <2>1, <2>3 DEF Of
  <2> QED
    BY <2>2, <2>3
<1>4. ASSUME Stays(w) PROVE HoldsNow(w) <=> Holds(w)
  <2>1. task[w].step \in AtNotice => LockOf(task'[w]) = LockOf(task[w])
    BY <1>4, LockOfTitle DEF Stays
  <2> QED
    BY <1>4, <2>1 DEF Stays, Of
<1>5. ASSUME Takes(w) PROVE /\ ~Holds(w) /\ (HoldsNow(w) <=> Of(w, k, d))
                            /\ Of(w, k, d) => \A x \in Workers : ~Holds(x)
  <2>1. LockOf(task'[w]) = LockOf(task[w])
    BY <1>5, LockOfTitle DEF Takes
  <2>2. ~Holds(w)
    BY <1>5 DEF Takes, AtNotice
  <2>3. HoldsNow(w) <=> Of(w, k, d)
    BY <1>2, <1>5, <2>1 DEF Takes, Of, AtNotice, NoticesTyped
  <2>4. ASSUME Of(w, k, d), NEW x \in Workers, Holds(x) PROVE FALSE
    <3>1. LockOf(task[x]) = LockOf(task[w])
      BY <2>4, LockOfTitle DEF Of
    <3> QED
      BY <1>5, <2>4, <3>1, NoticesAssumption DEF Takes
  <2> QED
    BY <2>2, <2>3, <2>4
<1>6. ASSUME IsGone(w) PROVE ~HoldsNow(w)
  BY <1>6 DEF IsGone
<1> HIDE DEF Holds, HoldsNow
<1>7. Stays(w) => (HasHolder(k, d)' <=> HasHolder(k, d))
  BY <1>1, <1>3, <1>4
<1>8. Takes(w) /\ Of(w, k, d) => HasHolder(k, d)' /\ ~HasHolder(k, d)
  BY <1>1, <1>5
<1>9. Takes(w) /\ ~Of(w, k, d) => (HasHolder(k, d)' <=> HasHolder(k, d))
  BY <1>1, <1>3, <1>5
<1>10. IsGone(w) /\ ~Of(w, k, d) => (HasHolder(k, d)' <=> HasHolder(k, d))
  BY <1>1, <1>3, <1>6 DEF Holds
<1> QED
  BY <1>7, <1>8, <1>9, <1>10

-----------------------------------------------------------------------------
(* Copies in the shared chat                                               *)

One(b) == IF b THEN 1 ELSE 0
LEMMA CoveredMoves ==
    ASSUME NEW w \in Workers, \A x \in Workers \ {w} : task'[x] = task[x],
           posted \subseteq posted', NEW k \in Kinds, NEW d \in Dates, Covered(k, d),
           NEW now \in Nat, now = chat[<<k, d>>], NEW then \in Nat, then = chat'[<<k, d>>],
           mishaps \in Nat, mishaps' \in Nat,
           NEW o \in {0, 1}, o = Opening(k, d), NEW p \in {0, 1}, p = Opening(k, d)',
           then + One(w \in Coming(k, d)') + p + mishaps
             <= now + One(w \in Coming(k, d)) + o + mishaps'
    PROVE  Covered(k, d)'
PROOF
<1> DEFINE C == Coming(k, d)
           D == Coming(k, d)'
           rest == C \ {w}
<1>1. IsFiniteSet(Workers)
  BY NoticesAssumption
<1>2. C \subseteq Workers /\ D \subseteq Workers
  BY DEF Coming
<1>3. D \ {w} \subseteq rest
  BY DEF Coming, Of
<1>4. IsFiniteSet(C) /\ IsFiniteSet(D) /\ IsFiniteSet(rest)
  BY <1>1, <1>2, FS_Subset
<1>5. Cardinality(C) = Cardinality(rest) + One(w \in C)
  <2>1. CASE w \in C
    <3>1. Cardinality(rest) = Cardinality(C) - 1 /\ Cardinality(C) \in Nat
      BY <1>4, <2>1, FS_RemoveElement, FS_CardinalityType
    <3> HIDE DEF C, rest
    <3> QED
      BY <2>1, <3>1 DEF One
  <2>2. CASE w \notin C
    <3>1. rest = C /\ Cardinality(C) \in Nat
      BY <1>4, <2>2, FS_CardinalityType
    <3> HIDE DEF C, rest
    <3> QED
      BY <2>2, <3>1 DEF One
  <2> QED
    BY <2>1, <2>2
<1>6. Cardinality(D) <= Cardinality(rest) + One(w \in D)
  <2>1. CASE w \in D
    <3>1. D \subseteq rest \cup {w} /\ w \notin rest
      BY <1>3
    <3>2. /\ IsFiniteSet(rest \cup {w}) /\ Cardinality(rest \cup {w}) = Cardinality(rest) + 1
          /\ Cardinality(rest) \in Nat
      BY <1>4, <3>1, FS_AddElement, FS_CardinalityType
    <3>3. Cardinality(D) <= Cardinality(rest \cup {w})
      BY <3>1, <3>2, FS_Subset
    <3> HIDE DEF C, D, rest
    <3> QED
      BY <2>1, <3>2, <3>3 DEF One
  <2>2. CASE w \notin D
    <3>1. D \subseteq rest
      BY <1>3, <2>2
    <3>2. Cardinality(D) <= Cardinality(rest) /\ Cardinality(rest) \in Nat
      BY <1>4, <3>1, FS_Subset, FS_CardinalityType
    <3> HIDE DEF C, D, rest
    <3> QED
      BY <2>2, <3>2 DEF One
  <2> QED
    BY <2>1, <2>2
<1>7. Cardinality(rest) \in Nat /\ Cardinality(D) \in Nat /\ One(w \in C) \in {0, 1} /\ One(w \in D) \in {0, 1}
  BY <1>4, FS_CardinalityType DEF One
<1>8. now + Cardinality(C) + o <= 1 + mishaps
  BY DEF Covered
<1>9. Covered(k, d)' <=> then + Cardinality(D) + p <= 1 + mishaps'
  BY DEF Covered
<1> HIDE DEF C, D, rest
<1> DEFINE r == Cardinality(rest)
           cd == Cardinality(D)
           a == One(w \in C)
           b == One(w \in D)
           m == mishaps
           n == mishaps'
<1>10. then + b + p + m <= now + a + o + n
  BY DEF C, D
<1>11. now + (r + a) + o <= 1 + m
  BY <1>5, <1>8
<1>12. cd <= r + b /\ r \in Nat /\ cd \in Nat /\ a \in {0, 1} /\ b \in {0, 1} /\ m \in Nat /\ n \in Nat
  BY <1>6, <1>7
<1> HIDE DEF r, cd, a, b, m, n
<1>13. then + cd + p <= 1 + n
  BY <1>10, <1>11, <1>12
<1> QED
  BY <1>9, <1>13 DEF cd, n

LEMMA OpeningNumber == \A k, d : Opening(k, d) \in {0, 1} /\ Opening(k, d)' \in {0, 1}
PROOF
  BY DEF Opening

LEMMA CoveredWhenQuiet ==
    ASSUME NoticesTyped, LocksKept, NEW w \in Workers, \A x \in Workers \ {w} : task'[x] = task[x],
           Stays(w), UNCHANGED <<posted, chat, mishaps>>, NEW k \in Kinds, NEW d \in Dates,
           w \in Coming(k, d)' => w \in Coming(k, d), Covered(k, d)
    PROVE  Covered(k, d)'
PROOF
<1>1. Opening(k, d)' = Opening(k, d)
  BY HoldersMove DEF Opening
<1>2. chat[<<k, d>>] \in Nat /\ mishaps \in Nat
  BY DEF NoticesTyped
<1>3. PICK c \in Nat, o \in {0, 1} : c = chat[<<k, d>>] /\ o = Opening(k, d)
  BY <1>2, OpeningNumber
<1>4. c + One(w \in Coming(k, d)') + o + mishaps <= c + One(w \in Coming(k, d)) + o + mishaps
  <2> DEFINE A == w \in Coming(k, d)'
             B == w \in Coming(k, d)
  <2>1. A => B
    OBVIOUS
  <2> HIDE DEF A, B
  <2>2. One(A) <= One(B) /\ One(A) \in Nat /\ One(B) \in Nat
    BY <2>1 DEF One
  <2>3. \A a, b, m \in Nat : a <= b => c + a + o + m <= c + b + o + m
    OBVIOUS
  <2> QED
    BY <1>2, <2>2, <2>3 DEF A, B
<1> QED
  BY <1>1, <1>2, <1>3, <1>4, CoveredMoves

\* A fault pays for what begins again.
LEMMA CoveredWhenGone ==
    ASSUME NoticesTyped, LocksKept, NEW w \in Workers, \A x \in Workers \ {w} : task'[x] = task[x],
           task'[w].step \notin AtNotice, UNCHANGED <<posted, chat>>, mishaps' = mishaps + 1,
           NEW k \in Kinds, NEW d \in Dates, Covered(k, d)
    PROVE  Covered(k, d)'
PROOF
<1>1. chat[<<k, d>>] \in Nat /\ mishaps \in Nat
  BY DEF NoticesTyped
<1>2. PICK c \in Nat, o \in {0, 1}, p \in {0, 1} :
        c = chat[<<k, d>>] /\ o = Opening(k, d) /\ p = Opening(k, d)'
  BY <1>1, OpeningNumber
<1>3. w \notin Coming(k, d)'
  BY DEF Coming, AtNotice
<1>4. One(w \in Coming(k, d)') = 0 /\ One(w \in Coming(k, d)) \in Nat
  BY <1>3 DEF One
<1>5. c + One(w \in Coming(k, d)') + p + mishaps <= c + One(w \in Coming(k, d)) + o + (mishaps + 1)
  <2>1. \A a, m \in Nat : c + 0 + p + m <= c + a + o + (m + 1)
    OBVIOUS
  <2> QED
    BY <1>1, <1>4, <2>1
<1> QED
  BY <1>1, <1>2, <1>5, CoveredMoves

LEMMA CoveredTake ==
    ASSUME NoticesTyped, LocksKept, NEW w \in Workers, \A x \in Workers \ {w} : task'[x] = task[x],
           Takes(w), UNCHANGED <<posted, chat, mishaps>>,
           NEW k \in Kinds, NEW d \in Dates, Covered(k, d)
    PROVE  Covered(k, d)'
PROOF
<1>1. chat[<<k, d>>] \in Nat /\ mishaps \in Nat
  BY DEF NoticesTyped
<1>2. PICK c \in Nat, o \in {0, 1}, p \in {0, 1} :
        c = chat[<<k, d>>] /\ o = Opening(k, d) /\ p = Opening(k, d)'
  BY <1>1, OpeningNumber
<1>3. w \notin Coming(k, d)
  BY DEF Coming, Takes
<1>4. w \in Coming(k, d)' => Of(w, k, d) /\ <<k, d>> \notin posted
  BY DEF Coming, Takes, Of
<1>5. /\ Of(w, k, d) => p = 0
      /\ Of(w, k, d) /\ <<k, d>> \notin posted => o = 1
      /\ ~Of(w, k, d) => p = o
  BY <1>2, HoldersMove DEF Opening
<1>6. One(w \in Coming(k, d)') + p <= o /\ One(w \in Coming(k, d)') \in Nat
  <2>1. CASE w \in Coming(k, d)'
    BY <1>4, <1>5, <2>1 DEF One
  <2>2. CASE w \notin Coming(k, d)'
    BY <1>5, <2>2 DEF One
  <2> QED
    BY <2>1, <2>2
<1>7. One(w \in Coming(k, d)) = 0
  BY <1>3 DEF One
<1>8. c + One(w \in Coming(k, d)') + p + mishaps <= c + One(w \in Coming(k, d)) + o + mishaps
  <2>1. \A a, m \in Nat : a + p <= o => c + a + p + m <= c + 0 + o + m
    OBVIOUS
  <2> QED
    BY <1>1, <1>6, <1>7, <2>1
<1> QED
  BY <1>1, <1>2, <1>8, CoveredMoves

\* The row is there, or is created: nothing begins.
LEMMA CoveredWhenPosted ==
    ASSUME NoticesTyped, LocksKept, NEW w \in Workers, \A x \in Workers \ {w} : task'[x] = task[x],
           IsGone(w), UNCHANGED <<chat, mishaps>>, task[w].step \in AtNotice,
           posted' = posted \cup {<<task[w].kind, task[w].title>>},
           NEW k \in Kinds, NEW d \in Dates, Covered(k, d)
    PROVE  Covered(k, d)'
PROOF
<1>1. chat[<<k, d>>] \in Nat /\ mishaps \in Nat
  BY DEF NoticesTyped
<1>2. PICK c \in Nat, o \in {0, 1}, p \in {0, 1} :
        c = chat[<<k, d>>] /\ o = Opening(k, d) /\ p = Opening(k, d)'
  BY <1>1, OpeningNumber
<1>3. w \notin Coming(k, d)'
  BY DEF Coming, IsGone, AtNotice
<1>4. p <= o
  <2>1. CASE Of(w, k, d)
    <3>1. <<k, d>> \in posted'
      BY <2>1 DEF Of
    <3> QED
      BY <1>2, <3>1 DEF Opening
  <2>2. CASE ~Of(w, k, d)
    <3>1. HasHolder(k, d)' <=> HasHolder(k, d)
      BY <2>2, HoldersMove
    <3>2. <<k, d>> \in posted => <<k, d>> \in posted'
      OBVIOUS
    <3> QED
      BY <1>2, <3>1, <3>2 DEF Opening
  <2> QED
    BY <2>1, <2>2
<1>5. One(w \in Coming(k, d)') = 0 /\ One(w \in Coming(k, d)) \in Nat
  BY <1>3 DEF One
<1>6. c + One(w \in Coming(k, d)') + p + mishaps <= c + One(w \in Coming(k, d)) + o + mishaps
  <2>1. \A a, m \in Nat : c + 0 + p + m <= c + a + o + m
    BY <1>4
  <2> QED
    BY <1>1, <1>5, <2>1
<1> QED
  BY <1>1, <1>2, <1>6, CoveredMoves

LEMMA CoveredSend ==
    ASSUME NoticesTyped, LocksKept, NEW w \in Workers, \A x \in Workers \ {w} : task'[x] = task[x],
           Stays(w), task[w].step = "send", task'[w].step = "post", UNCHANGED <<posted, mishaps>>,
           chat' = chat \/ chat' = [chat EXCEPT ![<<task[w].kind, task[w].title>>] = @ + 1],
           NEW k \in Kinds, NEW d \in Dates, Covered(k, d)
    PROVE  Covered(k, d)'
PROOF
<1>1. chat[<<k, d>>] \in Nat /\ mishaps \in Nat
  BY DEF NoticesTyped
<1>2. PICK c \in Nat, o \in {0, 1} : c = chat[<<k, d>>] /\ o = Opening(k, d) /\ o = Opening(k, d)'
  BY <1>1, OpeningNumber, HoldersMove DEF Opening
<1>3. w \notin Coming(k, d)'
  BY DEF Coming
<1>4. w \in Coming(k, d) <=> Of(w, k, d)
  BY DEF Coming
<1>5. PICK n \in Nat : n = chat'[<<k, d>>] /\ n <= c + One(w \in Coming(k, d))
  <2>1. CASE Of(w, k, d)
    <3>1. <<task[w].kind, task[w].title>> = <<k, d>> /\ One(w \in Coming(k, d)) = 1
      BY <1>4, <2>1 DEF Of, One
    <3>2. chat'[<<k, d>>] = c \/ chat'[<<k, d>>] = c + 1
      BY <1>2, <3>1 DEF NoticesTyped
    <3> QED
      BY <3>1, <3>2
  <2>2. CASE ~Of(w, k, d)
    <3>1. <<task[w].kind, task[w].title>> # <<k, d>> /\ One(w \in Coming(k, d)) = 0
      BY <1>4, <2>2 DEF Of, One
    <3>2. chat'[<<k, d>>] = c
      BY <1>2, <3>1 DEF NoticesTyped
    <3> QED
      BY <3>1, <3>2
  <2> QED
    BY <2>1, <2>2
<1>6. One(w \in Coming(k, d)') = 0 /\ One(w \in Coming(k, d)) \in Nat
  BY <1>3 DEF One
<1>7. n + One(w \in Coming(k, d)') + o + mishaps <= c + One(w \in Coming(k, d)) + o + mishaps
  <2>1. \A a, m \in Nat : n <= c + a => n + 0 + o + m <= c + a + o + m
    OBVIOUS
  <2> QED
    BY <1>1, <1>5, <1>6, <2>1
<1> QED
  BY <1>1, <1>2, <1>5, <1>7, CoveredMoves

LEMMA CoveredWhenLeaseEnds ==
    ASSUME NoticesTyped, NEW l \in Locks, LeaseEnds(l), NEW k \in Kinds, NEW d \in Dates, Covered(k, d)
    PROVE  Covered(k, d)'
PROOF
<1>1. /\ chat[<<k, d>>] \in Nat /\ mishaps \in Nat /\ IsFiniteSet(Workers)
      /\ UNCHANGED <<task, posted, chat>>
  BY NoticesAssumption DEF NoticesTyped, LeaseEnds
<1>2. Coming(k, d)' = Coming(k, d)
  BY <1>1 DEF Coming, Of
<1>3. Cardinality(Coming(k, d)) \in Nat
  <2>1. IsFiniteSet(Coming(k, d))
    BY <1>1, FS_Subset DEF Coming
  <2> QED
    BY <2>1, FS_CardinalityType
<1>4. \/ mishaps' = mishaps + 1
      \/ mishaps' = mishaps /\ Opening(k, d)' = Opening(k, d)
  <2>1. CASE noticeLock[l] = "dead"
    <3>1. mishaps' = mishaps /\ noticeLock' = [noticeLock EXCEPT ![l] = "free"]
      BY <2>1 DEF LeaseEnds
    <3>2. \A x \in Workers : Of(x, k, d) =>
            (noticeLock'[LockOf(task[x])] = x <=> noticeLock[LockOf(task[x])] = x)
      <4> SUFFICES ASSUME NEW x \in Workers, Of(x, k, d)
                   PROVE  noticeLock'[LockOf(task[x])] = x <=> noticeLock[LockOf(task[x])] = x
        OBVIOUS
      <4>1. LockOf(task[x]) \in Locks
        BY LockOfTitle DEF Of
      <4> QED
        BY <2>1, <3>1, <4>1, NoticesAssumption DEF NoticesTyped
    <3>3. HasHolder(k, d)' <=> HasHolder(k, d)
      BY <1>1, <3>2 DEF HasHolder, Of
    <3> QED
      BY <1>1, <3>1, <3>3 DEF Opening
  <2>2. CASE noticeLock[l] # "dead"
    BY <2>2 DEF LeaseEnds
  <2> QED
    BY <2>1, <2>2
<1>5. PICK c \in Nat, o \in {0, 1}, p \in {0, 1}, n \in Nat :
        c = chat[<<k, d>>] /\ o = Opening(k, d) /\ p = Opening(k, d)' /\ n = Cardinality(Coming(k, d))
  BY <1>1, <1>3, OpeningNumber
<1>6. c + n + o <= 1 + mishaps
  BY <1>5 DEF Covered
<1>7. c + n + p <= 1 + mishaps'
  BY <1>1, <1>4, <1>5, <1>6
<1> QED
  BY <1>1, <1>2, <1>5, <1>7 DEF Covered

-----------------------------------------------------------------------------
(* The personal copies                                                     *)

LEMMA CopiesWhenQuiet ==
    ASSUME NoticesTyped, CopiesInv, NEW w \in Workers, \A x \in Workers \ {w} : task'[x] = task[x],
           UNCHANGED <<posted, copies, overrun>>, mishaps' = mishaps \/ mishaps' = mishaps + 1,
           Digesting(w)' => Digesting(w) /\ task'[w].title = task[w].title /\ task'[w].todo = task[w].todo,
           task'[w].step \in {"send", "post"} =>
             \/ <<task'[w].kind, task'[w].title>> \notin posted
             \/ /\ task[w].step \in {"send", "post"}
                /\ task'[w].kind = task[w].kind /\ task'[w].title = task[w].title,
           mishaps' = 0 /\ Digesting(w) => Digesting(w)' \/ task[w].todo = {}
    PROVE  CopiesInv'
PROOF
<1>1. ~overrun' => CopiesInOrder'
  <2> SUFFICES ASSUME ~overrun PROVE CopiesInOrder'
    OBVIOUS
  <2>0. CopiesInOrder
    BY DEF CopiesInv
  <2>1. \A x \in Workers : task'[x].step \in {"send", "post"} => <<task'[x].kind, task'[x].title>> \notin posted
    BY <2>0 DEF CopiesInOrder
  <2>2. \A x \in Workers : Digesting(x)' =>
          Digesting(x) /\ task'[x].title = task[x].title /\ task'[x].todo = task[x].todo
    BY DEF Digesting
  <2> QED
    BY <2>0, <2>1, <2>2 DEF CopiesInOrder
<1>2. mishaps' = 0 => CopiesComplete'
  <2> SUFFICES ASSUME mishaps' = 0, NEW u \in Subscribers, NEW d \in Dates, <<"digest", d>> \in posted
               PROVE  \/ copies[<<u, d>>] = 1
                      \/ \E x \in Workers : Digesting(x)' /\ task'[x].title = d /\ u \in task'[x].todo
    BY DEF CopiesComplete
  <2>1. mishaps = 0
    BY DEF NoticesTyped
  <2>2. CASE copies[<<u, d>>] = 1
    BY <2>2
  <2>3. CASE copies[<<u, d>>] # 1
    <3>1. PICK x \in Workers : Digesting(x) /\ task[x].title = d /\ u \in task[x].todo
      BY <2>1, <2>3 DEF CopiesInv, CopiesComplete
    <3>2. CASE x = w
      BY <3>1, <3>2
    <3>3. CASE x # w
      BY <3>1, <3>3 DEF Digesting
    <3> QED
      BY <3>2, <3>3
  <2> QED
    BY <2>2, <2>3
<1> QED
  BY <1>1, <1>2 DEF CopiesInv

LEMMA CopiesWhenSent ==
    ASSUME NoticesTyped, LocksKept, CopiesInv, NEW w \in Workers, NEW u \in Subscribers, SendCopy(w, u)
    PROVE  CopiesInv'
PROOF
<1> DEFINE d == task[w].title
<1>1. /\ task[w].step = "users" /\ u \in task[w].todo /\ d \in Dates
      /\ copies' = [copies EXCEPT ![<<u, d>>] = @ + 1]
      /\ UNCHANGED <<posted, mishaps, overrun>>
  BY DEF SendCopy, At, NoticesTyped, TaskSound
<1>2. Becomes(w, "users", task[w].kind, d, task[w].todo \ {u})
  <2>1. task' = [task EXCEPT ![w].todo = @ \ {u}] /\ TasksShaped
    BY DEF SendCopy, NoticesTyped
  <2>2. Becomes(w, task[w].step, task[w].kind, task[w].title, task[w].todo \ {u})
    BY <2>1, TaskMoves
  <2> QED
    BY <1>1, <2>2
<1>3. /\ Digesting(w) /\ Digesting(w)' /\ task'[w].title = d /\ task'[w].todo = task[w].todo \ {u}
      /\ \A x \in Workers \ {w} : task'[x] = task[x]
  BY <1>1, <1>2 DEF Becomes, Digesting
<1>4. \A x \in Workers : (Digesting(x)' <=> Digesting(x)) /\ task'[x].title = task[x].title
  BY <1>3 DEF Digesting
<1>5. \A v \in Subscribers, e \in Dates : <<v, e>> # <<u, d>> => copies'[<<v, e>>] = copies[<<v, e>>]
  BY <1>1 DEF NoticesTyped
<1>6. copies'[<<u, d>>] = copies[<<u, d>>] + 1 /\ copies[<<u, d>>] \in Nat
  BY <1>1 DEF NoticesTyped
<1>7. ASSUME ~overrun PROVE copies[<<u, d>>] = 0
  BY <1>1, <1>3, <1>7 DEF CopiesInv, CopiesInOrder
<1>8. ~overrun' => CopiesInOrder'
  <2> SUFFICES ASSUME ~overrun PROVE CopiesInOrder'
    BY <1>1
  <2>0. CopiesInOrder
    BY DEF CopiesInv
  <2>1. \A x \in Workers : task'[x].step \in {"send", "post"} => <<task'[x].kind, task'[x].title>> \notin posted'
    <3>1. task'[w].step = "users"
      BY <1>3 DEF Digesting
    <3> QED
      BY <1>1, <1>3, <2>0, <3>1 DEF CopiesInOrder
  <2>2. \A x \in Workers : Digesting(x)' => <<"digest", task'[x].title>> \in posted'
    BY <1>1, <1>4, <2>0 DEF CopiesInOrder
  <2>3. \A x, y \in Workers : Digesting(x)' /\ Digesting(y)' /\ task'[x].title = task'[y].title => x = y
    BY <1>4, <2>0 DEF CopiesInOrder
  <2>4. ASSUME NEW v \in Subscribers, NEW e \in Dates
        PROVE  /\ <<"digest", e>> \notin posted' => copies'[<<v, e>>] = 0
               /\ copies'[<<v, e>>] <= 1
               /\ \A x \in Workers : Digesting(x)' /\ task'[x].title = e /\ v \in task'[x].todo => copies'[<<v, e>>] = 0
    <3>1. CASE <<v, e>> = <<u, d>>
      <4>1. v = u /\ e = d
        BY <3>1
      <4>2. <<"digest", d>> \in posted'
        BY <1>3, <2>2
      <4>3. \A x \in Workers : Digesting(x)' /\ task'[x].title = d => x = w
        BY <1>3, <2>3
      <4> QED
        BY <1>3, <1>6, <1>7, <4>1, <4>2, <4>3
    <3>2. CASE <<v, e>> # <<u, d>>
      <4>1. copies'[<<v, e>>] = copies[<<v, e>>]
        BY <1>5, <3>2
      <4>2. \A x \in Workers : v \in task'[x].todo => v \in task[x].todo
        BY <1>3
      <4> QED
        BY <1>1, <1>4, <2>0, <4>1, <4>2 DEF CopiesInOrder
    <3> QED
      BY <3>1, <3>2
  <2> QED
    BY <2>1, <2>2, <2>3, <2>4 DEF CopiesInOrder
<1>9. mishaps' = 0 => CopiesComplete'
  <2> SUFFICES ASSUME mishaps = 0, NEW v \in Subscribers, NEW e \in Dates, <<"digest", e>> \in posted
               PROVE  \/ copies'[<<v, e>>] = 1
                      \/ \E x \in Workers : Digesting(x)' /\ task'[x].title = e /\ v \in task'[x].todo
    BY <1>1 DEF CopiesComplete
  <2>1. CASE <<v, e>> = <<u, d>>
    <3>1. copies[<<u, d>>] = 0
      BY <1>7 DEF LocksKept
    <3> QED
      BY <1>6, <2>1, <3>1
  <2>2. CASE <<v, e>> # <<u, d>>
    <3>1. copies'[<<v, e>>] = copies[<<v, e>>]
      BY <1>5, <2>2
    <3>2. \/ copies[<<v, e>>] = 1
          \/ \E x \in Workers : Digesting(x) /\ task[x].title = e /\ v \in task[x].todo
      BY DEF CopiesInv, CopiesComplete
    <3>3. ASSUME NEW x \in Workers, task[x].title = e, v \in task[x].todo PROVE v \in task'[x].todo
      BY <1>3, <2>2, <3>3
    <3> QED
      BY <1>4, <3>1, <3>2, <3>3
  <2> QED
    BY <2>1, <2>2
<1> QED
  BY <1>8, <1>9 DEF CopiesInv

LEMMA CopiesWhenPosted ==
    ASSUME NoticesTyped, LocksKept, CopiesInv, NEW w \in Workers, PostRow(w)
    PROVE  CopiesInv'
PROOF
<1> DEFINE t == task[w]
<1>1. /\ t.step = "post" /\ posted' = posted \cup {<<t.kind, t.title>>}
      /\ UNCHANGED <<copies, mishaps, overrun>>
  BY DEF PostRow, At
<1>2. IF t.kind = "digest" THEN Becomes(w, "users", "digest", t.title, Subscribers)
      ELSE Becomes(w, "idle", "none", 0, {})
  BY TaskMoves DEF PostRow, NoticesTyped
<1>3. /\ \A x \in Workers \ {w} : task'[x] = task[x]
      /\ t.kind = "digest" => task'[w].step = "users" /\ task'[w].title = t.title /\ task'[w].todo = Subscribers
      /\ t.kind # "digest" => task'[w].step = "idle"
  BY <1>2 DEF Becomes
<1>4. ~Digesting(w) /\ (Digesting(w)' <=> t.kind = "digest")
  BY <1>1, <1>3 DEF Digesting
<1>5. ~overrun' => CopiesInOrder'
  <2> SUFFICES ASSUME ~overrun PROVE CopiesInOrder'
    BY <1>1
  <2>0. CopiesInOrder /\ <<t.kind, t.title>> \notin posted
    BY <1>1 DEF CopiesInv, CopiesInOrder
  <2>1. ASSUME NEW x \in Workers, task'[x].step \in {"send", "post"}
        PROVE  <<task'[x].kind, task'[x].title>> \notin posted'
    <3>1. x # w /\ task'[x] = task[x]
      BY <1>3, <2>1
    <3>2. <<task[x].kind, task[x].title>> # <<t.kind, t.title>>
      <4> SUFFICES ASSUME task[x].kind = t.kind, task[x].title = t.title PROVE FALSE
        OBVIOUS
      <4>1. LockOf(task[x]) = LockOf(t)
        BY LockOfTitle
      <4>2. noticeLock[LockOf(task[x])] = x /\ noticeLock[LockOf(t)] = w
        BY <1>1, <2>1, <3>1 DEF LocksKept, AtNotice
      <4> QED
        BY <3>1, <4>1, <4>2
    <3> QED
      BY <1>1, <2>0, <2>1, <3>1, <3>2 DEF CopiesInOrder
  <2>2. \A x \in Workers : Digesting(x)' => <<"digest", task'[x].title>> \in posted'
    <3> SUFFICES ASSUME NEW x \in Workers, Digesting(x)' PROVE <<"digest", task'[x].title>> \in posted'
      OBVIOUS
    <3>1. CASE x = w
      BY <1>1, <1>3, <1>4, <3>1
    <3>2. CASE x # w
      BY <1>1, <1>3, <2>0, <3>2 DEF Digesting, CopiesInOrder
    <3> QED
      BY <3>1, <3>2
  <2>3. ASSUME NEW x \in Workers \ {w}, Digesting(x)', t.kind = "digest" PROVE task'[x].title # t.title
    <3>1. <<"digest", task[x].title>> \in posted
      BY <1>3, <2>0, <2>3 DEF Digesting, CopiesInOrder
    <3> QED
      BY <1>3, <2>0, <2>3, <3>1
  <2>4. \A x, y \in Workers : Digesting(x)' /\ Digesting(y)' /\ task'[x].title = task'[y].title => x = y
    <3> SUFFICES ASSUME NEW x \in Workers, NEW y \in Workers, Digesting(x)', Digesting(y)',
                        task'[x].title = task'[y].title, x # y
                 PROVE  FALSE
      OBVIOUS
    <3>1. CASE x = w
      BY <1>3, <1>4, <2>3, <3>1
    <3>2. CASE y = w
      BY <1>3, <1>4, <2>3, <3>2
    <3>3. CASE x # w /\ y # w
      BY <1>3, <2>0, <3>3 DEF Digesting, CopiesInOrder
    <3> QED
      BY <3>1, <3>2, <3>3
  <2>5. ASSUME NEW v \in Subscribers, NEW e \in Dates
        PROVE  /\ <<"digest", e>> \notin posted' => copies[<<v, e>>] = 0
               /\ copies[<<v, e>>] <= 1
               /\ \A x \in Workers : Digesting(x)' /\ task'[x].title = e /\ v \in task'[x].todo => copies[<<v, e>>] = 0
    <3>1. /\ <<"digest", e>> \notin posted => copies[<<v, e>>] = 0
          /\ copies[<<v, e>>] <= 1
          /\ \A x \in Workers : Digesting(x) /\ task[x].title = e /\ v \in task[x].todo => copies[<<v, e>>] = 0
      BY <2>0 DEF CopiesInOrder
    <3>2. ASSUME NEW x \in Workers, Digesting(x)', task'[x].title = e, v \in task'[x].todo
          PROVE  copies[<<v, e>>] = 0
      <4>1. CASE x = w
        <5>1. t.kind = "digest" /\ t.title = e
          BY <1>3, <1>4, <3>2, <4>1
        <5> QED
          BY <2>0, <3>1, <5>1
      <4>2. CASE x # w
        BY <1>3, <3>1, <3>2, <4>2 DEF Digesting
      <4> QED
        BY <4>1, <4>2
    <3> QED
      BY <1>1, <3>1, <3>2
  <2> QED
    BY <1>1, <2>1, <2>2, <2>4, <2>5 DEF CopiesInOrder
<1>6. mishaps' = 0 => CopiesComplete'
  <2> SUFFICES ASSUME mishaps = 0, NEW v \in Subscribers, NEW e \in Dates, <<"digest", e>> \in posted'
               PROVE  \/ copies[<<v, e>>] = 1
                      \/ \E x \in Workers : Digesting(x)' /\ task'[x].title = e /\ v \in task'[x].todo
    BY <1>1 DEF CopiesComplete
  <2>1. CASE <<"digest", e>> \notin posted
    <3>1. t.kind = "digest" /\ t.title = e
      BY <1>1, <2>1
    <3> QED
      BY <1>3, <1>4, <3>1
  <2>2. CASE <<"digest", e>> \in posted
    <3>1. \/ copies[<<v, e>>] = 1
          \/ \E x \in Workers : Digesting(x) /\ task[x].title = e /\ v \in task[x].todo
      BY <2>2 DEF CopiesInv, CopiesComplete
    <3>2. ASSUME NEW x \in Workers, Digesting(x) PROVE Digesting(x)' /\ task'[x] = task[x]
      BY <1>3, <1>4, <3>2 DEF Digesting
    <3> QED
      BY <3>1, <3>2
  <2> QED
    BY <2>1, <2>2
<1> QED
  BY <1>5, <1>6 DEF CopiesInv

-----------------------------------------------------------------------------
(* The reminders                                                           *)

LEMMA RemindersWhenQuiet ==
    ASSUME RemindersInv, UNCHANGED reminderVars,
           \A x \in Workers : task[x].step \in {"say", "mark"} \/ task'[x].step \in {"say", "mark"} =>
             task'[x] = task[x]
    PROVE  RemindersInv'
PROOF
<1>1. UNCHANGED <<delivered, reminded, disturbed>>
  BY DEF reminderVars
<1>2. \A x \in Workers : InHand(x)' = InHand(x)
  BY DEF InHand
<1>3. \A x \in Workers, s \in {"say", "mark"} : task'[x].step = s <=> task[x].step = s
  OBVIOUS
<1>4. \A x \in Workers : task[x].step \in {"say", "mark"} => task'[x].title = task[x].title
  OBVIOUS
<1>5. \A x \in Workers : task'[x].step = "mark" => reminded'[task'[x].title] >= 1
  BY <1>1, <1>3, <1>4 DEF RemindersInv
<1>6. ASSUME NEW r \in Reminders
      PROVE  /\ r \in delivered' => reminded'[r] >= 1
             /\ r \notin disturbed' =>
                  /\ reminded'[r] <= 1
                  /\ \A v, w \in Workers : r \in InHand(v)' /\ r \in InHand(w)' => v = w
                  /\ \A w \in Workers : task'[w].step = "say" /\ task'[w].title = r => reminded'[r] = 0
                  /\ reminded'[r] >= 1 =>
                       r \in delivered' \/ \E w \in Workers : task'[w].step = "mark" /\ task'[w].title = r
  BY <1>1, <1>2, <1>3, <1>4 DEF RemindersInv
<1> QED
  BY <1>5, <1>6 DEF RemindersInv

LEMMA RemindersWhenTaken ==
    ASSUME NoticesTyped, RemindersInv, NEW w \in Workers, NEW r \in Reminders, TakeReminder(w, r)
    PROVE  RemindersInv'
PROOF
<1>1. /\ task[w].step = "remind" /\ UNCHANGED <<delivered, reminded>> /\ disturbed \subseteq disturbed'
      /\ r \notin disturbed' => \A v \in Workers \ {w} : r \notin InHand(v)
      /\ disturbed' \subseteq disturbed \cup {r}
  BY DEF TakeReminder, At
<1>2. CASE StillDue(r)
  <2>1. Becomes(w, "say", task[w].kind, r, task[w].todo \ {r})
    BY <1>2, ReminderMoves DEF NoticesTyped
  <2>2. /\ task'[w].step = "say" /\ task'[w].title = r
        /\ \A x \in Workers \ {w} : task'[x] = task[x] /\ InHand(x)' = InHand(x)
        /\ InHand(w) = {} /\ InHand(w)' = {r}
    BY <1>1, <2>1 DEF Becomes, InHand
  <2>3. \A x \in Workers : task'[x].step = "mark" => reminded[task'[x].title] >= 1
    BY <2>2 DEF RemindersInv
  <2>4. ASSUME r \notin disturbed' PROVE reminded[r] = 0
    <3>1. ~(reminded[r] >= 1)
      <4> SUFFICES ASSUME reminded[r] >= 1 PROVE FALSE
        OBVIOUS
      <4>1. PICK x \in Workers : task[x].step = "mark" /\ task[x].title = r
        BY <1>1, <1>2, <2>4 DEF RemindersInv, StillDue
      <4> QED
        BY <1>1, <2>4, <4>1 DEF InHand
    <3> QED
      BY <3>1 DEF NoticesTyped
  <2>5. ASSUME NEW q \in Reminders
        PROVE  /\ q \in delivered => reminded[q] >= 1
               /\ q \notin disturbed' =>
                    /\ reminded[q] <= 1
                    /\ \A x, y \in Workers : q \in InHand(x)' /\ q \in InHand(y)' => x = y
                    /\ \A x \in Workers : task'[x].step = "say" /\ task'[x].title = q => reminded[q] = 0
                    /\ reminded[q] >= 1 =>
                         q \in delivered \/ \E x \in Workers : task'[x].step = "mark" /\ task'[x].title = q
    <3>1. q \in delivered => reminded[q] >= 1
      BY DEF RemindersInv
    <3> SUFFICES ASSUME q \notin disturbed'
                 PROVE  /\ reminded[q] <= 1
                        /\ \A x, y \in Workers : q \in InHand(x)' /\ q \in InHand(y)' => x = y
                        /\ \A x \in Workers : task'[x].step = "say" /\ task'[x].title = q => reminded[q] = 0
                        /\ reminded[q] >= 1 =>
                             q \in delivered \/ \E x \in Workers : task'[x].step = "mark" /\ task'[x].title = q
      BY <3>1
    <3>2. q \notin disturbed
      BY <1>1
    <3>3. CASE q = r
      BY <1>1, <2>2, <2>4, <3>3 DEF RemindersInv
    <3>4. CASE q # r
      <4>1. \A x \in Workers : q \in InHand(x)' <=> q \in InHand(x)
        BY <2>2, <3>4
      <4>2. \A x \in Workers : task'[x].title = q => task'[x] = task[x]
        BY <2>2, <3>4
      <4>3. \A x \in Workers : task[x].step = "mark" => task'[x] = task[x]
        BY <1>1, <2>2
      <4>4. reminded[q] >= 1 =>
              q \in delivered \/ \E x \in Workers : task'[x].step = "mark" /\ task'[x].title = q
        BY <3>2, <4>3 DEF RemindersInv
      <4> QED
        BY <3>2, <4>1, <4>2, <4>4 DEF RemindersInv
    <3> QED
      BY <3>3, <3>4
  <2> QED
    BY <1>1, <2>3, <2>5 DEF RemindersInv
<1>3. CASE ~StillDue(r)
  <2>1. Becomes(w, "remind", task[w].kind, task[w].title, task[w].todo \ {r})
    BY <1>3, ReminderMoves DEF NoticesTyped
  <2>2. /\ \A x \in Workers \ {w} : task'[x] = task[x]
        /\ task'[w].step = "remind"
    BY <2>1 DEF Becomes
  <2>3. \A x \in Workers : InHand(x)' = InHand(x)
    BY <1>1, <2>2 DEF InHand
  <2>4. \A x \in Workers, s \in {"say", "mark"} :
          (task'[x].step = s <=> task[x].step = s) /\ (task[x].step = s => task'[x].title = task[x].title)
    BY <1>1, <2>2
  <2>5. \A x \in Workers : task'[x].step = "mark" => reminded[task'[x].title] >= 1
    BY <2>4 DEF RemindersInv
  <2>6. ASSUME NEW q \in Reminders
        PROVE  /\ q \in delivered => reminded[q] >= 1
               /\ q \notin disturbed' =>
                    /\ reminded[q] <= 1
                    /\ \A x, y \in Workers : q \in InHand(x)' /\ q \in InHand(y)' => x = y
                    /\ \A x \in Workers : task'[x].step = "say" /\ task'[x].title = q => reminded[q] = 0
                    /\ reminded[q] >= 1 =>
                         q \in delivered \/ \E x \in Workers : task'[x].step = "mark" /\ task'[x].title = q
    BY <1>1, <2>3, <2>4 DEF RemindersInv
  <2> QED
    BY <1>1, <2>5, <2>6 DEF RemindersInv
<1> QED
  BY <1>2, <1>3

LEMMA RemindersWhenSaid ==
    ASSUME NoticesTyped, RemindersInv, NEW w \in Workers, SayReminder(w) \/ MarkReminder(w)
    PROVE  RemindersInv'
PROOF
<1> DEFINE r == task[w].title
<1>0. task[w].step \in {"say", "mark"} /\ r \in Reminders /\ r \in InHand(w) /\ reminded[r] \in Nat
  BY DEF SayReminder, MarkReminder, At, NoticesTyped, TaskSound, InHand
<1>1. CASE SayReminder(w)
  <2>1. /\ task[w].step = "say" /\ reminded' = [reminded EXCEPT ![r] = @ + 1]
        /\ UNCHANGED <<delivered, disturbed>> /\ Goto(w, "mark")
    BY <1>1 DEF SayReminder, At
  <2>2. Becomes(w, "mark", task[w].kind, r, task[w].todo)
    BY <2>1, TaskMoves DEF NoticesTyped
  <2>3. /\ task'[w].step = "mark" /\ task'[w].title = r
        /\ \A x \in Workers \ {w} : task'[x] = task[x]
        /\ \A x \in Workers : InHand(x)' = InHand(x)
    BY <2>1, <2>2 DEF Becomes, InHand
  <2>4. reminded'[r] = reminded[r] + 1 /\ \A q \in Reminders \ {r} : reminded'[q] = reminded[q]
    BY <1>0, <2>1 DEF NoticesTyped
  <2>5. ASSUME NEW x \in Workers, task'[x].step = "mark" PROVE reminded'[task'[x].title] >= 1
    <3>1. CASE x = w
      BY <1>0, <2>3, <2>4, <3>1
    <3>2. CASE x # w
      <4>1. task[x].step = "mark" /\ task'[x].title = task[x].title /\ reminded[task[x].title] >= 1
        BY <2>3, <2>5, <3>2 DEF RemindersInv
      <4>2. task[x].title \in Reminders
        BY <4>1 DEF NoticesTyped, TaskSound
      <4> QED
        BY <1>0, <2>4, <4>1, <4>2
    <3> QED
      BY <3>1, <3>2
  <2>6. ASSUME NEW q \in Reminders
        PROVE  /\ q \in delivered => reminded'[q] >= 1
               /\ q \notin disturbed =>
                    /\ reminded'[q] <= 1
                    /\ \A x, y \in Workers : q \in InHand(x)' /\ q \in InHand(y)' => x = y
                    /\ \A x \in Workers : task'[x].step = "say" /\ task'[x].title = q => reminded'[q] = 0
                    /\ reminded'[q] >= 1 =>
                         q \in delivered \/ \E x \in Workers : task'[x].step = "mark" /\ task'[x].title = q
    <3>1. CASE q = r
      <4>1. q \notin disturbed => reminded[r] = 0
        BY <2>1, <3>1 DEF RemindersInv
      <4>2. q \notin disturbed => \A x \in Workers : r \in InHand(x) => x = w
        BY <1>0, <3>1 DEF RemindersInv
      <4>3. q \notin disturbed => \A x \in Workers : ~(task'[x].step = "say" /\ task'[x].title = q)
        BY <2>3, <3>1, <4>2 DEF InHand
      <4> QED
        BY <1>0, <2>3, <2>4, <3>1, <4>1, <4>2, <4>3
    <3>2. CASE q # r
      <4>1. reminded'[q] = reminded[q]
        BY <2>4, <3>2
      <4>2. \A x \in Workers : task'[x].title = q => task'[x] = task[x]
        BY <2>3, <3>2
      <4>3. \A x \in Workers : task[x].step = "mark" => task'[x] = task[x]
        BY <2>1, <2>3
      <4>4. q \notin disturbed /\ reminded[q] >= 1 =>
              q \in delivered \/ \E x \in Workers : task'[x].step = "mark" /\ task'[x].title = q
        BY <4>3 DEF RemindersInv
      <4> QED
        BY <2>3, <4>1, <4>2, <4>4 DEF RemindersInv
    <3> QED
      BY <3>1, <3>2
  <2> QED
    BY <2>1, <2>5, <2>6 DEF RemindersInv
<1>2. CASE MarkReminder(w)
  <2>1. /\ task[w].step = "mark" /\ delivered' = delivered \cup {r}
        /\ UNCHANGED <<reminded, disturbed>>
    BY <1>2 DEF MarkReminder, At
  <2>2. Becomes(w, "remind", task[w].kind, 0, task[w].todo)
    BY <1>2, ReminderMoves DEF NoticesTyped
  <2>3. /\ task'[w].step = "remind" /\ InHand(w)' = {}
        /\ \A x \in Workers \ {w} : task'[x] = task[x] /\ InHand(x)' = InHand(x)
    BY <2>2 DEF Becomes, InHand
  <2>4. \A x \in Workers : task'[x].step \in {"say", "mark"} => x # w /\ task'[x] = task[x]
    BY <2>3
  <2>5. \A x \in Workers : task'[x].step = "mark" => reminded[task'[x].title] >= 1
    BY <2>4 DEF RemindersInv
  <2>6. ASSUME NEW q \in Reminders
        PROVE  /\ q \in delivered' => reminded[q] >= 1
               /\ q \notin disturbed =>
                    /\ reminded[q] <= 1
                    /\ \A x, y \in Workers : q \in InHand(x)' /\ q \in InHand(y)' => x = y
                    /\ \A x \in Workers : task'[x].step = "say" /\ task'[x].title = q => reminded[q] = 0
                    /\ reminded[q] >= 1 =>
                         q \in delivered' \/ \E x \in Workers : task'[x].step = "mark" /\ task'[x].title = q
    <3>1. q \in delivered' => reminded[q] >= 1
      BY <2>1 DEF RemindersInv
    <3>2. \A x \in Workers : q \in InHand(x)' => q \in InHand(x)
      BY <2>3
    <3>3. \A x \in Workers : task'[x].step = "say" => task[x].step = "say" /\ task'[x].title = task[x].title
      BY <2>4
    <3>4. q \notin disturbed /\ reminded[q] >= 1 =>
            q \in delivered' \/ \E x \in Workers : task'[x].step = "mark" /\ task'[x].title = q
      <4> SUFFICES ASSUME q \notin disturbed, reminded[q] >= 1, q \notin delivered'
                   PROVE  \E x \in Workers : task'[x].step = "mark" /\ task'[x].title = q
        OBVIOUS
      <4>1. PICK x \in Workers : task[x].step = "mark" /\ task[x].title = q
        BY <2>1 DEF RemindersInv
      <4>2. x # w
        BY <2>1, <4>1
      <4> QED
        BY <2>3, <4>1, <4>2
    <3> QED
      BY <3>1, <3>2, <3>3, <3>4 DEF RemindersInv
  <2> QED
    BY <2>1, <2>5, <2>6 DEF RemindersInv
<1> QED
  BY <1>1, <1>2

LEMMA RemindersWhenKilled ==
    ASSUME NoticesTyped, RemindersInv, NEW w \in Workers, WorkerDies(w)
    PROVE  RemindersInv'
PROOF
<1>1. /\ UNCHANGED <<delivered, reminded>> /\ disturbed' = disturbed \cup InHand(w) /\ EndTask(w)
  BY DEF WorkerDies
<1>2. Becomes(w, "idle", "none", 0, {})
  BY <1>1, TaskMoves DEF NoticesTyped
<1>3. /\ task'[w].step = "idle" /\ InHand(w)' = {}
      /\ \A x \in Workers \ {w} : task'[x] = task[x] /\ InHand(x)' = InHand(x)
  BY <1>2 DEF Becomes, InHand
<1>4. \A x \in Workers : task'[x].step \in {"say", "mark"} => x # w /\ task'[x] = task[x]
  BY <1>3
<1>5. \A x \in Workers : task'[x].step = "mark" => reminded[task'[x].title] >= 1
  BY <1>4 DEF RemindersInv
<1>6. ASSUME NEW q \in Reminders
      PROVE  /\ q \in delivered => reminded[q] >= 1
             /\ q \notin disturbed' =>
                  /\ reminded[q] <= 1
                  /\ \A x, y \in Workers : q \in InHand(x)' /\ q \in InHand(y)' => x = y
                  /\ \A x \in Workers : task'[x].step = "say" /\ task'[x].title = q => reminded[q] = 0
                  /\ reminded[q] >= 1 =>
                       q \in delivered \/ \E x \in Workers : task'[x].step = "mark" /\ task'[x].title = q
  <2>1. q \in delivered => reminded[q] >= 1
    BY DEF RemindersInv
  <2>2. \A x \in Workers : q \in InHand(x)' => q \in InHand(x)
    BY <1>3
  <2>3. \A x \in Workers : task'[x].step = "say" => task[x].step = "say" /\ task'[x].title = task[x].title
    BY <1>4
  <2>4. q \notin disturbed' /\ reminded[q] >= 1 =>
          q \in delivered \/ \E x \in Workers : task'[x].step = "mark" /\ task'[x].title = q
    <3> SUFFICES ASSUME q \notin disturbed', reminded[q] >= 1, q \notin delivered
                 PROVE  \E x \in Workers : task'[x].step = "mark" /\ task'[x].title = q
      OBVIOUS
    <3>1. PICK x \in Workers : task[x].step = "mark" /\ task[x].title = q
      BY <1>1 DEF RemindersInv
    <3>2. x # w
      BY <1>1, <3>1 DEF InHand
    <3> QED
      BY <1>3, <3>1, <3>2
  <2> QED
    BY <1>1, <2>1, <2>2, <2>3, <2>4 DEF RemindersInv
<1> QED
  BY <1>1, <1>5, <1>6 DEF RemindersInv

-----------------------------------------------------------------------------
(* The steps                                                               *)

NoticesInv == NoticesTyped /\ LocksKept /\ NoticesCovered /\ CopiesInv /\ RemindersInv

\* A step that leaves the locks, the rows and the shared chat alone.
LEMMA QuietStep ==
    ASSUME NoticesInv, NEW w \in Workers,
           NEW step, NEW kind, NEW title, NEW todo, Becomes(w, step, kind, title, todo),
           TaskSound([step |-> step, kind |-> kind, title |-> title, todo |-> todo]),
           UNCHANGED <<today, posted, noticeLock, chat, mishaps, overrun>>,
           copies' \in [Subscribers \X Dates -> Nat], reminded' \in [Reminders -> Nat],
           \/ step \notin AtNotice /\ task[w].step \notin AtNotice
           \/ /\ task[w].step = "look" /\ step = "send" /\ kind = task[w].kind /\ title = task[w].title
              /\ <<kind, title>> \notin posted
    PROVE  NoticesTyped' /\ LocksKept' /\ NoticesCovered'
PROOF
<1>1. Stays(w)
  BY DEF Stays, Becomes, AtNotice
<1>2. chat' \in [Kinds \X Dates -> Nat]
  BY DEF NoticesInv, NoticesTyped
<1>3. NoticesTyped' /\ LocksKept'
  BY <1>1, <1>2, LocksMove DEF NoticesInv
<1>4. \A x \in Workers \ {w} : task'[x] = task[x]
  BY DEF Becomes
<1>5. ASSUME NEW k \in Kinds, NEW d \in Dates, w \in Coming(k, d)' PROVE w \in Coming(k, d)
  BY <1>5 DEF Becomes, Coming, Of, AtNotice
<1>6. ASSUME NEW k \in Kinds, NEW d \in Dates PROVE Covered(k, d)'
  <2>1. Covered(k, d)
    BY DEF NoticesInv, NoticesCovered
  <2> QED
    BY <1>1, <1>4, <1>5, <2>1, CoveredWhenQuiet DEF NoticesInv
<1> QED
  BY <1>3, <1>6 DEF NoticesCovered

LEMMA TriggerKeeps ==
    ASSUME NoticesInv, NEW w \in Workers, NEW k \in Kinds, TriggerNotice(w, k)
    PROVE  NoticesInv'
PROOF
<1>1. /\ task[w].step = "idle" /\ BeginNotice(w, k, 0)
      /\ UNCHANGED <<today, posted, noticeLock, chat, copies, reminderVars, mishaps, overrun>>
  BY DEF TriggerNotice, At
<1>2. PICK step \in {"lock", "idle"}, kind \in Kinds \cup {"none"}, title \in Dates \cup {0} :
        /\ Becomes(w, step, kind, title, {})
        /\ step = "lock" => kind \in Kinds /\ title \in Dates
  BY <1>1, TaskMoves DEF NoticesInv, NoticesTyped
<1>3. TaskSound([step |-> step, kind |-> kind, title |-> title, todo |-> {}])
  BY <1>2 DEF TaskSound, AtNotice
<1>4. NoticesTyped' /\ LocksKept' /\ NoticesCovered'
  <2>1. copies' \in [Subscribers \X Dates -> Nat] /\ reminded' \in [Reminders -> Nat]
    BY <1>1 DEF NoticesInv, NoticesTyped, reminderVars
  <2> QED
    BY <1>1, <1>2, <1>3, <2>1, QuietStep DEF AtNotice
<1>5. task'[w].step \in {"lock", "idle"} /\ \A x \in Workers \ {w} : task'[x] = task[x]
  BY <1>2 DEF Becomes
<1>6. CopiesInv'
  BY <1>1, <1>5, CopiesWhenQuiet DEF NoticesInv, Digesting
<1>7. RemindersInv'
  BY <1>1, <1>5, RemindersWhenQuiet DEF NoticesInv
<1> QED
  BY <1>4, <1>6, <1>7 DEF NoticesInv

LEMMA TakeLockKeeps ==
    ASSUME NoticesInv, NEW w \in Workers, TakeLock(w)
    PROVE  NoticesInv'
PROOF
<1>1. /\ task[w].step = "lock" /\ noticeLock[LockOf(task[w])] = "free" /\ Goto(w, "look")
      /\ noticeLock' = [noticeLock EXCEPT ![LockOf(task[w])] = w]
      /\ UNCHANGED <<today, posted, chat, copies, reminderVars, mishaps, overrun>>
  BY DEF TakeLock, At
<1>2. Becomes(w, "look", task[w].kind, task[w].title, task[w].todo)
  BY <1>1, TaskMoves DEF NoticesInv, NoticesTyped
<1>3. Takes(w) /\ \A x \in Workers \ {w} : task'[x] = task[x]
  BY <1>1, <1>2 DEF Takes, Becomes
<1>4. TaskSound([step |-> "look", kind |-> task[w].kind, title |-> task[w].title, todo |-> task[w].todo])
  BY <1>1 DEF NoticesInv, NoticesTyped, TaskSound
<1>5. /\ chat' \in [Kinds \X Dates -> Nat] /\ copies' \in [Subscribers \X Dates -> Nat]
      /\ reminded' \in [Reminders -> Nat]
  BY <1>1 DEF NoticesInv, NoticesTyped, reminderVars
<1>6. NoticesTyped' /\ LocksKept'
  BY <1>1, <1>2, <1>3, <1>4, <1>5, LocksMove DEF NoticesInv
<1>7. NoticesCovered'
  BY <1>1, <1>3, CoveredTake DEF NoticesInv, NoticesCovered
<1>8. task'[w].step = "look"
  BY <1>2 DEF Becomes
<1>9. CopiesInv'
  BY <1>1, <1>3, <1>8, CopiesWhenQuiet DEF NoticesInv, Digesting
<1>10. RemindersInv'
  BY <1>1, <1>3, <1>8, RemindersWhenQuiet DEF NoticesInv
<1> QED
  BY <1>6, <1>7, <1>9, <1>10 DEF NoticesInv

\* A task that is over with neither lock nor copies nor reminder in hand.
LEMMA OverKeeps ==
    ASSUME NoticesInv, NEW w \in Workers, EndTask(w),
           \/ task[w].step \in {"lock", "remind"}
           \/ task[w].step = "users" /\ task[w].todo = {},
           UNCHANGED <<today, posted, noticeLock, chat, copies, reminderVars, mishaps, overrun>>
    PROVE  NoticesInv'
PROOF
<1>1. Becomes(w, "idle", "none", 0, {})
  BY TaskMoves DEF NoticesInv, NoticesTyped
<1>2. TaskSound([step |-> "idle", kind |-> "none", title |-> 0, todo |-> {}])
  BY DEF TaskSound, AtNotice
<1>3. copies' \in [Subscribers \X Dates -> Nat] /\ reminded' \in [Reminders -> Nat]
  BY DEF NoticesInv, NoticesTyped, reminderVars
<1>4. NoticesTyped' /\ LocksKept' /\ NoticesCovered'
  BY <1>1, <1>2, <1>3, QuietStep DEF AtNotice
<1>5. task'[w].step = "idle" /\ \A x \in Workers \ {w} : task'[x] = task[x]
  BY <1>1 DEF Becomes
<1>6. CopiesInv'
  BY <1>5, CopiesWhenQuiet DEF NoticesInv, Digesting
<1>7. RemindersInv'
  BY <1>5, RemindersWhenQuiet DEF NoticesInv
<1> QED
  BY <1>4, <1>6, <1>7 DEF NoticesInv

LEMMA UnlockedIsGone ==
    ASSUME NoticesTyped, NEW w \in Workers, task'[w].step \notin AtNotice,
           \/ noticeLock' = Unlocked(w)
           \/ noticeLock' = [k \in Locks |-> IF noticeLock[k] = w THEN "dead" ELSE noticeLock[k]]
    PROVE  IsGone(w)
PROOF
  BY DEF NoticesTyped, Unlocked, IsGone

LEMMA LookKeeps ==
    ASSUME NoticesInv, NEW w \in Workers, LookForRow(w)
    PROVE  NoticesInv'
PROOF
<1>1. /\ task[w].step = "look"
      /\ UNCHANGED <<today, posted, chat, copies, reminderVars, mishaps, overrun>>
  BY DEF LookForRow, At
<1>2. /\ chat' \in [Kinds \X Dates -> Nat] /\ copies' \in [Subscribers \X Dates -> Nat]
      /\ reminded' \in [Reminders -> Nat]
  BY <1>1 DEF NoticesInv, NoticesTyped, reminderVars
<1>3. CASE AlreadyPosted(task[w])
  <2>1. EndTask(w) /\ noticeLock' = Unlocked(w)
    BY <1>3 DEF LookForRow
  <2>2. Becomes(w, "idle", "none", 0, {})
    BY <2>1, TaskMoves DEF NoticesInv, NoticesTyped
  <2>3. task'[w].step = "idle" /\ \A x \in Workers \ {w} : task'[x] = task[x]
    BY <2>2 DEF Becomes
  <2>4. IsGone(w)
    BY <2>1, <2>3, UnlockedIsGone DEF NoticesInv, AtNotice
  <2>5. TaskSound([step |-> "idle", kind |-> "none", title |-> 0, todo |-> {}])
    BY DEF TaskSound, AtNotice
  <2>6. NoticesTyped' /\ LocksKept'
    BY <1>1, <1>2, <2>2, <2>4, <2>5, LocksMove DEF NoticesInv
  <2>7. posted' = posted \cup {<<task[w].kind, task[w].title>>}
    BY <1>1, <1>3 DEF AlreadyPosted
  <2>8. NoticesCovered'
    BY <1>1, <2>3, <2>4, <2>7, CoveredWhenPosted DEF NoticesInv, NoticesCovered, AtNotice
  <2>9. CopiesInv'
    BY <1>1, <2>3, CopiesWhenQuiet DEF NoticesInv, Digesting
  <2>10. RemindersInv'
    BY <1>1, <2>3, RemindersWhenQuiet DEF NoticesInv
  <2> QED
    BY <2>6, <2>8, <2>9, <2>10 DEF NoticesInv
<1>4. CASE ~AlreadyPosted(task[w])
  <2>1. Goto(w, "send") /\ UNCHANGED noticeLock /\ <<task[w].kind, task[w].title>> \notin posted
    BY <1>4 DEF LookForRow, AlreadyPosted
  <2>2. Becomes(w, "send", task[w].kind, task[w].title, task[w].todo)
    BY <2>1, TaskMoves DEF NoticesInv, NoticesTyped
  <2>3. /\ task'[w].step = "send" /\ task'[w].kind = task[w].kind /\ task'[w].title = task[w].title
        /\ \A x \in Workers \ {w} : task'[x] = task[x]
    BY <2>2 DEF Becomes
  <2>4. TaskSound([step |-> "send", kind |-> task[w].kind, title |-> task[w].title, todo |-> task[w].todo])
    BY <1>1 DEF NoticesInv, NoticesTyped, TaskSound, AtNotice
  <2>5. NoticesTyped' /\ LocksKept' /\ NoticesCovered'
    BY <1>1, <1>2, <2>1, <2>2, <2>4, QuietStep
  <2>6. CopiesInv'
    BY <1>1, <2>1, <2>3, CopiesWhenQuiet DEF NoticesInv, Digesting
  <2>7. RemindersInv'
    BY <1>1, <2>3, RemindersWhenQuiet DEF NoticesInv
  <2> QED
    BY <2>5, <2>6, <2>7 DEF NoticesInv
<1> QED
  BY <1>3, <1>4

LEMMA SendKeeps ==
    ASSUME NoticesInv, NEW w \in Workers, NEW accepted \in BOOLEAN, SendToChat(w, accepted)
    PROVE  NoticesInv'
PROOF
<1>1. /\ task[w].step = "send" /\ Goto(w, "post")
      /\ chat' = chat \/ chat' = [chat EXCEPT ![<<task[w].kind, task[w].title>>] = @ + 1]
      /\ UNCHANGED <<today, posted, noticeLock, copies, reminderVars, mishaps, overrun>>
  BY DEF SendToChat, At
<1>2. Becomes(w, "post", task[w].kind, task[w].title, task[w].todo)
  BY <1>1, TaskMoves DEF NoticesInv, NoticesTyped
<1>3. /\ task'[w].step = "post" /\ task'[w].kind = task[w].kind /\ task'[w].title = task[w].title
      /\ \A x \in Workers \ {w} : task'[x] = task[x]
  BY <1>2 DEF Becomes
<1>4. Stays(w)
  BY <1>1, <1>3 DEF Stays, AtNotice
<1>5. task[w].kind \in Kinds /\ task[w].title \in Dates
  BY <1>1 DEF NoticesInv, NoticesTyped, TaskSound, AtNotice
<1>6. TaskSound([step |-> "post", kind |-> task[w].kind, title |-> task[w].title, todo |-> task[w].todo])
  BY <1>5 DEF TaskSound, AtNotice
<1>7. chat' \in [Kinds \X Dates -> Nat]
  <2>1. chat \in [Kinds \X Dates -> Nat] /\ <<task[w].kind, task[w].title>> \in Kinds \X Dates
    BY <1>5 DEF NoticesInv, NoticesTyped
  <2> QED
    BY <1>1, <2>1
<1>8. copies' \in [Subscribers \X Dates -> Nat] /\ reminded' \in [Reminders -> Nat]
  BY <1>1 DEF NoticesInv, NoticesTyped, reminderVars
<1>9. NoticesTyped' /\ LocksKept'
  BY <1>1, <1>2, <1>4, <1>6, <1>7, <1>8, LocksMove DEF NoticesInv
<1>10. NoticesCovered'
  BY <1>1, <1>3, <1>4, CoveredSend DEF NoticesInv, NoticesCovered
<1>11. CopiesInv'
  BY <1>1, <1>3, CopiesWhenQuiet DEF NoticesInv, Digesting
<1>12. RemindersInv'
  BY <1>1, <1>3, RemindersWhenQuiet DEF NoticesInv
<1> QED
  BY <1>9, <1>10, <1>11, <1>12 DEF NoticesInv

LEMMA PostKeeps ==
    ASSUME NoticesInv, NEW w \in Workers, PostRow(w)
    PROVE  NoticesInv'
PROOF
<1>1. /\ task[w].step = "post" /\ noticeLock' = Unlocked(w)
      /\ posted' = posted \cup {<<task[w].kind, task[w].title>>}
      /\ task' = [task EXCEPT ![w] = AfterPost(task[w])]
      /\ UNCHANGED <<today, chat, copies, reminderVars, mishaps, overrun>>
  BY DEF PostRow, At
<1>2. task[w].kind \in Kinds /\ task[w].title \in Dates
  BY <1>1 DEF NoticesInv, NoticesTyped, TaskSound, AtNotice
<1>3. IF task[w].kind = "digest" THEN Becomes(w, "users", "digest", task[w].title, Subscribers)
      ELSE Becomes(w, "idle", "none", 0, {})
  BY <1>1, TaskMoves DEF NoticesInv, NoticesTyped
<1>4. PICK step, kind, title, todo :
        /\ step \in {"users", "idle"} /\ Becomes(w, step, kind, title, todo)
        /\ TaskSound([step |-> step, kind |-> kind, title |-> title, todo |-> todo])
  <2>1. CASE task[w].kind = "digest"
    <3>1. TaskSound([step |-> "users", kind |-> "digest", title |-> task[w].title, todo |-> Subscribers])
      BY <1>2, <2>1 DEF TaskSound, AtNotice
    <3> QED
      BY <1>3, <2>1, <3>1
  <2>2. CASE task[w].kind # "digest"
    <3>1. TaskSound([step |-> "idle", kind |-> "none", title |-> 0, todo |-> {}])
      BY DEF TaskSound, AtNotice
    <3> QED
      BY <1>3, <2>2, <3>1
  <2> QED
    BY <2>1, <2>2
<1>5. task'[w].step \in {"users", "idle"} /\ \A x \in Workers \ {w} : task'[x] = task[x]
  BY <1>4 DEF Becomes
<1>6. IsGone(w)
  BY <1>1, <1>5, UnlockedIsGone DEF NoticesInv, AtNotice
<1>7. /\ chat' \in [Kinds \X Dates -> Nat] /\ copies' \in [Subscribers \X Dates -> Nat]
      /\ reminded' \in [Reminders -> Nat]
  BY <1>1 DEF NoticesInv, NoticesTyped, reminderVars
<1>8. NoticesTyped' /\ LocksKept'
  BY <1>1, <1>4, <1>6, <1>7, LocksMove DEF NoticesInv
<1>9. NoticesCovered'
  BY <1>1, <1>5, <1>6, CoveredWhenPosted DEF NoticesInv, NoticesCovered, AtNotice
<1>10. CopiesInv'
  BY CopiesWhenPosted DEF NoticesInv
<1>11. RemindersInv'
  BY <1>1, <1>5, RemindersWhenQuiet DEF NoticesInv
<1> QED
  BY <1>8, <1>9, <1>10, <1>11 DEF NoticesInv

LEMMA CopyKeeps ==
    ASSUME NoticesInv, NEW w \in Workers, NEW u \in Subscribers, SendCopy(w, u)
    PROVE  NoticesInv'
PROOF
<1>1. /\ task[w].step = "users" /\ u \in task[w].todo
      /\ copies' = [copies EXCEPT ![<<u, task[w].title>>] = @ + 1]
      /\ UNCHANGED <<today, posted, noticeLock, chat, reminderVars, mishaps, overrun>>
  BY DEF SendCopy, At
<1>2. Becomes(w, "users", task[w].kind, task[w].title, task[w].todo \ {u})
  <2>1. task' = [task EXCEPT ![w].todo = @ \ {u}] /\ TasksShaped
    BY DEF SendCopy, NoticesInv, NoticesTyped
  <2>2. Becomes(w, task[w].step, task[w].kind, task[w].title, task[w].todo \ {u})
    BY <2>1, TaskMoves
  <2> QED
    BY <1>1, <2>2
<1>3. TaskSound([step |-> "users", kind |-> task[w].kind, title |-> task[w].title, todo |-> task[w].todo \ {u}])
  BY <1>1 DEF NoticesInv, NoticesTyped, TaskSound, AtNotice
<1>4. copies' \in [Subscribers \X Dates -> Nat] /\ reminded' \in [Reminders -> Nat]
  <2>1. copies \in [Subscribers \X Dates -> Nat] /\ task[w].title \in Dates
    BY <1>1 DEF NoticesInv, NoticesTyped, TaskSound
  <2>2. reminded' \in [Reminders -> Nat]
    BY <1>1 DEF NoticesInv, NoticesTyped, reminderVars
  <2> QED
    BY <1>1, <2>1, <2>2
<1>5. NoticesTyped' /\ LocksKept' /\ NoticesCovered'
  BY <1>1, <1>2, <1>3, <1>4, QuietStep DEF AtNotice
<1>6. CopiesInv'
  BY CopiesWhenSent DEF NoticesInv
<1>7. task'[w].step = "users" /\ \A x \in Workers \ {w} : task'[x] = task[x]
  BY <1>2 DEF Becomes
<1>8. RemindersInv'
  BY <1>1, <1>7, RemindersWhenQuiet DEF NoticesInv
<1> QED
  BY <1>5, <1>6, <1>8 DEF NoticesInv

LEMMA RaiseKeeps ==
    ASSUME NoticesInv, NEW w \in Workers, NoticeRaises(w)
    PROVE  NoticesInv'
PROOF
<1>1. /\ task[w].step \in {"look", "send", "post", "users"} /\ noticeLock' = Unlocked(w)
      /\ mishaps' = mishaps + 1
      /\ BeginNotice(w, task[w].kind, task[w].tries + 1) \/ EndTask(w)
      /\ UNCHANGED <<today, posted, chat, copies, delivered, reminded, disturbed, overrun>>
  BY DEF NoticeRaises
<1>2. task[w].kind \in Kinds /\ today \in Dates
  BY <1>1 DEF NoticesInv, NoticesTyped, TaskSound, AtNotice
<1>3. Becomes(w, "lock", task[w].kind, today, {}) \/ Becomes(w, "idle", "none", 0, {})
  BY <1>1, TaskMoves DEF NoticesInv, NoticesTyped
<1>4. /\ TaskSound([step |-> "lock", kind |-> task[w].kind, title |-> today, todo |-> {}])
      /\ TaskSound([step |-> "idle", kind |-> "none", title |-> 0, todo |-> {}])
  BY <1>2 DEF TaskSound, AtNotice
<1>5. task'[w].step \in {"lock", "idle"} /\ \A x \in Workers \ {w} : task'[x] = task[x]
  BY <1>3 DEF Becomes
<1>6. IsGone(w)
  BY <1>1, <1>5, UnlockedIsGone DEF NoticesInv, AtNotice
<1>7. /\ chat' \in [Kinds \X Dates -> Nat] /\ copies' \in [Subscribers \X Dates -> Nat]
      /\ reminded' \in [Reminders -> Nat]
  BY <1>1 DEF NoticesInv, NoticesTyped
<1>8. NoticesTyped' /\ LocksKept'
  BY <1>1, <1>3, <1>4, <1>6, <1>7, LocksMove DEF NoticesInv
<1>9. NoticesCovered'
  <2>1. task'[w].step \notin AtNotice
    BY <1>5 DEF AtNotice
  <2> QED
    BY <1>1, <1>5, <2>1, CoveredWhenGone DEF NoticesInv, NoticesCovered
<1>10. CopiesInv'
  <2>1. mishaps' # 0
    BY <1>1 DEF NoticesInv, NoticesTyped
  <2> QED
    BY <1>1, <1>5, <2>1, CopiesWhenQuiet DEF NoticesInv, Digesting
<1>11. RemindersInv'
  BY <1>1, <1>5, RemindersWhenQuiet DEF NoticesInv, reminderVars
<1> QED
  BY <1>8, <1>9, <1>10, <1>11 DEF NoticesInv

LEMMA DeathKeeps ==
    ASSUME NoticesInv, NEW w \in Workers, WorkerDies(w)
    PROVE  NoticesInv'
PROOF
<1>1. /\ mishaps' = mishaps + 1 /\ EndTask(w)
      /\ noticeLock' = [k \in Locks |-> IF noticeLock[k] = w THEN "dead" ELSE noticeLock[k]]
      /\ UNCHANGED <<today, posted, chat, copies, delivered, reminded, overrun>>
  BY DEF WorkerDies
<1>2. Becomes(w, "idle", "none", 0, {})
  BY <1>1, TaskMoves DEF NoticesInv, NoticesTyped
<1>3. TaskSound([step |-> "idle", kind |-> "none", title |-> 0, todo |-> {}])
  BY DEF TaskSound, AtNotice
<1>4. task'[w].step = "idle" /\ \A x \in Workers \ {w} : task'[x] = task[x]
  BY <1>2 DEF Becomes
<1>5. IsGone(w)
  BY <1>1, <1>4, UnlockedIsGone DEF NoticesInv, AtNotice
<1>6. /\ chat' \in [Kinds \X Dates -> Nat] /\ copies' \in [Subscribers \X Dates -> Nat]
      /\ reminded' \in [Reminders -> Nat]
  BY <1>1 DEF NoticesInv, NoticesTyped
<1>7. NoticesTyped' /\ LocksKept'
  BY <1>1, <1>2, <1>3, <1>5, <1>6, LocksMove DEF NoticesInv
<1>8. NoticesCovered'
  <2>1. task'[w].step \notin AtNotice
    BY <1>4 DEF AtNotice
  <2> QED
    BY <1>1, <1>4, <2>1, CoveredWhenGone DEF NoticesInv, NoticesCovered
<1>9. CopiesInv'
  <2>1. mishaps' # 0
    BY <1>1 DEF NoticesInv, NoticesTyped
  <2> QED
    BY <1>1, <1>4, <2>1, CopiesWhenQuiet DEF NoticesInv, Digesting
<1>10. RemindersInv'
  BY RemindersWhenKilled DEF NoticesInv
<1> QED
  BY <1>7, <1>8, <1>9, <1>10 DEF NoticesInv

LEMMA ReminderKeeps ==
    ASSUME NoticesInv, NEW w \in Workers,
           \/ ListReminders(w) \/ SayReminder(w) \/ MarkReminder(w)
           \/ \E r \in Reminders : TakeReminder(w, r)
    PROVE  NoticesInv'
PROOF
<1> DEFINE t == task[w]
<1>1. /\ UNCHANGED <<today, posted, noticeLock, chat, copies, mishaps, overrun>>
      /\ t.step \in {"idle", "say", "mark", "remind"}
  BY DEF ListReminders, SayReminder, MarkReminder, TakeReminder, At
<1>2. reminded' \in [Reminders -> Nat]
  <2>1. CASE SayReminder(w)
    <3>1. /\ t.title \in Reminders /\ reminded \in [Reminders -> Nat]
          /\ reminded' = [reminded EXCEPT ![t.title] = @ + 1]
      BY <2>1 DEF SayReminder, At, NoticesInv, NoticesTyped, TaskSound
    <3> QED
      BY <3>1
  <2>2. CASE ~SayReminder(w)
    BY <2>2 DEF ListReminders, MarkReminder, TakeReminder, NoticesInv, NoticesTyped, reminderVars
  <2> QED
    BY <2>1, <2>2
<1>3. t.step \in {"say", "mark"} => t.title \in Reminders
  BY DEF NoticesInv, NoticesTyped, TaskSound
<1>4. t.step \in {"remind", "say", "mark"} => t.todo \subseteq Reminders
  BY DEF NoticesInv, NoticesTyped, TaskSound
<1>5. PICK step, kind, title, todo :
        /\ step \in {"say", "mark", "remind"} /\ Becomes(w, step, kind, title, todo)
        /\ step \in {"say", "mark"} => title \in Reminders
        /\ todo \subseteq Reminders
  <2>1. CASE ListReminders(w)
    BY <2>1, ReminderMoves DEF NoticesInv, NoticesTyped
  <2>2. CASE SayReminder(w)
    <3>1. t.step = "say" /\ Goto(w, "mark")
      BY <2>2 DEF SayReminder, At
    <3>2. Becomes(w, "mark", t.kind, t.title, t.todo)
      BY <3>1, TaskMoves DEF NoticesInv, NoticesTyped
    <3> QED
      BY <1>3, <1>4, <3>1, <3>2
  <2>3. CASE MarkReminder(w)
    <3>1. Becomes(w, "remind", t.kind, 0, t.todo)
      BY <2>3, ReminderMoves DEF NoticesInv, NoticesTyped
    <3>2. t.step = "mark"
      BY <2>3 DEF MarkReminder, At
    <3> QED
      BY <1>4, <3>1, <3>2
  <2>4. ASSUME NEW r \in Reminders, TakeReminder(w, r)
        PROVE  \E step, kind, title, todo :
                 /\ step \in {"say", "mark", "remind"} /\ Becomes(w, step, kind, title, todo)
                 /\ step \in {"say", "mark"} => title \in Reminders
                 /\ todo \subseteq Reminders
    <3>1. IF StillDue(r) THEN Becomes(w, "say", t.kind, r, t.todo \ {r})
          ELSE Becomes(w, "remind", t.kind, t.title, t.todo \ {r})
      BY <2>4, ReminderMoves DEF NoticesInv, NoticesTyped
    <3>2. t.step = "remind"
      BY <2>4 DEF TakeReminder, At
    <3> QED
      BY <1>4, <3>1, <3>2
  <2> QED
    BY <2>1, <2>2, <2>3, <2>4
<1>6. TaskSound([step |-> step, kind |-> kind, title |-> title, todo |-> todo])
  BY <1>5 DEF TaskSound, AtNotice
<1>7. NoticesTyped' /\ LocksKept' /\ NoticesCovered'
  <2>1. copies' \in [Subscribers \X Dates -> Nat]
    BY <1>1 DEF NoticesInv, NoticesTyped
  <2> QED
    BY <1>1, <1>2, <1>5, <1>6, <2>1, QuietStep DEF AtNotice
<1>8. task'[w].step \in {"say", "mark", "remind"} /\ \A x \in Workers \ {w} : task'[x] = task[x]
  BY <1>5 DEF Becomes
<1>9. CopiesInv'
  BY <1>1, <1>8, CopiesWhenQuiet DEF NoticesInv, Digesting
<1>10. RemindersInv'
  <2>1. CASE ListReminders(w)
    <3>1. /\ UNCHANGED reminderVars /\ t.step = "idle"
          /\ Becomes(w, "remind", "none", 0, Reminders \ delivered)
      BY <2>1, ReminderMoves DEF ListReminders, At, NoticesInv, NoticesTyped
    <3>2. task'[w].step = "remind"
      BY <3>1 DEF Becomes
    <3> QED
      BY <1>8, <3>1, <3>2, RemindersWhenQuiet DEF NoticesInv
  <2> QED
    BY <2>1, RemindersWhenSaid, RemindersWhenTaken DEF NoticesInv
<1> QED
  BY <1>7, <1>9, <1>10 DEF NoticesInv

LEMMA LeaseKeeps ==
    ASSUME NoticesInv, NEW l \in Locks, LeaseEnds(l)
    PROVE  NoticesInv'
PROOF
<1>1. /\ noticeLock' = [noticeLock EXCEPT ![l] = "free"]
      /\ UNCHANGED <<today, posted, task, chat, copies, delivered, reminded, disturbed>>
      /\ \/ noticeLock[l] = "dead" /\ UNCHANGED <<mishaps, overrun>>
         \/ mishaps' = mishaps + 1 /\ overrun' = TRUE
  BY DEF LeaseEnds
<1>2. NoticesTyped'
  <2>1. noticeLock' \in [Locks -> Workers \cup {"free", "dead"}]
    BY <1>1 DEF NoticesInv, NoticesTyped
  <2>2. TasksShaped' /\ \A w \in Workers : TaskSound(task'[w])
    <3>1. TasksShaped /\ task' = task /\ \A w \in Workers : TaskSound(task[w])
      BY <1>1 DEF NoticesInv, NoticesTyped
    <3>2. TasksShaped'
      BY <3>1 DEF TasksShaped
    <3> QED
      BY <3>1, <3>2
  <2>3. mishaps' \in Nat /\ overrun' \in BOOLEAN
    <3>1. mishaps \in Nat /\ overrun \in BOOLEAN
      BY DEF NoticesInv, NoticesTyped
    <3>2. mishaps' = mishaps \/ mishaps' = mishaps + 1
      BY <1>1
    <3>3. overrun' = overrun \/ overrun' = TRUE
      BY <1>1
    <3>4. overrun' \in BOOLEAN
      BY <3>1, <3>3, Zenon
    <3> QED
      BY <3>1, <3>2, <3>4
  <2> QED
    BY <1>1, <2>1, <2>2, <2>3 DEF NoticesInv, NoticesTyped
<1>3. LocksKept'
  <2>1. ASSUME NEW k \in Locks, noticeLock'[k] \in Workers
        PROVE  task[noticeLock'[k]].step \in AtNotice /\ LockOf(task[noticeLock'[k]]) = k
    <3>1. noticeLock'[k] = noticeLock[k]
      BY <1>1, <2>1, NoticesAssumption DEF NoticesInv, NoticesTyped
    <3> QED
      BY <2>1, <3>1 DEF NoticesInv, LocksKept
  <2>2. ASSUME ~overrun', NEW x \in Workers, task[x].step \in AtNotice
        PROVE  noticeLock'[LockOf(task[x])] = x
    <3>1. noticeLock[LockOf(task[x])] = x /\ noticeLock[l] = "dead"
      BY <1>1, <2>2 DEF NoticesInv, LocksKept
    <3>2. LockOf(task[x]) # l
      BY <3>1, NoticesAssumption
    <3> QED
      BY <1>1, <3>1, <3>2 DEF NoticesInv, NoticesTyped
  <2>3. mishaps' = 0 => ~overrun'
    BY <1>1 DEF NoticesInv, NoticesTyped, LocksKept
  <2> QED
    BY <1>1, <2>1, <2>2, <2>3 DEF LocksKept
<1>4. NoticesCovered'
  BY CoveredWhenLeaseEnds DEF NoticesInv, NoticesCovered
<1>5. CopiesInv'
  <2>1. (~overrun' => ~overrun) /\ (mishaps' = 0 => mishaps = 0)
    BY <1>1 DEF NoticesInv, NoticesTyped
  <2>2. CopiesInOrder => CopiesInOrder'
    BY <1>1 DEF CopiesInOrder, Digesting
  <2>3. CopiesComplete => CopiesComplete'
    BY <1>1 DEF CopiesComplete, Digesting
  <2> QED
    BY <2>1, <2>2, <2>3 DEF NoticesInv, CopiesInv
<1>6. RemindersInv'
  BY <1>1 DEF NoticesInv, RemindersInv, InHand
<1> QED
  BY <1>2, <1>3, <1>4, <1>5, <1>6 DEF NoticesInv

LEMMA MidnightKeeps == NoticesInv /\ Midnight => NoticesInv'
PROOF
<1> SUFFICES ASSUME NoticesInv, Midnight PROVE NoticesInv'
  OBVIOUS
<1>1. /\ today' \in Dates
      /\ UNCHANGED <<posted, noticeLock, task, chat, copies, reminderVars, mishaps, overrun>>
  BY NoticesAssumption DEF Midnight, NoticesInv, NoticesTyped, Dates
<1>2. NoticesTyped'
  BY <1>1 DEF NoticesInv, NoticesTyped, TasksShaped, reminderVars
<1>3. LocksKept'
  BY <1>1 DEF NoticesInv, LocksKept
<1>4. NoticesCovered'
  <2>1. ASSUME NEW k \in Kinds, NEW d \in Dates
        PROVE  Coming(k, d)' = Coming(k, d) /\ Opening(k, d)' = Opening(k, d)
    BY <1>1 DEF Coming, Opening, HasHolder, Of
  <2> QED
    BY <1>1, <2>1 DEF NoticesInv, NoticesCovered, Covered
<1>5. CopiesInv'
  BY <1>1 DEF NoticesInv, CopiesInv, CopiesInOrder, CopiesComplete, Digesting
<1>6. RemindersInv'
  BY <1>1 DEF NoticesInv, RemindersInv, InHand, reminderVars
<1> QED
  BY <1>2, <1>3, <1>4, <1>5, <1>6 DEF NoticesInv

LEMMA NoticesStart == NoticesInit => NoticesInv
PROOF
<1> SUFFICES ASSUME NoticesInit PROVE NoticesInv
  OBVIOUS
<1> USE DEF NoticesInit
<1>1. \A w \in Workers : task[w] = NoTask /\ Shaped(task[w]) /\ task[w].step = "idle"
  BY NoTaskShaped
<1>2. NoticesTyped
  <2>1. today \in Dates
    BY NoticesAssumption DEF Dates
  <2>2. TasksShaped
    BY <1>1 DEF TasksShaped
  <2>3. \A w \in Workers : TaskSound(task[w])
    BY <1>1 DEF TaskSound, AtNotice
  <2> QED
    BY <2>1, <2>2, <2>3 DEF NoticesTyped
<1>3. LocksKept
  BY <1>1, NoticesAssumption DEF LocksKept, AtNotice
<1>4. NoticesCovered
  <2> SUFFICES ASSUME NEW k \in Kinds, NEW d \in Dates PROVE Covered(k, d)
    BY DEF NoticesCovered
  <2>1. Coming(k, d) = {} /\ Cardinality({}) = 0
    BY <1>1, FS_EmptySet DEF Coming
  <2>2. PICK o \in {0, 1} : o = Opening(k, d)
    BY OpeningNumber
  <2>3. chat[<<k, d>>] = 0
    OBVIOUS
  <2> QED
    BY <2>1, <2>2, <2>3 DEF Covered
<1>5. CopiesInv
  BY <1>1 DEF CopiesInv, CopiesInOrder, CopiesComplete, Digesting
<1>6. RemindersInv
  BY <1>1 DEF RemindersInv, InHand
<1> QED
  BY <1>2, <1>3, <1>4, <1>5, <1>6 DEF NoticesInv

LEMMA NoticesStep == NoticesInv /\ [NoticesNext]_noticeVars => NoticesInv'
PROOF
<1> SUFFICES ASSUME NoticesInv, [NoticesNext]_noticeVars PROVE NoticesInv'
  OBVIOUS
<1>1. CASE Midnight
  BY <1>1, MidnightKeeps
<1>2. ASSUME NEW k \in Locks, LeaseEnds(k) PROVE NoticesInv'
  BY <1>2, LeaseKeeps
<1>3. ASSUME NEW w \in Workers, NEW k \in Kinds, TriggerNotice(w, k) PROVE NoticesInv'
  BY <1>3, TriggerKeeps
<1>4. ASSUME NEW w \in Workers, LockBusy(w) \/ EndUsers(w) \/ EndReminders(w) PROVE NoticesInv'
  <2>1. /\ EndTask(w)
        /\ task[w].step \in {"lock", "remind"} \/ (task[w].step = "users" /\ task[w].todo = {})
        /\ UNCHANGED <<today, posted, noticeLock, chat, copies, reminderVars, mishaps, overrun>>
    BY <1>4 DEF LockBusy, EndUsers, EndReminders, At
  <2> QED
    BY <2>1, OverKeeps
<1>5. ASSUME NEW w \in Workers,
             \/ TakeLock(w) \/ LookForRow(w) \/ PostRow(w) \/ NoticeRaises(w) \/ WorkerDies(w)
             \/ \E accepted \in BOOLEAN : SendToChat(w, accepted)
             \/ \E u \in Subscribers : SendCopy(w, u)
      PROVE  NoticesInv'
  BY <1>5, TakeLockKeeps, LookKeeps, PostKeeps, RaiseKeeps, DeathKeeps, SendKeeps, CopyKeeps
<1>6. ASSUME NEW w \in Workers,
             \/ ListReminders(w) \/ SayReminder(w) \/ MarkReminder(w)
             \/ \E r \in Reminders : TakeReminder(w, r)
      PROVE  NoticesInv'
  BY <1>6, ReminderKeeps
<1>7. CASE UNCHANGED noticeVars
  <2>1. UNCHANGED <<today, posted, noticeLock, task, chat, copies, delivered, reminded,
                    disturbed, mishaps, overrun>>
    BY <1>7 DEF noticeVars
  <2>2. NoticesTyped' /\ LocksKept'
    BY <2>1 DEF NoticesInv, NoticesTyped, TasksShaped, LocksKept
  <2>3. NoticesCovered'
    <3>1. ASSUME NEW k \in Kinds, NEW d \in Dates
          PROVE  Coming(k, d)' = Coming(k, d) /\ Opening(k, d)' = Opening(k, d)
      BY <2>1 DEF Coming, Opening, HasHolder, Of
    <3> QED
      BY <2>1, <3>1 DEF NoticesInv, NoticesCovered, Covered
  <2>4. CopiesInv' /\ RemindersInv'
    BY <2>1 DEF NoticesInv, CopiesInv, CopiesInOrder, CopiesComplete, Digesting, RemindersInv, InHand
  <2> QED
    BY <2>2, <2>3, <2>4 DEF NoticesInv
<1> QED
  BY <1>1, <1>2, <1>3, <1>4, <1>5, <1>6, <1>7 DEF NoticesNext

LEMMA NoticesInvSays == NoticesInv => NoticesRepeatOnlyAfterFaults
PROOF
<1> SUFFICES ASSUME NoticesInv PROVE NoticesRepeatOnlyAfterFaults
  OBVIOUS
<1>1. ASSUME NEW k \in Kinds, NEW d \in Dates PROVE chat[<<k, d>>] <= 1 + mishaps
  <2>1. IsFiniteSet(Coming(k, d))
    BY NoticesAssumption, FS_Subset DEF Coming
  <2>2. PICK c \in Nat, n \in Nat, o \in {0, 1} :
          c = chat[<<k, d>>] /\ n = Cardinality(Coming(k, d)) /\ o = Opening(k, d)
    BY <2>1, FS_CardinalityType, OpeningNumber DEF NoticesInv, NoticesTyped
  <2>3. c + n + o <= 1 + mishaps /\ mishaps \in Nat
    BY <2>2 DEF NoticesInv, NoticesCovered, Covered, NoticesTyped
  <2> QED
    BY <2>2, <2>3
<1>2. ASSUME NEW u \in Subscribers, NEW d \in Dates
      PROVE  /\ ~overrun => copies[<<u, d>>] <= 1
             /\ (/\ <<"digest", d>> \in posted /\ mishaps = 0
                 /\ \A w \in Workers : At(w, "users") => task[w].title # d)
                => copies[<<u, d>>] = 1
  <2>1. ~overrun => copies[<<u, d>>] <= 1
    BY DEF NoticesInv, CopiesInv, CopiesInOrder
  <2>2. mishaps = 0 /\ <<"digest", d>> \in posted =>
          \/ copies[<<u, d>>] = 1
          \/ \E w \in Workers : At(w, "users") /\ task[w].title = d
    BY DEF NoticesInv, CopiesInv, CopiesComplete, Digesting, At
  <2> QED
    BY <2>1, <2>2
<1>3. ASSUME NEW r \in Reminders
      PROVE  (r \notin disturbed => reminded[r] <= 1) /\ (r \in delivered => reminded[r] >= 1)
  BY DEF NoticesInv, RemindersInv
<1> QED
  BY <1>1, <1>2, <1>3 DEF NoticesRepeatOnlyAfterFaults

\* A second copy of a digest, a session notice or a reminder has a fault behind
\* it, and without faults everybody got their own (send_daily_digest,
\* send_market_session_notification, deliver_admin_reminders), for any workers,
\* subscribers, reminders and dates.
THEOREM NoticesPaidFor == NoticesSpec => []NoticesRepeatOnlyAfterFaults
PROOF
<1>1. NoticesSpec => []NoticesInv
  BY NoticesStart, NoticesStep, PTL DEF NoticesSpec
<1> QED
  BY <1>1, NoticesInvSays, PTL


(***************************************************************************)
(* The calendar.                                                           *)
(***************************************************************************)
LEMMA NextIsFirst ==
    ASSUME NEW d \in Nat, \E e \in (d + 1)..(d + LookAhead) : ~NoTrading(e)
    PROVE  /\ NextTradingDay(d) \in Nat
           /\ NextTradingDay(d) \in (d + 1)..(d + LookAhead)
           /\ ~NoTrading(NextTradingDay(d))
           /\ \A e \in (d + 1)..(NextTradingDay(d) - 1) : NoTrading(e)
PROOF
<1> DEFINE open == {e \in (d + 1)..(d + LookAhead) : ~NoTrading(e)}
<1>1. open \subseteq Nat /\ open # {}
  BY DEF LookAhead
<1>2. NextTradingDay(d) = Min(open)
  BY <1>1 DEF NextTradingDay
<1>3. Min(open) \in open /\ \A e \in open : Min(open) <= e
  <2> HIDE DEF open
  <2> QED
    BY <1>1, Smallest
<1>4. ASSUME NEW e \in (d + 1)..(Min(open) - 1) PROVE NoTrading(e)
  <2>1. Min(open) \in Nat /\ Min(open) <= d + LookAhead
    BY <1>1, <1>3 DEF LookAhead
  <2>2. e < Min(open) /\ e \in (d + 1)..(d + LookAhead)
    BY <2>1 DEF LookAhead
  <2>3. e \in Nat
    OBVIOUS
  <2>4. e \notin open
    <3>1. Min(open) <= e => FALSE
      BY <2>1, <2>2, <2>3
    <3> QED
      BY <1>3, <3>1
  <2> QED
    BY <2>2, <2>4
<1> HIDE DEF open
<1>5. Min(open) \in Nat
  BY <1>1, <1>3
<1>6. Min(open) \in (d + 1)..(d + LookAhead) /\ ~NoTrading(Min(open))
  BY <1>3 DEF open
<1> QED
  BY <1>2, <1>4, <1>5, <1>6

\* What the pages announce is the first change.
LEMMA NextIsChange ==
    ASSUME NEW d \in Nat, NEW h \in Hours,
           \E e \in (d + 1)..(d + LookAhead) : ~NoTrading(e)
    PROVE  LET next == NextEvent(d, h) IN
           /\ IsOpen(next.day, next.hour) # IsOpen(d, h)
           /\ \A e \in d..next.day, g \in Hours :
                Moment(e, g) \in Moment(d, h)..(Moment(next.day, next.hour) - 1)
                  => (IsOpen(e, g) <=> IsOpen(d, h))
PROOF
<1> DEFINE next == NextEvent(d, h)
<1>1. \A e \in Nat : /\ Moment(e, "before") = 3 * e
                     /\ Moment(e, "session") = 3 * e + 1
                     /\ Moment(e, "after") = 3 * e + 2
  BY DEF Moment
<1>2. \A g \in Hours : g = "before" \/ g = "session" \/ g = "after"
  BY DEF Hours
<1>3. CASE IsOpen(d, h)
  <2>1. h = "session" /\ ~NoTrading(d)
    BY <1>3 DEF IsOpen
  <2>2. next.day = d /\ next.hour = "after"
    BY <1>3 DEF NextEvent
  <2>3. ~IsOpen(next.day, next.hour)
    BY <2>2 DEF IsOpen
  <2>4. ASSUME NEW e \in d..next.day, NEW g \in Hours,
               Moment(e, g) \in Moment(d, h)..(Moment(next.day, next.hour) - 1)
        PROVE  IsOpen(e, g)
    <3>1. e = d
      BY <2>2
    <3>2. Moment(d, g) >= 3 * d + 1 /\ Moment(d, g) < 3 * d + 2
      <4>1. Moment(next.day, next.hour) = 3 * d + 2 /\ Moment(d, h) = 3 * d + 1
        BY <1>1, <2>1, <2>2
      <4> HIDE DEF next
      <4> QED
        BY <2>4, <3>1, <4>1
    <3>3. g = "session"
      <4>1. /\ Moment(d, "before") = 3 * d /\ Moment(d, "after") = 3 * d + 2
        BY <1>1
      <4>2. g # "before" /\ g # "after"
        BY <3>2, <4>1
      <4> QED
        BY <1>2, <4>2
    <3> QED
      BY <1>3, <2>1, <3>1, <3>3
  <2> QED
    BY <1>3, <2>3, <2>4
<1>4. CASE ~IsOpen(d, h) /\ ~NoTrading(d) /\ h = "before"
  <2>1. next.day = d /\ next.hour = "session"
    BY <1>4 DEF NextEvent
  <2>2. IsOpen(next.day, next.hour)
    BY <1>4, <2>1 DEF IsOpen
  <2>3. ASSUME NEW e \in d..next.day, NEW g \in Hours,
               Moment(e, g) \in Moment(d, h)..(Moment(next.day, next.hour) - 1)
        PROVE  ~IsOpen(e, g)
    <3>1. e = d
      BY <2>1
    <3>2. Moment(d, g) < 3 * d + 1
      <4>1. Moment(next.day, next.hour) = 3 * d + 1 /\ Moment(d, h) = 3 * d
        BY <1>1, <1>4, <2>1
      <4> HIDE DEF next
      <4> QED
        BY <2>3, <3>1, <4>1
    <3>3. g = "before"
      <4>1. /\ Moment(d, "session") = 3 * d + 1 /\ Moment(d, "after") = 3 * d + 2
        BY <1>1
      <4>2. g # "session" /\ g # "after"
        BY <3>2, <4>1
      <4> QED
        BY <1>2, <4>2
    <3> QED
      BY <3>3 DEF IsOpen
  <2> QED
    BY <1>4, <2>2, <2>3
<1>5. CASE ~IsOpen(d, h) /\ ~(~NoTrading(d) /\ h = "before")
  <2>1. next.day = NextTradingDay(d) /\ next.hour = "session"
    BY <1>5 DEF NextEvent
  <2>2. /\ next.day \in Nat /\ next.day >= d + 1 /\ ~NoTrading(next.day)
        /\ \A e \in (d + 1)..(next.day - 1) : NoTrading(e)
    <3>1. /\ NextTradingDay(d) \in Nat
          /\ NextTradingDay(d) \in (d + 1)..(d + LookAhead)
          /\ ~NoTrading(NextTradingDay(d))
          /\ \A e \in (d + 1)..(NextTradingDay(d) - 1) : NoTrading(e)
      BY NextIsFirst
    <3> QED
      BY <2>1, <3>1 DEF LookAhead
  <2>3. IsOpen(next.day, next.hour)
    BY <2>1, <2>2 DEF IsOpen
  <2>4. ASSUME NEW e \in d..next.day, NEW g \in Hours,
               Moment(e, g) \in Moment(d, h)..(Moment(next.day, next.hour) - 1),
               IsOpen(e, g)
        PROVE  FALSE
    <3> HIDE DEF next
    <3>1. g = "session" /\ ~NoTrading(e)
      BY <2>4 DEF IsOpen
    <3>2. e \in Nat /\ e < next.day
      BY <1>1, <2>1, <2>2, <2>4, <3>1
    <3>3. e = d
      BY <2>2, <3>1, <3>2
    <3>4. h = "after"
      BY <1>2, <1>5, <3>1, <3>3 DEF IsOpen
    <3> QED
      BY <1>1, <2>4, <3>1, <3>3, <3>4
  <2> QED
    BY <1>5, <2>3, <2>4
<1> QED
  BY <1>3, <1>4, <1>5

-----------------------------------------------------------------------------
ForecastTyped ==
    /\ due = [asOf |-> due.asOf, target |-> due.target, bar |-> due.bar,
              settled |-> due.settled, blind |-> due.blind]
    /\ due.asOf \in Int /\ due.target \in Int
    /\ due # NoForecastYet => due.asOf < due.target

CalendarTyped == sessionDay \in Nat /\ hour \in Hours /\ ForecastTyped

\* What a complete sync has read is in the table.
SyncedKnows ==
    upToDate => \A i \in DOMAIN page : ~page[i].readable \/ \A e \in page[i].days : NoTrading(e)

\* The target is the first session after the forecast was made.
TargetRight ==
    trusted /\ due # NoForecastYet /\ ~due.blind =>
      ~Shut(due.target) /\ \A d \in (due.asOf + 1)..(due.target - 1) : Shut(d)

CalendarInv == CalendarTyped /\ SyncedKnows /\ (trusted => Agreed) /\ TargetRight

LEMMA CalendarStarts == CalendarInit => CalendarInv
PROOF
<1> SUFFICES ASSUME CalendarInit PROVE CalendarInv
  OBVIOUS
<1>1. due.asOf = -1 /\ due.target = -1 /\ due = NoForecastYet
  BY DEF CalendarInit, NoForecastYet
<1>2. CalendarTyped
  BY <1>1 DEF CalendarInit, CalendarTyped, ForecastTyped, NoForecastYet, Hours
<1>3. Agreed
  BY <1>1 DEF Agreed
<1> QED
  BY <1>1, <1>2, <1>3 DEF CalendarInv, CalendarInit, SyncedKnows, TargetRight

\* While table and exchange agree, a day of the forecast is without trading in
\* both or in neither.
LEMMA AgreedDays ==
    ASSUME Agreed, NEW d \in (due.asOf + 1)..due.target
    PROVE  NoTrading(d) <=> Shut(d)
PROOF BY DEF Agreed, NoTrading, Shut

\* A change of the table or of the page alone that leaves them agreed changes
\* nothing about the days of the forecast.
LEMMA TargetKept ==
    ASSUME CalendarInv, holiday' = holiday \/ page' = page,
           due'.asOf = due.asOf, due'.target = due.target, due'.blind = due.blind,
           due # NoForecastYet, trusted, Agreed'
    PROVE  TargetRight'
PROOF
<1>1. due.asOf \in Int /\ due.target \in Int /\ due.asOf < due.target
  BY DEF CalendarInv, CalendarTyped, ForecastTyped
<1>2. ASSUME NEW d \in (due.asOf + 1)..due.target PROVE Shut(d)' <=> Shut(d)
  <2>1. ~IsWeekend(d) => (d \in DOMAIN holiday <=> Shut(d))
    BY DEF CalendarInv, Agreed
  <2>2. ~IsWeekend(d) => (d \in DOMAIN holiday' <=> Shut(d)')
    BY DEF Agreed
  <2>3. IsWeekend(d) => Shut(d) /\ Shut(d)'
    BY DEF Shut
  <2>4. page' = page => (Shut(d)' <=> Shut(d))
    BY DEF Shut
  <2> QED
    BY <2>1, <2>2, <2>3, <2>4
<1>3. due.target \in (due.asOf + 1)..due.target
  BY <1>1
<1>4. \A d \in (due.asOf + 1)..(due.target - 1) : d \in (due.asOf + 1)..due.target
  BY <1>1
<1>5. ~due.blind => ~Shut(due.target) /\ \A d \in (due.asOf + 1)..(due.target - 1) : Shut(d)
  BY DEF CalendarInv, TargetRight
<1>6. ~due.blind => ~Shut(due.target)' /\ \A d \in (due.asOf + 1)..(due.target - 1) : Shut(d)'
  BY <1>2, <1>3, <1>4, <1>5
<1> QED
  BY <1>6 DEF TargetRight

LEMMA CalendarTypeKept ==
    ASSUME CalendarInv, CalendarNext
    PROVE  /\ CalendarTyped'
           /\ \/ due'.asOf = due.asOf /\ due'.target = due.target /\ due'.blind = due.blind
              \/ due = NoForecastYet /\ ForecastNext
           /\ due' # NoForecastYet => due # NoForecastYet \/ ForecastNext
PROOF
<1>1. CalendarTyped
  BY DEF CalendarInv
<1>2. PICK r : r = due
  OBVIOUS
<1>3. ASSUME NEW t, NEW b, due' = [asOf |-> due.asOf, target |-> due.target, bar |-> b,
                                    settled |-> t, blind |-> due.blind]
      PROVE  /\ due'.asOf = due.asOf /\ due'.target = due.target /\ due'.blind = due.blind
             /\ due # NoForecastYet => ForecastTyped'
  <2>1. /\ due'.asOf = due.asOf /\ due'.target = due.target /\ due'.blind = due.blind
        /\ due'.bar = b /\ due'.settled = t
    BY <1>3
  <2>2. due' = [asOf |-> due'.asOf, target |-> due'.target, bar |-> due'.bar,
                settled |-> due'.settled, blind |-> due'.blind]
    BY <1>3, <2>1
  <2>3. due # NoForecastYet => due.asOf \in Int /\ due.target \in Int /\ due.asOf < due.target
    BY <1>1 DEF CalendarTyped, ForecastTyped
  <2> QED
    BY <2>1, <2>2, <2>3 DEF ForecastTyped
<1>4. due = [asOf |-> due.asOf, target |-> due.target, bar |-> due.bar,
             settled |-> due.settled, blind |-> due.blind]
  BY <1>1 DEF CalendarTyped, ForecastTyped
<1>5. CASE UNCHANGED <<sessionDay, hour, due>>
  BY <1>1, <1>5 DEF CalendarTyped, ForecastTyped
<1>6. CASE SettleTarget
  <2>1. PICK b : due' = [due EXCEPT !.settled = TRUE, !.bar = b]
    BY <1>6 DEF SettleTarget
  <2>2. due' = [asOf |-> due.asOf, target |-> due.target, bar |-> b,
                settled |-> TRUE, blind |-> due.blind]
    BY <1>4, <2>1
  <2>3. due # NoForecastYet /\ UNCHANGED <<sessionDay, hour>>
    BY <1>6 DEF SettleTarget
  <2> QED
    BY <1>1, <1>3, <2>2, <2>3 DEF CalendarTyped
<1>7. CASE ForecastNext
  <2>1. /\ due = NoForecastYet /\ UNCHANGED <<sessionDay, hour>>
        /\ due' = [NoForecastYet EXCEPT !.asOf = sessionDay, !.target = NextTradingDay(sessionDay),
                     !.blind = \A d \in (sessionDay + 1)..(sessionDay + LookAhead) : NoTrading(d)]
    BY <1>7 DEF ForecastNext
  <2>2. PICK b : b = \A d \in (sessionDay + 1)..(sessionDay + LookAhead) : NoTrading(d)
    OBVIOUS
  <2>3. due' = [NoForecastYet EXCEPT !.asOf = sessionDay, !.target = NextTradingDay(sessionDay),
                  !.blind = b]
    BY <2>1, <2>2
  <2>4. due' = [asOf |-> sessionDay, target |-> NextTradingDay(sessionDay), bar |-> "none",
                settled |-> FALSE, blind |-> b]
    BY <2>3 DEF NoForecastYet
  <2>5. sessionDay \in Nat /\ NextTradingDay(sessionDay) \in Int
        /\ sessionDay < NextTradingDay(sessionDay)
    <3>1. sessionDay \in Nat
      BY <1>1 DEF CalendarTyped
    <3>2. CASE \E e \in (sessionDay + 1)..(sessionDay + LookAhead) : ~NoTrading(e)
      <4>1. NextTradingDay(sessionDay) \in (sessionDay + 1)..(sessionDay + LookAhead)
        BY <3>1, <3>2, NextIsFirst
      <4> QED
        BY <3>1, <4>1 DEF LookAhead
    <3>3. CASE ~\E e \in (sessionDay + 1)..(sessionDay + LookAhead) : ~NoTrading(e)
      <4>1. NextTradingDay(sessionDay) = sessionDay + 2
        BY <3>3 DEF NextTradingDay
      <4> QED
        BY <3>1, <4>1
    <3> QED
      BY <3>2, <3>3
  <2>6. ForecastTyped'
    BY <2>4, <2>5 DEF ForecastTyped
  <2> QED
    BY <1>1, <1>7, <2>1, <2>6 DEF CalendarTyped
<1>8. CASE CalendarMoves
  <2>1. sessionDay' \in Nat /\ hour' \in Hours
    BY <1>1, <1>8 DEF CalendarMoves, CalendarTyped, Hours
  <2>2. CASE due' = due
    BY <1>1, <2>1, <2>2 DEF CalendarTyped, ForecastTyped
  <2>3. CASE due' # due
    <3>1. due' = [due EXCEPT !.bar = barToday] /\ due.target = sessionDay
      BY <1>8, <2>3 DEF CalendarMoves
    <3>2. due' = [asOf |-> due.asOf, target |-> due.target, bar |-> barToday,
                  settled |-> due.settled, blind |-> due.blind]
      BY <1>4, <3>1
    <3>3. due # NoForecastYet
      BY <1>1, <3>1 DEF CalendarTyped, NoForecastYet
    <3> QED
      BY <1>3, <2>1, <3>2, <3>3 DEF CalendarTyped
  <2> QED
    BY <2>2, <2>3
<1> QED
  BY <1>5, <1>6, <1>7, <1>8 DEF CalendarNext, SyncHolidays, LiveQuotes, EnterHoliday,
                              DeleteHoliday, Revise

LEMMA SyncedKept ==
    ASSUME CalendarInv, CalendarNext
    PROVE  SyncedKnows'
PROOF
<1>1. SyncedKnows
  BY DEF CalendarInv
<1>2. CASE page' = page /\ (upToDate' => upToDate) /\ DOMAIN holiday \subseteq DOMAIN holiday'
  BY <1>1, <1>2 DEF SyncedKnows, NoTrading
<1>3. CASE SyncHolidays
  <2>1. PICK written \in {{}, Listed, {d \in Listed : \E e \in Listed : e > d}} :
          /\ holiday' = [d \in DOMAIN holiday \cup written |->
                           IF d \in written THEN NameOf(d) ELSE holiday[d]]
          /\ upToDate' = (upToDate \/ (Entries # {} /\ written = Listed))
          /\ page' = page
    BY <1>3 DEF SyncHolidays
  <2>2. DOMAIN holiday' = DOMAIN holiday \cup written
    BY <2>1
  <2>3. CASE upToDate
    BY <1>1, <2>1, <2>2, <2>3 DEF SyncedKnows, NoTrading
  <2>4. CASE upToDate' /\ ~upToDate
    <3>1. Listed \subseteq DOMAIN holiday'
      BY <2>1, <2>2, <2>4
    <3>2. ASSUME NEW i \in DOMAIN page, page[i].readable, NEW e \in page[i].days
          PROVE  IsWeekend(e) \/ e \in DOMAIN holiday'
      <4>1. i \in Entries
        BY <3>2 DEF Entries
      <4>2. e \in UNION {page[j].days : j \in Entries}
        BY <3>2, <4>1
      <4>3. IsWeekend(e) \/ e \in Listed
        BY <4>2 DEF Listed
      <4> QED
        BY <3>1, <4>3
    <3> QED
      BY <2>1, <3>2 DEF SyncedKnows, NoTrading
  <2> QED
    BY <2>3, <2>4 DEF SyncedKnows
<1>4. CASE upToDate' = FALSE
  BY <1>4 DEF SyncedKnows
<1>5. CASE \E d \in sessionDay..CalendarDays : EnterHoliday(d)
  <2>1. DOMAIN holiday \subseteq DOMAIN holiday' /\ page' = page /\ upToDate' = upToDate
    BY <1>5 DEF EnterHoliday
  <2> QED
    BY <1>2, <2>1
<1>6. CASE LiveQuotes \/ SettleTarget \/ ForecastNext \/ CalendarMoves
  <2>1. holiday' = holiday /\ page' = page /\ upToDate' = upToDate
    BY <1>6 DEF LiveQuotes, SettleTarget, ForecastNext, CalendarMoves
  <2> QED
    BY <1>2, <2>1
<1>7. CASE (\E d \in DOMAIN holiday : DeleteHoliday(d)) \/ (\E p \in HolidayPages : Revise(p))
  BY <1>4, <1>7 DEF DeleteHoliday, Revise
<1> QED
  BY <1>3, <1>5, <1>6, <1>7 DEF CalendarNext

LEMMA TargetStays ==
    ASSUME CalendarInv, CalendarNext
    PROVE  TargetRight'
PROOF
<1> SUFFICES ASSUME trusted', due' # NoForecastYet, ~due'.blind PROVE TargetRight'
  BY DEF TargetRight
<1>1. trusted /\ Agreed'
  BY DEF CalendarNext
<1>2. CASE ForecastNext
  <2>1. sessionDay \in Nat
    BY DEF CalendarInv, CalendarTyped
  <2>2. PICK b : b = \A d \in (sessionDay + 1)..(sessionDay + LookAhead) : NoTrading(d)
    OBVIOUS
  <2>3. due' = [NoForecastYet EXCEPT !.asOf = sessionDay, !.target = NextTradingDay(sessionDay),
                  !.blind = b]
    BY <1>2, <2>2 DEF ForecastNext
  <2>4. due'.asOf = sessionDay /\ due'.target = NextTradingDay(sessionDay) /\ due'.blind = b
    BY <2>3 DEF NoForecastYet
  <2>5. \E e \in (sessionDay + 1)..(sessionDay + LookAhead) : ~NoTrading(e)
    BY <2>2, <2>4
  <2>6. /\ due'.target \in Nat /\ due'.target >= sessionDay + 1
        /\ ~NoTrading(due'.target)
        /\ \A e \in (sessionDay + 1)..(due'.target - 1) : NoTrading(e)
    <3>1. /\ NextTradingDay(sessionDay) \in Nat
          /\ NextTradingDay(sessionDay) \in (sessionDay + 1)..(sessionDay + LookAhead)
          /\ ~NoTrading(NextTradingDay(sessionDay))
          /\ \A e \in (sessionDay + 1)..(NextTradingDay(sessionDay) - 1) : NoTrading(e)
      BY <2>1, <2>5, NextIsFirst
    <3> QED
      BY <2>1, <2>4, <3>1 DEF LookAhead
  <2>7. page' = page /\ holiday' = holiday
    BY <1>2 DEF ForecastNext
  <2>8. ASSUME NEW d \in (sessionDay + 1)..due'.target PROVE NoTrading(d) <=> Shut(d)'
    <3>1. ~IsWeekend(d) => (d \in DOMAIN holiday <=> Shut(d)')
      BY <1>1, <2>4, <2>7 DEF Agreed
    <3> QED
      BY <3>1 DEF NoTrading, Shut
  <2>9. due'.target \in (sessionDay + 1)..due'.target
    BY <2>1, <2>6
  <2>10. \A d \in (sessionDay + 1)..(due'.target - 1) : d \in (sessionDay + 1)..due'.target
    BY <2>1, <2>6
  <2>11. ~Shut(due.target)' /\ \A d \in (sessionDay + 1)..(due'.target - 1) : Shut(d)'
    <3>1. PICK t : t = due'.target
      OBVIOUS
    <3>2. ~Shut(t)' /\ \A d \in (sessionDay + 1)..(t - 1) : Shut(d)'
      BY <2>6, <2>8, <2>9, <2>10, <3>1
    <3> QED
      BY <3>1, <3>2
  <2> QED
    BY <2>4, <2>11 DEF TargetRight
<1>3. CASE ~ForecastNext
  <2>1. /\ due # NoForecastYet
        /\ due'.asOf = due.asOf /\ due'.target = due.target /\ due'.blind = due.blind
    BY <1>3, CalendarTypeKept
  <2>2. holiday' = holiday \/ page' = page
    BY DEF CalendarNext, SyncHolidays, LiveQuotes, SettleTarget, ForecastNext, CalendarMoves,
           EnterHoliday, DeleteHoliday, Revise
  <2> QED
    BY <1>1, <2>1, <2>2, TargetKept
<1> QED
  BY <1>2, <1>3

LEMMA CalendarKept == CalendarInv /\ [CalendarNext]_calendarVars => CalendarInv'
PROOF
<1> SUFFICES ASSUME CalendarInv, [CalendarNext]_calendarVars PROVE CalendarInv'
  OBVIOUS
<1>1. CASE UNCHANGED calendarVars
  BY <1>1 DEF calendarVars, CalendarInv, CalendarTyped, ForecastTyped, SyncedKnows, TargetRight,
              Agreed, NoTrading, Shut
<1>2. CASE CalendarNext
  <2>1. trusted' => Agreed'
    BY <1>2 DEF CalendarNext
  <2> QED
    BY <1>2, <2>1, CalendarTypeKept, SyncedKept, TargetStays DEF CalendarInv
<1> QED
  BY <1>1, <1>2

\* For any pages, days and revisions: a complete sync knows every closure that
\* was announced; what the pages say happens next is the first change; and while
\* table and exchange agree, a forecast's target is the first session after it
\* was made (trading_calendar.py, market_hours.py, holiday_sync.py).
THEOREM CalendarCorrect == CalendarSpec => []CalendarServes
PROOF
<1>1. CalendarInv => CalendarServes
  <2> SUFFICES ASSUME CalendarInv PROVE CalendarServes
    OBVIOUS
  <2> DEFINE next == NextEvent(sessionDay, hour)
  <2>1. sessionDay \in Nat /\ hour \in Hours
    BY DEF CalendarInv, CalendarTyped
  <2>2. (\E d \in (sessionDay + 1)..(sessionDay + LookAhead) : ~NoTrading(d)) =>
          /\ IsOpen(next.day, next.hour) # IsOpen(sessionDay, hour)
          /\ \A d \in sessionDay..next.day, h \in Hours :
               Moment(d, h) \in Moment(sessionDay, hour)..(Moment(next.day, next.hour) - 1)
                 => (IsOpen(d, h) <=> IsOpen(sessionDay, hour))
    BY <2>1, NextIsChange
  <2>3. SyncedKnows /\ TargetRight
    BY DEF CalendarInv
  <2> QED
    BY <2>2, <2>3 DEF CalendarServes, SyncedKnows, TargetRight
<1> QED
  BY <1>1, CalendarStarts, CalendarKept, PTL DEF CalendarSpec

(***************************************************************************)
(* PublishedNotices                                                        *)
(***************************************************************************)
LEMMA FlattenIs ==
    ASSUME NEW S, NEW q \in Seq(Seq(S))
    PROVE  FlattenSeq(q) \in Seq(S)
PROOF
<1>1. CASE Len(q) = 0
  <2>1. q = <<>>
    BY <1>1
  <2> QED
    BY <2>1 DEF FlattenSeq
<1>2. CASE Len(q) # 0
  <2> DEFINE Part(f, m) == \A i \in 1..m : f[i] = IF i = 1 THEN q[i] ELSE f[i - 1] \o q[i]
             T == {m \in Nat : m <= Len(q) => \E f \in [1..m -> Seq(S)] : Part(f, m)}
             flat == CHOOSE f : f = [i \in 1..Len(q) |-> IF i = 1 THEN q[i] ELSE f[i - 1] \o q[i]]
             G == {m \in Nat : m \in 1..Len(q) => flat[m] \in Seq(S)}
  <2>1. Len(q) \in Nat /\ Len(q) >= 1 /\ \A i \in 1..Len(q) : q[i] \in Seq(S)
    BY <1>2
  <2>2. 0 \in T
    <3>1. PICK f : f = [i \in 1..0 |-> <<>>]
      OBVIOUS
    <3>2. f \in [1..0 -> Seq(S)] /\ Part(f, 0)
      BY <3>1
    <3> QED
      BY <3>2
  <2>3. ASSUME NEW m \in T PROVE m + 1 \in T
    <3>0. m \in Nat /\ m + 1 \in Nat
      OBVIOUS
    <3> HIDE DEF Part
    <3> SUFFICES ASSUME m + 1 <= Len(q)
                 PROVE  \E f \in [1..(m + 1) -> Seq(S)] : Part(f, m + 1)
      BY <3>0
    <3> USE DEF Part
    <3>1. m \in Nat /\ m <= Len(q)
      BY <2>1
    <3>2. PICK f \in [1..m -> Seq(S)] : Part(f, m)
      BY <3>1
    <3>3. PICK g : g = [i \in 1..(m + 1) |->
                          IF i = m + 1 THEN (IF i = 1 THEN q[i] ELSE f[i - 1] \o q[i]) ELSE f[i]]
      OBVIOUS
    <3>4. q[m + 1] \in Seq(S) /\ (m # 0 => f[m] \in Seq(S))
      BY <2>1, <3>1
    <3>5. m # 0 => f[m] \o q[m + 1] \in Seq(S)
      BY <3>4
    <3>6. g \in [1..(m + 1) -> Seq(S)]
      <4> SUFFICES ASSUME NEW i \in 1..(m + 1)
                   PROVE  (IF i = m + 1 THEN (IF i = 1 THEN q[i] ELSE f[i - 1] \o q[i]) ELSE f[i])
                            \in Seq(S)
        BY <3>3
      <4>1. CASE i = m + 1
        BY <3>1, <3>4, <3>5, <4>1
      <4>2. CASE i # m + 1
        <5>1. i \in 1..m
          BY <3>1, <4>2
        <5> QED
          BY <4>2, <5>1
      <4> QED
        BY <4>1, <4>2
    <3>7. Part(g, m + 1)
      <4> SUFFICES ASSUME NEW i \in 1..(m + 1)
                   PROVE  g[i] = IF i = 1 THEN q[i] ELSE g[i - 1] \o q[i]
        OBVIOUS
      <4>1. CASE i = m + 1
        <5>1. i # 1 => g[i - 1] = f[i - 1]
          BY <3>1, <3>3, <4>1
        <5> QED
          BY <3>1, <3>3, <4>1, <5>1
      <4>2. CASE i # m + 1
        <5>1. i \in 1..m /\ (i # 1 => i - 1 \in 1..m)
          BY <3>1, <4>2
        <5>2. g[i] = f[i] /\ (i # 1 => g[i - 1] = f[i - 1])
          <6>1. g[i] = f[i]
            BY <3>3, <4>2
          <6>2. ASSUME i # 1 PROVE g[i - 1] = f[i - 1]
            <7>1. PICK k \in 1..m : k = i - 1
              BY <5>1, <6>2
            <7>2. k \in 1..(m + 1) /\ k # m + 1
              BY <3>1
            <7>3. g[k] = f[k]
              BY <3>3, <7>2
            <7> QED
              BY <7>1, <7>3
          <6> QED
            BY <6>1, <6>2
        <5>3. f[i] = IF i = 1 THEN q[i] ELSE f[i - 1] \o q[i]
          BY <3>2, <5>1, Zenon
        <5>4. CASE i = 1
          BY <5>2, <5>3, <5>4, Zenon
        <5>5. CASE i # 1
          BY <5>2, <5>3, <5>5, Zenon
        <5> QED
          BY <5>4, <5>5
      <4> QED
        BY <4>1, <4>2
    <3> QED
      BY <3>6, <3>7
  <2>4. T = Nat
    <3>1. T \in SUBSET Nat
      OBVIOUS
    <3> HIDE DEF T
    <3> QED
      BY <2>2, <2>3, <3>1, NatSet
  <2>5. PICK f \in [1..Len(q) -> Seq(S)] : Part(f, Len(q))
    <3> HIDE DEF Part
    <3>1. Len(q) \in T /\ Len(q) <= Len(q)
      <4> HIDE DEF T
      <4> QED
        BY <2>1, <2>4
    <3> QED
      BY <3>1
  <2>6. f = [i \in 1..Len(q) |-> IF i = 1 THEN q[i] ELSE f[i - 1] \o q[i]]
    BY <2>5
  <2>7. flat = [i \in 1..Len(q) |-> IF i = 1 THEN q[i] ELSE flat[i - 1] \o q[i]]
    BY <2>6
  <2> HIDE DEF flat
  <2>8. 0 \in G
    OBVIOUS
  <2>9. ASSUME NEW m \in G PROVE m + 1 \in G
    <3> SUFFICES ASSUME m + 1 \in 1..Len(q) PROVE flat[m + 1] \in Seq(S)
      OBVIOUS
    <3>1. flat[m + 1] = IF m + 1 = 1 THEN q[m + 1] ELSE flat[(m + 1) - 1] \o q[m + 1]
      BY <2>7
    <3>2. m # 0 => flat[m] \in Seq(S)
      BY <2>1
    <3>3. (m + 1) - 1 = m /\ q[m + 1] \in Seq(S)
      BY <2>1
    <3> QED
      BY <3>1, <3>2, <3>3
  <2>10. G = Nat
    <3>1. G \in SUBSET Nat
      OBVIOUS
    <3> HIDE DEF G
    <3> QED
      BY <2>8, <2>9, <3>1, NatSet
  <2>11. FlattenSeq(q) = flat[Len(q)]
    BY <1>2 DEF FlattenSeq, flat
  <2> QED
    BY <2>1, <2>10, <2>11
<1> QED
  BY <1>1, <1>2

\* The rows of the notices, what they announce, and the rows made of it.
NoticeRows == UNION {{n[i] : i \in DOMAIN n} : n \in Notices}
Announced ==
    {[key |-> <<r.company, r.purpose, "meeting", r.meeting>>, text |-> <<r.venue>>] : r \in NoticeRows}
    \cup {[key |-> <<r.company, "", "record date", r.record>>, text |-> <<r.venue, r.purpose>>] :
            r \in NoticeRows}
EventKeys == {e.key : e \in Announced} \cup {<<>>}
EventTexts == {e.text : e \in Announced} \cup {<<>>, <<"by staff">>}
EventRows ==
    {r \in [key : EventKeys, text : EventTexts, public : BOOLEAN] : r.key = <<>> => r = NoEvent}
SyncRuns == [todo : Seq(Announced), found : Nat, looked : BOOLEAN]

LEMMA SomethingIn ==
    ASSUME NEW a, NEW b, NEW c, NEW d
    PROVE  <<a, b, c, d>> # <<>>
PROOF OBVIOUS

LEMMA AnnouncedSound ==
    ASSUME NEW e \in Announced
    PROVE  /\ e.key # <<>> /\ \A p \in BOOLEAN : EventRow(e, p) \in EventRows
           /\ \A p \in BOOLEAN : EventRow(e, p).key = e.key
PROOF
<1>1. e.key # <<>>
  <2>1. CASE e \in {[key |-> <<r.company, r.purpose, "meeting", r.meeting>>, text |-> <<r.venue>>] :
                      r \in NoticeRows}
    <3>1. PICK r : e = [key |-> <<r.company, r.purpose, "meeting", r.meeting>>, text |-> <<r.venue>>]
      BY <2>1
    <3>2. PICK k, x : k = <<r.company, r.purpose, "meeting", r.meeting>> /\ x = <<r.venue>>
      OBVIOUS
    <3>3. e = [key |-> k, text |-> x]
      BY <3>1, <3>2
    <3> QED
      BY <3>2, <3>3, SomethingIn
  <2>2. CASE e \in {[key |-> <<r.company, "", "record date", r.record>>,
                     text |-> <<r.venue, r.purpose>>] : r \in NoticeRows}
    <3>1. PICK r : e = [key |-> <<r.company, "", "record date", r.record>>,
                        text |-> <<r.venue, r.purpose>>]
      BY <2>2
    <3>2. PICK k, x : k = <<r.company, "", "record date", r.record>> /\ x = <<r.venue, r.purpose>>
      OBVIOUS
    <3>3. e = [key |-> k, text |-> x]
      BY <3>1, <3>2
    <3> QED
      BY <3>2, <3>3, SomethingIn
  <2> QED
    BY <2>1, <2>2 DEF Announced
<1>2. e.key \in EventKeys /\ e.text \in EventTexts
  BY DEF EventKeys, EventTexts
<1> QED
  BY <1>1, <1>2 DEF EventRow, EventRows

LEMMA NoticeIsSequence ==
    ASSUME NEW n \in Notices
    PROVE  NoticeEvents(n) \in Seq(Announced)
PROOF
<1>1. n \in Seq({n[i] : i \in DOMAIN n})
  BY PagesAssumption DEF IsSequence
<1>2. PICK q : q = [i \in DOMAIN n |-> RowEvents(n[i])]
  OBVIOUS
<1>3. ASSUME NEW i \in DOMAIN n PROVE q[i] \in Seq(Announced)
  <2>1. PICK r : r = n[i]
    OBVIOUS
  <2>2. r \in NoticeRows
    BY <2>1 DEF NoticeRows
  <2>3. PICK a, b :
          /\ a = [key |-> <<r.company, r.purpose, "meeting", r.meeting>>, text |-> <<r.venue>>]
          /\ b = [key |-> <<r.company, "", "record date", r.record>>, text |-> <<r.venue, r.purpose>>]
    OBVIOUS
  <2>4. a \in Announced /\ b \in Announced
    BY <2>2, <2>3 DEF Announced
  <2>5. <<>> \in Seq(Announced) /\ <<a>> \in Seq(Announced) /\ <<b>> \in Seq(Announced)
    BY <2>4
  <2>6. RowEvents(r) = (IF r.meeting = NoDate THEN <<>> ELSE <<a>>)
                       \o (IF r.record = NoDate THEN <<>> ELSE <<b>>)
    BY <2>3 DEF RowEvents
  <2>7. PICK x \in Seq(Announced), y \in Seq(Announced) :
          /\ x = IF r.meeting = NoDate THEN <<>> ELSE <<a>>
          /\ y = IF r.record = NoDate THEN <<>> ELSE <<b>>
    BY <2>5
  <2>8. RowEvents(r) = x \o y
    BY <2>6, <2>7
  <2>9. x \o y \in Seq(Announced)
    OBVIOUS
  <2> QED
    BY <1>2, <2>1, <2>8, <2>9
<1>4. DOMAIN n = 1..Len(n) /\ Len(n) \in Nat
  BY <1>1
<1>5. q \in Seq(Seq(Announced))
  BY <1>2, <1>3, <1>4
<1> QED
  BY <1>2, <1>5, FlattenIs DEF NoticeEvents

-----------------------------------------------------------------------------
EventsTyped ==
    /\ notice \in Notices /\ event \in Seq(EventRows) /\ syncRun \in [NoticeRuns -> SyncRuns]
    /\ undisturbed \subseteq NoticeRuns /\ overlapped \in BOOLEAN /\ shown \in BOOLEAN
    /\ \A s \in NoticeRuns :
         /\ syncRun[s].todo = <<>> => syncRun[s] = NoRun
         /\ syncRun[s].found \in 0..Len(event)
         /\ ~syncRun[s].looked => syncRun[s].found = 0

NoneWith(key) == \A i \in DOMAIN event : event[i].key # key

\* What a run has found is still the row it looked for, unless it was deleted.
LookKept ==
    \A s \in NoticeRuns : syncRun[s].looked /\ syncRun[s].found # 0 =>
      event[syncRun[s].found].key \in {Head(syncRun[s].todo).key, <<>>}

\* Before two runs are made at once, no date is stored twice, and what a run did
\* not find is not there.
OnceEach ==
    ~overlapped =>
      /\ \A i, j \in DOMAIN event : i # j /\ event[i].key = event[j].key => event[i].key = <<>>
      /\ \A s, t \in NoticeRuns : syncRun[s] # NoRun /\ syncRun[t] # NoRun => s = t
      /\ \A s \in NoticeRuns : syncRun[s].looked /\ syncRun[s].found = 0 =>
           NoneWith(Head(syncRun[s].todo).key)

\* The first n of what is announced is public, a date with its last text.
CopiedUpTo(n) ==
    LET wanted == NoticeEvents(notice) IN
    \A i \in 1..n : (\A j \in 1..n : j > i => wanted[j].key # wanted[i].key) =>
      \E e \in DOMAIN event : event[e] = EventRow(wanted[i], TRUE)

\* An undisturbed run has copied what it no longer has to.
CopiedSoFar(s) ==
    LET wanted == NoticeEvents(notice)
        todo == syncRun[s].todo
        n == Len(wanted) - Len(todo)
    IN  /\ \A t \in NoticeRuns : syncRun[t] # NoRun => t = s
        /\ n \in Nat /\ \A i \in 1..Len(todo) : todo[i] = wanted[n + i]
        /\ CopiedUpTo(n)
        /\ syncRun[s].looked =>
             IF syncRun[s].found = 0 THEN NoneWith(Head(todo).key)
             ELSE event[syncRun[s].found].key = Head(todo).key

UndisturbedCopies == \A s \in undisturbed : syncRun[s] # NoRun => CopiedSoFar(s)
ShownIsCopied == shown => CopiedUpTo(Len(NoticeEvents(notice)))

EventsInv == EventsTyped /\ LookKept /\ OnceEach /\ UndisturbedCopies /\ ShownIsCopied

-----------------------------------------------------------------------------
LEMMA EventsStart == EventsInit => EventsInv
PROOF
<1> SUFFICES ASSUME EventsInit PROVE EventsInv
  OBVIOUS
<1>1. /\ notice \in Notices /\ event = <<>> /\ syncRun = [s \in NoticeRuns |-> NoRun]
      /\ undisturbed = {} /\ shown = FALSE /\ overlapped = FALSE
  BY DEF EventsInit
<1>2. NoRun \in SyncRuns /\ NoRun.todo = <<>> /\ NoRun.looked = FALSE /\ NoRun.found = 0
  BY DEF NoRun, SyncRuns
<1>3. EventsTyped
  <2>1. event \in Seq(EventRows) /\ Len(event) = 0 /\ DOMAIN event = {}
    BY <1>1
  <2>2. syncRun \in [NoticeRuns -> SyncRuns]
    BY <1>1, <1>2
  <2>3. \A s \in NoticeRuns : syncRun[s] = NoRun
    BY <1>1
  <2>4. \A s \in NoticeRuns : /\ syncRun[s].found \in 0..Len(event)
                              /\ ~syncRun[s].looked => syncRun[s].found = 0
    BY <1>2, <2>1, <2>3
  <2> QED
    BY <1>1, <2>1, <2>2, <2>3, <2>4 DEF EventsTyped
<1>4. DOMAIN event = {} /\ \A s \in NoticeRuns : syncRun[s] = NoRun
  BY <1>1
<1> QED
  BY <1>1, <1>2, <1>3, <1>4 DEF EventsInv, LookKept, OnceEach, UndisturbedCopies, ShownIsCopied

LEMMA RunIs ==
    ASSUME EventsTyped, NEW s \in NoticeRuns
    PROVE  /\ syncRun[s] = [todo |-> syncRun[s].todo, found |-> syncRun[s].found,
                            looked |-> syncRun[s].looked]
           /\ syncRun[s].todo \in Seq(Announced) /\ syncRun[s].found \in Nat
           /\ syncRun[s].found \in 0..Len(event)
           /\ syncRun[s].looked \in BOOLEAN
           /\ syncRun[s].looked => syncRun[s] # NoRun
           /\ syncRun[s] # NoRun => /\ syncRun[s].todo # <<>> /\ Head(syncRun[s].todo) \in Announced
                                    /\ Len(syncRun[s].todo) \in Nat \ {0}
                                    /\ Head(syncRun[s].todo) = syncRun[s].todo[1]
PROOF
<1>1. syncRun[s] \in SyncRuns
  BY DEF EventsTyped
<1>2. PICK r \in SyncRuns : r = syncRun[s]
  BY <1>1
<1>3. r = [todo |-> r.todo, found |-> r.found, looked |-> r.looked] /\ r.todo \in Seq(Announced)
      /\ r.found \in Nat /\ r.looked \in BOOLEAN
  BY DEF SyncRuns
<1>4. r.looked => r # NoRun
  BY DEF NoRun
<1>5. (r.todo = <<>> => r = NoRun) /\ r.found \in 0..Len(event)
  BY <1>2 DEF EventsTyped
<1>6. r.todo # <<>> => Head(r.todo) \in Announced /\ Len(r.todo) \in Nat \ {0} /\ Head(r.todo) = r.todo[1]
  BY <1>3
<1> QED
  BY <1>2, <1>3, <1>4, <1>5, <1>6

\* A run begins.
LEMMA BeginKeeps ==
    ASSUME EventsInv, NEW s \in NoticeRuns, BeginEvents(s)
    PROVE  EventsInv'
PROOF
<1>1. PICK w \in Seq(Announced) : w = NoticeEvents(notice)
  BY NoticeIsSequence DEF EventsInv, EventsTyped
<1>2. PICK r : r = [todo |-> w, found |-> 0, looked |-> FALSE]
  OBVIOUS
<1>3. r \in SyncRuns /\ r # NoRun /\ r.looked = FALSE /\ r.found = 0 /\ w # <<>> /\ r.todo = w
  BY <1>1, <1>2 DEF BeginEvents, NoRun, SyncRuns
<1>4. syncRun' = [syncRun EXCEPT ![s] = r] /\ syncRun[s] = NoRun
  <2>1. syncRun[s] = NoRun /\ syncRun' = [syncRun EXCEPT ![s] = [syncRun[s] EXCEPT !.todo = w]]
    BY <1>1 DEF BeginEvents
  <2>2. [NoRun EXCEPT !.todo = w] = r
    <3>1. PICK n : n = NoRun
      OBVIOUS
    <3>2. n = [todo |-> n.todo, found |-> n.found, looked |-> n.looked]
          /\ n.found = 0 /\ n.looked = FALSE
      BY <3>1 DEF NoRun
    <3>3. [n EXCEPT !.todo = w] = [todo |-> w, found |-> n.found, looked |-> n.looked]
      BY <3>2
    <3> QED
      BY <1>2, <3>1, <3>2, <3>3
  <2> QED
    BY <2>1, <2>2
<1>5. syncRun \in [NoticeRuns -> SyncRuns]
  BY DEF EventsInv, EventsTyped
<1>6. syncRun'[s] = r /\ \A t \in NoticeRuns : t # s => syncRun'[t] = syncRun[t]
  BY <1>4, <1>5
<1>7. /\ UNCHANGED <<notice, event, shown>>
      /\ undisturbed' = IF Active = {} THEN {s} ELSE {}
      /\ overlapped' = (overlapped \/ Active # {})
  BY DEF BeginEvents
<1>8. Active = {} <=> \A t \in NoticeRuns : syncRun[t] = NoRun
  BY DEF Active
<1>9. EventsTyped'
  <2>1. syncRun' \in [NoticeRuns -> SyncRuns]
    BY <1>3, <1>4, <1>5
  <2>2. Len(event) \in Nat
    BY DEF EventsInv, EventsTyped
  <2>3. \A t \in NoticeRuns :
          /\ syncRun'[t].todo = <<>> => syncRun'[t] = NoRun
          /\ syncRun'[t].found \in 0..Len(event)
          /\ ~syncRun'[t].looked => syncRun'[t].found = 0
    BY <1>3, <1>6, <2>2 DEF EventsInv, EventsTyped
  <2> QED
    BY <1>7, <1>8, <2>1, <2>3 DEF EventsInv, EventsTyped
<1>10. LookKept'
  BY <1>3, <1>6, <1>7 DEF EventsInv, LookKept
<1>11. OnceEach'
  <2> SUFFICES ASSUME ~overlapped'
               PROVE  /\ \A i, j \in DOMAIN event : i # j /\ event[i].key = event[j].key => event[i].key = <<>>
                      /\ \A x, t \in NoticeRuns : syncRun'[x] # NoRun /\ syncRun'[t] # NoRun => x = t
                      /\ \A x \in NoticeRuns : syncRun'[x].looked /\ syncRun'[x].found = 0 =>
                           NoneWith(Head(syncRun'[x].todo).key)
    BY <1>7 DEF OnceEach, NoneWith
  <2>1. ~overlapped /\ \A t \in NoticeRuns : syncRun[t] = NoRun
    BY <1>7, <1>8
  <2>2. \A t \in NoticeRuns : t # s => syncRun'[t] = NoRun
    BY <1>6, <2>1
  <2>3. NoRun.looked = FALSE
    BY DEF NoRun
  <2> QED
    BY <1>3, <1>6, <2>1, <2>2, <2>3 DEF EventsInv, OnceEach
<1>12. UndisturbedCopies'
  <2> SUFFICES ASSUME NEW x \in undisturbed' PROVE CopiedSoFar(x)'
    BY DEF UndisturbedCopies
  <2>1. x = s /\ \A t \in NoticeRuns : syncRun[t] = NoRun
    BY <1>7, <1>8
  <2>2. \A t \in NoticeRuns : syncRun'[t] # NoRun => t = s
    BY <1>6, <2>1
  <2>3. Len(w) - Len(w) = 0 /\ \A i \in 1..Len(w) : w[i] = w[0 + i]
    BY <1>1
  <2>4. CopiedUpTo(Len(w) - Len(w))'
    BY <2>3 DEF CopiedUpTo
  <2>5. syncRun'[s].todo = w /\ NoticeEvents(notice') = w /\ syncRun'[s].looked = FALSE
    BY <1>1, <1>3, <1>6, <1>7
  <2>6. Len(w) - Len(w) \in Nat
    BY <1>1
  <2> QED
    BY <2>1, <2>2, <2>3, <2>4, <2>5, <2>6 DEF CopiedSoFar
<1>13. ShownIsCopied'
  BY <1>7 DEF EventsInv, ShownIsCopied, CopiedUpTo
<1> QED
  BY <1>9, <1>10, <1>11, <1>12, <1>13 DEF EventsInv

-----------------------------------------------------------------------------
\* Somebody else's step spares nobody else that is on its way.
LEMMA DisturbSpares ==
    ASSUME EventsTyped, NEW s \in NoticeRuns, Disturb(s)
    PROVE  /\ undisturbed' \subseteq undisturbed
           /\ \A t \in undisturbed' : syncRun[t] # NoRun => t = s
           /\ s \in undisturbed' => s \in undisturbed
BY DEF Disturb, Active, EventsTyped

LEMMA FindKeeps ==
    ASSUME EventsInv, NEW s \in NoticeRuns, FindEvent(s)
    PROVE  EventsInv'
PROOF
<1>0. EventsTyped
  BY DEF EventsInv
<1>1. PICK todo, k : todo \in Seq(Announced) /\ todo = syncRun[s].todo /\ todo # <<>> /\ k = Head(todo).key
  BY <1>0, RunIs DEF FindEvent
<1>2. PICK i \in Nat :
        /\ syncRun' = [syncRun EXCEPT ![s].looked = TRUE, ![s].found = i]
        /\ i = 0 => NoneWith(k)
        /\ i # 0 => i \in DOMAIN event /\ event[i].key = k
  <2>1. event \in Seq(EventRows)
    BY <1>0 DEF EventsTyped
  <2> DEFINE same == {i \in DOMAIN event : event[i].key = k}
  <2>2. PICK i \in IF same = {} THEN {0} ELSE same :
             syncRun' = [syncRun EXCEPT ![s].looked = TRUE, ![s].found = i]
    BY <1>1 DEF FindEvent
  <2>3. i \in Nat /\ (i = 0 => same = {}) /\ (i # 0 => i \in same)
    BY <2>1
  <2> QED
    BY <2>2, <2>3 DEF NoneWith
<1>3. PICK r : r = [todo |-> todo, found |-> i, looked |-> TRUE]
  OBVIOUS
<1>4. /\ syncRun[s] = [todo |-> todo, found |-> syncRun[s].found, looked |-> syncRun[s].looked]
      /\ syncRun \in [NoticeRuns -> SyncRuns] /\ Len(event) \in Nat /\ DOMAIN event = 1..Len(event)
  BY <1>0, <1>1, RunIs DEF EventsTyped
<1>5. syncRun' = [syncRun EXCEPT ![s] = r]
  <2>1. PICK o : o = syncRun[s]
    OBVIOUS
  <2>2. syncRun' = [syncRun EXCEPT ![s] = [[o EXCEPT !.looked = TRUE] EXCEPT !.found = i]]
    BY <1>2, <1>4, <2>1
  <2>3. [[o EXCEPT !.looked = TRUE] EXCEPT !.found = i] = r
    <3>1. o = [todo |-> o.todo, found |-> o.found, looked |-> o.looked] /\ o.todo = todo
      BY <1>4, <2>1
    <3>2. [o EXCEPT !.looked = TRUE] = [todo |-> o.todo, found |-> o.found, looked |-> TRUE]
      <4>1. PICK yes : yes = TRUE
        OBVIOUS
      <4>2. [o EXCEPT !.looked = yes] = [todo |-> o.todo, found |-> o.found, looked |-> yes]
        BY <3>1
      <4> QED
        BY <4>1, <4>2, Zenon
    <3>3. PICK m : m = [todo |-> o.todo, found |-> o.found, looked |-> TRUE]
      OBVIOUS
    <3>4. m = [todo |-> m.todo, found |-> m.found, looked |-> m.looked]
          /\ m.todo = o.todo /\ m.looked = TRUE
      BY <3>3
    <3>5. [m EXCEPT !.found = i] = [todo |-> m.todo, found |-> i, looked |-> m.looked]
      BY <3>4
    <3> QED
      BY <1>3, <3>1, <3>2, <3>3, <3>4, <3>5
  <2> QED
    BY <2>2, <2>3
<1>6. syncRun'[s] = r /\ \A t \in NoticeRuns : t # s => syncRun'[t] = syncRun[t]
  BY <1>4, <1>5
<1>7. UNCHANGED <<notice, event, shown, overlapped>> /\ Disturb(s)
  BY DEF FindEvent
<1>8. r \in SyncRuns /\ r # NoRun /\ r.todo = todo /\ r.found = i /\ r.looked = TRUE
      /\ syncRun[s] # NoRun /\ i \in 0..Len(event)
  BY <1>1, <1>2, <1>3, <1>4 DEF SyncRuns, NoRun
<1>9. \A t \in NoticeRuns : syncRun'[t] # NoRun <=> syncRun[t] # NoRun
  BY <1>6, <1>8
<1>10. EventsTyped'
  <2>1. syncRun' \in [NoticeRuns -> SyncRuns]
    BY <1>4, <1>5, <1>8
  <2>2. \A t \in NoticeRuns :
          /\ syncRun'[t].todo = <<>> => syncRun'[t] = NoRun
          /\ syncRun'[t].found \in 0..Len(event)
          /\ ~syncRun'[t].looked => syncRun'[t].found = 0
    BY <1>0, <1>1, <1>6, <1>8 DEF EventsTyped
  <2>3. undisturbed' \subseteq NoticeRuns
    BY <1>0, <1>7, DisturbSpares DEF EventsTyped
  <2> QED
    BY <1>0, <1>7, <2>1, <2>2, <2>3 DEF EventsTyped
<1>11. LookKept'
  <2> SUFFICES ASSUME NEW t \in NoticeRuns, syncRun'[t].looked, syncRun'[t].found # 0
               PROVE  event[syncRun'[t].found].key \in {Head(syncRun'[t].todo).key, <<>>}
    BY <1>7 DEF LookKept
  <2>1. CASE t = s
    BY <1>1, <1>2, <1>6, <1>8, <2>1
  <2>2. CASE t # s
    BY <1>6, <2>2 DEF EventsInv, LookKept
  <2> QED
    BY <2>1, <2>2
<1>12. OnceEach'
  <2> SUFFICES ASSUME ~overlapped
               PROVE  /\ \A x, y \in DOMAIN event : x # y /\ event[x].key = event[y].key => event[x].key = <<>>
                      /\ \A x, t \in NoticeRuns : syncRun'[x] # NoRun /\ syncRun'[t] # NoRun => x = t
                      /\ \A x \in NoticeRuns : syncRun'[x].looked /\ syncRun'[x].found = 0 =>
                           NoneWith(Head(syncRun'[x].todo).key)
    BY <1>7 DEF OnceEach, NoneWith
  <2>1. \A x, t \in NoticeRuns : syncRun'[x] # NoRun /\ syncRun'[t] # NoRun => x = t
    BY <1>9 DEF EventsInv, OnceEach
  <2>2. \A x \in NoticeRuns : syncRun'[x].looked /\ syncRun'[x].found = 0 =>
          NoneWith(Head(syncRun'[x].todo).key)
    <3> SUFFICES ASSUME NEW x \in NoticeRuns, syncRun'[x].looked, syncRun'[x].found = 0
                 PROVE  NoneWith(Head(syncRun'[x].todo).key)
      OBVIOUS
    <3>1. CASE x = s
      BY <1>1, <1>2, <1>6, <1>8, <3>1
    <3>2. CASE x # s
      BY <1>6, <3>2 DEF EventsInv, OnceEach
    <3> QED
      BY <3>1, <3>2
  <2>3. \A x, y \in DOMAIN event : x # y /\ event[x].key = event[y].key => event[x].key = <<>>
    BY DEF EventsInv, OnceEach
  <2> QED
    BY <2>1, <2>2, <2>3
<1>13. UndisturbedCopies'
  <2> SUFFICES ASSUME NEW x \in undisturbed', syncRun'[x] # NoRun PROVE CopiedSoFar(x)'
    BY DEF UndisturbedCopies
  <2>1. x \in NoticeRuns /\ x = s /\ s \in undisturbed
    BY <1>0, <1>7, <1>9, DisturbSpares DEF EventsTyped
  <2>2. CopiedSoFar(s)
    BY <1>8, <2>1 DEF EventsInv, UndisturbedCopies
  <2>3. \A t \in NoticeRuns : syncRun'[t] # NoRun => t = s
    BY <1>9, <2>2 DEF CopiedSoFar
  <2>4. IF r.found = 0 THEN NoneWith(Head(todo).key) ELSE event[r.found].key = Head(todo).key
    BY <1>1, <1>2, <1>8
  <2>5. PICK w : w = NoticeEvents(notice)
    OBVIOUS
  <2>6. Len(w) - Len(todo) \in Nat /\ (\A j \in 1..Len(todo) : todo[j] = w[Len(w) - Len(todo) + j])
        /\ CopiedUpTo(Len(w) - Len(todo))
    BY <1>1, <2>2, <2>5 DEF CopiedSoFar
  <2>7. CopiedUpTo(Len(w) - Len(todo))'
    BY <1>7, <2>6 DEF CopiedUpTo
  <2> QED
    BY <1>6, <1>7, <1>8, <2>1, <2>3, <2>4, <2>5, <2>6, <2>7 DEF CopiedSoFar, NoneWith
<1>14. ShownIsCopied'
  BY <1>7 DEF EventsInv, ShownIsCopied, CopiedUpTo
<1> QED
  BY <1>10, <1>11, <1>12, <1>13, <1>14 DEF EventsInv

\* What storing an event e in row f, or in a new one, makes of the rows.
StoredIn(e, f, new) ==
    /\ new \in Seq(EventRows) /\ Len(event) \in Nat /\ Len(new) >= Len(event)
    /\ DOMAIN event = 1..Len(event) /\ DOMAIN new = 1..Len(new)
    /\ \A i \in DOMAIN event : new[i].key = event[i].key /\ (i # f => new[i] = event[i])
    /\ f # 0 => f \in DOMAIN event /\ event[f].key = e.key
                /\ new[f] = EventRow(e, TRUE) /\ DOMAIN new = DOMAIN event
    /\ f = 0 => DOMAIN new = 1..(Len(event) + 1) /\ new[Len(event) + 1] = EventRow(e, TRUE)

LEMMA StoredIs ==
    ASSUME EventsTyped, LookKept, NEW s \in NoticeRuns, NEW e \in Announced, NEW f,
           syncRun[s].looked, e = Head(syncRun[s].todo), f = syncRun[s].found,
           ~(f # 0 /\ event[f] = NoEvent), NEW new, new = Stored(e, f)
    PROVE  StoredIn(e, f, new)
PROOF
<1>1. PICK row \in EventRows : row = EventRow(e, TRUE) /\ row.key = e.key
  BY AnnouncedSound
<1>2. event \in Seq(EventRows) /\ Len(event) \in Nat /\ DOMAIN event = 1..Len(event)
  BY DEF EventsTyped
<1>3. f \in Nat /\ f \in 0..Len(event)
  BY RunIs
<1>4. CASE f = 0
  <2>1. new = Append(event, row)
    BY <1>1, <1>4 DEF Stored
  <2>2. new \in Seq(EventRows) /\ Len(new) = Len(event) + 1
    BY <1>2, <2>1
  <2>3. /\ new[Len(event) + 1] = row
        /\ \A i \in DOMAIN event : new[i] = event[i]
    BY <1>2, <2>1
  <2>4. DOMAIN new = 1..(Len(event) + 1) /\ Len(new) >= Len(event)
    BY <1>2, <2>2
  <2>5. \A i \in DOMAIN event : new[i].key = event[i].key /\ (i # f => new[i] = event[i])
    BY <2>3, Zenon
  <2>6. DOMAIN new = 1..Len(new)
    BY <2>2, <2>4
  <2> QED
    BY <1>1, <1>2, <1>4, <2>2, <2>3, <2>4, <2>5, <2>6, Zenon DEF StoredIn
<1>5. CASE f # 0
  <2>1. f \in DOMAIN event /\ event[f].key \in {e.key, <<>>}
    BY <1>2, <1>3, <1>5 DEF LookKept
  <2>2. event[f] \in EventRows
    BY <1>2, <2>1
  <2>3. event[f].key = e.key
    BY <1>5, <2>1, <2>2 DEF EventRows
  <2>4. new = [event EXCEPT ![f] = row]
    BY <1>1, <1>5 DEF Stored
  <2>5. new \in Seq(EventRows) /\ Len(new) = Len(event) /\ DOMAIN new = DOMAIN event
        /\ new[f] = row /\ \A i \in DOMAIN event : i # f => new[i] = event[i]
    BY <1>2, <2>1, <2>4
  <2>6. \A i \in DOMAIN event : new[i].key = event[i].key
    BY <1>1, <2>3, <2>5
  <2>7. Len(new) >= Len(event) /\ DOMAIN new = 1..Len(new)
    BY <1>2, <2>5
  <2> QED
    BY <1>1, <1>2, <1>5, <2>1, <2>3, <2>5, <2>6, <2>7, Zenon DEF StoredIn
<1> QED
  BY <1>4, <1>5, Zenon

LEMMA BelowLast ==
    ASSUME NEW n \in Nat, NEW i \in 1..(n + 1), i # n + 1
    PROVE  i \in 1..n /\ n + 1 \in 1..(n + 1) /\ n + 1 > i
PROOF OBVIOUS

\* What is stored is copied; what was copied of other dates stays.
LEMMA OneMoreCopied ==
    ASSUME EventsInv, NEW s \in NoticeRuns, syncRun[s].looked, CopiedSoFar(s),
           NEW e \in Announced, e = Head(syncRun[s].todo), UNCHANGED notice,
           event' = Stored(e, syncRun[s].found),
           NEW n \in Nat, n = Len(NoticeEvents(notice)) - Len(syncRun[s].todo)
    PROVE  CopiedUpTo(n + 1)'
PROOF
<1>1. PICK f, todo, w : f = syncRun[s].found /\ todo = syncRun[s].todo /\ w = NoticeEvents(notice)
  OBVIOUS
<1>2. n = Len(w) - Len(todo)
  BY <1>1
<1>3. Len(todo) \in Nat \ {0} /\ e = todo[1]
  BY <1>1, RunIs DEF EventsInv
<1>4. /\ \A i \in 1..Len(todo) : todo[i] = w[n + i]
      /\ CopiedUpTo(n)
      /\ IF f = 0 THEN NoneWith(e.key) ELSE event[f].key = e.key
  BY <1>1, <1>2 DEF CopiedSoFar
<1>5. e.key # <<>>
  BY AnnouncedSound
<1>6. ~(f # 0 /\ event[f] = NoEvent)
  BY <1>4, <1>5 DEF NoEvent
<1>7. PICK new : new = event' /\ new = Stored(e, f)
  BY <1>1
<1>15. StoredIn(e, f, new)
  <2>1. EventsTyped /\ LookKept
    BY DEF EventsInv
  <2>2. e = Head(syncRun[s].todo) /\ f = syncRun[s].found /\ syncRun[s].looked
    BY <1>1
  <2> QED
    BY <1>6, <1>7, <2>1, <2>2, StoredIs
<1>8. /\ new \in Seq(EventRows) /\ Len(event) \in Nat /\ Len(new) >= Len(event)
      /\ DOMAIN event = 1..Len(event) /\ DOMAIN new = 1..Len(new)
      /\ \A i \in DOMAIN event : new[i].key = event[i].key /\ (i # f => new[i] = event[i])
      /\ f # 0 => f \in DOMAIN event /\ event[f].key = e.key
                  /\ new[f] = EventRow(e, TRUE) /\ DOMAIN new = DOMAIN event
      /\ f = 0 => DOMAIN new = 1..(Len(event) + 1) /\ new[Len(event) + 1] = EventRow(e, TRUE)
  BY <1>15, Zenon DEF StoredIn
<1>14. PICK l \in Nat, m \in Nat : l = Len(event) /\ m = Len(new) /\ m >= l
  <2>1. \A q \in Seq(EventRows) : Len(q) \in Nat
    OBVIOUS
  <2>2. Len(new) \in Nat /\ Len(event) \in Nat /\ Len(new) >= Len(event)
    BY <1>8, <2>1, Zenon
  <2> QED
    BY <2>2, Zenon
<1>9. e = w[n + 1]
  <2>1. 1 \in 1..Len(todo)
    BY <1>3
  <2> QED
    BY <1>3, <1>4, <2>1, Zenon
<1>10. ASSUME NEW i \in 1..(n + 1), \A j \in 1..(n + 1) : j > i => w[j].key # w[i].key
       PROVE  \E p \in DOMAIN new : new[p] = EventRow(w[i], TRUE)
  <2>1. CASE i = n + 1
    <3>1. CASE f = 0
      <4>1. Len(event) + 1 \in DOMAIN new
        <5>1. Len(event) + 1 \in 1..(Len(event) + 1)
          <6>1. l + 1 \in 1..(l + 1)
            OBVIOUS
          <6> QED
            BY <1>14, <6>1, Zenon
        <5> QED
          BY <1>8, <3>1, <5>1, Zenon
      <4> QED
        BY <1>8, <1>9, <2>1, <3>1, <4>1, Zenon
    <3>2. CASE f # 0
      <4>1. f \in DOMAIN new
        BY <1>8, <3>2
      <4> QED
        BY <1>8, <1>9, <2>1, <3>2, <4>1
    <3> QED
      BY <3>1, <3>2
  <2>2. CASE i # n + 1
    <3>1. i \in 1..n /\ n + 1 \in 1..(n + 1) /\ n + 1 > i
      BY <2>2, BelowLast, Zenon
    <3>2. \A j \in 1..n : j > i => w[j].key # w[i].key
      BY <1>10
    <3>3. PICK p \in DOMAIN event : event[p] = EventRow(w[i], TRUE)
      BY <1>1, <1>4, <3>1, <3>2 DEF CopiedUpTo
    <3>4. w[i].key # e.key
      BY <1>9, <1>10, <3>1
    <3>5. event[p].key = w[i].key
      BY <3>3 DEF EventRow
    <3>6. p # f
      <4> SUFFICES ASSUME p = f PROVE FALSE
        OBVIOUS
      <4>1. f # 0
        <5>1. p \in 1..l
          BY <1>8, <1>14, Zenon
        <5> QED
          BY <5>1
      <4> QED
        BY <1>8, <3>4, <3>5, <4>1, Zenon
    <3>7. p \in DOMAIN new
      <4>1. p \in 1..l
        BY <1>8, <1>14, Zenon
      <4>2. p \in 1..m
        BY <1>14, <4>1
      <4> QED
        BY <1>8, <1>14, <4>2, Zenon
    <3> QED
      BY <1>8, <3>3, <3>6, <3>7, Zenon
  <2> QED
    BY <2>1, <2>2
<1>12. NoticeEvents(notice') = w
  BY <1>1
<1> QED
  BY <1>7, <1>10, <1>12 DEF CopiedUpTo

LEMMA StoreKeeps ==
    ASSUME EventsInv, NEW s \in NoticeRuns, StoreEvent(s)
    PROVE  EventsInv'
PROOF
<1>0. EventsTyped /\ LookKept /\ syncRun[s].looked /\ syncRun[s] # NoRun
  BY RunIs DEF EventsInv, StoreEvent
<1>20. PICK f, todo : f = syncRun[s].found /\ todo = syncRun[s].todo
  OBVIOUS
<1>21. PICK e, L : e = Head(todo) /\ L = Len(todo)
  OBVIOUS
<1>1. /\ todo \in Seq(Announced) /\ e \in Announced /\ L \in Nat \ {0}
      /\ f = syncRun[s].found /\ todo = syncRun[s].todo /\ e = Head(todo) /\ L = Len(todo)
      /\ f \in 0..Len(event)
  BY <1>0, <1>20, <1>21, RunIs
<1>2. PICK gone \in BOOLEAN : gone <=> f # 0 /\ event[f] = NoEvent
  OBVIOUS
<1>3. PICK new : new = event'
  OBVIOUS
<1>4. /\ new = IF gone THEN event ELSE Stored(e, f)
      /\ syncRun' = [syncRun EXCEPT ![s] = IF gone \/ L = 1 THEN NoRun ELSE [NoRun EXCEPT !.todo = Tail(todo)]]
      /\ shown' => L = 1 /\ ~gone /\ s \in undisturbed
      /\ shown' \in BOOLEAN
      /\ UNCHANGED <<notice, overlapped>> /\ Disturb(s)
  BY <1>1, <1>2, <1>3 DEF StoreEvent
<1>5. PICK r : /\ r = IF gone \/ L = 1 THEN NoRun ELSE [NoRun EXCEPT !.todo = Tail(todo)]
               /\ syncRun' = [syncRun EXCEPT ![s] = r]
  BY <1>4
<1>6. /\ r \in SyncRuns /\ r.looked = FALSE /\ r.found = 0
      /\ r.todo = <<>> => r = NoRun
      /\ r # NoRun => ~gone /\ L # 1 /\ r.todo = Tail(todo)
  <2>1. CASE gone \/ L = 1
    <3>1. r = NoRun /\ NoRun \in SyncRuns /\ NoRun.looked = FALSE /\ NoRun.found = 0
      BY <1>5, <2>1 DEF NoRun, SyncRuns
    <3> QED
      BY <3>1
  <2>2. CASE ~(gone \/ L = 1)
    <3>1. PICK rest : rest = Tail(todo)
      OBVIOUS
    <3>2. rest \in Seq(Announced) /\ rest # <<>>
      <4>1. todo \in Seq(Announced) /\ Len(todo) \in Nat \ {0} /\ Len(todo) # 1
        BY <1>1, <2>2
      <4>2. rest \in Seq(Announced) /\ Len(rest) = Len(todo) - 1
        BY <3>1, <4>1
      <4>3. Len(rest) # 0
        BY <4>1, <4>2
      <4> QED
        BY <4>2, <4>3
    <3>3. PICK n : n = NoRun
      OBVIOUS
    <3>4. n = [todo |-> n.todo, found |-> n.found, looked |-> n.looked]
          /\ n.found = 0 /\ n.looked = FALSE
      BY <3>3 DEF NoRun
    <3>5. [n EXCEPT !.todo = rest] = [todo |-> rest, found |-> n.found, looked |-> n.looked]
      BY <3>4
    <3>6. r = [todo |-> rest, found |-> 0, looked |-> FALSE]
      BY <1>5, <2>2, <3>1, <3>3, <3>4, <3>5
    <3>7. r \in SyncRuns /\ r.todo = rest /\ r.looked = FALSE /\ r.found = 0
      BY <3>2, <3>6 DEF SyncRuns
    <3> QED
      BY <2>2, <3>1, <3>2, <3>7
  <2> QED
    BY <2>1, <2>2
<1>7. /\ syncRun \in [NoticeRuns -> SyncRuns] /\ event \in Seq(EventRows)
      /\ Len(event) \in Nat /\ DOMAIN event = 1..Len(event)
  BY <1>0 DEF EventsTyped
<1>8. syncRun'[s] = r /\ \A t \in NoticeRuns : t # s => syncRun'[t] = syncRun[t]
  BY <1>5, <1>7
<1>9. ~gone => StoredIn(e, f, new)
  BY <1>0, <1>1, <1>2, <1>4, StoredIs
<1>10. /\ new \in Seq(EventRows) /\ Len(new) >= Len(event) /\ DOMAIN new = 1..Len(new)
       /\ \A i \in DOMAIN event : i \in DOMAIN new /\ new[i].key = event[i].key
       /\ \A i \in DOMAIN new \ DOMAIN event : ~gone /\ f = 0 /\ i = Len(event) + 1 /\ new[i].key = e.key
  <2>1. CASE gone
    BY <1>4, <1>7, <2>1
  <2>2. CASE ~gone
    <3>1. /\ new \in Seq(EventRows) /\ Len(new) >= Len(event) /\ DOMAIN new = 1..Len(new)
          /\ \A i \in DOMAIN event : new[i].key = event[i].key
          /\ f # 0 => DOMAIN new = DOMAIN event
          /\ f = 0 => DOMAIN new = 1..(Len(event) + 1) /\ new[Len(event) + 1] = EventRow(e, TRUE)
      BY <1>9, <2>2, Zenon DEF StoredIn
    <3>2. PICK l \in Nat, m \in Nat : l = Len(event) /\ m = Len(new) /\ m >= l
      <4>1. \A q \in Seq(EventRows) : Len(q) \in Nat
        OBVIOUS
      <4>2. Len(new) \in Nat /\ Len(event) \in Nat /\ Len(new) >= Len(event)
        BY <1>7, <3>1, <4>1, Zenon
      <4> QED
        BY <4>2, Zenon
    <3>3. \A i \in 1..l : i \in 1..m
      BY <3>2
    <3>4. \A i \in (1..(l + 1)) \ (1..l) : i = l + 1
      BY <3>2
    <3>5. EventRow(e, TRUE).key = e.key
      BY DEF EventRow
    <3>6. \A i \in DOMAIN event : i \in DOMAIN new
      BY <1>7, <3>1, <3>2, <3>3, Zenon
    <3>7. ASSUME NEW i \in DOMAIN new \ DOMAIN event
          PROVE  ~gone /\ f = 0 /\ i = Len(event) + 1 /\ new[i].key = e.key
      <4>1. f = 0
        BY <3>1, <3>7, Zenon
      <4>2. i = Len(event) + 1
        BY <1>7, <3>1, <3>2, <3>4, <4>1, Zenon
      <4> QED
        BY <2>2, <3>1, <3>5, <4>1, <4>2, Zenon
    <3> QED
      BY <3>1, <3>6, <3>7, Zenon
  <2> QED
    BY <2>1, <2>2
<1>11. EventsTyped'
  <2>1. syncRun' \in [NoticeRuns -> SyncRuns]
    BY <1>5, <1>6, <1>7
  <2>2. PICK l \in Nat, m \in Nat : l = Len(event) /\ m = Len(new) /\ m >= l
    <3>1. \A q \in Seq(EventRows) : Len(q) \in Nat
      OBVIOUS
    <3>2. Len(new) \in Nat /\ Len(event) \in Nat /\ Len(new) >= Len(event)
      BY <1>7, <1>10, <3>1, Zenon
    <3> QED
      BY <3>2, Zenon
  <2>3. \A t \in NoticeRuns :
          /\ syncRun'[t].todo = <<>> => syncRun'[t] = NoRun
          /\ syncRun'[t].found \in 0..m
          /\ ~syncRun'[t].looked => syncRun'[t].found = 0
    <3> SUFFICES ASSUME NEW t \in NoticeRuns
                 PROVE  /\ syncRun'[t].todo = <<>> => syncRun'[t] = NoRun
                        /\ syncRun'[t].found \in 0..m
                        /\ ~syncRun'[t].looked => syncRun'[t].found = 0
      OBVIOUS
    <3>1. CASE t = s
      BY <1>6, <1>8, <3>1
    <3>2. CASE t # s
      <4>1. /\ syncRun[t].todo = <<>> => syncRun[t] = NoRun
            /\ syncRun[t].found \in 0..l
            /\ ~syncRun[t].looked => syncRun[t].found = 0
        BY <1>0, <2>2 DEF EventsTyped
      <4> QED
        BY <1>8, <2>2, <3>2, <4>1
    <3> QED
      BY <3>1, <3>2
  <2>4. undisturbed' \subseteq NoticeRuns
    BY <1>0, <1>4, DisturbSpares DEF EventsTyped
  <2> QED
    BY <1>0, <1>3, <1>4, <1>10, <2>1, <2>2, <2>3, <2>4 DEF EventsTyped
<1>12. LookKept'
  <2> SUFFICES ASSUME NEW t \in NoticeRuns, syncRun'[t].looked, syncRun'[t].found # 0
               PROVE  new[syncRun'[t].found].key \in {Head(syncRun'[t].todo).key, <<>>}
    BY <1>3 DEF LookKept
  <2>1. t # s /\ syncRun'[t] = syncRun[t]
    BY <1>6, <1>8
  <2>2. event[syncRun[t].found].key \in {Head(syncRun[t].todo).key, <<>>}
    BY <1>0, <2>1 DEF LookKept
  <2>3. syncRun[t].found \in DOMAIN event
    BY <1>0, <1>7, <2>1 DEF EventsTyped
  <2> QED
    BY <1>10, <2>1, <2>2, <2>3
<1>13. \A t \in NoticeRuns : syncRun'[t] # NoRun => syncRun[t] # NoRun
  BY <1>0, <1>8
<1>14. OnceEach'
  <2> SUFFICES ASSUME ~overlapped
               PROVE  /\ \A x, y \in DOMAIN new : x # y /\ new[x].key = new[y].key => new[x].key = <<>>
                      /\ \A x, t \in NoticeRuns : syncRun'[x] # NoRun /\ syncRun'[t] # NoRun => x = t
                      /\ \A x \in NoticeRuns : ~(syncRun'[x].looked /\ syncRun'[x].found = 0)
    BY <1>3, <1>4 DEF OnceEach
  <2>1. /\ \A x, y \in DOMAIN event : x # y /\ event[x].key = event[y].key => event[x].key = <<>>
        /\ \A x, t \in NoticeRuns : syncRun[x] # NoRun /\ syncRun[t] # NoRun => x = t
        /\ f = 0 => NoneWith(e.key)
    BY <1>0, <1>1 DEF EventsInv, OnceEach
  <2>2. \A x \in NoticeRuns : ~syncRun'[x].looked
    <3> SUFFICES ASSUME NEW x \in NoticeRuns, syncRun'[x].looked PROVE FALSE
      OBVIOUS
    <3>1. x # s /\ syncRun'[x] = syncRun[x]
      BY <1>6, <1>8
    <3>2. syncRun[x] # NoRun
      BY <1>0, <3>1, RunIs
    <3> QED
      BY <1>0, <2>1, <3>1, <3>2
  <2>3. ASSUME NEW x \in DOMAIN new, NEW y \in DOMAIN new, x # y, new[x].key = new[y].key
        PROVE  new[x].key = <<>>
    <3>1. CASE x \in DOMAIN event /\ y \in DOMAIN event
      <4>1. new[x].key = event[x].key /\ new[y].key = event[y].key
        BY <1>10, <3>1
      <4> QED
        BY <2>1, <2>3, <3>1, <4>1
    <3>2. CASE x \in DOMAIN event /\ y \notin DOMAIN event
      <4>1. f = 0 /\ new[y].key = e.key /\ new[x].key = event[x].key
        BY <1>10, <3>2
      <4> QED
        BY <2>1, <2>3, <3>2, <4>1 DEF NoneWith
    <3>3. CASE x \notin DOMAIN event /\ y \in DOMAIN event
      <4>1. f = 0 /\ new[x].key = e.key /\ new[y].key = event[y].key
        BY <1>10, <3>3
      <4> QED
        BY <2>1, <2>3, <3>3, <4>1 DEF NoneWith
    <3>4. CASE x \notin DOMAIN event /\ y \notin DOMAIN event
      BY <1>10, <2>3, <3>4
    <3> QED
      BY <3>1, <3>2, <3>3, <3>4
  <2>4. \A x, t \in NoticeRuns : syncRun'[x] # NoRun /\ syncRun'[t] # NoRun => x = t
    BY <1>13, <2>1
  <2> QED
    BY <2>2, <2>3, <2>4
<1>15. PICK w : w = NoticeEvents(notice)
  OBVIOUS
<1>16. ASSUME CopiedSoFar(s)
       PROVE  /\ Len(w) - L \in Nat /\ CopiedUpTo(Len(w) - L + 1)'
  <2>1. Len(w) - L \in Nat /\ (IF f = 0 THEN TRUE ELSE event[f].key = e.key)
    BY <1>0, <1>1, <1>15, <1>16 DEF CopiedSoFar
  <2>2. ~gone
    <3>1. e.key # <<>>
      BY <1>1, AnnouncedSound
    <3> QED
      BY <1>2, <2>1, <3>1 DEF NoEvent
  <2>3. PICK n \in Nat : n = Len(w) - L
    BY <2>1
  <2>4. event' = Stored(e, syncRun[s].found) /\ e = Head(syncRun[s].todo)
        /\ n = Len(NoticeEvents(notice)) - Len(syncRun[s].todo) /\ UNCHANGED notice
    BY <1>1, <1>3, <1>4, <1>15, <2>2, <2>3
  <2>5. CopiedUpTo(n + 1)'
    BY <1>0, <1>1, <1>16, <2>4, OneMoreCopied
  <2> QED
    BY <2>1, <2>3, <2>5
<1>17. UndisturbedCopies'
  <2> SUFFICES ASSUME NEW x \in undisturbed', syncRun'[x] # NoRun PROVE CopiedSoFar(x)'
    BY DEF UndisturbedCopies
  <2>1. x \in NoticeRuns /\ x = s /\ s \in undisturbed
    BY <1>0, <1>4, <1>13, DisturbSpares DEF EventsTyped
  <2>2. CopiedSoFar(s)
    BY <1>0, <2>1 DEF EventsInv, UndisturbedCopies
  <2>3. \A t \in NoticeRuns : syncRun'[t] # NoRun => t = s
    BY <1>13, <2>2 DEF CopiedSoFar
  <2>4. r.todo = Tail(todo) /\ L # 1 /\ ~gone
    BY <1>6, <1>8, <2>1
  <2>5. PICK n \in Nat : n = Len(w) - L
    BY <1>16, <2>2
  <2>6. \A j \in 1..L : todo[j] = w[n + j]
    BY <1>1, <1>15, <2>2, <2>5 DEF CopiedSoFar
  <2>7. PICK rest \in Seq(Announced) : rest = Tail(todo) /\ Len(rest) = L - 1
                                       /\ \A j \in 1..(L - 1) : rest[j] = todo[j + 1]
    <3>1. todo \in Seq(Announced) /\ Len(todo) \in Nat \ {0} /\ L = Len(todo)
      BY <1>1
    <3>2. PICK rest : rest = Tail(todo)
      OBVIOUS
    <3>3. rest \in Seq(Announced) /\ Len(rest) = Len(todo) - 1
      BY <3>1, <3>2
    <3>4. \A j \in 1..(Len(todo) - 1) : rest[j] = todo[j + 1]
      BY <3>1, <3>2
    <3> QED
      BY <3>1, <3>2, <3>3, <3>4, Zenon
  <2>8. Len(w) - Len(rest) = n + 1
    <3>1. w \in Seq(Announced)
      BY <1>0, <1>15, NoticeIsSequence DEF EventsTyped
    <3>2. Len(w) \in Nat
      BY <3>1
    <3>3. PICK k, l : k = Len(w) /\ l = Len(rest)
      OBVIOUS
    <3>4. k \in Nat /\ n = k - L /\ l = L - 1 /\ L \in Nat
      BY <1>1, <2>5, <2>7, <3>2, <3>3
    <3>5. k - l = n + 1
      BY <3>4
    <3> QED
      BY <3>3, <3>5
  <2>9. \A j \in 1..Len(rest) : rest[j] = w[(n + 1) + j]
    <3> SUFFICES ASSUME NEW j \in 1..(L - 1) PROVE rest[j] = w[(n + 1) + j]
      BY <2>7
    <3>1. j + 1 \in 1..L /\ n + (j + 1) = (n + 1) + j
      BY <1>1
    <3> QED
      BY <1>1, <2>6, <2>7, <3>1
  <2>10. CopiedUpTo(n + 1)'
    BY <1>16, <2>2, <2>5
  <2>11. CopiedUpTo(Len(w) - Len(rest))'
    BY <2>8, <2>10
  <2>12. NoticeEvents(notice') = w /\ syncRun'[s].todo = rest /\ syncRun'[s].looked = FALSE
    BY <1>4, <1>6, <1>8, <1>15, <2>4, <2>7
  <2>13. /\ Len(w) - Len(rest) \in Nat
         /\ \A j \in 1..Len(rest) : rest[j] = w[Len(w) - Len(rest) + j]
    <3>1. n + 1 \in Nat
      OBVIOUS
    <3> QED
      BY <2>8, <2>9, <3>1, Zenon
  <2> QED
    BY <2>1, <2>3, <2>11, <2>12, <2>13 DEF CopiedSoFar
<1>18. ShownIsCopied'
  <2> SUFFICES ASSUME shown' PROVE CopiedUpTo(Len(w))'
    BY <1>4, <1>15 DEF ShownIsCopied
  <2>1. L = 1 /\ CopiedSoFar(s)
    BY <1>0, <1>4 DEF EventsInv, UndisturbedCopies
  <2>2. CopiedUpTo(Len(w) - L + 1)' /\ Len(w) - L \in Nat
    BY <1>16, <2>1
  <2>3. Len(w) \in Nat
    <3>1. w \in Seq(Announced)
      BY <1>0, <1>15, NoticeIsSequence DEF EventsTyped
    <3> QED
      BY <3>1
  <2>4. Len(w) - L + 1 = Len(w)
    BY <2>1, <2>3
  <2> QED
    BY <2>2, <2>4
<1> QED
  BY <1>11, <1>12, <1>14, <1>17, <1>18 DEF EventsInv

LEMMA KillKeeps ==
    ASSUME EventsInv, NEW s \in NoticeRuns, KillEvents(s)
    PROVE  EventsInv'
PROOF
<1>0. EventsTyped /\ syncRun \in [NoticeRuns -> SyncRuns]
  BY DEF EventsInv, EventsTyped
<1>1. PICK r : r = NoRun
  OBVIOUS
<1>2. r \in SyncRuns /\ r.looked = FALSE /\ r.found = 0
  BY <1>1 DEF NoRun, SyncRuns
<1>3. syncRun'[s] = r /\ \A t \in NoticeRuns : t # s => syncRun'[t] = syncRun[t]
  BY <1>0, <1>1 DEF KillEvents
<1>4. UNCHANGED <<notice, event, shown, overlapped>> /\ Disturb(s)
  BY DEF KillEvents
<1>5. EventsTyped'
  <2>1. syncRun' \in [NoticeRuns -> SyncRuns]
    BY <1>0, <1>1, <1>2 DEF KillEvents
  <2>2. Len(event) \in Nat
    BY <1>0 DEF EventsTyped
  <2>3. \A t \in NoticeRuns :
          /\ syncRun'[t].todo = <<>> => syncRun'[t] = NoRun
          /\ syncRun'[t].found \in 0..Len(event)
          /\ ~syncRun'[t].looked => syncRun'[t].found = 0
    BY <1>0, <1>1, <1>2, <1>3, <2>2 DEF EventsTyped
  <2>4. undisturbed' \subseteq NoticeRuns
    BY <1>0, <1>4, DisturbSpares DEF EventsTyped
  <2> QED
    BY <1>0, <1>4, <2>1, <2>3, <2>4 DEF EventsTyped
<1>6. LookKept'
  BY <1>2, <1>3, <1>4 DEF EventsInv, LookKept
<1>7. OnceEach'
  BY <1>1, <1>2, <1>3, <1>4 DEF EventsInv, OnceEach, NoneWith
<1>8. UndisturbedCopies'
  <2> SUFFICES ASSUME NEW x \in undisturbed', syncRun'[x] # NoRun PROVE FALSE
    BY DEF UndisturbedCopies
  <2>1. x \in NoticeRuns /\ x # s
    BY <1>0, <1>1, <1>3, <1>4, DisturbSpares DEF EventsTyped
  <2> QED
    BY <1>0, <1>3, <1>4, <2>1, DisturbSpares
<1>9. ShownIsCopied'
  BY <1>4 DEF EventsInv, ShownIsCopied, CopiedUpTo
<1> QED
  BY <1>5, <1>6, <1>7, <1>8, <1>9 DEF EventsInv

\* The exchange's next notice, and what staff do.
LEMMA ChangeKeeps ==
    ASSUME EventsInv, UNCHANGED <<syncRun, overlapped>>, undisturbed' = {}, shown' = FALSE,
           notice' \in Notices, event' \in Seq(EventRows), DOMAIN event' = DOMAIN event,
           \A i \in DOMAIN event : event'[i].key \in {event[i].key, <<>>}
    PROVE  EventsInv'
PROOF
<1>1. PICK new \in Seq(EventRows) : new = event'
  OBVIOUS
<1>2. EventsTyped /\ DOMAIN new = DOMAIN event
      /\ \A i \in DOMAIN new : new[i].key \in {event[i].key, <<>>}
  BY <1>1 DEF EventsInv
<1>3. PICK old \in Seq(EventRows) : old = event
  BY <1>2 DEF EventsTyped
<1>4. Len(new) = Len(old) /\ Len(old) \in Nat /\ DOMAIN old = 1..Len(old)
  BY <1>2, <1>3
<1>5. EventsTyped'
  BY <1>1, <1>2, <1>3, <1>4 DEF EventsTyped
<1>6. LookKept'
  <2> SUFFICES ASSUME NEW t \in NoticeRuns, syncRun[t].looked, syncRun[t].found # 0
               PROVE  new[syncRun[t].found].key \in {Head(syncRun[t].todo).key, <<>>}
    BY <1>1 DEF LookKept
  <2>1. event[syncRun[t].found].key \in {Head(syncRun[t].todo).key, <<>>}
    BY DEF EventsInv, LookKept
  <2>2. syncRun[t].found \in DOMAIN new
    <3>1. PICK f \in Nat : f = syncRun[t].found /\ f \in 0..Len(old)
      BY <1>2, <1>3, RunIs
    <3>2. f \in 1..Len(old)
      BY <1>4, <3>1
    <3> QED
      BY <1>2, <1>3, <1>4, <3>1, <3>2
  <2> QED
    BY <1>2, <2>1, <2>2
<1>7. OnceEach'
  <2> SUFFICES ASSUME ~overlapped
               PROVE  /\ \A i, j \in DOMAIN new : i # j /\ new[i].key = new[j].key => new[i].key = <<>>
                      /\ \A s, t \in NoticeRuns : syncRun[s] # NoRun /\ syncRun[t] # NoRun => s = t
                      /\ \A s \in NoticeRuns : syncRun[s].looked /\ syncRun[s].found = 0 =>
                           \A i \in DOMAIN new : new[i].key # Head(syncRun[s].todo).key
    BY <1>1 DEF OnceEach, NoneWith
  <2>1. /\ \A i, j \in DOMAIN event : i # j /\ event[i].key = event[j].key => event[i].key = <<>>
        /\ \A s, t \in NoticeRuns : syncRun[s] # NoRun /\ syncRun[t] # NoRun => s = t
        /\ \A s \in NoticeRuns : syncRun[s].looked /\ syncRun[s].found = 0 =>
             \A i \in DOMAIN event : event[i].key # Head(syncRun[s].todo).key
    BY DEF EventsInv, OnceEach, NoneWith
  <2>2. \A i, j \in DOMAIN new : i # j /\ new[i].key = new[j].key => new[i].key = <<>>
    BY <1>2, <2>1
  <2>3. ASSUME NEW s \in NoticeRuns, syncRun[s].looked, syncRun[s].found = 0, NEW i \in DOMAIN new
        PROVE  new[i].key # Head(syncRun[s].todo).key
    <3>1. event[i].key # Head(syncRun[s].todo).key
      BY <1>2, <2>1, <2>3
    <3>2. Head(syncRun[s].todo).key # <<>>
      <4>1. PICK e \in Announced : e = Head(syncRun[s].todo)
        BY <1>2, <2>3, RunIs
      <4> QED
        BY <4>1, AnnouncedSound
    <3> QED
      BY <1>2, <3>1, <3>2
  <2> QED
    BY <2>1, <2>2, <2>3
<1> QED
  BY <1>5, <1>6, <1>7 DEF EventsInv, UndisturbedCopies, ShownIsCopied

LEMMA EditKeeps ==
    ASSUME EventsInv, NEW i \in DOMAIN event, EditEvent(i)
    PROVE  EventsInv'
PROOF
<1>1. PICK old \in Seq(EventRows) : old = event
  BY DEF EventsInv, EventsTyped
<1>2. i \in DOMAIN old /\ old[i] \in EventRows
  BY <1>1
<1>3. PICK row \in EventRows : row = old[i]
  BY <1>2
<1>4. row = [key |-> row.key, text |-> row.text, public |-> row.public] /\ row # NoEvent
      /\ row.key \in EventKeys /\ row.text \in EventTexts /\ row.public \in BOOLEAN
  BY <1>1, <1>3 DEF EventRows, EditEvent
<1>5. row.key # <<>>
  BY <1>3, <1>4 DEF EventRows
<1>6. PICK no : no = FALSE
  OBVIOUS
<1>7. PICK staff : staff = <<"by staff">>
  OBVIOUS
<1>8. [row EXCEPT !.public = no] = [key |-> row.key, text |-> row.text, public |-> no]
      /\ [row EXCEPT !.text = staff] = [key |-> row.key, text |-> staff, public |-> row.public]
  BY <1>4
<1>9. no \in BOOLEAN /\ staff \in EventTexts
  BY <1>6, <1>7 DEF EventTexts
<1>10. PICK e : e \in {NoEvent, [row EXCEPT !.public = no], [row EXCEPT !.text = staff]}
                /\ event' = [old EXCEPT ![i] = e]
  BY <1>1, <1>3, <1>6, <1>7 DEF EditEvent
<1>11. e \in EventRows /\ e.key \in {row.key, <<>>}
  <2>1. CASE e = NoEvent
    BY <2>1 DEF NoEvent, EventRows, EventKeys, EventTexts
  <2>2. CASE e = [row EXCEPT !.public = no]
    <3>1. e = [key |-> row.key, text |-> row.text, public |-> no]
      BY <1>8, <2>2
    <3> QED
      BY <1>4, <1>5, <1>9, <3>1 DEF EventRows
  <2>3. CASE e = [row EXCEPT !.text = staff]
    <3>1. e = [key |-> row.key, text |-> staff, public |-> row.public]
      BY <1>8, <2>3
    <3> QED
      BY <1>4, <1>5, <1>9, <3>1 DEF EventRows
  <2> QED
    BY <1>10, <2>1, <2>2, <2>3
<1>12. PICK new : new = [old EXCEPT ![i] = e]
  OBVIOUS
<1>13. /\ new \in Seq(EventRows) /\ DOMAIN new = DOMAIN old
       /\ \A j \in DOMAIN old : new[j].key \in {old[j].key, <<>>}
  BY <1>2, <1>3, <1>11, <1>12
<1>14. UNCHANGED <<syncRun, overlapped>> /\ undisturbed' = {} /\ shown' = FALSE /\ notice' \in Notices
  BY DEF EventsInv, EventsTyped, EditEvent, Change
<1>15. /\ event' \in Seq(EventRows) /\ DOMAIN event' = DOMAIN event
       /\ \A j \in DOMAIN event : event'[j].key \in {event[j].key, <<>>}
  BY <1>1, <1>10, <1>12, <1>13
<1> QED
  BY <1>14, <1>15, ChangeKeeps

LEMMA EventsInductive == EventsInv /\ [EventsNext]_eventVars => EventsInv'
PROOF
<1> SUFFICES ASSUME EventsInv, [EventsNext]_eventVars PROVE EventsInv'
  OBVIOUS
<1>1. ASSUME NEW s \in NoticeRuns, BeginEvents(s) PROVE EventsInv'
  BY <1>1, BeginKeeps
<1>2. ASSUME NEW s \in NoticeRuns, FindEvent(s) PROVE EventsInv'
  BY <1>2, FindKeeps
<1>3. ASSUME NEW s \in NoticeRuns, StoreEvent(s) PROVE EventsInv'
  BY <1>3, StoreKeeps
<1>4. ASSUME NEW s \in NoticeRuns, KillEvents(s) PROVE EventsInv'
  BY <1>4, KillKeeps
<1>5. ASSUME NEW n \in Notices, Announce(n) PROVE EventsInv'
  <2>1. event \in Seq(EventRows)
    BY DEF EventsInv, EventsTyped
  <2>2. UNCHANGED <<syncRun, overlapped, event>> /\ undisturbed' = {} /\ shown' = FALSE
        /\ notice' \in Notices
    BY <1>5 DEF Announce, Change
  <2>3. event' \in Seq(EventRows) /\ DOMAIN event' = DOMAIN event
        /\ \A i \in DOMAIN event : event'[i].key \in {event[i].key, <<>>}
    BY <2>1, <2>2
  <2> QED
    BY <2>2, <2>3, ChangeKeeps
<1>6. ASSUME NEW i \in DOMAIN event, EditEvent(i) PROVE EventsInv'
  BY <1>6, EditKeeps
<1>7. CASE UNCHANGED eventVars
  <2>1. UNCHANGED <<notice, event, syncRun, undisturbed, shown, overlapped>>
    BY <1>7 DEF eventVars
  <2>2. EventsTyped'
    BY <2>1 DEF EventsInv, EventsTyped
  <2>3. LookKept' /\ OnceEach'
    BY <2>1 DEF EventsInv, LookKept, OnceEach, NoneWith
  <2>4. ShownIsCopied'
    BY <2>1 DEF EventsInv, ShownIsCopied, CopiedUpTo
  <2>5. ASSUME NEW s \in undisturbed, CopiedSoFar(s) PROVE CopiedSoFar(s)'
    <3>1. PICK w, todo : w = NoticeEvents(notice) /\ todo = syncRun[s].todo
      OBVIOUS
    <3>2. NoticeEvents(notice') = w /\ syncRun'[s].todo = todo
      BY <2>1, <3>1
    <3>3. PICK n : n = Len(w) - Len(todo)
      OBVIOUS
    <3>4. CopiedUpTo(n)
      BY <2>5, <3>1, <3>3 DEF CopiedSoFar
    <3>5. CopiedUpTo(n)'
      BY <2>1, <3>4 DEF CopiedUpTo
    <3>6. CopiedUpTo(Len(w) - Len(todo))'
      BY <3>3, <3>5
    <3> QED
      BY <2>1, <2>5, <3>1, <3>2, <3>6 DEF CopiedSoFar, NoneWith
  <2>6. UndisturbedCopies'
    BY <2>1, <2>5 DEF EventsInv, UndisturbedCopies
  <2> QED
    BY <2>2, <2>3, <2>4, <2>6 DEF EventsInv
<1> QED
  BY <1>1, <1>2, <1>3, <1>4, <1>5, <1>6, <1>7 DEF EventsNext

\* What PagesCopied says of the events.
EventsCopied ==
    /\ LET wanted == NoticeEvents(notice)
       IN  shown => \A i \in DOMAIN wanted :
             (\A j \in DOMAIN wanted : j > i => wanted[j].key # wanted[i].key) =>
               \E e \in DOMAIN event : event[e] = EventRow(wanted[i], TRUE)
    /\ overlapped \/ \A i, j \in DOMAIN event :
         i # j /\ event[i] # NoEvent => event[i].key # event[j].key

LEMMA CopiedByInv == EventsInv => EventsCopied
PROOF
<1> SUFFICES ASSUME EventsInv PROVE EventsCopied
  OBVIOUS
<1>1. PICK w \in Seq(Announced) : w = NoticeEvents(notice)
  BY NoticeIsSequence DEF EventsInv, EventsTyped
<1>2. DOMAIN w = 1..Len(w)
  OBVIOUS
<1>3. shown => \A i \in DOMAIN w :
         (\A j \in DOMAIN w : j > i => w[j].key # w[i].key) =>
           \E e \in DOMAIN event : event[e] = EventRow(w[i], TRUE)
  BY <1>1, <1>2 DEF EventsInv, ShownIsCopied, CopiedUpTo
<1>4. \A i \in DOMAIN event : event[i] # NoEvent => event[i].key # <<>>
  <2>1. event \in Seq(EventRows)
    BY DEF EventsInv, EventsTyped
  <2>2. \A i \in DOMAIN event : event[i] \in EventRows
    BY <2>1
  <2> QED
    BY <2>2 DEF EventRows
<1>5. overlapped \/ \A i, j \in DOMAIN event :
         i # j /\ event[i] # NoEvent => event[i].key # event[j].key
  BY <1>4 DEF EventsInv, OnceEach
<1> QED
  BY <1>1, <1>3, <1>5 DEF EventsCopied

-----------------------------------------------------------------------------
IsStock(x) == x = [sector |-> x.sector, name |-> x.name, known |-> x.known]

SectorsTyped ==
    /\ directory \in Directories /\ pagesLeft \in Seq(Nat)
    /\ stock = [c \in Codes |-> stock[c]] /\ \A c \in Codes : IsStock(stock[c])

\* The pages a run has left are the last ones.
LastPages ==
    pagesLeft # <<>> =>
      /\ Len(directory) - Len(pagesLeft) \in Nat
      /\ \A i \in 1..Len(pagesLeft) : pagesLeft[i] = Len(directory) - Len(pagesLeft) + i

\* The stock c is as the last of the first n pages that list it has it.
ClassifiedBy(c, n) ==
    LET on == {i \in 1..n : c \in DOMAIN directory[i].names}
    IN  stock[c].known /\ on # {} =>
          \E i \in on : /\ \A j \in on : j <= i
                        /\ stock[c].sector = directory[i].sector
                        /\ directory[i].names[c] \in {"", stock[c].name}
ClassifiedUpTo(n) == \A c \in Codes : ClassifiedBy(c, n)

\* A run that missed nothing has classified by the pages it no longer has left.
ThoroughClassifies ==
    thorough /\ pagesLeft # <<>> => ClassifiedUpTo(Len(directory) - Len(pagesLeft))

ClassifiedByAll == classified => ClassifiedUpTo(Len(directory))

SectorsInv == SectorsTyped /\ LastPages /\ ThoroughClassifies /\ ClassifiedByAll

LEMMA DirectoryIsSequence ==
    ASSUME NEW d \in Directories
    PROVE  Len(d) \in Nat /\ DOMAIN d = 1..Len(d) /\ (d # <<>> => Len(d) # 0)
PROOF
<1>1. d \in Seq({d[i] : i \in DOMAIN d})
  BY PagesAssumption DEF IsSequence
<1> QED
  BY <1>1

LEMMA SectorsStart == SectorsInit => SectorsInv
PROOF
<1> SUFFICES ASSUME SectorsInit PROVE SectorsInv
  OBVIOUS
<1>1. /\ directory \in Directories /\ stock = [c \in Codes |-> Unlisted]
      /\ pagesLeft = <<>> /\ classified = FALSE
  BY DEF SectorsInit
<1>2. \A c \in Codes : stock[c] = Unlisted
  BY <1>1
<1>3. PICK u : u = Unlisted /\ IsStock(u)
  <2>1. PICK u : u = Unlisted
    OBVIOUS
  <2>2. u = [sector |-> u.sector, name |-> u.name, known |-> u.known]
    BY <2>1 DEF Unlisted
  <2> QED
    BY <2>1, <2>2 DEF IsStock
<1>4. \A c \in Codes : IsStock(stock[c])
  BY <1>2, <1>3
<1>5. stock = [c \in Codes |-> stock[c]]
  BY <1>1
<1> QED
  BY <1>1, <1>4, <1>5 DEF SectorsInv, SectorsTyped, LastPages, ThoroughClassifies, ClassifiedByAll

LEMMA BeginSectorsKeeps == ASSUME SectorsInv, BeginSectors PROVE SectorsInv'
PROOF
<1>1. PICK q, L : q = [i \in DOMAIN directory |-> i] /\ L = Len(directory)
  OBVIOUS
<1>2. L \in Nat /\ DOMAIN directory = 1..L
  BY <1>1, DirectoryIsSequence DEF SectorsInv, SectorsTyped
<1>3. q \in Seq(Nat) /\ Len(q) = L /\ \A i \in 1..L : q[i] = i
  BY <1>1, <1>2
<1>4. pagesLeft' = q /\ UNCHANGED <<directory, stock, classified>>
  BY <1>1 DEF BeginSectors
<1>5. L - L = 0
  BY <1>2
<1>6. SectorsTyped'
  BY <1>3, <1>4 DEF SectorsInv, SectorsTyped
<1>7. LastPages'
  BY <1>1, <1>3, <1>4, <1>5 DEF LastPages
<1>8. ThoroughClassifies'
  <2>1. Len(directory') - Len(pagesLeft') = 0
    BY <1>1, <1>3, <1>4, <1>5
  <2>2. ClassifiedUpTo(0)'
    <3>1. 1..0 = {}
      OBVIOUS
    <3> QED
      BY <3>1, Zenon DEF ClassifiedUpTo, ClassifiedBy
  <2>3. PICK n : n = 0
    OBVIOUS
  <2>4. ClassifiedUpTo(n)'
    BY <2>2, <2>3
  <2> QED
    BY <2>1, <2>3, <2>4 DEF ThoroughClassifies
<1>9. ClassifiedByAll'
  BY <1>4 DEF SectorsInv, ClassifiedByAll, ClassifiedUpTo, ClassifiedBy
<1> QED
  BY <1>6, <1>7, <1>8, <1>9 DEF SectorsInv

\* What classifying c by a page makes of it.
LEMMA ClassifiedIs ==
    ASSUME NEW c \in Codes, IsStock(stock[c]), NEW sheet, NEW new, new = Classified(c, sheet)
    PROVE  /\ IsStock(new) /\ new.known = stock[c].known /\ new.sector = sheet.sector
           /\ sheet.names[c] \in {"", new.name}
PROOF
<1>1. PICK o : o = stock[c]
  OBVIOUS
<1>2. o = [sector |-> o.sector, name |-> o.name, known |-> o.known]
  BY <1>1 DEF IsStock
<1>3. PICK se, na : se = sheet.sector /\ na = sheet.names[c]
  OBVIOUS
<1>4. new = [[o EXCEPT !.sector = se] EXCEPT !.name = IF na = "" THEN @ ELSE na]
  BY <1>1, <1>3 DEF Classified
<1>5. PICK m : m = [sector |-> se, name |-> o.name, known |-> o.known]
  OBVIOUS
<1>6. [o EXCEPT !.sector = se] = m
  BY <1>2, <1>5
<1>7. m = [sector |-> m.sector, name |-> m.name, known |-> m.known]
      /\ m.sector = se /\ m.name = o.name /\ m.known = o.known
  BY <1>5
<1>8. PICK x : x = IF na = "" THEN m.name ELSE na
  OBVIOUS
<1>9. new = [m EXCEPT !.name = x]
  BY <1>4, <1>6, <1>8
<1>10. new = [sector |-> m.sector, name |-> x, known |-> m.known]
  BY <1>7, <1>9
<1>11. new.sector = se /\ new.name = x /\ new.known = o.known
  BY <1>7, <1>10
<1>12. IsStock(new)
  BY <1>7, <1>10, <1>11 DEF IsStock
<1> QED
  BY <1>1, <1>3, <1>8, <1>11, <1>12

LEMMA ReadSectorKeeps == ASSUME SectorsInv, ReadSector PROVE SectorsInv'
PROOF
<1>1. PICK L, k, h : L = Len(directory) /\ k = Len(pagesLeft) /\ h = Head(pagesLeft)
  OBVIOUS
<1>2. PICK sheet, listed : sheet = directory[h] /\ listed = {c \in DOMAIN sheet.names : stock[c].known}
  OBVIOUS
<1>3. PICK done \in SUBSET listed, killed \in BOOLEAN :
        /\ stock' = [c \in Codes |-> IF c \in done THEN Classified(c, sheet) ELSE stock[c]]
        /\ pagesLeft' = IF killed THEN <<>> ELSE Tail(pagesLeft)
        /\ thorough' = (thorough /\ done = listed /\ ~killed)
        /\ classified' = (thorough' /\ pagesLeft' = <<>>)
  BY <1>1, <1>2 DEF ReadSector
<1>4. pagesLeft # <<>> /\ UNCHANGED directory
  BY DEF ReadSector
<1>5. PICK q \in Seq(Nat) : q = pagesLeft
  BY DEF SectorsInv, SectorsTyped
<1>6. k \in Nat \ {0} /\ L \in Nat /\ h = q[1] /\ q # <<>>
  BY <1>1, <1>4, <1>5, DirectoryIsSequence DEF SectorsInv, SectorsTyped
<1>7. PICK n \in Nat : n = L - k /\ \A i \in 1..k : q[i] = n + i
  BY <1>1, <1>4, <1>5 DEF SectorsInv, LastPages
<1>8. h = n + 1
  BY <1>6, <1>7
<1>9. \A c \in Codes : stock'[c] = IF c \in done THEN Classified(c, sheet) ELSE stock[c]
  BY <1>3
<1>10. \A c \in Codes : IsStock(stock[c])
  BY DEF SectorsInv, SectorsTyped
<1>11. PICK new : new = stock'
  OBVIOUS
<1>12. ASSUME NEW c \in Codes
       PROVE  /\ IsStock(new[c]) /\ new[c].known = stock[c].known
              /\ c \in done => new[c].sector = sheet.sector /\ sheet.names[c] \in {"", new[c].name}
              /\ c \notin done => new[c] = stock[c]
  <2>1. CASE c \in done
    <3>1. PICK x : x = new[c]
      OBVIOUS
    <3>2. x = Classified(c, sheet)
      BY <1>9, <1>11, <2>1, <3>1
    <3>3. IsStock(x) /\ x.known = stock[c].known /\ x.sector = sheet.sector
          /\ sheet.names[c] \in {"", x.name}
      BY <1>10, <3>2, ClassifiedIs
    <3> QED
      BY <2>1, <3>1, <3>3
  <2>2. CASE c \notin done
    BY <1>9, <1>10, <1>11, <2>2
  <2> QED
    BY <2>1, <2>2
<1>13. PICK rest \in Seq(Nat) :
         /\ rest = pagesLeft'
         /\ rest # <<>> => ~killed /\ Len(rest) = k - 1
         /\ rest # <<>> => \A i \in 1..Len(rest) : rest[i] = q[i + 1]
         /\ rest = <<>> /\ ~killed => k = 1
  <2>1. CASE killed
    <3>1. <<>> \in Seq(Nat)
      OBVIOUS
    <3>2. pagesLeft' = <<>>
      BY <1>3, <2>1, Zenon
    <3> QED
      BY <2>1, <3>1, <3>2, Zenon
  <2>2. CASE ~killed
    <3>1. PICK rest : rest = Tail(q)
      OBVIOUS
    <3>2. rest \in Seq(Nat) /\ Len(rest) = Len(q) - 1
      BY <1>6, <3>1
    <3>3. \A i \in 1..(Len(q) - 1) : rest[i] = q[i + 1]
      BY <1>6, <3>1
    <3>4. rest = <<>> => Len(q) = 1
      <4>1. Len(q) \in Nat
        OBVIOUS
      <4>2. rest = <<>> => Len(rest) = 0
        OBVIOUS
      <4> QED
        BY <3>2, <4>1, <4>2
    <3>5. rest = pagesLeft' /\ k = Len(q)
      BY <1>1, <1>3, <1>5, <2>2, <3>1
    <3>6. \A i \in 1..Len(rest) : rest[i] = q[i + 1]
      BY <3>2, <3>3, Zenon
    <3> QED
      BY <2>2, <3>2, <3>4, <3>5, <3>6, Zenon
  <2> QED
    BY <2>1, <2>2
<1>14. SectorsTyped'
  <2>1. new = [c \in Codes |-> new[c]]
    BY <1>3, <1>11
  <2> QED
    BY <1>4, <1>11, <1>12, <1>13, <2>1 DEF SectorsInv, SectorsTyped
<1>15. ASSUME rest # <<>>
       PROVE  L - Len(rest) = n + 1 /\ \A i \in 1..Len(rest) : rest[i] = (n + 1) + i
  <2>1. Len(rest) = k - 1
    BY <1>13, <1>15
  <2>2. \A i \in 1..(k - 1) : i + 1 \in 1..k
    BY <1>6
  <2>3. \A i \in 1..(k - 1) : rest[i] = n + (i + 1)
    BY <1>7, <1>13, <1>15, <2>1, <2>2
  <2> QED
    BY <1>6, <1>7, <2>1, <2>3
<1>16. LastPages'
  <2> SUFFICES ASSUME rest # <<>>
               PROVE  /\ L - Len(rest) \in Nat
                      /\ \A i \in 1..Len(rest) : rest[i] = L - Len(rest) + i
    BY <1>1, <1>4, <1>13 DEF LastPages
  <2>1. n + 1 \in Nat
    OBVIOUS
  <2> QED
    BY <1>15, <2>1
<1>17. ASSUME thorough' PROVE ClassifiedUpTo(n + 1)'
  <2>1. thorough /\ done = listed
    BY <1>3, <1>17
  <2>2. ClassifiedUpTo(n)
    BY <1>1, <1>4, <1>7, <2>1 DEF SectorsInv, ThoroughClassifies
  <2>3. PICK d : d = directory
    OBVIOUS
  <2>4. sheet = d[n + 1] /\ directory' = d
    BY <1>2, <1>4, <1>8, <2>3
  <2>5. ASSUME NEW c \in Codes, new[c].known,
               \E i \in 1..(n + 1) : c \in DOMAIN d[i].names
        PROVE  \E i \in 1..(n + 1) : /\ c \in DOMAIN d[i].names
                                     /\ \A j \in 1..(n + 1) : c \in DOMAIN d[j].names => j <= i
                                     /\ new[c].sector = d[i].sector
                                     /\ d[i].names[c] \in {"", new[c].name}
    <3>1. CASE c \in DOMAIN sheet.names
      <4>1. c \in done
        BY <1>2, <1>12, <2>1, <2>5, <3>1
      <4>2. n + 1 \in 1..(n + 1) /\ \A j \in 1..(n + 1) : j <= n + 1
        OBVIOUS
      <4> QED
        BY <1>12, <2>4, <3>1, <4>1, <4>2
    <3>2. CASE c \notin DOMAIN sheet.names
      <4>1. c \notin done
        BY <1>2, <3>2
      <4>2. \A i \in 1..(n + 1) : c \in DOMAIN d[i].names => i \in 1..n
        BY <2>4, <3>2
      <4>3. ClassifiedBy(c, n) /\ stock[c].known /\ new[c] = stock[c]
        BY <1>12, <2>2, <2>5, <4>1 DEF ClassifiedUpTo
      <4>4. PICK i \in 1..n : /\ c \in DOMAIN d[i].names
                             /\ \A j \in 1..n : c \in DOMAIN d[j].names => j <= i
                             /\ new[c].sector = d[i].sector
                             /\ d[i].names[c] \in {"", new[c].name}
        BY <2>3, <2>5, <4>2, <4>3 DEF ClassifiedBy
      <4>5. i \in 1..(n + 1)
        OBVIOUS
      <4> QED
        BY <4>2, <4>4, <4>5
    <3> QED
      BY <3>1, <3>2
  <2> QED
    BY <1>11, <2>4, <2>5 DEF ClassifiedUpTo, ClassifiedBy
<1>18. ThoroughClassifies'
  <2> SUFFICES ASSUME thorough', rest # <<>> PROVE ClassifiedUpTo(L - Len(rest))'
    BY <1>1, <1>4, <1>13 DEF ThoroughClassifies
  <2> QED
    BY <1>15, <1>17
<1>19. ClassifiedByAll'
  <2> SUFFICES ASSUME classified' PROVE ClassifiedUpTo(L)'
    BY <1>1, <1>4 DEF ClassifiedByAll
  <2>1. k = 1
    BY <1>3, <1>13
  <2>2. n + 1 = L
    BY <1>6, <1>7, <2>1
  <2> QED
    BY <1>3, <1>17, <2>2
<1> QED
  BY <1>14, <1>16, <1>18, <1>19 DEF SectorsInv

LEMMA QuoteKeeps == ASSUME SectorsInv, NEW c \in Codes, Quote(c) PROVE SectorsInv'
PROOF
<1>1. PICK yes : yes = TRUE
  OBVIOUS
<1>2. PICK o : o = stock[c]
  OBVIOUS
<1>3. stock = [x \in Codes |-> stock[x]] /\ \A x \in Codes : IsStock(stock[x])
  BY DEF SectorsInv, SectorsTyped
<1>4. o = [sector |-> o.sector, name |-> o.name, known |-> o.known]
  BY <1>2, <1>3 DEF IsStock
<1>5. PICK r : r = [o EXCEPT !.known = yes]
  OBVIOUS
<1>6. r = [sector |-> o.sector, name |-> o.name, known |-> yes]
  BY <1>4, <1>5
<1>7. IsStock(r)
  BY <1>6 DEF IsStock
<1>8. stock' = [stock EXCEPT ![c] = r]
  BY <1>1, <1>2, <1>5 DEF Quote
<1>9. PICK new : new = stock'
  OBVIOUS
<1>10. new = [x \in Codes |-> new[x]] /\ new[c] = r
       /\ \A x \in Codes : x # c => new[x] = stock[x]
  BY <1>3, <1>8, <1>9
<1>11. \A x \in Codes : IsStock(new[x])
  BY <1>3, <1>7, <1>10
<1>12. UNCHANGED <<directory, pagesLeft>> /\ thorough' = FALSE /\ classified' = FALSE
  BY DEF Quote
<1> QED
  BY <1>9, <1>10, <1>11, <1>12
     DEF SectorsInv, SectorsTyped, LastPages, ThoroughClassifies, ClassifiedByAll

LEMMA SectorsInductive == SectorsInv /\ [SectorsNext]_sectorVars => SectorsInv'
PROOF
<1> SUFFICES ASSUME SectorsInv, [SectorsNext]_sectorVars PROVE SectorsInv'
  OBVIOUS
<1>1. CASE BeginSectors
  BY <1>1, BeginSectorsKeeps
<1>2. CASE ReadSector
  BY <1>2, ReadSectorKeeps
<1>3. CASE Reclassify
  <2>1. /\ UNCHANGED <<stock, pagesLeft>> /\ thorough' = FALSE /\ classified' = FALSE
        /\ directory' \in Directories /\ Len(directory') = Len(directory)
    BY <1>3 DEF Reclassify
  <2> QED
    BY <2>1 DEF SectorsInv, SectorsTyped, LastPages, ThoroughClassifies, ClassifiedByAll
<1>4. ASSUME NEW c \in Codes, Quote(c) PROVE SectorsInv'
  BY <1>4, QuoteKeeps
<1>5. CASE UNCHANGED sectorVars
  <2>1. UNCHANGED <<directory, stock, pagesLeft, thorough, classified>>
    BY <1>5 DEF sectorVars
  <2>2. SectorsTyped' /\ LastPages'
    BY <2>1 DEF SectorsInv, SectorsTyped, LastPages
  <2>3. PICK n : n = Len(directory) - Len(pagesLeft)
    OBVIOUS
  <2>4. PICK l : l = Len(directory)
    OBVIOUS
  <2>5. ClassifiedUpTo(n) => ClassifiedUpTo(n)'
    BY <2>1 DEF ClassifiedUpTo, ClassifiedBy
  <2>6. ClassifiedUpTo(l) => ClassifiedUpTo(l)'
    BY <2>1 DEF ClassifiedUpTo, ClassifiedBy
  <2>7. ThoroughClassifies'
    BY <2>1, <2>3, <2>5 DEF SectorsInv, ThoroughClassifies
  <2>8. ClassifiedByAll'
    BY <2>1, <2>4, <2>6 DEF SectorsInv, ClassifiedByAll
  <2> QED
    BY <2>2, <2>7, <2>8 DEF SectorsInv
<1> QED
  BY <1>1, <1>2, <1>3, <1>4, <1>5 DEF SectorsNext

\* What PagesCopied says of the sectors.
SectorsCopied ==
    classified => \A c \in Codes :
      LET on == {i \in DOMAIN directory : c \in DOMAIN directory[i].names}
      IN  stock[c].known /\ on # {} =>
            \E i \in on : /\ \A j \in on : j <= i
                          /\ stock[c].sector = directory[i].sector
                          /\ directory[i].names[c] \in {"", stock[c].name}

LEMMA ClassifiedByInv == SectorsInv => SectorsCopied
PROOF
<1> SUFFICES ASSUME SectorsInv, classified PROVE SectorsCopied
  BY DEF SectorsCopied
<1>1. DOMAIN directory = 1..Len(directory)
  BY DirectoryIsSequence DEF SectorsInv, SectorsTyped
<1>2. PICK l : l = Len(directory)
  OBVIOUS
<1>3. ClassifiedUpTo(l)
  BY <1>2 DEF SectorsInv, ClassifiedByAll
<1> QED
  BY <1>1, <1>2, <1>3 DEF SectorsCopied, ClassifiedUpTo, ClassifiedBy

\* Whatever was killed before, and whatever staff did to the rows, a run that
\* nothing disturbs publishes every announced date with its last text and
\* classifies every stock it knows, and no date is stored twice before two
\* runs are made at once (dse_events.py, dse_sector_sync.py).
THEOREM PagesKept == EventsSpec /\ SectorsSpec => []PagesCopied
PROOF
<1>1. EventsSpec => []EventsInv
  BY EventsStart, EventsInductive, PTL DEF EventsSpec
<1>2. SectorsSpec => []SectorsInv
  BY SectorsStart, SectorsInductive, PTL DEF SectorsSpec
<1>3. EventsInv /\ SectorsInv => PagesCopied
  BY CopiedByInv, ClassifiedByInv DEF PagesCopied, EventsCopied, SectorsCopied
<1> QED
  BY <1>1, <1>2, <1>3, PTL
=============================================================================
