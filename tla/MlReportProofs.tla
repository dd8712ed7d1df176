--------------------------- MODULE MlReportProofs ---------------------------
(* MlReportDelivery without forced resends, for any number of beat and     *)
(* manual tasks, retries, faults and versions of the report.               *)
EXTENDS MlReportDelivery, TLAPS

Record == [status : {NoRow, "pending", "retrying", "failed", "sent", "skipped"},
           chunksSent : 0..MaxChunk, text : Evidence]
Task == [step : Steps, retries : 0..MaxRetries, text : Evidence, sent : 0..MaxChunk]

\* Only the holder of the lock works on the row.
OneWorker == \A t \in Tasks : task[t].step \in Working => lock = t

\* The chat has the first n chunk positions.
Has(n) == \A c \in 1..n : received[c] > 0

\* What the row and the worker count as sent has been received, and the row is
\* complete when it says so; nobody sends for a row that says so.
Progress ==
    /\ Has(delivery.chunksSent)
    /\ \A t \in Tasks :
         /\ task[t].step \in {"sending", "accepted"} => Has(task[t].sent)
         /\ task[t].step = "accepted" =>
              /\ task[t].sent < MaxChunk
              /\ received[task[t].sent + 1] > 0
         /\ task[t].step \in {"sending", "accepted"} => delivery.status # "sent"
    /\ delivery.status = "sent" => delivery.chunksSent >= Chunks[delivery.text]

ReportInv == TypeOK /\ OneWorker /\ Progress

-----------------------------------------------------------------------------

\* One more receipt of chunk k takes nothing back.
LEMMA OneMore ==
    ASSUME NEW M \in Nat, NEW f \in [1..M -> Nat], NEW k \in 1..M, NEW g,
           g = [f EXCEPT ![k] = @ + 1]
    PROVE  g \in [1..M -> Nat] /\ g[k] > 0 /\ \A c \in 1..M : g[c] >= f[c]
PROOF
<1>1. f[k] \in Nat /\ f[k] + 1 \in Nat
  OBVIOUS
<1>2. g \in [1..M -> Nat]
  BY <1>1
<1>3. g[k] = f[k] + 1
  OBVIOUS
<1>4. ASSUME NEW c \in 1..M PROVE g[c] >= f[c]
  <2>1. f[c] \in Nat
    OBVIOUS
  <2>2. CASE c = k
    BY <1>1, <1>3, <2>2
  <2>3. CASE c # k
    <3>1. g[c] = f[c]
      BY <2>3
    <3> QED
      BY <2>1, <3>1
  <2> QED
    BY <2>2, <2>3
<1> QED
  BY <1>1, <1>2, <1>3, <1>4

LEMMA InitReport == Init => ReportInv
PROOF
<1> SUFFICES ASSUME Init PROVE ReportInv
  OBVIOUS
<1>0. MaxChunk \in Nat /\ MaxRetries \in Nat /\ MaxFaults \in Nat /\ 1 \in Evidence
  BY ReportAssumption
<1>1. \A t \in Tasks : task[t].step \in {"idle", "new"} /\ task[t] \in Task
  BY <1>0 DEF Init, Message, Task, Steps
<1>5. task \in [Tasks -> Task]
  BY <1>1 DEF Init
<1>2. delivery \in Record /\ delivery.chunksSent = 0 /\ delivery.status # "sent"
  BY ReportAssumption DEF Init, Record, NoRow
<1>6. received \in [1..MaxChunk -> Nat]
  BY DEF Init
<1>3. TypeOK
  <2>1. faults \in 0..MaxFaults /\ evidence \in Evidence /\ lock \in Tasks \cup {Free, Dead}
    BY <1>0 DEF Init
  <2> QED
    BY <1>2, <1>5, <1>6, <2>1 DEF Init, TypeOK, Task, Record
<1>4. OneWorker /\ Progress
  BY <1>1, <1>2 DEF OneWorker, Progress, Has, Working
<1> QED
  BY <1>3, <1>4 DEF ReportInv

LEMMA ReportStep ==
    ASSUME ForcedTasks = {}, ReportInv, [Next]_vars
    PROVE  ReportInv'
PROOF
<1> USE ReportAssumption DEF ReportInv, TypeOK, OneWorker, Progress, Has, Working, chat
<1>1. CASE ReportTime \/ Configure \/ ChangeBlocked \/ NewEvidence
  BY <1>1 DEF ReportTime, Configure, ChangeBlocked, NewEvidence, Others
<1>2. CASE LockExpires
  BY <1>2 DEF LockExpires, world
<1>0. \A t \in Tasks : task[t].step \in Steps /\ Message("idle") \in Task
                       /\ Message("queued") \in Task
  BY DEF Message, Task, Steps
<1>v. /\ MaxChunk \in Nat /\ MaxRetries \in Nat /\ MaxFaults \in Nat
      /\ \A v \in Evidence : Chunks[v] \in Nat /\ Chunks[v] <= MaxChunk
  OBVIOUS
<1>u. \A u \in Tasks : /\ task[u] \in Task /\ task[u].text \in Evidence
                       /\ task[u].sent \in Nat /\ task[u].sent <= MaxChunk
                       /\ task[u].retries \in Nat /\ task[u].retries <= MaxRetries
  BY <1>v DEF Task
<1>w. ASSUME NEW t \in Tasks, NEW new \in Task, task' = [task EXCEPT ![t] = new],
             delivery' \in Record, lock' \in Tasks \cup {Free, Dead},
             received' \in [1..MaxChunk -> Nat], repeated' \in Nat, UNCHANGED world,
             faults' \in 0..MaxFaults
      PROVE  TypeOK'
  <2>1. task' \in [Tasks -> Task]
    BY <1>w, <1>u
  <2> QED
    BY <1>w, <2>1 DEF world, Task, Record
\* A task that is not working, before and after.
<1>a. ASSUME NEW t \in Tasks, NEW new \in Task, new.step \notin Working,
             task' = [task EXCEPT ![t] = new], UNCHANGED <<world, chat, delivery>>,
             lock' = lock \/ (lock = t /\ lock' = Free) \/ (lock = t /\ lock' = Dead),
             faults' \in 0..MaxFaults
      PROVE  ReportInv'
  <2>1. TypeOK'
    BY <1>a DEF world, Task, Tasks
  <2>2. \A u \in Tasks \ {t} : task'[u] = task[u]
    BY <1>a
  <2>3. task'[t].step \notin Working
    BY <1>a
  <2>4. OneWorker'
    BY <1>a, <2>2, <2>3
  <2>5. Progress'
    BY <1>a, <2>2, <2>3
  <2> QED
    BY <2>1, <2>4, <2>5
<1>3. ASSUME NEW t \in Tasks, Submit(t) \/ Retry(t) \/ Skip(t)
      PROVE  ReportInv'
  <2>1. CASE Submit(t)
    BY <1>0, <1>a, <2>1 DEF Submit, Message, world
  <2>2. CASE Retry(t)
    <3>1. [task[t] EXCEPT !.step = "queued"] \in Task
      BY DEF Task, Steps
    <3>2. task' = [task EXCEPT ![t] = [task[t] EXCEPT !.step = "queued"]]
      BY <2>2 DEF Retry
    <3> QED
      BY <1>a, <2>2, <3>1, <3>2 DEF Retry, Task, world
  <2>3. CASE Skip(t)
    BY <1>0, <1>a, <2>3 DEF Skip, Message, world
  <2> QED
    BY <1>3, <2>1, <2>2, <2>3
<1>4. ASSUME NEW t \in Tasks, Acquire(t) PROVE ReportInv'
  <2>1. /\ lock = Free /\ lock' = t /\ UNCHANGED <<world, delivery, chat, faults>>
        /\ task' = [task EXCEPT ![t].step = "locked"]
    BY <1>4 DEF Acquire
  <2>2. \A u \in Tasks : task[u].step \notin Working
    BY <2>1
  <2>3. task'[t].step = "locked" /\ \A u \in Tasks \ {t} : task'[u] = task[u]
    BY <2>1
  <2>4. TypeOK'
    BY <2>1 DEF world, Steps
  <2>5. OneWorker'
    BY <2>1, <2>2, <2>3
  <2>6. Progress'
    BY <2>1, <2>2, <2>3
  <2> QED
    BY <2>4, <2>5, <2>6
<1>5. ASSUME NEW t \in Tasks, AlreadySent(t) PROVE ReportInv'
  BY <1>5 DEF AlreadySent, Message, Tasks, Steps, world
<1>6. ASSUME NEW t \in Tasks, Build(t) PROVE ReportInv'
  <2>1. /\ task[t].step = "locked" /\ delivery.status # "sent"
        /\ UNCHANGED <<world, lock, chat, faults>>
        /\ delivery' = [delivery EXCEPT !.status = IF @ = NoRow THEN "pending" ELSE @]
        /\ task' = [task EXCEPT ![t].step = "sending", ![t].text = evidence,
                                ![t].sent = delivery.chunksSent]
    BY <1>6 DEF Build, Resumed
  <2>2. /\ task'[t].step = "sending" /\ task'[t].sent = delivery.chunksSent
        /\ \A u \in Tasks \ {t} : task'[u] = task[u]
    BY <2>1
  <2>3. /\ delivery'.chunksSent = delivery.chunksSent
        /\ delivery'.text = delivery.text /\ delivery'.status # "sent"
        /\ delivery' \in Record
    BY <2>1 DEF NoRow, Record
  <2>4. TypeOK'
    <3> DEFINE new == [task[t] EXCEPT !.step = "sending", !.text = evidence,
                                      !.sent = delivery.chunksSent]
    <3>1. new \in Task
      BY <1>u, <1>v DEF Task, Steps
    <3>2. task' = [task EXCEPT ![t] = new]
      BY <2>1
    <3> QED
      BY <1>w, <2>1, <2>3, <3>1, <3>2
  <2>5. OneWorker'
    BY <2>1, <2>2
  <2>6. Progress'
    BY <2>1, <2>2, <2>3
  <2> QED
    BY <2>4, <2>5, <2>6
<1>7. ASSUME NEW t \in Tasks, NotConfigured(t) PROVE ReportInv'
  BY <1>7 DEF NotConfigured, End, Message, Tasks, Steps, world
<1>8. ASSUME NEW t \in Tasks, Post(t) PROVE ReportInv'
  <2>1. /\ task[t].step = "sending" /\ task[t].sent < Chunks[task[t].text]
        /\ UNCHANGED <<world, delivery, lock, faults>>
        /\ received' = [received EXCEPT ![task[t].sent + 1] = @ + 1]
        /\ repeated' \in Nat
        /\ task' = [task EXCEPT ![t].step = "accepted"]
    <3>1. Receive(t)
      BY <1>8 DEF Post
    <3>2. received' = [received EXCEPT ![task[t].sent + 1] = @ + 1]
      BY <3>1 DEF Receive
    <3>3. repeated' = repeated \/ repeated' = repeated + 1
      BY <3>1 DEF Receive
    <3>4. repeated' \in Nat
      BY <1>v, <3>3
    <3> QED
      BY <1>8, <3>2, <3>4 DEF Post, Pending
  <2>2. /\ task'[t].step = "accepted" /\ task'[t].sent = task[t].sent
        /\ \A u \in Tasks \ {t} : task'[u] = task[u]
    BY <2>1
  <2>0. task[t].sent \in Nat /\ task[t].sent < MaxChunk
    BY <2>1, <1>u, <1>v
  <2>3. /\ received' \in [1..MaxChunk -> Nat]
        /\ \A c \in 1..MaxChunk : received'[c] >= received[c]
        /\ received'[task[t].sent + 1] > 0
    <3>1. task[t].sent + 1 \in 1..MaxChunk
      BY <2>0, <1>v
    <3> QED
      BY <1>v, <2>1, <3>1, OneMore
  <2>4. TypeOK'
    <3>1. [task[t] EXCEPT !.step = "accepted"] \in Task
      BY <1>u DEF Task, Steps
    <3>2. task' = [task EXCEPT ![t] = [task[t] EXCEPT !.step = "accepted"]]
      BY <2>1
    <3>3. delivery' \in Record
      BY <2>1 DEF Record
    <3> QED
      BY <1>w, <2>1, <2>3, <3>1, <3>2, <3>3
  <2>5. OneWorker'
    BY <2>1, <2>2
  <2>6. ASSUME NEW n \in 0..MaxChunk, \A c \in 1..n : received[c] > 0
        PROVE  \A c \in 1..n : received'[c] > 0
    <3> SUFFICES ASSUME NEW c \in 1..n PROVE received'[c] > 0
      OBVIOUS
    <3>1. c \in 1..MaxChunk /\ received[c] \in Nat /\ received'[c] \in Nat
      BY <1>v, <2>3
    <3> QED
      BY <2>3, <2>6, <3>1
  <2>7. ASSUME NEW u \in Tasks
        PROVE  /\ task'[u].step \in {"sending", "accepted"}
                    => \A c \in 1..task'[u].sent : received'[c] > 0
               /\ task'[u].step = "accepted" =>
                    task'[u].sent < MaxChunk /\ received'[task'[u].sent + 1] > 0
               /\ task'[u].step \in {"sending", "accepted"} => delivery'.status # "sent"
    <3>1. CASE u = t
      <4>1. \A c \in 1..task[t].sent : received'[c] > 0
        BY <1>u, <2>1, <2>6
      <4> QED
        BY <2>0, <2>1, <2>2, <2>3, <3>1, <4>1
    <3>2. CASE u # t
      <4>1. task[u].step \notin Working
        BY <2>1, <3>2
      <4> QED
        BY <2>2, <3>2, <4>1
    <3> QED
      BY <3>1, <3>2
  <2>8. \A c \in 1..delivery'.chunksSent : received'[c] > 0
    BY <2>1, <2>6
  <2>9. Progress'
    BY <2>1, <2>7, <2>8
  <2> QED
    BY <2>4, <2>5, <2>9
<1>9. ASSUME NEW t \in Tasks, Confirm(t) PROVE ReportInv'
  <2>1. /\ task[t].step = "accepted"
        /\ UNCHANGED <<world, lock, chat, faults>>
        /\ delivery' = [delivery EXCEPT !.chunksSent = task[t].sent + 1,
                                        !.text = task[t].text]
        /\ task' = [task EXCEPT ![t].step = "sending", ![t].sent = @ + 1]
    BY <1>9 DEF Confirm
  <2>2. /\ task'[t].step = "sending" /\ task'[t].sent = task[t].sent + 1
        /\ \A u \in Tasks \ {t} : task'[u] = task[u] /\ task[u].step \notin Working
    BY <2>1
  <2>0. task[t].sent < MaxChunk
    BY <2>1
  <2>3. /\ task[t].sent \in Nat /\ task[t].sent + 1 \in 0..MaxChunk
        /\ \A c \in 1..(task[t].sent + 1) : received[c] > 0
    <3>1. task[t].sent \in Nat /\ task[t].sent + 1 \in 0..MaxChunk
      BY <1>u, <1>v, <2>0
    <3>2. \A c \in 1..task[t].sent : received[c] > 0
      BY <2>1
    <3>3. received[task[t].sent + 1] > 0
      BY <2>1
    <3> QED
      BY <3>1, <3>2, <3>3
  <2>4. /\ delivery'.chunksSent = task[t].sent + 1
        /\ delivery'.status = delivery.status /\ delivery.status # "sent"
        /\ delivery' \in Record
    BY <2>1, <2>3 DEF Record
  <2>5. TypeOK'
    <3> DEFINE new == [task[t] EXCEPT !.step = "sending", !.sent = @ + 1]
    <3>1. new \in Task
      BY <1>u, <2>3 DEF Task, Steps
    <3>2. task' = [task EXCEPT ![t] = new]
      BY <2>1
    <3> QED
      BY <1>w, <2>1, <2>4, <3>1, <3>2
  <2>6. OneWorker'
    BY <2>1, <2>2
  <2>7. Progress'
    BY <2>1, <2>2, <2>3, <2>4
  <2> QED
    BY <2>5, <2>6, <2>7
<1>10. ASSUME NEW t \in Tasks, TransientError(t) PROVE ReportInv'
  <2>1. /\ task[t].step = "sending" /\ task[t].sent < Chunks[task[t].text]
        /\ UNCHANGED world /\ faults' \in 0..MaxFaults /\ lock' = Free
        /\ \/ received' = [received EXCEPT ![task[t].sent + 1] = @ + 1]
           \/ received' = received
        /\ repeated' \in Nat
        /\ \E status \in {"failed", "retrying"} :
             delivery' = [status |-> status, chunksSent |-> task[t].sent,
                          text |-> task[t].text]
        /\ \/ task' = [task EXCEPT ![t] = Message("idle")]
           \/ /\ task[t].retries < MaxRetries
              /\ task' = [task EXCEPT ![t] = [task[t] EXCEPT !.step = "waiting",
                                                            !.retries = @ + 1]]
    <3>1. /\ Pending(t) /\ UNCHANGED world /\ faults' = faults + 1
          /\ faults < MaxFaults /\ (Receive(t) \/ UNCHANGED chat)
      BY <1>10 DEF TransientError
    <3>2. faults' \in 0..MaxFaults
      BY <1>v, <3>1
    <3>3. task[t].step = "sending" /\ task[t].sent < Chunks[task[t].text]
      BY <3>1 DEF Pending
    <3>4. /\ \/ received' = [received EXCEPT ![task[t].sent + 1] = @ + 1]
             \/ received' = received
          /\ repeated' \in Nat
      BY <3>1 DEF Receive
    <3>5. CASE task[t].retries >= MaxRetries
      <4>1. End(t, "failed", task[t].sent)
        BY <1>10, <3>5 DEF TransientError
      <4> QED
        BY <3>1, <3>2, <3>3, <3>4, <4>1 DEF End
    <3>6. CASE ~(task[t].retries >= MaxRetries)
      <4>1. task[t].retries < MaxRetries
        BY <1>u, <1>v, <3>6
      <4>2. /\ delivery' = [status |-> "retrying", chunksSent |-> task[t].sent,
                            text |-> task[t].text]
            /\ lock' = Free
            /\ task' = [task EXCEPT ![t].step = "waiting", ![t].retries = @ + 1]
        BY <1>10, <3>6 DEF TransientError
      <4>3. task' = [task EXCEPT ![t] = [task[t] EXCEPT !.step = "waiting",
                                                        !.retries = @ + 1]]
        BY <4>2
      <4> QED
        BY <3>1, <3>2, <3>3, <3>4, <4>1, <4>2, <4>3
    <3> QED
      BY <3>5, <3>6
  <2>2. /\ task'[t].step \notin Working
        /\ \A u \in Tasks \ {t} : task'[u] = task[u] /\ task[u].step \notin Working
    <3>1. lock = t
      BY <2>1
    <3>2. \A u \in Tasks \ {t} : task'[u] = task[u]
      BY <2>1
    <3>3. task'[t].step \in {"idle", "waiting"}
      <4>1. CASE task' = [task EXCEPT ![t] = Message("idle")]
        BY <4>1 DEF Message
      <4>2. CASE task' = [task EXCEPT ![t] = [task[t] EXCEPT !.step = "waiting",
                                                            !.retries = @ + 1]]
        <5>1. task'[t] = [task[t] EXCEPT !.step = "waiting", !.retries = @ + 1]
          BY <4>2
        <5> QED
          BY <1>u, <5>1 DEF Task
      <4> QED
        BY <2>1, <4>1, <4>2
    <3> QED
      BY <3>1, <3>2, <3>3
  <2>0. task[t].sent \in Nat /\ task[t].sent < MaxChunk
    BY <2>1, <1>u, <1>v
  <2>3. /\ \A c \in 1..MaxChunk : received'[c] >= received[c]
        /\ received' \in [1..MaxChunk -> Nat]
    <3>1. task[t].sent + 1 \in 1..MaxChunk
      BY <2>0, <1>v
    <3>2. CASE received' = received
      <4> SUFFICES ASSUME NEW c \in 1..MaxChunk PROVE received'[c] >= received[c]
        BY <3>2
      <4>1. received[c] \in Nat
        OBVIOUS
      <4> QED
        BY <3>2, <4>1
    <3>3. CASE received' = [received EXCEPT ![task[t].sent + 1] = @ + 1]
      BY <1>v, <3>1, <3>3, OneMore
    <3> QED
      BY <2>1, <3>2, <3>3
  <2>4. PICK new \in Task : task' = [task EXCEPT ![t] = new]
    <3>1. Message("idle") \in Task
      BY <1>0
    <3>2. task[t].retries < MaxRetries =>
            [task[t] EXCEPT !.step = "waiting", !.retries = @ + 1] \in Task
      <4> SUFFICES ASSUME task[t].retries < MaxRetries
                   PROVE  [task[t] EXCEPT !.step = "waiting", !.retries = @ + 1] \in Task
        OBVIOUS
      <4>1. task[t].retries + 1 \in 0..MaxRetries /\ "waiting" \in Steps
        BY <1>u, <1>v DEF Steps
      <4> QED
        BY <1>u, <4>1 DEF Task
    <3> QED
      BY <2>1, <3>1, <3>2
  <2>5. /\ delivery'.chunksSent = task[t].sent /\ delivery'.status # "sent"
        /\ delivery' \in Record
    <3>1. PICK status \in {"failed", "retrying"} :
            delivery' = [status |-> status, chunksSent |-> task[t].sent, text |-> task[t].text]
      BY <2>1
    <3>2. task[t].sent \in 0..MaxChunk /\ task[t].text \in Evidence
      BY <1>u, <1>v
    <3> QED
      BY <3>1, <3>2 DEF Record
  <2>6. TypeOK'
    BY <1>w, <2>1, <2>3, <2>4, <2>5
  <2>7. OneWorker'
    BY <2>2
  <2>8. \A c \in 1..task[t].sent : received'[c] > 0
    <3> SUFFICES ASSUME NEW c \in 1..task[t].sent PROVE received'[c] > 0
      OBVIOUS
    <3>1. c \in 1..MaxChunk /\ received[c] > 0
      <4>1. c \in 1..MaxChunk
        BY <1>v, <2>0
      <4>2. \A d \in 1..task[t].sent : received[d] > 0
        BY <2>1
      <4> QED
        BY <4>1, <4>2
    <3>2. received[c] \in Nat /\ received'[c] \in Nat
      BY <2>3, <3>1
    <3> QED
      BY <2>3, <3>1, <3>2
  <2>9. Progress'
    BY <2>2, <2>5, <2>8
  <2> QED
    BY <2>6, <2>7, <2>9
<1>11. ASSUME NEW t \in Tasks, PermanentError(t) PROVE ReportInv'
  BY <1>11 DEF PermanentError, Pending, End, Message, Tasks, Steps, world
<1>12. ASSUME NEW t \in Tasks, Finish(t) PROVE ReportInv'
  BY <1>12 DEF Finish, End, Message, Tasks, Steps, world
<1>13. ASSUME NEW t \in Tasks, Crash(t) PROVE ReportInv'
  <2>1. /\ lock = t /\ lock' = Dead /\ faults' \in 0..MaxFaults
        /\ UNCHANGED <<world, delivery, chat>>
        /\ \/ task' = [task EXCEPT ![t] = Message("idle")]
           \/ task' = [task EXCEPT ![t] = [task[t] EXCEPT !.step = "queued"]]
    <3>1. lock = t /\ lock' = Dead /\ UNCHANGED <<world, delivery, chat>>
      BY <1>13 DEF Crash
    <3>2. faults' \in 0..MaxFaults
      <4>1. faults < MaxFaults /\ faults' = faults + 1
        BY <1>13 DEF Crash
      <4> QED
        BY <1>v, <4>1
    <3>3. \/ task' = [task EXCEPT ![t] = Message("idle")]
          \/ task' = [task EXCEPT ![t] = [task[t] EXCEPT !.step = "queued"]]
      BY <1>13 DEF Crash
    <3> QED
      BY <3>1, <3>2, <3>3
  <2>2. [task[t] EXCEPT !.step = "queued"] \in Task
    BY DEF Task, Steps
  <2>3. CASE task' = [task EXCEPT ![t] = Message("idle")]
    BY <1>0, <1>a, <2>1, <2>3 DEF Message
  <2>4. CASE task' = [task EXCEPT ![t] = [task[t] EXCEPT !.step = "queued"]]
    BY <1>a, <2>1, <2>2, <2>4 DEF Task
  <2> QED
    BY <2>1, <2>3, <2>4
<1>14. CASE UNCHANGED vars
  BY <1>14 DEF vars, world
<1> QED
  BY <1>1, <1>2, <1>3, <1>4, <1>5, <1>6, <1>7, <1>8, <1>9, <1>10, <1>11, <1>12,
     <1>13, <1>14 DEF Next, Run

-----------------------------------------------------------------------------

\* Nothing beyond the next chunk has been received, the worker sends that one,
\* and when it has arrived without being confirmed, the fault that will excuse its
\* repetition has happened.
Next1 == delivery.chunksSent + 1
Accepted == \E t \in Tasks : task[t].step = "accepted"
Arrived == Next1 <= MaxChunk /\ received[Next1] > 0

PaidFor ==
    /\ \A c \in 1..MaxChunk : c > Next1 => received[c] = 0
    /\ \A t \in Tasks :
         task[t].step \in {"sending", "accepted"} => task[t].sent = delivery.chunksSent
    /\ repeated <= faults
    /\ Arrived /\ ~Accepted => repeated + 1 <= faults

LEMMA InitPaid == Init => PaidFor
PROOF
<1> SUFFICES ASSUME Init PROVE PaidFor
  OBVIOUS
<1>1. \A t \in Tasks : task[t].step \in {"idle", "new"}
  BY DEF Init, Message
<1>2. delivery.chunksSent = 0 /\ \A c \in 1..MaxChunk : received[c] = 0
  BY DEF Init
<1>3. ~Arrived
  BY <1>2, ReportAssumption DEF Arrived, Next1
<1> QED
  BY <1>1, <1>2, <1>3 DEF PaidFor, Init

\* A step at the end of which its task sends nothing, or goes on sending, and that
\* neither receives nor confirms.
LEMMA QuietStep ==
    ASSUME ReportInv, PaidFor, NEW t \in Tasks, task[t].step # "accepted",
           \A u \in Tasks \ {t} : task'[u] = task[u],
           task'[t].step # "accepted",
           task'[t].step = "sending" => task'[t].sent = delivery.chunksSent,
           delivery'.chunksSent = delivery.chunksSent,
           UNCHANGED <<chat, faults>>
    PROVE  PaidFor'
PROOF
<1>1. UNCHANGED Next1 /\ UNCHANGED Arrived
  BY DEF Next1, Arrived, chat
<1>2. Accepted => Accepted'
  BY DEF Accepted
<1>3. Accepted' => Accepted
  BY DEF Accepted
<1> QED
  BY <1>1, <1>2, <1>3 DEF PaidFor, chat

LEMMA PaidStep ==
    ASSUME ForcedTasks = {}, ReportInv, ReportInv', PaidFor, [Next]_vars
    PROVE  PaidFor'
PROOF
<1>v. /\ MaxChunk \in Nat /\ faults \in Nat /\ repeated \in Nat
      /\ delivery.chunksSent \in 0..MaxChunk
      /\ \A c \in 1..MaxChunk : received[c] \in Nat
  <2>1. /\ MaxChunk \in Nat /\ MaxFaults \in Nat /\ faults \in 0..MaxFaults
        /\ delivery.chunksSent \in 0..MaxChunk /\ repeated \in Nat
        /\ received \in [1..MaxChunk -> Nat]
    BY ReportAssumption DEF ReportInv, TypeOK
  <2> QED
    BY <2>1
<1>u. \A u \in Tasks : /\ task[u] \in Task /\ task[u].sent \in 0..MaxChunk
                       /\ task[u].text \in Evidence /\ Chunks[task[u].text] \in 0..MaxChunk
  <2>1. task \in [Tasks -> Task]
    BY DEF ReportInv, TypeOK, Task
  <2>2. Chunks \in [Evidence -> 1..MaxChunk]
    BY ReportAssumption
  <2>3. 1..MaxChunk \subseteq 0..MaxChunk
    BY <1>v
  <2> QED
    BY <2>1, <2>2, <2>3 DEF Task
<1>d. DOMAIN task = Tasks /\ delivery \in Record
  BY DEF ReportInv, TypeOK, Record
<1>w. \A t, u \in Tasks : task[t].step \in Working /\ u # t => task[u].step \notin Working
  BY ReportAssumption DEF ReportInv, OneWorker, Tasks
<1>1. CASE UNCHANGED <<delivery, task, chat, faults>>
  BY <1>1 DEF PaidFor, Next1, Arrived, Accepted, chat
<1>2. CASE ReportTime \/ Configure \/ ChangeBlocked \/ NewEvidence \/ LockExpires
  BY <1>1, <1>2 DEF ReportTime, Configure, ChangeBlocked, NewEvidence, LockExpires, Others
<1>3. ASSUME NEW t \in Tasks, Submit(t) \/ Retry(t) \/ Skip(t) \/ Acquire(t) \/ AlreadySent(t)
      PROVE  PaidFor'
  <2>1. /\ task[t].step \in {"idle", "new", "queued", "waiting", "locked"}
        /\ task'[t].step \in {"idle", "queued", "locked"}
        /\ \A u \in Tasks \ {t} : task'[u] = task[u]
        /\ UNCHANGED <<delivery, chat, faults>>
    BY <1>3, <1>d, <1>u DEF Submit, Retry, Skip, Acquire, AlreadySent, Message, Task
  <2> QED
    BY <2>1, QuietStep
<1>4. ASSUME NEW t \in Tasks, Build(t) PROVE PaidFor'
  <2>1. /\ task[t].step = "locked" /\ task'[t].step = "sending"
        /\ task'[t].sent = delivery.chunksSent
        /\ \A u \in Tasks \ {t} : task'[u] = task[u]
        /\ delivery'.chunksSent = delivery.chunksSent
        /\ UNCHANGED <<chat, faults>>
    BY <1>4, <1>d, <1>u DEF Build, Resumed, Task, Record
  <2> QED
    BY <2>1, QuietStep
<1>5. ASSUME NEW t \in Tasks, NotConfigured(t) \/ PermanentError(t) \/ Finish(t)
      PROVE  PaidFor'
  <2>1. PICK status : End(t, status, task[t].sent)
    BY <1>5 DEF NotConfigured, PermanentError, Finish
  <2>2. task[t].step = "sending" /\ UNCHANGED <<chat, faults>>
    BY <1>5 DEF NotConfigured, PermanentError, Finish, Pending
  <2>3. /\ task'[t].step = "idle" /\ \A u \in Tasks \ {t} : task'[u] = task[u]
        /\ delivery'.chunksSent = task[t].sent
    BY <2>1, <1>d DEF End, Message
  <2>4. task[t].sent = delivery.chunksSent
    BY <2>2 DEF PaidFor
  <2> QED
    BY <2>2, <2>3, <2>4, QuietStep
<1>6. ASSUME NEW t \in Tasks, Pending(t), Receive(t)
      PROVE  LET c == delivery.chunksSent + 1 IN
             /\ c \in 1..MaxChunk /\ task[t].step = "sending" /\ ~Accepted
             /\ task[t].sent = delivery.chunksSent
             /\ received' = [received EXCEPT ![c] = @ + 1] /\ received'[c] > 0
             /\ \A e \in 1..MaxChunk : e > c => received'[e] = 0
             /\ repeated' <= faults
  <2> DEFINE c == delivery.chunksSent + 1
  <2>1. task[t].step = "sending" /\ task[t].sent < Chunks[task[t].text]
    BY <1>6 DEF Pending
  <2>2. task[t].sent = delivery.chunksSent
    BY <2>1 DEF PaidFor
  <2>3. c \in 1..MaxChunk /\ received[c] \in Nat
    BY <1>u, <1>v, <2>1, <2>2
  <2>4. ~Accepted
    BY <1>w, <2>1 DEF Accepted, Working
  <2>5. /\ received' = [received EXCEPT ![c] = @ + 1]
        /\ repeated' = IF received[c] > 0 THEN repeated + 1 ELSE repeated
    BY <1>6, <2>2 DEF Receive
  <2>6. DOMAIN received = 1..MaxChunk
    BY DEF ReportInv, TypeOK
  <2>7. received'[c] > 0
    BY <2>3, <2>5, <2>6
  <2>8. ASSUME NEW e \in 1..MaxChunk, e > c PROVE received'[e] = 0
    <3>1. e # c /\ received[e] = 0
      BY <1>v, <2>3, <2>8 DEF PaidFor, Next1
    <3> QED
      BY <2>5, <2>6, <3>1
  <2>9. repeated' <= faults
    <3>1. CASE received[c] > 0
      <4>1. Arrived
        BY <1>v, <2>3, <3>1 DEF Arrived, Next1
      <4> QED
        BY <2>4, <2>5, <3>1, <4>1 DEF PaidFor
    <3>2. CASE ~(received[c] > 0)
      BY <2>5, <3>2 DEF PaidFor
    <3> QED
      BY <3>1, <3>2
  <2> QED
    BY <2>1, <2>2, <2>3, <2>4, <2>5, <2>7, <2>8, <2>9
<1>7. ASSUME NEW t \in Tasks, Post(t) PROVE PaidFor'
  <2>1. Pending(t) /\ Receive(t) /\ UNCHANGED <<delivery, faults>>
        /\ task' = [task EXCEPT ![t].step = "accepted"]
    BY <1>7 DEF Post
  <2>2. /\ task[t].sent = delivery.chunksSent /\ task[t].step = "sending"
        /\ \A e \in 1..MaxChunk : e > Next1 => received'[e] = 0
        /\ repeated' <= faults
    BY <1>6, <2>1 DEF Next1
  <2>3. /\ task'[t].step = "accepted" /\ task'[t].sent = delivery.chunksSent
        /\ \A u \in Tasks \ {t} : task'[u] = task[u]
    BY <1>d, <1>u, <2>1, <2>2 DEF Task
  <2>4. Accepted'
    BY <2>3 DEF Accepted
  <2> QED
    BY <2>1, <2>2, <2>3, <2>4 DEF PaidFor, Next1
<1>8. ASSUME NEW t \in Tasks, Confirm(t) PROVE PaidFor'
  <2>1. /\ task[t].step = "accepted" /\ task[t].sent = delivery.chunksSent
        /\ UNCHANGED <<chat, faults>>
    BY <1>8 DEF Confirm, PaidFor
  <2>2. delivery'.chunksSent = delivery.chunksSent + 1
    BY <1>8, <1>d, <2>1 DEF Confirm, Record
  <2>3. /\ task'[t].step = "sending" /\ task'[t].sent = delivery.chunksSent + 1
        /\ \A u \in Tasks \ {t} : task'[u] = task[u] /\ task[u].step \notin Working
    BY <1>8, <1>d, <1>u, <1>w, <2>1 DEF Confirm, Task, Working
  <2>4. \A c \in 1..MaxChunk : c > Next1' => received'[c] = 0
    <3> SUFFICES ASSUME NEW c \in 1..MaxChunk, c > delivery.chunksSent + 2
                 PROVE  received[c] = 0
      BY <1>v, <2>1, <2>2 DEF Next1, chat
    <3>1. c > Next1
      BY <1>v DEF Next1
    <3> QED
      BY <3>1 DEF PaidFor
  <2>5. ~Arrived'
    <3> SUFFICES ASSUME delivery.chunksSent + 2 <= MaxChunk
                 PROVE  ~(received[delivery.chunksSent + 2] > 0)
      BY <1>v, <2>1, <2>2 DEF Arrived, Next1, chat
    <3>1. /\ delivery.chunksSent + 2 \in 1..MaxChunk
          /\ delivery.chunksSent + 2 > Next1
      BY <1>v DEF Next1
    <3>2. received[delivery.chunksSent + 2] = 0
      BY <3>1 DEF PaidFor
    <3> QED
      BY <3>2
  <2>6. \A u \in Tasks : task'[u].step \in {"sending", "accepted"}
                           => task'[u].sent = delivery'.chunksSent
    BY <2>2, <2>3 DEF Working
  <2> QED
    BY <2>1, <2>4, <2>5, <2>6 DEF PaidFor, chat
<1>9. ASSUME NEW t \in Tasks, TransientError(t) PROVE PaidFor'
  <2>1. /\ Pending(t) /\ faults' = faults + 1
        /\ Receive(t) \/ UNCHANGED chat
    BY <1>9 DEF TransientError
  <2>2. task[t].step = "sending" /\ task[t].sent = delivery.chunksSent
    BY <2>1 DEF Pending, PaidFor
  <2>3. /\ delivery'.chunksSent = delivery.chunksSent
        /\ task'[t].step \in {"idle", "waiting"}
        /\ \A u \in Tasks \ {t} : task'[u] = task[u]
    BY <1>9, <1>d, <1>u, <2>2 DEF TransientError, End, Message, Task
  <2>4. \A c \in 1..MaxChunk : c > Next1 => received'[c] = 0
    BY <1>6, <2>1 DEF Next1, PaidFor, chat
  <2>5. repeated' <= faults
    BY <1>6, <2>1 DEF PaidFor, chat
  <2>6. \A u \in Tasks : task'[u].step \in {"sending", "accepted"}
                           => task'[u].sent = delivery'.chunksSent
    BY <2>3 DEF PaidFor
  <2>7. repeated' \in Nat
    BY DEF ReportInv, TypeOK
  <2>8. repeated' <= faults' /\ repeated' + 1 <= faults'
    <3>1. faults \in Nat /\ faults' = faults + 1 /\ repeated' \in Nat /\ repeated' <= faults
      BY <1>v, <2>1, <2>5, <2>7
    <3>2. \A a, b \in Nat : a <= b => a <= b + 1 /\ a + 1 <= b + 1
      OBVIOUS
    <3> QED
      BY <3>1, <3>2
  <2> QED
    BY <2>3, <2>4, <2>6, <2>8 DEF PaidFor, Next1
<1>10. ASSUME NEW t \in Tasks, Crash(t) PROVE PaidFor'
  <2>1. faults' = faults + 1 /\ UNCHANGED <<delivery, chat>>
    BY <1>10 DEF Crash
  <2>2. /\ task'[t].step \in {"idle", "queued"}
        /\ \A u \in Tasks \ {t} : task'[u] = task[u]
    BY <1>10, <1>d, <1>u DEF Crash, Message, Task
  <2> QED
    BY <1>v, <2>1, <2>2 DEF PaidFor, Next1, chat
<1>11. CASE UNCHANGED vars
  BY <1>1, <1>11 DEF vars
<1> QED
  BY <1>2, <1>3, <1>4, <1>5, <1>7, <1>8, <1>9, <1>10, <1>11 DEF Next, Run

\* Unless an administrator forces a resend, every repetition of a chunk is paid
\* for by a crash or an unanswered request of its own.
THEOREM RepeatsPaidFor == ForcedTasks = {} => (Spec => []RepeatsNeedFaults)
PROOF
<1> SUFFICES ASSUME ForcedTasks = {} PROVE Spec => []RepeatsNeedFaults
  OBVIOUS
<1>1. ReportInv /\ PaidFor => RepeatsNeedFaults
  BY DEF PaidFor, RepeatsNeedFaults
<1> QED
  BY <1>1, InitReport, InitPaid, ReportStep, PaidStep, PTL DEF Spec

\* A row that says "sent" is the truth, whatever crashes, retries and changes
\* of the report came before.
THEOREM SentReceived == ForcedTasks = {} => (Spec => []SentIsReceived)
PROOF
<1> SUFFICES ASSUME ForcedTasks = {} PROVE Spec => []SentIsReceived
  OBVIOUS
<1>1. ASSUME ReportInv PROVE SentIsReceived
  <2>1. delivery.text \in Evidence /\ delivery.chunksSent \in 0..MaxChunk
    BY <1>1 DEF ReportInv, TypeOK
  <2>2. Chunks[delivery.text] \in Nat
    <3>1. MaxChunk \in Nat /\ Chunks[delivery.text] \in 1..MaxChunk
      BY <2>1, ReportAssumption
    <3> QED
      BY <3>1
  <2> SUFFICES ASSUME delivery.status = "sent", NEW c \in 1..Chunks[delivery.text]
               PROVE  received[c] > 0
    BY DEF SentIsReceived
  <2>3. /\ Chunks[delivery.text] <= delivery.chunksSent
        /\ \A d \in 1..delivery.chunksSent : received[d] > 0
    BY <1>1, <2>1, <2>2 DEF ReportInv, Progress, Has
  <2>4. c \in 1..delivery.chunksSent
    BY <2>1, <2>2, <2>3
  <2> QED
    BY <2>3, <2>4
<1> QED
  BY <1>1, InitReport, ReportStep, PTL DEF Spec
=============================================================================
