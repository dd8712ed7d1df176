---------------------------- MODULE PagesProofs ----------------------------
(***************************************************************************)
(* What people do through the pages and commands, for every instance:      *)
(* which models are served, what becomes of feedback, which backups are    *)
(* left, that a user has one default portfolio, what requests make of the  *)
(* accounts, what a portfolio's page adds up to, and what a backtest's     *)
(* result rests on.                                                        *)
(***************************************************************************)
EXTENDS Accounts, ModelServing, FeedbackTriage, Backups, PortfolioSet, Valuation, Backtest,
        FiniteSums

(***************************************************************************)
(* ModelServing                                                            *)
(***************************************************************************)

\* What lies at a path, or in the copy a row or a running task keeps of it,
\* learned from the exchanges of the path.
PathsTyped == DOMAIN artifact = Scopes /\ \A s \in Scopes : artifact[s] \in Artifacts(s)

RowsTyped ==
    /\ DOMAIN rows = VersionIds
    /\ \A v \in VersionIds : \E s \in Scopes \cup {""} : rows[v] \in VersionRows(s)

Training == [todo : Seq(Scopes), written : BOOLEAN, backup : UNION {Artifacts(s) : s \in Scopes}]
TrainingTyped ==
    /\ training \in Training
    /\ training.written =>
         training.todo # <<>> /\ training.backup \in Artifacts(Head(training.todo))

\* What was taken out of service for an exchange has no active row that
\* could be served to it.
OutIsInactive ==
    /\ DOMAIN out = Exchanges
    /\ \A e \in Exchanges :
         /\ None \notin out[e]
         /\ \A v \in out[e] \cap VersionIds :
              rows[v].active => rows[v].scope \notin {"combined", e}

ServingInv ==
    /\ enabled \subseteq Exchanges /\ made \in Nat
    /\ PathsTyped /\ RowsTyped /\ TrainingTyped /\ OutIsInactive

LEMMA ActiveRowIs ==
    ASSUME NEW s
    PROVE  \/ ActiveRow(s) = None
           \/ /\ ActiveRow(s) \in VersionIds
              /\ rows[ActiveRow(s)].scope = s /\ rows[ActiveRow(s)].active
PROOF
<1> DEFINE S == {v \in VersionIds : rows[v].scope = s /\ rows[v].active} \cup {None}
<1>1. S \subseteq 0..MaxVersions /\ S # {} /\ MaxVersions \in Nat
  BY ServingAssumption DEF VersionIds, None
<1>2. ActiveRow(s) = Max(S)
  BY DEF ActiveRow
<1>3. ActiveRow(s) \in S
  <2> HIDE DEF S
  <2> QED
    BY <1>1, <1>2, MaxOfBounded
<1> QED
  BY <1>3

LEMMA InvServes == ServingInv => OnlyAllowedIsServed
PROOF
<1> SUFFICES ASSUME ServingInv PROVE OnlyAllowedIsServed
  OBVIOUS
<1>1. ASSUME NEW e \in Exchanges PROVE Served(e) \notin out[e]
  <2>1. CASE Served(e) = None
    BY <2>1 DEF ServingInv, OutIsInactive
  <2>2. CASE Served(e) # None
    <3>1. PICK s \in {"combined", e} : Deployable(s) /\ Served(e) = artifact[s].version
      BY <2>2 DEF Served
    <3>2. Served(e) = ActiveRow(s)
      BY <3>1 DEF Deployable
    <3>3. /\ Served(e) \in VersionIds
          /\ rows[Served(e)].active /\ rows[Served(e)].scope \in {"combined", e}
      BY <2>2, <3>2, ActiveRowIs
    <3> QED
      BY <3>3 DEF ServingInv, OutIsInactive
  <2> QED
    BY <2>1, <2>2
<1>2. ASSUME NEW e \in enabled PROVE SourcesOf(e) \subseteq enabled
  <2>1. e \in Scopes /\ "combined" \in Scopes
    BY DEF ServingInv, Scopes
  <2>2. artifact[e].sources \subseteq Covers(e)
        /\ artifact["combined"].sources \subseteq Exchanges
    BY <2>1 DEF ServingInv, PathsTyped, Artifacts, Covers
  <2>3. Covers(e) = {e}
    BY DEF ServingInv, Covers, Exchanges
  <2> QED
    BY <2>2, <2>3 DEF SourcesOf, PooledAllowed
<1> QED
  BY <1>1, <1>2 DEF OnlyAllowedIsServed, SuspendedStaysOut

LEMMA NothingTyped == \A s : NoArtifact \in Artifacts(s)
PROOF BY DEF NoArtifact, Artifacts, None

LEMMA NoRowTyped == NoRow \in VersionRows("")
PROOF
<1>1. NoArtifact \in Artifacts("")
  BY NothingTyped
<1> QED
  BY <1>1 DEF NoRow, VersionRows

LEMMA NoTrainingTyped == ASSUME training' = NoTraining PROVE TrainingTyped'
PROOF
<1>1. NoArtifact \in UNION {Artifacts(s) : s \in Scopes}
  BY NothingTyped DEF Scopes
<1> QED
  BY <1>1 DEF TrainingTyped, Training, NoTraining

LEMMA InitServing == ServingInit => ServingInv
PROOF
<1> SUFFICES ASSUME ServingInit PROVE ServingInv
  OBVIOUS
<1>1. PICK h \in History :
        /\ artifact = h.artifact /\ made = Len(h.rows)
        /\ rows = [v \in VersionIds |-> IF v <= made THEN h.rows[v] ELSE NoRow]
  BY DEF ServingInit
<1>2. PathsTyped /\ made \in Nat
  BY <1>1, ServingAssumption DEF PathsTyped
<1>3. ASSUME NEW v \in VersionIds
      PROVE  \E s \in Scopes \cup {""} : rows[v] \in VersionRows(s)
  <2>1. CASE v <= made
    <3>1. v \in 1..Len(h.rows)
      BY <1>1, <2>1, ServingAssumption DEF VersionIds
    <3> QED
      BY <1>1, <2>1, <3>1, ServingAssumption
  <2>2. CASE ~(v <= made)
    <3>1. rows[v] = NoRow
      BY <1>1, <2>2
    <3> QED
      BY <3>1, NoRowTyped
  <2> QED
    BY <2>1, <2>2
<1>4. RowsTyped
  BY <1>1, <1>3 DEF RowsTyped
<1>5. TrainingTyped
  <2>1. NoArtifact \in UNION {Artifacts(s) : s \in Scopes}
    BY NothingTyped DEF Scopes
  <2> QED
    BY <2>1 DEF ServingInit, TrainingTyped, Training, NoTraining
<1>6. OutIsInactive /\ enabled = Exchanges
  BY DEF ServingInit, OutIsInactive
<1> QED
  BY <1>2, <1>4, <1>5, <1>6 DEF ServingInv

\* Taking rows out keeps what is typed, and keeps out what is out.
LEMMA TakeOutKeeps ==
    ASSUME RowsTyped, NEW vs, rows' = TakeOut(vs)
    PROVE  /\ RowsTyped'
           /\ \A v \in VersionIds : /\ rows'[v].scope = rows[v].scope
                                    /\ rows'[v].active => rows[v].active /\ v \notin vs
PROOF
<1>1. ASSUME NEW v \in VersionIds
      PROVE  /\ \E s \in Scopes \cup {""} : rows'[v] \in VersionRows(s)
             /\ rows'[v].scope = rows[v].scope
             /\ rows'[v].active => rows[v].active /\ v \notin vs
  <2>1. PICK s \in Scopes \cup {""} : rows[v] \in VersionRows(s)
    BY DEF RowsTyped
  <2>2. rows'[v] = [rows[v] EXCEPT !.active = rows[v].active /\ v \notin vs]
    BY DEF TakeOut
  <2>3. (rows[v].active /\ v \notin vs) \in BOOLEAN
    OBVIOUS
  <2> QED
    BY <2>1, <2>2, <2>3 DEF VersionRows
<1> QED
  BY <1>1 DEF RowsTyped, TakeOut

LEMMA ServingStep == ServingInv /\ [ServingNext]_servingVars => ServingInv'
PROOF
<1> SUFFICES ASSUME ServingInv, [ServingNext]_servingVars PROVE ServingInv'
  OBVIOUS
<1> USE DEF world, models, evidence
<1>0. /\ enabled \subseteq Exchanges /\ made \in Nat
      /\ PathsTyped /\ RowsTyped /\ TrainingTyped /\ OutIsInactive
  BY DEF ServingInv
\* The parts a step leaves alone.
<1>p. UNCHANGED artifact => PathsTyped'
  BY <1>0 DEF PathsTyped
<1>r. UNCHANGED rows => RowsTyped'
  BY <1>0 DEF RowsTyped
<1>t. UNCHANGED training => TrainingTyped'
  BY <1>0 DEF TrainingTyped
<1>o. UNCHANGED <<rows, out>> => OutIsInactive'
  BY <1>0 DEF OutIsInactive
\* Training
<1>1. ASSUME NEW plan \in Seq(Scopes), BeginTraining(plan) PROVE ServingInv'
  <2>1. training' = [todo |-> plan, written |-> FALSE, backup |-> NoArtifact]
    BY <1>1 DEF BeginTraining, NoTraining
  <2>2. NoArtifact \in UNION {Artifacts(s) : s \in Scopes}
    BY NothingTyped DEF Scopes
  <2>3. TrainingTyped'
    BY <2>1, <2>2 DEF TrainingTyped, Training
  <2> QED
    BY <1>0, <1>1, <1>p, <1>r, <1>o, <2>3 DEF BeginTraining, ServingInv
<1>2. CASE TrainForward \/ TrainClose
  <2>1. /\ <<"combined">> \in Seq(Scopes) /\ <<"DSE", "CSE">> \in Seq(Scopes)
        /\ \A e \in enabled : <<e>> \in Seq(Scopes)
        /\ <<"DSE">> \in Seq(Scopes)
    <3>1. "combined" \in Scopes /\ "DSE" \in Scopes /\ "CSE" \in Scopes
          /\ enabled \subseteq Scopes
      BY <1>0 DEF Scopes, Exchanges
    <3> QED
      BY <3>1
  <2> QED
    BY <1>1, <1>2, <2>1 DEF TrainForward, TrainClose
<1>3. CASE Write
  <2> DEFINE s == Head(training.todo)
  <2>1. /\ training.todo # <<>> /\ training \in Training
        /\ artifact' = [artifact EXCEPT ![s] = Fresh]
        /\ training' = [training EXCEPT !.written = TRUE, !.backup = artifact[s]]
        /\ made' = made + 1
        /\ UNCHANGED <<enabled, rows, out>>
    BY <1>0, <1>3 DEF Write, TrainingTyped
  <2>2. s \in Scopes
    BY <2>1 DEF Training
  <2>3. artifact[s] \in Artifacts(s)
    BY <1>0, <2>2 DEF PathsTyped
  <2>4. Fresh \in Artifacts(s)
    BY <1>0 DEF Fresh, Artifacts
  <2>5. PathsTyped'
    BY <1>0, <2>1, <2>4 DEF PathsTyped
  <2>6. TrainingTyped'
    BY <2>1, <2>2, <2>3 DEF TrainingTyped, Training
  <2> QED
    BY <1>0, <1>r, <1>o, <2>1, <2>5, <2>6 DEF ServingInv
<1>4. CASE Record
  <2> DEFINE s == Head(training.todo)
             new == [scope |-> s, active |-> Fresh.approved, backup |-> training.backup]
  <2>1. /\ training \in Training /\ training.todo # <<>>
        /\ training.backup \in Artifacts(s)
        /\ rows' = [rows EXCEPT ![made] = new]
        /\ training' = [NoTraining EXCEPT !.todo = Tail(training.todo)]
        /\ UNCHANGED <<enabled, artifact, made, out>>
    BY <1>0, <1>4 DEF Record, TrainingTyped
  <2>2. s \in Scopes /\ Tail(training.todo) \in Seq(Scopes)
    BY <2>1 DEF Training
  <2>3. ~new.active /\ new \in VersionRows(s)
    BY <2>1 DEF Fresh, VersionRows
  <2>4. \A v \in VersionIds : rows'[v] = rows[v] \/ rows'[v] = new
    BY <1>0, <2>1 DEF RowsTyped
  <2>5. RowsTyped'
    BY <1>0, <2>1, <2>2, <2>3, <2>4 DEF RowsTyped
  <2>6. OutIsInactive'
    <3>1. \A v \in VersionIds : rows'[v].active => rows'[v] = rows[v]
      BY <2>3, <2>4
    <3> QED
      BY <1>0, <2>1, <3>1 DEF OutIsInactive
  <2>7. TrainingTyped'
    <3>1. training' = [todo |-> Tail(training.todo), written |-> FALSE, backup |-> NoArtifact]
      BY <2>1 DEF NoTraining
    <3>2. NoArtifact \in UNION {Artifacts(x) : x \in Scopes}
      BY NothingTyped DEF Scopes
    <3> QED
      BY <2>2, <3>1, <3>2 DEF TrainingTyped, Training
  <2> QED
    BY <1>0, <1>p, <2>1, <2>5, <2>6, <2>7 DEF ServingInv
<1>5. CASE KillTraining
  <2>1. /\ training' = NoTraining /\ UNCHANGED <<enabled, rows, made, out>>
        /\ \/ artifact' = artifact
           \/ \E s : artifact' = [artifact EXCEPT ![s] = NoArtifact]
    BY <1>5 DEF KillTraining
  <2>2. PathsTyped'
    BY <1>0, <2>1, NothingTyped DEF PathsTyped
  <2> QED
    BY <1>0, <1>r, <1>o, <2>1, <2>2, NoTrainingTyped DEF ServingInv
\* Taking out and bringing back
<1>6. ASSUME NEW e \in Exchanges, Assess(e) PROVE ServingInv'
  <2>1. UNCHANGED <<enabled, artifact, made, training>>
    BY <1>6 DEF Assess
  <2>2. CASE UNCHANGED <<rows, out>>
    BY <1>0, <1>p, <1>r, <1>t, <1>o, <2>1, <2>2 DEF ServingInv
  <2>3. CASE rows' = TakeOut(ServingFor(e)) /\ out' = [out EXCEPT ![e] = 1..made]
    <3>1. RowsTyped'
      BY <1>0, <2>3, TakeOutKeeps
    <3>2. \A v \in VersionIds : /\ rows'[v].active => rows'[v].scope \notin {"combined", e}
                                /\ rows'[v].active => rows[v].active
                                /\ rows'[v].scope = rows[v].scope
      BY <1>0, <2>3, TakeOutKeeps DEF ServingFor
    <3>3. None \notin 1..made
      BY <1>0 DEF None
    <3>4. OutIsInactive'
      BY <1>0, <2>3, <3>2, <3>3 DEF OutIsInactive
    <3> QED
      BY <1>0, <1>p, <1>t, <2>1, <3>1, <3>4 DEF ServingInv
  <2> QED
    BY <1>6, <2>2, <2>3 DEF Assess
<1>7. CASE DowngradeFamily
  <2>1. /\ rows' = TakeOut(VersionIds) /\ out' = [e \in Exchanges |-> 1..made]
        /\ UNCHANGED <<enabled, artifact, made, training>>
    BY <1>7 DEF DowngradeFamily
  <2>2. None \notin 1..made
    BY <1>0 DEF None
  <2>3. RowsTyped' /\ \A v \in VersionIds : ~rows'[v].active
    BY <1>0, <2>1, TakeOutKeeps
  <2>4. OutIsInactive'
    BY <2>1, <2>2, <2>3 DEF OutIsInactive
  <2> QED
    BY <1>0, <1>p, <1>t, <2>1, <2>3, <2>4 DEF ServingInv
<1>8. ASSUME NEW v \in VersionIds, Deactivate(v) PROVE ServingInv'
  <2>1. /\ rows' = TakeOut({v}) /\ out' = [e \in Exchanges |-> out[e] \cup {v}]
        /\ UNCHANGED <<enabled, artifact, made, training>>
    BY <1>8 DEF Deactivate
  <2>2. v # None
    BY ServingAssumption DEF VersionIds, None
  <2>3. RowsTyped'
    BY <1>0, <2>1, TakeOutKeeps
  <2>4. \A w \in VersionIds : /\ rows'[w].active => rows[w].active /\ w # v
                              /\ rows'[w].scope = rows[w].scope
    BY <1>0, <2>1, TakeOutKeeps
  <2>5. OutIsInactive'
    BY <1>0, <2>1, <2>2, <2>4 DEF OutIsInactive
  <2> QED
    BY <1>0, <1>p, <1>t, <2>1, <2>3, <2>5 DEF ServingInv
<1>9. ASSUME NEW v \in VersionIds, Reactivate(v) PROVE ServingInv'
  <2>1. /\ rows' = [rows EXCEPT ![v].active = TRUE]
        /\ out' = [e \in Exchanges |-> out[e] \ {v}]
        /\ UNCHANGED <<enabled, artifact, made, training>>
    BY <1>9 DEF Reactivate
  <2>2. PICK s \in Scopes \cup {""} : rows[v] \in VersionRows(s)
    BY <1>0 DEF RowsTyped
  <2>3. rows'[v] \in VersionRows(s) /\ \A w \in VersionIds : w # v => rows'[w] = rows[w]
    BY <1>0, <2>1, <2>2 DEF RowsTyped, VersionRows
  <2>4. RowsTyped'
    BY <1>0, <2>1, <2>3 DEF RowsTyped
  <2>5. OutIsInactive'
    BY <1>0, <2>1, <2>3 DEF OutIsInactive
  <2> QED
    BY <1>0, <1>p, <1>t, <2>1, <2>4, <2>5 DEF ServingInv
<1>10. ASSUME NEW v \in VersionIds, CopyBack(v) PROVE ServingInv'
  <2>1. /\ artifact' = [artifact EXCEPT ![rows[v].scope] = rows[v].backup]
        /\ UNCHANGED <<enabled, rows, made, training, out>>
    BY <1>10 DEF CopyBack
  <2>2. rows[v].backup \in Artifacts(rows[v].scope)
    BY <1>0 DEF RowsTyped, VersionRows
  <2>3. PathsTyped'
    BY <1>0, <2>1, <2>2 DEF PathsTyped
  <2> QED
    BY <1>0, <1>r, <1>t, <1>o, <2>1, <2>3 DEF ServingInv
<1>11. CASE Reconfigure
  <2>1. /\ enabled' \subseteq Exchanges /\ training' = NoTraining
        /\ UNCHANGED <<artifact, rows, made, out>>
    BY <1>11 DEF Reconfigure
  <2> QED
    BY <1>0, <1>p, <1>r, <1>o, <2>1, NoTrainingTyped DEF ServingInv
<1>12. ASSUME UNCHANGED <<enabled, artifact, rows, made, training, out>> PROVE ServingInv'
  BY <1>0, <1>12, <1>p, <1>r, <1>t, <1>o DEF ServingInv
<1>13. ASSUME NEW e \in Exchanges, Analyse(e) \/ KeepPrediction(e) PROVE ServingInv'
  BY <1>12, <1>13 DEF Analyse, KeepPrediction
<1>14. CASE UNCHANGED servingVars
  BY <1>12, <1>14 DEF servingVars
<1> QED
  BY <1>2, <1>3, <1>4, <1>5, <1>6, <1>7, <1>8, <1>9, <1>10, <1>11, <1>13, <1>14
  DEF ServingNext

\* A version taken out of service for an exchange is not served to it until an
\* administrator reactivates it, and what is served learned from enabled exchanges
\* only, whatever is trained, killed, assessed, copied back or reconfigured.
THEOREM OnlyAllowedServed == ServingSpec => []OnlyAllowedIsServed
PROOF BY InitServing, ServingStep, InvServes, PTL DEF ServingSpec

(***************************************************************************)
(* FeedbackTriage                                                          *)
(***************************************************************************)

Kinds == ReporterKinds \cup TriageKinds \cup AdminKinds
Columns == [status : StatusChoices, reviewed : BOOLEAN, resolved : BOOLEAN, linked : BOOLEAN,
            notes : SUBSET Posts, response : SUBSET Posts, priority : SUBSET Posts,
            assignee : SUBSET Posts]
Post == [step : {"unused", "fetched", "saved", "recorded", "refused", "done"},
         kind : Kinds \cup {"none"}, role : {"user", "staff", "admin", "none"},
         on : Items \cup {"none"}, new : StatusChoices \cup {"none"}, copy : Columns]
Mail == [step : {"none", "queued", "reading", "done"}, seen : StatusChoices \cup {"none", "missing"},
         tries : Nat]

FeedbackTyped ==
    /\ phase \in [Items -> {"absent", "inserted", "stored"}]
    /\ item \in [Items -> Columns]
    /\ post \in [Posts -> Post]
    /\ \A r \in Posts :
         /\ InFlight(r) => post[r].kind \in Kinds /\ post[r].on \in Items
         /\ InFlight(r) /\ post[r].kind \in {"status", "withdraw"} => post[r].new \in StatusChoices
    /\ mail \in [Items \cup Posts -> Mail]
    /\ trail \in [Items -> StatusChoices]

LEMMA UnusedTyped == Unused \in Post /\ NewItem \in Columns /\ NoMail \in Mail /\ Queued \in Mail
PROOF BY DEF Unused, Post, NewItem, Columns, StatusChoices, NoMail, Queued, Mail

LEMMA InitFeedbackTyped == FeedbackInit => FeedbackTyped
PROOF
<1> SUFFICES ASSUME FeedbackInit PROVE FeedbackTyped
  OBVIOUS
<1> DEFINE Dealt(s) == [NewItem EXCEPT !.status = s, !.reviewed = TRUE, !.resolved = s \in Closed]
<1>1. ASSUME NEW s \in Earlier PROVE Dealt(s) \in Columns
  <2>1. \A b \in BOOLEAN : [NewItem EXCEPT !.status = s, !.reviewed = TRUE, !.resolved = b] \in Columns
    BY FeedbackAssumption, UnusedTyped DEF Columns
  <2>2. (s \in Closed) \in BOOLEAN
    OBVIOUS
  <2> HIDE DEF Closed
  <2> QED
    BY <2>1, <2>2
<1>2. item \in [Items -> Columns]
  <2>1. item \in [Items -> {NewItem} \cup {Dealt(s) : s \in Earlier}]
    BY DEF FeedbackInit
  <2> HIDE DEF Dealt
  <2> QED
    BY <1>1, <2>1, UnusedTyped
<1>3. trail \in [Items -> StatusChoices]
  BY <1>2 DEF FeedbackInit, Columns
<1>4. \A r \in Posts : ~InFlight(r)
  BY DEF FeedbackInit, Unused, InFlight
<1> QED
  BY <1>2, <1>3, <1>4, UnusedTyped DEF FeedbackInit, FeedbackTyped

LEMMA EditedTyped ==
    ASSUME FeedbackTyped, NEW r \in Posts, InFlight(r)
    PROVE  Edited(r) \in Columns
PROOF
<1> DEFINE q == post[r]
<1>1. /\ q.copy \in Columns /\ q.kind \in Kinds
      /\ q.kind \in {"status", "withdraw"} => q.new \in StatusChoices
  BY DEF FeedbackTyped, Post
<1>2. CASE q.kind \in {"status", "withdraw"}
  BY <1>1, <1>2 DEF Edited, Columns
<1>3. CASE q.kind \in {"duplicate", "dispute"}
  BY <1>1, <1>3 DEF Edited, Columns, StatusChoices, Closed
<1>4. CASE q.kind = "note"
  BY <1>1, <1>4 DEF Edited, Columns
<1>5. CASE q.kind \in {"response", "priority", "assign"}
  BY <1>1, <1>5 DEF Edited, Columns
<1>6. CASE q.kind \notin {"status", "withdraw", "duplicate", "dispute", "note", "response",
                          "priority", "assign"}
  BY <1>1, <1>6 DEF Edited
<1> QED
  BY <1>2, <1>3, <1>4, <1>5, <1>6

\* Every column of the row is the request's or stays.
LEMMA WrittenIs ==
    ASSUME FeedbackTyped, NEW r \in Posts, InFlight(r), NEW cur \in Columns
    PROVE  /\ Written(cur, r) \in Columns
           /\ Written(cur, r).status = IF "status" \in UpdateFields(post[r].kind)
                                         THEN Edited(r).status ELSE cur.status
           /\ Written(cur, r).notes = IF "notes" \in UpdateFields(post[r].kind)
                                        THEN Edited(r).notes ELSE cur.notes
PROOF
<1>1. Edited(r) \in Columns
  BY EditedTyped
<1>2. DOMAIN NewItem = {"status", "reviewed", "resolved", "linked", "notes", "response",
                        "priority", "assignee"}
  BY DEF NewItem
<1> DEFINE U == UpdateFields(post[r].kind)
           E == Edited(r)
<1>3. Written(cur, r) = [c \in DOMAIN NewItem |-> IF c \in U THEN E[c] ELSE cur[c]]
  BY DEF Written
<1> HIDE DEF U, E
<1>4. Written(cur, r) =
        [status |-> IF "status" \in U THEN E.status ELSE cur.status,
         reviewed |-> IF "reviewed" \in U THEN E.reviewed ELSE cur.reviewed,
         resolved |-> IF "resolved" \in U THEN E.resolved ELSE cur.resolved,
         linked |-> IF "linked" \in U THEN E.linked ELSE cur.linked,
         notes |-> IF "notes" \in U THEN E.notes ELSE cur.notes,
         response |-> IF "response" \in U THEN E.response ELSE cur.response,
         priority |-> IF "priority" \in U THEN E.priority ELSE cur.priority,
         assignee |-> IF "assignee" \in U THEN E.assignee ELSE cur.assignee]
  BY <1>2, <1>3
<1>5. E \in Columns
  BY <1>1 DEF E
<1>6. Written(cur, r) \in Columns
  BY <1>4, <1>5 DEF Columns
<1> QED
  BY <1>4, <1>6 DEF U, E

\* What the step of a request does to its own record and to no other's.
LEMMA RequestSteps ==
    ASSUME FeedbackTyped, NEW r \in Posts, NEW new \in Post, post' = [post EXCEPT ![r] = new]
    PROVE  post' \in [Posts -> Post] /\ post'[r] = new /\ \A s \in Posts \ {r} : post'[s] = post[s]
PROOF BY DEF FeedbackTyped

LEMMA DoneTyped ==
    ASSUME FeedbackTyped, NEW r \in Posts
    PROVE  /\ [post[r] EXCEPT !.step = "saved"] \in Post
           /\ [post[r] EXCEPT !.step = "recorded"] \in Post
           /\ [Unused EXCEPT !.step = "refused"] \in Post
           /\ [Unused EXCEPT !.step = "done", !.kind = post[r].kind, !.on = post[r].on] \in Post
PROOF BY UnusedTyped DEF FeedbackTyped, Post, Unused

\* Only a finished request has a message.
MailKnown ==
    \A x \in Posts : mail[x].step # "none" => post[x].step = "done" /\ post[x].on \in Items

\* The requests people make.
LEMMA Fetches ==
    ASSUME NEW r \in Posts, NEW i \in Items, NEW role \in {"user", "staff", "admin"},
           \/ \E new \in Asked : Fetch(r, "status", role, i, new)
           \/ Fetch(r, "withdraw", role, i, "withdrawn")
           \/ \E kind \in (ReporterKinds \cup TriageKinds \cup AdminKinds)
                            \ {"status", "withdraw"} : Fetch(r, kind, role, i, "none")
    PROVE  \E kind \in Kinds, n \in StatusChoices \cup {"none"} :
             /\ Fetch(r, kind, role, i, n)
             /\ kind \in {"status", "withdraw"} => n \in StatusChoices
PROOF
<1>1. "status" \in Kinds /\ "withdraw" \in Kinds /\ "withdrawn" \in StatusChoices
      /\ Asked \subseteq StatusChoices
  BY FeedbackAssumption DEF Kinds, TriageKinds, ReporterKinds, StatusChoices, Closed
<1>2. CASE \E new \in Asked : Fetch(r, "status", role, i, new)
  BY <1>1, <1>2
<1>3. CASE Fetch(r, "withdraw", role, i, "withdrawn")
  BY <1>1, <1>3
<1>4. CASE \E kind \in (ReporterKinds \cup TriageKinds \cup AdminKinds)
                         \ {"status", "withdraw"} : Fetch(r, kind, role, i, "none")
  BY <1>4 DEF Kinds
<1> QED
  BY <1>2, <1>3, <1>4

LEMMA FeedbackTypedStep ==
    FeedbackTyped /\ MailKnown /\ [FeedbackNext]_feedbackVars => FeedbackTyped'
PROOF
<1> SUFFICES ASSUME FeedbackTyped, MailKnown, [FeedbackNext]_feedbackVars PROVE FeedbackTyped'
  OBVIOUS
<1>1. ASSUME NEW i \in Items, CreateFeedback(i) \/ CommitFeedback(i) PROVE FeedbackTyped'
  <2>1. mail' \in [Items \cup Posts -> Mail] /\ phase' \in [Items -> {"absent", "inserted", "stored"}]
    BY <1>1, UnusedTyped DEF CreateFeedback, CommitFeedback, FeedbackTyped
  <2>2. UNCHANGED <<item, post, trail>>
    BY <1>1 DEF CreateFeedback, CommitFeedback
  <2> QED
    BY <2>1, <2>2 DEF FeedbackTyped, InFlight
\* A request whose next record is new.
<1>2. ASSUME NEW r \in Posts, NEW new \in Post, post' = [post EXCEPT ![r] = new],
             new.step \in {"fetched", "saved", "recorded"} =>
               /\ new.kind \in Kinds /\ new.on \in Items
               /\ new.kind \in {"status", "withdraw"} => new.new \in StatusChoices,
             item' \in [Items -> Columns], trail' \in [Items -> StatusChoices],
             mail' \in [Items \cup Posts -> Mail], UNCHANGED phase
      PROVE  FeedbackTyped'
  <2>1. post' \in [Posts -> Post] /\ post'[r] = new /\ \A s \in Posts \ {r} : post'[s] = post[s]
    BY <1>2, RequestSteps
  <2> QED
    BY <1>2, <2>1 DEF FeedbackTyped, InFlight
<1>3. ASSUME NEW r \in Posts, NEW kind \in Kinds, NEW role \in {"user", "staff", "admin"},
             NEW i \in Items, NEW n \in StatusChoices \cup {"none"}, Fetch(r, kind, role, i, n),
             kind \in {"status", "withdraw"} => n \in StatusChoices
      PROVE  FeedbackTyped'
  <2> DEFINE new == [step |-> "fetched", kind |-> kind, role |-> role, on |-> i, new |-> n,
                     copy |-> item[i]]
  <2>1. new \in Post
    BY DEF FeedbackTyped, Post
  <2>2. post' = [post EXCEPT ![r] = new] /\ UNCHANGED <<phase, item, mail, trail>>
    BY <1>3 DEF Fetch
  <2>3. item' \in [Items -> Columns] /\ trail' \in [Items -> StatusChoices]
        /\ mail' \in [Items \cup Posts -> Mail]
    BY <2>2 DEF FeedbackTyped
  <2>4. new.kind = kind /\ new.on = i /\ new.new = n
    OBVIOUS
  <2> HIDE DEF new
  <2> QED
    BY <1>2, <1>3, <2>1, <2>2, <2>3, <2>4
<1>4. ASSUME NEW r \in Posts, Refuse(r) PROVE FeedbackTyped'
  <2> DEFINE new == [Unused EXCEPT !.step = "refused"]
  <2>1. new \in Post /\ new.step = "refused"
    BY DoneTyped, UnusedTyped DEF Post
  <2>2. post' = [post EXCEPT ![r] = new] /\ UNCHANGED <<phase, item, mail, trail>>
    BY <1>4 DEF Refuse
  <2> QED
    BY <1>2, <2>1, <2>2 DEF FeedbackTyped
<1>5. ASSUME NEW r \in Posts, SaveFields(r) PROVE FeedbackTyped'
  <2> DEFINE new == [post[r] EXCEPT !.step = "saved"]
             i == post[r].on
  <2>1. InFlight(r) /\ i \in Items
    BY <1>5 DEF SaveFields, InFlight, FeedbackTyped
  <2>2. /\ post' = [post EXCEPT ![r] = new] /\ UNCHANGED <<phase, mail, trail>>
        /\ item' = [item EXCEPT ![i] = Written(item[i], r)]
    BY <1>5 DEF SaveFields
  <2>3. item' \in [Items -> Columns]
    <3>1. item[i] \in Columns
      BY <2>1 DEF FeedbackTyped
    <3>2. Written(item[i], r) \in Columns
      BY <2>1, <3>1, WrittenIs
    <3> QED
      BY <2>2, <3>2 DEF FeedbackTyped
  <2>4. /\ new \in Post /\ new.kind = post[r].kind /\ new.on = i /\ new.new = post[r].new
    <3>1. post[r] \in Post
      BY DEF FeedbackTyped
    <3> QED
      BY <3>1, DoneTyped DEF Post
  <2>5. new.kind \in Kinds /\ (new.kind \in {"status", "withdraw"} => new.new \in StatusChoices)
    BY <2>1, <2>4 DEF FeedbackTyped
  <2>6. trail' \in [Items -> StatusChoices] /\ mail' \in [Items \cup Posts -> Mail]
    BY <2>2 DEF FeedbackTyped
  <2> HIDE DEF new
  <2> QED
    BY <1>2, <2>1, <2>2, <2>3, <2>4, <2>5, <2>6
<1>6. ASSUME NEW r \in Posts, RecordEvent(r) PROVE FeedbackTyped'
  <2> DEFINE q == post[r]
             new == IF q.kind \in NotifyingKinds THEN [q EXCEPT !.step = "recorded"]
                    ELSE [Unused EXCEPT !.step = "done", !.kind = q.kind, !.on = q.on]
  <2>1. InFlight(r) /\ q.kind \in Kinds /\ q.on \in Items
        /\ (q.kind \in {"status", "withdraw"} => q.new \in StatusChoices)
    BY <1>6 DEF RecordEvent, InFlight, FeedbackTyped
  <2>2. /\ post' = [post EXCEPT ![r] = new] /\ UNCHANGED <<phase, item, mail>>
        /\ trail' = [trail EXCEPT ![q.on] = TrailAfter(q)]
    BY <1>6 DEF RecordEvent
  <2>3. TrailAfter(q) \in StatusChoices
    BY <2>1 DEF TrailAfter, StatusChoices, Closed, FeedbackTyped
  <2>4. /\ new \in Post
        /\ new.step = "recorded" => new.kind = q.kind /\ new.on = q.on /\ new.new = q.new
        /\ new.step \in {"recorded", "done"}
    <3>1. q \in Post
      BY DEF FeedbackTyped
    <3>2. CASE q.kind \in NotifyingKinds
      BY <3>1, <3>2, DoneTyped DEF Post
    <3>3. CASE q.kind \notin NotifyingKinds
      BY <3>3, DoneTyped DEF Unused
    <3> QED
      BY <3>2, <3>3
  <2>5. trail' \in [Items -> StatusChoices] /\ mail' \in [Items \cup Posts -> Mail]
        /\ item' \in [Items -> Columns]
    BY <2>2, <2>3 DEF FeedbackTyped
  <2> HIDE DEF new
  <2> QED
    BY <1>2, <2>1, <2>2, <2>4, <2>5
<1>7. ASSUME NEW r \in Posts, Notify(r) \/ RequestDies(r) PROVE FeedbackTyped'
  <2> DEFINE new == [Unused EXCEPT !.step = "done", !.kind = post[r].kind, !.on = post[r].on]
  <2>1. new \in Post /\ new.step = "done"
    BY DoneTyped DEF Unused
  <2>2. /\ post' = [post EXCEPT ![r] = new] /\ UNCHANGED <<phase, item, trail>>
        /\ mail' = [mail EXCEPT ![r] = Queued] \/ mail' = mail
    BY <1>7 DEF Notify, RequestDies
  <2>3. mail' \in [Items \cup Posts -> Mail]
    BY <2>2, UnusedTyped DEF FeedbackTyped
  <2>4. trail' \in [Items -> StatusChoices] /\ item' \in [Items -> Columns]
    BY <2>2 DEF FeedbackTyped
  <2> HIDE DEF new
  <2> QED
    BY <1>2, <2>1, <2>2, <2>3, <2>4
\* notify_reporter
<1>8. ASSUME NEW x \in Items \cup Posts, NEW new \in Mail, mail' = [mail EXCEPT ![x] = new],
             UNCHANGED <<phase, item, post, trail>>
      PROVE  FeedbackTyped'
  BY <1>8 DEF FeedbackTyped, InFlight
<1>9. ASSUME NEW x \in Items \cup Posts,
             SkipMissing(x) \/ CreateAlert(x) \/ RetryMail(x) \/ GiveUpMail(x)
             \/ \E redelivered \in BOOLEAN : LoseMail(x, redelivered)
      PROVE  FeedbackTyped'
  <2>1. mail[x].tries \in Nat /\ mail[x].tries + 1 \in Nat
    BY DEF FeedbackTyped, Mail
  <2>2. /\ [NoMail EXCEPT !.step = "done"] \in Mail
        /\ [Queued EXCEPT !.tries = mail[x].tries + 1] \in Mail
        /\ [Queued EXCEPT !.tries = mail[x].tries] \in Mail
    BY <2>1, UnusedTyped DEF Mail
  <2> QED
    BY <1>8, <1>9, <2>2 DEF SkipMissing, CreateAlert, RetryMail, GiveUpMail, LoseMail
<1>10. ASSUME NEW x \in Items \cup Posts, ReadItem(x) PROVE FeedbackTyped'
  <2> DEFINE new == [mail[x] EXCEPT !.step = "reading", !.seen = SeenBy(About(x))]
  <2>1. SeenBy(About(x)) \in StatusChoices \cup {"missing"}
    <3>1. About(x) \in Items
      BY <1>10 DEF About, ReadItem, MailKnown
    <3> QED
      BY <3>1 DEF SeenBy, FeedbackTyped, Columns
  <2>2. new \in Mail
    BY <2>1 DEF FeedbackTyped, Mail
  <2>3. mail' = [mail EXCEPT ![x] = new] /\ UNCHANGED <<phase, item, post, trail>>
    BY <1>10 DEF ReadItem
  <2> HIDE DEF new
  <2> QED
    BY <1>8, <2>2, <2>3
<1>11. CASE UNCHANGED feedbackVars
  BY <1>11 DEF feedbackVars, FeedbackTyped, InFlight
<1>12. ASSUME NEW r \in Posts, NEW i \in Items, NEW role \in {"user", "staff", "admin"},
              \/ \E new \in Asked : Fetch(r, "status", role, i, new)
              \/ Fetch(r, "withdraw", role, i, "withdrawn")
              \/ \E kind \in (ReporterKinds \cup TriageKinds \cup AdminKinds)
                               \ {"status", "withdraw"} : Fetch(r, kind, role, i, "none")
       PROVE  FeedbackTyped'
  BY <1>3, <1>12, Fetches
<1> QED
  BY <1>1, <1>4, <1>5, <1>6, <1>7, <1>9, <1>10, <1>11, <1>12 DEF FeedbackNext

LEMMA MailKnownStep ==
    FeedbackTyped /\ MailKnown /\ [FeedbackNext]_feedbackVars => MailKnown'
PROOF
<1> SUFFICES ASSUME FeedbackTyped, MailKnown, [FeedbackNext]_feedbackVars,
                    NEW x \in Posts, mail'[x].step # "none"
             PROVE  post'[x].step = "done" /\ post'[x].on \in Items
  BY DEF MailKnown
<1> USE DEF MailKnown
<1>1. ASSUME NEW i \in Items, CreateFeedback(i) \/ CommitFeedback(i) PROVE mail'[x] = mail[x] /\ post' = post
  BY <1>1, FeedbackAssumption DEF CreateFeedback, CommitFeedback, FeedbackTyped
<1>2. ASSUME NEW r \in Posts, NEW i \in Items, NEW kind \in Kinds, NEW role, NEW n,
             Fetch(r, kind, role, i, n)
      PROVE  mail' = mail /\ (r = x \/ post'[x] = post[x]) /\ post[r].step = "unused"
  BY <1>2 DEF Fetch, FeedbackTyped
<1>3. ASSUME NEW r \in Posts, Refuse(r) \/ SaveFields(r) \/ RecordEvent(r) \/ RequestDies(r)
      PROVE  mail' = mail /\ (r = x \/ post'[x] = post[x]) /\ post[r].step # "done"
  BY <1>3 DEF Refuse, SaveFields, RecordEvent, RequestDies, FeedbackTyped
<1>4. ASSUME NEW r \in Posts, Notify(r)
      PROVE  IF r = x THEN post'[x].step = "done" /\ post'[x].on = post[x].on
                           /\ post[x].on \in Items
             ELSE mail'[x] = mail[x] /\ post'[x] = post[x]
  BY <1>4 DEF Notify, FeedbackTyped, Unused, InFlight
<1>5. ASSUME NEW y \in Items \cup Posts,
             \/ ReadItem(y) \/ SkipMissing(y) \/ CreateAlert(y) \/ RetryMail(y) \/ GiveUpMail(y)
             \/ \E redelivered \in BOOLEAN : LoseMail(y, redelivered)
      PROVE  post' = post /\ mail[y].step # "none" /\ (y = x \/ mail'[x] = mail[x])
  BY <1>5 DEF ReadItem, SkipMissing, CreateAlert, RetryMail, GiveUpMail, LoseMail, FeedbackTyped
<1>6. CASE UNCHANGED feedbackVars
  BY <1>6 DEF feedbackVars
<1>7. CASE \E r \in Posts, i \in Items, role \in {"user", "staff", "admin"} :
             \/ \E new \in Asked : Fetch(r, "status", role, i, new)
             \/ Fetch(r, "withdraw", role, i, "withdrawn")
             \/ \E kind \in (ReporterKinds \cup TriageKinds \cup AdminKinds)
                              \ {"status", "withdraw"} : Fetch(r, kind, role, i, "none")
  BY <1>2, <1>7, Fetches
<1> QED
  BY <1>1, <1>3, <1>4, <1>5, <1>6, <1>7 DEF FeedbackNext

(***************************************************************************)
(* What is true of an item that had one request at a time: the request at  *)
(* work on it has the row as it is, and trail and status agree except      *)
(* between its save and its event.                                         *)
(***************************************************************************)
NotesKept ==
    \A i \in Items \ contended : \A r \in Posts :
      (post[r].on = i /\ post[r].kind = "note" /\ post[r].step \in {"saved", "recorded", "done"})
        => r \in item[i].notes

OneAtATime ==
    \A i \in Items \ contended : \A r, s \in On(i) : r = s

CopyIsRow ==
    \A i \in Items \ contended : \A r \in On(i) : post[r].step = "fetched" => post[r].copy = item[i]

TrailFollows ==
    \A i \in Items \ contended :
      /\ \A r \in On(i) : post[r].step = "saved" => TrailAfter(post[r]) = item[i].status
      /\ (\A r \in On(i) : post[r].step # "saved") => trail[i] = item[i].status

QuietInv == NotesKept /\ OneAtATime /\ CopyIsRow /\ TrailFollows

\* The row after a save, column by column, when the copy is the row.
LEMMA SavedRow ==
    ASSUME FeedbackTyped, NEW r \in Posts, InFlight(r), post[r].copy = item[post[r].on]
    PROVE  LET i == post[r].on
               after == Written(item[i], r)
           IN  /\ after.notes = IF post[r].kind = "note" THEN item[i].notes \cup {r} ELSE item[i].notes
               /\ trail[i] = item[i].status => after.status = TrailAfter(post[r])
PROOF
<1> DEFINE q == post[r]
           i == q.on
           row == item[i]
           after == Written(row, r)
<1>1. i \in Items /\ row \in Columns /\ q.kind \in Kinds
  BY DEF FeedbackTyped
<1>2. /\ after.status = IF "status" \in UpdateFields(q.kind) THEN Edited(r).status ELSE row.status
      /\ after.notes = IF "notes" \in UpdateFields(q.kind) THEN Edited(r).notes ELSE row.notes
  BY <1>1, WrittenIs
<1>3. \A k \in Kinds : /\ "status" \in UpdateFields(k) <=> k \in StatusKinds
                       /\ "notes" \in UpdateFields(k) <=> k = "note"
  BY DEF UpdateFields, StatusKinds
<1>4. q.kind = "note" => Edited(r).notes = row.notes \cup {r}
  BY <1>1 DEF Edited, Columns
<1>5. q.kind \in {"status", "withdraw"} => Edited(r).status = q.new
  BY <1>1 DEF Edited, Columns
<1>6. q.kind = "duplicate" => Edited(r).status = "duplicate"
  BY <1>1 DEF Edited, Columns
<1>7. q.kind = "dispute" => Edited(r).status = "under_review"
  BY <1>1 DEF Edited, Columns
<1>8. trail[i] = row.status => after.status = TrailAfter(q)
  BY <1>1, <1>2, <1>3, <1>5, <1>6, <1>7 DEF TrailAfter, StatusKinds
<1> QED
  BY <1>1, <1>2, <1>3, <1>4, <1>8

LEMMA QuietInit == FeedbackInit => QuietInv
PROOF
<1> SUFFICES ASSUME FeedbackInit PROVE QuietInv
  OBVIOUS
<1>1. /\ \A r \in Posts : post[r].step = "unused"
      /\ \A i \in Items : trail[i] = item[i].status
  BY DEF FeedbackInit, Unused
<1> QED
  BY <1>1 DEF QuietInv, NotesKept, OneAtATime, CopyIsRow, TrailFollows, On, InFlight

LEMMA QuietStep ==
    FeedbackTyped /\ QuietInv /\ [FeedbackNext]_feedbackVars => QuietInv'
PROOF
<1> SUFFICES ASSUME FeedbackTyped, QuietInv, [FeedbackNext]_feedbackVars PROVE QuietInv'
  OBVIOUS
\* Requests and rows as they were: nothing changes.
<1>1. ASSUME UNCHANGED <<item, post, trail, contended>> PROVE QuietInv'
  BY <1>1 DEF QuietInv, NotesKept, OneAtATime, CopyIsRow, TrailFollows, On, InFlight, TrailAfter
<1>2. ASSUME NEW r \in Posts, NEW i \in Items, NEW kind \in Kinds,
             NEW role \in {"user", "staff", "admin"}, NEW n \in StatusChoices \cup {"none"},
             Fetch(r, kind, role, i, n)
      PROVE  QuietInv'
  <2>1. /\ ~InFlight(r) /\ post[r].step = "unused"
        /\ post'[r].step = "fetched" /\ post'[r].on = i /\ post'[r].copy = item[i]
        /\ \A s \in Posts \ {r} : post'[s] = post[s]
        /\ UNCHANGED <<item, trail>>
        /\ contended \subseteq contended'
        /\ On(i) # {} => i \in contended'
    BY <1>2 DEF Fetch, FeedbackTyped, InFlight
  <2>2. /\ On(i)' = On(i) \cup {r}
        /\ \A j \in Items \ {i} : On(j)' = On(j)
    BY <2>1 DEF On, InFlight
  <2>3. \A s \in Posts \ {r} : TrailAfter(post[s])' = TrailAfter(post[s])
    BY <2>1 DEF TrailAfter
  <2>4. \A j \in Items : r \notin On(j)
    BY <2>1 DEF On
  <2>5. NotesKept'
    BY <2>1 DEF QuietInv, NotesKept
  <2>6. OneAtATime'
    BY <2>1, <2>2 DEF QuietInv, OneAtATime
  <2>7. CopyIsRow'
    <3>1. ASSUME NEW j \in Items \ contended', NEW s \in On(j)', post'[s].step = "fetched"
          PROVE  post'[s].copy = item[j]
      BY <2>1, <2>2, <2>4, <3>1 DEF QuietInv, CopyIsRow, On
    <3> QED
      BY <2>1, <3>1 DEF CopyIsRow
  <2>8. TrailFollows'
    <3>1. ASSUME NEW j \in Items \ contended'
          PROVE  /\ \A s \in On(j)' : post'[s].step = "saved" => TrailAfter(post[s])' = item[j].status
                 /\ (\A s \in On(j)' : post'[s].step # "saved") => trail[j] = item[j].status
      <4>1. On(j) \subseteq On(j)' /\ On(j)' \subseteq On(j) \cup {r}
        BY <2>2
      <4>2. \A s \in On(j) : s # r /\ post'[s] = post[s] /\ TrailAfter(post[s])' = TrailAfter(post[s])
        BY <2>1, <2>3, <2>4 DEF On
      <4> QED
        BY <2>1, <3>1, <4>1, <4>2 DEF QuietInv, TrailFollows
    <3> QED
      BY <2>1, <3>1 DEF TrailFollows
  <2> QED
    BY <2>5, <2>6, <2>7, <2>8 DEF QuietInv
<1>3. ASSUME NEW r \in Posts, Refuse(r) PROVE QuietInv'
  <2>1. /\ post[r].step = "fetched" /\ post'[r].step = "refused"
        /\ \A s \in Posts \ {r} : post'[s] = post[s]
        /\ UNCHANGED <<item, trail, contended>>
    BY <1>3 DEF Refuse, FeedbackTyped, Unused
  <2>2. \A j \in Items : On(j)' = On(j) \ {r}
    BY <2>1 DEF On, InFlight
  <2>3. \A s \in Posts \ {r} : TrailAfter(post[s])' = TrailAfter(post[s])
    BY <2>1 DEF TrailAfter
  <2>4. NotesKept'
    BY <2>1 DEF QuietInv, NotesKept
  <2>5. OneAtATime'
    BY <2>1, <2>2 DEF QuietInv, OneAtATime
  <2>6. CopyIsRow'
    BY <2>1, <2>2 DEF QuietInv, CopyIsRow, On
  <2>7. TrailFollows'
    BY <2>1, <2>2, <2>3 DEF QuietInv, TrailFollows, On
  <2> QED
    BY <2>4, <2>5, <2>6, <2>7 DEF QuietInv
<1>4. ASSUME NEW r \in Posts, SaveFields(r) PROVE QuietInv'
  <2> DEFINE i == post[r].on
             after == Written(item[i], r)
  <2>1. /\ InFlight(r) /\ post[r].step = "fetched" /\ i \in Items /\ r \in On(i)
    BY <1>4 DEF SaveFields, InFlight, FeedbackTyped, On
  <2>2. /\ post'[r].step = "saved" /\ post'[r].on = i /\ post'[r].kind = post[r].kind
        /\ post'[r].new = post[r].new
        /\ \A s \in Posts \ {r} : post'[s] = post[s]
        /\ item'[i] = after /\ \A j \in Items \ {i} : item'[j] = item[j]
        /\ UNCHANGED <<trail, contended>>
    <3>1. post[r] \in Post
      BY DEF FeedbackTyped
    <3> QED
      BY <1>4, <2>1, <3>1 DEF SaveFields, FeedbackTyped, Post
  <2>3. \A j \in Items : On(j)' = On(j)
    BY <2>1, <2>2 DEF On, InFlight
  <2>4. ASSUME i \notin contended
        PROVE  /\ \A s \in On(i) : s = r
               /\ after.notes = IF post[r].kind = "note" THEN item[i].notes \cup {r}
                                ELSE item[i].notes
               /\ after.status = TrailAfter(post[r])
    <3>1. \A s \in On(i) : s = r
      BY <2>1, <2>4 DEF QuietInv, OneAtATime
    <3>2. trail[i] = item[i].status /\ post[r].copy = item[i]
      BY <2>1, <2>4, <3>1 DEF QuietInv, TrailFollows, CopyIsRow
    <3> QED
      BY <2>1, <3>1, <3>2, SavedRow
  <2>5. \A s \in Posts : TrailAfter(post[s])' = TrailAfter(post[s])
    BY <2>2 DEF TrailAfter
  <2> HIDE DEF after
  <2>6. NotesKept'
    BY <2>1, <2>2, <2>4 DEF QuietInv, NotesKept
  <2>7. OneAtATime'
    BY <2>2, <2>3 DEF QuietInv, OneAtATime
  <2>8. CopyIsRow'
    <3> SUFFICES ASSUME NEW j \in Items \ contended, NEW s \in On(j), post'[s].step = "fetched"
                 PROVE  post'[s].copy = item'[j]
      BY <2>2, <2>3 DEF CopyIsRow
    <3>1. s # r /\ j # i
      BY <2>2, <2>4
    <3> QED
      BY <2>2, <3>1 DEF QuietInv, CopyIsRow, On
  <2>9. TrailFollows'
    <3>1. ASSUME NEW j \in Items \ contended
          PROVE  /\ \A s \in On(j) : post'[s].step = "saved" => TrailAfter(post[s])' = item'[j].status
                 /\ (\A s \in On(j) : post'[s].step # "saved") => trail[j] = item'[j].status
      <4>1. CASE j = i
        BY <2>1, <2>2, <2>4, <2>5, <3>1, <4>1
      <4>2. CASE j # i
        <5>1. \A s \in On(j) : s # r /\ post'[s] = post[s]
          BY <2>2, <4>2 DEF On
        <5> QED
          BY <2>2, <2>5, <3>1, <4>2, <5>1 DEF QuietInv, TrailFollows, On
      <4> QED
        BY <4>1, <4>2
    <3> QED
      BY <2>2, <2>3, <3>1 DEF TrailFollows
  <2> QED
    BY <2>6, <2>7, <2>8, <2>9 DEF QuietInv
<1>5. ASSUME NEW r \in Posts, RecordEvent(r) PROVE QuietInv'
  <2> DEFINE i == post[r].on
  <2>1. InFlight(r) /\ post[r].step = "saved" /\ i \in Items /\ r \in On(i)
    BY <1>5 DEF RecordEvent, InFlight, FeedbackTyped, On
  <2>2. /\ post'[r].on = i /\ post'[r].kind = post[r].kind /\ post'[r].step \in {"recorded", "done"}
        /\ \A s \in Posts \ {r} : post'[s] = post[s]
        /\ trail'[i] = TrailAfter(post[r]) /\ \A j \in Items \ {i} : trail'[j] = trail[j]
        /\ UNCHANGED <<item, contended>>
    <3>1. post[r] \in Post
      BY DEF FeedbackTyped
    <3> QED
      BY <1>5, <2>1, <3>1 DEF RecordEvent, FeedbackTyped, Post, Unused
  <2>3. \A j \in Items : On(j)' \subseteq On(j)
    BY <2>1, <2>2 DEF On, InFlight
  <2>4. i \notin contended => \A s \in On(i) : s = r
    BY <2>1 DEF QuietInv, OneAtATime
  <2>5. NotesKept'
    BY <2>1, <2>2 DEF QuietInv, NotesKept
  <2>6. OneAtATime'
    BY <2>2, <2>3 DEF QuietInv, OneAtATime
  <2>7. CopyIsRow'
    BY <2>2, <2>3 DEF QuietInv, CopyIsRow, On
  <2>8. TrailFollows'
    <3>1. ASSUME NEW j \in Items \ contended
          PROVE  /\ \A s \in On(j)' : post'[s].step = "saved" => TrailAfter(post[s])' = item[j].status
                 /\ (\A s \in On(j)' : post'[s].step # "saved") => trail'[j] = item[j].status
      <4>1. CASE j = i
        <5>1. trail'[j] = item[j].status
          BY <2>1, <2>2, <3>1, <4>1 DEF QuietInv, TrailFollows
        <5>2. \A s \in On(j)' : post'[s].step # "saved"
          BY <2>2, <2>3, <2>4, <3>1, <4>1
        <5> QED
          BY <5>1, <5>2
      <4>2. CASE j # i
        <5>1. On(j)' = On(j)
          BY <2>1, <2>2, <4>2 DEF On, InFlight
        <5>2. \A s \in On(j) : s # r /\ post'[s] = post[s] /\ TrailAfter(post[s])' = TrailAfter(post[s])
          BY <2>2, <4>2 DEF On, TrailAfter
        <5> QED
          BY <2>2, <3>1, <4>2, <5>1, <5>2 DEF QuietInv, TrailFollows
      <4> QED
        BY <4>1, <4>2
    <3> QED
      BY <2>2, <3>1 DEF TrailFollows
  <2> QED
    BY <2>5, <2>6, <2>7, <2>8 DEF QuietInv
\* The request ends, quietly or not.
<1>6. ASSUME NEW r \in Posts, Notify(r) \/ RequestDies(r) PROVE QuietInv'
  <2> DEFINE i == post[r].on
  <2>1. InFlight(r) /\ post[r].step \in {"saved", "recorded"} /\ i \in Items /\ r \in On(i)
    BY <1>6 DEF Notify, RequestDies, InFlight, FeedbackTyped, On
  <2>2. /\ post'[r].on = i /\ post'[r].kind = post[r].kind /\ post'[r].step = "done"
        /\ \A s \in Posts \ {r} : post'[s] = post[s]
        /\ contended \subseteq contended' /\ (post[r].step = "saved" => i \in contended')
        /\ UNCHANGED <<item, trail>>
    BY <1>6, <2>1 DEF Notify, RequestDies, FeedbackTyped, Unused
  <2>3. \A j \in Items : On(j)' = On(j) \ {r}
    BY <2>1, <2>2 DEF On, InFlight
  <2>4. \A s \in Posts \ {r} : TrailAfter(post[s])' = TrailAfter(post[s])
    BY <2>2 DEF TrailAfter
  <2>5. NotesKept'
    BY <2>1, <2>2 DEF QuietInv, NotesKept
  <2>6. OneAtATime'
    BY <2>2, <2>3 DEF QuietInv, OneAtATime
  <2>7. CopyIsRow'
    BY <2>2, <2>3 DEF QuietInv, CopyIsRow, On
  <2>8. TrailFollows'
    <3>1. \A j \in Items \ contended' : \A s \in On(j) : s = r => post[s].step # "saved"
      BY <2>1, <2>2 DEF On
    <3> QED
      BY <2>1, <2>2, <2>3, <2>4, <3>1 DEF QuietInv, TrailFollows, On
  <2> QED
    BY <2>5, <2>6, <2>7, <2>8 DEF QuietInv
<1>7. CASE \E i \in Items : CreateFeedback(i) \/ CommitFeedback(i)
  BY <1>1, <1>7 DEF CreateFeedback, CommitFeedback
<1>8. CASE \E x \in Items \cup Posts :
             \/ ReadItem(x) \/ SkipMissing(x) \/ CreateAlert(x) \/ RetryMail(x) \/ GiveUpMail(x)
             \/ \E redelivered \in BOOLEAN : LoseMail(x, redelivered)
  BY <1>1, <1>8 DEF ReadItem, SkipMissing, CreateAlert, RetryMail, GiveUpMail, LoseMail
<1>9. CASE UNCHANGED feedbackVars
  BY <1>1, <1>9 DEF feedbackVars
<1>10. CASE \E r \in Posts, i \in Items, role \in {"user", "staff", "admin"} :
              \/ \E new \in Asked : Fetch(r, "status", role, i, new)
              \/ Fetch(r, "withdraw", role, i, "withdrawn")
              \/ \E kind \in (ReporterKinds \cup TriageKinds \cup AdminKinds)
                               \ {"status", "withdraw"} : Fetch(r, kind, role, i, "none")
  BY <1>2, <1>10, Fetches
<1> QED
  BY <1>3, <1>4, <1>5, <1>6, <1>7, <1>8, <1>9, <1>10 DEF FeedbackNext

THEOREM QuietConsistent == FeedbackSpec => []QuietItemConsistent
PROOF
<1> DEFINE I == FeedbackTyped /\ MailKnown /\ QuietInv
<1>1. FeedbackInit => I
  <2>1. FeedbackInit => MailKnown
    <3> SUFFICES ASSUME FeedbackInit PROVE \A x \in Posts : mail[x].step = "none"
      BY DEF MailKnown
    <3>1. mail = [x \in Items \cup Posts |-> NoMail]
      BY DEF FeedbackInit
    <3> QED
      BY <3>1 DEF NoMail
  <2> QED
    BY <2>1, InitFeedbackTyped, QuietInit
<1>2. I /\ [FeedbackNext]_feedbackVars => I'
  BY FeedbackTypedStep, MailKnownStep, QuietStep
<1>3. I => QuietItemConsistent
  BY DEF QuietInv, NotesKept, TrailFollows, QuietItemConsistent
<1> QED
  BY <1>1, <1>2, <1>3, PTL DEF FeedbackSpec

(***************************************************************************)
(* Nobody is left untold.  What keeps an item's reporter owed something    *)
(* alive is a request that has saved and not yet notified, or a message    *)
(* that is queued or was read when the status was the present one; only    *)
(* the item's own requests and messages disturb either.                    *)
(***************************************************************************)
Owing(r) == post[r].step \in {"saved", "recorded"} /\ post[r].kind \in NotifyingKinds
Telling(x, i) ==
    /\ About(x) = i
    /\ \/ mail[x].step = "queued"
       \/ mail[x].step = "reading" /\ mail[x].seen = item[i].status

Witness(i) == (\E r \in On(i) : Owing(r)) \/ (\E x \in Items \cup Posts : Telling(x, i))

OnlyStored ==
    /\ \A i \in Items : phase[i] # "stored" => i \in told
    /\ \A r \in Posts : InFlight(r) => phase[post[r].on] = "stored"

LEMMA UntoldIs == NobodyLeftUntold <=> \A i \in Items \ (told \cup lost) : Witness(i)
PROOF BY DEF NobodyLeftUntold, Witness, Owing, Telling

LEMMA OnlyStoredStep ==
    FeedbackTyped /\ OnlyStored /\ [FeedbackNext]_feedbackVars => OnlyStored'
PROOF
<1> SUFFICES ASSUME FeedbackTyped, OnlyStored, [FeedbackNext]_feedbackVars PROVE OnlyStored'
  OBVIOUS
<1> USE DEF OnlyStored
<1>1. CASE \E i \in Items : CreateFeedback(i) \/ CommitFeedback(i)
  BY <1>1 DEF CreateFeedback, CommitFeedback, FeedbackTyped, InFlight
<1>2. ASSUME NEW r \in Posts, NEW i \in Items, NEW kind \in Kinds, NEW role, NEW n,
             Fetch(r, kind, role, i, n)
      PROVE  OnlyStored'
  <2>1. /\ post'[r].on = i /\ phase[i] = "stored" /\ UNCHANGED <<phase, told>>
        /\ \A s \in Posts \ {r} : post'[s] = post[s]
    BY <1>2 DEF Fetch, FeedbackTyped
  <2> QED
    BY <2>1 DEF InFlight
<1>3. ASSUME NEW r \in Posts, Refuse(r) PROVE OnlyStored'
  <2>1. /\ post'[r].step = "refused" /\ UNCHANGED <<phase, told>>
        /\ \A s \in Posts \ {r} : post'[s] = post[s]
    BY <1>3 DEF Refuse, FeedbackTyped, Unused
  <2> QED
    BY <2>1 DEF InFlight
<1>4. ASSUME NEW r \in Posts, SaveFields(r) \/ RecordEvent(r) \/ Notify(r) \/ RequestDies(r)
      PROVE  OnlyStored'
  <2>1. InFlight(r)
    BY <1>4 DEF SaveFields, RecordEvent, Notify, RequestDies, InFlight
  <2>2. post[r] \in Post
    BY DEF FeedbackTyped
  <2>3. /\ post'[r].on = post[r].on /\ UNCHANGED phase /\ told \ {post[r].on} \subseteq told'
        /\ \A s \in Posts \ {r} : post'[s] = post[s]
    <3>1. CASE SaveFields(r)
      BY <2>2, <3>1 DEF SaveFields, FeedbackTyped, Post
    <3>2. CASE RecordEvent(r)
      BY <2>2, <3>2 DEF RecordEvent, FeedbackTyped, Post, Unused
    <3>3. CASE Notify(r) \/ RequestDies(r)
      BY <3>3 DEF Notify, RequestDies, FeedbackTyped, Unused
    <3> QED
      BY <1>4, <3>1, <3>2, <3>3
  <2> QED
    BY <2>1, <2>3 DEF InFlight
<1>5. CASE \E x \in Items \cup Posts :
             \/ ReadItem(x) \/ SkipMissing(x) \/ CreateAlert(x) \/ RetryMail(x) \/ GiveUpMail(x)
             \/ \E redelivered \in BOOLEAN : LoseMail(x, redelivered)
  <2>1. UNCHANGED <<phase, post>> /\ told \subseteq told'
    BY <1>5 DEF ReadItem, SkipMissing, CreateAlert, RetryMail, GiveUpMail, LoseMail
  <2> QED
    BY <2>1 DEF InFlight
<1>6. CASE UNCHANGED feedbackVars
  BY <1>6 DEF feedbackVars, InFlight
<1>7. CASE \E r \in Posts, i \in Items, role \in {"user", "staff", "admin"} :
             \/ \E new \in Asked : Fetch(r, "status", role, i, new)
             \/ Fetch(r, "withdraw", role, i, "withdrawn")
             \/ \E kind \in (ReporterKinds \cup TriageKinds \cup AdminKinds)
                              \ {"status", "withdraw"} : Fetch(r, kind, role, i, "none")
  BY <1>2, <1>7, Fetches
<1> QED
  BY <1>1, <1>3, <1>4, <1>5, <1>6, <1>7 DEF FeedbackNext

\* A message is about the same item for as long as it exists.
LEMMA TellingLasts ==
    ASSUME FeedbackTyped, MailKnown, NEW i \in Items, NEW x \in Items \cup Posts, Telling(x, i),
           NEW r \in Posts, post[r].step # "done", \A s \in Posts \ {r} : post'[s] = post[s],
           mail'[x] = mail[x], item'[i].status = item[i].status
    PROVE  Telling(x, i)'
PROOF BY FeedbackAssumption DEF Telling, About, MailKnown

LEMMA UntoldStep ==
    /\ FeedbackTyped /\ MailKnown /\ OnlyStored /\ NobodyLeftUntold
    /\ [FeedbackNext]_feedbackVars
    => NobodyLeftUntold'
PROOF
<1> SUFFICES ASSUME FeedbackTyped, MailKnown, OnlyStored, [FeedbackNext]_feedbackVars,
                    \A i \in Items \ (told \cup lost) : Witness(i),
                    NEW i \in Items, i \notin told', i \notin lost'
             PROVE  Witness(i)'
  BY UntoldIs DEF NobodyLeftUntold, Witness, Owing, Telling
\* A request that changes nothing the reporter sees, and owed nothing before.
<1>1. ASSUME NEW r \in Posts, post[r].step # "done", ~Owing(r) \/ Owing(r)',
             post'[r].on = post[r].on \/ ~Owing(r),
             \A s \in Posts \ {r} : post'[s] = post[s], mail' = mail,
             item'[i].status = item[i].status, Witness(i)
      PROVE  Witness(i)'
  <2>1. ASSUME NEW s \in On(i), Owing(s) PROVE s \in On(i)' /\ Owing(s)'
    BY <1>1, <2>1 DEF On, InFlight, Owing
  <2>2. ASSUME NEW x \in Items \cup Posts, Telling(x, i) PROVE Telling(x, i)'
    BY <1>1, <2>2, TellingLasts
  <2> QED
    BY <1>1, <2>1, <2>2 DEF Witness
<1>2. ASSUME NEW r \in Posts, NEW j \in Items, NEW kind \in Kinds, NEW role, NEW n,
             Fetch(r, kind, role, j, n)
      PROVE  Witness(i)'
  <2>1. /\ post[r].step = "unused" /\ UNCHANGED <<item, mail, told, lost>>
        /\ \A s \in Posts \ {r} : post'[s] = post[s]
    BY <1>2 DEF Fetch, FeedbackTyped
  <2> QED
    BY <1>1, <2>1 DEF Owing
<1>3. ASSUME NEW r \in Posts, Refuse(r) PROVE Witness(i)'
  <2>1. /\ post[r].step = "fetched" /\ UNCHANGED <<item, mail, told, lost>>
        /\ \A s \in Posts \ {r} : post'[s] = post[s]
    BY <1>3 DEF Refuse, FeedbackTyped
  <2> QED
    BY <1>1, <2>1 DEF Owing
<1>4. ASSUME NEW r \in Posts, SaveFields(r) PROVE Witness(i)'
  <2> DEFINE q == post[r]
             after == Written(item[q.on], r)
  <2>1. /\ InFlight(r) /\ q.step = "fetched" /\ q.on \in Items /\ q \in Post /\ q.kind \in Kinds
    BY <1>4 DEF SaveFields, InFlight, FeedbackTyped
  <2>2. /\ post'[r].step = "saved" /\ post'[r].on = q.on /\ post'[r].kind = q.kind
        /\ \A s \in Posts \ {r} : post'[s] = post[s]
        /\ item'[q.on] = after /\ \A j \in Items \ {q.on} : item'[j] = item[j]
        /\ UNCHANGED <<mail, lost>>
        /\ told' = IF q.kind \in StatusKinds \ {"dispute"} /\ after.status # item[q.on].status
                     THEN told \ {q.on}
                   ELSE IF q.kind = "dispute" THEN told \cup {q.on} ELSE told
    BY <1>4, <2>1 DEF SaveFields, FeedbackTyped, Post
  <2>3. q.kind \notin StatusKinds => after.status = item[q.on].status
    <3>1. item[q.on] \in Columns
      BY <2>1 DEF FeedbackTyped
    <3>2. after.status = IF "status" \in UpdateFields(q.kind) THEN Edited(r).status
                         ELSE item[q.on].status
      BY <2>1, <3>1, WrittenIs
    <3>3. q.kind \notin StatusKinds => "status" \notin UpdateFields(q.kind)
      BY DEF UpdateFields, StatusKinds
    <3> QED
      BY <3>2, <3>3
  <2> HIDE DEF after
  <2>4. CASE i = q.on /\ after.status # item[i].status
    <3>1. q.kind \in NotifyingKinds
      BY <2>2, <2>3, <2>4 DEF StatusKinds, NotifyingKinds
    <3>2. r \in On(i)' /\ Owing(r)'
      BY <2>2, <2>4, <3>1 DEF On, InFlight, Owing
    <3> QED
      BY <3>2 DEF Witness
  <2>5. CASE i # q.on \/ after.status = item[i].status
    <3>1. item'[i].status = item[i].status /\ i \notin told /\ i \notin lost
      BY <2>2, <2>5
    <3>2. ~Owing(r) /\ q.step # "done"
      BY <2>1 DEF Owing
    <3> QED
      BY <1>1, <2>2, <3>1, <3>2
  <2> QED
    BY <2>4, <2>5
<1>5. ASSUME NEW r \in Posts, RecordEvent(r) PROVE Witness(i)'
  <2>1. post[r] \in Post
    BY DEF FeedbackTyped
  <2>2. /\ post[r].step = "saved" /\ UNCHANGED <<item, mail, told, lost>>
        /\ post'[r].on = post[r].on /\ post'[r].kind = post[r].kind
        /\ post[r].kind \in NotifyingKinds => post'[r].step = "recorded"
        /\ \A s \in Posts \ {r} : post'[s] = post[s]
    BY <1>5, <2>1 DEF RecordEvent, FeedbackTyped, Post, Unused
  <2> QED
    BY <1>1, <2>2 DEF Owing
<1>6. ASSUME NEW r \in Posts, Notify(r) PROVE Witness(i)'
  <2>1. /\ post[r].step = "recorded" /\ UNCHANGED <<item, told, lost>>
        /\ post'[r].on = post[r].on /\ mail'[r].step = "queued"
        /\ \A s \in Posts \ {r} : post'[s] = post[s]
        /\ \A x \in (Items \cup Posts) \ {r} : mail'[x] = mail[x]
    BY <1>6 DEF Notify, FeedbackTyped, Unused, Queued, NoMail
  <2>2. CASE post[r].on = i
    BY <2>1, <2>2, FeedbackAssumption DEF Witness, Telling, About
  <2>3. CASE post[r].on # i
    <3>1. ASSUME NEW s \in On(i), Owing(s) PROVE s \in On(i)' /\ Owing(s)'
      BY <2>1, <2>3, <3>1 DEF On, InFlight, Owing
    <3>2. ASSUME NEW x \in Items \cup Posts, Telling(x, i) PROVE Telling(x, i)'
      <4>1. x # r
        BY <2>3, <3>2, FeedbackAssumption DEF Telling, About
      <4> QED
        BY <2>1, <3>2, <4>1, TellingLasts
    <3> QED
      BY <2>1, <3>1, <3>2 DEF Witness
  <2> QED
    BY <2>2, <2>3
<1>7. ASSUME NEW r \in Posts, RequestDies(r) PROVE Witness(i)'
  <2>1. /\ post[r].step \in {"saved", "recorded"} /\ UNCHANGED <<item, mail, told>>
        /\ lost' = lost \cup {post[r].on}
        /\ \A s \in Posts \ {r} : post'[s] = post[s]
    BY <1>7 DEF RequestDies, FeedbackTyped
  <2>2. post[r].on # i
    BY <2>1
  <2>3. ASSUME NEW s \in On(i), Owing(s) PROVE s \in On(i)' /\ Owing(s)'
    BY <2>1, <2>2, <2>3 DEF On, InFlight, Owing
  <2>4. ASSUME NEW x \in Items \cup Posts, Telling(x, i) PROVE Telling(x, i)'
    BY <2>1, <2>4, TellingLasts
  <2> QED
    BY <2>1, <2>3, <2>4 DEF Witness
\* notify_reporter: the messages of other items and the requests stay.
<1>8. ASSUME NEW x \in Items \cup Posts, UNCHANGED <<item, post>>,
             \A y \in (Items \cup Posts) \ {x} : mail'[y] = mail[y],
             Telling(x, i) => Telling(x, i)', Witness(i)
      PROVE  Witness(i)'
  BY <1>8 DEF Witness, Owing, On, InFlight, Telling, About
<1>9. ASSUME NEW j \in Items, CreateFeedback(j) \/ CommitFeedback(j) PROVE Witness(i)'
  <2>1. /\ UNCHANGED <<item, post, told, lost>>
        /\ \A y \in (Items \cup Posts) \ {j} : mail'[y] = mail[y]
        /\ mail'[j].step = "queued" \/ mail'[j] = mail[j]
    BY <1>9 DEF CreateFeedback, CommitFeedback, FeedbackTyped, Queued, NoMail
  <2> QED
    BY <1>8, <2>1 DEF Telling, About
<1>10. ASSUME NEW x \in Items \cup Posts, ReadItem(x) PROVE Witness(i)'
  <2>1. /\ UNCHANGED <<item, post, phase, told, lost>>
        /\ \A y \in (Items \cup Posts) \ {x} : mail'[y] = mail[y]
        /\ mail'[x].step = "reading" /\ mail'[x].seen = SeenBy(About(x))
    BY <1>10 DEF ReadItem, FeedbackTyped, Mail
  <2>2. About(x) = i => SeenBy(About(x)) = item[i].status
    BY <2>1 DEF SeenBy, OnlyStored
  <2> QED
    BY <1>8, <2>1, <2>2 DEF Telling, About
<1>11. ASSUME NEW x \in Items \cup Posts, SkipMissing(x) PROVE Witness(i)'
  <2>1. /\ UNCHANGED <<item, post, told, lost>>
        /\ \A y \in (Items \cup Posts) \ {x} : mail'[y] = mail[y]
        /\ mail[x].step = "reading" /\ mail[x].seen = "missing"
    BY <1>11 DEF SkipMissing, FeedbackTyped
  <2>2. item[i].status # "missing"
    BY DEF FeedbackTyped, Columns, StatusChoices, Closed
  <2> QED
    BY <1>8, <2>1, <2>2 DEF Telling
<1>12. ASSUME NEW x \in Items \cup Posts, CreateAlert(x) PROVE Witness(i)'
  <2>1. /\ UNCHANGED <<item, post, lost>>
        /\ \A y \in (Items \cup Posts) \ {x} : mail'[y] = mail[y]
        /\ mail[x].step = "reading"
        /\ told' = IF mail[x].seen = item[About(x)].status THEN told \cup {About(x)} ELSE told
    BY <1>12 DEF CreateAlert, FeedbackTyped
  <2>2. ~Telling(x, i) /\ i \notin told
    BY <2>1 DEF Telling
  <2> QED
    BY <1>8, <2>1, <2>2
<1>13. ASSUME NEW x \in Items \cup Posts,
              RetryMail(x) \/ LoseMail(x, TRUE)
       PROVE  Witness(i)'
  <2>1. /\ UNCHANGED <<item, post, told, lost>>
        /\ \A y \in (Items \cup Posts) \ {x} : mail'[y] = mail[y]
        /\ mail'[x].step = "queued"
    <3>1. [Queued EXCEPT !.tries = mail[x].tries].step = "queued"
          /\ [Queued EXCEPT !.tries = mail[x].tries + 1].step = "queued"
      BY DEF Queued, NoMail
    <3>2. CASE RetryMail(x)
      BY <3>1, <3>2 DEF RetryMail, FeedbackTyped
    <3>3. CASE LoseMail(x, TRUE)
      BY <3>1, <3>3 DEF LoseMail, FeedbackTyped
    <3> QED
      BY <1>13, <3>2, <3>3
  <2> QED
    BY <1>8, <2>1 DEF Telling, About
<1>14. ASSUME NEW x \in Items \cup Posts, GiveUpMail(x) \/ LoseMail(x, FALSE) PROVE Witness(i)'
  <2>1. /\ UNCHANGED <<item, post, told>> /\ lost' = lost \cup {About(x)}
        /\ \A y \in (Items \cup Posts) \ {x} : mail'[y] = mail[y]
    BY <1>14 DEF GiveUpMail, LoseMail, FeedbackTyped
  <2> QED
    BY <1>8, <2>1 DEF Telling
<1>15. CASE UNCHANGED feedbackVars
  BY <1>15 DEF feedbackVars, Witness, Owing, On, InFlight, Telling, About
<1>16. CASE \E r \in Posts, j \in Items, role \in {"user", "staff", "admin"} :
              \/ \E new \in Asked : Fetch(r, "status", role, j, new)
              \/ Fetch(r, "withdraw", role, j, "withdrawn")
              \/ \E kind \in (ReporterKinds \cup TriageKinds \cup AdminKinds)
                               \ {"status", "withdraw"} : Fetch(r, kind, role, j, "none")
  BY <1>2, <1>16, Fetches
<1> QED
  BY <1>3, <1>4, <1>5, <1>6, <1>7, <1>9, <1>10, <1>11, <1>12, <1>13, <1>14, <1>15, <1>16
     DEF FeedbackNext

THEOREM NobodyUntold == FeedbackSpec => []NobodyLeftUntold
PROOF
<1> DEFINE I == FeedbackTyped /\ MailKnown /\ OnlyStored /\ NobodyLeftUntold
<1>1. FeedbackInit => I
  <2> SUFFICES ASSUME FeedbackInit PROVE I
    OBVIOUS
  <2>1. MailKnown
    <3>1. mail = [x \in Items \cup Posts |-> NoMail]
      BY DEF FeedbackInit
    <3> QED
      BY <3>1 DEF MailKnown, NoMail
  <2>2. OnlyStored /\ NobodyLeftUntold
    <3>1. told = Items /\ \A r \in Posts : post[r].step = "unused"
      BY DEF FeedbackInit, Unused
    <3> QED
      BY <3>1 DEF OnlyStored, NobodyLeftUntold, InFlight
  <2> QED
    BY <2>1, <2>2, InitFeedbackTyped
<1>2. I /\ [FeedbackNext]_feedbackVars => I'
  BY FeedbackTypedStep, MailKnownStep, OnlyStoredStep, UntoldStep
<1> QED
  BY <1>1, <1>2, PTL DEF FeedbackSpec

(***************************************************************************)
(* Backups: a directory is sound on its own - nothing decays before it is  *)
(* summed, and afterwards a file is what was summed or damaged - and one   *)
(* that is being written has one writer and no manifest.                   *)
(***************************************************************************)
FileStates == {"missing", "whole", "torn", "copied", "damaged"}
Directory == [file : [Parts -> FileStates], dumped : Int, counted : Int,
              sums : [Parts -> FileStates \cup {"none"}], manifest : BOOLEAN]

DirSound(b) ==
    /\ b \in Directory
    /\ b.sums = NotSummed => ~b.manifest /\ \A p \in Parts : b.file[p] # "damaged"
    /\ b.sums # NotSummed => \A p \in Parts : b.sums[p] # "damaged" /\ b.file[p] \in {b.sums[p], "damaged"}

RunSteps == {"idle", "copy", "copying", "models", "count", "sum", "manifest", "prune"}
Writing(o) == backupRun[o].step \notin {"idle", "prune"}

BackupsTyped ==
    /\ dbRows \in Int /\ lastMade \in Nat
    /\ DOMAIN backup \subseteq 1..lastMade
    /\ backupRun \in [BackupRuns -> [step : RunSteps, dir : Nat]]
DirsSound == \A d \in DOMAIN backup : DirSound(backup[d])
WritersKnow ==
    \A o \in BackupRuns : Writing(o) =>
      /\ Dir(o) \in DOMAIN backup
      /\ ~backup[Dir(o)].manifest
      /\ backup[Dir(o)].sums = NotSummed <=> backupRun[o].step # "manifest"
OneWriter == \A o, q \in BackupRuns : Writing(o) /\ Writing(q) /\ Dir(o) = Dir(q) => o = q

BackupsInv == BackupsTyped /\ DirsSound /\ WritersKnow /\ OneWriter

LEMMA BackupsInitInv == BackupsInit => BackupsInv
PROOF
<1> SUFFICES ASSUME BackupsInit PROVE BackupsInv
  OBVIOUS
<1>1. DOMAIN backup = {}
  BY DEF BackupsInit
<1>2. backupRun \in [BackupRuns -> [step : RunSteps, dir : Nat]] /\ \A o \in BackupRuns : ~Writing(o)
  BY DEF BackupsInit, NoRun, RunSteps, Writing
<1> QED
  BY <1>1, <1>2 DEF BackupsInit, BackupsInv, BackupsTyped, DirsSound, WritersKnow, OneWriter

\* A writer turns its directory into b and goes on to step s.
LEMMA Writes ==
    ASSUME BackupsInv, NEW o \in BackupRuns, Writing(o), NEW s \in RunSteps \ {"idle"}, NEW b,
           DirSound(b), s # "prune" => ~b.manifest /\ (b.sums = NotSummed <=> s # "manifest"),
           backup' = [backup EXCEPT ![Dir(o)] = b],
           backupRun' = [backupRun EXCEPT ![o].step = s],
           UNCHANGED <<dbRows, lastMade>>
    PROVE  BackupsInv'
PROOF
<1>1. /\ DOMAIN backup' = DOMAIN backup /\ Dir(o) \in DOMAIN backup /\ backup'[Dir(o)] = b
      /\ \A d \in DOMAIN backup \ {Dir(o)} : backup'[d] = backup[d]
  BY DEF BackupsInv, WritersKnow
<1>2. /\ backupRun' \in [BackupRuns -> [step : RunSteps, dir : Nat]]
      /\ backupRun'[o].step = s /\ Dir(o)' = Dir(o)
      /\ \A q \in BackupRuns \ {o} : backupRun'[q] = backupRun[q]
  BY DEF BackupsInv, BackupsTyped, Dir
<1>3. BackupsTyped'
  BY <1>1, <1>2 DEF BackupsInv, BackupsTyped
<1>4. DirsSound'
  <2>1. \A d \in DOMAIN backup' : DirSound(backup'[d])
    BY <1>1 DEF BackupsInv, DirsSound
  <2> QED
    BY <2>1 DEF DirsSound, DirSound
<1>5. WritersKnow'
  <2> SUFFICES ASSUME NEW q \in BackupRuns, Writing(q)'
               PROVE  /\ Dir(q)' \in DOMAIN backup' /\ ~backup'[Dir(q)'].manifest
                      /\ backup'[Dir(q)'].sums = NotSummed <=> backupRun'[q].step # "manifest"
    BY DEF WritersKnow, NotSummed
  <2>1. CASE q = o
    BY <1>1, <1>2, <2>1 DEF Writing
  <2>2. CASE q # o
    <3>1. Writing(q) /\ Dir(q)' = Dir(q) /\ Dir(q) # Dir(o)
      BY <1>2, <2>2 DEF Writing, Dir, BackupsInv, OneWriter
    <3> QED
      BY <1>1, <1>2, <2>2, <3>1 DEF BackupsInv, WritersKnow
  <2> QED
    BY <2>1, <2>2
<1>6. OneWriter'
  <2>1. \A q \in BackupRuns : Dir(q)' = Dir(q) /\ (Writing(q)' => Writing(q))
    BY <1>2 DEF Writing, Dir
  <2> QED
    BY <2>1 DEF BackupsInv, OneWriter
<1> QED
  BY <1>3, <1>4, <1>5, <1>6 DEF BackupsInv

LEMMA BackupsStep == BackupsInv /\ [BackupsNext]_backupVars => BackupsInv'
PROOF
<1> SUFFICES ASSUME BackupsInv, [BackupsNext]_backupVars PROVE BackupsInv'
  OBVIOUS
<1>1. ASSUME NEW o \in BackupRuns, MakeDir(o) PROVE BackupsInv'
  <2>1. /\ lastMade' = lastMade + 1 /\ lastMade' \in Nat /\ lastMade' \notin DOMAIN backup
        /\ lastMade + 1 \in 1..lastMade' /\ 1..lastMade \subseteq 1..lastMade'
    BY <1>1 DEF MakeDir, BackupsInv, BackupsTyped
  <2>2. /\ DOMAIN backup' = DOMAIN backup \cup {lastMade'} /\ backup'[lastMade'] = EmptyDir
        /\ \A d \in DOMAIN backup : backup'[d] = backup[d]
        /\ dbRows' = dbRows
    BY <1>1, <2>1 DEF MakeDir
  <2>3. /\ backupRun' \in [BackupRuns -> [step : RunSteps, dir : Nat]]
        /\ backupRun'[o] = [step |-> "copy", dir |-> lastMade']
        /\ \A q \in BackupRuns \ {o} : backupRun'[q] = backupRun[q]
    BY <1>1, <2>1 DEF MakeDir, BackupsInv, BackupsTyped, RunSteps
  <2>4. DirSound(EmptyDir) /\ EmptyDir.sums = NotSummed /\ ~EmptyDir.manifest
    BY DEF DirSound, EmptyDir, Directory, FileStates, NotSummed, NoCount
  <2>5. BackupsTyped'
    BY <2>1, <2>2, <2>3 DEF BackupsInv, BackupsTyped
  <2>6. DirsSound'
    <3>1. \A d \in DOMAIN backup' : DirSound(backup'[d])
      BY <2>2, <2>4 DEF BackupsInv, DirsSound
    <3> QED
      BY <3>1 DEF DirsSound, DirSound
  <2>7. WritersKnow'
    <3> SUFFICES ASSUME NEW q \in BackupRuns, Writing(q)'
                 PROVE  /\ Dir(q)' \in DOMAIN backup' /\ ~backup'[Dir(q)'].manifest
                        /\ backup'[Dir(q)'].sums = NotSummed <=> backupRun'[q].step # "manifest"
      BY DEF WritersKnow, NotSummed
    <3>1. CASE q = o
      BY <2>2, <2>3, <2>4, <3>1 DEF Dir
    <3>2. CASE q # o
      BY <2>2, <2>3, <3>2 DEF Dir, Writing, BackupsInv, WritersKnow
    <3> QED
      BY <3>1, <3>2
  <2>8. OneWriter'
    <3>1. Dir(o)' = lastMade'
      BY <2>3 DEF Dir
    <3>2. \A q \in BackupRuns \ {o} : /\ Dir(q)' = Dir(q) /\ (Writing(q)' <=> Writing(q))
                                      /\ Writing(q)' => Dir(q)' # lastMade'
      BY <2>1, <2>3 DEF Dir, Writing, BackupsInv, WritersKnow
    <3> QED
      BY <3>1, <3>2 DEF BackupsInv, OneWriter
  <2> QED
    BY <2>5, <2>6, <2>7, <2>8 DEF BackupsInv
<1>2. ASSUME NEW o \in BackupRuns, Writing(o)
      PROVE  /\ DirSound(backup[Dir(o)]) /\ backup[Dir(o)] \in Directory
             /\ Dir(o) \in DOMAIN backup /\ ~backup[Dir(o)].manifest
             /\ backup[Dir(o)].sums = NotSummed <=> backupRun[o].step # "manifest"
  BY <1>2 DEF BackupsInv, DirsSound, WritersKnow, DirSound
<1>3. ASSUME NEW o \in BackupRuns, BeginCopy(o) PROVE BackupsInv'
  <2> DEFINE b == [backup[Dir(o)] EXCEPT !.dumped = dbRows]
  <2>1. Writing(o) /\ dbRows \in Int /\ backupRun[o].step # "manifest"
    BY <1>3 DEF BeginCopy, At, Writing, BackupsInv, BackupsTyped
  <2>2. DirSound(b) /\ ~b.manifest /\ b.sums = NotSummed
    BY <1>2, <2>1 DEF DirSound, Directory
  <2>3. /\ backup' = [backup EXCEPT ![Dir(o)] = b]
        /\ backupRun' = [backupRun EXCEPT ![o].step = "copying"]
        /\ UNCHANGED <<dbRows, lastMade>>
    BY <1>3 DEF BeginCopy, Stored, GoesTo
  <2> HIDE DEF b
  <2> QED
    BY <2>1, <2>2, <2>3, Writes DEF RunSteps
<1>4. ASSUME NEW o \in BackupRuns, EndCopy(o) PROVE BackupsInv'
  <2>1. Writing(o) /\ dbRows \in Int /\ backupRun[o].step # "manifest"
    BY <1>4 DEF EndCopy, At, Writing, BackupsInv, BackupsTyped
  <2>2. PICK state \in {"whole", "torn"}, n \in Int :
          backup' = [backup EXCEPT ![Dir(o)] =
                       [@ EXCEPT !.file["database"] = state, !.dumped = n]]
    <3>1. backup[Dir(o)].dumped \in Int
      BY <1>2, <2>1 DEF Directory
    <3>2. PICK state \in IF engine = "sqlite" /\ dbRows # backup[Dir(o)].dumped
                           THEN {"whole", "torn"} ELSE {"whole"},
               n \in IF engine = "sqlite" THEN backup[Dir(o)].dumped..dbRows
                     ELSE {backup[Dir(o)].dumped} :
            backup' = [backup EXCEPT ![Dir(o)] =
                         [@ EXCEPT !.file["database"] = state, !.dumped = n]]
      BY <1>4 DEF EndCopy
    <3>3. state \in {"whole", "torn"} /\ n \in Int
      BY <2>1, <3>1
    <3> QED
      BY <3>2, <3>3
  <2> DEFINE b == [backup[Dir(o)] EXCEPT !.file["database"] = state, !.dumped = n]
  <2>3. DirSound(b) /\ ~b.manifest /\ b.sums = NotSummed
    BY <1>2, <2>1 DEF DirSound, Directory, FileStates, Parts
  <2>4. /\ backup' = [backup EXCEPT ![Dir(o)] = b]
        /\ backupRun' = [backupRun EXCEPT ![o].step = "models"]
        /\ UNCHANGED <<dbRows, lastMade>>
    BY <1>4, <2>2 DEF EndCopy, GoesTo
  <2> HIDE DEF b
  <2> QED
    BY <2>1, <2>3, <2>4, Writes DEF RunSteps
<1>5. ASSUME NEW o \in BackupRuns, CopyModels(o) PROVE BackupsInv'
  <2> DEFINE b == [backup[Dir(o)] EXCEPT !.file["models"] = "copied"]
  <2>1. Writing(o) /\ backupRun[o].step # "manifest"
    BY <1>5 DEF CopyModels, At, Writing
  <2>2. DirSound(b) /\ ~b.manifest /\ b.sums = NotSummed
    BY <1>2, <2>1 DEF DirSound, Directory, FileStates, Parts
  <2>3. /\ backup' = [backup EXCEPT ![Dir(o)] = b]
        /\ backupRun' = [backupRun EXCEPT ![o].step = "count"]
        /\ UNCHANGED <<dbRows, lastMade>>
    BY <1>5 DEF CopyModels, GoesTo
  <2> HIDE DEF b
  <2> QED
    BY <2>1, <2>2, <2>3, Writes DEF RunSteps
<1>6. ASSUME NEW o \in BackupRuns, CountRows(o) PROVE BackupsInv'
  <2>1. Writing(o) /\ dbRows \in Int /\ backupRun[o].step # "manifest"
    BY <1>6 DEF CountRows, At, Writing, BackupsInv, BackupsTyped
  <2>2. PICK n \in Int : Stored(o, "counted", n)
    BY <1>6, <2>1 DEF CountRows, NoCount
  <2> DEFINE b == [backup[Dir(o)] EXCEPT !.counted = n]
  <2>3. DirSound(b) /\ ~b.manifest /\ b.sums = NotSummed
    BY <1>2, <2>1 DEF DirSound, Directory
  <2>4. /\ backup' = [backup EXCEPT ![Dir(o)] = b]
        /\ backupRun' = [backupRun EXCEPT ![o].step = "sum"]
        /\ UNCHANGED <<dbRows, lastMade>>
    BY <1>6, <2>2 DEF CountRows, Stored, GoesTo
  <2> HIDE DEF b
  <2> QED
    BY <2>1, <2>3, <2>4, Writes DEF RunSteps
<1>7. ASSUME NEW o \in BackupRuns, SumFiles(o) PROVE BackupsInv'
  <2> DEFINE b == [backup[Dir(o)] EXCEPT !.sums = backup[Dir(o)].file]
  <2>1. Writing(o) /\ backupRun[o].step # "manifest"
    BY <1>7 DEF SumFiles, At, Writing
  <2>2. /\ backup[Dir(o)].file \in [Parts -> FileStates] /\ ~backup[Dir(o)].manifest
        /\ \A p \in Parts : backup[Dir(o)].file[p] # "damaged"
    BY <1>2, <2>1 DEF DirSound, Directory
  <2>3. backup[Dir(o)].file # NotSummed
    BY <2>2 DEF NotSummed, Parts, FileStates
  <2>4. b \in Directory
    BY <1>2, <2>1 DEF Directory
  <2>5. b.sums = backup[Dir(o)].file /\ b.file = backup[Dir(o)].file /\ ~b.manifest
    BY <1>2, <2>1 DEF Directory
  <2>6. /\ backup' = [backup EXCEPT ![Dir(o)] = b]
        /\ backupRun' = [backupRun EXCEPT ![o].step = "manifest"]
        /\ UNCHANGED <<dbRows, lastMade>>
    BY <1>7 DEF SumFiles, Stored, GoesTo
  <2> HIDE DEF b
  <2>7. DirSound(b)
    BY <2>2, <2>3, <2>4, <2>5 DEF DirSound
  <2> QED
    BY <2>1, <2>3, <2>5, <2>6, <2>7, Writes DEF RunSteps
<1>8. ASSUME NEW o \in BackupRuns, WriteManifest(o) PROVE BackupsInv'
  <2> DEFINE b == [backup[Dir(o)] EXCEPT !.manifest = TRUE]
  <2>1. Writing(o) /\ backupRun[o].step = "manifest"
    BY <1>8 DEF WriteManifest, At, Writing
  <2>2. DirSound(b)
    BY <1>2, <2>1 DEF DirSound, Directory
  <2>3. /\ backup' = [backup EXCEPT ![Dir(o)] = b]
        /\ backupRun' = [backupRun EXCEPT ![o].step = "prune"]
        /\ UNCHANGED <<dbRows, lastMade>>
    BY <1>8 DEF WriteManifest, Stored, GoesTo
  <2> HIDE DEF b
  <2> QED
    BY <2>1, <2>2, <2>3, Writes DEF RunSteps
\* A run that ends, and pruning, which takes no directory that is being written.
<1>9. ASSUME NEW o \in BackupRuns, backupRun' = [backupRun EXCEPT ![o] = NoRun],
             NEW gone, backup' = [d \in DOMAIN backup \ gone |-> backup[d]],
             \A d \in gone : backup[d].manifest, UNCHANGED <<dbRows, lastMade>>
      PROVE  BackupsInv'
  <2>1. /\ DOMAIN backup' = DOMAIN backup \ gone
        /\ \A d \in DOMAIN backup' : backup'[d] = backup[d]
    BY <1>9
  <2>2. /\ backupRun' \in [BackupRuns -> [step : RunSteps, dir : Nat]]
        /\ backupRun'[o].step = "idle"
        /\ \A q \in BackupRuns \ {o} : backupRun'[q] = backupRun[q]
    BY <1>9 DEF BackupsInv, BackupsTyped, NoRun, RunSteps
  <2>3. \A q \in BackupRuns : Writing(q)' => Writing(q) /\ backupRun'[q] = backupRun[q]
    BY <2>2 DEF Writing
  <2>4. BackupsTyped'
    BY <1>9, <2>1, <2>2 DEF BackupsInv, BackupsTyped
  <2>5. DirsSound'
    BY <2>1 DEF BackupsInv, DirsSound, DirSound, NotSummed
  <2>6. WritersKnow'
    <3> SUFFICES ASSUME NEW q \in BackupRuns, Writing(q)'
                 PROVE  /\ Dir(q)' \in DOMAIN backup' /\ ~backup'[Dir(q)'].manifest
                        /\ backup'[Dir(q)'].sums = NotSummed <=> backupRun'[q].step # "manifest"
      BY DEF WritersKnow, NotSummed
    <3>1. Writing(q) /\ backupRun'[q] = backupRun[q] /\ Dir(q)' = Dir(q)
      BY <2>3 DEF Dir
    <3>2. Dir(q) \in DOMAIN backup \ gone
      BY <1>9, <3>1 DEF BackupsInv, WritersKnow
    <3> QED
      BY <2>1, <3>1, <3>2 DEF BackupsInv, WritersKnow
  <2>7. OneWriter'
    BY <2>3 DEF BackupsInv, OneWriter, Dir
  <2> QED
    BY <2>4, <2>5, <2>6, <2>7 DEF BackupsInv
<1>10. ASSUME NEW o \in BackupRuns, Prune(o) PROVE BackupsInv'
  <2>1. \A d \in TooOld \cup {} : backup[d].manifest
    BY DEF TooOld, Finished, LooksFinished
  <2> QED
    BY <1>9, <1>10, <2>1 DEF Prune
<1>11. ASSUME UNCHANGED <<backup, lastMade>>, dbRows' \in Int,
              \/ backupRun' = backupRun
              \/ \E o \in BackupRuns : backupRun' = [backupRun EXCEPT ![o] = NoRun]
       PROVE  BackupsInv'
  <2>1. /\ backupRun' \in [BackupRuns -> [step : RunSteps, dir : Nat]]
        /\ \A q \in BackupRuns : Writing(q)' => Writing(q) /\ backupRun'[q] = backupRun[q]
    BY <1>11 DEF BackupsInv, BackupsTyped, NoRun, RunSteps, Writing
  <2>2. BackupsTyped'
    BY <1>11, <2>1 DEF BackupsInv, BackupsTyped
  <2>3. DirsSound'
    BY <1>11 DEF BackupsInv, DirsSound, DirSound, NotSummed
  <2>4. WritersKnow'
    BY <1>11, <2>1 DEF BackupsInv, WritersKnow, Dir, NotSummed
  <2>5. OneWriter'
    BY <2>1 DEF BackupsInv, OneWriter, Dir
  <2> QED
    BY <2>2, <2>3, <2>4, <2>5 DEF BackupsInv
<1>12. ASSUME NEW d \in DOMAIN backup, NEW p \in Parts, Decay(d, p) PROVE BackupsInv'
  <2> DEFINE b == [backup[d] EXCEPT !.file[p] = "damaged"]
  <2>1. DirSound(backup[d]) /\ backup[d].sums # NotSummed
    BY <1>12 DEF BackupsInv, DirsSound, Decay
  <2>2. DirSound(b) /\ b.sums = backup[d].sums /\ b.manifest = backup[d].manifest
    BY <2>1 DEF DirSound, Directory, FileStates
  <2>3. /\ DOMAIN backup' = DOMAIN backup /\ backup'[d] = b
        /\ \A e \in DOMAIN backup \ {d} : backup'[e] = backup[e]
        /\ UNCHANGED <<dbRows, lastMade, backupRun>>
    BY <1>12 DEF Decay
  <2> HIDE DEF b
  <2>4. BackupsTyped'
    BY <2>3 DEF BackupsInv, BackupsTyped
  <2>5. DirsSound'
    <3>1. \A e \in DOMAIN backup' : DirSound(backup'[e])
      BY <2>2, <2>3 DEF BackupsInv, DirsSound
    <3> QED
      BY <3>1 DEF DirsSound, DirSound
  <2>6. WritersKnow'
    BY <2>2, <2>3 DEF BackupsInv, WritersKnow, Writing, Dir, NotSummed
  <2>7. OneWriter'
    BY <2>3 DEF BackupsInv, OneWriter, Writing, Dir
  <2> QED
    BY <2>4, <2>5, <2>6, <2>7 DEF BackupsInv
<1>13. ASSUME NEW o \in BackupRuns, KillBackup(o) PROVE BackupsInv'
  BY <1>11, <1>13 DEF KillBackup, BackupsInv, BackupsTyped
<1>14. CASE InsertRows
  BY <1>11, <1>14 DEF InsertRows, BackupsInv, BackupsTyped
<1>15. CASE UNCHANGED backupVars
  BY <1>11, <1>15 DEF backupVars, BackupsInv, BackupsTyped
<1> QED
  BY <1>1, <1>3, <1>4, <1>5, <1>6, <1>7, <1>8, <1>10, <1>12, <1>13, <1>14, <1>15 DEF BackupsNext

\* What the checks find is what there is.
LEMMA ChecksTell ==
    ASSUME BackupsInv, NEW d \in DOMAIN backup
    PROVE  /\ VerifyPasses(d) \/ RestoreTestPasses(d) => Restorable(d)
           /\ Restorable(d) /\ Undisturbed(d) => VerifyPasses(d) /\ RestoreTestPasses(d)
PROOF
<1> DEFINE b == backup[d]
<1>1. /\ b \in Directory
      /\ b.sums = NotSummed => ~b.manifest
      /\ b.sums # NotSummed => \A p \in Parts : b.sums[p] # "damaged" /\ b.file[p] \in {b.sums[p], "damaged"}
  BY DEF BackupsInv, DirsSound, DirSound
<1>2. "models" \in Parts /\ "database" \in Parts /\ \A p \in Parts : p \in {"models", "database"}
  BY DEF Parts
<1>3. VerifyPasses(d) => Restorable(d)
  BY <1>1, <1>2 DEF VerifyPasses, LooksFinished, SumsMatch, Restorable
<1>4. ASSUME Restorable(d), Undisturbed(d) PROVE VerifyPasses(d)
  <2>1. b.manifest /\ b.sums # NotSummed
    BY <1>1, <1>4 DEF Restorable
  <2>2. \A p \in Parts : b.sums[p] = b.file[p]
    BY <1>1, <1>2, <1>4, <2>1 DEF Restorable
  <2>3. b.sums = b.file
    BY <1>1, <2>2 DEF Directory
  <2> QED
    BY <1>4, <2>1, <2>3 DEF VerifyPasses, LooksFinished, SumsMatch, Restorable, Undisturbed,
       RestoredCopyAgrees
<1> QED
  BY <1>3, <1>4 DEF RestoreTestPasses, Undisturbed

\* Pruning keeps the newest good one, for all that are newer are bad.
LEMMA PruneSpares ==
    ASSUME BackupsInv, Good # {}, Cardinality(Bad) < PruneKeep
    PROVE  Good \ TooOld # {}
PROOF
<1>1. DOMAIN backup \subseteq 1..lastMade /\ lastMade \in Nat
  BY DEF BackupsInv, BackupsTyped
<1>2. Good \subseteq 0..lastMade
  BY <1>1 DEF Good
<1> DEFINE g == Max(Good)
<1>3. g \in Good /\ \A y \in Good : g >= y
  BY <1>1, <1>2, MaxOfBounded
<1>4. IsFiniteSet(Bad) /\ Cardinality(Bad) \in Nat
  <2>1. IsFiniteSet(1..lastMade)
    BY <1>1, FS_Interval
  <2> QED
    BY <1>1, <2>1, FS_Subset, FS_CardinalityType DEF Bad
<1> DEFINE newer == {e \in Finished : e > g}
<1>5. newer \subseteq Bad
  <2> SUFFICES ASSUME NEW e \in newer PROVE e \in Bad
    OBVIOUS
  <2>1. e \in DOMAIN backup /\ backup[e].manifest /\ e > g
    BY DEF Finished, LooksFinished
  <2>2. ASSUME e \in Good PROVE FALSE
    <3>1. e \in Int /\ g \in Int
      <4>1. \A y \in 0..lastMade : y \in Int
        BY <1>1
      <4>2. e \in 0..lastMade
        BY <1>2, <2>2
      <4>3. g \in 0..lastMade
        BY <1>2, <1>3
      <4> QED
        BY <4>1, <4>2, <4>3
    <3>2. g >= e
      BY <1>3, <2>2
    <3> HIDE DEF g
    <3> QED
      BY <2>1, <3>1, <3>2
  <2> QED
    BY <2>1, <2>2 DEF Bad
<1>6. Cardinality(newer) <= Cardinality(Bad) /\ Cardinality(newer) \in Nat
  BY <1>4, <1>5, FS_Subset, FS_CardinalityType
<1>7. g \notin TooOld
  BY <1>4, <1>6, BackupsAssumption DEF TooOld
<1> QED
  BY <1>3, <1>7

LEMMA GoodStays ==
    ASSUME BackupsInv, trouble \in Nat, [BackupsNext]_backupVars, Good # {}, Cardinality(Bad) < PruneKeep,
           trouble' = trouble
    PROVE  Good' # {}
PROOF
\* A step that changes no finished directory.
<1>1. ASSUME \A d \in DOMAIN backup : backup[d].manifest => d \in DOMAIN backup' /\ backup'[d] = backup[d]
      PROVE  Good' # {}
  BY <1>1 DEF Good, Restorable
<1>2. ASSUME NEW o \in BackupRuns, MakeDir(o) PROVE Good' # {}
  <2>1. lastMade' \notin DOMAIN backup
    BY <1>2 DEF MakeDir, BackupsInv, BackupsTyped
  <2> QED
    BY <1>1, <1>2, <2>1 DEF MakeDir
<1>3. ASSUME NEW o \in BackupRuns,
             BeginCopy(o) \/ EndCopy(o) \/ CopyModels(o) \/ CountRows(o) \/ SumFiles(o) \/ WriteManifest(o)
      PROVE  Good' # {}
  <2>1. Writing(o)
    BY <1>3 DEF Writing, At, BeginCopy, EndCopy, CopyModels, CountRows, SumFiles, WriteManifest
  <2>2. ~backup[Dir(o)].manifest
    BY <2>1 DEF BackupsInv, WritersKnow
  <2>3. DOMAIN backup' = DOMAIN backup /\ \A d \in DOMAIN backup \ {Dir(o)} : backup'[d] = backup[d]
    BY <1>3 DEF BeginCopy, EndCopy, CopyModels, CountRows, SumFiles, WriteManifest, Stored
  <2> QED
    BY <1>1, <2>2, <2>3
<1>4. ASSUME NEW o \in BackupRuns, Prune(o) PROVE Good' # {}
  <2>1. PICK gone \in {TooOld, {}} : backup' = [d \in DOMAIN backup \ gone |-> backup[d]]
    BY <1>4 DEF Prune
  <2>2. Good \ TooOld # {}
    BY PruneSpares
  <2>3. PICK g \in Good : g \notin gone
    BY <2>1, <2>2
  <2>4. g \in DOMAIN backup' /\ backup'[g] = backup[g]
    BY <2>1, <2>3 DEF Good
  <2> QED
    BY <2>3, <2>4 DEF Good, Restorable
<1>5. ASSUME \/ InsertRows \/ UNCHANGED backupVars
      PROVE  Good' # {}
  <2>1. UNCHANGED backup
    BY <1>5 DEF InsertRows, backupVars
  <2> QED
    BY <1>1, <2>1
<1>6. ASSUME NEW o \in BackupRuns, KillBackup(o) PROVE Good' # {}
  BY <1>1, <1>6 DEF KillBackup
<1>7. ASSUME NEW d \in DOMAIN backup, NEW p \in Parts, Decay(d, p) PROVE FALSE
  BY <1>7 DEF Decay, Trouble
<1> QED
  BY <1>2, <1>3, <1>4, <1>5, <1>6, <1>7 DEF BackupsNext

LEMMA TroubleCounted == trouble \in Nat /\ [BackupsNext]_backupVars => trouble' \in Nat
PROOF
<1> SUFFICES ASSUME trouble \in Nat, [BackupsNext]_backupVars
             PROVE  trouble' = trouble \/ trouble' = trouble + 1
  OBVIOUS
<1>1. CASE \E o \in BackupRuns :
             \/ MakeDir(o) \/ BeginCopy(o) \/ EndCopy(o) \/ CopyModels(o) \/ CountRows(o)
             \/ SumFiles(o) \/ WriteManifest(o) \/ Prune(o) \/ KillBackup(o)
  BY <1>1 DEF MakeDir, BeginCopy, EndCopy, CopyModels, CountRows, SumFiles, WriteManifest, Prune,
     KillBackup, Trouble
<1>2. CASE \E d \in DOMAIN backup, p \in Parts : Decay(d, p)
  BY <1>2 DEF Decay, Trouble
<1>3. CASE InsertRows \/ UNCHANGED backupVars
  BY <1>3 DEF InsertRows, backupVars
<1> QED
  BY <1>1, <1>2, <1>3 DEF BackupsNext

\* LastGoodStays, of any number of runs, prunings and directories.
THEOREM GoodBackupStays == BackupsSpec => LastGoodStays
PROOF
<1> DEFINE I == BackupsInv /\ trouble \in Nat
           Told == \A d \in DOMAIN backup :
                     /\ VerifyPasses(d) \/ RestoreTestPasses(d) => Restorable(d)
                     /\ Restorable(d) /\ Undisturbed(d) => VerifyPasses(d) /\ RestoreTestPasses(d)
           Stays == Good # {} /\ Cardinality(Bad) < PruneKeep /\ trouble' = trouble => Good' # {}
<1>1. BackupsInit => I
  BY BackupsInitInv DEF BackupsInit
<1>2. I /\ [BackupsNext]_backupVars => I'
  BY BackupsStep, TroubleCounted
<1>3. I => Told
  BY ChecksTell
<1>4. I /\ [BackupsNext]_backupVars => [Stays]_backupVars
  BY GoodStays
<1> HIDE DEF I, Told, Stays
<1>5. BackupsSpec => []Told /\ [][Stays]_backupVars
  BY <1>1, <1>2, <1>3, <1>4, PTL DEF BackupsSpec
<1> QED
  BY <1>5, PTL DEF LastGoodStays, Told, Stays

(***************************************************************************)
(* PortfolioSet                                                            *)
(***************************************************************************)
FolioOps == {"none", "visit", "create", "rename", "set_default", "delete", "api_delete"}
TabSteps == {"idle", "look", "pick", "insert", "flag", "create", "save", "clear", "commit",
             "remove", "remaining"}
Tab == [step : TabSteps, op : FolioOps, target : Nat, read : BOOLEAN, cleared : SUBSET Nat,
        alone : BOOLEAN, sound : BOOLEAN]

FolioTyped ==
    /\ lastFolio \in Nat /\ DOMAIN folio \subseteq 1..lastFolio
    /\ \A p \in DOMAIN folio : folio[p] \in BOOLEAN
    /\ \A p, q \in Defaults : p = q
TabTyped ==
    /\ tab \in [Tabs -> Tab]
    /\ \A r \in Tabs : tab[r].step = "save" => tab[r].target \in 1..lastFolio

SoundNow == DOMAIN folio = {} \/ Defaults # {}

\* What a request that nobody disturbed can rely on at each of its steps.
Knows(t) ==
    /\ t.step = "look" => t.op = "visit"
    /\ t.step = "pick" => t.op = "visit" /\ Defaults = {}
    /\ t.step = "insert" => t.op = "visit" /\ DOMAIN folio = {}
    /\ t.step = "flag" => t.op \in {"visit", "delete"} /\ t.target \in DOMAIN folio /\ Defaults = {}
    /\ t.step = "create" => t.op = "create" /\ (t.read <=> DOMAIN folio = {}) /\ (t.sound => SoundNow)
    /\ t.step = "save" => t.op = "rename" /\ t.target \in DOMAIN folio
                          /\ (t.read <=> folio[t.target]) /\ (t.sound => SoundNow)
    /\ t.step \in {"clear", "commit"} => t.op = "set_default" /\ t.target \in DOMAIN folio
    /\ t.step = "commit" => t.cleared = Defaults \ {t.target}
    /\ t.step = "remove" => t.op \in {"delete", "api_delete"} /\ t.target \in DOMAIN folio
                            /\ (t.read <=> folio[t.target]) /\ (t.sound => SoundNow)
    /\ t.step = "remaining" => t.op = "delete" /\ Defaults = {}

LoneTabs ==
    \A r \in Tabs : tab[r].alone /\ tab[r].step # "idle" =>
      /\ \A o \in Tabs \ {r} : tab[o].step = "idle"
      /\ Knows(tab[r])

Promise ==
    ended.alone =>
      /\ ended.ok
      /\ ended.op \in {"visit", "set_default"} => Defaults # {}
      /\ ended.sound /\ ended.op # "api_delete" => SoundNow

FolioInv == FolioTyped /\ TabTyped /\ LoneTabs /\ Promise

LEMMA DefaultsCounted ==
    ASSUME FolioTyped
    PROVE  /\ Cardinality(Defaults) <= 1
           /\ Cardinality(Defaults) = 1 <=> Defaults # {}
           /\ Sound(folio) <=> SoundNow
PROOF
<1>1. CASE Defaults = {}
  <2>1. Cardinality(Defaults) = 0
    BY <1>1, FS_EmptySet
  <2> QED
    BY <1>1, <2>1 DEF Sound, SoundNow, Defaults
<1>2. CASE Defaults # {}
  <2>1. PICK p : Defaults = {p}
    BY <1>2 DEF FolioTyped
  <2>2. Cardinality(Defaults) = 1
    BY <2>1, FS_Singleton
  <2> QED
    BY <1>2, <2>2 DEF Sound, SoundNow, Defaults
<1> QED
  BY <1>1, <1>2

LEMMA FolioInitInv == FolioInit => FolioInv
PROOF
<1> SUFFICES ASSUME FolioInit PROVE FolioInv
  OBVIOUS
<1>1. DOMAIN folio = {} /\ lastFolio = 0 /\ ended = Nothing
  BY DEF FolioInit
<1>2. Waiting \in Tab /\ Waiting.step = "idle"
  BY DEF Waiting, Tab, TabSteps, FolioOps
<1>3. tab = [r \in Tabs |-> Waiting]
  BY DEF FolioInit
<1> HIDE DEF Waiting
<1> QED
  BY <1>1, <1>2, <1>3 DEF FolioInv, FolioTyped, TabTyped, LoneTabs, Promise, Defaults, Nothing

\* A request begins: whoever is under way is disturbed.
LEMMA BeginsSound ==
    ASSUME FolioInv, NEW r \in Tabs, NEW op \in FolioOps, NEW p \in Nat, NEW read \in BOOLEAN,
           NEW step \in TabSteps, BeginRequest(r, op, p, read, step),
           step = "save" => p \in 1..lastFolio,
           \A a, s \in BOOLEAN : (s => SoundNow) =>
             Knows([step |-> step, op |-> op, target |-> p, read |-> read, cleared |-> {},
                    alone |-> a, sound |-> s])
    PROVE  FolioInv'
PROOF
<1> DEFINE t == [step |-> step, op |-> op, target |-> p, read |-> read, cleared |-> {},
                 alone |-> \A o \in Tabs : tab[o].step = "idle", sound |-> Sound(folio)]
<1>1. UNCHANGED <<folio, lastFolio>> /\ ended' = Nothing
  BY DEF BeginRequest
<1>2. Sound(folio) <=> SoundNow
  BY DefaultsCounted DEF FolioInv
<1>3. \A a, s \in BOOLEAN :
        [step |-> step, op |-> op, target |-> p, read |-> read, cleared |-> {},
         alone |-> a, sound |-> s] \in Tab
  BY DEF Tab
<1>4. (\A o \in Tabs : tab[o].step = "idle") \in BOOLEAN /\ Sound(folio) \in BOOLEAN
  BY DEF Sound
<1>5. t \in Tab /\ Knows(t)
  BY <1>2, <1>3, <1>4
<1>6. t.step = step /\ t.target = p /\ (t.alone => \A o \in Tabs : tab[o].step = "idle")
  OBVIOUS
<1>7. \A q \in Tabs : [tab[q] EXCEPT !.alone = FALSE] \in Tab
                      /\ [tab[q] EXCEPT !.alone = FALSE].step = tab[q].step
                      /\ [tab[q] EXCEPT !.alone = FALSE].target = tab[q].target
                      /\ ~[tab[q] EXCEPT !.alone = FALSE].alone
  BY DEF FolioInv, TabTyped, Tab
<1>8. tab' = [q \in Tabs |-> IF q # r THEN [tab[q] EXCEPT !.alone = FALSE] ELSE t]
  BY DEF BeginRequest
<1> HIDE DEF t
<1>9. /\ tab' \in [Tabs -> Tab] /\ tab'[r] = t
      /\ \A q \in Tabs \ {r} : /\ tab'[q].step = tab[q].step /\ tab'[q].target = tab[q].target
                               /\ ~tab'[q].alone
  BY <1>5, <1>7, <1>8
<1>10. FolioTyped'
  BY <1>1 DEF FolioInv, FolioTyped, Defaults
<1>11. TabTyped'
  BY <1>1, <1>6, <1>9 DEF FolioInv, TabTyped
<1>12. LoneTabs'
  <2> SUFFICES ASSUME NEW q \in Tabs, tab'[q].alone, tab'[q].step # "idle"
               PROVE  (\A o \in Tabs \ {q} : tab'[o].step = "idle") /\ Knows(tab[q])'
    BY DEF LoneTabs
  <2>1. q = r
    BY <1>9
  <2>2. Knows(tab[q])'
    BY <1>1, <1>5, <1>9, <2>1 DEF Knows, SoundNow, Defaults
  <2> QED
    BY <1>6, <1>9, <2>1, <2>2
<1> QED
  BY <1>1, <1>10, <1>11, <1>12 DEF FolioInv, Promise, Nothing

\* A request ends, well if nobody disturbed it.
LEMMA EndsSound ==
    ASSUME FolioInv, NEW r \in Tabs, tab[r].step # "idle", NEW ok \in BOOLEAN, Ends(r, ok),
           FolioTyped', lastFolio' >= lastFolio,
           tab[r].alone =>
             /\ ok
             /\ tab[r].op \in {"visit", "set_default"} => Defaults' # {}
             /\ tab[r].sound /\ tab[r].op # "api_delete" => SoundNow'
    PROVE  FolioInv'
PROOF
<1>1. Waiting \in Tab /\ Waiting.step = "idle"
  BY DEF Waiting, Tab, TabSteps, FolioOps
<1>2. \A q \in Tabs : [tab[q] EXCEPT !.alone = FALSE] \in Tab
                      /\ [tab[q] EXCEPT !.alone = FALSE].step = tab[q].step
                      /\ [tab[q] EXCEPT !.alone = FALSE].target = tab[q].target
                      /\ ~[tab[q] EXCEPT !.alone = FALSE].alone
  BY DEF FolioInv, TabTyped, Tab
<1>3. tab' = [q \in Tabs |-> IF q = r THEN Waiting ELSE [tab[q] EXCEPT !.alone = FALSE]]
  BY DEF Ends
<1> HIDE DEF Waiting
<1>4. /\ tab' \in [Tabs -> Tab] /\ tab'[r].step = "idle"
      /\ \A q \in Tabs \ {r} : /\ tab'[q].step = tab[q].step /\ tab'[q].target = tab[q].target
                               /\ ~tab'[q].alone
  BY <1>1, <1>2, <1>3
<1>5. lastFolio \in Nat /\ lastFolio' \in Nat /\ 1..lastFolio \subseteq 1..lastFolio'
  BY DEF FolioInv, FolioTyped
<1>6. TabTyped'
  <2> SUFFICES ASSUME NEW q \in Tabs, tab'[q].step = "save" PROVE tab'[q].target \in 1..lastFolio'
    BY <1>4 DEF TabTyped
  <2>1. q # r /\ tab[q].target \in 1..lastFolio
    BY <1>4 DEF FolioInv, TabTyped
  <2> QED
    BY <1>4, <1>5, <2>1
<1>7. LoneTabs'
  <2>1. \A q \in Tabs : ~(tab'[q].alone /\ tab'[q].step # "idle")
    BY <1>4
  <2> QED
    BY <2>1 DEF LoneTabs
<1>8. Promise'
  BY DEF Ends, Promise
<1> QED
  BY <1>6, <1>7, <1>8 DEF FolioInv

\* A request goes on to its record t.
LEMMA GoesOnSound ==
    ASSUME FolioInv, NEW r \in Tabs, tab[r].step # "idle", NEW t \in Tab,
           tab' = [tab EXCEPT ![r] = t], ended' = Nothing, UNCHANGED lastFolio,
           FolioTyped', t.alone = tab[r].alone, t.step # "save",
           t.alone /\ t.step # "idle" => \A s \in Tabs : s = r => Knows(tab[s])'
    PROVE  FolioInv'
PROOF
<1>1. tab' \in [Tabs -> Tab] /\ tab'[r] = t /\ \A q \in Tabs \ {r} : tab'[q] = tab[q]
  BY DEF FolioInv, TabTyped
<1>2. TabTyped'
  BY <1>1 DEF FolioInv, TabTyped
<1>3. LoneTabs'
  <2> SUFFICES ASSUME NEW q \in Tabs, tab'[q].alone, tab'[q].step # "idle"
               PROVE  (\A o \in Tabs \ {q} : tab'[o].step = "idle") /\ Knows(tab[q])'
    BY DEF LoneTabs
  <2>1. q = r
    <3> SUFFICES ASSUME q # r PROVE FALSE
      OBVIOUS
    <3> QED
      BY <1>1 DEF FolioInv, LoneTabs
  <2>2. \A o \in Tabs \ {r} : tab[o].step = "idle"
    BY <1>1, <2>1 DEF FolioInv, LoneTabs
  <2> QED
    BY <1>1, <2>1, <2>2
<1> QED
  BY <1>2, <1>3 DEF FolioInv, Promise, Nothing

LEMMA WithFlagIs ==
    ASSUME FolioTyped, lastFolio' \in Nat, lastFolio' >= lastFolio, NEW p \in 1..lastFolio',
           NEW b \in BOOLEAN, MayStore(p, b), folio' = WithFlag(p, b)
    PROVE  /\ FolioTyped' /\ DOMAIN folio' = DOMAIN folio \cup {p}
           /\ b => Defaults' = {p}
           /\ ~b => Defaults' = Defaults \ {p}
PROOF
<1>1. /\ DOMAIN folio' = DOMAIN folio \cup {p} /\ folio'[p] = b
      /\ \A q \in DOMAIN folio \ {p} : folio'[q] = folio[q]
  BY DEF WithFlag
<1>2. b => Defaults' = {p}
  BY <1>1 DEF Defaults, MayStore
<1>3. ~b => Defaults' = Defaults \ {p}
  BY <1>1 DEF Defaults
<1>4. DOMAIN folio' \subseteq 1..lastFolio'
  BY <1>1 DEF FolioTyped
<1>5. \A q \in DOMAIN folio' : folio'[q] \in BOOLEAN
  BY <1>1 DEF FolioTyped
<1>6. \A q, s \in Defaults' : q = s
  BY <1>2, <1>3 DEF FolioTyped
<1> QED
  BY <1>1, <1>2, <1>3, <1>4, <1>5, <1>6 DEF FolioTyped

LEMMA FolioBegins ==
    ASSUME FolioInv, NEW r \in Tabs,
           \/ Visit(r) \/ NewFolio(r)
           \/ \E p \in DOMAIN folio :
                \/ Rename(r, p) \/ Choose(r, p)
                \/ \E op \in {"delete", "api_delete"} : DropFolio(r, p, op)
    PROVE  FolioInv'
PROOF
<1>1. \A p \in DOMAIN folio : p \in Nat /\ p \in 1..lastFolio /\ folio[p] \in BOOLEAN
  BY DEF FolioInv, FolioTyped
<1>2. CASE Visit(r)
  <2>1. \A a, s \in BOOLEAN : (s => SoundNow) =>
          Knows([step |-> "look", op |-> "visit", target |-> 0, read |-> FALSE,
                 cleared |-> {}, alone |-> a, sound |-> s])
    BY <1>1 DEF Knows
  <2>2. BeginRequest(r, "visit", 0, FALSE, "look")
    BY <1>2 DEF Visit
  <2>3. "visit" \in FolioOps /\ "look" \in TabSteps /\ 0 \in Nat /\ (FALSE) \in BOOLEAN
        /\ ("look" = "save" => 0 \in 1..lastFolio)
    BY <1>1 DEF FolioOps, TabSteps
  <2> QED
    BY <2>1, <2>2, <2>3, BeginsSound
<1>3. CASE NewFolio(r)
  <2>1. \A a, s \in BOOLEAN : (s => SoundNow) =>
          Knows([step |-> "create", op |-> "create", target |-> 0, read |-> DOMAIN folio = {},
                 cleared |-> {}, alone |-> a, sound |-> s])
    <3>1. \A b, a, s \in BOOLEAN : (b <=> DOMAIN folio = {}) /\ (s => SoundNow) =>
            Knows([step |-> "create", op |-> "create", target |-> 0, read |-> b,
                   cleared |-> {}, alone |-> a, sound |-> s])
      BY DEF Knows
    <3>2. (DOMAIN folio = {}) \in BOOLEAN
      OBVIOUS
    <3> QED
      BY <3>1, <3>2
  <2>2. BeginRequest(r, "create", 0, DOMAIN folio = {}, "create")
    BY <1>3 DEF NewFolio
  <2>3. "create" \in FolioOps /\ "create" \in TabSteps /\ 0 \in Nat /\ (DOMAIN folio = {}) \in BOOLEAN
        /\ ("create" = "save" => 0 \in 1..lastFolio)
    BY <1>1 DEF FolioOps, TabSteps
  <2> QED
    BY <2>1, <2>2, <2>3, BeginsSound
<1>4. ASSUME NEW p \in DOMAIN folio, Rename(r, p) PROVE FolioInv'
  <2>1. \A a, s \in BOOLEAN : (s => SoundNow) =>
          Knows([step |-> "save", op |-> "rename", target |-> p, read |-> folio[p],
                 cleared |-> {}, alone |-> a, sound |-> s])
    BY <1>1 DEF Knows
  <2>2. BeginRequest(r, "rename", p, folio[p], "save")
    BY <1>4 DEF Rename
  <2>3. "rename" \in FolioOps /\ "save" \in TabSteps /\ p \in Nat /\ (folio[p]) \in BOOLEAN
        /\ ("save" = "save" => p \in 1..lastFolio)
    BY <1>1 DEF FolioOps, TabSteps
  <2> QED
    BY <2>1, <2>2, <2>3, BeginsSound
<1>5. ASSUME NEW p \in DOMAIN folio, Choose(r, p) PROVE FolioInv'
  <2>1. \A a, s \in BOOLEAN : (s => SoundNow) =>
          Knows([step |-> "clear", op |-> "set_default", target |-> p, read |-> FALSE,
                 cleared |-> {}, alone |-> a, sound |-> s])
    BY <1>1 DEF Knows
  <2>2. BeginRequest(r, "set_default", p, FALSE, "clear")
    BY <1>5 DEF Choose
  <2>3. "set_default" \in FolioOps /\ "clear" \in TabSteps /\ p \in Nat /\ (FALSE) \in BOOLEAN
        /\ ("clear" = "save" => p \in 1..lastFolio)
    BY <1>1 DEF FolioOps, TabSteps
  <2> QED
    BY <2>1, <2>2, <2>3, BeginsSound
<1>6. ASSUME NEW p \in DOMAIN folio, NEW op \in {"delete", "api_delete"}, DropFolio(r, p, op)
      PROVE  FolioInv'
  <2>1. \A a, s \in BOOLEAN : (s => SoundNow) =>
          Knows([step |-> "remove", op |-> op, target |-> p, read |-> folio[p],
                 cleared |-> {}, alone |-> a, sound |-> s])
    BY <1>1 DEF Knows
  <2>2. BeginRequest(r, op, p, folio[p], "remove")
    BY <1>6 DEF DropFolio
  <2>3. op \in FolioOps /\ "remove" \in TabSteps /\ p \in Nat /\ (folio[p]) \in BOOLEAN
        /\ ("remove" = "save" => p \in 1..lastFolio)
    BY <1>1 DEF FolioOps, TabSteps
  <2> QED
    BY <2>1, <2>2, <2>3, BeginsSound
<1> QED
  BY <1>2, <1>3, <1>4, <1>5, <1>6

LEMMA FolioStep == FolioInv /\ [FolioNext]_folioVars => FolioInv'
PROOF
<1> SUFFICES ASSUME FolioInv, [FolioNext]_folioVars PROVE FolioInv'
  OBVIOUS
<1>1. ASSUME NEW r \in Tabs, tab[r].alone, tab[r].step # "idle" PROVE Knows(tab[r])
  BY <1>1 DEF FolioInv, LoneTabs
<1>2. ASSUME UNCHANGED <<folio, lastFolio>> PROVE FolioTyped' /\ lastFolio' >= lastFolio /\ Defaults' = Defaults
  BY <1>2 DEF FolioInv, FolioTyped, Defaults
<1>3. ASSUME NEW r \in Tabs, FindDefault(r) PROVE FolioInv'
  <2>1. FolioTyped' /\ lastFolio' >= lastFolio /\ Defaults' = Defaults /\ tab[r].step = "look"
    BY <1>2, <1>3 DEF FindDefault
  <2>2. tab[r].alone => tab[r].op = "visit"
    BY <1>1, <2>1 DEF Knows
  <2>3. CASE Defaults # {}
    BY <1>3, <2>1, <2>2, <2>3, EndsSound DEF FindDefault, SoundNow
  <2>4. CASE Defaults = {}
    <3> DEFINE t == [tab[r] EXCEPT !.step = "pick"]
    <3>1. /\ t \in Tab /\ t.step = "pick" /\ t.alone = tab[r].alone /\ t.op = tab[r].op
      BY DEF FolioInv, TabTyped, Tab, TabSteps
    <3>2. tab' = [tab EXCEPT ![r] = t] /\ ended' = Nothing /\ UNCHANGED lastFolio
      BY <1>3, <2>4 DEF FindDefault, Goes
    <3> HIDE DEF t
    <3>3. tab'[r] = t
      BY <3>2 DEF FolioInv, TabTyped
    <3>4. t.alone => Knows(tab[r])'
      BY <2>1, <2>2, <2>4, <3>1, <3>3 DEF Knows
    <3> QED
      BY <2>1, <3>1, <3>2, <3>4, GoesOnSound
  <2> QED
    BY <2>3, <2>4
<1>4. ASSUME NEW r \in Tabs, FindAny(r) PROVE FolioInv'
  <2> DEFINE t == IF DOMAIN folio = {} THEN [tab[r] EXCEPT !.step = "insert"]
                  ELSE [tab[r] EXCEPT !.step = "flag", !.target = Oldest]
  <2>1. /\ FolioTyped' /\ Defaults' = Defaults /\ tab[r].step = "pick"
        /\ UNCHANGED <<folio, lastFolio>> /\ ended' = Nothing
    BY <1>2, <1>4 DEF FindAny
  <2>2. tab[r].alone => tab[r].op = "visit" /\ Defaults = {}
    BY <1>1, <2>1 DEF Knows
  <2>3. DOMAIN folio # {} => Oldest \in DOMAIN folio /\ Oldest \in Nat
    <3>1. DOMAIN folio \subseteq Nat
      BY DEF FolioInv, FolioTyped
    <3> QED
      BY <3>1, Smallest DEF Oldest
  <2>4. /\ t \in Tab /\ t.alone = tab[r].alone /\ t.op = tab[r].op
        /\ DOMAIN folio = {} => t.step = "insert"
        /\ DOMAIN folio # {} => t.step = "flag" /\ t.target = Oldest
    <3>1. tab[r] \in Tab
      BY DEF FolioInv, TabTyped
    <3>2. CASE DOMAIN folio = {}
      BY <3>1, <3>2 DEF Tab, TabSteps
    <3>3. CASE DOMAIN folio # {}
      BY <2>3, <3>1, <3>3 DEF Tab, TabSteps
    <3> QED
      BY <3>2, <3>3
  <2>5. tab' = [tab EXCEPT ![r] = t]
    BY <1>4 DEF FindAny
  <2> HIDE DEF t
  <2>6. tab'[r] = t
    BY <2>5 DEF FolioInv, TabTyped
  <2>7. t.alone => Knows(tab[r])'
    BY <2>1, <2>2, <2>3, <2>4, <2>6 DEF Knows
  <2> QED
    BY <2>1, <2>4, <2>5, <2>7, GoesOnSound
<1>5. ASSUME NEW r \in Tabs, InsertDefault(r) PROVE FolioInv'
  <2>1. tab[r].step = "insert" /\ lastFolio \in Nat /\ lastFolio + 1 \in Nat
    BY <1>5 DEF InsertDefault, FolioInv, FolioTyped
  <2>2. tab[r].alone => tab[r].op = "visit" /\ DOMAIN folio = {}
    BY <1>1, <2>1 DEF Knows
  <2>3. CASE /\ MayStore(lastFolio + 1, TRUE)
             /\ lastFolio' = lastFolio + 1 /\ folio' = WithFlag(lastFolio', TRUE)
             /\ Ends(r, TRUE)
    <3>1. FolioTyped' /\ Defaults' = {lastFolio'} /\ lastFolio' >= lastFolio
      <4>1. lastFolio' \in Nat /\ lastFolio' >= lastFolio /\ lastFolio' \in 1..lastFolio'
        BY <2>1, <2>3
      <4>2. MayStore(lastFolio', TRUE)
        BY <2>3
      <4> QED
        BY <2>3, <4>1, <4>2, WithFlagIs DEF FolioInv
    <3> QED
      BY <2>1, <2>3, <3>1, EndsSound DEF SoundNow
  <2>4. CASE /\ ~MayStore(lastFolio + 1, TRUE) \/ DOMAIN folio # {}
             /\ Ends(r, DOMAIN folio # {})
             /\ UNCHANGED <<folio, lastFolio>>
    <3>1. ~tab[r].alone
      BY <2>2, <2>4 DEF MayStore, Defaults
    <3>2. (DOMAIN folio # {}) \in BOOLEAN
      OBVIOUS
    <3> QED
      BY <1>2, <2>1, <2>4, <3>1, <3>2, EndsSound
  <2> QED
    BY <1>5, <2>3, <2>4 DEF InsertDefault
<1>6. ASSUME NEW r \in Tabs, Flag(r) PROVE FolioInv'
  <2> DEFINE p == tab[r].target
             ok == p \in DOMAIN folio /\ MayStore(p, TRUE)
  <2>1. /\ tab[r].step = "flag" /\ ok \in BOOLEAN /\ Ends(r, ok) /\ UNCHANGED lastFolio
        /\ folio' = IF ok THEN WithFlag(p, TRUE) ELSE folio
    BY <1>6 DEF Flag, SaveFlag, MayStore
  <2>2. tab[r].alone => ok
    BY <1>1, <2>1 DEF Knows, MayStore
  <2>3. CASE ok
    <3>1. lastFolio' \in Nat /\ lastFolio' >= lastFolio /\ p \in 1..lastFolio'
      BY <2>1, <2>3 DEF FolioInv, FolioTyped
    <3>2. FolioTyped' /\ Defaults' = {p}
      BY <2>1, <2>3, <3>1, WithFlagIs DEF FolioInv
    <3> QED
      BY <2>1, <2>3, <3>1, <3>2, EndsSound DEF SoundNow
  <2>4. CASE ~ok
    BY <1>2, <2>1, <2>2, <2>4, EndsSound
  <2> QED
    BY <2>3, <2>4
<1>7. ASSUME NEW r \in Tabs, InsertNamed(r) PROVE FolioInv'
  <2> DEFINE read == tab[r].read
  <2>1. tab[r].step = "create" /\ lastFolio \in Nat /\ lastFolio + 1 \in Nat /\ read \in BOOLEAN
    BY <1>7 DEF InsertNamed, FolioInv, FolioTyped, TabTyped, Tab
  <2>2. tab[r].alone => /\ tab[r].op = "create" /\ (read <=> DOMAIN folio = {})
                        /\ (tab[r].sound => SoundNow)
    BY <1>1, <2>1 DEF Knows
  <2>3. CASE MayStore(lastFolio + 1, read)
    <3>1. lastFolio' = lastFolio + 1 /\ folio' = WithFlag(lastFolio', read) /\ Ends(r, TRUE)
      BY <1>7, <2>3 DEF InsertNamed
    <3>2. lastFolio' \in Nat /\ lastFolio' >= lastFolio /\ lastFolio' \in 1..lastFolio'
      BY <2>1, <3>1
    <3>3. /\ FolioTyped' /\ (read => Defaults' = {lastFolio'})
          /\ ~read => Defaults' = Defaults \ {lastFolio'}
      BY <2>1, <2>3, <3>1, <3>2, WithFlagIs DEF FolioInv
    <3>4. lastFolio' \notin Defaults
      BY <2>1, <3>1 DEF Defaults, FolioInv, FolioTyped
    <3>5. tab[r].alone /\ tab[r].sound => SoundNow'
      BY <2>1, <2>2, <3>3, <3>4 DEF SoundNow
    <3> QED
      BY <2>1, <2>2, <3>1, <3>2, <3>3, <3>5, EndsSound
  <2>4. CASE ~MayStore(lastFolio + 1, read)
    <3>1. Ends(r, FALSE) /\ UNCHANGED <<folio, lastFolio>>
      BY <1>7, <2>4 DEF InsertNamed
    <3>2. ~tab[r].alone
      BY <2>2, <2>4 DEF MayStore, Defaults
    <3> QED
      BY <1>2, <2>1, <3>1, <3>2, EndsSound
  <2> QED
    BY <2>3, <2>4
<1>8. ASSUME NEW r \in Tabs, SaveAll(r) PROVE FolioInv'
  <2> DEFINE p == tab[r].target
             read == tab[r].read
             ok == MayStore(p, read)
  <2>1. /\ tab[r].step = "save" /\ ok \in BOOLEAN /\ Ends(r, ok) /\ UNCHANGED lastFolio
        /\ folio' = IF ok THEN WithFlag(p, read) ELSE folio
        /\ p \in 1..lastFolio /\ read \in BOOLEAN
    BY <1>8 DEF SaveAll, MayStore, FolioInv, TabTyped, Tab
  <2>2. tab[r].alone => /\ tab[r].op = "rename" /\ p \in DOMAIN folio /\ (read <=> folio[p])
                        /\ (tab[r].sound => SoundNow)
    BY <1>1, <2>1 DEF Knows
  <2>3. tab[r].alone => ok
    BY <2>2 DEF MayStore, Defaults, FolioInv, FolioTyped
  <2>4. CASE ok
    <3>1. lastFolio' \in Nat /\ lastFolio' >= lastFolio /\ p \in 1..lastFolio'
      BY <2>1 DEF FolioInv, FolioTyped
    <3>2. /\ FolioTyped' /\ (read => Defaults' = {p}) /\ (~read => Defaults' = Defaults \ {p})
          /\ DOMAIN folio' = DOMAIN folio \cup {p}
      BY <2>1, <2>4, <3>1, WithFlagIs DEF FolioInv
    <3>3. tab[r].alone => Defaults' = Defaults /\ DOMAIN folio' = DOMAIN folio
      BY <2>1, <2>2, <3>2 DEF Defaults, FolioInv, FolioTyped
    <3> HIDE DEF p, read
    <3> QED
      BY <2>1, <2>2, <2>4, <3>1, <3>2, <3>3, EndsSound DEF SoundNow
  <2>5. CASE ~ok
    BY <1>2, <2>1, <2>3, <2>5, EndsSound
  <2> QED
    BY <2>4, <2>5
<1>9. ASSUME NEW r \in Tabs, ClearOthers(r) PROVE FolioInv'
  <2> DEFINE others == Defaults \ {tab[r].target}
             t == [tab[r] EXCEPT !.step = "commit", !.cleared = others]
  <2>1. /\ tab[r].step = "clear" /\ UNCHANGED <<folio, lastFolio>> /\ ended' = Nothing
        /\ tab' = [tab EXCEPT ![r] = t]
    BY <1>9 DEF ClearOthers
  <2>2. others \in SUBSET Nat
    BY DEF Defaults, FolioInv, FolioTyped
  <2>3. /\ t \in Tab /\ t.step = "commit" /\ t.cleared = others /\ t.alone = tab[r].alone
        /\ t.op = tab[r].op /\ t.target = tab[r].target
    BY <2>2 DEF FolioInv, TabTyped, Tab, TabSteps
  <2>4. tab[r].alone => tab[r].op = "set_default" /\ tab[r].target \in DOMAIN folio
    BY <1>1, <2>1 DEF Knows
  <2>5. FolioTyped' /\ Defaults' = Defaults
    BY <1>2, <2>1
  <2> HIDE DEF t
  <2>6. tab'[r] = t
    BY <2>1 DEF FolioInv, TabTyped
  <2>7. t.alone => Knows(tab[r])'
    BY <2>1, <2>3, <2>4, <2>5, <2>6 DEF Knows
  <2> QED
    BY <2>1, <2>3, <2>5, <2>7, GoesOnSound
<1>10. ASSUME NEW r \in Tabs, CommitDefault(r) PROVE FolioInv'
  <2> DEFINE p == tab[r].target
             ok == p \in DOMAIN folio /\ Defaults \ tab[r].cleared \subseteq {p}
  <2>1. /\ tab[r].step = "commit" /\ ok \in BOOLEAN /\ Ends(r, ok) /\ UNCHANGED lastFolio
        /\ folio' = IF ok THEN [q \in DOMAIN folio |-> q = p] ELSE folio
    BY <1>10 DEF CommitDefault
  <2>2. tab[r].alone => ok
    BY <1>1, <2>1 DEF Knows
  <2>3. CASE ok
    <3>1. DOMAIN folio' = DOMAIN folio /\ Defaults' = {p}
      BY <2>1, <2>3 DEF Defaults
    <3>2. FolioTyped' /\ lastFolio' >= lastFolio
      BY <2>1, <2>3, <3>1 DEF FolioInv, FolioTyped
    <3> QED
      BY <2>1, <2>3, <3>1, <3>2, EndsSound DEF SoundNow
  <2>4. CASE ~ok
    BY <1>2, <2>1, <2>2, <2>4, EndsSound
  <2> QED
    BY <2>3, <2>4
<1>11. ASSUME NEW r \in Tabs, RemoveFolio(r) PROVE FolioInv'
  <2> DEFINE p == tab[r].target
  <2>1. /\ tab[r].step = "remove" /\ UNCHANGED lastFolio
        /\ DOMAIN folio' = DOMAIN folio \ {p}
        /\ \A q \in DOMAIN folio' : folio'[q] = folio[q]
    BY <1>11 DEF RemoveFolio
  <2>2. tab[r].alone =>
          /\ tab[r].op \in {"delete", "api_delete"} /\ p \in DOMAIN folio
          /\ (tab[r].read <=> folio[p]) /\ (tab[r].sound => SoundNow)
    BY <1>1, <2>1 DEF Knows
  <2>3. Defaults' = Defaults \ {p}
    BY <2>1 DEF Defaults
  <2>4. FolioTyped' /\ lastFolio' >= lastFolio
    BY <2>1, <2>3 DEF FolioInv, FolioTyped
  <2>5. CASE tab[r].op = "delete" /\ tab[r].read
    <3> DEFINE t == [tab[r] EXCEPT !.step = "remaining"]
    <3>1. tab' = [tab EXCEPT ![r] = t] /\ ended' = Nothing
      BY <1>11, <2>5 DEF RemoveFolio, Goes
    <3>2. t \in Tab /\ t.step = "remaining" /\ t.alone = tab[r].alone /\ t.op = tab[r].op
      BY DEF FolioInv, TabTyped, Tab, TabSteps
    <3> HIDE DEF t
    <3>3. tab'[r] = t
      BY <3>1 DEF FolioInv, TabTyped
    <3>4. tab[r].alone => Defaults' = {}
      BY <2>2, <2>3, <2>5 DEF Defaults, FolioInv, FolioTyped
    <3>5. t.alone => Knows(tab[r])'
      BY <2>5, <3>2, <3>3, <3>4 DEF Knows
    <3> QED
      BY <2>1, <2>4, <3>1, <3>2, <3>5, GoesOnSound
  <2>6. CASE ~(tab[r].op = "delete" /\ tab[r].read)
    <3>1. Ends(r, TRUE)
      BY <1>11, <2>6 DEF RemoveFolio
    <3>2. tab[r].alone /\ tab[r].sound /\ tab[r].op # "api_delete" => SoundNow'
      BY <2>2, <2>3, <2>6 DEF SoundNow, Defaults
    <3> QED
      BY <2>1, <2>2, <2>4, <3>1, <3>2, EndsSound
  <2> QED
    BY <2>5, <2>6
<1>12. ASSUME NEW r \in Tabs, FindRemaining(r) PROVE FolioInv'
  <2>1. /\ tab[r].step = "remaining" /\ UNCHANGED <<folio, lastFolio>>
        /\ FolioTyped' /\ lastFolio' >= lastFolio /\ Defaults' = Defaults
    BY <1>2, <1>12 DEF FindRemaining
  <2>2. tab[r].alone => tab[r].op = "delete" /\ Defaults = {}
    BY <1>1, <2>1 DEF Knows
  <2>3. CASE DOMAIN folio = {}
    BY <1>12, <2>1, <2>2, <2>3, EndsSound DEF FindRemaining, SoundNow
  <2>4. CASE DOMAIN folio # {}
    <3> DEFINE t == [tab[r] EXCEPT !.step = "flag", !.target = Oldest]
    <3>1. Oldest \in DOMAIN folio /\ Oldest \in Nat
      <4>1. DOMAIN folio \subseteq Nat
        BY DEF FolioInv, FolioTyped
      <4> QED
        BY <2>4, <4>1, Smallest DEF Oldest
    <3>2. /\ t \in Tab /\ t.step = "flag" /\ t.target = Oldest /\ t.alone = tab[r].alone
          /\ t.op = tab[r].op
      BY <3>1 DEF FolioInv, TabTyped, Tab, TabSteps
    <3>3. tab' = [tab EXCEPT ![r] = t] /\ ended' = Nothing
      BY <1>12, <2>4 DEF FindRemaining
    <3> HIDE DEF t
    <3>4. tab'[r] = t
      BY <3>3 DEF FolioInv, TabTyped
    <3>5. t.alone => Knows(tab[r])'
      BY <2>1, <2>2, <3>1, <3>2, <3>4 DEF Knows
    <3> QED
      BY <2>1, <3>2, <3>3, <3>5, GoesOnSound
  <2> QED
    BY <2>3, <2>4
<1>13. ASSUME NEW r \in Tabs, Abandon(r) PROVE FolioInv'
  <2>2. FolioTyped' /\ UNCHANGED <<folio, lastFolio>> /\ ended' = Nothing
    BY <1>2, <1>13 DEF Abandon
  <2>3. Waiting \in Tab /\ Waiting.step = "idle"
    BY DEF Waiting, Tab, TabSteps, FolioOps
  <2>4. \A q \in Tabs : [tab[q] EXCEPT !.alone = FALSE] \in Tab
                        /\ [tab[q] EXCEPT !.alone = FALSE].step = tab[q].step
                        /\ [tab[q] EXCEPT !.alone = FALSE].target = tab[q].target
                        /\ ~[tab[q] EXCEPT !.alone = FALSE].alone
    BY DEF FolioInv, TabTyped, Tab
  <2>5. tab' = [q \in Tabs |-> IF q = r THEN Waiting ELSE [tab[q] EXCEPT !.alone = FALSE]]
    BY <1>13 DEF Abandon
  <2> HIDE DEF Waiting
  <2>6. /\ tab' \in [Tabs -> Tab] /\ tab'[r].step = "idle"
        /\ \A q \in Tabs \ {r} : /\ tab'[q].step = tab[q].step /\ tab'[q].target = tab[q].target
                                 /\ ~tab'[q].alone
    BY <2>3, <2>4, <2>5
  <2>7. TabTyped'
    BY <2>2, <2>6 DEF FolioInv, TabTyped
  <2>8. LoneTabs'
    <3>1. \A q \in Tabs : ~(tab'[q].alone /\ tab'[q].step # "idle")
      BY <2>6
    <3> QED
      BY <3>1 DEF LoneTabs
  <2> QED
    BY <2>2, <2>7, <2>8 DEF FolioInv, Promise, Nothing
<1>14. CASE UNCHANGED folioVars
  BY <1>14 DEF folioVars, FolioInv, FolioTyped, TabTyped, LoneTabs, Promise, Knows, SoundNow, Defaults
<1> QED
  BY <1>3, <1>4, <1>5, <1>6, <1>7, <1>8, <1>9, <1>10, <1>11, <1>12, <1>13, <1>14, FolioBegins
     DEF FolioNext

\* However many requests there are and however they overlap.
THEOREM DefaultKept == FolioSpec => []LoneRequestKeepsDefault
PROOF
<1>1. FolioInv => LoneRequestKeepsDefault
  BY DefaultsCounted DEF FolioInv, Promise, LoneRequestKeepsDefault
<1> QED
  BY <1>1, FolioInitInv, FolioStep, PTL DEF FolioSpec

(***************************************************************************)
(* Accounts, for every population and any number of concurrent requests.   *)
(***************************************************************************)

Live(u) == account[u].row = "live"
HasPassword(u) == account[u].password # "unusable"

\* A password once assigned stays for as long as the row does, so what an
\* approval or a profile form relies on is still true when it saves.
ApprovalInv ==
    /\ ApprovedHasPassword
    /\ \A r \in Requests :
         LET u == request[r].target
         IN  /\ request[r].step # "idle" => account[u].row # "never"
             /\ request[r].step = "approve" /\ Live(u) => HasPassword(u)
             /\ request[r].op = "edit_profile" /\ ~request[r].saw.pending
                /\ request[r].step # "idle" /\ Live(u) => HasPassword(u)

\* A request that is under way knows its operation.
Typed == TypeOK /\ \A r \in Requests :
                     request[r].step # "idle" => request[r].op \in AllOps

-----------------------------------------------------------------------------

LEMMA AbsentTyped == Absent \in Account
PROOF BY DEF Absent, Account

LEMMA ExistingTyped == ASSUME NEW role PROVE Existing(role) \in Account
PROOF
<1>1. (role \in {"admin", "staff"}) \in BOOLEAN /\ (role = "admin") \in BOOLEAN
  OBVIOUS
<1> DEFINE S == (role \in {"admin", "staff"})
           A == (role = "admin")
<1>2. Existing(role) = [Absent EXCEPT !.row = "live", !.is_active = TRUE,
                          !.password = "own", !.is_staff = S, !.is_superuser = A]
  BY DEF Existing
<1> HIDE DEF S, A
<1>3. S \in BOOLEAN /\ A \in BOOLEAN
  BY <1>1 DEF S, A
<1> QED
  BY <1>2, <1>3, AbsentTyped DEF Account

\* The changes of single columns that the steps make.
LEMMA ColumnsTyped ==
    ASSUME NEW a \in Account
    PROVE  /\ Role(a) \in Account
           /\ Temporary(a) \in Account
           /\ [a EXCEPT !.verified = TRUE] \in Account
           /\ [a EXCEPT !.deadline = "passed"] \in Account
           /\ [a EXCEPT !.pending = FALSE] \in Account
           /\ [a EXCEPT !.must_change = FALSE, !.deadline = "none"] \in Account
PROOF BY DEF Absent, Account, Role, Temporary

LEMMA SavedTyped ==
    ASSUME NEW op \in AllOps, NEW row \in Account, NEW saw \in Account
    PROVE  Saved(op, row, saw) \in Account
PROOF
<1>1. CASE op \in {"activate", "deactivate"}
  <2>1. [row EXCEPT !.is_active = TRUE] \in Account
        /\ [row EXCEPT !.is_active = FALSE] \in Account
    BY DEF Account
  <2> QED
    BY <1>1, <2>1 DEF Saved
<1>2. CASE op \in {"promote", "demote"}
  <2>1. [row EXCEPT !.is_staff = TRUE] \in Account
        /\ [row EXCEPT !.is_staff = FALSE] \in Account
    BY DEF Account
  <2> QED
    BY <1>2, <2>1 DEF Saved
<1>3. CASE op \in {"delete", "reset"}
  <2>1. [Absent EXCEPT !.row = "deleted"] \in Account
    BY DEF Absent, Account
  <2> QED
    BY <1>3, <2>1, ColumnsTyped DEF Saved
<1>4. CASE op = "change_password"
  <2>1. [row EXCEPT !.password = "own"] \in Account
    BY DEF Account
  <2> QED
    BY <1>4, <2>1 DEF Saved
<1>5. CASE op = "edit_profile"
  <2> DEFINE new == [row EXCEPT !.must_change = saw.must_change,
                                !.deadline = saw.deadline,
                                !.pending = saw.pending, !.verified = saw.verified]
  <2>1. /\ saw.must_change \in BOOLEAN /\ saw.pending \in BOOLEAN
        /\ saw.verified \in BOOLEAN
        /\ saw.deadline \in {"none", "running", "passed"}
    BY DEF Account
  <2>2. new \in Account
    BY <2>1 DEF Account
  <2> QED
    BY <1>5, <2>2 DEF Saved
<1> QED
  BY <1>1, <1>2, <1>3, <1>4, <1>5 DEF AllOps

LEMMA TypingStep == ASSUME Typed, [Next]_vars PROVE Typed'
PROOF
<1> USE DEF Typed, TypeOK
<1> DEFINE Rec == [op : AllOps \cup {"none"}, step : Steps, who : Account,
                   target : Users, saw : Account]
<1>0. Idle \in Rec /\ Idle.step = "idle"
  BY AccountsAssumption, AbsentTyped DEF Idle, Steps
<1>1. ASSUME NEW u \in Users, NEW row \in Account, Save(u, row), UNCHANGED request
      PROVE  Typed'
  BY <1>1 DEF Save
<1>2. CASE \E u \in Users : SignUp(u) \/ VerifyEmail(u) \/ DeadlinePasses(u)
  <2>1. PICK u \in Users : SignUp(u) \/ VerifyEmail(u) \/ DeadlinePasses(u)
    BY <1>2
  <2>2. [Absent EXCEPT !.row = "live", !.pending = TRUE] \in Account
    BY DEF Absent, Account
  <2> QED
    BY <1>1, <2>1, <2>2, ColumnsTyped DEF SignUp, VerifyEmail, DeadlinePasses
<1>12. ASSUME NEW actor \in Users, NEW u \in Users, NEW role \in {"user", "staff"},
              NEW active \in BOOLEAN, CreateAccount(actor, u, role, active)
       PROVE  Typed'
  <2> DEFINE New == [Absent EXCEPT !.row = "live", !.is_active = active,
                                   !.is_staff = role = "staff"]
  <2>1. New \in Account
    BY DEF Absent, Account
  <2>2. Save(u, Temporary(New)) /\ UNCHANGED request
    BY <1>12 DEF CreateAccount
  <2> HIDE DEF New
  <2> QED
    BY <1>1, <2>1, <2>2, ColumnsTyped
<1>3. ASSUME NEW r \in Requests, NEW op \in Ops, NEW actor \in Users,
             NEW target \in Users, Begin(r, op, actor, target)
      PROVE  Typed'
  <2>1. op \in AllOps /\ Role(account[actor]) \in Account
    BY ColumnsTyped, AccountsAssumption
  <2> DEFINE New == [op |-> op, step |-> "guard", who |-> Role(account[actor]),
                     target |-> target, saw |-> account[target]]
  <2>2. New \in Rec
    BY <2>1 DEF Steps
  <2>3. request' = [request EXCEPT ![r] = New] /\ account' = account
    BY <1>3 DEF Begin
  <2> HIDE DEF New
  <2>4. New.op \in AllOps
    BY <2>1 DEF New
  <2> QED
    BY <2>2, <2>3, <2>4
<1>4. ASSUME NEW r \in Requests,
             \/ Done(r)
             \/ request[r].step # "idle" /\ \E s \in Steps : Go(r, s)
      PROVE  /\ request' \in [Requests -> Rec]
             /\ \A q \in Requests :
                  request'[q].step # "idle" => request'[q].op \in AllOps
  BY <1>0, <1>4 DEF Done, Go
<1>5. ASSUME NEW r \in Requests, Guard(r) PROVE Typed'
  BY <1>4, <1>5 DEF Guard, Steps
<1>6. ASSUME NEW r \in Requests, SaveOp(r) PROVE Typed'
  <2> DEFINE op == request[r].op
             u == request[r].target
             saw == request[r].saw
  <2>1. op \in AllOps /\ u \in Users /\ saw \in Account /\ account[u] \in Account
    BY <1>6 DEF SaveOp
  <2>2. Saved(op, account[u], saw) \in Account
    BY <2>1, SavedTyped
  <2>3. account' \in [Users -> Account]
    BY <1>6, <2>1, <2>2 DEF SaveOp, Save
  <2>4. Done(r) \/ (request[r].step # "idle" /\ \E s \in Steps : Go(r, s))
    BY <1>6 DEF SaveOp, Proceed, After, Steps
  <2> QED
    BY <1>4, <2>3, <2>4
<1>7. ASSUME NEW r \in Requests, ApprovalReset(r) PROVE Typed'
  BY <1>4, <1>7, ColumnsTyped DEF ApprovalReset, Save, Steps
<1>8. ASSUME NEW r \in Requests, ApprovalDone(r) PROVE Typed'
  BY <1>4, <1>8, ColumnsTyped DEF ApprovalDone, Save
<1>9. ASSUME NEW r \in Requests, ClearFlags(r) PROVE Typed'
  BY <1>4, <1>9, ColumnsTyped DEF ClearFlags, Save
<1>10. ASSUME NEW r \in Requests, Fail(r) PROVE Typed'
  BY <1>4, <1>10 DEF Fail
<1>11. CASE UNCHANGED vars
  BY <1>11 DEF vars
<1> QED
  BY <1>2, <1>12, <1>3, <1>5, <1>6, <1>7, <1>8, <1>9, <1>10, <1>11 DEF Next

\* The types, and what the model knows of requests, in every reachable state.
LEMMA AlwaysTyped == Spec => []Typed
PROOF
<1>1. Init => Typed
  <2> SUFFICES ASSUME Init PROVE Typed
    OBVIOUS
  <2>1. Idle \in [op : AllOps \cup {"none"}, step : Steps, who : Account,
                  target : Users, saw : Account] /\ Idle.step = "idle"
    BY AccountsAssumption, AbsentTyped DEF Idle, Steps
  <2>2. account \in [Users -> Account]
    BY AbsentTyped, ExistingTyped DEF Init
  <2> QED
    BY <2>1, <2>2 DEF Init, Typed, TypeOK
<1> QED
  BY <1>1, TypingStep, PTL DEF Spec

\* Every account and every request of a reachable state is of its type.
THEOREM AccountsTypeCorrect == Spec => []TypeOK
PROOF
<1>1. Typed => TypeOK
  BY DEF Typed
<1> QED
  BY <1>1, AlwaysTyped, PTL

-----------------------------------------------------------------------------

LEMMA ApprovalStep ==
    ASSUME Typed, ApprovalInv, [Next]_vars
    PROVE  ApprovalInv'
PROOF
<1> USE DEF ApprovalInv, ApprovedHasPassword, Live, HasPassword
<1>0. \A r \in Requests : request[r].target \in Users
  BY DEF Typed, TypeOK
\* A step of no request, on one account.
<1>a. ASSUME NEW u \in Users, UNCHANGED request,
             \A v \in Users \ {u} : account'[v] = account[v],
             account[u].row \in {"never", "live"}, account'[u].row = "live",
             ~account'[u].pending => account'[u].password # "unusable",
             account[u].row = "live" /\ HasPassword(u)
             => account'[u].password # "unusable"
      PROVE  ApprovalInv'
  <2>1. ApprovedHasPassword'
    BY <1>a
  <2>2. ASSUME NEW r \in Requests
        PROVE  LET v == request[r].target
               IN  /\ request[r].step # "idle" => account'[v].row # "never"
                   /\ request[r].step = "approve" /\ account'[v].row = "live"
                      => account'[v].password # "unusable"
                   /\ request[r].op = "edit_profile" /\ ~request[r].saw.pending
                      /\ request[r].step # "idle" /\ account'[v].row = "live"
                      => account'[v].password # "unusable"
    <3>1. CASE request[r].target = u
      BY <1>a, <1>0, <3>1
    <3>2. CASE request[r].target # u
      BY <1>a, <1>0, <3>2
    <3> QED
      BY <3>1, <3>2
  <2> QED
    BY <1>a, <2>1, <2>2
<1>1. ASSUME NEW u \in Users, SignUp(u) PROVE ApprovalInv'
  <2>1. /\ account[u].row = "never" /\ UNCHANGED request
        /\ \A v \in Users \ {u} : account'[v] = account[v]
        /\ account'[u] = [Absent EXCEPT !.row = "live", !.pending = TRUE]
    BY <1>1 DEF SignUp, Save, Typed, TypeOK
  <2>2. account'[u].row = "live" /\ account'[u].pending
    BY <2>1 DEF Absent
  <2> QED
    BY <1>a, <2>1, <2>2
<1>2. ASSUME NEW u \in Users, VerifyEmail(u) \/ DeadlinePasses(u)
      PROVE  ApprovalInv'
  <2>1. /\ UNCHANGED request
        /\ \A v \in Users \ {u} : account'[v] = account[v]
        /\ account'[u].row = account[u].row
        /\ account'[u].pending = account[u].pending
        /\ account'[u].password = account[u].password
    BY <1>2 DEF VerifyEmail, DeadlinePasses, Save, Typed, TypeOK, Account
  <2>2. account[u].row = "live" \/ account[u].deadline = "running"
    BY <1>2 DEF VerifyEmail, DeadlinePasses
  <2>3. CASE account[u].row = "live"
    BY <1>a, <2>1, <2>3
  <2>4. CASE account[u].row # "live"
    <3>1. \A r \in Requests : request[r].target = u => account'[u].row # "live"
      BY <2>1, <2>4
    <3> QED
      BY <1>0, <2>1, <2>4, <3>1
  <2> QED
    BY <2>3, <2>4
<1>3. ASSUME NEW actor \in Users, NEW u \in Users, NEW role \in {"user", "staff"},
             NEW active \in BOOLEAN, CreateAccount(actor, u, role, active)
      PROVE  ApprovalInv'
  <2>1. /\ account[u].row = "never" /\ UNCHANGED request
        /\ \A v \in Users \ {u} : account'[v] = account[v]
        /\ account'[u].row = "live" /\ account'[u].password = "temporary"
    BY <1>3 DEF CreateAccount, Save, Temporary, Absent, Typed, TypeOK
  <2> QED
    BY <1>a, <2>1
<1>4. ASSUME NEW r \in Requests, NEW op \in Ops, NEW actor \in Users,
             NEW target \in Users, Begin(r, op, actor, target)
      PROVE  ApprovalInv'
  BY <1>4 DEF Begin, Typed, TypeOK
<1>5. ASSUME NEW r \in Requests, Guard(r) \/ Fail(r) PROVE ApprovalInv'
  BY <1>5, AccountsAssumption DEF Guard, Fail, Go, Done, Idle, Typed, TypeOK
<1>6. ASSUME NEW r \in Requests, SaveOp(r) PROVE ApprovalInv'
  <2> DEFINE op == request[r].op
             u == request[r].target
             saw == request[r].saw
             new == account'[u]
  <2>1. /\ op \in AllOps /\ u \in Users /\ Live(u) /\ request[r].step = "save"
        /\ \A v \in Users \ {u} : account'[v] = account[v]
        /\ new = IF NoOp(op, saw) THEN account[u] ELSE Saved(op, account[u], saw)
    BY <1>6 DEF SaveOp, Save, Typed, TypeOK
  <2>2. /\ new.row # "never"
        /\ new.row = "live" /\ HasPassword(u) => new.password # "unusable"
        /\ new.row = "live" /\ ~new.pending => new.password # "unusable"
    <3>1. CASE NoOp(op, saw)
      BY <2>1, <3>1
    <3>2. CASE ~NoOp(op, saw) /\ op \in {"activate", "deactivate", "promote", "demote"}
      BY <2>1, <3>2 DEF Saved, Account, Typed, TypeOK
    <3>3. CASE op \in {"delete", "reset", "change_password"}
      BY <2>1, <3>3 DEF Saved, NoOp, Temporary, Absent, Account, Typed, TypeOK
    <3>4. CASE op = "edit_profile"
      <4>1. new = [account[u] EXCEPT !.must_change = saw.must_change,
                      !.deadline = saw.deadline, !.pending = saw.pending,
                      !.verified = saw.verified]
        BY <2>1, <3>4 DEF Saved, NoOp
      <4>2. account[u] \in Account
        BY <2>1 DEF Typed, TypeOK
      <4>3. new.pending = saw.pending /\ new.password = account[u].password
            /\ new.row = account[u].row
        BY <4>1, <4>2 DEF Account
      <4> QED
        BY <2>1, <3>4, <4>3
    <3> QED
      BY <2>1, <3>1, <3>2, <3>3, <3>4 DEF AllOps
  <2>3. \A q \in Requests \ {r} : request'[q] = request[q]
    BY <1>6 DEF SaveOp, Proceed, Go, Done, Typed, TypeOK
  <2>4. \/ request'[r] = Idle
        \/ /\ request'[r] = [request[r] EXCEPT !.step = request'[r].step]
           /\ request'[r].step \in {"reset", "clear_flags"}
           /\ op # "edit_profile"
    BY <1>6 DEF SaveOp, Proceed, After, Go, Done, Typed, TypeOK
  <2>5. request[r].target = u /\ request'[r].target \in Users
    BY <2>1, <2>4, AccountsAssumption DEF Idle, Typed, TypeOK
  <2>6. ApprovedHasPassword'
    BY <2>1, <2>2
  <2>7. ASSUME NEW q \in Requests, q # r
        PROVE  LET v == request'[q].target
               IN  /\ request'[q].step # "idle" => account'[v].row # "never"
                   /\ request'[q].step = "approve" /\ account'[v].row = "live"
                      => account'[v].password # "unusable"
                   /\ request'[q].op = "edit_profile" /\ ~request'[q].saw.pending
                      /\ request'[q].step # "idle" /\ account'[v].row = "live"
                      => account'[v].password # "unusable"
    BY <2>1, <2>2, <2>3, <2>7 DEF Typed, TypeOK
  <2>8. /\ request'[r].step # "idle" => account'[request'[r].target].row # "never"
        /\ request'[r].step # "approve"
        /\ request'[r].op # "edit_profile" \/ request'[r].step = "idle"
    BY <2>1, <2>2, <2>4 DEF Idle, Typed, TypeOK
  <2> QED
    BY <2>6, <2>7, <2>8
<1>7. ASSUME NEW r \in Requests, ApprovalReset(r) PROVE ApprovalInv'
  BY <1>7 DEF ApprovalReset, Save, Temporary, Go, Typed, TypeOK, Account
<1>8. ASSUME NEW r \in Requests, ApprovalDone(r) PROVE ApprovalInv'
  BY <1>8, AccountsAssumption
     DEF ApprovalDone, Save, Done, Idle, Typed, TypeOK, Account
<1>9. ASSUME NEW r \in Requests, ClearFlags(r) PROVE ApprovalInv'
  BY <1>9, AccountsAssumption
     DEF ClearFlags, Save, Done, Idle, Typed, TypeOK, Account
<1>10. CASE UNCHANGED vars
  BY <1>10 DEF vars
<1> QED
  BY <1>1, <1>2, <1>3, <1>4, <1>5, <1>6, <1>7, <1>8, <1>9, <1>10 DEF Next

\* However approvals, resets, deletions and profile forms interleave, and
\* wherever one of them stops, an approved account has a password.
THEOREM ApprovalGivesPassword == Spec => []ApprovedHasPassword
PROOF
<1>1. ASSUME Init PROVE ApprovalInv
  <2>1. \A r \in Requests : request[r] = Idle
    BY <1>1 DEF Init
  <2>2. Idle.step = "idle"
    BY DEF Idle
  <2>3. \A role : Existing(role).password = "own"
    BY DEF Existing, Absent
  <2>4. \A u \in Users : account[u] = Absent \/ account[u].password = "own"
    BY <1>1, <2>3 DEF Init
  <2> QED
    BY <2>1, <2>2, <2>4
       DEF ApprovalInv, ApprovedHasPassword, Live, HasPassword, Absent
<1>2. ApprovalInv => ApprovedHasPassword
  BY DEF ApprovalInv
<1> QED
  BY <1>1, <1>2, ApprovalStep, AlwaysTyped, PTL DEF Spec

-----------------------------------------------------------------------------

\* Served one at a time, a request still sees the flags it read, and one that
\* is about to deactivate an Admin leaves another.
Current(r) == request[r].step \in {"guard", "save"}

AdminInv ==
    /\ AnAdminRemains
    /\ \A r \in Requests :
         LET u == request[r].target
             saw == request[r].saw
         IN  /\ Current(r) => /\ Live(u)
                            /\ saw.is_staff = account[u].is_staff
                            /\ saw.is_superuser = account[u].is_superuser
                            /\ saw.is_active = account[u].is_active
             /\ Current(r) /\ request[r].op = "delete" => ~IsAdmin(saw)
             /\ request[r].step = "save" /\ request[r].op = "demote" => ~IsAdmin(saw)
             /\ request[r].step = "save" /\ request[r].op = "deactivate"
                /\ IsAdmin(saw) => ActiveAdmins \ {u} # {}

LEMMA AnotherAdmin ==
    ASSUME IsFiniteSet(Users), NEW u, ~(Cardinality(ActiveAdmins) <= 1)
    PROVE  ActiveAdmins \ {u} # {}
PROOF
<1> SUFFICES ASSUME ActiveAdmins \ {u} = {} PROVE FALSE
  OBVIOUS
<1>1. ActiveAdmins \subseteq {u} /\ IsFiniteSet({u}) /\ Cardinality({u}) = 1
  BY FS_Singleton
<1>2. Cardinality(ActiveAdmins) <= Cardinality({u})
  BY <1>1, FS_Subset
<1> QED
  BY <1>1, <1>2

LEMMA AdminStep ==
    ASSUME IsFiniteSet(Users), NEW r, Requests = {r}, Typed, AdminInv, [Next]_vars
    PROVE  AdminInv'
PROOF
<1> USE DEF AdminInv, Live, Current
<1> DEFINE t == request[r].target
<1>0. t \in Users /\ AnAdminRemains
  BY DEF Typed, TypeOK
\* A step of no request, on an account that it makes no Admin lose.
<1>a. ASSUME NEW u \in Users, UNCHANGED request,
             \A v \in Users \ {u} : account'[v] = account[v],
             \/ account[u].row = "never"
             \/ /\ account'[u].row = account[u].row
                /\ account'[u].is_staff = account[u].is_staff
                /\ account'[u].is_superuser = account[u].is_superuser
                /\ account'[u].is_active = account[u].is_active
      PROVE  AdminInv'
  <2>1. ActiveAdmins \subseteq ActiveAdmins'
    BY <1>a DEF ActiveAdmins, IsAdmin
  <2>2. AnAdminRemains'
    BY <1>0, <2>1 DEF AnAdminRemains
  <2>3. Current(r) => account'[t].row = account[t].row
                    /\ account'[t].is_staff = account[t].is_staff
                    /\ account'[t].is_superuser = account[t].is_superuser
                    /\ account'[t].is_active = account[t].is_active
    BY <1>a, <1>0
  <2> QED
    BY <1>a, <2>1, <2>2, <2>3
<1>1. ASSUME NEW u \in Users,
             SignUp(u) \/ (\E actor \in Users, role \in {"user", "staff"},
                              active \in BOOLEAN : CreateAccount(actor, u, role, active))
      PROVE  AdminInv'
  <2>1. account[u].row = "never" /\ UNCHANGED request
        /\ \A v \in Users \ {u} : account'[v] = account[v]
    BY <1>1 DEF SignUp, CreateAccount, Save, Typed, TypeOK
  <2> QED
    BY <1>a, <2>1
<1>2. ASSUME NEW u \in Users, VerifyEmail(u) \/ DeadlinePasses(u) PROVE AdminInv'
  <2>1. /\ UNCHANGED request
        /\ \A v \in Users \ {u} : account'[v] = account[v]
        /\ account'[u].row = account[u].row
        /\ account'[u].is_staff = account[u].is_staff
        /\ account'[u].is_superuser = account[u].is_superuser
        /\ account'[u].is_active = account[u].is_active
    BY <1>2 DEF VerifyEmail, DeadlinePasses, Save, Typed, TypeOK, Account
  <2> QED
    BY <1>a, <2>1
<1>3. ASSUME NEW op \in Ops, NEW actor \in Users, NEW target \in Users,
             Begin(r, op, actor, target)
      PROVE  AdminInv'
  <2>1. /\ UNCHANGED account
        /\ request'[r].target = target /\ request'[r].saw = account[target]
        /\ request'[r].op = op /\ request'[r].step = "guard"
        /\ account[target].row = "live"
    BY <1>3 DEF Begin, Typed, TypeOK
  <2>2. op = "delete" => ~IsAdmin(account[target])
    BY <1>3 DEF Begin, Reaches
  <2>3. AnAdminRemains'
    BY <1>0, <2>1 DEF AnAdminRemains, ActiveAdmins
  <2> QED
    BY <2>1, <2>2, <2>3
<1>4. ASSUME Guard(r) PROVE AdminInv'
  <2>1. UNCHANGED account /\ AnAdminRemains' /\ ActiveAdmins' = ActiveAdmins
    BY <1>0, <1>4 DEF Guard, AnAdminRemains, ActiveAdmins
  <2>2. CASE Allowed(r)
    <3>1. request'[r] = [request[r] EXCEPT !.step = "save"] /\ request[r].step = "guard"
      BY <1>4, <2>2 DEF Guard, Go, Typed, TypeOK
    <3>2. /\ request'[r].step = "save" /\ request'[r].target = t
          /\ request'[r].saw = request[r].saw /\ request'[r].op = request[r].op
      BY <3>1 DEF Typed, TypeOK
    <3>3. request[r].op = "demote" => ~IsAdmin(request[r].saw)
      BY <2>2 DEF Allowed
    <3>4. request[r].op = "deactivate" /\ IsAdmin(request[r].saw)
          => ~(Cardinality(ActiveAdmins) <= 1)
      BY <2>2 DEF Allowed
    <3>5. request[r].op = "deactivate" /\ IsAdmin(request[r].saw)
          => ActiveAdmins \ {t} # {}
      BY <3>4, AnotherAdmin
    <3>6. request[r].step # "save" /\ Current(r) /\ r \in Requests
      BY <3>1
    <3> QED
      BY <2>1, <3>6, <3>2, <3>3, <3>5
  <2>3. CASE ~Allowed(r)
    BY <1>4, <2>1, <2>3 DEF Guard, Done, Idle, Typed, TypeOK
  <2> QED
    BY <2>2, <2>3
<1>5. ASSUME SaveOp(r) PROVE AdminInv'
  <2> DEFINE op == request[r].op
             saw == request[r].saw
             new == account'[t]
  <2>1. /\ op \in AllOps /\ Live(t) /\ request[r].step = "save"
        /\ account[t] \in Account /\ saw \in Account
        /\ \A v \in Users \ {t} : account'[v] = account[v]
        /\ new = IF NoOp(op, saw) THEN account[t] ELSE Saved(op, account[t], saw)
    BY <1>5 DEF SaveOp, Save, Typed, TypeOK
  <2>2. request'[r].step \notin {"guard", "save"}
    BY <1>5 DEF SaveOp, Proceed, After, Go, Done, Idle, Typed, TypeOK
  <2>3. IsAdmin(saw) <=> t \in ActiveAdmins
    BY <1>0, <2>1 DEF ActiveAdmins, IsAdmin
  <2>4. ASSUME t \notin ActiveAdmins PROVE AnAdminRemains'
    <3>1. ActiveAdmins \subseteq ActiveAdmins'
      BY <1>0, <2>1, <2>4 DEF ActiveAdmins
    <3> QED
      BY <1>0, <3>1 DEF AnAdminRemains
  <2>5. ASSUME t \in ActiveAdmins, op = "deactivate" PROVE AnAdminRemains'
    <3>1. ActiveAdmins \ {t} # {}
      BY <2>1, <2>3, <2>5
    <3>2. ActiveAdmins \ {t} \subseteq ActiveAdmins'
      BY <1>0, <2>1 DEF ActiveAdmins
    <3> QED
      BY <3>1, <3>2 DEF AnAdminRemains
  <2>6. ASSUME t \in ActiveAdmins, op # "deactivate" PROVE AnAdminRemains'
    <3>1. op \notin {"delete", "demote"}
      BY <2>1, <2>3, <2>6
    <3>2. account[t].row = "live" /\ IsAdmin(account[t])
      BY <2>6 DEF ActiveAdmins
    <3>3. /\ new.row = account[t].row
          /\ new.is_superuser = account[t].is_superuser
          /\ new.is_staff \/ ~account[t].is_staff
          /\ new.is_active \/ ~account[t].is_active
      <4>1. CASE NoOp(op, saw)
        BY <2>1, <4>1
      <4>2. CASE ~NoOp(op, saw) /\ op \in {"activate", "promote"}
        BY <2>1, <4>2 DEF Saved, Account
      <4>3. CASE ~NoOp(op, saw) /\ op \in {"reset", "change_password"}
        BY <2>1, <4>3 DEF Saved, Temporary, Account
      <4>4. CASE ~NoOp(op, saw) /\ op = "edit_profile"
        <5>1. new = [account[t] EXCEPT !.must_change = saw.must_change,
                        !.deadline = saw.deadline, !.pending = saw.pending,
                        !.verified = saw.verified]
          BY <2>1, <4>4 DEF Saved
        <5> HIDE DEF new
        <5> QED
          BY <2>1, <5>1 DEF Account
      <4> QED
        BY <2>1, <2>6, <3>1, <4>1, <4>2, <4>3, <4>4 DEF AllOps
    <3>4. t \in ActiveAdmins'
      BY <1>0, <3>2, <3>3 DEF ActiveAdmins, IsAdmin
    <3> QED
      BY <3>4 DEF AnAdminRemains
  <2>7. AnAdminRemains'
    BY <2>4, <2>5, <2>6
  <2> QED
    BY <2>2, <2>7
<1>6. ASSUME ApprovalReset(r) \/ ApprovalDone(r) \/ ClearFlags(r) PROVE AdminInv'
  <2>1. account[t] \in Account /\ account \in [Users -> Account]
    BY <1>0 DEF Typed, TypeOK
  <2>2. /\ \A v \in Users \ {t} : account'[v] = account[v]
        /\ account'[t].row = account[t].row
        /\ account'[t].is_staff = account[t].is_staff
        /\ account'[t].is_superuser = account[t].is_superuser
        /\ account'[t].is_active = account[t].is_active
    <3>1. CASE ApprovalReset(r)
      BY <1>0, <2>1, <3>1 DEF ApprovalReset, Save, Temporary, Account
    <3>2. CASE ApprovalDone(r)
      BY <1>0, <2>1, <3>2 DEF ApprovalDone, Save, Account
    <3>3. CASE ClearFlags(r)
      BY <1>0, <2>1, <3>3 DEF ClearFlags, Save, Account
    <3> QED
      BY <1>6, <3>1, <3>2, <3>3
  <2>3. request'[r].step \notin {"guard", "save"}
    BY <1>6 DEF ApprovalReset, ApprovalDone, ClearFlags, Go, Done, Idle, Typed, TypeOK
  <2>4. ActiveAdmins \subseteq ActiveAdmins'
    BY <1>0, <2>2 DEF ActiveAdmins, IsAdmin
  <2> QED
    BY <1>0, <2>3, <2>4 DEF AnAdminRemains
<1>7. ASSUME Fail(r) PROVE AdminInv'
  BY <1>0, <1>7 DEF Fail, Done, Idle, Typed, TypeOK, AnAdminRemains, ActiveAdmins
<1>8. CASE UNCHANGED vars
  BY <1>0, <1>8 DEF vars, AnAdminRemains, ActiveAdmins
<1> QED
  BY <1>1, <1>2, <1>3, <1>4, <1>5, <1>6, <1>7, <1>8 DEF Next

\* With one request at a time, every deployment that starts with an Admin keeps
\* an active one.
THEOREM LastAdminStays ==
    ASSUME IsFiniteSet(Users), NEW r, Requests = {r},
           \E u \in Users : Start[u] = "admin"
    PROVE  Spec => []AnAdminRemains
PROOF
<1>1. ASSUME Init PROVE AdminInv
  <2>1. PICK u \in Users : Start[u] = "admin"
    OBVIOUS
  <2>2. account[u] = Existing("admin")
    BY <1>1, <2>1 DEF Init
  <2>3. Existing("admin").row = "live" /\ IsAdmin(Existing("admin"))
    BY DEF Existing, Absent, IsAdmin
  <2>4. request[r].step = "idle"
    BY <1>1 DEF Init, Idle
  <2> QED
    BY <2>2, <2>3, <2>4 DEF AdminInv, AnAdminRemains, ActiveAdmins, Current
<1>2. AdminInv => AnAdminRemains
  BY DEF AdminInv
<1> QED
  BY <1>1, <1>2, AdminStep, AlwaysTyped, PTL DEF Spec

(***************************************************************************)
(* Valuation                                                               *)
(***************************************************************************)
\* Division and rounding.
LEMMA DivMod ==
    ASSUME NEW a \in Int, NEW b \in Nat \ {0}
    PROVE  /\ a \div b \in Int /\ a % b \in 0..(b - 1)
           /\ a = b * (a \div b) + (a % b)
PROOF OBVIOUS

LEMMA DivIs ==
    ASSUME NEW b \in Nat \ {0}, NEW q \in Int, NEW r \in 0..(b - 1)
    PROVE  (b * q + r) \div b = q
PROOF OBVIOUS

LEMMA ProductGrows ==
    ASSUME NEW a \in Int, NEW b \in Int, NEW c \in Nat, a <= b
    PROVE  c * a <= c * b
PROOF
  BY Z3

LEMMA Distribute ==
    ASSUME NEW a \in Int, NEW b \in Int, NEW c \in Int
    PROVE  /\ a * (b + c) = a * b + a * c /\ a * b \in Int /\ a * b = b * a
           /\ (2 * a) * b = 2 * (a * b)
PROOF OBVIOUS

\* Rounding to the nearest is off by at most a half.
LEMMA NearestIs ==
    ASSUME NEW a \in Nat, NEW b \in Nat \ {0}
    PROVE  /\ Nearest(a, b) \in Nat
           /\ 2 * (b * Nearest(a, b)) <= 2 * a + b
           /\ 2 * (b * Nearest(a, b)) > 2 * a - b
PROOF
<1>1. PICK d \in Nat \ {0} : d = 2 * b
  OBVIOUS
<1>2. PICK m \in Nat : m = 2 * a + b
  OBVIOUS
<1>0. m \in Int
  OBVIOUS
<1>9. m \div d \in Int /\ m % d \in 0..(d - 1) /\ m = d * (m \div d) + (m % d)
  BY <1>0, DivMod
<1>3. PICK n \in Int, r \in 0..(d - 1) : n = m \div d /\ r = m % d
  BY <1>9
<1>4. m = d * n + r
  BY <1>3, <1>9
<1>5. Nearest(a, b) = n
  BY <1>1, <1>2, <1>3 DEF Nearest
<1>6. d * n = 2 * (b * n) /\ b * n \in Int
  BY <1>1, Distribute
<1>7. n \in Nat
  <2>1. ASSUME n <= -1 PROVE FALSE
    <3>1. d * n <= d * (-1)
      BY <2>1, ProductGrows
    <3>2. d * (-1) = -d /\ d * n \in Int
      OBVIOUS
    <3> QED
      BY <1>4, <3>1, <3>2
  <2> QED
    BY <2>1
<1>8. 2 * (b * n) <= 2 * a + b /\ 2 * (b * n) > 2 * a - b
  <2>1. PICK p \in Int : p = b * n
    BY <1>6
  <2>2. 2 * a + b = 2 * p + r /\ r < 2 * b /\ 0 <= r
    BY <1>1, <1>2, <1>4, <1>6, <2>1
  <2> QED
    BY <2>1, <2>2
<1> QED
  BY <1>5, <1>7, <1>8

LEMMA NearestExact ==
    ASSUME NEW x \in Nat, NEW b \in Nat \ {0}
    PROVE  Nearest(x * b, b) = x
PROOF
<1>1. PICK p \in Nat : p = b * x
  OBVIOUS
<1>2. PICK n \in Nat : n = Nearest(p, b)
  BY NearestIs
<1>3. 2 * (b * n) <= 2 * (b * x) + b /\ 2 * (b * n) > 2 * (b * x) - b
  BY <1>1, <1>2, NearestIs
<1>4. b * n \in Int /\ b * x \in Int
  BY Distribute
<1>5. ASSUME n <= x - 1 PROVE FALSE
  <2>1. b * n <= b * (x - 1)
    BY <1>5, ProductGrows
  <2>2. b * (x - 1) = b * x - b
    OBVIOUS
  <2> QED
    BY <1>3, <1>4, <2>1, <2>2
<1>6. ASSUME x + 1 <= n PROVE FALSE
  <2>1. b * (x + 1) <= b * n
    BY <1>6, ProductGrows
  <2>2. b * (x + 1) = b * x + b
    OBVIOUS
  <2> QED
    BY <1>3, <1>4, <2>1, <2>2
<1>7. n = x
  BY <1>5, <1>6
<1>8. x * b = p
  BY <1>1, Distribute
<1> QED
  BY <1>2, <1>7, <1>8

LEMMA NearestAtMost ==
    ASSUME NEW a \in Nat, NEW b \in Nat \ {0}, NEW c \in Nat, a <= b * c
    PROVE  Nearest(a, b) \in Nat /\ Nearest(a, b) <= c
PROOF
<1>1. PICK n \in Nat : n = Nearest(a, b)
  BY NearestIs
<1>2. 2 * (b * n) <= 2 * a + b
  BY <1>1, NearestIs
<1>3. ASSUME c + 1 <= n PROVE FALSE
  <2>1. b * (c + 1) <= b * n
    BY <1>3, ProductGrows
  <2>2. b * (c + 1) = b * c + b
    OBVIOUS
  <2>3. b * n \in Int /\ b * c \in Int
    BY Distribute
  <2> QED
    BY <1>2, <2>1, <2>2, <2>3
<1> QED
  BY <1>1, <1>3

\* Money in whole cents.
Cents(x) == IF x >= 0 THEN Nearest(x, Cent) ELSE -Nearest(-x, Cent)

LEMMA MoneyIs ==
    ASSUME NEW x \in Int
    PROVE  /\ Cents(x) \in Int /\ Money(x) = 10 * Cents(x) /\ Money(x) \in Int
           /\ 2 * Money(x) - 2 * x \in -10..10
           /\ x >= 0 => Money(x) >= 0
PROOF
<1>1. CASE x >= 0
  <2>1. x \in Nat
    BY <1>1
  <2>2. PICK n \in Nat : n = Nearest(x, 10)
    BY <2>1, NearestIs
  <2>3. 2 * (10 * n) <= 2 * x + 10 /\ 2 * (10 * n) > 2 * x - 10
    BY <2>1, <2>2, NearestIs
  <2>4. Cents(x) = n /\ Money(x) = 10 * n
    BY <1>1, <2>2 DEF Cents, Money, Cent
  <2> QED
    BY <2>3, <2>4
<1>2. CASE x < 0
  <2>1. -x \in Nat
    BY <1>2
  <2>2. PICK n \in Nat : n = Nearest(-x, 10)
    BY <2>1, NearestIs
  <2>3. 2 * (10 * n) <= 2 * (-x) + 10 /\ 2 * (10 * n) > 2 * (-x) - 10
    BY <2>1, <2>2, NearestIs
  <2>4. Cents(x) = -n /\ Money(x) = -(10 * n)
    BY <1>2, <2>2 DEF Cents, Money, Cent
  <2> QED
    BY <1>2, <2>3, <2>4
<1> QED
  BY <1>1, <1>2

LEMMA MoneyExact ==
    ASSUME NEW k \in Int
    PROVE  Money(10 * k) = 10 * k
PROOF
<1>1. CASE k >= 0
  <2>1. Nearest(k * 10, 10) = k
    BY <1>1, NearestExact
  <2> QED
    BY <1>1, <2>1 DEF Money, Cent
<1>2. CASE k < 0
  <2>1. Nearest((-k) * 10, 10) = -k
    BY <1>2, NearestExact
  <2>2. -(10 * k) = (-k) * 10 /\ ~(10 * k >= 0)
    BY <1>2
  <2> QED
    BY <1>2, <2>1, <2>2 DEF Money, Cent
<1> QED
  BY <1>1, <1>2

\* Where k times a term and m times another differ by at most c, so do the sums, for
\* each term.
LEMMA SumScaled ==
    ASSUME NEW S, IsFiniteSet(S), NEW f, NEW g, NEW k \in Int, NEW m \in Int, NEW c \in Nat,
           \A x \in S : f[x] \in Int /\ g[x] \in Int /\ k * f[x] - m * g[x] \in -c..c
    PROVE  /\ SumOver(f, S) \in Int /\ SumOver(g, S) \in Int
           /\ c * Cardinality(S) \in Nat
           /\ k * SumOver(f, S) - m * SumOver(g, S) \in -(c * Cardinality(S))..(c * Cardinality(S))
PROOF
<1> DEFINE Scaled(s) == k * SumOver(f, s) - m * SumOver(g, s) \in -(c * Cardinality(s))..(c * Cardinality(s))
           T == {s \in SUBSET S : Scaled(s)}
<1>1. \A s \in SUBSET S : /\ IsFiniteSet(s) /\ Cardinality(s) \in Nat
                          /\ SumOver(f, s) \in Int /\ SumOver(g, s) \in Int
  <2> SUFFICES ASSUME NEW s \in SUBSET S
               PROVE  /\ IsFiniteSet(s) /\ Cardinality(s) \in Nat
                      /\ SumOver(f, s) \in Int /\ SumOver(g, s) \in Int
    OBVIOUS
  <2>1. IsFiniteSet(s) /\ Cardinality(s) \in Nat
    BY FS_Subset, FS_CardinalityType
  <2>2. \A x \in s : f[x] \in Int /\ g[x] \in Int
    OBVIOUS
  <2> QED
    BY <2>1, <2>2, SumTake
<1>2. {} \in T
  <2>1. SumOver(f, {}) = 0 /\ SumOver(g, {}) = 0 /\ Cardinality({}) = 0
    BY FS_EmptySet, SumTake
  <2> QED
    BY <2>1
<1>3. ASSUME NEW s \in SUBSET S, s # {}, \A x \in s : s \ {x} \in T PROVE s \in T
  <2>1. PICK x \in s : TRUE
    BY <1>3
  <2>2. Scaled(s \ {x}) /\ s \ {x} \in SUBSET S
    BY <1>3
  <2>3. SumOver(f, s) = f[x] + SumOver(f, s \ {x}) /\ SumOver(g, s) = g[x] + SumOver(g, s \ {x})
    BY <1>1, SumTake
  <2>4. Cardinality(s \ {x}) = Cardinality(s) - 1
    BY <1>1, FS_RemoveElement
  <2>5. f[x] \in Int /\ g[x] \in Int /\ k * f[x] - m * g[x] \in -c..c
    OBVIOUS
  <2>6. PICK a \in Int, b \in Int, n \in Nat :
          a = SumOver(f, s \ {x}) /\ b = SumOver(g, s \ {x}) /\ n = Cardinality(s \ {x})
    BY <1>1, <2>2
  <2>7. k * a - m * b \in -(c * n)..(c * n)
    BY <2>2, <2>6
  <2>8. k * (f[x] + a) = k * f[x] + k * a /\ m * (g[x] + b) = m * g[x] + m * b
        /\ c * (n + 1) = c * n + c
    BY <2>5, Distribute
  <2>9. /\ k * f[x] \in Int /\ m * g[x] \in Int /\ k * a \in Int /\ m * b \in Int /\ c * n \in Int
    BY <2>5
  <2>10. k * (f[x] + a) - m * (g[x] + b) \in -(c * (n + 1))..(c * (n + 1))
    BY <2>5, <2>7, <2>8, <2>9
  <2>11. Cardinality(s) = n + 1
    BY <1>1, <2>4, <2>6
  <2> QED
    BY <2>3, <2>6, <2>10, <2>11
<1>4. T = SUBSET S
  <2>1. T \in SUBSET SUBSET S
    OBVIOUS
  <2> HIDE DEF T
  <2> QED
    BY <1>2, <1>3, <2>1, SubsetInduction
<1>5. S \in T
  BY <1>4
<1>6. Cardinality(S) \in Nat /\ SumOver(f, S) \in Int /\ SumOver(g, S) \in Int
  BY <1>1
<1>7. c * Cardinality(S) \in Nat
  BY <1>6
<1> QED
  BY <1>5, <1>6, <1>7

-----------------------------------------------------------------------------
(***************************************************************************)
(* Replaying the ledger.                                                   *)
(***************************************************************************)
Holdings == [quantity : Nat, cost : Nat, fees : Nat, realized : Int, error : BOOLEAN]

\* What the trades of a share brought is accounted for, and nothing is left of a
\* position that is closed.
Accounted(h, f) ==
    /\ h \in Holdings /\ f \in Int
    /\ f = h.realized - h.cost - h.fees
    /\ h.quantity = 0 => h.cost = 0 /\ h.fees = 0

ValuationInv ==
    /\ holding \in [Shares -> Holdings] /\ flow \in [Shares -> Int]
    /\ \A s \in Shares : Accounted(holding[s], flow[s])
    /\ \A s \in Shares : market[s] \in QuoteRows

\* A slice is no more than the whole, and that of the whole position is the whole.
LEMMA SliceFits ==
    ASSUME NEW h \in Holdings, NEW amount \in Nat, NEW size \in Nat \ {0}, size <= h.quantity
    PROVE  /\ Slice(amount, size, h) \in Nat /\ Slice(amount, size, h) <= amount
           /\ size = h.quantity => Slice(amount, size, h) = amount
PROOF
<1>1. PICK P \in Nat \ {0} : P = Precision
  BY ValuationAssumption
<1>2. PICK q \in Nat \ {0} : q = h.quantity
  BY DEF Holdings
<1>3. PICK sp \in Nat : sp = size * P
  OBVIOUS
<1>4. sp <= q * P
  <2>1. P * size <= P * q
    BY <1>2, ProductGrows
  <2>2. P * size = size * P /\ P * q = q * P
    BY Distribute
  <2> QED
    BY <1>3, <2>1, <2>2
<1>5. PICK part \in Nat : part = Nearest(sp, q) /\ part <= P
  BY <1>4, NearestAtMost
<1>6. PICK ap \in Nat : ap = amount * part
  OBVIOUS
<1>7. ap <= P * amount
  <2>1. amount * part <= amount * P
    BY <1>5, ProductGrows
  <2>2. amount * P = P * amount
    BY Distribute
  <2> QED
    BY <1>6, <2>1, <2>2
<1>8. Nearest(ap, P) \in Nat /\ Nearest(ap, P) <= amount
  BY <1>7, NearestAtMost
<1>9. Slice(amount, size, h) = Nearest(ap, P)
  BY <1>1, <1>2, <1>3, <1>5, <1>6 DEF Slice
<1>10. ASSUME size = h.quantity PROVE Slice(amount, size, h) = amount
  <2>1. sp = P * q
    BY <1>2, <1>3, <1>10, Distribute
  <2>2. Nearest(P * q, q) = P
    BY NearestExact
  <2>3. part = P
    BY <1>5, <2>1, <2>2
  <2>4. Nearest(amount * P, P) = amount
    BY NearestExact
  <2> QED
    BY <1>6, <1>9, <2>3, <2>4
<1> QED
  BY <1>8, <1>9, <1>10

LEMMA BoughtAccounted ==
    ASSUME NEW h, NEW f, Accounted(h, f), NEW size \in Nat \ {0}, NEW price \in Nat, NEW fee \in Nat
    PROVE  Accounted(Bought(h, size, price, fee), (f - size * price) - fee)
PROOF
<1>1. PICK m \in Nat : m = size * price
  OBVIOUS
<1>2. h = [quantity |-> h.quantity, cost |-> h.cost, fees |-> h.fees, realized |-> h.realized,
           error |-> h.error]
      /\ h.quantity \in Nat /\ h.cost \in Nat /\ h.fees \in Nat /\ h.realized \in Int
      /\ h.error \in BOOLEAN
  BY DEF Accounted, Holdings
<1>3. PICK b : b = Bought(h, size, price, fee)
  OBVIOUS
<1>4. b = [quantity |-> h.quantity + size, cost |-> h.cost + m, fees |-> h.fees + fee,
           realized |-> h.realized, error |-> h.error]
  BY <1>1, <1>2, <1>3 DEF Bought
<1>5. h.quantity + size \in Nat /\ h.quantity + size # 0 /\ h.cost + m \in Nat /\ h.fees + fee \in Nat
  BY <1>2
<1>6. b \in Holdings
  BY <1>2, <1>4, <1>5 DEF Holdings
<1>7. f \in Int /\ f = h.realized - h.cost - h.fees
  BY DEF Accounted
<1>8. (f - m) - fee \in Int /\ (f - m) - fee = h.realized - (h.cost + m) - (h.fees + fee)
  BY <1>2, <1>7
<1> QED
  BY <1>1, <1>3, <1>4, <1>5, <1>6, <1>8 DEF Accounted

LEMMA SoldAccounted ==
    ASSUME NEW h, NEW f, Accounted(h, f), NEW size \in Nat \ {0}, NEW price \in Nat, NEW fee \in Nat,
           size <= h.quantity
    PROVE  Accounted(Sold(h, size, price, fee), (f + size * price) - fee)
PROOF
<1>1. PICK m \in Nat : m = size * price
  OBVIOUS
<1>2. h = [quantity |-> h.quantity, cost |-> h.cost, fees |-> h.fees, realized |-> h.realized,
           error |-> h.error]
      /\ h.quantity \in Nat /\ h.cost \in Nat /\ h.fees \in Nat /\ h.realized \in Int
      /\ h.error \in BOOLEAN /\ h \in Holdings
  BY DEF Accounted, Holdings
<1>3. PICK c \in Nat, e \in Nat :
        /\ c = Slice(h.cost, size, h) /\ e = Slice(h.fees, size, h)
        /\ c <= h.cost /\ e <= h.fees
        /\ size = h.quantity => c = h.cost /\ e = h.fees
  BY <1>2, SliceFits
<1>4. PICK b : b = Sold(h, size, price, fee)
  OBVIOUS
<1>5. b = [quantity |-> h.quantity - size, cost |-> h.cost - c, fees |-> h.fees - e,
           realized |-> h.realized + m - fee - c - e, error |-> h.error]
  BY <1>1, <1>2, <1>3, <1>4 DEF Sold
<1>6. h.quantity - size \in Nat /\ h.cost - c \in Nat /\ h.fees - e \in Nat
      /\ h.realized + m - fee - c - e \in Int
      /\ (h.quantity - size = 0 => h.cost - c = 0 /\ h.fees - e = 0)
  BY <1>2, <1>3
<1>7. b \in Holdings
  BY <1>2, <1>5, <1>6 DEF Holdings
<1>8. f \in Int /\ f = h.realized - h.cost - h.fees
  BY DEF Accounted
<1>9. /\ (f + m) - fee \in Int
      /\ (f + m) - fee = (h.realized + m - fee - c - e) - (h.cost - c) - (h.fees - e)
  BY <1>2, <1>3, <1>8
<1> QED
  BY <1>1, <1>4, <1>5, <1>6, <1>7, <1>9 DEF Accounted

LEMMA ValuationStarts == ValuationInit => ValuationInv
PROOF
<1> SUFFICES ASSUME ValuationInit PROVE ValuationInv
  OBVIOUS
<1>1. Accounted(NoHolding, 0)
  BY DEF Accounted, Holdings, NoHolding
<1>2. \A s \in Shares : market[s] \in QuoteRows
  BY ValuationAssumption DEF ValuationInit
<1>3. NoHolding \in Holdings
  BY <1>1 DEF Accounted
<1> QED
  BY <1>1, <1>2, <1>3 DEF ValuationInit, ValuationInv

LEMMA ValuationKept == ValuationInv /\ [ValuationNext]_valuationVars => ValuationInv'
PROOF
<1> SUFFICES ASSUME ValuationInv, [ValuationNext]_valuationVars PROVE ValuationInv'
  OBVIOUS
<1>1. CASE UNCHANGED valuationVars
  BY <1>1 DEF valuationVars, ValuationInv
<1>2. ASSUME NEW s \in Shares, NEW size \in TradeSizes, NEW price \in TradePrices,
             NEW fee \in TradeFees,
             ReplayBuy(s, size, price, fee) \/ ReplaySell(s, size, price, fee)
      PROVE  ValuationInv'
  <2>1. size \in Nat \ {0} /\ price \in Nat /\ fee \in Nat
    BY ValuationAssumption
  <2>2. Accounted(holding[s], flow[s]) /\ DOMAIN holding = Shares /\ DOMAIN flow = Shares
        /\ holding \in [Shares -> Holdings] /\ flow \in [Shares -> Int]
    BY DEF ValuationInv
  <2>3. PICK h, f : h = holding[s] /\ f = flow[s]
    OBVIOUS
  <2>4. h \in Holdings /\ f \in Int /\ h.quantity \in Nat
    BY <2>2, <2>3 DEF Accounted, Holdings
  <2>5. \E b, g : /\ Accounted(b, g) /\ holding' = [holding EXCEPT ![s] = b]
                  /\ flow' = [flow EXCEPT ![s] = g]
    <3>1. CASE ReplayBuy(s, size, price, fee)
      <4>1. Accounted(Bought(h, size, price, fee), (f - size * price) - fee)
        BY <2>1, <2>2, <2>3, BoughtAccounted
      <4>2. holding' = [holding EXCEPT ![s] = Bought(h, size, price, fee)]
        BY <2>3, <3>1 DEF ReplayBuy
      <4>3. flow' = [flow EXCEPT ![s] = (f - size * price) - fee]
        BY <2>3, <3>1 DEF ReplayBuy
      <4> QED
        BY <4>1, <4>2, <4>3
    <3>2. CASE ReplaySell(s, size, price, fee) /\ size > h.quantity
      <4>1. holding' = [holding EXCEPT ![s].error = TRUE] /\ UNCHANGED flow
        BY <2>3, <3>2 DEF ReplaySell
      <4>2. holding' = [holding EXCEPT ![s] = [h EXCEPT !.error = TRUE]]
        BY <2>3, <4>1
      <4>3. flow' = [flow EXCEPT ![s] = f]
        BY <2>2, <2>3, <4>1
      <4>4. PICK b : b = [h EXCEPT !.error = TRUE]
        OBVIOUS
      <4>5. b \in Holdings /\ b.quantity = h.quantity /\ b.cost = h.cost /\ b.fees = h.fees
            /\ b.realized = h.realized
        BY <2>4, <4>4 DEF Holdings
      <4>6. Accounted(b, f)
        BY <2>2, <2>3, <4>5 DEF Accounted
      <4> QED
        BY <4>2, <4>3, <4>4, <4>6
    <3>3. CASE ReplaySell(s, size, price, fee) /\ ~(size > h.quantity)
      <4>1. Accounted(Sold(h, size, price, fee), (f + size * price) - fee)
        <5>1. size <= h.quantity
          BY <2>1, <2>4, <3>3
        <5> QED
          BY <2>1, <2>2, <2>3, <5>1, SoldAccounted
      <4>2. holding' = [holding EXCEPT ![s] = Sold(h, size, price, fee)]
        BY <2>3, <3>3 DEF ReplaySell
      <4>3. flow' = [flow EXCEPT ![s] = (f + size * price) - fee]
        <5>1. flow' = [flow EXCEPT ![s] = @ + size * price - fee]
          BY <2>3, <3>3 DEF ReplaySell
        <5>2. flow[s] + size * price - fee = (f + size * price) - fee
          <6>1. PICK v \in Nat : v = size * price
            BY <2>1
          <6>2. f + (v - fee) = (f + v) - fee
            BY <2>1, <2>4
          <6>3. f = flow[s]
            BY <2>3
          <6> QED
            BY <6>1, <6>2, <6>3, Zenon
        <5>3. flow' = [flow EXCEPT ![s] = flow[s] + size * price - fee]
          BY <5>1, Zenon
        <5> QED
          BY <5>2, <5>3, Zenon
      <4>4. PICK b, g : b = Sold(h, size, price, fee) /\ g = (f + size * price) - fee
        OBVIOUS
      <4> QED
        BY <4>1, <4>2, <4>3, <4>4
    <3> QED
      BY <1>2, <3>1, <3>2, <3>3
  <2>6. UNCHANGED market
    BY <1>2 DEF ReplayBuy, ReplaySell
  <2>7. PICK b, g : /\ Accounted(b, g) /\ holding' = [holding EXCEPT ![s] = b]
                    /\ flow' = [flow EXCEPT ![s] = g]
    BY <2>5
  <2>8. \A x \in Shares : Accounted(holding'[x], flow'[x])
    <3> SUFFICES ASSUME NEW x \in Shares PROVE Accounted(holding'[x], flow'[x])
      OBVIOUS
    <3>1. CASE x = s
      BY <2>2, <2>7, <3>1
    <3>2. CASE x # s
      BY <2>2, <2>7, <3>2 DEF ValuationInv
    <3> QED
      BY <3>1, <3>2
  <2>9. holding' \in [Shares -> Holdings] /\ flow' \in [Shares -> Int]
    BY <2>2, <2>7 DEF Accounted
  <2> QED
    BY <2>6, <2>8, <2>9 DEF ValuationInv
<1> QED
  BY <1>1, <1>2 DEF ValuationNext

-----------------------------------------------------------------------------
(***************************************************************************)
(* The page.                                                               *)
(***************************************************************************)
LEMMA ShownAlike ==
    ASSUME ValuationInv, NEW s \in Shares,
           market[s].bars = <<>> \/ Head(market[s].bars).age \in 0..RecentBarsLookbackDays
    PROVE  ShownInPortfolio(s) = ShownForStock(s)
PROOF
<1> DEFINE bars == market[s].bars
           all == {i \in DOMAIN bars : TRUE}
           recent == {i \in DOMAIN bars : IsRecent(bars[i])}
<1>1. bars \in Seq(BarRows)
  BY DEF ValuationInv, QuoteRows
<1>2. FirstBar(s, IsRecent) = IF recent = {} THEN NoBar ELSE bars[Min(recent)]
  BY DEF FirstBar
<1>3. FirstBar(s, LAMBDA b : TRUE) = IF all = {} THEN NoBar ELSE bars[Min(all)]
  BY DEF FirstBar
<1>4. CASE bars = <<>>
  <2>1. recent = {} /\ all = {}
    BY <1>4
  <2> HIDE DEF recent, all
  <2> QED
    BY <1>2, <1>3, <2>1 DEF ShownInPortfolio, ShownForStock
<1>5. CASE bars # <<>>
  <2>1. 1 \in DOMAIN bars /\ Head(bars) = bars[1] /\ \A i \in DOMAIN bars : i \in Nat /\ i >= 1
    BY <1>1, <1>5
  <2>2. 1 \in recent /\ 1 \in all /\ recent \subseteq Nat /\ all \subseteq Nat
        /\ (\A i \in recent : i >= 1) /\ (\A i \in all : i >= 1)
    BY <1>5, <2>1 DEF IsRecent
  <2> HIDE DEF recent, all
  <2>3. Min(recent) \in recent /\ Min(recent) <= 1 /\ Min(all) \in all /\ Min(all) <= 1
    BY <2>2, Smallest
  <2>7. /\ Min(recent) \in Nat /\ Min(recent) >= 1
        /\ Min(all) \in Nat /\ Min(all) >= 1
    BY <2>2, <2>3
  <2>4. Min(recent) = 1 /\ Min(all) = 1
    BY <2>3, <2>7
  <2>5. FirstBar(s, IsRecent) = bars[1]
    BY <1>2, <2>2, <2>4
  <2>6. FirstBar(s, LAMBDA b : TRUE) = bars[1]
    BY <1>3, <2>2, <2>4
  <2> QED
    BY <2>5, <2>6 DEF ShownInPortfolio, ShownForStock
<1> QED
  BY <1>4, <1>5

\* The figures of a row of the page.
LEMMA RowFigures ==
    ASSUME ValuationInv, NEW s \in Shares
    PROVE  /\ Basis(s) = 10 * Cents(holding[s].cost + holding[s].fees)
           /\ Cents(holding[s].cost + holding[s].fees) \in Int /\ Basis(s) \in Int
           /\ 2 * Basis(s) - 2 * (holding[s].cost + holding[s].fees) \in -10..10
           /\ s \in Priced =>
                /\ Worth(s) = 10 * Cents(Price(s) * holding[s].quantity)
                /\ Cents(Price(s) * holding[s].quantity) \in Int /\ Worth(s) \in Nat
                /\ Unrealized(s) = Worth(s) - Basis(s)
PROOF
<1>1. holding[s] \in Holdings /\ holding[s].cost \in Nat /\ holding[s].fees \in Nat
      /\ holding[s].quantity \in Nat
  BY DEF ValuationInv, Holdings
<1>2. PICK x \in Nat : x = holding[s].cost + holding[s].fees
  BY <1>1
<1>3. Basis(s) = Money(x)
  BY <1>2 DEF Basis
<1>4. /\ Cents(x) \in Int /\ Money(x) = 10 * Cents(x) /\ Money(x) \in Int
      /\ 2 * Money(x) - 2 * x \in -10..10
  BY MoneyIs
<1>5. ASSUME s \in Priced
      PROVE  /\ Worth(s) = 10 * Cents(Price(s) * holding[s].quantity)
             /\ Cents(Price(s) * holding[s].quantity) \in Int /\ Worth(s) \in Nat
             /\ Unrealized(s) = Worth(s) - Basis(s)
  <2>1. market[s].price \in Nat
    BY <1>5 DEF Priced, ValuationInv, QuoteRows
  <2>2. PICK p \in Int : p = market[s].price /\ p >= 0
    BY <2>1
  <2>3. Price(s) = Money(p) /\ Money(p) \in Int /\ Money(p) >= 0
    BY <2>2, MoneyIs DEF Price
  <2>4. PICK y \in Int : y = Price(s) * holding[s].quantity /\ y >= 0
    <3>1. PICK a \in Nat, b \in Nat : a = Price(s) /\ b = holding[s].quantity
      BY <1>1, <2>3
    <3>2. a * b \in Nat
      OBVIOUS
    <3> QED
      BY <3>1, <3>2
  <2>5. /\ Cents(y) \in Int /\ Money(y) = 10 * Cents(y) /\ Money(y) \in Int
        /\ Money(y) >= 0 /\ Worth(s) = Money(y)
    BY <2>4, MoneyIs DEF Worth
  <2>6. PICK k \in Int : k = Cents(y) - Cents(x)
    BY <1>4, <2>5
  <2>7. Worth(s) - Basis(s) = 10 * k
    BY <1>3, <1>4, <2>5, <2>6
  <2>8. Money(10 * k) = 10 * k
    BY MoneyExact
  <2>9. Unrealized(s) = Worth(s) - Basis(s)
    BY <2>7, <2>8 DEF Unrealized
  <2> QED
    BY <2>4, <2>5, <2>9
<1> QED
  BY <1>2, <1>3, <1>4, <1>5

\* Of figures in whole cents, and of nothing else, the sum is in whole cents.
LEMMA SumOfCents ==
    ASSUME NEW S, IsFiniteSet(S), NEW f, NEW c,
           \A s \in S : c[s] \in Int /\ f[s] = 10 * c[s]
    PROVE  SumOver(c, S) \in Int /\ SumOver(f, S) = 10 * SumOver(c, S)
PROOF
<1>0. PICK one \in Int, ten \in Int, none \in Nat : one = 1 /\ ten = 10 /\ none = 0
  OBVIOUS
<1>1. \A s \in S : f[s] \in Int /\ c[s] \in Int /\ one * f[s] - ten * c[s] \in -none..none
  BY <1>0
<1>2. /\ SumOver(f, S) \in Int /\ SumOver(c, S) \in Int
      /\ one * SumOver(f, S) - ten * SumOver(c, S) \in -(none * Cardinality(S))..(none * Cardinality(S))
  BY <1>1, SumScaled
<1>3. Cardinality(S) \in Nat
  BY FS_CardinalityType
<1>4. PICK n \in Nat : n = Cardinality(S)
  BY <1>3
<1>5. none * n = 0
  BY <1>0
<1>6. one * SumOver(f, S) - ten * SumOver(c, S) \in -0..0
  BY <1>2, <1>4, <1>5
<1> QED
  BY <1>0, <1>2, <1>6
\* The allocations miss the whole by at most half a step each.
LEMMA AllocationsAddUp ==
    ASSUME NEW S, IsFiniteSet(S), NEW w, NEW n, NEW t \in Nat \ {0}, NEW all \in Nat,
           \A s \in S : w[s] \in Nat /\ n[s] = Nearest(all * w[s], t),
           SumOver(w, S) = t
    PROVE  /\ SumOver(n, S) \in Int
           /\ 2 * SumOver(n, S) - 2 * all \in -Cardinality(S)..Cardinality(S)
PROOF
<1>0. PICK k \in Int, m \in Int : k = 2 * t /\ m = 2 * all
  OBVIOUS
<1>1. ASSUME NEW s \in S PROVE w[s] \in Int /\ n[s] \in Int /\ k * n[s] - m * w[s] \in -t..t
  <2>1. PICK x \in Nat : x = w[s]
    OBVIOUS
  <2>0. PICK a \in Nat : a = all * x
    OBVIOUS
  <2>2. n[s] = Nearest(a, t)
    BY <2>0, <2>1
  <2>3. /\ Nearest(a, t) \in Nat /\ 2 * (t * Nearest(a, t)) <= 2 * a + t
        /\ 2 * (t * Nearest(a, t)) > 2 * a - t
    BY NearestIs, Zenon
  <2>4. PICK b \in Nat : b = Nearest(a, t)
    BY <2>3, Zenon
  <2>5. PICK p \in Int : p = t * b
    OBVIOUS
  <2>6. 2 * p <= 2 * a + t /\ 2 * p > 2 * a - t
    BY <2>3, <2>4, <2>5, Zenon
  <2>7. k * b = 2 * p
    <3>1. (2 * t) * b = 2 * (t * b)
      BY Distribute
    <3> QED
      BY <1>0, <2>5, <3>1, Zenon
  <2>8. m * x = 2 * a
    <3>1. (2 * all) * x = 2 * (all * x)
      BY Distribute
    <3> QED
      BY <1>0, <2>0, <3>1, Zenon
  <2>9. 2 * p - 2 * a \in -t..t
    BY <2>6
  <2>10. k * n[s] - m * w[s] = 2 * p - 2 * a
    BY <2>1, <2>2, <2>4, <2>7, <2>8, Zenon
  <2> QED
    BY <2>1, <2>2, <2>4, <2>9, <2>10
<1>12. PICK c0 \in Nat : c0 = t
  OBVIOUS
<1>13. \A s \in S : n[s] \in Int /\ w[s] \in Int /\ k * n[s] - m * w[s] \in -c0..c0
  BY <1>1, <1>12
<1>14. /\ SumOver(n, S) \in Int /\ SumOver(w, S) \in Int
       /\ k * SumOver(n, S) - m * SumOver(w, S) \in -(c0 * Cardinality(S))..(c0 * Cardinality(S))
  BY <1>13, SumScaled
<1>2. /\ SumOver(n, S) \in Int /\ SumOver(w, S) \in Int
      /\ k * SumOver(n, S) - m * SumOver(w, S) \in -(t * Cardinality(S))..(t * Cardinality(S))
  BY <1>12, <1>14
<1>3. PICK c \in Nat, u \in Int : c = Cardinality(S) /\ u = SumOver(n, S)
  BY <1>2, FS_CardinalityType
<1>4. k * u - m * t \in -(t * c)..(t * c)
  BY <1>2, <1>3
<1>5. k * u - m * t = t * (2 * u - 2 * all)
  BY <1>0
<1>15. 2 * u \in Int /\ 2 * all \in Int
  OBVIOUS
<1>16. PICK y \in Int, z \in Int : y = 2 * u /\ z = 2 * all
  BY <1>15, Zenon
<1>17. PICK v \in Int : v = y - z
  OBVIOUS
<1>6. v = 2 * u - 2 * all
  BY <1>16, <1>17, Zenon
<1>7. t * v \in Int /\ t * c \in Int /\ t * v <= t * c /\ -(t * c) <= t * v
  BY <1>4, <1>5, <1>6
<1>8. v <= c
  <2>1. ASSUME c + 1 <= v PROVE FALSE
    <3>1. t * (c + 1) <= t * v
      BY <2>1, ProductGrows
    <3>2. t * (c + 1) = t * c + t
      OBVIOUS
    <3> QED
      BY <1>7, <3>1, <3>2
  <2> QED
    BY <2>1
<1>9. -c <= v
  <2>1. ASSUME v <= -c - 1 PROVE FALSE
    <3>1. t * v <= t * (-c - 1)
      BY <2>1, ProductGrows
    <3>2. t * (-c - 1) = -(t * c) - t
      OBVIOUS
    <3> QED
      BY <1>7, <3>1, <3>2
  <2> QED
    BY <2>1
<1> QED
  BY <1>3, <1>6, <1>8, <1>9

LEMMA SumOfNaturals ==
    ASSUME NEW S, IsFiniteSet(S), NEW f, \A s \in S : f[s] \in Nat
    PROVE  SumOver(f, S) \in Nat
PROOF
<1> DEFINE T == {s \in SUBSET S : SumOver(f, s) \in Nat}
<1>1. \A s \in SUBSET S : IsFiniteSet(s) /\ \A x \in s : f[x] \in Int
  BY FS_Subset
<1>2. \A s \in SUBSET S : /\ s = {} => SumOver(f, s) = 0
                          /\ \A x \in s : SumOver(f, s) = f[x] + SumOver(f, s \ {x})
  BY <1>1, SumTake
<1>3. {} \in T
  BY <1>2
<1>4. ASSUME NEW s \in SUBSET S, s # {}, \A x \in s : s \ {x} \in T PROVE s \in T
  <2>1. PICK x \in s : TRUE
    BY <1>4
  <2>2. SumOver(f, s) = f[x] + SumOver(f, s \ {x}) /\ SumOver(f, s \ {x}) \in Nat /\ f[x] \in Nat
    BY <1>2, <1>4, <2>1
  <2> QED
    BY <2>2
<1>5. T = SUBSET S
  <2>1. T \in SUBSET SUBSET S
    OBVIOUS
  <2>2. \A s \in SUBSET S : s # {} /\ (\A x \in s : s \ {x} \in T) => s \in T
    BY <1>4
  <2> HIDE DEF T
  <2> QED
    BY <1>3, <2>1, <2>2, SubsetInduction
<1> QED
  BY <1>5

\* Figures that are each off by at most half a cent.
LEMMA SumOfRounded ==
    ASSUME NEW S, IsFiniteSet(S), NEW f, NEW g,
           \A s \in S : f[s] \in Int /\ g[s] \in Int /\ 2 * f[s] - 2 * g[s] \in -10..10
    PROVE  /\ SumOver(f, S) \in Int /\ SumOver(g, S) \in Int
           /\ 2 * SumOver(f, S) - 2 * SumOver(g, S) \in -(10 * Cardinality(S))..(10 * Cardinality(S))
PROOF
<1>1. PICK k \in Int, c \in Nat : k = 2 /\ c = 10
  OBVIOUS
<1>2. \A s \in S : f[s] \in Int /\ g[s] \in Int /\ k * f[s] - k * g[s] \in -c..c
  BY <1>1
<1>3. /\ SumOver(f, S) \in Int /\ SumOver(g, S) \in Int
      /\ k * SumOver(f, S) - k * SumOver(g, S) \in -(c * Cardinality(S))..(c * Cardinality(S))
  BY <1>2, SumScaled
<1> QED
  BY <1>1, <1>3

LEMMA SumOfNothing ==
    ASSUME NEW S, IsFiniteSet(S), NEW f, \A s \in S : f[s] = 0
    PROVE  SumOver(f, S) = 0
PROOF
<1>1. \A s \in S : f[s] \in Int /\ [x \in S |-> 0][s] \in Int /\ f[s] = 10 * [x \in S |-> 0][s]
  OBVIOUS
<1>2. PICK z : z = [x \in S |-> 0]
  OBVIOUS
<1>3. \A s \in S : z[s] \in Int /\ z[s] = 10 * z[s] /\ f[s] = 10 * z[s] /\ z[s] = f[s]
  BY <1>2
<1>4. SumOver(z, S) \in Int /\ SumOver(f, S) = 10 * SumOver(z, S)
  BY <1>3, SumOfCents
<1>5. SumOver(z, S) = SumOver(f, S)
  <2>1. \A s \in S : f[s] \in Int /\ z[s] = f[s]
    BY <1>3
  <2> QED
    BY <2>1, SumAgree
<1> QED
  BY <1>4, <1>5

LEMMA SumOfRestricted ==
    ASSUME NEW S, IsFiniteSet(S), NEW f, \A s \in S : f[s] \in Int
    PROVE  SumOver([s \in S |-> f[s]], S) = SumOver(f, S)
PROOF
<1>1. PICK g : g = [s \in S |-> f[s]]
  OBVIOUS
<1>2. \A s \in S : f[s] \in Int /\ g[s] = f[s]
  BY <1>1
<1>3. SumOver(g, S) = SumOver(f, S)
  BY <1>2, SumAgree
<1> QED
  BY <1>1, <1>3

\* The figures of the page as sums of functions: the books by their shares (R the
\* realized profit, C the cost and the fees, F the cash flow), the rows of the page
\* (B the basis, W the worth, U the unrealized profit, A the allocation).
PageSums(R, C, F, B, W, U, A) ==
    /\ \A s \in Shares :
         /\ R[s] = holding[s].realized /\ C[s] = holding[s].cost + holding[s].fees
         /\ F[s] = flow[s] /\ B[s] = Basis(s) /\ W[s] = Worth(s) /\ U[s] = Unrealized(s)
         /\ A[s] = Allocation(s)
    /\ Header.basis = SumOver(B, {s \in Shares : IsOpen(s)})
    /\ Header.worth = SumOver(W, Priced)
    /\ Header.unrealized = Money(SumOver(W, Priced) - SumOver(B, Priced))
    /\ Header.realized = Money(SumOver(R, Shares))
    /\ Total(LAMBDA s : flow[s], Shares) = SumOver(F, Shares)
    /\ Total(Worth, Priced) = SumOver(W, Priced)
    /\ Total(Unrealized, Priced) = SumOver(U, Priced)

LEMMA PageHasSums ==
    ASSUME ValuationInv
    PROVE  \E R, C, F, B, W, U, A : PageSums(R, C, F, B, W, U, A)
PROOF
<1> DEFINE open == {s \in Shares : IsOpen(s)}
<1>1. PICK R, C, F, B, W, U, A :
        /\ R = [s \in Shares |-> holding[s].realized]
        /\ C = [s \in Shares |-> holding[s].cost + holding[s].fees]
        /\ F = [s \in Shares |-> flow[s]] /\ B = [s \in Shares |-> Basis(s)]
        /\ W = [s \in Shares |-> Worth(s)] /\ U = [s \in Shares |-> Unrealized(s)]
        /\ A = [s \in Shares |-> Allocation(s)]
  OBVIOUS
<1>2. \A s \in Shares :
        /\ R[s] = holding[s].realized /\ C[s] = holding[s].cost + holding[s].fees
        /\ F[s] = flow[s] /\ B[s] = Basis(s) /\ W[s] = Worth(s) /\ U[s] = Unrealized(s)
        /\ A[s] = Allocation(s)
  BY <1>1, Zenon
<1>3. open \subseteq Shares /\ Priced \subseteq Shares /\ IsFiniteSet(Shares)
  BY ValuationAssumption DEF Priced
<1>4. IsFiniteSet(open) /\ IsFiniteSet(Priced)
  BY <1>3, FS_Subset
<1>5. \A s \in Shares :
        /\ R[s] \in Int /\ F[s] \in Int /\ B[s] \in Int
        /\ s \in Priced => W[s] \in Int /\ U[s] \in Int
  <2> SUFFICES ASSUME NEW s \in Shares
               PROVE  /\ R[s] \in Int /\ F[s] \in Int /\ B[s] \in Int
                      /\ s \in Priced => W[s] \in Int /\ U[s] \in Int
    OBVIOUS
  <2>1. Basis(s) \in Int /\ (s \in Priced => Worth(s) \in Nat /\ Unrealized(s) = Worth(s) - Basis(s))
    BY RowFigures
  <2>2. holding[s].realized \in Int /\ flow[s] \in Int
    BY DEF ValuationInv, Holdings
  <2> QED
    BY <1>2, <2>1, <2>2
<1>6. /\ [s \in open |-> Basis(s)] = [s \in open |-> B[s]]
      /\ [s \in Priced |-> Basis(s)] = [s \in Priced |-> B[s]]
      /\ [s \in Priced |-> Worth(s)] = [s \in Priced |-> W[s]]
      /\ [s \in Priced |-> Unrealized(s)] = [s \in Priced |-> U[s]]
      /\ [s \in Shares |-> holding[s].realized] = [s \in Shares |-> R[s]]
      /\ [s \in Shares |-> flow[s]] = [s \in Shares |-> F[s]]
  <2> HIDE DEF open
  <2> QED
    BY <1>2, <1>3
<1>7. /\ SumOver([s \in open |-> B[s]], open) = SumOver(B, open)
      /\ SumOver([s \in Priced |-> B[s]], Priced) = SumOver(B, Priced)
      /\ SumOver([s \in Priced |-> W[s]], Priced) = SumOver(W, Priced)
      /\ SumOver([s \in Priced |-> U[s]], Priced) = SumOver(U, Priced)
      /\ SumOver([s \in Shares |-> R[s]], Shares) = SumOver(R, Shares)
      /\ SumOver([s \in Shares |-> F[s]], Shares) = SumOver(F, Shares)
  <2> HIDE DEF open
  <2>1. PICK o, q : o = open /\ q = Priced
    OBVIOUS
  <2>2. /\ \A s \in o : B[s] \in Int
        /\ \A s \in q : B[s] \in Int /\ W[s] \in Int /\ U[s] \in Int
        /\ \A s \in Shares : R[s] \in Int /\ F[s] \in Int
        /\ IsFiniteSet(o) /\ IsFiniteSet(q)
    BY <1>3, <1>4, <1>5, <2>1
  <2>3. SumOver([s \in o |-> B[s]], o) = SumOver(B, o)
    BY <2>2, SumOfRestricted
  <2>4. SumOver([s \in q |-> B[s]], q) = SumOver(B, q)
    BY <2>2, SumOfRestricted
  <2>5. SumOver([s \in q |-> W[s]], q) = SumOver(W, q)
    BY <2>2, SumOfRestricted
  <2>6. SumOver([s \in q |-> U[s]], q) = SumOver(U, q)
    BY <2>2, SumOfRestricted
  <2>7. SumOver([s \in Shares |-> R[s]], Shares) = SumOver(R, Shares)
    BY <1>3, <2>2, SumOfRestricted
  <2>8. SumOver([s \in Shares |-> F[s]], Shares) = SumOver(F, Shares)
    BY <1>3, <2>2, SumOfRestricted
  <2> QED
    BY <2>1, <2>3, <2>4, <2>5, <2>6, <2>7, <2>8, Zenon
<1>8. /\ Total(Basis, open) = SumOver([s \in open |-> Basis(s)], open)
      /\ Total(Basis, Priced) = SumOver([s \in Priced |-> Basis(s)], Priced)
      /\ Total(Worth, Priced) = SumOver([s \in Priced |-> Worth(s)], Priced)
      /\ Total(Unrealized, Priced) = SumOver([s \in Priced |-> Unrealized(s)], Priced)
      /\ Total(LAMBDA s : holding[s].realized, Shares)
           = SumOver([s \in Shares |-> holding[s].realized], Shares)
      /\ Total(LAMBDA s : flow[s], Shares) = SumOver([s \in Shares |-> flow[s]], Shares)
  BY DEF Total, FoldFunction, SumOver
<1>9. /\ Total(Basis, open) = SumOver(B, open)
      /\ Total(Basis, Priced) = SumOver(B, Priced)
      /\ Total(Worth, Priced) = SumOver(W, Priced)
      /\ Total(Unrealized, Priced) = SumOver(U, Priced)
      /\ Total(LAMBDA s : holding[s].realized, Shares) = SumOver(R, Shares)
      /\ Total(LAMBDA s : flow[s], Shares) = SumOver(F, Shares)
  BY <1>6, <1>7, <1>8, Zenon
<1>10. /\ Header.basis = Total(Basis, open)
       /\ Header.worth = Total(Worth, Priced)
       /\ Header.unrealized = Money(Total(Worth, Priced) - Total(Basis, Priced))
       /\ Header.realized = Money(Total(LAMBDA s : holding[s].realized, Shares))
  BY DEF Header
<1>11. PageSums(R, C, F, B, W, U, A)
  BY <1>2, <1>9, <1>10, Zenon DEF PageSums
<1> QED
  BY <1>11
\* The unrealized profit of the header is that of its rows.
LEMMA UnrealizedAddsUp ==
    ASSUME ValuationInv, NEW R, NEW C, NEW F, NEW B, NEW W, NEW U, NEW A,
           PageSums(R, C, F, B, W, U, A)
    PROVE  /\ Header.unrealized = Total(Unrealized, Priced)
           /\ \A s \in Priced : W[s] \in Nat
           /\ Header.worth \in Nat
PROOF
<1>1. PICK P : P = Priced
  OBVIOUS
<1>2. P \subseteq Shares /\ IsFiniteSet(P)
  BY <1>1, ValuationAssumption, FS_Subset DEF Priced
<1>3. PICK b, w : /\ b = [s \in Shares |-> Cents(holding[s].cost + holding[s].fees)]
                  /\ w = [s \in Shares |-> Cents(Price(s) * holding[s].quantity)]
  OBVIOUS
<1>4. \A s \in P : /\ b[s] \in Int /\ B[s] = 10 * b[s] /\ w[s] \in Int /\ W[s] = 10 * w[s]
                   /\ W[s] \in Nat /\ B[s] \in Int /\ U[s] = W[s] - B[s]
  <2> SUFFICES ASSUME NEW s \in P
               PROVE  /\ b[s] \in Int /\ B[s] = 10 * b[s] /\ w[s] \in Int /\ W[s] = 10 * w[s]
                      /\ W[s] \in Nat /\ B[s] \in Int /\ U[s] = W[s] - B[s]
    OBVIOUS
  <2>1. s \in Shares /\ s \in Priced
    BY <1>1, <1>2
  <2>2. B[s] = Basis(s) /\ W[s] = Worth(s) /\ U[s] = Unrealized(s)
    BY <2>1 DEF PageSums
  <2>3. b[s] = Cents(holding[s].cost + holding[s].fees) /\ w[s] = Cents(Price(s) * holding[s].quantity)
    BY <1>3, <2>1
  <2> QED
    BY <2>1, <2>2, <2>3, RowFigures
<1>5. SumOver(b, P) \in Int /\ SumOver(B, P) = 10 * SumOver(b, P)
  <2>1. \A s \in P : b[s] \in Int /\ B[s] = 10 * b[s]
    BY <1>4
  <2> QED
    BY <1>2, <2>1, SumOfCents
<1>6. SumOver(w, P) \in Int /\ SumOver(W, P) = 10 * SumOver(w, P)
  <2>1. \A s \in P : w[s] \in Int /\ W[s] = 10 * w[s]
    BY <1>4
  <2> QED
    BY <1>2, <2>1, SumOfCents
<1>7. SumOver(U, P) = SumOver(W, P) - SumOver(B, P)
  <2>1. \A s \in P : W[s] \in Int /\ B[s] \in Int /\ U[s] = W[s] - B[s]
    BY <1>4
  <2> QED
    BY <1>2, <2>1, SumMinus
<1>8. PICK k \in Int : k = SumOver(w, P) - SumOver(b, P)
  BY <1>5, <1>6
<1>9. SumOver(W, P) - SumOver(B, P) = 10 * k
  BY <1>5, <1>6, <1>8
<1>10. Money(10 * k) = 10 * k
  BY MoneyExact
<1>11. Header.unrealized = Total(Unrealized, Priced)
  <2>1. Header.unrealized = Money(SumOver(W, P) - SumOver(B, P))
        /\ Total(Unrealized, Priced) = SumOver(U, P)
    BY <1>1 DEF PageSums
  <2> QED
    BY <1>7, <1>9, <1>10, <2>1, Zenon
<1>12. SumOver(W, P) \in Nat
  <2>1. \A s \in P : W[s] \in Nat
    BY <1>4
  <2> QED
    BY <1>2, <2>1, SumOfNaturals
<1>13. Header.worth = SumOver(W, P)
  BY <1>1 DEF PageSums
<1> QED
  BY <1>1, <1>4, <1>11, <1>12, <1>13, Zenon

LEMMA AllocationsWhole ==
    ASSUME ValuationInv, NEW R, NEW C, NEW F, NEW B, NEW W, NEW U, NEW A,
           PageSums(R, C, F, B, W, U, A), Header.worth > 0
    PROVE  2 * Total(Allocation, Priced) - 20000 \in -Cardinality(Priced)..Cardinality(Priced)
PROOF
<1>1. PICK P, t : P = Priced /\ t = Header.worth
  OBVIOUS
<1>2. P \subseteq Shares /\ IsFiniteSet(P)
  BY <1>1, ValuationAssumption, FS_Subset DEF Priced
<1>3. t \in Nat \ {0} /\ \A s \in P : W[s] \in Nat
  BY <1>1, UnrealizedAddsUp
<1>4. SumOver(W, P) = t
  BY <1>1 DEF PageSums
<1>5. PICK all \in Nat : all = 10000
  OBVIOUS
<1>6. \A s \in P : W[s] \in Nat /\ A[s] = Nearest(all * W[s], t)
  <2> SUFFICES ASSUME NEW s \in P PROVE A[s] = Nearest(all * W[s], t)
    BY <1>3
  <2>1. A[s] = Allocation(s) /\ W[s] = Worth(s)
    BY <1>2 DEF PageSums
  <2>2. Allocation(s) = Nearest(all * Worth(s), t)
    BY <1>1, <1>5 DEF Allocation
  <2> QED
    BY <2>1, <2>2, Zenon
<1>7. /\ SumOver(A, P) \in Int
      /\ 2 * SumOver(A, P) - 2 * all \in -Cardinality(P)..Cardinality(P)
  BY <1>2, <1>3, <1>4, <1>6, AllocationsAddUp
<1>8. Total(Allocation, P) = SumOver(A, P)
  <2>1. Total(Allocation, P) = SumOver([s \in P |-> Allocation(s)], P)
    BY DEF Total, FoldFunction, SumOver
  <2>2. PICK g : g = [s \in P |-> Allocation(s)]
    OBVIOUS
  <2>3. \A s \in P : A[s] \in Int /\ g[s] = A[s]
    <3> SUFFICES ASSUME NEW s \in P PROVE A[s] \in Int /\ g[s] = A[s]
      OBVIOUS
    <3>1. g[s] = A[s]
      BY <1>2, <2>2 DEF PageSums
    <3>2. PICK a \in Nat : a = all * W[s]
      BY <1>3
    <3>3. Nearest(a, t) \in Nat
      BY <1>3, NearestIs
    <3> QED
      BY <1>6, <3>1, <3>2, <3>3
  <2>4. SumOver(g, P) = SumOver(A, P)
    BY <1>2, <2>3, SumAgree
  <2> QED
    BY <2>1, <2>2, <2>4, Zenon
<1>9. 2 * all = 20000
  BY <1>5
<1> QED
  BY <1>1, <1>7, <1>8, <1>9

\* The header and the exact figures.
LEMMA HeaderNear ==
    ASSUME ValuationInv, NEW R, NEW C, NEW F, NEW B, NEW W, NEW U, NEW A,
           PageSums(R, C, F, B, W, U, A)
    PROVE  Near(Header.realized + Header.worth - Header.basis,
                Total(LAMBDA s : flow[s], Shares) + Total(Worth, Priced),
                Cardinality(Shares) + 1)
PROOF
<1>1. PICK o : o = {s \in Shares : IsOpen(s)}
  OBVIOUS
<1>2. o \subseteq Shares /\ IsFiniteSet(Shares) /\ IsFiniteSet(o)
      /\ Shares \ o \subseteq Shares /\ IsFiniteSet(Shares \ o)
  BY <1>1, ValuationAssumption, FS_Subset
<1>3. \A s \in Shares : /\ R[s] \in Int /\ C[s] \in Int /\ F[s] = R[s] - C[s] /\ B[s] \in Int
                        /\ 2 * B[s] - 2 * C[s] \in -10..10
                        /\ s \notin o => C[s] = 0
  <2> SUFFICES ASSUME NEW s \in Shares
               PROVE  /\ R[s] \in Int /\ C[s] \in Int /\ F[s] = R[s] - C[s] /\ B[s] \in Int
                      /\ 2 * B[s] - 2 * C[s] \in -10..10
                      /\ s \notin o => C[s] = 0
    OBVIOUS
  <2>1. /\ R[s] = holding[s].realized /\ C[s] = holding[s].cost + holding[s].fees
        /\ F[s] = flow[s] /\ B[s] = Basis(s)
    BY DEF PageSums
  <2>2. /\ holding[s].realized \in Int /\ holding[s].cost \in Nat /\ holding[s].fees \in Nat
        /\ holding[s].quantity \in Nat
        /\ flow[s] = holding[s].realized - holding[s].cost - holding[s].fees
        /\ holding[s].quantity = 0 => holding[s].cost = 0 /\ holding[s].fees = 0
    BY DEF ValuationInv, Accounted, Holdings
  <2>3. Basis(s) \in Int /\ 2 * Basis(s) - 2 * (holding[s].cost + holding[s].fees) \in -10..10
    BY RowFigures
  <2>4. s \notin o => holding[s].quantity = 0
    BY <1>1, <2>2 DEF IsOpen
  <2> QED
    BY <2>1, <2>2, <2>3, <2>4
<1>4. SumOver(F, Shares) = SumOver(R, Shares) - SumOver(C, Shares)
  BY <1>2, <1>3, SumMinus
<1>5. SumOver(C, Shares) = SumOver(C, o) + SumOver(C, Shares \ o)
  BY <1>2, <1>3, SumSplit
<1>6. SumOver(C, Shares \ o) = 0
  <2>1. PICK S : S = Shares \ o
    OBVIOUS
  <2>2. IsFiniteSet(S) /\ \A s \in S : C[s] = 0
    BY <1>2, <1>3, <2>1
  <2>3. SumOver(C, S) = 0
    BY <2>2, SumOfNothing
  <2> QED
    BY <2>1, <2>3
<1>7. /\ SumOver(B, o) \in Int /\ SumOver(C, o) \in Int
      /\ 2 * SumOver(B, o) - 2 * SumOver(C, o) \in -(10 * Cardinality(o))..(10 * Cardinality(o))
  <2>1. \A s \in o : B[s] \in Int /\ C[s] \in Int /\ 2 * B[s] - 2 * C[s] \in -10..10
    BY <1>2, <1>3
  <2> QED
    BY <1>2, <2>1, SumOfRounded
<1>8. SumOver(R, Shares) \in Int
  BY <1>2, <1>3, SumTake
<1>9. PICK r \in Int : r = SumOver(R, Shares)
  BY <1>8
<1>10. Money(r) \in Int /\ 2 * Money(r) - 2 * r \in -10..10
  BY MoneyIs
<1>11. Cardinality(o) \in Nat /\ Cardinality(Shares) \in Nat /\ Cardinality(o) <= Cardinality(Shares)
  BY <1>2, FS_Subset, FS_CardinalityType
<1>12. PICK m \in Int, b \in Int, c \in Int, n \in Nat, N \in Nat :
         /\ m = Money(r) /\ b = SumOver(B, o) /\ c = SumOver(C, o)
         /\ n = Cardinality(o) /\ N = Cardinality(Shares)
  BY <1>7, <1>10, <1>11
<1>13. PICK w \in Nat : w = Header.worth
  BY UnrealizedAddsUp
<1>14. /\ Header.realized = m /\ Header.basis = b /\ Total(Worth, Priced) = w
       /\ Total(LAMBDA s : flow[s], Shares) = SumOver(F, Shares)
  BY <1>1, <1>9, <1>12, <1>13, Zenon DEF PageSums
<1>15. SumOver(F, Shares) = r - c
  BY <1>4, <1>5, <1>6, <1>9, <1>12
<1>16. Total(LAMBDA s : flow[s], Shares) = r - c
  BY <1>14, <1>15, Zenon
<1>17. 2 * (m + w - b) - 2 * ((r - c) + w) \in -((N + 1) * 10)..((N + 1) * 10)
  <2>1. 2 * b - 2 * c \in -(10 * n)..(10 * n) /\ n <= N /\ 2 * m - 2 * r \in -10..10
    BY <1>7, <1>10, <1>11, <1>12
  <2> QED
    BY <2>1
<1>18. Near(m + w - b, (r - c) + w, N + 1)
  BY <1>17 DEF Near, Cent
<1> QED
  BY <1>12, <1>13, <1>14, <1>16, <1>18, Zenon

LEMMA PageHolds == ValuationInv => ProfitIsCashFlow
PROOF
<1> SUFFICES ASSUME ValuationInv PROVE ProfitIsCashFlow
  OBVIOUS
<1>1. PICK R, C, F, B, W, U, A : PageSums(R, C, F, B, W, U, A)
  BY PageHasSums
<1>2. ASSUME NEW s \in Shares
      PROVE  /\ flow[s] = holding[s].realized - holding[s].cost - holding[s].fees
             /\ ~IsOpen(s) => holding[s].cost = 0 /\ holding[s].fees = 0
  <2>1. /\ holding[s].quantity \in Nat
        /\ flow[s] = holding[s].realized - holding[s].cost - holding[s].fees
        /\ holding[s].quantity = 0 => holding[s].cost = 0 /\ holding[s].fees = 0
    BY DEF ValuationInv, Accounted, Holdings
  <2> QED
    BY <2>1 DEF IsOpen
<1>3. ASSUME NEW s \in Shares,
             market[s].bars = <<>> \/ Head(market[s].bars).age \in 0..RecentBarsLookbackDays
      PROVE  ShownInPortfolio(s) = ShownForStock(s)
  BY <1>3, ShownAlike
<1>4. Header.worth > 0 =>
        2 * Total(Allocation, Priced) - 20000 \in -Cardinality(Priced)..Cardinality(Priced)
  BY <1>1, AllocationsWhole
<1>5. Header.unrealized = Total(Unrealized, Priced)
  BY <1>1, UnrealizedAddsUp
<1>6. Near(Header.realized + Header.worth - Header.basis,
           Total(LAMBDA s : flow[s], Shares) + Total(Worth, Priced),
           Cardinality(Shares) + 1)
  BY <1>1, HeaderNear
<1> QED
  BY <1>2, <1>3, <1>4, <1>5, <1>6 DEF ProfitIsCashFlow

\* Profit is cash flow: whatever is lost to rounding, the realized profit of a share less
\* the cost still held is what its trades brought, and the page's header and allocations
\* add up to within half a cent, or half a step, for each figure in them.
THEOREM ProfitKept == ValuationSpec => []ProfitIsCashFlow
PROOF
<1>1. ValuationInit => ValuationInv
  BY ValuationStarts
<1>2. ValuationInv /\ [ValuationNext]_valuationVars => ValuationInv'
  BY ValuationKept
<1>3. ValuationInv => ProfitIsCashFlow
  BY PageHolds
<1> QED
  BY <1>1, <1>2, <1>3, PTL DEF ValuationSpec

(***************************************************************************)
(* Backtest                                                                *)
(***************************************************************************)

\* What a list holds, and the shares its orders are for.
InList(q) == {q[i] : i \in DOMAIN q}
SharesOf(q) == {q[i].stock : i \in DOMAIN q}
BuyPlaces(q) == {i \in DOMAIN q : q[i].side = "buy"}
BuySharesOf(q) == {o.stock : o \in {p \in InList(q) : p.side = "buy"}}
OneEach(q) == \A i, j \in DOMAIN q : i # j => q[i].stock # q[j].stock

LEMMA ListEmpty == InList(<<>>) = {} /\ SharesOf(<<>>) = {} /\ OneEach(<<>>)
BY DEF InList, SharesOf, OneEach

LEMMA ListAppend ==
    ASSUME NEW S, NEW q \in Seq(S), NEW o \in S
    PROVE  /\ Append(q, o) \in Seq(S)
           /\ InList(Append(q, o)) = InList(q) \cup {o}
           /\ SharesOf(Append(q, o)) = SharesOf(q) \cup {o.stock}
           /\ OneEach(q) /\ o.stock \notin SharesOf(q) => OneEach(Append(q, o))
PROOF
<1>1. PICK n \in Nat : n = Len(q)
  OBVIOUS
<1>2. PICK z : z = Append(q, o)
  OBVIOUS
<1>3. z \in Seq(S) /\ DOMAIN z = 1..(n + 1) /\ DOMAIN q = 1..n /\ z[n + 1] = o
      /\ \A i \in 1..n : z[i] = q[i]
  BY <1>1, <1>2
<1>4. \A i \in DOMAIN z : i = n + 1 \/ i \in DOMAIN q
  BY <1>3
<1>5. n + 1 \in DOMAIN z /\ \A i \in DOMAIN q : i \in DOMAIN z /\ z[i] = q[i]
  BY <1>3
<1>6. InList(z) = InList(q) \cup {o}
  BY <1>3, <1>4, <1>5 DEF InList
<1>7. SharesOf(z) = SharesOf(q) \cup {o.stock}
  BY <1>3, <1>4, <1>5 DEF SharesOf
<1>8. ASSUME OneEach(q), o.stock \notin SharesOf(q) PROVE OneEach(z)
  BY <1>3, <1>4, <1>5, <1>8 DEF OneEach, SharesOf
<1> QED
  BY <1>2, <1>3, <1>6, <1>7, <1>8

LEMMA ListTail ==
    ASSUME NEW S, NEW q \in Seq(S), q # <<>>
    PROVE  /\ Head(q) \in S /\ Tail(q) \in Seq(S)
           /\ InList(q) = InList(Tail(q)) \cup {Head(q)}
           /\ SharesOf(q) = SharesOf(Tail(q)) \cup {Head(q).stock}
           /\ OneEach(q) => OneEach(Tail(q)) /\ Head(q).stock \notin SharesOf(Tail(q))
PROOF
<1>1. PICK n \in Nat : n = Len(q)
  OBVIOUS
<1>2. PICK t, h : t = Tail(q) /\ h = Head(q)
  OBVIOUS
<1>3. n > 0 /\ h = q[1] /\ h \in S /\ t \in Seq(S) /\ DOMAIN t = 1..(n - 1) /\ DOMAIN q = 1..n
      /\ \A i \in 1..(n - 1) : t[i] = q[i + 1]
  BY <1>1, <1>2
<1>4. \A i \in DOMAIN t : i + 1 \in DOMAIN q /\ i + 1 # 1 /\ t[i] = q[i + 1]
  BY <1>3
<1>5. 1 \in DOMAIN q
  BY <1>3
<1>6. ASSUME NEW i \in DOMAIN q, i # 1 PROVE i - 1 \in DOMAIN t /\ t[i - 1] = q[i]
  BY <1>3, <1>6
<1>7. InList(q) = InList(t) \cup {h}
  BY <1>3, <1>4, <1>5, <1>6 DEF InList
<1>8. SharesOf(q) = SharesOf(t) \cup {h.stock}
  BY <1>3, <1>4, <1>5, <1>6 DEF SharesOf
<1>9. ASSUME OneEach(q) PROVE OneEach(t) /\ h.stock \notin SharesOf(t)
  <2>1. \A i \in DOMAIN t : t[i].stock # h.stock
    BY <1>3, <1>4, <1>5, <1>9 DEF OneEach
  <2>2. \A i, j \in DOMAIN t : i # j => i + 1 # j + 1
    BY <1>3
  <2>3. OneEach(t)
    BY <1>4, <1>9, <2>2 DEF OneEach
  <2> QED
    BY <2>1, <2>3 DEF SharesOf
<1> QED
  BY <1>2, <1>3, <1>7, <1>8, <1>9

LEMMA ListJoin ==
    ASSUME NEW S, NEW p \in Seq(S), NEW q \in Seq(S)
    PROVE  /\ p \o q \in Seq(S)
           /\ InList(p \o q) = InList(p) \cup InList(q)
           /\ OneEach(p) /\ OneEach(q) /\ SharesOf(p) \cap SharesOf(q) = {} => OneEach(p \o q)
PROOF
<1>1. PICK m \in Nat, n \in Nat : m = Len(p) /\ n = Len(q)
  OBVIOUS
<1>2. PICK z : z = p \o q
  OBVIOUS
<1>3. z \in Seq(S) /\ DOMAIN z = 1..(m + n) /\ DOMAIN p = 1..m /\ DOMAIN q = 1..n
      /\ \A i \in 1..(m + n) : z[i] = IF i <= m THEN p[i] ELSE q[i - m]
  BY <1>1, <1>2
<1>4. \A i \in DOMAIN p : i \in DOMAIN z /\ z[i] = p[i]
  BY <1>3
<1>5. \A i \in DOMAIN q : i + m \in DOMAIN z /\ z[i + m] = q[i]
  BY <1>3
<1>6. ASSUME NEW i \in DOMAIN z
      PROVE  (i \in DOMAIN p /\ z[i] = p[i]) \/ (i - m \in DOMAIN q /\ z[i] = q[i - m])
  BY <1>3
<1>7. InList(z) = InList(p) \cup InList(q)
  BY <1>4, <1>5, <1>6 DEF InList
<1>8. ASSUME OneEach(p), OneEach(q), SharesOf(p) \cap SharesOf(q) = {}
      PROVE  OneEach(z)
  <2> SUFFICES ASSUME NEW i \in DOMAIN z, NEW j \in DOMAIN z, i # j PROVE z[i].stock # z[j].stock
    BY DEF OneEach
  <2>1. i \in Int /\ j \in Int /\ i - m # j - m
    BY <1>3
  <2>2. \A a \in DOMAIN p, b \in DOMAIN q : p[a].stock # q[b].stock
    BY <1>8 DEF SharesOf
  <2> QED
    BY <1>6, <1>8, <2>1, <2>2 DEF OneEach
<1> QED
  BY <1>2, <1>3, <1>7, <1>8

\* Where every share has one order, the buys are as many as their shares.
LEMMA ListCounts ==
    ASSUME NEW S, NEW q \in Seq(S), OneEach(q)
    PROVE  /\ IsFiniteSet(BuyPlaces(q)) /\ IsFiniteSet(BuySharesOf(q)) /\ IsFiniteSet(SharesOf(q))
           /\ Cardinality(BuyPlaces(q)) = Cardinality(BuySharesOf(q))
PROOF
<1>1. PICK n \in Nat : n = Len(q)
  OBVIOUS
<1>2. DOMAIN q = 1..n /\ IsFiniteSet(1..n)
  BY <1>1, FS_Interval
<1>3. IsFiniteSet(BuyPlaces(q))
  <2>1. BuyPlaces(q) \in SUBSET (1..n)
    BY <1>2 DEF BuyPlaces
  <2> QED
    BY <1>2, <2>1, FS_Subset
<1> DEFINE f == [i \in BuyPlaces(q) |-> q[i].stock]
           g == [i \in DOMAIN q |-> q[i].stock]
<1>4. f \in Surjection(BuyPlaces(q), BuySharesOf(q))
  BY DEF Surjection, BuyPlaces, BuySharesOf, InList
<1>5. f \in Injection(BuyPlaces(q), BuySharesOf(q))
  <2>1. f \in [BuyPlaces(q) -> BuySharesOf(q)]
    BY <1>4 DEF Surjection
  <2>2. \A i, j \in BuyPlaces(q) : f[i] = f[j] => i = j
    BY DEF OneEach, BuyPlaces
  <2> HIDE DEF f
  <2> QED
    BY <2>1, <2>2 DEF Injection, IsInjective
<1>6. g \in Surjection(DOMAIN q, SharesOf(q))
  BY DEF Surjection, SharesOf
<1> HIDE DEF f, g
<1>7. IsFiniteSet(BuySharesOf(q)) /\ Cardinality(BuyPlaces(q)) = Cardinality(BuySharesOf(q))
  BY <1>3, <1>4, <1>5, FS_Surjection
<1>8. IsFiniteSet(SharesOf(q))
  BY <1>2, <1>6, FS_Surjection
<1> QED
  BY <1>3, <1>7, <1>8

-----------------------------------------------------------------------------

DayBars == [open : Nat \ {0}, low : Nat, close : Nat, volume : Nat, signal : BOOLEAN]
OrderRows == [stock : Universe, side : {"buy", "sell"}, signal : Nat, target : Nat, left : Int]
Stakes == [shares : Nat, entry : Nat, signal : Nat, open : Nat, paid : Int, last : Nat]
SessionsTyped == sessions \in [Universe -> SUBSET Window]

LEMMA BacktestConstants ==
    /\ LastSession \in Nat \ {0} /\ MaxPositions \in Nat \ {0} /\ EntryAttempts \in Nat \ {0}
    /\ InitialCash \in Nat /\ SizePct \in Nat /\ HoldSessions \in Nat
    /\ LiquidityPct \in Nat /\ MinVolume \in Nat
    /\ AdversePct \in 0..100 /\ FeePct \in 0..100
    /\ IsFiniteSet(Universe) /\ Bars \subseteq DayBars
BY BacktestAssumption DEF DayBars

LEMMA UniverseFinite ==
    ASSUME NEW S \in SUBSET Universe
    PROVE  IsFiniteSet(S) /\ Cardinality(S) \in Nat
BY BacktestConstants, FS_Subset, FS_CardinalityType

(***************************************************************************)
(* The next session, and the sessions between two days.                    *)
(***************************************************************************)
IsNext(n, s, day) ==
    /\ n \in Nat /\ n <= LastSession + 1
    /\ n <= LastSession => n \in sessions[s] /\ day < n
    /\ \A d \in sessions[s] : day < d => n <= d

LEMMA NextIs ==
    ASSUME SessionsTyped, NEW s \in Universe, NEW day \in Nat
    PROVE  IsNext(NextSession(s, day), s, day)
PROOF
<1> DEFINE S == {d \in sessions[s] : d > day} \cup {LastSession + 1}
<1>1. sessions[s] \subseteq 1..LastSession /\ LastSession \in Nat
  BY BacktestConstants DEF SessionsTyped, Window
<1>2. S \subseteq Nat /\ S # {}
  BY <1>1
<1>3. PICK n : n = NextSession(s, day)
  OBVIOUS
<1>4. n = Min(S)
  BY <1>3 DEF NextSession
<1>5. n \in S /\ \A y \in S : n <= y
  <2> HIDE DEF S
  <2> QED
    BY <1>2, <1>4, Smallest
<1>6. n \in Nat /\ n <= LastSession + 1
  BY <1>2, <1>5
<1>7. n <= LastSession => n \in sessions[s] /\ day < n
  BY <1>1, <1>5, <1>6
<1>8. \A d \in sessions[s] : day < d => n <= d
  BY <1>1, <1>5
<1> QED
  BY <1>3, <1>6, <1>7, <1>8 DEF IsNext

Missed(s, from, to) == {d \in sessions[s] : from < d /\ d < to}
Since(s, from, to) == {d \in sessions[s] : from < d /\ d <= to}

LEMMA MissedFinite ==
    ASSUME SessionsTyped, NEW s \in Universe, NEW a \in Nat, NEW b \in Nat
    PROVE  /\ IsFiniteSet(Missed(s, a, b)) /\ Cardinality(Missed(s, a, b)) \in Nat
           /\ IsFiniteSet(Since(s, a, b)) /\ Cardinality(Since(s, a, b)) \in Nat
PROOF
<1>1. IsFiniteSet(1..LastSession)
  BY BacktestConstants, FS_Interval
<1>2. Missed(s, a, b) \in SUBSET (1..LastSession) /\ Since(s, a, b) \in SUBSET (1..LastSession)
  BY DEF SessionsTyped, Window, Missed, Since
<1> QED
  BY <1>1, <1>2, FS_Subset, FS_CardinalityType

\* A session that was missed, or that is the one.
LEMMA MissedMore ==
    ASSUME SessionsTyped, NEW s \in Universe, NEW a \in Nat, NEW b \in sessions[s], a < b
    PROVE  /\ Cardinality(Since(s, a, b)) = Cardinality(Missed(s, a, b)) + 1
           /\ \A n : IsNext(n, s, b) /\ n <= LastSession => Missed(s, a, n) = Since(s, a, b)
PROOF
<1>1. sessions[s] \subseteq Nat /\ b \in Nat
  BY DEF SessionsTyped, Window
<1>2. Since(s, a, b) = Missed(s, a, b) \cup {b} /\ b \notin Missed(s, a, b)
  BY <1>1 DEF Since, Missed
<1>3. IsFiniteSet(Missed(s, a, b))
  BY <1>1, MissedFinite
<1>4. Cardinality(Since(s, a, b)) = Cardinality(Missed(s, a, b)) + 1
  BY <1>2, <1>3, FS_AddElement
<1>5. ASSUME NEW n, IsNext(n, s, b), n <= LastSession PROVE Missed(s, a, n) = Since(s, a, b)
  <2>1. n \in Nat /\ b < n /\ \A d \in sessions[s] : b < d => n <= d
    BY <1>5 DEF IsNext
  <2>2. ASSUME NEW d \in sessions[s] PROVE d < n <=> d <= b
    BY <1>1, <2>1
  <2> QED
    BY <2>2 DEF Missed, Since
<1> QED
  BY <1>4, <1>5

LEMMA MissedNone ==
    ASSUME SessionsTyped, NEW s \in Universe, NEW a \in Nat, NEW n, IsNext(n, s, a), n <= LastSession
    PROVE  Cardinality(Missed(s, a, n)) = 0
PROOF
<1>1. sessions[s] \subseteq Nat /\ n \in Nat /\ \A d \in sessions[s] : a < d => n <= d
  BY DEF SessionsTyped, Window, IsNext
<1>2. Missed(s, a, n) = {}
  BY <1>1 DEF Missed
<1> QED
  BY <1>2, FS_EmptySet

(***************************************************************************)
(* Money.                                                                  *)
(***************************************************************************)
LEMMA LeastOfThree ==
    ASSUME NEW a \in Int, NEW b \in Int, NEW c \in Int
    PROVE  Min({a, b, c}) \in {a, b, c} /\ Min({a, b, c}) <= b
PROOF
<1> DEFINE S == {a, b, c}
<1>1. \E x \in S : \A y \in S : x <= y
  OBVIOUS
<1>2. Min(S) \in S /\ \A y \in S : Min(S) <= y
  <2> HIDE DEF S
  <2> QED
    BY <1>1 DEF Min
<1> QED
  BY <1>2

LEMMA Quotient ==
    ASSUME NEW n \in Int, NEW m \in Nat \ {0}
    PROVE  n \div m \in Int
OBVIOUS

LEMMA Products ==
    ASSUME NEW m \in Nat, NEW n \in Nat
    PROVE  m * n \in Nat /\ (m > 0 /\ n > 0 => m * n > 0)
OBVIOUS

\* What a position brings, less what was paid for it, is its gross result less
\* the costs.
Nets(n, o, p, a, e, f) ==
    n * p * (100 - a) * (100 - f) - n * o * (100 + e) * (100 + f)
      = n * (p - o) * 10000
        - n * (o * (e * 100 + (100 + e) * f) + p * (a * 100 + (100 - a) * f))

LEMMA NetIsGross ==
    ASSUME NEW n \in Nat, NEW o \in Nat, NEW p \in Nat, NEW a \in 0..100, NEW e \in 0..100,
           NEW f \in 0..100
    PROVE  Nets(n, o, p, a, e, f)
PROOF
<1>1. (100 - a) * (100 - f) = 10000 - (a * 100 + (100 - a) * f)
  OBVIOUS
<1>2. (100 + e) * (100 + f) = 10000 + (e * 100 + (100 + e) * f)
  OBVIOUS
<1>3. PICK x \in Int, y \in Int : x = a * 100 + (100 - a) * f /\ y = e * 100 + (100 + e) * f
  OBVIOUS
<1>4. n * p * (100 - a) * (100 - f) = n * p * (10000 - x)
  <2>1. n * p * (100 - a) * (100 - f) = n * p * ((100 - a) * (100 - f))
    OBVIOUS
  <2> QED
    BY <1>1, <1>3, <2>1
<1>5. n * o * (100 + e) * (100 + f) = n * o * (10000 + y)
  <2>1. n * o * (100 + e) * (100 + f) = n * o * ((100 + e) * (100 + f))
    OBVIOUS
  <2> QED
    BY <1>2, <1>3, <2>1
<1>6. n * p * (10000 - x) - n * o * (10000 + y) = n * (p - o) * 10000 - n * (o * y + p * x)
  OBVIOUS
<1> QED
  BY <1>3, <1>4, <1>5, <1>6 DEF Nets

LEMMA ReceivedIs ==
    ASSUME NEW n \in Nat, NEW p \in Nat, NEW a \in 0..100, NEW f \in 0..100
    PROVE  n * p * (100 - a) * (100 - f) \in Nat
PROOF
<1>1. 100 - a \in Nat /\ 100 - f \in Nat
  OBVIOUS
<1>2. n * p \in Nat
  BY Products
<1>3. PICK u \in Nat, v \in Nat, w \in Nat : u = n * p /\ v = 100 - a /\ w = 100 - f
  BY <1>1, <1>2
<1>4. u * v \in Nat
  BY Products
<1>5. PICK z \in Nat : z = u * v
  BY <1>4
<1>6. z * w \in Nat
  BY Products
<1> QED
  BY <1>3, <1>5, <1>6

(***************************************************************************)
(* The invariant.                                                          *)
(***************************************************************************)
BacktestTyped ==
    /\ SessionsTyped /\ now \in Window
    /\ stage \in {"orders", "exits", "signals", "over"} /\ todo \subseteq Universe
    /\ quote \in [Universe -> DayBars]
    /\ cash \in Nat /\ position \in [Universe -> Stakes]
    /\ pending \in Seq(OrderRows) /\ kept \in Seq(OrderRows)
    /\ result \in [net : Int, gross : Int, costs : Int]

PaidOf == [s \in Universe |-> position[s].paid]

FundInv ==
    /\ cash + SumOver(PaidOf, Held) = InitialCash * 10000 + result.net
    /\ result.net = result.gross - result.costs
    /\ \A s \in Held : position[s].paid = BuyCost(position[s].shares, position[s].open)

\* A buy has been tried at the sessions since its signal but for the attempts left.
OrderGood(o) ==
    /\ o.signal <= now /\ (stage = "orders" => o.signal < now)
    /\ o.side = "buy" => /\ o.stock \notin Held /\ o.left \in 1..EntryAttempts
                         /\ o.signal < o.target /\ o.target \in sessions[o.stock]
                         /\ Cardinality(Missed(o.stock, o.signal, o.target)) = EntryAttempts - o.left
                         /\ now <= o.target
    /\ o.side = "sell" /\ stage # "over" => o.stock \in Held

OrdersGood ==
    /\ \A o \in InList(pending) \cup InList(kept) : OrderGood(o)
    /\ \A o \in InList(kept) : o.side = "buy" => now < o.target
    /\ stage # "orders" => /\ kept = <<>>
                           /\ \A o \in InList(pending) : o.side = "buy" => now < o.target

OrdersApart ==
    /\ OneEach(pending) /\ OneEach(kept) /\ SharesOf(pending) \cap SharesOf(kept) = {}

\* A share that is held or ordered takes one slot.
SlotsLeft == Cardinality(Held \cup SharesOf(pending) \cup SharesOf(kept)) <= MaxPositions

ExitsOrdered ==
    /\ \A s \in Held : position[s].entry <= now /\ position[s].entry \in sessions[s]
    /\ stage = "orders" =>
         \A s \in Held : /\ position[s].entry < now
                         /\ Cardinality(Missed(s, position[s].entry, now)) >= HoldSessions
                         => s \in SharesOf(pending) \cup SharesOf(kept)
    /\ stage = "exits" => /\ todo \subseteq Held /\ todo \cap SharesOf(pending) = {}
                          /\ \A s \in Held \ todo :
                               SessionsHeld(s) >= HoldSessions => s \in SharesOf(pending)
    /\ stage = "signals" =>
         \A s \in Held : SessionsHeld(s) >= HoldSessions => s \in SharesOf(pending)
    /\ stage = "over" => todo \subseteq Held

BacktestInv ==
    /\ BacktestTyped /\ FundInv /\ OrdersGood /\ OrdersApart /\ SlotsLeft /\ ExitsOrdered

-----------------------------------------------------------------------------
(***************************************************************************)
(* The money.                                                              *)
(***************************************************************************)
LEMMA PaidSum ==
    ASSUME BacktestTyped
    PROVE  /\ Held \subseteq Universe /\ IsFiniteSet(Held)
           /\ PaidOf \in [Universe -> Int]
           /\ OverHeld(LAMBDA s : position[s].paid) = SumOver(PaidOf, Held)
           /\ \A S \in SUBSET Universe : SumOver(PaidOf, S) \in Int
PROOF
<1> DEFINE g == [s \in Held |-> position[s].paid]
<1>1. Held \subseteq Universe
  BY DEF Held
<1>2. PaidOf \in [Universe -> Int]
  BY DEF BacktestTyped, Stakes, PaidOf
<1>3. OverHeld(LAMBDA s : position[s].paid) = SumOver(g, Held)
  BY DEF OverHeld, FoldFunction, SumOver
<1>4. \A s \in Held : PaidOf[s] \in Int /\ g[s] = PaidOf[s]
  BY <1>1, <1>2 DEF PaidOf
<1>5. IsFiniteSet(Held)
  BY <1>1, UniverseFinite
<1>6. SumOver(g, Held) = SumOver(PaidOf, Held)
  <2> HIDE DEF g
  <2>1. PICK G, F, H : G = g /\ F = PaidOf /\ H = Held
    OBVIOUS
  <2>2. IsFiniteSet(H) /\ \A s \in H : F[s] \in Int /\ G[s] = F[s]
    BY <1>4, <1>5, <2>1
  <2>3. SumOver(G, H) = SumOver(F, H)
    BY <2>2, SumAgree
  <2> QED
    BY <2>1, <2>3
<1>7. ASSUME NEW S \in SUBSET Universe PROVE SumOver(PaidOf, S) \in Int
  <2>1. PICK F : F = PaidOf
    OBVIOUS
  <2>2. IsFiniteSet(S) /\ \A s \in S : F[s] \in Int
    BY <1>2, <2>1, UniverseFinite
  <2>3. SumOver(F, S) \in Int
    BY <2>2, SumTake
  <2> QED
    BY <2>1, <2>3
<1> QED
  BY <1>1, <1>2, <1>3, <1>5, <1>6, <1>7

LEMMA CloseKeeps ==
    ASSUME BacktestTyped, FundInv, NEW s \in Universe, s \in Held, NEW price \in Nat,
           NEW adverse \in {0, AdversePct}, Close(s, price, adverse)
    PROVE  /\ cash' \in Nat /\ result' \in [net : Int, gross : Int, costs : Int]
           /\ position' \in [Universe -> Stakes] /\ Held' = Held \ {s}
           /\ \A r \in Universe : r # s => position'[r] = position[r]
           /\ FundInv'
PROOF
<1>1. PICK p : p = position[s]
  OBVIOUS
<1>2. p \in Stakes /\ p.shares > 0 /\ p.shares \in Nat /\ p.open \in Nat /\ p.paid \in Int
  BY <1>1 DEF BacktestTyped, Held, Stakes
<1>3. PICK rc, co : rc = Received(p, price, adverse) /\ co = Costs(p, price, adverse)
  OBVIOUS
<1>4. AdversePct \in 0..100 /\ FeePct \in 0..100 /\ adverse \in 0..100 /\ InitialCash \in Nat
  BY BacktestConstants
<1>5. rc \in Nat
  <2>1. PICK n \in Nat : n = p.shares
    BY <1>2
  <2>2. n * price * (100 - adverse) * (100 - FeePct) \in Nat
    BY <1>4, ReceivedIs
  <2> QED
    BY <1>3, <2>1, <2>2 DEF Received
<1>6. PICK gr \in Int : gr = p.shares * (price - p.open) * 10000
  BY <1>2
<1>7. rc - p.paid = gr - co
  <2>1. p.paid = BuyCost(p.shares, p.open)
    BY <1>1 DEF FundInv
  <2>2. PICK n \in Nat, o \in Nat : n = p.shares /\ o = p.open
    BY <1>2
  <2>3. n * price * (100 - adverse) * (100 - FeePct) - n * o * (100 + AdversePct) * (100 + FeePct)
             = n * (price - o) * 10000
               - n * (o * (AdversePct * 100 + (100 + AdversePct) * FeePct)
                      + price * (adverse * 100 + (100 - adverse) * FeePct))
    <3>1. AdversePct \in 0..100 /\ FeePct \in 0..100 /\ adverse \in 0..100
      BY <1>4
    <3>2. Nets(n, o, price, adverse, AdversePct, FeePct)
      BY <3>1, NetIsGross
    <3> QED
      BY <3>2 DEF Nets
  <2>4. rc = n * price * (100 - adverse) * (100 - FeePct)
    BY <1>3, <2>2 DEF Received
  <2>5. co = n * (o * (AdversePct * 100 + (100 + AdversePct) * FeePct)
                      + price * (adverse * 100 + (100 - adverse) * FeePct))
    BY <1>3, <2>2 DEF Costs
  <2>6. p.paid = n * o * (100 + AdversePct) * (100 + FeePct)
    BY <2>1, <2>2 DEF BuyCost
  <2>7. gr = n * (price - o) * 10000
    BY <1>6, <2>2
  <2> QED
    BY <2>3, <2>4, <2>5, <2>6, <2>7
<1>8. co \in Int
  <2>1. PICK n \in Nat, o \in Nat : n = p.shares /\ o = p.open
    BY <1>2
  <2>2. PICK x \in Int, y \in Int : /\ x = AdversePct * 100 + (100 + AdversePct) * FeePct
                                    /\ y = adverse * 100 + (100 - adverse) * FeePct
    BY <1>4
  <2>3. co = n * (o * x + price * y)
    BY <1>3, <2>1, <2>2 DEF Costs
  <2> QED
    BY <2>3
<1>9. /\ cash' = cash + rc /\ position' = [position EXCEPT ![s] = NotHeld]
      /\ result' = [net |-> result.net + rc - p.paid, gross |-> result.gross + gr,
                    costs |-> result.costs + co]
  BY <1>1, <1>3, <1>6 DEF Close
<1>10. result.net \in Int /\ result.gross \in Int /\ result.costs \in Int /\ cash \in Nat
  BY DEF BacktestTyped
<1>11. cash' \in Nat /\ result' \in [net : Int, gross : Int, costs : Int]
  BY <1>2, <1>5, <1>8, <1>9, <1>10
<1>12. NotHeld \in Stakes /\ NotHeld.shares = 0
  BY DEF NotHeld, Stakes
<1>13. /\ position' \in [Universe -> Stakes] /\ position'[s] = NotHeld
       /\ \A r \in Universe : r # s => position'[r] = position[r]
  BY <1>9, <1>12 DEF BacktestTyped
<1>14. Held' = Held \ {s}
  BY <1>12, <1>13 DEF Held
<1>15. PICK F, G, H : F = PaidOf /\ G = PaidOf' /\ H = Held
  OBVIOUS
<1>16. /\ H \subseteq Universe /\ IsFiniteSet(H) /\ F \in [Universe -> Int] /\ s \in H
       /\ F[s] = p.paid /\ SumOver(F, H) \in Int /\ SumOver(F, H \ {s}) \in Int
  <2>1. H \in SUBSET Universe /\ H \ {s} \in SUBSET Universe
    BY <1>15, PaidSum
  <2> QED
    BY <1>1, <1>15, <2>1, PaidSum DEF PaidOf
<1>17. \A r \in H \ {s} : F[r] \in Int /\ G[r] = F[r]
  BY <1>13, <1>15, <1>16 DEF PaidOf
<1>18. SumOver(F, H) = F[s] + SumOver(F, H \ {s})
  BY <1>16, SumTake
<1>19. SumOver(G, H \ {s}) = SumOver(F, H \ {s})
  <2>1. IsFiniteSet(H \ {s})
    BY <1>16, FS_RemoveElement
  <2> QED
    BY <1>17, <2>1, SumAgree
<1>20. FundInv'
  <2>1. \A r \in Held' : position'[r].paid = BuyCost(position'[r].shares, position'[r].open)
    BY <1>13, <1>14, <1>15, <1>16 DEF FundInv
  <2>2. PICK k, n, u, v, x, y, z :
          /\ k = InitialCash * 10000 /\ n = result.net /\ u = SumOver(F, H)
          /\ v = SumOver(F, H \ {s}) /\ x = p.paid /\ y = cash /\ z = result.gross
    OBVIOUS
  <2>9. k \in Int /\ n \in Int /\ u \in Int /\ v \in Int /\ x \in Int /\ y \in Nat /\ z \in Int
    BY <1>2, <1>4, <1>10, <1>16, <2>2
  <2>3. y + u = k + n
    BY <1>15, <2>2 DEF FundInv
  <2>4. u = x + v
    BY <1>16, <1>18, <2>2
  <2>5. cash' = y + rc /\ result'.net = n + rc - x /\ result'.gross = z + gr
        /\ result'.costs = result.costs + co /\ n = z - result.costs
    BY <1>9, <2>2 DEF FundInv
  <2>6. cash' + v = k + result'.net
    <3>1. PICK c, m : c = cash' /\ m = result'.net
      OBVIOUS
    <3>2. c = y + rc /\ m = n + rc - x
      BY <2>5, <3>1
    <3>3. c + v = k + m
      BY <1>5, <2>3, <2>4, <2>9, <3>2
    <3> QED
      BY <3>1, <3>3
  <2>7. result'.net = result'.gross - result'.costs
    BY <1>5, <1>7, <1>8, <1>10, <2>2, <2>5, <2>9
  <2>8. SumOver(PaidOf', Held') = v
    BY <1>14, <1>15, <1>19, <2>2
  <2> QED
    BY <2>1, <2>2, <2>6, <2>7, <2>8 DEF FundInv
<1> QED
  BY <1>11, <1>13, <1>14, <1>20

LEMMA BuyKeeps ==
    ASSUME BacktestTyped, FundInv, NEW s \in Universe, s \notin Held, NEW p \in Stakes,
           p.shares > 0, p.paid <= cash, p.paid = BuyCost(p.shares, p.open),
           position' = [position EXCEPT ![s] = p], cash' = cash - p.paid, result' = result
    PROVE  /\ cash' \in Nat /\ position' \in [Universe -> Stakes] /\ Held' = Held \cup {s}
           /\ position'[s] = p /\ \A r \in Universe : r # s => position'[r] = position[r]
           /\ FundInv'
PROOF
<1>1. p.paid \in Int /\ cash \in Nat /\ result.net \in Int /\ result.gross \in Int
      /\ result.costs \in Int
  BY DEF BacktestTyped, Stakes
<1>2. cash' \in Nat
  BY <1>1
<1>3. /\ position' \in [Universe -> Stakes] /\ position'[s] = p
      /\ \A r \in Universe : r # s => position'[r] = position[r]
  BY DEF BacktestTyped
<1>4. Held' = Held \cup {s}
  BY <1>3 DEF Held
<1>5. PICK F, G, H : F = PaidOf /\ G = PaidOf' /\ H = Held
  OBVIOUS
<1>6. /\ H \in SUBSET Universe /\ IsFiniteSet(H) /\ F \in [Universe -> Int] /\ s \notin H
      /\ SumOver(F, H) \in Int
  <2>1. H \in SUBSET Universe
    BY <1>5, PaidSum
  <2> QED
    BY <1>5, <2>1, PaidSum
<1>7. G[s] = p.paid /\ \A r \in H : F[r] \in Int /\ G[r] = F[r]
  BY <1>3, <1>5, <1>6 DEF PaidOf
<1>8. SumOver(G, H) = SumOver(F, H)
  BY <1>6, <1>7, SumAgree
<1>9. SumOver(G, H \cup {s}) = p.paid + SumOver(G, H)
  <2>1. PICK J : J = H \cup {s}
    OBVIOUS
  <2>2. IsFiniteSet(J) /\ s \in J /\ J \ {s} = H
    BY <1>6, <2>1, FS_AddElement
  <2>3. \A r \in J : G[r] \in Int
    BY <1>1, <1>7, <2>1
  <2>4. SumOver(G, J) = G[s] + SumOver(G, J \ {s})
    BY <2>2, <2>3, SumTake
  <2> QED
    BY <1>7, <2>1, <2>2, <2>4
<1>10. \A r \in Held' : position'[r].paid = BuyCost(position'[r].shares, position'[r].open)
  BY <1>3, <1>4, <1>5, <1>6 DEF FundInv
<1>11. cash' + SumOver(PaidOf', Held') = InitialCash * 10000 + result'.net
  <2>1. PICK c, u, x, k : c = cash /\ u = SumOver(F, H) /\ x = p.paid
                          /\ k = InitialCash * 10000 + result.net
    OBVIOUS
  <2>2. c \in Nat /\ u \in Int /\ x \in Int /\ c + u = k
    BY <1>1, <1>5, <1>6, <2>1 DEF FundInv
  <2>3. SumOver(PaidOf', Held') = x + u
    BY <1>4, <1>5, <1>8, <1>9, <2>1
  <2>4. (c - x) + (x + u) = c + u
    BY <2>2
  <2> QED
    BY <2>1, <2>2, <2>3, <2>4
<1>12. FundInv'
  BY <1>10, <1>11 DEF FundInv
<1> QED
  BY <1>2, <1>3, <1>4, <1>12

LEMMA SeenKeeps ==
    ASSUME BacktestTyped, FundInv, NEW s \in Universe, position' = Seen(s), cash' = cash,
           result' = result
    PROVE  /\ position' \in [Universe -> Stakes] /\ Held' = Held
           /\ \A r \in Universe : position'[r].entry = position[r].entry
           /\ FundInv'
PROOF
<1>1. PICK p, c : p = position[s] /\ c = quote[s].close
  OBVIOUS
<1>2. p \in Stakes /\ c \in Nat
  BY <1>1 DEF BacktestTyped, DayBars
<1>3. PICK z : z = [shares |-> p.shares, entry |-> p.entry, signal |-> p.signal, open |-> p.open,
                    paid |-> p.paid, last |-> c]
  OBVIOUS
<1>4. [p EXCEPT !.last = c] = z
  BY <1>2, <1>3 DEF Stakes
<1>5. position' = [position EXCEPT ![s] = z]
  BY <1>1, <1>4 DEF Seen
<1>6. z \in Stakes /\ z.shares = p.shares /\ z.entry = p.entry /\ z.open = p.open /\ z.paid = p.paid
  BY <1>2, <1>3 DEF Stakes
<1>7. /\ position' \in [Universe -> Stakes]
      /\ \A r \in Universe : /\ position'[r].shares = position[r].shares
                             /\ position'[r].entry = position[r].entry
                             /\ position'[r].open = position[r].open
                             /\ position'[r].paid = position[r].paid
  BY <1>1, <1>5, <1>6 DEF BacktestTyped
<1>8. Held' = Held /\ PaidOf' = PaidOf /\ Held \subseteq Universe
  BY <1>7 DEF Held, PaidOf
<1>9. \A r \in Held' : position'[r].paid = BuyCost(position'[r].shares, position'[r].open)
  BY <1>7, <1>8 DEF FundInv
<1>10. FundInv'
  BY <1>8, <1>9 DEF FundInv
<1> QED
  BY <1>7, <1>8, <1>10

LEMMA EquityTyped ==
    ASSUME BacktestTyped
    PROVE  Equity \in Int
PROOF
<1> DEFINE g == [s \in Held |-> position[s].shares * position[s].last * 10000]
<1>1. ASSUME NEW s \in Held PROVE g[s] \in Int
  <2>1. PICK n \in Nat, m \in Nat : n = position[s].shares /\ m = position[s].last
    BY DEF BacktestTyped, Stakes, Held
  <2>2. n * m * 10000 \in Int
    OBVIOUS
  <2> QED
    BY <2>1, <2>2
<1>2. IsFiniteSet(Held)
  BY PaidSum
<1>3. SumOver(g, Held) \in Int
  <2> HIDE DEF g
  <2>1. PICK G, H : G = g /\ H = Held
    OBVIOUS
  <2>2. IsFiniteSet(H) /\ \A s \in H : G[s] \in Int
    BY <1>1, <1>2, <2>1
  <2>3. SumOver(G, H) \in Int
    BY <2>2, SumTake
  <2> QED
    BY <2>1, <2>3
<1>4. Equity = cash + SumOver(g, Held)
  BY DEF Equity, OverHeld, FoldFunction, SumOver
<1>5. PICK u : u = SumOver(g, Held)
  OBVIOUS
<1> HIDE DEF g
<1> QED
  BY <1>3, <1>4, <1>5 DEF BacktestTyped

LEMMA BoughtIs ==
    ASSUME BacktestTyped, NEW s \in Universe
    PROVE  /\ SharesToBuy(s) \in Int
           /\ SharesToBuy(s) > 0 => SharesToBuy(s) * 100 <= quote[s].volume * LiquidityPct
PROOF
<1>1. PICK o, v : o = quote[s].open /\ v = quote[s].volume
  OBVIOUS
<1>2. o \in Nat \ {0} /\ v \in Nat /\ Equity \in Int /\ cash \in Nat
  BY <1>1, EquityTyped DEF BacktestTyped, DayBars
<1>3. AdversePct \in 0..100 /\ FeePct \in 0..100 /\ LiquidityPct \in Nat /\ SizePct \in Nat
  BY BacktestConstants
<1>4. PICK a \in Nat \ {0}, f \in Nat \ {0} : a = 100 + AdversePct /\ f = 100 + FeePct
  BY <1>3
<1>5. PICK oa \in Nat \ {0} : oa = o * a
  BY <1>2, Products
<1>6. oa * f \in Nat \ {0} /\ oa * 10000 \in Nat \ {0}
  BY Products
<1>7. PICK x, y, z : /\ x = (Equity * SizePct) \div (oa * 10000)
                     /\ y = (v * LiquidityPct) \div 100
                     /\ z = cash \div (oa * f)
  OBVIOUS
<1>8. x \in Int
  <2>1. PICK n \in Int, m \in Nat \ {0} : n = Equity * SizePct /\ m = oa * 10000
    BY <1>2, <1>3, <1>6
  <2> QED
    BY <1>7, <2>1, Quotient
<1>9. y \in Int /\ y * 100 <= v * LiquidityPct
  <2>1. PICK n \in Nat : n = v * LiquidityPct
    BY <1>2, <1>3, Products
  <2>2. n \div 100 \in Int /\ (n \div 100) * 100 <= n
    OBVIOUS
  <2> QED
    BY <1>7, <2>1, <2>2
<1>10. z \in Int
  BY <1>2, <1>6, <1>7, Quotient
<1>11. PICK w : w = Min({x, y, z})
  OBVIOUS
<1>12. w \in Int /\ w <= y
  BY <1>8, <1>9, <1>10, <1>11, LeastOfThree
<1>13. SharesToBuy(s) = IF v < MinVolume THEN 0 ELSE w
  BY <1>1, <1>4, <1>5, <1>7, <1>11 DEF SharesToBuy, Affordable
<1>14. w * 100 <= v * LiquidityPct
  <2>1. PICK n \in Nat : n = v * LiquidityPct
    BY <1>2, <1>3, Products
  <2>2. w * 100 <= n
    BY <1>9, <1>12, <2>1
  <2> QED
    BY <2>1, <2>2
<1> QED
  BY <1>1, <1>12, <1>13, <1>14

-----------------------------------------------------------------------------
(***************************************************************************)
(* The orders of the day.                                                  *)
(***************************************************************************)

\* The first order stays for a later day.
LEMMA HeadStays ==
    ASSUME BacktestInv, stage = "orders", pending # <<>>,
           NEW o \in OrderRows, o.stock = Head(pending).stock, OrderGood(o),
           o.side = "buy" => now < o.target,
           pending' = Tail(pending), kept' = Append(kept, o),
           UNCHANGED <<sessions, now, stage, todo, quote, cash, position, result>>
    PROVE  BacktestInv'
PROOF
<1>1. PICK p, k, q, z : p = pending /\ k = kept /\ q = Tail(pending) /\ z = Append(kept, o)
  OBVIOUS
<1>2. PICK h : h = Head(p)
  OBVIOUS
<1>3. p \in Seq(OrderRows) /\ k \in Seq(OrderRows) /\ p # <<>>
  BY <1>1 DEF BacktestInv, BacktestTyped
<1>4. /\ q \in Seq(OrderRows) /\ InList(p) = InList(q) \cup {h}
      /\ SharesOf(p) = SharesOf(q) \cup {o.stock}
      /\ OneEach(p) => OneEach(q) /\ o.stock \notin SharesOf(q)
  <2>1. q = Tail(p) /\ h.stock = o.stock
    BY <1>1, <1>2
  <2> QED
    BY <1>2, <1>3, <2>1, ListTail
<1>5. /\ z \in Seq(OrderRows) /\ InList(z) = InList(k) \cup {o}
      /\ SharesOf(z) = SharesOf(k) \cup {o.stock}
      /\ OneEach(k) /\ o.stock \notin SharesOf(k) => OneEach(z)
  <2>1. z = Append(k, o)
    BY <1>1
  <2> QED
    BY <1>3, <2>1, ListAppend
<1>6. pending' = q /\ kept' = z
  BY <1>1
<1>7. BacktestTyped'
  BY <1>4, <1>5, <1>6 DEF BacktestInv, BacktestTyped, SessionsTyped
<1>8. FundInv' /\ Held' = Held
  BY DEF BacktestInv, FundInv, PaidOf, Held
<1>9. \A x : OrderGood(x) <=> OrderGood(x)'
  BY <1>8 DEF OrderGood, Missed
<1>10. OrdersGood'
  <2>1. \A x \in InList(q) \cup InList(z) : OrderGood(x)'
    BY <1>1, <1>4, <1>5, <1>9 DEF BacktestInv, OrdersGood
  <2>2. \A x \in InList(z) : x.side = "buy" => now < x.target
    BY <1>1, <1>5 DEF BacktestInv, OrdersGood
  <2> QED
    BY <1>6, <2>1, <2>2 DEF OrdersGood
<1>11. OrdersApart'
  BY <1>1, <1>4, <1>5, <1>6 DEF BacktestInv, OrdersApart
<1>12. SharesOf(pending') \cup SharesOf(kept') = SharesOf(pending) \cup SharesOf(kept)
  BY <1>1, <1>4, <1>5, <1>6
<1>13. SlotsLeft'
  <2>1. Held \cup SharesOf(q) \cup SharesOf(z) = Held \cup SharesOf(p) \cup SharesOf(k)
    BY <1>4, <1>5
  <2> QED
    BY <1>1, <1>6, <1>8, <2>1 DEF BacktestInv, SlotsLeft
<1>14. ExitsOrdered'
  BY <1>8, <1>12 DEF BacktestInv, ExitsOrdered, Missed
<1> QED
  BY <1>7, <1>8, <1>10, <1>11, <1>13, <1>14 DEF BacktestInv

\* The first order goes, whether it was executed or given up.
LEMMA HeadLeaves ==
    ASSUME BacktestInv, stage = "orders", pending # <<>>,
           NEW s \in Universe, s = Head(pending).stock,
           pending' = Tail(pending), kept' = kept,
           UNCHANGED <<sessions, now, stage, todo, quote>>,
           cash' \in Nat, position' \in [Universe -> Stakes],
           result' \in [net : Int, gross : Int, costs : Int], FundInv',
           Held' = Held \cup {s} \/ Held' = Held \ {s},
           \A r \in Universe : r # s => position'[r] = position[r],
           s \in Held' => position'[s].entry = now /\ now \in sessions[s]
    PROVE  BacktestInv'
PROOF
<1>1. PICK p, k, q : p = pending /\ k = kept /\ q = Tail(pending)
  OBVIOUS
<1>2. PICK h : h = Head(p)
  OBVIOUS
<1>3. p \in Seq(OrderRows) /\ k \in Seq(OrderRows) /\ p # <<>>
  BY <1>1 DEF BacktestInv, BacktestTyped
<1>4. /\ q \in Seq(OrderRows) /\ InList(p) = InList(q) \cup {h}
      /\ SharesOf(p) = SharesOf(q) \cup {s}
      /\ OneEach(p) => OneEach(q) /\ s \notin SharesOf(q)
  <2>1. q = Tail(p) /\ h.stock = s
    BY <1>1, <1>2
  <2> QED
    BY <1>2, <1>3, <2>1, ListTail
<1>5. pending' = q /\ kept' = k
  BY <1>1
<1>6. /\ OneEach(q) /\ OneEach(k) /\ SharesOf(q) \cap SharesOf(k) = {}
      /\ s \notin SharesOf(q) /\ s \notin SharesOf(k)
  BY <1>1, <1>4 DEF BacktestInv, OrdersApart
<1>7. BacktestTyped'
  BY <1>3, <1>4, <1>5 DEF BacktestInv, BacktestTyped, SessionsTyped
<1>8. ASSUME NEW x \in InList(q) \cup InList(k) PROVE OrderGood(x)'
  <2>1. OrderGood(x)
    BY <1>1, <1>4 DEF BacktestInv, OrdersGood
  <2>2. x.stock # s
    BY <1>6 DEF InList, SharesOf
  <2>3. x.stock \in Held' <=> x.stock \in Held
    BY <2>2
  <2> QED
    BY <2>1, <2>3 DEF OrderGood, Missed
<1>9. OrdersGood'
  BY <1>1, <1>5, <1>8 DEF BacktestInv, OrdersGood
<1>10. OrdersApart'
  BY <1>5, <1>6 DEF OrdersApart
<1>11. SlotsLeft'
  <2>1. PICK A, B : /\ A = Held \cup SharesOf(p) \cup SharesOf(k)
                    /\ B = Held' \cup SharesOf(q) \cup SharesOf(k)
    OBVIOUS
  <2>2. B \in SUBSET A
    BY <1>4, <2>1
  <2>3. IsFiniteSet(A)
    <3>1. IsFiniteSet(SharesOf(p)) /\ IsFiniteSet(SharesOf(k)) /\ IsFiniteSet(Held)
      BY <1>1, <1>3, ListCounts, PaidSum DEF BacktestInv, OrdersApart
    <3> QED
      BY <2>1, <3>1, FS_Union
  <2>4. Cardinality(B) \in Nat /\ Cardinality(A) \in Nat /\ Cardinality(B) <= Cardinality(A)
    BY <2>2, <2>3, FS_Subset, FS_CardinalityType
  <2>5. Cardinality(A) <= MaxPositions
    BY <1>1, <2>1 DEF BacktestInv, SlotsLeft
  <2>6. Cardinality(B) <= MaxPositions
    BY <2>4, <2>5, BacktestConstants
  <2>7. Held' \cup SharesOf(pending') \cup SharesOf(kept') = B
    BY <1>5, <2>1
  <2> QED
    BY <2>6, <2>7 DEF SlotsLeft
<1>12. Held \subseteq Universe
  BY DEF Held
<1>13. ExitsOrdered'
  <2>1. ASSUME NEW r \in Held'
        PROVE  /\ position'[r].entry <= now /\ position'[r].entry \in sessions[r]
               /\ position'[r].entry < now
                  /\ Cardinality(Missed(r, position'[r].entry, now)) >= HoldSessions
                    => r \in SharesOf(q) \cup SharesOf(k)
    <3>1. CASE r = s
      <4>1. now \in Nat
        BY DEF BacktestInv, BacktestTyped, Window
      <4> QED
        BY <2>1, <3>1, <4>1
    <3>2. CASE r # s
      <4>1. r \in Held /\ position'[r] = position[r]
        BY <1>12, <2>1, <3>2
      <4>2. SharesOf(p) \cup SharesOf(k) = SharesOf(q) \cup SharesOf(k) \cup {s}
        BY <1>4
      <4> QED
        BY <1>1, <3>2, <4>1, <4>2 DEF BacktestInv, ExitsOrdered
    <3> QED
      BY <3>1, <3>2
  <2> QED
    BY <1>5, <2>1 DEF ExitsOrdered, Missed
<1> QED
  BY <1>7, <1>9, <1>10, <1>11, <1>13 DEF BacktestInv

LEMMA HeadIs ==
    ASSUME BacktestInv, stage = "orders", pending # <<>>
    PROVE  /\ Head(pending) \in OrderRows /\ OrderGood(Head(pending))
           /\ now \in Nat /\ now \in 1..LastSession
PROOF
<1>1. PICK p, h : p = pending /\ h = Head(p)
  OBVIOUS
<1>2. p \in Seq(OrderRows) /\ p # <<>>
  BY <1>1 DEF BacktestInv, BacktestTyped
<1>3. h \in OrderRows /\ h \in InList(p)
  BY <1>1, <1>2, ListTail
<1>4. now \in 1..LastSession
  BY DEF BacktestInv, BacktestTyped, Window
<1> QED
  BY <1>1, <1>3, <1>4 DEF BacktestInv, OrdersGood

LEMMA NotDueKeeps == ASSUME BacktestInv, NotDue PROVE BacktestInv'
PROOF
<1>1. PICK o : o = Head(pending)
  OBVIOUS
<1>2. /\ stage = "orders" /\ pending # <<>> /\ now < o.target
      /\ pending' = Tail(pending) /\ kept' = Append(kept, o)
      /\ UNCHANGED <<sessions, now, stage, todo, quote, cash, position, result>>
  BY <1>1 DEF NotDue, DuringOrders, Keep
<1>3. o \in OrderRows /\ OrderGood(o)
  BY <1>1, <1>2, HeadIs
<1> QED
  BY <1>1, <1>2, <1>3, HeadStays

LEMMA NotTradableKeeps == ASSUME BacktestInv, NotTradable PROVE BacktestInv'
PROOF
<1>1. PICK o, s, d, next : o = Head(pending) /\ s = o.stock /\ d = now /\ next = NextSession(o.stock, now)
  OBVIOUS
<1>2. PICK tried, later : tried = [o EXCEPT !.left = @ - 1] /\ later = [tried EXCEPT !.target = next]
  OBVIOUS
<1>3. /\ stage = "orders" /\ pending # <<>> /\ d >= o.target /\ pending' = Tail(pending)
      /\ UNCHANGED <<sessions, now, stage, todo, quote, cash, position, result>>
      /\ IF next <= LastSession /\ tried.left > 0 THEN kept' = Append(kept, later)
         ELSE IF o.side = "buy" THEN kept' = kept ELSE kept' = Append(kept, tried)
  BY <1>1, <1>2 DEF NotTradable, DuringOrders, Keep, Drop
<1>4. o \in OrderRows /\ OrderGood(o) /\ d \in Nat
  BY <1>1, <1>3, HeadIs
<1>5. s \in Universe /\ SessionsTyped
  BY <1>1, <1>4 DEF OrderRows, BacktestInv, BacktestTyped
<1>6. IsNext(next, s, d)
  BY <1>1, <1>4, <1>5, NextIs
<1>7. next \in Nat
  BY <1>6 DEF IsNext
<1>8. /\ tried \in OrderRows /\ tried.stock = s /\ tried.side = o.side /\ tried.signal = o.signal
      /\ tried.left = o.left - 1 /\ tried.target = o.target
  BY <1>1, <1>2, <1>4 DEF OrderRows
<1>9. /\ later \in OrderRows /\ later.stock = s /\ later.side = o.side /\ later.signal = o.signal
      /\ later.left = o.left - 1 /\ later.target = next
  BY <1>2, <1>7, <1>8 DEF OrderRows
<1>10. CASE next <= LastSession /\ tried.left > 0
  <2>1. ASSUME o.side = "buy"
        PROVE  /\ later.left \in 1..EntryAttempts /\ o.signal < next /\ next \in sessions[s]
               /\ Cardinality(Missed(s, o.signal, next)) = EntryAttempts - later.left
               /\ d < next
    <3>1. /\ o.left \in 1..EntryAttempts /\ o.signal < o.target /\ o.target \in sessions[s]
          /\ Cardinality(Missed(s, o.signal, o.target)) = EntryAttempts - o.left
          /\ d <= o.target
      BY <1>1, <1>4, <2>1 DEF OrderGood
    <3>2. o.target \in Nat /\ o.signal \in Nat /\ o.target = d
      BY <1>3, <1>4, <3>1 DEF OrderRows
    <3>3. next \in sessions[s] /\ d < next
      BY <1>6, <1>10 DEF IsNext
    <3>4. PICK a \in Nat : a = o.signal
      BY <3>2
    <3>5. /\ Cardinality(Since(s, a, d)) = Cardinality(Missed(s, a, d)) + 1
          /\ Missed(s, a, next) = Since(s, a, d)
      BY <1>5, <1>6, <1>10, <3>1, <3>2, <3>4, MissedMore
    <3>6. PICK l \in 1..EntryAttempts : l = o.left
      BY <3>1
    <3>7. EntryAttempts \in Nat /\ l - 1 > 0
      BY <1>8, <1>10, <3>6, BacktestConstants
    <3>8. Cardinality(Missed(s, a, next)) = EntryAttempts - (l - 1)
      BY <3>1, <3>2, <3>4, <3>5, <3>6, <3>7
    <3>9. l - 1 \in 1..EntryAttempts
      BY <3>7
    <3>10. a < next
      BY <3>1, <3>2, <3>3, <3>4, <1>7
    <3> QED
      BY <1>9, <3>3, <3>4, <3>6, <3>8, <3>9, <3>10
  <2>2. OrderGood(later)
    <3>1. later.side = "buy" => now <= later.target
      BY <1>1, <1>4, <1>7, <1>9, <2>1
    <3> QED
      BY <1>1, <1>4, <1>9, <2>1, <3>1 DEF OrderGood
  <2>3. later.side = "buy" => now < later.target
    BY <1>1, <1>9, <2>1
  <2>4. later.stock = Head(pending).stock /\ kept' = Append(kept, later)
    BY <1>1, <1>3, <1>9, <1>10
  <2> QED
    BY <1>3, <1>9, <2>2, <2>3, <2>4, HeadStays
<1>11. CASE ~(next <= LastSession /\ tried.left > 0) /\ o.side = "buy"
  <2>1. s \notin Held
    BY <1>1, <1>4, <1>11 DEF OrderGood
  <2>2. Held' = Held \ {s} /\ FundInv'
    BY <1>3, <2>1 DEF Held, BacktestInv, FundInv, PaidOf
  <2>3. cash' \in Nat /\ position' \in [Universe -> Stakes]
        /\ result' \in [net : Int, gross : Int, costs : Int]
    BY <1>3 DEF BacktestInv, BacktestTyped
  <2>4. s = Head(pending).stock /\ kept' = kept /\ s \notin Held'
        /\ \A r \in Universe : r # s => position'[r] = position[r]
    BY <1>1, <1>3, <1>11, <2>2
  <2> QED
    BY <1>3, <1>5, <2>2, <2>3, <2>4, HeadLeaves
<1>12. CASE ~(next <= LastSession /\ tried.left > 0) /\ o.side # "buy"
  <2>1. OrderGood(tried)
    BY <1>1, <1>4, <1>8, <1>12 DEF OrderGood
  <2>2. tried.stock = Head(pending).stock /\ kept' = Append(kept, tried) /\ tried.side # "buy"
    BY <1>1, <1>3, <1>8, <1>12
  <2> QED
    BY <1>3, <1>8, <2>1, <2>2, HeadStays
<1> QED
  BY <1>10, <1>11, <1>12

LEMMA BuyFills == ASSUME BacktestInv, Buy PROVE BacktestInv' /\ \A r \in Universe : FillIsCausal(r)
PROOF
<1>1. PICK o, s, d, p : o = Head(pending) /\ s = o.stock /\ d = now /\ p = Opened(o.stock, o)
  OBVIOUS
<1>2. /\ stage = "orders" /\ pending # <<>> /\ d >= o.target /\ o.side = "buy" /\ Trades(s)
      /\ pending' = Tail(pending) /\ kept' = kept
      /\ UNCHANGED <<sessions, now, stage, todo, quote, result>>
      /\ IF p.shares > 0 /\ p.paid <= cash
           THEN position' = [position EXCEPT ![s] = p] /\ cash' = cash - p.paid
           ELSE UNCHANGED <<position, cash>>
  BY <1>1 DEF Buy, DuringOrders, Drop
<1>3. o \in OrderRows /\ OrderGood(o) /\ d \in Nat
  BY <1>1, <1>2, HeadIs
<1>4. s \in Universe /\ SessionsTyped /\ BacktestTyped /\ FundInv /\ o.signal \in Nat /\ o.target \in Nat
  BY <1>1, <1>3 DEF OrderRows, BacktestInv, BacktestTyped
<1>5. /\ s \notin Held /\ o.left \in 1..EntryAttempts /\ o.signal < o.target /\ o.target \in sessions[s]
      /\ Cardinality(Missed(s, o.signal, o.target)) = EntryAttempts - o.left /\ o.target = d
      /\ o.signal < d
  <2>1. d <= o.target
    BY <1>1, <1>2, <1>3 DEF OrderGood
  <2>2. o.target = d
    BY <1>2, <1>3, <1>4, <2>1
  <2> QED
    BY <1>1, <1>2, <1>3, <2>2 DEF OrderGood
<1>6. d \in sessions[s] /\ quote[s].volume > 0
  BY <1>1, <1>2 DEF Trades
<1>7. position[s].shares = 0
  BY <1>4, <1>5 DEF Held, BacktestTyped, Stakes
<1>8. ASSUME NEW r \in Universe, position'[r] = position[r] PROVE FillIsCausal(r)
  <2>1. position[r].shares \in Nat
    BY <1>4 DEF BacktestTyped, Stakes
  <2> QED
    BY <1>8, <2>1 DEF FillIsCausal
<1>9. CASE p.shares > 0 /\ p.paid <= cash
  <2>1. PICK n, q : n = SharesToBuy(s) /\ q = quote[s]
    OBVIOUS
  <2>2. p = [shares |-> n, entry |-> d, signal |-> o.signal, open |-> q.open,
             paid |-> BuyCost(n, q.open), last |-> q.close]
    BY <1>1, <2>1 DEF Opened
  <2>3. q \in DayBars
    BY <1>4, <2>1 DEF BacktestTyped
  <2>4. n \in Nat /\ n > 0 /\ n * 100 <= q.volume * LiquidityPct
    BY <1>4, <1>9, <2>1, <2>2, BoughtIs
  <2>5. BuyCost(n, q.open) \in Int
    <3>1. PICK x \in Nat : x = q.open
      BY <2>3 DEF DayBars
    <3>2. AdversePct \in 0..100 /\ FeePct \in 0..100
      BY BacktestConstants
    <3>3. n * x * (100 + AdversePct) * (100 + FeePct) \in Int
      BY <2>4, <3>2
    <3> QED
      BY <3>1, <3>3 DEF BuyCost
  <2>6. p \in Stakes /\ p.paid = BuyCost(p.shares, p.open)
    BY <1>3, <1>4, <2>2, <2>3, <2>4, <2>5 DEF Stakes, DayBars
  <2>7. position' = [position EXCEPT ![s] = p] /\ cash' = cash - p.paid /\ result' = result
    BY <1>2, <1>9
  <2>8. /\ cash' \in Nat /\ position' \in [Universe -> Stakes] /\ Held' = Held \cup {s}
        /\ position'[s] = p /\ \A r \in Universe : r # s => position'[r] = position[r]
        /\ FundInv'
    BY <1>4, <1>5, <1>9, <2>6, <2>7, BuyKeeps
  <2>9. result' \in [net : Int, gross : Int, costs : Int]
    BY <1>4, <2>7 DEF BacktestTyped
  <2>10. position'[s].entry = now /\ now \in sessions[s] /\ s = Head(pending).stock
    BY <1>1, <1>6, <2>2, <2>8
  <2>11. BacktestInv'
    BY <1>2, <1>4, <2>8, <2>9, <2>10, HeadLeaves
  <2>12. FillIsCausal(s)
    <3>1. PICK a \in Nat : a = o.signal
      BY <1>4
    <3>2. Cardinality(Since(s, a, d)) = Cardinality(Missed(s, a, d)) + 1
      BY <1>4, <1>5, <3>1, MissedMore
    <3>3. PICK l \in 1..EntryAttempts : l = o.left
      BY <1>5
    <3>4. Cardinality(Missed(s, a, d)) = EntryAttempts - l /\ EntryAttempts \in Nat
      BY <1>5, <3>1, <3>3, BacktestConstants
    <3>5. Cardinality(Since(s, a, d)) \in 1..EntryAttempts
      BY <3>2, <3>4
    <3>6. p.signal = a /\ p.shares = n
      BY <2>2, <3>1
    <3>7. position'[s].signal = a /\ position'[s].shares = n /\ a < now /\ d = now
      BY <1>1, <1>5, <2>8, <3>1, <3>6
    <3>8. Cardinality({e \in sessions[s] : position'[s].signal < e /\ e <= now}) \in 1..EntryAttempts
      BY <3>5, <3>7 DEF Since
    <3>9. n * 100 <= quote[s].volume * LiquidityPct
      BY <2>1, <2>4
    <3>10. ~(position[s].shares > 0)
      BY <1>7
    <3> QED
      BY <1>6, <3>7, <3>8, <3>9, <3>10 DEF FillIsCausal
  <2> QED
    BY <1>8, <2>8, <2>11, <2>12
<1>10. CASE ~(p.shares > 0 /\ p.paid <= cash)
  <2>1. position' = position /\ cash' = cash
    BY <1>2, <1>10
  <2>2. Held' = Held \ {s} /\ FundInv'
    BY <1>2, <1>4, <1>5, <2>1 DEF Held, FundInv, PaidOf
  <2>3. cash' \in Nat /\ position' \in [Universe -> Stakes]
        /\ result' \in [net : Int, gross : Int, costs : Int]
    BY <1>2, <1>4, <2>1 DEF BacktestTyped
  <2>4. s = Head(pending).stock /\ s \notin Held'
        /\ \A r \in Universe : r # s => position'[r] = position[r]
    BY <1>1, <2>1, <2>2
  <2>5. BacktestInv'
    BY <1>2, <1>4, <2>2, <2>3, <2>4, HeadLeaves
  <2> QED
    BY <1>8, <2>1, <2>5
<1> QED
  BY <1>9, <1>10

LEMMA SellFills == ASSUME BacktestInv, Sell PROVE BacktestInv' /\ \A r \in Universe : FillIsCausal(r)
PROOF
<1>1. PICK o, s, c : o = Head(pending) /\ s = o.stock /\ c = quote[o.stock].open
  OBVIOUS
<1>2. /\ stage = "orders" /\ pending # <<>> /\ o.side = "sell" /\ Trades(s)
      /\ Close(s, c, AdversePct) /\ pending' = Tail(pending) /\ kept' = kept
      /\ UNCHANGED <<sessions, now, stage, todo, quote>>
  BY <1>1 DEF Sell, DuringOrders, Drop
<1>3. o \in OrderRows /\ OrderGood(o)
  BY <1>1, <1>2, HeadIs
<1>4. s \in Universe /\ BacktestTyped /\ FundInv /\ s \in Held /\ o.signal < now
  BY <1>1, <1>2, <1>3 DEF OrderRows, BacktestInv, OrderGood
<1>5. c \in Nat
  BY <1>1, <1>4 DEF BacktestTyped, DayBars
<1>6. PICK adverse : adverse = AdversePct
  OBVIOUS
<1>7. adverse \in {0, AdversePct} /\ Close(s, c, adverse)
  BY <1>2, <1>6
<1>8. /\ cash' \in Nat /\ result' \in [net : Int, gross : Int, costs : Int]
      /\ position' \in [Universe -> Stakes] /\ Held' = Held \ {s}
      /\ \A r \in Universe : r # s => position'[r] = position[r]
      /\ FundInv'
  BY <1>4, <1>5, <1>7, CloseKeeps
<1>9. BacktestInv'
  <2>1. s = Head(pending).stock /\ s \notin Held'
    BY <1>1, <1>8
  <2> QED
    BY <1>2, <1>4, <1>8, <2>1, HeadLeaves
<1>10. ASSUME NEW r \in Universe PROVE FillIsCausal(r)
  <2>1. CASE r = s
    <3>1. position[s].shares > 0 /\ position[s].shares \in Nat
      BY <1>4 DEF Held, BacktestTyped, Stakes
    <3> QED
      BY <1>1, <1>2, <1>4, <2>1, <3>1 DEF FillIsCausal, Trades
  <2>2. CASE r # s
    <3>1. position'[r] = position[r] /\ position[r].shares \in Nat
      BY <1>4, <1>8, <2>2 DEF BacktestTyped, Stakes
    <3> QED
      BY <3>1 DEF FillIsCausal
  <2> QED
    BY <2>1, <2>2
<1> QED
  BY <1>9, <1>10

LEMMA EndOrdersKeeps == ASSUME BacktestInv, EndOrders PROVE BacktestInv'
PROOF
<1>1. /\ stage = "orders" /\ pending = <<>> /\ pending' = kept /\ kept' = <<>> /\ stage' = "exits"
      /\ todo' = {s \in Held : now \in sessions[s]
                               /\ \A i \in DOMAIN kept : kept[i].stock # s \/ kept[i].side # "sell"}
      /\ UNCHANGED <<sessions, now, quote, cash, position, result>>
  BY DEF EndOrders
<1>2. PICK k, e : k = kept /\ e = pending
  OBVIOUS
<1>3. e = <<>> /\ pending' = k /\ kept' = e
  BY <1>1, <1>2
<1>4. Held \subseteq Universe /\ Held' = Held /\ FundInv'
  BY <1>1 DEF Held, BacktestInv, FundInv, PaidOf
<1>5. BacktestTyped'
  BY <1>1, <1>4 DEF BacktestInv, BacktestTyped, SessionsTyped
<1>6. InList(e) = {} /\ SharesOf(e) = {} /\ OneEach(e)
  BY <1>3, ListEmpty
<1>7. \A x \in InList(k) : OrderGood(x) /\ (x.side = "buy" => now < x.target)
  BY <1>2 DEF BacktestInv, OrdersGood
<1>8. OrdersGood'
  <2>1. \A x \in InList(k) : OrderGood(x)'
    BY <1>1, <1>4, <1>7 DEF OrderGood, Missed
  <2> QED
    BY <1>1, <1>3, <1>6, <1>7, <2>1 DEF OrdersGood
<1>9. OrdersApart'
  BY <1>2, <1>3, <1>6 DEF BacktestInv, OrdersApart
<1>10. SlotsLeft'
  <2>1. Held \cup SharesOf(e) \cup SharesOf(k) = Held \cup SharesOf(k) \cup SharesOf(e)
    OBVIOUS
  <2> QED
    BY <1>2, <1>3, <1>4, <2>1 DEF BacktestInv, SlotsLeft
<1>11. ASSUME NEW s \in Held, s \notin todo', SessionsHeld(s) >= HoldSessions
       PROVE  s \in SharesOf(k)
  <2>1. CASE now \in sessions[s]
    <3>1. PICK i \in DOMAIN k : k[i].stock = s /\ k[i].side = "sell"
      BY <1>1, <1>2, <1>11, <2>1
    <3> QED
      BY <3>1 DEF SharesOf
  <2>2. CASE now \notin sessions[s]
    <3>1. PICK a : a = position[s].entry
      OBVIOUS
    <3>2. a \in sessions[s] /\ a <= now /\ a # now
      BY <2>2, <3>1 DEF BacktestInv, ExitsOrdered
    <3>3. sessions[s] \subseteq Nat /\ now \in Nat
      BY <1>4 DEF BacktestInv, BacktestTyped, SessionsTyped, Window
    <3>4. a < now
      BY <3>2, <3>3
    <3>5. Missed(s, a, now) = {d \in sessions[s] : a < d /\ d <= now}
      BY <2>2, <3>3 DEF Missed
    <3>6. Cardinality(Missed(s, a, now)) >= HoldSessions
      BY <1>11, <3>1, <3>5 DEF SessionsHeld
    <3>7. s \in SharesOf(pending) \cup SharesOf(kept)
      BY <1>1, <3>1, <3>4, <3>6 DEF BacktestInv, ExitsOrdered
    <3> QED
      BY <1>2, <1>6, <3>7
  <2> QED
    BY <2>1, <2>2
<1>12. ASSUME NEW s \in todo' PROVE s \notin SharesOf(k)
  <2> SUFFICES ASSUME NEW i \in DOMAIN k, k[i].stock = s PROVE FALSE
    BY DEF SharesOf
  <2>1. k[i].side # "sell" /\ s \in Held
    BY <1>1, <1>2, <1>12
  <2>2. k[i] \in InList(k) /\ k[i] \in OrderRows
    BY <1>2 DEF InList, BacktestInv, BacktestTyped
  <2>3. k[i].side = "buy" /\ OrderGood(k[i])
    BY <1>7, <2>1, <2>2 DEF OrderRows
  <2> QED
    BY <2>1, <2>3 DEF OrderGood
<1>13. ExitsOrdered'
  <2>1. todo' \subseteq Held /\ todo' \cap SharesOf(k) = {}
    BY <1>1, <1>12
  <2>2. \A s \in Held \ todo' : SessionsHeld(s)' >= HoldSessions => s \in SharesOf(k)
    BY <1>1, <1>11 DEF SessionsHeld
  <2>3. \A s \in Held : position[s].entry <= now /\ position[s].entry \in sessions[s]
    BY DEF BacktestInv, ExitsOrdered
  <2> QED
    BY <1>1, <1>3, <1>4, <2>1, <2>2, <2>3 DEF ExitsOrdered
<1> QED
  BY <1>4, <1>5, <1>8, <1>9, <1>10, <1>13 DEF BacktestInv

-----------------------------------------------------------------------------
(***************************************************************************)
(* The exits.                                                              *)
(***************************************************************************)
LEMMA HoldKeeps == ASSUME BacktestInv, NEW s \in Universe, Hold(s) PROVE BacktestInv'
PROOF
<1>1. /\ stage = "exits" /\ s \in todo /\ ~MustLeave(s) /\ position' = Seen(s) /\ todo' = todo \ {s}
      /\ cash' = cash /\ result' = result
      /\ UNCHANGED <<sessions, now, stage, quote, pending, kept>>
  BY DEF Hold
<1>2. /\ position' \in [Universe -> Stakes] /\ Held' = Held /\ FundInv'
      /\ \A r \in Universe : position'[r].entry = position[r].entry
  BY <1>1, SeenKeeps DEF BacktestInv
<1>3. BacktestTyped'
  BY <1>1, <1>2 DEF BacktestInv, BacktestTyped, SessionsTyped
<1>4. OrdersGood'
  <2>1. \A x : OrderGood(x) <=> OrderGood(x)'
    BY <1>1, <1>2 DEF OrderGood, Missed
  <2> QED
    BY <1>1, <2>1 DEF BacktestInv, OrdersGood
<1>5. OrdersApart' /\ SlotsLeft'
  BY <1>1, <1>2 DEF BacktestInv, OrdersApart, SlotsLeft
<1>6. ExitsOrdered'
  <2>1. Held \subseteq Universe
    BY DEF Held
  <2>2. \A r \in Held : SessionsHeld(r)' = SessionsHeld(r)
    BY <1>1, <1>2, <2>1 DEF SessionsHeld
  <2>3. ~(SessionsHeld(s) >= HoldSessions)
    BY <1>1 DEF MustLeave
  <2>4. \A r \in Held \ todo' : SessionsHeld(r)' >= HoldSessions => r \in SharesOf(pending)
    BY <1>1, <2>2, <2>3 DEF BacktestInv, ExitsOrdered
  <2>5. \A r \in Held : position'[r].entry <= now /\ position'[r].entry \in sessions[r]
    BY <1>2, <2>1 DEF BacktestInv, ExitsOrdered
  <2>6. todo' \subseteq Held /\ todo' \cap SharesOf(pending) = {}
    BY <1>1 DEF BacktestInv, ExitsOrdered
  <2> QED
    BY <1>1, <1>2, <2>4, <2>5, <2>6 DEF ExitsOrdered
<1> QED
  BY <1>2, <1>3, <1>4, <1>5, <1>6 DEF BacktestInv

LEMMA OrderExitKeeps == ASSUME BacktestInv, NEW s \in Universe, OrderExit(s) PROVE BacktestInv'
PROOF
<1>1. PICK d, n, m : d = now /\ n = NextSession(s, now) /\ m = 10000
  OBVIOUS
<1>2. PICK o : o = [stock |-> s, side |-> "sell", signal |-> d, target |-> n, left |-> m]
  OBVIOUS
<1>3. /\ stage = "exits" /\ s \in todo /\ position' = Seen(s) /\ todo' = todo \ {s}
      /\ pending' = Append(pending, o) /\ cash' = cash /\ result' = result
      /\ UNCHANGED <<sessions, now, stage, quote, kept>>
  BY <1>1, <1>2 DEF OrderExit
<1>4. now \in Nat
  BY DEF BacktestInv, BacktestTyped, Window
<1>5. /\ o \in OrderRows /\ o.stock = s /\ o.side = "sell" /\ o.signal = now
  <2>1. d \in Nat
    BY <1>1, <1>4
  <2>2. IsNext(NextSession(s, d), s, d)
    BY <2>1, NextIs DEF BacktestInv, BacktestTyped
  <2>3. n \in Nat
    BY <1>1, <2>2 DEF IsNext
  <2> QED
    BY <1>1, <1>2, <2>1, <2>3 DEF OrderRows
<1>6. PICK p, z : p = pending /\ z = Append(pending, o)
  OBVIOUS
<1>7. p \in Seq(OrderRows) /\ z = Append(p, o)
  BY <1>6 DEF BacktestInv, BacktestTyped
<1>8. /\ z \in Seq(OrderRows) /\ InList(z) = InList(p) \cup {o} /\ SharesOf(z) = SharesOf(p) \cup {s}
      /\ OneEach(p) /\ s \notin SharesOf(p) => OneEach(z)
  BY <1>5, <1>7, ListAppend
<1>9. pending' = z
  BY <1>3, <1>6
<1>10. /\ s \in Held /\ s \notin SharesOf(p) /\ kept = <<>> /\ SharesOf(kept) = {}
  BY <1>3, <1>6, ListEmpty DEF BacktestInv, ExitsOrdered, OrdersGood
<1>11. /\ position' \in [Universe -> Stakes] /\ Held' = Held /\ FundInv'
       /\ \A r \in Universe : position'[r].entry = position[r].entry
  BY <1>3, SeenKeeps DEF BacktestInv
<1>12. BacktestTyped'
  BY <1>3, <1>8, <1>9, <1>11 DEF BacktestInv, BacktestTyped, SessionsTyped
<1>13. OrdersGood'
  <2>1. \A x : OrderGood(x) <=> OrderGood(x)'
    BY <1>3, <1>11 DEF OrderGood, Missed
  <2>2. OrderGood(o)
    BY <1>3, <1>4, <1>5, <1>10 DEF OrderGood
  <2>3. InList(kept) = {}
    BY <1>10, ListEmpty
  <2>4. \A x \in InList(z) : OrderGood(x)' /\ (x.side = "buy" => now < x.target)
    BY <1>3, <1>5, <1>6, <1>8, <2>1, <2>2 DEF BacktestInv, OrdersGood
  <2> QED
    BY <1>3, <1>9, <1>10, <2>3, <2>4 DEF OrdersGood
<1>14. OrdersApart'
  BY <1>3, <1>6, <1>8, <1>9, <1>10 DEF BacktestInv, OrdersApart
<1>15. SlotsLeft'
  <2>1. Held \cup SharesOf(z) \cup SharesOf(kept) = Held \cup SharesOf(p) \cup SharesOf(kept)
    BY <1>8, <1>10
  <2> QED
    BY <1>3, <1>6, <1>9, <1>11, <2>1 DEF BacktestInv, SlotsLeft
<1>16. ExitsOrdered'
  <2>1. Held \subseteq Universe
    BY DEF Held
  <2>2. \A r \in Held : SessionsHeld(r)' = SessionsHeld(r)
    BY <1>3, <1>11, <2>1 DEF SessionsHeld
  <2>3. \A r \in Held \ todo' : SessionsHeld(r)' >= HoldSessions => r \in SharesOf(z)
    BY <1>3, <1>6, <1>8, <2>2 DEF BacktestInv, ExitsOrdered
  <2>4. \A r \in Held : position'[r].entry <= now /\ position'[r].entry \in sessions[r]
    BY <1>11, <2>1 DEF BacktestInv, ExitsOrdered
  <2>5. todo' \subseteq Held /\ todo' \cap SharesOf(z) = {}
    BY <1>3, <1>6, <1>8 DEF BacktestInv, ExitsOrdered
  <2> QED
    BY <1>3, <1>9, <1>11, <2>3, <2>4, <2>5 DEF ExitsOrdered
<1> QED
  BY <1>11, <1>12, <1>13, <1>14, <1>15, <1>16 DEF BacktestInv

\* A position that is closed outside an order, at the day's close or at the end.
LEMMA ClosedKeeps ==
    ASSUME BacktestInv, NEW s \in Universe, NEW price \in Nat, Close(s, price, 0),
           stage \in {"exits", "over"}, s \in todo, todo' = todo \ {s},
           UNCHANGED <<sessions, now, stage, quote, pending, kept>>
    PROVE  BacktestInv'
PROOF
<1>1. s \in Held /\ Held \subseteq Universe /\ kept = <<>>
  BY DEF BacktestInv, ExitsOrdered, OrdersGood, Held
<1>2. PICK adverse : adverse = 0
  OBVIOUS
<1>3. adverse \in {0, AdversePct} /\ Close(s, price, adverse)
  BY <1>2
<1>4. /\ cash' \in Nat /\ result' \in [net : Int, gross : Int, costs : Int]
      /\ position' \in [Universe -> Stakes] /\ Held' = Held \ {s}
      /\ \A r \in Universe : r # s => position'[r] = position[r]
      /\ FundInv'
  BY <1>1, <1>3, CloseKeeps DEF BacktestInv
<1>5. BacktestTyped'
  BY <1>4 DEF BacktestInv, BacktestTyped, SessionsTyped
<1>6. ASSUME NEW x \in InList(pending), OrderGood(x) PROVE OrderGood(x)'
  <2>1. ASSUME stage # "over" PROVE x.stock # s
    <3>1. s \notin SharesOf(pending)
      BY <2>1 DEF BacktestInv, ExitsOrdered
    <3> QED
      BY <3>1 DEF InList, SharesOf
  <2> QED
    BY <1>4, <1>6, <2>1 DEF OrderGood, Missed
<1>7. OrdersGood'
  <2>1. InList(kept) = {}
    BY <1>1, ListEmpty
  <2> QED
    BY <1>1, <1>6, <2>1 DEF BacktestInv, OrdersGood
<1>8. OrdersApart'
  BY DEF BacktestInv, OrdersApart
<1>9. SlotsLeft'
  <2>1. PICK A, B, p, k : /\ p = pending /\ k = kept
                          /\ A = Held \cup SharesOf(p) \cup SharesOf(k)
                          /\ B = Held' \cup SharesOf(p) \cup SharesOf(k)
    OBVIOUS
  <2>2. B \in SUBSET A
    BY <1>4, <2>1
  <2>3. IsFiniteSet(A)
    <3>1. p \in Seq(OrderRows) /\ k \in Seq(OrderRows) /\ OneEach(p) /\ OneEach(k)
      BY <2>1 DEF BacktestInv, BacktestTyped, OrdersApart
    <3>2. IsFiniteSet(SharesOf(p)) /\ IsFiniteSet(SharesOf(k)) /\ IsFiniteSet(Held)
      BY <3>1, ListCounts, PaidSum DEF BacktestInv
    <3> QED
      BY <2>1, <3>2, FS_Union
  <2>4. Cardinality(B) \in Nat /\ Cardinality(A) \in Nat /\ Cardinality(B) <= Cardinality(A)
    BY <2>2, <2>3, FS_Subset, FS_CardinalityType
  <2>5. Cardinality(A) <= MaxPositions
    BY <2>1 DEF BacktestInv, SlotsLeft
  <2>6. Cardinality(B) <= MaxPositions
    BY <2>4, <2>5, BacktestConstants
  <2>7. Held' \cup SharesOf(pending') \cup SharesOf(kept') = B
    BY <2>1
  <2> QED
    BY <2>6, <2>7 DEF SlotsLeft
<1>10. ExitsOrdered'
  <2>1. \A r \in Held' : r \in Held /\ position'[r] = position[r]
    BY <1>1, <1>4
  <2>2. \A r \in Held' : SessionsHeld(r)' = SessionsHeld(r)
    BY <2>1 DEF SessionsHeld
  <2>3. stage = "exits" =>
          \A r \in Held' \ todo' : SessionsHeld(r)' >= HoldSessions => r \in SharesOf(pending)
    BY <1>4, <2>1, <2>2 DEF BacktestInv, ExitsOrdered
  <2>4. \A r \in Held' : position'[r].entry <= now /\ position'[r].entry \in sessions[r]
    BY <2>1 DEF BacktestInv, ExitsOrdered
  <2>5. todo' \subseteq Held' /\ (stage = "exits" => todo' \cap SharesOf(pending) = {})
    BY <1>4 DEF BacktestInv, ExitsOrdered
  <2> QED
    BY <2>3, <2>4, <2>5 DEF ExitsOrdered
<1> QED
  BY <1>4, <1>5, <1>7, <1>8, <1>9, <1>10 DEF BacktestInv

-----------------------------------------------------------------------------
(***************************************************************************)
(* The signals, and the days.                                              *)
(***************************************************************************)

\* The slots that are taken, by shares and by orders.
LEMMA SlotsAre ==
    ASSUME BacktestInv, NEW q \in Seq(OrderRows), OneEach(q),
           \A o \in InList(q) : OrderGood(o)
    PROVE  /\ Held \cap BuySharesOf(q) = {}
           /\ IsFiniteSet(Held \cup BuySharesOf(q))
           /\ Cardinality(Held \cup BuySharesOf(q)) = Cardinality(Held) + Cardinality(BuyPlaces(q))
           /\ Cardinality(Held) + Cardinality(BuyPlaces(q)) \in Nat
PROOF
<1>1. Held \cap BuySharesOf(q) = {}
  BY DEF OrderGood, BuySharesOf
<1>2. PICK H, B : H = Held /\ B = BuySharesOf(q)
  OBVIOUS
<1>3. /\ IsFiniteSet(H) /\ IsFiniteSet(B) /\ IsFiniteSet(BuyPlaces(q))
      /\ Cardinality(BuyPlaces(q)) = Cardinality(B)
  BY <1>2, PaidSum, ListCounts DEF BacktestInv
<1>4. Cardinality(H) \in Nat /\ Cardinality(B) \in Nat
  BY <1>3, FS_CardinalityType
<1>5. /\ IsFiniteSet(H \cup B)
      /\ Cardinality(H \cup B) = Cardinality(H) + Cardinality(B) - Cardinality(H \cap B)
  BY <1>3, FS_Union
<1>6. Cardinality(H \cap B) = 0
  BY <1>1, <1>2, FS_EmptySet
<1> QED
  BY <1>1, <1>2, <1>3, <1>4, <1>5, <1>6

LEMMA OrderEntryKeeps == ASSUME BacktestInv, NEW s \in Universe, OrderEntry(s) PROVE BacktestInv'
PROOF
<1>1. PICK d, n, m : d = now /\ n = NextSession(s, now) /\ m = EntryAttempts
  OBVIOUS
<1>2. PICK o : o = [stock |-> s, side |-> "buy", signal |-> d, target |-> n, left |-> m]
  OBVIOUS
<1>3. /\ stage = "signals" /\ todo' = todo \ {s}
      /\ pending' = IF ~Wanted(s) THEN pending ELSE Append(pending, o)
      /\ UNCHANGED <<sessions, now, stage, quote, cash, position, kept, result>>
  BY <1>1, <1>2 DEF OrderEntry
<1>4. Held' = Held /\ FundInv' /\ \A x : OrderGood(x) <=> OrderGood(x)'
  BY <1>3 DEF Held, BacktestInv, FundInv, PaidOf, OrderGood, Missed
<1>5. \A r \in Held : SessionsHeld(r)' = SessionsHeld(r)
  BY <1>3 DEF SessionsHeld
<1>6. CASE ~Wanted(s)
  <2>1. pending' = pending
    BY <1>3, <1>6
  <2>2. BacktestTyped'
    BY <1>3, <2>1 DEF BacktestInv, BacktestTyped, SessionsTyped
  <2>3. OrdersGood'
    BY <1>3, <1>4, <2>1 DEF BacktestInv, OrdersGood
  <2>4. OrdersApart' /\ SlotsLeft'
    BY <1>3, <1>4, <2>1 DEF BacktestInv, OrdersApart, SlotsLeft
  <2>5. ExitsOrdered'
    BY <1>3, <1>4, <1>5, <2>1 DEF BacktestInv, ExitsOrdered
  <2> QED
    BY <1>4, <2>2, <2>3, <2>4, <2>5 DEF BacktestInv
<1>7. CASE Wanted(s)
  <2>1. d \in Nat
    BY <1>1 DEF BacktestInv, BacktestTyped, Window
  <2>2. IsNext(n, s, d) /\ n <= LastSession
    BY <1>1, <1>7, <2>1, NextIs DEF BacktestInv, BacktestTyped, Wanted
  <2>3. n \in Nat /\ n \in sessions[s] /\ d < n /\ m \in Nat \ {0}
    BY <1>1, <2>2, BacktestConstants DEF IsNext
  <2>4. Cardinality(Missed(s, d, n)) = 0
    BY <2>1, <2>2, MissedNone DEF BacktestInv, BacktestTyped
  <2>5. o \in OrderRows /\ o.stock = s /\ o.side = "buy" /\ o.signal = d /\ o.target = n /\ o.left = m
    BY <1>2, <2>1, <2>3 DEF OrderRows
  <2>6. s \notin Held /\ SlotsTaken < MaxPositions
        /\ \A i \in PendingBuys : pending[i].stock # s
    BY <1>7 DEF Wanted
  <2>7. OrderGood(o)
    <3>1. m \in 1..EntryAttempts /\ m - m = 0 /\ EntryAttempts - m = 0
      BY <1>1, <2>3
    <3>2. d <= d /\ d <= n
      BY <2>1, <2>3
    <3> QED
      BY <1>1, <1>3, <2>3, <2>4, <2>5, <2>6, <3>1, <3>2 DEF OrderGood
  <2>8. PICK p, z, k : p = pending /\ z = Append(p, o) /\ k = kept
    OBVIOUS
  <2>9. p \in Seq(OrderRows) /\ pending' = z /\ k = <<>> /\ kept' = k /\ OneEach(p)
    BY <1>3, <1>7, <2>8 DEF BacktestInv, BacktestTyped, OrdersGood, OrdersApart
  <2>10. /\ z \in Seq(OrderRows) /\ InList(z) = InList(p) \cup {o} /\ SharesOf(z) = SharesOf(p) \cup {s}
         /\ s \notin SharesOf(p) => OneEach(z)
    BY <2>5, <2>8, <2>9, ListAppend
  <2>11. InList(k) = {} /\ SharesOf(k) = {} /\ OneEach(k)
    BY <2>9, ListEmpty
  <2>12. \A x \in InList(p) : x \in OrderRows /\ OrderGood(x) /\ (x.side = "buy" => now < x.target)
    BY <1>3, <2>8, <2>9 DEF BacktestInv, OrdersGood, InList
  <2>13. s \notin SharesOf(p)
    <3> SUFFICES ASSUME NEW i \in DOMAIN p, p[i].stock = s PROVE FALSE
      BY DEF SharesOf
    <3>1. p[i] \in InList(p)
      BY DEF InList
    <3>2. p[i].side # "buy"
      BY <2>6, <2>8 DEF PendingBuys
    <3> QED
      BY <1>3, <2>6, <2>12, <3>1, <3>2 DEF OrderGood, OrderRows
  <2>14. BacktestTyped'
    BY <1>3, <2>9, <2>10 DEF BacktestInv, BacktestTyped, SessionsTyped
  <2>15. OrdersGood'
    <3>1. \A x \in InList(z) : OrderGood(x)' /\ (x.side = "buy" => now < x.target)
      BY <1>1, <1>4, <2>3, <2>5, <2>7, <2>10, <2>12
    <3> QED
      BY <1>3, <2>9, <2>11, <3>1 DEF OrdersGood
  <2>16. OrdersApart'
    BY <2>9, <2>10, <2>11, <2>13 DEF OrdersApart
  <2>17. SlotsLeft'
    <3>1. PICK H, B : H = Held /\ B = BuySharesOf(p)
      OBVIOUS
    <3>2. /\ IsFiniteSet(H \cup B) /\ Cardinality(H \cup B) \in Nat
          /\ Cardinality(H \cup B) = Cardinality(Held) + Cardinality(BuyPlaces(p))
      BY <2>9, <2>12, <3>1, SlotsAre
    <3>3. SlotsTaken = Cardinality(H \cup B)
      BY <2>8, <3>2 DEF SlotsTaken, PendingBuys, BuyPlaces
    <3>4. H \cup SharesOf(p) = H \cup B
      <4>1. ASSUME NEW x \in SharesOf(p), x \notin H PROVE x \in B
        <5>1. PICK i \in DOMAIN p : p[i].stock = x
          BY DEF SharesOf
        <5>2. p[i] \in InList(p)
          BY DEF InList
        <5>3. p[i].side = "buy"
          BY <1>3, <2>12, <3>1, <4>1, <5>1, <5>2 DEF OrderGood, OrderRows
        <5> QED
          BY <3>1, <5>1, <5>2, <5>3 DEF BuySharesOf
      <4>2. B \subseteq SharesOf(p)
        BY <3>1 DEF BuySharesOf, InList, SharesOf
      <4> QED
        BY <4>1, <4>2
    <3>5. Cardinality((H \cup B) \cup {s}) \in {Cardinality(H \cup B), Cardinality(H \cup B) + 1}
      BY <3>2, FS_AddElement
    <3>6. Cardinality((H \cup B) \cup {s}) <= MaxPositions
      BY <2>6, <3>2, <3>3, <3>5, BacktestConstants
    <3>7. Held \cup SharesOf(z) \cup SharesOf(k) = (H \cup B) \cup {s}
      BY <2>10, <2>11, <3>1, <3>4
    <3> QED
      BY <1>4, <2>9, <3>6, <3>7 DEF SlotsLeft
  <2>18. ExitsOrdered'
    <3>1. \A r \in Held : SessionsHeld(r) >= HoldSessions => r \in SharesOf(z)
      BY <1>3, <2>8, <2>10 DEF BacktestInv, ExitsOrdered
    <3>2. \A r \in Held : position[r].entry <= now /\ position[r].entry \in sessions[r]
      BY DEF BacktestInv, ExitsOrdered
    <3> QED
      BY <1>3, <1>4, <1>5, <2>9, <3>1, <3>2 DEF ExitsOrdered
  <2> QED
    BY <1>4, <2>14, <2>15, <2>16, <2>17, <2>18 DEF BacktestInv
<1> QED
  BY <1>6, <1>7

LEMMA StagesKeep == ASSUME BacktestInv, EndExits \/ EndWindow PROVE BacktestInv'
PROOF
<1>1. /\ UNCHANGED <<sessions, now, quote, cash, position, pending, kept, result>>
      /\ \/ stage = "exits" /\ todo = {} /\ stage' = "signals" /\ todo' \subseteq Universe
         \/ stage = "signals" /\ stage' = "over" /\ todo' = Held
  BY DEF EndExits, EndWindow
<1>2. Held' = Held /\ FundInv' /\ Held \subseteq Universe
  BY <1>1 DEF Held, BacktestInv, FundInv, PaidOf
<1>3. BacktestTyped'
  BY <1>1, <1>2 DEF BacktestInv, BacktestTyped, SessionsTyped
<1>4. \A x : OrderGood(x) => OrderGood(x)'
  BY <1>1, <1>2 DEF OrderGood, Missed
<1>5. OrdersGood'
  BY <1>1, <1>4 DEF BacktestInv, OrdersGood
<1>6. OrdersApart' /\ SlotsLeft'
  BY <1>1, <1>2 DEF BacktestInv, OrdersApart, SlotsLeft
<1>7. \A r \in Held : SessionsHeld(r)' = SessionsHeld(r)
  BY <1>1 DEF SessionsHeld
<1>8. ExitsOrdered'
  <2>1. stage' = "signals" =>
          \A r \in Held : SessionsHeld(r)' >= HoldSessions => r \in SharesOf(pending)
    BY <1>1, <1>7 DEF BacktestInv, ExitsOrdered
  <2>2. \A r \in Held : position[r].entry <= now /\ position[r].entry \in sessions[r]
    BY DEF BacktestInv, ExitsOrdered
  <2> QED
    BY <1>1, <1>2, <2>1, <2>2 DEF ExitsOrdered
<1> QED
  BY <1>2, <1>3, <1>5, <1>6, <1>8 DEF BacktestInv

LEMMA BarsTyped ==
    ASSUME NEW d \in Nat
    PROVE  BarsOf(d) \subseteq [Universe -> DayBars]
PROOF
<1>1. NoBarToday \in DayBars
  BY DEF NoBarToday, DayBars
<1> QED
  BY <1>1, BacktestConstants DEF BarsOf

LEMMA EndDayKeeps == ASSUME BacktestInv, EndDay PROVE BacktestInv'
PROOF
<1>1. /\ stage = "signals" /\ todo = {} /\ now < LastSession /\ now' = now + 1 /\ stage' = "orders"
      /\ quote' \in BarsOf(now + 1)
      /\ UNCHANGED <<sessions, todo, cash, position, pending, kept, result>>
  BY DEF EndDay
<1>2. PICK d \in Nat : d = now
  BY DEF BacktestInv, BacktestTyped, Window
<1>3. d + 1 \in 1..LastSession /\ now' = d + 1
  BY <1>1, <1>2, BacktestConstants
<1>4. quote' \in [Universe -> DayBars]
  BY <1>1, <1>2, BarsTyped
<1>5. Held' = Held /\ FundInv' /\ Held \subseteq Universe
  BY <1>1 DEF Held, BacktestInv, FundInv, PaidOf
<1>6. BacktestTyped'
  BY <1>1, <1>3, <1>4 DEF BacktestInv, BacktestTyped, SessionsTyped, Window
<1>7. kept = <<>> /\ InList(kept) = {} /\ SharesOf(kept) = {}
  BY <1>1, ListEmpty DEF BacktestInv, OrdersGood
<1>8. ASSUME NEW x \in InList(pending) PROVE OrderGood(x)'
  <2>1. /\ x \in OrderRows /\ OrderGood(x) /\ (x.side = "buy" => d < x.target)
    BY <1>1, <1>2, <1>8 DEF BacktestInv, OrdersGood, InList, BacktestTyped
  <2>2. PICK a \in Nat, b \in Nat : a = x.signal /\ b = x.target
    BY <2>1 DEF OrderRows
  <2>3. a <= d
    BY <1>2, <2>1, <2>2 DEF OrderGood
  <2>4. a <= d + 1 /\ a < d + 1 /\ (x.side = "buy" => d + 1 <= b)
    BY <2>1, <2>2, <2>3
  <2>5. x.signal <= now' /\ x.signal < now' /\ (x.side = "buy" => now' <= x.target)
    BY <1>3, <2>2, <2>4
  <2> QED
    BY <1>1, <1>5, <2>1, <2>5 DEF OrderGood, Missed
<1>9. OrdersGood'
  BY <1>1, <1>7, <1>8 DEF OrdersGood
<1>10. OrdersApart' /\ SlotsLeft'
  BY <1>1, <1>5 DEF BacktestInv, OrdersApart, SlotsLeft
<1>11. ExitsOrdered'
  <2>1. ASSUME NEW s \in Held
        PROVE  /\ position[s].entry <= d + 1 /\ position[s].entry \in sessions[s]
               /\ Cardinality(Missed(s, position[s].entry, d + 1)) >= HoldSessions
                    => s \in SharesOf(pending)
    <3>1. PICK a : a = position[s].entry
      OBVIOUS
    <3>2. sessions[s] \subseteq Nat
      BY <1>5 DEF BacktestInv, BacktestTyped, SessionsTyped, Window
    <3>3. a <= d /\ a \in sessions[s] /\ a \in Nat
      BY <1>2, <3>1, <3>2 DEF BacktestInv, ExitsOrdered
    <3>4. Missed(s, a, d + 1) = {e \in sessions[s] : a < e /\ e <= d}
      BY <3>2 DEF Missed
    <3>5. Cardinality(Missed(s, a, d + 1)) = SessionsHeld(s)
      BY <1>2, <3>1, <3>4 DEF SessionsHeld
    <3>6. SessionsHeld(s) >= HoldSessions => s \in SharesOf(pending)
      BY <1>1 DEF BacktestInv, ExitsOrdered
    <3> QED
      BY <3>1, <3>3, <3>5, <3>6
  <2> QED
    BY <1>1, <1>3, <1>5, <2>1 DEF ExitsOrdered, Missed
<1> QED
  BY <1>5, <1>6, <1>9, <1>10, <1>11 DEF BacktestInv

LEMMA LeavesKeep ==
    ASSUME BacktestInv, NEW s \in Universe, LeaveAtClose(s) \/ CloseRest(s)
    PROVE  BacktestInv'
PROOF
<1>1. quote[s].close \in Nat /\ position[s].last \in Nat
  BY DEF BacktestInv, BacktestTyped, DayBars, Stakes
<1>2. PICK price \in Nat : Close(s, price, 0)
  BY <1>1 DEF LeaveAtClose, CloseRest
<1>3. /\ stage \in {"exits", "over"} /\ s \in todo /\ todo' = todo \ {s}
      /\ UNCHANGED <<sessions, now, stage, quote, pending, kept>>
  BY DEF LeaveAtClose, CloseRest
<1> QED
  BY <1>2, <1>3, ClosedKeeps

LEMMA BacktestStarts == BacktestInit => BacktestInv
PROOF
<1> SUFFICES ASSUME BacktestInit PROVE BacktestInv
  OBVIOUS
<1>1. /\ sessions \in [Universe -> SUBSET Window] /\ now = 1 /\ stage = "orders" /\ todo = {}
      /\ quote \in BarsOf(1) /\ cash = InitialCash * 10000
      /\ position = [s \in Universe |-> NotHeld] /\ pending = <<>> /\ kept = <<>>
      /\ result = [net |-> 0, gross |-> 0, costs |-> 0]
  BY DEF BacktestInit
<1>2. PICK d \in Nat : d = 1
  OBVIOUS
<1>3. quote \in [Universe -> DayBars]
  BY <1>1, <1>2, BarsTyped
<1>4. NotHeld \in Stakes /\ NotHeld.shares = 0
  BY DEF NotHeld, Stakes
<1>5. Held = {}
  BY <1>1, <1>4 DEF Held
<1>6. BacktestTyped
  <2>1. now \in Window /\ cash \in Nat
    BY <1>1, BacktestConstants DEF Window
  <2>2. position \in [Universe -> Stakes] /\ pending \in Seq(OrderRows) /\ kept \in Seq(OrderRows)
    BY <1>1, <1>4
  <2> QED
    BY <1>1, <1>3, <2>1, <2>2 DEF BacktestTyped, SessionsTyped
<1>7. FundInv
  <2>1. PICK F, H : F = PaidOf /\ H = Held
    OBVIOUS
  <2>2. H = {} /\ IsFiniteSet(H)
    BY <1>5, <2>1, FS_EmptySet
  <2>3. SumOver(F, H) = 0
    BY <2>2, SumTake
  <2>4. InitialCash * 10000 \in Nat
    BY BacktestConstants
  <2>5. PICK m \in Nat : m = InitialCash * 10000
    BY <2>4
  <2>6. cash = m /\ SumOver(PaidOf, Held) = 0
    BY <1>1, <2>1, <2>3, <2>5
  <2>7. result.net = 0 /\ result.gross = 0 /\ result.costs = 0
    BY <1>1
  <2> QED
    BY <1>5, <2>5, <2>6, <2>7 DEF FundInv
<1>8. InList(pending) = {} /\ InList(kept) = {} /\ SharesOf(pending) = {} /\ SharesOf(kept) = {}
      /\ OneEach(pending) /\ OneEach(kept)
  BY <1>1, ListEmpty
<1>9. OrdersGood /\ OrdersApart
  BY <1>1, <1>8 DEF OrdersGood, OrdersApart
<1>10. SlotsLeft
  <2>1. Held \cup SharesOf(pending) \cup SharesOf(kept) = {}
    BY <1>5, <1>8
  <2> QED
    BY <2>1, FS_EmptySet, BacktestConstants DEF SlotsLeft
<1>11. ExitsOrdered
  BY <1>1, <1>5 DEF ExitsOrdered
<1> QED
  BY <1>6, <1>7, <1>9, <1>10, <1>11 DEF BacktestInv

\* Where no position changes nothing was filled.
LEMMA NothingFilled ==
    ASSUME BacktestInv, position' = position
    PROVE  \A r \in Universe : FillIsCausal(r)
PROOF
<1> SUFFICES ASSUME NEW r \in Universe PROVE FillIsCausal(r)
  OBVIOUS
<1>1. PICK n \in Nat : n = position[r].shares
  BY DEF BacktestInv, BacktestTyped, Stakes
<1>2. position'[r].shares = n
  BY <1>1
<1> QED
  BY <1>1, <1>2 DEF FillIsCausal

LEMMA BacktestKept ==
    BacktestInv /\ [BacktestNext]_backtestVars =>
      BacktestInv' /\ (stage = "orders" => \A s \in Universe : FillIsCausal(s))
PROOF
<1> SUFFICES ASSUME BacktestInv, [BacktestNext]_backtestVars
             PROVE  BacktestInv' /\ (stage = "orders" => \A s \in Universe : FillIsCausal(s))
  OBVIOUS
<1>1. CASE UNCHANGED backtestVars
  <2>1. /\ sessions' = sessions /\ now' = now /\ stage' = stage /\ todo' = todo /\ quote' = quote
        /\ cash' = cash /\ position' = position /\ pending' = pending /\ kept' = kept
        /\ result' = result
    BY <1>1 DEF backtestVars
  <2>2. BacktestTyped'
    BY <2>1 DEF BacktestInv, BacktestTyped, SessionsTyped
  <2>3. FundInv'
    BY <2>1 DEF BacktestInv, FundInv, PaidOf, Held
  <2>4. OrdersGood'
    BY <2>1 DEF BacktestInv, OrdersGood, OrderGood, Missed, Held
  <2>5. OrdersApart' /\ SlotsLeft'
    BY <2>1 DEF BacktestInv, OrdersApart, SlotsLeft, Held
  <2>6. ExitsOrdered'
    BY <2>1 DEF BacktestInv, ExitsOrdered, SessionsHeld, Missed, Held
  <2> QED
    BY <2>1, <2>2, <2>3, <2>4, <2>5, <2>6, NothingFilled DEF BacktestInv
<1>2. CASE NotDue
  BY <1>2, NotDueKeeps, NothingFilled DEF NotDue
<1>3. CASE NotTradable
  BY <1>3, NotTradableKeeps, NothingFilled DEF NotTradable
<1>4. CASE Buy
  BY <1>4, BuyFills
<1>5. CASE Sell
  BY <1>5, SellFills
<1>6. CASE EndOrders
  BY <1>6, EndOrdersKeeps, NothingFilled DEF EndOrders
<1>7. CASE EndExits \/ EndWindow
  BY <1>7, StagesKeep DEF EndExits, EndWindow
<1>8. CASE EndDay
  BY <1>8, EndDayKeeps DEF EndDay
<1>9. ASSUME NEW s \in Universe, Hold(s) \/ OrderExit(s) \/ LeaveAtClose(s) \/ OrderEntry(s) \/ CloseRest(s)
      PROVE  BacktestInv' /\ stage # "orders"
  <2>1. stage # "orders"
    BY <1>9 DEF Hold, OrderExit, LeaveAtClose, OrderEntry, CloseRest
  <2>2. CASE Hold(s)
    BY <2>1, <2>2, HoldKeeps
  <2>3. CASE OrderExit(s)
    BY <2>1, <2>3, OrderExitKeeps
  <2>4. CASE LeaveAtClose(s) \/ CloseRest(s)
    BY <2>1, <2>4, LeavesKeep
  <2>5. CASE OrderEntry(s)
    BY <2>1, <2>5, OrderEntryKeeps
  <2> QED
    BY <1>9, <2>2, <2>3, <2>4, <2>5
<1> QED
  BY <1>1, <1>2, <1>3, <1>4, <1>5, <1>6, <1>7, <1>8, <1>9 DEF BacktestNext

LEMMA FundAddsUp == BacktestInv => FundBalances
PROOF
<1> SUFFICES ASSUME BacktestInv PROVE FundBalances
  OBVIOUS
<1>1. OverHeld(LAMBDA s : position[s].paid) = SumOver(PaidOf, Held)
  BY PaidSum DEF BacktestInv
<1>2. cash >= 0
  BY DEF BacktestInv, BacktestTyped
<1>3. /\ cash + SumOver(PaidOf, Held) = InitialCash * 10000 + result.net
      /\ result.net = result.gross - result.costs
  BY DEF BacktestInv, FundInv
<1> QED
  BY <1>1, <1>2, <1>3 DEF FundBalances

LEMMA SlotsAddUp == BacktestInv => SlotsRespected
PROOF
<1> SUFFICES ASSUME BacktestInv PROVE SlotsRespected
  OBVIOUS
<1>1. PICK p, k, q : p = pending /\ k = kept /\ q = p \o k
  OBVIOUS
<1>2. /\ p \in Seq(OrderRows) /\ k \in Seq(OrderRows) /\ OneEach(p) /\ OneEach(k)
      /\ SharesOf(p) \cap SharesOf(k) = {}
  BY <1>1 DEF BacktestInv, BacktestTyped, OrdersApart
<1>3. q \in Seq(OrderRows) /\ InList(q) = InList(p) \cup InList(k) /\ OneEach(q)
  BY <1>1, <1>2, ListJoin
<1>4. \A o \in InList(q) : OrderGood(o) /\ o \in OrderRows
  <2>1. \A o \in InList(q) : OrderGood(o)
    BY <1>1, <1>3 DEF BacktestInv, OrdersGood
  <2> QED
    BY <1>3, <2>1 DEF InList
<1>5. Cardinality(Held) + Cardinality(BuyPlaces(q)) <= MaxPositions
  <2>1. PICK A, B : /\ A = Held \cup SharesOf(p) \cup SharesOf(k)
                    /\ B = Held \cup BuySharesOf(q)
    OBVIOUS
  <2>2. IsFiniteSet(A)
    <3>1. IsFiniteSet(SharesOf(p)) /\ IsFiniteSet(SharesOf(k)) /\ IsFiniteSet(Held)
      BY <1>2, ListCounts, PaidSum DEF BacktestInv
    <3> QED
      BY <2>1, <3>1, FS_Union
  <2>3. B \in SUBSET A
    BY <1>3, <2>1 DEF BuySharesOf, InList, SharesOf
  <2>4. Cardinality(B) \in Nat /\ Cardinality(A) \in Nat /\ Cardinality(B) <= Cardinality(A)
    BY <2>2, <2>3, FS_Subset, FS_CardinalityType
  <2>5. Cardinality(A) <= MaxPositions
    BY <1>1, <2>1 DEF BacktestInv, SlotsLeft
  <2>6. Cardinality(B) = Cardinality(Held) + Cardinality(BuyPlaces(q))
    BY <1>3, <1>4, <2>1, SlotsAre
  <2> QED
    BY <2>4, <2>5, <2>6, BacktestConstants
<1>6. ASSUME stage # "over", NEW i \in DOMAIN q PROVE q[i].side = "sell" <=> q[i].stock \in Held
  <2>1. OrderGood(q[i]) /\ q[i].side \in {"buy", "sell"}
    BY <1>4 DEF InList, OrderRows
  <2> QED
    BY <1>6, <2>1 DEF OrderGood
<1>7. ASSUME stage = "signals", NEW s \in Held, SessionsHeld(s) >= HoldSessions
      PROVE  s \in {q[i].stock : i \in {j \in DOMAIN q : q[j].side = "sell"}}
  <2>1. s \in SharesOf(p)
    BY <1>1, <1>7 DEF BacktestInv, ExitsOrdered
  <2>2. PICK o \in InList(p) : o.stock = s
    BY <2>1 DEF SharesOf, InList
  <2>3. PICK i \in DOMAIN q : q[i].stock = s
    BY <1>3, <2>2 DEF InList
  <2>4. q[i].side = "sell"
    BY <1>6, <1>7, <2>3
  <2> QED
    BY <2>3, <2>4
<1>8. pending \o kept = q
  BY <1>1
<1>9. {i \in DOMAIN q : q[i].side = "buy"} = BuyPlaces(q)
  BY DEF BuyPlaces
<1> QED
  BY <1>3, <1>5, <1>6, <1>7, <1>8, <1>9 DEF SlotsRespected, OneEach

\* Whatever sessions the shares miss and whatever their bars, a backtest fills no
\* order on the day of its signal, or where nothing was traded, its money adds up,
\* and it never holds or waits for more than it has slots for.
THEOREM ResultAttained == BacktestSpec => ResultIsAttainable
PROOF
<1>1. BacktestInit => BacktestInv
  BY BacktestStarts
<1>2. BacktestInv /\ [BacktestNext]_backtestVars => BacktestInv'
  BY BacktestKept
<1>3. BacktestInv /\ [BacktestNext]_backtestVars =>
        [stage = "orders" => \A s \in Universe : FillIsCausal(s)]_backtestVars
  BY BacktestKept
<1>4. BacktestInv => FundBalances /\ SlotsRespected
  BY FundAddsUp, SlotsAddUp
<1> QED
  BY <1>1, <1>2, <1>3, <1>4, PTL DEF BacktestSpec, ResultIsAttainable, FillsAreCausal
=============================================================================
