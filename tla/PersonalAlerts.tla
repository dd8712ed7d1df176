--------------------------- MODULE PersonalAlerts ---------------------------
(***************************************************************************)
(* Personal alert rules (notifications/tasks.py): every five minutes a     *)
(* task loads the active rules once and goes through its copies.  A rule   *)
(* whose cooldown has passed is compared with the latest analysis; a       *)
(* signal rule moves its baseline first, is delivered then and starts its  *)
(* cooldown last, in three statements.                                     *)
(*                                                                         *)
(* Two kinds of rule are told apart: "signal", which has a baseline, and   *)
(* "level" (target price, percentage move, confidence), which fires for as *)
(* long as its condition holds.                                            *)
(***************************************************************************)
EXTENDS Integers

CONSTANTS Rules,        \* AlertRule rows
          Signals,      \* actions an analysis may have
          Evaluators,   \* runs of evaluate_personal_alert_rules
          Cooldown,     \* PERSONAL_ALERT_COOLDOWN
          AlertFaults   \* bound: killed evaluators

ASSUME AlertsAssumption ==
    /\ "none" \notin Rules
    /\ Cooldown \in Nat \ {0}
    /\ AlertFaults \in Nat

VARIABLES signal,     \* action of the latest analysis of each rule's share
          reached,    \* whether the level of a rule is reached
          rule,       \* the rows: kind, in_app_enabled (the rest use Telegram only),
                      \* whether they exist and are active, last_signal, and the
                      \* rest of the cooldown
          evaluator,  \* each run's copies and place
          known,      \* the signal a rule's owner was last told of, or started from
          quiet,      \* time since the rule's last message, up to Cooldown
          early,      \* rules that spoke before their cooldown was over
          missed,     \* rules a message of which was refused or died half-way
          shared,     \* rules two runs had in hand at once, or one died with
          deaths

alertVars == <<signal, reached, rule, evaluator, known, quiet, early, missed, shared, deaths>>

NewRule(kind, inApp) ==
    [kind |-> kind, inApp |-> inApp, live |-> TRUE, on |-> TRUE, last |-> "none", cool |-> 0]
NotEvaluating == [step |-> "idle", todo |-> {}, copy |-> <<>>, in |-> "none"]

AlertsInit ==
    /\ signal \in [Rules -> Signals]
    /\ reached = [r \in Rules |-> FALSE]
    /\ rule \in [Rules -> {NewRule(k, b) : k \in {"signal", "level"}, b \in BOOLEAN}]
    /\ evaluator = [e \in Evaluators |-> NotEvaluating]
    /\ known = [r \in Rules |-> "none"]
    /\ quiet = [r \in Rules |-> Cooldown]
    /\ early = {} /\ missed = {} /\ shared = {} /\ deaths = 0

Holding(r) == {e \in Evaluators : evaluator[e].in = r}
Turns(e, step) == evaluator' = [evaluator EXCEPT ![e].step = step]
Leaves(e) == evaluator' = [evaluator EXCEPT ![e].step = "next", ![e].in = "none"]

-----------------------------------------------------------------------------
(* The owner and the market                                                *)

\* alert_rule_toggle
Toggle(r) ==
    /\ rule[r].live
    /\ rule' = [rule EXCEPT ![r].on = ~@]
    /\ UNCHANGED <<signal, reached, evaluator, known, quiet, early, missed, shared, deaths>>

\* alert_rule_delete
DeleteRule(r) ==
    /\ rule[r].live
    /\ rule' = [rule EXCEPT ![r].live = FALSE, ![r].on = FALSE]
    /\ UNCHANGED <<signal, reached, evaluator, known, quiet, early, missed, shared, deaths>>

MarketMoves(r) ==
    /\ \/ rule[r].kind = "signal" /\ UNCHANGED reached
          /\ \E s \in Signals \ {signal[r]} : signal' = [signal EXCEPT ![r] = s]
       \/ rule[r].kind = "level" /\ UNCHANGED signal
          /\ reached' = [reached EXCEPT ![r] = ~@]
    /\ UNCHANGED <<rule, evaluator, known, quiet, early, missed, shared, deaths>>

\* Time moves in parts of the cooldown, a run takes seconds.
TimePasses ==
    /\ \A e \in Evaluators : evaluator[e].step = "idle"
    /\ rule' = [r \in Rules |-> [rule[r] EXCEPT !.cool = IF @ = 0 THEN 0 ELSE @ - 1]]
    /\ quiet' = [r \in Rules |-> IF quiet[r] = Cooldown THEN Cooldown ELSE quiet[r] + 1]
    /\ UNCHANGED <<signal, reached, evaluator, known, early, missed, shared, deaths>>

-----------------------------------------------------------------------------
(* evaluate_personal_alert_rules                                           *)

\* The queryset is evaluated once, at the head of the loop.
LoadRules(e) ==
    /\ evaluator[e].step = "idle"
    /\ evaluator' = [evaluator EXCEPT ![e] =
         [NotEvaluating EXCEPT !.step = "next", !.todo = {r \in Rules : rule[r].on},
                           !.copy = [r \in {q \in Rules : rule[q].on} |-> rule[r]]]]
    /\ UNCHANGED <<signal, reached, rule, known, quiet, early, missed, shared, deaths>>

\* What _rule_trigger would do with a copy of a rule.
Baseline(r, c) == rule[r].kind = "signal" /\ c.last = "none"
Triggers(r, c) == \/ rule[r].kind = "signal" /\ c.last \notin {"none", signal[r]}
                  \/ rule[r].kind = "level" /\ reached[r]

\* Fault: the rule is evaluated first and its cooldown looked at afterwards.
AfterLookCooledLate(r, c) ==
    IF Triggers(r, c) THEN IF c.cool > 0 THEN "move" ELSE "tell"
    ELSE IF Baseline(r, c) THEN "move" ELSE "next"

\* What follows for a rule: nothing, only a new baseline, or a message.
AfterLook(r, c) ==
    IF c.cool > 0 THEN "next"
    ELSE IF Triggers(r, c) THEN "tell" ELSE IF Baseline(r, c) THEN "move" ELSE "next"

MovesBaseline(r, what) == what # "next" /\ rule[r].kind = "signal"

\* One rule up to and including the save inside _rule_trigger; a level rule has
\* none, or saves what nothing reads (last_confidence).  The save of a deleted
\* rule raises, and that ends the run with the rest of the rules unread.
LookAt(e, r) ==
    LET c == evaluator[e].copy[r]
        what == AfterLook(r, c)
        moves == MovesBaseline(r, what)
        raises == moves /\ ~rule[r].live
    IN  /\ evaluator[e].step = "next"
        /\ r \in evaluator[e].todo
        /\ evaluator' = [evaluator EXCEPT ![e] =
             IF raises THEN NotEvaluating
             ELSE [evaluator[e] EXCEPT !.todo = evaluator[e].todo \ {r},
                                       !.step = IF what = "tell" THEN "tell" ELSE "next",
                                       !.in = IF what = "tell" THEN r ELSE "none"]]
        /\ rule' = IF moves /\ ~raises THEN [rule EXCEPT ![r].last = signal[r]] ELSE rule
        /\ known' = IF moves /\ ~raises /\ Baseline(r, c)
                      THEN [known EXCEPT ![r] = signal[r]] ELSE known
        /\ shared' = IF \/ Holding(r) # {}
                        \/ what # "next" /\ <<c.last, c.cool>> # <<rule[r].last, rule[r].cool>>
                       THEN shared \cup {r} ELSE shared
        /\ UNCHANGED <<signal, reached, quiet, early, missed, deaths>>

\* The in-app row, then Telegram, whose refusal only keeps its own row away.
\* The text is that of the analysis the rule was looked at with.
Deliver(e, accepted) ==
    LET r == evaluator[e].in IN
    /\ evaluator[e].step = "tell"
    /\ rule[r].live
    /\ rule[r].inApp => accepted
    /\ Turns(e, "stamp")
    /\ IF accepted
         THEN /\ known' = [known EXCEPT ![r] = rule[r].last]
              /\ quiet' = [quiet EXCEPT ![r] = 0]
              /\ early' = IF quiet[r] < Cooldown THEN early \cup {r} ELSE early
              /\ UNCHANGED missed
         ELSE /\ missed' = missed \cup {r}
              /\ UNCHANGED <<known, quiet, early>>
    /\ UNCHANGED <<signal, reached, rule, shared, deaths>>

\* last_triggered_at, whether or not anybody was reached.
StampRule(e) ==
    LET r == evaluator[e].in IN
    /\ evaluator[e].step = "stamp"
    /\ rule[r].live
    /\ rule' = [rule EXCEPT ![r].cool = Cooldown]
    /\ Leaves(e)
    /\ UNCHANGED <<signal, reached, known, quiet, early, missed, shared, deaths>>

\* A row that refers to a deleted rule, or a save of it, raises.
RuleIsGone(e) ==
    /\ evaluator[e].step \in {"tell", "stamp"}
    /\ ~rule[evaluator[e].in].live
    /\ evaluator' = [evaluator EXCEPT ![e] = NotEvaluating]
    /\ UNCHANGED <<signal, reached, rule, known, quiet, early, missed, shared, deaths>>

EndRun(e) ==
    /\ evaluator[e].step = "next"
    /\ evaluator[e].todo = {}
    /\ evaluator' = [evaluator EXCEPT ![e] = NotEvaluating]
    /\ UNCHANGED <<signal, reached, rule, known, quiet, early, missed, shared, deaths>>

EvaluatorDies(e) ==
    /\ evaluator[e].step # "idle"
    /\ deaths < AlertFaults
    /\ deaths' = deaths + 1
    /\ evaluator' = [evaluator EXCEPT ![e] = NotEvaluating]
    /\ missed' = missed \cup (IF evaluator[e].step = "tell" THEN {evaluator[e].in} ELSE {})
    /\ shared' = shared \cup (IF evaluator[e].step = "stamp" THEN {evaluator[e].in} ELSE {})
    /\ UNCHANGED <<signal, reached, rule, known, quiet, early>>

AlertsNext ==
    \/ TimePasses
    \/ \E r \in Rules : Toggle(r) \/ DeleteRule(r) \/ MarketMoves(r)
    \/ \E e \in Evaluators :
         \/ LoadRules(e) \/ StampRule(e) \/ RuleIsGone(e) \/ EndRun(e) \/ EvaluatorDies(e)
         \/ \E r \in Rules : LookAt(e, r)
         \/ \E accepted \in BOOLEAN : Deliver(e, accepted)

AlertsSpec == AlertsInit /\ [][AlertsNext]_alertVars

-----------------------------------------------------------------------------

\* A signal rule never moves on without its owner: outside a run, its baseline
\* is what the owner was told last (or started from), unless the message itself
\* was refused or died, or two runs overlapped.  A change that comes during the
\* cooldown is kept for the next message ("signal changed from old to current").
SignalTold ==
    \A r \in Rules \ (missed \cup shared) :
      (rule[r].kind = "signal" /\ rule[r].live /\ Holding(r) = {}) => known[r] = rule[r].last

=============================================================================
