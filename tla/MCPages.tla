------------------------------- MODULE MCPages -------------------------------
(* What people do through the pages and commands: accounts, feedback,        *)
(* portfolios and their ledgers, backtests, the alerts they set on shares,   *)
(* and backups.  They share no rows, so each behaviour is one scene with one *)
(* of them, on a population of its own.                                      *)
(*                                                                           *)
(* The fund of a backtest has 100 and room for one position, over five days  *)
(* on which two shares miss at most one session.                             *)
EXTENDS Accounts, FeedbackTriage, PortfolioLedger, PortfolioSet, Backtest,
        PersonalAlerts, Backups, TLC

CONSTANTS a1, a2, u1,   \* users
          r1,           \* requests on accounts
          p1, p2,       \* requests on feedback
          c1, c2,       \* clients of the ledger
          t1, t2        \* clients of the portfolios

VARIABLE scene

AdminsAndVisitor == (a1 :> "admin" @@ a2 :> "admin" @@ u1 :> "absent")
FromUsers == [i \in Items |-> "user"]
Interchangeable == Permutations({p1, p2}) \cup Permutations({c1, c2})

Bar(o, l, c, v, s) == [open |-> o, low |-> l, close |-> c, volume |-> v, signal |-> s]

\* A thin session with a signal, a rise, and a session without trades.
SomeBars == {Bar(10, 10, 10, 200, TRUE), Bar(10, 9, 12, 40, FALSE), Bar(9, 9, 9, 0, TRUE)}

PagesInit ==
    /\ scene \in {"accounts", "feedback", "ledger", "folios", "backtest", "alerts",
                  "backups"}
    /\ Init
    /\ FeedbackInit /\ (scene # "feedback" => \A i \in Items : phase[i] = "absent")
    /\ LedgerInit
    /\ FolioInit
    /\ BacktestInit /\ (scene # "backtest" =>
                          sessions = [s \in Universe |-> Window]
                          /\ quote = [s \in Universe |-> Bar(9, 9, 9, 0, TRUE)])
    /\ AlertsInit /\ (scene # "alerts" =>
                        rule = [r \in Rules |-> NewRule("level", TRUE)]
                        /\ signal = [r \in Rules |-> "HOLD"])
    /\ BackupsInit /\ (scene # "backups" => engine = "sqlite")

PagesNext ==
    /\ UNCHANGED scene
    /\ \/ /\ scene = "accounts" /\ Next
          /\ UNCHANGED <<feedbackVars, ledgerVars, folioVars, backtestVars, alertVars,
                       backupVars>>
       \/ /\ scene = "feedback" /\ FeedbackNext
          /\ UNCHANGED <<vars, ledgerVars, folioVars, backtestVars, alertVars,
                       backupVars>>
       \/ /\ scene = "ledger" /\ LedgerNext
          /\ UNCHANGED <<vars, feedbackVars, folioVars, backtestVars, alertVars,
                       backupVars>>
       \/ /\ scene = "folios" /\ FolioNext
          /\ UNCHANGED <<vars, feedbackVars, ledgerVars, backtestVars, alertVars,
                       backupVars>>
       \/ /\ scene = "backtest" /\ BacktestNext
          /\ UNCHANGED <<vars, feedbackVars, ledgerVars, folioVars, alertVars,
                       backupVars>>
       \/ /\ scene = "alerts" /\ AlertsNext
          /\ UNCHANGED <<vars, feedbackVars, ledgerVars, folioVars, backtestVars,
                       backupVars>>
       \/ /\ scene = "backups" /\ BackupsNext
          /\ UNCHANGED <<vars, feedbackVars, ledgerVars, folioVars, backtestVars,
                       alertVars>>

PagesSpec ==
    PagesInit
    /\ [][PagesNext]_<<scene, vars, feedbackVars, ledgerVars, folioVars,
                       backtestVars, alertVars, backupVars>>
=============================================================================
