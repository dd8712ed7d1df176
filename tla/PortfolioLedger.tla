--------------------------- MODULE PortfolioLedger ---------------------------
(***************************************************************************)
(* The transaction ledger of one stock in one portfolio and the requests   *)
(* that change it (market/services/portfolio.py, and portfolio_import_csv  *)
(* in market/views.py).  Holdings are never stored: they are replayed from *)
(* the ledger in order of (transaction_date, created_at, id).              *)
(*                                                                         *)
(* Each request is one database transaction whose statements see their own *)
(* changes and whatever the others have committed by then (PostgreSQL's    *)
(* default isolation, config/settings/production.py); an UPDATE or DELETE  *)
(* of a row waits for the transaction that already changed it.             *)
(***************************************************************************)
EXTENDS Integers, SequencesExt

CONSTANTS Clients,     \* browser tabs or API clients of the owner
          MaxRows,     \* bound: rows ever inserted
          MaxImport,   \* bound: rows of one CSV file
          Quantities, Dates,
          BuyEnabled   \* is_exchange_enabled(stock.exchange)

ASSUME LedgerAssumption ==
    /\ MaxRows \in Nat
    /\ MaxImport \in Nat
    /\ Quantities \subseteq Nat \ {0}
    /\ Dates \subseteq Nat
    /\ BuyEnabled \in BOOLEAN

VARIABLES ledger,   \* committed rows by id
          nextId,   \* the next primary key, and the clock of created_at
          client    \* what each request is doing

ledgerVars == <<ledger, nextId, client>>

Ids == 1..MaxRows
Rows == [type : {"BUY", "SELL"}, quantity : Quantities, date : Dates]
\* A form's row as inserted at time t.
Stamp(row, t) == [type |-> row.type, quantity |-> row.quantity,
                  date |-> row.date, created |-> t]

Deleted == [type |-> "none"]

\* A change maps the ids a request touches to a row or to Deleted.
NoChange == <<>>
OneRow(id, row) == [i \in {id} |-> row]
NoMutation == [step |-> "idle", kind |-> "none", change |-> NoChange,
         overtaken |-> FALSE]

-----------------------------------------------------------------------------
(* Replay                                                                  *)

Before(l, i, j) == \/ l[i].date < l[j].date
                   \/ l[i].date = l[j].date /\ l[i].created < l[j].created

\* The last one of ids in ledger order.
Latest(l, ids) == CHOOSE i \in ids : \A j \in ids \ {i} : Before(l, j, i)

\* One step of _replay_transactions: an uncovered SELL is flagged and skipped.
Fill(txn, calc) ==
    IF txn.type = "BUY"
      THEN [calc EXCEPT !.held = @ + txn.quantity]
      ELSE IF txn.quantity > calc.held
             THEN [calc EXCEPT !.error = TRUE]
             ELSE [calc EXCEPT !.held = @ - txn.quantity]

\* The rows of ids replayed in ledger order.
Replay(l, ids) ==
    MapThenFoldSet(Fill, [held |-> 0, error |-> FALSE],
                   LAMBDA i : l[i], LAMBDA S : Latest(l, S), ids)

\* validate_ledger_after_mutation accepts l.
Consistent(l) == ~Replay(l, DOMAIN l).error

\* Fault: later purchases are counted too.
HeldEver(l, date, exclude) == Replay(l, DOMAIN l \ {exclude}).held

\* What is held at a date, leaving out the row being edited.
HeldAt(l, date, exclude) ==
    Replay(l, {i \in DOMAIN l : l[i].date <= date /\ i # exclude}).held

\* validate_transaction accepts row against l.
Valid(l, row, exclude) ==
    /\ row.type = "BUY" => BuyEnabled
    /\ row.type = "SELL" => row.quantity <= HeldAt(l, row.date, exclude)

\* The ledger a transaction sees: the committed rows under its own changes.
Apply(l, change) ==
    LET gone == {i \in DOMAIN change : change[i] = Deleted}
        kept == (DOMAIN l \cup DOMAIN change) \ gone
    IN  [i \in kept |-> IF i \in DOMAIN change THEN change[i] ELSE l[i]]

-----------------------------------------------------------------------------

LedgerInit ==
    /\ ledger = NoChange
    /\ nextId = 1
    /\ client = [c \in Clients |-> NoMutation]

StepTo(c, step, kind, change) ==
    client' = [client EXCEPT ![c] = [step |-> step, kind |-> kind,
                                     change |-> change, overtaken |-> FALSE]]

\* create_transaction: validated against the rows up to its own date.
Create(c, row) ==
    /\ client[c].step = "idle"
    /\ nextId <= MaxRows
    /\ Valid(ledger, row, 0)
    /\ StepTo(c, "commit", "create", OneRow(nextId, Stamp(row, nextId)))
    /\ nextId' = nextId + 1
    /\ UNCHANGED ledger

\* portfolio_import_csv: file holds the rows in the order of their dates, which
\* the function sorts them into; each is created like the one above in the same
\* transaction, then the whole ledger is validated.  The rows are created in one
\* step: what another request commits meanwhile is read again by that validation.
Import(c, file) ==
    LET Change(n) == [i \in nextId..(nextId + n - 1) |->
                        Stamp(file[i - nextId + 1], i)]
    IN  /\ client[c].step = "idle"
        /\ nextId + Len(file) <= MaxRows + 1
        /\ \A m, n \in DOMAIN file : m < n => file[m].date <= file[n].date
        /\ \A n \in DOMAIN file :
             Valid(Apply(ledger, Change(n - 1)), file[n], 0)
        /\ StepTo(c, "validate", "import", Change(Len(file)))
        /\ nextId' = nextId + Len(file)
        /\ UNCHANGED ledger

\* update_transaction: validate_transaction, before the row is saved.
Update(c, id, row) ==
    /\ client[c].step = "idle"
    /\ id \in DOMAIN ledger
    /\ Valid(ledger, row, id)
    /\ StepTo(c, "save", "update", OneRow(id, Stamp(row, ledger[id].created)))
    /\ UNCHANGED <<ledger, nextId>>

\* delete_transaction: the row as get_object_or_404 found it.
Delete(c, id) ==
    /\ client[c].step = "idle"
    /\ id \in DOMAIN ledger
    /\ StepTo(c, "save", "delete", OneRow(id, Deleted))
    /\ UNCHANGED <<ledger, nextId>>

\* txn.save() or txn.delete(), once no open transaction has changed the row.
\* save() inserts a row that is gone meanwhile again, with a new created_at.
SaveRow(c) ==
    LET id == CHOOSE i \in DOMAIN client[c].change : TRUE
        reinserted == client[c].kind = "update" /\ id \notin DOMAIN ledger
    IN  /\ client[c].step = "save"
        /\ \A d \in Clients \ {c} :
             client[d].step \in {"validate", "commit"}
             => id \notin DOMAIN client[d].change
        /\ IF reinserted
             THEN /\ nextId <= MaxRows
                  /\ StepTo(c, "validate", "update",
                        OneRow(id, Stamp(client[c].change[id], nextId)))
                  /\ nextId' = nextId + 1
             ELSE /\ StepTo(c, "validate", client[c].kind, client[c].change)
                  /\ UNCHANGED nextId
        /\ UNCHANGED ledger

\* validate_ledger_after_mutation passes ...
Validate(c) ==
    /\ client[c].step = "validate"
    /\ Consistent(Apply(ledger, client[c].change))
    /\ StepTo(c, "commit", client[c].kind, client[c].change)
    /\ UNCHANGED <<ledger, nextId>>

\* ... or raises, and the transaction is rolled back.
Reject(c) ==
    /\ client[c].step = "validate"
    /\ ~Consistent(Apply(ledger, client[c].change))
    /\ client' = [client EXCEPT ![c] = NoMutation]
    /\ UNCHANGED <<ledger, nextId>>

\* The connection is lost before COMMIT.
Abort(c) ==
    /\ client[c].step # "idle"
    /\ client' = [client EXCEPT ![c] = NoMutation]
    /\ UNCHANGED <<ledger, nextId>>

\* overtaken is the model's own: since the request's last check, another one
\* has committed.
Commit(c) ==
    /\ client[c].step = "commit"
    /\ ledger' = Apply(ledger, client[c].change)
    /\ client' = [d \in Clients |->
                    IF d = c THEN NoMutation
                    ELSE [client[d] EXCEPT !.overtaken = @ \/ client[d].step # "idle"]]
    /\ UNCHANGED nextId

LedgerNext ==
    \E c \in Clients :
      \/ \E row \in Rows : Create(c, row)
      \/ \E n \in 1..MaxImport : \E file \in [1..n -> Rows] : Import(c, file)
      \/ \E id \in Ids : \E row \in Rows : Update(c, id, row)
      \/ \E id \in Ids : Delete(c, id)
      \/ SaveRow(c) \/ Validate(c) \/ Reject(c) \/ Abort(c) \/ Commit(c)

LedgerSpec == LedgerInit /\ [][LedgerNext]_ledgerVars

-----------------------------------------------------------------------------

\* No SELL of the ledger exceeds what is held when it is replayed: the error
\* _replay_transactions reports "should be unreachable - every write path
\* validates against the same replay before committing" (portfolio.py:294).
LedgerConsistent == Consistent(ledger)

\* A row dated before a SELL that is already there, and itself a SELL.
IsBackdatedSell(l, change) ==
    \E i \in DOMAIN change :
      /\ change[i].type = "SELL"
      /\ \E j \in DOMAIN l : l[j].type = "SELL" /\ l[j].date > change[i].date

\* A consistent ledger becomes inconsistent only by the creation of a SELL
\* dated before an existing SELL, which create_transaction does not look at,
\* or by a request that another one overtook between its last check and its
\* commit.  And an edit, a deletion or an import that no commit overtook leaves a
\* consistent ledger even when the one it found was not: "every mutation is
\* re-validated against the whole chronological sequence" (docstring of
\* PortfolioTransaction).
BreaksOnlyUnchecked ==
    [][\A c \in Clients :
         client[c].step = "commit" /\ client'[c].step = "idle" /\ ~client[c].overtaken
         /\ ledger' # ledger /\ ~LedgerConsistent'
         => /\ client[c].kind = "create"
            /\ LedgerConsistent => IsBackdatedSell(ledger, client[c].change)]_ledgerVars
=============================================================================
