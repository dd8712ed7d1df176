---------------------------- MODULE PortfolioSet ----------------------------
(***************************************************************************)
(* The portfolios of one user and which of them is the default: the pages  *)
(* and API endpoints that create, rename, delete and choose one, and       *)
(* get_or_create_default_portfolio, which every visit calls.  The database *)
(* allows one default (unique_default_portfolio_per_user).                 *)
(*                                                                         *)
(* Each statement is a transaction of its own, but for those of            *)
(* portfolio_set_default.  A request that meets an IntegrityError or finds *)
(* its row gone ends in an error, except where it is caught.               *)
(***************************************************************************)
EXTENDS Integers, FiniteSets, FiniteSetsExt

CONSTANTS Tabs,           \* requests under way at once
          MaxPortfolios   \* bound: rows ever inserted

VARIABLES folio,     \* the rows: of each id, whether it is the default
          lastFolio, \* the newest id
          tab,       \* what each request is doing
          ended      \* auxiliary: the request that has just ended

folioVars == <<folio, lastFolio, tab, ended>>

Waiting == [step |-> "idle", op |-> "none", target |-> 0, read |-> FALSE, cleared |-> {},
            alone |-> TRUE, sound |-> TRUE]
Nothing == [op |-> "none", ok |-> TRUE, alone |-> FALSE, sound |-> FALSE]

FolioInit == folio = <<>> /\ lastFolio = 0 /\ tab = [r \in Tabs |-> Waiting] /\ ended = Nothing

-----------------------------------------------------------------------------

Defaults == {p \in DOMAIN folio : folio[p]}
Oldest == Min(DOMAIN folio)
Sound(rows) == DOMAIN rows = {} \/ Cardinality({p \in DOMAIN rows : rows[p]}) = 1

\* The unique constraint.
MayStore(p, default) == default => Defaults \subseteq {p}
WithFlag(p, default) ==
    [q \in DOMAIN folio \cup {p} |-> IF q = p THEN default ELSE folio[q]]

\* portfolio_set_default holds its rows until it commits.
Unlocked(p) == \A r \in Tabs : p \notin tab[r].cleared

Goes(r, step) == tab' = [tab EXCEPT ![r].step = step] /\ ended' = Nothing
\* Whoever is under way meanwhile is not alone.
Ends(r, ok) ==
    /\ tab' = [q \in Tabs |-> IF q = r THEN Waiting ELSE [tab[q] EXCEPT !.alone = FALSE]]
    /\ ended' = [op |-> tab[r].op, ok |-> ok, alone |-> tab[r].alone, sound |-> tab[r].sound]

BeginRequest(r, op, p, read, step) ==
    /\ tab[r].step = "idle"
    /\ tab' = [q \in Tabs |->
                 IF q # r THEN [tab[q] EXCEPT !.alone = FALSE]
                 ELSE [step |-> step, op |-> op, target |-> p, read |-> read, cleared |-> {},
                       alone |-> \A o \in Tabs : tab[o].step = "idle", sound |-> Sound(folio)]]
    /\ ended' = Nothing
    /\ UNCHANGED <<folio, lastFolio>>

\* save() of one row's flag: update_fields, so the row must be there.
SaveFlag(r, p) ==
    LET ok == p \in DOMAIN folio /\ MayStore(p, TRUE)
    IN  /\ Unlocked(p)
        /\ folio' = IF ok THEN WithFlag(p, TRUE) ELSE folio
        /\ Ends(r, ok)
        /\ UNCHANGED lastFolio

-----------------------------------------------------------------------------
(* get_or_create_default_portfolio                                         *)

\* Fault: whichever is oldest becomes the default, without a look for one.
VisitHasty(r) == BeginRequest(r, "visit", 0, FALSE, "pick")

Visit(r) == BeginRequest(r, "visit", 0, FALSE, "look")

FindDefault(r) ==
    /\ tab[r].step = "look"
    /\ IF Defaults # {} THEN Ends(r, TRUE) ELSE Goes(r, "pick")
    /\ UNCHANGED <<folio, lastFolio>>

FindAny(r) ==
    /\ tab[r].step = "pick"
    /\ tab' = [tab EXCEPT ![r] =
                 IF DOMAIN folio = {} THEN [@ EXCEPT !.step = "insert"]
                 ELSE [@ EXCEPT !.step = "flag", !.target = Oldest]]
    /\ ended' = Nothing
    /\ UNCHANGED <<folio, lastFolio>>

\* An error, because there is a default or the name is taken, is caught, and
\* whatever is there is returned; None without a row.
InsertDefault(r) ==
    /\ tab[r].step = "insert" /\ lastFolio < MaxPortfolios
    /\ \/ /\ MayStore(lastFolio + 1, TRUE)
          /\ lastFolio' = lastFolio + 1 /\ folio' = WithFlag(lastFolio', TRUE)
          /\ Ends(r, TRUE)
       \/ /\ ~MayStore(lastFolio + 1, TRUE) \/ DOMAIN folio # {}
          /\ Ends(r, DOMAIN folio # {})
          /\ UNCHANGED <<folio, lastFolio>>

Flag(r) == tab[r].step = "flag" /\ SaveFlag(r, tab[r].target)

-----------------------------------------------------------------------------
(* The owner's requests                                                    *)

\* portfolio_create and PortfolioListAPI: the first becomes the default.
NewFolio(r) == BeginRequest(r, "create", 0, DOMAIN folio = {}, "create")

InsertNamed(r) ==
    /\ tab[r].step = "create" /\ lastFolio < MaxPortfolios
    /\ IF MayStore(lastFolio + 1, tab[r].read)
         THEN /\ lastFolio' = lastFolio + 1
              /\ folio' = WithFlag(lastFolio', tab[r].read)
              /\ Ends(r, TRUE)
         ELSE Ends(r, FALSE) /\ UNCHANGED <<folio, lastFolio>>

\* portfolio_rename and a PATCH save every column as they were read, and insert
\* the row anew when it has gone.
Rename(r, p) == BeginRequest(r, "rename", p, folio[p], "save")

SaveAll(r) ==
    LET p == tab[r].target
        ok == MayStore(p, tab[r].read)
    IN  /\ tab[r].step = "save" /\ Unlocked(p)
        /\ folio' = IF ok THEN WithFlag(p, tab[r].read) ELSE folio
        /\ Ends(r, ok)
        /\ UNCHANGED lastFolio

\* portfolio_set_default, whose statements are one transaction.
Choose(r, p) == BeginRequest(r, "set_default", p, FALSE, "clear")

ClearOthers(r) ==
    LET others == Defaults \ {tab[r].target}
    IN  /\ tab[r].step = "clear" /\ \A p \in others : Unlocked(p)
        /\ tab' = [tab EXCEPT ![r].step = "commit", ![r].cleared = others]
        /\ ended' = Nothing
        /\ UNCHANGED <<folio, lastFolio>>

CommitDefault(r) ==
    LET p == tab[r].target
        ok == p \in DOMAIN folio /\ Defaults \ tab[r].cleared \subseteq {p}
    IN  /\ tab[r].step = "commit" /\ \A q \in Tabs \ {r} : p \notin tab[q].cleared
        /\ folio' = IF ok THEN [q \in DOMAIN folio |-> q = p] ELSE folio
        /\ Ends(r, ok)
        /\ UNCHANGED lastFolio

\* portfolio_delete, and a DELETE of PortfolioDetailAPI.
DropFolio(r, p, op) == BeginRequest(r, op, p, folio[p], "remove")

RemoveFolio(r) ==
    LET p == tab[r].target
    IN  /\ tab[r].step = "remove" /\ Unlocked(p)
        /\ folio' = [q \in DOMAIN folio \ {p} |-> folio[q]]
        /\ IF tab[r].op = "delete" /\ tab[r].read THEN Goes(r, "remaining") ELSE Ends(r, TRUE)
        /\ UNCHANGED lastFolio

FindRemaining(r) ==
    /\ tab[r].step = "remaining"
    /\ IF DOMAIN folio = {} THEN Ends(r, TRUE)
       ELSE tab' = [tab EXCEPT ![r].step = "flag", ![r].target = Oldest] /\ ended' = Nothing
    /\ UNCHANGED <<folio, lastFolio>>

\* A name that is taken, or a process that is killed.
Abandon(r) ==
    /\ tab[r].step # "idle"
    /\ tab' = [q \in Tabs |-> IF q = r THEN Waiting ELSE [tab[q] EXCEPT !.alone = FALSE]]
    /\ ended' = Nothing
    /\ UNCHANGED <<folio, lastFolio>>

FolioNext ==
    \E r \in Tabs :
      \/ Visit(r) \/ FindDefault(r) \/ FindAny(r) \/ InsertDefault(r) \/ Flag(r)
      \/ NewFolio(r) \/ InsertNamed(r) \/ SaveAll(r) \/ ClearOthers(r) \/ CommitDefault(r)
      \/ RemoveFolio(r) \/ FindRemaining(r) \/ Abandon(r)
      \/ \E p \in DOMAIN folio :
           \/ Rename(r, p) \/ Choose(r, p)
           \/ \E op \in {"delete", "api_delete"} : DropFolio(r, p, op)

FolioSpec == FolioInit /\ [][FolioNext]_folioVars
-----------------------------------------------------------------------------

\* There is never a second default, and whatever overlapping requests and a
\* DELETE through the API have left, a request that nobody else disturbs
\* succeeds: a visit and a choice end with one default, and no other request
\* of the pages takes it away ("Every user gets exactly one portfolio
\* automatically", portfolio.py).
LoneRequestKeepsDefault ==
    /\ Cardinality(Defaults) <= 1
    /\ ended.alone =>
         /\ ended.ok
         /\ ended.op \in {"visit", "set_default"} => Cardinality(Defaults) = 1
         /\ ended.sound /\ ended.op # "api_delete" => Sound(folio)
=============================================================================
