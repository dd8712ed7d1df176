--------------------------- MODULE PublishedNotices ---------------------------
(***************************************************************************)
(* What is copied from the exchange's own pages: the meetings and record   *)
(* dates of its daily notice into MarketEvent (market/services/            *)
(* dse_events.py), and the sectors of its directory into Stock             *)
(* (dse_sector_sync.py).  A run may be killed anywhere.  The task takes    *)
(* the market-write lock, manage.py runs the same function without it, and *)
(* an event is looked up first and stored then.  Staff edit events.        *)
(*                                                                         *)
(* A title stands for company and purpose, a venue for every other text.   *)
(***************************************************************************)
EXTENDS Integers, Sequences, FiniteSets, SequencesExt

CONSTANTS NoticeRuns,        \* runs of the task and of the command
          Notices,        \* bound: what the notice may say, sequences of rows
          MaxChanges,     \* bound: new notices and edits; changes of the directory
          MaxEvents,      \* bound: rows of MarketEvent
          Codes, Directories  \* bound: what the directory may say, sequences of pages

IsSequence(q) == q \in Seq({q[i] : i \in DOMAIN q})
ASSUME PagesAssumption == \A q \in Notices \cup Directories : IsSequence(q)

VARIABLES notice,      \* the exchange's
          event,       \* MarketEvent
          syncRun,         \* what each run has left to store
          changes,     \* auxiliary: how often staff or the exchange changed something
          undisturbed, \* auxiliary: the runs nothing happened in but themselves
          shown,       \* auxiliary: such a run was the last thing that happened
          overlapped   \* auxiliary: two runs were made at once
VARIABLES directory,   \* the exchange's
          stock,       \* Stock: sector and name of the codes that are known
          pagesLeft,   \* the pages a run has left
          moves,       \* auxiliary: how often the directory changed
          thorough,    \* auxiliary: the run missed nothing so far
          classified   \* auxiliary: such a run was the last thing that happened

eventVars == <<notice, event, syncRun, changes, undisturbed, shown, overlapped>>
sectorVars == <<directory, stock, pagesLeft, moves, thorough, classified>>

NoDate == 0
NoEvent == [key |-> <<>>, text |-> <<>>, public |-> FALSE]
NoRun == [todo |-> <<>>, found |-> 0, looked |-> FALSE]
Unlisted == [sector |-> "", name |-> "", known |-> FALSE]

EventsInit ==
    /\ notice \in Notices /\ event = <<>>
    /\ syncRun = [s \in NoticeRuns |-> NoRun]
    /\ changes = 0 /\ undisturbed = {} /\ shown = FALSE /\ overlapped = FALSE

-----------------------------------------------------------------------------
(* sync_dse_agm_egm_events                                                 *)

\* The meeting of a row carries its purpose in the title, the record date in the
\* details; dates that are not announced are skipped.
RowEvents(row) ==
    (IF row.meeting = NoDate THEN <<>>
     ELSE <<[key |-> <<row.company, row.purpose, "meeting", row.meeting>>,
             text |-> <<row.venue>>]>>)
    \o
    (IF row.record = NoDate THEN <<>>
     ELSE <<[key |-> <<row.company, "", "record date", row.record>>,
             text |-> <<row.venue, row.purpose>>]>>)

NoticeEvents(n) == FlattenSeq([i \in DOMAIN n |-> RowEvents(n[i])])

Active == {s \in NoticeRuns : syncRun[s] # NoRun}

\* Somebody else's step.
Disturb(s) == undisturbed' = undisturbed \ (Active \ {s})

\* The notice cannot be read or has no rows: nothing happens.
BeginEvents(s) ==
    /\ syncRun[s] = NoRun /\ NoticeEvents(notice) # <<>>
    /\ syncRun' = [syncRun EXCEPT ![s].todo = NoticeEvents(notice)]
    /\ undisturbed' = IF Active = {} THEN {s} ELSE {}
    /\ overlapped' = (overlapped \/ Active # {})
    /\ UNCHANGED <<notice, event, changes, shown>>

\* _upsert_event: filter(...).first(), any of several
FindEvent(s) ==
    /\ syncRun[s].todo # <<>> /\ ~syncRun[s].looked
    /\ LET same == {i \in DOMAIN event : event[i].key = Head(syncRun[s].todo).key}
       IN  \E i \in IF same = {} THEN {0} ELSE same :
             syncRun' = [syncRun EXCEPT ![s].looked = TRUE, ![s].found = i]
    /\ Disturb(s) /\ UNCHANGED <<notice, event, changes, shown, overlapped>>

EventRow(e, public) == [key |-> e.key, text |-> e.text, public |-> public]

\* Fault: what staff have hidden stays hidden.
StoredPrivately(e, i) ==
    IF i = 0 THEN Append(event, EventRow(e, TRUE))
    ELSE [event EXCEPT ![i] = EventRow(e, event[i].public)]

\* create, or update what has changed
Stored(e, i) ==
    IF i = 0 THEN Append(event, EventRow(e, TRUE))
    ELSE [event EXCEPT ![i] = EventRow(e, TRUE)]

\* A row that was deleted in between cannot be updated: the run fails.
StoreEvent(s) ==
    /\ syncRun[s].looked
    /\ LET gone == syncRun[s].found # 0 /\ event[syncRun[s].found] = NoEvent
           last == Len(syncRun[s].todo) = 1
       IN  /\ syncRun[s].found = 0 => Len(event) < MaxEvents
           /\ event' = IF gone THEN event ELSE Stored(Head(syncRun[s].todo), syncRun[s].found)
           /\ syncRun' = [syncRun EXCEPT ![s] = IF gone \/ last THEN NoRun
                                        ELSE [NoRun EXCEPT !.todo = Tail(syncRun[s].todo)]]
           /\ shown' = (last /\ ~gone /\ s \in undisturbed)
    /\ Disturb(s) /\ UNCHANGED <<notice, changes, overlapped>>

KillEvents(s) ==
    /\ syncRun[s] # NoRun /\ syncRun' = [syncRun EXCEPT ![s] = NoRun]
    /\ Disturb(s) /\ UNCHANGED <<notice, event, changes, shown, overlapped>>

Change ==
    /\ changes < MaxChanges /\ changes' = changes + 1 /\ shown' = FALSE
    /\ undisturbed' = {} /\ UNCHANGED <<syncRun, overlapped>>

Announce(n) == n # notice /\ notice' = n /\ Change /\ UNCHANGED event

\* MarketEventAdmin
EditEvent(i) ==
    /\ event[i] # NoEvent /\ Change /\ UNCHANGED notice
    /\ \E e \in {NoEvent, [event[i] EXCEPT !.public = FALSE],
                 [event[i] EXCEPT !.text = <<"by staff">>]} : event' = [event EXCEPT ![i] = e]

EventsNext ==
    \/ \E s \in NoticeRuns : BeginEvents(s) \/ FindEvent(s) \/ StoreEvent(s) \/ KillEvents(s)
    \/ \E n \in Notices : Announce(n)
    \/ \E i \in DOMAIN event : EditEvent(i)

EventsSpec == EventsInit /\ [][EventsNext]_eventVars

-----------------------------------------------------------------------------
(* sync_dse_sector_classification                                          *)

SectorsInit ==
    /\ directory \in Directories /\ stock = [c \in Codes |-> Unlisted]
    /\ pagesLeft = <<>> /\ moves = 0 /\ thorough = FALSE /\ classified = FALSE

\* fetch_industry_numbers; without any nothing happens.
BeginSectors ==
    /\ pagesLeft = <<>> /\ directory # <<>>
    /\ pagesLeft' = [i \in DOMAIN directory |-> i] /\ thorough' = TRUE
    /\ UNCHANGED <<directory, stock, moves, classified>>

\* A name that is missing on the page, and a code that is not known, change nothing.
Classified(c, page) ==
    [stock[c] EXCEPT !.sector = page.sector,
                     !.name = IF page.names[c] = "" THEN @ ELSE page.names[c]]

\* One page, read as it is now: all of it, or it is skipped, or the run is killed
\* after some of its rows.
ReadSector ==
    /\ pagesLeft # <<>>
    /\ LET page == directory[Head(pagesLeft)]
           listed == {c \in DOMAIN page.names : stock[c].known}
       IN  \E done \in SUBSET listed, killed \in BOOLEAN :
             /\ stock' = [c \in Codes |-> IF c \in done THEN Classified(c, page) ELSE stock[c]]
             /\ ~killed => done \in {listed, {}}
             /\ pagesLeft' = IF killed THEN <<>> ELSE Tail(pagesLeft)
             /\ thorough' = (thorough /\ done = listed /\ ~killed)
             /\ classified' = (thorough' /\ pagesLeft' = <<>>)
    /\ UNCHANGED <<directory, moves>>

Reclassify ==
    /\ moves < MaxChanges /\ moves' = moves + 1
    /\ directory' \in {d \in Directories \ {directory} : Len(d) = Len(directory)}
    /\ thorough' = FALSE /\ classified' = FALSE
    /\ UNCHANGED <<stock, pagesLeft>>

\* A stock is created by the live quotes.
Quote(c) ==
    /\ ~stock[c].known /\ stock' = [stock EXCEPT ![c].known = TRUE]
    /\ thorough' = FALSE /\ classified' = FALSE
    /\ UNCHANGED <<directory, pagesLeft, moves>>

SectorsNext ==
    BeginSectors \/ ReadSector \/ Reclassify \/ \E c \in Codes : Quote(c)

SectorsSpec == SectorsInit /\ [][SectorsNext]_sectorVars
-----------------------------------------------------------------------------

\* "never delete, only add/update" (dse_events.py, dse_sector_sync.py): whatever
\* was stored by runs that were killed, of earlier notices or by staff, a run that
\* nothing disturbs makes every announced date public with the text of its last
\* row, and the sectors those of the directory, with a name it knows kept.  No
\* date is published twice but by a command that runs beside the task.
PagesCopied ==
    /\ LET wanted == NoticeEvents(notice)
       IN  shown => \A i \in DOMAIN wanted :
             (\A j \in DOMAIN wanted : j > i => wanted[j].key # wanted[i].key) =>
               \E e \in DOMAIN event :
                 event[e] = EventRow(wanted[i], TRUE)
    /\ overlapped \/ \A i, j \in DOMAIN event :
         i # j /\ event[i] # NoEvent => event[i].key # event[j].key
    /\ classified => \A c \in Codes :
         LET on == {i \in DOMAIN directory : c \in DOMAIN directory[i].names}
         IN  stock[c].known /\ on # {} =>
               \E i \in on : /\ \A j \in on : j <= i
                             /\ stock[c].sector = directory[i].sector
                             /\ directory[i].names[c] \in {"", stock[c].name}
=============================================================================
