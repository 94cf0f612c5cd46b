--------------------------- MODULE DifficultySettings ---------------------------
(* The settings of Math4Lisa: one row of the table, and what the open pages show.  *)
(* New settings go to all pages at once and are saved without an await, so a query *)
(* that fails is a rejection nobody handles: the process ends, the pages lose       *)
(* their connection, and the service is started again.                             *)
CONSTANTS
    Updates,     \* calls of updateDifficultySettings in progress
    Pages,
    Settings,
    Default,     \* what getSettings answers without a row
    None

VARIABLES
    row,          \* the row with id 1, or None
    updates,      \* Updates -> where the call is and its settings, or None
    asking,       \* pages that wait for the answer to getSettings
    view,         \* Pages -> the settings the page shows, or None
    overlapped    \* an update was at work when another request came, or a
                  \* question when an update came (history)

vars == <<row, updates, asking, view, overlapped>>

Init ==
    /\ row = None
    /\ updates = [u \in Updates |-> None]
    /\ asking = {}
    /\ view = [p \in Pages |-> None]
    /\ overlapped = FALSE

Saving == \E u \in Updates : updates[u] # None

Stored == IF row = None THEN Default ELSE row

Waiting(u, at) == updates[u] # None /\ updates[u].at = at

Goto(u, at) == updates' = [updates EXCEPT ![u].at = at]

\* Mutant: broadcast to the other pages only.
HandleUpdateSettings_Others(u, p, s) ==
    /\ updates[u] = None
    /\ updates' = [updates EXCEPT ![u] = [at |-> "find", settings |-> s]]
    /\ view' = [q \in Pages |-> IF q = p THEN view[p] ELSE s]
    /\ overlapped' = (overlapped \/ Saving \/ asking # {})
    /\ UNCHANGED <<row, asking>>

\* Page p sends new settings.  The page that sent them hears of them like the rest.
HandleUpdateSettings(u, p, s) ==
    /\ updates[u] = None
    /\ updates' = [updates EXCEPT ![u] = [at |-> "find", settings |-> s]]
    /\ view' = [q \in Pages |-> s]
    /\ overlapped' = (overlapped \/ Saving \/ asking # {})
    /\ UNCHANGED <<row, asking>>

Found(u) ==
    /\ Waiting(u, "find")
    /\ Goto(u, IF row = None THEN "insert" ELSE "update")
    /\ UNCHANGED <<row, asking, view, overlapped>>

\* The insert gets the next id, so only the first one makes row 1.
Write(u) ==
    /\ Waiting(u, "insert") \/ Waiting(u, "update")
    /\ row' = IF updates[u].at = "update" \/ row = None THEN updates[u].settings ELSE row

Written(u) ==
    /\ Write(u)
    /\ Goto(u, "reread")
    /\ UNCHANGED <<asking, view, overlapped>>

Reread(u) ==
    /\ Waiting(u, "reread")
    /\ updates' = [updates EXCEPT ![u] = None]
    /\ UNCHANGED <<row, asking, view, overlapped>>

\* The process ends and is started again; what was on its way to the database may
\* still get there.
UpdateFails(u) ==
    /\ updates[u] # None
    /\ \/ row' = row
       \/ \E w \in Updates : Write(w)
    /\ updates' = [w \in Updates |-> None]
    /\ asking' = {}
    /\ view' = [p \in Pages |-> None]
    /\ overlapped' = FALSE

HandleGetSettings(p) ==
    /\ p \notin asking
    /\ asking' = asking \cup {p}
    /\ overlapped' = (overlapped \/ Saving)
    /\ UNCHANGED <<row, updates, view>>

GetSettingsAnswered(p) ==
    /\ p \in asking
    /\ asking' = asking \ {p}
    /\ \/ view' = [view EXCEPT ![p] = Stored]
       \/ view' = view      \* the query failed
    /\ UNCHANGED <<row, updates, overlapped>>

Next ==
    \/ \E u \in Updates, p \in Pages, s \in Settings : HandleUpdateSettings(u, p, s)
    \/ \E u \in Updates : Found(u) \/ Written(u) \/ Reread(u) \/ UpdateFails(u)
    \/ \E p \in Pages : HandleGetSettings(p) \/ GetSettingsAnswered(p)

Spec == Init /\ [][Next]_vars

-------------------------------------------------------------------------------

\* When settings are saved, every page shows what is stored, provided that no
\* request overlapped an update since the process started: the broadcast that
\* precedes the save is not taken back by a page that asks, a page that came later,
\* a row that did not exist or a process that ended on a failed query.
PagesShowStored ==
    ~overlapped /\ ~Saving => \A p \in Pages : view[p] \in {None, Stored}
===============================================================================
