-------------------------------- MODULE Recipes --------------------------------
(* RecipesService: create, update and remove of rows that every visitor may       *)
(* change.  update and remove await findOne before they write.  The save of an    *)
(* entity with a key selects its row again, and updates the columns in which the  *)
(* entity differs from it, or inserts the entity when the row is gone.            *)
EXTENDS Naturals

CONSTANTS
    Calls,     \* requests in progress
    Fields,    \* the columns: title, ingredients, ...
    Values,
    MaxId,     \* bound: recipes ever created
    None

Ids == 1 .. MaxId

Recipe == [Fields -> Values]

\* The body of an update: some of the fields.
Patches == UNION {[F -> Values] : F \in SUBSET Fields \ {{}}}

VARIABLES
    repo,         \* Ids -> Recipe or None
    nextId,       \* the id of the next insert
    calls,        \* Calls -> the request: where it is, its id, body and entity
    book,         \* what the answered requests have asked the recipes to be that
                  \* no two were about at the same time (history)
    overlapped    \* ids that two requests were about at the same time (history)

vars == <<repo, nextId, calls, book, overlapped>>

Init ==
    /\ repo = [id \in Ids |-> None]
    /\ nextId = 1
    /\ calls = [c \in Calls |-> None]
    /\ book = [id \in Ids |-> None]
    /\ overlapped = {}

Merge(row, patch) == [f \in Fields |-> IF f \in DOMAIN patch THEN patch[f] ELSE row[f]]

Waiting(c, at) == calls[c] # None /\ calls[c].at = at

Busy(id) == id # None /\ \E c \in Calls : calls[c] # None /\ calls[c].id = id

Begin(c, at, id, body) ==
    /\ calls[c] = None
    /\ calls' = [calls EXCEPT ![c] =
           [at |-> at, id |-> id, body |-> body, entity |-> None, changed |-> {}]]
    /\ overlapped' = IF Busy(id) THEN overlapped \cup {id} ELSE overlapped
    /\ book' = IF Busy(id) THEN [book EXCEPT ![id] = None] ELSE book
    /\ UNCHANGED <<repo, nextId>>

\* The request is answered: row id is now `row`, as it was asked to be `wanted`.
Answer(c, id, row, wanted) ==
    /\ repo' = [repo EXCEPT ![id] = row]
    /\ book' = IF id \in overlapped THEN book ELSE [book EXCEPT ![id] = wanted]
    /\ calls' = [calls EXCEPT ![c] = None]
    /\ UNCHANGED overlapped

\* Answered with an error, nothing is written.
Refuse(c) ==
    /\ calls' = [calls EXCEPT ![c] = None]
    /\ UNCHANGED <<repo, nextId, book, overlapped>>

-------------------------------------------------------------------------------

Create(c, recipe) == Begin(c, "insert", None, recipe)

Inserted(c) ==
    /\ Waiting(c, "insert") /\ nextId \in Ids
    /\ Answer(c, nextId, calls[c].body, calls[c].body)
    /\ nextId' = nextId + 1

Update(c, id, patch) == Begin(c, "find", id, patch)

\* Mutant: the body is saved without the entity that was found.
Found_NotMerged(c) ==
    /\ Waiting(c, "find")
    /\ repo[calls[c].id] # None
    /\ \E other \in Recipe :
          calls' = [calls EXCEPT ![c].at = "load", ![c].entity = Merge(other, calls[c].body)]
    /\ UNCHANGED <<repo, nextId, book, overlapped>>

Found(c) ==
    /\ Waiting(c, "find")
    /\ LET recipe == repo[calls[c].id] IN
       \/ recipe = None /\ Refuse(c)
       \/ /\ recipe # None
          /\ calls' = [calls EXCEPT ![c].at = "load", ![c].entity = Merge(recipe, calls[c].body)]
          /\ UNCHANGED <<repo, nextId, book, overlapped>>

\* What an update asks its recipe to be.
Wanted(c) == Merge(book[calls[c].id], calls[c].body)

\* save() has selected the row: when nothing is different, nothing is written.
Loaded(c) ==
    /\ Waiting(c, "load")
    /\ LET id == calls[c].id
           changed == {f \in Fields : calls[c].entity[f] # repo[id][f]} IN
       \/ /\ repo[id] = None
          /\ calls' = [calls EXCEPT ![c].at = "reinsert"]
          /\ UNCHANGED <<repo, book, overlapped>>
       \/ /\ repo[id] # None /\ changed = {}
          /\ Answer(c, id, repo[id], Wanted(c))
       \/ /\ repo[id] # None /\ changed # {}
          /\ calls' = [calls EXCEPT ![c].at = "update", ![c].changed = changed]
          /\ UNCHANGED <<repo, book, overlapped>>
    /\ UNCHANGED nextId

\* The update changes nothing when the row has been removed since.
Updated(c) ==
    /\ Waiting(c, "update")
    /\ LET id == calls[c].id
           row == IF repo[id] = None THEN None
                  ELSE [f \in Fields |-> IF f \in calls[c].changed THEN calls[c].entity[f]
                                         ELSE repo[id][f]]
       IN  Answer(c, id, row, Wanted(c))
    /\ UNCHANGED nextId

\* When another update has inserted the recipe again, the insert fails.
Reinserted(c) ==
    /\ Waiting(c, "reinsert")
    /\ repo[calls[c].id] = None
    /\ Answer(c, calls[c].id, calls[c].entity, Wanted(c))
    /\ UNCHANGED nextId

Remove(c, id) == Begin(c, "findToRemove", id, None)

FoundToRemove(c) ==
    /\ Waiting(c, "findToRemove")
    /\ \/ repo[calls[c].id] = None /\ Refuse(c)
       \/ /\ repo[calls[c].id] # None
          /\ calls' = [calls EXCEPT ![c].at = "delete"]
          /\ UNCHANGED <<repo, nextId, book, overlapped>>

Deleted(c) ==
    /\ Waiting(c, "delete")
    /\ Answer(c, calls[c].id, None, None)
    /\ UNCHANGED nextId

DatabaseFails(c) == calls[c] # None /\ Refuse(c)

Next ==
    \E c \in Calls :
        \/ \E recipe \in Recipe : Create(c, recipe)
        \/ \E id \in Ids, patch \in Patches : Update(c, id, patch)
        \/ \E id \in Ids : Remove(c, id)
        \/ Inserted(c)
        \/ Found(c)
        \/ Loaded(c)
        \/ Updated(c)
        \/ Reinserted(c)
        \/ FoundToRemove(c)
        \/ Deleted(c)
        \/ DatabaseFails(c)

Spec == Init /\ [][Next]_vars

-------------------------------------------------------------------------------

\* A recipe that requests were about one at a time, whatever others did meanwhile,
\* is what the answered ones made of it: fields an update does not name keep their
\* value, what was removed stays away, a request that failed changed nothing
\* (create, update, remove).
ChangedAsAsked ==
    \A id \in Ids : id \notin overlapped => repo[id] = book[id]
===============================================================================
