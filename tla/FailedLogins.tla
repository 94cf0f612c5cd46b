----------------------------- MODULE FailedLogins -----------------------------
(* AuthService.login and the table of failed logins behind it, for one IP       *)
(* address: every query filters by the address and by nothing else, so two      *)
(* addresses share nothing and all emails share the rows of their address.      *)
(* A login awaits the database several times; the answer of one call and the    *)
(* work up to the next call are one action.  The save() of TypeORM is two calls *)
(* itself: it selects the row by its key, and then updates the columns in which *)
(* the entity differs from it, or inserts the entity when there is no row.      *)
(*                                                                              *)
(* blockedUntil is kept as the time that is left until then, 0 once it has      *)
(* passed.  A tick is longer than a database call.                              *)
EXTENDS Naturals, FiniteSets

CONSTANTS
    Logins,        \* calls of login() in progress
    RowIds,        \* primary keys (uuid) of the table
    MaxFailures,   \* failed attempts that lead to a block
    Block,         \* five minutes, in ticks
    MaxAttempts,   \* bound on the counter of a row
    None

ASSUME FailedLoginsAssumption ==
    /\ MaxFailures \in Nat \ {0}
    /\ Block \in Nat \ {0}
    /\ MaxAttempts \in Nat /\ MaxFailures <= MaxAttempts
    /\ IsFiniteSet(Logins)

FailedLogin == [failedAttempts : Nat, blockedUntil : 0 .. Block \cup {None}]

\* What save() waits for: its select by the key, its update, its insert.
Saves == {"load", "update", "insert"}

\* What a login waits for: isBlocked's query and its delete, the comparison of
\* the password, incrementFailedLogin's query and its save, the final delete.
Waits == {"isBlocked", "unblock", "compare", "find", "reset"} \cup Saves

Columns == {"failedAttempts", "blockedUntil"}

\* `id` and `row` are the entity that incrementFailedLogin saves, `changed` the
\* columns that the update is going to set.
Login ==
    [at : Waits, id : RowIds \cup {None}, row : FailedLogin \cup {None},
     changed : SUBSET Columns]

ASSUME NoneAssumption ==
    /\ None \notin FailedLogin \cup Login
    /\ None \notin Nat \cup RowIds

VARIABLES
    rows,        \* primary key -> the row of this address, or None
    logins,      \* Logins -> what the call is doing, or None
    streak,      \* wrong passwords without a pause of five minutes (history)
    sinceWrong,  \* the time since the last one (history)
    given        \* wrong passwords of which the table may still tell (history)

history == <<streak, sinceWrong, given>>
vars == <<rows, logins, history>>

Rows == {id \in RowIds : rows[id] # None}

\* Bound on the history of wrong passwords.
MaxGiven == MaxAttempts + Cardinality(Logins)

TypeOK ==
    /\ rows \in [RowIds -> FailedLogin \cup {None}]
    /\ logins \in [Logins -> Login \cup {None}]
    /\ streak \in 0 .. MaxFailures + 1
    /\ sinceWrong \in 0 .. Block
    /\ given \in 0 .. MaxGiven

Init ==
    /\ rows = [id \in RowIds |-> None]
    /\ logins = [l \in Logins |-> None]
    /\ streak = 0
    /\ sinceWrong = Block
    /\ given = 0

Waiting(l, at) == logins[l] # None /\ logins[l].at = at

Goto(l, at) == logins' = [logins EXCEPT ![l].at = at]

End(l) == logins' = [logins EXCEPT ![l] = None]

NoRows == [id \in RowIds |-> None]

\* Neither the table nor a login on its way to it knows of a wrong password.
Clean ==
    /\ Rows = {}
    /\ \A l \in Logins : logins[l] # None => logins[l].at \notin {"find"} \cup Saves

Remember == given' = IF Clean' THEN 0 ELSE given

-------------------------------------------------------------------------------

\* The address is the first entry of X-Forwarded-For, or that of the connection:
\* it is the same for every login here.
StartLogin(l) ==
    /\ logins[l] = None
    /\ logins' = [logins EXCEPT ![l] =
           [at |-> "isBlocked", id |-> None, row |-> None, changed |-> {}]]
    /\ UNCHANGED <<rows, history>>

\* Mutant: a block that is still in force is taken for one that has passed.
IsBlocked_Inverted(l) ==
    /\ Waiting(l, "isBlocked")
    /\ \/ Rows = {} /\ Goto(l, "compare")
       \/ \E id \in Rows : rows[id].blockedUntil = None /\ Goto(l, "compare")
       \/ \E id \in Rows : rows[id].blockedUntil \in 1 .. Block /\ Goto(l, "unblock")
       \/ \E id \in Rows : rows[id].blockedUntil = 0 /\ End(l)
    /\ UNCHANGED <<rows, history>>

\* Mutant: a refused login counts as a failed one.
IsBlocked_Counts(l) ==
    /\ Waiting(l, "isBlocked")
    /\ \/ Rows = {} /\ Goto(l, "compare")
       \/ \E id \in Rows : rows[id].blockedUntil = None /\ Goto(l, "compare")
       \/ \E id \in Rows : rows[id].blockedUntil = 0 /\ Goto(l, "unblock")
       \/ \E id \in Rows : rows[id].blockedUntil \in 1 .. Block /\ Goto(l, "find")
    /\ UNCHANGED <<rows, history>>

\* isBlocked.  findOne() gives any of the rows when there are several.
IsBlocked(l) ==
    /\ Waiting(l, "isBlocked")
    /\ \/ Rows = {} /\ Goto(l, "compare")
       \/ \E id \in Rows : rows[id].blockedUntil = None /\ Goto(l, "compare")
       \/ \E id \in Rows : rows[id].blockedUntil = 0 /\ Goto(l, "unblock")
       \/ \E id \in Rows : rows[id].blockedUntil \in 1 .. Block /\ End(l)
    /\ UNCHANGED <<rows, history>>

ResetAfterBlock(l) ==
    /\ Waiting(l, "unblock")
    /\ rows' = NoRows
    /\ Goto(l, "compare")
    /\ Remember
    /\ UNCHANGED <<streak, sinceWrong>>

\* findByEmail and bcrypt.compare.
RightPassword(l) ==
    /\ Waiting(l, "compare")
    /\ Goto(l, "reset")
    /\ UNCHANGED <<rows, history>>

WrongPassword(l) ==
    /\ Waiting(l, "compare")
    /\ Goto(l, "find")
    /\ given' = IF given < MaxGiven THEN given + 1 ELSE given
    /\ UNCHANGED <<rows, streak, sinceWrong>>

\* Mutant: the block begins one failed attempt too early.
Failed_Early(n, until) ==
    [failedAttempts |-> n, blockedUntil |-> IF n >= MaxFailures - 1 THEN Block ELSE until]

\* Mutant: one failed attempt too many is allowed.
Failed_Late(n, until) ==
    [failedAttempts |-> n, blockedUntil |-> IF n > MaxFailures THEN Block ELSE until]

\* The entity after the n-th failed attempt, blocked until then before it.
Failed(n, until) ==
    [failedAttempts |-> n, blockedUntil |-> IF n >= MaxFailures THEN Block ELSE until]

FreshIds ==
    {id \in RowIds \ Rows : \A l \in Logins : logins[l] # None => logins[l].id # id}

\* incrementFailedLogin up to the first call of save(): a new entity, which has
\* no key and is inserted, or one more attempt on the row that was found.
FindFailedLogin(l) ==
    /\ Waiting(l, "find")
    /\ \/ /\ Rows = {}
          /\ \E id \in FreshIds :
                logins' = [logins EXCEPT
                    ![l].at = "insert", ![l].id = id, ![l].row = Failed(1, None)]
       \/ \E id \in Rows :
             /\ rows[id].failedAttempts < MaxAttempts
             /\ logins' = [logins EXCEPT
                    ![l].at = "load", ![l].id = id,
                    ![l].row = Failed(rows[id].failedAttempts + 1, rows[id].blockedUntil)]
    /\ UNCHANGED <<rows, history>>

\* save() is done: login() answers INVALID_LOGIN_CREDENTIALS.
Refused(l) ==
    /\ End(l)
    /\ streak' = IF sinceWrong >= Block THEN 1
                 ELSE IF streak <= MaxFailures THEN streak + 1 ELSE streak
    /\ sinceWrong' = 0
    /\ Remember

\* The columns in which an entity differs from the row as save() has selected it.
\* The block that this attempt has set differs in its milliseconds even when it
\* ends at the same tick as the one in the row.
Diff(row, entity) ==
    LET Different == {c \in Columns : entity[c] # row[c]}
        justSet == entity.failedAttempts >= MaxFailures
    IN  {Different} \cup (IF justSet THEN {Different \cup {"blockedUntil"}} ELSE {})

LoadFailedLogin(l) ==
    /\ Waiting(l, "load")
    /\ UNCHANGED rows
    /\ \/ rows[logins[l].id] = None /\ Goto(l, "insert") /\ UNCHANGED history
       \/ /\ rows[logins[l].id] # None
          /\ \E changed \in Diff(rows[logins[l].id], logins[l].row) :
                \/ changed = {} /\ Refused(l)
                \/ /\ changed # {}
                   /\ logins' = [logins EXCEPT ![l].at = "update", ![l].changed = changed]
                   /\ UNCHANGED history

Updated(row, entity, changed) ==
    [failedAttempts |->
        IF "failedAttempts" \in changed THEN entity.failedAttempts ELSE row.failedAttempts,
     blockedUntil |->
        IF "blockedUntil" \in changed THEN entity.blockedUntil ELSE row.blockedUntil]

\* The update by the key changes nothing when the row has been deleted.
UpdateFailedLogin(l) ==
    LET id == logins[l].id
    IN  /\ Waiting(l, "update")
        /\ rows' = IF id \in Rows
                   THEN [rows EXCEPT ![id] = Updated(@, logins[l].row, logins[l].changed)]
                   ELSE rows
        /\ Refused(l)

\* When another login has inserted the same entity again, the insert fails.
InsertFailedLogin(l) ==
    /\ Waiting(l, "insert")
    /\ rows[logins[l].id] = None
    /\ rows' = [rows EXCEPT ![logins[l].id] = logins[l].row]
    /\ Refused(l)

\* resetFailedLogin of a login that succeeds.
ResetFailedLogin(l) ==
    /\ Waiting(l, "reset")
    /\ rows' = NoRows
    /\ End(l)
    /\ streak' = 0
    /\ Remember
    /\ UNCHANGED sinceWrong

\* A query fails: login() throws, and nothing is written.  (When the first one
\* fails, the login has not begun.)
DatabaseFails(l) ==
    /\ logins[l] # None /\ logins[l].at # "isBlocked"
    /\ End(l)
    /\ UNCHANGED <<rows, streak, sinceWrong>>
    /\ Remember

Elapsed(row) ==
    IF row # None /\ row.blockedUntil \in 1 .. Block
    THEN [row EXCEPT !.blockedUntil = row.blockedUntil - 1] ELSE row

Tick ==
    /\ \A l \in Logins : logins[l] # None => logins[l].at \notin Saves
    /\ rows' = [id \in RowIds |-> Elapsed(rows[id])]
    /\ sinceWrong' = IF sinceWrong < Block THEN sinceWrong + 1 ELSE sinceWrong
    /\ UNCHANGED <<logins, streak, given>>

Answered(l) ==
    \/ IsBlocked(l)
    \/ ResetAfterBlock(l)
    \/ RightPassword(l)
    \/ WrongPassword(l)
    \/ FindFailedLogin(l)
    \/ LoadFailedLogin(l)
    \/ UpdateFailedLogin(l)
    \/ InsertFailedLogin(l)
    \/ ResetFailedLogin(l)
    \/ DatabaseFails(l)

Next ==
    \/ \E l \in Logins : StartLogin(l) \/ Answered(l)
    \/ Tick

Spec == Init /\ [][Next]_vars

\* Every query is answered or fails, and time passes.
FairSpec == Spec /\ WF_vars(Tick) /\ \A l \in Logins : WF_vars(Answered(l))

-------------------------------------------------------------------------------
(* What holds however the logins overlap.                                     *)

\* Whichever columns the overlapping logins have written last, a row counts no
\* more failed attempts than wrong passwords were given since the address had
\* none, and it is blocked only when those have reached the limit.
BlockedForCause ==
    \A id \in Rows :
        /\ rows[id].failedAttempts <= given
        /\ rows[id].blockedUntil # None => given >= MaxFailures

InForce == \E id \in Rows : rows[id].blockedUntil \in 1 .. Block

\* Once no wrong password is given any more, no block is left after a while,
\* even if the visitor keeps trying in the meantime.
BlockEnds ==
    <>[][\A l \in Logins : ~WrongPassword(l)]_vars => <>[](~InForce)

-------------------------------------------------------------------------------
(* What holds while one login at a time is under way.                         *)

\* No more than the limit of wrong passwords is answered in a row without a
\* pause of the length of a block.
GuessesBounded == streak <= MaxFailures

\* A block is in force for its whole time ("Block for 5 minutes").
KeepsBlock ==
    InForce => InForce' \/ Tick \/ \E l \in Logins : ResetFailedLogin(l)

\* The same without a condition on the logins.
BlockLasts == [][KeepsBlock]_vars
===============================================================================
