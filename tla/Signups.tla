--------------------------------- MODULE Signups ---------------------------------
(* AuthService.signup: looks for the email, awaits the hash of the password and     *)
(* inserts the user.  The column email is unique.                                   *)
CONSTANTS
    Signups,    \* calls of signup(), each with a password of its own
    Emails,
    None

VARIABLES
    signups,    \* Signups -> where the call is and its email, or None
    users       \* the rows: email and the call whose password they hold

vars == <<signups, users>>

Init ==
    /\ signups = [s \in Signups |-> None]
    /\ users = {}

Taken(email) == \E u \in users : u.email = email

Waiting(s, at) == signups[s] # None /\ signups[s].at = at

Goto(s, at) == signups' = [signups EXCEPT ![s].at = at]

\* Answered with an error; a call that has failed may be made again.
Refuse(s) == signups' = [signups EXCEPT ![s] = None]

Signup(s, email) ==
    /\ signups[s] = None
    /\ signups' = [signups EXCEPT ![s] = [at |-> "find", email |-> email]]
    /\ UNCHANGED users

FindByEmail(s) ==
    /\ Waiting(s, "find")
    /\ IF Taken(signups[s].email) THEN Refuse(s) ELSE Goto(s, "hash")
    /\ UNCHANGED users

Hashed(s) ==
    /\ Waiting(s, "hash")
    /\ Goto(s, "insert")
    /\ UNCHANGED users

\* Mutant: the column is not unique.
CreateUser_NotUnique(s) ==
    /\ Waiting(s, "insert")
    /\ Goto(s, "answered")
    /\ users' = users \cup {[email |-> signups[s].email, of |-> s]}

\* The insert of an email that has come meanwhile fails.
CreateUser(s) ==
    /\ Waiting(s, "insert")
    /\ \/ /\ ~Taken(signups[s].email)
          /\ users' = users \cup {[email |-> signups[s].email, of |-> s]}
          /\ Goto(s, "answered")
       \/ /\ Taken(signups[s].email)
          /\ Refuse(s)
          /\ UNCHANGED users

\* The query fails, or the connection is lost before its result is known.
DatabaseFails(s) ==
    /\ Waiting(s, "find") \/ Waiting(s, "insert")
    /\ Refuse(s)
    /\ \/ UNCHANGED users
       \/ /\ Waiting(s, "insert") /\ ~Taken(signups[s].email)
          /\ users' = users \cup {[email |-> signups[s].email, of |-> s]}

Next ==
    \E s \in Signups :
        \/ \E email \in Emails : Signup(s, email)
        \/ FindByEmail(s)
        \/ Hashed(s)
        \/ CreateUser(s)
        \/ DatabaseFails(s)

Spec == Init /\ [][Next]_vars

-------------------------------------------------------------------------------

\* However signups overlap: an email has one account, and whoever was answered with
\* tokens has it, with the password they gave (signup, createUser).
OneAccountPerEmail ==
    /\ \A u, v \in users : u.email = v.email => u = v
    /\ \A s \in Signups : Waiting(s, "answered") =>
          [email |-> signups[s].email, of |-> s] \in users
===============================================================================
