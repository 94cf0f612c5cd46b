---------------------------- MODULE MCFailedLogins ----------------------------
(* Model-checking instances of the module auth: FailedLogins for the logins from *)
(* one address, and Signups.  They write different tables, so a behaviour is     *)
(* about one of them; in half of those about logins one is at work at a time.    *)
EXTENDS FailedLogins

CONSTANTS Signups, Emails

VARIABLES
    signups, users,
    about        \* what the behaviour is about; it never changes

S == INSTANCE Signups

signupVars == <<signups, users>>

mcvars == <<vars, signupVars, about>>

OneLogin == \A k, l \in Logins : logins[k] # None /\ logins[l] # None => k = l

MCInit == Init /\ S!Init /\ about \in {"logins", "logins one by one", "signups"}

OfLogins(A) ==
    /\ about \in {"logins", "logins one by one"}
    /\ A
    /\ about = "logins one by one" => OneLogin'
    /\ UNCHANGED <<signupVars, about>>

OfSignups(A) == about = "signups" /\ A /\ UNCHANGED <<vars, about>>

MCNext == OfLogins(Next) \/ OfSignups(S!Next)

MCSpec == MCInit /\ [][MCNext]_mcvars

\* Every query is answered or fails, and time passes.
MCFairSpec ==
    /\ MCSpec
    /\ WF_mcvars(OfLogins(Tick))
    /\ \A l \in Logins : WF_mcvars(OfLogins(Answered(l)))

-------------------------------------------------------------------------------

\* With one login at a time, no more than the limit of wrong passwords is answered
\* in a row without a pause of the length of a block (isBlocked).
GuessesBoundedOneByOne == about = "logins one by one" => GuessesBounded

\* With one login at a time, a block lasts for its whole time or until a login
\* that had passed it succeeds (isBlocked, "Block for 5 minutes").
BlockLastsOneByOne == [][about = "logins one by one" => KeepsBlock]_vars

\* An email has one account, and the signup that was answered with tokens has it
\* (signup, createUser).
OneAccountPerEmail == S!OneAccountPerEmail
===============================================================================
