-------------------------- MODULE MCTelegramSessions --------------------------
(* Model-checking instances of TelegramSessions.  A behaviour either lets      *)
(* requests overlap, or has one request at a time await Telegram; the latter   *)
(* is what some properties need, and has more pages instead of media tokens.   *)
EXTENDS TelegramSessions, TLC

CONSTANT FirstSocket    \* the one that is used when requests overlap

VARIABLE calm    \* one request at a time?  It never changes.

mcvars == <<vars, calm>>

OneRequest == \A q, r \in Requests : requests[q] # None /\ requests[r] # None => q = r

NoToken == \A t \in Tokens : mediaTokens[t] = None

OneSocket == \A k \in Sockets : room[k] # None => k = FirstSocket

MCInit == Init /\ calm \in BOOLEAN

MCNext ==
    /\ Next
    /\ IF calm THEN OneRequest' /\ NoToken' ELSE OneSocket'
    /\ UNCHANGED calm

MCSpec == MCInit /\ [][MCNext]_mcvars

\* No definition treats one session id, client, callback, request or token unlike
\* another.
Symmetry ==
    UNION {Permutations(SessionIds), Permutations(Clients),
           Permutations(CallbackIds), Permutations(Requests),
           Permutations(Tokens)}

-------------------------------------------------------------------------------

\* A connection to Telegram that no session answers for comes about in only two
\* ways: a client is connected again after its session was dropped, or a request
\* ends that meant the client an id had before it logged in anew; and with one
\* request at a time in the former only (initClient, ensureClient, logout,
\* cleanupInactiveSessions).
StrayConnectionsExplained ==
    [][\A c \in Clients :
          Stray(c)' => Stray(c) \/ ComesBack(c) \/ (~calm /\ Overtaken(c))]_vars

\* With one request at a time, the code a user types is checked against the hash
\* of the client that asked for it, and a client that is no longer any session's
\* holds no handler that could still emit to a room (sendCode, signIn, logout).
ClientsKeptApartWhenCalm == calm => OwnPhoneCode /\ NoForeignSubscription
===============================================================================
