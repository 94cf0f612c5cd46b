---------------------------- MODULE SessionGrants ----------------------------
(* What the media tokens of the Telegram bridge promise, without clients,    *)
(* requests or sockets: a token opens the media of one session, it is handed *)
(* out only while that session is live, and it never outlives the session.   *)
(* TelegramSessions implements this specification.                           *)

CONSTANTS SessionIds, Tokens, None

VARIABLES
    live,    \* the ids with a Telegram connection in memory
    grants   \* token -> the session it opens, or None

vars == <<live, grants>>

TypeOK ==
    /\ live \subseteq SessionIds
    /\ grants \in [Tokens -> SessionIds \cup {None}]

Init ==
    /\ live = {}
    /\ grants = [t \in Tokens |-> None]

Open(s) ==
    /\ live' = live \cup {s}
    /\ UNCHANGED grants

Grant(t, s) ==
    /\ s \in live
    /\ grants[t] = None
    /\ grants' = [grants EXCEPT ![t] = s]
    /\ UNCHANGED live

\* The sessions S end, and the tokens T expire in the same step.
Close(S, T) ==
    /\ live' = live \ S
    /\ grants' = [t \in Tokens |->
                    IF t \in T \/ grants[t] \in S THEN None ELSE grants[t]]

Next ==
    \/ \E s \in SessionIds : Open(s)
    \/ \E t \in Tokens, s \in SessionIds : Grant(t, s)
    \/ \E S \in SUBSET SessionIds, T \in SUBSET Tokens : Close(S, T)

Spec == Init /\ [][Next]_vars

\* A token opens no session that has ended (revokeMediaTokens runs wherever a
\* session is dropped).
NoDanglingGrant == \A t \in Tokens : grants[t] # None => grants[t] \in live
=============================================================================
