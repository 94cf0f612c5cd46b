----------------------------- MODULE MCChatSessions -----------------------------
(* Model-checking instances of ChatSessions.  In some behaviours the frontend     *)
(* waits for an answer before it asks again in the same chat; in the others       *)
(* questions overlap, as two windows with one session id can make them.  The      *)
(* questions and the chats are numbers here; no definition tells one from         *)
(* another, so it is enough that they are used in their order.                    *)
EXTENDS ChatSessions

VARIABLE waits    \* does the frontend wait?  It never changes.

mcvars == <<vars, waits>>

OneQuestionPerChat ==
    \A p, q \in Questions :
        Running(p) /\ Running(q) /\ streams[p].sid = streams[q].sid => p = q

Asked(s) == \E q \in Questions : streams[q] # None /\ streams[q].sid = s

UsedInOrder ==
    /\ \A p, q \in Questions : p < q /\ streams[q] # None => streams[p] # None
    /\ \A r, s \in Sids : r < s /\ Asked(s) => Asked(r)

MCInit == Init /\ waits \in BOOLEAN

MCNext ==
    /\ Next
    /\ UsedInOrder'
    /\ waits => OneQuestionPerChat'
    /\ UNCHANGED waits

MCSpec == MCInit /\ [][MCNext]_mcvars

\* The clock runs, and so does the cleanup interval.
MCFairSpec ==
    /\ MCSpec
    /\ WF_mcvars(Tick /\ UNCHANGED waits)
    /\ WF_mcvars(RemoveExpired /\ UNCHANGED waits)

-------------------------------------------------------------------------------

\* When the frontend waits, what a chat has been told stays in its history, in the
\* messages or in their summary, for as long as the chat is kept (streamReply).
AnswersKeptWhenWaiting == [][waits => KeepsAnswers]_vars
===============================================================================
