----------------------------- MODULE MCChatRequests -----------------------------
(* Model-checking instances of the two kinds of request of the chat that must be   *)
(* answered whatever another service does: an answer stream and a synthesis of      *)
(* speech.  A behaviour is about one of them.                                       *)
EXTENDS ChatStream

CONSTANT MaxChunks

VARIABLES
    reader, spoken, closed, chunks, timer, answer,
    about         \* "stream" or "speech"; it never changes

S == INSTANCE Speech WITH sent <- spoken

speechVars == <<reader, spoken, closed, chunks, timer, answer>>

mcvars == <<vars, speechVars, about>>

MCInit == Init /\ S!Init /\ about \in {"stream", "speech"}

OfStream(A) == about = "stream" /\ A /\ UNCHANGED <<speechVars, about>>

OfSpeech(A) == about = "speech" /\ A /\ UNCHANGED <<vars, about>>

MCNext == OfStream(Next) \/ OfSpeech(S!Next)

\* The event loop handles what has arrived, and the timer of the synthesis fires.
\* Nothing is assumed of the Python API or of Edge.
MCFairSpec ==
    /\ MCInit /\ [][MCNext]_mcvars
    /\ WF_mcvars(OfStream(Read))
    /\ WF_mcvars(OfStream(EndOfBody))
    /\ WF_mcvars(OfStream(BodyFails))
    /\ WF_mcvars(OfStream(Aborted))
    /\ WF_mcvars(OfSpeech(S!TimerFires))

-------------------------------------------------------------------------------

\* A page that asks for speech is answered even if Edge falls silent (synthesize).
EverySpeechAnswered == S!EverySpeechAnswered
===============================================================================
