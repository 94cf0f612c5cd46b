--------------------------------- MODULE Speech ---------------------------------
(* One POST chat/speech: the synthesis by the Edge service races a timer of 15      *)
(* seconds.  Edge is external: it connects, sends chunks and ends its stream, fails  *)
(* or falls silent at any point, also after the finally block has closed the         *)
(* connection: what the reader meets then is up to the library.                      *)
EXTENDS Naturals

CONSTANT MaxChunks    \* bound: chunks of one answer

VARIABLES
    reader,    \* read: "start", "connecting", "streaming", "ended" or "failed"
    sent,      \* chunks Edge has sent
    closed,    \* Edge has ended its stream
    chunks,    \* chunks that read has collected
    timer,     \* whether the timer is set
    answer     \* to the page: "none", "nothing" (204), "unavailable" (503) or
               \* "audio", which carries `chunks`

vars == <<reader, sent, closed, chunks, timer, answer>>

Init ==
    /\ reader = "start" /\ answer = "none"
    /\ sent = 0 /\ closed = FALSE /\ chunks = 0
    /\ timer = FALSE

\* Nothing is left of the text when speakable() has run.
NothingToSay ==
    /\ reader = "start" /\ answer = "none"
    /\ answer' = "nothing"
    /\ UNCHANGED <<reader, sent, closed, chunks, timer>>

Synthesize ==
    /\ reader = "start" /\ answer = "none"
    /\ reader' = "connecting" /\ timer' = TRUE
    /\ UNCHANGED <<sent, closed, chunks, answer>>

\* The race is decided, the finally block runs and the controller answers.
Settle(result) ==
    /\ answer = "none"
    /\ answer' = result
    /\ timer' = FALSE

\* A result of read that comes after the race goes to nobody.
TooLate == answer # "none" /\ UNCHANGED <<timer, answer>>

Connected ==
    /\ reader = "connecting"
    /\ reader' = "streaming"
    /\ UNCHANGED <<sent, closed, chunks, timer, answer>>

EdgeSends ==
    /\ reader = "streaming" /\ ~closed
    /\ \/ sent < MaxChunks /\ sent' = sent + 1 /\ UNCHANGED closed
       \/ closed' = TRUE /\ UNCHANGED sent
    /\ UNCHANGED <<reader, chunks, timer, answer>>

ReadChunk ==
    /\ reader = "streaming"
    /\ chunks < sent
    /\ chunks' = chunks + 1
    /\ UNCHANGED <<reader, sent, closed, timer, answer>>

\* The loop has read the last chunk.
StreamEnds ==
    /\ reader = "streaming" /\ closed /\ chunks = sent
    /\ reader' = "ended"
    /\ Settle("audio") \/ TooLate
    /\ UNCHANGED <<sent, closed, chunks>>

ReadFails ==
    /\ reader \in {"connecting", "streaming"}
    /\ reader' = "failed"
    /\ Settle("unavailable") \/ TooLate
    /\ UNCHANGED <<sent, closed, chunks>>

\* Mutant: the timer only closes the connection.
TimerFires_OnlyCloses ==
    /\ timer
    /\ timer' = FALSE
    /\ UNCHANGED <<reader, sent, closed, chunks, answer>>

TimerFires ==
    /\ timer
    /\ Settle("unavailable")
    /\ UNCHANGED <<reader, sent, closed, chunks>>

Next ==
    \/ NothingToSay
    \/ Synthesize
    \/ Connected
    \/ EdgeSends
    \/ ReadChunk
    \/ StreamEnds
    \/ ReadFails
    \/ TimerFires

Spec == Init /\ [][Next]_vars

-------------------------------------------------------------------------------

\* A page that asks for speech is answered even if Edge falls silent for ever ("If
\* edge-tts hangs, the frontend should switch to the browser voice instead of
\* waiting forever").
EverySpeechAnswered == timer ~> (answer # "none" /\ ~timer)
===============================================================================
