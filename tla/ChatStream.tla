------------------------------- MODULE ChatStream -------------------------------
(* One POST chat/stream: ChatController.stream writes to the page what           *)
(* ChatService.readEvents reads from the Python API, which arrives in chunks cut  *)
(* anywhere.  The events of one chunk are written before anything else runs.      *)
(* What the stream leaves in the history is the subject of ChatSessions.          *)
EXTENDS Integers, SequencesExt

CONSTANTS
    Events,
    Done,        \* [DONE]
    Error,       \* the error event of the controller
    Ping,        \* a heartbeat
    NL,          \* a line break
    MaxEvents,   \* bound: events the API sends
    MaxPings     \* bound: heartbeats

\* The text of an event has two halves; a chunk may end within it.
Half == [of : Events \cup {Done}, half : {1, 2}]

Body(e) == <<[of |-> e, half |-> 1], [of |-> e, half |-> 2]>>

ASSUME LinesAssumption ==
    /\ Cardinality({Done, Error, Ping, NL}) = 4
    /\ Events \cap {Done, Error, Ping, NL} = {}
    /\ NL \notin Half

VARIABLES
    at,          \* where streamReply is
    api,         \* the API's side of the response
    sent,        \* the events the API has sent (history)
    cut,         \* the one that its response ended in the middle of, if any (history)
    wire,        \* text that has not been read
    buffer,      \* of readEvents
    page,        \* the lines written to the page
    heartbeat,   \* whether the timer is set
    aborted      \* the page closed the request

vars == <<at, api, sent, cut, wire, buffer, page, heartbeat, aborted>>

Separators(text) == {i \in 1..(Len(text) - 1) : text[i] = NL /\ text[i + 1] = NL}

Count(line) == Cardinality({i \in DOMAIN page : page[i] = line})

Init ==
    /\ at = "fetch" /\ api = "open"
    /\ sent = <<>> /\ cut = <<>> /\ wire = <<>> /\ buffer = <<>> /\ page = <<>>
    /\ heartbeat = TRUE /\ aborted = FALSE

-------------------------------------------------------------------------------
(* The Python API (external). *)

ApiSends(e) ==
    /\ at = "reading" /\ api = "open"
    /\ Len(sent) < MaxEvents
    /\ sent' = Append(sent, e)
    /\ wire' = wire \o Body(e) \o <<NL, NL>>
    /\ UNCHANGED <<at, api, cut, buffer, page, heartbeat, aborted>>

\* [DONE] and the end of the response; the end without it, after an event or
\* before the next has its separator; or a connection that breaks, with what was
\* on its way.
ApiEnds ==
    /\ at = "reading" /\ api = "open"
    /\ \/ api' = "done" /\ wire' = wire \o Body(Done) \o <<NL, NL>> /\ UNCHANGED cut
       \/ api' = "closed" /\ UNCHANGED <<wire, cut>>
       \/ /\ api' = "closed"
          /\ \E e \in Events, n \in 1..2 :
                cut' = <<e>> /\ wire' = wire \o SubSeq(Body(e), 1, n)
       \/ api' = "broken" /\ wire' = <<>> /\ UNCHANGED cut
    /\ UNCHANGED <<at, sent, buffer, page, heartbeat, aborted>>

-------------------------------------------------------------------------------
(* readEvents. *)

\* The place of the k-th separator.
Cut(text, k) ==
    CHOOSE i \in Separators(text) : Cardinality({j \in Separators(text) : j <= i}) = k

\* split('\n\n') gives the parts before the separators, and pop() the rest.
Parts(text) ==
    [k \in 1..Cardinality(Separators(text)) |->
        SubSeq(text, IF k = 1 THEN 1 ELSE Cut(text, k - 1) + 2, Cut(text, k) - 1)]

Rest(text) ==
    IF Separators(text) = {} THEN text
    ELSE SubSeq(text, Max(Separators(text)) + 2, Len(text))

Parses(part) == \E e \in Events : part = Body(e)

EventOf(part) == part[1].of

\* The parts before [DONE] or the first that JSON.parse refuses.
Readable(parts) ==
    LET stops == {k \in DOMAIN parts : ~Parses(parts[k])} IN
    IF stops = {} THEN parts ELSE SubSeq(parts, 1, Min(stops) - 1)

-------------------------------------------------------------------------------
(* ChatController.stream around it. *)

\* Mutant: the timer is not cleared.
Finish_TimerKept(lines) ==
    /\ at' = "ended"
    /\ page' = IF aborted THEN page ELSE page \o lines
    /\ UNCHANGED heartbeat

\* What follows the loop, and the finally block.  A page that has closed the
\* request gets nothing any more.
Finish(lines) ==
    /\ at' = "ended"
    /\ page' = IF aborted THEN page ELSE page \o lines
    /\ heartbeat' = FALSE

FetchAnswers ==
    /\ at = "fetch" /\ ~aborted
    /\ at' = "reading"
    /\ UNCHANGED <<api, sent, cut, wire, buffer, page, heartbeat, aborted>>

\* The API is unreachable or answers with an error status.
FetchFails ==
    /\ at = "fetch" /\ ~aborted
    /\ Finish(<<Error>>)
    /\ UNCHANGED <<api, sent, cut, wire, buffer, aborted>>

\* Mutant: every chunk is read as whole events.
Chunk_NoBuffer(n) ==
    /\ at = "reading" /\ ~aborted
    /\ LET parts == Parts(SubSeq(wire, 1, n))
           lines == [k \in DOMAIN Readable(parts) |-> EventOf(parts[k])]
       IN IF Len(lines) = Len(parts)
          THEN page' = page \o lines /\ UNCHANGED <<at, heartbeat>>
          ELSE Finish(lines \o (IF parts[Len(lines) + 1] = Body(Done) THEN <<Done>> ELSE <<Error>>))
    /\ wire' = SubSeq(wire, n + 1, Len(wire))
    /\ UNCHANGED <<api, sent, cut, buffer, aborted>>

\* The next n pieces of the response are read.
Chunk(n) ==
    /\ at = "reading" /\ ~aborted
    /\ LET text == buffer \o SubSeq(wire, 1, n)
           parts == Parts(text)
           lines == [k \in DOMAIN Readable(parts) |-> EventOf(parts[k])]
       IN /\ buffer' = Rest(text)
          /\ IF Len(lines) = Len(parts)
             THEN page' = page \o lines /\ UNCHANGED <<at, heartbeat>>
             ELSE Finish(lines \o (IF parts[Len(lines) + 1] = Body(Done)
                                   THEN <<Done>> ELSE <<Error>>))
    /\ wire' = SubSeq(wire, n + 1, Len(wire))
    /\ UNCHANGED <<api, sent, cut, aborted>>

\* The response ended without [DONE]: the loop ends all the same, the rest in the
\* buffer is dropped, and the page is written [DONE].
EndOfBody ==
    /\ at = "reading" /\ ~aborted
    /\ wire = <<>> /\ api = "closed"
    /\ Finish(<<Done>>)
    /\ UNCHANGED <<api, sent, cut, wire, buffer, aborted>>

BodyFails ==
    /\ at = "reading" /\ ~aborted
    /\ api = "broken"
    /\ Finish(<<Error>>)
    /\ UNCHANGED <<api, sent, cut, wire, buffer, aborted>>

\* Mutant: the request to the API goes on when the page has closed.
Aborted_Ignored ==
    /\ aborted /\ at = "reading" /\ api = "broken"
    /\ Finish(<<>>)
    /\ UNCHANGED <<api, sent, cut, wire, buffer, aborted>>

\* The signal ends the fetch or the reading of its body.
Aborted ==
    /\ aborted /\ at # "ended"
    /\ Finish(<<>>)
    /\ UNCHANGED <<api, sent, cut, wire, buffer, aborted>>

\* The page closes the connection while the response is open.
Close ==
    /\ at # "ended"
    /\ aborted' = TRUE
    /\ UNCHANGED <<at, api, sent, cut, wire, buffer, page, heartbeat>>

Heartbeat ==
    /\ heartbeat /\ ~aborted
    /\ Count(Ping) < MaxPings
    /\ page' = Append(page, Ping)
    /\ UNCHANGED <<at, api, sent, cut, wire, buffer, heartbeat, aborted>>

Read == \E n \in 1..Len(wire) : Chunk(n)

Next ==
    \/ \E e \in Events : ApiSends(e)
    \/ ApiEnds
    \/ FetchAnswers
    \/ FetchFails
    \/ Read
    \/ EndOfBody
    \/ BodyFails
    \/ Aborted
    \/ Close
    \/ Heartbeat

Spec == Init /\ [][Next]_vars

-------------------------------------------------------------------------------

EventLines == {i \in DOMAIN page : page[i] \in Events}

\* A line with an event is the Nth(i)-th that has one.
Nth(i) == Cardinality({j \in EventLines : j <= i})

\* The page gets the events of the API unchanged, in order and once each, however
\* the response is cut into chunks; all of them if the API said [DONE] and the page
\* heard it.  No more than the event that is being read waits in the buffer
\* (readEvents, stream).
PassedThrough ==
    /\ Separators(buffer) = {} /\ Len(buffer) <= 3
    /\ \A i \in EventLines : Nth(i) <= Len(sent) /\ page[i] = sent[Nth(i)]
    /\ api = "done" /\ Count(Done) > 0 => Cardinality(EventLines) = Len(sent)
    /\ api # "broken" /\ sent # <<>> => Count(Error) = 0

\* [DONE] or an error is written at most once and is the last that is written, no
\* heartbeat after it, and a stream that ends ends with one of them unless the
\* page has closed it (the comment at stream; its finally block).
LastWord ==
    /\ Count(Done) + Count(Error) <= 1
    /\ Count(Done) + Count(Error) = 1 => at = "ended" /\ Last(page) \in {Done, Error}
    /\ at = "ended" => ~heartbeat
    /\ at = "ended" /\ ~aborted => Count(Done) + Count(Error) = 1

\* The stream as the abstract pipe sees it: the events on the page in the order of
\* its lines, and what the page was told at the end.  An event the response ended
\* in the middle of counts as sent.
Shown == [n \in 1..Cardinality(EventLines) |-> page[CHOOSE i \in EventLines : Nth(i) = n]]

Outcome ==
    IF at # "ended" THEN "open"
    ELSE IF Count(Done) > 0 THEN "done"
    ELSE IF Count(Error) > 0 THEN "failed" ELSE "left"

Pipe == INSTANCE AnswerPipe WITH
    sent <- sent \o cut, shown <- Shown, source <- api, outcome <- Outcome

\* Every stream is a pipe: however the response is cut into chunks, the lines of the
\* page are only added to and follow what the API sends.  The page is written [DONE]
\* when nothing is missing, or, if the response just ended, nothing but the event it
\* ended in, and an error when the response broke or never began (stream, readEvents).
PipeSpec == Pipe!Spec

\* The request ends, and its timer with it, once the API has ended its response or
\* the page has closed the connection (stream).
EveryStreamEnds == (api # "open" \/ aborted) ~> (at = "ended" /\ ~heartbeat)
===============================================================================
