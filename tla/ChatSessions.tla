------------------------------ MODULE ChatSessions ------------------------------
(* ChatService: the conversations kept in memory, and the answers that are     *)
(* streamed while other requests run.  streamReply() reads the history before  *)
(* its first await and writes it back when its stream ends, so every await is  *)
(* a point where other questions, a reset or the cleanup run.                  *)
(*                                                                             *)
(* The Map `sessions` is a function from every session id to its chat or None; *)
(* the Map's insertion order is the field `place`.  lastUsed is kept as the    *)
(* chat's age `idle`, which need not be counted beyond the first value that    *)
(* expires.  The content of a message is the set of texts it stands for.       *)
EXTENDS Naturals, Sequences, FiniteSets

CONSTANTS
    Sids,            \* session ids
    Questions,       \* the calls of streamReply(), each made once
    MaxSessions,     \* MAX_SESSIONS
    TTL,             \* SESSION_TTL_MS, in ticks
    None

ASSUME BoundsAssumption ==
    /\ IsFiniteSet(Sids)
    /\ MaxSessions \in Nat \ {0}
    /\ TTL \in Nat

VARIABLES
    chats,       \* session id -> its chat, or None
    streams,     \* question -> its streamReply(), or None before it is asked
    inserted     \* how often an entry was inserted into the Map

vars == <<chats, streams, inserted>>

Texts == Questions \X {"user", "assistant"}

HistoryMessage == [role : {"user", "assistant", "system"}, texts : SUBSET Texts]

Session == [history : Seq(HistoryMessage), idle : 0 .. TTL + 1, place : Nat]

\* What streamReply() has in its local variables: the history it has read,
\* whether a token has arrived, and how many messages the summary replaces.
Stream == [phase : {"fetching", "open", "done"}, sid : Sids,
           history : Seq(HistoryMessage), answer : BOOLEAN, replaced : Nat \cup {None}]

ASSUME NoneAssumption == None \notin Session /\ None \notin Stream /\ None \notin Nat

Present(m) == {s \in Sids : m[s] # None}

Running(q) == streams[q] # None /\ streams[q].phase # "done"

\* The types, and the Map never holds more than MAX_SESSIONS chats.
TypeOK ==
    /\ chats \in [Sids -> Session \cup {None}]
    /\ streams \in [Questions -> Stream \cup {None}]
    /\ inserted \in Nat
    /\ Cardinality(Present(chats)) <= MaxSessions

Init ==
    /\ chats = [s \in Sids |-> None]
    /\ streams = [q \in Questions |-> None]
    /\ inserted = 0

-------------------------------------------------------------------------------
(* Asking.                                                                     *)

HistoryOf(s) == IF chats[s] = None THEN <<>> ELSE chats[s].history

\* POST chat/stream up to the await of fetch(): the history is read here.
Ask(q, s) ==
    /\ streams[q] = None
    /\ streams' = [streams EXCEPT ![q] = [phase |-> "fetching", sid |-> s,
                     history |-> HistoryOf(s), answer |-> FALSE, replaced |-> None]]
    /\ UNCHANGED <<chats, inserted>>

\* fetch() rejects, is aborted by the visitor, or answers with an error status:
\* streamReply() throws before its try block and stores nothing.
FetchFails(q) ==
    /\ Running(q) /\ streams[q].phase = "fetching"
    /\ streams' = [streams EXCEPT ![q].phase = "done"]
    /\ UNCHANGED <<chats, inserted>>

FetchAnswers(q) ==
    /\ Running(q) /\ streams[q].phase = "fetching"
    /\ streams' = [streams EXCEPT ![q].phase = "open"]
    /\ UNCHANGED <<chats, inserted>>

Token(q) ==
    /\ Running(q) /\ streams[q].phase = "open"
    /\ streams' = [streams EXCEPT ![q].answer = TRUE]
    /\ UNCHANGED <<chats, inserted>>

\* The Python API sends the summary before the answer.
Summarised(q, k) ==
    /\ Running(q) /\ streams[q].phase = "open" /\ ~streams[q].answer
    /\ k \in 1 .. Len(streams[q].history)
    /\ streams' = [streams EXCEPT ![q].replaced = k]
    /\ UNCHANGED <<chats, inserted>>

-------------------------------------------------------------------------------
(* The end of a stream.                                                        *)

TextsOf(h) == UNION {h[i].texts : i \in DOMAIN h}

\* Mutant: slice() starts one message late.
Shortened_OffByOne(h, k) ==
    <<[role |-> "system", texts |-> TextsOf(SubSeq(h, 1, k))]>> \o SubSeq(h, k + 2, Len(h))

\* Mutant: the summary is put before the messages it should replace.
Shortened_NotSliced(h, k) ==
    <<[role |-> "system", texts |-> TextsOf(SubSeq(h, 1, k))]>> \o h

Shortened(h, k) ==
    <<[role |-> "system", texts |-> TextsOf(SubSeq(h, 1, k))]>> \o SubSeq(h, k + 1, Len(h))

Turn(q) == <<[role |-> "user", texts |-> {<<q, "user">>}],
             [role |-> "assistant", texts |-> {<<q, "assistant">>}]>>

Updated(q) ==
    LET st == streams[q]
        old == IF st.replaced = None THEN st.history ELSE Shortened(st.history, st.replaced)
    IN  IF st.answer THEN old \o Turn(q) ELSE old

\* Mutant: one chat more than the limit survives.
Kept_OffByOne(m) ==
    {s \in Present(m) :
        Cardinality({r \in Present(m) : m[r].place > m[s].place}) <= MaxSessions}

\* What is left when the while loop has dropped the first entries of the Map
\* until at most MAX_SESSIONS are left.
Kept(m) ==
    {s \in Present(m) :
        Cardinality({r \in Present(m) : m[r].place > m[s].place}) < MaxSessions}

\* Mutant: set() without delete(), so a chat keeps its place in the Map.
Inserted_InPlace(s, h) ==
    [chats EXCEPT ![s] = [history |-> h, idle |-> 0,
        place |-> IF chats[s] = None THEN inserted + 1 ELSE chats[s].place]]

\* delete() and set(): the chat becomes the last one of the Map.
Inserted(s, h) ==
    [chats EXCEPT ![s] = [history |-> h, idle |-> 0, place |-> inserted + 1]]

\* store().
Store(s, h) ==
    LET m == Inserted(s, h)
    IN  /\ chats' = [r \in Sids |-> IF r \in Kept(m) THEN m[r] ELSE None]
        /\ inserted' = inserted + 1

\* The finally block: the stream is complete, was aborted, or broke off.
StreamEnds(q) ==
    /\ Running(q) /\ streams[q].phase = "open"
    /\ streams' = [streams EXCEPT ![q].phase = "done"]
    /\ Store(streams[q].sid, Updated(q))

-------------------------------------------------------------------------------
(* Forgetting.                                                                 *)

\* DELETE chat/:sessionId.
Reset(s) ==
    /\ chats[s] # None
    /\ chats' = [chats EXCEPT ![s] = None]
    /\ UNCHANGED <<streams, inserted>>

\* Mutant: the difference of the two times is taken the wrong way round.
Expired_Swapped(s) == chats[s] # None /\ 0 > TTL + chats[s].idle

Expired(s) == chats[s] # None /\ chats[s].idle > TTL

RemoveExpired ==
    /\ \E s \in Sids : Expired(s)
    /\ chats' = [s \in Sids |-> IF Expired(s) THEN None ELSE chats[s]]
    /\ UNCHANGED <<streams, inserted>>

\* Time passes.
Tick ==
    /\ \E s \in Present(chats) : chats[s].idle <= TTL
    /\ chats' = [s \in Sids |->
                    IF chats[s] # None /\ chats[s].idle <= TTL
                    THEN [chats[s] EXCEPT !.idle = chats[s].idle + 1]
                    ELSE chats[s]]
    /\ UNCHANGED <<streams, inserted>>

Next ==
    \/ \E q \in Questions :
        \/ \E s \in Sids : Ask(q, s)
        \/ FetchFails(q)
        \/ FetchAnswers(q)
        \/ Token(q)
        \/ \E k \in 1 .. 2 * Cardinality(Questions) : Summarised(q, k)
        \/ StreamEnds(q)
    \/ \E s \in Sids : Reset(s)
    \/ RemoveExpired
    \/ Tick

Spec == Init /\ [][Next]_vars

\* The clock runs, and so does the cleanup interval.
FairSpec == Spec /\ WF_vars(Tick) /\ WF_vars(RemoveExpired)

-------------------------------------------------------------------------------
(* What makes it correct.                                                      *)

\* A history reads as a conversation: only the first message may be a summary,
\* every question is followed by its own answer, and no text is told twice.
Dialogue(h) ==
    /\ \A i \in DOMAIN h : h[i].role = "system" => i = 1
    /\ \A i \in DOMAIN h : h[i].role = "user" =>
        /\ i < Len(h) /\ h[i + 1].role = "assistant"
        /\ \E q \in Questions : h[i].texts = {<<q, "user">>} /\ h[i + 1].texts = {<<q, "assistant">>}
    /\ \A i, j \in DOMAIN h : i # j => h[i].texts \cap h[j].texts = {}

\* Whatever streams overlap, every history that is kept or sent is a dialogue.
HistoriesAreDialogues ==
    /\ \A s \in Present(chats) : Dialogue(chats[s].history)
    /\ \A q \in Questions : Running(q) => Dialogue(streams[q].history)

\* What a chat has been told stays in its history, in the messages or in their
\* summary, for as long as the chat is kept.
KeepsAnswers ==
    \A s \in Sids : chats[s] # None /\ chats'[s] # None =>
        TextsOf(chats[s].history) \subseteq TextsOf(chats'[s].history)

\* What a chat has been told stays in its history for as long as the chat is kept,
\* said without a condition: "The complete answer is stored in the history once
\* the stream has finished; a summary replaces the older messages."
AnswersKept == [][KeepsAnswers]_vars

\* A chat that disappears was reset, had not been used for longer than the TTL,
\* or made room: then no chat that is kept was used longer ago than it.
OldestDroppedFirst ==
    [][\A s \in Present(chats) : chats'[s] = None =>
        \/ Reset(s)
        \/ chats[s].idle > TTL
        \/ /\ Cardinality(Present(chats')) = MaxSessions
           /\ \A r \in Present(chats') : chats'[r].idle <= chats[s].idle]_vars

\* When nobody asks any more, every chat is forgotten and stays forgotten.
EveryChatIsForgotten == <>[](Present(chats) = {})
===============================================================================
