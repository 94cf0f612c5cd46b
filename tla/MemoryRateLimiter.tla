--------------------------- MODULE MemoryRateLimiter ---------------------------
(* MemoryRateLimiter as the controllers and RateLimitGuard use it, for the    *)
(* keys of one visitor (a key is a name and the visitor's address, so two     *)
(* visitors share nothing).  A call is one HTTP request; the limiter runs     *)
(* without an await, so a request is one step.  The array of timestamps of a  *)
(* key is kept as the set of the calls it counts, each with its time, since   *)
(* only the number of recent entries matters.                                 *)
EXTENDS Naturals, FiniteSets

CONSTANTS
    Calls,            \* the HTTP requests of the visitor
    Chat, ChatDay,    \* the two keys a question to the chat is counted under
    OtherKeys,        \* transcribe, speech, tts, image, embed, upload, ...
    Limit,            \* calls a key allows ...
    Window,           \* ... within this many milliseconds
    Horizon,          \* bound on the clock
    None

Keys == {Chat, ChatDay} \cup OtherKeys

ASSUME LimitsAssumption ==
    /\ IsFiniteSet(Calls)
    /\ Chat # ChatDay
    /\ {Chat, ChatDay} \cap OtherKeys = {}
    /\ Limit \in [Keys -> Nat]
    /\ Window \in [Keys -> Nat \ {0}]
    /\ Horizon \in Nat
    /\ None \notin Keys

VARIABLES
    now,
    at,          \* call -> the time it was made
    hits,        \* key -> the calls its array still counts
    admitted,    \* key -> the calls consume() has ever let pass (history)
    refusedBy    \* call -> the key that refused it, or None (history)

vars == <<now, at, hits, admitted, refusedBy>>

Made(c) == refusedBy[c] # None \/ \E k \in Keys : c \in admitted[k]

TypeOK ==
    /\ now \in 0 .. Horizon
    /\ at \in [Calls -> 0 .. Horizon]
    /\ hits \in [Keys -> SUBSET Calls]
    /\ admitted \in [Keys -> SUBSET Calls]
    /\ refusedBy \in [Calls -> Keys \cup {None}]

Init ==
    /\ now = 0
    /\ at = [c \in Calls |-> 0]
    /\ hits = [k \in Keys |-> {}]
    /\ admitted = [k \in Keys |-> {}]
    /\ refusedBy = [c \in Calls |-> None]

\* Mutant: a hit of exactly the window's age still counts.
Recent_Inclusive(k) == {c \in hits[k] : now - at[c] <= Window[k]}

\* Mutant: a hit is forgotten one millisecond early.
Recent_Early(k) == {c \in hits[k] : now - at[c] + 1 < Window[k]}

Recent(k) == {c \in hits[k] : now - at[c] < Window[k]}

Allows(k) == Cardinality(Recent(k)) < Limit[k]

\* consume() has let c pass for the keys of K and has thrown for key `by`
\* (None: for no key).  A key that throws keeps its array as it was.
Consumed(c, K, by) ==
    /\ ~Made(c)
    /\ at' = [at EXCEPT ![c] = now]
    /\ hits' = [k \in Keys |-> IF k \in K THEN Recent(k) \cup {c} ELSE hits[k]]
    /\ admitted' = [k \in Keys |-> IF k \in K THEN admitted[k] \cup {c} ELSE admitted[k]]
    /\ refusedBy' = [refusedBy EXCEPT ![c] = by]
    /\ UNCHANGED now

\* An endpoint with one limit.
Request(c, k) ==
    \/ Allows(k) /\ Consumed(c, {k}, None)
    \/ ~Allows(k) /\ Consumed(c, {}, k)

\* Mutant: both limits are consumed before either answer is looked at.
Ask_NoShortCircuit(c) ==
    \/ ~Allows(Chat) /\ Allows(ChatDay) /\ Consumed(c, {ChatDay}, Chat)
    \/ ~Allows(Chat) /\ ~Allows(ChatDay) /\ Consumed(c, {}, Chat)
    \/ Allows(Chat) /\ ~Allows(ChatDay) /\ Consumed(c, {Chat}, ChatDay)
    \/ Allows(Chat) /\ Allows(ChatDay) /\ Consumed(c, {Chat, ChatDay}, None)

\* POST chat/stream: the limit per minute, and only if it lets the question
\* pass the limit per day.
Ask(c) ==
    \/ ~Allows(Chat) /\ Consumed(c, {}, Chat)
    \/ Allows(Chat) /\ ~Allows(ChatDay) /\ Consumed(c, {Chat}, ChatDay)
    \/ Allows(Chat) /\ Allows(ChatDay) /\ Consumed(c, {Chat, ChatDay}, None)

Tick ==
    /\ now < Horizon
    /\ now' = now + 1
    /\ UNCHANGED <<at, hits, admitted, refusedBy>>

Next ==
    \/ \E c \in Calls, k \in OtherKeys : Request(c, k)
    \/ \E c \in Calls : Ask(c)
    \/ Tick

Spec == Init /\ [][Next]_vars

-------------------------------------------------------------------------------

\* The calls key k let pass in the window that ends at time t.
InWindow(k, t) == {c \in admitted[k] : at[c] <= t /\ t < at[c] + Window[k]}

\* However the calls are spread over time, no window of the limit's length holds
\* more admitted calls than the limit, although consume() forgets old hits.
WindowBound ==
    \A k \in Keys, t \in 0 .. now : Cardinality(InWindow(k, t)) <= Limit[k]

\* SlidingWindow with nothing of its state left out but the arrays.
Sliding == INSTANCE SlidingWindow

\* Forgetting hits is never seen from outside: a call passes exactly when a limiter
\* that remembers every call would let it pass, and refused calls do not count, so
\* hammering never prolongs a refusal and waiting one window ends it (consume).
AsIfNothingForgotten == Sliding!Spec

\* A question refused by the limit per minute costs nothing of the day's budget:
\* the calls counted for the day are the questions that were answered.
DayCountsAnsweredQuestions ==
    admitted[ChatDay] = {c \in admitted[Chat] : refusedBy[c] = None}
===============================================================================
