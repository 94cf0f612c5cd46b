--------------------------- MODULE TelegramSessions ---------------------------
(* The session registry of the Telegram bridge: TelegramService's maps        *)
(* (sessions, eventCallbacks, mediaTokens), TelegramGateway's sets            *)
(* (registeredSessions, sessionKeepAliveIntervals) and socket.io rooms, and   *)
(* the HTTP handlers of TelegramController that work on them.                 *)
(*                                                                            *)
(* Node runs one handler at a time, so what lies between two awaits is one    *)
(* action.  A handler that awaits Telegram is a request: the action before    *)
(* the await leaves a record of what it captured (the session id and the      *)
(* client object), the action after it finds whatever state the others left.  *)
(* Telegram and the network are the environment: an answer may come in any    *)
(* order or not at all, and a client's connection may drop and return.        *)
(*                                                                            *)
(* Time is kept as ages: a session's time since lastActivity and a token's    *)
(* time since its creation grow together at Tick and stop one past their      *)
(* limit.                                                                     *)
EXTENDS Naturals, FiniteSets

CONSTANTS
    SessionIds,     \* values of the x-telegram-session header
    Clients,        \* TelegramClient objects
    CallbackIds,    \* identities of callback functions
    Requests,       \* HTTP requests in progress
    Sockets,        \* socket.io connections
    Tokens,         \* media tokens
    None,           \* an absent map entry, null
    MaxInactivity,  \* two hours, in ticks
    TokenLifetime   \* one hour, in ticks

ASSUME DurationsAssumption ==
    /\ MaxInactivity \in Nat \ {0}
    /\ TokenLifetime \in Nat

UserSession == [client : Clients,
                phoneCodeHash : Clients \cup {None},  \* the client it came from
                idle : 0 .. MaxInactivity + 1]

\* One callback stands for the pair of functions (onNewMessage, onRawUpdate)
\* that are added and removed together; both emit to the same room.
Callback == [id : CallbackIds, room : SessionIds]

MediaTokenEntry == [sessionId : SessionIds, age : 0 .. TokenLifetime + 1]

\* What a request waits for: connect() of a new client or of a known one, the
\* answer to SendCode, to a sign-in or getMe, to LogOut, or media metadata.
Waits == {"initClient", "reconnect", "sendCode", "auth", "logout", "media"}

Request == [op : Waits, sid : SessionIds, client : Clients]

LinkStates == {"connecting", "up", "down", "closed"}

ASSUME NoneAssumption ==
    /\ None \notin SessionIds \cup Clients
    /\ None \notin UserSession \cup Callback \cup MediaTokenEntry \cup Request

VARIABLES
    sessions,                   \* SessionIds -> UserSession or None
    eventCallbacks,             \* SessionIds -> Callback or None
    mediaTokens,                \* Tokens -> MediaTokenEntry or None
    registeredSessions,         \* ids whose handlers the gateway has registered
    sessionKeepAliveIntervals,  \* ids with a keep-alive timer
    room,                       \* Sockets -> the room joined, or None
    link,                       \* Clients -> state of the connection
    handlers,                   \* Clients -> callbacks added to the client
    requests,                   \* Requests -> Request or None
    down                        \* onModuleDestroy has run

serviceVars == <<sessions, eventCallbacks, mediaTokens>>
gatewayVars == <<registeredSessions, sessionKeepAliveIntervals, room>>
clientVars  == <<link, handlers>>
vars == <<serviceVars, gatewayVars, clientVars, requests, down>>

TypeOK ==
    /\ sessions \in [SessionIds -> UserSession \cup {None}]
    /\ eventCallbacks \in [SessionIds -> Callback \cup {None}]
    /\ mediaTokens \in [Tokens -> MediaTokenEntry \cup {None}]
    /\ registeredSessions \subseteq SessionIds
    /\ sessionKeepAliveIntervals \subseteq SessionIds
    /\ room \in [Sockets -> SessionIds \cup {None}]
    /\ link \in [Clients -> LinkStates]
    /\ handlers \in [Clients -> SUBSET Callback]
    /\ requests \in [Requests -> Request \cup {None}]
    /\ down \in BOOLEAN

Init ==
    /\ sessions = [s \in SessionIds |-> None]
    /\ eventCallbacks = [s \in SessionIds |-> None]
    /\ mediaTokens = [t \in Tokens |-> None]
    /\ registeredSessions = {}
    /\ sessionKeepAliveIntervals = {}
    /\ room = [k \in Sockets |-> None]
    /\ link = [c \in Clients |-> "closed"]
    /\ handlers = [c \in Clients |-> {}]
    /\ requests = [r \in Requests |-> None]
    /\ down = FALSE

-------------------------------------------------------------------------------
(* Operators on the registry. *)

Live == {s \in SessionIds : sessions[s] # None}

IsConnected(s) == s \in Live /\ link[sessions[s].client] = "up"

\* Mutant: {...session, lastActivity} is stored whether or not there is a session.
Touch_Spread(s) ==
    IF s \in Live THEN [sessions EXCEPT ![s].idle = 0]
    ELSE [sessions EXCEPT ![s] = [client |-> None, phoneCodeHash |-> None, idle |-> 0]]

Touch(s) ==
    IF s \in Live THEN [sessions EXCEPT ![s].idle = 0] ELSE sessions

Owned(c) == \E s \in Live : sessions[s].client = c

Held(c) == \E r \in Requests : requests[r] # None /\ requests[r].client = c

\* Mutant: one client object serves every id.
Unused_Shared(c) == link[c] # "connecting"

\* An object initClient may create: one nothing refers to.
Unused(c) == link[c] = "closed" /\ ~Owned(c) /\ ~Held(c)

\* Mutant: returns before it removes anything.
UnregisterHandlers_Early(S) == handlers

\* The handlers of every client after unregisterHandlers of each id of S: the
\* callback goes from the client of the id's session, the map entry stays.
UnregisterHandlers(S) ==
    [c \in Clients |->
        handlers[c] \ {eventCallbacks[s] :
                          s \in {x \in S \cap Live : sessions[x].client = c}}]

Expired(t) == mediaTokens[t] # None /\ mediaTokens[t].age > TokenLifetime

RevokeMediaTokens(S) ==
    [t \in Tokens |->
        IF mediaTokens[t] # None /\ mediaTokens[t].sessionId \in S
        THEN None ELSE mediaTokens[t]]

\* Mutant: disconnect() is never called.
Disconnect_Forgotten(C) == link

Disconnect(C) == [c \in Clients |-> IF c \in C THEN "closed" ELSE link[c]]

ForgetSessions(S) ==
    /\ handlers' = UnregisterHandlers(S)
    /\ sessions' = [s \in SessionIds |-> IF s \in S THEN None ELSE sessions[s]]
    /\ eventCallbacks' =
          [s \in SessionIds |-> IF s \in S THEN None ELSE eventCallbacks[s]]

FreshCallbackIds ==
    {id \in CallbackIds :
        /\ \A c \in Clients : \A h \in handlers[c] : h.id # id
        /\ \A s \in SessionIds : eventCallbacks[s] # None => eventCallbacks[s].id # id}

Registers(s) == s \notin registeredSessions /\ IsConnected(s)

\* registerNewMessageHandler and registerRawUpdateHandler: new callbacks on the
\* session's current client in place of those the map remembers.
RegisterHandlers(s) ==
    \E id \in FreshCallbackIds :
        LET new == [id |-> id, room |-> s] IN
        /\ registeredSessions' = registeredSessions \cup {s}
        /\ sessions' = Touch(s)
        /\ eventCallbacks' = [eventCallbacks EXCEPT ![s] = new]
        /\ handlers' = [handlers EXCEPT ![sessions[s].client] =
                            (@ \ {eventCallbacks[s]}) \cup {new}]

\* Handlers and timers run until the process shuts down.
Running == ~down /\ UNCHANGED down

Begin(r, op, s, c) ==
    /\ requests[r] = None
    /\ requests' = [requests EXCEPT ![r] = [op |-> op, sid |-> s, client |-> c]]

Waiting(r, op) == requests[r] # None /\ requests[r].op = op

End(r) == requests' = [requests EXCEPT ![r] = None]

-------------------------------------------------------------------------------
(* Logging in. *)

\* POST auth/send-code up to the first await that Telegram answers.
SendCode(r, s) ==
    /\ Running
    /\ \/ /\ s \notin Live
          /\ \E c \in Clients :
                /\ Unused(c)
                /\ Begin(r, "initClient", s, c)
                /\ link' = [link EXCEPT ![c] = "connecting"]
                /\ handlers' = [handlers EXCEPT ![c] = {}]
          /\ UNCHANGED sessions
       \/ /\ s \in Live /\ ~IsConnected(s)
          /\ Begin(r, "reconnect", s, sessions[s].client)
          /\ UNCHANGED <<sessions, clientVars>>
       \/ /\ IsConnected(s)
          /\ Begin(r, "sendCode", s, sessions[s].client)
          /\ sessions' = Touch(s)
          /\ UNCHANGED clientVars
    /\ UNCHANGED <<eventCallbacks, mediaTokens, gatewayVars>>

\* initClient after connect(): the session is stored whether or not another
\* request stored one under the same id meanwhile.  connect() also returns
\* when its retries are used up, without a connection.
ClientConnected(r) ==
    /\ Running
    /\ Waiting(r, "initClient")
    /\ LET s == requests[r].sid
           c == requests[r].client IN
       /\ \E state \in {"up", "down"} : link' = [link EXCEPT ![c] = state]
       /\ sessions' = [sessions EXCEPT ![s] =
                          [client |-> c, phoneCodeHash |-> None, idle |-> 0]]
    /\ requests' = [requests EXCEPT ![r].op = "sendCode"]
    /\ UNCHANGED <<eventCallbacks, mediaTokens, gatewayVars, handlers>>

\* Mutant: a lost connection is replaced by a new client in the same session.
ClientReconnected_NewObject(r) ==
    /\ Running
    /\ Waiting(r, "reconnect")
    /\ requests[r].sid \in Live
    /\ \E c \in Clients :
          /\ Unused(c)
          /\ link' = [link EXCEPT ![c] = "up"]
          /\ sessions' = [sessions EXCEPT ![requests[r].sid].client = c]
          /\ requests' = [requests EXCEPT ![r].op = "sendCode", ![r].client = c]
    /\ UNCHANGED <<eventCallbacks, mediaTokens, gatewayVars, handlers>>

\* ensureClient after connect() of the captured session's client, which may
\* have been disconnected and dropped from the map during the await.
ClientReconnected(r) ==
    /\ Running
    /\ Waiting(r, "reconnect")
    /\ LET s == requests[r].sid
           c == requests[r].client IN
       /\ \E state \in {"up", "down"} : link' = [link EXCEPT ![c] = state]
       /\ sessions' = IF s \in Live /\ sessions[s].client = c
                      THEN Touch(s) ELSE sessions
    /\ requests' = [requests EXCEPT ![r].op = "sendCode"]
    /\ UNCHANGED <<eventCallbacks, mediaTokens, gatewayVars, handlers>>

\* sendCode after the answer: the hash goes to the session now in the map.
CodeSent(r) ==
    /\ Running
    /\ Waiting(r, "sendCode")
    /\ link[requests[r].client] = "up"
    /\ requests[r].sid \in Live
    /\ sessions' = [sessions EXCEPT ![requests[r].sid].phoneCodeHash =
                        requests[r].client]
    /\ End(r)
    /\ UNCHANGED <<eventCallbacks, mediaTokens, gatewayVars, clientVars>>

\* POST auth/sign-in.  Without a hash Telegram refuses and nothing changes.
SignIn(r, s) ==
    /\ Running
    /\ s \in Live
    /\ sessions[s].phoneCodeHash # None
    /\ Begin(r, "auth", s, sessions[s].client)
    /\ UNCHANGED <<serviceVars, gatewayVars, clientVars>>

\* POST auth/sign-in-2fa; nothing changes between its two calls to Telegram.
SignIn2FA(r, s) ==
    /\ Running
    /\ s \in Live
    /\ Begin(r, "auth", s, sessions[s].client)
    /\ UNCHANGED <<serviceVars, gatewayVars, clientVars>>

\* GET auth/status of a connected session; otherwise it answers at once.
GetAuthStatus(r, s) ==
    /\ Running
    /\ IsConnected(s)
    /\ Begin(r, "auth", s, sessions[s].client)
    /\ sessions' = Touch(s)
    /\ UNCHANGED <<eventCallbacks, mediaTokens, gatewayVars, clientVars>>

\* The controller after a sign-in or getMe that succeeded: the gateway
\* registers handlers on whatever client the id has now.
SignedIn(r) ==
    /\ Running
    /\ Waiting(r, "auth")
    /\ link[requests[r].client] = "up"
    /\ LET s == requests[r].sid IN
       \/ Registers(s) /\ RegisterHandlers(s)
       \/ /\ ~Registers(s)
          /\ UNCHANGED <<sessions, eventCallbacks, registeredSessions, handlers>>
    /\ End(r)
    /\ UNCHANGED <<mediaTokens, sessionKeepAliveIntervals, room, link>>

Logout(r, s) ==
    /\ Running
    /\ s \in Live
    /\ Begin(r, "logout", s, sessions[s].client)
    /\ UNCHANGED <<serviceVars, gatewayVars, clientVars>>

\* logout after LogOut was answered or failed: what is disconnected is the
\* captured client, what is dropped is the id's entry.
LoggedOut(r) ==
    /\ Running
    /\ Waiting(r, "logout")
    /\ LET s == requests[r].sid IN
       /\ ForgetSessions({s})
       /\ mediaTokens' = RevokeMediaTokens({s})
    /\ link' = Disconnect({requests[r].client})
    /\ End(r)
    /\ UNCHANGED gatewayVars

\* Any other awaited call is refused, or its continuation throws.
RequestFails(r) ==
    /\ Running
    /\ requests[r] # None
    /\ requests[r].op # "logout"
    /\ link' = IF requests[r].op = "initClient"
               THEN [link EXCEPT ![requests[r].client] = "closed"] ELSE link
    /\ End(r)
    /\ UNCHANGED <<serviceVars, gatewayVars, handlers>>

-------------------------------------------------------------------------------
(* Using a session. *)

\* A method of the service that reads or writes chats: getClient comes before
\* its first await, and what follows leaves the registry alone.
UsesClient(s) == sessions' = Touch(s)

\* The controller's handlers of dialogs and messages: ensureConnected, then the
\* method, without an await in between.
ServiceCall(s) ==
    /\ Running
    /\ IsConnected(s)
    /\ UsesClient(s)
    /\ UNCHANGED <<eventCallbacks, mediaTokens, gatewayVars, clientVars, requests>>

\* Mutant: ensureConnected is not called first.
CreateMediaToken_Unchecked(t, s) ==
    /\ Running
    /\ mediaTokens[t] = None
    /\ mediaTokens' = [mediaTokens EXCEPT ![t] = [sessionId |-> s, age |-> 0]]
    /\ UNCHANGED <<sessions, eventCallbacks, gatewayVars, clientVars, requests>>

CreateMediaToken(t, s) ==
    /\ Running
    /\ IsConnected(s)
    /\ mediaTokens[t] = None
    /\ mediaTokens' = [mediaTokens EXCEPT ![t] = [sessionId |-> s, age |-> 0]]
    /\ UNCHANGED <<sessions, eventCallbacks, gatewayVars, clientVars, requests>>

\* A download with an expired token forgets the token and is refused.
ResolveExpiredToken(t) ==
    /\ Running
    /\ Expired(t)
    /\ mediaTokens' = [mediaTokens EXCEPT ![t] = None]
    /\ UNCHANGED <<sessions, eventCallbacks, gatewayVars, clientVars, requests>>

\* GET media: the session comes from a valid token, the query or the header.
DownloadMedia(r, s) ==
    /\ Running
    /\ IsConnected(s)
    /\ Begin(r, "media", s, sessions[s].client)
    /\ sessions' = Touch(s)
    /\ UNCHANGED <<eventCallbacks, mediaTokens, gatewayVars, clientVars>>

\* iterDownloadMedia after the metadata came: it looks the client up again and
\* throws when the session is gone.
IterDownloadMedia(r) ==
    /\ Running
    /\ Waiting(r, "media")
    /\ requests[r].sid \in Live
    /\ sessions' = Touch(requests[r].sid)
    /\ End(r)
    /\ UNCHANGED <<eventCallbacks, mediaTokens, gatewayVars, clientVars>>

-------------------------------------------------------------------------------
(* The gateway. *)

HandleConnection(k, s) ==
    /\ Running
    /\ room[k] = None
    /\ room' = [room EXCEPT ![k] = s]
    /\ sessionKeepAliveIntervals' = sessionKeepAliveIntervals \cup {s}
    /\ \/ Registers(s) /\ RegisterHandlers(s)
       \/ /\ ~Registers(s)
          /\ sessions' = Touch(s)
          /\ UNCHANGED <<eventCallbacks, registeredSessions, handlers>>
    /\ UNCHANGED <<mediaTokens, link, requests>>

\* Mutants: the map entry goes before the callback is looked up; the timer is not
\* cleared.
HandleDisconnect_SwappedOrder(k) ==
    /\ Running
    /\ room[k] # None
    /\ \A other \in Sockets \ {k} : room[other] # room[k]
    /\ room' = [room EXCEPT ![k] = None]
    /\ registeredSessions' = registeredSessions \ {room[k]}
    /\ sessionKeepAliveIntervals' = sessionKeepAliveIntervals \ {room[k]}
    /\ eventCallbacks' = [eventCallbacks EXCEPT ![room[k]] = None]
    /\ UNCHANGED <<sessions, mediaTokens, link, handlers, requests>>

HandleDisconnect_TimerKept(k) ==
    /\ Running
    /\ room[k] # None
    /\ room' = [room EXCEPT ![k] = None]
    /\ \A other \in Sockets \ {k} : room[other] # room[k]
    /\ registeredSessions' = registeredSessions \ {room[k]}
    /\ handlers' = UnregisterHandlers({room[k]})
    /\ UNCHANGED <<serviceVars, sessionKeepAliveIntervals, link, requests>>

\* socket.io takes the socket out of its room before it reports the disconnect.
HandleDisconnect(k) ==
    /\ Running
    /\ room[k] # None
    /\ room' = [room EXCEPT ![k] = None]
    /\ \/ /\ \E other \in Sockets \ {k} : room[other] = room[k]
          /\ UNCHANGED <<registeredSessions, sessionKeepAliveIntervals, handlers>>
       \/ /\ \A other \in Sockets \ {k} : room[other] # room[k]
          /\ registeredSessions' = registeredSessions \ {room[k]}
          /\ sessionKeepAliveIntervals' = sessionKeepAliveIntervals \ {room[k]}
          /\ handlers' = UnregisterHandlers({room[k]})
    /\ UNCHANGED <<serviceVars, link, requests>>

\* The timer of one room, every 60 seconds.
KeepAlive(s) ==
    /\ Running
    /\ s \in sessionKeepAliveIntervals
    /\ sessions' = Touch(s)
    /\ UNCHANGED <<eventCallbacks, mediaTokens, gatewayVars, clientVars, requests>>

-------------------------------------------------------------------------------
(* Time, clean-up and shutdown. *)

\* Mutant: drops a session that has been idle for just the limit.
Inactive_OffByOne(s) == sessions[s].idle >= MaxInactivity

Inactive(s) == sessions[s].idle > MaxInactivity

\* Mutant: only the tokens of dropped sessions are removed.
SweepTokens_RevokeOnly(S) == RevokeMediaTokens(S)

SweepTokens(S) ==
    [t \in Tokens |-> IF Expired(t) THEN None ELSE RevokeMediaTokens(S)[t]]

CleanupInactiveSessions ==
    LET inactive == {s \in Live : Inactive(s)} IN
    /\ Running
    /\ ForgetSessions(inactive)
    /\ link' = Disconnect({sessions[s].client : s \in inactive})
    /\ mediaTokens' = SweepTokens(inactive)
    /\ UNCHANGED <<gatewayVars, requests>>

Older(age, limit) == IF age > limit THEN age ELSE age + 1

\* A tick is longer than the keep-alive period, so the timer of every watched
\* session has fired since the tick before.
Tick ==
    /\ Running
    /\ \A s \in sessionKeepAliveIntervals \cap Live : sessions[s].idle = 0
    /\ sessions' = [s \in SessionIds |->
                      IF s \in Live
                      THEN [sessions[s] EXCEPT !.idle = Older(@, MaxInactivity)]
                      ELSE None]
    /\ mediaTokens' = [t \in Tokens |->
                         IF mediaTokens[t] # None
                         THEN [mediaTokens[t] EXCEPT !.age = Older(@, TokenLifetime)]
                         ELSE None]
    /\ UNCHANGED <<eventCallbacks, gatewayVars, clientVars, requests>>

\* GramJS loses a connection and restores it by itself.
LinkDown(c) ==
    /\ Running
    /\ link[c] = "up"
    /\ link' = [link EXCEPT ![c] = "down"]
    /\ UNCHANGED <<serviceVars, gatewayVars, handlers, requests>>

LinkUp(c) ==
    /\ Running
    /\ link[c] = "down"
    /\ link' = [link EXCEPT ![c] = "up"]
    /\ UNCHANGED <<serviceVars, gatewayVars, handlers, requests>>

OnModuleDestroy ==
    /\ ~down
    /\ down' = TRUE
    /\ link' = Disconnect({c \in Clients : Owned(c)})
    /\ UNCHANGED <<serviceVars, gatewayVars, handlers, requests>>

-------------------------------------------------------------------------------

HandlerStep ==
    \/ \E r \in Requests, s \in SessionIds :
          \/ SendCode(r, s)
          \/ SignIn(r, s)
          \/ SignIn2FA(r, s)
          \/ GetAuthStatus(r, s)
          \/ Logout(r, s)
          \/ DownloadMedia(r, s)
    \/ \E s \in SessionIds : ServiceCall(s)
    \/ \E t \in Tokens, s \in SessionIds : CreateMediaToken(t, s)
    \/ \E t \in Tokens : ResolveExpiredToken(t)

Continuation ==
    \E r \in Requests :
        \/ ClientConnected(r)
        \/ ClientReconnected(r)
        \/ CodeSent(r)
        \/ SignedIn(r)
        \/ LoggedOut(r)
        \/ IterDownloadMedia(r)
        \/ RequestFails(r)

GatewayStep ==
    \/ \E k \in Sockets, s \in SessionIds : HandleConnection(k, s)
    \/ \E k \in Sockets : HandleDisconnect(k)
    \/ \E s \in SessionIds : KeepAlive(s)

Background ==
    \/ CleanupInactiveSessions
    \/ Tick
    \/ \E c \in Clients : LinkDown(c) \/ LinkUp(c)
    \/ OnModuleDestroy

\* The process ends after onModuleDestroy.
Terminated == down /\ UNCHANGED vars

Next ==
    \/ HandlerStep
    \/ Continuation
    \/ GatewayStep
    \/ Background
    \/ Terminated

Spec == Init /\ [][Next]_vars

-------------------------------------------------------------------------------
(* Safety. *)

\* What Telegram sends to the client of a session is emitted to the room of
\* that session and to no other (gateway: "Emit only to clients in this
\* session's room").
UpdatesReachOwnRoom ==
    \A s \in Live : \A h \in handlers[sessions[s].client] : h.room = s

\* No update is emitted twice: whatever order logins, socket arrivals and
\* departures come in, a client never holds a second handler, because
\* registering takes away the one the map remembers.
OneSubscription ==
    \A c \in Clients : \A h1, h2 \in handlers[c] : h1 = h2

\* When the last socket of a room has gone, the client of the session holds no
\* handler until the gateway registers one again: unregisterHandlers finds
\* the callback that was added.
QuietUnlessRegistered ==
    \A s \in Live \ registeredSessions : handlers[sessions[s].client] = {}

\* However logins, requests and pages interleave, updates go to their own room,
\* once, and only while the gateway has the session registered.
SubscriptionsSound == UpdatesReachOwnRoom /\ OneSubscription /\ QuietUnlessRegistered

\* A media token never outlives its session: every way a session leaves the
\* map revokes its tokens, and no request can add one afterwards.
TokensHaveSession ==
    \A t \in Tokens : mediaTokens[t] # None => mediaTokens[t].sessionId \in Live

\* The keep-alive timers are exactly those of the occupied rooms: none is left
\* running when a room empties, none is cancelled while a socket stays.
KeepAliveMatchesRooms ==
    sessionKeepAliveIntervals = {s \in SessionIds : \E k \in Sockets : room[k] = s}

\* A session with a page open is not dropped behind its back: only a logout of
\* that id removes it, however long the user makes no request.
WatchedSessionKept ==
    [][\A s \in Live :
          (\E k \in Sockets : room[k] = s) /\ s \notin Live' =>
              \E r \in Requests :
                  Waiting(r, "logout") /\ requests[r].sid = s /\ requests'[r] = None
      ]_vars

\* The tokens implement SessionGrants.
Grants == INSTANCE SessionGrants WITH
    live <- Live,
    grants <- [t \in Tokens |->
                 IF mediaTokens[t] = None THEN None ELSE mediaTokens[t].sessionId]

\* Creating, revoking and expiring tokens, with every race of the requests
\* around them, does only what SessionGrants allows.
GrantsSpec == Grants!Spec

-------------------------------------------------------------------------------
(* What holds while one request at a time awaits Telegram, and what the       *)
(* comments of the code say without that condition.                           *)

\* A connection that will never be closed: no session has the client, and no
\* login is still connecting it.
Stray(c) ==
    /\ link[c] # "closed"
    /\ ~Owned(c)
    /\ \A r \in Requests : Waiting(r, "initClient") => requests[r].client # c

\* A request is connecting the client of a session that is gone by now.
ComesBack(c) ==
    ~Owned(c) /\ \E r \in Requests : Waiting(r, "reconnect") /\ requests[r].client = c

\* A request means another client of the id than the session has by now.
Overtaken(c) ==
    \E r \in Requests :
        /\ requests[r] # None
        /\ requests[r].client # c
        /\ requests[r].sid \in Live /\ sessions[requests[r].sid].client = c

\* The code a user types is checked against the hash of the client that asked
\* for it: sendCode's answer is never stored with another client's session.
OwnPhoneCode ==
    \A s \in Live : sessions[s].phoneCodeHash \in {None, sessions[s].client}

\* A client that is no longer any session's holds no handler that could still
\* emit to a room.
NoForeignSubscription ==
    \A c \in Clients : handlers[c] # {} => Owned(c)

\* A socket that arrives at a connected session finds handlers on its client
\* ("Register Telegram event handlers for this session if not already done").
SocketIsServed ==
    [][\A k \in Sockets, s \in SessionIds :
          room[k] = None /\ room'[k] = s /\ IsConnected(s) =>
              handlers'[sessions[s].client] # {}]_vars

-------------------------------------------------------------------------------
(* Liveness. *)

\* A step other than the keep-alive timer's that marks the session as used.
Uses(s) ==
    /\ s \in Live /\ s \in Live'
    /\ sessions[s].idle > 0 /\ sessions'[s].idle = 0
    /\ ~KeepAlive(s)

\* A session whose pages have all been closed and that no request uses any more
\* is dropped: nothing that outlives a socket keeps it alive.
UnusedSessionGoes ==
    \A s \in SessionIds :
        <>[](\A k \in Sockets : room[k] # s) /\ <>[][~Uses(s)]_vars
            => []<>(down \/ s \notin Live)

\* A media token stops working after its lifetime, and its entry goes even when
\* nobody presents it again.
TokenLapses ==
    \A t \in Tokens : mediaTokens[t] # None ~> (down \/ mediaTokens[t] = None)
===============================================================================
