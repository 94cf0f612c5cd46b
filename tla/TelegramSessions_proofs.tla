----------------------- MODULE TelegramSessions_proofs -----------------------
(* The safety of the session registry and of what its clients receive, for    *)
(* any number of sessions, clients, requests, sockets, tokens and updates.    *)
EXTENDS MCTelegramSessions, TelegramUpdates, TLAPS

-------------------------------------------------------------------------------
(* Operators on the registry. *)

\* Touching a session changes no more than its age.
LEMMA TouchLemma ==
    ASSUME TypeOK, NEW s \in SessionIds
    PROVE  /\ Touch(s) \in [SessionIds -> UserSession \cup {None}]
           /\ \A x \in SessionIds :
                 /\ Touch(s)[x] = None <=> sessions[x] = None
                 /\ x \in Live => /\ Touch(s)[x].client = sessions[x].client
                                  /\ Touch(s)[x].idle = IF x = s THEN 0 ELSE sessions[x].idle
BY NoneAssumption, DurationsAssumption DEF TypeOK, Touch, Live, UserSession

\* A new request record is well typed.
LEMMA BeginLemma ==
    ASSUME TypeOK, NEW r \in Requests, NEW op \in Waits, NEW s \in SessionIds,
           NEW c \in Clients, Begin(r, op, s, c)
    PROVE  requests' \in [Requests -> Request \cup {None}]
BY DEF TypeOK, Begin, Request

LEMMA EndLemma ==
    ASSUME TypeOK, NEW r \in Requests, End(r)
    PROVE  requests' \in [Requests -> Request \cup {None}]
BY DEF TypeOK, End

LEMMA RegisterLemma ==
    ASSUME TypeOK, NEW s \in SessionIds, RegisterHandlers(s), s \in Live
    PROVE  /\ sessions' = Touch(s)
           /\ sessions' \in [SessionIds -> UserSession \cup {None}]
           /\ eventCallbacks' \in [SessionIds -> Callback \cup {None}]
           /\ handlers' \in [Clients -> SUBSET Callback]
           /\ registeredSessions' = registeredSessions \cup {s}
<1>1. PICK id \in FreshCallbackIds :
          LET new == [id |-> id, room |-> s] IN
          /\ registeredSessions' = registeredSessions \cup {s}
          /\ sessions' = Touch(s)
          /\ eventCallbacks' = [eventCallbacks EXCEPT ![s] = new]
          /\ handlers' = [handlers EXCEPT ![sessions[s].client] =
                              (@ \ {eventCallbacks[s]}) \cup {new}]
  BY DEF RegisterHandlers
<1>2. [id |-> id, room |-> s] \in Callback
  BY DEF FreshCallbackIds, Callback
<1>3. QED
  BY <1>1, <1>2, TouchLemma DEF TypeOK

LEMMA ForgetLemma ==
    ASSUME TypeOK, NEW S \in SUBSET SessionIds, ForgetSessions(S)
    PROVE  /\ sessions' \in [SessionIds -> UserSession \cup {None}]
           /\ eventCallbacks' \in [SessionIds -> Callback \cup {None}]
           /\ handlers' \in [Clients -> SUBSET Callback]
BY DEF TypeOK, ForgetSessions, UnregisterHandlers

LEMMA TokensLemma ==
    ASSUME TypeOK, NEW S
    PROVE  /\ RevokeMediaTokens(S) \in [Tokens -> MediaTokenEntry \cup {None}]
           /\ SweepTokens(S) \in [Tokens -> MediaTokenEntry \cup {None}]
BY DEF TypeOK, RevokeMediaTokens, SweepTokens

LEMMA DisconnectLemma ==
    ASSUME TypeOK, NEW C
    PROVE  Disconnect(C) \in [Clients -> LinkStates]
BY DEF TypeOK, Disconnect, LinkStates

\* Ages stay within their bounds when time passes.
LEMMA OlderLemma ==
    ASSUME NEW limit \in Nat, NEW age \in 0 .. limit + 1
    PROVE  Older(age, limit) \in 0 .. limit + 1
BY DEF Older

-------------------------------------------------------------------------------
(* Types. *)

LEMMA InitType == Init => TypeOK
BY DEF Init, TypeOK, LinkStates

LEMMA StepType == TypeOK /\ [Next]_vars => TypeOK'
<1> SUFFICES ASSUME TypeOK, [Next]_vars PROVE TypeOK'
  OBVIOUS
<1> USE DEF serviceVars, gatewayVars, clientVars, Running
<1>1. ASSUME NEW r \in Requests, NEW s \in SessionIds, SendCode(r, s)
      PROVE  TypeOK'
  <2>1. CASE /\ s \notin Live
             /\ \E c \in Clients :
                   /\ Unused(c)
                   /\ Begin(r, "initClient", s, c)
                   /\ link' = [link EXCEPT ![c] = "connecting"]
                   /\ handlers' = [handlers EXCEPT ![c] = {}]
             /\ UNCHANGED sessions
    BY <1>1, <2>1, BeginLemma DEF SendCode, TypeOK, LinkStates, Waits
  <2>2. CASE /\ s \in Live /\ ~IsConnected(s)
             /\ Begin(r, "reconnect", s, sessions[s].client)
             /\ UNCHANGED <<sessions, clientVars>>
    <3>1. sessions[s].client \in Clients
      BY <2>2 DEF TypeOK, Live, UserSession
    <3>2. QED BY <1>1, <2>2, <3>1, BeginLemma DEF SendCode, TypeOK, Waits
  <2>3. CASE /\ IsConnected(s)
             /\ Begin(r, "sendCode", s, sessions[s].client)
             /\ sessions' = Touch(s)
             /\ UNCHANGED clientVars
    <3>1. sessions[s].client \in Clients
      BY <2>3 DEF TypeOK, IsConnected, Live, UserSession
    <3>2. QED BY <1>1, <2>3, <3>1, BeginLemma, TouchLemma DEF SendCode, TypeOK, Waits
  <2>4. QED BY <1>1, <2>1, <2>2, <2>3 DEF SendCode
<1>2. ASSUME NEW r \in Requests, NEW s \in SessionIds,
             \/ SignIn(r, s) \/ SignIn2FA(r, s) \/ GetAuthStatus(r, s)
             \/ Logout(r, s) \/ DownloadMedia(r, s)
      PROVE  TypeOK'
  <2>1. sessions[s].client \in Clients
    BY <1>2 DEF TypeOK, SignIn, SignIn2FA, GetAuthStatus, Logout, DownloadMedia,
                IsConnected, Live, UserSession
  <2>2. requests' \in [Requests -> Request \cup {None}]
    BY <1>2, <2>1, BeginLemma
       DEF SignIn, SignIn2FA, GetAuthStatus, Logout, DownloadMedia, Waits
  <2>3. QED
    BY <1>2, <2>2, TouchLemma
       DEF TypeOK, SignIn, SignIn2FA, GetAuthStatus, Logout, DownloadMedia
<1>3. ASSUME NEW s \in SessionIds, ServiceCall(s) \/ KeepAlive(s)
      PROVE  TypeOK'
  BY <1>3, TouchLemma DEF ServiceCall, UsesClient, KeepAlive, TypeOK
<1>4. ASSUME NEW t \in Tokens, NEW s \in SessionIds, CreateMediaToken(t, s)
      PROVE  TypeOK'
  BY <1>4, DurationsAssumption DEF CreateMediaToken, TypeOK, MediaTokenEntry
<1>5. ASSUME NEW t \in Tokens, ResolveExpiredToken(t)
      PROVE  TypeOK'
  BY <1>5 DEF ResolveExpiredToken, TypeOK
<1>6. ASSUME NEW r \in Requests, ClientConnected(r) \/ ClientReconnected(r)
      PROVE  TypeOK'
  <2>1. /\ requests[r] \in Request
        /\ requests' = [requests EXCEPT ![r].op = "sendCode"]
    BY <1>6 DEF ClientConnected, ClientReconnected, Waiting, TypeOK
  <2>2. requests' \in [Requests -> Request \cup {None}]
    BY <2>1 DEF TypeOK, Request, Waits
  <2>3. link' \in [Clients -> LinkStates]
    BY <1>6 DEF ClientConnected, ClientReconnected, TypeOK, LinkStates
  <2>4. CASE ClientReconnected(r)
    BY <2>1, <2>2, <2>3, <2>4, TouchLemma DEF ClientReconnected, TypeOK, Request
  <2>5. CASE ClientConnected(r)
    <3>1. [client |-> requests[r].client, phoneCodeHash |-> None, idle |-> 0] \in UserSession
      BY <2>1, DurationsAssumption DEF Request, UserSession
    <3>2. sessions' \in [SessionIds -> UserSession \cup {None}]
      BY <2>1, <2>5, <3>1 DEF ClientConnected, TypeOK, Request
    <3>3. QED BY <2>2, <2>3, <2>5, <3>2 DEF ClientConnected, TypeOK
  <2>6. QED BY <1>6, <2>4, <2>5
<1>7. ASSUME NEW r \in Requests, CodeSent(r)
      PROVE  TypeOK'
  <2>1. /\ requests[r] \in Request
        /\ requests[r].sid \in Live
    BY <1>7 DEF CodeSent, Waiting, TypeOK
  <2>2. sessions' \in [SessionIds -> UserSession \cup {None}]
    BY <1>7, <2>1 DEF CodeSent, TypeOK, Request, UserSession, Live
  <2>3. QED BY <1>7, <2>2, EndLemma DEF CodeSent, TypeOK
<1>8. ASSUME NEW r \in Requests, SignedIn(r)
      PROVE  TypeOK'
  <2>1. requests[r].sid \in SessionIds
    BY <1>8 DEF SignedIn, Waiting, TypeOK, Request
  <2>2. CASE Registers(requests[r].sid) /\ RegisterHandlers(requests[r].sid)
    BY <1>8, <2>1, <2>2, RegisterLemma, EndLemma
       DEF SignedIn, Registers, IsConnected, TypeOK
  <2>3. CASE UNCHANGED <<sessions, eventCallbacks, registeredSessions, handlers>>
    BY <1>8, <2>3, EndLemma DEF SignedIn, TypeOK
  <2>4. QED BY <1>8, <2>2, <2>3 DEF SignedIn
<1>9. ASSUME NEW r \in Requests, LoggedOut(r)
      PROVE  TypeOK'
  <2>1. requests[r].sid \in SessionIds
    BY <1>9 DEF LoggedOut, Waiting, TypeOK, Request
  <2>2. QED
    BY <1>9, <2>1, ForgetLemma, TokensLemma, DisconnectLemma, EndLemma
       DEF LoggedOut, TypeOK
<1>10. ASSUME NEW r \in Requests, RequestFails(r) \/ IterDownloadMedia(r)
       PROVE  TypeOK'
  <2>1. CASE RequestFails(r)
    BY <2>1, EndLemma DEF RequestFails, TypeOK, LinkStates
  <2>2. CASE IterDownloadMedia(r)
    BY <2>2, EndLemma, TouchLemma DEF IterDownloadMedia, TypeOK, Live
  <2>3. QED BY <1>10, <2>1, <2>2
<1>11. ASSUME NEW k \in Sockets, NEW s \in SessionIds, HandleConnection(k, s)
       PROVE  TypeOK'
  <2>1. CASE Registers(s) /\ RegisterHandlers(s)
    BY <1>11, <2>1, RegisterLemma DEF HandleConnection, Registers, IsConnected, TypeOK
  <2>2. CASE /\ sessions' = Touch(s)
             /\ UNCHANGED <<eventCallbacks, registeredSessions, handlers>>
    BY <1>11, <2>2, TouchLemma DEF HandleConnection, TypeOK
  <2>3. QED BY <1>11, <2>1, <2>2 DEF HandleConnection
<1>12. ASSUME NEW k \in Sockets, HandleDisconnect(k)
       PROVE  TypeOK'
  BY <1>12 DEF HandleDisconnect, UnregisterHandlers, TypeOK
<1>13. CASE CleanupInactiveSessions
  <2>1. {s \in Live : Inactive(s)} \in SUBSET SessionIds
    BY DEF Live
  <2>2. QED
    BY <1>13, <2>1, ForgetLemma, TokensLemma, DisconnectLemma
       DEF CleanupInactiveSessions, TypeOK
<1>14. CASE Tick
  <2>1. sessions' \in [SessionIds -> UserSession \cup {None}]
    BY <1>14, OlderLemma, DurationsAssumption DEF Tick, TypeOK, UserSession, Live
  <2>2. mediaTokens' \in [Tokens -> MediaTokenEntry \cup {None}]
    BY <1>14, OlderLemma, DurationsAssumption DEF Tick, TypeOK, MediaTokenEntry
  <2>3. QED BY <1>14, <2>1, <2>2 DEF Tick, TypeOK
<1>15. ASSUME NEW c \in Clients, LinkDown(c) \/ LinkUp(c)
       PROVE  TypeOK'
  BY <1>15 DEF LinkDown, LinkUp, TypeOK, LinkStates
<1>16. CASE OnModuleDestroy
  BY <1>16, DisconnectLemma DEF OnModuleDestroy, TypeOK
<1>17. CASE UNCHANGED vars
  BY <1>17 DEF vars, TypeOK
<1>18. QED
  BY <1>1, <1>2, <1>3, <1>4, <1>5, <1>6, <1>7, <1>8, <1>9, <1>10, <1>11, <1>12,
     <1>13, <1>14, <1>15, <1>16, <1>17
     DEF Next, HandlerStep, Continuation, GatewayStep, Background, Terminated

\* Every reachable state is well typed.
THEOREM TypeCorrect == Spec => []TypeOK
BY InitType, StepType, PTL DEF Spec
-------------------------------------------------------------------------------
(* The inductive invariant. *)

\* A client belongs to one session or to one connecting request, not to both.
ClientsInv ==
    /\ \A s1, s2 \in Live : sessions[s1].client = sessions[s2].client => s1 = s2
    /\ \A s \in Live : link[sessions[s].client] # "connecting"
    /\ \A r \in Requests : Waiting(r, "initClient") =>
          /\ link[requests[r].client] = "connecting"
          /\ \A q \in Requests \ {r} :
                requests[q] # None => requests[q].client # requests[r].client

\* The map remembers the only callback a session's client can hold.
HandlersInv ==
    /\ \A s \in SessionIds : eventCallbacks[s] # None =>
          s \in Live /\ eventCallbacks[s].room = s
    /\ \A s \in Live : handlers[sessions[s].client] \subseteq {eventCallbacks[s]}
    /\ \A r \in Requests :
          Waiting(r, "initClient") => handlers[requests[r].client] = {}
    /\ OneSubscription
    /\ QuietUnlessRegistered

\* The keep-alive timer of an occupied room keeps its session young.
WatchInv ==
    /\ KeepAliveMatchesRooms
    /\ \A s \in sessionKeepAliveIntervals \cap Live : sessions[s].idle <= 1

\* The same sessions with the same clients, whatever their ages.
SameOwners ==
    /\ Live' = Live
    /\ \A s \in Live : sessions'[s].client = sessions[s].client

LEMMA SameOwnersLemma ==
    ASSUME TypeOK
    PROVE  /\ UNCHANGED sessions => SameOwners
           /\ \A s \in SessionIds : sessions' = Touch(s) => SameOwners
BY TouchLemma DEF SameOwners, Live

\* A request that captures the client of a live session keeps ClientsInv.
LEMMA CaptureLemma ==
    ASSUME TypeOK, ClientsInv, SameOwners, UNCHANGED link,
           NEW r \in Requests, NEW op \in Waits \ {"initClient"}, NEW s \in Live,
           Begin(r, op, s, sessions[s].client)
    PROVE  ClientsInv'
BY NoneAssumption DEF TypeOK, ClientsInv, SameOwners, Begin, Waiting, Live, Request

\* So does a request that ends, or whose client settled.
LEMMA ReleaseLemma ==
    ASSUME TypeOK, ClientsInv, SameOwners, NEW r \in Requests, End(r),
           \A c \in Clients : link'[c] # link[c] =>
              link'[c] # "connecting" /\
              (link[c] = "connecting" => requests[r].client = c),
           requests[r] # None
    PROVE  ClientsInv'
BY NoneAssumption DEF TypeOK, ClientsInv, SameOwners, End, Waiting, Live, Request, UserSession

\* Nothing about clients changes while links come and go among settled clients.
LEMMA LinkLemma ==
    ASSUME TypeOK, ClientsInv, UNCHANGED requests,
           Live' \subseteq Live,
           \A s \in Live' : sessions'[s].client = sessions[s].client,
           \A c \in Clients : link'[c] # link[c] =>
              link'[c] # "connecting" /\ link[c] # "connecting"
    PROVE  ClientsInv'
BY DEF TypeOK, ClientsInv, Waiting, Live, Request, UserSession

LEMMA StepClients == TypeOK /\ ClientsInv /\ [Next]_vars => ClientsInv'
<1> SUFFICES ASSUME TypeOK, ClientsInv, [Next]_vars PROVE ClientsInv'
  OBVIOUS
<1> USE DEF serviceVars, gatewayVars, clientVars, Running
<1>1. ASSUME NEW r \in Requests, NEW s \in SessionIds, SendCode(r, s)
      PROVE  ClientsInv'
  <2>1. ASSUME NEW c \in Clients, Unused(c), Begin(r, "initClient", s, c),
               link' = [link EXCEPT ![c] = "connecting"], UNCHANGED sessions
        PROVE  ClientsInv'
    BY <2>1 DEF TypeOK, ClientsInv, Unused, Owned, Held, Begin, Waiting, Live, UserSession, Request
  <2>2. CASE /\ s \in Live /\ ~IsConnected(s)
             /\ Begin(r, "reconnect", s, sessions[s].client)
             /\ UNCHANGED <<sessions, clientVars>>
    BY <2>2, SameOwnersLemma, CaptureLemma DEF Waits
  <2>3. CASE /\ IsConnected(s)
             /\ Begin(r, "sendCode", s, sessions[s].client)
             /\ sessions' = Touch(s)
             /\ UNCHANGED clientVars
    BY <2>3, SameOwnersLemma, CaptureLemma DEF Waits, IsConnected
  <2>4. QED BY <1>1, <2>1, <2>2, <2>3 DEF SendCode
<1>2. ASSUME NEW r \in Requests, NEW s \in SessionIds,
             \/ SignIn(r, s) \/ SignIn2FA(r, s) \/ GetAuthStatus(r, s)
             \/ Logout(r, s) \/ DownloadMedia(r, s)
      PROVE  ClientsInv'
  <2>1. s \in Live /\ SameOwners /\ UNCHANGED link
    BY <1>2, SameOwnersLemma
       DEF SignIn, SignIn2FA, GetAuthStatus, Logout, DownloadMedia, IsConnected
  <2>2. \E op \in Waits \ {"initClient"} : Begin(r, op, s, sessions[s].client)
    BY <1>2 DEF SignIn, SignIn2FA, GetAuthStatus, Logout, DownloadMedia, Waits
  <2>3. QED BY <2>1, <2>2, CaptureLemma
<1>3. ASSUME NEW s \in SessionIds, ServiceCall(s) \/ KeepAlive(s)
      PROVE  ClientsInv'
  BY <1>3, SameOwnersLemma, LinkLemma DEF ServiceCall, UsesClient, KeepAlive, SameOwners
<1>4. ASSUME NEW t \in Tokens,
             ResolveExpiredToken(t) \/ \E s \in SessionIds : CreateMediaToken(t, s)
      PROVE  ClientsInv'
  BY <1>4, SameOwnersLemma, LinkLemma
     DEF CreateMediaToken, ResolveExpiredToken, SameOwners
<1>5. ASSUME NEW r \in Requests, ClientConnected(r)
      PROVE  ClientsInv'
  <2>1. requests[r] \in Request /\ requests[r].op = "initClient"
    BY <1>5 DEF ClientConnected, Waiting, TypeOK
  <2>2. link[requests[r].client] = "connecting"
    BY <2>1, NoneAssumption DEF ClientsInv, Waiting
  <2>3. \A s \in Live : sessions[s].client # requests[r].client
    BY <2>2 DEF ClientsInv
  <2>4. QED
    BY <1>5, <2>1, <2>2, <2>3
       DEF ClientConnected, ClientsInv, TypeOK, Waiting, Live, UserSession, Request
<1>6. ASSUME NEW r \in Requests, ClientReconnected(r)
      PROVE  ClientsInv'
  <2>1. /\ requests[r] \in Request /\ requests[r].op = "reconnect"
        /\ requests' = [requests EXCEPT ![r].op = "sendCode"]
    BY <1>6 DEF ClientReconnected, Waiting, TypeOK
  <2>2. SameOwners
    BY <1>6, <2>1, SameOwnersLemma DEF ClientReconnected, Request
  <2>3. PICK state \in {"up", "down"} : link' = [link EXCEPT ![requests[r].client] = state]
    BY <1>6 DEF ClientReconnected
  <2>4. \A q \in Requests : Waiting(q, "initClient") =>
           requests[q].client # requests[r].client
    BY <2>1, NoneAssumption DEF ClientsInv, Waiting
  <2>5. QED
    BY <2>1, <2>2, <2>3, <2>4
       DEF ClientsInv, SameOwners, TypeOK, Waiting, Live, UserSession, Request
<1>7. ASSUME NEW r \in Requests, CodeSent(r)
      PROVE  ClientsInv'
  <2>1. SameOwners
    BY <1>7, NoneAssumption
       DEF CodeSent, SameOwners, TypeOK, Live, UserSession, Waiting, Request
  <2>2. QED BY <1>7, <2>1, ReleaseLemma DEF CodeSent, Waiting
<1>8. ASSUME NEW r \in Requests, SignedIn(r)
      PROVE  ClientsInv'
  <2>1. requests[r].sid \in SessionIds
    BY <1>8 DEF SignedIn, Waiting, TypeOK, Request
  <2>2. SameOwners
    BY <1>8, <2>1, SameOwnersLemma, RegisterLemma DEF SignedIn, Registers, IsConnected
  <2>3. QED BY <1>8, <2>2, ReleaseLemma DEF SignedIn, Waiting
<1>9. ASSUME NEW r \in Requests, IterDownloadMedia(r)
      PROVE  ClientsInv'
  <2>1. SameOwners
    BY <1>9, SameOwnersLemma DEF IterDownloadMedia, Live
  <2>2. QED BY <1>9, <2>1, ReleaseLemma DEF IterDownloadMedia, Waiting
<1>10. ASSUME NEW r \in Requests, RequestFails(r)
       PROVE  ClientsInv'
  <2>1. SameOwners
    BY <1>10, SameOwnersLemma DEF RequestFails
  <2>2. QED BY <1>10, <2>1, ReleaseLemma DEF RequestFails, TypeOK, Request, LinkStates
<1>11. ASSUME NEW r \in Requests, LoggedOut(r)
       PROVE  ClientsInv'
  <2>1. /\ requests[r] \in Request /\ requests[r].op = "logout"
        /\ requests' = [requests EXCEPT ![r] = None]
        /\ sessions' = [s \in SessionIds |->
                          IF s = requests[r].sid THEN None ELSE sessions[s]]
        /\ link' = [c \in Clients |-> IF c = requests[r].client THEN "closed" ELSE link[c]]
    BY <1>11 DEF LoggedOut, Waiting, TypeOK, ForgetSessions, Disconnect, End
  <2>2. \A q \in Requests : Waiting(q, "initClient") =>
           requests[q].client # requests[r].client
    BY <2>1, NoneAssumption DEF ClientsInv, Waiting
  <2>3. QED
    BY <2>1, <2>2 DEF ClientsInv, TypeOK, Waiting, Live, UserSession, Request
<1>12. ASSUME NEW k \in Sockets, NEW s \in SessionIds, HandleConnection(k, s)
       PROVE  ClientsInv'
  <2>1. SameOwners
    BY <1>12, SameOwnersLemma, RegisterLemma DEF HandleConnection, Registers, IsConnected
  <2>2. QED BY <1>12, <2>1, LinkLemma DEF HandleConnection, SameOwners
<1>13. ASSUME NEW k \in Sockets, HandleDisconnect(k)
       PROVE  ClientsInv'
  BY <1>13, SameOwnersLemma, LinkLemma DEF HandleDisconnect, SameOwners
<1>14. CASE CleanupInactiveSessions
  <2> DEFINE inactive == {s \in Live : Inactive(s)}
  <2>1. sessions' = [s \in SessionIds |-> IF s \in inactive THEN None ELSE sessions[s]]
    BY <1>14 DEF CleanupInactiveSessions, ForgetSessions
  <2>2. Live' \subseteq Live /\ \A s \in Live' : sessions'[s].client = sessions[s].client
    BY <2>1 DEF Live, TypeOK
  <2>3. \A c \in Clients : link'[c] # link[c] =>
           link'[c] # "connecting" /\ link[c] # "connecting"
    BY <1>14 DEF CleanupInactiveSessions, Disconnect, ClientsInv
  <2>4. QED BY <1>14, <2>2, <2>3, LinkLemma DEF CleanupInactiveSessions
<1>15. CASE Tick
  <2>1. Live' = Live /\ \A s \in Live : sessions'[s].client = sessions[s].client
    BY <1>15, NoneAssumption, OlderLemma, DurationsAssumption DEF Tick, TypeOK, Live, UserSession
  <2>2. QED BY <1>15, <2>1, LinkLemma DEF Tick
<1>16. ASSUME NEW c \in Clients, LinkDown(c) \/ LinkUp(c)
       PROVE  ClientsInv'
  BY <1>16, SameOwnersLemma, LinkLemma DEF LinkDown, LinkUp, TypeOK, SameOwners
<1>17. CASE OnModuleDestroy
  <2>1. \A c \in Clients : link'[c] # link[c] =>
           link'[c] # "connecting" /\ link[c] # "connecting"
    BY <1>17 DEF OnModuleDestroy, Disconnect, Owned, ClientsInv
  <2>2. QED BY <1>17, <2>1, SameOwnersLemma, LinkLemma DEF OnModuleDestroy, SameOwners
<1>18. CASE UNCHANGED vars
  BY <1>18, SameOwnersLemma, LinkLemma DEF vars, SameOwners
<1>19. QED
  BY <1>1, <1>2, <1>3, <1>4, <1>5, <1>6, <1>7, <1>8, <1>9, <1>10, <1>11, <1>12,
     <1>13, <1>14, <1>15, <1>16, <1>17, <1>18
     DEF Next, HandlerStep, Continuation, GatewayStep, Background, Terminated

\* No request starts to connect a client.
NoNewClient ==
    \A r \in Requests :
        Waiting(r, "initClient")' =>
            Waiting(r, "initClient") /\ requests'[r].client = requests[r].client

LEMMA NoNewClientLemma ==
    ASSUME TypeOK
    PROVE  /\ UNCHANGED requests => NoNewClient
           /\ \A r \in Requests : End(r) => NoNewClient
           /\ \A r \in Requests :
                 requests[r] # None /\ requests' = [requests EXCEPT ![r].op = "sendCode"]
                    => NoNewClient
           /\ \A r \in Requests, op \in Waits \ {"initClient"}, s \in SessionIds, c \in Clients :
                 Begin(r, op, s, c) => NoNewClient
BY NoneAssumption DEF TypeOK, NoNewClient, End, Begin, Waiting, Request

\* A step that touches no callback keeps HandlersInv.
LEMMA HandlersFrame ==
    ASSUME TypeOK, HandlersInv, SameOwners, NoNewClient,
           UNCHANGED <<eventCallbacks, handlers, registeredSessions>>
    PROVE  HandlersInv'
BY DEF TypeOK, HandlersInv, SameOwners, NoNewClient, OneSubscription,
       QuietUnlessRegistered, Live

\* Registering leaves the session's client with just the new callback, which
\* the map remembers.
LEMMA RegisterHandlersInv ==
    ASSUME TypeOK, ClientsInv, HandlersInv, NoNewClient,
           NEW s \in SessionIds, Registers(s), RegisterHandlers(s)
    PROVE  HandlersInv'
<1>1. PICK id \in FreshCallbackIds :
          LET new == [id |-> id, room |-> s] IN
          /\ registeredSessions' = registeredSessions \cup {s}
          /\ sessions' = Touch(s)
          /\ eventCallbacks' = [eventCallbacks EXCEPT ![s] = new]
          /\ handlers' = [handlers EXCEPT ![sessions[s].client] =
                              (@ \ {eventCallbacks[s]}) \cup {new}]
  BY DEF RegisterHandlers
<1> DEFINE new == [id |-> id, room |-> s]
<1>2. /\ s \in Live /\ sessions[s].client \in Clients
      /\ link[sessions[s].client] # "connecting"
  BY DEF Registers, IsConnected, ClientsInv, TypeOK, Live, UserSession
<1>3. new \in Callback /\ new # None /\ new.room = s
  BY <1>1, NoneAssumption DEF FreshCallbackIds, Callback
<1>4. SameOwners
  BY <1>1, SameOwnersLemma
<1>5. \A c \in Clients : handlers'[c] = IF c = sessions[s].client THEN {new} ELSE handlers[c]
  BY <1>1, <1>2 DEF TypeOK, HandlersInv
<1>6. \A x \in SessionIds : eventCallbacks'[x] = IF x = s THEN new ELSE eventCallbacks[x]
  BY <1>1 DEF TypeOK
<1> HIDE DEF new
<1>7. \A x \in SessionIds : eventCallbacks'[x] # None =>
         x \in Live' /\ eventCallbacks'[x].room = x
  BY <1>2, <1>3, <1>4, <1>6 DEF HandlersInv, SameOwners
<1>8. \A x \in Live' : handlers'[sessions'[x].client] \subseteq {eventCallbacks'[x]}
  BY <1>2, <1>4, <1>5, <1>6 DEF HandlersInv, SameOwners, ClientsInv, TypeOK, Live, UserSession
<1>9. \A r \in Requests : Waiting(r, "initClient")' => handlers'[requests'[r].client] = {}
  BY <1>2, <1>5 DEF HandlersInv, NoNewClient, ClientsInv, Waiting, TypeOK, Request
<1>10. OneSubscription'
  BY <1>5 DEF HandlersInv, OneSubscription
<1>11. QuietUnlessRegistered'
  BY <1>1, <1>2, <1>4, <1>5
     DEF HandlersInv, QuietUnlessRegistered, SameOwners, ClientsInv, TypeOK, Live, UserSession
<1>12. QED BY <1>7, <1>8, <1>9, <1>10, <1>11 DEF HandlersInv

\* Dropping sessions drops their callbacks from the map and from their clients.
LEMMA ForgetHandlersInv ==
    ASSUME TypeOK, HandlersInv, NoNewClient, UNCHANGED registeredSessions,
           NEW S \in SUBSET SessionIds, ForgetSessions(S)
    PROVE  HandlersInv'
<1>1. \A c \in Clients : handlers'[c] \subseteq handlers[c]
  BY DEF ForgetSessions, UnregisterHandlers, TypeOK
<1>2. /\ Live' = Live \ S
      /\ \A s \in Live' : sessions'[s] = sessions[s]
      /\ \A s \in SessionIds : eventCallbacks'[s] =
            IF s \in S THEN None ELSE eventCallbacks[s]
  BY DEF ForgetSessions, Live
<1>3. \A s \in SessionIds : eventCallbacks'[s] # None =>
         s \in Live' /\ eventCallbacks'[s].room = s
  BY <1>2 DEF HandlersInv
<1>4. \A s \in Live' : handlers'[sessions'[s].client] \subseteq {eventCallbacks'[s]}
  BY <1>1, <1>2 DEF HandlersInv, TypeOK, Live, UserSession
<1>5. \A r \in Requests : Waiting(r, "initClient")' => handlers'[requests'[r].client] = {}
  BY <1>1 DEF HandlersInv, NoNewClient, Waiting, TypeOK, Request
<1>6. OneSubscription'
  BY <1>1 DEF HandlersInv, OneSubscription
<1>7. QuietUnlessRegistered'
  BY <1>1, <1>2 DEF HandlersInv, QuietUnlessRegistered, TypeOK, Live, UserSession
<1>8. QED BY <1>3, <1>4, <1>5, <1>6, <1>7 DEF HandlersInv

LEMMA StepHandlers == TypeOK /\ ClientsInv /\ HandlersInv /\ [Next]_vars => HandlersInv'
<1> SUFFICES ASSUME TypeOK, ClientsInv, HandlersInv, [Next]_vars PROVE HandlersInv'
  OBVIOUS
<1> USE DEF serviceVars, gatewayVars, clientVars, Running
<1>1. ASSUME NEW r \in Requests, NEW s \in SessionIds, SendCode(r, s)
      PROVE  HandlersInv'
  <2>1. ASSUME NEW c \in Clients, Unused(c), Begin(r, "initClient", s, c),
               handlers' = [handlers EXCEPT ![c] = {}],
               UNCHANGED <<sessions, eventCallbacks, registeredSessions>>
        PROVE  HandlersInv'
    BY <2>1 DEF TypeOK, HandlersInv, Unused, Owned, Begin, Waiting, Live,
                UserSession, Request, OneSubscription, QuietUnlessRegistered
  <2>2. CASE /\ s \in Live
             /\ \/ Begin(r, "reconnect", s, sessions[s].client)
                \/ Begin(r, "sendCode", s, sessions[s].client)
             /\ sessions' = sessions \/ sessions' = Touch(s)
             /\ UNCHANGED clientVars
    <3>1. sessions[s].client \in Clients
      BY <2>2 DEF TypeOK, Live, UserSession
    <3>2. NoNewClient
      BY <2>2, <3>1, NoNewClientLemma DEF Waits
    <3>3. QED BY <1>1, <2>2, <3>2, SameOwnersLemma, HandlersFrame DEF SendCode
  <2>3. QED BY <1>1, <2>1, <2>2 DEF SendCode, IsConnected
<1>2. ASSUME NEW r \in Requests, NEW s \in SessionIds,
             \/ SignIn(r, s) \/ SignIn2FA(r, s) \/ GetAuthStatus(r, s)
             \/ Logout(r, s) \/ DownloadMedia(r, s)
      PROVE  HandlersInv'
  <2>1. sessions[s].client \in Clients
    BY <1>2 DEF SignIn, SignIn2FA, GetAuthStatus, Logout, DownloadMedia, IsConnected,
                TypeOK, Live, UserSession
  <2>2. NoNewClient
    BY <1>2, <2>1, NoNewClientLemma
       DEF SignIn, SignIn2FA, GetAuthStatus, Logout, DownloadMedia, Waits
  <2>3. QED
    BY <1>2, <2>2, SameOwnersLemma, HandlersFrame
       DEF SignIn, SignIn2FA, GetAuthStatus, Logout, DownloadMedia
<1>3. ASSUME NEW s \in SessionIds, ServiceCall(s) \/ KeepAlive(s)
      PROVE  HandlersInv'
  BY <1>3, SameOwnersLemma, NoNewClientLemma, HandlersFrame DEF ServiceCall, UsesClient, KeepAlive
<1>4. ASSUME NEW t \in Tokens,
             ResolveExpiredToken(t) \/ \E s \in SessionIds : CreateMediaToken(t, s)
      PROVE  HandlersInv'
  BY <1>4, SameOwnersLemma, NoNewClientLemma, HandlersFrame
     DEF CreateMediaToken, ResolveExpiredToken
<1>5. ASSUME NEW r \in Requests, ClientConnected(r)
      PROVE  HandlersInv'
  <2>1. /\ requests[r] \in Request /\ Waiting(r, "initClient")
        /\ requests' = [requests EXCEPT ![r].op = "sendCode"]
        /\ sessions' = [sessions EXCEPT ![requests[r].sid] =
              [client |-> requests[r].client, phoneCodeHash |-> None, idle |-> 0]]
    BY <1>5 DEF ClientConnected, Waiting, TypeOK
  <2>2. handlers[requests[r].client] = {}
    BY <2>1 DEF HandlersInv
  <2>3. NoNewClient
    BY <2>1, NoNewClientLemma DEF Waiting
  <2>4. [client |-> requests[r].client, phoneCodeHash |-> None, idle |-> 0] # None
    BY <2>1, NoneAssumption, DurationsAssumption DEF UserSession, Request
  <2>5. /\ Live' = Live \cup {requests[r].sid}
        /\ sessions'[requests[r].sid].client = requests[r].client
        /\ \A s \in Live \ {requests[r].sid} : sessions'[s] = sessions[s]
    BY <2>1, <2>4 DEF Live, TypeOK, Request
  <2>6. UNCHANGED <<eventCallbacks, handlers, registeredSessions>>
    BY <1>5 DEF ClientConnected
  <2>7. QED
    BY <2>2, <2>3, <2>5, <2>6
       DEF HandlersInv, NoNewClient, OneSubscription, QuietUnlessRegistered
<1>6. ASSUME NEW r \in Requests, ClientReconnected(r) \/ IterDownloadMedia(r)
      PROVE  HandlersInv'
  <2>1. requests[r] \in Request
    BY <1>6 DEF ClientReconnected, IterDownloadMedia, Waiting, TypeOK
  <2>2. SameOwners
    BY <1>6, <2>1, SameOwnersLemma DEF ClientReconnected, IterDownloadMedia, Request
  <2>3. NoNewClient
    BY <1>6, NoNewClientLemma DEF ClientReconnected, IterDownloadMedia, Waiting
  <2>4. QED BY <1>6, <2>2, <2>3, HandlersFrame DEF ClientReconnected, IterDownloadMedia
<1>7. ASSUME NEW r \in Requests, CodeSent(r)
      PROVE  HandlersInv'
  <2>1. SameOwners
    BY <1>7, NoneAssumption
       DEF CodeSent, SameOwners, TypeOK, Live, UserSession, Waiting, Request
  <2>2. QED BY <1>7, <2>1, NoNewClientLemma, HandlersFrame DEF CodeSent
<1>8. ASSUME NEW r \in Requests, SignedIn(r)
      PROVE  HandlersInv'
  <2>1. requests[r].sid \in SessionIds /\ NoNewClient
    BY <1>8, NoNewClientLemma DEF SignedIn, Waiting, TypeOK, Request
  <2>2. QED
    BY <1>8, <2>1, RegisterHandlersInv, SameOwnersLemma, HandlersFrame DEF SignedIn
<1>9. ASSUME NEW r \in Requests, LoggedOut(r)
      PROVE  HandlersInv'
  <2>1. {requests[r].sid} \in SUBSET SessionIds /\ NoNewClient
    BY <1>9, NoNewClientLemma DEF LoggedOut, Waiting, TypeOK, Request
  <2>2. QED BY <1>9, <2>1, ForgetHandlersInv DEF LoggedOut
<1>10. ASSUME NEW r \in Requests, RequestFails(r)
       PROVE  HandlersInv'
  BY <1>10, NoNewClientLemma, SameOwnersLemma, HandlersFrame DEF RequestFails
<1>11. ASSUME NEW k \in Sockets, NEW s \in SessionIds, HandleConnection(k, s)
       PROVE  HandlersInv'
  BY <1>11, NoNewClientLemma, RegisterHandlersInv, SameOwnersLemma, HandlersFrame
     DEF HandleConnection
<1>12. ASSUME NEW k \in Sockets, HandleDisconnect(k)
       PROVE  HandlersInv'
  <2>1. room[k] \in SessionIds /\ NoNewClient /\ SameOwners
    BY <1>12, NoNewClientLemma, SameOwnersLemma DEF HandleDisconnect, TypeOK
  <2>2. CASE UNCHANGED <<registeredSessions, handlers>>
    BY <1>12, <2>1, <2>2, HandlersFrame DEF HandleDisconnect
  <2>3. CASE /\ registeredSessions' = registeredSessions \ {room[k]}
             /\ handlers' = UnregisterHandlers({room[k]})
    <3>1. \A c \in Clients : handlers'[c] \subseteq handlers[c]
      BY <2>3 DEF UnregisterHandlers, TypeOK
    <3>2. room[k] \in Live => handlers'[sessions[room[k]].client] = {}
      BY <2>1, <2>3 DEF UnregisterHandlers, HandlersInv, TypeOK, Live, UserSession
    <3>3. UNCHANGED eventCallbacks
      BY <1>12 DEF HandleDisconnect
    <3>4. \A s \in Live : /\ sessions[s].client \in Clients
                         /\ handlers'[sessions[s].client] \subseteq {eventCallbacks[s]}
      BY <3>1 DEF HandlersInv, TypeOK, Live, UserSession
    <3>5. \A s \in Live \ registeredSessions' : handlers'[sessions[s].client] = {}
      BY <2>1, <2>3, <3>1, <3>2, <3>4 DEF HandlersInv, QuietUnlessRegistered
    <3>6. \A r \in Requests : Waiting(r, "initClient")' => handlers'[requests'[r].client] = {}
      BY <2>1, <3>1 DEF HandlersInv, NoNewClient, Waiting, TypeOK, Request
    <3>7. QED
      BY <2>1, <3>1, <3>3, <3>4, <3>5, <3>6
         DEF HandlersInv, SameOwners, OneSubscription, QuietUnlessRegistered
  <2>4. QED BY <1>12, <2>2, <2>3 DEF HandleDisconnect
<1>13. CASE CleanupInactiveSessions
  <2>1. {s \in Live : Inactive(s)} \in SUBSET SessionIds
    BY DEF Live
  <2>2. QED
    BY <1>13, <2>1, NoNewClientLemma, ForgetHandlersInv DEF CleanupInactiveSessions
<1>14. CASE Tick
  <2>1. SameOwners
    BY <1>14, NoneAssumption, OlderLemma, DurationsAssumption
       DEF SameOwners, Tick, TypeOK, Live, UserSession
  <2>2. QED BY <1>14, <2>1, NoNewClientLemma, HandlersFrame DEF Tick
<1>15. CASE OnModuleDestroy \/ UNCHANGED vars \/ \E c \in Clients : LinkDown(c) \/ LinkUp(c)
  BY <1>15, SameOwnersLemma, NoNewClientLemma, HandlersFrame
     DEF OnModuleDestroy, vars, LinkDown, LinkUp
<1>16. QED
  BY <1>1, <1>2, <1>3, <1>4, <1>5, <1>6, <1>7, <1>8, <1>9, <1>10, <1>11, <1>12,
     <1>13, <1>14, <1>15
     DEF Next, HandlerStep, Continuation, GatewayStep, Background, Terminated

\* What a step may do to the rooms, the timers and the ages of the sessions.
LEMMA StepWatch == TypeOK /\ WatchInv /\ [Next]_vars => WatchInv'
<1> SUFFICES ASSUME TypeOK, WatchInv, [Next]_vars PROVE WatchInv'
  OBVIOUS
<1> USE DEF serviceVars, gatewayVars, clientVars, Running
<1> DEFINE Young == \A s \in sessionKeepAliveIntervals \cap Live : sessions[s].idle <= 1
<1>1. ASSUME UNCHANGED <<sessionKeepAliveIntervals, room>>,
             \/ UNCHANGED sessions
             \/ \E s \in SessionIds : sessions' = Touch(s)
      PROVE  WatchInv'
  BY <1>1, TouchLemma DEF WatchInv, KeepAliveMatchesRooms, Live
<1>2. ASSUME UNCHANGED <<sessionKeepAliveIntervals, room>>,
             NEW S \in SUBSET SessionIds, ForgetSessions(S)
      PROVE  WatchInv'
  <2>1. \A s \in Live' : s \in Live /\ sessions'[s] = sessions[s]
    BY <1>2 DEF ForgetSessions, Live
  <2>2. QED BY <1>2, <2>1 DEF WatchInv, KeepAliveMatchesRooms
<1>3. ASSUME NEW r \in Requests, ClientConnected(r) \/ CodeSent(r)
      PROVE  WatchInv'
  <2>1. /\ requests[r] \in Request
        /\ UNCHANGED <<sessionKeepAliveIntervals, room>>
    BY <1>3 DEF ClientConnected, CodeSent, Waiting, TypeOK
  <2>2. CASE ClientConnected(r)
    BY <2>1, <2>2 DEF ClientConnected, WatchInv, KeepAliveMatchesRooms, Live, Request, TypeOK
  <2>3. CASE CodeSent(r)
    BY <2>1, <2>3
       DEF CodeSent, WatchInv, KeepAliveMatchesRooms, Live, Request, TypeOK, UserSession
  <2>4. QED BY <1>3, <2>2, <2>3
<1>4. ASSUME NEW k \in Sockets, NEW s \in SessionIds, HandleConnection(k, s)
      PROVE  WatchInv'
  <2>1. sessions' = Touch(s)
    BY <1>4, RegisterLemma DEF HandleConnection, Registers, IsConnected
  <2>2. KeepAliveMatchesRooms'
    BY <1>4, NoneAssumption DEF HandleConnection, WatchInv, KeepAliveMatchesRooms, TypeOK
  <2>3. Young'
    BY <1>4, <2>1, TouchLemma DEF HandleConnection, WatchInv, Live
  <2>4. QED BY <2>2, <2>3 DEF WatchInv
<1>5. ASSUME NEW k \in Sockets, HandleDisconnect(k)
      PROVE  WatchInv'
  <2>1. KeepAliveMatchesRooms'
    BY <1>5, NoneAssumption DEF HandleDisconnect, WatchInv, KeepAliveMatchesRooms, TypeOK
  <2>2. Young'
    BY <1>5 DEF HandleDisconnect, WatchInv, Live
  <2>3. QED BY <2>1, <2>2 DEF WatchInv
<1>6. CASE Tick
  <2>1. \A s \in sessionKeepAliveIntervals \cap Live : sessions'[s].idle <= 1
    BY <1>6 DEF Tick, Older, Live, TypeOK, UserSession
  <2>2. Live' \subseteq Live
    BY <1>6 DEF Tick, Live
  <2>3. QED BY <1>6, <2>1, <2>2 DEF Tick, WatchInv, KeepAliveMatchesRooms
<1>7. ASSUME NEW r \in Requests, NEW s \in SessionIds,
             \/ SendCode(r, s) \/ SignIn(r, s) \/ SignIn2FA(r, s)
             \/ GetAuthStatus(r, s) \/ Logout(r, s) \/ DownloadMedia(r, s)
      PROVE  WatchInv'
  BY <1>1, <1>7 DEF SendCode, SignIn, SignIn2FA, GetAuthStatus, Logout, DownloadMedia
<1>8. ASSUME NEW s \in SessionIds, ServiceCall(s) \/ KeepAlive(s)
      PROVE  WatchInv'
  BY <1>1, <1>8 DEF ServiceCall, UsesClient, KeepAlive
<1>9. ASSUME NEW t \in Tokens,
             ResolveExpiredToken(t) \/ \E s \in SessionIds : CreateMediaToken(t, s)
      PROVE  WatchInv'
  BY <1>1, <1>9 DEF CreateMediaToken, ResolveExpiredToken
<1>10. ASSUME NEW r \in Requests,
              \/ ClientReconnected(r) \/ SignedIn(r)
              \/ RequestFails(r) \/ IterDownloadMedia(r)
       PROVE  WatchInv'
  <2>1. requests[r].sid \in SessionIds
    BY <1>10 DEF ClientReconnected, SignedIn, RequestFails, IterDownloadMedia,
                 Waiting, TypeOK, Request
  <2>2. \/ UNCHANGED sessions
        \/ sessions' = Touch(requests[r].sid)
    BY <1>10, <2>1, RegisterLemma
       DEF ClientReconnected, SignedIn, RequestFails, IterDownloadMedia,
           Registers, IsConnected
  <2>3. UNCHANGED <<sessionKeepAliveIntervals, room>>
    BY <1>10 DEF ClientReconnected, SignedIn, RequestFails, IterDownloadMedia
  <2>4. QED BY <1>1, <2>1, <2>2, <2>3
<1>11. ASSUME NEW r \in Requests, LoggedOut(r)
       PROVE  WatchInv'
  <2>1. {requests[r].sid} \in SUBSET SessionIds
    BY <1>11 DEF LoggedOut, Waiting, TypeOK, Request
  <2>2. QED BY <1>2, <1>11, <2>1 DEF LoggedOut
<1>12. CASE CleanupInactiveSessions
  <2>1. {s \in Live : Inactive(s)} \in SUBSET SessionIds
    BY DEF Live
  <2>2. QED BY <1>2, <1>12, <2>1 DEF CleanupInactiveSessions
<1>13. CASE OnModuleDestroy \/ UNCHANGED vars \/ \E c \in Clients : LinkDown(c) \/ LinkUp(c)
  BY <1>1, <1>13 DEF OnModuleDestroy, vars, LinkDown, LinkUp
<1>14. QED
  BY <1>3, <1>4, <1>5, <1>6, <1>7, <1>8, <1>9, <1>10, <1>11, <1>12, <1>13
     DEF Next, HandlerStep, Continuation, GatewayStep, Background, Terminated

\* What a step may do to tokens: every step maps to one of SessionGrants.
LEMMA StepGrants == TypeOK /\ [Next]_vars => [Grants!Next]_Grants!vars
<1> SUFFICES ASSUME TypeOK, [Next]_vars
             PROVE  [Grants!Next]_Grants!vars
  OBVIOUS
<1> USE DEF serviceVars, gatewayVars, clientVars, Running
<1> DEFINE GrantsOf(tokens) ==
        [t \in Tokens |-> IF tokens[t] = None THEN None ELSE tokens[t].sessionId]
<1>1. ASSUME UNCHANGED mediaTokens, SameOwners
      PROVE  [Grants!Next]_Grants!vars
  BY <1>1 DEF SameOwners, Grants!vars
<1>2. ASSUME NEW S \in SUBSET SessionIds, NEW T \in SUBSET Tokens, ForgetSessions(S),
             mediaTokens' = [t \in Tokens |->
                               IF t \in T THEN None ELSE RevokeMediaTokens(S)[t]]
      PROVE  Grants!Next
  <2>1. Live' = Live \ S
    BY <1>2 DEF ForgetSessions, Live
  <2>2. GrantsOf(mediaTokens') = [t \in Tokens |->
            IF t \in T \/ GrantsOf(mediaTokens)[t] \in S
            THEN None ELSE GrantsOf(mediaTokens)[t]]
    BY <1>2, NoneAssumption DEF RevokeMediaTokens, TypeOK, MediaTokenEntry
  <2>3. Grants!Close(S, T)
    BY <2>1, <2>2 DEF Grants!Close
  <2>4. QED BY <2>3 DEF Grants!Next
<1>3. ASSUME NEW r \in Requests, NEW s \in SessionIds,
             \/ SendCode(r, s) \/ SignIn(r, s) \/ SignIn2FA(r, s)
             \/ GetAuthStatus(r, s) \/ Logout(r, s) \/ DownloadMedia(r, s)
      PROVE  [Grants!Next]_Grants!vars
  BY <1>1, <1>3, SameOwnersLemma
     DEF SendCode, SignIn, SignIn2FA, GetAuthStatus, Logout, DownloadMedia
<1>4. ASSUME NEW s \in SessionIds, ServiceCall(s) \/ KeepAlive(s)
      PROVE  [Grants!Next]_Grants!vars
  BY <1>1, <1>4, SameOwnersLemma DEF ServiceCall, UsesClient, KeepAlive
<1>5. ASSUME NEW t \in Tokens, NEW s \in SessionIds, CreateMediaToken(t, s)
      PROVE  [Grants!Next]_Grants!vars
  <2>1. /\ s \in Live /\ Live' = Live
        /\ GrantsOf(mediaTokens)[t] = None
    BY <1>5 DEF CreateMediaToken, IsConnected, Live
  <2>2. GrantsOf(mediaTokens') = [GrantsOf(mediaTokens) EXCEPT ![t] = s]
    <3>1. [sessionId |-> s, age |-> 0] # None
      BY NoneAssumption, DurationsAssumption DEF MediaTokenEntry
    <3>2. QED BY <1>5, <3>1 DEF CreateMediaToken, TypeOK
  <2>3. Grants!Grant(t, s)
    BY <2>1, <2>2 DEF Grants!Grant
  <2>4. QED BY <2>3 DEF Grants!Next
<1>6. ASSUME NEW t \in Tokens, ResolveExpiredToken(t)
      PROVE  [Grants!Next]_Grants!vars
  <2>1. Live' = Live \ {}
    BY <1>6 DEF ResolveExpiredToken, Live
  <2>2. GrantsOf(mediaTokens') = [x \in Tokens |->
            IF x \in {t} \/ GrantsOf(mediaTokens)[x] \in {}
            THEN None ELSE GrantsOf(mediaTokens)[x]]
    BY <1>6 DEF ResolveExpiredToken, TypeOK
  <2>3. Grants!Close({}, {t})
    BY <2>1, <2>2 DEF Grants!Close
  <2>4. QED BY <2>3 DEF Grants!Next
<1>7. ASSUME NEW r \in Requests, ClientConnected(r)
      PROVE  [Grants!Next]_Grants!vars
  <2>1. /\ requests[r] \in Request
        /\ [client |-> requests[r].client, phoneCodeHash |-> None, idle |-> 0] # None
    BY <1>7, NoneAssumption, DurationsAssumption
       DEF ClientConnected, Waiting, TypeOK, Request, UserSession
  <2>2. Live' = Live \cup {requests[r].sid} /\ UNCHANGED mediaTokens
    BY <1>7, <2>1 DEF ClientConnected, Live, TypeOK, Request
  <2>3. Grants!Open(requests[r].sid)
    BY <2>2 DEF Grants!Open
  <2>4. QED BY <2>1, <2>3 DEF Grants!Next, Request
<1>8. ASSUME NEW r \in Requests,
             \/ ClientReconnected(r) \/ CodeSent(r) \/ SignedIn(r)
             \/ RequestFails(r) \/ IterDownloadMedia(r)
      PROVE  [Grants!Next]_Grants!vars
  <2>1. requests[r] \in Request /\ UNCHANGED mediaTokens
    BY <1>8 DEF ClientReconnected, CodeSent, SignedIn, RequestFails,
                IterDownloadMedia, Waiting, TypeOK
  <2>2. CASE CodeSent(r)
    <3>1. SameOwners
      BY <2>1, <2>2, NoneAssumption
         DEF CodeSent, SameOwners, TypeOK, Live, UserSession, Request
    <3>2. QED BY <1>1, <2>1, <3>1
  <2>3. CASE ~CodeSent(r)
    <3>1. UNCHANGED sessions \/ sessions' = Touch(requests[r].sid)
      BY <1>8, <2>1, <2>3, RegisterLemma
         DEF ClientReconnected, SignedIn, RequestFails, IterDownloadMedia,
             Registers, IsConnected, Request
    <3>2. QED BY <1>1, <2>1, <3>1, SameOwnersLemma DEF Request
  <2>4. QED BY <2>2, <2>3
<1>9. ASSUME NEW r \in Requests, LoggedOut(r)
      PROVE  [Grants!Next]_Grants!vars
  <2>1. {requests[r].sid} \in SUBSET SessionIds
    BY <1>9 DEF LoggedOut, Waiting, TypeOK, Request
  <2>2. mediaTokens' = [t \in Tokens |->
            IF t \in {} THEN None ELSE RevokeMediaTokens({requests[r].sid})[t]]
    BY <1>9 DEF LoggedOut, RevokeMediaTokens
  <2>3. ForgetSessions({requests[r].sid})
    BY <1>9 DEF LoggedOut
  <2>4. {} \in SUBSET Tokens
    OBVIOUS
  <2>5. QED BY <1>2, <2>1, <2>2, <2>3, <2>4
<1>10. ASSUME NEW k \in Sockets, NEW s \in SessionIds, HandleConnection(k, s)
       PROVE  [Grants!Next]_Grants!vars
  <2>1. sessions' = Touch(s) /\ UNCHANGED mediaTokens
    BY <1>10, RegisterLemma DEF HandleConnection, Registers, IsConnected
  <2>2. QED BY <1>1, <2>1, SameOwnersLemma
<1>11. CASE CleanupInactiveSessions
  <2> DEFINE S == {s \in Live : Inactive(s)}
             T == {t \in Tokens : Expired(t)}
  <2>1. S \in SUBSET SessionIds /\ T \in SUBSET Tokens
    BY DEF Live
  <2>2. mediaTokens' = [t \in Tokens |-> IF t \in T THEN None ELSE RevokeMediaTokens(S)[t]]
    BY <1>11 DEF CleanupInactiveSessions, SweepTokens
  <2>3. ForgetSessions(S)
    BY <1>11 DEF CleanupInactiveSessions
  <2> HIDE DEF S, T
  <2>4. QED BY <1>2, <2>1, <2>2, <2>3
<1>12. CASE Tick
  <2>1. SameOwners
    BY <1>12, NoneAssumption, OlderLemma, DurationsAssumption
       DEF SameOwners, Tick, TypeOK, Live, UserSession
  <2>2. GrantsOf(mediaTokens') = GrantsOf(mediaTokens)
    BY <1>12, NoneAssumption, OlderLemma, DurationsAssumption
       DEF Tick, TypeOK, MediaTokenEntry
  <2>3. QED BY <2>1, <2>2 DEF SameOwners, Grants!vars
<1>13. CASE \/ OnModuleDestroy \/ UNCHANGED vars
            \/ \E c \in Clients : LinkDown(c) \/ LinkUp(c)
            \/ \E k \in Sockets : HandleDisconnect(k)
  BY <1>1, <1>13, SameOwnersLemma
     DEF OnModuleDestroy, vars, LinkDown, LinkUp, HandleDisconnect
<1>14. QED
  BY <1>3, <1>4, <1>5, <1>6, <1>7, <1>8, <1>9, <1>10, <1>11, <1>12, <1>13
     DEF Next, HandlerStep, Continuation, GatewayStep, Background, Terminated

\* In SessionGrants a token is given for a live session and goes with it.
LEMMA StepNoDanglingGrant ==
    Grants!NoDanglingGrant /\ [Grants!Next]_Grants!vars => Grants!NoDanglingGrant'
<1> DEFINE grants == [t \in Tokens |->
                        IF mediaTokens[t] = None THEN None ELSE mediaTokens[t].sessionId]
<1> SUFFICES ASSUME \A t \in Tokens : grants[t] # None => grants[t] \in Live,
                    [Grants!Next]_Grants!vars
             PROVE  \A t \in Tokens : grants'[t] # None => grants'[t] \in Live'
  BY DEF Grants!NoDanglingGrant
<1> HIDE DEF grants
<1>1. ASSUME NEW s \in SessionIds, Grants!Open(s)
      PROVE  \A t \in Tokens : grants'[t] # None => grants'[t] \in Live'
  BY <1>1 DEF Grants!Open, grants
<1>2. ASSUME NEW t \in Tokens, NEW s \in SessionIds, Grants!Grant(t, s)
      PROVE  \A x \in Tokens : grants'[x] # None => grants'[x] \in Live'
  <2>1. grants' = [grants EXCEPT ![t] = s] /\ s \in Live /\ Live' = Live
    BY <1>2 DEF Grants!Grant, grants
  <2>2. \A x \in Tokens : grants'[x] = IF x = t THEN s ELSE grants[x]
    BY <2>1 DEF grants
  <2>3. QED BY <2>1, <2>2
<1>3. ASSUME NEW S \in SUBSET SessionIds, NEW T \in SUBSET Tokens, Grants!Close(S, T)
      PROVE  \A t \in Tokens : grants'[t] # None => grants'[t] \in Live'
  <2>1. /\ grants' = [t \in Tokens |->
              IF t \in T \/ grants[t] \in S THEN None ELSE grants[t]]
        /\ Live' = Live \ S
    BY <1>3 DEF Grants!Close, grants
  <2>2. QED BY <2>1
<1>4. CASE UNCHANGED Grants!vars
  BY <1>4 DEF Grants!vars, grants
<1>5. QED BY <1>1, <1>2, <1>3, <1>4 DEF Grants!Next

\* Only a logout and the clean-up take sessions from the map.
LEMMA StepLive ==
    TypeOK /\ [Next]_vars =>
        \/ Live \subseteq Live'
        \/ CleanupInactiveSessions
        \/ \E r \in Requests : LoggedOut(r)
<1> SUFFICES ASSUME TypeOK, [Next]_vars, ~CleanupInactiveSessions,
                    \A r \in Requests : ~LoggedOut(r)
             PROVE  Live \subseteq Live'
  OBVIOUS
<1> USE DEF serviceVars, gatewayVars, clientVars, Running
<1>1. ASSUME SameOwners
      PROVE  Live \subseteq Live'
  BY <1>1 DEF SameOwners
<1>2. CASE HandlerStep
  <2>1. UNCHANGED sessions \/ \E s \in SessionIds : sessions' = Touch(s)
    BY <1>2 DEF HandlerStep, SendCode, SignIn, SignIn2FA, GetAuthStatus, Logout,
                DownloadMedia, ServiceCall, UsesClient, CreateMediaToken,
                ResolveExpiredToken
  <2>2. QED BY <1>1, <2>1, SameOwnersLemma
<1>3. ASSUME NEW r \in Requests, ClientConnected(r) \/ CodeSent(r)
      PROVE  Live \subseteq Live'
  <2>1. requests[r] \in Request
    BY <1>3 DEF ClientConnected, CodeSent, Waiting, TypeOK
  <2>2. CASE ClientConnected(r)
    <3>1. [client |-> requests[r].client, phoneCodeHash |-> None, idle |-> 0] # None
      BY <2>1, NoneAssumption, DurationsAssumption DEF Request, UserSession
    <3>2. QED BY <2>1, <2>2, <3>1 DEF ClientConnected, Live, TypeOK, Request
  <2>3. CASE CodeSent(r)
    BY <2>1, <2>3, NoneAssumption DEF CodeSent, Live, TypeOK, Request, UserSession
  <2>4. QED BY <1>3, <2>2, <2>3
<1>4. ASSUME NEW r \in Requests,
             \/ ClientReconnected(r) \/ SignedIn(r)
             \/ RequestFails(r) \/ IterDownloadMedia(r)
      PROVE  Live \subseteq Live'
  <2>1. requests[r].sid \in SessionIds
    BY <1>4 DEF ClientReconnected, SignedIn, RequestFails, IterDownloadMedia,
                Waiting, TypeOK, Request
  <2>2. UNCHANGED sessions \/ sessions' = Touch(requests[r].sid)
    BY <1>4, <2>1, RegisterLemma
       DEF ClientReconnected, SignedIn, RequestFails, IterDownloadMedia,
           Registers, IsConnected
  <2>3. QED BY <1>1, <2>1, <2>2, SameOwnersLemma
<1>5. CASE GatewayStep
  <2>1. UNCHANGED sessions \/ \E s \in SessionIds : sessions' = Touch(s)
    BY <1>5, RegisterLemma DEF GatewayStep, HandleConnection, HandleDisconnect,
                               KeepAlive, Registers, IsConnected
  <2>2. QED BY <1>1, <2>1, SameOwnersLemma
<1>6. CASE Tick
  BY <1>1, <1>6, NoneAssumption, OlderLemma, DurationsAssumption
     DEF SameOwners, Tick, TypeOK, Live, UserSession
<1>7. CASE OnModuleDestroy \/ UNCHANGED vars \/ \E c \in Clients : LinkDown(c) \/ LinkUp(c)
  BY <1>1, <1>7, SameOwnersLemma DEF OnModuleDestroy, vars, LinkDown, LinkUp
<1>8. QED
  BY <1>2, <1>3, <1>4, <1>5, <1>6, <1>7 DEF Next, Continuation, Background, Terminated

-------------------------------------------------------------------------------
(* Theorems. *)

Inv == TypeOK /\ ClientsInv /\ HandlersInv /\ WatchInv

LEMMA InitInv == Init => Inv
<1> SUFFICES ASSUME Init PROVE Inv
  OBVIOUS
<1>1. TypeOK
  BY InitType
<1>2. Live = {}
  BY DEF Init, Live
<1>3. ClientsInv
  BY <1>2 DEF Init, ClientsInv, Waiting
<1>4. HandlersInv
  BY <1>2 DEF Init, HandlersInv, OneSubscription, QuietUnlessRegistered, Waiting
<1>5. WatchInv
  BY <1>2, NoneAssumption DEF Init, WatchInv, KeepAliveMatchesRooms
<1>6. QED BY <1>1, <1>3, <1>4, <1>5 DEF Inv

LEMMA StepInv == Inv /\ [Next]_vars => Inv'
BY StepType, StepClients, StepHandlers, StepWatch DEF Inv

LEMMA Inductive == Spec => []Inv
BY InitInv, StepInv, PTL DEF Spec

\* Updates of a session reach its room only, no client holds a second handler,
\* a client is silent until the gateway registers it, and the timers are those
\* of the occupied rooms.
THEOREM Safety == Spec => [](SubscriptionsSound /\ KeepAliveMatchesRooms)
<1>1. Inv => SubscriptionsSound /\ KeepAliveMatchesRooms
  <2> SUFFICES ASSUME Inv PROVE UpdatesReachOwnRoom
    BY DEF Inv, HandlersInv, WatchInv, SubscriptionsSound
  <2>1. \A s \in Live : \A h \in handlers[sessions[s].client] :
           h \in Callback /\ h = eventCallbacks[s]
    BY DEF Inv, HandlersInv, TypeOK, Live, UserSession
  <2>2. QED
    BY <2>1, NoneAssumption DEF Inv, HandlersInv, UpdatesReachOwnRoom, Live
<1>2. QED BY <1>1, Inductive, PTL

\* The clean-up never takes a session whose page is open: the timer of the room
\* has touched it less than the limit ago.
THEOREM WatchedKept == Spec => WatchedSessionKept
<1> DEFINE Kept == \A s \in Live :
        (\E k \in Sockets : room[k] = s) /\ s \notin Live' =>
            \E r \in Requests :
                Waiting(r, "logout") /\ requests[r].sid = s /\ requests'[r] = None
<1>1. Inv /\ [Next]_vars => [Kept]_vars
  <2> SUFFICES ASSUME Inv, [Next]_vars, NEW s \in Live, s \notin Live',
                      \E k \in Sockets : room[k] = s
               PROVE  \E r \in Requests :
                         Waiting(r, "logout") /\ requests[r].sid = s /\ requests'[r] = None
    OBVIOUS
  <2> USE DEF serviceVars, gatewayVars, clientVars, Running
  <2>1. sessions[s].idle \in Nat /\ sessions[s].idle <= MaxInactivity
    BY DurationsAssumption DEF Inv, WatchInv, KeepAliveMatchesRooms, TypeOK, Live, UserSession
  <2>2. \E k \in Sockets : room[k] = s
    OBVIOUS
  <2>3. ~CleanupInactiveSessions
    <3>1. ~Inactive(s)
      BY <2>1, DurationsAssumption DEF Inactive
    <3>2. QED BY <3>1 DEF CleanupInactiveSessions, ForgetSessions, Live
  <2>4. PICK r \in Requests : LoggedOut(r)
    BY <2>3, StepLive DEF Inv
  <2>5. requests[r].sid = s
    BY <2>4 DEF LoggedOut, ForgetSessions, Live
  <2>6. Waiting(r, "logout") /\ requests'[r] = None
    BY <2>4 DEF LoggedOut, Inv, TypeOK, End
  <2>7. QED BY <2>5, <2>6
<1>2. QED BY <1>1, Inductive, PTL DEF Spec, WatchedSessionKept

\* The tokens of the registry behave as SessionGrants says.
THEOREM ImplementsGrants == Spec => GrantsSpec
<1>1. Init => Grants!Init
  BY DEF Init, Live, Grants!Init
<1>2. TypeOK /\ [Next]_vars => [Grants!Next]_Grants!vars
  BY StepGrants
<1>3. QED BY <1>1, <1>2, TypeCorrect, PTL DEF Spec, GrantsSpec, Grants!Spec

\* No token outlives its session: it follows from the abstract specification.
THEOREM NoTokenOutlivesSession == Spec => []TokensHaveSession
<1>1. Init => Grants!NoDanglingGrant
  BY DEF Init, Grants!NoDanglingGrant
<1>2. TypeOK /\ Grants!NoDanglingGrant => TokensHaveSession
  <2> SUFFICES ASSUME TypeOK, Grants!NoDanglingGrant, NEW t \in Tokens, mediaTokens[t] # None
               PROVE  mediaTokens[t].sessionId \in Live
    BY DEF TokensHaveSession
  <2>1. mediaTokens[t].sessionId # None
    BY NoneAssumption DEF TypeOK, MediaTokenEntry
  <2>2. QED BY <2>1 DEF Grants!NoDanglingGrant
<1>3. TypeOK /\ [Next]_vars => [Grants!Next]_Grants!vars
  BY StepGrants
<1>4. QED BY <1>1, <1>2, <1>3, StepNoDanglingGrant, TypeCorrect, PTL DEF Spec

-------------------------------------------------------------------------------
(* One request at a time. *)

\* The request in progress captured the client its session still has, or is
\* connecting one for an id that has no session.
RequestMatches(request) ==
    IF request.op = "initClient" THEN request.sid \notin Live
    ELSE request.sid \in Live => sessions[request.sid].client = request.client

RequestsMatch == \A r \in Requests : requests[r] # None => RequestMatches(requests[r])

CalmInv == OneRequest /\ RequestsMatch /\ OwnPhoneCode /\ NoForeignSubscription

\* No session is new, and those that stay keep their client and its code.
NoNewSession ==
    /\ Live' \subseteq Live
    /\ \A s \in Live' : /\ sessions'[s].client = sessions[s].client
                        /\ sessions'[s].phoneCodeHash = sessions[s].phoneCodeHash

LEMMA NoNewSessionLemma ==
    ASSUME TypeOK
    PROVE  /\ UNCHANGED sessions => NoNewSession
           /\ \A s \in SessionIds : sessions' = Touch(s) => NoNewSession
           /\ \A S \in SUBSET SessionIds : ForgetSessions(S) =>
                 NoNewSession /\ Live' = Live \ S
           /\ Tick => NoNewSession /\ SameOwners
<1>1. \A s \in SessionIds : sessions' = Touch(s) => NoNewSession
  BY NoneAssumption, DurationsAssumption
     DEF TypeOK, NoNewSession, Touch, Live, UserSession
<1>2. \A S \in SUBSET SessionIds : ForgetSessions(S) => NoNewSession /\ Live' = Live \ S
  BY DEF NoNewSession, ForgetSessions, Live
<1>3. Tick => NoNewSession /\ SameOwners
  BY NoneAssumption, OlderLemma, DurationsAssumption
     DEF NoNewSession, SameOwners, Tick, TypeOK, Live, UserSession
<1>4. QED BY <1>1, <1>2, <1>3 DEF NoNewSession, Live

\* Without a new session the requests that stay still match, and so do those
\* that match where they begin.
LEMMA MatchFrame ==
    ASSUME TypeOK, CalmInv, NoNewSession,
           \A r \in Requests : requests'[r] # None =>
              requests'[r] = requests[r] \/ RequestMatches(requests'[r])
    PROVE  RequestsMatch' /\ OwnPhoneCode'
<1>1. ASSUME NEW request, RequestMatches(request)
      PROVE  IF request.op = "initClient" THEN request.sid \notin Live'
             ELSE request.sid \in Live' => sessions'[request.sid].client = request.client
  BY <1>1 DEF RequestMatches, NoNewSession
<1>2. ASSUME NEW r \in Requests, requests'[r] # None
      PROVE  RequestMatches(requests'[r])
  BY <1>2 DEF CalmInv, RequestsMatch
<1>3. RequestsMatch'
  BY <1>1, <1>2 DEF RequestsMatch, RequestMatches
<1>4. OwnPhoneCode'
  BY DEF CalmInv, OwnPhoneCode, NoNewSession
<1>5. QED BY <1>3, <1>4

\* Where sessions keep their clients, only a client of a session may gain a handler.
LEMMA SubscriptionFrame ==
    ASSUME TypeOK, CalmInv, SameOwners,
           \A c \in Clients : handlers'[c] \subseteq handlers[c] \/ Owned(c)
    PROVE  NoForeignSubscription'
BY DEF CalmInv, NoForeignSubscription, Owned, SameOwners

\* The client that is registered is a session's.
LEMMA RegistersOwn ==
    ASSUME TypeOK, NEW s \in SessionIds, Registers(s), RegisterHandlers(s)
    PROVE  /\ sessions' = Touch(s)
           /\ \A c \in Clients : handlers'[c] \subseteq handlers[c] \/ Owned(c)
BY DEF RegisterHandlers, Registers, IsConnected, Owned, TypeOK

\* A client loses its handler together with its session.
LEMMA ForgetSubscriptions ==
    ASSUME TypeOK, HandlersInv, CalmInv, NEW S \in SUBSET SessionIds, ForgetSessions(S)
    PROVE  NoForeignSubscription'
<1> SUFFICES ASSUME NEW c \in Clients, handlers'[c] # {}
             PROVE  Owned(c)'
  BY DEF NoForeignSubscription
<1>1. handlers'[c] = handlers[c] \ {eventCallbacks[s] :
                          s \in {x \in S \cap Live : sessions[x].client = c}}
  BY DEF ForgetSessions, UnregisterHandlers
<1>2. PICK s \in Live : sessions[s].client = c
  BY <1>1 DEF CalmInv, NoForeignSubscription, Owned
<1>3. handlers[c] \subseteq {eventCallbacks[s]}
  BY <1>2 DEF HandlersInv
<1>4. s \notin S
  BY <1>1, <1>2, <1>3
<1>5. s \in Live' /\ sessions'[s].client = c
  BY <1>2, <1>4 DEF ForgetSessions, Live
<1>6. QED BY <1>5 DEF Owned

LEMMA StepCalm == Inv /\ CalmInv /\ OneRequest' /\ [Next]_vars => CalmInv'
<1> SUFFICES ASSUME Inv, CalmInv, OneRequest', [Next]_vars PROVE CalmInv'
  OBVIOUS
<1>1. TypeOK /\ ClientsInv /\ HandlersInv
  BY DEF Inv
<1> USE DEF serviceVars, gatewayVars, clientVars, Running
<1>2. ASSUME NoNewSession, NoForeignSubscription',
             \A r \in Requests : requests'[r] # None =>
                requests'[r] = requests[r] \/ RequestMatches(requests'[r])
      PROVE  CalmInv'
  BY <1>1, <1>2, MatchFrame DEF CalmInv
<1>3. ASSUME NEW s \in SessionIds, UNCHANGED sessions \/ sessions' = Touch(s)
      PROVE  NoNewSession /\ SameOwners
  BY <1>1, <1>3, NoNewSessionLemma, SameOwnersLemma
<1>4. ASSUME NEW r \in Requests, NEW s \in SessionIds, SendCode(r, s)
      PROVE  CalmInv'
  <2>1. NoNewSession /\ SameOwners
    BY <1>3, <1>4 DEF SendCode
  <2>2. \A q \in Requests : requests'[q] # None =>
           requests'[q] = requests[q] \/ RequestMatches(requests'[q])
    BY <1>1, <1>4 DEF SendCode, Begin, RequestMatches, IsConnected, TypeOK
  <2>3. \A c \in Clients : handlers'[c] \subseteq handlers[c]
    BY <1>1, <1>4 DEF SendCode, TypeOK
  <2>4. QED BY <1>1, <1>2, <2>1, <2>2, <2>3, SubscriptionFrame
<1>5. ASSUME NEW r \in Requests, NEW s \in SessionIds,
             \/ SignIn(r, s) \/ SignIn2FA(r, s) \/ GetAuthStatus(r, s)
             \/ Logout(r, s) \/ DownloadMedia(r, s)
      PROVE  CalmInv'
  <2>1. NoNewSession /\ SameOwners
    BY <1>3, <1>5 DEF SignIn, SignIn2FA, GetAuthStatus, Logout, DownloadMedia
  <2>2. s \in Live /\ \E op \in Waits \ {"initClient"} : Begin(r, op, s, sessions[s].client)
    BY <1>5 DEF SignIn, SignIn2FA, GetAuthStatus, Logout, DownloadMedia, IsConnected, Waits
  <2>3. \A q \in Requests : requests'[q] # None =>
           requests'[q] = requests[q] \/ RequestMatches(requests'[q])
    BY <1>1, <2>2 DEF Begin, RequestMatches, TypeOK
  <2>4. UNCHANGED handlers
    BY <1>5 DEF SignIn, SignIn2FA, GetAuthStatus, Logout, DownloadMedia
  <2>5. QED BY <1>1, <1>2, <2>1, <2>3, <2>4, SubscriptionFrame
<1>6. ASSUME NEW s \in SessionIds, UNCHANGED sessions \/ sessions' = Touch(s),
             UNCHANGED <<requests, handlers>>
      PROVE  CalmInv'
  BY <1>1, <1>2, <1>3, <1>6, SubscriptionFrame
<1>7. ASSUME NEW r \in Requests, ClientConnected(r)
      PROVE  CalmInv'
  <2> DEFINE s == requests[r].sid
             c == requests[r].client
             new == [client |-> c, phoneCodeHash |-> None, idle |-> 0]
  <2>1. /\ requests[r] \in Request /\ requests[r] # None
        /\ s \in SessionIds /\ c \in Clients /\ s \notin Live
        /\ new # None
    BY <1>1, <1>7, NoneAssumption, DurationsAssumption
       DEF ClientConnected, Waiting, TypeOK, Request, CalmInv, RequestsMatch,
           RequestMatches, UserSession
  <2>2. /\ sessions' = [sessions EXCEPT ![s] = new]
        /\ requests' = [requests EXCEPT ![r].op = "sendCode"]
        /\ UNCHANGED handlers
    BY <1>7 DEF ClientConnected
  <2>3. new.client = c /\ new.phoneCodeHash = None
    OBVIOUS
  <2> HIDE DEF new
  <2>4. /\ Live' = Live \cup {s}
        /\ \A x \in Live : sessions'[x] = sessions[x]
        /\ sessions'[s] = new
    BY <1>1, <2>1, <2>2 DEF Live, TypeOK
  <2>5. \A q \in Requests : requests'[q] # None => q = r
    BY <2>1, <2>2 DEF CalmInv, OneRequest
  <2>6. requests'[r].op = "sendCode" /\ requests'[r].sid = s /\ requests'[r].client = c
    BY <1>1, <2>1, <2>2 DEF TypeOK, Request
  <2>7. RequestsMatch'
    BY <2>3, <2>4, <2>5, <2>6 DEF RequestsMatch, RequestMatches
  <2>8. OwnPhoneCode'
    BY <2>3, <2>4 DEF CalmInv, OwnPhoneCode
  <2>9. NoForeignSubscription'
    BY <2>2, <2>4 DEF CalmInv, NoForeignSubscription, Owned
  <2>10. QED BY <2>7, <2>8, <2>9 DEF CalmInv
<1>8. ASSUME NEW r \in Requests, ClientReconnected(r)
      PROVE  CalmInv'
  <2>1. requests[r] \in Request /\ requests[r] # None /\ requests[r].op = "reconnect"
    BY <1>1, <1>8 DEF ClientReconnected, Waiting, TypeOK
  <2>2. NoNewSession /\ SameOwners /\ UNCHANGED handlers
    BY <1>3, <1>8, <2>1 DEF ClientReconnected, Request
  <2>3. RequestMatches(requests'[r])
    BY <1>1, <1>8, <2>1
       DEF ClientReconnected, TypeOK, Request, CalmInv, RequestsMatch, RequestMatches
  <2>4. \A q \in Requests : requests'[q] # None =>
           requests'[q] = requests[q] \/ RequestMatches(requests'[q])
    BY <1>1, <1>8, <2>3 DEF ClientReconnected, TypeOK
  <2>5. QED BY <1>1, <1>2, <2>2, <2>4, SubscriptionFrame
<1>9. ASSUME NEW r \in Requests, CodeSent(r)
      PROVE  CalmInv'
  <2> DEFINE s == requests[r].sid
             c == requests[r].client
  <2>1. /\ requests[r] \in Request /\ requests[r] # None
        /\ s \in Live /\ c \in Clients /\ sessions[s].client = c
    BY <1>1, <1>9 DEF CodeSent, Waiting, TypeOK, Request, CalmInv, RequestsMatch,
                      RequestMatches
  <2>2. /\ sessions' = [sessions EXCEPT ![s].phoneCodeHash = c]
        /\ UNCHANGED handlers
        /\ requests' = [requests EXCEPT ![r] = None]
    BY <1>9 DEF CodeSent, End
  <2>3. SameOwners
    BY <1>1, <2>1, <2>2, NoneAssumption DEF SameOwners, TypeOK, Live, UserSession
  <2>4. \A x \in Live : /\ sessions'[x].client = sessions[x].client
                       /\ sessions'[x].phoneCodeHash =
                              IF x = s THEN c ELSE sessions[x].phoneCodeHash
    BY <1>1, <2>1, <2>2 DEF TypeOK, Live, UserSession
  <2>5. OwnPhoneCode'
    BY <2>1, <2>3, <2>4 DEF CalmInv, OwnPhoneCode, SameOwners
  <2>6. RequestsMatch'
    BY <1>1, <2>2, <2>3 DEF CalmInv, RequestsMatch, RequestMatches, SameOwners, TypeOK
  <2>7. NoForeignSubscription'
    BY <1>1, <2>2, <2>3, SubscriptionFrame
  <2>8. QED BY <2>5, <2>6, <2>7 DEF CalmInv
<1>10. ASSUME NEW r \in Requests, SignedIn(r)
       PROVE  CalmInv'
  <2>1. requests[r] \in Request /\ requests[r].sid \in SessionIds
    BY <1>1, <1>10 DEF SignedIn, Waiting, TypeOK, Request
  <2>2. \A q \in Requests : requests'[q] # None => requests'[q] = requests[q]
    BY <1>1, <1>10 DEF SignedIn, End, TypeOK
  <2>3. CASE UNCHANGED <<sessions, handlers>>
    BY <1>1, <1>2, <1>3, <2>1, <2>2, <2>3, SubscriptionFrame
  <2>4. CASE Registers(requests[r].sid) /\ RegisterHandlers(requests[r].sid)
    BY <1>1, <1>2, <1>3, <2>1, <2>2, <2>4, SubscriptionFrame, RegistersOwn
  <2>5. QED BY <1>10, <2>3, <2>4 DEF SignedIn
<1>11. ASSUME NEW r \in Requests, LoggedOut(r)
       PROVE  CalmInv'
  <2>1. {requests[r].sid} \in SUBSET SessionIds /\ ForgetSessions({requests[r].sid})
    BY <1>1, <1>11 DEF LoggedOut, Waiting, TypeOK, Request
  <2>2. \A q \in Requests : requests'[q] # None => requests'[q] = requests[q]
    BY <1>1, <1>11 DEF LoggedOut, End, TypeOK
  <2>3. NoNewSession /\ NoForeignSubscription'
    BY <1>1, <2>1, NoNewSessionLemma, ForgetSubscriptions
  <2>4. QED BY <1>2, <2>2, <2>3
<1>12. ASSUME NEW r \in Requests, IterDownloadMedia(r) \/ RequestFails(r)
       PROVE  CalmInv'
  <2>1. requests[r] \in Request /\ requests[r].sid \in SessionIds
    BY <1>1, <1>12 DEF IterDownloadMedia, RequestFails, Waiting, TypeOK, Request
  <2>2. \A q \in Requests : requests'[q] # None => requests'[q] = requests[q]
    BY <1>1, <1>12 DEF IterDownloadMedia, RequestFails, End, TypeOK
  <2>3. NoNewSession /\ SameOwners /\ UNCHANGED handlers
    BY <1>3, <1>12, <2>1 DEF IterDownloadMedia, RequestFails
  <2>4. QED BY <1>1, <1>2, <2>2, <2>3, SubscriptionFrame
<1>13. ASSUME NEW k \in Sockets, NEW s \in SessionIds, HandleConnection(k, s)
       PROVE  CalmInv'
  <2>1. CASE sessions' = Touch(s) /\ UNCHANGED handlers
    BY <1>6, <1>13, <2>1 DEF HandleConnection
  <2>2. CASE Registers(s) /\ RegisterHandlers(s)
    BY <1>1, <1>2, <1>3, <1>13, <2>2, SubscriptionFrame, RegistersOwn DEF HandleConnection
  <2>3. QED BY <1>13, <2>1, <2>2 DEF HandleConnection
<1>14. ASSUME NEW k \in Sockets, HandleDisconnect(k)
       PROVE  CalmInv'
  <2>1. NoNewSession /\ SameOwners /\ UNCHANGED requests
    BY <1>1, <1>14, NoNewSessionLemma, SameOwnersLemma DEF HandleDisconnect
  <2>2. \A c \in Clients : handlers'[c] \subseteq handlers[c]
    BY <1>14 DEF HandleDisconnect, UnregisterHandlers
  <2>3. QED BY <1>1, <1>2, <2>1, <2>2, SubscriptionFrame
<1>15. CASE CleanupInactiveSessions
  <2> DEFINE S == {s \in Live : Inactive(s)}
  <2>1. S \in SUBSET SessionIds /\ ForgetSessions(S) /\ UNCHANGED requests
    BY <1>15 DEF CleanupInactiveSessions, Live
  <2> HIDE DEF S
  <2>2. NoNewSession /\ NoForeignSubscription'
    BY <1>1, <2>1, NoNewSessionLemma, ForgetSubscriptions
  <2>3. QED BY <1>2, <2>1, <2>2
<1>16. CASE Tick
  BY <1>1, <1>2, <1>16, NoNewSessionLemma, SubscriptionFrame DEF Tick
<1>17. CASE UNCHANGED <<sessions, requests, handlers>>
  BY <1>1, <1>2, <1>17, NoNewSessionLemma, SameOwnersLemma, SubscriptionFrame
<1>18. QED
  <2>1. CASE HandlerStep
    BY <1>4, <1>5, <1>6, <1>17, <2>1
       DEF HandlerStep, ServiceCall, UsesClient, CreateMediaToken, ResolveExpiredToken
  <2>2. CASE Continuation
    BY <1>7, <1>8, <1>9, <1>10, <1>11, <1>12, <2>2 DEF Continuation
  <2>3. CASE GatewayStep
    BY <1>6, <1>13, <1>14, <2>3 DEF GatewayStep, KeepAlive
  <2>4. CASE Background
    BY <1>15, <1>16, <1>17, <2>4 DEF Background, LinkDown, LinkUp, OnModuleDestroy
  <2>5. CASE Terminated \/ UNCHANGED vars
    BY <1>17, <2>5 DEF Terminated, vars
  <2>6. QED BY <2>1, <2>2, <2>3, <2>4, <2>5 DEF Next

MCInv == Inv /\ (calm => CalmInv)

LEMMA MCInductive == MCSpec => []MCInv
<1>1. Init => CalmInv
  BY DEF Init, CalmInv, OneRequest, RequestsMatch, OwnPhoneCode, NoForeignSubscription, Live
<1>2. MCInit => MCInv
  BY <1>1, InitInv DEF MCInit, MCInv
<1>3. MCInv /\ [MCNext]_mcvars => MCInv'
  <2> SUFFICES ASSUME MCInv, [MCNext]_mcvars PROVE MCInv'
    OBVIOUS
  <2>1. [Next]_vars /\ UNCHANGED calm
    BY DEF MCNext, mcvars
  <2>2. Inv'
    BY <2>1, StepInv DEF MCInv
  <2>3. ASSUME calm PROVE OneRequest'
    BY <2>3 DEF MCInv, CalmInv, OneRequest, MCNext, mcvars, vars
  <2>4. ASSUME calm PROVE CalmInv'
    BY <2>1, <2>3, <2>4, StepCalm DEF MCInv
  <2>5. QED BY <2>1, <2>2, <2>4 DEF MCInv
<1>4. QED BY <1>2, <1>3, PTL DEF MCSpec

\* With one request at a time, the code a user types is checked against the hash of
\* the client that asked for it, and a client without a session is silent.
THEOREM ClientsKeptApart == MCSpec => []ClientsKeptApartWhenCalm
<1>1. MCInv => ClientsKeptApartWhenCalm
  BY DEF MCInv, CalmInv, ClientsKeptApartWhenCalm
<1>2. QED BY <1>1, MCInductive, PTL

\* A step that leaves the owner, opens no connection and keeps the logins under way
\* makes no stray connection.
LEMMA StrayFrame ==
    ASSUME NEW c \in Clients, Owned(c) => Owned(c)',
           link'[c] # "closed" => link[c] # "closed",
           \A r \in Requests : Waiting(r, "initClient") /\ requests[r].client = c =>
              requests'[r] = requests[r]
    PROVE  Stray(c)' => Stray(c)
BY DEF Stray, Waiting

\* A client keeps its session where sessions keep their clients.
LEMMA OwnedFrame ==
    ASSUME SameOwners, NEW c \in Clients
    PROVE  Owned(c)' <=> Owned(c)
BY DEF SameOwners, Owned

\* A session that stays keeps its client with one.
LEMMA ForgetOwned ==
    ASSUME NEW S \in SUBSET SessionIds, ForgetSessions(S), NEW c \in Clients,
           Owned(c), ~Owned(c)'
    PROVE  \E s \in S \cap Live : sessions[s].client = c
<1>1. PICK s \in Live : sessions[s].client = c
  BY DEF Owned
<1>2. s \notin S => s \in Live' /\ sessions'[s].client = c
  BY <1>1 DEF ForgetSessions, Live
<1>3. QED BY <1>1, <1>2 DEF Owned

LEMMA StepStray ==
    ASSUME Inv, [Next]_vars, NEW c \in Clients, Stray(c)', ~Stray(c)
    PROVE  ComesBack(c) \/ Overtaken(c)
<1>1. TypeOK
  BY DEF Inv
<1> USE DEF serviceVars, gatewayVars, clientVars, Running
<1>2. ASSUME NEW r \in Requests, NEW op \in Waits, NEW s \in SessionIds, NEW d \in Clients,
             Begin(r, op, s, d)
      PROVE  \A q \in Requests : Waiting(q, "initClient") /\ requests[q].client = c =>
                requests'[q] = requests[q]
  BY <1>1, <1>2 DEF Begin, Waiting, TypeOK
<1>3. ASSUME NEW s \in SessionIds, UNCHANGED sessions \/ sessions' = Touch(s)
      PROVE  SameOwners /\ (Owned(c) => Owned(c)')
  BY <1>1, <1>3, SameOwnersLemma, OwnedFrame
<1>4. ASSUME NEW r \in Requests, NEW s \in SessionIds, SendCode(r, s)
      PROVE  FALSE
  <2>1. Owned(c) => Owned(c)'
    BY <1>3, <1>4 DEF SendCode
  <2>2. PICK op \in Waits, d \in Clients : Begin(r, op, s, d)
    BY <1>1, <1>4 DEF SendCode, Waits, IsConnected, TypeOK, Live, UserSession
  <2>3. \A q \in Requests : Waiting(q, "initClient") /\ requests[q].client = c =>
           requests'[q] = requests[q]
    BY <1>2, <2>2
  <2>4. CASE link'[c] # "closed" => link[c] # "closed"
    BY <2>1, <2>3, <2>4, StrayFrame
  <2>5. CASE link'[c] # "closed" /\ link[c] = "closed"
    <3>1. Begin(r, "initClient", s, c)
      BY <1>1, <1>4, <2>5 DEF SendCode, TypeOK
    <3>2. Waiting(r, "initClient")' /\ requests'[r].client = c
      BY <1>1, <3>1, NoneAssumption DEF Begin, Waiting, TypeOK, Request, Waits
    <3>3. QED BY <3>2 DEF Stray
  <2>6. QED BY <2>4, <2>5
<1>5. ASSUME NEW r \in Requests, NEW s \in SessionIds,
             \/ SignIn(r, s) \/ SignIn2FA(r, s) \/ GetAuthStatus(r, s)
             \/ Logout(r, s) \/ DownloadMedia(r, s)
      PROVE  FALSE
  <2>1. UNCHANGED link /\ (Owned(c) => Owned(c)')
    BY <1>3, <1>5 DEF SignIn, SignIn2FA, GetAuthStatus, Logout, DownloadMedia
  <2>2. PICK op \in Waits, d \in Clients : Begin(r, op, s, d)
    BY <1>1, <1>5 DEF SignIn, SignIn2FA, GetAuthStatus, Logout, DownloadMedia, Waits,
                      IsConnected, TypeOK, Live, UserSession
  <2>3. QED BY <1>2, <2>1, <2>2, StrayFrame
<1>6. ASSUME NEW r \in Requests, End(r), requests[r] # None, ~Waiting(r, "initClient"),
             Owned(c) => Owned(c)', link'[c] # "closed" => link[c] # "closed"
      PROVE  FALSE
  <2>1. \A q \in Requests : Waiting(q, "initClient") /\ requests[q].client = c =>
           requests'[q] = requests[q]
    BY <1>1, <1>6 DEF End, Waiting, TypeOK
  <2>2. QED BY <1>6, <2>1, StrayFrame
<1>7. ASSUME UNCHANGED requests, Owned(c) => Owned(c)',
             link'[c] # "closed" => link[c] # "closed"
      PROVE  FALSE
  BY <1>7, StrayFrame
<1>8. ASSUME NEW r \in Requests, ClientConnected(r)
      PROVE  Overtaken(c)
  <2> DEFINE s == requests[r].sid
             d == requests[r].client
             new == [client |-> d, phoneCodeHash |-> None, idle |-> 0]
  <2>1. requests[r] # None /\ s \in SessionIds /\ d \in Clients /\ new # None
    BY <1>1, <1>8, NoneAssumption, DurationsAssumption
       DEF ClientConnected, Waiting, TypeOK, Request, UserSession
  <2>2. /\ new.client = d
        /\ sessions' = [sessions EXCEPT ![s] = new]
        /\ requests' = [requests EXCEPT ![r].op = "sendCode"]
        /\ \E state \in {"up", "down"} : link' = [link EXCEPT ![d] = state]
    BY <1>8 DEF ClientConnected
  <2> HIDE DEF new
  <2>3. s \in Live' /\ sessions'[s].client = d
    BY <1>1, <2>1, <2>2 DEF Live, TypeOK
  <2>4. d # c
    BY <2>3 DEF Stray, Owned
  <2>5. Owned(c)
    <3>1. link'[c] = link[c]
      BY <1>1, <2>1, <2>2, <2>4 DEF TypeOK
    <3>2. \A q \in Requests : Waiting(q, "initClient") /\ requests[q].client = c =>
             requests'[q] = requests[q]
      BY <1>1, <2>1, <2>2, <2>4 DEF TypeOK
    <3>3. QED BY <3>1, <3>2, StrayFrame
  <2>6. PICK x \in Live : sessions[x].client = c
    BY <2>5 DEF Owned
  <2>7. x = s
    <3>1. x # s => x \in Live' /\ sessions'[x].client = c
      BY <1>1, <2>2, <2>6 DEF Live, TypeOK
    <3>2. QED BY <3>1 DEF Stray, Owned
  <2>8. QED BY <2>1, <2>4, <2>6, <2>7 DEF Overtaken
<1>9. ASSUME NEW r \in Requests, ClientReconnected(r)
      PROVE  ComesBack(c)
  <2> DEFINE d == requests[r].client
  <2>1. /\ requests[r] # None /\ requests[r].op = "reconnect"
        /\ requests[r].sid \in SessionIds /\ d \in Clients
        /\ UNCHANGED sessions \/ sessions' = Touch(requests[r].sid)
        /\ requests' = [requests EXCEPT ![r].op = "sendCode"]
        /\ \E state \in {"up", "down"} : link' = [link EXCEPT ![d] = state]
    BY <1>1, <1>9 DEF ClientReconnected, Waiting, TypeOK, Request
  <2>2. Owned(c)' <=> Owned(c)
    BY <1>3, <2>1, OwnedFrame
  <2>3. \A q \in Requests : Waiting(q, "initClient") /\ requests[q].client = c =>
           requests'[q] = requests[q]
    BY <1>1, <2>1 DEF Waiting, TypeOK
  <2>4. d = c
    <3>1. d # c => link'[c] = link[c]
      BY <1>1, <2>1 DEF TypeOK
    <3>2. QED BY <2>2, <2>3, <3>1, StrayFrame
  <2>5. ~Owned(c)
    BY <2>2 DEF Stray
  <2>6. QED BY <2>1, <2>4, <2>5 DEF ComesBack, Waiting
<1>10. ASSUME NEW r \in Requests, CodeSent(r)
       PROVE  FALSE
  <2>1. /\ requests[r] # None /\ ~Waiting(r, "initClient")
        /\ requests[r].sid \in Live /\ requests[r].client \in Clients
        /\ sessions' = [sessions EXCEPT ![requests[r].sid].phoneCodeHash =
                            requests[r].client]
        /\ UNCHANGED link /\ End(r)
    BY <1>1, <1>10 DEF CodeSent, Waiting, TypeOK, Request
  <2>2. SameOwners
    BY <1>1, <2>1, NoneAssumption DEF SameOwners, TypeOK, Live, UserSession
  <2>3. QED BY <1>6, <2>1, <2>2, OwnedFrame
<1>11. ASSUME NEW r \in Requests, SignedIn(r) \/ IterDownloadMedia(r)
       PROVE  FALSE
  <2>1. /\ requests[r] # None /\ ~Waiting(r, "initClient") /\ UNCHANGED link
        /\ requests[r].sid \in SessionIds /\ End(r)
        /\ UNCHANGED sessions \/ sessions' = Touch(requests[r].sid)
    BY <1>1, <1>11 DEF SignedIn, RegisterHandlers, IterDownloadMedia, Waiting, TypeOK, Request
  <2>2. QED BY <1>3, <1>6, <2>1
<1>12. ASSUME NEW r \in Requests, LoggedOut(r)
       PROVE  Overtaken(c)
  <2>1. /\ requests[r] # None /\ ~Waiting(r, "initClient") /\ End(r)
        /\ requests[r].sid \in SessionIds /\ ForgetSessions({requests[r].sid})
        /\ link' = Disconnect({requests[r].client})
    BY <1>1, <1>12 DEF LoggedOut, Waiting, TypeOK, Request
  <2>2. link'[c] # "closed" => link[c] # "closed"
    BY <2>1 DEF Disconnect
  <2>3. Owned(c)
    BY <1>6, <2>1, <2>2
  <2>4. ~Owned(c)' /\ link'[c] # "closed"
    BY DEF Stray
  <2>5. requests[r].sid \in Live /\ sessions[requests[r].sid].client = c
    BY <2>1, <2>3, <2>4, ForgetOwned
  <2>6. requests[r].client # c
    BY <2>1, <2>4 DEF Disconnect
  <2>7. QED BY <2>1, <2>5, <2>6 DEF Overtaken
<1>13. ASSUME NEW r \in Requests, RequestFails(r)
       PROVE  FALSE
  <2>1. /\ requests[r] # None /\ End(r) /\ SameOwners
        /\ requests[r].client \in Clients
    BY <1>1, <1>13, SameOwnersLemma DEF RequestFails, TypeOK, Request
  <2>2. Owned(c) => Owned(c)'
    BY <2>1, OwnedFrame
  <2>3. CASE ~Waiting(r, "initClient")
    BY <1>6, <1>13, <2>1, <2>2, <2>3 DEF RequestFails, Waiting
  <2>4. CASE Waiting(r, "initClient")
    <3>1. link' = [link EXCEPT ![requests[r].client] = "closed"]
      BY <1>13, <2>4 DEF RequestFails, Waiting
    <3>2. requests[r].client # c /\ link'[c] = link[c]
      BY <1>1, <2>1, <3>1 DEF Stray, TypeOK
    <3>3. \A q \in Requests : Waiting(q, "initClient") /\ requests[q].client = c =>
             requests'[q] = requests[q]
      BY <1>1, <2>1, <3>2 DEF End, TypeOK
    <3>4. QED BY <2>2, <3>2, <3>3, StrayFrame
  <2>5. QED BY <2>3, <2>4
<1>14. CASE CleanupInactiveSessions
  <2> DEFINE S == {s \in Live : Inactive(s)}
  <2>1. /\ S \in SUBSET SessionIds /\ ForgetSessions(S) /\ UNCHANGED requests
        /\ link' = Disconnect({sessions[s].client : s \in S})
    BY <1>14 DEF CleanupInactiveSessions, Live
  <2> HIDE DEF S
  <2>2. link'[c] # "closed" => link[c] # "closed" /\ c \notin {sessions[s].client : s \in S}
    BY <2>1 DEF Disconnect
  <2>3. ~Owned(c)' /\ link'[c] # "closed"
    BY DEF Stray
  <2>4. Owned(c) => \E s \in S \cap Live : sessions[s].client = c
    BY <2>1, <2>3, ForgetOwned
  <2>5. ~Owned(c)
    BY <2>2, <2>3, <2>4
  <2>6. QED BY <1>7, <2>1, <2>2, <2>5
<1>15. ASSUME NEW s \in SessionIds, UNCHANGED sessions \/ sessions' = Touch(s),
              UNCHANGED <<requests, link>>
       PROVE  FALSE
  BY <1>3, <1>7, <1>15
<1>16. CASE Tick
  BY <1>1, <1>7, <1>16, NoNewSessionLemma, OwnedFrame DEF Tick
<1>17. ASSUME UNCHANGED <<sessions, requests>>, link'[c] # "closed" => link[c] # "closed"
       PROVE  FALSE
  BY <1>1, <1>7, <1>17, SameOwnersLemma, OwnedFrame
<1>18. CASE HandlerStep
  BY <1>4, <1>5, <1>15, <1>17, <1>18
     DEF HandlerStep, ServiceCall, UsesClient, CreateMediaToken, ResolveExpiredToken
<1>19. CASE Continuation
  BY <1>8, <1>9, <1>10, <1>11, <1>12, <1>13, <1>19 DEF Continuation
<1>20. CASE GatewayStep
  <2>1. ASSUME NEW k \in Sockets, NEW s \in SessionIds, HandleConnection(k, s)
        PROVE  FALSE
    BY <1>15, <2>1 DEF HandleConnection, RegisterHandlers
  <2>2. ASSUME NEW k \in Sockets, HandleDisconnect(k)
        PROVE  FALSE
    BY <1>17, <2>2 DEF HandleDisconnect
  <2>3. QED BY <1>15, <1>20, <2>1, <2>2 DEF GatewayStep, KeepAlive
<1>21. CASE Background
  <2>1. ASSUME NEW d \in Clients, LinkDown(d) \/ LinkUp(d)
        PROVE  FALSE
    BY <1>1, <1>17, <2>1 DEF LinkDown, LinkUp, TypeOK
  <2>2. CASE OnModuleDestroy
    BY <1>17, <2>2 DEF OnModuleDestroy, Disconnect
  <2>3. QED BY <1>14, <1>16, <1>21, <2>1, <2>2 DEF Background
<1>22. CASE Terminated \/ UNCHANGED vars
  BY <1>17, <1>22 DEF Terminated, vars
<1>23. QED BY <1>18, <1>19, <1>20, <1>21, <1>22 DEF Next

\* A connection without a session comes about only where a dropped client is
\* connected again or a request meant another client of the id than its last; the
\* latter cannot be with one request at a time, whose client is the session's.
THEOREM NoOtherStray == MCSpec => StrayConnectionsExplained
<1>1. CalmInv => \A c \in Clients : ~Overtaken(c)
  BY DEF CalmInv, RequestsMatch, RequestMatches, Overtaken
<1>2. MCInv /\ [MCNext]_mcvars =>
         [\A c \in Clients :
             Stray(c)' => Stray(c) \/ ComesBack(c) \/ (~calm /\ Overtaken(c))]_vars
  BY <1>1, StepStray DEF MCInv, MCNext, mcvars
<1>3. QED BY <1>2, MCInductive, PTL DEF MCSpec, StrayConnectionsExplained

-------------------------------------------------------------------------------
(* TelegramUpdates: how often a page is sent an update, for any number of        *)
(* updates, pages and clients.                                                 *)

UpdatesType ==
    /\ updates \in [Updates -> Update \cup {None}]
    /\ shown \in [Sockets -> [Updates -> Nat]]

\* One callback at most is called for an update, because the client it arrives at
\* holds one; no page has been sent the update before that callback emits it.
SentInv ==
    \A u \in Updates :
        /\ updates[u] = None => \A k \in Sockets : shown[k][u] = 0
        /\ updates[u] # None =>
              /\ \A g, h \in updates[u].todo : g = h
              /\ updates[u].todo # {} => \A k \in Sockets : shown[k][u] = 0
              /\ \A k \in Sockets : shown[k][u] <= Events(updates[u].kind)

UpdatesInv == Inv /\ UpdatesType /\ SentInv

-------------------------------------------------------------------------------

LEMMA EventsLemma ==
    ASSUME NEW kind
    PROVE  Events(kind) \in Nat /\ Events(kind) >= 0
BY DEF Events

\* What an emission adds to the count of one page.
LEMMA EmitLemma ==
    ASSUME UpdatesType, NEW u \in Updates, NEW to, NEW n \in Nat, Emit(u, to, n)
    PROVE  /\ shown' \in [Sockets -> [Updates -> Nat]]
           /\ \A k \in Sockets : \A v \in Updates \ {u} : shown'[k][v] = shown[k][v]
           /\ \A k \in Sockets : shown'[k][u] \in {shown[k][u], shown[k][u] + n}
BY DEF Emit, UpdatesType

\* While an update goes to the pages, the registry stands still.
LEMMA RegistryFrame ==
    ASSUME Inv, UNCHANGED vars
    PROVE  Inv'
BY StepInv

\* An update that has been emitted for the first time and waits for nothing.
LEMMA EmittedLemma ==
    ASSUME UpdatesInv, NEW u \in Updates, NEW new \in Update, new.todo = {}, NEW to,
           \A k \in Sockets : shown[k][u] = 0,
           updates' = [updates EXCEPT ![u] = new], Emit(u, to, Events(new.kind))
    PROVE  UpdatesType' /\ SentInv'
<1> DEFINE n == Events(new.kind)
<1>1. n \in Nat
  BY EventsLemma
<1>2. /\ shown' \in [Sockets -> [Updates -> Nat]]
      /\ \A k \in Sockets : \A v \in Updates \ {u} : shown'[k][v] = shown[k][v]
      /\ \A k \in Sockets : shown'[k][u] \in {0, n}
  BY <1>1, EmitLemma DEF UpdatesInv
<1>3. UpdatesType'
  BY <1>2 DEF UpdatesInv, UpdatesType
<1>4. updates'[u] = new /\ new # None
  BY UpdateAssumption DEF UpdatesInv, UpdatesType
<1>5. \A k \in Sockets : shown'[k][u] <= n
  BY <1>1, <1>2
<1>6. ASSUME NEW v \in Updates, v # u
      PROVE  updates'[v] = updates[v] /\ \A k \in Sockets : shown'[k][v] = shown[k][v]
  BY <1>2, <1>6 DEF UpdatesInv, UpdatesType
<1>7. SentInv'
  BY <1>4, <1>5, <1>6 DEF UpdatesInv, SentInv
<1>8. QED BY <1>3, <1>7

LEMMA ArrivesStep ==
    ASSUME UpdatesInv, NEW u \in Updates, NEW c \in Clients, NEW kind \in Kinds,
           UpdateArrives(u, c, kind)
    PROVE  UpdatesInv'
<1>1. Inv'
  BY RegistryFrame DEF UpdatesInv, UpdateArrives, Running, vars
<1>2. /\ handlers[c] \subseteq Callback
      /\ \A g, h \in handlers[c] : g = h
  BY DEF UpdatesInv, Inv, TypeOK, HandlersInv, OneSubscription
<1>3. /\ \A k \in Sockets : shown[k][u] = 0
      /\ UpdatesType
  BY DEF UpdatesInv, SentInv, UpdateArrives
<1>4. CASE kind = "read"
  <2>1. PICK h \in handlers[c] :
           /\ updates' = [updates EXCEPT ![u] = [kind |-> kind, todo |-> {}]]
           /\ Emit(u, h.room, Events(kind))
    BY <1>4 DEF UpdateArrives
  <2>2. [kind |-> kind, todo |-> {}] \in Update
    BY DEF Update
  <2>3. QED BY <1>1, <1>3, <2>1, <2>2, EmittedLemma DEF UpdatesInv
<1>5. CASE kind # "read"
  <2>1. /\ updates' = [updates EXCEPT ![u] = [kind |-> kind, todo |-> handlers[c]]]
        /\ UNCHANGED shown
    BY <1>5 DEF UpdateArrives
  <2>2. [kind |-> kind, todo |-> handlers[c]] \in Update
    BY <1>2 DEF Update
  <2>3. UpdatesType'
    BY <1>3, <2>1, <2>2 DEF UpdatesType
  <2>4. SentInv'
    BY <1>2, <1>3, <2>1, <2>2, EventsLemma, UpdateAssumption
       DEF UpdatesInv, UpdatesType, SentInv
  <2>5. QED BY <1>1, <2>3, <2>4 DEF UpdatesInv
<1>6. QED BY <1>4, <1>5

LEMMA SenderStep ==
    ASSUME UpdatesInv, NEW u \in Updates, NEW h \in Callback, SenderKnown(u, h)
    PROVE  UpdatesInv'
<1>1. Inv'
  BY RegistryFrame DEF UpdatesInv, SenderKnown, Running, vars
<1>2. /\ updates[u] \in Update
      /\ updates' = [updates EXCEPT ![u].todo = @ \ {h}]
      /\ Emit(u, h.room, Events(updates[u].kind))
      /\ h \in updates[u].todo
  BY DEF SenderKnown, UpdatesInv, UpdatesType
<1>3. updates[u].todo = {h} /\ \A k \in Sockets : shown[k][u] = 0
  BY <1>2, UpdateAssumption DEF UpdatesInv, SentInv, Update
<1> DEFINE new == [updates[u] EXCEPT !.todo = {}]
<1>4. updates' = [updates EXCEPT ![u] = new]
  BY <1>2, <1>3
<1>5. new \in Update /\ new.todo = {} /\ new.kind = updates[u].kind
  BY <1>2 DEF Update
<1> HIDE DEF new
<1>6. QED BY <1>1, <1>2, <1>3, <1>4, <1>5, EmittedLemma DEF UpdatesInv

\* What the registry does takes away what a closed page has seen and no more.
LEMMA RegistryUpdatesStep ==
    ASSUME UpdatesInv, RegistryStep
    PROVE  UpdatesInv'
<1>1. Inv'
  BY StepInv DEF UpdatesInv, RegistryStep
<1>2. /\ UNCHANGED updates
      /\ shown' \in [Sockets -> [Updates -> Nat]]
      /\ \A k \in Sockets, u \in Updates : shown'[k][u] \in {0, shown[k][u]}
  BY DEF UpdatesInv, UpdatesType, RegistryStep, Unseen
<1>3. SentInv'
  BY <1>2, EventsLemma DEF UpdatesInv, SentInv
<1>4. QED BY <1>1, <1>2, <1>3 DEF UpdatesInv, UpdatesType

LEMMA UpdatesInductive == UpdatesSpec => []UpdatesInv
<1>1. UpdatesInit => UpdatesInv
  BY InitInv, EventsLemma DEF UpdatesInit, UpdatesInv, UpdatesType, SentInv, Unseen
<1>2. UpdatesInv /\ [UpdatesNext]_updatesVars => UpdatesInv'
  <2> SUFFICES ASSUME UpdatesInv, [UpdatesNext]_updatesVars PROVE UpdatesInv'
    OBVIOUS
  <2>1. CASE UNCHANGED updatesVars
    BY <2>1, RegistryFrame DEF updatesVars, UpdatesInv, UpdatesType, SentInv
  <2>2. QED
    BY <2>1, ArrivesStep, SenderStep, RegistryUpdatesStep DEF UpdatesNext
<1>3. QED BY <1>1, <1>2, PTL DEF UpdatesSpec

\* A page is sent an update once, and the user's own message at most twice,
\* however many pages there are: the client that the update arrives at holds one
\* callback, and removing it does not stop the one that is awaiting the sender.
THEOREM UpdatesShownOnce == UpdatesSpec => []ShownOnce
<1>1. UpdatesInv => ShownOnce
  BY DEF UpdatesInv, UpdatesType, SentInv, ShownOnce, Events
<1>2. QED BY <1>1, UpdatesInductive, PTL

\* With the updates around it the registry does no more than it does by itself, so
\* all that is proved of Spec holds while messages are on their way to the pages.
THEOREM UpdatesLeaveRegistryAlone == UpdatesSpec => Spec
<1>1. UpdatesInit => Init
  BY DEF UpdatesInit
<1>2. [UpdatesNext]_updatesVars => [Next]_vars
  BY DEF UpdatesNext, RegistryStep, UpdateArrives, SenderKnown, Running, updatesVars, vars
<1>3. QED BY <1>1, <1>2, PTL DEF UpdatesSpec, Spec
-------------------------------------------------------------------------------
(* TelegramUpdates: every message is shown. *)

\* A page moves between rooms only by leaving.
LEMMA StepRooms ==
    ASSUME [Next]_vars, TypeOK, NEW k \in Sockets, room[k] # None
    PROVE  room'[k] \in {room[k], None}
<1> USE DEF serviceVars, gatewayVars, clientVars
<1>1. ASSUME NEW j \in Sockets, NEW s \in SessionIds, HandleConnection(j, s)
      PROVE  room'[k] \in {room[k], None}
  BY <1>1 DEF HandleConnection, TypeOK
<1>2. ASSUME NEW j \in Sockets, HandleDisconnect(j)
      PROVE  room'[k] \in {room[k], None}
  BY <1>2 DEF HandleDisconnect, TypeOK
<1>3. CASE HandlerStep
  BY <1>3 DEF HandlerStep, SendCode, SignIn, SignIn2FA, GetAuthStatus, Logout,
              DownloadMedia, ServiceCall, UsesClient, CreateMediaToken, ResolveExpiredToken
<1>4. CASE Continuation
  BY <1>4 DEF Continuation, ClientConnected, ClientReconnected, CodeSent, SignedIn,
              LoggedOut, IterDownloadMedia, RequestFails
<1>5. CASE Background
  BY <1>5 DEF Background, CleanupInactiveSessions, Tick, LinkDown, LinkUp, OnModuleDestroy
<1>6. ASSUME NEW s \in SessionIds, KeepAlive(s)
      PROVE  room'[k] \in {room[k], None}
  BY <1>6 DEF KeepAlive
<1>7. CASE Terminated \/ UNCHANGED vars
  BY <1>7 DEF Terminated, vars
<1>8. QED
  BY <1>1, <1>2, <1>3, <1>4, <1>5, <1>6, <1>7 DEF Next, GatewayStep

\* An update whose sender is still being looked up for a page in that room, and what
\* ends the wait of this page.
Awaited(u, k) == updates[u] # None /\ \E h \in updates[u].todo : h.room = room[k]

Seen(u, k) == shown[k][u] > 0 \/ room[k] = None \/ down

LEMMA AwaitedRoom ==
    ASSUME UpdatesInv, NEW u \in Updates, NEW k \in Sockets, Awaited(u, k)
    PROVE  updates[u] \in Update /\ room[k] # None
BY NoneAssumption DEF UpdatesInv, UpdatesType, Inv, TypeOK, Awaited, Update, Callback

\* The only callback that waits emits to the page.
LEMMA SenderShows ==
    ASSUME UpdatesInv, NEW u \in Updates, NEW k \in Sockets, Awaited(u, k),
           NEW h \in Callback, SenderKnown(u, h)
    PROVE  shown'[k][u] > 0
<1>1. h.room = room[k]
  BY DEF UpdatesInv, SentInv, SenderKnown, Awaited
<1>2. shown'[k][u] = shown[k][u] + Events(updates[u].kind)
  BY <1>1 DEF UpdatesInv, UpdatesType, SenderKnown, Emit
<1>3. shown[k][u] \in Nat
  BY DEF UpdatesInv, UpdatesType
<1>4. QED BY <1>2, <1>3 DEF Events

\* Nothing else ends the wait, except that the page or the process goes.
LEMMA AwaitedStays ==
    ASSUME UpdatesInv, NEW u \in Updates, NEW k \in Sockets, Awaited(u, k),
           [UpdatesNext]_updatesVars
    PROVE  Awaited(u, k)' \/ Seen(u, k)'
<1>1. ASSUME NEW v \in Updates, NEW h \in Callback, SenderKnown(v, h)
      PROVE  Awaited(u, k)' \/ Seen(u, k)'
  <2>1. CASE v = u
    BY <1>1, <2>1, SenderShows DEF Seen
  <2>2. CASE v # u
    <3>1. updates'[u] = updates[u] /\ room' = room
      BY <1>1, <2>2 DEF SenderKnown, UpdatesInv, UpdatesType, gatewayVars
    <3>2. QED BY <3>1 DEF Awaited
  <2>3. QED BY <2>1, <2>2
<1>2. ASSUME NEW v \in Updates, NEW c \in Clients, NEW kind \in Kinds,
             UpdateArrives(v, c, kind)
      PROVE  Awaited(u, k)'
  <2>1. v # u /\ room' = room
    BY <1>2 DEF UpdateArrives, Awaited, gatewayVars
  <2>2. updates'[u] = updates[u]
    BY <1>2, <2>1 DEF UpdateArrives, UpdatesInv, UpdatesType
  <2>3. QED BY <2>1, <2>2 DEF Awaited
<1>3. CASE RegistryStep
  <2>1. room'[k] \in {room[k], None} /\ updates' = updates
    BY <1>3, AwaitedRoom, StepRooms DEF RegistryStep, UpdatesInv, Inv
  <2>2. QED BY <2>1 DEF Awaited, Seen
<1>4. CASE UNCHANGED updatesVars
  BY <1>4 DEF updatesVars, vars, gatewayVars, Awaited
<1>5. QED BY <1>1, <1>2, <1>3, <1>4 DEF UpdatesNext

\* Weak fairness of the callbacks of one update, with their guard for ENABLED, which
\* the provers do not know: the last conjunct of FairUpdatesSpec, for the one callback
\* that can be waiting.
LookupIsFair(u) ==
    \/ []<>~(~down /\ updates[u] # None /\ updates[u].todo # {})
    \/ []<><<\E h \in Callback : SenderKnown(u, h)>>_updatesVars

\* A page that is in the room of a message is sent it, whatever becomes of its sender,
\* the session and the handlers meanwhile (the callbacks of the gateway): for any
\* number of updates, pages and clients.
THEOREM MessagesAreShown ==
    UpdatesSpec /\ (\A u \in Updates : LookupIsFair(u)) => EveryMessageShown
<1> SUFFICES ASSUME NEW u \in Updates, NEW k \in Sockets
             PROVE  UpdatesSpec /\ LookupIsFair(u) => (Awaited(u, k) ~> Seen(u, k))
  BY DEF EveryMessageShown, Awaited, Seen
<1> DEFINE Pending == Awaited(u, k)
           Done == Seen(u, k)
           Known == \E h \in Callback : SenderKnown(u, h)
           Guard == ~down /\ updates[u] # None /\ updates[u].todo # {}
<1>1. UpdatesInv /\ Pending /\ [UpdatesNext]_updatesVars => Pending' \/ Done'
  BY AwaitedStays
<1>2. UpdatesInv /\ Pending /\ <<Known>>_updatesVars => Done'
  BY SenderShows DEF Seen
<1>3. Pending => Guard \/ Done
  BY DEF Awaited, Seen
<1>4. LookupIsFair(u) => []<>~Guard \/ []<><<Known>>_updatesVars
  BY DEF LookupIsFair
<1> HIDE DEF Pending, Done, Known, Guard
<1>5. UpdatesSpec /\ LookupIsFair(u) => (Pending ~> Done)
  BY <1>1, <1>2, <1>3, <1>4, UpdatesInductive, PTL DEF UpdatesSpec
<1>6. QED BY <1>5 DEF Pending, Done
===============================================================================
