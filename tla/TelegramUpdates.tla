---------------------------- MODULE TelegramUpdates ----------------------------
(* What Telegram sends to the clients of TelegramSessions, from its arrival to  *)
(* the pages.  GramJS (external) calls the callbacks that are on the client at  *)
(* that moment, one after another, and awaits each; the updates of a client do  *)
(* not wait for each other.  The callback of a message awaits the sender before *)
(* it emits, and by then pages, handlers and sessions may have come and gone.   *)
(* What else it awaits is already there.                                        *)
EXTENDS TelegramSessions

CONSTANT Updates    \* updates from Telegram; each arrives at one client

Kinds == {"incoming", "outgoing", "read"}

\* `todo` are the callbacks that have not ended.
Update == [kind : Kinds, todo : SUBSET Callback]

ASSUME UpdateAssumption == None \notin Update

VARIABLES
    updates,    \* Updates -> Update, or None before it arrives
    shown       \* Sockets -> how often the page was sent each update

updatesVars == <<vars, updates, shown>>

Unseen == [u \in Updates |-> 0]

UpdatesInit ==
    /\ Init
    /\ updates = [u \in Updates |-> None]
    /\ shown = [k \in Sockets |-> Unseen]

-------------------------------------------------------------------------------

\* server.to(room).emit(...), n times, to the pages that are in the room now.
Emit(u, to, n) ==
    shown' = [k \in Sockets |-> IF room[k] = to THEN [shown[k] EXCEPT ![u] = @ + n]
                                ELSE shown[k]]

\* Mutant: the raw handler does not look at msg.out.
Events_AllRaw(kind) == 2

\* A message of the user's own comes twice: NewMessage({}) filters nothing, and
\* the raw handler calls onOutgoingMessage.
Events(kind) == IF kind = "outgoing" THEN 2 ELSE 1

\* A read receipt is emitted without an await, a message waits for its sender.
UpdateArrives(u, c, kind) ==
    /\ Running
    /\ updates[u] = None
    /\ link[c] = "up"
    /\ \E h \in handlers[c] :
          \/ /\ kind = "read"
             /\ updates' = [updates EXCEPT ![u] = [kind |-> kind, todo |-> {}]]
             /\ Emit(u, h.room, Events(kind))
          \/ /\ kind # "read"
             /\ updates' = [updates EXCEPT ![u] = [kind |-> kind, todo |-> handlers[c]]]
             /\ UNCHANGED shown
    /\ UNCHANGED <<serviceVars, gatewayVars, clientVars, requests>>

\* Mutant: without the try around getSender.
SenderKnown_Uncaught(u, h) ==
    /\ Running
    /\ updates[u] # None /\ h \in updates[u].todo
    /\ \/ Emit(u, h.room, Events(updates[u].kind))
       \/ UNCHANGED shown
    /\ updates' = [updates EXCEPT ![u].todo = @ \ {h}]
    /\ UNCHANGED <<serviceVars, gatewayVars, clientVars, requests>>

\* getSender has answered or failed.
SenderKnown(u, h) ==
    /\ Running
    /\ updates[u] # None /\ h \in updates[u].todo
    /\ Emit(u, h.room, Events(updates[u].kind))
    /\ updates' = [updates EXCEPT ![u].todo = @ \ {h}]
    /\ UNCHANGED <<serviceVars, gatewayVars, clientVars, requests>>

\* A step of the registry.  A page that goes takes along what it has seen.
RegistryStep ==
    /\ Next
    /\ shown' = [k \in Sockets |-> IF room'[k] = None THEN Unseen ELSE shown[k]]
    /\ UNCHANGED updates

UpdatesNext ==
    \/ RegistryStep
    \/ \E u \in Updates, c \in Clients, kind \in Kinds : UpdateArrives(u, c, kind)
    \/ \E u \in Updates, h \in Callback : SenderKnown(u, h)

UpdatesSpec == UpdatesInit /\ [][UpdatesNext]_updatesVars

\* The timers of the process fire for as long as it runs, and GramJS answers or
\* rejects the call of getSender.
Beside(A) == A /\ UNCHANGED <<updates, shown>>

FairUpdatesSpec ==
    /\ UpdatesSpec
    /\ WF_updatesVars(Beside(Tick))
    /\ WF_updatesVars(Beside(CleanupInactiveSessions))
    /\ \A s \in SessionIds : WF_updatesVars(Beside(KeepAlive(s)))
    /\ \A u \in Updates, h \in Callback : WF_updatesVars(SenderKnown(u, h))

-------------------------------------------------------------------------------

\* However pages, logins and clean-ups interleave with the callbacks, a page is
\* sent an incoming message or a read receipt at most once while it is open, and a
\* message of the user's own at most twice (registerHandlerForSession).
ShownOnce ==
    \A k \in Sockets, u \in Updates : shown[k][u] > 0 =>
        /\ updates[u] # None
        /\ shown[k][u] <= IF updates[u].kind = "outgoing" THEN 2 ELSE 1

\* A page that is in the room when a message arrives, or comes while its sender
\* is being looked up, is sent it, also when the sender cannot be found and when
\* the session or its handlers go meanwhile (the callbacks of the gateway).
EveryMessageShown ==
    \A u \in Updates, k \in Sockets :
        (updates[u] # None /\ \E h \in updates[u].todo : h.room = room[k])
            ~> (shown[k][u] > 0 \/ room[k] = None \/ down)
===============================================================================
