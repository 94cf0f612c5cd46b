------------------------------ MODULE YahtzeeLobby ------------------------------
(* YahtzeeGameService and its gateway: who sits at the one table of the server, *)
(* and what the connected pages have been told about it.  Every handler runs    *)
(* without an await, so it is one action; what it emits travels in order to     *)
(* each page, and a page reads it later.  The messages that the gateway only    *)
(* passes on (dice, rows, the end of a game) change nothing and are left out.   *)
(* The list of players is kept as a set: arrival order shows in no property.    *)
EXTENDS Naturals, Sequences, FiniteSets

CONSTANTS
    Clients,      \* socket ids
    Names,        \* what visitors call themselves
    MaxInbox,     \* bound on the messages under way to one page
    None

Player == [name : Names, clientId : Clients, isStarted : BOOLEAN]

\* What the server sends, as an event or as the answer to a question of a page.
Message ==
    [event : {"updatePlayers"}, value : SUBSET Names]
        \cup [event : {"noMorePlayers"}, value : BOOLEAN]
        \cup [event : {"gameStarted"}, value : {None}]

ASSUME LobbyAssumption ==
    /\ MaxInbox \in Nat
    /\ \A N \in SUBSET Names : None # N
    /\ None \notin BOOLEAN

VARIABLES
    players,
    noMorePlayers,
    connected,     \* the sockets that are connected
    inbox,         \* socket -> the messages under way to it
    view           \* socket -> what its page has last read of each event

vars == <<players, noMorePlayers, connected, inbox, view>>

View == [updatePlayers : {None} \cup SUBSET Names, noMorePlayers : {None} \cup BOOLEAN]

TypeOK ==
    /\ players \subseteq Player
    /\ noMorePlayers \in BOOLEAN
    /\ connected \subseteq Clients
    /\ inbox \in [Clients -> Seq(Message)]
    /\ view \in [Clients -> View]
    /\ \A c \in Clients \ connected : inbox[c] = <<>>

Blank == [updatePlayers |-> None, noMorePlayers |-> None]

Init ==
    /\ players = {}
    /\ noMorePlayers = FALSE
    /\ connected = {}
    /\ inbox = [c \in Clients |-> <<>>]
    /\ view = [c \in Clients |-> Blank]

NamesOf(P) == {p.name : p \in P}

UpdatePlayers(P) == [event |-> "updatePlayers", value |-> NamesOf(P)]

NoMorePlayers(b) == [event |-> "noMorePlayers", value |-> b]

GameStarted == [event |-> "gameStarted", value |-> None]

\* The messages `sent` go to every page of C, the connected ones; what is under
\* way to a page that has gone is lost.
Emit(C, sent) ==
    /\ \A c \in C : Len(inbox[c]) + Len(sent) <= MaxInbox
    /\ inbox' = [c \in Clients |-> IF c \in C THEN inbox[c] \o sent ELSE <<>>]

\* The answer to a question of the page of c.
Reply(c, message) ==
    /\ Len(inbox[c]) < MaxInbox
    /\ inbox' = [inbox EXCEPT ![c] = Append(@, message)]

-------------------------------------------------------------------------------

\* A page opens; a new socket knows nothing yet.
Connect(c) ==
    /\ c \notin connected
    /\ connected' = connected \cup {c}
    /\ UNCHANGED <<players, noMorePlayers, inbox, view>>

\* Mutant: a name that is taken is given away again.
AddPlayer_AnyName(c, name) ==
    /\ c \in connected
    /\ \A p \in players : p.clientId # c
    /\ players' = players \cup {[name |-> name, clientId |-> c, isStarted |-> FALSE]}
    /\ Emit(connected, <<UpdatePlayers(players')>>)
    /\ UNCHANGED <<noMorePlayers, connected, view>>

\* addPlayer; it answers false and changes nothing when the socket has a seat or
\* the name is taken.  Whether the lobby is closed is not asked.
AddPlayer(c, name) ==
    /\ c \in connected
    /\ \A p \in players : p.clientId # c /\ p.name # name
    /\ players' = players \cup {[name |-> name, clientId |-> c, isStarted |-> FALSE]}
    /\ Emit(connected, <<UpdatePlayers(players')>>)
    /\ UNCHANGED <<noMorePlayers, connected, view>>

Without(c) == {p \in players : p.clientId # c}

\* Mutants: the lobby stays closed when the last player has gone; it reopens
\* without telling anybody.
RemovePlayer_StaysClosed(c) ==
    /\ c \in connected
    /\ connected' = connected \ {c}
    /\ players' = Without(c)
    /\ Emit(connected', <<UpdatePlayers(players')>>)
    /\ view' = [view EXCEPT ![c] = Blank]
    /\ UNCHANGED noMorePlayers

RemovePlayer_Silent(c) ==
    /\ c \in connected
    /\ connected' = connected \ {c}
    /\ players' = Without(c)
    /\ noMorePlayers' = (noMorePlayers /\ players' # {})
    /\ Emit(connected', <<UpdatePlayers(players')>>)
    /\ view' = [view EXCEPT ![c] = Blank]

\* handleDisconnect and removePlayer, whether or not the socket has a seat.
RemovePlayer(c) ==
    /\ c \in connected
    /\ connected' = connected \ {c}
    /\ players' = Without(c)
    /\ \/ /\ players' = {}
          /\ noMorePlayers' = FALSE
          /\ Emit(connected', <<NoMorePlayers(FALSE), UpdatePlayers(players')>>)
       \/ /\ players' # {}
          /\ Emit(connected', <<UpdatePlayers(players')>>)
          /\ UNCHANGED noMorePlayers
    /\ view' = [view EXCEPT ![c] = Blank]

Started(c) ==
    {IF p.clientId = c THEN [p EXCEPT !.isStarted = TRUE] ELSE p : p \in players}

\* clientStarted; it answers false and changes nothing for a socket without a seat.
ClientStarted(c) ==
    /\ \E p \in players : p.clientId = c
    /\ players' = Started(c)
    /\ noMorePlayers' = TRUE
    /\ \/ /\ \A p \in players' : p.isStarted
          /\ Emit(connected, <<NoMorePlayers(TRUE), GameStarted>>)
       \/ /\ \E p \in players' : ~p.isStarted
          /\ Emit(connected, <<NoMorePlayers(TRUE)>>)
    /\ UNCHANGED <<connected, view>>

\* handleGetPlayers and handleNoMorePlayers.
GetPlayers(c) ==
    /\ c \in connected
    /\ Reply(c, UpdatePlayers(players))
    /\ UNCHANGED <<players, noMorePlayers, connected, view>>

GetNoMorePlayers(c) ==
    /\ c \in connected
    /\ Reply(c, NoMorePlayers(noMorePlayers))
    /\ UNCHANGED <<players, noMorePlayers, connected, view>>

\* The page reads the next message.
Receive(c) ==
    /\ inbox[c] # <<>>
    /\ inbox' = [inbox EXCEPT ![c] = Tail(@)]
    /\ view' = IF Head(inbox[c]).event = "gameStarted" THEN view
               ELSE [view EXCEPT ![c][Head(inbox[c]).event] = Head(inbox[c]).value]
    /\ UNCHANGED <<players, noMorePlayers, connected>>

Next ==
    \E c \in Clients :
        \/ Connect(c)
        \/ \E name \in Names : AddPlayer(c, name)
        \/ RemovePlayer(c)
        \/ ClientStarted(c)
        \/ GetPlayers(c)
        \/ GetNoMorePlayers(c)
        \/ Receive(c)

Spec == Init /\ [][Next]_vars

-------------------------------------------------------------------------------

\* However pages come and go, no two players share a name or a socket, and no
\* seat is left to a page that has gone.
OneSeatEach ==
    /\ \A p, q \in players : p.name = q.name \/ p.clientId = q.clientId => p = q
    /\ \A p \in players : p.clientId \in connected

\* A lobby that is closed to newcomers is held by a connected player, so that it
\* opens again at the latest when everybody has gone, and one in which a player
\* has started is closed.
ClosedLobbyIsHeld ==
    /\ noMorePlayers => players # {}
    /\ (\E p \in players : p.isStarted) => noMorePlayers

\* A page that has last read `last` of an event and reads the messages of `queue`
\* will know `value`, or nothing if it was never told.
WillKnow(queue, last, event, value) ==
    \/ \E i \in DOMAIN queue :
          /\ queue[i].event = event /\ queue[i].value = value
          /\ \A j \in DOMAIN queue : j > i => queue[j].event # event
    \/ /\ \A j \in DOMAIN queue : queue[j].event # event
       /\ last \in {None, value}

\* No page is left with an old list or an old state of the lobby: once it has
\* read what is under way, it knows what the server knows, if it was told at all.
PagesCatchUp ==
    \A c \in connected :
        /\ WillKnow(inbox[c], view[c].updatePlayers, "updatePlayers", NamesOf(players))
        /\ WillKnow(inbox[c], view[c].noMorePlayers, "noMorePlayers", noMorePlayers)
===============================================================================
