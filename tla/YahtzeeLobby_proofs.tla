-------------------------- MODULE YahtzeeLobby_proofs --------------------------
(* The seats of the lobby, and what its pages come to know, for any number of *)
(* visitors and names.                                                        *)
EXTENDS YahtzeeLobby, SequenceTheorems, TLAPS

\* A step that leaves the players and the lobby's state alone.
Quiet == UNCHANGED <<players, noMorePlayers>> /\ connected \subseteq connected'

Seats == /\ players \subseteq Player
         /\ noMorePlayers \in BOOLEAN
         /\ OneSeatEach
         /\ ClosedLobbyIsHeld

LEMMA InitSeats == Init => Seats
BY DEF Init, Seats, OneSeatEach, ClosedLobbyIsHeld

LEMMA StepSeats == Seats /\ [Next]_vars => Seats'
<1> SUFFICES ASSUME Seats, [Next]_vars PROVE Seats'
  OBVIOUS
<1>1. CASE Quiet
  BY <1>1 DEF Quiet, Seats, OneSeatEach, ClosedLobbyIsHeld
<1>2. ASSUME NEW c \in Clients, NEW name \in Names, AddPlayer(c, name)
      PROVE  Seats'
  <2> DEFINE new == [name |-> name, clientId |-> c, isStarted |-> FALSE]
  <2>1. /\ new \in Player /\ new.name = name /\ new.clientId = c /\ ~new.isStarted
        /\ players' = players \cup {new} /\ c \in connected
        /\ UNCHANGED <<noMorePlayers, connected>>
        /\ \A p \in players : p.clientId # c /\ p.name # name
    BY <1>2 DEF AddPlayer, Player
  <2> HIDE DEF new
  <2>2. OneSeatEach'
    BY <2>1 DEF Seats, OneSeatEach
  <2>3. ClosedLobbyIsHeld'
    BY <2>1 DEF Seats, ClosedLobbyIsHeld
  <2>4. QED BY <2>1, <2>2, <2>3 DEF Seats
<1>3. ASSUME NEW c \in Clients, RemovePlayer(c)
      PROVE  Seats'
  <2>1. /\ players' = Without(c) /\ connected' = connected \ {c}
        /\ \/ players' = {} /\ noMorePlayers' = FALSE
           \/ players' # {} /\ UNCHANGED noMorePlayers
    BY <1>3 DEF RemovePlayer
  <2>2. players' \subseteq players /\ \A p \in players' : p.clientId # c
    BY <2>1 DEF Without
  <2>3. OneSeatEach'
    BY <2>1, <2>2 DEF Seats, OneSeatEach
  <2>4. ClosedLobbyIsHeld'
    BY <2>1, <2>2 DEF Seats, ClosedLobbyIsHeld
  <2>5. QED BY <2>1, <2>2, <2>3, <2>4 DEF Seats
<1>4. ASSUME NEW c \in Clients, ClientStarted(c)
      PROVE  Seats'
  <2>1. /\ players' = Started(c) /\ noMorePlayers' = TRUE /\ UNCHANGED connected
        /\ players # {}
    BY <1>4 DEF ClientStarted
  <2>2. \A p \in players' : \E q \in players :
            p \in Player /\ p.name = q.name /\ p.clientId = q.clientId
            /\ p = IF q.clientId = c THEN [q EXCEPT !.isStarted = TRUE] ELSE q
    BY <2>1 DEF Started, Seats, Player
  <2>3. players' # {}
    BY <2>1 DEF Started
  <2>4. OneSeatEach'
    <3>1. ASSUME NEW p1 \in players', NEW p2 \in players',
                 p1.name = p2.name \/ p1.clientId = p2.clientId
          PROVE  p1 = p2
      <4>1. PICK q1 \in players :
                p1.name = q1.name /\ p1.clientId = q1.clientId
                /\ p1 = IF q1.clientId = c THEN [q1 EXCEPT !.isStarted = TRUE] ELSE q1
        BY <2>2
      <4>2. PICK q2 \in players :
                p2.name = q2.name /\ p2.clientId = q2.clientId
                /\ p2 = IF q2.clientId = c THEN [q2 EXCEPT !.isStarted = TRUE] ELSE q2
        BY <2>2
      <4>3. q1 = q2
        BY <3>1, <4>1, <4>2 DEF Seats, OneSeatEach
      <4>4. QED BY <4>1, <4>2, <4>3
    <3>2. \A p \in players' : p.clientId \in connected'
      BY <2>1, <2>2 DEF Seats, OneSeatEach
    <3>3. QED BY <3>1, <3>2 DEF OneSeatEach
  <2>5. ClosedLobbyIsHeld'
    BY <2>1, <2>3 DEF ClosedLobbyIsHeld
  <2>6. QED BY <2>1, <2>2, <2>4, <2>5 DEF Seats
<1>5. ASSUME NEW c \in Clients,
             Connect(c) \/ GetPlayers(c) \/ GetNoMorePlayers(c) \/ Receive(c)
      PROVE  Seats'
  BY <1>1, <1>5 DEF Connect, GetPlayers, GetNoMorePlayers, Receive, Quiet
<1>6. CASE UNCHANGED vars
  BY <1>1, <1>6 DEF vars, Quiet
<1>7. QED BY <1>2, <1>3, <1>4, <1>5, <1>6 DEF Next

\* However pages come, go and press start, names and sockets stay unique, every
\* seat belongs to a connected page, and a closed lobby is held by a player
\* (addPlayer, removePlayer, clientStarted).
THEOREM SeatsHeld == Spec => [](OneSeatEach /\ ClosedLobbyIsHeld)
<1>1. Seats => OneSeatEach /\ ClosedLobbyIsHeld
  BY DEF Seats
<1>2. QED BY <1>1, InitSeats, StepSeats, PTL DEF Spec

\* A closed lobby is held by a player, and a game that is on is closed
\* (removePlayer, clientStarted).
THEOREM LobbyIsHeld == Spec => []ClosedLobbyIsHeld
<1>1. Seats => ClosedLobbyIsHeld
  BY DEF Seats
<1>2. QED BY <1>1, InitSeats, StepSeats, PTL DEF Spec

-------------------------------------------------------------------------------
(* What the pages know.                                                        *)

\* A message of the event becomes the latest, one of another event changes nothing.
LEMMA AppendLemma ==
    ASSUME NEW queue \in Seq(Message), NEW m \in Message, NEW last, NEW event, NEW value,
           \/ m.event = event /\ m.value = value
           \/ m.event # event /\ WillKnow(queue, last, event, value)
    PROVE  WillKnow(queue \o <<m>>, last, event, value)
<1> DEFINE new == queue \o <<m>>
<1>1. /\ DOMAIN queue = 1 .. Len(queue) /\ Len(queue) \in Nat
      /\ DOMAIN new = 1 .. Len(queue) + 1
      /\ new[Len(queue) + 1] = m
      /\ \A i \in 1 .. Len(queue) : new[i] = queue[i]
  OBVIOUS
<1> HIDE DEF new
<1>2. CASE m.event = event /\ m.value = value
  BY <1>1, <1>2 DEF WillKnow, new
<1>3. CASE m.event # event /\ WillKnow(queue, last, event, value)
  <2>1. WillKnow(new, last, event, value)
    BY <1>1, <1>3 DEF WillKnow
  <2>2. QED BY <2>1 DEF new
<1>4. QED BY <1>2, <1>3

\* Reading the first message changes nothing of what a page will know.
LEMMA TailLemma ==
    ASSUME NEW queue \in Seq(Message), queue # <<>>, NEW last, NEW event, NEW value,
           WillKnow(queue, last, event, value)
    PROVE  WillKnow(Tail(queue), IF Head(queue).event = event THEN Head(queue).value ELSE last,
                    event, value)
<1> DEFINE rest == Tail(queue)
           read == IF Head(queue).event = event THEN Head(queue).value ELSE last
<1>1. /\ DOMAIN queue = 1 .. Len(queue) /\ Len(queue) \in Nat \ {0}
      /\ DOMAIN rest = 1 .. Len(queue) - 1
      /\ Head(queue) = queue[1]
      /\ \A i \in 1 .. Len(queue) - 1 : rest[i] = queue[i + 1]
  OBVIOUS
<1> HIDE DEF rest
<1>2. CASE \E i \in DOMAIN queue :
              /\ queue[i].event = event /\ queue[i].value = value
              /\ \A j \in DOMAIN queue : j > i => queue[j].event # event
  <2>1. PICK i \in DOMAIN queue :
              /\ queue[i].event = event /\ queue[i].value = value
              /\ \A j \in DOMAIN queue : j > i => queue[j].event # event
    BY <1>2
  <2>2. CASE i = 1
    <3>1. \A j \in DOMAIN rest : rest[j].event # event
      BY <1>1, <2>1, <2>2
    <3>2. read = value
      BY <1>1, <2>1, <2>2
    <3>3. QED BY <3>1, <3>2 DEF WillKnow, rest
  <2>3. CASE i # 1
    <3>1. i - 1 \in DOMAIN rest /\ rest[i - 1] = queue[i]
      BY <1>1, <2>1, <2>3
    <3>2. \A j \in DOMAIN rest : j > i - 1 => rest[j].event # event
      BY <1>1, <2>1, <2>3
    <3>3. WillKnow(rest, read, event, value)
      BY <2>1, <3>1, <3>2 DEF WillKnow
    <3>4. QED BY <3>3 DEF rest
  <2>4. QED BY <2>2, <2>3
<1>3. CASE (\A j \in DOMAIN queue : queue[j].event # event) /\ last \in {None, value}
  <2>1. (\A j \in DOMAIN rest : rest[j].event # event) /\ read = last
    BY <1>1, <1>3
  <2>2. QED BY <1>3, <2>1 DEF WillKnow, rest
<1>4. QED BY <1>2, <1>3 DEF WillKnow

\* The messages the handlers send.
LEMMA MessagesLemma ==
    /\ \A P \in SUBSET Player : UpdatePlayers(P) \in Message
    /\ \A b \in BOOLEAN : NoMorePlayers(b) \in Message
    /\ GameStarted \in Message
BY DEF UpdatePlayers, NoMorePlayers, GameStarted, Message, NamesOf, Player

LEMMA TupleLemma ==
    ASSUME NEW a \in Message, NEW b \in Message
    PROVE  <<a>> \in Seq(Message) /\ <<a, b>> \in Seq(Message)
OBVIOUS

LEMMA EmitLemma ==
    ASSUME NEW C \in SUBSET Clients, NEW sent \in Seq(Message), Emit(C, sent),
           inbox \in [Clients -> Seq(Message)]
    PROVE  /\ inbox' \in [Clients -> Seq(Message)]
           /\ \A c \in C : inbox'[c] = inbox[c] \o sent
           /\ \A c \in Clients \ C : inbox'[c] = <<>>
BY DEF Emit

LEMMA InitType == Init => TypeOK
<1> SUFFICES ASSUME Init PROVE TypeOK
  OBVIOUS
<1>1. <<>> \in Seq(Message) /\ Blank \in View
  BY DEF Blank, View
<1>2. inbox \in [Clients -> Seq(Message)] /\ view \in [Clients -> View]
  BY <1>1 DEF Init
<1>3. QED BY <1>2 DEF Init, TypeOK

LEMMA StepType == TypeOK /\ [Next]_vars => TypeOK'
<1> SUFFICES ASSUME TypeOK, [Next]_vars PROVE TypeOK'
  OBVIOUS
<1>1. ASSUME NEW c \in Clients, Connect(c)
      PROVE  TypeOK'
  BY <1>1 DEF Connect, TypeOK
<1>2. ASSUME NEW c \in Clients, NEW name \in Names, AddPlayer(c, name)
      PROVE  TypeOK'
  <2>0. [name |-> name, clientId |-> c, isStarted |-> FALSE] \in Player
    BY DEF Player
  <2>1. players' \subseteq Player
    BY <1>2, <2>0 DEF AddPlayer, TypeOK
  <2>2. <<UpdatePlayers(players')>> \in Seq(Message)
    BY <2>1, MessagesLemma
  <2>3. Emit(connected, <<UpdatePlayers(players')>>)
    BY <1>2 DEF AddPlayer
  <2>4. QED BY <1>2, <2>1, <2>2, <2>3, EmitLemma DEF AddPlayer, TypeOK
<1>3. ASSUME NEW c \in Clients, RemovePlayer(c)
      PROVE  TypeOK'
  <2>1. players' \subseteq Player /\ noMorePlayers' \in BOOLEAN
    BY <1>3 DEF RemovePlayer, Without, TypeOK
  <2>2. PICK sent \in Seq(Message) : Emit(connected', sent)
    <3>1. UpdatePlayers(players') \in Message /\ NoMorePlayers(FALSE) \in Message
      BY <2>1, MessagesLemma
    <3>2. /\ <<NoMorePlayers(FALSE), UpdatePlayers(players')>> \in Seq(Message)
          /\ <<UpdatePlayers(players')>> \in Seq(Message)
      BY <3>1, TupleLemma
    <3>3. \/ Emit(connected', <<NoMorePlayers(FALSE), UpdatePlayers(players')>>)
          \/ Emit(connected', <<UpdatePlayers(players')>>)
      BY <1>3 DEF RemovePlayer
    <3>4. QED BY <3>2, <3>3
  <2>3. view' \in [Clients -> View]
    BY <1>3 DEF RemovePlayer, TypeOK, Blank, View
  <2>4. connected' \in SUBSET Clients
    BY <1>3 DEF RemovePlayer, TypeOK
  <2>5. QED BY <2>1, <2>2, <2>3, <2>4, EmitLemma DEF TypeOK
<1>4. ASSUME NEW c \in Clients, ClientStarted(c)
      PROVE  TypeOK'
  <2>1. players' \subseteq Player
    BY <1>4 DEF ClientStarted, Started, TypeOK, Player
  <2>2. PICK sent \in Seq(Message) : Emit(connected, sent)
    <3>1. NoMorePlayers(TRUE) \in Message /\ GameStarted \in Message
      BY MessagesLemma
    <3>2. /\ <<NoMorePlayers(TRUE), GameStarted>> \in Seq(Message)
          /\ <<NoMorePlayers(TRUE)>> \in Seq(Message)
      BY <3>1, TupleLemma
    <3>3. \/ Emit(connected, <<NoMorePlayers(TRUE), GameStarted>>)
          \/ Emit(connected, <<NoMorePlayers(TRUE)>>)
      BY <1>4 DEF ClientStarted
    <3>4. QED BY <3>2, <3>3
  <2>3. QED BY <1>4, <2>1, <2>2, EmitLemma DEF ClientStarted, TypeOK
<1>5. ASSUME NEW c \in Clients, NEW m \in Message, c \in connected, Reply(c, m),
             UNCHANGED <<players, noMorePlayers, connected, view>>
      PROVE  TypeOK'
  BY <1>5 DEF Reply, TypeOK
<1>6. ASSUME NEW c \in Clients, GetPlayers(c) \/ GetNoMorePlayers(c)
      PROVE  TypeOK'
  BY <1>5, <1>6, MessagesLemma DEF GetPlayers, GetNoMorePlayers, TypeOK
<1>7. ASSUME NEW c \in Clients, Receive(c)
      PROVE  TypeOK'
  <2>1. inbox[c] \in Seq(Message) /\ inbox[c] # <<>>
    BY <1>7 DEF Receive, TypeOK
  <2>2. Head(inbox[c]) \in Message /\ Tail(inbox[c]) \in Seq(Message)
    BY <2>1
  <2>3. view' \in [Clients -> View]
    BY <1>7, <2>2 DEF Receive, TypeOK, Message, View
  <2>4. QED BY <1>7, <2>1, <2>2, <2>3 DEF Receive, TypeOK
<1>8. CASE UNCHANGED vars
  BY <1>8 DEF vars, TypeOK
<1>9. QED BY <1>1, <1>2, <1>3, <1>4, <1>6, <1>7, <1>8 DEF Next

THEOREM TypeCorrect == Spec => []TypeOK
BY InitType, StepType, PTL DEF Spec

\* A new socket knows nothing, although an earlier page used its place.
BlankUnlessConnected == \A c \in Clients \ connected : view[c] = Blank

Pages == TypeOK /\ BlankUnlessConnected /\ PagesCatchUp

LEMMA InitPages == Init => Pages
BY InitType DEF Init, Pages, BlankUnlessConnected, PagesCatchUp

LEMMA SplitLemma ==
    ASSUME NEW queue \in Seq(Message), NEW a \in Message, NEW b \in Message
    PROVE  queue \o <<a>> \in Seq(Message) /\ queue \o <<a, b>> = (queue \o <<a>>) \o <<b>>
<1>1. <<a>> \in Seq(Message) /\ <<b>> \in Seq(Message)
  BY TupleLemma
<1>2. <<a>> \o <<b>> = <<a, b>>
  <2>1. <<a>> \o <<b>> \in Seq(Message) /\ <<a, b>> \in Seq(Message)
    BY <1>1, TupleLemma
  <2>2. Len(<<a>> \o <<b>>) = 2 /\ Len(<<a, b>>) = 2
    BY <1>1
  <2>3. \A i \in 1 .. 2 : (<<a>> \o <<b>>)[i] = <<a, b>>[i]
    BY <1>1, ConcatProperties
  <2>4. QED BY <2>1, <2>2, <2>3, SeqEqual
<1>3. (queue \o <<a>>) \o <<b>> = queue \o (<<a>> \o <<b>>)
  BY <1>1, ConcatAssociative
<1>4. queue \o <<a>> \in Seq(Message)
  BY <1>1
<1>5. QED BY <1>2, <1>3, <1>4

LEMMA TwoLemma ==
    ASSUME NEW queue \in Seq(Message), NEW a \in Message, NEW b \in Message,
           NEW last, NEW event, NEW value,
           \/ b.event = event /\ b.value = value
           \/ b.event # event /\ a.event = event /\ a.value = value
    PROVE  WillKnow(queue \o <<a, b>>, last, event, value)
<1>1. queue \o <<a>> \in Seq(Message) /\ queue \o <<a, b>> = (queue \o <<a>>) \o <<b>>
  BY SplitLemma
<1>2. CASE b.event = event /\ b.value = value
  BY <1>1, <1>2, AppendLemma
<1>3. CASE b.event # event /\ a.event = event /\ a.value = value
  <2>1. WillKnow(queue \o <<a>>, last, event, value)
    BY <1>3, AppendLemma
  <2>2. QED BY <1>1, <1>3, <2>1, AppendLemma
<1>4. QED BY <1>2, <1>3

\* Every handler tells each page the new values of what it changed, and nothing
\* that is not so.
LEMMA StepPages == Pages /\ [Next]_vars => Pages'
<1> SUFFICES ASSUME Pages, [Next]_vars PROVE BlankUnlessConnected' /\ PagesCatchUp'
  BY StepType DEF Pages
<1> DEFINE Told(c) ==
             /\ WillKnow(inbox[c], view[c].updatePlayers, "updatePlayers", NamesOf(players))
             /\ WillKnow(inbox[c], view[c].noMorePlayers, "noMorePlayers", noMorePlayers)
<1>1. /\ TypeOK /\ BlankUnlessConnected /\ TypeOK' /\ connected \subseteq Clients
      /\ \A c \in connected : Told(c) /\ inbox[c] \in Seq(Message)
      /\ (\A c \in connected' : Told(c)') => PagesCatchUp'
  BY StepType DEF Pages, PagesCatchUp, TypeOK
<1> HIDE DEF Told
<1>2. ASSUME NEW c \in Clients, Connect(c)
      PROVE  BlankUnlessConnected' /\ PagesCatchUp'
  <2>1. /\ connected' = connected \cup {c} /\ c \notin connected
        /\ UNCHANGED <<players, noMorePlayers, inbox, view>>
    BY <1>2 DEF Connect
  <2>2. inbox[c] = <<>> /\ view[c] = Blank
    BY <1>1, <2>1 DEF TypeOK, BlankUnlessConnected
  <2>3. Told(c)'
    BY <2>1, <2>2 DEF Told, WillKnow, Blank
  <2>4. \A d \in connected : Told(d)'
    BY <1>1, <2>1 DEF Told
  <2>5. QED BY <1>1, <2>1, <2>3, <2>4 DEF BlankUnlessConnected
<1>3. ASSUME NEW c \in Clients, NEW name \in Names, AddPlayer(c, name)
      PROVE  BlankUnlessConnected' /\ PagesCatchUp'
  <2> DEFINE m == UpdatePlayers(players')
  <2>1. /\ UNCHANGED <<noMorePlayers, connected, view>>
        /\ \A d \in connected : inbox'[d] = inbox[d] \o <<m>>
    BY <1>1, <1>3 DEF AddPlayer, Emit, TypeOK
  <2>2. /\ m \in Message /\ m.event = "updatePlayers" /\ m.value = NamesOf(players')
    BY <1>1, MessagesLemma DEF TypeOK, UpdatePlayers
  <2> HIDE DEF m
  <2>3. ASSUME NEW d \in connected PROVE Told(d)'
    <3>1. WillKnow(inbox[d] \o <<m>>, view[d].updatePlayers, "updatePlayers", NamesOf(players'))
      BY <1>1, <2>2, AppendLemma
    <3>2. WillKnow(inbox[d], view[d].noMorePlayers, "noMorePlayers", noMorePlayers)
      BY <1>1, <2>3 DEF Told
    <3>3. WillKnow(inbox[d] \o <<m>>, view[d].noMorePlayers, "noMorePlayers", noMorePlayers)
      BY <1>1, <2>2, <3>2, AppendLemma
    <3>4. QED BY <2>1, <3>1, <3>3 DEF Told
  <2>4. QED BY <1>1, <2>1, <2>3 DEF BlankUnlessConnected
<1>4. ASSUME NEW c \in Clients, RemovePlayer(c)
      PROVE  BlankUnlessConnected' /\ PagesCatchUp'
  <2> DEFINE m == UpdatePlayers(players')
             n == NoMorePlayers(FALSE)
  <2>1. /\ connected' = connected \ {c} /\ view' = [view EXCEPT ![c] = Blank]
        /\ view \in [Clients -> View]
    BY <1>1, <1>4 DEF RemovePlayer, TypeOK
  <2>2. \/ /\ noMorePlayers' = FALSE
           /\ \A d \in connected' : inbox'[d] = inbox[d] \o <<n, m>>
        \/ /\ UNCHANGED noMorePlayers
           /\ \A d \in connected' : inbox'[d] = inbox[d] \o <<m>>
    BY <1>1, <1>4 DEF RemovePlayer, Emit, TypeOK
  <2>3. /\ m \in Message /\ m.event = "updatePlayers" /\ m.value = NamesOf(players')
        /\ n \in Message /\ n.event = "noMorePlayers" /\ n.value = FALSE
    BY <1>1, MessagesLemma DEF TypeOK, UpdatePlayers, NoMorePlayers
  <2> HIDE DEF m, n
  <2>4. ASSUME NEW d \in connected' PROVE Told(d)'
    <3>1. d \in connected /\ view'[d] = view[d] /\ inbox[d] \in Seq(Message)
      BY <1>1, <2>1
    <3>2. CASE noMorePlayers' = FALSE /\ inbox'[d] = inbox[d] \o <<n, m>>
      <4>1. WillKnow(inbox[d] \o <<n, m>>, view[d].updatePlayers, "updatePlayers", NamesOf(players'))
        BY <2>3, <3>1, TwoLemma
      <4>2. WillKnow(inbox[d] \o <<n, m>>, view[d].noMorePlayers, "noMorePlayers", FALSE)
        BY <2>3, <3>1, TwoLemma
      <4>3. QED BY <3>1, <3>2, <4>1, <4>2 DEF Told
    <3>3. CASE UNCHANGED noMorePlayers /\ inbox'[d] = inbox[d] \o <<m>>
      <4>1. WillKnow(inbox[d] \o <<m>>, view[d].updatePlayers, "updatePlayers", NamesOf(players'))
        BY <2>3, <3>1, AppendLemma
      <4>2. WillKnow(inbox[d], view[d].noMorePlayers, "noMorePlayers", noMorePlayers)
        BY <1>1, <3>1 DEF Told
      <4>3. WillKnow(inbox[d] \o <<m>>, view[d].noMorePlayers, "noMorePlayers", noMorePlayers)
        BY <2>3, <3>1, <4>2, AppendLemma
      <4>4. QED BY <3>1, <3>3, <4>1, <4>3 DEF Told
    <3>4. QED BY <2>2, <2>4, <3>2, <3>3
  <2>5. BlankUnlessConnected'
    BY <1>1, <2>1 DEF BlankUnlessConnected
  <2>6. QED BY <1>1, <2>4, <2>5
<1>5. ASSUME NEW c \in Clients, ClientStarted(c)
      PROVE  BlankUnlessConnected' /\ PagesCatchUp'
  <2> DEFINE n == NoMorePlayers(TRUE)
             g == GameStarted
  <2>1. /\ UNCHANGED <<connected, view>> /\ noMorePlayers' = TRUE
        /\ \/ \A d \in connected : inbox'[d] = inbox[d] \o <<n, g>>
           \/ \A d \in connected : inbox'[d] = inbox[d] \o <<n>>
    <3>1. /\ UNCHANGED <<connected, view>> /\ noMorePlayers' = TRUE
          /\ Emit(connected, <<n, g>>) \/ Emit(connected, <<n>>)
      BY <1>5 DEF ClientStarted
    <3> HIDE DEF n, g
    <3>2. QED BY <1>1, <3>1 DEF Emit
  <2>2. NamesOf(players') = NamesOf(players)
    <3> DEFINE Begun(p) == IF p.clientId = c THEN [p EXCEPT !.isStarted = TRUE] ELSE p
    <3>1. \A p \in players : Begun(p).name = p.name
      BY <1>1 DEF TypeOK, Player
    <3>2. players' = {Begun(p) : p \in players}
      BY <1>5 DEF ClientStarted, Started
    <3> HIDE DEF Begun
    <3>3. QED BY <3>1, <3>2 DEF NamesOf
  <2>3. /\ n \in Message /\ n.event = "noMorePlayers" /\ n.value = TRUE
        /\ g \in Message /\ g.event = "gameStarted"
    BY MessagesLemma DEF NoMorePlayers, GameStarted
  <2> HIDE DEF n, g
  <2>4. ASSUME NEW d \in connected PROVE Told(d)'
    <3>1. WillKnow(inbox[d], view[d].updatePlayers, "updatePlayers", NamesOf(players))
      BY <1>1 DEF Told
    <3>2. WillKnow(inbox[d] \o <<n>>, view[d].updatePlayers, "updatePlayers", NamesOf(players))
      BY <1>1, <2>3, <3>1, AppendLemma
    <3>3. WillKnow(inbox[d] \o <<n>>, view[d].noMorePlayers, "noMorePlayers", TRUE)
      BY <1>1, <2>3, AppendLemma
    <3>4. CASE inbox'[d] = inbox[d] \o <<n, g>>
      <4>1. /\ inbox[d] \o <<n>> \in Seq(Message)
            /\ inbox[d] \o <<n, g>> = (inbox[d] \o <<n>>) \o <<g>>
        BY <1>1, <2>3, SplitLemma
      <4>2. /\ WillKnow(inbox'[d], view[d].updatePlayers, "updatePlayers", NamesOf(players))
            /\ WillKnow(inbox'[d], view[d].noMorePlayers, "noMorePlayers", TRUE)
        BY <2>3, <3>2, <3>3, <3>4, <4>1, AppendLemma
      <4>3. QED BY <2>1, <2>2, <4>2 DEF Told
    <3>5. CASE inbox'[d] = inbox[d] \o <<n>>
      BY <2>1, <2>2, <3>2, <3>3, <3>5 DEF Told
    <3>6. QED BY <2>1, <3>4, <3>5
  <2>5. QED BY <1>1, <2>1, <2>4 DEF BlankUnlessConnected
<1>6. ASSUME NEW c \in Clients, NEW m \in Message, c \in connected, Reply(c, m),
             UNCHANGED <<players, noMorePlayers, connected, view>>,
             \/ m.event = "updatePlayers" /\ m.value = NamesOf(players)
             \/ m.event = "noMorePlayers" /\ m.value = noMorePlayers
      PROVE  BlankUnlessConnected' /\ PagesCatchUp'
  <2>1. /\ UNCHANGED <<players, noMorePlayers, connected, view>>
        /\ c \in connected /\ Reply(c, m)
        /\ \/ m.event = "updatePlayers" /\ m.value = NamesOf(players)
           \/ m.event = "noMorePlayers" /\ m.value = noMorePlayers
    BY <1>6
  <2>2. /\ inbox'[c] = inbox[c] \o <<m>>
        /\ \A d \in connected \ {c} : inbox'[d] = inbox[d]
    BY <1>1, <2>1 DEF Reply, TypeOK
  <2>3. Told(c)'
    <3>1. /\ WillKnow(inbox[c], view[c].updatePlayers, "updatePlayers", NamesOf(players))
          /\ WillKnow(inbox[c], view[c].noMorePlayers, "noMorePlayers", noMorePlayers)
      BY <1>1, <2>1 DEF Told
    <3>2. WillKnow(inbox[c] \o <<m>>, view[c].updatePlayers, "updatePlayers", NamesOf(players))
      BY <1>1, <2>1, <3>1, AppendLemma
    <3>3. WillKnow(inbox[c] \o <<m>>, view[c].noMorePlayers, "noMorePlayers", noMorePlayers)
      BY <1>1, <2>1, <3>1, AppendLemma
    <3>4. QED BY <2>1, <2>2, <3>2, <3>3 DEF Told
  <2>4. \A d \in connected \ {c} : Told(d)'
    BY <1>1, <2>1, <2>2 DEF Told
  <2>5. QED BY <1>1, <2>1, <2>3, <2>4 DEF BlankUnlessConnected
<1>a. ASSUME NEW c \in Clients, GetPlayers(c)
      PROVE  BlankUnlessConnected' /\ PagesCatchUp'
  <2>1. /\ UpdatePlayers(players) \in Message
        /\ UpdatePlayers(players).event = "updatePlayers"
        /\ UpdatePlayers(players).value = NamesOf(players)
    BY <1>1, MessagesLemma DEF TypeOK, UpdatePlayers
  <2>2. /\ c \in connected /\ Reply(c, UpdatePlayers(players))
        /\ UNCHANGED <<players, noMorePlayers, connected, view>>
    BY <1>a DEF GetPlayers
  <2>3. QED BY <1>6, <2>1, <2>2
<1>b. ASSUME NEW c \in Clients, GetNoMorePlayers(c)
      PROVE  BlankUnlessConnected' /\ PagesCatchUp'
  <2>1. /\ NoMorePlayers(noMorePlayers) \in Message
        /\ NoMorePlayers(noMorePlayers).event = "noMorePlayers"
        /\ NoMorePlayers(noMorePlayers).value = noMorePlayers
    BY <1>1, MessagesLemma DEF TypeOK, NoMorePlayers
  <2>2. /\ c \in connected /\ Reply(c, NoMorePlayers(noMorePlayers))
        /\ UNCHANGED <<players, noMorePlayers, connected, view>>
    BY <1>b DEF GetNoMorePlayers
  <2>3. QED BY <1>6, <2>1, <2>2
<1>7. ASSUME NEW c \in Clients, Receive(c)
      PROVE  BlankUnlessConnected' /\ PagesCatchUp'
  <2>1. /\ c \in connected /\ inbox[c] # <<>> /\ inbox[c] \in Seq(Message)
        /\ UNCHANGED <<players, noMorePlayers, connected>>
        /\ inbox'[c] = Tail(inbox[c])
        /\ \A d \in Clients \ {c} : inbox'[d] = inbox[d] /\ view'[d] = view[d]
    BY <1>1, <1>7 DEF Receive, TypeOK
  <2> DEFINE m == Head(inbox[c])
  <2>2. m \in Message
    BY <2>1
  <2>3. /\ view'[c].updatePlayers =
              IF m.event = "updatePlayers" THEN m.value ELSE view[c].updatePlayers
        /\ view'[c].noMorePlayers =
              IF m.event = "noMorePlayers" THEN m.value ELSE view[c].noMorePlayers
    BY <1>1, <1>7, <2>2 DEF Receive, TypeOK, View, Message
  <2>4. Told(c)'
    <3>1. /\ WillKnow(inbox[c], view[c].updatePlayers, "updatePlayers", NamesOf(players))
          /\ WillKnow(inbox[c], view[c].noMorePlayers, "noMorePlayers", noMorePlayers)
      BY <1>1, <2>1 DEF Told
    <3>2. /\ WillKnow(inbox'[c], view'[c].updatePlayers, "updatePlayers", NamesOf(players))
          /\ WillKnow(inbox'[c], view'[c].noMorePlayers, "noMorePlayers", noMorePlayers)
      BY <2>1, <2>3, <3>1, TailLemma
    <3>3. QED BY <2>1, <3>2 DEF Told
  <2>5. \A d \in connected \ {c} : Told(d)'
    BY <1>1, <2>1 DEF Told
  <2>6. BlankUnlessConnected'
    BY <1>1, <2>1 DEF BlankUnlessConnected
  <2>7. QED BY <1>1, <2>1, <2>4, <2>5, <2>6
<1>8. CASE UNCHANGED vars
  BY <1>1, <1>8 DEF vars, Told, BlankUnlessConnected
<1>9. QED BY <1>2, <1>3, <1>4, <1>5, <1>a, <1>b, <1>7, <1>8 DEF Next

\* However late a page reads what it is sent, it comes to know the server's list
\* and state (the emits of addPlayer, removePlayer and clientStarted).
THEOREM PagesKnow == Spec => []PagesCatchUp
<1>1. Pages => PagesCatchUp
  BY DEF Pages
<1>2. QED BY <1>1, InitPages, StepPages, PTL DEF Spec
===============================================================================
