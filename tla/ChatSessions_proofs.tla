-------------------------- MODULE ChatSessions_proofs --------------------------
(* The Map of chats is a least-recently-used cache: the place of a chat in the *)
(* Map agrees with its age, so the entry that store() drops is the oldest.     *)
(* Whatever streams overlap, every history is a dialogue.  And when the        *)
(* frontend waits, no answer is lost: a stream has read all that its chat has  *)
(* been told, so what it stores keeps it.                                      *)
EXTENDS MCChatSessions, FiniteSetTheorems, SequenceTheorems, WellFoundedInduction, TLAPS

\* The places of the chats are distinct, and a chat that comes later in the Map
\* was used later.
InsertionOrder(m, n) ==
    /\ \A s \in Present(m) : m[s].place <= n
    /\ \A r, s \in Present(m) : r # s =>
        \/ m[r].place < m[s].place /\ m[s].idle <= m[r].idle
        \/ m[s].place < m[r].place /\ m[r].idle <= m[s].idle

\* A summary replaces messages that the stream has.
SummariesFit ==
    \A q \in Questions : Running(q) /\ streams[q].replaced # None =>
        streams[q].replaced \in 1 .. Len(streams[q].history)

Inv == TypeOK /\ SummariesFit /\ InsertionOrder(chats, inserted)

-------------------------------------------------------------------------------
(* Types.                                                                      *)

LEMMA ShortenedType ==
    ASSUME NEW h \in Seq(HistoryMessage), NEW k \in 1 .. Len(h)
    PROVE  Shortened(h, k) \in Seq(HistoryMessage)
<1>1. Len(h) \in Nat /\ \A i \in 1 .. Len(h) : h[i] \in HistoryMessage
  BY LenProperties, ElementOfSeq
<1>2. SubSeq(h, 1, k) \in Seq(HistoryMessage)
  BY <1>1, SubSeqProperties
<1>3. SubSeq(h, k + 1, Len(h)) \in Seq(HistoryMessage)
  BY <1>1, SubSeqProperties
<1>4. TextsOf(SubSeq(h, 1, k)) \in SUBSET Texts
  <2>1. \A i \in DOMAIN SubSeq(h, 1, k) : SubSeq(h, 1, k)[i] \in HistoryMessage
    BY <1>2, LenProperties, ElementOfSeq
  <2>2. QED BY <2>1 DEF TextsOf, HistoryMessage
<1>5. <<[role |-> "system", texts |-> TextsOf(SubSeq(h, 1, k))]>> \in Seq(HistoryMessage)
  BY <1>4 DEF HistoryMessage
<1>6. QED BY <1>3, <1>5, ConcatProperties DEF Shortened

LEMMA UpdatedType ==
    ASSUME TypeOK, SummariesFit, NEW q \in Questions, Running(q)
    PROVE  Updated(q) \in Seq(HistoryMessage)
<1>1. streams[q] \in Stream
  BY DEF TypeOK, Running
<1>2. Turn(q) \in Seq(HistoryMessage)
  BY DEF Turn, HistoryMessage, Texts
<1>3. streams[q].history \in Seq(HistoryMessage)
  BY <1>1 DEF Stream
<1>4. streams[q].replaced # None =>
        Shortened(streams[q].history, streams[q].replaced) \in Seq(HistoryMessage)
  BY <1>3, ShortenedType DEF SummariesFit
<1>5. QED BY <1>2, <1>3, <1>4, ConcatProperties DEF Updated

LEMMA HistoryType == ASSUME TypeOK, NEW s \in Sids PROVE HistoryOf(s) \in Seq(HistoryMessage)
BY EmptySeq DEF TypeOK, HistoryOf, Session

-------------------------------------------------------------------------------
(* What store() drops.                                                         *)

LEMMA PresentFinite ==
    ASSUME NEW m
    PROVE  IsFiniteSet(Present(m)) /\ Cardinality(Present(m)) \in Nat
<1>1. Present(m) \subseteq Sids
  BY DEF Present
<1>2. QED BY <1>1, BoundsAssumption, FS_Subset, FS_CardinalityType

\* With at most one chat too many, the loop drops the first one or none.
LEMMA DropsFirst ==
    ASSUME NEW m \in [Sids -> Session \cup {None}], NEW n \in Nat, InsertionOrder(m, n),
           Cardinality(Present(m)) <= MaxSessions + 1
    PROVE  /\ Cardinality(Kept(m)) <= MaxSessions
           /\ \A s \in Present(m) \ Kept(m) :
                /\ Cardinality(Kept(m)) = MaxSessions
                /\ \A r \in Kept(m) : m[r].idle <= m[s].idle
<1> DEFINE P == Present(m)
           Above(s) == {r \in P : m[r].place > m[s].place}
           N == Cardinality(P)
<1>1. /\ IsFiniteSet(P) /\ N \in Nat /\ N <= MaxSessions + 1
      /\ MaxSessions \in Nat /\ MaxSessions >= 1
  BY PresentFinite, BoundsAssumption
<1>2. \A s \in P : m[s].place \in Nat /\ m[s].idle \in Nat
  BY BoundsAssumption DEF Present, Session
<1>3. Kept(m) = {s \in P : Cardinality(Above(s)) < MaxSessions}
  BY DEF Kept
<1>4. CASE P = {}
  <2>1. Kept(m) = {}
    BY <1>3, <1>4
  <2>2. QED BY <1>1, <1>4, <2>1, FS_EmptySet
<1>5. CASE P # {}
  <2> DEFINE places == {m[s].place : s \in P}
  <2>1. PICK least \in places : \A n2 \in places : least <= n2
    <3>1. places \in SUBSET Nat /\ places # {}
      BY <1>2, <1>5
    <3> HIDE DEF places
    <3> DEFINE R == {ss \in Nat \X Nat : ss[1] < ss[2]}
    <3>2. IsWellFoundedOn(R, Nat)
      BY NatLessThanWellFounded DEF OpToRel
    <3> HIDE DEF R
    <3>3. PICK least \in places : \A n2 \in places : <<n2, least>> \notin R
      BY <3>1, <3>2, WFMin, Zenon
    <3>4. \A n2 \in places : least \in Nat /\ n2 \in Nat /\ ~(n2 < least)
      BY <3>1, <3>3 DEF R
    <3>5. QED BY <3>4
  <2>2. PICK first \in P : m[first].place = least
    OBVIOUS
  <2>3. \A r \in P \ {first} : m[first].place < m[r].place /\ m[r].idle <= m[first].idle
    <3> SUFFICES ASSUME NEW r \in P \ {first}
                 PROVE  m[first].place < m[r].place /\ m[r].idle <= m[first].idle
      OBVIOUS
    <3>1. m[first].place <= m[r].place
      BY <2>1, <2>2
    <3>2. QED BY <1>2, <3>1 DEF InsertionOrder
  <2>4. IsFiniteSet(P \ {first}) /\ Cardinality(P \ {first}) = N - 1
    BY <1>1, FS_RemoveElement
  <2>5. ASSUME NEW s \in P \ {first}
        PROVE  s \in Kept(m)
    <3>1. Above(s) \subseteq (P \ {first}) \ {s}
      BY <1>2, <2>3
    <3>2. /\ IsFiniteSet((P \ {first}) \ {s})
          /\ Cardinality((P \ {first}) \ {s}) = N - 2
      <4> DEFINE Q == P \ {first}
      <4>1. IsFiniteSet(Q) /\ s \in Q /\ Cardinality(Q) = N - 1
        BY <2>4
      <4> HIDE DEF Q
      <4>2. IsFiniteSet(Q \ {s}) /\ Cardinality(Q \ {s}) = Cardinality(Q) - 1
        BY <4>1, FS_RemoveElement
      <4> HIDE DEF N
      <4>3. Cardinality(Q \ {s}) = N - 2
        BY <1>1, <4>1, <4>2
      <4>4. QED BY <4>2, <4>3 DEF Q
    <3>3. Cardinality(Above(s)) <= N - 2 /\ Cardinality(Above(s)) \in Nat
      BY <3>1, <3>2, FS_Subset, FS_CardinalityType
    <3>4. QED BY <1>1, <1>3, <3>3
  <2>6. Above(first) = P \ {first}
    BY <1>2, <2>3
  <2>7. CASE N <= MaxSessions
    <3>1. first \in Kept(m)
      BY <1>1, <1>3, <2>4, <2>6, <2>7
    <3>2. Kept(m) = P
      BY <1>3, <2>5, <3>1
    <3>3. QED BY <2>7, <3>2
  <2>8. CASE N = MaxSessions + 1
    <3>1. first \notin Kept(m)
      BY <1>1, <1>3, <2>4, <2>6, <2>8
    <3>2. Kept(m) = P \ {first}
      BY <1>3, <2>5, <3>1
    <3>3. Cardinality(Kept(m)) = MaxSessions
      BY <1>1, <2>4, <2>8, <3>2
    <3>4. Present(m) \ Kept(m) = {first}
      BY <3>2
    <3>5. \A r \in Kept(m) : m[r].idle <= m[first].idle
      BY <2>3, <3>2
    <3>6. Cardinality(Kept(m)) <= MaxSessions
      BY <1>1, <3>3
    <3>7. QED BY <3>3, <3>4, <3>5, <3>6
  <2>9. QED BY <1>1, <2>7, <2>8
<1>6. QED BY <1>4, <1>5

\* The Map after set(), before the loop.
LEMMA InsertedOrder ==
    ASSUME Inv, NEW s \in Sids, NEW h \in Seq(HistoryMessage)
    PROVE  /\ Inserted(s, h) \in [Sids -> Session \cup {None}]
           /\ InsertionOrder(Inserted(s, h), inserted + 1)
           /\ Cardinality(Present(Inserted(s, h))) <= MaxSessions + 1
           /\ \A r \in Present(chats) :
                r \in Present(Inserted(s, h)) /\ (r # s => Inserted(s, h)[r] = chats[r])
<1> DEFINE m == Inserted(s, h)
           new == [history |-> h, idle |-> 0, place |-> inserted + 1]
<1>1. /\ inserted \in Nat /\ chats \in [Sids -> Session \cup {None}]
      /\ MaxSessions \in Nat /\ TTL \in Nat
      /\ Cardinality(Present(chats)) <= MaxSessions
  BY BoundsAssumption DEF Inv, TypeOK
<1>2. new \in Session /\ new.idle = 0 /\ new.place = inserted + 1 /\ new # None
  <2>1. new \in Session
    BY <1>1 DEF Session
  <2>2. QED BY <2>1, NoneAssumption
<1>3. m[s] = new /\ \A r \in Sids \ {s} : m[r] = chats[r]
  BY <1>1 DEF Inserted
<1>4. m \in [Sids -> Session \cup {None}]
  BY <1>1, <1>2 DEF Inserted
<1> HIDE DEF m, new
<1>5. Present(m) = Present(chats) \cup {s}
  BY <1>2, <1>3 DEF Present
<1>6. Cardinality(Present(m)) <= MaxSessions + 1
  <2>1. Cardinality(Present(chats)) \in Nat
    BY PresentFinite
  <2>4. Cardinality(Present(chats) \cup {s}) \in
            {Cardinality(Present(chats)), Cardinality(Present(chats)) + 1}
    BY PresentFinite, FS_AddElement, Zenon
  <2>2. Cardinality(Present(m)) \in Nat
    BY PresentFinite
  <2>3. QED BY <1>1, <1>5, <2>1, <2>2, <2>4
<1>7. \A r \in Present(chats) : chats[r].idle \in Nat /\ chats[r].place \in Nat
  BY <1>1 DEF Present, Session
<1>8. InsertionOrder(m, inserted + 1)
  <2>1. \A r \in Present(chats) : chats[r].place <= inserted
    BY DEF Inv, InsertionOrder
  <2>2. \A r \in Present(m) : m[r].place <= inserted + 1
    BY <1>1, <1>2, <1>3, <1>5, <1>7, <2>1 DEF Present
  <2>3. ASSUME NEW p \in Present(m), NEW r \in Present(m), p # r
        PROVE  \/ m[p].place < m[r].place /\ m[r].idle <= m[p].idle
               \/ m[r].place < m[p].place /\ m[p].idle <= m[r].idle
    <3>1. p \in Sids /\ r \in Sids
      BY DEF Present
    <3>2. CASE p = s
      BY <1>1, <1>2, <1>3, <1>5, <1>7, <2>1, <2>3, <3>1, <3>2
    <3>3. CASE r = s
      BY <1>1, <1>2, <1>3, <1>5, <1>7, <2>1, <2>3, <3>1, <3>3
    <3>4. CASE p # s /\ r # s
      BY <1>3, <1>5, <2>3, <3>1, <3>4 DEF Inv, InsertionOrder
    <3>5. QED BY <3>2, <3>3, <3>4
  <2>4. QED BY <2>2, <2>3 DEF InsertionOrder
<1>9. QED BY <1>3, <1>4, <1>5, <1>6, <1>8 DEF m, Present

\* store() keeps the Map within its limit and in order, and drops the oldest.
LEMMA StoreStep ==
    ASSUME Inv, NEW s \in Sids, NEW h \in Seq(HistoryMessage), Store(s, h)
    PROVE  /\ chats' \in [Sids -> Session \cup {None}] /\ inserted' \in Nat
           /\ Cardinality(Present(chats')) <= MaxSessions
           /\ InsertionOrder(chats', inserted')
           /\ \A r \in Present(chats) : chats'[r] = None =>
                /\ Cardinality(Present(chats')) = MaxSessions
                /\ \A p \in Present(chats') : chats'[p].idle <= chats[r].idle
<1> DEFINE m == Inserted(s, h)
<1>1. /\ m \in [Sids -> Session \cup {None}]
      /\ InsertionOrder(m, inserted + 1)
      /\ Cardinality(Present(m)) <= MaxSessions + 1
      /\ \A r \in Present(chats) : r \in Present(m) /\ (r # s => m[r] = chats[r])
  BY InsertedOrder
<1>2. /\ chats' = [r \in Sids |-> IF r \in Kept(m) THEN m[r] ELSE None]
      /\ inserted' = inserted + 1 /\ inserted \in Nat
  BY DEF Store, Inv, TypeOK
<1>3. m[s].idle = 0 /\ chats \in [Sids -> Session \cup {None}]
  BY DEF Inserted, Inv, TypeOK
<1> HIDE DEF m
<1>4. Kept(m) \subseteq Present(m) /\ Present(m) \subseteq Sids
  BY DEF Kept, Present
<1>5. Present(chats') = Kept(m)
  BY <1>2, <1>4 DEF Present
<1>6. \A r \in Kept(m) : chats'[r] = m[r]
  BY <1>2, <1>4
<1>7. /\ Cardinality(Kept(m)) <= MaxSessions
      /\ \A r \in Present(m) \ Kept(m) :
            /\ Cardinality(Kept(m)) = MaxSessions
            /\ \A p \in Kept(m) : m[p].idle <= m[r].idle
  <2>1. inserted + 1 \in Nat
    BY <1>2
  <2>2. QED BY <1>1, <2>1, DropsFirst
<1>8. chats' \in [Sids -> Session \cup {None}]
  BY <1>1, <1>2
<1>9. InsertionOrder(chats', inserted')
  <2>1. InsertionOrder(m, inserted')
    BY <1>1, <1>2
  <2>2. \A r \in Present(chats') : r \in Present(m) /\ chats'[r] = m[r]
    BY <1>4, <1>5, <1>6
  <2>3. QED BY <2>1, <2>2 DEF InsertionOrder
<1>10. ASSUME NEW r \in Present(chats), chats'[r] = None
       PROVE  /\ Cardinality(Present(chats')) = MaxSessions
              /\ \A p \in Present(chats') : chats'[p].idle <= chats[r].idle
  <2>1. r \in Present(m) \ Kept(m)
    BY <1>1, <1>2, <1>4, <1>5, <1>10 DEF Present
  <2>2. \A p \in Kept(m) : m[p].idle <= m[r].idle
    BY <1>7, <2>1
  <2>3. m[r].idle <= chats[r].idle
    <3>1. chats[r].idle \in Nat
      BY <1>3, BoundsAssumption DEF Present, Session
    <3>2. CASE r = s
      BY <1>3, <3>1, <3>2
    <3>3. CASE r # s
      BY <1>1, <3>1, <3>3
    <3>4. QED BY <3>2, <3>3
  <2>4. \A p \in Kept(m) : m[p].idle \in Nat
    BY <1>1, <1>4, BoundsAssumption DEF Present, Session
  <2>5. m[r].idle \in Nat /\ chats[r].idle \in Nat
    BY <1>1, <1>3, <2>1, BoundsAssumption DEF Present, Session
  <2>6. \A p \in Kept(m) : m[p].idle <= chats[r].idle
    BY <2>2, <2>3, <2>4, <2>5
  <2>7. QED BY <1>5, <1>6, <1>7, <2>1, <2>6
<1>11. inserted' \in Nat /\ Cardinality(Present(chats')) <= MaxSessions
  BY <1>2, <1>5, <1>7
<1>12. QED BY <1>8, <1>9, <1>10, <1>11

-------------------------------------------------------------------------------
(* The invariant.                                                              *)

\* Chats that only disappear leave the rest of the Map as it was.
LEMMA RemovalStep ==
    ASSUME Inv, inserted' = inserted, chats' \in [Sids -> Session \cup {None}],
           \A s \in Sids : chats'[s] = None \/ chats'[s] = chats[s]
    PROVE  Cardinality(Present(chats')) <= MaxSessions /\ InsertionOrder(chats', inserted')
<1>1. \A s \in Present(chats') : s \in Present(chats) /\ chats'[s] = chats[s]
  BY DEF Present
<1>2. Present(chats') \subseteq Present(chats)
  BY <1>1
<1>3. /\ Cardinality(Present(chats')) <= Cardinality(Present(chats))
      /\ Cardinality(Present(chats')) \in Nat /\ Cardinality(Present(chats)) \in Nat
  BY <1>2, PresentFinite, FS_Subset
<1>4. Cardinality(Present(chats)) <= MaxSessions /\ InsertionOrder(chats, inserted)
  BY DEF Inv, TypeOK
<1>5. Cardinality(Present(chats')) <= MaxSessions
  BY <1>3, <1>4, BoundsAssumption
<1>6. QED BY <1>1, <1>4, <1>5 DEF InsertionOrder

\* Age grows for all chats alike, up to the first value that expires.
LEMMA TickStep ==
    ASSUME Inv, Tick
    PROVE  /\ chats' \in [Sids -> Session \cup {None}]
           /\ Present(chats') = Present(chats)
           /\ InsertionOrder(chats', inserted')
<1>1. /\ chats \in [Sids -> Session \cup {None}] /\ inserted' = inserted /\ TTL \in Nat
      /\ chats' = [s \in Sids |->
                    IF chats[s] # None /\ chats[s].idle <= TTL
                    THEN [chats[s] EXCEPT !.idle = chats[s].idle + 1]
                    ELSE chats[s]]
  BY BoundsAssumption DEF Tick, Inv, TypeOK
<1>2. ASSUME NEW s \in Present(chats)
      PROVE  /\ s \in Sids /\ chats'[s] \in Session /\ chats'[s] # None
             /\ chats'[s].place = chats[s].place
             /\ chats[s].place \in Nat /\ chats[s].idle \in 0 .. TTL + 1
             /\ chats'[s].idle = IF chats[s].idle <= TTL THEN chats[s].idle + 1
                                                         ELSE chats[s].idle
  <2>1. s \in Sids /\ chats[s] # None /\ chats[s] \in Session
    BY <1>1 DEF Present
  <2>2. CASE chats[s].idle <= TTL
    <3>1. chats'[s] = [chats[s] EXCEPT !.idle = chats[s].idle + 1]
      BY <1>1, <2>1, <2>2
    <3>2. chats'[s] \in Session
      BY <1>1, <2>1, <2>2, <3>1 DEF Session
    <3>3. QED BY <2>1, <2>2, <3>1, <3>2, NoneAssumption DEF Session
  <2>3. CASE ~(chats[s].idle <= TTL)
    BY <1>1, <2>1, <2>3 DEF Session
  <2>4. QED BY <2>2, <2>3
<1>3. \A s \in Sids \ Present(chats) : chats'[s] = None
  BY <1>1 DEF Present
<1>4. Present(chats') = Present(chats)
  BY <1>2, <1>3 DEF Present
<1>5. chats' \in [Sids -> Session \cup {None}]
  BY <1>1, <1>2, <1>3
<1>6. InsertionOrder(chats, inserted)
  BY DEF Inv
<1>7. InsertionOrder(chats', inserted')
  <2>1. \A s \in Present(chats') : chats'[s].place <= inserted'
    BY <1>1, <1>2, <1>4, <1>6 DEF InsertionOrder
  <2>2. ASSUME NEW r \in Present(chats), NEW s \in Present(chats), r # s
        PROVE  \/ chats'[r].place < chats'[s].place /\ chats'[s].idle <= chats'[r].idle
               \/ chats'[s].place < chats'[r].place /\ chats'[r].idle <= chats'[s].idle
    <3>1. \/ chats[r].place < chats[s].place /\ chats[s].idle <= chats[r].idle
          \/ chats[s].place < chats[r].place /\ chats[r].idle <= chats[s].idle
      BY <1>6, <2>2 DEF InsertionOrder
    <3>2. /\ chats'[r].place = chats[r].place /\ chats'[s].place = chats[s].place
          /\ chats[r].idle \in 0 .. TTL + 1 /\ chats[s].idle \in 0 .. TTL + 1
          /\ chats'[r].idle = IF chats[r].idle <= TTL THEN chats[r].idle + 1 ELSE chats[r].idle
          /\ chats'[s].idle = IF chats[s].idle <= TTL THEN chats[s].idle + 1 ELSE chats[s].idle
      BY <1>2
    <3>3. chats[s].idle <= chats[r].idle => chats'[s].idle <= chats'[r].idle
      BY <1>1, <3>2
    <3>4. chats[r].idle <= chats[s].idle => chats'[r].idle <= chats'[s].idle
      BY <1>1, <3>2
    <3>5. QED BY <3>1, <3>2, <3>3, <3>4
  <2>3. QED BY <1>4, <2>1, <2>2 DEF InsertionOrder
<1>8. QED BY <1>4, <1>5, <1>7

\* The streams of the questions, after a step of one of them.
LEMMA StreamsStep ==
    ASSUME Inv, NEW q \in Questions, NEW st \in Stream,
           streams' = [streams EXCEPT ![q] = st],
           st.phase # "done" /\ st.replaced # None => st.replaced \in 1 .. Len(st.history)
    PROVE  streams' \in [Questions -> Stream \cup {None}] /\ SummariesFit'
<1>1. streams \in [Questions -> Stream \cup {None}] /\ SummariesFit
  BY DEF Inv, TypeOK
<1>2. streams'[q] = st /\ \A p \in Questions \ {q} : streams'[p] = streams[p]
  BY <1>1
<1>3. SummariesFit'
  BY <1>1, <1>2 DEF SummariesFit, Running
<1>4. QED BY <1>1, <1>3

LEMMA StepInv ==
    ASSUME Inv, [Next]_vars
    PROVE  /\ Inv'
           /\ \A s \in Present(chats) : chats'[s] = None =>
                \/ Reset(s)
                \/ chats[s].idle > TTL
                \/ /\ Cardinality(Present(chats')) = MaxSessions
                   /\ \A r \in Present(chats') : chats'[r].idle <= chats[s].idle
<1> DEFINE Goal == /\ Inv'
                   /\ \A s \in Present(chats) : chats'[s] = None =>
                        \/ Reset(s)
                        \/ chats[s].idle > TTL
                        \/ /\ Cardinality(Present(chats')) = MaxSessions
                           /\ \A r \in Present(chats') : chats'[r].idle <= chats[s].idle
<1>1. /\ chats \in [Sids -> Session \cup {None}] /\ inserted \in Nat
      /\ streams \in [Questions -> Stream \cup {None}] /\ SummariesFit
      /\ Cardinality(Present(chats)) <= MaxSessions
      /\ InsertionOrder(chats, inserted)
  BY DEF Inv, TypeOK
<1>2. ASSUME NEW q \in Questions, NEW st \in Stream,
             streams' = [streams EXCEPT ![q] = st], UNCHANGED <<chats, inserted>>,
             st.phase # "done" /\ st.replaced # None => st.replaced \in 1 .. Len(st.history)
      PROVE  Goal
  <2>1. streams' \in [Questions -> Stream \cup {None}] /\ SummariesFit'
    BY <1>2, StreamsStep
  <2>2. QED BY <1>1, <1>2, <2>1 DEF Inv, TypeOK, Present
<1>3. ASSUME NEW q \in Questions, NEW s \in Sids, Ask(q, s)
      PROVE  Goal
  <2> DEFINE st == [phase |-> "fetching", sid |-> s, history |-> HistoryOf(s),
                    answer |-> FALSE, replaced |-> None]
  <2>1. st \in Stream /\ st.replaced = None
    BY <1>1, HistoryType DEF Inv, Stream
  <2>2. streams' = [streams EXCEPT ![q] = st] /\ UNCHANGED <<chats, inserted>>
    BY <1>3 DEF Ask
  <2> HIDE DEF st
  <2>3. QED BY <1>2, <2>1, <2>2
<1>4. ASSUME NEW q \in Questions, Running(q)
      PROVE  streams[q] \in Stream /\
             (streams[q].replaced # None =>
                streams[q].replaced \in 1 .. Len(streams[q].history))
  BY <1>1, <1>4 DEF Running, SummariesFit
<1>5. ASSUME NEW q \in Questions, FetchFails(q) \/ FetchAnswers(q)
      PROVE  Goal
  <2>1. PICK ph \in {"open", "done"} :
            Running(q) /\ streams' = [streams EXCEPT ![q].phase = ph]
            /\ UNCHANGED <<chats, inserted>>
    BY <1>5 DEF FetchFails, FetchAnswers
  <2> DEFINE st == [streams[q] EXCEPT !.phase = ph]
  <2>2. /\ st \in Stream /\ streams' = [streams EXCEPT ![q] = st]
        /\ st.replaced # None => st.replaced \in 1 .. Len(st.history)
    BY <1>1, <1>4, <2>1 DEF Stream
  <2> HIDE DEF st
  <2>3. QED BY <1>2, <2>1, <2>2
<1>6. ASSUME NEW q \in Questions, Token(q)
      PROVE  Goal
  <2> DEFINE st == [streams[q] EXCEPT !.answer = TRUE]
  <2>1. Running(q) /\ UNCHANGED <<chats, inserted>>
        /\ streams' = [streams EXCEPT ![q].answer = TRUE]
    BY <1>6 DEF Token
  <2>2. /\ st \in Stream /\ streams' = [streams EXCEPT ![q] = st]
        /\ st.replaced # None => st.replaced \in 1 .. Len(st.history)
    BY <1>1, <1>4, <2>1 DEF Stream
  <2> HIDE DEF st
  <2>3. QED BY <1>2, <2>1, <2>2
<1>7. ASSUME NEW q \in Questions, NEW k \in 1 .. 2 * Cardinality(Questions), Summarised(q, k)
      PROVE  Goal
  <2> DEFINE st == [streams[q] EXCEPT !.replaced = k]
  <2>1. /\ Running(q) /\ UNCHANGED <<chats, inserted>>
        /\ streams' = [streams EXCEPT ![q].replaced = k]
        /\ k \in 1 .. Len(streams[q].history)
    BY <1>7 DEF Summarised
  <2>2. Len(streams[q].history) \in Nat
    BY <1>4, <2>1, LenProperties DEF Stream
  <2>3. /\ st \in Stream /\ streams' = [streams EXCEPT ![q] = st]
        /\ st.replaced # None => st.replaced \in 1 .. Len(st.history)
    BY <1>1, <1>4, <2>1, <2>2 DEF Stream
  <2> HIDE DEF st
  <2>4. QED BY <1>2, <2>1, <2>3
<1>8. ASSUME NEW q \in Questions, StreamEnds(q)
      PROVE  Goal
  <2> DEFINE st == [streams[q] EXCEPT !.phase = "done"]
  <2>1. /\ Running(q) /\ streams' = [streams EXCEPT ![q].phase = "done"]
        /\ Store(streams[q].sid, Updated(q))
    BY <1>8 DEF StreamEnds
  <2>2. Updated(q) \in Seq(HistoryMessage)
    BY <2>1, UpdatedType DEF Inv
  <2>3. st \in Stream /\ streams[q].sid \in Sids /\ st.phase = "done"
        /\ streams' = [streams EXCEPT ![q] = st]
    BY <1>1, <1>4, <2>1 DEF Stream
  <2> HIDE DEF st
  <2>4. streams' \in [Questions -> Stream \cup {None}] /\ SummariesFit'
    BY <2>3, StreamsStep
  <2>5. /\ chats' \in [Sids -> Session \cup {None}] /\ inserted' \in Nat
        /\ Cardinality(Present(chats')) <= MaxSessions
        /\ InsertionOrder(chats', inserted')
        /\ \A r \in Present(chats) : chats'[r] = None =>
                /\ Cardinality(Present(chats')) = MaxSessions
                /\ \A p \in Present(chats') : chats'[p].idle <= chats[r].idle
    BY <2>1, <2>2, <2>3, StoreStep
  <2>6. Inv'
    BY <2>4, <2>5 DEF Inv, TypeOK
  <2>7. QED BY <2>5, <2>6
<1>9. ASSUME inserted' = inserted, streams' = streams,
             chats' \in [Sids -> Session \cup {None}],
             \A s \in Sids : chats'[s] = None \/ chats'[s] = chats[s]
      PROVE  Inv'
  <2>1. Cardinality(Present(chats')) <= MaxSessions /\ InsertionOrder(chats', inserted')
    BY <1>9, RemovalStep
  <2>2. SummariesFit'
    BY <1>1, <1>9 DEF SummariesFit, Running
  <2>3. QED BY <1>1, <1>9, <2>1, <2>2 DEF Inv, TypeOK
<1>10. ASSUME NEW s \in Sids, Reset(s)
       PROVE  Goal
  <2>1. /\ chats' = [chats EXCEPT ![s] = None] /\ inserted' = inserted /\ streams' = streams
    BY <1>10 DEF Reset
  <2>2. Inv'
    BY <1>1, <1>9, <2>1
  <2>3. \A r \in Present(chats) : chats'[r] = None => r = s
    BY <1>1, <2>1 DEF Present
  <2>4. QED BY <1>10, <2>2, <2>3
<1>11. CASE RemoveExpired
  <2>1. /\ chats' = [s \in Sids |-> IF Expired(s) THEN None ELSE chats[s]]
        /\ inserted' = inserted /\ streams' = streams
    BY <1>11 DEF RemoveExpired
  <2>2. Inv'
    BY <1>1, <1>9, <2>1
  <2>3. \A s \in Present(chats) : chats'[s] = None => chats[s].idle > TTL
    BY <2>1 DEF Present, Expired
  <2>4. QED BY <2>2, <2>3
<1>12. CASE Tick
  <2>1. /\ chats' \in [Sids -> Session \cup {None}]
        /\ Present(chats') = Present(chats)
        /\ InsertionOrder(chats', inserted')
    BY <1>12, TickStep
  <2>2. inserted' = inserted /\ streams' = streams
    BY <1>12 DEF Tick
  <2>3. SummariesFit'
    BY <1>1, <2>2 DEF SummariesFit, Running
  <2>4. Inv'
    BY <1>1, <2>1, <2>2, <2>3 DEF Inv, TypeOK
  <2>5. \A s \in Present(chats) : chats'[s] # None
    BY <2>1 DEF Present
  <2>6. QED BY <2>4, <2>5
<1>13. CASE UNCHANGED vars
  <2>1. chats' = chats /\ inserted' = inserted /\ streams' = streams
    BY <1>13 DEF vars
  <2>2. Inv'
    BY <1>1, <1>9, <2>1
  <2>3. QED BY <2>1, <2>2 DEF Present
<1>14. QED
  BY <1>3, <1>5, <1>6, <1>7, <1>8, <1>10, <1>11, <1>12, <1>13 DEF Next

LEMMA InitInv == Init => Inv
<1> SUFFICES ASSUME Init PROVE Inv
  OBVIOUS
<1>1. Present(chats) = {} /\ MaxSessions \in Nat
  BY BoundsAssumption DEF Init, Present
<1>2. Cardinality(Present(chats)) <= MaxSessions
  <2>1. Cardinality({}) = 0
    BY FS_EmptySet
  <2>2. QED BY <1>1, <2>1
<1>3. TypeOK
  BY <1>2 DEF Init, TypeOK
<1>4. SummariesFit
  BY DEF Init, SummariesFit, Running
<1>5. InsertionOrder(chats, inserted)
  BY <1>1 DEF InsertionOrder
<1>6. QED BY <1>3, <1>4, <1>5 DEF Inv

-------------------------------------------------------------------------------

\* The state is well typed, and there are never more chats than MAX_SESSIONS.
THEOREM TypeCorrect == Spec => []TypeOK
<1>1. Inv /\ [Next]_vars => Inv'
  BY StepInv
<1>2. Inv => TypeOK
  BY DEF Inv
<1>3. QED BY InitInv, <1>1, <1>2, PTL DEF Spec

\* Only a reset, age, or the lack of room makes a chat disappear, and then the
\* chat that was used longest ago.
THEOREM DropsTheOldest == Spec => OldestDroppedFirst
<1>1. Inv /\ [Next]_vars => Inv'
  BY StepInv
<1>2. Inv /\ [Next]_vars =>
        [\A s \in Present(chats) : chats'[s] = None =>
            \/ Reset(s)
            \/ chats[s].idle > TTL
            \/ /\ Cardinality(Present(chats')) = MaxSessions
               /\ \A r \in Present(chats') : chats'[r].idle <= chats[s].idle]_vars
  BY StepInv
<1>3. QED BY InitInv, <1>1, <1>2, PTL DEF Spec, OldestDroppedFirst

-------------------------------------------------------------------------------
(* Histories are dialogues.  A question that has not ended is in no history yet, *)
(* so its turn can be appended to whatever history its stream has read.          *)

TextsFor(q) == {<<q, "user">>, <<q, "assistant">>}

NotToldYet ==
    \A q \in Questions : streams[q] = None \/ Running(q) =>
        /\ \A s \in Present(chats) : TextsOf(chats[s].history) \cap TextsFor(q) = {}
        /\ \A p \in Questions : Running(p) => TextsOf(streams[p].history) \cap TextsFor(q) = {}

DialogueInv == Inv /\ HistoriesAreDialogues /\ NotToldYet

LEMMA NothingBetween == \A n, k, m \in Nat : k <= n /\ m = k + 1 /\ ~(m <= n) => n = k
OBVIOUS

\* The summary of the first messages with the other messages after it.
LEMMA ShortenedMessages ==
    ASSUME NEW h \in Seq(HistoryMessage), NEW k \in 1 .. Len(h)
    PROVE  LET g == Shortened(h, k)
           IN  /\ Len(h) \in Nat /\ Len(g) = Len(h) - k + 1
               /\ DOMAIN h = 1 .. Len(h) /\ DOMAIN g = 1 .. Len(g)
               /\ g[1].role = "system" /\ g[1].texts = UNION {h[i].texts : i \in 1 .. k}
               /\ \A i \in 2 .. Len(g) : g[i] = h[i + k - 1]
<1> DEFINE first == SubSeq(h, 1, k)
           rest == SubSeq(h, k + 1, Len(h))
           summary == [role |-> "system", texts |-> TextsOf(first)]
<1>1. /\ Len(h) \in Nat /\ DOMAIN h = 1 .. Len(h)
      /\ \A i \in 1 .. Len(h) : h[i] \in HistoryMessage
  BY LenProperties, ElementOfSeq
<1>2. /\ first \in Seq(HistoryMessage) /\ Len(first) = k
      /\ \A i \in 1 .. k : first[i] = h[i]
  BY <1>1, SubSeqProperties
<1>3. /\ rest \in Seq(HistoryMessage) /\ Len(rest) = Len(h) - k
      /\ \A i \in 1 .. Len(h) - k : rest[i] = h[k + i]
  <2>1. PICK m \in Nat : m = k + 1
    BY <1>1
  <2>2. m \in Int /\ Len(h) \in Int /\ \A i \in m .. Len(h) : h[i] \in HistoryMessage
    BY <1>1, <2>1
  <2>3. rest = SubSeq(h, m, Len(h))
    BY <2>1
  <2> HIDE DEF rest
  <2>4. /\ rest \in Seq(HistoryMessage)
        /\ m <= Len(h) => Len(rest) = Len(h) - m + 1
        /\ ~(m <= Len(h)) => Len(rest) = 0
        /\ \A i \in 1 .. Len(h) - m + 1 : rest[i] = h[m + i - 1]
    BY <2>2, <2>3, SubSeqProperties
  <2>5. k \in Nat /\ k <= Len(h)
    BY <1>1
  <2>6. Len(rest) = Len(h) - k
    <3>1. CASE m <= Len(h)
      <4>1. Len(h) - m + 1 = Len(h) - k
        BY <1>1, <2>1, <2>5
      <4>2. QED BY <2>4, <3>1, <4>1
    <3>2. CASE ~(m <= Len(h))
      <4>1. Len(h) = k
        BY <1>1, <2>1, <2>5, <3>2, NothingBetween
      <4>2. k - k = 0
        BY <2>5
      <4>3. QED BY <2>4, <3>2, <4>1, <4>2
    <3>3. QED BY <3>1, <3>2
  <2>7. \A i \in 1 .. Len(h) - k : i \in 1 .. Len(h) - m + 1 /\ m + i - 1 = k + i
    BY <1>1, <2>1, <2>5
  <2>8. QED BY <2>4, <2>6, <2>7
<1>4. DOMAIN first = 1 .. k
  BY <1>2, LenProperties
<1>5. TextsOf(first) = UNION {h[i].texts : i \in 1 .. k}
  BY <1>2, <1>4 DEF TextsOf
<1>6. summary \in HistoryMessage
  <2>1. TextsOf(first) \in SUBSET Texts
    BY <1>1, <1>5 DEF HistoryMessage
  <2>2. QED BY <2>1 DEF HistoryMessage
<1>7. <<summary>> \in Seq(HistoryMessage) /\ Len(<<summary>>) = 1 /\ <<summary>>[1] = summary
  BY <1>6
<1> HIDE DEF first, rest, summary
<1>8. /\ <<summary>> \o rest \in Seq(HistoryMessage)
      /\ Len(<<summary>> \o rest) = 1 + Len(rest)
      /\ \A i \in 1 .. 1 + Len(rest) :
            (<<summary>> \o rest)[i] = IF i <= 1 THEN <<summary>>[i] ELSE rest[i - 1]
  BY <1>3, <1>7, ConcatProperties
<1>9. Shortened(h, k) = <<summary>> \o rest
  BY DEF Shortened, summary, first, rest
<1>10. DOMAIN (<<summary>> \o rest) = 1 .. Len(<<summary>> \o rest)
  BY <1>8, LenProperties
<1>11. \A i \in 2 .. Len(h) - k + 1 : (<<summary>> \o rest)[i] = h[i + k - 1]
  BY <1>1, <1>3, <1>8
<1>12. /\ (<<summary>> \o rest)[1] = summary
       /\ summary.role = "system" /\ summary.texts = UNION {h[i].texts : i \in 1 .. k}
  BY <1>1, <1>3, <1>5, <1>7, <1>8 DEF summary
<1> DEFINE g == Shortened(h, k)
<1>13. /\ Len(g) = Len(h) - k + 1 /\ DOMAIN g = 1 .. Len(g)
       /\ g[1].role = "system" /\ g[1].texts = UNION {h[i].texts : i \in 1 .. k}
       /\ \A i \in 2 .. Len(g) : g[i] = h[i + k - 1]
  <2>1. Len(g) = Len(h) - k + 1
    BY <1>1, <1>3, <1>8, <1>9
  <2>2. \A i \in 2 .. Len(h) - k + 1 : g[i] = h[i + k - 1]
    BY <1>9, <1>11
  <2>3. DOMAIN g = 1 .. Len(g) /\ g[1] = summary
    BY <1>9, <1>10, <1>12
  <2> HIDE DEF g
  <2>4. QED BY <1>12, <2>1, <2>2, <2>3
<1>14. QED BY <1>1, <1>13

\* A summary keeps a dialogue a dialogue and tells nothing new.
LEMMA ShortenedDialogue ==
    ASSUME NEW h \in Seq(HistoryMessage), NEW k \in 1 .. Len(h), Dialogue(h)
    PROVE  /\ Dialogue(Shortened(h, k))
           /\ TextsOf(Shortened(h, k)) \subseteq TextsOf(h)
<1> DEFINE g == Shortened(h, k)
<1>1. /\ Len(h) \in Nat /\ Len(g) = Len(h) - k + 1
      /\ DOMAIN h = 1 .. Len(h) /\ DOMAIN g = 1 .. Len(g)
      /\ g[1].role = "system" /\ g[1].texts = UNION {h[i].texts : i \in 1 .. k}
      /\ \A i \in 2 .. Len(g) : g[i] = h[i + k - 1]
  BY ShortenedMessages
<1> HIDE DEF g
<1>2. \A i \in 2 .. Len(g) : i + k - 1 \in DOMAIN h /\ i + k - 1 > k
  BY <1>1
<1>3. \A i \in DOMAIN g : g[i].role = "system" => i = 1
  BY <1>1, <1>2 DEF Dialogue
<1>4. ASSUME NEW i \in DOMAIN g, g[i].role = "user"
      PROVE  /\ i < Len(g) /\ g[i + 1].role = "assistant"
             /\ \E q \in Questions : g[i].texts = {<<q, "user">>}
                                     /\ g[i + 1].texts = {<<q, "assistant">>}
  <2>1. i \in 2 .. Len(g)
    BY <1>1, <1>4
  <2>2. i + k - 1 \in DOMAIN h /\ h[i + k - 1] = g[i]
    BY <1>1, <1>2, <2>1
  <2>3. /\ i + k - 1 < Len(h) /\ h[i + k].role = "assistant"
        /\ \E q \in Questions : h[i + k - 1].texts = {<<q, "user">>}
                                /\ h[i + k].texts = {<<q, "assistant">>}
    <3>1. (i + k - 1) + 1 = i + k
      BY <1>1, <2>1
    <3>2. QED BY <1>4, <2>2, <3>1 DEF Dialogue
  <2>4. i < Len(g) /\ i + 1 \in 2 .. Len(g) /\ (i + 1) + k - 1 = i + k
    <3>1. i \in Nat /\ k \in Nat /\ Len(h) \in Nat /\ Len(g) = Len(h) - k + 1
      BY <1>1, <2>1
    <3>2. i + k - 1 < Len(h)
      BY <2>3
    <3>3. i < Len(g)
      BY <3>1, <3>2
    <3>4. QED BY <2>1, <3>1, <3>3
  <2>5. g[i + 1] = h[i + k]
    BY <1>1, <2>4
  <2>6. QED BY <2>2, <2>3, <2>4, <2>5
<1>5. ASSUME NEW i \in DOMAIN g, NEW j \in DOMAIN g, i # j
      PROVE  g[i].texts \cap g[j].texts = {}
  <2>1. \A m, n \in DOMAIN h : m # n => h[m].texts \cap h[n].texts = {}
    BY DEF Dialogue
  <2>2. ASSUME NEW n \in 2 .. Len(g) PROVE g[1].texts \cap g[n].texts = {}
    <3>1. \A m \in 1 .. k : m \in DOMAIN h /\ m # n + k - 1
      BY <1>1, <2>2
    <3>2. \A m \in 1 .. k : h[m].texts \cap h[n + k - 1].texts = {}
      BY <1>2, <2>1, <3>1
    <3>3. g[n] = h[n + k - 1]
      BY <1>1
    <3>4. QED BY <1>1, <3>2, <3>3
  <2>3. CASE i = 1
    <3>1. j \in 2 .. Len(g)
      BY <1>1, <1>5, <2>3
    <3>2. QED BY <2>2, <2>3, <3>1
  <2>4. CASE j = 1
    <3>1. i \in 2 .. Len(g)
      BY <1>1, <1>5, <2>4
    <3>2. QED BY <2>2, <2>4, <3>1
  <2>5. CASE i # 1 /\ j # 1
    <3>1. i \in 2 .. Len(g) /\ j \in 2 .. Len(g) /\ i + k - 1 # j + k - 1
      BY <1>1, <1>5, <2>5
    <3>2. QED BY <1>1, <1>2, <2>1, <3>1
  <2>6. QED BY <2>3, <2>4, <2>5
<1>6. Dialogue(g)
  BY <1>3, <1>4, <1>5 DEF Dialogue
<1>7. TextsOf(g) \subseteq TextsOf(h)
  <2>1. ASSUME NEW i \in DOMAIN g PROVE g[i].texts \subseteq TextsOf(h)
    <3>1. CASE i = 1
      <4>1. \A m \in 1 .. k : m \in DOMAIN h
        BY <1>1
      <4>2. UNION {h[m].texts : m \in 1 .. k} \subseteq UNION {h[m].texts : m \in DOMAIN h}
        BY <4>1
      <4>3. QED BY <1>1, <3>1, <4>2 DEF TextsOf
    <3>2. CASE i # 1
      <4>1. i \in 2 .. Len(g)
        BY <1>1, <3>2
      <4>2. QED BY <1>1, <1>2, <4>1 DEF TextsOf
    <3>3. QED BY <3>1, <3>2
  <2>2. QED BY <2>1 DEF TextsOf
<1>8. QED BY <1>6, <1>7 DEF g

\* A history with the turn of a question that it does not tell yet.
LEMMA TurnDialogue ==
    ASSUME NEW h \in Seq(HistoryMessage), NEW q \in Questions, Dialogue(h),
           TextsOf(h) \cap TextsFor(q) = {}
    PROVE  /\ Dialogue(h \o Turn(q))
           /\ TextsOf(h \o Turn(q)) \subseteq TextsOf(h) \cup TextsFor(q)
<1> DEFINE g == h \o Turn(q)
           n == Len(h)
           asked == [role |-> "user", texts |-> {<<q, "user">>}]
           answered == [role |-> "assistant", texts |-> {<<q, "assistant">>}]
<1>1. /\ n \in Nat /\ DOMAIN h = 1 .. n
      /\ Turn(q) \in Seq(HistoryMessage) /\ Len(Turn(q)) = 2
      /\ Turn(q)[1] = asked /\ Turn(q)[2] = answered
  BY LenProperties DEF Turn, HistoryMessage, Texts
<1>2. /\ g \in Seq(HistoryMessage) /\ Len(g) = n + 2
      /\ \A i \in 1 .. n + 2 : g[i] = IF i <= n THEN h[i] ELSE Turn(q)[i - n]
  <2>1. /\ g \in Seq(HistoryMessage) /\ Len(g) = Len(h) + Len(Turn(q))
        /\ \A i \in 1 .. Len(h) + Len(Turn(q)) :
              g[i] = IF i <= Len(h) THEN h[i] ELSE Turn(q)[i - Len(h)]
    <3> DEFINE turn == Turn(q)
    <3>1. turn \in Seq(HistoryMessage)
      BY <1>1
    <3> HIDE DEF turn
    <3>2. /\ h \o turn \in Seq(HistoryMessage) /\ Len(h \o turn) = Len(h) + Len(turn)
          /\ \A i \in 1 .. Len(h) + Len(turn) :
                (h \o turn)[i] = IF i <= Len(h) THEN h[i] ELSE turn[i - Len(h)]
      BY <3>1, ConcatProperties
    <3>3. QED BY <3>2 DEF turn
  <2> HIDE DEF g
  <2>2. QED BY <1>1, <2>1
<1>3. DOMAIN g = 1 .. n + 2
  BY <1>2, LenProperties
<1>4. \A i \in 1 .. n : g[i] = h[i]
  BY <1>1, <1>2
<1>5. g[n + 1] = asked /\ g[n + 2] = answered
  <2> HIDE DEF g, n, asked, answered
  <2>1. /\ n + 1 \in 1 .. n + 2 /\ ~(n + 1 <= n) /\ (n + 1) - n = 1
        /\ n + 2 \in 1 .. n + 2 /\ ~(n + 2 <= n) /\ (n + 2) - n = 2
    BY <1>1
  <2>2. g[n + 1] = Turn(q)[(n + 1) - n] /\ g[n + 2] = Turn(q)[(n + 2) - n]
    BY <1>2, <2>1
  <2>3. QED BY <1>1, <2>1, <2>2
<1>6. /\ g[n + 1].role = "user" /\ g[n + 1].texts = {<<q, "user">>}
      /\ g[n + 2].role = "assistant" /\ g[n + 2].texts = {<<q, "assistant">>}
  BY <1>5
<1> HIDE DEF g, n, asked, answered
<1>7. \A i \in 1 .. n + 2 : i \in 1 .. n \/ i = n + 1 \/ i = n + 2
  BY <1>1
<1>8. \A i \in 1 .. n : h[i].texts \subseteq TextsOf(h)
  BY <1>1 DEF TextsOf
<1>9. \A i \in DOMAIN g : g[i].role = "system" => i = 1
  BY <1>1, <1>3, <1>4, <1>6, <1>7 DEF Dialogue
<1>10. ASSUME NEW i \in DOMAIN g, g[i].role = "user"
       PROVE  /\ i < Len(g) /\ g[i + 1].role = "assistant"
              /\ \E p \in Questions : g[i].texts = {<<p, "user">>}
                                      /\ g[i + 1].texts = {<<p, "assistant">>}
  <2>1. CASE i \in 1 .. n
    <3>1. /\ i < n /\ h[i + 1].role = "assistant"
          /\ \E p \in Questions : h[i].texts = {<<p, "user">>}
                                  /\ h[i + 1].texts = {<<p, "assistant">>}
      BY <1>1, <1>4, <1>10, <2>1 DEF Dialogue, n
    <3>2. i + 1 \in 1 .. n /\ i < n + 2
      BY <1>1, <2>1, <3>1
    <3>3. QED BY <1>2, <1>4, <2>1, <3>1, <3>2
  <2>2. CASE i = n + 1
    <3>1. i + 1 = n + 2 /\ i < n + 2
      BY <1>1, <2>2
    <3>2. QED BY <1>2, <1>6, <2>2, <3>1
  <2>3. CASE i = n + 2
    BY <1>6, <1>10, <2>3
  <2>4. QED BY <1>3, <1>7, <1>10, <2>1, <2>2, <2>3
<1>11. ASSUME NEW i \in DOMAIN g, NEW j \in DOMAIN g, i # j
       PROVE  g[i].texts \cap g[j].texts = {}
  <2>1. \A m \in 1 .. n : g[m].texts \cap TextsFor(q) = {}
    BY <1>4, <1>8
  <2>2. /\ g[n + 1].texts \subseteq TextsFor(q) /\ g[n + 2].texts \subseteq TextsFor(q)
        /\ g[n + 1].texts \cap g[n + 2].texts = {}
    BY <1>6 DEF TextsFor
  <2>3. CASE i \in 1 .. n /\ j \in 1 .. n
    BY <1>1, <1>4, <1>11, <2>3 DEF Dialogue
  <2>4. CASE i \in 1 .. n /\ j \in {n + 1, n + 2}
    BY <2>1, <2>2, <2>4
  <2>5. CASE j \in 1 .. n /\ i \in {n + 1, n + 2}
    BY <2>1, <2>2, <2>5
  <2>6. CASE i \in {n + 1, n + 2} /\ j \in {n + 1, n + 2}
    BY <1>11, <2>2, <2>6
  <2>7. QED BY <1>3, <1>7, <1>11, <2>3, <2>4, <2>5, <2>6
<1>12. Dialogue(g)
  BY <1>9, <1>10, <1>11 DEF Dialogue
<1>13. TextsOf(g) \subseteq TextsOf(h) \cup TextsFor(q)
  <2>1. \A i \in DOMAIN g : g[i].texts \subseteq TextsOf(h) \cup TextsFor(q)
    BY <1>3, <1>4, <1>6, <1>7, <1>8 DEF TextsFor
  <2>2. QED BY <2>1 DEF TextsOf
<1>14. QED BY <1>12, <1>13 DEF g

\* What the end of a stream stores: a dialogue, of what the stream has read and the
\* turn of its own question.
LEMMA UpdatedDialogue ==
    ASSUME DialogueInv, NEW q \in Questions, Running(q)
    PROVE  /\ Dialogue(Updated(q))
           /\ TextsOf(Updated(q)) \subseteq TextsOf(streams[q].history) \cup TextsFor(q)
<1> DEFINE st == streams[q]
           old == IF st.replaced = None THEN st.history ELSE Shortened(st.history, st.replaced)
<1>1. st.history \in Seq(HistoryMessage)
  BY DEF DialogueInv, Inv, TypeOK, Stream, Running
<1>2. Dialogue(st.history) /\ TextsOf(st.history) \cap TextsFor(q) = {}
  BY DEF DialogueInv, HistoriesAreDialogues, NotToldYet
<1>3. old \in Seq(HistoryMessage) /\ Dialogue(old) /\ TextsOf(old) \subseteq TextsOf(st.history)
  <2>1. CASE st.replaced = None
    BY <1>1, <1>2, <2>1
  <2>2. CASE st.replaced # None
    <3>1. st.replaced \in 1 .. Len(st.history)
      BY <2>2 DEF DialogueInv, Inv, SummariesFit
    <3>2. QED BY <1>1, <1>2, <2>2, <3>1, ShortenedType, ShortenedDialogue
  <2>3. QED BY <2>1, <2>2
<1>4. Updated(q) = IF st.answer THEN old \o Turn(q) ELSE old
  BY DEF Updated
<1> HIDE DEF st, old
<1>5. TextsOf(old) \cap TextsFor(q) = {}
  BY <1>2, <1>3
<1>6. /\ Dialogue(old \o Turn(q))
      /\ TextsOf(old \o Turn(q)) \subseteq TextsOf(old) \cup TextsFor(q)
  BY <1>3, <1>5, TurnDialogue
<1>7. QED BY <1>3, <1>4, <1>6 DEF st

\* A step of one stream: what it has read must be a dialogue that tells nothing of
\* the questions that have not ended.
LEMMA StreamTells ==
    ASSUME DialogueInv, NEW q \in Questions, NEW st \in Stream,
           streams' = [streams EXCEPT ![q] = st], chats' = chats,
           streams[q] = None \/ Running(q),
           Dialogue(st.history),
           \A p \in Questions : streams[p] = None \/ Running(p) =>
                TextsOf(st.history) \cap TextsFor(p) = {}
    PROVE  HistoriesAreDialogues' /\ NotToldYet'
<1>1. streams'[q] = st /\ \A p \in Questions \ {q} : streams'[p] = streams[p]
  BY DEF DialogueInv, Inv, TypeOK
<1>2. \A p \in Questions : (streams[p] = None \/ Running(p))' => streams[p] = None \/ Running(p)
  BY <1>1 DEF Running
<1>3. Present(chats') = Present(chats)
  BY DEF Present
<1>4. HistoriesAreDialogues'
  BY <1>1, <1>3 DEF DialogueInv, HistoriesAreDialogues, Running
<1>5. NotToldYet'
  <2> SUFFICES ASSUME NEW p \in Questions, (streams[p] = None \/ Running(p))'
               PROVE  /\ \A s \in Present(chats) : TextsOf(chats[s].history) \cap TextsFor(p) = {}
                      /\ \A r \in Questions : Running(r)' =>
                            TextsOf(streams'[r].history) \cap TextsFor(p) = {}
    BY <1>3 DEF NotToldYet
  <2>1. streams[p] = None \/ Running(p)
    BY <1>2
  <2>2. \A s \in Present(chats) : TextsOf(chats[s].history) \cap TextsFor(p) = {}
    BY <2>1 DEF DialogueInv, NotToldYet
  <2>3. ASSUME NEW r \in Questions \ {q}, Running(r)'
        PROVE  TextsOf(streams'[r].history) \cap TextsFor(p) = {}
    <3>1. Running(r) /\ streams'[r] = streams[r]
      BY <1>1, <2>3 DEF Running
    <3>2. QED BY <2>1, <3>1 DEF DialogueInv, NotToldYet
  <2>4. TextsOf(streams'[q].history) \cap TextsFor(p) = {}
    BY <1>1, <2>1
  <2>5. QED BY <2>2, <2>3, <2>4
<1>6. QED BY <1>4, <1>5

\* Chats that go or grow older tell nothing new.
LEMMA ChatsTellTheSame ==
    ASSUME DialogueInv, streams' = streams,
           \A s \in Sids : chats'[s] # None =>
                chats[s] # None /\ chats'[s].history = chats[s].history
    PROVE  HistoriesAreDialogues' /\ NotToldYet'
<1>1. \A s \in Present(chats') : s \in Present(chats) /\ chats'[s].history = chats[s].history
  BY DEF Present
<1>2. HistoriesAreDialogues'
  BY <1>1 DEF DialogueInv, HistoriesAreDialogues, Running
<1>3. NotToldYet'
  BY <1>1 DEF DialogueInv, NotToldYet, Running
<1>4. QED BY <1>2, <1>3

\* The end of a stream: its chat tells what the stream has read and its own turn.
LEMMA EndTells ==
    ASSUME DialogueInv, NEW q \in Questions, StreamEnds(q)
    PROVE  HistoriesAreDialogues' /\ NotToldYet'
<1> DEFINE sid == streams[q].sid
           h == Updated(q)
<1>1. /\ Running(q) /\ streams' = [streams EXCEPT ![q].phase = "done"]
      /\ Store(sid, h)
  BY DEF StreamEnds
<1>2. /\ streams \in [Questions -> Stream \cup {None}] /\ chats \in [Sids -> Session \cup {None}]
      /\ streams[q] \in Stream /\ sid \in Sids
  BY <1>1 DEF DialogueInv, Inv, TypeOK, Running, Stream
<1>3. Dialogue(h) /\ TextsOf(h) \subseteq TextsOf(streams[q].history) \cup TextsFor(q)
  BY <1>1, UpdatedDialogue
<1> HIDE DEF sid, h
<1>4. \A s \in Present(chats') :
          \/ chats'[s].history = h
          \/ s \in Present(chats) /\ chats'[s].history = chats[s].history
  <2> SUFFICES ASSUME NEW s \in Present(chats')
               PROVE  \/ chats'[s].history = h
                      \/ s \in Present(chats) /\ chats'[s].history = chats[s].history
    OBVIOUS
  <2>1. s \in Sids /\ chats'[s] # None
    BY DEF Present
  <2>2. chats'[s] = Inserted(sid, h)[s]
    BY <1>1, <2>1 DEF Store
  <2>3. CASE s = sid
    <3>1. Inserted(sid, h)[s] = [history |-> h, idle |-> 0, place |-> inserted + 1]
      BY <1>2, <2>3 DEF Inserted
    <3>2. QED BY <2>2, <3>1
  <2>4. CASE s # sid
    <3>1. Inserted(sid, h)[s] = chats[s]
      BY <1>2, <2>1, <2>4 DEF Inserted
    <3>2. QED BY <2>1, <2>2, <3>1 DEF Present
  <2>5. QED BY <2>3, <2>4
<1>5. /\ streams'[q] # None /\ streams'[q].phase = "done"
      /\ \A p \in Questions \ {q} : streams'[p] = streams[p]
  <2>1. streams'[q] = [streams[q] EXCEPT !.phase = "done"]
    BY <1>1, <1>2
  <2>2. streams'[q] \in Stream /\ streams'[q].phase = "done"
    BY <1>2, <2>1 DEF Stream
  <2>3. \A p \in Questions \ {q} : streams'[p] = streams[p]
    BY <1>1, <1>2
  <2>4. QED BY <2>2, <2>3, NoneAssumption
<1>6. \A p \in Questions : Running(p)' => p # q /\ Running(p) /\ streams'[p] = streams[p]
  BY <1>5 DEF Running
<1>7. HistoriesAreDialogues'
  <2>1. \A s \in Present(chats') : Dialogue(chats'[s].history)
    BY <1>3, <1>4 DEF DialogueInv, HistoriesAreDialogues
  <2>2. \A p \in Questions : Running(p)' => Dialogue(streams'[p].history)
    BY <1>6 DEF DialogueInv, HistoriesAreDialogues
  <2>3. QED BY <2>1, <2>2 DEF HistoriesAreDialogues
<1>8. NotToldYet'
  <2> SUFFICES ASSUME NEW p \in Questions, (streams[p] = None \/ Running(p))'
               PROVE  /\ \A s \in Present(chats') :
                            TextsOf(chats'[s].history) \cap TextsFor(p) = {}
                      /\ \A r \in Questions : Running(r)' =>
                            TextsOf(streams'[r].history) \cap TextsFor(p) = {}
    BY DEF NotToldYet
  <2>1. p # q /\ (streams[p] = None \/ Running(p))
    BY <1>5, <1>6 DEF Running
  <2>2. /\ \A s \in Present(chats) : TextsOf(chats[s].history) \cap TextsFor(p) = {}
        /\ \A r \in Questions : Running(r) =>
              TextsOf(streams[r].history) \cap TextsFor(p) = {}
    BY <2>1 DEF DialogueInv, NotToldYet
  <2>3. TextsFor(q) \cap TextsFor(p) = {}
    BY <2>1 DEF TextsFor
  <2>4. TextsOf(h) \cap TextsFor(p) = {}
    BY <1>1, <1>3, <2>2, <2>3
  <2>5. \A s \in Present(chats') : TextsOf(chats'[s].history) \cap TextsFor(p) = {}
    BY <1>4, <2>2, <2>4
  <2>6. QED BY <1>6, <2>2, <2>5
<1>9. QED BY <1>7, <1>8

LEMMA StepDialogue == ASSUME DialogueInv, [Next]_vars PROVE DialogueInv'
<1>1. Inv'
  BY StepInv DEF DialogueInv
<1> DEFINE Goal == HistoriesAreDialogues' /\ NotToldYet'
<1>2. /\ streams \in [Questions -> Stream \cup {None}] /\ chats \in [Sids -> Session \cup {None}]
      /\ streams' \in [Questions -> Stream \cup {None}]
  BY <1>1 DEF DialogueInv, Inv, TypeOK
<1>3. ASSUME NEW q \in Questions, NEW s \in Sids, Ask(q, s) PROVE Goal
  <2> DEFINE st == [phase |-> "fetching", sid |-> s, history |-> HistoryOf(s),
                    answer |-> FALSE, replaced |-> None]
  <2>1. streams[q] = None /\ streams' = [streams EXCEPT ![q] = st] /\ chats' = chats
    BY <1>3 DEF Ask
  <2>2. st \in Stream /\ st.history = HistoryOf(s)
    BY <1>2, HistoryType DEF DialogueInv, Inv, Stream
  <2> HIDE DEF st
  <2>3. CASE chats[s] = None
    <3>1. st.history = <<>>
      BY <2>2, <2>3 DEF HistoryOf
    <3>2. Dialogue(st.history) /\ TextsOf(st.history) = {}
      BY <3>1 DEF Dialogue, TextsOf
    <3>3. QED BY <2>1, <2>2, <3>2, StreamTells
  <2>4. CASE chats[s] # None
    <3>1. s \in Present(chats) /\ st.history = chats[s].history
      BY <2>2, <2>4 DEF HistoryOf, Present
    <3>2. /\ Dialogue(st.history)
          /\ \A p \in Questions : streams[p] = None \/ Running(p) =>
                TextsOf(st.history) \cap TextsFor(p) = {}
      BY <3>1 DEF DialogueInv, HistoriesAreDialogues, NotToldYet
    <3>3. QED BY <2>1, <2>2, <3>2, StreamTells
  <2>5. QED BY <2>3, <2>4
<1>4. ASSUME NEW q \in Questions, NEW st \in Stream, Running(q), chats' = chats,
             streams' = [streams EXCEPT ![q] = st], st.history = streams[q].history
      PROVE  Goal
  <2>1. /\ Dialogue(st.history)
        /\ \A p \in Questions : streams[p] = None \/ Running(p) =>
              TextsOf(st.history) \cap TextsFor(p) = {}
    BY <1>4 DEF DialogueInv, HistoriesAreDialogues, NotToldYet
  <2>2. QED BY <1>4, <2>1, StreamTells
<1>5. ASSUME NEW q \in Questions, FetchFails(q) \/ FetchAnswers(q) PROVE Goal
  <2>1. PICK ph \in {"open", "done"} :
            Running(q) /\ streams' = [streams EXCEPT ![q].phase = ph] /\ chats' = chats
    BY <1>5 DEF FetchFails, FetchAnswers
  <2> DEFINE st == [streams[q] EXCEPT !.phase = ph]
  <2>2. /\ st \in Stream /\ streams' = [streams EXCEPT ![q] = st]
        /\ st.history = streams[q].history
    BY <1>2, <2>1 DEF Running, Stream
  <2> HIDE DEF st
  <2>3. QED BY <1>4, <2>1, <2>2
<1>6. ASSUME NEW q \in Questions, Token(q) PROVE Goal
  <2> DEFINE st == [streams[q] EXCEPT !.answer = TRUE]
  <2>1. Running(q) /\ chats' = chats /\ streams' = [streams EXCEPT ![q].answer = TRUE]
    BY <1>6 DEF Token
  <2>2. /\ st \in Stream /\ streams' = [streams EXCEPT ![q] = st]
        /\ st.history = streams[q].history
    BY <1>2, <2>1 DEF Running, Stream
  <2> HIDE DEF st
  <2>3. QED BY <1>4, <2>1, <2>2
<1>7. ASSUME NEW q \in Questions, NEW k \in 1 .. 2 * Cardinality(Questions), Summarised(q, k)
      PROVE  Goal
  <2> DEFINE st == [streams[q] EXCEPT !.replaced = k]
  <2>1. /\ Running(q) /\ chats' = chats /\ streams' = [streams EXCEPT ![q].replaced = k]
        /\ k \in 1 .. Len(streams[q].history)
    BY <1>7 DEF Summarised
  <2>2. streams[q] \in Stream /\ Len(streams[q].history) \in Nat
    BY <1>2, <2>1, LenProperties DEF Running, Stream
  <2>3. /\ st \in Stream /\ streams' = [streams EXCEPT ![q] = st]
        /\ st.history = streams[q].history
    BY <1>2, <2>1, <2>2 DEF Stream
  <2> HIDE DEF st
  <2>4. QED BY <1>4, <2>1, <2>3
<1>8. ASSUME NEW q \in Questions, StreamEnds(q) PROVE Goal
  BY <1>8, EndTells
<1>9. ASSUME NEW s \in Sids, Reset(s) PROVE Goal
  <2>1. streams' = streams /\ \A r \in Sids : chats'[r] # None => chats'[r] = chats[r]
    BY <1>2, <1>9 DEF Reset
  <2>2. QED BY <2>1, ChatsTellTheSame
<1>10. ASSUME RemoveExpired PROVE Goal
  <2>1. streams' = streams /\ \A r \in Sids : chats'[r] # None => chats'[r] = chats[r]
    BY <1>2, <1>10 DEF RemoveExpired
  <2>2. QED BY <2>1, ChatsTellTheSame
<1>11. ASSUME Tick PROVE Goal
  <2>1. streams' = streams
    BY <1>11 DEF Tick
  <2>2. ASSUME NEW s \in Sids, chats'[s] # None
        PROVE  chats[s] # None /\ chats'[s].history = chats[s].history
    <3>1. CASE chats[s] # None /\ chats[s].idle <= TTL
      <4>1. chats'[s] = [chats[s] EXCEPT !.idle = chats[s].idle + 1] /\ chats[s] \in Session
        BY <1>2, <1>11, <3>1 DEF Tick
      <4>2. QED BY <3>1, <4>1 DEF Session
    <3>2. CASE ~(chats[s] # None /\ chats[s].idle <= TTL)
      <4>1. chats'[s] = chats[s]
        BY <1>11, <3>2 DEF Tick
      <4>2. QED BY <2>2, <4>1
    <3>3. QED BY <3>1, <3>2
  <2>3. QED BY <2>1, <2>2, ChatsTellTheSame
<1>12. ASSUME UNCHANGED vars PROVE Goal
  <2>1. streams' = streams /\ chats' = chats
    BY <1>12 DEF vars
  <2>2. QED BY <2>1, ChatsTellTheSame
<1>13. Goal
  BY <1>3, <1>5, <1>6, <1>7, <1>8, <1>9, <1>10, <1>11, <1>12 DEF Next
<1>14. QED BY <1>1, <1>13 DEF DialogueInv

LEMMA InitDialogue == Init => DialogueInv
<1> SUFFICES ASSUME Init PROVE DialogueInv
  OBVIOUS
<1>1. Present(chats) = {} /\ \A q \in Questions : ~Running(q)
  BY DEF Init, Present, Running
<1>2. QED BY <1>1, InitInv DEF DialogueInv, HistoriesAreDialogues, NotToldYet

\* Whatever streams overlap, break off or are summarised: every history that is
\* kept, or sent with a question, is a dialogue (streamReply, store).
THEOREM AlwaysDialogues == Spec => []HistoriesAreDialogues
<1>1. DialogueInv /\ [Next]_vars => DialogueInv'
  BY StepDialogue
<1>2. DialogueInv => HistoriesAreDialogues
  BY DEF DialogueInv
<1>3. QED BY InitDialogue, <1>1, <1>2, PTL DEF Spec

-------------------------------------------------------------------------------
(* When the frontend waits for an answer before it asks again in the same chat. *)

\* A stream has read everything that its chat tells.
ReadsTheChat ==
    \A q \in Questions : Running(q) /\ chats[streams[q].sid] # None =>
        TextsOf(chats[streams[q].sid].history) \subseteq TextsOf(streams[q].history)

WaitingInv == Inv /\ (waits => OneQuestionPerChat /\ ReadsTheChat)

\* The summary tells what the messages told that it replaces.
LEMMA ShortenedKeeps ==
    ASSUME NEW h \in Seq(HistoryMessage), NEW k \in 1 .. Len(h)
    PROVE  TextsOf(h) \subseteq TextsOf(Shortened(h, k))
<1> DEFINE g == Shortened(h, k)
<1>1. /\ Len(h) \in Nat /\ Len(g) = Len(h) - k + 1
      /\ DOMAIN h = 1 .. Len(h) /\ DOMAIN g = 1 .. Len(g)
      /\ g[1].texts = UNION {h[i].texts : i \in 1 .. k}
      /\ \A i \in 2 .. Len(g) : g[i] = h[i + k - 1]
  BY ShortenedMessages
<1> HIDE DEF g
<1>2. ASSUME NEW i \in DOMAIN h
      PROVE  \E j \in DOMAIN g : h[i].texts \subseteq g[j].texts
  <2>1. CASE i <= k
    <3>1. 1 \in DOMAIN g /\ i \in 1 .. k
      BY <1>1, <2>1
    <3>2. QED BY <1>1, <3>1
  <2>2. CASE i > k
    <3>1. PICK j \in 2 .. Len(g) : j + k - 1 = i
      <4>1. i - k + 1 \in 2 .. Len(g) /\ (i - k + 1) + k - 1 = i
        BY <1>1, <2>2
      <4>2. QED BY <4>1
    <3>2. j \in DOMAIN g /\ g[j] = h[i]
      BY <1>1, <3>1
    <3>3. QED BY <3>2
  <2>3. QED BY <1>1, <2>1, <2>2
<1>3. TextsOf(h) \subseteq TextsOf(g)
  BY <1>2 DEF TextsOf
<1>4. QED BY <1>3 DEF g

\* A history with more messages at its end tells what it told.
LEMMA ConcatKeeps ==
    ASSUME NEW h \in Seq(HistoryMessage), NEW t \in Seq(HistoryMessage)
    PROVE  TextsOf(h) \subseteq TextsOf(h \o t)
<1> DEFINE g == h \o t
<1>1. /\ g \in Seq(HistoryMessage) /\ Len(g) = Len(h) + Len(t)
      /\ \A i \in 1 .. Len(h) + Len(t) : g[i] = IF i <= Len(h) THEN h[i] ELSE t[i - Len(h)]
  BY ConcatProperties
<1>2. Len(h) \in Nat /\ Len(t) \in Nat /\ DOMAIN h = 1 .. Len(h)
  BY LenProperties
<1>3. DOMAIN g = 1 .. Len(g)
  BY <1>1, LenProperties
<1> HIDE DEF g
<1>4. \A i \in DOMAIN h : i \in DOMAIN g /\ g[i] = h[i]
  BY <1>1, <1>2, <1>3
<1>5. TextsOf(h) \subseteq TextsOf(g)
  BY <1>4 DEF TextsOf
<1>6. QED BY <1>5 DEF g

\* What a stream stores tells everything that it has read.
LEMMA UpdatedKeeps ==
    ASSUME Inv, NEW q \in Questions, Running(q)
    PROVE  TextsOf(streams[q].history) \subseteq TextsOf(Updated(q))
<1> DEFINE st == streams[q]
           old == IF st.replaced = None THEN st.history ELSE Shortened(st.history, st.replaced)
<1>1. st.history \in Seq(HistoryMessage)
  BY DEF Inv, TypeOK, Stream, Running
<1>2. old \in Seq(HistoryMessage) /\ TextsOf(st.history) \subseteq TextsOf(old)
  <2>1. CASE st.replaced = None
    BY <1>1, <2>1
  <2>2. CASE st.replaced # None
    <3>1. st.replaced \in 1 .. Len(st.history)
      BY <2>2 DEF Inv, SummariesFit
    <3>2. QED BY <1>1, <2>2, <3>1, ShortenedType, ShortenedKeeps
  <2>3. QED BY <2>1, <2>2
<1>3. Updated(q) = IF st.answer THEN old \o Turn(q) ELSE old
  BY DEF Updated
<1>4. Turn(q) \in Seq(HistoryMessage)
  BY DEF Turn, HistoryMessage, Texts
<1> HIDE DEF st, old
<1>5. TextsOf(old) \subseteq TextsOf(old \o Turn(q))
  BY <1>2, <1>4, ConcatKeeps
<1>6. TextsOf(st.history) \subseteq TextsOf(Updated(q))
  BY <1>2, <1>3, <1>5
<1>7. QED BY <1>6 DEF st

\* A step that leaves the chats alone or lets them go or grow older.
LEMMA ChatsKeep ==
    ASSUME \A s \in Sids : chats'[s] # None =>
                chats[s] # None /\ chats'[s].history = chats[s].history
    PROVE  KeepsAnswers
BY DEF KeepsAnswers

\* A step of one stream that keeps its chat and what it has read.
LEMMA StreamReads ==
    ASSUME Inv, ReadsTheChat, NEW q \in Questions, NEW st \in Stream,
           streams' = [streams EXCEPT ![q] = st], chats' = chats,
           chats[st.sid] # None =>
                TextsOf(chats[st.sid].history) \subseteq TextsOf(st.history)
    PROVE  ReadsTheChat' /\ KeepsAnswers
<1>1. streams'[q] = st /\ \A p \in Questions \ {q} : streams'[p] = streams[p]
  BY DEF Inv, TypeOK
<1>2. ReadsTheChat'
  BY <1>1 DEF ReadsTheChat, Running
<1>3. QED BY <1>2, ChatsKeep

\* Chats that go or grow older tell nothing that their streams have not read.
LEMMA ChatsRead ==
    ASSUME Inv, ReadsTheChat, streams' = streams,
           \A s \in Sids : chats'[s] # None =>
                chats[s] # None /\ chats'[s].history = chats[s].history
    PROVE  ReadsTheChat' /\ KeepsAnswers
<1>1. \A q \in Questions : Running(q) => streams[q].sid \in Sids
  BY DEF Inv, TypeOK, Running, Stream
<1>2. ReadsTheChat'
  BY <1>1 DEF ReadsTheChat, Running
<1>3. QED BY <1>2, ChatsKeep

\* The end of a stream: its chat tells what it has read and more, and no other
\* stream is open in that chat.
LEMMA EndKeeps ==
    ASSUME Inv, OneQuestionPerChat, ReadsTheChat, NEW q \in Questions, StreamEnds(q)
    PROVE  ReadsTheChat' /\ KeepsAnswers
<1> DEFINE sid == streams[q].sid
           h == Updated(q)
<1>1. /\ Running(q) /\ streams' = [streams EXCEPT ![q].phase = "done"]
      /\ Store(sid, h)
  BY DEF StreamEnds
<1>2. /\ streams \in [Questions -> Stream \cup {None}] /\ chats \in [Sids -> Session \cup {None}]
      /\ streams[q] \in Stream /\ sid \in Sids
  BY <1>1 DEF Inv, TypeOK, Running, Stream
<1>3. chats[sid] # None => TextsOf(chats[sid].history) \subseteq TextsOf(h)
  BY <1>1, UpdatedKeeps DEF ReadsTheChat
<1>4. \A p \in Questions \ {q} : Running(p) => streams[p].sid # sid
  BY <1>1 DEF OneQuestionPerChat
<1> HIDE DEF sid, h
<1>5. ASSUME NEW s \in Sids, chats'[s] # None
      PROVE  chats'[s] = Inserted(sid, h)[s]
  BY <1>1, <1>5 DEF Store
<1>6. chats'[sid] # None => chats'[sid].history = h
  <2>1. Inserted(sid, h)[sid] = [history |-> h, idle |-> 0, place |-> inserted + 1]
    BY <1>2 DEF Inserted
  <2>2. QED BY <1>2, <1>5, <2>1
<1>7. \A s \in Sids \ {sid} : chats'[s] # None => chats'[s] = chats[s]
  <2>1. \A s \in Sids \ {sid} : Inserted(sid, h)[s] = chats[s]
    BY <1>2 DEF Inserted
  <2>2. QED BY <1>5, <2>1
<1>8. KeepsAnswers
  BY <1>3, <1>6, <1>7 DEF KeepsAnswers
<1>9. /\ streams'[q] # None /\ streams'[q].phase = "done"
      /\ \A p \in Questions \ {q} : streams'[p] = streams[p]
  <2>1. streams'[q] = [streams[q] EXCEPT !.phase = "done"]
    BY <1>1, <1>2
  <2>2. streams'[q] \in Stream /\ streams'[q].phase = "done"
    BY <1>2, <2>1 DEF Stream
  <2>3. \A p \in Questions \ {q} : streams'[p] = streams[p]
    BY <1>1, <1>2
  <2>4. QED BY <2>2, <2>3, NoneAssumption
<1>10. \A p \in Questions : Running(p)' => p # q /\ Running(p) /\ streams'[p] = streams[p]
  BY <1>9 DEF Running
<1>11. \A p \in Questions : Running(p) => streams[p].sid \in Sids
  BY <1>2 DEF Running, Stream
<1>12. ReadsTheChat'
  BY <1>4, <1>7, <1>10, <1>11 DEF ReadsTheChat
<1>13. QED BY <1>8, <1>12

LEMMA StepReads ==
    ASSUME Inv, OneQuestionPerChat, ReadsTheChat, [Next]_vars
    PROVE  ReadsTheChat' /\ KeepsAnswers
<1> DEFINE Goal == ReadsTheChat' /\ KeepsAnswers
<1>1. /\ streams \in [Questions -> Stream \cup {None}] /\ chats \in [Sids -> Session \cup {None}]
  BY DEF Inv, TypeOK
<1>2. ASSUME NEW q \in Questions, NEW s \in Sids, Ask(q, s) PROVE Goal
  <2> DEFINE st == [phase |-> "fetching", sid |-> s, history |-> HistoryOf(s),
                    answer |-> FALSE, replaced |-> None]
  <2>1. streams' = [streams EXCEPT ![q] = st] /\ chats' = chats
    BY <1>2 DEF Ask
  <2>2. st \in Stream /\ st.sid = s /\ st.history = HistoryOf(s)
    BY HistoryType DEF Inv, Stream
  <2> HIDE DEF st
  <2>3. chats[st.sid] # None => st.history = chats[st.sid].history
    BY <2>2 DEF HistoryOf
  <2>4. QED BY <2>1, <2>2, <2>3, StreamReads
<1>3. ASSUME NEW q \in Questions, NEW st \in Stream, Running(q), chats' = chats,
             streams' = [streams EXCEPT ![q] = st],
             st.sid = streams[q].sid, st.history = streams[q].history
      PROVE  Goal
  BY <1>3, StreamReads DEF ReadsTheChat
<1>4. ASSUME NEW q \in Questions, FetchFails(q) \/ FetchAnswers(q) PROVE Goal
  <2>1. PICK ph \in {"open", "done"} :
            Running(q) /\ streams' = [streams EXCEPT ![q].phase = ph] /\ chats' = chats
    BY <1>4 DEF FetchFails, FetchAnswers
  <2> DEFINE st == [streams[q] EXCEPT !.phase = ph]
  <2>2. /\ st \in Stream /\ streams' = [streams EXCEPT ![q] = st]
        /\ st.sid = streams[q].sid /\ st.history = streams[q].history
    BY <1>1, <2>1 DEF Running, Stream
  <2> HIDE DEF st
  <2>3. QED BY <1>3, <2>1, <2>2
<1>5. ASSUME NEW q \in Questions, Token(q) PROVE Goal
  <2> DEFINE st == [streams[q] EXCEPT !.answer = TRUE]
  <2>1. Running(q) /\ chats' = chats /\ streams' = [streams EXCEPT ![q].answer = TRUE]
    BY <1>5 DEF Token
  <2>2. /\ st \in Stream /\ streams' = [streams EXCEPT ![q] = st]
        /\ st.sid = streams[q].sid /\ st.history = streams[q].history
    BY <1>1, <2>1 DEF Running, Stream
  <2> HIDE DEF st
  <2>3. QED BY <1>3, <2>1, <2>2
<1>6. ASSUME NEW q \in Questions, NEW k \in 1 .. 2 * Cardinality(Questions), Summarised(q, k)
      PROVE  Goal
  <2> DEFINE st == [streams[q] EXCEPT !.replaced = k]
  <2>1. /\ Running(q) /\ chats' = chats /\ streams' = [streams EXCEPT ![q].replaced = k]
        /\ k \in 1 .. Len(streams[q].history)
    BY <1>6 DEF Summarised
  <2>2. streams[q] \in Stream /\ Len(streams[q].history) \in Nat
    BY <1>1, <2>1, LenProperties DEF Running, Stream
  <2>3. /\ st \in Stream /\ streams' = [streams EXCEPT ![q] = st]
        /\ st.sid = streams[q].sid /\ st.history = streams[q].history
    BY <1>1, <2>1, <2>2 DEF Stream
  <2> HIDE DEF st
  <2>4. QED BY <1>3, <2>1, <2>3
<1>7. ASSUME NEW q \in Questions, StreamEnds(q) PROVE Goal
  BY <1>7, EndKeeps
<1>8. ASSUME NEW s \in Sids, Reset(s) PROVE Goal
  <2>1. streams' = streams /\ \A r \in Sids : chats'[r] # None => chats'[r] = chats[r]
    BY <1>1, <1>8 DEF Reset
  <2>2. QED BY <2>1, ChatsRead
<1>9. ASSUME RemoveExpired PROVE Goal
  <2>1. streams' = streams /\ \A r \in Sids : chats'[r] # None => chats'[r] = chats[r]
    BY <1>1, <1>9 DEF RemoveExpired
  <2>2. QED BY <2>1, ChatsRead
<1>10. ASSUME Tick PROVE Goal
  <2>1. streams' = streams
    BY <1>10 DEF Tick
  <2>2. ASSUME NEW s \in Sids, chats'[s] # None
        PROVE  chats[s] # None /\ chats'[s].history = chats[s].history
    <3>1. CASE chats[s] # None /\ chats[s].idle <= TTL
      <4>1. chats'[s] = [chats[s] EXCEPT !.idle = chats[s].idle + 1] /\ chats[s] \in Session
        BY <1>1, <1>10, <3>1 DEF Tick
      <4>2. QED BY <3>1, <4>1 DEF Session
    <3>2. CASE ~(chats[s] # None /\ chats[s].idle <= TTL)
      <4>1. chats'[s] = chats[s]
        BY <1>10, <3>2 DEF Tick
      <4>2. QED BY <2>2, <4>1
    <3>3. QED BY <3>1, <3>2
  <2>3. QED BY <2>1, <2>2, ChatsRead
<1>11. ASSUME UNCHANGED vars PROVE Goal
  <2>1. streams' = streams /\ chats' = chats
    BY <1>11 DEF vars
  <2>2. QED BY <2>1, ChatsRead
<1>12. QED BY <1>2, <1>4, <1>5, <1>6, <1>7, <1>8, <1>9, <1>10, <1>11 DEF Next

LEMMA InitReads == MCInit => WaitingInv
<1> SUFFICES ASSUME MCInit PROVE WaitingInv
  OBVIOUS
<1>1. \A q \in Questions : ~Running(q)
  BY DEF MCInit, Init, Running
<1>2. QED BY <1>1, InitInv DEF MCInit, WaitingInv, OneQuestionPerChat, ReadsTheChat

\* When the frontend waits for the answer before it asks again in the same chat,
\* what a chat has been told stays in its history, in the messages or in their
\* summary, for as long as the chat is kept: also when it is reset, or dropped and
\* started again, while a stream is open (streamReply, store, reset).
THEOREM WaitingKeepsAnswers == MCSpec => AnswersKeptWhenWaiting
<1>1. [MCNext]_mcvars => [Next]_vars /\ waits' = waits
  BY DEF MCNext, mcvars, vars
<1>2. WaitingInv /\ [MCNext]_mcvars => WaitingInv' /\ (waits => KeepsAnswers)
  <2> SUFFICES ASSUME WaitingInv, [MCNext]_mcvars
               PROVE  WaitingInv' /\ (waits => KeepsAnswers)
    OBVIOUS
  <2>1. Inv'
    BY <1>1, StepInv DEF WaitingInv
  <2>2. ASSUME waits
        PROVE  OneQuestionPerChat' /\ ReadsTheChat' /\ KeepsAnswers
    <3>1. ReadsTheChat' /\ KeepsAnswers
      BY <1>1, <2>2, StepReads DEF WaitingInv
    <3>2. CASE MCNext
      BY <2>2, <3>1, <3>2 DEF MCNext
    <3>3. CASE UNCHANGED mcvars
      BY <2>2, <3>1, <3>3 DEF WaitingInv, mcvars, vars, OneQuestionPerChat, Running
    <3>4. QED BY <3>2, <3>3
  <2>3. QED BY <1>1, <2>1, <2>2 DEF WaitingInv
<1>3. WaitingInv /\ [MCNext]_mcvars => [waits => KeepsAnswers]_vars
  BY <1>2
<1>4. WaitingInv /\ [MCNext]_mcvars => WaitingInv'
  BY <1>2
<1>5. QED BY InitReads, <1>3, <1>4, PTL DEF MCSpec, AnswersKeptWhenWaiting
===============================================================================
