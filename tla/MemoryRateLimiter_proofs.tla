----------------------- MODULE MemoryRateLimiter_proofs -----------------------
(* The limits hold for any number of calls, any limits and any windows, and    *)
(* each call is counted under the address of its visitor.                      *)
EXTENDS MCMemoryRateLimiter, FiniteSetTheorems, SequenceTheorems, TLAPS

\* What consume() relies on when it throws old hits away: they are admitted
\* calls, and one that is missing is too old to matter.
HitsInv ==
    /\ \A k \in Keys : hits[k] \subseteq admitted[k]
    /\ \A c \in Calls : Made(c) => at[c] <= now
    /\ \A k \in Keys : \A c \in admitted[k] \ hits[k] : at[c] + Window[k] <= now

Inv == TypeOK /\ HitsInv /\ WindowBound

LEMMA InitType == Init => TypeOK
BY LimitsAssumption DEF Init, TypeOK

LEMMA StepType == TypeOK /\ [Next]_vars => TypeOK'
<1> SUFFICES ASSUME TypeOK, [Next]_vars PROVE TypeOK'
  OBVIOUS
<1>1. ASSUME NEW c \in Calls, NEW K \in SUBSET Keys, NEW by \in Keys \cup {None},
             Consumed(c, K, by)
      PROVE  TypeOK'
  BY <1>1, LimitsAssumption DEF Consumed, TypeOK, Recent
<1>2. ASSUME NEW c \in Calls, NEW k \in OtherKeys, Request(c, k)
      PROVE  TypeOK'
  BY <1>1, <1>2 DEF Request, Keys
<1>3. ASSUME NEW c \in Calls, Ask(c)
      PROVE  TypeOK'
  BY <1>1, <1>3 DEF Ask, Keys
<1>4. CASE Tick
  BY <1>4, LimitsAssumption DEF Tick, TypeOK
<1>5. CASE UNCHANGED vars
  BY <1>5 DEF vars, TypeOK
<1>6. QED BY <1>2, <1>3, <1>4, <1>5 DEF Next

\* The calls of a window are finitely many.
LEMMA WindowFinite ==
    ASSUME TypeOK, NEW k \in Keys, NEW t \in Nat
    PROVE  /\ IsFiniteSet(InWindow(k, t)) /\ Cardinality(InWindow(k, t)) \in Nat
           /\ IsFiniteSet(Recent(k)) /\ Cardinality(Recent(k)) \in Nat
<1>1. InWindow(k, t) \subseteq Calls /\ Recent(k) \subseteq Calls
  BY DEF TypeOK, InWindow, Recent
<1>2. QED BY <1>1, LimitsAssumption, FS_Subset, FS_CardinalityType

\* What the array still counts is exactly the window that ends now.
LEMMA RecentIsWindow ==
    ASSUME TypeOK, HitsInv, NEW k \in Keys
    PROVE  Recent(k) = InWindow(k, now)
<1>1. ASSUME NEW c \in admitted[k]
      PROVE  /\ at[c] \in Nat /\ now \in Nat /\ Window[k] \in Nat
             /\ at[c] <= now
             /\ c \notin hits[k] => at[c] + Window[k] <= now
  BY LimitsAssumption DEF TypeOK, HitsInv, Made
<1>2. hits[k] \subseteq admitted[k]
  BY DEF HitsInv
<1>3. \A c : c \in Recent(k) <=> c \in InWindow(k, now)
  BY <1>1, <1>2 DEF Recent, InWindow
<1>4. QED BY <1>3

\* A call that consume() lets pass joins only the windows that contain it.
LEMMA ConsumedHere ==
    ASSUME TypeOK, NEW c \in Calls, NEW K \in SUBSET Keys, NEW by \in Keys \cup {None},
           Consumed(c, K, by), NEW k \in K
    PROVE  InWindow(k, now)' = InWindow(k, now) \cup {c}
<1>1. /\ c \notin admitted[k]
      /\ at' = [at EXCEPT ![c] = now] /\ now' = now
      /\ admitted'[k] = admitted[k] \cup {c}
  BY DEF Consumed, Made
<1>2. /\ at'[c] = now
      /\ \A d \in admitted[k] : at'[d] = at[d]
      /\ now \in Nat /\ Window[k] \in Nat \ {0}
  BY <1>1, LimitsAssumption DEF TypeOK
<1>3. \A d : d \in InWindow(k, now)' <=> d \in InWindow(k, now) \cup {c}
  BY <1>1, <1>2 DEF InWindow
<1>4. QED BY <1>3

LEMMA ConsumedElsewhere ==
    ASSUME TypeOK, NEW c \in Calls, NEW K \in SUBSET Keys, NEW by \in Keys \cup {None},
           Consumed(c, K, by), NEW k \in Keys, NEW t \in 0 .. now, k \notin K \/ t # now
    PROVE  InWindow(k, t)' = InWindow(k, t)
<1>1. /\ c \notin admitted[k]
      /\ at' = [at EXCEPT ![c] = now]
      /\ admitted'[k] = IF k \in K THEN admitted[k] \cup {c} ELSE admitted[k]
  BY DEF Consumed, Made
<1>2. /\ at'[c] = now
      /\ \A d \in admitted[k] : at'[d] = at[d]
      /\ now \in Nat /\ t \in Nat /\ Window[k] \in Nat \ {0}
  BY <1>1, LimitsAssumption DEF TypeOK
<1>3. \A d : d \in InWindow(k, t)' <=> d \in InWindow(k, t)
  BY <1>1, <1>2 DEF InWindow
<1>4. QED BY <1>3

LEMMA StepHits == TypeOK /\ HitsInv /\ [Next]_vars => HitsInv'
<1> SUFFICES ASSUME TypeOK, HitsInv, [Next]_vars PROVE HitsInv'
  OBVIOUS
<1>1. ASSUME NEW c \in Calls, NEW K \in SUBSET Keys, NEW by \in Keys \cup {None},
             Consumed(c, K, by)
      PROVE  HitsInv'
  <2>1. /\ at' = [at EXCEPT ![c] = now] /\ now' = now /\ now \in Nat
        /\ hits' = [k \in Keys |-> IF k \in K THEN Recent(k) \cup {c} ELSE hits[k]]
        /\ admitted' = [k \in Keys |-> IF k \in K THEN admitted[k] \cup {c} ELSE admitted[k]]
        /\ refusedBy' = [refusedBy EXCEPT ![c] = by]
    BY <1>1 DEF Consumed, TypeOK
  <2>2. \A k \in Keys : hits'[k] \subseteq admitted'[k]
    BY <2>1 DEF HitsInv, Recent
  <2>3. \A d \in Calls : Made(d)' => at'[d] <= now'
    <3>1. \A d \in Calls \ {c} : Made(d)' => Made(d) /\ at'[d] = at[d]
      BY <2>1 DEF Made, TypeOK
    <3>2. at'[c] <= now'
      BY <2>1 DEF TypeOK
    <3>3. QED BY <2>1, <3>1, <3>2 DEF HitsInv
  <2>4. ASSUME NEW k \in Keys, NEW d \in admitted'[k] \ hits'[k]
        PROVE  at'[d] + Window[k] <= now'
    <3>1. d \in admitted[k] /\ d # c
      BY <1>1, <2>1, <2>4 DEF Consumed, Made
    <3>2. at'[d] = at[d] /\ at[d] \in Nat /\ Window[k] \in Nat
      BY <2>1, <3>1, LimitsAssumption DEF TypeOK
    <3>3. d \notin hits[k] \/ d \in hits[k] \ Recent(k)
      BY <2>1, <2>4, <3>1
    <3>4. at[d] <= now
      BY <3>1 DEF HitsInv, Made, TypeOK
    <3>5. QED BY <2>1, <3>1, <3>2, <3>3, <3>4 DEF HitsInv, Recent
  <2>5. QED BY <2>2, <2>3, <2>4 DEF HitsInv
<1>2. ASSUME NEW c \in Calls, NEW k \in OtherKeys, Request(c, k)
      PROVE  HitsInv'
  BY <1>1, <1>2 DEF Request, Keys
<1>3. ASSUME NEW c \in Calls, Ask(c)
      PROVE  HitsInv'
  BY <1>1, <1>3 DEF Ask, Keys
<1>4. CASE Tick
  <2>1. /\ now' = now + 1 /\ now \in Nat
        /\ UNCHANGED <<at, hits, admitted, refusedBy>>
    BY <1>4 DEF Tick, TypeOK
  <2>2. \A c \in Calls : at[c] \in Nat
    BY DEF TypeOK
  <2>3. \A k \in Keys : Window[k] \in Nat
    BY LimitsAssumption
  <2>4. QED BY <2>1, <2>2, <2>3 DEF HitsInv, Made, TypeOK
<1>5. CASE UNCHANGED vars
  BY <1>5 DEF vars, HitsInv, Made
<1>6. QED BY <1>2, <1>3, <1>4, <1>5 DEF Next

\* consume() lets a call pass only where the window that ends now has room.
LEMMA ConsumedBound ==
    ASSUME TypeOK, HitsInv, WindowBound, NEW c \in Calls, NEW K \in SUBSET Keys,
           NEW by \in Keys \cup {None}, Consumed(c, K, by), \A k \in K : Allows(k)
    PROVE  WindowBound'
<1> SUFFICES ASSUME NEW k \in Keys, NEW t \in 0 .. now
             PROVE  Cardinality(InWindow(k, t)') <= Limit[k]
  BY DEF WindowBound, Consumed
<1>1. now \in Nat /\ t \in Nat /\ Limit[k] \in Nat
  BY LimitsAssumption DEF TypeOK
<1>2. CASE k \in K /\ t = now
  <2>1. Cardinality(InWindow(k, now)) < Limit[k]
    BY <1>2, RecentIsWindow DEF Allows
  <2>2. IsFiniteSet(InWindow(k, now)) /\ Cardinality(InWindow(k, now)) \in Nat
    BY <1>1, WindowFinite
  <2>3. Cardinality(InWindow(k, now) \cup {c}) <= Cardinality(InWindow(k, now)) + 1
    <3> DEFINE n == Cardinality(InWindow(k, now))
    <3>1. Cardinality(InWindow(k, now) \cup {c}) \in {n, n + 1}
      BY <2>2, FS_AddElement, Zenon
    <3>2. n \in Nat
      BY <2>2
    <3> HIDE DEF n
    <3>3. QED BY <3>1, <3>2 DEF n
  <2>4. IsFiniteSet(InWindow(k, now) \cup {c})
    BY <2>2, FS_AddElement
  <2>5. Cardinality(InWindow(k, now) \cup {c}) \in Nat
    BY <2>4, FS_CardinalityType
  <2>6. InWindow(k, t)' = InWindow(k, now) \cup {c}
    <3>1. InWindow(k, now)' = InWindow(k, now) \cup {c}
      BY <1>2, ConsumedHere
    <3>2. now' = now
      BY DEF Consumed
    <3>3. QED BY <1>2, <3>1, <3>2 DEF InWindow
  <2>7. QED BY <1>1, <2>1, <2>2, <2>3, <2>5, <2>6
<1>3. CASE ~(k \in K /\ t = now)
  <2>1. InWindow(k, t)' = InWindow(k, t)
    <3>1. k \notin K \/ t # now
      BY <1>3
    <3>2. QED BY <3>1, ConsumedElsewhere
  <2>2. QED BY <2>1 DEF WindowBound
<1>4. QED BY <1>2, <1>3

LEMMA StepWindows ==
    TypeOK /\ HitsInv /\ WindowBound /\ [Next]_vars => WindowBound'
<1> SUFFICES ASSUME TypeOK, HitsInv, WindowBound, [Next]_vars PROVE WindowBound'
  OBVIOUS
<1>1. ASSUME NEW c \in Calls, NEW K \in SUBSET Keys, NEW by \in Keys \cup {None},
             Consumed(c, K, by), \A k \in K : Allows(k)
      PROVE  WindowBound'
  BY <1>1, ConsumedBound
<1>2. ASSUME NEW c \in Calls, NEW k \in OtherKeys, Request(c, k)
      PROVE  WindowBound'
  <2>1. CASE Allows(k) /\ Consumed(c, {k}, None)
    BY <1>1, <2>1, LimitsAssumption DEF Keys
  <2>2. CASE ~Allows(k) /\ Consumed(c, {}, k)
    BY <1>1, <2>2 DEF Keys
  <2>3. QED BY <1>2, <2>1, <2>2 DEF Request
<1>3. ASSUME NEW c \in Calls, Ask(c)
      PROVE  WindowBound'
  <2>1. CASE ~Allows(Chat) /\ Consumed(c, {}, Chat)
    BY <1>1, <2>1 DEF Keys
  <2>2. CASE Allows(Chat) /\ ~Allows(ChatDay) /\ Consumed(c, {Chat}, ChatDay)
    BY <1>1, <2>2, LimitsAssumption DEF Keys
  <2>3. CASE Allows(Chat) /\ Allows(ChatDay) /\ Consumed(c, {Chat, ChatDay}, None)
    BY <1>1, <2>3, LimitsAssumption DEF Keys
  <2>4. QED BY <1>3, <2>1, <2>2, <2>3 DEF Ask
<1>4. CASE Tick
  <2>1. now' = now + 1 /\ now \in Nat /\ UNCHANGED <<at, hits, admitted, refusedBy>>
    BY <1>4 DEF Tick, TypeOK
  <2>2. ASSUME NEW k \in Keys, NEW t \in 0 .. now'
        PROVE  Cardinality(InWindow(k, t)') <= Limit[k]
    <3>1. InWindow(k, t)' = InWindow(k, t)
      BY <2>1 DEF InWindow
    <3>2. CASE t \in 0 .. now
      BY <3>1, <3>2 DEF WindowBound
    <3>3. CASE t = now + 1
      <4>1. /\ Window[k] \in Nat /\ Limit[k] \in Nat
            /\ \A c \in admitted[k] : at[c] \in Nat /\ at[c] <= now
        BY LimitsAssumption DEF TypeOK, HitsInv, Made
      <4>2. InWindow(k, t) \subseteq InWindow(k, now)
        BY <2>1, <3>3, <4>1 DEF InWindow
      <4>3. /\ IsFiniteSet(InWindow(k, now))
            /\ Cardinality(InWindow(k, now)) \in Nat
            /\ Cardinality(InWindow(k, t)) \in Nat
        BY <2>1, <3>3, WindowFinite
      <4>4. Cardinality(InWindow(k, t)) <= Cardinality(InWindow(k, now))
        BY <4>2, <4>3, FS_Subset
      <4>5. Cardinality(InWindow(k, now)) <= Limit[k]
        BY <2>1 DEF WindowBound
      <4>6. QED BY <3>1, <4>1, <4>3, <4>4, <4>5
    <3>4. QED BY <2>1, <3>2, <3>3
  <2>3. QED BY <2>2 DEF WindowBound
<1>5. CASE UNCHANGED vars
  BY <1>5 DEF vars, WindowBound, InWindow
<1>6. QED BY <1>2, <1>3, <1>4, <1>5 DEF Next

-------------------------------------------------------------------------------

\* No window ever holds more admitted calls than its limit.
THEOREM LimitsHold == Spec => []WindowBound
<1>1. Init => Inv
  <2> SUFFICES ASSUME Init PROVE Inv
    OBVIOUS
  <2>1. TypeOK
    BY InitType
  <2>2. \A c \in Calls : ~Made(c)
    BY DEF Init, Made
  <2>3. HitsInv
    BY <2>2 DEF Init, HitsInv
  <2>4. WindowBound
    <3> SUFFICES ASSUME NEW k \in Keys, NEW t \in 0 .. now
                 PROVE  Cardinality(InWindow(k, t)) <= Limit[k]
      BY DEF WindowBound
    <3>1. InWindow(k, t) = {}
      BY DEF Init, InWindow
    <3>2. Limit[k] \in Nat
      BY LimitsAssumption
    <3>3. QED BY <3>1, <3>2, FS_EmptySet
  <2>5. QED BY <2>1, <2>3, <2>4 DEF Inv
<1>2. Inv /\ [Next]_vars => Inv'
  BY StepType, StepHits, StepWindows DEF Inv
<1>3. Inv => WindowBound
  BY DEF Inv
<1>4. QED BY <1>1, <1>2, <1>3, PTL DEF Spec

\* A step of consume() is a call of the abstract limiter, which finds the same
\* windows full.
LEMMA ConsumedIsCall ==
    ASSUME TypeOK, HitsInv, NEW c \in Calls, NEW K \in SUBSET Keys,
           NEW by \in Keys \cup {None}, Consumed(c, K, by),
           \A k \in K : Allows(k), by \in Keys => ~Allows(by) /\ by \notin K,
           by = None => K # {}
    PROVE  Sliding!Call(c, by)
<1>1. ASSUME NEW k \in Keys
      PROVE  Sliding!Full(k) <=> ~Allows(k)
  <2>1. {d \in admitted[k] : now < at[d] + Window[k]} = InWindow(k, now)
    BY LimitsAssumption DEF InWindow, HitsInv, Made, TypeOK
  <2>2. Recent(k) = InWindow(k, now)
    BY RecentIsWindow
  <2>3. now \in Nat /\ Limit[k] \in Nat
    BY LimitsAssumption DEF TypeOK
  <2>4. Cardinality(Recent(k)) \in Nat
    BY <2>3, WindowFinite
  <2>5. Sliding!Full(k) <=>
          Cardinality({d \in admitted[k] : now < at[d] + Window[k]}) >= Limit[k]
    BY Zenon DEF Sliding!Full, Sliding!Cardinality, Cardinality
  <2>6. Sliding!Full(k) <=> Cardinality(Recent(k)) >= Limit[k]
    BY <2>1, <2>2, <2>5, Zenon
  <2>7. QED BY <2>3, <2>4, <2>6 DEF Allows
<1>2. /\ refusedBy[c] = None /\ \A k \in Keys : c \notin admitted[k]
      /\ at' = [at EXCEPT ![c] = now]
      /\ refusedBy' = [refusedBy EXCEPT ![c] = by]
      /\ \A k \in Keys : admitted'[k] = IF k \in K THEN admitted[k] \cup {c} ELSE admitted[k]
      /\ now' = now
  BY DEF Consumed, Made
<1>3. \A k \in Keys : \/ admitted'[k] = admitted[k]
                      \/ admitted'[k] = admitted[k] \cup {c} /\ ~Sliding!Full(k)
  BY <1>1, <1>2
<1>4. by \in Keys => Sliding!Full(by) /\ admitted'[by] = admitted[by]
  BY <1>1, <1>2
<1>5. by = None => \E k \in Keys : admitted'[k] # admitted[k]
  BY <1>2
<1>6. QED BY <1>2, <1>3, <1>4, <1>5 DEF Sliding!Call

LEMMA StepSlides == TypeOK /\ HitsInv /\ [Next]_vars => [Sliding!Next]_Sliding!vars
<1> SUFFICES ASSUME TypeOK, HitsInv, [Next]_vars PROVE [Sliding!Next]_Sliding!vars
  OBVIOUS
<1>1. ASSUME NEW c \in Calls, NEW K \in SUBSET Keys, NEW by \in Keys \cup {None},
             Consumed(c, K, by), \A k \in K : Allows(k),
             by \in Keys => ~Allows(by) /\ by \notin K, by = None => K # {}
      PROVE  Sliding!Next
  BY <1>1, ConsumedIsCall DEF Sliding!Next
<1>2. ASSUME NEW c \in Calls, NEW k \in OtherKeys, Request(c, k)
      PROVE  Sliding!Next
  <2>1. CASE Allows(k) /\ Consumed(c, {k}, None)
    BY <1>1, <2>1, LimitsAssumption DEF Keys
  <2>2. CASE ~Allows(k) /\ Consumed(c, {}, k)
    BY <1>1, <2>2, LimitsAssumption DEF Keys
  <2>3. QED BY <1>2, <2>1, <2>2 DEF Request
<1>3. ASSUME NEW c \in Calls, Ask(c)
      PROVE  Sliding!Next
  <2>1. CASE ~Allows(Chat) /\ Consumed(c, {}, Chat)
    BY <1>1, <2>1, LimitsAssumption DEF Keys
  <2>2. CASE Allows(Chat) /\ ~Allows(ChatDay) /\ Consumed(c, {Chat}, ChatDay)
    BY <1>1, <2>2, LimitsAssumption DEF Keys
  <2>3. CASE Allows(Chat) /\ Allows(ChatDay) /\ Consumed(c, {Chat, ChatDay}, None)
    BY <1>1, <2>3, LimitsAssumption DEF Keys
  <2>4. QED BY <1>3, <2>1, <2>2, <2>3 DEF Ask
<1>4. CASE Tick
  BY <1>4 DEF Tick, Sliding!Tick, Sliding!Next
<1>5. CASE UNCHANGED vars
  BY <1>5 DEF vars, Sliding!vars
<1>6. QED BY <1>2, <1>3, <1>4, <1>5 DEF Next

\* The limiter that forgets old hits implements the one that remembers every call.
THEOREM ImplementsWindow == Spec => AsIfNothingForgotten
<1>1. Init => Sliding!Init
  BY DEF Init, Sliding!Init
<1>2. Init => TypeOK /\ HitsInv
  <2>1. Init => \A c \in Calls : ~Made(c)
    BY DEF Init, Made
  <2>2. QED BY <2>1, InitType DEF Init, HitsInv
<1>3. TypeOK /\ HitsInv /\ [Next]_vars => (TypeOK /\ HitsInv)'
  BY StepType, StepHits
<1>4. TypeOK /\ HitsInv /\ [Next]_vars => [Sliding!Next]_Sliding!vars
  BY StepSlides
<1>5. QED BY <1>1, <1>2, <1>3, <1>4, PTL DEF Spec, AsIfNothingForgotten, Sliding!Spec

\* The calls counted for the day are the questions that were answered.
THEOREM DayBudget == Spec => []DayCountsAnsweredQuestions
<1>1. Init => DayCountsAnsweredQuestions
  BY DEF Init, DayCountsAnsweredQuestions, Keys
<1>2. TypeOK /\ DayCountsAnsweredQuestions /\ [Next]_vars => DayCountsAnsweredQuestions'
  <2> SUFFICES ASSUME TypeOK, DayCountsAnsweredQuestions, [Next]_vars
               PROVE  DayCountsAnsweredQuestions'
    OBVIOUS
  <2>1. ASSUME NEW c \in Calls, NEW K \in SUBSET Keys, NEW by \in Keys \cup {None},
               Consumed(c, K, by), ChatDay \in K <=> Chat \in K /\ by = None
        PROVE  DayCountsAnsweredQuestions'
    <3>1. /\ c \notin admitted[Chat] /\ c \notin admitted[ChatDay]
          /\ refusedBy' = [refusedBy EXCEPT ![c] = by]
          /\ admitted'[Chat] = IF Chat \in K THEN admitted[Chat] \cup {c} ELSE admitted[Chat]
          /\ admitted'[ChatDay] =
                IF ChatDay \in K THEN admitted[ChatDay] \cup {c} ELSE admitted[ChatDay]
      BY <2>1 DEF Consumed, Made, Keys
    <3>2. /\ refusedBy'[c] = by
          /\ \A d \in Calls \ {c} : refusedBy'[d] = refusedBy[d]
          /\ admitted[Chat] \subseteq Calls
      BY <3>1 DEF TypeOK, Keys
    <3>3. \A d : d \in admitted'[ChatDay] <=> d \in admitted'[Chat] /\ refusedBy'[d] = None
      BY <2>1, <3>1, <3>2 DEF DayCountsAnsweredQuestions
    <3>4. QED BY <3>3 DEF DayCountsAnsweredQuestions
  <2>2. ASSUME NEW c \in Calls, NEW k \in OtherKeys, Request(c, k)
        PROVE  DayCountsAnsweredQuestions'
    <3>1. CASE Consumed(c, {k}, None)
      BY <2>1, <3>1, LimitsAssumption DEF Keys
    <3>2. CASE Consumed(c, {}, k)
      BY <2>1, <3>2 DEF Keys
    <3>3. QED BY <2>2, <3>1, <3>2 DEF Request
  <2>3. ASSUME NEW c \in Calls, Ask(c)
        PROVE  DayCountsAnsweredQuestions'
    <3>1. CASE Consumed(c, {}, Chat)
      BY <2>1, <3>1 DEF Keys
    <3>2. CASE Consumed(c, {Chat}, ChatDay)
      BY <2>1, <3>2, LimitsAssumption DEF Keys
    <3>3. CASE Consumed(c, {Chat, ChatDay}, None)
      BY <2>1, <3>3, LimitsAssumption DEF Keys
    <3>4. QED BY <2>3, <3>1, <3>2, <3>3 DEF Ask
  <2>4. CASE Tick
    BY <2>4 DEF Tick, DayCountsAnsweredQuestions
  <2>5. CASE UNCHANGED vars
    BY <2>5 DEF vars, DayCountsAnsweredQuestions
  <2>6. QED BY <2>2, <2>3, <2>4, <2>5 DEF Next
<1>3. Spec => []TypeOK
  BY InitType, StepType, PTL DEF Spec
<1>4. QED BY <1>1, <1>2, <1>3, PTL DEF Spec

-------------------------------------------------------------------------------
(* The address a request is counted under. *)

LEMMA LastEntry ==
    ASSUME NEW entries \in Seq(Addresses \cup {Blank}), NEW a \in Addresses
    PROVE  LET all == Append(entries, a)
           IN  Given(all) # {} /\ Forwarded(all) = a
<1> DEFINE all == Append(entries, a)
<1>1. PICK n \in Nat : n = Len(entries) + 1
  BY LenProperties
<1>2. DOMAIN all = 1 .. n /\ all[n] = a
  BY <1>1, AppendProperties, LenProperties
<1> HIDE DEF all
<1>3. n \in Given(all) /\ \A i \in Given(all) : i \in Nat /\ i <= n
  BY <1>1, <1>2, AddressesAssumption DEF Given
<1>4. Max(Given(all)) = n
  <2>1. \A m \in Given(all) : n <= m => m = n
    BY <1>3
  <2>2. QED BY <1>3, <2>1 DEF Max
<1>5. QED BY <1>2, <1>3, <1>4 DEF Forwarded, all

\* Whatever header entries a visitor sends along, and however many.
LEMMA AddressFound ==
    ASSUME NEW r \in [realIp : Addresses \cup {Blank},
                      forwardedFor : Seq(Addresses \cup {Blank}),
                      socket : Addresses \cup {Blank}]
    PROVE  IsCountedUnderOwnAddress(r)
<1>1. ASSUME NEW a \in Addresses, NEW q \in ThroughApache(r, a)
      PROVE  ClientIp(q) = a
  <2>1. PICK i \in {a, Blank} :
           q = [realIp |-> i, forwardedFor |-> Append(r.forwardedFor, a), socket |-> r.socket]
    BY <1>1 DEF ThroughApache
  <2>2. q.realIp = i /\ q.forwardedFor = Append(r.forwardedFor, a)
    BY <2>1
  <2>3. Given(q.forwardedFor) # {} /\ Forwarded(q.forwardedFor) = a
    BY <2>2, LastEntry
  <2>4. i # Blank => i = a
    BY <2>1
  <2>5. QED BY <2>2, <2>3, <2>4 DEF ClientIp
<1>2. ASSUME r.realIp = Blank, r.forwardedFor = <<>>
      PROVE  ClientIp(r) = IF r.socket = Blank THEN Unknown ELSE r.socket
  <2>1. Given(r.forwardedFor) = {}
    BY <1>2 DEF Given
  <2>2. QED BY <1>2, <2>1 DEF ClientIp
<1>3. QED BY <1>1, <1>2 DEF IsCountedUnderOwnAddress

\* Behind Apache every request is counted under the address Apache saw (clientIp): for
\* any addresses and any number of entries sent along.
THEOREM OwnAddress == MCSpec => []CountedUnderOwnAddress
<1>1. ASSUME NEW r \in Sent PROVE IsCountedUnderOwnAddress(r)
  <2>1. \A s \in SeqOf(Addresses \cup {Blank}, MaxEntries) : s \in Seq(Addresses \cup {Blank})
    BY AddressesAssumption DEF SeqOf
  <2>2. r \in [realIp : Addresses \cup {Blank}, forwardedFor : Seq(Addresses \cup {Blank}),
               socket : Addresses \cup {Blank}]
    BY <2>1 DEF Sent
  <2>3. QED BY <2>2, AddressFound
<1>2. MCInit => request \in Sent \cup {None}
  BY DEF MCInit
<1>3. request \in Sent \cup {None} /\ [MCNext]_mcvars => (request \in Sent \cup {None})'
  BY DEF MCNext, mcvars
<1>4. request \in Sent \cup {None} => CountedUnderOwnAddress
  BY <1>1 DEF CountedUnderOwnAddress
<1>5. QED BY <1>2, <1>3, <1>4, PTL DEF MCSpec
===============================================================================
