------------------------- MODULE MCChatRequests_proofs -------------------------
(* What an answer stream writes to the page, for any number of events, heartbeats *)
(* and chunks, and that a synthesis of speech is answered.  The text that is not   *)
(* written yet, in the buffer and on its way, holds exactly the events that are     *)
(* missing on the page: that is Unread, and the rest of the module shows that every  *)
(* chunk, wherever it is cut, moves whole events from the one to the other.         *)
EXTENDS MCChatRequests, FiniteSetTheorems, FunctionTheorems, SequenceTheorems, TLAPS

Pieces == Half \cup {NL}

Lines == Events \cup {Done, Error, Ping}

\* A text of the events of `lines` after the first w, each followed by an empty line;
\* a break comes in no other place.
Holds(text, lines, w) ==
    LET n == Len(lines) - w IN
    /\ n \in Nat
    /\ 4 * n <= Len(text) /\ Len(text) <= 4 * n + 2
    /\ \A k \in 1 .. n :
          /\ text[4 * k - 3] = [of |-> lines[w + k], half |-> 1]
          /\ text[4 * k - 2] = [of |-> lines[w + k], half |-> 2]
          /\ text[4 * k - 1] = NL /\ text[4 * k] = NL
    /\ \A i \in (4 * n + 1) .. Len(text) : text[i] # NL

\* The events of the response, [DONE] with them.
Whole == IF api = "done" THEN Append(sent, Done) ELSE sent

StreamType ==
    /\ at \in {"fetch", "reading", "ended"}
    /\ api \in {"open", "done", "closed", "broken"}
    /\ sent \in Seq(Events) /\ page \in Seq(Lines)
    /\ wire \in Seq(Pieces) /\ buffer \in Seq(Pieces)
    /\ aborted \in BOOLEAN

\* What has not been written is in the buffer and on the wire; only a response that
\* has been closed ends with a part of an event.
Unread ==
    /\ Cardinality(EventLines) <= Len(sent)
    /\ at = "fetch" => api = "open" /\ sent = <<>> /\ wire = <<>> /\ buffer = <<>>
    /\ at = "reading" /\ api = "broken" => wire = <<>>
    /\ at = "reading" /\ api # "broken" =>
          /\ Holds(buffer \o wire, Whole, Cardinality(EventLines))
          /\ api # "closed" =>
                Len(buffer \o wire) = 4 * (Len(Whole) - Cardinality(EventLines))

\* The events on the page are those that were sent, in their order.
ShownInOrder == \A i \in EventLines : Nth(i) <= Len(sent) /\ page[i] = sent[Nth(i)]

StreamInv ==
    /\ StreamType
    /\ at # "ended" => Count(Done) = 0 /\ Count(Error) = 0
    /\ Unread
    /\ PassedThrough
    /\ LastWord

-------------------------------------------------------------------------------
(* Splitting the text. *)

LEMMA Blocks ==
    ASSUME NEW i \in Nat \ {0}
    PROVE  \E k \in Nat \ {0} : i \in {4 * k - 3, 4 * k - 2, 4 * k - 1, 4 * k}
<1>1. PICK k \in Nat : k = (i + 3) \div 4
  OBVIOUS
<1>2. k # 0 /\ i \in {4 * k - 3, 4 * k - 2, 4 * k - 1, 4 * k}
  BY <1>1
<1>3. QED BY <1>2

\* The places of the first q separators.
Marks(q) == {4 * r - 1 : r \in 1 .. q}

LEMMA CountMarks ==
    ASSUME NEW q \in Nat
    PROVE  IsFiniteSet(Marks(q)) /\ Cardinality(Marks(q)) = q
<1> DEFINE f == [r \in 1 .. q |-> 4 * r - 1]
<1>1. f \in Bijection(1 .. q, Marks(q))
  <2>1. f \in [1 .. q -> Marks(q)]
    BY DEF Marks
  <2>2. \A a, b \in 1 .. q : f[a] = f[b] => a = b
    OBVIOUS
  <2>3. \A t \in Marks(q) : \E s \in 1 .. q : f[s] = t
    BY DEF Marks
  <2> HIDE DEF f
  <2>4. QED BY <2>1, <2>2, <2>3, Fun_IsBij
<1>2. IsFiniteSet(1 .. q) /\ Cardinality(1 .. q) = q
  BY FS_Interval
<1>3. QED BY <1>1, <1>2, FS_Bijection DEF ExistsBijection

LEMMA SeqOfFunction ==
    ASSUME NEW m \in Nat, NEW A, NEW f \in [1 .. m -> A]
    PROVE  f \in Seq(A) /\ Len(f) = m
OBVIOUS

\* A text of m events with their separators and a rest that has none.
Split(text, lines, w, m) ==
    /\ text \in Seq(Pieces) /\ lines \in Seq(Events \cup {Done})
    /\ w \in Nat /\ m \in Nat /\ w + m <= Len(lines) /\ 4 * m <= Len(text)
    /\ \A k \in 1 .. m :
          /\ text[4 * k - 3] = [of |-> lines[w + k], half |-> 1]
          /\ text[4 * k - 2] = [of |-> lines[w + k], half |-> 2]
          /\ text[4 * k - 1] = NL /\ text[4 * k] = NL
    /\ 4 * m < Len(text) => text[4 * m + 1] # NL
    /\ \A i \in (4 * m + 1) .. (Len(text) - 1) : ~(text[i] = NL /\ text[i + 1] = NL)

LEMMA SeparatorsFound ==
    ASSUME NEW text, NEW lines, NEW w, NEW m, Split(text, lines, w, m)
    PROVE  Separators(text) = Marks(m)
<1>1. /\ Len(text) \in Nat /\ m \in Nat /\ w \in Nat /\ w + m <= Len(lines)
      /\ Len(lines) \in Nat /\ 4 * m <= Len(text)
  BY LenProperties DEF Split
<1>2. \A k \in 1 .. m : lines[w + k] \in Events \cup {Done}
  <2>1. \A k \in 1 .. m : w + k \in 1 .. Len(lines)
    BY <1>1
  <2>2. QED BY <2>1, ElementOfSeq DEF Split
<1>3. \A k \in 1 .. m : /\ text[4 * k - 3] # NL /\ text[4 * k - 2] # NL
                        /\ text[4 * k - 1] = NL /\ text[4 * k] = NL
  <2> SUFFICES ASSUME NEW k \in 1 .. m
               PROVE  /\ text[4 * k - 3] # NL /\ text[4 * k - 2] # NL
                      /\ text[4 * k - 1] = NL /\ text[4 * k] = NL
    OBVIOUS
  <2>1. /\ [of |-> lines[w + k], half |-> 1] \in Half
        /\ [of |-> lines[w + k], half |-> 2] \in Half
    BY <1>2 DEF Half
  <2>2. QED BY <2>1, LinesAssumption DEF Split
<1>4. ASSUME NEW k \in 1 .. m
      PROVE  4 * k - 1 \in Separators(text)
  <2>1. 4 * k - 1 \in 1 .. (Len(text) - 1) /\ (4 * k - 1) + 1 = 4 * k
    BY <1>1
  <2>2. QED BY <1>3, <2>1 DEF Separators
<1>5. ASSUME NEW i \in Separators(text)
      PROVE  i \in Marks(m)
  <2>1. i \in 1 .. (Len(text) - 1) /\ text[i] = NL /\ text[i + 1] = NL
    BY <1>5 DEF Separators
  <2>2. i <= 4 * m
    BY <1>1, <2>1 DEF Split
  <2>3. PICK k \in Nat \ {0} : i \in {4 * k - 3, 4 * k - 2, 4 * k - 1, 4 * k}
    <3>1. i \in Nat \ {0}
      BY <1>1, <2>1
    <3>2. QED BY <3>1, Blocks
  <2>4. k \in 1 .. m
    BY <1>1, <2>2, <2>3
  <2>5. i # 4 * k
    <3> SUFFICES ASSUME i = 4 * k PROVE FALSE
      OBVIOUS
    <3>1. CASE k = m
      BY <1>1, <2>1, <3>1 DEF Split
    <3>2. CASE k # m
      <4>1. k + 1 \in 1 .. m /\ 4 * (k + 1) - 3 = i + 1
        BY <1>1, <2>4, <3>2
      <4>2. QED BY <1>3, <2>1, <4>1
    <3>3. QED BY <3>1, <3>2
  <2>6. i = 4 * k - 1
    BY <1>3, <2>1, <2>3, <2>4, <2>5
  <2>7. QED BY <2>4, <2>6 DEF Marks
<1>6. QED BY <1>4, <1>5 DEF Marks

LEMMA CutFound ==
    ASSUME NEW text, NEW lines, NEW w, NEW m, Split(text, lines, w, m), NEW k \in 1 .. m
    PROVE  Cut(text, k) = 4 * k - 1
<1>1. m \in Nat /\ Separators(text) = Marks(m)
  BY SeparatorsFound DEF Split
<1>2. ASSUME NEW q \in 1 .. m
      PROVE  Cardinality({j \in Marks(m) : j <= 4 * q - 1}) = q
  <2>1. {j \in Marks(m) : j <= 4 * q - 1} = Marks(q)
    BY <1>1 DEF Marks
  <2>2. QED BY <1>1, <2>1, CountMarks
<1>3. \A i \in Marks(m) : Cardinality({j \in Marks(m) : j <= i}) = k <=> i = 4 * k - 1
  BY <1>1, <1>2 DEF Marks
<1>4. 4 * k - 1 \in Marks(m)
  BY DEF Marks
<1>5. QED BY <1>1, <1>3, <1>4 DEF Cut

\* readEvents finds the events, and keeps the rest.
LEMMA SplitFound ==
    ASSUME NEW text, NEW lines, NEW w, NEW m, Split(text, lines, w, m)
    PROVE  /\ Parts(text) = [k \in 1 .. m |-> Body(lines[w + k])]
           /\ Rest(text) = SubSeq(text, 4 * m + 1, Len(text))
<1>1. /\ m \in Nat /\ Len(text) \in Nat /\ 4 * m <= Len(text)
      /\ text \in Seq(Pieces) /\ \A i \in 1 .. Len(text) : text[i] \in Pieces
  BY LenProperties, ElementOfSeq DEF Split
<1>2. Separators(text) = Marks(m) /\ Cardinality(Marks(m)) = m
  BY <1>1, SeparatorsFound, CountMarks
<1>3. ASSUME NEW k \in 1 .. m
      PROVE  SubSeq(text, IF k = 1 THEN 1 ELSE Cut(text, k - 1) + 2, Cut(text, k) - 1)
                = Body(lines[w + k])
  <2>1. Cut(text, k) = 4 * k - 1
    BY CutFound
  <2>2. k # 1 => Cut(text, k - 1) = 4 * k - 5
    <3>1. k # 1 => k - 1 \in 1 .. m /\ 4 * (k - 1) - 1 = 4 * k - 5
      BY <1>1
    <3>2. \A q \in 1 .. m : Cut(text, q) = 4 * q - 1
      BY CutFound
    <3>3. QED BY <3>1, <3>2
  <2>3. PICK a \in Nat, b \in Nat : a = 4 * k - 3 /\ b = 4 * k - 2
    BY <1>1
  <2>4. (IF k = 1 THEN 1 ELSE Cut(text, k - 1) + 2) = a /\ Cut(text, k) - 1 = b
    BY <1>1, <2>1, <2>2, <2>3
  <2>5. \A i \in a .. b : text[i] \in Pieces
    BY <1>1, <2>3
  <2>6. /\ SubSeq(text, a, b) \in Seq(Pieces)
        /\ Len(SubSeq(text, a, b)) = IF a <= b THEN b - a + 1 ELSE 0
        /\ \A i \in 1 .. b - a + 1 : SubSeq(text, a, b)[i] = text[a + i - 1]
    BY <2>5, SubSeqProperties
  <2>7. a <= b /\ b - a + 1 = 2 /\ a + 1 - 1 = a /\ a + 2 - 1 = b
    BY <1>1, <2>3
  <2>8. /\ Len(SubSeq(text, a, b)) = 2
        /\ SubSeq(text, a, b)[1] = text[a] /\ SubSeq(text, a, b)[2] = text[b]
    BY <2>6, <2>7
  <2>9. /\ text[a] = [of |-> lines[w + k], half |-> 1]
        /\ text[b] = [of |-> lines[w + k], half |-> 2]
    BY <2>3 DEF Split
  <2>10. /\ text[a] \in Pieces /\ text[b] \in Pieces
    BY <2>5, <2>7
  <2>11. SubSeq(text, a, b) = <<text[a], text[b]>>
    <3> DEFINE s == SubSeq(text, a, b)
               t == <<text[a], text[b]>>
    <3>1. t \in Seq(Pieces) /\ Len(t) = 2 /\ t[1] = text[a] /\ t[2] = text[b]
      BY <2>10
    <3>2. s \in Seq(Pieces) /\ Len(s) = 2 /\ s[1] = text[a] /\ s[2] = text[b]
      BY <2>6, <2>8
    <3> HIDE DEF s, t
    <3>3. s = t
      BY <3>1, <3>2, SeqEqual
    <3>4. QED BY <3>3 DEF s, t
  <2>12. QED BY <2>4, <2>9, <2>11 DEF Body
<1>4. Parts(text) = [k \in 1 .. m |-> Body(lines[w + k])]
  BY <1>2, <1>3 DEF Parts
<1>5. Rest(text) = SubSeq(text, 4 * m + 1, Len(text))
  <2>1. CASE m = 0
    <3>1. Separators(text) = {} /\ 4 * m + 1 = 1
      BY <1>2, <2>1 DEF Marks
    <3>2. SubSeq(text, 1, Len(text)) = text
      BY <1>1, SubSeqFull
    <3>3. QED BY <3>1, <3>2 DEF Rest
  <2>2. CASE m # 0
    <3>1. 4 * m - 1 \in Marks(m) /\ \A i \in Marks(m) : i <= 4 * m - 1
      BY <1>1, <2>2 DEF Marks
    <3>2. \A i \in Marks(m) : i \in Nat
      BY <1>1 DEF Marks
    <3>3. Max(Separators(text)) = 4 * m - 1
      BY <1>1, <1>2, <3>1, <3>2 DEF Max
    <3>4. Max(Separators(text)) + 2 = 4 * m + 1 /\ Separators(text) # {}
      BY <1>1, <1>2, <3>1, <3>3
    <3>5. QED BY <3>4 DEF Rest
  <2>3. QED BY <2>1, <2>2
<1>6. QED BY <1>4, <1>5

LEMMA BodyLemma ==
    ASSUME NEW a, NEW b
    PROVE  /\ Body(a) = Body(b) => a = b
           /\ EventOf(Body(a)) = a
<1>1. EventOf(Body(a)) = a /\ EventOf(Body(b)) = b
  BY DEF Body, EventOf
<1>2. QED BY <1>1

\* The lines that are written: the events before [DONE].
Found(parts, lines, w, m) ==
    LET ready == IF m > 0 /\ lines[w + m] = Done THEN m - 1 ELSE m
        out == [k \in DOMAIN Readable(parts) |-> EventOf(parts[k])]
    IN  /\ out = [k \in 1 .. ready |-> lines[w + k]]
        /\ out \in Seq(Events) /\ Len(out) = ready
        /\ Len(parts) = m

LEMMA ReadableFound ==
    ASSUME NEW lines \in Seq(Events \cup {Done}), NEW w \in Nat, NEW m \in Nat,
           w + m <= Len(lines),
           \A k \in 1 .. m : lines[w + k] = Done => k = m,
           NEW parts, parts = [k \in 1 .. m |-> Body(lines[w + k])]
    PROVE  Found(parts, lines, w, m)
<1> DEFINE ready == IF m > 0 /\ lines[w + m] = Done THEN m - 1 ELSE m
           stops == {k \in DOMAIN parts : ~Parses(parts[k])}
           out == [k \in DOMAIN Readable(parts) |-> EventOf(parts[k])]
<1>1. ready \in Nat /\ ready <= m
  OBVIOUS
<1>2. \A k \in 1 .. m : lines[w + k] \in Events \cup {Done}
  <2>1. \A k \in 1 .. m : w + k \in 1 .. Len(lines)
    BY LenProperties
  <2>2. QED BY <2>1, ElementOfSeq
<1>3. \A k \in 1 .. m : /\ Parses(parts[k]) <=> lines[w + k] # Done
                        /\ EventOf(parts[k]) = lines[w + k]
  BY <1>2, BodyLemma, LinesAssumption DEF Parses
<1>4. \A k \in 1 .. ready : k \in 1 .. m /\ lines[w + k] # Done
  OBVIOUS
<1>5. parts \in Seq({Body(lines[w + k]) : k \in 1 .. m}) /\ Len(parts) = m /\ DOMAIN parts = 1 .. m
  <2>1. parts \in [1 .. m -> {Body(lines[w + k]) : k \in 1 .. m}]
    OBVIOUS
  <2>2. QED BY <2>1, SeqOfFunction
<1>6. DOMAIN Readable(parts) = 1 .. ready
  <2>1. \A k \in 1 .. m : k \in stops <=> lines[w + k] = Done
    BY <1>3, <1>5
  <2>2. stops \subseteq 1 .. m /\ (m > 0 => m \in 1 .. m)
    BY <1>5
  <2>3. Readable(parts) = IF stops = {} THEN parts ELSE SubSeq(parts, 1, Min(stops) - 1)
    BY DEF Readable
  <2> HIDE DEF stops
  <2>4. CASE stops = {}
    <3>1. m > 0 => lines[w + m] # Done
      BY <2>1, <2>2, <2>4
    <3>2. QED BY <1>5, <2>3, <2>4, <3>1
  <2>5. CASE stops # {}
    <3>1. PICK k \in 1 .. m : k \in stops /\ lines[w + k] = Done
      BY <2>1, <2>2, <2>5
    <3>2. k = m
      BY <3>1
    <3>3. m > 0 /\ lines[w + m] = Done /\ m \in stops /\ \A j \in stops : j = m
      <4>1. ASSUME NEW j \in stops PROVE j = m
        <5>1. j \in 1 .. m
          BY <2>2, <4>1
        <5>2. lines[w + j] = Done
          BY <2>1, <4>1, <5>1
        <5>3. QED BY <5>1, <5>2
      <4>2. m > 0
        BY <3>1
      <4>3. QED BY <3>1, <3>2, <4>1, <4>2
    <3>4. Min(stops) = m
      <4>1. m <= m /\ \A y \in stops : m <= y
        BY <3>3
      <4>2. \E x \in stops : \A y \in stops : x <= y
        BY <3>3, <4>1
      <4>3. Min(stops) \in stops
        BY <4>2 DEF Min
      <4>4. QED BY <3>3, <4>3
    <3>5. Readable(parts) = SubSeq(parts, 1, ready)
      BY <2>3, <2>5, <3>3, <3>4
    <3>6. \A i \in 1 .. ready : parts[i] \in {Body(lines[w + j]) : j \in 1 .. m}
      BY <1>1
    <3> HIDE DEF ready
    <3>7. /\ SubSeq(parts, 1, ready) \in Seq({Body(lines[w + j]) : j \in 1 .. m})
          /\ Len(SubSeq(parts, 1, ready)) = IF 1 <= ready THEN ready - 1 + 1 ELSE 0
      BY <1>1, <3>6, SubSeqProperties
    <3>8. Len(SubSeq(parts, 1, ready)) = ready
      BY <1>1, <3>7
    <3>9. QED BY <3>5, <3>7, <3>8, LenProperties
  <2>6. QED BY <2>4, <2>5
<1> HIDE DEF ready
<1>7. out = [k \in 1 .. ready |-> lines[w + k]]
  BY <1>3, <1>4, <1>6
<1>8. out \in [1 .. ready -> Events]
  BY <1>2, <1>4, <1>7
<1>9. out \in Seq(Events) /\ Len(out) = ready
  BY <1>1, <1>8, SeqOfFunction
<1>10. QED BY <1>5, <1>7, <1>9 DEF Found, ready

-------------------------------------------------------------------------------
(* Writing lines. *)

LEMMA FourLines ==
    /\ Done # Error /\ Done # Ping /\ Error # Ping
    /\ Done \notin Events /\ Error \notin Events /\ Ping \notin Events
<1>1. Cardinality({Done, Error, Ping, NL}) = 4
  BY LinesAssumption
<1>2. \A x, y, z : Cardinality({x, y, z}) <= 3
  <2> SUFFICES ASSUME NEW x, NEW y, NEW z PROVE Cardinality({x, y, z}) <= 3
    OBVIOUS
  <2>1. IsFiniteSet({x}) /\ Cardinality({x}) = 1
    BY FS_Singleton
  <2>2. {x} \cup {y} = {x, y} /\ {x, y} \cup {z} = {x, y, z}
    OBVIOUS
  <2>3. /\ IsFiniteSet({x} \cup {y})
        /\ Cardinality({x} \cup {y}) = IF y \in {x} THEN 1 ELSE 2
    BY <2>1, FS_AddElement
  <2>4. IsFiniteSet({x, y}) /\ Cardinality({x, y}) \in {1, 2}
    BY <2>2, <2>3
  <2>5. Cardinality({x, y} \cup {z}) =
           IF z \in {x, y} THEN Cardinality({x, y}) ELSE Cardinality({x, y}) + 1
    BY <2>4, FS_AddElement
  <2>6. QED BY <2>2, <2>4, <2>5
<1>3. Done # Error
  <2> SUFFICES ASSUME Done = Error PROVE FALSE
    OBVIOUS
  <2>1. {Done, Error, Ping, NL} = {Done, Ping, NL}
    OBVIOUS
  <2>2. Cardinality({Done, Ping, NL}) <= 3
    BY <1>2
  <2>3. QED BY <1>1, <2>1, <2>2
<1>4. Done # Ping
  <2> SUFFICES ASSUME Done = Ping PROVE FALSE
    OBVIOUS
  <2>1. {Done, Error, Ping, NL} = {Done, Error, NL}
    OBVIOUS
  <2>2. Cardinality({Done, Error, NL}) <= 3
    BY <1>2
  <2>3. QED BY <1>1, <2>1, <2>2
<1>5. Error # Ping
  <2> SUFFICES ASSUME Error = Ping PROVE FALSE
    OBVIOUS
  <2>1. {Done, Error, Ping, NL} = {Done, Error, NL}
    OBVIOUS
  <2>2. Cardinality({Done, Error, NL}) <= 3
    BY <1>2
  <2>3. QED BY <1>1, <2>1, <2>2
<1>6. QED BY <1>3, <1>4, <1>5, LinesAssumption

\* What is written at once: events, and at most one other line after them.
Writes(evs, tail) ==
    /\ page \in Seq(Lines) /\ evs \in Seq(Events)
    /\ tail = <<>> \/ \E x \in {Done, Error, Ping} : tail = <<x>>
    /\ page' = page \o (evs \o tail)

LEMMA LinesWritten ==
    ASSUME NEW evs, NEW tail, Writes(evs, tail)
    PROVE  /\ page' \in Seq(Lines) /\ Len(page) \in Nat /\ Len(evs) \in Nat
           /\ Len(page') = Len(page) + Len(evs) + (IF tail = <<>> THEN 0 ELSE 1)
           /\ \A i \in 1 .. Len(page) : page'[i] = page[i]
           /\ \A j \in 1 .. Len(evs) : page'[Len(page) + j] = evs[j]
           /\ tail # <<>> => page'[Len(page) + Len(evs) + 1] = tail[1]
<1>1. /\ page \in Seq(Lines) /\ evs \in Seq(Lines) /\ tail \in Seq(Lines)
      /\ Len(page) \in Nat /\ Len(evs) \in Nat
      /\ Len(tail) = IF tail = <<>> THEN 0 ELSE 1
  <2>1. evs \in Seq(Lines)
    BY SeqMonotonic DEF Writes, Lines
  <2>2. tail \in Seq(Lines) /\ Len(tail) = IF tail = <<>> THEN 0 ELSE 1
    <3>1. CASE tail = <<>>
      BY <3>1, EmptySeq
    <3>2. CASE \E x \in {Done, Error, Ping} : tail = <<x>>
      BY <3>2 DEF Lines
    <3>3. QED BY <3>1, <3>2 DEF Writes
  <2>3. QED BY <2>1, <2>2, LenProperties DEF Writes
<1> DEFINE new == evs \o tail
<1>2. /\ new \in Seq(Lines) /\ Len(new) = Len(evs) + Len(tail)
      /\ \A j \in 1 .. Len(evs) + Len(tail) :
            new[j] = IF j <= Len(evs) THEN evs[j] ELSE tail[j - Len(evs)]
  BY <1>1, ConcatProperties
<1>3. page' = page \o new
  BY DEF Writes
<1> HIDE DEF new
<1>4. /\ page' \in Seq(Lines) /\ Len(page') = Len(page) + Len(new)
      /\ \A i \in 1 .. Len(page) + Len(new) :
            page'[i] = IF i <= Len(page) THEN page[i] ELSE new[i - Len(page)]
  <2>1. page \in Seq(Lines) /\ new \in Seq(Lines)
    BY <1>1, <1>2
  <2>2. /\ page \o new \in Seq(Lines) /\ Len(page \o new) = Len(page) + Len(new)
        /\ \A i \in 1 .. Len(page) + Len(new) :
              (page \o new)[i] = IF i <= Len(page) THEN page[i] ELSE new[i - Len(page)]
    BY <2>1, ConcatProperties
  <2>3. QED BY <1>3, <2>2
<1>5. \A i \in 1 .. Len(page) : page'[i] = page[i]
  BY <1>1, <1>2, <1>4
<1>6. ASSUME NEW j \in 1 .. Len(evs) + Len(tail)
      PROVE  page'[Len(page) + j] = new[j]
  <2>1. /\ Len(page) + j \in 1 .. Len(page) + Len(new) /\ ~(Len(page) + j <= Len(page))
        /\ (Len(page) + j) - Len(page) = j
    BY <1>1, <1>2
  <2>2. QED BY <1>4, <2>1
<1>7. \A j \in 1 .. Len(evs) : page'[Len(page) + j] = evs[j]
  <2>1. \A j \in 1 .. Len(evs) : j \in 1 .. Len(evs) + Len(tail) /\ j <= Len(evs)
    BY <1>1
  <2>2. QED BY <1>2, <1>6, <2>1
<1>8. ASSUME tail # <<>>
      PROVE  page'[Len(page) + Len(evs) + 1] = tail[1]
  <2>1. PICK j \in Nat : j = Len(evs) + 1
    BY <1>1
  <2>2. /\ j \in 1 .. Len(evs) + Len(tail) /\ ~(j <= Len(evs)) /\ j - Len(evs) = 1
        /\ Len(page) + j = Len(page) + Len(evs) + 1
    BY <1>1, <1>8, <2>1
  <2>3. QED BY <1>2, <1>6, <2>2
<1>9. Len(page') = Len(page) + Len(evs) + (IF tail = <<>> THEN 0 ELSE 1)
  <2>1. Len(page') = Len(page) + (Len(evs) + Len(tail))
    BY <1>2, <1>4
  <2>2. Len(page) + (Len(evs) + Len(tail)) = Len(page) + Len(evs) + Len(tail)
    BY <1>1
  <2>3. QED BY <1>1, <2>1, <2>2
<1>10. QED BY <1>1, <1>4, <1>5, <1>7, <1>8, <1>9

\* A set of places with the places of k more lines.
LEMMA BlockCounted ==
    ASSUME NEW n \in Nat, NEW k \in Nat, NEW A \in SUBSET (1 .. n)
    PROVE  /\ IsFiniteSet(A) /\ Cardinality(A) \in Nat
           /\ Cardinality(A \cup (n + 1 .. n + k)) = Cardinality(A) + k
<1>1. IsFiniteSet(A) /\ Cardinality(A) \in Nat
  <2>1. IsFiniteSet(1 .. n)
    BY FS_Interval
  <2>2. IsFiniteSet(A)
    BY <2>1, FS_Subset
  <2>3. QED BY <2>2, FS_CardinalityType
<1>2. IsFiniteSet(n + 1 .. n + k) /\ Cardinality(n + 1 .. n + k) = k
  <2>1. PICK a \in Nat, b \in Nat : a = n + 1 /\ b = n + k
    OBVIOUS
  <2>2. IsFiniteSet(a .. b) /\ Cardinality(a .. b) = IF a > b THEN 0 ELSE b - a + 1
    BY FS_Interval
  <2>3. (IF a > b THEN 0 ELSE b - a + 1) = k
    BY <2>1
  <2>4. QED BY <2>1, <2>2, <2>3
<1>3. A \cap (n + 1 .. n + k) = {}
  OBVIOUS
<1>4. Cardinality(A \cap (n + 1 .. n + k)) = 0
  BY <1>3, FS_EmptySet
<1>5. Cardinality(A \cup (n + 1 .. n + k)) = Cardinality(A) + k - 0
  <2> DEFINE T == n + 1 .. n + k
  <2>1. IsFiniteSet(T) /\ Cardinality(T) = k /\ Cardinality(A \cap T) = 0
    BY <1>2, <1>4
  <2> HIDE DEF T
  <2>2. Cardinality(A \cup T) = Cardinality(A) + Cardinality(T) - Cardinality(A \cap T)
    BY <1>1, <2>1, FS_Union
  <2>3. QED BY <2>1, <2>2 DEF T
<1>6. QED BY <1>1, <1>5

\* How the numbers of the lines change.
LEMMA LinesCounted ==
    ASSUME NEW evs, NEW tail, Writes(evs, tail)
    PROVE  /\ IsFiniteSet(EventLines) /\ Cardinality(EventLines) \in Nat
           /\ EventLines \subseteq 1 .. Len(page)
           /\ EventLines' = EventLines \cup (Len(page) + 1 .. Len(page) + Len(evs))
           /\ Cardinality(EventLines') = Cardinality(EventLines) + Len(evs)
           /\ \A x \in {Done, Error} :
                 /\ Count(x) \in Nat
                 /\ Count(x)' = Count(x) + (IF tail = <<x>> THEN 1 ELSE 0)
<1> DEFINE n == Len(page)
           k == Len(evs)
<1>1. /\ n \in Nat /\ k \in Nat
      /\ page' \in Seq(Lines) /\ Len(page') = n + k + (IF tail = <<>> THEN 0 ELSE 1)
      /\ \A i \in 1 .. n : page'[i] = page[i]
      /\ \A j \in 1 .. k : page'[n + j] = evs[j] /\ evs[j] \in Events
      /\ tail # <<>> => page'[n + k + 1] = tail[1]
  BY LinesWritten, ElementOfSeq DEF Writes
<1>2. DOMAIN page = 1 .. n /\ DOMAIN page' = 1 .. Len(page')
  BY <1>1, LenProperties DEF Writes
<1>3. tail # <<>> => tail[1] \in {Done, Error, Ping} /\ tail = <<tail[1]>>
  BY DEF Writes
<1> HIDE DEF n, k
<1>4. \A i \in DOMAIN page' : \/ i \in 1 .. n
                              \/ \E j \in 1 .. k : i = n + j
                              \/ tail # <<>> /\ i = n + k + 1
  <2> SUFFICES ASSUME NEW i \in DOMAIN page', i \notin 1 .. n, ~(tail # <<>> /\ i = n + k + 1)
               PROVE  \E j \in 1 .. k : i = n + j
    OBVIOUS
  <2>1. i - n \in 1 .. k /\ i = n + (i - n)
    BY <1>1, <1>2
  <2>2. QED BY <2>1
<1>5. EventLines' = EventLines \cup (n + 1 .. n + k)
  <2>1. ASSUME NEW i \in EventLines'
        PROVE  i \in EventLines \cup (n + 1 .. n + k)
    <3>1. i \in DOMAIN page' /\ page'[i] \in Events
      BY <2>1 DEF EventLines
    <3>2. CASE i \in 1 .. n
      BY <1>1, <1>2, <3>1, <3>2 DEF EventLines
    <3>3. CASE \E j \in 1 .. k : i = n + j
      BY <1>1, <3>3
    <3>4. CASE tail # <<>> /\ i = n + k + 1
      BY <1>1, <1>3, <3>1, <3>4, FourLines
    <3>5. QED BY <1>4, <3>1, <3>2, <3>3, <3>4
  <2>2. ASSUME NEW i \in EventLines
        PROVE  i \in EventLines'
    <3>1. i \in 1 .. n /\ page[i] \in Events
      BY <1>2, <2>2 DEF EventLines
    <3>2. i \in 1 .. Len(page') /\ page'[i] \in Events
      BY <1>1, <3>1
    <3>3. QED BY <1>2, <3>2 DEF EventLines
  <2>3. ASSUME NEW i \in n + 1 .. n + k
        PROVE  i \in EventLines'
    <3>1. PICK j \in 1 .. k : i = n + j
      <4>1. i - n \in 1 .. k /\ i = n + (i - n)
        BY <1>1
      <4>2. QED BY <4>1
    <3>2. i \in 1 .. Len(page') /\ page'[i] \in Events
      BY <1>1, <3>1
    <3>3. QED BY <1>2, <3>2 DEF EventLines
  <2>4. QED BY <2>1, <2>2, <2>3
<1>6. EventLines \subseteq 1 .. n /\ IsFiniteSet(EventLines) /\ Cardinality(EventLines) \in Nat
  <2>1. EventLines \subseteq 1 .. n /\ IsFiniteSet(1 .. n)
    BY <1>1, <1>2, FS_Interval DEF EventLines
  <2>2. QED BY <2>1, FS_Subset, FS_CardinalityType
<1>7. Cardinality(EventLines') = Cardinality(EventLines) + k
  BY <1>1, <1>5, <1>6, BlockCounted
<1>8. ASSUME NEW x \in {Done, Error}
      PROVE  /\ Count(x) \in Nat
             /\ Count(x)' = Count(x) + (IF tail = <<x>> THEN 1 ELSE 0)
  <2> DEFINE old == {i \in DOMAIN page : page[i] = x}
             new == {i \in DOMAIN page' : page'[i] = x}
  <2>1. Count(x) = Cardinality(old) /\ Count(x)' = Cardinality(new)
    BY DEF Count
  <2>2. old \subseteq 1 .. n /\ IsFiniteSet(old) /\ Cardinality(old) \in Nat
    <3>1. old \subseteq 1 .. n /\ IsFiniteSet(1 .. n)
      BY <1>1, <1>2, FS_Interval
    <3>2. QED BY <3>1, FS_Subset, FS_CardinalityType
  <2>3. CASE tail = <<x>>
    <3>1. tail # <<>> /\ tail[1] = x
      BY <2>3
    <3>2. new = old \cup {n + k + 1}
      <4>1. \A i \in new : i \in old \/ i = n + k + 1
        BY <1>1, <1>2, <1>4, FourLines
      <4>2. \A i \in old : i \in new
        BY <1>1, <1>2
      <4>3. n + k + 1 \in new
        BY <1>1, <1>2, <3>1
      <4>4. QED BY <4>1, <4>2, <4>3
    <3>3. n + k + 1 \notin old
      BY <1>1, <2>2
    <3> HIDE DEF old, new
    <3>4. Cardinality(new) = Cardinality(old) + 1
      BY <2>2, <3>2, <3>3, FS_AddElement
    <3>5. QED BY <2>1, <2>2, <2>3, <3>4
  <2>4. CASE tail # <<x>>
    <3>1. new = old
      <4>1. \A i \in new : i \in old
        BY <1>1, <1>2, <1>3, <1>4, <2>4, FourLines
      <4>2. \A i \in old : i \in new
        BY <1>1, <1>2
      <4>3. QED BY <4>1, <4>2
    <3> HIDE DEF old, new
    <3>2. QED BY <2>1, <2>2, <2>4, <3>1
  <2>5. QED BY <2>3, <2>4
<1>9. QED BY <1>5, <1>6, <1>7, <1>8 DEF n, k

\* Events that come next are written in order.
LEMMA OrderKept ==
    ASSUME NEW evs, NEW tail, Writes(evs, tail), ShownInOrder, sent' = sent,
           Cardinality(EventLines) + Len(evs) <= Len(sent),
           \A j \in 1 .. Len(evs) : evs[j] = sent[Cardinality(EventLines) + j]
    PROVE  ShownInOrder'
<1> DEFINE n == Len(page)
           k == Len(evs)
           c == Cardinality(EventLines)
<1>1. /\ n \in Nat /\ k \in Nat /\ c \in Nat
      /\ EventLines \subseteq 1 .. n /\ EventLines' = EventLines \cup (n + 1 .. n + k)
      /\ \A i \in 1 .. n : page'[i] = page[i]
      /\ \A j \in 1 .. k : page'[n + j] = evs[j]
  BY LinesWritten, LinesCounted
<1>2. c + k <= Len(sent) /\ \A j \in 1 .. k : evs[j] = sent[c + j]
  OBVIOUS
<1> HIDE DEF n, k
<1>3. ASSUME NEW i \in EventLines
      PROVE  Nth(i)' <= Len(sent) /\ page'[i] = sent[Nth(i)']
  <2>1. i \in 1 .. n /\ page'[i] = page[i]
    BY <1>1, <1>3
  <2>2. {j \in EventLines' : j <= i} = {j \in EventLines : j <= i}
    BY <1>1, <2>1
  <2>3. Nth(i)' = Nth(i)
    BY <2>2 DEF Nth
  <2>4. QED BY <1>3, <2>1, <2>3 DEF ShownInOrder
<1>4. ASSUME NEW i, NEW j \in 1 .. k, i = n + j
      PROVE  Nth(i)' <= Len(sent) /\ page'[i] = sent[Nth(i)']
  <2> DEFINE upto == {q \in EventLines' : q <= i}
  <2>1. \A q \in n + 1 .. n + k : q <= i <=> q \in n + 1 .. n + j
    BY <1>1, <1>4
  <2>2. \A q \in EventLines : q <= i
    BY <1>1, <1>4
  <2>3. n + 1 .. n + j \subseteq n + 1 .. n + k
    BY <1>1
  <2>4. upto = EventLines \cup (n + 1 .. n + j)
    BY <1>1, <2>1, <2>2, <2>3
  <2>5. Cardinality(EventLines \cup (n + 1 .. n + j)) = c + j
    <3>1. n \in Nat /\ j \in Nat /\ EventLines \in SUBSET (1 .. n)
      BY <1>1
    <3>2. QED BY <3>1, BlockCounted
  <2>6. Nth(i)' = c + j
    BY <2>4, <2>5 DEF Nth
  <2>7. c + j <= Len(sent) /\ page'[i] = sent[c + j]
    BY <1>1, <1>2, <1>4, LenProperties
  <2>8. QED BY <2>6, <2>7
<1>5. ASSUME NEW i \in EventLines'
      PROVE  Nth(i)' <= Len(sent) /\ page'[i] = sent[Nth(i)']
  <2>1. CASE i \in EventLines
    BY <1>3, <2>1
  <2>2. CASE i \in n + 1 .. n + k
    <3>1. PICK j \in 1 .. k : i = n + j
      <4>1. i - n \in 1 .. k /\ i = n + (i - n)
        BY <1>1, <2>2
      <4>2. QED BY <4>1
    <3>2. QED BY <1>4, <3>1
  <2>3. QED BY <1>1, <1>5, <2>1, <2>2
<1>6. QED BY <1>5 DEF ShownInOrder

LEMMA Prefix ==
    ASSUME NEW A, NEW s \in Seq(A), NEW k \in 0 .. Len(s)
    PROVE  LET r == SubSeq(s, 1, k)
           IN  r \in Seq(A) /\ Len(r) = k /\ \A i \in 1 .. k : r[i] = s[i]
<1> DEFINE r == SubSeq(s, 1, k)
<1>1. k \in Nat /\ \A i \in 1 .. k : s[i] \in A
  BY LenProperties, ElementOfSeq
<1>2. /\ r \in Seq(A) /\ Len(r) = IF 1 <= k THEN k - 1 + 1 ELSE 0
      /\ \A i \in 1 .. k - 1 + 1 : r[i] = s[1 + i - 1]
  BY <1>1, SubSeqProperties
<1> HIDE DEF r
<1>3. r \in Seq(A) /\ Len(r) = k /\ \A i \in 1 .. k : r[i] = s[i]
  BY <1>1, <1>2
<1>4. QED BY <1>3 DEF r

LEMMA Suffix ==
    ASSUME NEW A, NEW s \in Seq(A), NEW k \in 0 .. Len(s)
    PROVE  LET r == SubSeq(s, k + 1, Len(s))
           IN  /\ r \in Seq(A) /\ Len(r) = Len(s) - k
               /\ \A i \in 1 .. Len(s) - k : r[i] = s[k + i]
<1> DEFINE r == SubSeq(s, k + 1, Len(s))
<1>1. k \in Nat /\ Len(s) \in Nat /\ \A i \in 1 .. Len(s) : s[i] \in A
  BY LenProperties, ElementOfSeq
<1>2. PICK a \in Nat, b \in Nat : a = k + 1 /\ b = Len(s)
  BY <1>1
<1>3. r = SubSeq(s, a, b) /\ \A i \in a .. b : s[i] \in A
  BY <1>1, <1>2
<1> HIDE DEF r
<1>4. /\ r \in Seq(A) /\ Len(r) = IF a <= b THEN b - a + 1 ELSE 0
      /\ \A i \in 1 .. b - a + 1 : r[i] = s[a + i - 1]
  BY <1>3, SubSeqProperties
<1>5. /\ (IF a <= b THEN b - a + 1 ELSE 0) = Len(s) - k /\ b - a + 1 = Len(s) - k
      /\ \A i \in 1 .. Len(s) - k : a + i - 1 = k + i
  BY <1>1, <1>2
<1>6. r \in Seq(A) /\ Len(r) = Len(s) - k /\ \A i \in 1 .. Len(s) - k : r[i] = s[k + i]
  BY <1>4, <1>5
<1>7. QED BY <1>6 DEF r

\* A buffer, and a text of which the next n pieces are read: the pieces from k + 1 on.
Taken(A, b, v, n, k) ==
    LET t == b \o v
        x == b \o SubSeq(v, 1, n)
        r == SubSeq(x, k + 1, Len(x))
        y == SubSeq(v, n + 1, Len(v))
    IN  /\ t \in Seq(A) /\ Len(b) \in Nat /\ Len(v) \in Nat /\ Len(t) = Len(b) + Len(v)
        /\ x \in Seq(A) /\ Len(x) = Len(b) + n
        /\ \A i \in 1 .. Len(x) : x[i] = t[i]
        /\ r \in Seq(A) /\ Len(r) = Len(x) - k
        /\ \A i \in 1 .. Len(r) : r[i] = x[k + i]
        /\ y \in Seq(A)
        /\ r \o y \in Seq(A) /\ Len(r \o y) = Len(t) - k
        /\ \A i \in 1 .. Len(t) - k : (r \o y)[i] = t[k + i]

LEMMA TakenApart ==
    ASSUME NEW A, NEW b \in Seq(A), NEW v \in Seq(A), NEW n \in 1 .. Len(v),
           NEW k \in Nat, k <= Len(b) + n
    PROVE  Taken(A, b, v, n, k)
<1> DEFINE t == b \o v
           h == SubSeq(v, 1, n)
           x == b \o h
           r == SubSeq(x, k + 1, Len(x))
           y == SubSeq(v, n + 1, Len(v))
<1>1. Len(b) \in Nat /\ Len(v) \in Nat /\ n \in Nat /\ n <= Len(v)
  BY LenProperties
<1>2. h \in Seq(A) /\ Len(h) = n /\ \A i \in 1 .. n : h[i] = v[i]
  BY <1>1, Prefix
<1>3. y \in Seq(A) /\ Len(y) = Len(v) - n /\ \A i \in 1 .. Len(v) - n : y[i] = v[n + i]
  BY <1>1, Suffix
<1> HIDE DEF h, y
<1>4. /\ t \in Seq(A) /\ Len(t) = Len(b) + Len(v)
      /\ \A i \in 1 .. Len(b) + Len(v) : t[i] = IF i <= Len(b) THEN b[i] ELSE v[i - Len(b)]
  BY ConcatProperties
<1>5. /\ x \in Seq(A) /\ Len(x) = Len(b) + n
      /\ \A i \in 1 .. Len(b) + n : x[i] = IF i <= Len(b) THEN b[i] ELSE h[i - Len(b)]
  <2>1. /\ x \in Seq(A) /\ Len(x) = Len(b) + Len(h)
        /\ \A i \in 1 .. Len(b) + Len(h) : x[i] = IF i <= Len(b) THEN b[i] ELSE h[i - Len(b)]
    BY <1>2, ConcatProperties
  <2> HIDE DEF x
  <2>2. QED BY <1>2, <2>1
<1> HIDE DEF t, x
<1>6. \A i \in 1 .. Len(x) : x[i] = t[i]
  <2> SUFFICES ASSUME NEW i \in 1 .. Len(x) PROVE x[i] = t[i]
    OBVIOUS
  <2>1. i \in 1 .. Len(b) + n /\ i \in 1 .. Len(b) + Len(v)
    BY <1>1, <1>5
  <2>2. CASE i <= Len(b)
    BY <1>4, <1>5, <2>1, <2>2
  <2>3. CASE ~(i <= Len(b))
    <3>1. i - Len(b) \in 1 .. n
      BY <1>1, <2>1, <2>3
    <3>2. x[i] = h[i - Len(b)] /\ t[i] = v[i - Len(b)]
      BY <1>4, <1>5, <2>1, <2>3
    <3>3. QED BY <1>2, <3>1, <3>2
  <2>4. QED BY <2>2, <2>3
<1>7. r \in Seq(A) /\ Len(r) = Len(x) - k /\ \A i \in 1 .. Len(r) : r[i] = x[k + i]
  <2>1. k \in 0 .. Len(x)
    BY <1>1, <1>5
  <2>2. r \in Seq(A) /\ Len(r) = Len(x) - k /\ \A i \in 1 .. Len(x) - k : r[i] = x[k + i]
    BY <1>5, <2>1, Suffix
  <2>3. QED BY <2>2
<1> HIDE DEF r
<1>8. /\ r \o y \in Seq(A) /\ Len(r \o y) = Len(t) - k
      /\ \A i \in 1 .. Len(t) - k : (r \o y)[i] = t[k + i]
  <2> DEFINE z == r \o y
  <2>1. /\ z \in Seq(A) /\ Len(z) = Len(r) + Len(y)
        /\ \A i \in 1 .. Len(r) + Len(y) : z[i] = IF i <= Len(r) THEN r[i] ELSE y[i - Len(r)]
    BY <1>3, <1>7, ConcatProperties
  <2> HIDE DEF z
  <2>2. Len(r) + Len(y) = Len(t) - k /\ Len(r) = Len(b) + n - k
    BY <1>1, <1>3, <1>4, <1>5, <1>7
  <2>3. ASSUME NEW i \in 1 .. Len(t) - k, i <= Len(r)
        PROVE  z[i] = t[k + i]
    <3>1. z[i] = r[i] /\ r[i] = x[k + i]
      <4>1. i \in 1 .. Len(r) + Len(y) /\ i \in 1 .. Len(r)
        BY <2>2, <2>3
      <4>2. QED BY <1>7, <2>1, <2>3, <4>1
    <3>2. k + i \in 1 .. Len(x)
      BY <1>1, <1>5, <1>7, <2>2, <2>3
    <3>3. QED BY <1>6, <3>1, <3>2
  <2>4. ASSUME NEW i \in 1 .. Len(t) - k, ~(i <= Len(r))
        PROVE  z[i] = t[k + i]
    <3>1. z[i] = y[i - Len(r)]
      BY <2>1, <2>2, <2>4
    <3>2. PICK j \in 1 .. Len(v) - n : i = Len(r) + j
      <4>1. i - Len(r) \in 1 .. Len(v) - n /\ i = Len(r) + (i - Len(r))
        BY <1>1, <1>4, <2>2, <2>4
      <4>2. QED BY <4>1
    <3>3. y[i - Len(r)] = v[n + j]
      <4>1. i - Len(r) = j
        BY <1>1, <1>5, <1>7, <3>2
      <4>2. QED BY <1>3, <4>1
    <3>4. /\ k + i = Len(b) + (n + j) /\ k + i \in 1 .. Len(b) + Len(v)
          /\ ~(k + i <= Len(b)) /\ (k + i) - Len(b) = n + j
      BY <1>1, <2>2, <3>2
    <3>5. t[k + i] = v[n + j]
      BY <1>4, <3>4
    <3>6. QED BY <3>1, <3>3, <3>5
  <2>5. QED BY <2>1, <2>2, <2>3, <2>4 DEF z
<1>9. QED BY <1>1, <1>3, <1>4, <1>5, <1>6, <1>7, <1>8 DEF Taken, t, x, r, y, h

-------------------------------------------------------------------------------
(* The text that is on its way. *)

\* The API sends one more event, or [DONE].
EventAdded(b, v, lines, w, e) ==
    LET u == v \o Body(e) \o <<NL, NL>>
    IN  /\ u \in Seq(Pieces)
        /\ Holds(b \o u, Append(lines, e), w)
        /\ Len(b \o u) = 4 * (Len(Append(lines, e)) - w)

LEMMA BlockSent ==
    ASSUME NEW b \in Seq(Pieces), NEW v \in Seq(Pieces),
           NEW lines \in Seq(Events \cup {Done}), NEW w \in Nat, NEW e \in Events \cup {Done},
           Holds(b \o v, lines, w), Len(b \o v) = 4 * (Len(lines) - w)
    PROVE  EventAdded(b, v, lines, w, e)
<1> DEFINE h1 == [of |-> e, half |-> 1]
           h2 == [of |-> e, half |-> 2]
           block == <<h1, h2, NL, NL>>
           t == b \o v
           u == v \o Body(e) \o <<NL, NL>>
           more == Append(lines, e)
           n == Len(lines) - w
<1>1. h1 \in Half /\ h2 \in Half /\ NL \in Pieces
  BY DEF Half, Pieces
<1>2. /\ Body(e) = <<h1, h2>> /\ Body(e) \in Seq(Pieces) /\ <<NL, NL>> \in Seq(Pieces)
      /\ block \in Seq(Pieces) /\ Len(block) = 4
      /\ block[1] = h1 /\ block[2] = h2 /\ block[3] = NL /\ block[4] = NL
  BY <1>1 DEF Body, Pieces
<1>3. Body(e) \o <<NL, NL>> = block
  <2> DEFINE p == Body(e)
             q == <<NL, NL>>
  <2>1. /\ p \in Seq(Pieces) /\ Len(p) = 2 /\ p[1] = h1 /\ p[2] = h2
        /\ q \in Seq(Pieces) /\ Len(q) = 2 /\ q[1] = NL /\ q[2] = NL
    BY <1>2
  <2> HIDE DEF p, q
  <2>2. /\ p \o q \in Seq(Pieces) /\ Len(p \o q) = Len(p) + Len(q)
        /\ \A i \in 1 .. Len(p) + Len(q) :
              (p \o q)[i] = IF i <= Len(p) THEN p[i] ELSE q[i - Len(p)]
    BY <2>1, ConcatProperties
  <2> DEFINE c == p \o q
  <2> HIDE DEF c, block
  <2>3. c \in Seq(Pieces) /\ Len(c) = 4 /\ c[1] = h1 /\ c[2] = h2 /\ c[3] = NL /\ c[4] = NL
    BY <2>1, <2>2 DEF c
  <2>4. \A i \in 1 .. 4 : i = 1 \/ i = 2 \/ i = 3 \/ i = 4
    OBVIOUS
  <2>5. \A i \in 1 .. Len(c) : c[i] = block[i]
    BY <1>2, <2>3, <2>4
  <2>6. Len(c) = Len(block) /\ block \in Seq(Pieces)
    BY <1>2, <2>3
  <2>7. c = block
    BY <2>3, <2>5, <2>6, SeqEqual
  <2>8. QED BY <2>7 DEF c, p, q
<1> HIDE DEF h1, h2, block
<1>4. u = v \o block /\ u \in Seq(Pieces)
  <2>1. u = v \o (Body(e) \o <<NL, NL>>)
    BY <1>2, ConcatAssociative
  <2>2. v \o block \in Seq(Pieces)
    BY <1>2, ConcatProperties
  <2>3. QED BY <1>3, <2>1, <2>2
<1>5. t \in Seq(Pieces)
  BY ConcatProperties
<1>6. b \o u = t \o block
  <2>1. block \in Seq(Pieces)
    BY <1>2
  <2>2. (b \o v) \o block = b \o (v \o block)
    BY <2>1, ConcatAssociative
  <2>3. QED BY <1>4, <2>2
<1> HIDE DEF t, u
<1>7. Len(t) \in Nat /\ Len(lines) \in Nat
  BY <1>5, LenProperties
<1>8. /\ t \o block \in Seq(Pieces) /\ Len(t \o block) = Len(t) + 4
      /\ \A i \in 1 .. Len(t) + 4 :
            (t \o block)[i] = IF i <= Len(t) THEN t[i] ELSE block[i - Len(t)]
  <2>1. block \in Seq(Pieces) /\ Len(block) = 4
    BY <1>2
  <2>2. /\ t \o block \in Seq(Pieces) /\ Len(t \o block) = Len(t) + Len(block)
        /\ \A i \in 1 .. Len(t) + Len(block) :
              (t \o block)[i] = IF i <= Len(t) THEN t[i] ELSE block[i - Len(t)]
    BY <1>5, <2>1, ConcatProperties
  <2>3. QED BY <2>1, <2>2
<1> DEFINE z == t \o block
<1> HIDE DEF z
<1>9. /\ Len(t) = 4 * n /\ n \in Nat
      /\ \A k \in 1 .. n :
          /\ t[4 * k - 3] = [of |-> lines[w + k], half |-> 1]
          /\ t[4 * k - 2] = [of |-> lines[w + k], half |-> 2]
          /\ t[4 * k - 1] = NL /\ t[4 * k] = NL
  BY DEF Holds, t
<1>10. /\ Len(more) = Len(lines) + 1 /\ more[Len(lines) + 1] = e
       /\ \A i \in 1 .. Len(lines) : more[i] = lines[i]
  BY AppendProperties
<1> HIDE DEF more
<1>11. Len(more) - w = n + 1 /\ w + (n + 1) = Len(lines) + 1
  BY <1>7, <1>10
<1>12. \A k \in 1 .. n : w + k \in 1 .. Len(lines)
  BY <1>7
<1> HIDE DEF n
<1>13. Len(z) = 4 * (n + 1)
  BY <1>8, <1>9 DEF z
<1>14. \A i \in 1 .. 4 * n : z[i] = t[i]
  BY <1>8, <1>9 DEF z
<1>15. /\ z[4 * (n + 1) - 3] = h1 /\ z[4 * (n + 1) - 2] = h2
       /\ z[4 * (n + 1) - 1] = NL /\ z[4 * (n + 1)] = NL
  <2>1. ASSUME NEW j \in 1 .. 4
        PROVE  z[4 * n + j] = block[j]
    <3>1. /\ 4 * n + j \in 1 .. Len(t) + 4 /\ ~(4 * n + j <= Len(t)) /\ (4 * n + j) - Len(t) = j
      BY <1>9
    <3>2. QED BY <1>8, <3>1 DEF z
  <2>2. /\ 4 * (n + 1) - 3 = 4 * n + 1 /\ 4 * (n + 1) - 2 = 4 * n + 2
        /\ 4 * (n + 1) - 1 = 4 * n + 3 /\ 4 * (n + 1) = 4 * n + 4
    BY <1>9
  <2>3. z[4 * n + 1] = h1 /\ z[4 * n + 2] = h2 /\ z[4 * n + 3] = NL /\ z[4 * n + 4] = NL
    BY <1>2, <2>1
  <2>4. QED BY <2>2, <2>3
<1>16. ASSUME NEW k \in 1 .. n + 1
       PROVE  /\ z[4 * k - 3] = [of |-> more[w + k], half |-> 1]
              /\ z[4 * k - 2] = [of |-> more[w + k], half |-> 2]
              /\ z[4 * k - 1] = NL /\ z[4 * k] = NL
  <2>1. CASE k \in 1 .. n
    <3>1. /\ 4 * k - 3 \in 1 .. 4 * n /\ 4 * k - 2 \in 1 .. 4 * n
          /\ 4 * k - 1 \in 1 .. 4 * n /\ 4 * k \in 1 .. 4 * n
      BY <1>9, <2>1
    <3>2. more[w + k] = lines[w + k]
      BY <1>10, <1>12, <2>1
    <3>3. QED BY <1>9, <1>14, <2>1, <3>1, <3>2
  <2>2. CASE k = n + 1
    <3>1. more[w + k] = e
      BY <1>10, <1>11, <2>2
    <3>2. QED BY <1>15, <2>2, <3>1 DEF h1, h2
  <2>3. QED BY <1>9, <2>1, <2>2
<1>17. Holds(z, more, w)
  <2>1. n + 1 \in Nat /\ 4 * (n + 1) <= Len(z) /\ Len(z) <= 4 * (n + 1) + 2
    BY <1>9, <1>13
  <2>2. \A i \in (4 * (n + 1) + 1) .. Len(z) : z[i] # NL
    BY <1>9, <1>13
  <2>3. QED BY <1>11, <1>16, <2>1, <2>2 DEF Holds
<1>18. QED BY <1>4, <1>6, <1>11, <1>13, <1>17 DEF EventAdded, u, z, more

\* The API closes its response in the middle of an event.
PartAdded(b, v, lines, w, e, k) ==
    LET u == v \o SubSeq(Body(e), 1, k)
    IN  u \in Seq(Pieces) /\ Holds(b \o u, lines, w)

LEMMA HalfSent ==
    ASSUME NEW b \in Seq(Pieces), NEW v \in Seq(Pieces),
           NEW lines \in Seq(Events), NEW w \in Nat, NEW e \in Events, NEW k \in 0 .. 2,
           Holds(b \o v, lines, w), Len(b \o v) = 4 * (Len(lines) - w)
    PROVE  PartAdded(b, v, lines, w, e, k)
<1> DEFINE part == SubSeq(Body(e), 1, k)
           t == b \o v
           u == v \o part
           n == Len(lines) - w
<1>1. Body(e) \in Seq(Half) /\ Len(Body(e)) = 2
  BY DEF Body, Half
<1>2. part \in Seq(Half) /\ Len(part) = k /\ k \in Nat
  <2> DEFINE body == Body(e)
  <2>1. body \in Seq(Half) /\ k \in 0 .. Len(body) /\ k \in Nat
    BY <1>1
  <2> HIDE DEF body
  <2>2. SubSeq(body, 1, k) \in Seq(Half) /\ Len(SubSeq(body, 1, k)) = k
    BY <2>1, Prefix
  <2>3. QED BY <2>1, <2>2 DEF body
<1>3. part \in Seq(Pieces) /\ \A i \in 1 .. k : part[i] # NL
  <2>1. part \in Seq(Pieces)
    BY <1>2, SeqMonotonic DEF Pieces
  <2>2. \A i \in 1 .. k : part[i] \in Half
    BY <1>2, ElementOfSeq
  <2>3. QED BY <2>1, <2>2, LinesAssumption
<1> HIDE DEF part
<1>4. t \in Seq(Pieces) /\ u \in Seq(Pieces)
  BY <1>3, ConcatProperties
<1>5. b \o u = t \o part
  <2>1. part \in Seq(Pieces)
    BY <1>3
  <2>2. (b \o v) \o part = b \o (v \o part)
    BY <2>1, ConcatAssociative
  <2>3. QED BY <2>2
<1> HIDE DEF u, t
<1> DEFINE z == t \o part
<1>6. /\ z \in Seq(Pieces) /\ Len(z) = Len(t) + k
      /\ \A i \in 1 .. Len(t) + k : z[i] = IF i <= Len(t) THEN t[i] ELSE part[i - Len(t)]
  BY <1>2, <1>3, <1>4, ConcatProperties
<1> HIDE DEF z
<1>7. /\ Len(t) = 4 * n /\ n \in Nat
      /\ \A j \in 1 .. n :
          /\ t[4 * j - 3] = [of |-> lines[w + j], half |-> 1]
          /\ t[4 * j - 2] = [of |-> lines[w + j], half |-> 2]
          /\ t[4 * j - 1] = NL /\ t[4 * j] = NL
  BY DEF Holds, t
<1> HIDE DEF n
<1>8. \A i \in 1 .. 4 * n : z[i] = t[i]
  BY <1>2, <1>6, <1>7
<1>9. ASSUME NEW j \in 1 .. n
      PROVE  /\ z[4 * j - 3] = [of |-> lines[w + j], half |-> 1]
             /\ z[4 * j - 2] = [of |-> lines[w + j], half |-> 2]
             /\ z[4 * j - 1] = NL /\ z[4 * j] = NL
  <2>1. /\ 4 * j - 3 \in 1 .. 4 * n /\ 4 * j - 2 \in 1 .. 4 * n
        /\ 4 * j - 1 \in 1 .. 4 * n /\ 4 * j \in 1 .. 4 * n
    BY <1>7
  <2>2. QED BY <1>7, <1>8, <2>1
<1>10. ASSUME NEW i \in (4 * n + 1) .. Len(z)
       PROVE  z[i] # NL
  <2>1. i \in 1 .. Len(t) + k /\ ~(i <= Len(t)) /\ i - Len(t) \in 1 .. k
    BY <1>2, <1>6, <1>7
  <2>2. QED BY <1>3, <1>6, <2>1
<1>11. n \in Nat /\ 4 * n <= Len(z) /\ Len(z) <= 4 * n + 2
  BY <1>2, <1>6, <1>7
<1>12. Holds(z, lines, w)
  BY <1>9, <1>10, <1>11 DEF Holds, n
<1>13. QED BY <1>4, <1>5, <1>12 DEF PartAdded, u, z, part

LEMMA WholeBlocks ==
    ASSUME NEW l \in Nat, NEW n \in Nat
    PROVE  \E m \in 0 .. n : 4 * m <= l /\ (m = n \/ l < 4 * m + 4)
<1>1. CASE 4 * n <= l
  BY <1>1
<1>2. CASE l < 4 * n
  <2>1. PICK m \in Nat : m = l \div 4
    OBVIOUS
  <2>2. 4 * m <= l /\ l < 4 * m + 4
    BY <2>1
  <2>3. m \in 0 .. n
    BY <1>2, <2>2
  <2>4. QED BY <2>2, <2>3
<1>3. QED BY <1>1, <1>2

\* What has been read of a text: m whole events, and a rest without a break.
LEMMA BeginningSplit ==
    ASSUME NEW t \in Seq(Pieces), NEW x \in Seq(Pieces), Len(x) <= Len(t),
           \A i \in 1 .. Len(x) : x[i] = t[i],
           NEW lines \in Seq(Events \cup {Done}), NEW w \in Nat, Holds(t, lines, w),
           NEW m \in 0 .. (Len(lines) - w), 4 * m <= Len(x),
           m = Len(lines) - w \/ Len(x) < 4 * m + 4
    PROVE  /\ Split(x, lines, w, m)
           /\ Len(x) - 4 * m <= 3
           /\ \A i \in (4 * m + 1) .. (Len(x) - 1) : x[i] # NL
<1> DEFINE n == Len(lines) - w
<1>1. /\ Len(x) \in Nat /\ Len(t) \in Nat /\ Len(lines) \in Nat
      /\ n \in Nat /\ m \in Nat /\ m <= n /\ Len(lines) = w + n
  BY LenProperties DEF Holds
<1>2. /\ 4 * n <= Len(t) /\ Len(t) <= 4 * n + 2
      /\ \A k \in 1 .. n :
          /\ t[4 * k - 3] = [of |-> lines[w + k], half |-> 1]
          /\ t[4 * k - 2] = [of |-> lines[w + k], half |-> 2]
          /\ t[4 * k - 1] = NL /\ t[4 * k] = NL
      /\ \A i \in (4 * n + 1) .. Len(t) : t[i] # NL
  BY DEF Holds
<1>3. m = n \/ (m < n /\ Len(x) < 4 * m + 4)
  <2>1. m = n \/ Len(x) < 4 * m + 4
    OBVIOUS
  <2> HIDE DEF n
  <2>2. QED BY <1>1, <2>1
<1> HIDE DEF n
<1>4. \A k \in 1 .. n : t[4 * k - 3] # NL /\ t[4 * k - 2] # NL
  <2> SUFFICES ASSUME NEW k \in 1 .. n PROVE t[4 * k - 3] # NL /\ t[4 * k - 2] # NL
    OBVIOUS
  <2>1. w + k \in 1 .. Len(lines)
    BY <1>1
  <2>2. lines[w + k] \in Events \cup {Done}
    BY <2>1, ElementOfSeq
  <2>3. /\ [of |-> lines[w + k], half |-> 1] \in Half
        /\ [of |-> lines[w + k], half |-> 2] \in Half
    BY <2>2 DEF Half
  <2>4. QED BY <1>2, <2>3, LinesAssumption
<1>5. ASSUME NEW k \in 1 .. m
      PROVE  /\ x[4 * k - 3] = [of |-> lines[w + k], half |-> 1]
             /\ x[4 * k - 2] = [of |-> lines[w + k], half |-> 2]
             /\ x[4 * k - 1] = NL /\ x[4 * k] = NL
  <2>1. /\ 4 * k - 3 \in 1 .. Len(x) /\ 4 * k - 2 \in 1 .. Len(x)
        /\ 4 * k - 1 \in 1 .. Len(x) /\ 4 * k \in 1 .. Len(x) /\ k \in 1 .. n
    BY <1>1
  <2>2. QED BY <1>2, <2>1
<1>6. ASSUME NEW i \in Nat, 4 * m < i, i <= Len(x), i < Len(x) \/ i = 4 * m + 1
      PROVE  x[i] # NL
  <2>1. x[i] = t[i]
    BY <1>1, <1>6
  <2>2. CASE m = n
    <3>1. i \in (4 * n + 1) .. Len(t)
      BY <1>1, <1>6, <2>2
    <3>2. QED BY <1>2, <2>1, <3>1
  <2>3. CASE m < n /\ Len(x) < 4 * m + 4
    <3>1. PICK k \in 1 .. n : k = m + 1
      BY <1>1, <2>3
    <3>2. i = 4 * k - 3 \/ i = 4 * k - 2
      BY <1>1, <1>6, <2>3, <3>1
    <3>3. QED BY <1>4, <2>1, <3>2
  <2>4. QED BY <1>3, <2>2, <2>3
<1>7. \A i \in (4 * m + 1) .. (Len(x) - 1) : x[i] # NL
  <2>1. \A i \in (4 * m + 1) .. (Len(x) - 1) : i \in Nat /\ 4 * m < i /\ i < Len(x)
    BY <1>1
  <2>2. QED BY <1>1, <1>6, <2>1
<1>8. 4 * m < Len(x) => x[4 * m + 1] # NL
  <2>1. PICK i \in Nat : i = 4 * m + 1
    BY <1>1
  <2>2. 4 * m < Len(x) => 4 * m < i /\ i <= Len(x)
    BY <1>1, <2>1
  <2>3. QED BY <1>6, <2>1, <2>2
<1>9. Len(x) - 4 * m <= 3
  BY <1>1, <1>2, <1>3
<1>10. w + m <= Len(lines)
  BY <1>1
<1>11. Split(x, lines, w, m)
  BY <1>1, <1>5, <1>7, <1>8, <1>10 DEF Split
<1>12. QED BY <1>7, <1>9, <1>11

\* What is left of a text when m of its events have been taken.
LEMMA LeftOver ==
    ASSUME NEW t \in Seq(Pieces), NEW u \in Seq(Pieces),
           NEW lines \in Seq(Events \cup {Done}), NEW w \in Nat, Holds(t, lines, w),
           NEW m \in 0 .. (Len(lines) - w), Len(u) = Len(t) - 4 * m,
           \A i \in 1 .. Len(u) : u[i] = t[4 * m + i]
    PROVE  Holds(u, lines, w + m)
<1> DEFINE n == Len(lines) - w
<1>1. /\ Len(u) \in Nat /\ Len(t) \in Nat /\ Len(lines) \in Nat
      /\ n \in Nat /\ m \in Nat /\ m <= n /\ Len(lines) = w + n
  BY LenProperties DEF Holds
<1>2. /\ 4 * n <= Len(t) /\ Len(t) <= 4 * n + 2
      /\ \A k \in 1 .. n :
          /\ t[4 * k - 3] = [of |-> lines[w + k], half |-> 1]
          /\ t[4 * k - 2] = [of |-> lines[w + k], half |-> 2]
          /\ t[4 * k - 1] = NL /\ t[4 * k] = NL
      /\ \A i \in (4 * n + 1) .. Len(t) : t[i] # NL
  BY DEF Holds
<1> HIDE DEF n
<1>3. PICK r \in Nat : r = n - m
  BY <1>1
<1>4. Len(lines) - (w + m) = r /\ 4 * r <= Len(u) /\ Len(u) <= 4 * r + 2
  BY <1>1, <1>2, <1>3
<1>5. ASSUME NEW k \in 1 .. r
      PROVE  /\ u[4 * k - 3] = [of |-> lines[(w + m) + k], half |-> 1]
             /\ u[4 * k - 2] = [of |-> lines[(w + m) + k], half |-> 2]
             /\ u[4 * k - 1] = NL /\ u[4 * k] = NL
  <2>1. PICK j \in 1 .. n : j = m + k
    BY <1>1, <1>3
  <2>2. /\ 4 * k - 3 \in 1 .. Len(u) /\ 4 * k - 2 \in 1 .. Len(u)
        /\ 4 * k - 1 \in 1 .. Len(u) /\ 4 * k \in 1 .. Len(u)
    BY <1>1, <1>4
  <2>3. /\ 4 * m + (4 * k - 3) = 4 * j - 3 /\ 4 * m + (4 * k - 2) = 4 * j - 2
        /\ 4 * m + (4 * k - 1) = 4 * j - 1 /\ 4 * m + 4 * k = 4 * j
        /\ (w + m) + k = w + j
    BY <1>1, <2>1
  <2>4. /\ u[4 * k - 3] = t[4 * j - 3] /\ u[4 * k - 2] = t[4 * j - 2]
        /\ u[4 * k - 1] = t[4 * j - 1] /\ u[4 * k] = t[4 * j]
    BY <2>2, <2>3
  <2>5. QED BY <1>2, <2>3, <2>4
<1>6. ASSUME NEW i \in (4 * r + 1) .. Len(u)
      PROVE  u[i] # NL
  <2>1. i \in 1 .. Len(u) /\ 4 * m + i \in (4 * n + 1) .. Len(t)
    BY <1>1, <1>3, <1>4
  <2>2. QED BY <1>2, <2>1
<1>7. QED BY <1>3, <1>4, <1>5, <1>6 DEF Holds

\* What the next n pieces of a text give: m whole events, and a rest in the buffer.
Ahead(b, v, n, lines, w) ==
    LET x == b \o SubSeq(v, 1, n)
        y == SubSeq(v, n + 1, Len(v))
        r == Rest(x)
    IN  /\ r \in Seq(Pieces) /\ y \in Seq(Pieces)
        /\ Separators(r) = {} /\ Len(r) <= 3
        /\ \E m \in 0 .. (Len(lines) - w) :
              /\ Parts(x) = [j \in 1 .. m |-> Body(lines[w + j])]
              /\ Holds(r \o y, lines, w + m)
              /\ Len(r \o y) = Len(b \o v) - 4 * m

LEMMA ReadAhead ==
    ASSUME NEW b \in Seq(Pieces), NEW v \in Seq(Pieces), NEW n \in 1 .. Len(v),
           NEW lines \in Seq(Events \cup {Done}), NEW w \in Nat, Holds(b \o v, lines, w)
    PROVE  Ahead(b, v, n, lines, w)
<1> DEFINE t == b \o v
           h == SubSeq(v, 1, n)
           x == b \o h
           y == SubSeq(v, n + 1, Len(v))
<1>1. Len(b) \in Nat /\ Len(v) \in Nat /\ n \in Nat /\ n \in 0 .. Len(v)
  BY LenProperties
<1>2. x \in Seq(Pieces) /\ Len(x) = Len(b) + n /\ Len(x) \in Nat
  <2>1. h \in Seq(Pieces) /\ Len(h) = n
    BY <1>1, Prefix
  <2> HIDE DEF h
  <2>2. x \in Seq(Pieces) /\ Len(x) = Len(b) + Len(h)
    BY <2>1, ConcatProperties
  <2>3. QED BY <1>1, <2>1, <2>2
<1>3. PICK m \in 0 .. (Len(lines) - w) :
           4 * m <= Len(x) /\ (m = Len(lines) - w \/ Len(x) < 4 * m + 4)
  <2>1. Len(lines) - w \in Nat
    BY DEF Holds
  <2>2. QED BY <1>2, <2>1, WholeBlocks
<1>4. PICK k \in Nat : k = 4 * m
  <2>1. m \in Nat
    BY <1>3
  <2>2. QED BY <2>1
<1>5. k <= Len(b) + n
  BY <1>2, <1>3, <1>4
<1> DEFINE r == SubSeq(x, k + 1, Len(x))
<1>6. Holds(t, lines, w) /\ r = SubSeq(x, k + 1, Len(x))
  OBVIOUS
<1>7. /\ t \in Seq(Pieces) /\ Len(t) = Len(b) + Len(v)
      /\ \A i \in 1 .. Len(x) : x[i] = t[i]
      /\ r \in Seq(Pieces) /\ Len(r) = Len(x) - k /\ \A i \in 1 .. Len(r) : r[i] = x[k + i]
      /\ y \in Seq(Pieces) /\ r \o y \in Seq(Pieces) /\ Len(r \o y) = Len(t) - k
      /\ \A i \in 1 .. Len(t) - k : (r \o y)[i] = t[k + i]
  <2>1. Taken(Pieces, b, v, n, k)
    <3> HIDE DEF t, h, x, y, r
    <3>1. QED BY <1>5, TakenApart
  <2>2. QED BY <2>1 DEF Taken
<1> HIDE DEF t, h, x, y, r
<1> DEFINE z == r \o y
<1>9. Len(x) <= Len(t) /\ Len(t) \in Nat /\ 4 * m + 1 = k + 1
  BY <1>1, <1>2, <1>4, <1>7
<1>10. /\ Split(x, lines, w, m) /\ Len(x) - 4 * m <= 3
       /\ \A i \in (4 * m + 1) .. (Len(x) - 1) : x[i] # NL
  <2>1. /\ t \in Seq(Pieces) /\ x \in Seq(Pieces) /\ Len(x) <= Len(t)
        /\ \A i \in 1 .. Len(x) : x[i] = t[i]
    BY <1>2, <1>7, <1>9
  <2>2. Holds(t, lines, w)
    BY <1>6
  <2>3. 4 * m <= Len(x) /\ (m = Len(lines) - w \/ Len(x) < 4 * m + 4)
    BY <1>3
  <2>4. m \in 0 .. (Len(lines) - w)
    BY <1>3
  <2>5. QED BY <2>1, <2>2, <2>3, <2>4, BeginningSplit
<1>11. /\ Parts(x) = [j \in 1 .. m |-> Body(lines[w + j])]
       /\ Rest(x) = SubSeq(x, 4 * m + 1, Len(x))
  BY <1>10, SplitFound
<1>12. Rest(x) = r
  BY <1>6, <1>9, <1>11
<1>13. Separators(r) = {} /\ Len(r) <= 3
  <2>1. Len(r) \in Nat /\ Len(r) = Len(x) - 4 * m
    BY <1>4, <1>7, LenProperties
  <2>2. \A i \in 1 .. (Len(r) - 1) : r[i] # NL
    <3> SUFFICES ASSUME NEW i \in 1 .. (Len(r) - 1) PROVE r[i] # NL
      OBVIOUS
    <3>1. i \in 1 .. Len(r) /\ k + i \in (4 * m + 1) .. (Len(x) - 1)
      BY <1>2, <1>4, <2>1
    <3>2. r[i] = x[k + i]
      BY <1>7, <3>1
    <3>3. QED BY <1>10, <3>1, <3>2
  <2>3. QED BY <1>10, <2>1, <2>2 DEF Separators
<1>14. Holds(z, lines, w + m) /\ Len(z) = Len(t) - 4 * m
  <2>1. z \in Seq(Pieces) /\ Len(z) = Len(t) - 4 * m /\ \A i \in 1 .. Len(z) : z[i] = t[4 * m + i]
    BY <1>4, <1>7
  <2> HIDE DEF z
  <2>2. t \in Seq(Pieces)
    BY <1>7
  <2>3. Holds(z, lines, w + m)
    BY <1>3, <1>6, <2>1, <2>2, LeftOver
  <2>4. QED BY <2>1, <2>3
<1>15. y \in Seq(Pieces) /\ r \in Seq(Pieces)
  BY <1>7
<1>16. QED BY <1>3, <1>11, <1>12, <1>13, <1>14, <1>15 DEF Ahead, t, h, x, y, z

-------------------------------------------------------------------------------
(* The steps. *)

LEMMA WholeLemma ==
    ASSUME StreamType
    PROVE  /\ Whole \in Seq(Events \cup {Done}) /\ Len(sent) \in Nat
           /\ Len(Whole) = Len(sent) + (IF api = "done" THEN 1 ELSE 0)
           /\ \A i \in 1 .. Len(sent) : Whole[i] = sent[i] /\ sent[i] \in Events
           /\ api = "done" => Whole[Len(sent) + 1] = Done
<1>1. sent \in Seq(Events) /\ Len(sent) \in Nat /\ \A i \in 1 .. Len(sent) : sent[i] \in Events
  BY LenProperties, ElementOfSeq DEF StreamType
<1>2. sent \in Seq(Events \cup {Done})
  BY <1>1, SeqMonotonic
<1>3. CASE api = "done"
  BY <1>1, <1>2, <1>3, AppendProperties DEF Whole
<1>4. CASE api # "done"
  BY <1>1, <1>2, <1>4 DEF Whole
<1>5. QED BY <1>3, <1>4

\* A piece of the response gives the page the next events, and [DONE] at the end.
LEMMA ChunkReads ==
    ASSUME StreamInv, NEW n \in 1 .. Len(wire), Chunk(n)
    PROVE  /\ buffer' \in Seq(Pieces) /\ wire' \in Seq(Pieces)
           /\ Separators(buffer') = {} /\ Len(buffer') <= 3 /\ api # "broken"
           /\ \E evs \in Seq(Events) :
                LET c == Cardinality(EventLines) + Len(evs)
                IN  /\ c <= Len(sent)
                    /\ \A j \in 1 .. Len(evs) : evs[j] = sent[Cardinality(EventLines) + j]
                    /\ \/ /\ Writes(evs, <<>>) /\ UNCHANGED <<at, heartbeat>>
                          /\ Holds(buffer' \o wire', Whole, c)
                          /\ api # "closed" => Len(buffer' \o wire') = 4 * (Len(Whole) - c)
                       \/ /\ Writes(evs, <<Done>>) /\ at' = "ended" /\ heartbeat' = FALSE
                          /\ api = "done" /\ c = Len(sent)
<1> DEFINE c == Cardinality(EventLines)
           t == buffer \o wire
           x == buffer \o SubSeq(wire, 1, n)
           y == SubSeq(wire, n + 1, Len(wire))
<1>1. /\ StreamType /\ at = "reading" /\ ~aborted /\ wire' = y
      /\ UNCHANGED <<api, sent, aborted>>
  BY DEF Chunk, StreamInv
<1>2. /\ wire \in Seq(Pieces) /\ buffer \in Seq(Pieces) /\ page \in Seq(Lines)
      /\ Len(wire) \in Nat /\ n \in Nat /\ n <= Len(wire)
  BY <1>1, LenProperties DEF StreamType
<1>3. api # "broken"
  <2>1. wire = <<>> => Len(wire) = 0
    OBVIOUS
  <2>2. QED BY <1>1, <1>2, <2>1 DEF StreamInv, Unread
<1>4. /\ Holds(t, Whole, c) /\ c <= Len(sent)
      /\ api # "closed" => Len(t) = 4 * (Len(Whole) - c)
  BY <1>1, <1>3 DEF StreamInv, Unread
<1>5. c \in Nat
  <2>1. EventLines \subseteq 1 .. Len(page) /\ Len(page) \in Nat
    BY <1>2, LenProperties DEF EventLines
  <2>2. IsFiniteSet(1 .. Len(page))
    BY <2>1, FS_Interval
  <2>3. QED BY <2>1, <2>2, FS_Subset, FS_CardinalityType
<1>6. /\ Whole \in Seq(Events \cup {Done}) /\ Len(sent) \in Nat /\ Len(Whole) \in Nat
      /\ Len(Whole) = Len(sent) + (IF api = "done" THEN 1 ELSE 0)
      /\ \A i \in 1 .. Len(sent) : Whole[i] = sent[i] /\ sent[i] \in Events
      /\ api = "done" => Whole[Len(sent) + 1] = Done
  BY <1>1, WholeLemma
<1> HIDE DEF c
<1>7. /\ Rest(x) \in Seq(Pieces) /\ y \in Seq(Pieces)
      /\ Separators(Rest(x)) = {} /\ Len(Rest(x)) <= 3
      /\ \E m \in 0 .. (Len(Whole) - c) :
            /\ Parts(x) = [j \in 1 .. m |-> Body(Whole[c + j])]
            /\ Holds(Rest(x) \o y, Whole, c + m)
            /\ Len(Rest(x) \o y) = Len(t) - 4 * m
  <2>1. Ahead(buffer, wire, n, Whole, c)
    BY <1>2, <1>4, <1>5, <1>6, ReadAhead
  <2>2. QED BY <2>1 DEF Ahead
<1>8. PICK m \in 0 .. (Len(Whole) - c) :
            /\ Parts(x) = [j \in 1 .. m |-> Body(Whole[c + j])]
            /\ Holds(Rest(x) \o y, Whole, c + m)
            /\ Len(Rest(x) \o y) = Len(t) - 4 * m
  BY <1>7
<1>9. m \in Nat /\ c + m <= Len(Whole)
  BY <1>5, <1>6, <1>8
<1> DEFINE parts == Parts(x)
           lines == [j \in DOMAIN Readable(parts) |-> EventOf(parts[j])]
           ready == IF m > 0 /\ Whole[c + m] = Done THEN m - 1 ELSE m
<1>10. /\ buffer' = Rest(x) /\ wire' = y
       /\ IF Len(lines) = Len(parts)
          THEN page' = page \o lines /\ UNCHANGED <<at, heartbeat>>
          ELSE Finish(lines \o (IF parts[Len(lines) + 1] = Body(Done)
                                THEN <<Done>> ELSE <<Error>>))
  BY DEF Chunk
<1>11. ASSUME NEW j \in 1 .. m
       PROVE  IF Whole[c + j] = Done
              THEN j = m /\ api = "done" /\ c + m = Len(sent) + 1
              ELSE c + j \in 1 .. Len(sent)
  <2>1. PICK i \in Nat : i = c + j /\ 1 <= i /\ i <= Len(Whole) /\ i <= c + m
    BY <1>5, <1>9
  <2>2. CASE i <= Len(sent)
    <3>1. Whole[i] \in Events
      BY <1>6, <2>1, <2>2
    <3>2. QED BY <1>6, <2>1, <2>2, <3>1, FourLines
  <2>3. CASE ~(i <= Len(sent))
    <3>1. api = "done" /\ i = Len(sent) + 1 /\ c + m = i
      BY <1>6, <1>9, <2>1, <2>3, <1>5
    <3>2. j = m
      BY <1>5, <1>9, <2>1, <3>1
    <3>3. QED BY <1>6, <2>1, <3>1, <3>2
  <2>4. QED BY <2>2, <2>3
<1>12. \A j \in 1 .. m : Whole[c + j] = Done => j = m
  BY <1>11
<1>13. parts = [j \in 1 .. m |-> Body(Whole[c + j])]
  BY <1>8
<1>14. /\ lines = [j \in 1 .. ready |-> Whole[c + j]]
       /\ lines \in Seq(Events) /\ Len(lines) = ready /\ Len(parts) = m
  <2>1. Found(parts, Whole, c, m)
    <3> HIDE DEF parts, ready, lines
    <3>1. QED BY <1>5, <1>6, <1>9, <1>12, <1>13, ReadableFound
  <2> HIDE DEF parts
  <2>2. QED BY <2>1 DEF Found
<1> HIDE DEF x, y, t, parts, lines
<1>15. /\ ready \in 0 .. m
       /\ \A j \in 1 .. ready : lines[j] = Whole[c + j] /\ j \in 1 .. m /\ Whole[c + j] # Done
  BY <1>9, <1>12, <1>14
<1>16. \A j \in 1 .. Len(lines) : c + j \in 1 .. Len(sent) /\ lines[j] = sent[c + j]
  BY <1>6, <1>11, <1>14, <1>15
<1>17. c + Len(lines) <= Len(sent) /\ Len(lines) \in Nat
  <2>1. CASE ready = 0
    BY <1>4, <1>5, <1>14, <2>1
  <2>2. CASE ready # 0
    <3>1. Len(lines) \in 1 .. Len(lines) /\ Len(lines) \in Nat
      BY <1>9, <1>14, <1>15, <2>2
    <3>2. QED BY <1>5, <1>6, <1>16, <3>1
  <2>3. QED BY <2>1, <2>2
<1>18. CASE ~(m > 0 /\ Whole[c + m] = Done)
  <2>1. ready = m /\ Len(lines) = Len(parts)
    BY <1>14, <1>18
  <2>2. page' = page \o lines /\ UNCHANGED <<at, heartbeat>>
    BY <1>10, <2>1
  <2>3. lines \o <<>> = lines
    BY <1>14, ConcatEmptySeq
  <2>4. Writes(lines, <<>>)
    BY <1>2, <1>14, <2>2, <2>3 DEF Writes
  <2>5. Holds(buffer' \o wire', Whole, c + Len(lines)) /\ Len(buffer' \o wire') = Len(t) - 4 * m
    BY <1>8, <1>10, <1>14, <2>1
  <2>6. api # "closed" => Len(buffer' \o wire') = 4 * (Len(Whole) - (c + Len(lines)))
    <3>1. Len(t) = 4 * (Len(Whole) - c) => Len(t) - 4 * m = 4 * (Len(Whole) - (c + m))
      <4>1. PICK a \in Nat, d \in Nat : a = c /\ d = Len(Whole)
        BY <1>5, <1>6
      <4>2. 4 * (d - a) - 4 * m = 4 * (d - (a + m))
        BY <1>9
      <4>3. QED BY <4>1, <4>2
    <3>2. QED BY <1>4, <1>14, <2>1, <2>5, <3>1
  <2>7. QED BY <1>3, <1>7, <1>10, <1>14, <1>16, <1>17, <2>2, <2>4, <2>5, <2>6 DEF c
<1>19. CASE m > 0 /\ Whole[c + m] = Done
  <2>1. ready = m - 1 /\ Len(lines) # Len(parts) /\ Len(lines) + 1 = m /\ m \in 1 .. m
    BY <1>9, <1>14, <1>19
  <2>2. parts[Len(lines) + 1] = Body(Done)
    BY <1>13, <1>19, <2>1
  <2>3. Finish(lines \o <<Done>>)
    BY <1>10, <2>1, <2>2
  <2>4. page' = page \o (lines \o <<Done>>) /\ at' = "ended" /\ heartbeat' = FALSE
    BY <1>1, <2>3 DEF Finish
  <2>5. Writes(lines, <<Done>>)
    BY <1>2, <1>14, <2>4 DEF Writes
  <2>6. api = "done" /\ c + m = Len(sent) + 1
    BY <1>11, <1>19, <2>1
  <2>7. c + Len(lines) = Len(sent)
    BY <1>5, <1>6, <1>17, <2>1, <2>6
  <2>8. QED BY <1>3, <1>7, <1>10, <1>14, <1>16, <1>17, <2>4, <2>5, <2>6, <2>7 DEF c
<1>20. QED BY <1>18, <1>19

LEMMA CountsTyped ==
    ASSUME StreamType
    PROVE  /\ page \in Seq(Lines) /\ Len(page) \in Nat
           /\ Cardinality(EventLines) \in Nat /\ Count(Done) \in Nat /\ Count(Error) \in Nat
<1>1. page \in Seq(Lines) /\ Len(page) \in Nat /\ DOMAIN page = 1 .. Len(page)
  BY LenProperties DEF StreamType
<1>2. IsFiniteSet(1 .. Len(page))
  BY <1>1, FS_Interval
<1>3. ASSUME NEW A, A \subseteq 1 .. Len(page)
      PROVE  Cardinality(A) \in Nat
  BY <1>2, <1>3, FS_Subset, FS_CardinalityType
<1>4. Cardinality(EventLines) \in Nat
  <2>1. EventLines \subseteq 1 .. Len(page)
    BY <1>1 DEF EventLines
  <2>2. QED BY <1>3, <2>1
<1>5. ASSUME NEW x PROVE Count(x) \in Nat
  <2> DEFINE A == {i \in DOMAIN page : page[i] = x}
  <2>1. A \subseteq 1 .. Len(page)
    BY <1>1
  <2> HIDE DEF A
  <2>2. Cardinality(A) \in Nat
    BY <1>3, <2>1
  <2>3. QED BY <2>2 DEF Count, A
<1>6. QED BY <1>1, <1>4, <1>5

\* A page with the next events, and what follows them.
LEMMA AfterWriting ==
    ASSUME StreamInv, at # "ended", NEW evs, NEW tail, Writes(evs, tail), sent' = sent,
           Cardinality(EventLines) + Len(evs) <= Len(sent),
           \A j \in 1 .. Len(evs) : evs[j] = sent[Cardinality(EventLines) + j]
    PROVE  /\ page' \in Seq(Lines) /\ ShownInOrder'
           /\ Cardinality(EventLines') = Cardinality(EventLines) + Len(evs)
           /\ \A x \in {Done, Error} : Count(x)' = IF tail = <<x>> THEN 1 ELSE 0
           /\ tail # <<>> => Last(page') = tail[1]
<1>1. ShownInOrder /\ Count(Done) = 0 /\ Count(Error) = 0
  BY DEF StreamInv, PassedThrough, ShownInOrder
<1>2. /\ page' \in Seq(Lines) /\ Len(page) \in Nat /\ Len(evs) \in Nat
      /\ Len(page') = Len(page) + Len(evs) + (IF tail = <<>> THEN 0 ELSE 1)
      /\ tail # <<>> => page'[Len(page) + Len(evs) + 1] = tail[1]
  BY LinesWritten
<1>3. ShownInOrder'
  BY <1>1, OrderKept
<1>4. Cardinality(EventLines') = Cardinality(EventLines) + Len(evs)
  BY LinesCounted
<1>5. \A x \in {Done, Error} : Count(x)' = IF tail = <<x>> THEN 1 ELSE 0
  <2>1. \A x \in {Done, Error} : Count(x)' = Count(x) + (IF tail = <<x>> THEN 1 ELSE 0)
    BY LinesCounted
  <2>2. QED BY <1>1, <2>1
<1>6. tail # <<>> => Last(page') = tail[1]
  <2>1. tail # <<>> => Len(page') = Len(page) + Len(evs) + 1
    BY <1>2
  <2>2. QED BY <1>2, <2>1 DEF Last
<1>7. QED BY <1>2, <1>3, <1>4, <1>5, <1>6

\* The last word is written.
LEMMA EndsWith ==
    ASSUME StreamInv, at # "ended", NEW evs, NEW x \in {Done, Error},
           Writes(evs, <<x>>), UNCHANGED <<sent, api, aborted>>,
           Cardinality(EventLines) + Len(evs) <= Len(sent),
           \A j \in 1 .. Len(evs) : evs[j] = sent[Cardinality(EventLines) + j],
           at' = "ended", heartbeat' = FALSE,
           buffer' \in Seq(Pieces), wire' \in Seq(Pieces),
           Separators(buffer') = {}, Len(buffer') <= 3,
           x = Done /\ api = "done" => Cardinality(EventLines) + Len(evs) = Len(sent),
           x = Error => api = "broken" \/ sent = <<>>
    PROVE  StreamInv'
<1>1. /\ page' \in Seq(Lines) /\ ShownInOrder'
      /\ Cardinality(EventLines') = Cardinality(EventLines) + Len(evs)
      /\ \A y \in {Done, Error} : Count(y)' = IF <<x>> = <<y>> THEN 1 ELSE 0
      /\ <<x>> # <<>> => Last(page') = <<x>>[1]
  BY AfterWriting
<1>2. Last(page') = x /\ \A y : <<x>> = <<y>> <=> x = y
  <2>1. <<x>> # <<>> /\ <<x>>[1] = x
    OBVIOUS
  <2>2. QED BY <1>1, <2>1
<1>3. CASE x = Done
  <2>1. Count(Done)' = 1 /\ Count(Error)' = 0
    BY <1>1, <1>2, <1>3, FourLines
  <2>2. StreamType'
    BY <1>1 DEF StreamInv, StreamType
  <2>3. Unread'
    BY <1>1 DEF Unread
  <2>4. LastWord'
    BY <1>2, <2>1 DEF LastWord
  <2>5. PassedThrough'
    BY <1>1, <1>3, <2>1 DEF PassedThrough, ShownInOrder
  <2>6. QED BY <2>2, <2>3, <2>4, <2>5 DEF StreamInv
<1>4. CASE x = Error
  <2>1. Count(Done)' = 0 /\ Count(Error)' = 1
    BY <1>1, <1>2, <1>4, FourLines
  <2>2. StreamType'
    BY <1>1 DEF StreamInv, StreamType
  <2>3. Unread'
    BY <1>1 DEF Unread
  <2>4. LastWord'
    BY <1>2, <2>1 DEF LastWord
  <2>5. PassedThrough'
    BY <1>1, <1>4, <2>1 DEF PassedThrough, ShownInOrder
  <2>6. QED BY <2>2, <2>3, <2>4, <2>5 DEF StreamInv
<1>5. QED BY <1>3, <1>4

\* The stream goes on.
LEMMA GoesOn ==
    ASSUME StreamInv, at # "ended", NEW evs, NEW tail \in {<<>>, <<Ping>>},
           Writes(evs, tail), UNCHANGED <<at, sent, api, aborted>>,
           Cardinality(EventLines) + Len(evs) <= Len(sent),
           \A j \in 1 .. Len(evs) : evs[j] = sent[Cardinality(EventLines) + j]
    PROVE  /\ page' \in Seq(Lines) /\ ShownInOrder' /\ LastWord'
           /\ Cardinality(EventLines') = Cardinality(EventLines) + Len(evs)
           /\ Count(Done)' = 0 /\ Count(Error)' = 0
<1>1. /\ page' \in Seq(Lines) /\ ShownInOrder'
      /\ Cardinality(EventLines') = Cardinality(EventLines) + Len(evs)
      /\ \A y \in {Done, Error} : Count(y)' = IF tail = <<y>> THEN 1 ELSE 0
  BY AfterWriting
<1>2. tail # <<Done>> /\ tail # <<Error>>
  BY FourLines
<1>3. Count(Done)' = 0 /\ Count(Error)' = 0
  BY <1>1, <1>2
<1>4. LastWord'
  BY <1>3 DEF LastWord
<1>5. QED BY <1>1, <1>3, <1>4

\* Nothing is written.
LEMMA NothingWritten ==
    ASSUME page' = page
    PROVE  EventLines' = EventLines /\ Count(Done)' = Count(Done) /\ Count(Error)' = Count(Error)
BY DEF EventLines, Count

LEMMA StreamInit ==
    ASSUME Init
    PROVE  StreamInv
<1>1. EventLines = {} /\ Count(Done) = 0 /\ Count(Error) = 0
  <2>1. DOMAIN page = {}
    BY DEF Init
  <2>2. {i \in DOMAIN page : page[i] = Done} = {} /\ {i \in DOMAIN page : page[i] = Error} = {}
    BY <2>1
  <2>3. QED BY <2>1, <2>2, FS_EmptySet DEF EventLines, Count
<1>2. Cardinality(EventLines) = 0
  BY <1>1, FS_EmptySet
<1>3. StreamType
  <2>1. <<>> \in Seq(Events) /\ <<>> \in Seq(Lines) /\ <<>> \in Seq(Pieces)
    BY EmptySeq
  <2>2. QED BY <2>1 DEF Init, StreamType
<1>4. Separators(buffer) = {} /\ Len(buffer) = 0 /\ Len(sent) = 0
  BY DEF Init, Separators
<1>5. Unread
  BY <1>2, <1>4 DEF Init, Unread
<1>6. PassedThrough /\ LastWord
  BY <1>1, <1>4 DEF Init, PassedThrough, LastWord
<1>7. QED BY <1>1, <1>3, <1>5, <1>6 DEF StreamInv

LEMMA ApiSendsKeeps ==
    ASSUME StreamInv, NEW e \in Events, ApiSends(e)
    PROVE  StreamInv'
<1> DEFINE c == Cardinality(EventLines)
           u == wire \o Body(e) \o <<NL, NL>>
<1>1. /\ StreamType /\ at = "reading" /\ api = "open" /\ c \in Nat
      /\ Count(Done) = 0 /\ Count(Error) = 0
      /\ sent' = Append(sent, e) /\ wire' = u
      /\ UNCHANGED <<at, api, buffer, page, heartbeat, aborted>>
  BY CountsTyped DEF ApiSends, StreamInv
<1>2. EventLines' = EventLines /\ Count(Done)' = 0 /\ Count(Error)' = 0
  BY <1>1, NothingWritten
<1>3. /\ sent \in Seq(Events) /\ Len(sent) \in Nat
      /\ sent' \in Seq(Events) /\ Len(sent') = Len(sent) + 1
      /\ \A i \in 1 .. Len(sent) : sent'[i] = sent[i]
  BY <1>1, AppendProperties, LenProperties DEF StreamType
<1>4. Whole = sent /\ Whole' = Append(sent, e)
  BY <1>1 DEF Whole
<1>5. /\ Holds(buffer \o wire, sent, c) /\ Len(buffer \o wire) = 4 * (Len(sent) - c)
      /\ c <= Len(sent)
  BY <1>1, <1>4 DEF StreamInv, Unread
<1>6. wire \in Seq(Pieces) /\ buffer \in Seq(Pieces) /\ sent \in Seq(Events \cup {Done})
  BY <1>1, <1>3, SeqMonotonic DEF StreamType
<1>7. /\ u \in Seq(Pieces) /\ Holds(buffer \o u, Append(sent, e), c)
      /\ Len(buffer \o u) = 4 * (Len(Append(sent, e)) - c)
  <2>1. EventAdded(buffer, wire, sent, c, e)
    <3> HIDE DEF c, u
    <3>1. QED BY <1>1, <1>5, <1>6, BlockSent
  <2>2. QED BY <2>1 DEF EventAdded
<1> HIDE DEF c, u
<1>8. StreamType'
  BY <1>1, <1>3, <1>6, <1>7 DEF StreamType
<1>9. Unread'
  <2>1. c' = c
    BY <1>2 DEF c
  <2>2. Cardinality(EventLines') = c
    BY <2>1 DEF c
  <2>3. c <= Len(sent')
    BY <1>1, <1>3, <1>5
  <2>4. /\ Holds(buffer' \o wire', Whole', Cardinality(EventLines'))
        /\ Len(buffer' \o wire') = 4 * (Len(Whole') - Cardinality(EventLines'))
    BY <1>1, <1>4, <1>7, <2>2
  <2>5. QED BY <1>1, <2>2, <2>3, <2>4 DEF Unread
<1>10. ShownInOrder'
  <2>1. ShownInOrder
    BY DEF StreamInv, PassedThrough, ShownInOrder
  <2>2. ASSUME NEW i \in EventLines
        PROVE  Nth(i)' <= Len(sent') /\ page'[i] = sent'[Nth(i)']
    <3>1. Nth(i)' = Nth(i)
      BY <1>2 DEF Nth
    <3>2. Nth(i) \in 1 .. Len(sent)
      <4> DEFINE A == {j \in EventLines : j <= i}
      <4>1. EventLines \subseteq 1 .. Len(page) /\ Len(page) \in Nat
        BY <1>1, CountsTyped, LenProperties DEF EventLines
      <4>2. A \subseteq 1 .. Len(page) /\ i \in A
        <5>1. i \in EventLines /\ i \in 1 .. Len(page)
          BY <2>2, <4>1
        <5>2. i \in Nat /\ i <= i
          BY <4>1, <5>1
        <5>3. A \subseteq EventLines
          OBVIOUS
        <5>4. i \in A
          BY <5>1, <5>2
        <5> HIDE DEF A
        <5>5. QED BY <4>1, <5>3, <5>4
      <4>3. IsFiniteSet(A)
        <5>1. IsFiniteSet(1 .. Len(page))
          BY <4>1, FS_Interval
        <5> HIDE DEF A
        <5>2. QED BY <4>2, <5>1, FS_Subset
      <4> HIDE DEF A
      <4>4. Cardinality(A) \in Nat /\ Cardinality(A) # 0
        BY <4>2, <4>3, FS_CardinalityType, FS_EmptySet
      <4>5. Nth(i) = Cardinality(A)
        BY DEF Nth, A
      <4>6. Nth(i) <= Len(sent)
        BY <2>1, <2>2 DEF ShownInOrder
      <4>7. QED BY <1>3, <4>4, <4>5, <4>6
    <3>3. page'[i] = sent[Nth(i)]
      BY <1>1, <2>1, <2>2 DEF ShownInOrder
    <3>4. QED BY <1>3, <3>1, <3>2, <3>3
  <2>3. QED BY <1>2, <2>2 DEF ShownInOrder
<1>11. LastWord'
  BY <1>1, <1>2 DEF LastWord
<1>12. PassedThrough'
  <2>1. Separators(buffer') = {} /\ Len(buffer') <= 3
    BY <1>1 DEF StreamInv, PassedThrough
  <2>2. QED BY <1>1, <1>2, <1>10, <2>1 DEF PassedThrough, ShownInOrder
<1>13. QED BY <1>2, <1>8, <1>9, <1>11, <1>12 DEF StreamInv

LEMMA OrderFramed ==
    ASSUME StreamInv, UNCHANGED <<page, sent, buffer>>
    PROVE  ShownInOrder' /\ Separators(buffer') = {} /\ Len(buffer') <= 3
<1>1. ShownInOrder /\ Separators(buffer) = {} /\ Len(buffer) <= 3
  BY DEF StreamInv, PassedThrough, ShownInOrder
<1>2. EventLines' = EventLines
  BY NothingWritten
<1>3. \A i \in EventLines : Nth(i)' = Nth(i)
  BY <1>2 DEF Nth
<1>4. QED BY <1>1, <1>2, <1>3 DEF ShownInOrder

LEMMA ApiEndsKeeps ==
    ASSUME StreamInv, ApiEnds
    PROVE  StreamInv'
<1> DEFINE c == Cardinality(EventLines)
<1>1. /\ StreamType /\ at = "reading" /\ api = "open" /\ c \in Nat
      /\ Count(Done) = 0 /\ Count(Error) = 0
      /\ UNCHANGED <<at, sent, buffer, page, heartbeat, aborted>>
  BY CountsTyped DEF ApiEnds, StreamInv
<1>2. EventLines' = EventLines /\ Count(Done)' = 0 /\ Count(Error)' = 0 /\ c' = c
  <2>1. EventLines' = EventLines
    BY <1>1, NothingWritten
  <2>2. c' = c
    BY <2>1
  <2> HIDE DEF c
  <2>3. QED BY <1>1, <2>1, <2>2, NothingWritten
<1>3. sent \in Seq(Events) /\ sent \in Seq(Events \cup {Done}) /\ wire \in Seq(Pieces)
      /\ buffer \in Seq(Pieces) /\ Len(sent) \in Nat
  BY <1>1, SeqMonotonic, LenProperties DEF StreamType
<1>4. Whole = sent
  BY <1>1 DEF Whole
<1>5. /\ Holds(buffer \o wire, sent, c) /\ Len(buffer \o wire) = 4 * (Len(sent) - c)
      /\ c <= Len(sent)
  BY <1>1, <1>4 DEF StreamInv, Unread
<1> HIDE DEF c
<1>6. /\ wire' \in Seq(Pieces) /\ api' \in {"done", "closed", "broken"}
      /\ api' = "broken" => wire' = <<>>
      /\ api' # "broken" => Holds(buffer' \o wire', Whole', c)
      /\ api' \notin {"broken", "closed"} => Len(buffer' \o wire') = 4 * (Len(Whole') - c)
  <2>1. CASE api' = "done" /\ wire' = wire \o Body(Done) \o <<NL, NL>>
    <3>1. EventAdded(buffer, wire, sent, c, Done)
      BY <1>1, <1>3, <1>5, BlockSent
    <3>2. Whole' = Append(sent, Done)
      BY <1>1, <2>1 DEF Whole
    <3>3. QED BY <1>1, <2>1, <3>1, <3>2 DEF EventAdded
  <2>2. CASE /\ api' = "closed"
             /\ \E e \in Events, n \in 1 .. 2 : wire' = wire \o SubSeq(Body(e), 1, n)
    <3>1. PICK e \in Events, n \in 0 .. 2 : wire' = wire \o SubSeq(Body(e), 1, n)
      BY <2>2
    <3>2. PartAdded(buffer, wire, sent, c, e, n)
      BY <1>1, <1>3, <1>5, HalfSent
    <3>3. Whole' = sent
      BY <1>1, <2>2 DEF Whole
    <3>4. QED BY <1>1, <2>2, <3>1, <3>2, <3>3 DEF PartAdded
  <2>3. CASE api' = "broken" /\ wire' = <<>>
    <3>1. <<>> \in Seq(Pieces)
      BY EmptySeq
    <3>2. QED BY <2>3, <3>1
  <2>4. CASE api' = "closed" /\ wire' = wire
    BY <1>1, <1>3, <1>4, <1>5, <2>4 DEF Whole
  <2>5. QED BY <2>1, <2>2, <2>3, <2>4 DEF ApiEnds
<1>7. StreamType'
  BY <1>1, <1>6 DEF StreamType
<1>8. Unread'
  <2>1. Cardinality(EventLines') = c
    BY <1>2 DEF c
  <2>2. QED BY <1>1, <1>5, <1>6, <2>1 DEF Unread
<1>9. LastWord'
  BY <1>1, <1>2 DEF LastWord
<1>10. PassedThrough'
  <2>1. ShownInOrder' /\ Separators(buffer') = {} /\ Len(buffer') <= 3
    BY <1>1, OrderFramed
  <2>2. QED BY <1>2, <2>1 DEF PassedThrough, ShownInOrder
<1>11. QED BY <1>2, <1>7, <1>8, <1>9, <1>10 DEF StreamInv

LEMMA FetchAnswersKeeps ==
    ASSUME StreamInv, FetchAnswers
    PROVE  StreamInv'
<1>1. /\ StreamType /\ at = "fetch" /\ at' = "reading"
      /\ UNCHANGED <<api, sent, wire, buffer, page, heartbeat, aborted>>
      /\ Cardinality(EventLines) \in Nat /\ Count(Done) = 0 /\ Count(Error) = 0
  BY CountsTyped DEF FetchAnswers, StreamInv
<1>2. EventLines' = EventLines /\ Count(Done)' = 0 /\ Count(Error)' = 0
  BY <1>1, NothingWritten
<1>3. api = "open" /\ sent = <<>> /\ wire = <<>> /\ buffer = <<>> /\ Whole' = <<>>
  BY <1>1 DEF StreamInv, Unread, Whole
<1>4. Cardinality(EventLines) = 0
  <2>1. Cardinality(EventLines) <= Len(sent) /\ Len(sent) = 0
    BY <1>3 DEF StreamInv, Unread
  <2>2. QED BY <1>1, <2>1
<1>5. StreamType'
  BY <1>1 DEF StreamType
<1>6. Holds(<<>>, <<>>, 0) /\ <<>> \o <<>> = <<>> /\ Len(<<>>) = 0
  BY DEF Holds
<1>7. Unread'
  <2>1. buffer' \o wire' = <<>> /\ sent' = <<>> /\ Cardinality(EventLines') = 0
    BY <1>1, <1>2, <1>3, <1>4, <1>6
  <2>2. Len(<<>>) = 4 * (Len(<<>>) - 0)
    BY <1>6
  <2>3. /\ Holds(buffer' \o wire', Whole', Cardinality(EventLines'))
        /\ Len(buffer' \o wire') = 4 * (Len(Whole') - Cardinality(EventLines'))
    BY <1>3, <1>6, <2>1, <2>2
  <2>4. QED BY <1>1, <1>3, <1>6, <2>1, <2>3 DEF Unread
<1>8. LastWord'
  BY <1>1, <1>2 DEF LastWord
<1>9. PassedThrough'
  <2>1. ShownInOrder' /\ Separators(buffer') = {} /\ Len(buffer') <= 3
    BY <1>1, OrderFramed
  <2>2. QED BY <1>2, <2>1 DEF PassedThrough, ShownInOrder
<1>10. QED BY <1>2, <1>5, <1>7, <1>8, <1>9 DEF StreamInv

\* The last word comes after the lines that are on the page.
LEMMA FinishKeeps ==
    ASSUME StreamInv, at # "ended", ~aborted, NEW x \in {Done, Error}, Finish(<<x>>),
           UNCHANGED <<api, sent, wire, buffer, aborted>>,
           x = Done => api = "closed", x = Error => api = "broken" \/ sent = <<>>
    PROVE  StreamInv'
<1>1. /\ StreamType /\ page \in Seq(Lines) /\ Cardinality(EventLines) \in Nat
      /\ Cardinality(EventLines) <= Len(sent) /\ Separators(buffer) = {} /\ Len(buffer) <= 3
  BY CountsTyped DEF StreamInv, Unread, PassedThrough
<1>2. page' = page \o <<x>> /\ at' = "ended" /\ heartbeat' = FALSE
  BY DEF Finish
<1>3. <<x>> \in Seq({x}) /\ <<>> \in Seq(Events) /\ Len(<<>>) = 0
  BY EmptySeq
<1>4. <<>> \o <<x>> = <<x>>
  BY <1>3, ConcatEmptySeq
<1>5. Writes(<<>>, <<x>>)
  BY <1>1, <1>2, <1>3, <1>4 DEF Writes
<1>6. /\ Cardinality(EventLines) + Len(<<>>) <= Len(sent)
      /\ \A j \in 1 .. Len(<<>>) : <<>>[j] = sent[Cardinality(EventLines) + j]
  BY <1>1, <1>3
<1>7. /\ buffer' \in Seq(Pieces) /\ wire' \in Seq(Pieces)
      /\ Separators(buffer') = {} /\ Len(buffer') <= 3
  BY <1>1 DEF StreamType
<1>8. x = Done /\ api = "done" => Cardinality(EventLines) + Len(<<>>) = Len(sent)
  OBVIOUS
<1>9. QED BY <1>2, <1>5, <1>6, <1>7, <1>8, EndsWith

LEMMA ChunkKeeps ==
    ASSUME StreamInv, NEW n \in 1 .. Len(wire), Chunk(n)
    PROVE  StreamInv'
<1>1. /\ StreamType /\ at = "reading" /\ ~aborted /\ UNCHANGED <<api, sent, aborted>>
      /\ Whole' = Whole
  BY DEF Chunk, StreamInv, Whole
<1>2. /\ buffer' \in Seq(Pieces) /\ wire' \in Seq(Pieces)
      /\ Separators(buffer') = {} /\ Len(buffer') <= 3 /\ api # "broken"
  BY ChunkReads
<1>3. PICK evs \in Seq(Events) :
         LET c == Cardinality(EventLines) + Len(evs)
         IN  /\ c <= Len(sent)
             /\ \A j \in 1 .. Len(evs) : evs[j] = sent[Cardinality(EventLines) + j]
             /\ \/ /\ Writes(evs, <<>>) /\ UNCHANGED <<at, heartbeat>>
                   /\ Holds(buffer' \o wire', Whole, c)
                   /\ api # "closed" => Len(buffer' \o wire') = 4 * (Len(Whole) - c)
                \/ /\ Writes(evs, <<Done>>) /\ at' = "ended" /\ heartbeat' = FALSE
                   /\ api = "done" /\ c = Len(sent)
  BY ChunkReads
<1> DEFINE c == Cardinality(EventLines) + Len(evs)
<1>4. c <= Len(sent) /\ \A j \in 1 .. Len(evs) : evs[j] = sent[Cardinality(EventLines) + j]
  BY <1>3
<1>5. CASE /\ Writes(evs, <<>>) /\ UNCHANGED <<at, heartbeat>>
           /\ Holds(buffer' \o wire', Whole, c)
           /\ api # "closed" => Len(buffer' \o wire') = 4 * (Len(Whole) - c)
  <2>1. /\ page' \in Seq(Lines) /\ ShownInOrder' /\ LastWord'
        /\ Cardinality(EventLines') = c /\ Count(Done)' = 0 /\ Count(Error)' = 0
    BY <1>1, <1>4, <1>5, GoesOn
  <2> HIDE DEF c
  <2>2. StreamType'
    BY <1>1, <1>2, <1>5, <2>1 DEF StreamType
  <2>3. Unread'
    BY <1>1, <1>2, <1>4, <1>5, <2>1 DEF Unread
  <2>4. PassedThrough'
    BY <1>2, <2>1 DEF PassedThrough, ShownInOrder
  <2>5. QED BY <2>1, <2>2, <2>3, <2>4 DEF StreamInv
<1>6. CASE /\ Writes(evs, <<Done>>) /\ at' = "ended" /\ heartbeat' = FALSE
           /\ api = "done" /\ c = Len(sent)
  <2>1. Done # Error
    BY FourLines
  <2>2. QED BY <1>1, <1>2, <1>4, <1>6, <2>1, EndsWith
<1>7. QED BY <1>3, <1>5, <1>6

LEMMA AbortedKeeps ==
    ASSUME StreamInv, Aborted
    PROVE  StreamInv'
<1>1. /\ StreamType /\ aborted /\ at # "ended" /\ at' = "ended" /\ page' = page /\ ~heartbeat'
      /\ UNCHANGED <<api, sent, wire, buffer, aborted>>
      /\ Count(Done) = 0 /\ Count(Error) = 0
  BY DEF Aborted, Finish, StreamInv
<1>2. EventLines' = EventLines /\ Count(Done)' = 0 /\ Count(Error)' = 0
  BY <1>1, NothingWritten
<1>3. StreamType'
  BY <1>1 DEF StreamType
<1>4. Cardinality(EventLines') <= Len(sent')
  BY <1>1, <1>2 DEF StreamInv, Unread
<1>5. Unread'
  BY <1>1, <1>4 DEF Unread
<1>6. LastWord'
  BY <1>1, <1>2 DEF LastWord
<1>7. PassedThrough'
  <2>1. ShownInOrder' /\ Separators(buffer') = {} /\ Len(buffer') <= 3
    BY <1>1, OrderFramed
  <2>2. QED BY <1>2, <2>1 DEF PassedThrough, ShownInOrder
<1>8. QED BY <1>1, <1>3, <1>5, <1>6, <1>7 DEF StreamInv

LEMMA HeartbeatKeeps ==
    ASSUME StreamInv, Heartbeat
    PROVE  StreamInv'
<1>1. /\ StreamType /\ at # "ended" /\ page' = Append(page, Ping)
      /\ UNCHANGED <<at, api, sent, wire, buffer, heartbeat, aborted>> /\ Whole' = Whole
      /\ page \in Seq(Lines) /\ Cardinality(EventLines) \in Nat
      /\ Cardinality(EventLines) <= Len(sent)
  BY CountsTyped DEF Heartbeat, StreamInv, LastWord, Unread, Whole
<1>2. /\ <<Ping>> \in Seq({Ping}) /\ <<>> \in Seq(Events) /\ Len(<<>>) = 0
      /\ page \o <<Ping>> = Append(page, Ping)
  BY <1>1, EmptySeq, AppendIsConcat DEF Lines
<1>3. <<>> \o <<Ping>> = <<Ping>>
  BY <1>2, ConcatEmptySeq
<1>4. Writes(<<>>, <<Ping>>)
  BY <1>1, <1>2, <1>3 DEF Writes
<1>5. /\ Cardinality(EventLines) + Len(<<>>) <= Len(sent)
      /\ Cardinality(EventLines) + Len(<<>>) = Cardinality(EventLines)
      /\ \A j \in 1 .. Len(<<>>) : <<>>[j] = sent[Cardinality(EventLines) + j]
  BY <1>1, <1>2
<1>6. /\ page' \in Seq(Lines) /\ ShownInOrder' /\ LastWord'
      /\ Cardinality(EventLines') = Cardinality(EventLines) + Len(<<>>)
      /\ Count(Done)' = 0 /\ Count(Error)' = 0
  BY <1>1, <1>4, <1>5, GoesOn
<1>7. Cardinality(EventLines') = Cardinality(EventLines)
  BY <1>5, <1>6
<1>8. StreamType'
  BY <1>1, <1>6 DEF StreamType
<1>9. Unread'
  BY <1>1, <1>7 DEF StreamInv, Unread
<1>10. Separators(buffer') = {} /\ Len(buffer') <= 3
  BY <1>1 DEF StreamInv, PassedThrough
<1>11. PassedThrough'
  BY <1>6, <1>10 DEF PassedThrough, ShownInOrder
<1>12. QED BY <1>6, <1>8, <1>9, <1>11 DEF StreamInv

LEMMA CloseKeeps ==
    ASSUME StreamInv, Close
    PROVE  StreamInv'
<1>1. /\ StreamType /\ aborted' = TRUE /\ at # "ended" /\ Whole' = Whole
      /\ UNCHANGED <<at, api, sent, wire, buffer, page, heartbeat>>
  BY DEF Close, StreamInv, Whole
<1>2. /\ EventLines' = EventLines /\ Count(Done)' = Count(Done) /\ Count(Error)' = Count(Error)
      /\ Count(Done) = 0 /\ Count(Error) = 0
  BY <1>1, NothingWritten DEF StreamInv
<1>3. StreamType'
  BY <1>1 DEF StreamType
<1>4. Unread'
  BY <1>1, <1>2 DEF StreamInv, Unread
<1>5. LastWord'
  BY <1>1, <1>2 DEF LastWord
<1>6. PassedThrough'
  <2>1. ShownInOrder' /\ Separators(buffer') = {} /\ Len(buffer') <= 3
    BY <1>1, OrderFramed
  <2>2. QED BY <1>2, <2>1 DEF PassedThrough, ShownInOrder
<1>7. QED BY <1>2, <1>3, <1>4, <1>5, <1>6 DEF StreamInv

LEMMA StutterKeeps ==
    ASSUME StreamInv, UNCHANGED vars
    PROVE  StreamInv'
<1>1. /\ UNCHANGED <<at, api, sent, wire, buffer, page, heartbeat, aborted>> /\ Whole' = Whole
  BY DEF vars, Whole
<1>2. EventLines' = EventLines /\ Count(Done)' = Count(Done) /\ Count(Error)' = Count(Error)
  BY <1>1, NothingWritten
<1>3. StreamType' /\ Unread' /\ LastWord'
  BY <1>1, <1>2 DEF StreamInv, StreamType, Unread, LastWord
<1>4. PassedThrough'
  <2>1. ShownInOrder' /\ Separators(buffer') = {} /\ Len(buffer') <= 3
    BY <1>1, OrderFramed
  <2>2. QED BY <1>1, <1>2, <2>1 DEF StreamInv, PassedThrough, ShownInOrder
<1>5. QED BY <1>1, <1>2, <1>3, <1>4 DEF StreamInv

LEMMA StreamStep ==
    ASSUME StreamInv, [Next]_vars
    PROVE  StreamInv'
<1>1. CASE \E e \in Events : ApiSends(e)
  BY <1>1, ApiSendsKeeps
<1>2. CASE ApiEnds
  BY <1>2, ApiEndsKeeps
<1>3. CASE FetchAnswers
  BY <1>3, FetchAnswersKeeps
<1>4. CASE FetchFails
  <2>1. sent = <<>> /\ Error # Done
    BY <1>4, FourLines DEF FetchFails, StreamInv, Unread
  <2>2. QED BY <1>4, <2>1, FinishKeeps DEF FetchFails
<1>5. CASE Read
  BY <1>5, ChunkKeeps DEF Read
<1>6. CASE EndOfBody
  <2>1. Error # Done
    BY FourLines
  <2>2. QED BY <1>6, <2>1, FinishKeeps DEF EndOfBody
<1>7. CASE BodyFails
  <2>1. Error # Done
    BY FourLines
  <2>2. QED BY <1>7, <2>1, FinishKeeps DEF BodyFails
<1>8. CASE Aborted
  BY <1>8, AbortedKeeps
<1>9. CASE Close
  BY <1>9, CloseKeeps
<1>10. CASE Heartbeat
  BY <1>10, HeartbeatKeeps
<1>11. CASE UNCHANGED vars
  BY <1>11, StutterKeeps
<1>12. QED
  BY <1>1, <1>2, <1>3, <1>4, <1>5, <1>6, <1>7, <1>8, <1>9, <1>10, <1>11 DEF Next

-------------------------------------------------------------------------------
(* The theorems. *)

\* While a request of one kind runs, the invariant of the streams is kept.
LEMMA StreamAlways == MCFairSpec => []StreamInv
<1>1. MCInit => StreamInv
  BY StreamInit DEF MCInit
<1>2. StreamInv /\ [MCNext]_mcvars => StreamInv'
  <2> SUFFICES ASSUME StreamInv, [MCNext]_mcvars PROVE StreamInv'
    OBVIOUS
  <2>1. [Next]_vars
    BY DEF MCNext, OfStream, OfSpeech, mcvars
  <2>2. QED BY <2>1, StreamStep
<1>3. QED BY <1>1, <1>2, PTL DEF MCFairSpec

\* The page gets the events of the API unchanged, in order and once each, however the
\* response is cut into chunks, and all of them if the API said [DONE] (readEvents and
\* stream): for any number of events and heartbeats.
THEOREM EventsPassThrough == MCFairSpec => []PassedThrough
<1>1. StreamInv => PassedThrough
  BY DEF StreamInv
<1>2. QED BY <1>1, StreamAlways, PTL

\* Every stream that ends, and that its page has not closed, ends with one [DONE] or
\* one error, and nothing after it, no heartbeat either (stream).
THEOREM EndsWithLastWord == MCFairSpec => []LastWord
<1>1. StreamInv => LastWord
  BY DEF StreamInv
<1>2. QED BY <1>1, StreamAlways, PTL

\* Weak fairness of the timer, with its guard for ENABLED, which the provers do not
\* know: the conjunct of MCFairSpec about TimerFires.
TimerIsFair == []<>~(about = "speech" /\ timer) \/ []<><<OfSpeech(S!TimerFires)>>_mcvars

\* A page that asks for speech is answered even if Edge falls silent for ever
\* (synthesize): for any number of chunks.
THEOREM SpeechIsAnswered == MCInit /\ [][MCNext]_mcvars /\ TimerIsFair => EverySpeechAnswered
<1> DEFINE Racing == about = "speech" /\ timer
           Answered == answer # "none" /\ ~timer
           OneKind == timer => about = "speech"
<1>1. MCInit => OneKind
  BY DEF MCInit, S!Init
<1>2. OneKind /\ [MCNext]_mcvars => OneKind'
  BY DEF MCNext, OfStream, OfSpeech, mcvars, speechVars
<1>3. Racing /\ [MCNext]_mcvars => Racing' \/ Answered'
  <2> SUFFICES ASSUME Racing, [MCNext]_mcvars PROVE Racing' \/ Answered'
    OBVIOUS
  <2>1. CASE UNCHANGED mcvars \/ OfStream(Next)
    BY <2>1 DEF OfStream, mcvars, speechVars
  <2>2. CASE OfSpeech(S!Next)
    <3>1. about' = "speech" /\ S!Next
      BY <2>2 DEF OfSpeech
    <3>2. timer' \/ Answered'
      BY <3>1 DEF S!Next, S!NothingToSay, S!Synthesize, S!Connected, S!EdgeSends,
                  S!ReadChunk, S!StreamEnds, S!ReadFails, S!TimerFires, S!Settle, S!TooLate
    <3>3. QED BY <3>1, <3>2
  <2>3. QED BY <2>1, <2>2 DEF MCNext
<1>4. Racing /\ <<OfSpeech(S!TimerFires)>>_mcvars => Answered'
  BY DEF OfSpeech, S!TimerFires, S!Settle
<1>5. Racing <=> ~~(about = "speech" /\ timer)
  OBVIOUS
<1>6. OneKind => (timer => Racing)
  OBVIOUS
<1> HIDE DEF Racing, Answered, OneKind
<1>7. MCInit /\ [][MCNext]_mcvars => []OneKind
  BY <1>1, <1>2, PTL
<1>8. [][MCNext]_mcvars /\ TimerIsFair => (Racing ~> Answered)
  BY <1>3, <1>4, <1>5, PTL DEF TimerIsFair
<1>9. MCInit /\ [][MCNext]_mcvars /\ TimerIsFair => (timer ~> Answered)
  BY <1>6, <1>7, <1>8, PTL
<1>10. QED BY <1>9, PTL DEF EverySpeechAnswered, S!EverySpeechAnswered, Answered

-------------------------------------------------------------------------------
(* The stream is a pipe. *)

\* The lines with events are numbered without a gap.
LEMMA Numbered ==
    ASSUME StreamType, NEW n \in 1 .. Cardinality(EventLines)
    PROVE  \E i \in EventLines : Nth(i) = n
<1> DEFINE w == Cardinality(EventLines)
           UpTo(i) == {j \in EventLines : j <= i}
           f == [i \in EventLines |-> Cardinality(UpTo(i))]
<1>1. /\ IsFiniteSet(EventLines) /\ w \in Nat
      /\ \A i \in EventLines : i \in Nat
  <2>1. Len(page) \in Nat /\ DOMAIN page = 1 .. Len(page)
    BY CountsTyped, LenProperties
  <2>2. EventLines \subseteq 1 .. Len(page)
    BY <2>1 DEF EventLines
  <2>3. IsFiniteSet(1 .. Len(page))
    BY <2>1, FS_Interval
  <2>4. IsFiniteSet(EventLines)
    BY <2>2, <2>3, FS_Subset
  <2>5. \A i \in EventLines : i \in Nat
    BY <2>1, <2>2
  <2>6. QED BY <2>4, <2>5, CountsTyped
<1>2. ASSUME NEW i \in EventLines
      PROVE  /\ UpTo(i) \in SUBSET EventLines /\ IsFiniteSet(UpTo(i)) /\ i \in UpTo(i)
             /\ Cardinality(UpTo(i)) \in 1 .. w
  <2>1. UpTo(i) \in SUBSET EventLines /\ i \in UpTo(i)
    BY <1>1
  <2> HIDE DEF UpTo
  <2>2. IsFiniteSet(UpTo(i)) /\ Cardinality(UpTo(i)) <= w /\ Cardinality(UpTo(i)) \in Nat
    BY <1>1, <2>1, FS_Subset, FS_CardinalityType
  <2>3. Cardinality(UpTo(i)) # 0
    BY <2>1, <2>2, FS_EmptySet
  <2>4. QED BY <1>1, <2>1, <2>2, <2>3
<1>3. ASSUME NEW i \in EventLines, NEW k \in EventLines, i < k
      PROVE  Cardinality(UpTo(i)) # Cardinality(UpTo(k))
  <2>1. UpTo(i) \in SUBSET UpTo(k) /\ k \notin UpTo(i)
    BY <1>1, <1>3
  <2> HIDE DEF UpTo
  <2>2. UpTo(i) # UpTo(k)
    BY <1>2, <2>1
  <2>3. QED BY <1>2, <2>1, <2>2, FS_Subset
<1>4. f \in [EventLines -> 1 .. w] /\ \A i \in EventLines : f[i] = Cardinality(UpTo(i))
  <2> HIDE DEF UpTo, w
  <2>1. QED BY <1>2
<1> HIDE DEF f, UpTo, w
<1>5. ASSUME NEW i \in EventLines, NEW k \in EventLines, f[i] = f[k]
      PROVE  i = k
  <2>1. ~(i < k) /\ ~(k < i)
    BY <1>3, <1>4, <1>5
  <2>2. QED BY <1>1, <2>1
<1>6. f \in Injection(EventLines, 1 .. w)
  BY <1>4, <1>5, Fun_IsInj
<1>7. IsFiniteSet(1 .. w) /\ Cardinality(1 .. w) = w
  BY <1>1, FS_Interval
<1>8. f \in Surjection(EventLines, 1 .. w)
  BY <1>6, <1>7, FS_Injection DEF w
<1>9. PICK i \in EventLines : f[i] = n
  BY <1>8 DEF Surjection, w
<1>10. QED BY <1>4, <1>9 DEF Nth, UpTo

\* What the page shows is the beginning of what was sent.
LEMMA ShownIsBeginning ==
    ASSUME StreamInv
    PROVE  /\ Shown = SubSeq(sent, 1, Cardinality(EventLines))
           /\ Len(Shown) = Cardinality(EventLines)
           /\ Cardinality(EventLines) \in 0 .. Len(sent) /\ sent \in Seq(Events)
<1> DEFINE w == Cardinality(EventLines)
<1>1. /\ sent \in Seq(Events) /\ Len(sent) \in Nat /\ w \in Nat /\ w <= Len(sent)
      /\ StreamType
  BY CountsTyped, LenProperties DEF StreamInv, StreamType, Unread
<1>2. /\ SubSeq(sent, 1, w) \in Seq(Events) /\ Len(SubSeq(sent, 1, w)) = w
      /\ \A n \in 1 .. w : SubSeq(sent, 1, w)[n] = sent[n]
  BY <1>1, Prefix
<1>3. ASSUME NEW n \in 1 .. w
      PROVE  Shown[n] = sent[n]
  <2> DEFINE i == CHOOSE k \in EventLines : Nth(k) = n
  <2>1. i \in EventLines /\ Nth(i) = n
    BY <1>1, Numbered
  <2>2. Shown[n] = page[i]
    BY DEF Shown
  <2> HIDE DEF i
  <2>3. QED BY <2>1, <2>2 DEF StreamInv, PassedThrough
<1>4. DOMAIN Shown = 1 .. w /\ Shown = [n \in 1 .. w |-> Shown[n]]
  BY DEF Shown
<1> HIDE DEF w
<1>5. Shown = [n \in 1 .. w |-> sent[n]]
  BY <1>3, <1>4
<1>6. SubSeq(sent, 1, w) = [n \in 1 .. w |-> sent[n]]
  BY <1>1, <1>2, LenProperties
<1>7. QED BY <1>1, <1>2, <1>5, <1>6 DEF w

\* Only a response that was closed may have ended in an event.
CutInv ==
    /\ cut \in Seq(Events) /\ Len(cut) <= 1
    /\ api # "closed" => cut = <<>>

PipeInv == StreamInv /\ CutInv

LEMMA CutStep ==
    ASSUME CutInv, [Next]_vars
    PROVE  CutInv'
<1>1. CASE UNCHANGED <<api, cut>>
  BY <1>1 DEF CutInv
<1>2. CASE ApiEnds
  <2>1. CASE cut' = cut /\ cut = <<>>
    BY <2>1 DEF CutInv
  <2>2. CASE api' = "closed" /\ \E e \in Events : cut' = <<e>>
    <3>1. PICK e \in Events : cut' = <<e>>
      BY <2>2
    <3>2. <<e>> \in Seq(Events) /\ Len(<<e>>) = 1
      OBVIOUS
    <3>3. QED BY <2>2, <3>1, <3>2 DEF CutInv
  <2>3. QED BY <1>2, <2>1, <2>2 DEF ApiEnds, CutInv
<1>3. Next => ApiEnds \/ UNCHANGED <<api, cut>>
  BY DEF Next, ApiSends, FetchAnswers, FetchFails, Read, Chunk, EndOfBody, BodyFails,
         Aborted, Close, Heartbeat
<1>4. QED BY <1>1, <1>2, <1>3 DEF vars

LEMMA PipeAlways == MCFairSpec => []PipeInv
<1>1. MCInit => CutInv
  BY EmptySeq DEF MCInit, Init, CutInv
<1>2. CutInv /\ [MCNext]_mcvars => CutInv'
  <2> SUFFICES ASSUME CutInv, [MCNext]_mcvars PROVE CutInv'
    OBVIOUS
  <2>1. [Next]_vars
    BY DEF MCNext, OfStream, OfSpeech, mcvars
  <2>2. QED BY <2>1, CutStep
<1>3. QED BY <1>1, <1>2, StreamAlways, PTL DEF MCFairSpec, PipeInv

\* What the page shows is the beginning of what the pipe was sent too, and lacks at
\* most the event cut off when it shows all that was sent whole.
LEMMA PipeShows ==
    ASSUME PipeInv
    PROVE  /\ Shown = SubSeq(sent \o cut, 1, Cardinality(EventLines))
           /\ Len(Shown) = Cardinality(EventLines)
           /\ Cardinality(EventLines) \in 0 .. Len(sent) /\ Len(sent) \in Nat
           /\ Len(sent \o cut) \in {Len(sent), Len(sent) + 1}
           /\ api # "closed" => sent \o cut = sent
<1> DEFINE w == Cardinality(EventLines)
<1>1. /\ Shown = SubSeq(sent, 1, w) /\ Len(Shown) = w
      /\ w \in 0 .. Len(sent) /\ sent \in Seq(Events) /\ Len(sent) \in Nat
  BY ShownIsBeginning, LenProperties DEF PipeInv
<1>2. cut \in Seq(Events) /\ Len(cut) \in {0, 1} /\ (api # "closed" => cut = <<>>)
  <2>1. cut \in Seq(Events) /\ Len(cut) <= 1 /\ (api # "closed" => cut = <<>>)
    BY DEF PipeInv, CutInv
  <2>2. Len(cut) \in Nat
    BY <2>1, LenProperties
  <2>3. Len(cut) \in {0, 1}
    BY <2>1, <2>2
  <2>4. QED BY <2>1, <2>3
<1> HIDE DEF w
<1>3. Len(sent \o cut) = Len(sent) + Len(cut)
  BY <1>1, <1>2, ConcatProperties
<1>4. SubSeq(sent \o cut, 1, w) = SubSeq(sent, 1, w)
  <2>1. CASE w = 0
    <3>1. \A t \in Seq(Events) : SubSeq(t, 1, 0) = <<>>
      BY SubSeqEmpty
    <3>2. sent \o cut \in Seq(Events)
      BY <1>1, <1>2, ConcatProperties
    <3>3. QED BY <1>1, <2>1, <3>1, <3>2
  <2>2. CASE w # 0
    <3>1. 1 \in 1 .. Len(sent) /\ w \in 1 .. Len(sent)
      BY <1>1, <2>2
    <3>2. QED BY <1>1, <1>2, <3>1, SubSeqOfConcat1
  <2>3. QED BY <2>1, <2>2
<1>5. Len(sent \o cut) \in {Len(sent), Len(sent) + 1}
  <2>1. \A m, k \in Nat : k \in {0, 1} => m + k \in {m, m + 1}
    OBVIOUS
  <2>2. Len(sent) \in Nat /\ Len(cut) \in Nat /\ Len(cut) \in {0, 1}
    BY <1>1, <1>2
  <2>3. QED BY <1>3, <2>1, <2>2
<1>6. api # "closed" => sent \o cut = sent
  BY <1>1, <1>2, ConcatEmptySeq
<1>7. QED BY <1>1, <1>4, <1>5, <1>6 DEF w

\* The same of the state after a step.
LEMMA ShownAfter ==
    /\ (StreamInv => Shown = SubSeq(sent, 1, Cardinality(EventLines)))'
    /\ (PipeInv => Shown = SubSeq(sent \o cut, 1, Cardinality(EventLines))
                   /\ Cardinality(EventLines) \in 0 .. Len(sent))'
<1>1. StreamInv => Shown = SubSeq(sent, 1, Cardinality(EventLines))
  BY ShownIsBeginning
<1>2. PipeInv => Shown = SubSeq(sent \o cut, 1, Cardinality(EventLines))
                 /\ Cardinality(EventLines) \in 0 .. Len(sent)
  BY PipeShows
<1>3. QED BY <1>1, <1>2, PTL

\* A step that writes the events of the response up to the n-th.
LEMMA PipeCatchesUp ==
    ASSUME PipeInv, PipeInv', UNCHANGED <<sent, cut>>,
           NEW n, Cardinality(EventLines') = n, Cardinality(EventLines) <= n
    PROVE  Pipe!CatchUp(n)
<1>1. Shown' = SubSeq(sent \o cut, 1, n) /\ n \in 0 .. Len(sent)
  BY ShownAfter
<1>2. /\ Len(Shown) = Cardinality(EventLines) /\ Cardinality(EventLines) \in Nat
      /\ Len(sent) \in Nat /\ Len(sent \o cut) \in {Len(sent), Len(sent) + 1}
  BY PipeShows
<1>3. n \in Len(Shown) .. Len(sent \o cut)
  BY <1>1, <1>2
<1>4. QED BY <1>1, <1>3 DEF Pipe!CatchUp

\* A step that adds no event to the page.
LEMMA PipeFrame ==
    ASSUME StreamInv, StreamInv', Cardinality(EventLines') = Cardinality(EventLines),
           sent' = sent
    PROVE  Shown' = Shown
<1>1. StreamInv => Shown = SubSeq(sent, 1, Cardinality(EventLines))
  BY ShownIsBeginning
<1>2. Shown' = SubSeq(sent', 1, Cardinality(EventLines'))
  BY ShownAfter
<1>3. QED BY <1>1, <1>2

\* A step that writes nothing for the pipe.
LEMMA PipeStutters ==
    ASSUME StreamInv, StreamInv', Cardinality(EventLines') = Cardinality(EventLines),
           UNCHANGED <<sent, cut, api>>, at # "ended", at' # "ended"
    PROVE  UNCHANGED Pipe!vars
<1>1. Shown' = Shown /\ sent' \o cut' = sent \o cut
  BY PipeFrame
<1>2. Outcome = "open" /\ Outcome' = "open"
  BY DEF Outcome
<1>3. QED BY <1>1, <1>2 DEF Pipe!vars

\* The last word, with no event before it.
LEMMA LastWordWritten ==
    ASSUME StreamInv, StreamInv', at # "ended", ~aborted, NEW x \in {Done, Error},
           Finish(<<x>>), sent' = sent
    PROVE  /\ Cardinality(EventLines') = Cardinality(EventLines)
           /\ Outcome' = IF x = Done THEN "done" ELSE "failed"
<1>1. /\ page \in Seq(Lines) /\ Cardinality(EventLines) \in Nat
      /\ Cardinality(EventLines) <= Len(sent)
  BY CountsTyped DEF StreamInv, Unread
<1>2. page' = page \o <<x>> /\ at' = "ended"
  BY DEF Finish
<1>3. <<x>> \in Seq({x}) /\ <<>> \in Seq(Events) /\ Len(<<>>) = 0
  BY EmptySeq
<1>4. <<>> \o <<x>> = <<x>>
  BY <1>3, ConcatEmptySeq
<1>5. Writes(<<>>, <<x>>)
  BY <1>1, <1>2, <1>3, <1>4 DEF Writes
<1>6. /\ Cardinality(EventLines) + Len(<<>>) <= Len(sent)
      /\ \A j \in 1 .. Len(<<>>) : <<>>[j] = sent[Cardinality(EventLines) + j]
  BY <1>1, <1>3
<1>7. /\ Cardinality(EventLines') = Cardinality(EventLines) + Len(<<>>)
      /\ \A y \in {Done, Error} : Count(y)' = IF <<x>> = <<y>> THEN 1 ELSE 0
  BY <1>5, <1>6, AfterWriting
<1>8. Cardinality(EventLines') = Cardinality(EventLines)
  BY <1>1, <1>3, <1>7
<1>9. \A y \in {Done, Error} : <<x>> = <<y>> <=> x = y
  OBVIOUS
<1>10. CASE x = Done
  BY <1>2, <1>7, <1>8, <1>9, <1>10, FourLines DEF Outcome
<1>11. CASE x = Error
  BY <1>2, <1>7, <1>8, <1>9, <1>11, FourLines DEF Outcome
<1>12. QED BY <1>10, <1>11

\* One chunk is one step of the pipe.
LEMMA ChunkPipes ==
    ASSUME PipeInv, PipeInv', NEW n \in 1 .. Len(wire), Chunk(n)
    PROVE  [Pipe!Next]_(Pipe!vars)
<1>1. StreamInv /\ StreamInv' /\ at = "reading" /\ UNCHANGED <<api, sent, cut, aborted>>
  BY DEF Chunk, PipeInv
<1>2. PICK evs \in Seq(Events) :
         LET c == Cardinality(EventLines) + Len(evs)
         IN  /\ c <= Len(sent)
             /\ \A j \in 1 .. Len(evs) : evs[j] = sent[Cardinality(EventLines) + j]
             /\ \/ /\ Writes(evs, <<>>) /\ UNCHANGED <<at, heartbeat>>
                   /\ Holds(buffer' \o wire', Whole, c)
                   /\ api # "closed" => Len(buffer' \o wire') = 4 * (Len(Whole) - c)
                \/ /\ Writes(evs, <<Done>>) /\ at' = "ended" /\ heartbeat' = FALSE
                   /\ api = "done" /\ c = Len(sent)
  BY <1>1, ChunkReads
<1> DEFINE c == Cardinality(EventLines) + Len(evs)
<1>3. /\ Cardinality(EventLines) \in Nat /\ Len(evs) \in Nat /\ Len(sent) \in Nat
      /\ Len(sent \o cut) \in {Len(sent), Len(sent) + 1}
      /\ api # "closed" => sent \o cut = sent
  BY PipeShows, LenProperties
<1>4. Outcome = "open"
  BY <1>1 DEF Outcome
<1>5. /\ c <= Len(sent)
      /\ \A j \in 1 .. Len(evs) : evs[j] = sent[Cardinality(EventLines) + j]
  BY <1>2
<1>6. CASE Writes(evs, <<>>) /\ UNCHANGED <<at, heartbeat>>
  <2>1. Cardinality(EventLines') = c
    BY <1>1, <1>5, <1>6, AfterWriting
  <2>2. Cardinality(EventLines) <= c /\ c \in 0 .. Len(sent \o cut)
    BY <1>3, <1>5
  <2>3. Outcome' = "open"
    BY <1>1, <1>6 DEF Outcome
  <2> HIDE DEF c
  <2>4. Pipe!CatchUp(c)
    BY <1>1, <2>1, <2>2, PipeCatchesUp
  <2>5. Pipe!Show
    BY <1>1, <1>4, <2>2, <2>3, <2>4 DEF Pipe!Show
  <2>6. QED BY <2>5 DEF Pipe!Next
<1>7. CASE Writes(evs, <<Done>>) /\ at' = "ended" /\ api = "done" /\ c = Len(sent)
  <2>1. /\ Cardinality(EventLines') = c
        /\ \A x \in {Done, Error} : Count(x)' = IF <<Done>> = <<x>> THEN 1 ELSE 0
    BY <1>1, <1>5, <1>7, AfterWriting
  <2>2. Cardinality(EventLines) <= c /\ c = Len(sent \o cut)
    BY <1>3, <1>7
  <2>3. Count(Done)' = 1
    BY <2>1
  <2>4. Outcome' = "done"
    BY <1>7, <2>3 DEF Outcome
  <2> HIDE DEF c
  <2>5. Pipe!CatchUp(Len(sent \o cut))
    BY <1>1, <2>1, <2>2, PipeCatchesUp
  <2>6. Pipe!EndDone
    BY <1>1, <1>4, <1>7, <2>4, <2>5 DEF Pipe!EndDone
  <2>7. QED BY <2>6 DEF Pipe!Next
<1>8. QED BY <1>2, <1>6, <1>7

\* Every step of the stream is one of the pipe, or changes nothing in it.
LEMMA PipeStep ==
    ASSUME PipeInv, [Next]_vars
    PROVE  [Pipe!Next]_(Pipe!vars)
<1>1. StreamInv /\ StreamInv' /\ PipeInv'
  BY StreamStep, CutStep DEF PipeInv
<1>2. /\ sent \in Seq(Events)
      /\ at # "ended" => Outcome = "open"
      /\ api # "closed" => cut = <<>> /\ sent \o cut = sent
  BY PipeShows, ShownIsBeginning DEF PipeInv, CutInv, Outcome
<1>3. CASE \E e \in Events : ApiSends(e)
  <2>1. PICK e \in Events : ApiSends(e)
    BY <1>3
  <2>2. /\ at = "reading" /\ at' = at /\ page' = page /\ sent' = Append(sent, e)
        /\ api = "open" /\ UNCHANGED <<api, cut>>
    BY <2>1 DEF ApiSends
  <2>3. EventLines' = EventLines
    BY <2>2 DEF EventLines
  <2>4. Shown' = Shown
    BY <2>2, <2>3 DEF Shown, Nth
  <2>5. sent \o cut = sent /\ sent' \o cut' = Append(sent, e)
    <3>1. Append(sent, e) \in Seq(Events)
      BY <1>2, AppendProperties
    <3>2. QED BY <1>2, <2>2, <3>1, ConcatEmptySeq
  <2>6. Pipe!Send(e)
    BY <2>2, <2>4, <2>5 DEF Pipe!Send, Outcome
  <2>7. QED BY <2>6 DEF Pipe!Next
<1>4. CASE ApiEnds
  <2>1. /\ at = "reading" /\ at' = at /\ page' = page /\ sent' = sent /\ api = "open"
        /\ \/ api' \in {"done", "closed", "broken"} /\ cut' = cut
           \/ api' = "closed" /\ \E e \in Events : cut' = <<e>>
    BY <1>4 DEF ApiEnds
  <2>2. EventLines' = EventLines
    BY <2>1 DEF EventLines
  <2>3. Shown' = Shown
    BY <2>1, <2>2 DEF Shown, Nth
  <2>4. \A e \in Events : sent \o <<e>> = Append(sent \o cut, e)
    BY <1>2, <2>1, AppendIsConcat
  <2>5. \/ api' \in {"done", "closed", "broken"} /\ sent' \o cut' = sent \o cut
        \/ api' = "closed" /\ \E e \in Events : sent' \o cut' = Append(sent \o cut, e)
    BY <2>1, <2>4
  <2>6. Pipe!SourceEnds
    BY <2>1, <2>3, <2>5 DEF Pipe!SourceEnds, Outcome
  <2>7. QED BY <2>6 DEF Pipe!Next
<1>5. CASE FetchAnswers \/ Close
  <2>1. /\ at # "ended" /\ at' # "ended" /\ page' = page
        /\ UNCHANGED <<sent, cut, api>>
    BY <1>5 DEF FetchAnswers, Close
  <2>2. EventLines' = EventLines
    BY <2>1 DEF EventLines
  <2>3. QED BY <1>1, <2>1, <2>2, PipeStutters
<1>6. CASE FetchFails \/ BodyFails
  <2>1. /\ at # "ended" /\ ~aborted /\ Finish(<<Error>>) /\ UNCHANGED <<sent, cut, api>>
        /\ api = "broken" \/ (api = "open" /\ sent = <<>>)
    BY <1>1, <1>6 DEF FetchFails, BodyFails, StreamInv, Unread
  <2>2. Cardinality(EventLines') = Cardinality(EventLines) /\ Outcome' = "failed"
    BY <1>1, <2>1, FourLines, LastWordWritten
  <2>3. Shown' = Shown
    BY <1>1, <2>1, <2>2, PipeFrame
  <2>4. Pipe!EndFailed
    BY <1>2, <2>1, <2>2, <2>3 DEF Pipe!EndFailed
  <2>5. QED BY <2>4 DEF Pipe!Next
<1>7. CASE Read
  BY <1>1, <1>7, ChunkPipes DEF Read
<1>8. CASE EndOfBody
  <2>1. /\ at = "reading" /\ ~aborted /\ Finish(<<Done>>) /\ UNCHANGED <<sent, cut, api>>
        /\ api = "closed" /\ wire = <<>>
    BY <1>8 DEF EndOfBody
  <2>2. Cardinality(EventLines') = Cardinality(EventLines) /\ Outcome' = "done"
    BY <1>1, <2>1, LastWordWritten
  <2>3. Cardinality(EventLines) = Len(sent) /\ Len(sent) \in Nat
    <3>1. /\ Holds(buffer \o wire, sent, Cardinality(EventLines)) /\ Len(buffer) <= 3
          /\ buffer \in Seq(Pieces)
      BY <1>1, <2>1 DEF StreamInv, Unread, Whole, PassedThrough, StreamType
    <3>2. buffer \o wire = buffer /\ Len(buffer) \in Nat
      BY <2>1, <3>1, ConcatEmptySeq, LenProperties
    <3>3. Len(sent) - Cardinality(EventLines) \in Nat
          /\ 4 * (Len(sent) - Cardinality(EventLines)) <= 3
      BY <3>1, <3>2 DEF Holds
    <3>4. Len(sent) \in Nat /\ Cardinality(EventLines) \in Nat
      BY PipeShows
    <3>5. QED BY <3>3, <3>4
  <2>4. Pipe!CatchUp(Len(sent))
    BY <1>1, <2>1, <2>2, <2>3, PipeCatchesUp
  <2>5. Len(sent) = Len(sent \o cut) \/ Len(sent) = Len(sent \o cut) - 1
    BY <2>3, PipeShows
  <2>6. Pipe!CatchUp(Len(sent \o cut)) \/ Pipe!CatchUp(Len(sent \o cut) - 1)
    <3>1. CASE Len(sent) = Len(sent \o cut)
      BY <2>4, <3>1
    <3>2. CASE Len(sent) = Len(sent \o cut) - 1
      BY <2>4, <3>2
    <3>3. QED BY <2>5, <3>1, <3>2
  <2>7. Pipe!EndDone
    BY <1>2, <2>1, <2>2, <2>6 DEF Pipe!EndDone
  <2>8. QED BY <2>7 DEF Pipe!Next
<1>9. CASE Aborted
  <2>1. /\ at # "ended" /\ at' = "ended" /\ page' = page /\ UNCHANGED <<sent, cut, api>>
        /\ Count(Done) = 0 /\ Count(Error) = 0
    BY <1>1, <1>9 DEF Aborted, Finish, StreamInv
  <2>2. EventLines' = EventLines /\ Count(Done)' = 0 /\ Count(Error)' = 0
    BY <2>1, NothingWritten
  <2>3. Shown' = Shown
    BY <1>1, <2>1, <2>2, PipeFrame
  <2>4. Outcome = "open" /\ Outcome' = "left"
    BY <2>1, <2>2 DEF Outcome
  <2>5. Pipe!Leave
    BY <2>1, <2>3, <2>4 DEF Pipe!Leave
  <2>6. QED BY <2>5 DEF Pipe!Next
<1>10. CASE Heartbeat
  <2>1. /\ at # "ended" /\ at' = at /\ page' = Append(page, Ping)
        /\ UNCHANGED <<sent, cut, api>>
    BY <1>1, <1>10 DEF Heartbeat, StreamInv, LastWord
  <2>2. Cardinality(EventLines') = Cardinality(EventLines)
    <3>1. page \in Seq(Lines) /\ Cardinality(EventLines) \in Nat
      BY <1>1, CountsTyped DEF StreamInv
    <3>2. /\ <<Ping>> \in Seq({Ping}) /\ <<>> \in Seq(Events) /\ Len(<<>>) = 0
          /\ page \o <<Ping>> = Append(page, Ping)
      BY <3>1, EmptySeq, AppendIsConcat DEF Lines
    <3>3. <<>> \o <<Ping>> = <<Ping>>
      BY <3>2, ConcatEmptySeq
    <3>4. Writes(<<>>, <<Ping>>)
      BY <2>1, <3>1, <3>2, <3>3 DEF Writes
    <3>5. Cardinality(EventLines') = Cardinality(EventLines) + Len(<<>>)
      BY <1>1, <3>4, LinesCounted
    <3>6. QED BY <3>1, <3>2, <3>5
  <2>3. QED BY <1>1, <2>1, <2>2, PipeStutters
<1>11. CASE UNCHANGED vars
  <2>1. page' = page /\ at' = at /\ UNCHANGED <<sent, cut, api>>
    BY <1>11 DEF vars
  <2>2. /\ EventLines' = EventLines /\ Count(Done)' = Count(Done)
        /\ Count(Error)' = Count(Error)
    BY <2>1, NothingWritten
  <2>3. Shown' = Shown
    BY <1>1, <2>1, <2>2, PipeFrame
  <2>4. QED BY <2>1, <2>2, <2>3 DEF Outcome, Pipe!vars
<1>12. QED
  BY <1>3, <1>4, <1>5, <1>6, <1>7, <1>8, <1>9, <1>10, <1>11 DEF Next

\* However the response is cut into chunks and whenever it, the page or the
\* connection ends, a stream is a pipe: its lines only grow and follow what the API
\* sends; [DONE] comes when nothing is missing or, if the response just ended, nothing
\* but the event it ended in; an error only when the response broke or never began.
THEOREM ImplementsPipe == MCFairSpec => PipeSpec
<1>1. MCInit => Pipe!Init
  <2> SUFFICES ASSUME Init PROVE Pipe!Init
    BY DEF MCInit
  <2>1. EventLines = {} /\ sent = <<>> /\ cut = <<>> /\ at = "fetch" /\ api = "open"
    BY DEF Init, EventLines
  <2>2. Cardinality(EventLines) = 0
    BY <2>1, FS_EmptySet
  <2>3. Shown = <<>>
    BY <2>2 DEF Shown
  <2>4. sent \o cut = <<>>
    BY <2>1, EmptySeq, ConcatEmptySeq
  <2>5. QED BY <2>1, <2>3, <2>4 DEF Pipe!Init, Outcome
<1>2. PipeInv /\ [MCNext]_mcvars => [Pipe!Next]_(Pipe!vars)
  <2> SUFFICES ASSUME PipeInv, [MCNext]_mcvars PROVE [Pipe!Next]_(Pipe!vars)
    OBVIOUS
  <2>1. [Next]_vars
    BY DEF MCNext, OfStream, OfSpeech, mcvars
  <2>2. QED BY <2>1, PipeStep
<1>3. QED BY <1>1, <1>2, PipeAlways, PTL DEF MCFairSpec, PipeSpec, Pipe!Spec
===============================================================================
