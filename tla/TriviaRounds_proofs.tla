-------------------------- MODULE TriviaRounds_proofs --------------------------
(* The quiz for any questions, languages, limits and requests: what the loops      *)
(* compute, and what that means for the round on a page.                            *)
EXTENDS TriviaRounds, FiniteSetTheorems, WellFoundedInduction, TLAPS

-------------------------------------------------------------------------------
(* Recursion, for functions on 0..n. *)

LEMMA LeastNumber ==
    ASSUME NEW T \in SUBSET Nat, T # {}
    PROVE  \E least \in T : \A n \in T : least <= n
<1> DEFINE less == {ss \in Nat \X Nat : ss[1] < ss[2]}
<1>1. IsWellFoundedOn(less, Nat)
  BY NatLessThanWellFounded DEF OpToRel
<1> HIDE DEF less
<1>2. PICK least \in T : \A n \in T : <<n, least>> \notin less
  BY <1>1, WFMin, Zenon
<1>3. \A n \in T : least \in Nat /\ n \in Nat /\ ~(n < least)
  BY <1>2 DEF less
<1>4. QED BY <1>3

\* r goes on from r[0] = base with the given steps, as far as m.
Goes(r, base, next, m) == r[0] = base /\ \A i \in 1..m : r[i] = next[i][r[i - 1]]

\* Any steps can be gone.
LEMMA Recursion ==
    ASSUME NEW Y, NEW base \in Y, NEW n \in Nat, NEW next \in [1..n -> [Y -> Y]]
    PROVE  \E r \in [0..n -> Y] : Goes(r, base, next, n)
<1> DEFINE stuck == {m \in 0..n : ~ \E r \in [0..m -> Y] : Goes(r, base, next, m)}
<1>1. CASE stuck = {}
  BY <1>1
<1>2. CASE stuck # {}
  <2>1. PICK m \in stuck : \A k \in stuck : m <= k
    <3>1. stuck \in SUBSET Nat
      OBVIOUS
    <3> HIDE DEF stuck
    <3>2. QED BY <1>2, <3>1, LeastNumber
  <2>2. m \in 0..n /\ m \in Nat
    BY <2>1
  <2>3. CASE m = 0
    <3> DEFINE r == [i \in 0..0 |-> base]
    <3>1. r \in [0..0 -> Y] /\ Goes(r, base, next, 0)
      BY DEF Goes
    <3>2. QED BY <2>1, <2>3, <3>1
  <2>4. CASE m # 0
    <3>1. m - 1 \in 0..n /\ m - 1 < m /\ m \in 1..n
      BY <2>2, <2>4
    <3>2. PICK q \in [0..(m - 1) -> Y] : Goes(q, base, next, m - 1)
      BY <2>1, <2>2, <3>1
    <3> DEFINE r == [i \in 0..m |-> IF i = m THEN next[m][q[m - 1]] ELSE q[i]]
    <3>3. next[m][q[m - 1]] \in Y
      BY <2>2, <3>1
    <3>4. r \in [0..m -> Y]
      BY <2>2, <3>3
    <3>5. \A i \in 0..(m - 1) : r[i] = q[i] /\ i \in 0..m
      BY <2>2, <2>4
    <3>6. r[m] = next[m][r[m - 1]]
      BY <2>2, <3>1, <3>5
    <3>7. r[0] = base
      BY <2>2, <3>1, <3>2, <3>5 DEF Goes
    <3>8. ASSUME NEW i \in 1..m, i # m
          PROVE  r[i] = next[i][r[i - 1]]
      <4>1. i \in 1..(m - 1) /\ i - 1 \in 0..(m - 1) /\ i \in 0..(m - 1)
        BY <2>2, <3>8
      <4>2. q[i] = next[i][q[i - 1]]
        BY <3>2, <4>1 DEF Goes
      <4> HIDE DEF r
      <4>3. QED BY <3>5, <4>1, <4>2
    <3> HIDE DEF r
    <3>9. Goes(r, base, next, m)
      BY <3>6, <3>7, <3>8 DEF Goes
    <3>10. QED BY <2>1, <3>4, <3>9
  <2>5. QED BY <2>3, <2>4
<1>3. QED BY <1>1, <1>2

-------------------------------------------------------------------------------
(* Selecting from a list. *)

\* q has the elements of the list that are at these places, in order; pos is where
\* each of them comes from.
Selects(pos, q, list, at) ==
    /\ pos \in [1..Len(q) -> at]
    /\ \A k \in 1..Len(q) : q[k] = list[pos[k]]
    /\ \A j, k \in 1..Len(q) : j < k => pos[j] < pos[k]
    /\ \A i \in at : \E k \in 1..Len(q) : pos[k] = i

InOrder(q, list, at) == \E pos : Selects(pos, q, list, at)

\* Nothing is selected from nowhere.
LEMMA NoneInOrder == \A list : InOrder(<<>>, list, {})
<1> SUFFICES ASSUME NEW list PROVE InOrder(<<>>, list, {})
  OBVIOUS
<1>1. Len(<<>>) = 0 /\ 1..0 = {}
  OBVIOUS
<1>2. Selects([k \in {} |-> 0], <<>>, list, {})
  BY <1>1 DEF Selects
<1>3. QED BY <1>2 DEF InOrder

\* One place more, after the others.
LEMMA AppendInOrder ==
    ASSUME NEW X, NEW q \in Seq(X), NEW list \in Seq(X), NEW n \in 1..Len(list),
           NEW at \in SUBSET (1..(n - 1)), InOrder(q, list, at)
    PROVE  InOrder(Append(q, list[n]), list, at \cup {n})
<1>1. PICK pos : Selects(pos, q, list, at)
  BY DEF InOrder
<1> DEFINE p == Append(q, list[n])
           m == Len(q)
           new == [k \in 1..(m + 1) |-> IF k = m + 1 THEN n ELSE pos[k]]
<1>2. /\ m \in Nat /\ n \in Nat /\ list[n] \in X
      /\ p \in Seq(X) /\ Len(p) = m + 1 /\ p[m + 1] = list[n]
      /\ \A k \in 1..m : p[k] = q[k]
  OBVIOUS
<1>3. /\ pos \in [1..m -> at] /\ \A k \in 1..m : q[k] = list[pos[k]]
      /\ \A j, k \in 1..m : j < k => pos[j] < pos[k]
      /\ \A i \in at : \E k \in 1..m : pos[k] = i
  BY <1>1 DEF Selects
<1> HIDE DEF p, m
<1>4. /\ new \in [1..(m + 1) -> at \cup {n}] /\ new[m + 1] = n
      /\ \A k \in 1..m : new[k] = pos[k]
  BY <1>2, <1>3
<1> HIDE DEF new
<1>5. \A k \in 1..(m + 1) : k = m + 1 \/ k \in 1..m
  BY <1>2
<1>6. \A k \in 1..m : k \in 1..(m + 1) /\ k < m + 1 /\ pos[k] \in Nat /\ pos[k] < n
  <2>1. \A k \in 1..m : pos[k] \in 1..(n - 1)
    BY <1>3
  <2>2. \A k \in 1..m : k \in 1..(m + 1) /\ k < m + 1
    BY <1>2
  <2>3. \A i \in 1..(n - 1) : i \in Nat /\ i < n
    BY <1>2
  <2>4. QED BY <2>1, <2>2, <2>3
<1>7. \A k \in 1..(m + 1) : p[k] = list[new[k]]
  BY <1>2, <1>3, <1>4, <1>5
<1>8. ASSUME NEW j \in 1..(m + 1), NEW k \in 1..(m + 1), j < k
      PROVE  new[j] < new[k]
  <2>1. j \in 1..m
    BY <1>2, <1>8
  <2>2. CASE k = m + 1
    BY <1>4, <1>6, <2>1, <2>2
  <2>3. CASE k \in 1..m
    BY <1>3, <1>4, <1>8, <2>1, <2>3
  <2>4. QED BY <1>5, <2>2, <2>3
<1>9. ASSUME NEW i \in at \cup {n}
      PROVE  \E k \in 1..(m + 1) : new[k] = i
  <2>1. CASE i \in at
    BY <1>3, <1>4, <1>6, <2>1
  <2>2. CASE i = n
    BY <1>2, <1>4, <2>2
  <2>3. QED BY <2>1, <2>2
<1>10. Selects(new, p, list, at \cup {n})
  BY <1>2, <1>4, <1>7, <1>8, <1>9 DEF Selects
<1>11. QED BY <1>10 DEF InOrder, p

\* Selecting from what was selected.
Through(g, at) == {g[k] : k \in at}

LEMMA SelectTwice ==
    ASSUME NEW X, NEW q \in Seq(X), NEW p \in Seq(X), NEW list \in Seq(X),
           NEW g, NEW at \in SUBSET (1..Len(p)), NEW B,
           InOrder(q, p, at), Selects(g, p, list, B)
    PROVE  InOrder(q, list, Through(g, at))
<1> PICK f : Selects(f, q, p, at)
  BY DEF InOrder
<1>1. /\ f \in [1..Len(q) -> at] /\ \A k \in 1..Len(q) : q[k] = p[f[k]]
      /\ \A j, k \in 1..Len(q) : j < k => f[j] < f[k]
      /\ \A i \in at : \E k \in 1..Len(q) : f[k] = i
      /\ g \in [1..Len(p) -> B] /\ \A k \in 1..Len(p) : p[k] = list[g[k]]
      /\ \A j, k \in 1..Len(p) : j < k => g[j] < g[k]
  BY DEF Selects
<1> DEFINE h == [k \in 1..Len(q) |-> g[f[k]]]
           places == Through(g, at)
<1>2. h \in [1..Len(q) -> places] /\ \A k \in 1..Len(q) : h[k] = g[f[k]]
  BY <1>1 DEF Through
<1>3. \A k \in 1..Len(q) : q[k] = list[h[k]]
  BY <1>1
<1>4. \A j, k \in 1..Len(q) : j < k => h[j] < h[k]
  BY <1>1
<1>5. \A i \in places : \E k \in 1..Len(q) : h[k] = i
  BY <1>1 DEF Through
<1> HIDE DEF h
<1>6. Selects(h, q, list, places)
  BY <1>2, <1>3, <1>4, <1>5 DEF Selects
<1>7. QED BY <1>6 DEF InOrder

\* What Filter computes at each place of the list.
FilterSteps(list, T, r) ==
    /\ r[0] = <<>>
    /\ \A n \in 1..Len(list) :
          r[n] = IF list[n] \in T THEN Append(r[n - 1], list[n]) ELSE r[n - 1]

LEMMA FilterFunction ==
    ASSUME NEW X, NEW list \in Seq(X), NEW T
    PROVE  \E r : FilterSteps(list, T, r) /\ Filter(list, T) = r[Len(list)]
<1> DEFINE N == Len(list)
           next == [n \in 1..N |->
                       [s \in Seq(X) |-> IF list[n] \in T THEN Append(s, list[n]) ELSE s]]
           Equation(r) ==
               r = [n \in 0..N |->
                       IF n = 0 THEN <<>>
                       ELSE IF list[n] \in T THEN Append(r[n - 1], list[n]) ELSE r[n - 1]]
<1>1. N \in Nat /\ \A n \in 1..N : list[n] \in X
  OBVIOUS
<1>2. next \in [1..N -> [Seq(X) -> Seq(X)]]
  BY <1>1
<1>3. PICK r \in [0..N -> Seq(X)] : Goes(r, <<>>, next, N)
  <2>1. <<>> \in Seq(X)
    OBVIOUS
  <2> HIDE DEF next
  <2>2. QED BY <1>1, <1>2, <2>1, Recursion
<1>4. ASSUME NEW n \in 1..N
      PROVE  r[n] = IF list[n] \in T THEN Append(r[n - 1], list[n]) ELSE r[n - 1]
  <2>1. r[n] = next[n][r[n - 1]]
    BY <1>3 DEF Goes
  <2>2. n - 1 \in 0..N
    BY <1>1
  <2>3. r[n - 1] \in Seq(X)
    BY <1>3, <2>2
  <2>4. QED BY <2>1, <2>3
<1>5. Equation(r)
  <2>1. r[0] = <<>>
    BY <1>3 DEF Goes
  <2>2. \A n \in 0..N : n = 0 \/ n \in 1..N
    BY <1>1
  <2>3. \A n \in 0..N :
           r[n] = IF n = 0 THEN <<>>
                  ELSE IF list[n] \in T THEN Append(r[n - 1], list[n]) ELSE r[n - 1]
    BY <1>4, <2>1, <2>2
  <2>4. DOMAIN r = 0..N
    BY <1>3
  <2>5. QED BY <2>3, <2>4
<1> DEFINE kept == CHOOSE q : Equation(q)
<1>6. Equation(kept)
  BY <1>5
<1>7. Filter(list, T) = kept[N]
  BY DEF Filter
<1> HIDE DEF kept
<1>8. FilterSteps(list, T, kept)
  <2>1. 0 \in 0..N /\ \A n \in 1..N : n \in 0..N /\ n # 0
    BY <1>1
  <2>2. kept[0] = <<>>
    BY <1>6, <2>1
  <2>3. ASSUME NEW n \in 1..N
        PROVE  kept[n] = IF list[n] \in T THEN Append(kept[n - 1], list[n]) ELSE kept[n - 1]
    BY <1>6, <2>1
  <2>4. QED BY <2>2, <2>3 DEF FilterSteps
<1>9. QED BY <1>7, <1>8

\* Filter keeps the elements in T, in order.
LEMMA FilterLemma ==
    ASSUME NEW X, NEW list \in Seq(X), NEW T
    PROVE  /\ Filter(list, T) \in Seq(X)
           /\ InOrder(Filter(list, T), list, {i \in DOMAIN list : list[i] \in T})
<1> DEFINE N == Len(list)
           At(n) == {i \in 1..n : list[i] \in T}
<1>1. PICK r : FilterSteps(list, T, r) /\ Filter(list, T) = r[N]
  BY FilterFunction
<1> DEFINE Right(n) == r[n] \in Seq(X) /\ InOrder(r[n], list, At(n))
           wrong == {n \in 0..N : ~Right(n)}
<1>2. N \in Nat /\ DOMAIN list = 1..N /\ \A n \in 1..N : list[n] \in X
  OBVIOUS
<1>3. Right(0)
  <2>1. r[0] = <<>> /\ At(0) = {}
    BY <1>1 DEF FilterSteps
  <2>2. QED BY <2>1, NoneInOrder
<1>4. ASSUME NEW n \in 1..N, Right(n - 1)
      PROVE  Right(n)
  <2>1. /\ n \in Nat /\ r[n - 1] \in Seq(X) /\ InOrder(r[n - 1], list, At(n - 1))
        /\ r[n] = IF list[n] \in T THEN Append(r[n - 1], list[n]) ELSE r[n - 1]
    BY <1>1, <1>2, <1>4 DEF FilterSteps
  <2>2. CASE list[n] \in T
    <3>1. At(n) = At(n - 1) \cup {n} /\ At(n - 1) \in SUBSET (1..(n - 1))
      BY <2>1, <2>2
    <3> DEFINE q == r[n - 1]
               at == At(n - 1)
    <3>2. q \in Seq(X) /\ at \in SUBSET (1..(n - 1)) /\ InOrder(q, list, at)
      BY <2>1, <3>1
    <3> HIDE DEF q, at
    <3>3. InOrder(Append(q, list[n]), list, at \cup {n})
      BY <3>2, AppendInOrder
    <3>4. InOrder(Append(r[n - 1], list[n]), list, At(n))
      BY <3>1, <3>3 DEF q, at
    <3>5. QED BY <1>2, <2>1, <2>2, <3>4
  <2>3. CASE list[n] \notin T
    <3>1. At(n) = At(n - 1)
      BY <2>1, <2>3
    <3>2. QED BY <2>1, <2>3, <3>1
  <2>4. QED BY <2>2, <2>3
<1>5. wrong = {}
  <2> SUFFICES ASSUME wrong # {} PROVE FALSE
    OBVIOUS
  <2>1. wrong \in SUBSET Nat /\ \A n \in wrong : n \in 0..N /\ ~Right(n)
    BY <1>2
  <2>2. \A n \in 0..N : Right(n) \/ n \in wrong
    OBVIOUS
  <2> HIDE DEF wrong, Right
  <2>3. PICK n \in wrong : \A k \in wrong : n <= k
    BY <2>1, LeastNumber
  <2>4. n \in 0..N /\ n # 0
    BY <1>3, <2>1
  <2>5. n \in 1..N /\ n - 1 \in 0..N /\ ~(n <= n - 1)
    BY <1>2, <2>4
  <2>6. Right(n - 1)
    BY <2>2, <2>3, <2>5
  <2>7. QED BY <1>4, <2>1, <2>5, <2>6
<1>6. Right(N)
  <2>1. \A n \in 0..N : Right(n)
    BY <1>5
  <2> HIDE DEF Right
  <2>2. QED BY <1>2, <2>1
<1>7. QED BY <1>1, <1>2, <1>6

-------------------------------------------------------------------------------
(* The loop of normalizeNumbers. *)

\* What NormalizeNumbers computes at each place of the list.
LoopSteps(parts, r) ==
    /\ r[0] = <<>>
    /\ \A n \in 1..Len(parts) :
          r[n] = IF \/ ~IsNumber(parts[n])
                    \/ parts[n] \in ToSet(r[n - 1])
                    \/ Len(r[n - 1]) = MaxNumbers
                 THEN r[n - 1] ELSE Append(r[n - 1], parts[n])

LEMMA LoopFunction ==
    ASSUME NEW X, NEW parts \in Seq(X)
    PROVE  \E r : LoopSteps(parts, r) /\ NormalizeNumbers(parts) = r[Len(parts)]
<1> DEFINE N == Len(parts)
           Skip(n, before) == \/ ~IsNumber(parts[n])
                              \/ parts[n] \in ToSet(before)
                              \/ Len(before) = MaxNumbers
           next == [n \in 1..N |->
                       [s \in Seq(X) |-> IF Skip(n, s) THEN s ELSE Append(s, parts[n])]]
           Equation(r) ==
               r = [n \in 0..N |->
                       IF n = 0 THEN <<>>
                       ELSE LET before == r[n - 1] IN
                            IF \/ ~IsNumber(parts[n])
                               \/ parts[n] \in ToSet(before)
                               \/ Len(before) = MaxNumbers
                            THEN before ELSE Append(before, parts[n])]
<1>1. N \in Nat /\ \A n \in 1..N : parts[n] \in X
  OBVIOUS
<1>2. next \in [1..N -> [Seq(X) -> Seq(X)]]
  <2> HIDE DEF Skip
  <2>1. QED BY <1>1
<1>3. PICK r \in [0..N -> Seq(X)] : Goes(r, <<>>, next, N)
  <2>1. <<>> \in Seq(X)
    OBVIOUS
  <2> HIDE DEF next
  <2>2. QED BY <1>1, <1>2, <2>1, Recursion
<1>4. ASSUME NEW n \in 1..N
      PROVE  r[n] = IF Skip(n, r[n - 1]) THEN r[n - 1] ELSE Append(r[n - 1], parts[n])
  <2> HIDE DEF Skip
  <2>1. r[n] = next[n][r[n - 1]]
    BY <1>3 DEF Goes
  <2>2. n - 1 \in 0..N
    BY <1>1
  <2>3. r[n - 1] \in Seq(X)
    BY <1>3, <2>2
  <2>4. QED BY <2>1, <2>3
<1>5. Equation(r)
  <2>1. r[0] = <<>>
    BY <1>3 DEF Goes
  <2>2. \A n \in 0..N : n = 0 \/ n \in 1..N
    BY <1>1
  <2> HIDE DEF Skip
  <2>3. \A n \in 0..N :
           r[n] = IF n = 0 THEN <<>>
                  ELSE IF Skip(n, r[n - 1]) THEN r[n - 1] ELSE Append(r[n - 1], parts[n])
    BY <1>4, <2>1, <2>2
  <2>4. DOMAIN r = 0..N
    BY <1>3
  <2>5. r = [n \in 0..N |->
                IF n = 0 THEN <<>>
                ELSE IF Skip(n, r[n - 1]) THEN r[n - 1] ELSE Append(r[n - 1], parts[n])]
    BY <2>3, <2>4
  <2>6. QED BY <2>5 DEF Skip
<1> DEFINE result == CHOOSE q : Equation(q)
<1>6. Equation(result)
  <2> HIDE DEF Equation
  <2>1. QED BY <1>5
<1>7. NormalizeNumbers(parts) = result[N]
  BY DEF NormalizeNumbers
<1> HIDE DEF result
<1>8. LoopSteps(parts, result)
  <2>1. 0 \in 0..N /\ \A n \in 1..N : n \in 0..N /\ n # 0
    BY <1>1
  <2>2. result[0] = <<>>
    BY <1>6, <2>1
  <2>3. ASSUME NEW n \in 1..N
        PROVE  result[n] = IF Skip(n, result[n - 1]) THEN result[n - 1]
                           ELSE Append(result[n - 1], parts[n])
    <3>1. result = [k \in 0..N |->
                IF k = 0 THEN <<>>
                ELSE IF Skip(k, result[k - 1]) THEN result[k - 1]
                     ELSE Append(result[k - 1], parts[k])]
      BY <1>6
    <3> HIDE DEF Skip
    <3>2. QED BY <2>1, <3>1
  <2>4. QED BY <2>2, <2>3 DEF LoopSteps
<1>9. QED BY <1>7, <1>8

\* The numbers among the first n parts.
Seen(parts, n) == {parts[j] : j \in {k \in 1..n : IsNumber(parts[k])}}

LEMMA SeenLemma ==
    ASSUME NEW parts, NEW n \in Nat \ {0}
    PROVE  /\ Seen(parts, 0) = {}
           /\ IsNumber(parts[n]) => Seen(parts, n) = Seen(parts, n - 1) \cup {parts[n]}
           /\ ~IsNumber(parts[n]) => Seen(parts, n) = Seen(parts, n - 1)
<1>1. 1..0 = {} /\ 1..n = 1..(n - 1) \cup {n}
  OBVIOUS
<1>2. QED BY <1>1 DEF Seen

\* The loop keeps the first of each number, as long as there is room.
LEMMA NormalizeLemma ==
    ASSUME NEW X, NEW parts \in Seq(X)
    PROVE  /\ NormalizeNumbers(parts) \in Seq(X)
           /\ InOrder(NormalizeNumbers(parts), parts,
                      {i \in DOMAIN parts : FirstOfItsKind(parts, i)})
<1> DEFINE N == Len(parts)
           At(n) == {i \in 1..n : FirstOfItsKind(parts, i)}
           Few(n) == Cardinality(Seen(parts, n)) < MaxNumbers
<1>1. PICK r : LoopSteps(parts, r) /\ NormalizeNumbers(parts) = r[N]
  BY LoopFunction
<1> DEFINE Right(n) ==
        /\ r[n] \in Seq(X) /\ InOrder(r[n], parts, At(n))
        /\ ToSet(r[n]) \subseteq Seen(parts, n)
        /\ IsFiniteSet(Seen(parts, n)) /\ Cardinality(Seen(parts, n)) \in Nat
        /\ Few(n) => /\ ToSet(r[n]) = Seen(parts, n)
                     /\ Len(r[n]) = Cardinality(Seen(parts, n))
        /\ ~Few(n) => Len(r[n]) = MaxNumbers
           wrong == {n \in 0..N : ~Right(n)}
<1>2. N \in Nat /\ DOMAIN parts = 1..N /\ \A n \in 1..N : parts[n] \in X
  OBVIOUS
<1>3. MaxNumbers \in Nat
  BY LimitsAssumption
<1>4. Right(0)
  <2>1. r[0] = <<>> /\ At(0) = {}
    BY <1>1 DEF LoopSteps
  <2>2. Seen(parts, 0) = {}
    BY DEF Seen
  <2>3. InOrder(r[0], parts, At(0)) /\ r[0] \in Seq(X)
    BY <2>1, NoneInOrder
  <2>4. IsFiniteSet({}) /\ Cardinality({}) = 0 /\ ToSet(<<>>) = {} /\ Len(<<>>) = 0
    BY FS_EmptySet DEF ToSet
  <2>5. /\ ToSet(r[0]) = Seen(parts, 0) /\ Len(r[0]) = 0
        /\ IsFiniteSet(Seen(parts, 0)) /\ Cardinality(Seen(parts, 0)) = 0
    BY <2>1, <2>2, <2>4
  <2> HIDE DEF At
  <2>6. QED BY <1>3, <2>3, <2>5
<1>5. ASSUME NEW n \in 1..N, Right(n - 1)
      PROVE  Right(n)
  <2> DEFINE q == r[n - 1]
             seen == Seen(parts, n - 1)
             c == Cardinality(seen)
             at == At(n - 1)
  <2>1. n \in Nat \ {0} /\ n - 1 \in Nat /\ parts[n] \in X
    BY <1>2
  <2>2. r[n] = IF \/ ~IsNumber(parts[n]) \/ parts[n] \in ToSet(q) \/ Len(q) = MaxNumbers
               THEN q ELSE Append(q, parts[n])
    BY <1>1 DEF LoopSteps
  <2>3. /\ q \in Seq(X) /\ InOrder(q, parts, at) /\ ToSet(q) \subseteq seen
        /\ IsFiniteSet(seen) /\ c \in Nat
        /\ c < MaxNumbers => ToSet(q) = seen /\ Len(q) = c
        /\ ~(c < MaxNumbers) => Len(q) = MaxNumbers
    BY <1>5
  <2>4. /\ IsNumber(parts[n]) => Seen(parts, n) = seen \cup {parts[n]}
        /\ ~IsNumber(parts[n]) => Seen(parts, n) = seen
    BY <2>1, SeenLemma
  <2>5. FirstOfItsKind(parts, n) <=>
            IsNumber(parts[n]) /\ parts[n] \notin seen /\ c < MaxNumbers
    BY DEF FirstOfItsKind, Seen
  <2>6. /\ At(n) = IF FirstOfItsKind(parts, n) THEN at \cup {n} ELSE at
        /\ at \in SUBSET (1..(n - 1))
    <3>1. 1..n = 1..(n - 1) \cup {n}
      BY <2>1
    <3>2. QED BY <3>1
  <2> HIDE DEF q, seen, at
  <2>7. CASE ~IsNumber(parts[n]) \/ parts[n] \in seen
    <3>1. ~FirstOfItsKind(parts, n) /\ Seen(parts, n) = seen
      BY <2>4, <2>5, <2>7
    <3>2. r[n] = q
      BY <1>3, <2>2, <2>3, <2>7
    <3>3. At(n) = at
      BY <2>6, <3>1
    <3> HIDE DEF At
    <3>4. QED BY <2>3, <3>1, <3>2, <3>3
  <2>8. CASE IsNumber(parts[n]) /\ parts[n] \notin seen
    <3>1. /\ Seen(parts, n) = seen \cup {parts[n]}
          /\ IsFiniteSet(Seen(parts, n)) /\ Cardinality(Seen(parts, n)) = c + 1
      BY <2>3, <2>4, <2>8, FS_AddElement
    <3>2. CASE c < MaxNumbers
      <4>1. r[n] = Append(q, parts[n])
        BY <1>3, <2>2, <2>3, <2>8, <3>2
      <4>2. At(n) = at \cup {n}
        BY <2>5, <2>6, <2>8, <3>2
      <4>3. InOrder(r[n], parts, At(n))
        BY <2>3, <2>6, <4>1, <4>2, AppendInOrder
      <4>4. /\ r[n] \in Seq(X) /\ Len(r[n]) = Len(q) + 1
            /\ ToSet(r[n]) = ToSet(q) \cup {parts[n]}
        <5>1. /\ r[n] \in Seq(X) /\ Len(r[n]) = Len(q) + 1 /\ Len(q) \in Nat
              /\ r[n][Len(q) + 1] = parts[n] /\ \A i \in 1..Len(q) : r[n][i] = q[i]
              /\ DOMAIN q = 1..Len(q) /\ DOMAIN r[n] = 1..(Len(q) + 1)
          BY <2>1, <2>3, <4>1
        <5>2. 1..(Len(q) + 1) = 1..Len(q) \cup {Len(q) + 1}
          BY <5>1
        <5>3. QED BY <5>1, <5>2 DEF ToSet
      <4> HIDE DEF At, c
      <4>5. /\ ToSet(r[n]) = Seen(parts, n) /\ Len(r[n]) = c + 1
            /\ ~Few(n) => c + 1 = MaxNumbers
        BY <1>3, <2>3, <3>1, <3>2, <4>4
      <4>6. QED BY <2>3, <3>1, <4>3, <4>4, <4>5
    <3>3. CASE ~(c < MaxNumbers)
      <4>1. r[n] = q /\ Len(q) = MaxNumbers
        BY <2>2, <2>3, <3>3
      <4>2. At(n) = at
        BY <2>5, <2>6, <3>3
      <4> HIDE DEF At, c
      <4>3. ~Few(n)
        BY <1>3, <2>3, <3>1, <3>3
      <4>4. QED BY <2>3, <3>1, <4>1, <4>2, <4>3
    <3>4. QED BY <3>2, <3>3
  <2>9. QED BY <2>7, <2>8
<1>6. wrong = {}
  <2> SUFFICES ASSUME wrong # {} PROVE FALSE
    OBVIOUS
  <2>1. wrong \in SUBSET Nat /\ \A n \in wrong : n \in 0..N /\ ~Right(n)
    BY <1>2
  <2>2. \A n \in 0..N : Right(n) \/ n \in wrong
    OBVIOUS
  <2> HIDE DEF wrong, Right
  <2>3. PICK n \in wrong : \A k \in wrong : n <= k
    BY <2>1, LeastNumber
  <2>4. n \in 0..N /\ n # 0
    BY <1>4, <2>1
  <2>5. n \in 1..N /\ n - 1 \in 0..N /\ ~(n <= n - 1)
    BY <1>2, <2>4
  <2>6. Right(n - 1)
    BY <2>2, <2>3, <2>5
  <2>7. QED BY <1>5, <2>1, <2>5, <2>6
<1>7. Right(N)
  <2>1. \A n \in 0..N : Right(n)
    BY <1>6
  <2> HIDE DEF Right
  <2>2. QED BY <1>2, <2>1
<1>8. QED BY <1>1, <1>2, <1>7

-------------------------------------------------------------------------------
(* What findByNumbers answers. *)

\* A number is an even number of halves.
LEMMA NumberLemma ==
    ASSUME NEW part \in Int \cup {NaN}, IsNumber(part)
    PROVE  part \in Nat /\ part \div 2 \in Nat \ {0} /\ part = 2 * (part \div 2)
<1>1. part \in Int /\ part > 0 /\ part % 2 = 0
  BY DEF IsNumber
<1>2. QED BY <1>1

\* The places of the list whose questions are due.
Due(parts, l) ==
    {i \in DOMAIN parts : FirstOfItsKind(parts, i) /\ parts[i] \div 2 \in table[l]}

TableType == table \in [Languages -> SUBSET Numbers]

\* A list of any length is answered with the questions that are due, in its order.
Answers(answer, parts, l, pos) ==
    /\ answer \in Seq([number : table[l], language : {l}])
    /\ pos \in [1..Len(answer) -> Due(parts, l)]
    /\ \A k \in 1..Len(answer) : 2 * answer[k].number = parts[pos[k]]
    /\ \A j, k \in 1..Len(answer) : j < k => pos[j] < pos[k]
    /\ \A i \in Due(parts, l) : \E k \in 1..Len(answer) : pos[k] = i

LEMMA FindLemma ==
    ASSUME TableType, NEW parts \in Seq(Int \cup {NaN}),
           NEW language \in Languages \cup {Unknown}
    PROVE  /\ NormalizeLanguage(language) \in Languages
           /\ \E pos : Answers(FindByNumbers(parts, language), parts,
                               NormalizeLanguage(language), pos)
<1> DEFINE X == Int \cup {NaN}
           l == NormalizeLanguage(language)
           numbers == {part \in ToSet(parts) : IsNumber(part)}
           given == Filter(parts, numbers)
           wanted == NormalizeNumbers(given)
           existing == {2 * n : n \in table[l]}
           found == Filter(wanted, existing)
           answer == FindByNumbers(parts, language)
           A == {i \in DOMAIN parts : parts[i] \in numbers}
           B == {i \in DOMAIN given : FirstOfItsKind(given, i)}
           C == {i \in DOMAIN wanted : wanted[i] \in existing}
<1>1. l \in Languages /\ table[l] \subseteq Nat \ {0}
  BY InputsAssumption DEF NormalizeLanguage, TableType
<1>2. parts \in Seq(X) /\ DOMAIN parts = 1..Len(parts) /\ Len(parts) \in Nat
  OBVIOUS
<1>3. given \in Seq(X) /\ InOrder(given, parts, A)
  BY <1>2, FilterLemma
<1>4. wanted \in Seq(X) /\ InOrder(wanted, given, B)
  <2> HIDE DEF given, X
  <2>1. QED BY <1>3, NormalizeLemma
<1>5. found \in Seq(X) /\ InOrder(found, wanted, C)
  <2> HIDE DEF wanted, existing, X
  <2>1. QED BY <1>4, FilterLemma
<1>6. answer = [i \in DOMAIN found |-> [number |-> found[i] \div 2, language |-> l]]
  BY DEF FindByNumbers
<1>7. A = {i \in 1..Len(parts) : IsNumber(parts[i])}
  BY <1>2 DEF ToSet
<1> HIDE DEF given, wanted, found, answer, A, numbers
<1>8. /\ B \in SUBSET (1..Len(given)) /\ C \in SUBSET (1..Len(wanted))
      /\ DOMAIN given = 1..Len(given) /\ DOMAIN wanted = 1..Len(wanted)
      /\ DOMAIN found = 1..Len(found) /\ Len(found) \in Nat /\ Len(given) \in Nat
  BY <1>3, <1>4, <1>5
<1>9. PICK f : Selects(f, given, parts, A)
  BY <1>3 DEF InOrder
<1> DEFINE first == Through(f, B)
<1>10. InOrder(wanted, parts, first)
  <2> HIDE DEF B, X
  <2>1. QED BY <1>2, <1>3, <1>4, <1>8, <1>9, SelectTwice
<1>11. PICK gf : Selects(gf, wanted, parts, first)
  BY <1>10 DEF InOrder
<1> DEFINE places == Through(gf, C)
<1>12. InOrder(found, parts, places)
  <2> HIDE DEF C, X, first
  <2>1. QED BY <1>2, <1>4, <1>5, <1>8, <1>11, SelectTwice
<1>13. PICK pos : Selects(pos, found, parts, places)
  BY <1>12 DEF InOrder
<1>14. ASSUME NEW k \in 1..Len(given)
       PROVE  /\ given[k] = parts[f[k]] /\ f[k] \in 1..Len(parts) /\ IsNumber(parts[f[k]])
              /\ FirstOfItsKind(given, k) <=> FirstOfItsKind(parts, f[k])
  <2>1. /\ f \in [1..Len(given) -> A] /\ \A j \in 1..Len(given) : given[j] = parts[f[j]]
        /\ \A i, j \in 1..Len(given) : i < j => f[i] < f[j]
        /\ \A i \in A : \E j \in 1..Len(given) : f[j] = i
    BY <1>9 DEF Selects
  <2>2. \A j \in 1..Len(given) : f[j] \in 1..Len(parts) /\ IsNumber(parts[f[j]])
    BY <1>7, <2>1
  <2>3. ASSUME NEW j \in 1..(k - 1)
        PROVE  /\ j \in 1..Len(given) /\ f[j] \in 1..(f[k] - 1)
               /\ IsNumber(given[j]) /\ parts[f[j]] = given[j]
    <3>1. j \in 1..Len(given) /\ j < k
      BY <1>8
    <3>2. f[j] \in Nat \ {0} /\ f[k] \in Nat /\ f[j] < f[k]
      BY <2>1, <2>2, <3>1
    <3>3. f[j] \in 1..(f[k] - 1)
      BY <3>2
    <3>4. QED BY <2>1, <2>2, <3>1, <3>3
  <2>4. ASSUME NEW i \in 1..(f[k] - 1), IsNumber(parts[i])
        PROVE  \E j \in 1..(k - 1) : given[j] = parts[i]
    <3>1. f[k] \in 1..Len(parts)
      BY <2>2
    <3>2. i \in 1..Len(parts) /\ i < f[k]
      BY <1>2, <3>1
    <3>3. PICK j \in 1..Len(given) : f[j] = i
      BY <1>7, <2>1, <2>4, <3>2
    <3>4. ~(k < j) /\ k # j
      BY <1>2, <2>1, <3>1, <3>2, <3>3
    <3>5. j \in 1..(k - 1)
      BY <1>8, <3>4
    <3>6. QED BY <2>1, <3>3, <3>5
  <2>5. Seen(given, k - 1) = Seen(parts, f[k] - 1)
    <3>1. ASSUME NEW x \in Seen(given, k - 1) PROVE x \in Seen(parts, f[k] - 1)
      <4>1. PICK j \in 1..(k - 1) : IsNumber(given[j]) /\ x = given[j]
        BY DEF Seen
      <4>2. f[j] \in 1..(f[k] - 1) /\ IsNumber(parts[f[j]]) /\ parts[f[j]] = x
        BY <2>3, <4>1
      <4>3. QED BY <4>2 DEF Seen
    <3>2. ASSUME NEW x \in Seen(parts, f[k] - 1) PROVE x \in Seen(given, k - 1)
      <4>1. PICK i \in 1..(f[k] - 1) : IsNumber(parts[i]) /\ x = parts[i]
        BY DEF Seen
      <4>2. PICK j \in 1..(k - 1) : given[j] = x
        BY <2>4, <4>1
      <4>3. QED BY <2>3, <4>2 DEF Seen
    <3>3. QED BY <3>1, <3>2
  <2>6. \A p, i : FirstOfItsKind(p, i) <=>
            /\ IsNumber(p[i]) /\ p[i] \notin Seen(p, i - 1)
            /\ Cardinality(Seen(p, i - 1)) < MaxNumbers
    BY DEF FirstOfItsKind, Seen
  <2>7. QED BY <2>1, <2>2, <2>5, <2>6
<1>15. /\ gf \in [1..Len(wanted) -> first]
       /\ \A k \in 1..Len(wanted) : wanted[k] = parts[gf[k]]
       /\ \A i \in first : \E k \in 1..Len(wanted) : gf[k] = i
  BY <1>11 DEF Selects
<1>16. first = {i \in 1..Len(parts) : FirstOfItsKind(parts, i)}
  <2>1. ASSUME NEW i \in first
        PROVE  i \in 1..Len(parts) /\ FirstOfItsKind(parts, i)
    <3>1. PICK k \in 1..Len(given) : FirstOfItsKind(given, k) /\ i = f[k]
      BY <1>8 DEF Through
    <3>2. QED BY <1>14, <3>1
  <2>2. ASSUME NEW i \in 1..Len(parts), FirstOfItsKind(parts, i)
        PROVE  i \in first
    <3>1. i \in A
      BY <1>7, <2>2 DEF FirstOfItsKind
    <3>2. PICK k \in 1..Len(given) : f[k] = i
      BY <1>9, <3>1 DEF Selects
    <3>3. FirstOfItsKind(given, k)
      BY <1>14, <2>2, <3>2
    <3>4. QED BY <1>8, <3>2, <3>3 DEF Through
  <2>3. QED BY <2>1, <2>2
<1> HIDE DEF first
<1>17. ASSUME NEW i \in first
       PROVE  /\ parts[i] \div 2 \in Nat \ {0} /\ parts[i] = 2 * (parts[i] \div 2)
              /\ parts[i] \in existing <=> parts[i] \div 2 \in table[l]
  <2>1. i \in 1..Len(parts) /\ IsNumber(parts[i]) /\ parts[i] \in Int \cup {NaN}
    BY <1>2, <1>16 DEF FirstOfItsKind
  <2>2. parts[i] \div 2 \in Nat \ {0} /\ parts[i] = 2 * (parts[i] \div 2)
    BY <2>1, NumberLemma
  <2>3. ASSUME parts[i] \in existing PROVE parts[i] \div 2 \in table[l]
    <3>1. PICK n \in table[l] : parts[i] = 2 * n
      BY <2>3
    <3>2. n \in Nat
      BY <1>1
    <3>3. n = parts[i] \div 2
      BY <3>1, <3>2
    <3>4. QED BY <3>3
  <2>4. QED BY <2>2, <2>3
<1>18. places = Due(parts, l)
  <2>1. ASSUME NEW i \in places PROVE i \in Due(parts, l)
    <3>1. PICK k \in 1..Len(wanted) : wanted[k] \in existing /\ i = gf[k]
      BY <1>8 DEF Through
    <3>2. i \in first /\ parts[i] \in existing
      BY <1>15, <3>1
    <3>3. i \in 1..Len(parts) /\ FirstOfItsKind(parts, i) /\ parts[i] \div 2 \in table[l]
      BY <1>16, <1>17, <3>2
    <3>4. QED BY <1>2, <3>3 DEF Due
  <2>2. ASSUME NEW i \in Due(parts, l) PROVE i \in places
    <3>1. i \in first /\ parts[i] \in existing
      BY <1>2, <1>16, <1>17 DEF Due
    <3>2. PICK k \in 1..Len(wanted) : gf[k] = i
      BY <1>15, <3>1
    <3>3. k \in C
      BY <1>8, <1>15, <3>1, <3>2
    <3>4. QED BY <3>2, <3>3 DEF Through
  <2>3. QED BY <2>1, <2>2
<1> HIDE DEF places, existing
<1>19. /\ pos \in [1..Len(found) -> places]
       /\ \A k \in 1..Len(found) : found[k] = parts[pos[k]]
       /\ \A j, k \in 1..Len(found) : j < k => pos[j] < pos[k]
       /\ \A i \in places : \E k \in 1..Len(found) : pos[k] = i
  BY <1>13 DEF Selects
<1>20. \A k \in 1..Len(found) : /\ found[k] \div 2 \in table[l]
                                /\ found[k] = 2 * (found[k] \div 2)
  <2> SUFFICES ASSUME NEW k \in 1..Len(found)
               PROVE  found[k] \div 2 \in table[l] /\ found[k] = 2 * (found[k] \div 2)
    OBVIOUS
  <2>1. pos[k] \in Due(parts, l) /\ found[k] = parts[pos[k]]
    BY <1>18, <1>19
  <2>2. pos[k] \in first /\ parts[pos[k]] \div 2 \in table[l]
    BY <1>2, <1>16, <2>1 DEF Due
  <2>3. QED BY <1>17, <2>1, <2>2
<1>21. /\ answer \in Seq([number : table[l], language : {l}]) /\ Len(answer) = Len(found)
       /\ \A k \in 1..Len(found) : answer[k].number = found[k] \div 2
  <2>1. answer = [k \in 1..Len(found) |-> [number |-> found[k] \div 2, language |-> l]]
    BY <1>6, <1>8
  <2> HIDE DEF l
  <2>2. \A k \in 1..Len(found) : [number |-> found[k] \div 2, language |-> l]
                                    \in [number : table[l], language : {l}]
    BY <1>20
  <2>3. QED BY <1>8, <2>1, <2>2
<1>22. \A k \in 1..Len(found) : 2 * answer[k].number = parts[pos[k]]
  BY <1>19, <1>20, <1>21
<1>23. Answers(answer, parts, l, pos)
  BY <1>18, <1>19, <1>21, <1>22 DEF Answers
<1>24. QED BY <1>1, <1>23 DEF answer, l

\* A list without repetitions that is no longer than the limit is due as far as its
\* questions exist.
LEMMA DueOfRound ==
    ASSUME NEW questions \in Seq(Question), IsInjective(NumbersOf(questions)),
           Len(questions) <= MaxNumbers, NEW l
    PROVE  LET parts == [i \in DOMAIN questions |-> 2 * questions[i].number] IN
           /\ parts \in Seq(Int \cup {NaN})
           /\ Due(parts, l) = {i \in DOMAIN questions : questions[i].number \in table[l]}
<1> DEFINE parts == [i \in DOMAIN questions |-> 2 * questions[i].number]
           N == Len(questions)
<1>1. /\ N \in Nat /\ DOMAIN questions = 1..N
      /\ \A i \in 1..N : questions[i].number \in Numbers
  <2>1. N \in Nat /\ DOMAIN questions = 1..N /\ \A i \in 1..N : questions[i] \in Question
    OBVIOUS
  <2>2. \A q \in Question : q.number \in Numbers
    BY DEF Question
  <2>3. QED BY <2>1, <2>2
<1>2. /\ DOMAIN parts = 1..N /\ parts \in Seq(Int)
      /\ \A i \in 1..N : parts[i] = 2 * questions[i].number
  <2>1. \A i \in 1..N : 2 * questions[i].number \in Int
    <3>1. \A n \in Numbers : 2 * n \in Int
      BY InputsAssumption
    <3>2. QED BY <1>1, <3>1
  <2>2. QED BY <1>1, <2>1
<1>3. \A i \in 1..N : /\ IsNumber(parts[i]) /\ parts[i] \in Int
                      /\ parts[i] \div 2 = questions[i].number
  <2>1. \A n \in Numbers : 2 * n \in Int /\ 2 * n > 0 /\ (2 * n) % 2 = 0
                           /\ (2 * n) \div 2 = n
    BY InputsAssumption
  <2> HIDE DEF parts
  <2>2. QED BY <1>1, <1>2, <2>1, InputsAssumption DEF IsNumber
<1>4. ASSUME NEW i \in 1..N, NEW j \in 1..N, parts[i] = parts[j]
      PROVE  i = j
  <2>1. questions[i].number = questions[j].number
    BY <1>3, <1>4
  <2>2. DOMAIN NumbersOf(questions) = 1..N
        /\ \A k \in 1..N : NumbersOf(questions)[k] = questions[k].number
    BY <1>1 DEF NumbersOf
  <2>3. QED BY <2>1, <2>2 DEF IsInjective
<1> HIDE DEF parts
<1>5. ASSUME NEW i \in 1..N
      PROVE  FirstOfItsKind(parts, i)
  <2> DEFINE before == Seen(parts, i - 1)
             places == 1..(i - 1)
             value == [k \in places |-> parts[k]]
  <2>1. \A k \in places : k \in 1..N /\ k # i
    BY <1>1
  <2>2. before = {parts[k] : k \in places}
    BY <1>3, <2>1 DEF Seen
  <2>3. value \in Surjection(places, before)
    BY <2>2 DEF Surjection
  <2>4. IsFiniteSet(places) /\ Cardinality(places) = i - 1
    <3>1. i - 1 \in Int /\ i >= 1
      BY <1>1
    <3>2. QED BY <3>1, FS_Interval
  <2> HIDE DEF before, places, value
  <2>5. IsFiniteSet(before) /\ Cardinality(before) <= i - 1
    BY <2>3, <2>4, FS_Surjection
  <2>6. Cardinality(before) < MaxNumbers
    <3>1. Cardinality(before) \in Nat
      BY <2>5, FS_CardinalityType
    <3>2. QED BY <1>1, <2>5, <3>1, LimitsAssumption
  <2>7. parts[i] \notin before
    BY <1>4, <2>1, <2>2
  <2>8. QED BY <1>3, <2>6, <2>7 DEF FirstOfItsKind, Seen, before
<1>6. Due(parts, l) = {i \in 1..N : questions[i].number \in table[l]}
  BY <1>2, <1>3, <1>5 DEF Due
<1>7. QED BY <1>1, <1>2, <1>6 DEF parts

-------------------------------------------------------------------------------
(* The state. *)

\* The invariant behind the properties: what NewRound and SwitchLanguage leave on
\* the page is a list that the next change of the language is answered for in full.
RoundInv ==
    /\ TableType
    /\ round \in Seq(Question)
    /\ Len(round) <= MaxNumbers
    /\ IsInjective(NumbersOf(round))

LEMMA CountLemma ==
    ASSUME NEW count \in Int \cup {NaN}
    PROVE  /\ NormalizeCount(count) \in 1..MaxCount
           /\ \A n \in 1..MaxCount : count = 2 * n => NormalizeCount(count) = n
<1>1. {DefaultCount, MaxCount} \subseteq Nat /\ 1 <= DefaultCount /\ DefaultCount <= MaxCount
  BY LimitsAssumption
<1>2. CASE count \in {NaN, 0}
  <2>1. \A n \in 1..MaxCount : 2 * n \in Int /\ 2 * n # 0
    BY <1>1
  <2>2. \A n \in 1..MaxCount : count # 2 * n
    BY <1>2, <2>1, InputsAssumption
  <2>3. DefaultCount \in 1..MaxCount
    BY <1>1
  <2>4. QED BY <1>2, <2>2, <2>3 DEF NormalizeCount
<1>3. CASE count \notin {NaN, 0}
  <2>1. count \in Int /\ Trunc(count) \in Int
    BY <1>3 DEF Trunc
  <2>2. Between(1, Trunc(count), MaxCount) \in 1..MaxCount
    BY <1>1, <2>1 DEF Between
  <2>3. ASSUME NEW n \in 1..MaxCount, count = 2 * n
        PROVE  Between(1, Trunc(count), MaxCount) = n
    <3>1. n \in Int /\ 1 <= n /\ n <= MaxCount
      BY <1>1
    <3>2. Trunc(2 * n) = n
      BY <3>1 DEF Trunc
    <3>3. QED BY <1>1, <2>3, <3>1, <3>2 DEF Between
  <2>4. QED BY <1>3, <2>2, <2>3 DEF NormalizeCount
<1>4. QED BY <1>2, <1>3

LEMMA NewRoundLemma ==
    ASSUME TableType, NEW count \in Counts, NEW language \in Languages \cup {Unknown},
           NewRound(count, language)
    PROVE  LET l == NormalizeLanguage(language)
               available == Cardinality(table[l])
           IN /\ table' = table /\ l \in Languages
              /\ round' \in Seq(Question)
              /\ ToSet(round') \subseteq [number : table[l], language : {l}]
              /\ IsInjective(NumbersOf(round'))
              /\ Len(round') = Between(0, NormalizeCount(count), available)
              /\ available \in Nat /\ Len(round') \in 0..MaxCount
<1> DEFINE l == NormalizeLanguage(language)
           available == Cardinality(table[l])
           size == Between(0, NormalizeCount(count), available)
           Found == [number : table[l], language : {l}]
<1>1. l \in Languages /\ table[l] \subseteq Numbers
  BY InputsAssumption DEF NormalizeLanguage, TableType
<1>2. available \in Nat
  BY <1>1, InputsAssumption, FS_Subset, FS_CardinalityType
<1>3. NormalizeCount(count) \in 1..MaxCount /\ MaxCount \in Nat
  BY CountLemma, InputsAssumption, LimitsAssumption
<1>4. size \in 0..MaxCount
  BY <1>2, <1>3 DEF Between
<1>5. round' \in [1..size -> Found] /\ IsInjective(round') /\ table' = table
  BY DEF NewRound, FindRandom
<1> HIDE DEF size
<1>6. \A q \in Found : q \in Question /\ q = [number |-> q.number, language |-> l]
  BY <1>1 DEF Question
<1> HIDE DEF Found, l
<1>7. round' \in Seq(Question) /\ Len(round') = size /\ DOMAIN round' = 1..size
  BY <1>4, <1>5, <1>6
<1>8. ToSet(round') \subseteq Found
  BY <1>5 DEF ToSet
<1>9. IsInjective(NumbersOf(round'))
  <2>1. /\ DOMAIN NumbersOf(round') = 1..size
        /\ \A i \in 1..size : NumbersOf(round')[i] = round'[i].number
    BY <1>7 DEF NumbersOf
  <2>2. ASSUME NEW i \in 1..size, NEW j \in 1..size, round'[i].number = round'[j].number
        PROVE  i = j
    <3>1. round'[i] \in Found /\ round'[j] \in Found
      BY <1>5
    <3>2. round'[i] = round'[j]
      BY <1>6, <2>2, <3>1
    <3>3. QED BY <1>5, <1>7, <3>2 DEF IsInjective
  <2>3. QED BY <2>1, <2>2 DEF IsInjective
<1>10. QED BY <1>1, <1>2, <1>4, <1>5, <1>7, <1>8, <1>9 DEF size, Found, l

\* What a change of the language leaves, and which question of the round each is.
LEMMA SwitchLemma ==
    ASSUME RoundInv, NEW language \in Languages \cup {Unknown}, SwitchLanguage(language)
    PROVE  LET l == NormalizeLanguage(language)
               kept == {i \in 1..Len(round) : round[i].number \in table[l]}
           IN /\ table' = table /\ l \in Languages
              /\ round' \in Seq([number : table[l], language : {l}])
              /\ \E pos \in [1..Len(round') -> kept] :
                    /\ \A k \in 1..Len(round') : round'[k].number = round[pos[k]].number
                    /\ \A j, k \in 1..Len(round') : j < k => pos[j] < pos[k]
                    /\ \A i \in kept : \E k \in 1..Len(round') : pos[k] = i
<1> DEFINE l == NormalizeLanguage(language)
           kept == {i \in 1..Len(round) : round[i].number \in table[l]}
           parts == [i \in DOMAIN round |-> 2 * round[i].number]
<1>1. /\ TableType /\ round \in Seq(Question) /\ Len(round) <= MaxNumbers
      /\ IsInjective(NumbersOf(round))
  BY DEF RoundInv
<1>2. table' = table /\ round' = FindByNumbers(parts, language)
  BY DEF SwitchLanguage
<1>3. parts \in Seq(Int \cup {NaN}) /\ Due(parts, l) = kept
  <2>1. DOMAIN round = 1..Len(round)
    BY <1>1
  <2> HIDE DEF l
  <2>2. QED BY <1>1, <2>1, DueOfRound
<1>4. \A i \in 1..Len(round) : parts[i] = 2 * round[i].number /\ round[i].number \in Nat
  <2>1. DOMAIN round = 1..Len(round) /\ \A i \in 1..Len(round) : round[i] \in Question
    BY <1>1
  <2>2. \A q \in Question : q.number \in Nat
    BY InputsAssumption DEF Question
  <2>3. QED BY <2>1, <2>2
<1> HIDE DEF parts
<1>5. l \in Languages /\ \E pos : Answers(round', parts, l, pos)
  BY <1>1, <1>2, <1>3, FindLemma
<1>6. PICK pos : Answers(round', parts, l, pos)
  BY <1>5
<1> HIDE DEF l
<1>7. /\ round' \in Seq([number : table[l], language : {l}])
      /\ pos \in [1..Len(round') -> kept]
      /\ \A k \in 1..Len(round') : 2 * round'[k].number = parts[pos[k]]
      /\ \A j, k \in 1..Len(round') : j < k => pos[j] < pos[k]
      /\ \A i \in kept : \E k \in 1..Len(round') : pos[k] = i
  BY <1>3, <1>6 DEF Answers
<1>8. ASSUME NEW k \in 1..Len(round')
      PROVE  round'[k].number = round[pos[k]].number
  <2>1. pos[k] \in 1..Len(round)
    BY <1>7
  <2>2. 2 * round'[k].number = 2 * round[pos[k]].number /\ round[pos[k]].number \in Nat
    BY <1>4, <1>7, <2>1
  <2>3. round'[k].number \in table[l] /\ table[l] \subseteq Nat
    <3>1. round'[k] \in [number : table[l], language : {l}]
      <4>1. \A S : round' \in Seq(S) => round'[k] \in S
        OBVIOUS
      <4>2. QED BY <1>7, <4>1
    <3>2. table[l] \subseteq Nat
      BY <1>1, <1>5, InputsAssumption DEF TableType
    <3>3. QED BY <3>1, <3>2
  <2>4. round'[k].number \in Nat
    BY <2>3
  <2>5. QED BY <2>2, <2>4
<1>9. QED BY <1>2, <1>5, <1>7, <1>8 DEF l

\* The change of the language in the state: the invariant is kept.
LEMMA SwitchKeepsInv ==
    ASSUME RoundInv, NEW language \in Languages \cup {Unknown}, SwitchLanguage(language)
    PROVE  RoundInv'
<1> DEFINE l == NormalizeLanguage(language)
           kept == {i \in 1..Len(round) : round[i].number \in table[l]}
           Found == [number : table[l], language : {l}]
<1>1. table' = table /\ l \in Languages /\ round' \in Seq(Found)
  BY SwitchLemma
<1>2. PICK pos \in [1..Len(round') -> kept] :
         /\ \A k \in 1..Len(round') : round'[k].number = round[pos[k]].number
         /\ \A j, k \in 1..Len(round') : j < k => pos[j] < pos[k]
  BY SwitchLemma
<1>3. /\ TableType /\ round \in Seq(Question) /\ Len(round) <= MaxNumbers
      /\ IsInjective(NumbersOf(round))
  BY DEF RoundInv
<1>4. \A q \in Found : q \in Question
  BY <1>1, <1>3 DEF Question, TableType
<1> HIDE DEF Found, l
<1>5. /\ round' \in Seq(Question) /\ Len(round') \in Nat /\ DOMAIN round' = 1..Len(round')
      /\ Len(round) \in Nat
  BY <1>1, <1>3, <1>4
<1>6. \A k \in 1..Len(round') : pos[k] \in 1..Len(round)
  BY <1>2
<1>7. ASSUME NEW j \in 1..Len(round'), NEW k \in 1..Len(round'), pos[j] = pos[k]
      PROVE  j = k
  <2>1. pos[j] \in Nat /\ ~(pos[j] < pos[k]) /\ ~(pos[k] < pos[j])
    BY <1>5, <1>6, <1>7
  <2>2. ~(j < k) /\ ~(k < j)
    BY <1>2, <2>1
  <2>3. QED BY <1>5, <2>2
<1>8. pos \in Injection(1..Len(round'), 1..Len(round))
  <2>1. pos \in [1..Len(round') -> 1..Len(round)] /\ DOMAIN pos = 1..Len(round')
    BY <1>2
  <2>2. QED BY <1>7, <2>1 DEF Injection, IsInjective
<1>9. Len(round') <= Len(round)
  <2>1. \A n \in Nat : IsFiniteSet(1..n) /\ Cardinality(1..n) = n
    BY FS_Interval
  <2>2. Cardinality(1..Len(round')) <= Cardinality(1..Len(round))
    BY <1>5, <1>8, <2>1, FS_Injection
  <2>3. QED BY <1>5, <2>1, <2>2
<1>10. IsInjective(NumbersOf(round'))
  <2>1. /\ DOMAIN NumbersOf(round') = 1..Len(round')
        /\ \A i \in 1..Len(round') : NumbersOf(round')[i] = round'[i].number
    BY <1>5 DEF NumbersOf
  <2>2. /\ DOMAIN NumbersOf(round) = 1..Len(round)
        /\ \A i \in 1..Len(round) : NumbersOf(round)[i] = round[i].number
    BY <1>3 DEF NumbersOf
  <2>3. ASSUME NEW j \in 1..Len(round'), NEW k \in 1..Len(round'),
               round'[j].number = round'[k].number
        PROVE  j = k
    <3>1. round[pos[j]].number = round[pos[k]].number
      BY <1>2, <2>3
    <3>2. pos[j] = pos[k]
      BY <1>3, <1>6, <2>2, <3>1 DEF IsInjective
    <3>3. QED BY <1>7, <3>2
  <2>4. QED BY <2>1, <2>3 DEF IsInjective
<1>11. Len(round') <= MaxNumbers
  BY <1>3, <1>5, <1>9, LimitsAssumption
<1>12. QED BY <1>1, <1>3, <1>5, <1>10, <1>11 DEF RoundInv, TableType

LEMMA InitRound == Init => RoundInv
<1> SUFFICES ASSUME Init PROVE RoundInv
  OBVIOUS
<1>1. TableType /\ round = <<>>
  BY DEF Init, TableType
<1>2. round \in Seq(Question) /\ Len(round) <= MaxNumbers
  BY <1>1, LimitsAssumption
<1>3. DOMAIN NumbersOf(round) = {}
  BY <1>1 DEF NumbersOf
<1>4. QED BY <1>1, <1>2, <1>3 DEF RoundInv, IsInjective

LEMMA StepRound == RoundInv /\ [Next]_vars => RoundInv'
<1> SUFFICES ASSUME RoundInv, [Next]_vars PROVE RoundInv'
  OBVIOUS
<1>1. ASSUME NEW language \in Languages \cup {Unknown}, NEW count \in Counts,
             NewRound(count, language)
      PROVE  RoundInv'
  <2>1. TableType
    BY DEF RoundInv
  <2>2. /\ table' = table /\ round' \in Seq(Question) /\ IsInjective(NumbersOf(round'))
        /\ Len(round') \in 0..MaxCount
    BY <1>1, <2>1, NewRoundLemma
  <2>3. Len(round') <= MaxNumbers
    BY <2>2, LimitsAssumption
  <2>4. QED BY <2>1, <2>2, <2>3 DEF RoundInv, TableType
<1>2. ASSUME NEW language \in Languages \cup {Unknown}, SwitchLanguage(language)
      PROVE  RoundInv'
  BY <1>2, SwitchKeepsInv
<1>3. CASE UNCHANGED vars
  <2>1. table' = table /\ round' = round
    BY <1>3 DEF vars
  <2>2. QED BY <2>1 DEF RoundInv, TableType, NumbersOf
<1>4. QED BY <1>1, <1>2, <1>3 DEF Next

\* The round on a page is always a list of at most MaxNumbers different questions
\* (findRandom, findByNumbers).
THEOREM RoundType == Spec => []RoundInv
<1>1. QED BY InitRound, StepRound, PTL DEF Spec

-------------------------------------------------------------------------------
(* The properties. *)

\* The answer to a list of numbers, in any state.
LEMMA AnswersLemma ==
    ASSUME TableType
    PROVE  AnswersFollowRequest
<1> SUFFICES ASSUME NEW parts \in Requests, NEW language \in Languages \cup {Unknown}
             PROVE  LET l == NormalizeLanguage(language)
                        due == {i \in DOMAIN parts :
                                   FirstOfItsKind(parts, i) /\ parts[i] \div 2 \in table[l]}
                        Position(n) == CHOOSE i \in due : parts[i] = 2 * n
                        answer == FindByNumbers(parts, language)
                    IN /\ ToSet(NumbersOf(answer)) = {parts[i] \div 2 : i \in due}
                       /\ \A i, j \in DOMAIN answer : i < j =>
                             Position(answer[i].number) < Position(answer[j].number)
                       /\ \A i \in DOMAIN answer : answer[i].language = l
  BY DEF AnswersFollowRequest
<1> DEFINE X == Int \cup {NaN}
           l == NormalizeLanguage(language)
           due == {i \in DOMAIN parts :
                      FirstOfItsKind(parts, i) /\ parts[i] \div 2 \in table[l]}
           Position(n) == CHOOSE i \in due : parts[i] = 2 * n
           answer == FindByNumbers(parts, language)
           N == Len(answer)
<1>1. parts \in Seq(X)
  <2>1. PICK m \in 0..(MaxNumbers + 2) : parts \in [1..m -> Parts]
    BY DEF Requests, BoundedSeq, SeqOf
  <2>2. m \in Nat
    BY LimitsAssumption
  <2>3. parts \in [1..m -> X]
    BY <2>1, InputsAssumption
  <2>4. QED BY <2>2, <2>3
<1>2. l \in Languages /\ \E pos : Answers(answer, parts, l, pos)
  BY <1>1, FindLemma
<1>3. PICK pos : Answers(answer, parts, l, pos)
  BY <1>2
<1>4. due = Due(parts, l)
  BY DEF Due
<1> HIDE DEF l, answer, due
<1>5. /\ answer \in Seq([number : table[l], language : {l}])
      /\ pos \in [1..N -> due]
      /\ \A k \in 1..N : 2 * answer[k].number = parts[pos[k]]
      /\ \A j, k \in 1..N : j < k => pos[j] < pos[k]
      /\ \A i \in due : \E k \in 1..N : pos[k] = i
  BY <1>3, <1>4 DEF Answers
<1>6. /\ N \in Nat /\ DOMAIN answer = 1..N
      /\ \A k \in 1..N : answer[k].number \in table[l] /\ answer[k].language = l
  <2> DEFINE Found == [number : table[l], language : {l}]
  <2>1. \A q \in Found : q.number \in table[l] /\ q.language = l
    OBVIOUS
  <2> HIDE DEF Found
  <2>2. answer \in Seq(Found)
    BY <1>5 DEF Found
  <2>3. QED BY <2>1, <2>2
<1> HIDE DEF N
<1>7. \A n \in table[l] : n \in Nat /\ (2 * n) \div 2 = n
  <2>1. table[l] \subseteq Nat
    BY <1>2, InputsAssumption DEF TableType
  <2>2. QED BY <2>1
<1>8. ASSUME NEW i \in due, NEW j \in due, parts[i] = parts[j]
      PROVE  i = j
  <2>1. /\ i \in Nat /\ j \in Nat /\ i >= 1 /\ j >= 1
        /\ FirstOfItsKind(parts, i) /\ FirstOfItsKind(parts, j)
    BY <1>1 DEF due
  <2>2. CASE i < j
    <3>1. i \in 1..(j - 1) /\ IsNumber(parts[i])
      BY <2>1, <2>2 DEF FirstOfItsKind
    <3>2. QED BY <1>8, <2>1, <3>1 DEF FirstOfItsKind
  <2>3. CASE j < i
    <3>1. j \in 1..(i - 1) /\ IsNumber(parts[j])
      BY <2>1, <2>3 DEF FirstOfItsKind
    <3>2. QED BY <1>8, <2>1, <3>1 DEF FirstOfItsKind
  <2>4. QED BY <2>1, <2>2, <2>3
<1>9. ASSUME NEW k \in 1..N
      PROVE  /\ pos[k] \in due /\ Position(answer[k].number) = pos[k]
             /\ parts[pos[k]] \div 2 = answer[k].number
  <2>1. pos[k] \in due /\ parts[pos[k]] = 2 * answer[k].number
    BY <1>5
  <2>2. Position(answer[k].number) \in due
        /\ parts[Position(answer[k].number)] = 2 * answer[k].number
    BY <2>1
  <2>3. Position(answer[k].number) = pos[k]
    BY <1>8, <2>1, <2>2
  <2> HIDE DEF Position
  <2>4. parts[pos[k]] \div 2 = answer[k].number
    BY <1>6, <1>7, <2>1
  <2>5. QED BY <2>1, <2>3, <2>4
<1>10. ToSet(NumbersOf(answer)) = {parts[i] \div 2 : i \in due}
  <2>1. ToSet(NumbersOf(answer)) = {answer[k].number : k \in 1..N}
    BY <1>6 DEF ToSet, NumbersOf
  <2> HIDE DEF Position
  <2>2. \A i \in due : \E k \in 1..N : parts[i] \div 2 = answer[k].number
    BY <1>5, <1>9
  <2>3. QED BY <1>9, <2>1, <2>2
<1>11. \A i, j \in DOMAIN answer : i < j =>
          Position(answer[i].number) < Position(answer[j].number)
  <2> HIDE DEF Position
  <2>1. QED BY <1>5, <1>6, <1>9
<1>12. QED BY <1>6, <1>10, <1>11 DEF due, answer, l

\* Every list of numbers is answered with the questions it asks for, as far as they
\* exist, once and in its order (normalizeNumbers, findByNumbers).
THEOREM EveryRequestAnswered == Spec => []AnswersFollowRequest
<1>1. RoundInv => AnswersFollowRequest
  BY AnswersLemma DEF RoundInv
<1>2. QED BY <1>1, RoundType, PTL

LEMMA SizeStep ==
    ASSUME RoundInv, NEW count \in Counts, NEW language \in Languages,
           NewRound(count, language)
    PROVE  LET available == Cardinality(table[language]) IN
           /\ round' \in Seq(Question)
           /\ ToSet(round') \subseteq [number : table[language], language : {language}]
           /\ Len(round') <= MaxCount /\ IsInjective(NumbersOf(round'))
           /\ available > 0 => round' # <<>>
           /\ \A n \in 1..MaxCount : count = 2 * n /\ n <= available => Len(round') = n
<1> DEFINE available == Cardinality(table[language])
           c == NormalizeCount(count)
<1>1. TableType /\ NormalizeLanguage(language) = language
  BY DEF RoundInv, NormalizeLanguage
<1>2. /\ round' \in Seq(Question)
      /\ ToSet(round') \subseteq [number : table[language], language : {language}]
      /\ IsInjective(NumbersOf(round'))
      /\ Len(round') = Between(0, c, available)
      /\ available \in Nat /\ Len(round') \in 0..MaxCount
  BY <1>1, NewRoundLemma
<1>3. c \in 1..MaxCount /\ \A n \in 1..MaxCount : count = 2 * n => c = n
  BY CountLemma, InputsAssumption
<1>4. MaxCount \in Nat
  BY LimitsAssumption
<1> HIDE DEF c, available
<1>5. Len(round') <= MaxCount
  BY <1>2, <1>4
<1>6. available > 0 => round' # <<>>
  <2> SUFFICES ASSUME available > 0, round' = <<>> PROVE FALSE
    OBVIOUS
  <2>1. Len(round') = 0
    BY Len(<<>>) = 0
  <2>2. QED BY <1>2, <1>3, <1>4, <2>1 DEF Between
<1>7. \A n \in 1..MaxCount : count = 2 * n /\ n <= available => Len(round') = n
  BY <1>2, <1>3, <1>4 DEF Between
<1>8. QED BY <1>2, <1>5, <1>6, <1>7 DEF available

\* A new round is what normalizeCount makes of the count, as far as the language
\* has questions (findRandom).
THEOREM EveryRoundFits == Spec => RoundSizeFits
<1>1. RoundInv /\ [Next]_vars =>
        [\A count \in Counts, language \in Languages : NewRound(count, language) =>
            LET available == Cardinality(table[language]) IN
            /\ round' \in Seq(Question)
            /\ ToSet(round') \subseteq [number : table[language], language : {language}]
            /\ Len(round') <= MaxCount /\ IsInjective(NumbersOf(round'))
            /\ available > 0 => round' # <<>>
            /\ \A n \in 1..MaxCount : count = 2 * n /\ n <= available => Len(round') = n
        ]_vars
  BY SizeStep
<1>2. QED BY <1>1, RoundType, PTL DEF Spec, RoundSizeFits

LEMMA SwitchStep ==
    ASSUME RoundInv, NEW language \in Languages, SwitchLanguage(language)
    PROVE  /\ ToSet(round') = {[number |-> n, language |-> language] :
                                  n \in ToSet(NumbersOf(round)) \cap table[language]}
           /\ \A i, j \in DOMAIN round', k, m \in DOMAIN round :
                 /\ i < j
                 /\ round[k].number = round'[i].number /\ round[m].number = round'[j].number
                 => k < m
<1> DEFINE kept == {i \in 1..Len(round) : round[i].number \in table[language]}
           Found == [number : table[language], language : {language}]
           N == Len(round')
           Places(l) == {i \in 1..Len(round) : round[i].number \in table[l]}
<1>1. NormalizeLanguage(language) = language
  BY DEF NormalizeLanguage
<1>2. round' \in Seq(Found)
  BY <1>1, SwitchLemma
<1>3. PICK pos \in [1..N -> kept] :
         /\ \A k \in 1..N : round'[k].number = round[pos[k]].number
         /\ \A j, k \in 1..N : j < k => pos[j] < pos[k]
         /\ \A i \in kept : \E k \in 1..N : pos[k] = i
  <2>1. \E pos \in [1..N -> Places(NormalizeLanguage(language))] :
           /\ \A k \in 1..N : round'[k].number = round[pos[k]].number
           /\ \A j, k \in 1..N : j < k => pos[j] < pos[k]
           /\ \A i \in Places(NormalizeLanguage(language)) : \E k \in 1..N : pos[k] = i
    BY SwitchLemma
  <2>2. Places(NormalizeLanguage(language)) = kept
    BY <1>1
  <2> HIDE DEF Places, kept
  <2>3. QED BY <2>1, <2>2
<1>4. round \in Seq(Question) /\ IsInjective(NumbersOf(round))
  BY DEF RoundInv
<1>5. /\ DOMAIN round = 1..Len(round)
      /\ DOMAIN NumbersOf(round) = 1..Len(round)
      /\ \A i \in 1..Len(round) : NumbersOf(round)[i] = round[i].number
  BY <1>4 DEF NumbersOf
<1>6. \A q \in Found : q = [number |-> q.number, language |-> language]
  OBVIOUS
<1> HIDE DEF Found
<1>7. DOMAIN round' = 1..N /\ \A k \in 1..N : round'[k] \in Found
  BY <1>2
<1>8. \A k \in 1..N : round'[k] = [number |-> round[pos[k]].number, language |-> language]
  BY <1>3, <1>6, <1>7
<1>9. ToSet(NumbersOf(round)) = {round[i].number : i \in 1..Len(round)}
  BY <1>5 DEF ToSet
<1>10. ToSet(round') = {round'[k] : k \in 1..N}
  BY <1>7 DEF ToSet
<1>11. ASSUME NEW q \in ToSet(round')
       PROVE  \E n \in ToSet(NumbersOf(round)) \cap table[language] :
                 q = [number |-> n, language |-> language]
  <2>1. PICK k \in 1..N : q = round'[k]
    BY <1>10
  <2>2. pos[k] \in 1..Len(round) /\ round[pos[k]].number \in table[language]
    BY <1>3
  <2>3. QED BY <1>8, <1>9, <2>1, <2>2
<1>12. ASSUME NEW n \in ToSet(NumbersOf(round)) \cap table[language]
       PROVE  [number |-> n, language |-> language] \in ToSet(round')
  <2>1. PICK i \in 1..Len(round) : n = round[i].number
    BY <1>9
  <2>2. PICK k \in 1..N : pos[k] = i
    BY <1>3, <2>1
  <2>3. QED BY <1>8, <1>10, <2>1, <2>2
<1>13. ASSUME NEW i \in DOMAIN round', NEW j \in DOMAIN round',
              NEW k \in DOMAIN round, NEW m \in DOMAIN round, i < j,
              round[k].number = round'[i].number, round[m].number = round'[j].number
       PROVE  k < m
  <2>1. /\ pos[i] \in 1..Len(round) /\ round[pos[i]].number = round[k].number
        /\ pos[j] \in 1..Len(round) /\ round[pos[j]].number = round[m].number
    BY <1>3, <1>7, <1>13
  <2>2. pos[i] = k /\ pos[j] = m
    BY <1>4, <1>5, <2>1 DEF IsInjective
  <2>3. QED BY <1>3, <1>7, <1>13, <2>2
<1>14. ToSet(round') = {[number |-> n, language |-> language] :
                            n \in ToSet(NumbersOf(round)) \cap table[language]}
  BY <1>11, <1>12
<1>15. QED BY <1>13, <1>14

\* A change of the language in the middle of a round keeps what is translated, in
\* its order (findByNumbers).
THEOREM SwitchKeepsEveryRound == Spec => SwitchKeepsRound
<1>1. RoundInv /\ [Next]_vars =>
        [\A language \in Languages : SwitchLanguage(language) =>
            /\ ToSet(round') = {[number |-> n, language |-> language] :
                                  n \in ToSet(NumbersOf(round)) \cap table[language]}
            /\ \A i, j \in DOMAIN round', k, m \in DOMAIN round :
                  /\ i < j
                  /\ round[k].number = round'[i].number /\ round[m].number = round'[j].number
                  => k < m
        ]_vars
  BY SwitchStep
<1>2. QED BY <1>1, RoundType, PTL DEF Spec, SwitchKeepsRound
===============================================================================
