------------------------------ MODULE TriviaRounds ------------------------------
(* TriviaService and its controller: what a page of the quiz gets when it asks  *)
(* for a round of random questions, and when the visitor changes the language   *)
(* in the middle of it.  The service only reads; the state is the round on the  *)
(* page.  A number in a request is NaN or a multiple of one half, written as    *)
(* the number of halves, so that fractions are among the inputs.                *)
EXTENDS Integers, SequencesExt

CONSTANTS
    Numbers,            \* the question numbers that may exist
    Languages,          \* QUESTION_LANGUAGES
    DefaultLanguage,
    Unknown,            \* a missing language, or one that does not exist
    DefaultCount,
    MaxCount,
    MaxNumbers,
    NaN,
    Counts,             \* the counts that are asked for
    Parts               \* what the parts of a list of numbers are read as

ASSUME LimitsAssumption ==
    /\ {DefaultCount, MaxCount, MaxNumbers} \subseteq Nat
    /\ 1 <= DefaultCount
    /\ DefaultCount <= MaxCount
    /\ MaxCount <= MaxNumbers

ASSUME InputsAssumption ==
    /\ Numbers \subseteq Nat \ {0} /\ IsFiniteSet(Numbers)
    /\ DefaultLanguage \in Languages /\ Unknown \notin Languages
    /\ NaN \notin Int /\ Counts \cup Parts \subseteq Int \cup {NaN}

Question == [number : Numbers, language : Languages]

VARIABLES
    table,    \* Languages -> the numbers of the questions in that language
    round     \* the questions on the page

vars == <<table, round>>

NumbersOf(questions) == [i \in DOMAIN questions |-> questions[i].number]

\* Every content of the database, with or without missing translations.
Init == table \in [Languages -> SUBSET Numbers] /\ round = <<>>

-------------------------------------------------------------------------------
(* The three normalisers. *)

Trunc(halves) == IF halves >= 0 THEN halves \div 2 ELSE -((-halves) \div 2)

Between(low, n, high) == IF n < low THEN low ELSE IF n > high THEN high ELSE n

\* Mutant: no lower limit.
NormalizeCount_NoMin(count) ==
    IF count \in {NaN, 0} THEN DefaultCount
    ELSE IF Trunc(count) > MaxCount THEN MaxCount ELSE Trunc(count)

NormalizeCount(count) ==
    IF count \in {NaN, 0} THEN DefaultCount ELSE Between(1, Trunc(count), MaxCount)

NormalizeLanguage(language) ==
    IF language \in Languages THEN language ELSE DefaultLanguage

IsNumber(part) == part # NaN /\ part > 0 /\ part % 2 = 0

\* The elements of a list that are in T, in its order.
Filter(list, T) ==
    LET kept[n \in 0..Len(list)] ==
            IF n = 0 THEN <<>>
            ELSE IF list[n] \in T THEN Append(kept[n - 1], list[n]) ELSE kept[n - 1]
    IN kept[Len(list)]

\* Mutant: repeated numbers count towards the limit.
NormalizeNumbers_CutFirst(parts) ==
    LET first == Filter(parts, {part \in ToSet(parts) : IsNumber(part)})
        cut == SubSeq(first, 1, Between(0, Len(first), MaxNumbers))
        New(i) == \A j \in 1..(i - 1) : cut[j] # cut[i]
        result[n \in 0..Len(cut)] ==
            IF n = 0 THEN <<>>
            ELSE IF New(n) THEN Append(result[n - 1], cut[n]) ELSE result[n - 1]
    IN result[Len(cut)]

\* The loop, which ends at the limit.
NormalizeNumbers(parts) ==
    LET result[n \in 0..Len(parts)] ==
            IF n = 0 THEN <<>>
            ELSE LET before == result[n - 1] IN
                 IF \/ ~IsNumber(parts[n])
                    \/ parts[n] \in ToSet(before)
                    \/ Len(before) = MaxNumbers
                 THEN before ELSE Append(before, parts[n])
    IN result[Len(parts)]

-------------------------------------------------------------------------------
(* The queries. *)

\* The answers findRandom may give.
FindRandom(count, language) ==
    LET l == NormalizeLanguage(language)
        size == Between(0, NormalizeCount(count), Cardinality(table[l]))
    IN {q \in [1..size -> [number : table[l], language : {l}]] : IsInjective(q)}

\* Mutant: the questions come as the database has them.
FindByNumbers_TableOrder(parts, language) ==
    LET l == NormalizeLanguage(language)
        wanted == {part \div 2 : part \in ToSet(NormalizeNumbers(parts))}
        sorted == SetToSortSeq(table[l] \cap wanted, <)
    IN [i \in DOMAIN sorted |-> [number |-> sorted[i], language |-> l]]

\* The controller lets through what are numbers, the service finds those that exist.
FindByNumbers(parts, language) ==
    LET l == NormalizeLanguage(language)
        wanted == NormalizeNumbers(Filter(parts, {part \in ToSet(parts) : IsNumber(part)}))
        found == Filter(wanted, {2 * n : n \in table[l]})
    IN [i \in DOMAIN found |-> [number |-> found[i] \div 2, language |-> l]]

-------------------------------------------------------------------------------

NewRound(count, language) ==
    /\ round' \in FindRandom(count, language)
    /\ UNCHANGED table

\* The page asks for the questions of its round in another language.
SwitchLanguage(language) ==
    /\ round # <<>>
    /\ round' = FindByNumbers([i \in DOMAIN round |-> 2 * round[i].number], language)
    /\ UNCHANGED table

Next ==
    \E language \in Languages \cup {Unknown} :
        \/ \E count \in Counts : NewRound(count, language)
        \/ SwitchLanguage(language)

Spec == Init /\ [][Next]_vars

-------------------------------------------------------------------------------

\* Whatever count the page asks for, a new round has at most MaxCount different
\* questions of the database and is not empty while its language has questions;
\* a whole count up to the limit is what it gets if there are enough
\* (normalizeCount, findRandom).
RoundSizeFits ==
    [][\A count \in Counts, language \in Languages : NewRound(count, language) =>
        LET available == Cardinality(table[language]) IN
        /\ round' \in Seq(Question)
        /\ ToSet(round') \subseteq [number : table[language], language : {language}]
        /\ Len(round') <= MaxCount /\ IsInjective(NumbersOf(round'))
        /\ available > 0 => round' # <<>>
        /\ \A n \in 1..MaxCount : count = 2 * n /\ n <= available => Len(round') = n
      ]_vars

\* A change of the language in the middle of a round keeps every question that is
\* translated, in its place in the order, and nothing else: the whole round if all
\* of them are (the comment at findByNumbers).
SwitchKeepsRound ==
    [][\A language \in Languages : SwitchLanguage(language) =>
        /\ ToSet(round') = {[number |-> n, language |-> language] :
                              n \in ToSet(NumbersOf(round)) \cap table[language]}
        /\ \A i, j \in DOMAIN round', k, m \in DOMAIN round :
              /\ i < j
              /\ round[k].number = round'[i].number /\ round[m].number = round'[j].number
              => k < m
      ]_vars

\* What a list of numbers is answered with, said without the loop: a number is in
\* the answer if it exists and is the first of its kind in the list with fewer
\* than MaxNumbers different numbers before it; it comes once, in the list's order.
\* Requests is the set of lists (findByNumbers, normalizeNumbers).
FirstOfItsKind(parts, i) ==
    LET before == {parts[j] : j \in {k \in 1..(i - 1) : IsNumber(parts[k])}} IN
    IsNumber(parts[i]) /\ parts[i] \notin before /\ Cardinality(before) < MaxNumbers

Requests == BoundedSeq(Parts, MaxNumbers + 2)

AnswersFollowRequest ==
    \A parts \in Requests, language \in Languages \cup {Unknown} :
        LET l == NormalizeLanguage(language)
            due == {i \in DOMAIN parts :
                        FirstOfItsKind(parts, i) /\ parts[i] \div 2 \in table[l]}
            Position(n) == CHOOSE i \in due : parts[i] = 2 * n
            answer == FindByNumbers(parts, language)
        IN /\ ToSet(NumbersOf(answer)) = {parts[i] \div 2 : i \in due}
           /\ \A i, j \in DOMAIN answer :
                 i < j => Position(answer[i].number) < Position(answer[j].number)
           /\ \A i \in DOMAIN answer : answer[i].language = l
===============================================================================
