------------------------------- MODULE HighScores -------------------------------
(* MoorhuhnService: one row per player with the best score.  saveNewHighscore   *)
(* awaits the database three times (find, write, read all) without a            *)
(* transaction.  Rows are never deleted, so the table is the sequence of its    *)
(* rows in the order of their automatic ids.  The service's field highscore is  *)
(* replaced as a whole whenever a list is read and is not part of the state.    *)
EXTENDS Naturals, Sequences, FiniteSets

CONSTANTS
    Calls,      \* requests in progress
    Names,
    Scores,
    None

ASSUME ScoresAssumption == Scores \subseteq Nat \ {0}

\* `first` is the score a row was inserted with (history).
Moorhuhn == [name : Names, score : Scores, first : Scores]

Waits == {"find", "update", "insert", "list"}

\* `id` is the row that is to be updated.
Call == [at : Waits, name : Names, score : Scores, id : Nat]

ASSUME NoneAssumption == None \notin Call

VARIABLES
    repo,         \* the table
    calls,        \* Calls -> Call or None
    best          \* the best score whose save was answered, 0 for none (history)

vars == <<repo, calls, best>>

Waiting(c, at) == calls[c] # None /\ calls[c].at = at

TypeOK ==
    /\ repo \in Seq(Moorhuhn)
    /\ calls \in [Calls -> Call \cup {None}]
    /\ best \in [Names -> Scores \cup {0}]

Init ==
    /\ repo = <<>>
    /\ calls = [c \in Calls |-> None]
    /\ best = [n \in Names |-> 0]

Goto(c, at) == calls' = [calls EXCEPT ![c].at = at]

-------------------------------------------------------------------------------
(* The ranking. *)

\* The place of row i after sort((a, b) => b.score - a.score), which is stable.
Place(h, i) ==
    1 + Cardinality({j \in DOMAIN h : \/ h[j].score > h[i].score
                                      \/ h[j].score = h[i].score /\ j < i})

Sorted(h) == [p \in DOMAIN h |-> h[CHOOSE i \in DOMAIN h : Place(h, i) = p]]

\* Mutant: the rank after a shared one is the next number.
Ranks_Dense(q) ==
    LET rank[i \in DOMAIN q] ==
            IF i = 1 THEN 1
            ELSE IF q[i - 1].score = q[i].score THEN rank[i - 1] ELSE rank[i - 1] + 1
    IN rank

\* The loop of sortHighScore: its counter is the index.
Ranks(q) ==
    LET rank[i \in DOMAIN q] ==
            IF i = 1 THEN 1
            ELSE IF q[i - 1].score = q[i].score THEN rank[i - 1] ELSE i
    IN rank

SortHighScore(h) ==
    LET q == Sorted(h) IN
    [i \in DOMAIN q |-> [rank |-> Ranks(q)[i], name |-> q[i].name, score |-> q[i].score]]

-------------------------------------------------------------------------------

SaveNewHighscore(c, n, s) ==
    /\ calls[c] = None
    /\ calls' = [calls EXCEPT ![c] = [at |-> "find", name |-> n, score |-> s, id |-> 0]]
    /\ UNCHANGED <<repo, best>>

\* Mutants: any score replaces the one that is stored; the row is looked up by
\* name and score.
Found_AnyScore(c) ==
    /\ Waiting(c, "find")
    /\ \/ \E i \in DOMAIN repo :
             /\ repo[i].name = calls[c].name
             /\ calls' = [calls EXCEPT ![c].at = "update", ![c].id = i]
       \/ (\A i \in DOMAIN repo : repo[i].name # calls[c].name) /\ Goto(c, "insert")
    /\ UNCHANGED <<repo, best>>

Found_NameAndScore(c) ==
    /\ Waiting(c, "find")
    /\ \/ /\ \E i \in DOMAIN repo : repo[i].name = calls[c].name /\ repo[i].score = calls[c].score
          /\ Goto(c, "list")
       \/ /\ \A i \in DOMAIN repo : repo[i].name # calls[c].name \/ repo[i].score # calls[c].score
          /\ Goto(c, "insert")
    /\ UNCHANGED <<repo, best>>

\* findOne's answer: any of the rows with the name.
Found(c) ==
    /\ Waiting(c, "find")
    /\ \/ \E i \in DOMAIN repo :
             /\ repo[i].name = calls[c].name
             /\ \/ /\ calls[c].score > repo[i].score
                   /\ calls' = [calls EXCEPT ![c].at = "update", ![c].id = i]
                \/ calls[c].score <= repo[i].score /\ Goto(c, "list")
       \/ (\A i \in DOMAIN repo : repo[i].name # calls[c].name) /\ Goto(c, "insert")
    /\ UNCHANGED <<repo, best>>

Update(c) ==
    /\ Waiting(c, "update")
    /\ repo' = [repo EXCEPT ![calls[c].id].score = calls[c].score]
    /\ Goto(c, "list")
    /\ UNCHANGED best

Insert(c) ==
    /\ Waiting(c, "insert")
    /\ repo' = Append(repo, [name |-> calls[c].name, score |-> calls[c].score,
                             first |-> calls[c].score])
    /\ Goto(c, "list")
    /\ UNCHANGED best

\* getAllHighscore, at the end of a save or for GET moorhuhn; the answer is
\* SortHighScore(repo).
GetAllHighscore(c) ==
    /\ Waiting(c, "list")
    /\ best' = IF calls[c].score > best[calls[c].name]
               THEN [best EXCEPT ![calls[c].name] = calls[c].score] ELSE best
    /\ calls' = [calls EXCEPT ![c] = None]
    /\ UNCHANGED repo

\* A query fails, and the request with it.
DatabaseFails(c) ==
    /\ calls[c] # None
    /\ calls' = [calls EXCEPT ![c] = None]
    /\ UNCHANGED <<repo, best>>

Next ==
    \E c \in Calls :
        \/ \E n \in Names, s \in Scores : SaveNewHighscore(c, n, s)
        \/ Found(c)
        \/ Update(c)
        \/ Insert(c)
        \/ GetAllHighscore(c)
        \/ DatabaseFails(c)

Spec == Init /\ [][Next]_vars

-------------------------------------------------------------------------------

\* The list that is answered has every row once, the highest score first, and
\* the rank of an entry is one more than the number of better ones: equal scores
\* share a rank and the next rank is skipped (sortHighScore).
RanksAreStandard ==
    LET h == SortHighScore(repo) IN
    /\ \A i \in DOMAIN h :
          /\ h[i].rank = 1 + Cardinality({j \in DOMAIN repo : repo[j].score > h[i].score})
          /\ \A j \in DOMAIN h : j > i => h[j].score <= h[i].score
    /\ \A n \in Names, s \in Scores :
          Cardinality({i \in DOMAIN h : h[i].name = n /\ h[i].score = s})
            = Cardinality({i \in DOMAIN repo : repo[i].name = n /\ repo[i].score = s})

\* Overlapping saves may undo each other's improvement, but no row ever falls
\* below the score it began with.
NeverBelowFirst == \A i \in DOMAIN repo : repo[i].score >= repo[i].first

\* For one request at a time: a player has one row, and it holds at least every
\* score whose save was answered (saveNewHighscore).
BestScoreKept ==
    /\ \A i, j \in DOMAIN repo : repo[i].name = repo[j].name => i = j
    /\ \A n \in Names : best[n] # 0 =>
          \E i \in DOMAIN repo : repo[i].name = n /\ repo[i].score >= best[n]
===============================================================================
