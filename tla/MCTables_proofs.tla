---------------------------- MODULE MCTables_proofs ----------------------------
(* The services that share the database, for any number of requests, rows, pages  *)
(* and values: what overlapping saves of high scores and recipes may do, what        *)
(* requests that do not overlap are owed, and how any table is ranked.              *)
EXTENDS MCTables, FiniteSetTheorems, FunctionTheorems, WellFoundedInduction, TLAPS

-------------------------------------------------------------------------------
(* High scores, however the saves overlap. *)

\* A save that is about to update a row brings at least the score the row began
\* with, because it was more than the row had when it was found.
UpdatesImprove ==
    \A c \in Calls : Waiting(c, "update") =>
        /\ calls[c].id \in DOMAIN repo
        /\ calls[c].score >= repo[calls[c].id].first

Inv == TypeOK /\ NeverBelowFirst /\ UpdatesImprove

\* Rows keep what they began with and their scores are numbers.
LEMMA RowLemma ==
    ASSUME TypeOK, NEW i \in DOMAIN repo
    PROVE  repo[i] \in Moorhuhn /\ repo[i].score \in Nat /\ repo[i].first \in Nat
<1>1. repo[i] \in Moorhuhn
  BY DEF TypeOK
<1>2. QED BY <1>1, ScoresAssumption DEF Moorhuhn

\* A save whose call goes on without a write, not to an update.
LEMMA GoonLemma ==
    ASSUME Inv, NEW c \in Calls, repo' = repo, best' \in [Names -> Scores \cup {0}],
           NEW new \in Call \cup {None}, calls' = [calls EXCEPT ![c] = new],
           new # None => new.at # "update"
    PROVE  Inv'
<1>1. TypeOK'
  BY DEF Inv, TypeOK
<1>2. NeverBelowFirst' /\ UpdatesImprove'
  BY DEF Inv, TypeOK, NeverBelowFirst, UpdatesImprove, Waiting
<1>3. QED BY <1>1, <1>2 DEF Inv

\* Goto changes one field of a call.
LEMMA GotoLemma ==
    ASSUME TypeOK, NEW c \in Calls, calls[c] # None, NEW at \in Waits, Goto(c, at)
    PROVE  \E new \in Call : /\ calls' = [calls EXCEPT ![c] = new]
                             /\ new.at = at
<1> DEFINE new == [calls[c] EXCEPT !.at = at]
<1>1. calls[c] \in Call
  BY DEF TypeOK
<1>2. new \in Call /\ new.at = at
  BY <1>1 DEF Call
<1>3. calls' = [calls EXCEPT ![c] = new]
  BY DEF Goto
<1>4. QED BY <1>2, <1>3

\* findOne has found a row with a lower score.
LEMMA FoundLower ==
    ASSUME Inv, NEW c \in Calls, Waiting(c, "find"), NEW i \in DOMAIN repo,
           calls[c].score > repo[i].score,
           calls' = [calls EXCEPT ![c].at = "update", ![c].id = i],
           UNCHANGED <<repo, best>>
    PROVE  Inv'
<1> DEFINE new == [calls[c] EXCEPT !.at = "update", !.id = i]
<1>1. calls[c] \in Call /\ i \in Nat
  BY DEF Inv, TypeOK, Waiting
<1>2. new \in Call /\ new.id = i /\ new.score = calls[c].score
  BY <1>1 DEF Call, Waits
<1>3. calls' = [calls EXCEPT ![c] = new]
  OBVIOUS
<1> HIDE DEF new
<1>4. TypeOK' /\ NeverBelowFirst'
  BY <1>2, <1>3 DEF Inv, TypeOK, NeverBelowFirst
<1>5. calls[c].score \in Nat /\ repo[i].score >= repo[i].first
  BY <1>1, ScoresAssumption DEF Call, Inv, NeverBelowFirst
<1>6. new.score >= repo[i].first
  BY <1>2, <1>5, RowLemma DEF Inv
<1>7. UpdatesImprove'
  BY <1>2, <1>3, <1>6 DEF Inv, TypeOK, UpdatesImprove, Waiting
<1>8. QED BY <1>4, <1>7 DEF Inv

\* The row that was found is written, whatever it has become meanwhile.
LEMMA UpdateLemma ==
    ASSUME Inv, NEW c \in Calls, Update(c)
    PROVE  Inv'
<1> DEFINE id == calls[c].id
           score == calls[c].score
<1>1. /\ calls[c] \in Call /\ calls[c] # None /\ score \in Scores /\ id \in DOMAIN repo
      /\ score >= repo[id].first
  BY DEF Inv, TypeOK, Call, Update, UpdatesImprove, Waiting
<1>2. repo' = [repo EXCEPT ![id].score = score] /\ best' = best
  BY DEF Update
<1>3. PICK new \in Call : calls' = [calls EXCEPT ![c] = new] /\ new.at = "list"
  BY <1>1, GotoLemma DEF Update, Inv, Waits
<1> HIDE DEF id, score
<1>4. /\ repo[id] \in Moorhuhn /\ repo \in Seq(Moorhuhn)
      /\ [repo[id] EXCEPT !.score = score] \in Moorhuhn
  BY <1>1, RowLemma DEF Inv, TypeOK, Moorhuhn
<1>5. /\ repo' \in Seq(Moorhuhn) /\ DOMAIN repo' = DOMAIN repo
      /\ repo'[id].score = score
      /\ \A i \in DOMAIN repo : repo'[i].first = repo[i].first
      /\ \A i \in DOMAIN repo \ {id} : repo'[i] = repo[i]
  BY <1>1, <1>2, <1>4, RowLemma DEF Inv, Moorhuhn
<1>6. TypeOK'
  BY <1>2, <1>3, <1>5 DEF Inv, TypeOK
<1>7. NeverBelowFirst'
  BY <1>1, <1>5 DEF Inv, NeverBelowFirst
<1>8. UpdatesImprove'
  BY <1>3, <1>5 DEF Inv, TypeOK, UpdatesImprove, Waiting
<1>9. QED BY <1>6, <1>7, <1>8 DEF Inv

\* A new row begins with its score.
LEMMA InsertLemma ==
    ASSUME Inv, NEW c \in Calls, Insert(c)
    PROVE  Inv'
<1> DEFINE entry == [name |-> calls[c].name, score |-> calls[c].score,
                   first |-> calls[c].score]
<1>1. calls[c] \in Call /\ calls[c] # None
  BY DEF Inv, TypeOK, Insert, Waiting
<1>2. entry \in Moorhuhn /\ entry.score = entry.first /\ entry.first \in Nat
  BY <1>1, ScoresAssumption DEF Call, Moorhuhn
<1>3. repo' = Append(repo, entry) /\ best' = best
  BY DEF Insert
<1>4. PICK new \in Call : calls' = [calls EXCEPT ![c] = new] /\ new.at = "list"
  BY <1>1, GotoLemma DEF Insert, Inv, Waits
<1> HIDE DEF entry
<1>5. /\ repo' \in Seq(Moorhuhn) /\ DOMAIN repo \subseteq DOMAIN repo'
      /\ \A i \in DOMAIN repo : repo'[i] = repo[i]
      /\ \A i \in DOMAIN repo' : i \in DOMAIN repo \/ repo'[i] = entry
  BY <1>2, <1>3 DEF Inv, TypeOK
<1>6. TypeOK'
  BY <1>3, <1>4, <1>5 DEF Inv, TypeOK
<1>7. NeverBelowFirst'
  BY <1>2, <1>5 DEF Inv, NeverBelowFirst
<1>8. UpdatesImprove'
  BY <1>4, <1>5 DEF Inv, TypeOK, UpdatesImprove, Waiting
<1>9. QED BY <1>6, <1>7, <1>8 DEF Inv

\* Every action keeps the invariant.
LEMMA StepInv == Inv /\ [Next]_vars => Inv'
<1> SUFFICES ASSUME Inv, [Next]_vars PROVE Inv'
  OBVIOUS
<1>1. CASE UNCHANGED vars
  BY <1>1 DEF Inv, TypeOK, NeverBelowFirst, UpdatesImprove, Waiting, vars
<1>2. ASSUME NEW c \in Calls, NEW n \in Names, NEW s \in Scores, SaveNewHighscore(c, n, s)
      PROVE  Inv'
  <2>1. [at |-> "find", name |-> n, score |-> s, id |-> 0] \in Call
    BY DEF Call, Waits
  <2>2. QED BY <1>2, <2>1, GoonLemma DEF SaveNewHighscore, Inv, TypeOK
<1>3. ASSUME NEW c \in Calls, Found(c) PROVE Inv'
  <2>1. ASSUME NEW at \in {"list", "insert"}, Goto(c, at), UNCHANGED <<repo, best>>
        PROVE  Inv'
    <3>1. PICK new \in Call : calls' = [calls EXCEPT ![c] = new] /\ new.at = at
      BY <1>3, <2>1, GotoLemma DEF Found, Waiting, Inv, Waits
    <3>2. QED BY <2>1, <3>1, GoonLemma DEF Inv, TypeOK
  <2>2. QED BY <1>3, <2>1, FoundLower DEF Found
<1>4. ASSUME NEW c \in Calls, Update(c) PROVE Inv'
  BY <1>4, UpdateLemma
<1>5. ASSUME NEW c \in Calls, Insert(c) PROVE Inv'
  BY <1>5, InsertLemma
<1>6. ASSUME NEW c \in Calls, GetAllHighscore(c) PROVE Inv'
  <2>1. calls[c] \in Call
    BY <1>6 DEF GetAllHighscore, Waiting, Inv, TypeOK
  <2>2. best' \in [Names -> Scores \cup {0}]
    BY <1>6, <2>1 DEF GetAllHighscore, Inv, TypeOK, Call
  <2>3. QED BY <1>6, <2>2, GoonLemma DEF GetAllHighscore
<1>7. ASSUME NEW c \in Calls, DatabaseFails(c) PROVE Inv'
  BY <1>7, GoonLemma DEF DatabaseFails, Inv, TypeOK
<1>8. QED
  BY <1>1, <1>2, <1>3, <1>4, <1>5, <1>6, <1>7 DEF Next

\* However saves overlap and fail, no row falls below the score it began with
\* (saveNewHighscore).
THEOREM NeverBelow == Spec => []NeverBelowFirst
<1>1. Init => Inv
  BY DEF Init, Inv, TypeOK, NeverBelowFirst, UpdatesImprove, Waiting
<1>2. Inv => NeverBelowFirst
  BY DEF Inv
<1>3. QED BY <1>1, <1>2, StepInv, PTL DEF Spec
-------------------------------------------------------------------------------
(* High scores, one save at a time. *)

\* What a save has learnt of the table, or has written, is still true.
UpToDate(call) ==
    /\ call.at = "update" =>
          /\ call.id \in DOMAIN repo
          /\ repo[call.id].name = call.name
          /\ call.score > repo[call.id].score
    /\ call.at = "insert" => \A i \in DOMAIN repo : repo[i].name # call.name
    /\ call.at = "list" =>
          \E i \in DOMAIN repo : repo[i].name = call.name /\ repo[i].score >= call.score

OneByOneInv ==
    /\ OneCall
    /\ BestScoreKept
    /\ \A c \in Calls : calls[c] # None => UpToDate(calls[c])

\* A save that goes on without a write, with what it learns.
LEMMA LearnStep ==
    ASSUME OneByOneInv, OneCall', NEW c \in Calls, UNCHANGED <<repo, best>>,
           \A d \in Calls \ {c} : calls'[d] = calls[d],
           calls'[c] # None => UpToDate(calls'[c])
    PROVE  OneByOneInv'
<1>1. \A d \in Calls : calls'[d] # None => UpToDate(calls'[d])
  BY DEF OneByOneInv
<1>2. \A d \in Calls : calls'[d] # None => UpToDate(calls[d])'
  BY <1>1 DEF UpToDate
<1>3. BestScoreKept'
  BY DEF OneByOneInv, BestScoreKept
<1>4. QED BY <1>2, <1>3 DEF OneByOneInv

\* A write that leaves its player with one row and at least the score of the save.
LEMMA WriteStep ==
    ASSUME Inv, OneByOneInv, OneCall', NEW c \in Calls, calls[c] # None, Goto(c, "list"),
           UNCHANGED best, NEW id \in DOMAIN repo', DOMAIN repo \subseteq DOMAIN repo',
           repo'[id].name = calls[c].name, repo'[id].score = calls[c].score,
           \A i \in DOMAIN repo' \ {id} : i \in DOMAIN repo /\ repo'[i] = repo[i],
           \A i \in DOMAIN repo : repo[i].name = calls[c].name =>
              i = id /\ calls[c].score > repo[i].score,
           id \in DOMAIN repo => repo[id].name = calls[c].name
    PROVE  OneByOneInv'
<1>1. PICK new \in Call : calls' = [calls EXCEPT ![c] = new] /\ new.at = "list"
  BY GotoLemma DEF Inv, Waits
<1>2. /\ calls \in [Calls -> Call \cup {None}] /\ calls[c] \in Call /\ calls[c].score \in Nat
      /\ best \in [Names -> Scores \cup {0}]
      /\ \A i \in DOMAIN repo : repo[i].score \in Nat
  BY RowLemma, ScoresAssumption DEF Inv, TypeOK, Call
<1>3. /\ calls'[c].at = "list" /\ calls'[c].name = calls[c].name
      /\ calls'[c].score = calls[c].score
  BY <1>2 DEF Goto, Call
<1>4. \A d \in Calls : calls'[d] # None => d = c
  BY <1>1, <1>2 DEF OneByOneInv, OneCall
<1>5. UpToDate(calls[c])'
  <2>1. repo'[id].name = calls'[c].name /\ repo'[id].score >= calls'[c].score
    BY <1>2, <1>3
  <2>2. QED BY <1>3, <2>1 DEF UpToDate
<1>6. \A i, j \in DOMAIN repo' : repo'[i].name = repo'[j].name => i = j
  BY DEF OneByOneInv, BestScoreKept
<1>7. ASSUME NEW n \in Names, best[n] # 0
      PROVE  \E i \in DOMAIN repo' : repo'[i].name = n /\ repo'[i].score >= best[n]
  <2>1. PICK i \in DOMAIN repo : repo[i].name = n /\ repo[i].score >= best[n]
    BY <1>7 DEF OneByOneInv, BestScoreKept
  <2>2. CASE i = id
    <3>1. repo[i].name = calls[c].name /\ n = calls[c].name
      BY <2>1, <2>2
    <3>2. calls[c].score > repo[i].score /\ repo[i].score >= best[n]
      BY <2>1, <3>1
    <3>3. best[n] \in Nat
      BY <1>2, <1>7, ScoresAssumption
    <3>4. repo[i].score \in Nat
      BY <1>2, <2>1
    <3>5. calls[c].score >= best[n]
      BY <1>2, <3>2, <3>3, <3>4
    <3>6. QED BY <3>1, <3>5
  <2>3. CASE i # id
    BY <2>1, <2>3
  <2>4. QED BY <2>2, <2>3
<1>8. BestScoreKept'
  BY <1>6, <1>7 DEF BestScoreKept
<1>9. QED BY <1>4, <1>5, <1>8 DEF OneByOneInv

LEMMA StepOneByOne == Inv /\ OneByOneInv /\ OneCall' /\ [Next]_vars => OneByOneInv'
<1> SUFFICES ASSUME Inv, OneByOneInv, OneCall', [Next]_vars PROVE OneByOneInv'
  OBVIOUS
<1>1. /\ repo \in Seq(Moorhuhn)
      /\ calls \in [Calls -> Call \cup {None}]
      /\ best \in [Names -> Scores \cup {0}]
  BY DEF Inv, TypeOK
<1>2. ASSUME NEW c \in Calls, NEW n \in Names, NEW s \in Scores, SaveNewHighscore(c, n, s)
      PROVE  OneByOneInv'
  BY <1>1, <1>2, LearnStep DEF SaveNewHighscore, UpToDate
<1>3. ASSUME NEW c \in Calls, Found(c)
      PROVE  OneByOneInv'
  <2>1. calls[c] \in Call /\ calls[c] # None /\ UNCHANGED <<repo, best>>
    BY <1>1, <1>3 DEF Found, Waiting
  <2>2. ASSUME NEW i \in DOMAIN repo, repo[i].name = calls[c].name,
               calls[c].score > repo[i].score,
               calls' = [calls EXCEPT ![c].at = "update", ![c].id = i]
        PROVE  OneByOneInv'
    <3>1. /\ calls'[c].at = "update" /\ calls'[c].id = i
          /\ calls'[c].name = calls[c].name /\ calls'[c].score = calls[c].score
      BY <1>1, <2>1, <2>2 DEF Call
    <3>2. UpToDate(calls'[c])
      BY <2>2, <3>1 DEF UpToDate
    <3>3. QED BY <1>1, <2>1, <2>2, <3>2, LearnStep
  <2>3. ASSUME NEW at \in {"list", "insert"}, Goto(c, at)
        PROVE  /\ calls'[c].at = at
               /\ calls'[c].name = calls[c].name /\ calls'[c].score = calls[c].score
               /\ \A d \in Calls \ {c} : calls'[d] = calls[d]
    BY <1>1, <2>1, <2>3 DEF Goto, Call
  <2>4. ASSUME NEW i \in DOMAIN repo, repo[i].name = calls[c].name,
               calls[c].score <= repo[i].score, Goto(c, "list")
        PROVE  OneByOneInv'
    <3>1. repo[i].score \in Nat /\ calls[c].score \in Nat
      BY <2>1, RowLemma, ScoresAssumption DEF Inv, Call
    <3>2. repo[i].score >= calls[c].score
      BY <2>4, <3>1
    <3>3. UpToDate(calls'[c])
      BY <2>3, <2>4, <3>2 DEF UpToDate
    <3>4. QED BY <2>1, <2>3, <2>4, <3>3, LearnStep
  <2>5. ASSUME \A i \in DOMAIN repo : repo[i].name # calls[c].name, Goto(c, "insert")
        PROVE  OneByOneInv'
    <3>1. UpToDate(calls'[c])
      BY <2>3, <2>5 DEF UpToDate
    <3>2. QED BY <2>1, <2>3, <2>5, <3>1, LearnStep
  <2>6. QED BY <1>3, <2>2, <2>4, <2>5 DEF Found
<1>4. ASSUME NEW c \in Calls, Update(c)
      PROVE  OneByOneInv'
  <2> DEFINE id == calls[c].id
             score == calls[c].score
  <2>1. /\ calls[c] # None /\ calls[c] \in Call /\ score \in Scores
        /\ id \in DOMAIN repo /\ repo[id].name = calls[c].name /\ score > repo[id].score
    BY <1>1, <1>4 DEF Update, Waiting, OneByOneInv, UpToDate, Call
  <2>2. repo' = [repo EXCEPT ![id].score = score] /\ Goto(c, "list") /\ UNCHANGED best
    BY <1>4 DEF Update
  <2> HIDE DEF id, score
  <2>3. /\ DOMAIN repo' = DOMAIN repo
        /\ repo'[id].score = score /\ repo'[id].name = repo[id].name
        /\ \A i \in DOMAIN repo \ {id} : repo'[i] = repo[i]
    BY <1>1, <2>1, <2>2, RowLemma DEF Inv, Moorhuhn
  <2>4. \A i \in DOMAIN repo : repo[i].name = calls[c].name => i = id
    BY <2>1 DEF OneByOneInv, BestScoreKept
  <2>5. QED BY <2>1, <2>2, <2>3, <2>4, WriteStep DEF score
<1>5. ASSUME NEW c \in Calls, Insert(c)
      PROVE  OneByOneInv'
  <2> DEFINE entry == [name |-> calls[c].name, score |-> calls[c].score,
                       first |-> calls[c].score]
             id == Len(repo) + 1
  <2>1. /\ calls[c] # None /\ repo' = Append(repo, entry)
        /\ Goto(c, "list") /\ UNCHANGED best
        /\ \A i \in DOMAIN repo : repo[i].name # calls[c].name
    BY <1>5 DEF Insert, Waiting, OneByOneInv, UpToDate
  <2>2. entry.name = calls[c].name /\ entry.score = calls[c].score
    OBVIOUS
  <2> HIDE DEF entry
  <2>3. /\ id \in DOMAIN repo' /\ id \notin DOMAIN repo /\ repo'[id] = entry
        /\ DOMAIN repo \subseteq DOMAIN repo'
        /\ \A i \in DOMAIN repo' \ {id} : i \in DOMAIN repo /\ repo'[i] = repo[i]
    BY <1>1, <2>1
  <2> HIDE DEF id
  <2>4. QED BY <2>1, <2>2, <2>3, WriteStep
<1>6. ASSUME NEW c \in Calls, GetAllHighscore(c)
      PROVE  OneByOneInv'
  <2>1. /\ calls[c] \in Call /\ calls[c] # None /\ calls[c].name \in Names
        /\ repo' = repo /\ calls' = [calls EXCEPT ![c] = None]
        /\ best' = IF calls[c].score > best[calls[c].name]
                   THEN [best EXCEPT ![calls[c].name] = calls[c].score] ELSE best
    BY <1>1, <1>6 DEF GetAllHighscore, Waiting, Call
  <2>2. PICK i \in DOMAIN repo : repo[i].name = calls[c].name /\ repo[i].score >= calls[c].score
    BY <1>6, <2>1 DEF GetAllHighscore, Waiting, OneByOneInv, UpToDate
  <2>3. \A n \in Names : best'[n] = best[n] \/ (n = calls[c].name /\ best'[n] = calls[c].score)
    BY <1>1, <2>1
  <2>4. BestScoreKept'
    BY <2>1, <2>2, <2>3 DEF OneByOneInv, BestScoreKept
  <2>5. \A d \in Calls : calls'[d] = None
    BY <1>1, <2>1 DEF OneByOneInv, OneCall
  <2>6. QED BY <2>4, <2>5 DEF OneByOneInv
<1>7. ASSUME NEW c \in Calls, DatabaseFails(c)
      PROVE  OneByOneInv'
  BY <1>1, <1>7, LearnStep DEF DatabaseFails
<1>8. CASE UNCHANGED vars
  BY <1>8 DEF vars, OneByOneInv, OneCall, BestScoreKept, UpToDate
<1>9. QED BY <1>2, <1>3, <1>4, <1>5, <1>6, <1>7, <1>8 DEF Next

-------------------------------------------------------------------------------
(* Recipes. *)

RecipeSaves == {"load", "update", "reinsert"}

RecipeWaits == {"insert", "find", "findToRemove", "delete"} \cup RecipeSaves

\* A call; the body of a create is a recipe, that of an update some of its fields.
RecipeCall ==
    [at : RecipeWaits, id : R!Ids \cup {None}, body : R!Recipe \cup R!Patches \cup {None},
     entity : R!Recipe \cup {None}, changed : SUBSET Fields]

SavingRecipe(c) == recipeCalls[c] # None /\ recipeCalls[c].at \in RecipeSaves

RecipesType ==
    /\ nextId \in Nat \ {0}
    /\ recipes \in [R!Ids -> R!Recipe \cup {None}]
    /\ book \in [R!Ids -> R!Recipe \cup {None}]
    /\ recipeCalls \in [Two -> RecipeCall \cup {None}]
    /\ \A c \in Two :
          /\ R!Waiting(c, "insert") => recipeCalls[c].body \in R!Recipe
          /\ R!Waiting(c, "find") \/ SavingRecipe(c) =>
                recipeCalls[c].id \in R!Ids /\ recipeCalls[c].body \in R!Patches
          /\ SavingRecipe(c) => recipeCalls[c].entity \in R!Recipe
          /\ R!Waiting(c, "findToRemove") \/ R!Waiting(c, "delete") => recipeCalls[c].id \in R!Ids

\* Two requests about one recipe are known as an overlap.
OverlapsKnown ==
    \A b, c \in Two :
        b # c /\ recipeCalls[b] # None /\ recipeCalls[c] # None =>
            (recipeCalls[b].id = recipeCalls[c].id =>
                recipeCalls[b].id \in recipesOverlapped \cup {None})

\* What save() is about to write to a row: the columns in which it differs.
Differing(c) ==
    {f \in Fields : recipeCalls[c].entity[f] # recipes[recipeCalls[c].id][f]}

\* An id that is not given out yet has no row and is in no save, and the entity that
\* is about to be saved is the row with the fields of the body.
SavesFresh ==
    /\ \A id \in R!Ids : id >= nextId => recipes[id] = None
    /\ \A c \in Two : SavingRecipe(c) =>
          /\ recipeCalls[c].id < nextId
          /\ recipeCalls[c].id \notin recipesOverlapped =>
                /\ recipes[recipeCalls[c].id] # None
                /\ recipeCalls[c].entity = R!Merge(recipes[recipeCalls[c].id], recipeCalls[c].body)
                /\ recipeCalls[c].at # "reinsert"
                /\ recipeCalls[c].at = "update" => recipeCalls[c].changed = Differing(c)

RecipesInv == RecipesType /\ OverlapsKnown /\ SavesFresh /\ R!ChangedAsAsked

\* Merging fields into a recipe gives a recipe.
LEMMA MergeLemma ==
    ASSUME NEW entry \in R!Recipe, NEW patch \in R!Patches
    PROVE  R!Merge(entry, patch) \in R!Recipe
<1>1. PICK F \in SUBSET Fields : patch \in [F -> Values]
  BY DEF R!Patches
<1>2. \A f \in Fields : (IF f \in DOMAIN patch THEN patch[f] ELSE entry[f]) \in Values
  BY <1>1 DEF R!Recipe
<1>3. QED BY <1>2 DEF R!Merge, R!Recipe

\* A request that begins: it is in no save, and if another one is about the same
\* recipe the overlap is noted.
LEMMA BeginRecipe ==
    ASSUME RecipesInv, NEW c \in Two, NEW at \in RecipeWaits \ RecipeSaves,
           NEW id \in R!Ids \cup {None},
           NEW body \in R!Recipe \cup R!Patches \cup {None}, R!Begin(c, at, id, body),
           at = "insert" => body \in R!Recipe,
           at = "find" => id \in R!Ids /\ body \in R!Patches,
           at \in {"findToRemove", "delete"} => id \in R!Ids
    PROVE  RecipesInv'
<1> DEFINE new == [at |-> at, id |-> id, body |-> body, entity |-> None, changed |-> {}]
<1>1. /\ recipeCalls' = [recipeCalls EXCEPT ![c] = new] /\ new \in RecipeCall
      /\ recipes' = recipes /\ nextId' = nextId
      /\ recipesOverlapped \subseteq recipesOverlapped'
      /\ R!Busy(id) => id \in recipesOverlapped'
      /\ book' = book \/ (R!Busy(id) /\ book' = [book EXCEPT ![id] = None])
      /\ recipeCalls[c] = None
  BY DEF R!Begin, RecipeCall
<1>2. new.at = at /\ new.id = id /\ new.body = body
  OBVIOUS
<1> HIDE DEF new
<1>3. /\ book' \in [R!Ids -> R!Recipe \cup {None}]
      /\ \A i \in R!Ids : i \notin recipesOverlapped' => book'[i] = book[i]
  BY <1>1 DEF RecipesInv, RecipesType
<1>4. \A d \in Two : SavingRecipe(d)' =>
          d # c /\ recipeCalls'[d] = recipeCalls[d] /\ SavingRecipe(d)
  BY <1>1, <1>2 DEF RecipesInv, RecipesType, SavingRecipe
<1>5. RecipesType'
  <2>1. \A d \in Two \ {c} : recipeCalls'[d] = recipeCalls[d]
    BY <1>1 DEF RecipesInv, RecipesType
  <2>2. recipeCalls'[c] = new
    BY <1>1 DEF RecipesInv, RecipesType
  <2>3. QED
    BY <1>1, <1>2, <1>3, <1>4, <2>1, <2>2
       DEF RecipesInv, RecipesType, R!Waiting, SavingRecipe
<1>6. OverlapsKnown'
  BY <1>1, <1>2 DEF RecipesInv, RecipesType, OverlapsKnown, R!Busy
<1>7. SavesFresh' /\ R!ChangedAsAsked'
  BY <1>1, <1>3, <1>4 DEF RecipesInv, RecipesType, SavesFresh, Differing, R!ChangedAsAsked
<1>8. QED BY <1>5, <1>6, <1>7 DEF RecipesInv

\* A request that ends without a write.
LEMMA RefuseLemma ==
    ASSUME RecipesInv, NEW c \in Two, R!Refuse(c)
    PROVE  RecipesInv'
<1>1. RecipesType' /\ OverlapsKnown'
  BY DEF RecipesInv, RecipesType, OverlapsKnown, SavingRecipe, R!Refuse, R!Waiting
<1>2. SavesFresh' /\ R!ChangedAsAsked'
  BY DEF RecipesInv, RecipesType, SavesFresh, SavingRecipe, Differing, R!ChangedAsAsked, R!Refuse
<1>3. QED BY <1>1, <1>2 DEF RecipesInv

\* A request that goes on to its delete.
LEMMA GotoDeleteLemma ==
    ASSUME RecipesInv, NEW c \in Two, R!Waiting(c, "findToRemove"),
           recipeCalls' = [recipeCalls EXCEPT ![c].at = "delete"],
           UNCHANGED <<recipes, nextId, book, recipesOverlapped>>
    PROVE  RecipesInv'
<1>1. /\ recipeCalls[c] \in RecipeCall /\ recipeCalls[c].id \in R!Ids
      /\ recipeCalls'[c] \in RecipeCall /\ recipeCalls'[c].at = "delete"
      /\ recipeCalls'[c].id = recipeCalls[c].id
      /\ recipeCalls[c] # None
      /\ \A b \in Two \ {c} : recipeCalls'[b] = recipeCalls[b]
      /\ recipeCalls' \in [Two -> RecipeCall \cup {None}]
  BY DEF RecipesInv, RecipesType, R!Waiting, RecipeCall, RecipeWaits, RecipeSaves
<1>2. RecipesType'
  BY <1>1 DEF RecipesInv, RecipesType, R!Waiting, SavingRecipe, RecipeSaves
<1>3. OverlapsKnown'
  BY <1>1 DEF RecipesInv, OverlapsKnown
<1>4. SavesFresh' /\ R!ChangedAsAsked'
  BY <1>1 DEF RecipesInv, RecipesType, SavesFresh, SavingRecipe, RecipeSaves, Differing,
              R!ChangedAsAsked
<1>5. QED BY <1>2, <1>3, <1>4 DEF RecipesInv

\* A request that goes on to a step of its save, of which what SavesFresh says is so.
LEMMA SaveGoesOn ==
    ASSUME RecipesInv, NEW c \in Two, recipeCalls[c] # None,
           NEW new \in RecipeCall, recipeCalls' = [recipeCalls EXCEPT ![c] = new],
           UNCHANGED <<recipes, nextId, book, recipesOverlapped>>,
           new.at \in RecipeSaves, new.id = recipeCalls[c].id,
           new.id \in R!Ids, new.body \in R!Patches, new.entity \in R!Recipe,
           new.id < nextId,
           new.id \notin recipesOverlapped =>
               /\ recipes[new.id] # None
               /\ new.entity = R!Merge(recipes[new.id], new.body)
               /\ new.at # "reinsert"
               /\ new.at = "update" =>
                     new.changed = {f \in Fields : new.entity[f] # recipes[new.id][f]}
    PROVE  RecipesInv'
<1>1. /\ recipeCalls'[c] = new
      /\ \A b \in Two \ {c} : recipeCalls'[b] = recipeCalls[b]
      /\ recipeCalls' \in [Two -> RecipeCall \cup {None}]
  BY DEF RecipesInv, RecipesType
<1>2. RecipesType'
  BY <1>1 DEF RecipesInv, RecipesType, R!Waiting, SavingRecipe, RecipeSaves
<1>3. OverlapsKnown'
  BY <1>1 DEF RecipesInv, OverlapsKnown
<1>4. SavesFresh' /\ R!ChangedAsAsked'
  BY <1>1 DEF RecipesInv, SavesFresh, Differing, R!ChangedAsAsked, SavingRecipe
<1>5. QED BY <1>2, <1>3, <1>4 DEF RecipesInv

\* The row that an update found exists, so its id is given out, and nothing changes
\* it before the save unless another request is about it.
LEMMA FoundRecipe ==
    ASSUME RecipesInv, NEW c \in Two, R!Found(c)
    PROVE  RecipesInv'
<1> DEFINE entry == recipes[recipeCalls[c].id]
<1>1. CASE entry = None
  BY <1>1, RefuseLemma DEF R!Found
<1>2. CASE entry # None
  <2>1. /\ recipeCalls[c] \in RecipeCall /\ recipeCalls[c].id \in R!Ids
        /\ recipeCalls[c].body \in R!Patches
        /\ recipeCalls[c] # None /\ entry \in R!Recipe
    BY <1>2 DEF RecipesInv, RecipesType, R!Waiting, R!Found
  <2> DEFINE merged == R!Merge(entry, recipeCalls[c].body)
             new == [recipeCalls[c] EXCEPT !.at = "load", !.entity = merged]
  <2>2. merged \in R!Recipe
    BY <2>1, MergeLemma
  <2>3. /\ recipeCalls' = [recipeCalls EXCEPT ![c].at = "load", ![c].entity = merged]
        /\ UNCHANGED <<recipes, nextId, book, recipesOverlapped>>
    BY <1>2 DEF R!Found
  <2>4. recipeCalls' = [recipeCalls EXCEPT ![c] = new]
    BY <2>1, <2>3 DEF RecipesInv, RecipesType
  <2> HIDE DEF merged
  <2>5. /\ new \in RecipeCall /\ new.at = "load" /\ new.id = recipeCalls[c].id
        /\ new.body = recipeCalls[c].body /\ new.entity = merged
    BY <2>1, <2>2 DEF RecipeCall, RecipeWaits, RecipeSaves
  <2> HIDE DEF new
  <2>6. recipeCalls[c].id < nextId
    BY RecipesAssumption, <1>2, <2>1 DEF RecipesInv, SavesFresh, RecipesType, R!Ids
  <2>7. QED BY <1>2, <2>1, <2>2, <2>3, <2>4, <2>5, <2>6, SaveGoesOn DEF merged, RecipeSaves
<1>3. QED BY <1>1, <1>2

\* A request is answered with the write of what it asked for: a save that waits for
\* the same row is known as an overlap.
LEMMA AnswerLemma ==
    ASSUME RecipesInv, NEW c \in Two, NEW id \in R!Ids, NEW entry \in R!Recipe \cup {None},
           NEW wanted, R!Answer(c, id, entry, wanted),
           nextId' \in Nat \ {0}, nextId' >= nextId, MaxId \in Nat,
           entry # None => id < nextId',
           id \notin recipesOverlapped => entry = wanted,
           \A d \in Two \ {c} : SavingRecipe(d) /\ recipeCalls[d].id = id =>
               id \in recipesOverlapped
    PROVE  RecipesInv'
<1>1. /\ recipes' = [recipes EXCEPT ![id] = entry]
      /\ book' = IF id \in recipesOverlapped THEN book ELSE [book EXCEPT ![id] = entry]
      /\ recipeCalls' = [recipeCalls EXCEPT ![c] = None] /\ recipesOverlapped' = recipesOverlapped
  BY DEF R!Answer
<1>2. RecipesType'
  BY <1>1 DEF RecipesInv, RecipesType, R!Waiting, SavingRecipe
<1>3. OverlapsKnown'
  BY <1>1 DEF RecipesInv, RecipesType, OverlapsKnown
<1>4. \A i \in R!Ids : i >= nextId' => recipes'[i] = None
  BY <1>1 DEF RecipesInv, RecipesType, SavesFresh, R!Ids
<1>5. ASSUME NEW d \in Two, SavingRecipe(d)'
      PROVE  /\ recipeCalls'[d].id < nextId'
             /\ recipeCalls'[d].id \notin recipesOverlapped' =>
                   /\ recipes'[recipeCalls'[d].id] # None
                   /\ recipeCalls'[d].entity =
                         R!Merge(recipes'[recipeCalls'[d].id], recipeCalls'[d].body)
                   /\ recipeCalls'[d].at # "reinsert"
                   /\ recipeCalls'[d].at = "update" =>
                         recipeCalls'[d].changed = Differing(d)'
  <2>1. /\ d # c /\ recipeCalls'[d] = recipeCalls[d]
        /\ SavingRecipe(d) /\ recipeCalls[d].id \in R!Ids
    BY <1>1, <1>5 DEF RecipesInv, RecipesType, SavingRecipe
  <2>2. recipeCalls[d].id < nextId'
    BY <2>1 DEF RecipesInv, SavesFresh, RecipesType, R!Ids
  <2>3. recipeCalls[d].id \notin recipesOverlapped =>
           recipes'[recipeCalls[d].id] = recipes[recipeCalls[d].id]
    BY <1>1, <2>1 DEF RecipesInv, RecipesType
  <2>4. QED BY <1>1, <2>1, <2>2, <2>3 DEF RecipesInv, SavesFresh, Differing
<1>6. R!ChangedAsAsked'
  BY <1>1 DEF RecipesInv, RecipesType, R!ChangedAsAsked
<1>7. SavesFresh'
  BY <1>4, <1>5 DEF SavesFresh
<1>8. QED BY <1>2, <1>3, <1>6, <1>7 DEF RecipesInv

\* A save writes the entity that differs from the row, whichever columns it sets.
LEMMA WholeEntity ==
    ASSUME NEW entry \in R!Recipe, NEW entity \in R!Recipe
    PROVE  /\ [f \in Fields |-> IF f \in {g \in Fields : entity[g] # entry[g]}
                                THEN entity[f] ELSE entry[f]] = entity
           /\ {f \in Fields : entity[f] # entry[f]} = {} => entry = entity
BY DEF R!Recipe

\* save() answers: the row becomes what is wanted unless another request is about it.
LEMMA SaveAnswers ==
    ASSUME RecipesInv, NEW c \in Two, SavingRecipe(c), NEW entry \in R!Recipe \cup {None},
           R!Answer(c, recipeCalls[c].id, entry, R!Wanted(c)), nextId' = nextId,
           recipeCalls[c].id \notin recipesOverlapped => entry = recipeCalls[c].entity
    PROVE  RecipesInv'
<1> DEFINE id == recipeCalls[c].id
<1>1. id \in R!Ids /\ id < nextId /\ recipeCalls[c] # None
  BY DEF SavingRecipe, RecipesInv, RecipesType, SavesFresh
<1>2. id \notin recipesOverlapped => entry = R!Wanted(c)
  BY <1>1 DEF RecipesInv, SavesFresh, R!ChangedAsAsked, R!Wanted
<1>3. \A d \in Two \ {c} : SavingRecipe(d) /\ recipeCalls[d].id = id => id \in recipesOverlapped
  BY <1>1, RecipesAssumption DEF RecipesInv, OverlapsKnown, SavingRecipe, RecipesType, SavesFresh
<1>4. nextId \in Nat \ {0} /\ MaxId \in Nat /\ nextId' >= nextId
  BY RecipesAssumption DEF RecipesInv, RecipesType
<1> HIDE DEF id
<1>5. QED BY <1>1, <1>2, <1>3, <1>4, AnswerLemma DEF id

\* Every action keeps the invariant.
LEMMA StepRecipes == RecipesInv /\ [R!Next]_R!vars => RecipesInv'
<1> SUFFICES ASSUME RecipesInv, [R!Next]_R!vars PROVE RecipesInv'
  OBVIOUS
<1>1. CASE UNCHANGED R!vars
  BY <1>1 DEF RecipesInv, RecipesType, OverlapsKnown, SavesFresh, SavingRecipe, Differing,
              R!ChangedAsAsked, R!Waiting, R!vars
<1>2. ASSUME NEW c \in Two, NEW recipe \in R!Recipe, R!Create(c, recipe) PROVE RecipesInv'
  BY <1>2, BeginRecipe DEF R!Create, RecipeWaits, RecipeSaves
<1>3. ASSUME NEW c \in Two, NEW id \in R!Ids, NEW patch \in R!Patches, R!Update(c, id, patch)
      PROVE  RecipesInv'
  BY <1>3, BeginRecipe DEF R!Update, RecipeWaits, RecipeSaves
<1>4. ASSUME NEW c \in Two, NEW id \in R!Ids, R!Remove(c, id) PROVE RecipesInv'
  BY <1>4, BeginRecipe DEF R!Remove, RecipeWaits, RecipeSaves
<1>5. ASSUME NEW c \in Two, R!Inserted(c) PROVE RecipesInv'
  <2>1. /\ recipeCalls[c].body \in R!Recipe /\ nextId \in R!Ids
        /\ R!Answer(c, nextId, recipeCalls[c].body, recipeCalls[c].body) /\ nextId' = nextId + 1
    BY <1>5 DEF R!Inserted, RecipesInv, RecipesType
  <2>2. \A d \in Two : SavingRecipe(d) => recipeCalls[d].id # nextId
    BY RecipesAssumption DEF RecipesInv, SavesFresh, RecipesType, R!Ids
  <2>3. nextId \in Nat \ {0} /\ MaxId \in Nat
    BY RecipesAssumption DEF RecipesInv, RecipesType
  <2>4. QED BY <2>1, <2>2, <2>3, AnswerLemma
<1>6. ASSUME NEW c \in Two, R!Found(c) PROVE RecipesInv'
  BY <1>6, FoundRecipe
<1>7. ASSUME NEW c \in Two, SavingRecipe(c)
      PROVE  LET id == recipeCalls[c].id
                 entity == recipeCalls[c].entity IN
             /\ recipeCalls[c] \in RecipeCall /\ recipeCalls[c] # None
             /\ id \in R!Ids /\ entity \in R!Recipe /\ recipeCalls[c].body \in R!Patches
             /\ recipes[id] \in R!Recipe \cup {None}
             /\ id < nextId
             /\ id \notin recipesOverlapped =>
                   /\ recipes[id] # None
                   /\ entity = R!Merge(recipes[id], recipeCalls[c].body)
  BY <1>7 DEF SavingRecipe, RecipesInv, RecipesType, SavesFresh
<1>8. ASSUME NEW c \in Two, R!FoundToRemove(c) PROVE RecipesInv'
  BY <1>8, RefuseLemma, GotoDeleteLemma DEF R!FoundToRemove
<1>9. ASSUME NEW c \in Two, R!Deleted(c) PROVE RecipesInv'
  <2>1. /\ recipeCalls[c].id \in R!Ids /\ recipeCalls[c] # None
        /\ R!Answer(c, recipeCalls[c].id, None, None)
    BY <1>9 DEF R!Deleted, RecipesInv, RecipesType, R!Waiting
  <2>2. \A d \in Two \ {c} : SavingRecipe(d) /\ recipeCalls[d].id = recipeCalls[c].id =>
            recipeCalls[c].id \in recipesOverlapped
    BY <2>1, RecipesAssumption
       DEF RecipesInv, OverlapsKnown, SavingRecipe, RecipesType, SavesFresh
  <2>3. nextId \in Nat \ {0} /\ MaxId \in Nat /\ nextId' = nextId
    BY RecipesAssumption, <1>9 DEF R!Deleted, RecipesInv, RecipesType
  <2>4. QED BY <2>1, <2>2, <2>3, AnswerLemma
<1>10. ASSUME NEW c \in Two, R!DatabaseFails(c) PROVE RecipesInv'
  BY <1>10, RefuseLemma DEF R!DatabaseFails
<1>11. ASSUME NEW c \in Two, R!Loaded(c) PROVE RecipesInv'
  <2> DEFINE id == recipeCalls[c].id
             entity == recipeCalls[c].entity
             changed == {f \in Fields : entity[f] # recipes[id][f]}
  <2>1. SavingRecipe(c) /\ nextId' = nextId
    BY <1>11 DEF R!Loaded, R!Waiting, SavingRecipe, RecipeSaves
  <2>2. CASE recipes[id] = None
    <3> DEFINE new == [recipeCalls[c] EXCEPT !.at = "reinsert"]
    <3>1. /\ new \in RecipeCall /\ new.at = "reinsert" /\ new.id = id
          /\ new.body = recipeCalls[c].body /\ new.entity = entity
      BY <1>7, <2>1 DEF RecipeCall, RecipeWaits, RecipeSaves
    <3>2. /\ recipeCalls' = [recipeCalls EXCEPT ![c] = new]
          /\ UNCHANGED <<recipes, nextId, book, recipesOverlapped>>
      BY <1>11, <2>2 DEF R!Loaded
    <3> HIDE DEF new
    <3>3. QED BY <1>7, <2>1, <2>2, <3>1, <3>2, SaveGoesOn DEF RecipeSaves
  <2>3. CASE recipes[id] # None /\ changed = {}
    <3>1. R!Answer(c, id, recipes[id], R!Wanted(c))
      BY <1>11, <2>3 DEF R!Loaded
    <3>2. recipes[id] = entity
      BY <1>7, <2>1, <2>3, WholeEntity
    <3>3. QED BY <1>7, <2>1, <3>1, <3>2, SaveAnswers
  <2>4. CASE recipes[id] # None /\ changed # {}
    <3> DEFINE new == [recipeCalls[c] EXCEPT !.at = "update", !.changed = changed]
    <3>1. /\ new \in RecipeCall /\ new.at = "update" /\ new.id = id
          /\ new.body = recipeCalls[c].body /\ new.entity = entity
          /\ new.changed = changed
      BY <1>7, <2>1 DEF RecipeCall, RecipeWaits, RecipeSaves
    <3>2. /\ recipeCalls' = [recipeCalls EXCEPT ![c].at = "update", ![c].changed = changed]
          /\ UNCHANGED <<recipes, nextId, book, recipesOverlapped>>
      BY <1>11, <2>4 DEF R!Loaded
    <3>3. recipeCalls' = [recipeCalls EXCEPT ![c] = new]
      BY <1>7, <2>1, <3>2 DEF RecipesInv, RecipesType
    <3> HIDE DEF new
    <3>4. QED BY <1>7, <2>1, <2>4, <3>1, <3>2, <3>3, SaveGoesOn DEF RecipeSaves
  <2>5. QED BY <2>2, <2>3, <2>4
<1>12. ASSUME NEW c \in Two, R!Updated(c) PROVE RecipesInv'
  <2> DEFINE id == recipeCalls[c].id
             entity == recipeCalls[c].entity
             changed == recipeCalls[c].changed
             updated == [f \in Fields |-> IF f \in changed THEN entity[f] ELSE recipes[id][f]]
             entry == IF recipes[id] = None THEN None ELSE updated
  <2>1. SavingRecipe(c) /\ nextId' = nextId /\ recipeCalls[c].at = "update"
    BY <1>12 DEF R!Updated, R!Waiting, SavingRecipe, RecipeSaves
  <2>2. R!Answer(c, id, entry, R!Wanted(c))
    BY <1>12 DEF R!Updated
  <2>3. entry \in R!Recipe \cup {None}
    BY <1>7, <2>1 DEF R!Recipe
  <2>4. ASSUME id \notin recipesOverlapped
        PROVE  entry = entity
    <3>1. recipes[id] # None /\ changed = {f \in Fields : entity[f] # recipes[id][f]}
      BY <2>1, <2>4 DEF RecipesInv, SavesFresh, Differing
    <3>2. QED BY <1>7, <2>1, <3>1, WholeEntity
  <2> HIDE DEF entry
  <2>5. QED BY <2>1, <2>2, <2>3, <2>4, SaveAnswers
<1>13. ASSUME NEW c \in Two, R!Reinserted(c) PROVE RecipesInv'
  <2>1. /\ SavingRecipe(c) /\ nextId' = nextId
        /\ R!Answer(c, recipeCalls[c].id, recipeCalls[c].entity, R!Wanted(c))
    BY <1>13 DEF R!Reinserted, R!Waiting, SavingRecipe, RecipeSaves
  <2>2. QED BY <1>7, <2>1, SaveAnswers
<1>14. QED
  BY <1>1, <1>2, <1>3, <1>4, <1>5, <1>6, <1>8, <1>9, <1>10, <1>11, <1>12, <1>13
     DEF R!Next


-------------------------------------------------------------------------------
(* Settings. *)

SettingsUpdate == [at : {"find", "insert", "update", "reread"}, settings : Settings]

\* While nothing has overlapped an update, one is at work at most, no page asks
\* meanwhile, and the pages show what it is about to store.
SettingsCurrent ==
    /\ \A u, w \in Two : updates[u] # None /\ updates[w] # None => u = w
    /\ D!Saving => asking = {}
    /\ ~D!Saving => \A p \in Pages : view[p] \in {None, D!Stored}
    /\ \A u \in Two : updates[u] # None =>
          /\ \A p \in Pages : view[p] = updates[u].settings
          /\ updates[u].at = "insert" => row = None
          /\ updates[u].at = "reread" => row = updates[u].settings

SettingsInv ==
    /\ updates \in [Two -> SettingsUpdate \cup {None}]
    /\ view \in [Pages -> Settings \cup {Default, None}]
    /\ row \in Settings \cup {None}
    /\ ~updatesOverlapped => SettingsCurrent

\* One field of an update changes.
LEMMA GotoUpdate ==
    ASSUME SettingsInv, NEW u \in Two, updates[u] # None,
           NEW at \in {"find", "insert", "update", "reread"}, D!Goto(u, at)
    PROVE  /\ updates' \in [Two -> SettingsUpdate \cup {None}]
           /\ updates'[u] # None /\ updates'[u].at = at
           /\ updates'[u].settings = updates[u].settings
           /\ \A w \in Two \ {u} : updates'[w] = updates[w]
           /\ D!Saving /\ D!Saving'
<1> DEFINE new == [updates[u] EXCEPT !.at = at]
<1>1. updates[u] \in SettingsUpdate
  BY DEF SettingsInv
<1>2. new \in SettingsUpdate /\ new.at = at /\ new.settings = updates[u].settings
  BY <1>1 DEF SettingsUpdate
<1>3. updates' = [updates EXCEPT ![u] = new]
  BY DEF D!Goto
<1> HIDE DEF new
<1>4. new # None
  BY <1>2, SettingsAssumption DEF SettingsUpdate
<1>5. QED BY <1>2, <1>3, <1>4 DEF SettingsInv, D!Saving

\* A write reaches the row, whichever kind it is.
LEMMA WriteLemma ==
    ASSUME SettingsInv, NEW u \in Two, D!Write(u)
    PROVE  /\ updates[u] # None /\ updates[u].settings \in Settings
           /\ row' \in Settings \cup {None}
           /\ ~updatesOverlapped => row' = updates[u].settings
BY DEF SettingsInv, SettingsCurrent, D!Write, D!Waiting, SettingsUpdate

LEMMA StepSettings == SettingsInv /\ [D!Next]_D!vars => SettingsInv'
<1> SUFFICES ASSUME SettingsInv, [D!Next]_D!vars PROVE SettingsInv'
  OBVIOUS
<1>1. CASE UNCHANGED D!vars
  BY <1>1 DEF SettingsInv, SettingsCurrent, D!Saving, D!Stored, D!vars
<1>2. ASSUME NEW u \in Two, NEW p \in Pages, NEW s \in Settings, D!HandleUpdateSettings(u, p, s)
      PROVE  SettingsInv'
  <2> DEFINE new == [at |-> "find", settings |-> s]
  <2>1. /\ updates' = [updates EXCEPT ![u] = new] /\ view' = [q \in Pages |-> s]
        /\ UNCHANGED <<row, asking>>
        /\ updatesOverlapped' = (updatesOverlapped \/ D!Saving \/ asking # {})
    BY <1>2 DEF D!HandleUpdateSettings
  <2>2. /\ new \in SettingsUpdate /\ new # None
        /\ new.at = "find" /\ new.settings = s
    BY SettingsAssumption DEF SettingsUpdate
  <2> HIDE DEF new
  <2>3. /\ updates' \in [Two -> SettingsUpdate \cup {None}] /\ updates'[u] = new
        /\ \A w \in Two \ {u} : updates'[w] = updates[w]
        /\ view' \in [Pages -> Settings \cup {Default, None}]
        /\ row' \in Settings \cup {None}
        /\ D!Saving'
    BY <2>1, <2>2 DEF SettingsInv, D!Saving
  <2>4. ASSUME ~updatesOverlapped'
        PROVE  SettingsCurrent'
    <3>1. asking' = {} /\ \A w \in Two \ {u} : updates'[w] = None
      BY <2>1, <2>3, <2>4 DEF D!Saving
    <3>2. QED BY <2>1, <2>2, <2>3, <3>1 DEF SettingsCurrent
  <2>5. QED BY <2>3, <2>4 DEF SettingsInv
<1>3. ASSUME NEW u \in Two, D!Found(u)
      PROVE  SettingsInv'
  <2>1. /\ updates[u] # None /\ D!Goto(u, IF row = None THEN "insert" ELSE "update")
        /\ UNCHANGED <<row, asking, view, updatesOverlapped>>
    BY <1>3 DEF D!Found, D!Waiting
  <2>2. PICK at \in {"insert", "update"} : D!Goto(u, at) /\ (at = "insert" => row = None)
    BY <2>1
  <2>3. QED BY <2>1, <2>2, GotoUpdate DEF SettingsInv, SettingsCurrent
<1>4. ASSUME NEW u \in Two, D!Written(u)
      PROVE  SettingsInv'
  <2>1. D!Write(u) /\ D!Goto(u, "reread") /\ UNCHANGED <<asking, view, updatesOverlapped>>
    BY <1>4 DEF D!Written
  <2>2. QED BY <2>1, WriteLemma, GotoUpdate DEF SettingsInv, SettingsCurrent
<1>5. ASSUME NEW u \in Two, D!Reread(u)
      PROVE  SettingsInv'
  <2>1. /\ updates[u] \in SettingsUpdate /\ updates[u] # None /\ updates[u].at = "reread"
        /\ updates' = [updates EXCEPT ![u] = None]
        /\ UNCHANGED <<row, asking, view, updatesOverlapped>>
    BY <1>5 DEF D!Reread, D!Waiting, SettingsInv
  <2>2. ASSUME ~updatesOverlapped'
        PROVE  SettingsCurrent'
    <3>1. /\ row = updates[u].settings /\ \A p \in Pages : view[p] = updates[u].settings
          /\ \A w \in Two \ {u} : updates[w] = None
      BY <2>1, <2>2 DEF SettingsInv, SettingsCurrent
    <3>2. D!Stored' = updates[u].settings
      BY <2>1, <3>1, SettingsAssumption DEF D!Stored, SettingsUpdate
    <3>3. \A w \in Two : updates'[w] = None
      BY <2>1, <3>1 DEF SettingsInv
    <3>4. QED BY <2>1, <3>1, <3>2, <3>3 DEF SettingsCurrent, D!Saving
  <2>3. QED BY <2>1, <2>2 DEF SettingsInv
<1>6. ASSUME NEW u \in Two, D!UpdateFails(u)
      PROVE  SettingsInv'
  <2>1. /\ \A w \in Two : updates'[w] = None
        /\ \A p \in Pages : view'[p] = None
        /\ updates' \in [Two -> SettingsUpdate \cup {None}]
        /\ view' \in [Pages -> Settings \cup {Default, None}]
    BY <1>6 DEF D!UpdateFails
  <2>2. row' \in Settings \cup {None}
    BY <1>6, WriteLemma DEF D!UpdateFails, SettingsInv
  <2>3. QED BY <2>1, <2>2 DEF SettingsInv, SettingsCurrent, D!Saving
<1>7. ASSUME NEW p \in Pages, D!HandleGetSettings(p)
      PROVE  SettingsInv'
  BY <1>7 DEF D!HandleGetSettings, SettingsInv, SettingsCurrent, D!Saving, D!Stored
<1>8. ASSUME NEW p \in Pages, D!GetSettingsAnswered(p)
      PROVE  SettingsInv'
  <2>1. /\ p \in asking /\ UNCHANGED <<row, updates, updatesOverlapped>>
        /\ asking' = asking \ {p}
        /\ view' = [view EXCEPT ![p] = D!Stored] \/ view' = view
    BY <1>8 DEF D!GetSettingsAnswered
  <2>2. D!Stored \in Settings \cup {Default} /\ D!Stored' = D!Stored /\ D!Saving' = D!Saving
    BY <2>1 DEF SettingsInv, D!Stored, D!Saving
  <2>3. view' \in [Pages -> Settings \cup {Default, None}]
    BY <2>1, <2>2 DEF SettingsInv
  <2>4. ASSUME ~updatesOverlapped'
        PROVE  SettingsCurrent'
    <3>1. ~D!Saving /\ \A q \in Pages : view[q] \in {None, D!Stored}
      BY <2>1, <2>4 DEF SettingsInv, SettingsCurrent
    <3>2. \A q \in Pages : view'[q] \in {None, D!Stored}
      BY <2>1, <3>1 DEF SettingsInv
    <3>3. \A w \in Two : updates[w] = None
      BY <3>1 DEF D!Saving
    <3>4. QED BY <2>1, <2>2, <3>1, <3>2, <3>3 DEF SettingsCurrent
  <2>5. QED BY <2>1, <2>3, <2>4 DEF SettingsInv
<1>9. QED BY <1>1, <1>2, <1>3, <1>4, <1>5, <1>6, <1>7, <1>8 DEF D!Next

-------------------------------------------------------------------------------
(* The ranking of any table. *)

\* Sorting puts row j before row i.
Ahead(h, j, i) ==
    \/ h[j].score > h[i].score
    \/ h[j].score = h[i].score /\ j < i

\* A table is as long as its number of rows, with natural scores.
LEMMA TableLemma ==
    ASSUME NEW h \in Seq(Moorhuhn)
    PROVE  /\ Len(h) \in Nat /\ DOMAIN h = 1..Len(h)
           /\ \A i \in DOMAIN h : h[i] \in Moorhuhn /\ h[i].score \in Nat
           /\ \A i \in DOMAIN h : h[i].name \in Names /\ h[i].score \in Scores
<1>1. Len(h) \in Nat /\ DOMAIN h = 1..Len(h) /\ \A i \in DOMAIN h : h[i] \in Moorhuhn
  OBVIOUS
<1>2. QED BY <1>1, ScoresAssumption DEF Moorhuhn

\* No two rows have the same place, and there are as many places as rows.
LEMMA PlaceLemma ==
    ASSUME NEW h \in Seq(Moorhuhn)
    PROVE  /\ \A i \in DOMAIN h : Place(h, i) \in DOMAIN h
           /\ \A i, j \in DOMAIN h : Ahead(h, i, j) => Place(h, i) < Place(h, j)
<1> DEFINE n == Len(h)
           Before(i) == {j \in DOMAIN h : Ahead(h, j, i)}
<1>1. n \in Nat /\ DOMAIN h = 1..n /\ \A i \in DOMAIN h : i \in Nat /\ h[i].score \in Nat
  BY TableLemma
<1>2. IsFiniteSet(DOMAIN h) /\ Cardinality(DOMAIN h) = n
  <2>1. IsFiniteSet(1..n) /\ Cardinality(1..n) = IF 1 > n THEN 0 ELSE n - 1 + 1
    BY <1>1, FS_Interval
  <2>2. QED BY <1>1, <2>1
<1>3. ASSUME NEW i \in DOMAIN h
      PROVE  /\ IsFiniteSet(Before(i)) /\ Cardinality(Before(i)) \in Nat
             /\ Place(h, i) = 1 + Cardinality(Before(i))
  <2>1. IsFiniteSet(Before(i))
    BY <1>2, FS_Subset
  <2>2. Cardinality(Before(i)) \in Nat
    BY <2>1, FS_CardinalityType
  <2>3. QED BY <2>1, <2>2 DEF Place, Ahead
<1>4. ASSUME NEW i \in DOMAIN h
      PROVE  Place(h, i) \in DOMAIN h
  <2>1. Before(i) \subseteq DOMAIN h \ {i}
    BY <1>1 DEF Ahead
  <2>2. IsFiniteSet(DOMAIN h \ {i}) /\ Cardinality(DOMAIN h \ {i}) = n - 1
    BY <1>2, FS_RemoveElement
  <2>3. Cardinality(Before(i)) <= n - 1
    BY <2>1, <2>2, FS_Subset
  <2>4. Cardinality(Before(i)) \in Nat /\ Place(h, i) = 1 + Cardinality(Before(i))
    BY <1>3
  <2> HIDE DEF Before
  <2>5. QED BY <1>1, <2>3, <2>4
<1>5. ASSUME NEW i \in DOMAIN h, NEW j \in DOMAIN h, Ahead(h, i, j)
      PROVE  Place(h, i) < Place(h, j)
  <2>1. Before(i) \subseteq Before(j) /\ i \in Before(j) /\ i \notin Before(i)
    BY <1>1, <1>5 DEF Ahead
  <2>2. /\ Cardinality(Before(i)) <= Cardinality(Before(j))
        /\ Cardinality(Before(i)) # Cardinality(Before(j))
    BY <1>3, <2>1, FS_Subset
  <2>3. /\ Cardinality(Before(i)) \in Nat /\ Place(h, i) = 1 + Cardinality(Before(i))
        /\ Cardinality(Before(j)) \in Nat /\ Place(h, j) = 1 + Cardinality(Before(j))
    BY <1>3
  <2> HIDE DEF Before
  <2>4. QED BY <2>2, <2>3
<1>6. QED BY <1>4, <1>5

\* Sorted is the table in another order, the highest scores first.
SortedBy(h, pos) ==
    /\ pos \in Bijection(DOMAIN h, DOMAIN h)
    /\ DOMAIN Sorted(h) = DOMAIN h
    /\ \A p \in DOMAIN h : Sorted(h)[p] = h[pos[p]]
    /\ \A p, k \in DOMAIN h : p < k => h[pos[k]].score <= h[pos[p]].score

LEMMA SortedLemma ==
    ASSUME NEW h \in Seq(Moorhuhn)
    PROVE  \E pos : SortedBy(h, pos)
<1> DEFINE rows == DOMAIN h
           place == [i \in rows |-> Place(h, i)]
           pos == [p \in rows |-> CHOOSE i \in rows : Place(h, i) = p]
<1>1. Len(h) \in Nat /\ rows = 1..Len(h) /\ \A i \in rows : i \in Nat /\ h[i].score \in Nat
  BY TableLemma
<1>2. IsFiniteSet(rows)
  BY <1>1, FS_Interval
<1>3. /\ \A i \in rows : Place(h, i) \in rows
      /\ \A i, j \in rows : Ahead(h, i, j) => Place(h, i) < Place(h, j)
  BY PlaceLemma
<1>4. \A i, j \in rows : i = j \/ Ahead(h, i, j) \/ Ahead(h, j, i)
  BY <1>1 DEF Ahead
<1>5. \A i, j \in rows : Place(h, i) = Place(h, j) => i = j
  BY <1>1, <1>3, <1>4
<1>6. place \in Injection(rows, rows)
  BY <1>3, <1>5, Fun_IsInj
<1>7. place \in Surjection(rows, rows)
  BY <1>2, <1>6, FS_Injection
<1>8. \A p \in rows : \E i \in rows : Place(h, i) = p
  BY <1>7, Fun_SurjectionProperties
<1>9. /\ pos \in [rows -> rows]
      /\ \A p \in rows : Place(h, pos[p]) = p
  BY <1>8
<1>10. \A i \in rows : pos[Place(h, i)] = i
  BY <1>3, <1>5, <1>9
<1>11. pos \in Bijection(rows, rows)
  BY <1>3, <1>9, <1>10, Fun_IsBij
<1>12. DOMAIN Sorted(h) = rows /\ \A p \in rows : Sorted(h)[p] = h[pos[p]]
  BY DEF Sorted
<1>13. ASSUME NEW p \in rows, NEW k \in rows, p < k
       PROVE  h[pos[k]].score <= h[pos[p]].score
  <2>1. ~ Ahead(h, pos[k], pos[p])
    BY <1>1, <1>3, <1>9, <1>13
  <2>2. QED BY <1>1, <1>9, <2>1 DEF Ahead
<1>14. SortedBy(h, pos)
  BY <1>11, <1>12, <1>13 DEF SortedBy
<1>15. QED BY <1>14

\* What the loop of sortHighScore counts: the places of higher scores.
Higher(q, p) == {k \in DOMAIN q : q[k].score > q[p].score}

\* The equation that defines Ranks.
IsRank(q, r) ==
    r = [i \in DOMAIN q |->
            IF i = 1 THEN 1
            ELSE IF q[i - 1].score = q[i].score THEN r[i - 1] ELSE i]

\* In a sorted table the counter of the loop is one more than the number of higher
\* scores.
LEMMA RanksLemma ==
    ASSUME NEW q, NEW n \in Nat, DOMAIN q = 1..n, \A p \in 1..n : q[p].score \in Nat,
           \A p, k \in 1..n : p < k => q[k].score <= q[p].score
    PROVE  \A p \in 1..n : Ranks(q)[p] = 1 + Cardinality(Higher(q, p))
<1> DEFINE count == [p \in DOMAIN q |-> 1 + Cardinality(Higher(q, p))]
<1>1. IsRank(q, count)
  <2>1. ASSUME NEW p \in DOMAIN q
        PROVE  count[p] = IF p = 1 THEN 1
                          ELSE IF q[p - 1].score = q[p].score THEN count[p - 1] ELSE p
    <3>1. CASE p = 1
      <4>1. \A k \in 1..n : k = 1 \/ 1 < k
        OBVIOUS
      <4>2. Higher(q, p) = {}
        BY <3>1, <4>1 DEF Higher
      <4>3. Cardinality(Higher(q, p)) = 0
        BY <4>2, FS_EmptySet
      <4>4. QED BY <3>1, <4>3
    <3>2. CASE p # 1
      <4>1. p \in Nat /\ p - 1 \in DOMAIN q /\ p - 1 < p
        BY <3>2
      <4>2. CASE q[p - 1].score = q[p].score
        <5>1. Higher(q, p) = Higher(q, p - 1)
          BY <4>2 DEF Higher
        <5>2. QED BY <3>2, <4>1, <4>2, <5>1
      <4>3. CASE q[p - 1].score # q[p].score
        <5>1. ASSUME NEW k \in 1..(p - 1)
              PROVE  k \in Higher(q, p)
          <6>1. k \in 1..n /\ q[k].score >= q[p - 1].score
            BY <4>1
          <6>2. q[p - 1].score > q[p].score
            BY <4>1, <4>3
          <6>3. QED BY <4>1, <6>1, <6>2 DEF Higher
        <5>2. ASSUME NEW k \in Higher(q, p)
              PROVE  k \in 1..(p - 1)
          <6>1. k \in 1..n /\ q[k].score > q[p].score
            BY DEF Higher
          <6>2. ~ (p < k) /\ p # k
            BY <6>1
          <6>3. QED BY <4>1, <6>1, <6>2
        <5>3. Higher(q, p) = 1..(p - 1)
          BY <5>1, <5>2
        <5>4. Cardinality(Higher(q, p)) = p - 1
          BY <4>1, <5>3, FS_Interval
        <5>5. QED BY <3>2, <4>1, <4>3, <5>4
      <4>4. QED BY <4>2, <4>3
    <3>3. QED BY <3>1, <3>2
  <2> DEFINE next(r) == [i \in DOMAIN q |->
                 IF i = 1 THEN 1
                 ELSE IF q[i - 1].score = q[i].score THEN r[i - 1] ELSE i]
  <2>2. DOMAIN count = DOMAIN q /\ \A p \in DOMAIN q : count[p] = next(count)[p]
    BY <2>1
  <2>3. count = next(count)
    BY <2>2
  <2>4. QED BY <2>3 DEF IsRank
<1>2. Ranks(q) = CHOOSE r : IsRank(q, r)
  BY DEF Ranks, IsRank
<1>3. IsRank(q, Ranks(q))
  BY <1>1, <1>2
<1> HIDE DEF count
<1>4. ASSUME NEW r, IsRank(q, r), NEW i \in 1..n, r[i] # count[i]
      PROVE  FALSE
  <2> DEFINE wrong == {p \in 1..n : r[p] # count[p]}
  <2>1. PICK least \in wrong : \A p \in wrong : least <= p
    <3>1. wrong \in SUBSET Nat /\ wrong # {}
      BY <1>4
    <3> HIDE DEF wrong
    <3> DEFINE less == {ss \in Nat \X Nat : ss[1] < ss[2]}
    <3>2. IsWellFoundedOn(less, Nat)
      BY NatLessThanWellFounded DEF OpToRel
    <3> HIDE DEF less
    <3>3. PICK least \in wrong : \A p \in wrong : <<p, least>> \notin less
      BY <3>1, <3>2, WFMin, Zenon
    <3>4. \A p \in wrong : least \in Nat /\ p \in Nat /\ ~(p < least)
      BY <3>1, <3>3 DEF less
    <3>5. QED BY <3>4
  <2>2. least \in 1..n /\ least \in DOMAIN q
    OBVIOUS
  <2>3. CASE least = 1
    <3>1. r[1] = 1 /\ count[1] = 1
      BY <1>1, <1>4, <2>2, <2>3 DEF IsRank
    <3>2. QED BY <2>3, <3>1
  <2>4. CASE least # 1
    <3>1. least - 1 \in 1..n /\ least - 1 < least
      BY <2>2, <2>4
    <3>2. r[least - 1] = count[least - 1]
      BY <2>1, <2>2, <3>1
    <3>3. r[least] = IF q[least - 1].score = q[least].score THEN r[least - 1] ELSE least
      BY <1>4, <2>2, <2>4 DEF IsRank
    <3>4. count[least] =
            IF q[least - 1].score = q[least].score THEN count[least - 1] ELSE least
      BY <1>1, <2>2, <2>4 DEF IsRank
    <3>5. QED BY <3>2, <3>3, <3>4
  <2>5. QED BY <2>3, <2>4
<1>5. \A p \in 1..n : Ranks(q)[p] = count[p]
  BY <1>3, <1>4
<1>6. QED BY <1>5 DEF count

\* As many places of the sorted table as rows of the table have some property.
LEMMA SameCount ==
    ASSUME NEW rows, NEW pos \in Bijection(rows, rows), IsFiniteSet(rows),
           NEW some \in SUBSET rows
    PROVE  Cardinality({p \in rows : pos[p] \in some}) = Cardinality(some)
<1> DEFINE places == {p \in rows : pos[p] \in some}
           map == [p \in places |-> pos[p]]
<1>1. /\ pos \in [rows -> rows]
      /\ \A a, b \in rows : pos[a] = pos[b] => a = b
      /\ \A t \in rows : \E s \in rows : pos[s] = t
  BY Fun_BijectionProperties
<1>2. map \in [places -> some] /\ \A a, b \in places : map[a] = map[b] => a = b
  BY <1>1
<1>3. \A t \in some : \E s \in places : map[s] = t
  BY <1>1
<1>4. map \in Bijection(places, some)
  BY <1>2, <1>3, Fun_IsBij
<1>5. IsFiniteSet(places)
  BY FS_Subset
<1>6. ExistsBijection(places, some)
  BY <1>4 DEF ExistsBijection
<1> HIDE DEF places
<1>7. Cardinality(some) = Cardinality(places)
  BY <1>5, <1>6, FS_Bijection
<1>8. QED BY <1>7 DEF places

-------------------------------------------------------------------------------
(* The services together: a behaviour is about one of them. *)

TablesInv ==
    /\ Inv
    /\ RecipesInv
    /\ SettingsInv
    /\ about = "scores one by one" => OneByOneInv

LEMMA TablesInductive == MCSpec => []TablesInv
<1>1. Init => Inv /\ OneByOneInv
  BY DEF Init, Inv, TypeOK, NeverBelowFirst, UpdatesImprove, Waiting, OneByOneInv,
         OneCall, BestScoreKept
<1>2. R!Init => RecipesInv
  BY DEF R!Init, RecipesInv, RecipesType, OverlapsKnown, SavesFresh, SavingRecipe,
         R!ChangedAsAsked, R!Waiting
<1>3. D!Init => SettingsInv
  BY DEF D!Init, SettingsInv, SettingsCurrent, D!Saving, D!Stored
<1>4. MCInit => TablesInv
  BY <1>1, <1>2, <1>3 DEF MCInit, TablesInv
<1>5. TablesInv /\ [MCNext]_mcvars => TablesInv'
  <2> SUFFICES ASSUME TablesInv, [MCNext]_mcvars PROVE TablesInv'
    OBVIOUS
  <2>1. [Next]_vars /\ [R!Next]_R!vars /\ [D!Next]_D!vars /\ UNCHANGED about
    BY DEF MCNext, recipeVars, settingsVars, mcvars, R!vars, D!vars
  <2>2. Inv' /\ RecipesInv' /\ SettingsInv'
    BY <2>1, StepInv, StepRecipes, StepSettings DEF TablesInv
  <2>3. ASSUME about = "scores one by one"
        PROVE  OneByOneInv'
    <3>1. OneCall'
      BY <2>3 DEF TablesInv, OneByOneInv, OneCall, MCNext, mcvars, vars
    <3>2. QED BY <2>1, <2>3, <3>1, StepOneByOne DEF TablesInv
  <2>4. QED BY <2>1, <2>2, <2>3 DEF TablesInv
<1>6. QED BY <1>4, <1>5, PTL DEF MCSpec

\* With one save at a time a player has one row, and no save that was answered is
\* lost (saveNewHighscore).
THEOREM BestScoreIsKept == MCSpec => []BestScoreKeptOneByOne
<1>1. TablesInv => BestScoreKeptOneByOne
  BY DEF TablesInv, OneByOneInv, BestScoreKeptOneByOne
<1>2. QED BY <1>1, TablesInductive, PTL

\* A recipe that no two requests were about at once is what the answered requests
\* made of it (create, update, remove).
THEOREM NothingElseChanges == MCSpec => []ChangedAsAsked
<1>1. TablesInv => ChangedAsAsked
  BY DEF TablesInv, RecipesInv, ChangedAsAsked
<1>2. QED BY <1>1, TablesInductive, PTL

\* Unless requests overlap an update, all pages show what is stored, also after a
\* failed query has ended the process (handleUpdateSettings).
THEOREM PagesAgree == MCSpec => []PagesShowStored
<1>1. TablesInv => PagesShowStored
  BY DEF TablesInv, SettingsInv, SettingsCurrent, PagesShowStored, D!PagesShowStored
<1>2. QED BY <1>1, TablesInductive, PTL

\* The list that is answered has every row once, the highest score first, with its
\* rank, whatever the table (sortHighScore).
THEOREM StandardRanks == MCSpec => []RanksAreStandard
<1>1. ASSUME repo \in Seq(Moorhuhn)
      PROVE  RanksAreStandard
  <2> DEFINE rows == DOMAIN repo
             q == Sorted(repo)
             h == SortHighScore(repo)
  <2>1. PICK pos : SortedBy(repo, pos)
    BY <1>1, SortedLemma
  <2>2. /\ pos \in Bijection(rows, rows) /\ pos \in [rows -> rows]
        /\ DOMAIN q = rows /\ \A p \in rows : q[p] = repo[pos[p]]
        /\ \A p, k \in rows : p < k => q[k].score <= q[p].score
    BY <2>1, Fun_BijectionProperties DEF SortedBy
  <2>3. /\ Len(repo) \in Nat /\ rows = 1..Len(repo)
        /\ \A i \in rows : i \in Nat /\ repo[i].score \in Nat
    BY <1>1, TableLemma
  <2>4. IsFiniteSet(rows)
    <3>1. IsFiniteSet(1..Len(repo))
      BY <2>3, FS_Interval
    <3>2. QED BY <2>3, <3>1
  <2>5. \A p \in rows : q[p].score \in Nat
    BY <2>2, <2>3
  <2> HIDE DEF q
  <2>6. \A p \in rows : Ranks(q)[p] = 1 + Cardinality(Higher(q, p))
    BY <2>2, <2>3, <2>5, RanksLemma
  <2>7. /\ DOMAIN h = rows
        /\ \A p \in rows : /\ h[p].rank = Ranks(q)[p]
                           /\ h[p].name = q[p].name /\ h[p].score = q[p].score
    BY <2>2 DEF SortHighScore, q
  <2> HIDE DEF h
  <2>8. ASSUME NEW i \in DOMAIN h
        PROVE  h[i].rank = 1 + Cardinality({j \in rows : repo[j].score > h[i].score})
    <3> DEFINE better == {j \in rows : repo[j].score > h[i].score}
    <3>1. Higher(q, i) = {p \in rows : pos[p] \in better}
      BY <2>2, <2>7 DEF Higher
    <3> HIDE DEF better
    <3>2. better \in SUBSET rows
      BY DEF better
    <3>3. Cardinality(Higher(q, i)) = Cardinality(better)
      BY <2>2, <2>4, <3>1, <3>2, SameCount
    <3>4. QED BY <2>6, <2>7, <3>3 DEF better
  <2>9. \A i, j \in DOMAIN h : j > i => h[j].score <= h[i].score
    BY <2>2, <2>3, <2>7
  <2>10. ASSUME NEW n \in Names, NEW s \in Scores
         PROVE  Cardinality({i \in DOMAIN h : h[i].name = n /\ h[i].score = s})
                  = Cardinality({i \in rows : repo[i].name = n /\ repo[i].score = s})
    <3> DEFINE same == {i \in rows : repo[i].name = n /\ repo[i].score = s}
    <3>1. {i \in DOMAIN h : h[i].name = n /\ h[i].score = s} = {p \in rows : pos[p] \in same}
      BY <2>2, <2>7
    <3> HIDE DEF same
    <3>2. same \in SUBSET rows
      BY DEF same
    <3>3. Cardinality({p \in rows : pos[p] \in same}) = Cardinality(same)
      BY <2>2, <2>4, <3>2, SameCount
    <3>4. QED BY <3>1, <3>3 DEF same
  <2>11. QED BY <2>8, <2>9, <2>10 DEF RanksAreStandard, h
<1>2. TablesInv => RanksAreStandard
  BY <1>1 DEF TablesInv, Inv, TypeOK
<1>3. QED BY <1>2, TablesInductive, PTL
===============================================================================
