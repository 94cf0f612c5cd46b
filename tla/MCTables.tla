-------------------------------- MODULE MCTables --------------------------------
(* Model-checking instances of the services that share one database and nothing   *)
(* else: HighScores, Recipes and DifficultySettings.  A behaviour is about one of  *)
(* them; in half of those about HighScores one request is at work at a time and     *)
(* all names play, in the other half requests for one name overlap.                 *)
EXTENDS HighScores, TLC

CONSTANTS
    FirstName,    \* the one that is used when requests overlap
    Two,          \* two of the Calls, for the other services
    Fields, Values, MaxId,
    Pages, Settings, Default

VARIABLES
    recipes, nextId, recipeCalls, book, recipesOverlapped,
    row, updates, asking, view, updatesOverlapped,
    about         \* which service the behaviour is about; it never changes

R == INSTANCE Recipes WITH repo <- recipes, calls <- recipeCalls,
                           overlapped <- recipesOverlapped, Calls <- Two

D == INSTANCE DifficultySettings WITH Updates <- Two, overlapped <- updatesOverlapped

ASSUME RecipesAssumption == None \notin R!Recipe \cup R!Ids /\ MaxId \in Nat

ASSUME SettingsAssumption ==
    /\ None \notin Settings
    /\ None \notin [at : {"find", "insert", "update", "reread"}, settings : Settings]

recipeVars == <<recipes, nextId, recipeCalls, book, recipesOverlapped>>

settingsVars == <<row, updates, asking, view, updatesOverlapped>>

mcvars == <<vars, recipeVars, settingsVars, about>>

OneCall == \A b, c \in Calls : calls[b] # None /\ calls[c] # None => b = c

MCInit ==
    /\ Init /\ R!Init /\ D!Init
    /\ about \in {"scores", "scores one by one", "recipes", "settings"}

MCNext ==
    /\ \/ /\ about \in {"scores", "scores one by one"}
          /\ Next
          /\ IF about = "scores" THEN \A c \in Calls : calls'[c] # None => calls'[c].name = FirstName
             ELSE OneCall'
          /\ UNCHANGED <<recipeVars, settingsVars>>
       \/ about = "recipes" /\ R!Next /\ UNCHANGED <<vars, settingsVars>>
       \/ about = "settings" /\ D!Next /\ UNCHANGED <<vars, recipeVars>>
    /\ UNCHANGED about

MCSpec == MCInit /\ [][MCNext]_mcvars

Symmetry == Permutations(Calls) \cup Permutations(Two)

-------------------------------------------------------------------------------

\* With one request at a time: a player has one row, and it holds at least every
\* score whose save was answered (saveNewHighscore).
BestScoreKeptOneByOne == about = "scores one by one" => BestScoreKept

\* A recipe is what the answered requests about it made of it, unless two of them
\* overlapped (create, update, remove of RecipesService).
ChangedAsAsked == R!ChangedAsAsked

\* Pages and table agree about the settings of Math4Lisa when no save is under way
\* and none has overlapped another request (handleUpdateSettings).
PagesShowStored == D!PagesShowStored
===============================================================================
