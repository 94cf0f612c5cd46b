SPECIFICATION MCFairSpec
CONSTANTS
    None = None
    Sids = {1, 2, 3}
    Questions = {1, 2, 3, 4}
    MaxSessions = 2
    TTL = 1
INVARIANTS
    TypeOK
    HistoriesAreDialogues
PROPERTIES
    AnswersKeptWhenWaiting
    OldestDroppedFirst
    EveryChatIsForgotten
\* When all questions are answered and every chat is forgotten, nothing is left to do.
CHECK_DEADLOCK FALSE
