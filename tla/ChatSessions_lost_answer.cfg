SPECIFICATION MCSpec
CONSTANTS
    None = None
    Sids = {1}
    Questions = {1, 2}
    MaxSessions = 1
    TTL = 1
PROPERTIES
    AnswersKept
\* When all questions are answered and every chat is forgotten, nothing is left to do.
CHECK_DEADLOCK FALSE
