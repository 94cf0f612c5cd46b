SPECIFICATION Spec
CONSTANTS
    Numbers = {1, 2, 3}
    Languages = {de, en}
    de = de
    en = en
    DefaultLanguage = de
    Unknown = Unknown
    DefaultCount = 1
    MaxCount = 2
    MaxNumbers = 3
    NaN = NaN
    Counts <- MCCounts
    Parts <- MCParts
INVARIANTS
    AnswersFollowRequest
PROPERTIES
    RoundSizeFits
    SwitchKeepsRound
