SPECIFICATION MCSpec
CONSTANTS
    None = None
    Chat = Chat
    ChatDay = ChatDay
    Other = Other
    OtherKeys <- MCOtherKeys
    Limit <- MCLimit
    Window <- MCWindow
    Horizon = 8
    Addresses = {a1, a2}
    a1 = a1
    a2 = a2
    Unknown = Unknown
    Blank = Blank
    MaxEntries = 3
    Calls = {q1, q2, q3, q4, q5, q6}
    q1 = q1
    q2 = q2
    q3 = q3
    q4 = q4
    q5 = q5
    q6 = q6
SYMMETRY Symmetry
INVARIANTS
    WindowBound
    DayCountsAnsweredQuestions
    CountedUnderOwnAddress
PROPERTIES
    AsIfNothingForgotten
\* The model stops at its horizon.
CHECK_DEADLOCK FALSE
