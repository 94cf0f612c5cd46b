SPECIFICATION MCFairSpec
CONSTANTS
    Events = {e1, e2}
    e1 = e1
    e2 = e2
    Done = Done
    Error = Error
    Ping = Ping
    NL = NL
    MaxEvents = 3
    MaxPings = 1
    MaxChunks = 8
INVARIANTS
    LastWord
PROPERTIES
    PipeSpec
    EveryStreamEnds
    EverySpeechAnswered
CHECK_DEADLOCK FALSE
