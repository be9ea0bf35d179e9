CONSTANTS
    w1 = w1
    w2 = w2
    w3 = w3
    o1 = o1
    o2 = o2
    MaxLines = 4
    Logs <- MCLogs
    hash <- MCHash
    prev <- MCPrev
    NoHash = NoHash
    Altered = Altered
    Garbage = Garbage
    Uncanonical = Uncanonical
    Blank = Blank
    Files <- MCFiles
SPECIFICATION Spec
INVARIANTS TypeOK AcceptedIsPrefix ValidIffLinked FailsAtFirstBadLine
CHECK_DEADLOCK FALSE
