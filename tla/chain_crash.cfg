CONSTANTS
    Writers = {w1, w2}
    MaxKeys = 2
    MaxAppends = 4
    Bodies = {1, 2}
    NoHash = NoHash
    Closed = Closed
    Garbage = Garbage
    NoKey = NoKey
    Raised = {"nothing"}
    Torn = {"nothing", "prefix", "line"}
    OneWriter = TRUE
SPECIFICATION CommandSpec
INVARIANTS TypeOK ChainLinkedButTail CacheIsTail RefusedForCause
PROPERTIES AppendOnly
CHECK_DEADLOCK FALSE
