CONSTANTS
    Writers = {w1, w2}
    MaxKeys = 1
    MaxAppends = 4
    Bodies = {1}
    NoHash = NoHash
    Closed = Closed
    Garbage = Garbage
    NoKey = NoKey
    Raised = {}
    Torn = {}
    OneWriter = FALSE
SPECIFICATION CommandSpec
INVARIANTS ChainLinked
CHECK_DEADLOCK FALSE
