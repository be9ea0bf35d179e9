CONSTANTS
    Workers = {w1, w2}
    Calls <- MCCalls
    Supported <- MCSupported
    Documents <- MCDocuments
    InitialPolicies <- MCPolicies
    None = None
    Failures = TRUE
    MaxJobs = 4
    NoHash = NoHash
    Free = Free
    Jumps = {1}
SPECIFICATION Spec
INVARIANTS TypeOK ExecutedOnlyIfPermitted TrailWhole DecidedStatusMatchesTrail LedgerVerifies PolicyInForce NoDeadlock
PROPERTIES EveryHandlerReturns
CHECK_DEADLOCK FALSE
