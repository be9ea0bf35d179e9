CONSTANTS
    Workers = {w1, w2}
    Calls <- MCCalls
    Supported <- MCSupported
    Documents <- MCCarefulOnly
    InitialPolicies <- MCCarefulPolicies
    None = None
    Failures = FALSE
    MaxJobs = 3
    NoHash = NoHash
    Free = Free
    Jumps = {1}
SPECIFICATION Spec
INVARIANTS DecidedOnce
CHECK_DEADLOCK FALSE
