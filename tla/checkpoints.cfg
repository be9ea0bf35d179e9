CONSTANTS
    Handlers = {h1, h2}
    Checkpointers = {c1}
    RunIds = {r1, r2}
    None = None
    MaxRequests = 6
    NoHash = NoHash
    Free = Free
SPECIFICATION Spec
INVARIANTS TypeOK CoveredOnce RootsMatchChain RunsMatchTrail WaitsAreBroken
PROPERTIES EveryRequestReturns
CHECK_DEADLOCK FALSE
