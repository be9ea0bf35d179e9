CONSTANTS
    allow1 = allow1
    allow2 = allow2
    deny1 = deny1
    deny2 = deny2
    approve1 = approve1
    approve2 = approve2
    bad1 = bad1
    other1 = other1
    note1 = note1
    Calls = {allow1, allow2, deny1}
    Others = {}
    Id <- MCId
    Ids <- MCIds
    NoId = NoId
    Decision <- MCDecision
    Rules <- MCRules
    Failing = {}
    Fates = {"plain"}
    ServerAsks = {}
    ServerDies = TRUE
    ProxyDies = TRUE
    HighWater = 1
    MaxSessions = 2
    Proxy = Proxy
    None = None
    NoHash = NoHash
    Closed = Closed
    Garbage = Garbage
    Raised = {}
    Torn = {"nothing", "prefix", "line"}
    User = User
    Ttys = {TRUE, FALSE}
    TypesLate = FALSE
SPECIFICATION Spec
INVARIANTS LogLinkedButTail
PROPERTIES LogIsChain KeepsPromises
CHECK_DEADLOCK FALSE
