CONSTANTS
    allow1 = allow1
    allow2 = allow2
    deny1 = deny1
    deny2 = deny2
    approve1 = approve1
    approve2 = approve2
    bad1 = bad1
    other1 = other1
    note1 = note1
    Calls = {allow1, approve1, approve2}
    Others = {}
    Id <- MCId
    Ids <- MCIds
    NoId = NoId
    Decision <- MCDecision
    Rules <- MCRules
    Failing = {}
    Fates = {"plain"}
    ServerAsks = {}
    ServerDies = FALSE
    ProxyDies = FALSE
    HighWater = 1
    MaxSessions = 1
    Proxy = Proxy
    None = None
    NoHash = NoHash
    Closed = Closed
    Garbage = Garbage
    Raised = {}
    Torn = {}
    User = User
    Ttys = {TRUE, FALSE}
    TypesLate = TRUE
SPECIFICATION Spec
INVARIANTS ApprovedByItsAnswer
CHECK_DEADLOCK FALSE
