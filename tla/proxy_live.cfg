CONSTANTS
    allow1 = allow1
    allow2 = allow2
    deny1 = deny1
    deny2 = deny2
    approve1 = approve1
    approve2 = approve2
    bad1 = bad1
    other1 = other1
    note1 = note1
    Calls = {allow1, approve1, bad1}
    Others = {other1, note1}
    Id <- MCId
    Ids <- MCIds
    NoId = NoId
    Decision <- MCDecision
    Rules <- MCRules
    Failing = {bad1}
    Fates = {"plain", "unhashable", "oversize"}
    ServerAsks = {}
    ServerDies = TRUE
    ProxyDies = FALSE
    HighWater = 0
    MaxSessions = 1
    Proxy = Proxy
    None = None
    NoHash = NoHash
    Closed = Closed
    Garbage = Garbage
    Raised = {"nothing", "line"}
    Torn = {}
    User = User
    Ttys = {TRUE, FALSE}
    TypesLate = FALSE
SPECIFICATION FairSpec
INVARIANTS ReceiptBeforeAnswer
PROPERTIES RequestsEnd SessionEnds
CHECK_DEADLOCK FALSE
