CONSTANTS
    Undecided = Undecided
    Raised = Raised
    Rules <- MCRules
    MaxRules = 2
    Calls <- MCCalls
SPECIFICATION Spec
INVARIANTS TypeOK FirstMatchWins WellTypedNeverRaises
CHECK_DEADLOCK FALSE
