CONSTANTS
    MaxTurns <- Turns
    MaxRetries = 2
    MaxToolCalls = 3
    MaxCalls = 2
    PostRetries = 1
SPECIFICATION FairSpec
INVARIANTS
    ToolBudgetHolds
    RequestIsWellFormed
PROPERTIES
    Ends
