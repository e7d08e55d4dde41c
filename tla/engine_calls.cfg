\* One agent, two tasks in one or two sessions, a changing cap, an agent that is
\* switched off and on, every kind of call.
CONSTANTS
    Agent = {a1}
    Session = {1, 2}
    Task = {1, 2}
    Call = {1, 2}
    NoAgent = NoAgent
    NoSession = NoSession
    NoTask = NoTask
    MaxSteps = 2
    MaxRetries = 1
    MaxDepth = 1
    MaxSessionTasks = 2
    Caps = {1, 2}
    TurnLimited = {a1}
    Permitted = {}
    Replies = {"rejected", "noted", "raises", "final_answer", "http_read", "http_write", "sql", "body", "await_human"}
    Toggled = {a1}
    MaxRaises = 1
SPECIFICATION Spec
INVARIANTS
    CallsInStep
    TurnBudget
    ApprovalReleases
PROPERTIES
    TerminalFinal
    LostWritePauses
    CapOnGrowth
