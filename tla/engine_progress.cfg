\* Two tasks of two sessions, or a parent and a child of different agents; caps
\* that are lowered and raised, one agent with a turn limit, a reply that throws.
CONSTANTS
    Agent = {a1, a2}
    Session = {1, 2}
    Task = {1, 2}
    Call = {1, 2}
    NoAgent = NoAgent
    NoSession = NoSession
    NoTask = NoTask
    MaxSteps = 2
    MaxRetries = 0
    MaxDepth = 1
    MaxSessionTasks = 2
    Caps = {1, 2}
    TurnLimited = {a2}
    Permitted <- MutualPermission
    Replies = {"final_answer", "delegate_wait", "await_children", "raises"}
    Toggled = {}
    MaxRaises = 1
SPECIFICATION FairSpec
PROPERTIES
    SessionsClose
    ClaimsResolve
    RunningAdvances
