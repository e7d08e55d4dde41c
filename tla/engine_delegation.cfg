\* Two agents that delegate to each other, one session: chains, two children of
\* one parent, follow-up turns.
CONSTANTS
    Agent = {a1, a2}
    Session = {1}
    Task = {1, 2, 3, 4}
    Call = {1}
    NoAgent = NoAgent
    NoSession = NoSession
    NoTask = NoTask
    MaxSteps = 3
    MaxRetries = 0
    MaxDepth = 2
    MaxSessionTasks = 3
    Caps = {1}
    TurnLimited = {}
    Permitted <- MutualPermission
    Replies = {"final_answer", "delegate", "delegate_wait", "await_children"}
    Toggled = {}
    MaxRaises = 0
SYMMETRY AgentSymmetry
SPECIFICATION Spec
INVARIANTS
    SessionTracksTasks
    DelegationChain
PROPERTIES
    ResumesForReason
