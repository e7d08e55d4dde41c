\* One schedule, created, edited, paused, fired and deleted at will, two
\* sessions of it, and fn_pump called at any time or never.
CONSTANTS
    Schedule = {s1}
    Run = {1, 2}
    NoSchedule = NoSchedule
    Intervals = {1, 2}
    RunLimits = {2}
    CostLimits = {2}
    Costs = {1}
    Dates = {0, 2}
    NoLimit = NoLimit
    MaxTime = 2
    MaxAnswers = 1
SPECIFICATION Spec
INVARIANTS
    CostConserved
PROPERTIES
    ActiveHasBudget
    NoRunPastLimit
    NoBurst
