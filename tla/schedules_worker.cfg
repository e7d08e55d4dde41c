\* Only the worker runs.
CONSTANTS
    Schedule = {s1}
    Run = {1}
    NoSchedule = NoSchedule
    Intervals = {1}
    RunLimits = {2}
    CostLimits = {2}
    Costs = {1}
    Dates = {0}
    NoLimit = NoLimit
    MaxTime = 1
    MaxAnswers = 1
SPECIFICATION WorkerSpec
PROPERTIES
    DueIsServed
