\* A sandboxed statement, a build and a function call; the worker stops once
\* all of them have ended.
CONSTANTS
    c1 = c1
    c2 = c2
    c3 = c3
    Calls = {c1, c2, c3}
    KindOf <- OneOfEach
    DropOutcomes = {TRUE, FALSE}
    MaxCancels = 2
CHECK_DEADLOCK FALSE
SPECIFICATION LiveSpec
PROPERTIES
    OnceOnly
    EveryRowEnds
