\* Three versions of each body, of which the second does not compile; the one
\* worker may die twice. Everything stops when edits and calls are used up.
CONSTANTS
    f = f
    p = p
    c1 = c1
    c2 = c2
    Functions = {f}
    Procedures = {p}
    Compiles = {1, 3}
    MaxVersion = 3
    BodyCalls = {c1, c2}
    TargetOf <- MCTargetOf
    Workers = {w1}
    MaxCrashes = 2
CHECK_DEADLOCK FALSE
SPECIFICATION BuildLiveSpec
INVARIANTS
    BuiltMatchesBody
    CallsRunWhatWasClaimed
PROPERTIES
    LastBodySettles
