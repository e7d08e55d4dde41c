\* Two connections; two more turns and two delegations.
CONSTANTS
    Backends = {b1, b2}
    First = first
    Roots = {r1, r2}
    Children = {c1, c2}
SYMMETRY CloseSymmetry
SPECIFICATION Spec
INVARIANTS
    TurnsBounded
PROPERTIES
    EndsStay
    StopTakesHold
    LoneTransactionRepairs
