\* Three rows of three tables for one thread with room for two.
CONSTANTS
    c1 = c1
    c2 = c2
    c3 = c3
    Calls = {c1, c2, c3}
    QueueOf <- OneOfEach
    Threads = {t1}
    MaxCrashes = 1
    DropOutcomes = {TRUE, FALSE}
SPECIFICATION FairSpec
INVARIANTS
    InFlightExact
    FlagsMatchThreads
PROPERTIES
    ImplementsOutboundCalls
    CancelReaches
    EveryClaimResolved
