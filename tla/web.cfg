\* Two snapshots per stream, room for two calls in the socket, and one fault
\* of the runtime worker.
CONSTANTS
    c1 = c1
    c2 = c2
    c3 = c3
    Conns = {c1, c2, c3}
    Requests <- MCRequests
    MaxThreads = 2
    Backlog = 2
    Rounds = 2
    MaxFaults = 1
SPECIFICATION LiveSpec
INVARIANTS
    SlotsComeBack
    AnswerMatchesEffect
PROPERTIES
    EveryConnectionEnds
