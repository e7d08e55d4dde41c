---------------------------- MODULE OutboundCalls ----------------------------
(* What the queue tables and the runtime worker promise together about one   *)
(* HTTP request, with no worker, thread or flag in sight: a row is claimed   *)
(* once, its request leaves the machine at most once, and nothing changes a  *)
(* row that is finished or written off.                                      *)
CONSTANT Calls

VARIABLES
    status,     \* the row: "none", "queued", "in_flight", "done", "lost"
    pending,    \* calls that were claimed and whose request may still leave
    sent        \* how often the request of a call has left

vars == <<status, pending, sent>>

Init ==
    /\ status = [c \in Calls |-> "none"]
    /\ pending = {}
    /\ sent = [c \in Calls |-> 0]

Queue(c) ==
    /\ status[c] = "none"
    /\ status' = [status EXCEPT ![c] = "queued"]
    /\ UNCHANGED <<pending, sent>>

In(s) == {c \in Calls : status[c] = s}

\* Old rows may be written off in the transaction that claims new ones.
Claim(S, W) ==
    /\ S \subseteq In("queued") /\ W \subseteq In("in_flight")
    /\ status' = [c \in Calls |-> IF c \in S THEN "in_flight"
                                  ELSE IF c \in W THEN "lost" ELSE status[c]]
    /\ pending' = pending \cup S
    /\ UNCHANGED sent

Send(c) ==
    /\ c \in pending /\ sent[c] = 0
    /\ pending' = pending \ {c}
    /\ sent' = [sent EXCEPT ![c] = 1]
    /\ UNCHANGED status

\* The request is given up: a cancel, a refused URL or the death of the worker.
Forget(S) ==
    /\ pending' = pending \ S
    /\ UNCHANGED <<status, sent>>

Finish(c) ==
    /\ status[c] = "in_flight"
    /\ status' = [status EXCEPT ![c] = "done"]
    /\ UNCHANGED <<pending, sent>>

WriteOff(c) ==
    /\ status[c] \in {"queued", "in_flight"}
    /\ status' = [status EXCEPT ![c] = "lost"]
    /\ UNCHANGED <<pending, sent>>

Next ==
    \/ \E c \in Calls : Queue(c) \/ Send(c) \/ Finish(c) \/ WriteOff(c)
    \/ \E S \in SUBSET In("queued"), W \in SUBSET In("in_flight") : Claim(S, W)
    \/ \E S \in SUBSET Calls : Forget(S)

Spec == Init /\ [][Next]_vars
==============================================================================
