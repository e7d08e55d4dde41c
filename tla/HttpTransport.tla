--------------------------- MODULE HttpTransport ---------------------------
(* One HTTP thread over time: perform_http on the jobs it is handed, with   *)
(* the connection waits that CancellableTransport cuts into slices so that  *)
(* a stop is noticed (src/src/outbound.rs).                                 *)
EXTENDS Integers, Sequences

CONSTANTS
    HttpTimeout,    \* HTTP_TIMEOUT, ureq's limit on the whole call
    Poll,           \* CANCEL_POLL_INTERVAL
    Pieces,         \* in how many parts the peer's socket takes the request
    Jobs            \* jobs claimed together and run by this thread in turn

ASSUME TransportAssumption ==
    /\ HttpTimeout \in Nat \ {0} /\ Poll \in 1..HttpTimeout
    /\ Pieces \in Nat \ {0} /\ Jobs \in Nat \ {0}

VARIABLES
    now,            \* the clock; 0 is when the jobs were claimed
    job,            \* which of them runs
    pc,             \* "connect", "transmit", "await" or how the call ended
    start,          \* when perform_http began it
    after,          \* the timeout ureq passed to the current wait
    deadline,       \* the wait's own deadline
    until,          \* when the inner wait gives up, or NoWait between two
    last,           \* the inner wait is the unsliced one past the deadline
    cancel,         \* when the call's flag was set, or NoCancel
    wrote,          \* parts the current inner write has handed over
    wire            \* parts of this request the peer has received

vars == <<now, job, pc, start, after, deadline, until, last, cancel, wrote, wire>>

NoWait == -1
NoCancel == -1
Sliced == {"transmit", "await"}
Ended == {"ok", "aborted", "timeout", "error"}

\* What is left of the global timeout, which ureq passes to every wait.
Remaining(s) == IF now < s + HttpTimeout THEN s + HttpTimeout - now ELSE 0

\* ureq opens the connection first; this wait is its own and not sliced.
Begin(j, s) ==
    /\ job' = j /\ start' = s /\ pc' = "connect"
    /\ until' = s + HttpTimeout
    /\ after' = HttpTimeout /\ deadline' = s + HttpTimeout
    /\ last' = FALSE /\ cancel' = NoCancel /\ wrote' = 0 /\ wire' = <<>>

Init ==
    /\ now = 0 /\ job = 1 /\ start = 0 /\ pc = "connect"
    /\ until = HttpTimeout /\ after = HttpTimeout /\ deadline = HttpTimeout
    /\ last = FALSE /\ cancel = NoCancel /\ wrote = 0 /\ wire = <<>>

\* Entering transmit_output or await_input fixes the wait's deadline.
Enter(op) ==
    /\ pc' = op
    /\ after' = Remaining(start) /\ deadline' = now + Remaining(start)
    /\ until' = NoWait /\ last' = FALSE /\ wrote' = 0

Connected ==
    /\ pc = "connect"
    /\ Enter("transmit")
    /\ UNCHANGED <<now, job, start, cancel, wire>>

End(how) ==
    /\ pc' = how /\ until' = NoWait /\ last' = FALSE /\ wrote' = 0
    /\ UNCHANGED <<now, job, start, after, deadline, cancel, wire>>

\* check_cancelled at the top of either loop.
CheckCancelled ==
    /\ pc \in Sliced /\ until = NoWait /\ cancel # NoCancel
    /\ End("aborted")

\* One call of the inner transport, which waits at most span.
WaitInner(span, final) ==
    /\ pc \in Sliced /\ until = NoWait /\ cancel = NoCancel
    /\ until' = now + span /\ last' = final /\ wrote' = 0
    /\ UNCHANGED <<now, job, pc, start, after, deadline, cancel, wire>>

Slice ==
    /\ now < deadline
    /\ WaitInner(IF deadline - now < Poll THEN deadline - now ELSE Poll, FALSE)

\* Mutant: without the test for a remaining time of zero the loop only slices.
FinalWaitSliced ==
    /\ now >= deadline
    /\ WaitInner(0, FALSE)

\* Nothing remains: the inner wait is entered with the caller's own timeout.
FinalWait == now >= deadline /\ WaitInner(after, TRUE)

\* The inner write hands the peer the next part of the output buffer; it
\* returns when the whole buffer is out.
Accept ==
    /\ pc = "transmit" /\ until # NoWait
    /\ wire' = Append(wire, wrote + 1)
    /\ IF wrote + 1 = Pieces
       THEN Enter("await")
       ELSE wrote' = wrote + 1 /\ UNCHANGED <<pc, after, deadline, until, last>>
    /\ UNCHANGED <<now, job, start, cancel>>

\* The response, or a connection error, ends the inner wait and the call.
Respond == pc = "await" /\ until # NoWait /\ End("ok")
Fail == pc \in Sliced \cup {"connect"} /\ until # NoWait /\ End("error")

\* Mutant: a slice that runs out is taken for the end of the wait.
TimesOutSurfacing ==
    pc \in Sliced \cup {"connect"} /\ until # NoWait /\ now = until /\ End("timeout")

\* An inner wait that runs out is retried, unless it was the final one.
TimesOut ==
    /\ pc \in Sliced \cup {"connect"} /\ until # NoWait /\ now = until
    /\ IF last \/ pc = "connect"
       THEN End("timeout")
       ELSE /\ until' = NoWait /\ wrote' = 0
            /\ UNCHANGED <<now, job, pc, start, after, deadline, last, cancel, wire>>

\* propagate_outbound_cancellations sets the flag of a registered call.
Cancel ==
    /\ pc \notin Ended /\ cancel = NoCancel
    /\ cancel' = now
    /\ UNCHANGED <<now, job, pc, start, after, deadline, until, last, wrote, wire>>

\* The thread sends its result and receives the next job.
TakeNext ==
    /\ pc \in Ended /\ job < Jobs
    /\ Begin(job + 1, now)
    /\ UNCHANGED now

\* Time passes only inside a wait, and never past its end.
Tick ==
    /\ until # NoWait /\ now < until
    /\ now' = now + 1
    /\ UNCHANGED <<job, pc, start, after, deadline, until, last, cancel, wrote, wire>>

Thread == Connected \/ CheckCancelled \/ Slice \/ FinalWait \/ TimesOut \/ TakeNext
Peer == Accept \/ Respond \/ Fail
Next == Thread \/ Peer \/ Cancel \/ Tick
Spec == Init /\ [][Next]_vars
LiveSpec == Spec /\ WF_vars(Thread) /\ WF_vars(Tick)

-----------------------------------------------------------------------------

\* A slice that runs out never reaches the caller as a timeout: a call that
\* ends with one has used up HTTP_TIMEOUT, whatever the peer took or sent
\* meanwhile (the Timeout arms of transmit_output and await_input).
NoEarlyTimeout == pc = "timeout" => now >= start + HttpTimeout

\* No call keeps its thread longer than twice HTTP_TIMEOUT, the span after
\* which dispatch_and_claim lets fn_watchdog write its row off.
EndsWithinTwice == pc \notin Ended => now <= start + 2 * HttpTimeout

\* While the deadline is ahead, a stop is noticed at the end of the slice in
\* which its flag was set.
SliceBoundsStop ==
    pc \in Sliced /\ until # NoWait /\ ~last /\ cancel # NoCancel => now <= cancel + Poll

\* The three together: slicing a wait changes neither when it ends nor, while
\* the deadline is ahead, how soon a stop is noticed.
WaitBounds == NoEarlyTimeout /\ EndsWithinTwice /\ SliceBoundsStop

\* Whatever the peer does, the thread comes to the end of every job: the
\* loops end although each retries its own timeout.
JobsEnd == <>(job = Jobs /\ pc \in Ended)

-----------------------------------------------------------------------------
(* What comments say and the code does not do (README, Disagreements).       *)

\* Does not hold: in every wait of the transport a stop is noticed within
\* CANCEL_POLL_INTERVAL (outbound.rs:183-186).
StopsPromptly ==
    pc \in Sliced /\ until # NoWait /\ cancel # NoCancel => now <= cancel + Poll

\* Does not hold: the peer receives the request's parts in order, each once.
SentVerbatim == \A i \in 1..Len(wire) : wire[i] = i

\* Does not hold: a job that is claimed is over before its row is written off.
OverBeforeWriteOff == pc \notin Ended => now <= 2 * HttpTimeout
=============================================================================
