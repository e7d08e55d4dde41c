----------------------------- MODULE SpiWorker -----------------------------
(* Statements that the runtime worker executes on its own SPI thread:        *)
(* sandboxed SQL, function and procedure calls and builds (src/src/sandbox.rs,*)
(* function_exec.rs, procedure_exec.rs). The state is what decides whether   *)
(* the worker survives: the subtransaction, the statement timer, a pending   *)
(* cancel, and what of its work is committed.                                *)
EXTENDS Naturals

CONSTANTS
    Calls,          \* rows of sql_calls, function_calls, ... and pending builds
    KindOf,         \* "sql", "body" (function or procedure call) or "build"
    DropOutcomes,   \* what drop_privileges may answer inside a statement
    MaxCancels      \* bound: sessions cancelled by operators

ASSUME SpiAssumption ==
    /\ KindOf \in [Calls -> {"sql", "body", "build"}]
    /\ DropOutcomes \subseteq BOOLEAN /\ TRUE \in DropOutcomes
    /\ MaxCancels \in Nat

VARIABLES
    row,        \* committed status of each row
    seen,       \* the worker's own view: differs from row only while stuck
    stuck,      \* a subtransaction was left open: nothing commits any more
    pc, job,    \* where the worker is, and the call it works on
    timer,      \* the statement timer is armed
    signal,     \* cancel waiting to be noticed: "none", "cancel" or "timer"
    runs,       \* history: how often the statement of a call was started
    cancels

worker == <<pc, job>>
vars == <<row, seen, stuck, worker, timer, signal, runs, cancels>>

NoJob == "none"

Init ==
    /\ row = [c \in Calls |-> "none"] /\ seen = row /\ stuck = FALSE
    /\ pc = "idle" /\ job = NoJob
    /\ timer = FALSE /\ signal = "none"
    /\ runs = [c \in Calls |-> 0] /\ cancels = 0

\* The worker writes a row. CommitTransactionCommand commits nothing while a
\* subtransaction is open.
WriteRow(c, status) ==
    /\ seen' = [seen EXCEPT ![c] = status]
    /\ row' = IF stuck THEN row ELSE seen'

\* Another backend writes a row, which the worker's transaction has not locked.
WriteOutside(c, status) ==
    /\ seen[c] = row[c]
    /\ row' = [row EXCEPT ![c] = status]
    /\ seen' = [seen EXCEPT ![c] = status]

-----------------------------------------------------------------------------
Enqueue(c) ==
    /\ row[c] = "none"
    /\ WriteOutside(c, "queued")
    /\ UNCHANGED <<stuck, worker, timer, signal, runs, cancels>>

\* fn_cancel_session writes off the session's sql_calls and, when one of them is
\* in flight, calls pg_cancel_backend on the worker, whatever that is doing.
CancelSession(c) ==
    /\ KindOf[c] = "sql" /\ row[c] \in {"queued", "in_flight"} /\ cancels < MaxCancels
    /\ WriteOutside(c, "lost")
    /\ signal' = IF row[c] = "in_flight" /\ pc # "down" THEN "cancel" ELSE signal
    /\ cancels' = cancels + 1
    /\ UNCHANGED <<stuck, worker, timer, runs>>

-----------------------------------------------------------------------------
\* Mutant: the claim is part of the transaction that runs the statement.
ClaimWithRun(c) ==
    /\ pc = "idle" /\ seen[c] = "queued"
    /\ pc' = "claimed" /\ job' = c
    /\ UNCHANGED <<row, seen, stuck, timer, signal, runs, cancels>>

\* claim_*_jobs: one row, in a transaction of its own.
Claim(c) ==
    /\ pc = "idle" /\ seen[c] = "queued"
    /\ WriteRow(c, "in_flight")
    /\ pc' = "claimed" /\ job' = c
    /\ UNCHANGED <<stuck, timer, signal, runs, cancels>>

\* A build may be started again and again; two is as good as any larger number.
Started(c) == [runs EXCEPT ![c] = IF @ < 2 THEN @ + 1 ELSE @]

\* Mutant: SET LOCAL statement_timeout without arming the timer.
BeginUntimed ==
    /\ pc = "claimed"
    /\ runs' = Started(job)
    /\ pc' = "running"
    /\ UNCHANGED <<row, seen, stuck, job, timer, signal, cancels>>

\* run_in_subtransaction starts the closure; a call arms the timer, a build
\* does not.
Begin ==
    /\ pc = "claimed"
    /\ runs' = Started(job)
    /\ timer' = (timer \/ KindOf[job] # "build")
    /\ pc' = "running"
    /\ UNCHANGED <<row, seen, stuck, job, signal, cancels>>

\* The closure returns Err before the statement. PgTryBuilder catches nothing,
\* so the subtransaction is neither released nor rolled back.
BeginFails ==
    /\ pc = "claimed" /\ FALSE \in DropOutcomes
    /\ stuck' = TRUE
    /\ pc' = "submit"
    /\ UNCHANGED <<row, seen, job, timer, signal, runs, cancels>>

\* The statement returns. Errors of sandboxed SQL come back as a value too.
Finish ==
    /\ pc = "running"
    /\ timer' = (timer /\ KindOf[job] = "build")
    /\ pc' = "submit"
    /\ UNCHANGED <<row, seen, stuck, job, signal, runs, cancels>>

\* The statement raises: catch_others rolls the subtransaction back, and the
\* closure never reaches disable_timeout.
Raise ==
    /\ pc = "running" /\ KindOf[job] \in {"body", "build"}
    /\ pc' = "submit"
    /\ UNCHANGED <<row, seen, stuck, job, timer, signal, runs, cancels>>

\* A cancel noticed inside the subtransaction is an error like any other.
CancelCaught ==
    /\ pc = "running" /\ signal # "none"
    /\ signal' = "none"
    /\ pc' = "submit"
    /\ UNCHANGED <<row, seen, stuck, job, timer, runs, cancels>>

TimerFires ==
    /\ timer
    /\ timer' = FALSE
    /\ signal' = "timer"
    /\ UNCHANGED <<row, seen, stuck, worker, runs, cancels>>

\* submit_*_result: fenced on the status, and skipped if the drop fails.
Submit(dropped) ==
    /\ pc = "submit"
    /\ IF dropped /\ seen[job] = "in_flight"
       THEN WriteRow(job, "done")
       ELSE UNCHANGED <<row, seen>>
    /\ pc' = "idle" /\ job' = NoJob
    /\ UNCHANGED <<stuck, timer, signal, runs, cancels>>

\* fn_watchdog, from the same loop: what is in flight now belongs to nobody. A
\* call is written off, a build is made pending again.
Watchdog(c) ==
    /\ pc = "idle" /\ seen[c] = "in_flight"
    /\ WriteRow(c, IF KindOf[c] = "build" THEN "queued" ELSE "lost")
    /\ UNCHANGED <<stuck, worker, timer, signal, runs, cancels>>

\* A cancel noticed anywhere else: nothing below allgres_runtime_main catches
\* it, the process exits and its open transaction is rolled back.
Die ==
    /\ signal # "none" /\ pc \in {"idle", "claimed", "submit"}
    /\ pc' = "down" /\ job' = NoJob
    /\ stuck' = FALSE /\ seen' = row
    /\ timer' = FALSE /\ signal' = "none"
    /\ UNCHANGED <<row, runs, cancels>>

Restart ==
    /\ pc = "down"
    /\ pc' = "idle"
    /\ UNCHANGED <<row, seen, stuck, job, timer, signal, runs, cancels>>

Next ==
    \/ \E c \in Calls : Enqueue(c) \/ CancelSession(c) \/ Claim(c) \/ Watchdog(c)
    \/ Begin \/ BeginFails \/ Finish \/ Raise \/ CancelCaught \/ TimerFires
    \/ \E d \in DropOutcomes : Submit(d)
    \/ Die \/ Restart

Spec == Init /\ [][Next]_vars

\* The loop goes on, the timer expires, a signal is noticed, the postmaster
\* restarts the worker. Nothing makes a statement return.
Fairness ==
    /\ WF_vars(Begin) /\ WF_vars(Submit(TRUE)) /\ WF_vars(Restart)
    /\ WF_vars(TimerFires) /\ WF_vars(CancelCaught)
    /\ \A c \in Calls : SF_vars(Claim(c)) /\ SF_vars(Watchdog(c))

LiveSpec == Spec /\ Fairness

-----------------------------------------------------------------------------
\* As long as no subtransaction is left open, the statement of a call is
\* started at most once, however the worker dies, because the claim commits
\* before it.  (A build is started again by design.)
RunsOnce == []~stuck => [](\A c \in Calls : KindOf[c] # "build" => runs[c] <= 1)

\* Nothing commits a row that another backend has written off, and a row ends
\* in one way only.
EndsOnce ==
    [][\A c \in Calls : row[c] \in {"done", "lost"} => row'[c] = row[c]]_vars

\* Both: whatever is cancelled, times out or dies, nothing is done twice and no
\* end is taken back.
OnceOnly == RunsOnce /\ EndsOnce

\* The queue's promise about a call (OutboundCalls), for statements instead of
\* requests: a statement is claimed once, leaves for the executor at most once,
\* and its row ends once. Builds are claimed again by design.
Once == {c \in Calls : KindOf[c] # "build"}
Abstract == INSTANCE OutboundCalls WITH
    Calls <- Once,
    status <- [c \in Once |-> row[c]],
    pending <- {c \in Once : pc = "claimed" /\ job = c},
    sent <- [c \in Once |-> runs[c]]

\* As long as no subtransaction is left open, every step of the worker and of
\* the sessions around it is a step of the abstract life of a call.
ImplementsCalls == []~stuck => Abstract!Spec

\* If no build runs for ever and, from some moment on, no subtransaction is left
\* open, every claimed row gets an end that other sessions can see. Statements
\* other than builds need not return: the timer ends them.
EveryRowEnds ==
    []<>~(pc = "running" /\ KindOf[job] = "build") /\ <>[]~stuck
        => []<>(\A c \in Calls : row[c] # "in_flight")

\* The next two do not hold (README, Disagreements).

\* An ERROR in a statement is caught "instead of the error propagating out of
\* the pump loop and terminating the whole worker process" (sandbox.rs): the
\* worker does not go down while nobody cancels anything.
SurvivesErrors == [][pc' = "down" => pc = "down" \/ cancels > 0]_vars

\* The stop button works with "the worker surviving via run_in_subtransaction"
\* (fn_signal_cancel_worker): no operator's cancel takes it down.
SurvivesCancel == [][pc' = "down" => pc = "down" \/ signal # "cancel"]_vars
=============================================================================
