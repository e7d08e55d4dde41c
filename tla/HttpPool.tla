------------------------------ MODULE HttpPool ------------------------------
(* The runtime worker's loop, its pool of HTTP threads and the four tables   *)
(* it takes requests from (src/src/runtime_worker.rs, src/src/outbound.rs).  *)
(* A transaction of the SPI thread is one step; so is every access of a      *)
(* thread to a channel or to the map of cancel flags. The channels are sets: *)
(* no property depends on their order, and a job occurs once in them.        *)
EXTENDS Integers, FiniteSets

CONSTANTS
    Calls,          \* rows of the four tables
    QueueOf,        \* the table of a row
    Threads,        \* HTTP_THREADS
    MaxCrashes,     \* bound: deaths of the worker process
    DropOutcomes    \* what drop_privileges may answer

Queues == {"outbound", "oauth", "embedding", "probe"}

ASSUME PoolAssumption ==
    /\ IsFiniteSet(Calls) /\ IsFiniteSet(Threads)
    /\ QueueOf \in [Calls -> Queues]
    /\ DropOutcomes \subseteq BOOLEAN
    /\ MaxCrashes \in Nat

Capacity == 2 * Cardinality(Threads)

VARIABLES
    row,        \* committed status of the rows
    pc,         \* where the SPI thread is in its loop
    ids,        \* call ids copied out of the flag map, while they are looked up
    lost,       \* which of them are lost, until their flags are set
    batch,      \* claimed by the last transaction, not yet sent to the pool
    jobs,       \* channel to the threads
    results,    \* channel back
    thr,        \* each HTTP thread: where it is and with which call
    flags,      \* OUTBOUND_CANCEL_FLAGS: "absent", "clear" or "set" per call
    in_flight,  \* the loop's own count of outstanding jobs
    sends,      \* history: how often a call's request left the process
    crashes

spi == <<pc, ids, lost, batch>>
pool == <<jobs, results, thr, flags>>
vars == <<row, spi, pool, in_flight, sends, crashes>>

IdleThread == [pc |-> "idle"]
At(p, c) == [pc |-> p, call |-> c]
Places == {"taken", "connecting", "connected", "waiting", "returning"}
\* Where a call may still leave the process, and where its flag is in the map.
Unsent == {"taken", "connecting", "connected"}
Guarded == {"connecting", "connected", "waiting"}
ThreadState == {IdleThread} \cup {At(p, c) : p \in Places, c \in Calls}

\* Threads that hold a call, and the calls they hold at given places.
Busy == {t \in Threads : thr[t] # IdleThread}
HeldAt(P) == {c \in Calls : \E t \in Threads : \E p \in P : thr[t] = At(p, c)}
Holding(t, c) == \E p \in Places : thr[t] = At(p, c)

ClaimSteps == [outbound |-> "oauth", oauth |-> "embedding",
               embedding |-> "probe", probe |-> "harvest"]

Init ==
    /\ row = [c \in Calls |-> "none"]
    /\ pc = "harvest" /\ ids = {} /\ lost = {} /\ batch = {}
    /\ jobs = {} /\ results = {}
    /\ thr = [t \in Threads |-> IdleThread]
    /\ flags = [c \in Calls |-> "absent"]
    /\ in_flight = 0
    /\ sends = [c \in Calls |-> 0]
    /\ crashes = 0

-----------------------------------------------------------------------------
(* Sessions and operators: rows appear and are written off.                  *)

Enqueue(c) ==
    /\ row[c] = "none"
    /\ row' = [row EXCEPT ![c] = "queued"]
    /\ UNCHANGED <<spi, pool, in_flight, sends, crashes>>

\* fn_cancel_session and the turn timeout write the outbound calls of a task
\* off, a newer probe an older one; a newer embedding deletes a queued one.
Cancel(c) ==
    /\ \/ QueueOf[c] \in {"outbound", "probe"} /\ row[c] \in {"queued", "in_flight"}
       \/ QueueOf[c] = "embedding" /\ row[c] = "queued"
    /\ row' = [row EXCEPT ![c] = "lost"]
    /\ UNCHANGED <<spi, pool, in_flight, sends, crashes>>

-----------------------------------------------------------------------------
(* The SPI thread.                                                           *)

\* Mutant: the count goes down only when the answer could be recorded.
HarvestRecorded(c, dropped) ==
    /\ pc = "harvest" /\ c \in results
    /\ results' = results \ {c}
    /\ in_flight' = IF dropped THEN in_flight - 1 ELSE in_flight
    /\ row' = IF dropped /\ row[c] = "in_flight" THEN [row EXCEPT ![c] = "done"] ELSE row
    /\ UNCHANGED <<spi, jobs, thr, flags, sends, crashes>>

\* submit_*_result: fn_complete_* answers only a row that is in flight; a
\* failed privilege drop leaves the row for the watchdog.
Harvest(c, dropped) ==
    /\ pc = "harvest" /\ c \in results
    /\ results' = results \ {c}
    /\ in_flight' = IF in_flight > 0 THEN in_flight - 1 ELSE 0
    /\ row' = IF dropped /\ row[c] = "in_flight" THEN [row EXCEPT ![c] = "done"] ELSE row
    /\ UNCHANGED <<spi, jobs, thr, flags, sends, crashes>>

HarvestedAll ==
    /\ pc = "harvest" /\ results = {}
    /\ pc' = "ids"
    /\ UNCHANGED <<row, ids, lost, batch, pool, in_flight, sends, crashes>>

Registered == {c \in Calls : flags[c] # "absent"}

ReadIds ==
    /\ pc = "ids"
    /\ ids' = Registered
    /\ pc' = IF ids' = {} THEN "pump" ELSE "check"
    /\ UNCHANGED <<row, lost, batch, pool, in_flight, sends, crashes>>

CheckLost(dropped) ==
    /\ pc = "check"
    /\ lost' = IF dropped THEN {c \in ids : QueueOf[c] = "outbound" /\ row[c] = "lost"} ELSE {}
    /\ ids' = {}
    /\ pc' = IF lost' = {} THEN "pump" ELSE "flag"
    /\ UNCHANGED <<row, batch, pool, in_flight, sends, crashes>>

SetFlags ==
    /\ pc = "flag"
    /\ flags' = [c \in Calls |-> IF c \in lost \cap Registered THEN "set" ELSE flags[c]]
    /\ lost' = {}
    /\ pc' = "pump"
    /\ UNCHANGED <<row, ids, batch, jobs, results, thr, in_flight, sends, crashes>>

\* next_pump is reached and the extension is there, or the loop starts over.
Pump ==
    /\ pc = "pump"
    /\ pc' \in {"outbound", "harvest"}
    /\ UNCHANGED <<row, ids, lost, batch, pool, in_flight, sends, crashes>>

\* Mutant: the watchdog sweeps outbound_calls only.
SweepableOne ==
    {c \in Calls : pc = "outbound" /\ row[c] = "in_flight" /\ QueueOf[c] = pc}

Queued == {c \in Calls : row[c] = "queued" /\ QueueOf[c] = pc}

\* The first claim runs fn_watchdog, which may write off any row in flight of
\* the four tables; no time passes in this module, so any row may be old enough.
Sweepable == {c \in Calls : pc = "outbound" /\ row[c] = "in_flight"}

\* The four claims in their order.
Claim(S, W) ==
    /\ pc \in Queues /\ batch = {} /\ in_flight < Capacity
    /\ S \subseteq Queued /\ W \subseteq Sweepable
    /\ Cardinality(S) <= Capacity - in_flight
    /\ row' = [c \in Calls |-> IF c \in S THEN "in_flight"
                               ELSE IF c \in W THEN "lost" ELSE row[c]]
    /\ batch' = S
    /\ pc' = IF S = {} THEN ClaimSteps[pc] ELSE pc
    /\ UNCHANGED <<ids, lost, pool, in_flight, sends, crashes>>

ClaimSkipped ==
    /\ pc \in Queues /\ batch = {} /\ in_flight >= Capacity
    /\ pc' = ClaimSteps[pc]
    /\ UNCHANGED <<row, ids, lost, batch, pool, in_flight, sends, crashes>>

SendJob(c) ==
    /\ pc \in Queues /\ c \in batch
    /\ batch' = batch \ {c}
    /\ jobs' = jobs \cup {c}
    /\ in_flight' = in_flight + 1
    /\ pc' = IF batch' = {} THEN ClaimSteps[pc] ELSE pc
    /\ UNCHANGED <<row, ids, lost, results, thr, flags, sends, crashes>>

-----------------------------------------------------------------------------
(* An HTTP thread.                                                           *)

\* Mutant: the job stays in the channel for the next thread.
TakeLeaving(t, c) ==
    /\ thr[t] = IdleThread /\ c \in jobs
    /\ thr' = [thr EXCEPT ![t] = At("taken", c)]
    /\ UNCHANGED <<row, spi, jobs, results, flags, in_flight, sends, crashes>>

Take(t, c) ==
    /\ thr[t] = IdleThread /\ c \in jobs
    /\ jobs' = jobs \ {c}
    /\ thr' = [thr EXCEPT ![t] = At("taken", c)]
    /\ UNCHANGED <<row, spi, results, flags, in_flight, sends, crashes>>

\* CancelGuard::register
Register(t, c) ==
    /\ thr[t] = At("taken", c)
    /\ flags' = [flags EXCEPT ![c] = "clear"]
    /\ thr' = [thr EXCEPT ![t] = At("connecting", c)]
    /\ UNCHANGED <<row, spi, jobs, results, in_flight, sends, crashes>>

\* DNS, connect and the TLS handshake end: the connector hands out the
\* transport that looks at the flag.
Connect(t, c) ==
    /\ thr[t] = At("connecting", c)
    /\ thr' = [thr EXCEPT ![t] = At("connected", c)]
    /\ UNCHANGED <<row, spi, jobs, results, flags, in_flight, sends, crashes>>

\* The transport looks at the flag before it writes.
Transmit(t, c) ==
    /\ thr[t] = At("connected", c) /\ flags[c] = "clear"
    /\ sends' = [sends EXCEPT ![c] = @ + 1]
    /\ thr' = [thr EXCEPT ![t] = At("waiting", c)]
    /\ UNCHANGED <<row, spi, jobs, results, flags, in_flight, crashes>>

\* Mutant: the flag outlives the call.
ReturnKeepingFlag(t, c) ==
    /\ thr' = [thr EXCEPT ![t] = At("returning", c)]
    /\ UNCHANGED <<row, spi, jobs, results, flags, in_flight, sends, crashes>>

\* perform_http returns, and CancelGuard's Drop removes the flag.
Return(t, c) ==
    /\ flags' = [flags EXCEPT ![c] = "absent"]
    /\ thr' = [thr EXCEPT ![t] = At("returning", c)]
    /\ UNCHANGED <<row, spi, jobs, results, in_flight, sends, crashes>>

Refuse(t, c) ==
    thr[t] \in {At("connecting", c), At("connected", c)} /\ Return(t, c)
Respond(t, c) == thr[t] = At("waiting", c) /\ Return(t, c)

\* Mutant: the flag is read before the write only, not while waiting.
AbortUnsent(t, c) ==
    /\ thr[t] = At("connected", c) /\ flags[c] = "set"
    /\ Return(t, c)

Abort(t, c) ==
    /\ thr[t] \in {At("connected", c), At("waiting", c)} /\ flags[c] = "set"
    /\ Return(t, c)

SendResult(t, c) ==
    /\ thr[t] = At("returning", c)
    /\ results' = results \cup {c}
    /\ thr' = [thr EXCEPT ![t] = IdleThread]
    /\ UNCHANGED <<row, spi, jobs, flags, in_flight, sends, crashes>>

\* The process dies and is started again five seconds later; the rows survive.
Crash ==
    /\ crashes < MaxCrashes
    /\ crashes' = crashes + 1
    /\ pc' = "harvest" /\ ids' = {} /\ lost' = {} /\ batch' = {}
    /\ jobs' = {} /\ results' = {}
    /\ thr' = [t \in Threads |-> IdleThread]
    /\ flags' = [c \in Calls |-> "absent"]
    /\ in_flight' = 0
    /\ UNCHANGED <<row, sends>>

-----------------------------------------------------------------------------
SpiNext ==
    \/ \E c \in Calls, d \in DropOutcomes : Harvest(c, d)
    \/ HarvestedAll \/ ReadIds
    \/ \E d \in DropOutcomes : CheckLost(d)
    \/ SetFlags \/ Pump
    \/ \E S \in SUBSET Queued, W \in SUBSET Sweepable : Claim(S, W)
    \/ ClaimSkipped
    \/ \E c \in Calls : SendJob(c)

\* What a thread does by itself, and what the other end of the line decides.
ThreadNext(t) ==
    \E c \in Calls : \/ Take(t, c) \/ Register(t, c)
                     \/ Abort(t, c) \/ SendResult(t, c)
PeerNext(t) ==
    \E c \in Calls : Connect(t, c) \/ Transmit(t, c) \/ Refuse(t, c) \/ Respond(t, c)

Next ==
    \/ \E c \in Calls : Enqueue(c) \/ Cancel(c)
    \/ SpiNext
    \/ \E t \in Threads : ThreadNext(t) \/ PeerNext(t)
    \/ Crash

Spec == Init /\ [][Next]_vars

\* The loop never stops and every transaction in it ends; a thread with work
\* goes on.  PeerFairness: perform_http ends within HTTP_TIMEOUT.
\* SweepFairness: next_pump is reached again and again, and a row that stays in
\* flight becomes old enough.  The peer is given no fairness in FairSpec; a
\* property that needs one of these says so.
SpiFairness == WF_vars(SpiNext)
ThreadFairness == \A t \in Threads : WF_vars(ThreadNext(t))
PeerFairness == \A t \in Threads : WF_vars(PeerNext(t))
SweepFairness ==
    /\ SF_vars(Pump /\ pc' = "outbound")
    /\ \A c \in Calls :
          SF_vars(\E S \in SUBSET Queued, W \in SUBSET Sweepable : c \in W /\ Claim(S, W))

FairSpec == Spec /\ SpiFairness /\ ThreadFairness

-----------------------------------------------------------------------------
TypeOK ==
    /\ row \in [Calls -> {"none", "queued", "in_flight", "done", "lost"}]
    /\ pc \in {"harvest", "ids", "check", "flag", "pump"} \cup Queues
    /\ ids \subseteq Calls /\ lost \subseteq Calls /\ batch \subseteq Calls
    /\ jobs \subseteq Calls /\ results \subseteq Calls
    /\ thr \in [Threads -> ThreadState]
    /\ flags \in [Calls -> {"absent", "clear", "set"}]
    /\ in_flight \in Nat /\ crashes \in 0..MaxCrashes
    /\ sends \in [Calls -> Nat]

\* The loop's count is exactly the number of jobs in the two channels and in
\* the hands of threads, and with the batch being handed over it stays within
\* the capacity. So saturating_sub never saturates, and no failed privilege
\* drop, cancel or write-off leaks a place of the pool.
InFlightExact ==
    /\ in_flight = Cardinality(jobs) + Cardinality(Busy) + Cardinality(results)
    /\ in_flight + Cardinality(batch) <= Capacity

\* A request leaves the process at most once, over cancels, write-offs, failed
\* completions and restarts.
AtMostOnceSent == \A c \in Calls : sends[c] <= 1

\* A flag is in the map exactly while its own thread is between register and
\* Drop, no two threads have the same call, and only a call whose row is
\* written off is ever told to stop.
FlagsMatchThreads ==
    /\ Registered = HeldAt(Guarded)
    /\ \A t, u \in Threads, c \in Calls : Holding(t, c) /\ Holding(u, c) => t = u
    /\ \A c \in Calls : flags[c] = "set" => row[c] = "lost"

\* An answer that comes after a cancel or a write-off changes nothing.
LostIsFinal ==
    [][\A c \in Calls : row[c] \in {"lost", "done"} => row'[c] = row[c]]_vars

\* A cancelled call that has its connection leaves its thread even if the peer
\* never says another word (FairSpec gives the peer no fairness), unless the
\* role cannot be dropped from some moment on.  A thread that is still
\* connecting is not reached: nothing looks at the flag before the transport
\* exists (outbound.rs:166-176), so there a stop waits for the peer.
CancelReaches ==
    SF_vars(CheckLost(TRUE)) =>
        \A c \in {k \in Calls : QueueOf[k] = "outbound"} :
            (row[c] = "lost" /\ c \in HeldAt({"connected", "waiting"}))
                ~> c \notin HeldAt({"connected", "waiting"})

\* Does not hold (README, Disagreements): the same for a thread that has only
\* registered its flag.
CancelReachesConnecting ==
    SF_vars(CheckLost(TRUE)) =>
        \A c \in {k \in Calls : QueueOf[k] = "outbound"} :
            (row[c] = "lost" /\ c \in HeldAt({"connecting"})) ~> c \notin HeldAt({"connecting"})

\* With peers that end their part and a watchdog that goes on, every claimed
\* call ends done or lost: crashes, failed drops and a pool whose full capacity
\* keeps the watchdog from running do not leave a row in flight.  (A row is
\* claimed once, so no row staying in flight and no moment being the last
\* without one are the same for finitely many rows.)
EveryClaimResolved ==
    PeerFairness /\ SweepFairness => []<>(\A c \in Calls : row[c] # "in_flight")

\* Does not hold: HTTP_THREADS is "the maximum number of calls claimed per pump"
\* (lib.rs:45-46; README, Disagreements).
ClaimsWithinThreads == Cardinality(batch) <= Cardinality(Threads)

\* The worker and the tables together keep the promise of OutboundCalls. A
\* request may still leave while its call waits in the batch, in the channel or
\* with a thread that has not written yet.
Abstract == INSTANCE OutboundCalls WITH
    status <- row,
    pending <- batch \cup jobs \cup HeldAt(Unsent),
    sent <- sends

\* Every step of the worker is a step of the abstract life of a call.
ImplementsOutboundCalls == Abstract!Spec

=============================================================================
