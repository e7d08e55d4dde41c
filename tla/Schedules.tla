----------------------------- MODULE Schedules -----------------------------
(***************************************************************************)
(* Recurring runs of an agent: the schedules table, the sweep that fires   *)
(* due rows, the operator functions that create, edit, delete and fire     *)
(* them by hand, and the cost that LLM answers charge to a schedule's      *)
(* budget.  A row the sweep visits is one step; time passes between steps. *)
(***************************************************************************)
EXTENDS Integers, FiniteSetsExt

CONSTANTS
    Schedule, Run,     \* rows of schedules; sessions that schedules create
    NoSchedule,        \* sessions.schedule_id IS NULL
    Intervals,         \* interval_seconds in use
    RunLimits,         \* max_runs in use
    CostLimits,        \* max_cost_usd in use
    Costs,             \* cost_usd of a priced answer
    Dates,             \* first next_run_at and ends_at in use
    NoLimit,           \* NULL in max_runs, ends_at, max_cost_usd and cost_usd
    MaxTime,           \* bound: the clock
    MaxAnswers         \* bound: LLM answers per session

ASSUME ScheduleAssumption ==
    /\ Run \subseteq Nat /\ IsFiniteSet(Run) /\ NoSchedule \notin Schedule
    /\ NoLimit \notin Nat
    /\ Intervals \subseteq Nat \ {0} /\ RunLimits \subseteq Nat \ {0}
    /\ CostLimits \subseteq Nat \ {0} /\ Costs \subseteq Nat
    /\ Dates \subseteq Nat
    /\ MaxTime \in Nat /\ MaxAnswers \in Nat

VARIABLES
    sched,    \* allgres_private.schedules
    runs,     \* sessions with a schedule_id, and the cost of their calls
    ready,    \* fn_create_session accepts the schedule's agent and goal
    now,      \* now()
    swept     \* how often the sweep fired, when last and at what interval (observed only)

vars == <<sched, runs, ready, now, swept>>

NoRow == [present |-> FALSE, on |-> FALSE, interval |-> 0, next |-> 0,
          count |-> 0, maxRuns |-> NoLimit, ends |-> NoLimit,
          spent |-> 0, maxCost |-> NoLimit]
NotSwept == [n |-> 0, at |-> 0, gap |-> 0]
NoRun == [present |-> FALSE, of |-> NoSchedule, answers |-> 0, cost |-> 0]

Row == [present : BOOLEAN, on : BOOLEAN, interval : Nat, next : Nat,
        count : Nat, maxRuns : RunLimits \union {NoLimit},
        ends : Nat \union {NoLimit},
        spent : Nat, maxCost : CostLimits \union {NoLimit}]
RunRow == [present : BOOLEAN, of : Schedule \union {NoSchedule},
           answers : Nat, cost : Nat]

\* The shape of the tables; a schedule always keeps an interval.
TypeOK ==
    /\ sched \in [Schedule -> Row]
    /\ \A s \in Schedule : sched[s].present => sched[s].interval \in Intervals
    /\ runs \in [Run -> RunRow]
    /\ ready \in [Schedule -> BOOLEAN]
    /\ now \in Nat
    /\ swept \in [Schedule -> [n : Nat, at : Nat, gap : Nat]]

Init ==
    /\ sched = [s \in Schedule |-> NoRow]
    /\ runs = [r \in Run |-> NoRun]
    /\ ready = [s \in Schedule |-> TRUE]
    /\ now = 0
    /\ swept = [s \in Schedule |-> NotSwept]

-----------------------------------------------------------------------------
\* The three stop conditions, on a row whose run_count is n.
RunsOut(row, n) == row.maxRuns # NoLimit /\ n >= row.maxRuns
Ended(row)      == row.ends # NoLimit /\ row.ends <= now
CostOut(row)    == row.maxCost # NoLimit /\ row.spent >= row.maxCost
Stopped(row, n) == RunsOut(row, n) \/ Ended(row) \/ CostOut(row)

\* The row the sweep selects.
Due(s) == sched[s].present /\ sched[s].on /\ sched[s].next <= now

\* The identity the next session takes.
NextRun(r) ==
    /\ ~runs[r].present
    /\ \A q \in Run : ~runs[q].present => r <= q

\* fn_create_session for schedule s, and the row afterwards.
Spawn(r, s) == runs' = [runs EXCEPT ![r] = [NoRun EXCEPT !.present = TRUE, !.of = s]]

FiredRow(s) ==
    [sched[s] EXCEPT !.count = @ + 1, !.on = ~Stopped(sched[s], sched[s].count + 1)]

-----------------------------------------------------------------------------
(* Operators.                                                              *)

\* fn_create_schedule.  The first run may be set for any time.
CreateSchedule(s, i, mr, e, mc, start) ==
    /\ ~sched[s].present
    /\ sched' = [sched EXCEPT ![s] =
          [NoRow EXCEPT !.present = TRUE, !.on = TRUE, !.interval = i, !.next = start,
                        !.maxRuns = mr, !.ends = e, !.maxCost = mc]]
    /\ ready' = [ready EXCEPT ![s] = TRUE]
    /\ swept' = [swept EXCEPT ![s] = NotSwept]
    /\ UNCHANGED <<runs, now>>

\* fn_set_schedule: any field, next_run_at excepted.
SetSchedule(s, i, on, mr, e, mc) ==
    /\ sched[s].present
    /\ sched' = [sched EXCEPT ![s] =
          [@ EXCEPT !.interval = i, !.on = on, !.maxRuns = mr, !.ends = e, !.maxCost = mc]]
    /\ UNCHANGED <<runs, ready, now, swept>>

\* fn_delete_schedule; its sessions live on without a schedule_id.
DeleteSchedule(s) ==
    /\ sched[s].present
    /\ sched' = [sched EXCEPT ![s] = NoRow]
    /\ runs' = [r \in Run |->
          IF runs[r].of = s THEN [runs[r] EXCEPT !.of = NoSchedule] ELSE runs[r]]
    /\ UNCHANGED <<ready, now, swept>>

\* The agent is switched off or on, or the goal made blank or set.
SetReady(s, b) ==
    /\ sched[s].present
    /\ ready' = [ready EXCEPT ![s] = b]
    /\ UNCHANGED <<sched, runs, now, swept>>

\* Variant: only a paused schedule is refused.
RunScheduleNowUnchecked(s, r) ==
    /\ sched[s].present /\ sched[s].on /\ ready[s]
    /\ NextRun(r) /\ Spawn(r, s)
    /\ sched' = [sched EXCEPT ![s] = FiredRow(s)]
    /\ UNCHANGED <<ready, now, swept>>

\* fn_run_schedule_now; next_run_at stays.
RunScheduleNow(s, r) ==
    /\ sched[s].present /\ sched[s].on /\ ready[s]
    /\ ~Stopped(sched[s], sched[s].count)
    /\ NextRun(r) /\ Spawn(r, s)
    /\ sched' = [sched EXCEPT ![s] = FiredRow(s)]
    /\ UNCHANGED <<ready, now, swept>>

-----------------------------------------------------------------------------
(* fn_run_schedules, on one due row.                                       *)

SweepStops(s) ==
    /\ Due(s) /\ Stopped(sched[s], sched[s].count)
    /\ sched' = [sched EXCEPT ![s].on = FALSE]
    /\ UNCHANGED <<runs, ready, now, swept>>

\* fn_create_session throws.
SweepFails(s) ==
    /\ Due(s) /\ ~Stopped(sched[s], sched[s].count) /\ ~ready[s]
    /\ sched' = [sched EXCEPT ![s].next = now + sched[s].interval]
    /\ UNCHANGED <<runs, ready, now, swept>>

\* Variant: next_run_at walks forward in fixed steps.
SweepFiresWalking(s, r) ==
    /\ Due(s) /\ ~Stopped(sched[s], sched[s].count) /\ ready[s]
    /\ NextRun(r) /\ Spawn(r, s)
    /\ sched' = [sched EXCEPT ![s] =
          [FiredRow(s) EXCEPT !.next = sched[s].next + sched[s].interval]]
    /\ swept' = [swept EXCEPT ![s] = [n |-> @.n + 1, at |-> now, gap |-> sched[s].interval]]
    /\ UNCHANGED <<ready, now>>

SweepFires(s, r) ==
    /\ Due(s) /\ ~Stopped(sched[s], sched[s].count) /\ ready[s]
    /\ NextRun(r) /\ Spawn(r, s)
    /\ sched' = [sched EXCEPT ![s] =
          [FiredRow(s) EXCEPT !.next = now + sched[s].interval]]
    /\ swept' = [swept EXCEPT ![s] = [n |-> @.n + 1, at |-> now, gap |-> sched[s].interval]]
    /\ UNCHANGED <<ready, now>>

Sweep(s) == SweepStops(s) \/ SweepFails(s) \/ \E r \in Run : SweepFires(s, r)

-----------------------------------------------------------------------------
(* fn_complete_outbound on a successful LLM answer of session r.           *)

\* Variant: the budget is left for the next sweep to check.
ChargedLazily(row, c) == [row EXCEPT !.spent = @ + c]

Charged(row, c) ==
    LET new == [row EXCEPT !.spent = @ + c]
    IN  [new EXCEPT !.on = @ /\ ~CostOut(new)]

\* Variant: an answer is charged only while the schedule is active.
AnswerWhileActive(r, c) ==
    /\ runs[r].present /\ runs[r].answers < MaxAnswers
    /\ runs' = [runs EXCEPT ![r].answers = @ + 1,
                            ![r].cost = IF c = NoLimit THEN @ ELSE @ + c]
    /\ sched' = IF c = NoLimit \/ runs[r].of = NoSchedule THEN sched
                ELSE [sched EXCEPT ![runs[r].of] = IF @.on THEN Charged(@, c) ELSE @]
    /\ UNCHANGED <<ready, now, swept>>

Answer(r, c) ==
    /\ runs[r].present /\ runs[r].answers < MaxAnswers
    /\ runs' = [runs EXCEPT ![r].answers = @ + 1,
                            ![r].cost = IF c = NoLimit THEN @ ELSE @ + c]
    /\ sched' = IF c = NoLimit \/ runs[r].of = NoSchedule THEN sched
                ELSE [sched EXCEPT ![runs[r].of] = Charged(@, c)]
    /\ UNCHANGED <<ready, now, swept>>

Tick ==
    /\ now < MaxTime /\ now' = now + 1
    /\ UNCHANGED <<sched, runs, ready, swept>>

-----------------------------------------------------------------------------
OperatorStep ==
    \E s \in Schedule :
        \/ \E i \in Intervals, mr \in RunLimits \union {NoLimit},
              e \in Dates \union {NoLimit}, mc \in CostLimits \union {NoLimit},
              start \in Dates : CreateSchedule(s, i, mr, e, mc, start)
        \/ \E i \in Intervals, on \in BOOLEAN, mr \in RunLimits \union {NoLimit},
              e \in Dates \union {NoLimit}, mc \in CostLimits \union {NoLimit} :
                SetSchedule(s, i, on, mr, e, mc)
        \/ DeleteSchedule(s)
        \/ \E b \in BOOLEAN : SetReady(s, b)
        \/ \E r \in Run : RunScheduleNow(s, r)

\* fn_pump, called by anyone with the right to: the worker does not call it.
PumpStep == \E s \in Schedule : Sweep(s)

\* What the worker's loop does to this state: hand in answers.
WorkerStep(r) == \E c \in Costs \union {NoLimit} : Answer(r, c)

Next == OperatorStep \/ PumpStep \/ Tick \/ \E r \in Run : WorkerStep(r)

Spec == Init /\ [][Next]_vars

\* The worker's loop and the clock go on.
WorkerFairness == WF_vars(Tick) /\ \A r \in Run : WF_vars(WorkerStep(r))
WorkerSpec == Spec /\ WorkerFairness

-----------------------------------------------------------------------------
HasBudget(row) == ~RunsOut(row, row.count) /\ ~CostOut(row)

\* Only an edit can leave a schedule active without runs or money: while its
\* limits stay as they are, the firing that uses up the last run and the
\* answer that crosses the budget switch it off at once, not at the next sweep.
ActiveHasBudget ==
    [][\A s \in Schedule :
          /\ sched[s].on /\ HasBudget(sched[s])
          /\ sched'[s].maxRuns = sched[s].maxRuns /\ sched'[s].maxCost = sched[s].maxCost
          => (sched'[s].on => HasBudget(sched'[s]))]_vars

\* What the sessions of a set have cost.
CostOf(rows, S) == MapThenSumSet(LAMBDA r : rows[r].cost, S)

\* The schedule's total is what its sessions' calls cost, no more and no
\* less, also for answers that arrive after it was paused.
CostConserved ==
    \A s \in Schedule : sched[s].present =>
        sched[s].spent = CostOf(runs, {r \in Run : runs[r].of = s})

\* No run is started past a stop condition, by the sweep or by hand, however
\* edits, late costs and the clock interleave.
NoRunPastLimit ==
    [][\A s \in Schedule : sched'[s].count > sched[s].count =>
          /\ ~RunsOut(sched[s], sched[s].count)
          /\ ~Ended(sched[s]) /\ ~CostOut(sched[s])]_vars

\* Two firings of the sweep are at least the interval apart that the schedule
\* had at the first of them, whatever was missed or edited in between:
\* catching up is one run, never a burst.
NoBurst ==
    [][\A s \in Schedule : swept'[s].n > swept[s].n /\ swept[s].n > 0
          => swept'[s].at >= swept[s].at + swept[s].gap]_vars

\* Does not hold (run schedules_worker): a due schedule does not stay due. It
\* fires, is put off or is switched off, as long as the instance has a session
\* identity left to fire with.
DueIsServed ==
    \A s \in Schedule : Due(s) ~> (~Due(s) \/ \A r \in Run : runs[r].present)
=============================================================================
