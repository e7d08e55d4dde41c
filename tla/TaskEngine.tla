----------------------------- MODULE TaskEngine -----------------------------
(***************************************************************************)
(* The task state machine of the control plane: sessions, tasks, the four  *)
(* call queues and human approvals, as sql/control_plane.sql and           *)
(* sql/operator_*.sql drive them and as the runtime worker calls them.     *)
(*                                                                         *)
(* Every SQL function runs in one transaction, so each is one action.      *)
(* A sweep (fn_dispatch_tasks, a claim, fn_watchdog) is a loop whose       *)
(* iterations each touch one row; an iteration is one step here, so every  *)
(* real sweep is a sequence of steps of the model.                         *)
(*                                                                         *)
(* A call row is kept while something can still read it: while it is       *)
(* queued or in flight, or lost with its job still in worker memory.  A    *)
(* row that is harvested, or lost with no job, is never read again by the  *)
(* lifecycle and its identity returns to NoCall.                           *)
(***************************************************************************)
EXTENDS Naturals, FiniteSets

CONSTANTS
    Agent, Session, Task, Call,      \* identities of rows
    NoAgent, NoSession, NoTask,      \* NULL references
    MaxSteps, MaxRetries,            \* policies.max_steps, max_retries
    MaxDepth, MaxSessionTasks,       \* max_delegation_depth, max_session_tasks
    Caps,                            \* values of max_concurrent_tasks in use
    TurnLimited,                     \* agents with a max_turn_seconds
    Permitted,                       \* <<a, b>>: a may delegate to b
    Replies,                         \* what a model may answer
    Toggled,                         \* bound: agents that are ever deactivated
    MaxRaises                        \* bound: no reply throws once a task has had so many

Open     == {"queued", "running", "waiting_human", "waiting_children"}
Terminal == {"completed", "failed", "cancelled"}
Holding  == {"running", "waiting_human", "waiting_children"}
Pending  == {"queued", "in_flight"}

\* outbound_calls: llm; http_read (GET functions, embedding, recall);
\* http_write (mutating http_request, mcp).  sql: sql_calls.
\* body: function_calls and procedure_calls.
Kind     == {"llm", "http_read", "http_write", "sql", "body"}
CallReply == Kind \ {"llm"}

\* rejected: the reply is logged as an error and the turn repeats.
\* noted: propose_change, create_agent, create_function, update_function,
\* propose_fix, remember.  raises: fn_submit_result throws on the reply.
AllReplies == CallReply \union
    {"rejected", "noted", "raises", "final_answer", "delegate",
     "delegate_wait", "await_human", "await_children"}

\* A row's identity is its rank in creation order (tasks.created_at).
ASSUME RowsAssumption ==
    /\ IsFiniteSet(Task) /\ Task \subseteq Nat
    /\ Call \subseteq Nat /\ Session \subseteq Nat
    /\ NoTask \notin Task /\ NoSession \notin Session /\ NoAgent \notin Agent

ASSUME LimitsAssumption ==
    /\ MaxSteps \in Nat \ {0} /\ MaxRetries \in Nat
    /\ MaxDepth \in Nat /\ MaxSessionTasks \in Nat \ {0} /\ MaxRaises \in Nat
    /\ Caps \subseteq Nat \ {0}
    /\ TurnLimited \subseteq Agent /\ Toggled \subseteq Agent
    /\ Permitted \subseteq Agent \X Agent
    /\ Replies \subseteq AllReplies

VARIABLES
    tasks,      \* allgres_private.tasks
    sessions,   \* allgres_private.sessions
    approvals,  \* pending human_approvals rows of each task
    calls,      \* outbound_calls, sql_calls, function_calls, procedure_calls
    jobs,       \* calls claimed by the live worker and not yet answered
    active,     \* agents.is_active
    cap         \* policies.max_concurrent_tasks

vars == <<tasks, sessions, approvals, calls, jobs, active, cap>>

NoTaskRow ==
    [status |-> "absent", sess |-> NoSession, agent |-> NoAgent,
     parent |-> NoTask, depth |-> 0, steps |-> 0, errs |-> 0,
     turns |-> 0, raises |-> 0]
NoSessionRow ==
    [status |-> "absent", agent |-> NoAgent, final |-> NoTask, root |-> NoTask]
NoCall == [st |-> "free", task |-> NoTask, kind |-> "none"]

TaskRow ==
    [status : Open \union Terminal \union {"absent"},
     sess : Session \union {NoSession}, agent : Agent \union {NoAgent},
     parent : Task \union {NoTask}, depth : Nat,
     steps : Nat,     \* step_count
     errs : Nat,      \* execution_logs rows with role 'error'
     turns : Nat,     \* outbound_calls rows with kind 'llm'
     raises : Nat]    \* replies on which fn_submit_result threw
\* final: the task whose answer is sessions.final_answer.  root: the task
\* whose output.answer maybe_complete_session would select.
SessionRow ==
    [status : {"absent", "open", "completed", "failed", "cancelled"},
     agent : Agent \union {NoAgent},
     final : Task \union {NoTask}, root : Task \union {NoTask}]
CallRow ==
    [st : Pending \union {"lost", "free"}, task : Task \union {NoTask},
     kind : Kind \union {"none"}]

\* The shape of the tables: every status, count and reference is one the
\* columns and their CHECK constraints allow, through every handler.
TypeOK ==
    /\ tasks \in [Task -> TaskRow]
    /\ sessions \in [Session -> SessionRow]
    /\ approvals \in [Task -> Nat]
    /\ calls \in [Call -> CallRow]
    /\ jobs \in SUBSET Call
    /\ active \in [Agent -> BOOLEAN]
    /\ cap \in [Agent -> Caps]

Init ==
    /\ tasks = [t \in Task |-> NoTaskRow]
    /\ sessions = [s \in Session |-> NoSessionRow]
    /\ approvals = [t \in Task |-> 0]
    /\ calls = [c \in Call |-> NoCall]
    /\ jobs = {}
    /\ active = [a \in Agent |-> TRUE]
    /\ cap \in [Agent -> Caps]

-----------------------------------------------------------------------------
(* Reading the tables.                                                     *)

\* The identity the next INSERT takes.
NextSession(s) ==
    /\ sessions[s].status = "absent"
    /\ \A x \in Session : sessions[x].status = "absent" => s <= x
NextTask(t) ==
    /\ tasks[t].status = "absent"
    /\ \A x \in Task : tasks[x].status = "absent" => t <= x
NextCall(c) ==
    /\ calls[c] = NoCall
    /\ \A d \in Call : calls[d] = NoCall => c <= d

PendingCall(t) == \E c \in Call : calls[c].task = t /\ calls[c].st \in Pending

OpenChild(t) == \E x \in Task : tasks[x].parent = t /\ tasks[x].status \in Open

\* The active tasks of an agent: those that occupy one of its slots.
HoldingOf(a) == {x \in Task : tasks[x].agent = a /\ tasks[x].status \in Holding}

\* Variants: tasks that wait are not counted; the task counts itself.
SlotFreeRunningOnly(t) ==
    Cardinality({x \in HoldingOf(tasks[t].agent) \ {t} : tasks[x].status = "running"})
        < cap[tasks[t].agent]
SlotFreeCountsItself(t) == Cardinality(HoldingOf(tasks[t].agent)) < cap[tasks[t].agent]

SlotFree(t) ==
    Cardinality(HoldingOf(tasks[t].agent) \ {t}) < cap[tasks[t].agent]

\* The WITH RECURSIVE walk over parent_task_id: the least set that holds t
\* and the parent of each of its members.
AncestorClosed(S) ==
    \A x \in S : tasks[x].parent # NoTask => tasks[x].parent \in S
Ancestors(t) ==
    {x \in Task : \A S \in SUBSET Task : (t \in S /\ AncestorClosed(S)) => x \in S}

-----------------------------------------------------------------------------
(* Pieces that several functions share.                                    *)

\* maybe_complete_session on the session table ss once the task table is tk.
MaybeComplete(s, tk, ss) ==
    IF ss[s].status # "open" \/ \E x \in Task : tk[x].sess = s /\ tk[x].status \in Open
    THEN ss
    ELSE IF ss[s].root = NoTask /\ \E x \in Task : tk[x].sess = s /\ tk[x].status = "failed"
    THEN [ss EXCEPT ![s].status = "failed"]
    ELSE [ss EXCEPT ![s].status = "completed",
                    ![s].final = IF ss[s].root = NoTask THEN @ ELSE ss[s].root]

\* Marking a call row lost, and dropping its job.
Lost(c) == IF c \in jobs THEN [calls[c] EXCEPT !.st = "lost"] ELSE NoCall
Harvest(c) == calls' = [calls EXCEPT ![c] = NoCall] /\ jobs' = jobs \ {c}

\* Variant: the session is not looked at when a task fails.
FailQuietly(t, step) ==
    /\ tasks' = [tasks EXCEPT ![t].status = "failed", ![t].steps = @ + step,
                              ![t].errs = @ + 1]
    /\ UNCHANGED sessions

\* A task and its session when the task fails for good.
Fail(t, step) ==
    /\ tasks' = [tasks EXCEPT ![t].status = "failed", ![t].steps = @ + step,
                              ![t].errs = @ + 1]
    /\ sessions' = MaybeComplete(tasks[t].sess, tasks', sessions)

\* The agent_inactive guard of fn_submit_result and fn_next_step.
FailInactive(t) == ~active[tasks[t].agent] /\ Fail(t, 0)

\* fn_submit_result with type 'error'; the task ends up running or failed.
SubmitError(t) ==
    /\ active[tasks[t].agent]
    /\ \/ /\ tasks[t].errs + 1 > MaxRetries
          /\ Fail(t, 1)
       \/ /\ tasks[t].errs + 1 <= MaxRetries
          /\ tasks' = [tasks EXCEPT ![t].status = "running",
                                    ![t].steps = @ + 1, ![t].errs = @ + 1]
          /\ UNCHANGED sessions

\* Variant: a rejected reply does not count as a step.
RejectUncounted(t) ==
    /\ tasks' = [tasks EXCEPT ![t].errs = @ + 1]
    /\ UNCHANGED sessions

\* Branches of fn_submit_result that leave the task running.
Advance(t) ==
    tasks' = [tasks EXCEPT ![t].steps = @ + 1] /\ UNCHANGED sessions
Reject(t) ==
    /\ tasks' = [tasks EXCEPT ![t].steps = @ + 1, ![t].errs = @ + 1]
    /\ UNCHANGED sessions

-----------------------------------------------------------------------------
(* Operators and chat: sessions, approvals, agents, policies.              *)

NewTask(s, a, p, d) ==
    [NoTaskRow EXCEPT !.status = "queued", !.sess = s, !.agent = a,
                      !.parent = p, !.depth = d]

\* fn_create_session.
CreateSession(s, t, a) ==
    /\ NextSession(s) /\ NextTask(t)
    /\ active[a]
    /\ sessions' = [sessions EXCEPT ![s].status = "open", ![s].agent = a]
    /\ tasks' = [tasks EXCEPT ![t] = NewTask(s, a, NoTask, 0)]
    /\ UNCHANGED <<approvals, calls, jobs, active, cap>>

\* fn_continue_session: only an open root task blocks the next turn.
ContinueSession(s, t) ==
    /\ sessions[s].status # "absent" /\ NextTask(t)
    /\ active[sessions[s].agent]
    /\ ~ \E x \in Task : /\ tasks[x].sess = s /\ tasks[x].parent = NoTask
                         /\ tasks[x].status \in Open
    /\ sessions' = [sessions EXCEPT ![s].status = "open"]
    /\ tasks' = [tasks EXCEPT ![t] = NewTask(s, sessions[s].agent, NoTask, 0)]
    /\ UNCHANGED <<approvals, calls, jobs, active, cap>>

\* Variant: pending approvals survive the cancel.
CancelSessionKeepsApprovals(s) ==
    /\ sessions[s].status # "absent"
    /\ tasks' = [t \in Task |->
          IF tasks[t].sess = s /\ tasks[t].status \in Open
          THEN [tasks[t] EXCEPT !.status = "cancelled", !.steps = @ + 1]
          ELSE tasks[t]]
    /\ calls' = [c \in Call |->
          IF /\ calls[c].st \in Pending /\ calls[c].kind # "body"
             /\ tasks[calls[c].task].sess = s
          THEN Lost(c) ELSE calls[c]]
    /\ sessions' = IF sessions[s].status = "open"
                   THEN [sessions EXCEPT ![s].status = "cancelled"] ELSE sessions
    /\ UNCHANGED <<approvals, jobs, active, cap>>

\* fn_cancel_session: body calls are left as they are.
CancelSession(s) ==
    /\ sessions[s].status # "absent"
    /\ tasks' = [t \in Task |->
          IF tasks[t].sess = s /\ tasks[t].status \in Open
          THEN [tasks[t] EXCEPT !.status = "cancelled", !.steps = @ + 1]
          ELSE tasks[t]]
    /\ calls' = [c \in Call |->
          IF /\ calls[c].st \in Pending /\ calls[c].kind # "body"
             /\ tasks[calls[c].task].sess = s
          THEN Lost(c) ELSE calls[c]]
    /\ approvals' = [t \in Task |-> IF tasks[t].sess = s THEN 0 ELSE approvals[t]]
    /\ sessions' = IF sessions[s].status = "open"
                   THEN [sessions EXCEPT ![s].status = "cancelled"] ELSE sessions
    /\ UNCHANGED <<jobs, active, cap>>

\* fn_decide_approval on a pending approval of t.
DecideApproval(t, accept) ==
    /\ approvals[t] > 0
    /\ approvals' = [approvals EXCEPT ![t] = @ - 1]
    /\ \/ /\ tasks[t].status # "waiting_human"
          /\ UNCHANGED <<tasks, sessions>>
       \/ /\ tasks[t].status = "waiting_human" /\ accept
          /\ tasks' = [tasks EXCEPT ![t].status = "queued", ![t].steps = @ + 1]
          /\ UNCHANGED sessions
       \/ /\ tasks[t].status = "waiting_human" /\ ~accept
          /\ tasks' = [tasks EXCEPT ![t].status = "failed", ![t].steps = @ + 1]
          /\ sessions' = MaybeComplete(tasks[t].sess, tasks', sessions)
    /\ UNCHANGED <<calls, jobs, active, cap>>

\* fn_set_agent_active.
SetAgentActive(a, b) ==
    /\ active' = [active EXCEPT ![a] = b]
    /\ UNCHANGED <<tasks, sessions, approvals, calls, jobs, cap>>

\* fn_set_policy, the field the scheduler reads.
SetPolicy(a, n) ==
    /\ cap' = [cap EXCEPT ![a] = n]
    /\ UNCHANGED <<tasks, sessions, approvals, calls, jobs, active>>

-----------------------------------------------------------------------------
(* fn_dispatch_tasks, one iteration, with the fn_next_step it calls.       *)

\* Variant: function and procedure calls do not hold the next turn back.
DispatchableIgnoringBodies(t) ==
    /\ tasks[t].status \in {"queued", "running"}
    /\ ~ \E c \in Call : calls[c].task = t /\ calls[c].st \in Pending /\ calls[c].kind # "body"
    /\ SlotFree(t)

Dispatchable(t) ==
    /\ tasks[t].status \in {"queued", "running"}
    /\ ~PendingCall(t)
    /\ SlotFree(t)

NextStepStops(t) ==
    /\ Dispatchable(t)
    /\ ~active[tasks[t].agent] \/ tasks[t].steps >= MaxSteps
    /\ Fail(t, 0)
    /\ UNCHANGED <<approvals, calls, jobs, active, cap>>

DispatchLlm(t, c) ==
    /\ Dispatchable(t)
    /\ active[tasks[t].agent] /\ tasks[t].steps < MaxSteps
    /\ NextCall(c)
    /\ tasks' = [tasks EXCEPT ![t].status = "running", ![t].turns = @ + 1]
    /\ calls' = [calls EXCEPT ![c] = [st |-> "queued", task |-> t, kind |-> "llm"]]
    /\ UNCHANGED <<sessions, approvals, jobs, active, cap>>

\* build_llm_http raised, or fn_next_step raised on a running task.
DispatchFails(t) ==
    /\ Dispatchable(t)
    /\ tasks[t].steps < MaxSteps
    /\ SubmitError(t)
    /\ UNCHANGED <<approvals, calls, jobs, active, cap>>

-----------------------------------------------------------------------------
(* The worker: claiming calls, losing them, and handing in results.        *)

\* fn_claim_outbound, fn_claim_sql, fn_claim_function_calls and
\* fn_claim_procedure_calls; the row becomes a job of the worker.
Claim(c) ==
    /\ calls[c].st = "queued" /\ tasks[calls[c].task].status = "running"
    /\ calls' = [calls EXCEPT ![c].st = "in_flight"]
    /\ jobs' = jobs \union {c}
    /\ UNCHANGED <<tasks, sessions, approvals, active, cap>>

\* The process dies and is restarted: its memory is empty.
WorkerCrash ==
    /\ jobs' = {}
    /\ calls' = [c \in Call |-> IF calls[c].st = "lost" THEN NoCall ELSE calls[c]]
    /\ UNCHANGED <<tasks, sessions, approvals, active, cap>>

\* The transaction that would hand in the result is abandoned.
SubmitAbandoned(c) ==
    /\ c \in jobs
    /\ jobs' = jobs \ {c}
    /\ calls' = [calls EXCEPT ![c] = IF @.st = "lost" THEN NoCall ELSE @]
    /\ UNCHANGED <<tasks, sessions, approvals, active, cap>>

\* The fence: a result for a call that is no longer in flight.
CompleteStale(c) ==
    /\ c \in jobs /\ calls[c].st # "in_flight"
    /\ Harvest(c)
    /\ UNCHANGED <<tasks, sessions, approvals, active, cap>>

\* The task is no longer running: the result is recorded and skipped.
CompleteSkipped(c) ==
    /\ c \in jobs /\ calls[c].st = "in_flight"
    /\ tasks[calls[c].task].status # "running"
    /\ Harvest(c)
    /\ UNCHANGED <<tasks, sessions, approvals, active, cap>>

\* Variant: the task's status is not read again.
AnsweredAnyStatus(c) == c \in jobs /\ calls[c].st = "in_flight"

Answered(c) ==
    /\ c \in jobs /\ calls[c].st = "in_flight"
    /\ tasks[calls[c].task].status = "running"

CompleteInactive(c) ==
    /\ Answered(c)
    /\ FailInactive(calls[c].task)
    /\ Harvest(c)
    /\ UNCHANGED <<approvals, active, cap>>

\* An HTTP status or an execution error becomes an 'error' payload.
CompleteError(c) ==
    /\ Answered(c)
    /\ SubmitError(calls[c].task)
    /\ Harvest(c)
    /\ UNCHANGED <<approvals, active, cap>>

\* function_result and procedure_result.
CompleteResult(c) ==
    /\ Answered(c) /\ calls[c].kind # "llm"
    /\ active[tasks[calls[c].task].agent]
    /\ Advance(calls[c].task)
    /\ Harvest(c)
    /\ UNCHANGED <<approvals, active, cap>>

-----------------------------------------------------------------------------
(* fn_submit_result with type 'llm_response': one action per reply.        *)

Reply(c, r) ==
    /\ Answered(c) /\ calls[c].kind = "llm"
    /\ active[tasks[calls[c].task].agent]
    /\ r \in Replies

ReplyRejected(c) ==
    /\ Reply(c, "rejected")
    /\ Reject(calls[c].task)
    /\ Harvest(c)
    /\ UNCHANGED <<approvals, active, cap>>

\* An applied propose_fix may deactivate an agent in the same transaction.
ReplyNoted(c) ==
    /\ Reply(c, "noted")
    /\ Advance(calls[c].task)
    /\ Harvest(c)
    /\ \/ UNCHANGED active
       \/ \E b \in Toggled : active' = [active EXCEPT ![b] = FALSE]
    /\ UNCHANGED <<approvals, cap>>

\* The handler threw: fn_complete_outbound keeps the harvest and drops the
\* handler's writes, the step included.
ReplyRaises(c) ==
    /\ Reply(c, "raises")
    /\ \A x \in Task : tasks[x].raises < MaxRaises
    /\ tasks' = [tasks EXCEPT ![calls[c].task].raises = @ + 1]
    /\ Harvest(c)
    /\ UNCHANGED <<sessions, approvals, active, cap>>

ReplyFinal(c) ==
    LET t == calls[c].task
        s == tasks[t].sess
    IN  /\ Reply(c, "final_answer")
        /\ tasks' = [tasks EXCEPT ![t].status = "completed", ![t].steps = @ + 1]
        /\ sessions' = MaybeComplete(s, tasks',
              [sessions EXCEPT ![s].final = t,
                               ![s].root = IF tasks[t].parent = NoTask THEN t ELSE @])
        /\ Harvest(c)
        /\ UNCHANGED <<approvals, active, cap>>

\* execute_sql, call_function, run_procedure, search_agents, recall.
ReplyCall(c, d, k) ==
    /\ k \in CallReply /\ Reply(c, k)
    /\ NextCall(d)
    /\ Advance(calls[c].task)
    /\ calls' = [calls EXCEPT ![c] = NoCall,
                    ![d] = [st |-> "queued", task |-> calls[c].task, kind |-> k]]
    /\ jobs' = jobs \ {c}
    /\ UNCHANGED <<approvals, active, cap>>

\* Variant: only a direct self-delegation is a cycle.
MayDelegateNoWalk(t, b) ==
    /\ active[b]
    /\ <<tasks[t].agent, b>> \in Permitted
    /\ tasks[t].depth + 1 <= MaxDepth
    /\ tasks[t].agent # b
    /\ Cardinality({x \in Task : tasks[x].sess = tasks[t].sess}) < MaxSessionTasks

\* The five checks of 'delegate' on a target agent b.
MayDelegate(t, b) ==
    /\ active[b]
    /\ <<tasks[t].agent, b>> \in Permitted
    /\ tasks[t].depth + 1 <= MaxDepth
    /\ \A x \in Ancestors(t) : tasks[x].agent # b
    /\ Cardinality({x \in Task : tasks[x].sess = tasks[t].sess}) < MaxSessionTasks

ReplyDelegate(c, x, b, wait) ==
    LET t == calls[c].task
        child == NewTask(tasks[t].sess, b, t, tasks[t].depth + 1)
    IN  /\ Reply(c, IF wait THEN "delegate_wait" ELSE "delegate")
        /\ NextTask(x)
        /\ MayDelegate(t, b)
        /\ tasks' = [tasks EXCEPT ![x] = child, ![t].steps = @ + 1,
                        ![t].status = IF wait THEN "running" ELSE "completed"]
        /\ sessions' = [sessions EXCEPT ![tasks[t].sess].root =
                           IF ~wait /\ tasks[t].parent = NoTask THEN NoTask ELSE @]
        /\ Harvest(c)
        /\ UNCHANGED <<approvals, active, cap>>

ReplyDelegateRefused(c, b) ==
    /\ Reply(c, "delegate") \/ Reply(c, "delegate_wait")
    /\ ~MayDelegate(calls[c].task, b)
    /\ Reject(calls[c].task)
    /\ Harvest(c)
    /\ UNCHANGED <<approvals, active, cap>>

ReplyAwaitHuman(c) ==
    LET t == calls[c].task
    IN  /\ Reply(c, "await_human")
        /\ tasks' = [tasks EXCEPT ![t].status = "waiting_human", ![t].steps = @ + 1]
        /\ approvals' = [approvals EXCEPT ![t] = @ + 1]
        /\ Harvest(c)
        /\ UNCHANGED <<sessions, active, cap>>

ReplyAwaitChildren(c) ==
    LET t == calls[c].task
    IN  /\ Reply(c, "await_children")
        /\ \/ /\ ~OpenChild(t)
              /\ Reject(t)
           \/ /\ OpenChild(t)
              /\ tasks' = [tasks EXCEPT ![t].status = "waiting_children",
                                        ![t].steps = @ + 1]
              /\ UNCHANGED sessions
        /\ Harvest(c)
        /\ UNCHANGED <<approvals, active, cap>>

-----------------------------------------------------------------------------
(* fn_watchdog: one action per sweep, on one row.                          *)

\* Variants: a mutating call is retried like any other; only calls of the
\* live worker are swept.
CallTimeoutRetries(c) ==
    LET t == calls[c].task
    IN  /\ calls[c].st = "in_flight"
        /\ calls' = [calls EXCEPT ![c] = Lost(c)]
        /\ \/ /\ tasks[t].status # "running"
              /\ UNCHANGED <<tasks, sessions, approvals>>
           \/ /\ tasks[t].status = "running"
              /\ FailInactive(t) \/ SubmitError(t)
              /\ UNCHANGED approvals
        /\ UNCHANGED <<jobs, active, cap>>
CallTimeoutLiveOnly(c) ==
    LET t == calls[c].task
    IN  /\ calls[c].st = "in_flight" /\ c \in jobs
        /\ calls' = [calls EXCEPT ![c] = Lost(c)]
        /\ \/ /\ tasks[t].status # "running"
              /\ UNCHANGED <<tasks, sessions, approvals>>
           \/ /\ tasks[t].status = "running" /\ calls[c].kind = "http_write"
              /\ tasks' = [tasks EXCEPT ![t].status = "waiting_human"]
              /\ approvals' = [approvals EXCEPT ![t] = @ + 1]
              /\ UNCHANGED sessions
           \/ /\ tasks[t].status = "running" /\ calls[c].kind # "http_write"
              /\ FailInactive(t) \/ SubmitError(t)
              /\ UNCHANGED approvals
        /\ UNCHANGED <<jobs, active, cap>>

\* An in-flight call whose answer is overdue.  A mutating HTTP call may have
\* taken effect, so its task waits for a human; any other is an error.
CallTimeout(c) ==
    LET t == calls[c].task
    IN  /\ calls[c].st = "in_flight"
        /\ calls' = [calls EXCEPT ![c] = Lost(c)]
        /\ \/ /\ tasks[t].status # "running"
              /\ UNCHANGED <<tasks, sessions, approvals>>
           \/ /\ tasks[t].status = "running" /\ calls[c].kind = "http_write"
              /\ tasks' = [tasks EXCEPT ![t].status = "waiting_human"]
              /\ approvals' = [approvals EXCEPT ![t] = @ + 1]
              /\ UNCHANGED sessions
           \/ /\ tasks[t].status = "running" /\ calls[c].kind # "http_write"
              /\ FailInactive(t) \/ SubmitError(t)
              /\ UNCHANGED approvals
        /\ UNCHANGED <<jobs, active, cap>>

ExpireApproval(t) ==
    /\ approvals[t] > 0
    /\ approvals' = [approvals EXCEPT ![t] = @ - 1]
    /\ \/ /\ tasks[t].status # "waiting_human"
          /\ UNCHANGED <<tasks, sessions>>
       \/ /\ tasks[t].status = "waiting_human"
          /\ tasks' = [tasks EXCEPT ![t].status = "failed", ![t].steps = @ + 1]
          /\ sessions' = MaybeComplete(tasks[t].sess, tasks', sessions)
    /\ UNCHANGED <<calls, jobs, active, cap>>

\* max_turn_seconds: body calls and pending approvals are left as they are.
TurnTimeout(t) ==
    /\ tasks[t].status \in Holding
    /\ tasks[t].agent \in TurnLimited
    /\ Fail(t, 1)
    /\ calls' = [c \in Call |->
          IF calls[c].task = t /\ calls[c].st \in Pending /\ calls[c].kind # "body"
          THEN Lost(c) ELSE calls[c]]
    /\ UNCHANGED <<approvals, jobs, active, cap>>

\* Variants: the first child to end wakes the parent; a failed child does not.
WakeParentOnFirst(t) ==
    /\ tasks[t].status = "waiting_children"
    /\ \E x \in Task : tasks[x].parent = t /\ tasks[x].status \in Terminal
    /\ tasks' = [tasks EXCEPT ![t].status = "queued", ![t].steps = @ + 1]
    /\ UNCHANGED <<sessions, approvals, calls, jobs, active, cap>>
WakeParentOnSuccess(t) ==
    /\ tasks[t].status = "waiting_children"
    /\ \A x \in Task : tasks[x].parent = t => tasks[x].status = "completed"
    /\ tasks' = [tasks EXCEPT ![t].status = "queued", ![t].steps = @ + 1]
    /\ UNCHANGED <<sessions, approvals, calls, jobs, active, cap>>

WakeParent(t) ==
    /\ tasks[t].status = "waiting_children"
    /\ ~OpenChild(t)
    /\ tasks' = [tasks EXCEPT ![t].status = "queued", ![t].steps = @ + 1]
    /\ UNCHANGED <<sessions, approvals, calls, jobs, active, cap>>

-----------------------------------------------------------------------------
OperatorStep ==
    \/ \E s \in Session, t \in Task, a \in Agent : CreateSession(s, t, a)
    \/ \E s \in Session, t \in Task : ContinueSession(s, t)
    \/ \E s \in Session : CancelSession(s)
    \/ \E t \in Task, accept \in BOOLEAN : DecideApproval(t, accept)
    \/ \E a \in Toggled, b \in BOOLEAN : SetAgentActive(a, b)
    \/ \E a \in Agent, n \in Caps : SetPolicy(a, n)

DispatchStep(t) ==
    \/ NextStepStops(t)
    \/ \E c \in Call : DispatchLlm(t, c)
    \/ DispatchFails(t)

ReplyStep(c) ==
    \/ ReplyRejected(c)
    \/ ReplyNoted(c)
    \/ ReplyRaises(c)
    \/ ReplyFinal(c)
    \/ \E d \in Call, k \in Kind : ReplyCall(c, d, k)
    \/ \E x \in Task, b \in Agent, wait \in BOOLEAN : ReplyDelegate(c, x, b, wait)
    \/ \E b \in Agent : ReplyDelegateRefused(c, b)
    \/ ReplyAwaitHuman(c)
    \/ ReplyAwaitChildren(c)

CompleteStep(c) ==
    \/ CompleteStale(c)
    \/ CompleteSkipped(c)
    \/ CompleteInactive(c)
    \/ CompleteError(c)
    \/ CompleteResult(c)
    \/ ReplyStep(c)

WatchdogStep ==
    \/ \E c \in Call : CallTimeout(c)
    \/ \E t \in Task : ExpireApproval(t) \/ TurnTimeout(t) \/ WakeParent(t)

WorkerStep ==
    \/ \E t \in Task : DispatchStep(t)
    \/ \E c \in Call : Claim(c) \/ CompleteStep(c) \/ SubmitAbandoned(c)
    \/ WatchdogStep
    \/ WorkerCrash

Next == OperatorStep \/ WorkerStep

Spec == Init /\ [][Next]_vars

\* What the running system guarantees.  The worker's loop calls every sweep
\* on each tick, an HTTP request ends within HTTP_TIMEOUT, and a timeout, an
\* approval's expiry or a turn's wall clock is reached in the end.  Nothing
\* is assumed of operators.
Fairness ==
    /\ \A t \in Task : /\ WF_vars(DispatchStep(t)) /\ WF_vars(ExpireApproval(t))
                       /\ WF_vars(TurnTimeout(t)) /\ WF_vars(WakeParent(t))
    /\ \A c \in Call : /\ WF_vars(Claim(c)) /\ WF_vars(CompleteStep(c))
                       /\ WF_vars(CallTimeout(c))

FairSpec == Spec /\ Fairness

-----------------------------------------------------------------------------
(* Properties.                                                             *)

\* A task never has two requests outstanding, over all four call tables
\* together: fn_dispatch_tasks asks the model only when no call is queued or
\* in flight, and a reply queues its call in the transaction that harvests
\* the one it answers.
OnePendingCall ==
    \A c, d \in Call :
        /\ calls[c].st \in Pending /\ calls[d].st \in Pending
        /\ calls[c].task = calls[d].task
        => c = d

\* Whenever a task stops running, its outbound and SQL calls stop with it:
\* a queued or in-flight one always belongs to a running task.  A function
\* or procedure call may outlive its task, but never that of a task that
\* waits or is queued again.
CallsFollowTask ==
    \A c \in Call : calls[c].st \in Pending =>
        \/ tasks[calls[c].task].status = "running"
        \/ calls[c].kind = "body" /\ tasks[calls[c].task].status \in Terminal

\* Both: the worker never works on two requests of a task, or for a task that
\* has stopped, except for a body that nothing can call back.
CallsInStep == OnePendingCall /\ CallsFollowTask

\* A task waits for a human exactly while one approval that can release it
\* is pending; the only other pending approvals are those the turn timeout
\* left behind on a failed task.
ApprovalReleases ==
    \A t \in Task :
        /\ approvals[t] <= 1
        /\ tasks[t].status = "waiting_human" => approvals[t] = 1
        /\ approvals[t] = 1 => tasks[t].status \in {"waiting_human", "failed"}

\* A session is open exactly while one of its tasks is: no terminal
\* transition forgets maybe_complete_session, and none closes it early. One
\* that is reported as completed has an answer to show.
SessionTracksTasks ==
    \A s \in Session :
        /\ sessions[s].status = "open" <=>
               \E t \in Task : tasks[t].sess = s /\ tasks[t].status \in Open
        /\ sessions[s].status = "completed" =>
               /\ sessions[s].final # NoTask
               /\ tasks[sessions[s].final].sess = s
               /\ tasks[sessions[s].final].status = "completed"

\* A delegation chain stays within its session and depth and never visits
\* an agent twice, however turns and replies of its tasks interleave, and
\* delegation alone never grows a session beyond max_session_tasks.
DelegationChain ==
    /\ \A t \in Task : tasks[t].parent # NoTask =>
           /\ tasks[t].depth = tasks[tasks[t].parent].depth + 1
           /\ tasks[t].depth <= MaxDepth
           /\ tasks[t].sess = tasks[tasks[t].parent].sess
           /\ \A x \in Ancestors(t) \ {t} : tasks[x].agent # tasks[t].agent
    /\ \A s \in Session :
           Cardinality({t \in Task : tasks[t].sess = s /\ tasks[t].parent # NoTask})
               < MaxSessionTasks

\* max_steps bounds what a task costs: it asks the model at most max_steps
\* times, plus once for each reply whose handling threw. step_count overshoots
\* it by at most two: a call's result, a decision or a wake-up after the last
\* turn, then a cancel or a timeout.
TurnBudget ==
    \A t \in Task :
        /\ tasks[t].turns <= MaxSteps + tasks[t].raises
        /\ tasks[t].steps <= MaxSteps + 2

\* Does not hold (README, Disagreements): the same bound as the policy's comment
\* states it, without that allowance.
TurnsWithinMaxSteps == \A t \in Task : tasks[t].turns <= MaxSteps

\* A finished task never changes again: not by a late result, a watchdog
\* sweep, an approval decided too late, a child or a cancel.
TerminalFinal ==
    [][\A t \in Task : tasks[t].status \in Terminal => tasks'[t] = tasks[t]]_vars

\* Work starts only within the agent's cap, even while an operator changes
\* the cap: a step that adds an active task leaves at most cap of them.
CapOnGrowth ==
    [][\A a \in Agent :
          Cardinality(HoldingOf(a)') > Cardinality(HoldingOf(a))
              => Cardinality(HoldingOf(a)') <= cap'[a]]_vars

\* A task resumes from waiting only for its reason: a human's answer to its
\* own approval, or the end of every child.
ResumesForReason ==
    [][\A t \in Task : tasks'[t].status \in {"queued", "running"} =>
          /\ tasks[t].status = "waiting_human" => approvals'[t] < approvals[t]
          /\ tasks[t].status = "waiting_children" => ~OpenChild(t)]_vars

\* A mutating HTTP call that is written off, its worker having handed nothing
\* in, may have taken effect: whoever writes it off stops its task with it, and
\* by ResumesForReason only a human lets the agent go on.  What the worker does
\* hand in is a result to the agent even where the HTTP thread itself got no
\* answer (status 0, outbound.rs:453), and the agent may then repeat the call
\* on its own (README, Disagreements).
LostWritePauses ==
    [][\A c \in Call :
          /\ calls[c].kind = "http_write" /\ calls[c].st = "in_flight"
          /\ calls'[c].st # "in_flight"
          /\ c \in jobs => c \in jobs'
          => tasks'[calls[c].task].status \notin {"queued", "running"}]_vars

\* Does not hold (README, Disagreements): parents that wait for children never
\* end up waiting for each other: while a task is open, the worker can move some
\* open task.
NoWaitCycle ==
    (\E t \in Task : tasks[t].status \in Open) =>
        \E t \in Task :
            \/ tasks[t].status \in {"queued", "running"} /\ (PendingCall(t) \/ SlotFree(t))
            \/ tasks[t].status = "waiting_human"
            \/ tasks[t].status = "waiting_children" /\ ~OpenChild(t)
            \/ tasks[t].status \in Holding /\ tasks[t].agent \in TurnLimited

\* A task that could be given a turn but for its agent's cap.
WaitsForSlot(t) ==
    tasks[t].status \in {"queued", "running"} /\ ~PendingCall(t) /\ ~SlotFree(t)

\* Every session that opens is closed in the end, though calls are lost, the
\* worker crashes, replies throw, caps change and humans stay away, unless a
\* task of an agent without max_turn_seconds keeps waiting for a slot.  Such a
\* task may wait for ever: for a parent that waits for it in turn (NoWaitCycle),
\* or for its like when a cap is lowered under them (RunningAdvances).  Throwing
\* replies repeat a turn without a limit in the code; here they end (MaxRaises).
SessionsClose ==
    (\A t \in Task : <>[](WaitsForSlot(t) => tasks[t].agent \in TurnLimited)) =>
        \A s \in Session : sessions[s].status = "open" ~> sessions[s].status # "open"

\* A claimed call is always resolved, its job's crash included.
ClaimsResolve ==
    \A c \in Call : calls[c].st = "in_flight" ~> calls[c].st # "in_flight"

\* A running task with nothing outstanding is always given its next turn, it
\* already holds the slot it needs, provided no agent stays above its cap.
\* (Where a cap is lowered below what is held, each task counts the others and
\* none is given a turn: README, Disagreements.)
RunningAdvances ==
    <>[](\A a \in Agent : Cardinality(HoldingOf(a)) <= cap[a]) =>
        \A t \in Task : (tasks[t].status = "running" /\ ~PendingCall(t))
                            ~> (tasks[t].status # "running" \/ PendingCall(t))

=============================================================================
