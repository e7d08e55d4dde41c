# Verification of Allgres

TLA+ models of the Allgres control plane, the TLC runs that check them on small
instances and the TLAPS proofs about them. Paths are relative to the repository
root, which the project calls `src/`: the SQL is under `src/sql/`, the Rust
crate under `src/src/`.

## The system

Allgres runs LLM agents inside PostgreSQL.

| Part | Code | State |
|---|---|---|
| Task engine | `sql/control_plane.sql`: `fn_dispatch_tasks`, `fn_next_step`, `fn_submit_result`, `fn_watchdog`, `maybe_complete_session` | `sessions`, `tasks`, `execution_logs`, `human_approvals` |
| Call queues | `fn_claim_*`, `fn_complete_*` | `outbound_calls`, `sql_calls`, `function_calls`, `procedure_calls` |
| Operators | `sql/operator_*.sql` | agents, policies, approvals, schedules, proposals |
| Runtime worker | `src/runtime_worker.rs`, `outbound.rs`, `sandbox.rs`, `function_exec.rs`, `procedure_exec.rs` | jobs in memory, HTTP threads, cancel flags, the statement timer |
| Function and procedure builds | `fn_claim_*_builds`, `fn_complete_*_build` | `functions`, `procedures` |
| Schedules | `fn_run_schedules`, `fn_run_schedule_now` | `schedules` |
| Self-improvement | proposals, policy history, fixes, model experiments | `policies`, `policy_history`, ... |
| Side queues | OAuth, agent embeddings, provider probes | `oauth_calls`, `embedding_calls`, `provider_probes` |
| Memory | `write_memory`, `maybe_trigger_compaction` | `memories` |
| Web worker | `src/web.rs`, `http_protocol.rs`, `rpc.rs` | connection threads, sliding windows, event tickets |
| Start | `src/lib.rs`, `config.rs` | registered workers, the RPC socket |
| SQL analysis | `src/sql_parser.rs` | none: a function of the statement |
| Accounts, RPC facade | `operator_accounts_and_chat.sql`, `grants_and_facade.sql` | users, web sessions |

A session is a conversation with one agent. Each of its turns is a root task; a
task may delegate to other agents, which makes child tasks. The worker's loop
sweeps the tables: it *dispatches* every task that has nothing outstanding by
queueing an LLM request, *claims* queued calls, performs them, and *submits*
what came back. A reply either ends the task, queues another call, delegates,
or pauses the task for a human or for its children. The *watchdog* writes off
calls that got no answer, expires approvals, ends turns that took too long and
wakes parents whose children have all ended.

## Modules

| Module | Contents |
|---|---|
| `TaskEngine` | the task state machine with its four call queues, approvals, the worker's memory and its crashes; all properties |
| `MCTaskEngine` | symmetry sets and permission relation for the TLC instances |
| `TaskEngineTypes` | types and references, what a step writes, approvals, resumes and sessions, proved |
| `TaskEngineProofs` | calls, finality, lost writes, the turn budget, the cap and delegation chains, proved |
| `Schedules` | recurring runs: the firing sweep, the operator functions, the three stop conditions, cost accrual; all properties |
| `MCSchedules` | the TLC instances |
| `SchedulesProofs` | budgets, limits, firing times and the sum of costs, proved |
| `SessionClose`, `MCSessionClose` | one session under concurrent connections, statement by statement |
| `SessionCloseProofs` | what the races cannot break and what a transaction alone repairs, proved |
| `OutboundCalls` | what the worker promises about a call: the abstract specification |
| `HttpPool`, `MCHttpPool` | the worker's loop, channels, HTTP threads and cancel flags; implements `OutboundCalls` |
| `HttpPoolProofs` | the count, the flags, at most once, and the refinement, proved |
| `HttpTransport`, `MCHttpTransport` | one HTTP thread over time: sliced waits, deadlines and stops |
| `SpiWorker`, `MCSpiWorker` | statements on the worker's own thread: subtransaction, timer, cancel signal |
| `FunctionBuilds`, `MCFunctionBuilds` | bodies that are edited, built and called |
| `SpiProofs` | what is built is current, proved for one worker; no statement runs or ends twice, and the refinement of `OutboundCalls`, proved |
| `WebWorker`, `MCWebWorker` | connections, threads and slots, and the path over the socket to the worker |
| `WebWorkerProofs` | slots and truthful answers, proved |
| `TextCodec` | quoting, decoding and truncating text, a step for each turn of a loop; its properties |
| `SqlAnalysis` | the reader of the parse-tree dump, as operators |
| `RequestRead` | reading one HTTP request in pieces; its properties |
| `Boundaries`, `MCBoundaries` | the three modules above, one of them at work; `AnalysisExact` |
| `BoundaryProofs` | the bounds of a wait of `HttpTransport`, the read of a request, and the conversions of text, proved |

Definitions marked *Mutant* or *Variant* are plausible mistakes that each
property was tried against; no run uses them.

The parts meet at rows. `TaskEngine` sees a call as a row that is claimed,
answered or lost at any moment. `HttpPool` and `SpiWorker` show what the worker
does in between, and `FunctionBuilds` when it may claim. `WebWorker` shares the
worker's thread with both: while that thread pumps, no request is served.
`HttpTransport` refines the place of a thread in `HttpPool` by a clock.
`SessionClose` takes the transactions of `TaskEngine` that end, add and cancel
tasks apart into statements.

### How TaskEngine corresponds to the code

Every SQL function runs in one transaction and is one action. A sweep is a loop
whose iterations each touch one row (`FOR UPDATE SKIP LOCKED`), and an iteration
is one step; a real sweep is a sequence of steps of the model. Time is not
modelled: a timeout may fire at any moment, which includes every race between a
timeout and a late answer.

* `tasks[t]` is the row: status, session, agent, parent, depth and
  `step_count`. `errs` counts its `execution_logs` rows of role `error`, which is
  what `fn_submit_result` compares with `max_retries`; `turns` counts its LLM
  rows; `raises` counts replies whose handling threw.
* `sessions[s].root` is the task whose `output.answer` `maybe_complete_session`
  would select, and `final` the task whose answer is `final_answer`.
* `approvals[t]` counts the pending `human_approvals` rows of the task.
* `calls[c]` is a row of one of the four call tables, told apart by `kind`.
  `http_write` stands for what the watchdog must not retry: HTTP calls with a
  method other than GET or HEAD, and MCP calls. `body` stands for
  `function_calls` and `procedure_calls`, which cancel and turn timeout leave
  alone. A row nobody can read any more returns to `NoCall`.
* `jobs` is the set of calls the live worker has claimed and not answered. A
  crash empties it; rows stay `in_flight` until the watchdog finds them.
* A reply of the model is a member of `Replies`. Actions that only write rows
  of other components (`propose_change`, `remember`, ...) are `noted`; the
  branches that log an error and go on are `rejected`; `raises` is a reply on
  which `fn_submit_result` throws, for example a `wait` that is not a boolean.

Abstractions: policy limits other than the cap are the same for all agents;
`started_at` is left out, because a task holding a slot has started; the session
that compaction opens from inside `fn_next_step` is an ordinary `CreateSession`;
whether a function is built, or an OAuth token fresh, only delays a claim.
`fn_next_step` throwing on a task that is still queued changes nothing and is a
stutter.

### How Schedules corresponds to the code

* `sched[s]` is a row of `schedules`: `is_active`, interval, `next_run_at`,
  `run_count`, `spent_cost_usd` and the three limits, `NoLimit` for NULL.
  `runs[r]` is a session with its `schedule_id` and the sum of `cost_usd` over its
  calls; deleting a schedule sets the reference to NULL and leaves the session.
* `Sweep(s)` is one iteration of `fn_run_schedules`: it switches a row off that
  has reached a limit, puts one off whose session cannot be created, or fires it.
  A row skipped because it is locked is visited by a later sweep.
* `Answer(r, c)` is the branch of `fn_complete_outbound` for a successful LLM
  call, with a cost or, when the model has no price, without one. Other answers
  do not touch a schedule.
* `now` is a bounded clock, because limits and firing times compare with it. A
  transaction reads it once.
* `ready[s]` is whether `fn_create_session` would accept the agent and the goal; an
  operator may change both at any time. Two schedules of one agent change it
  separately, which allows more behaviours than the code.
* `swept[s]` is no state of the program: it records how often the sweep fired,
  when last and at what interval, so that `NoBurst` can speak of two firings.

### How SessionClose corresponds to the code

`TaskEngine` takes transactions as steps. `SessionClose` takes one session apart
into statements, for the worker's thread and operators with connections of
their own.

* A row has its committed value (`task`, `session`), the transaction that has
  locked it (`lock`) and the value that transaction has written (`draft`). A
  statement sees what is committed when it begins and its own drafts; an update
  waits for the lock and tests its condition again on the newest version, as
  PostgreSQL does under READ COMMITTED.
* `EndTask`, `StoreAnswer`, `Count` and `Close` are the end of a task with its
  `maybe_complete_session`; `Delegate` is a hand-over; `CheckTurn`, `Reopen` and
  `InsertTurn` are `fn_continue_session`; `FindOpen`, `CancelTask` and
  `CloseCancelled` are `fn_cancel_session`, whose cursor keeps its snapshot.
* `Rollback` is a transaction that ends without effect: a raised exception, a
  deadlock that PostgreSQL breaks, a lost connection.
* `did` is no state of the program: it records for an open transaction what it
  is, which tasks its cursor found and whether it has had the session to
  itself, so that a property can speak of its commit.

### How the worker's modules correspond to the code

* `HttpPool`: `pc` walks through the loop of `allgres_runtime_main`: submit the
  results, copy the ids of registered calls, look their rows up, set the flags,
  then the four claims in their order. `batch`, `jobs`, `thr` and `results` are
  the places a job can be in, `flags` is `OUTBOUND_CANCEL_FLAGS` and `in_flight`
  the loop's own count. A thread takes a job, registers its flag, connects,
  transmits and returns; the flag is looked at only once there is a connection.
  `Cancel` stands for every write-off of a row: a stop and a turn timeout for
  outbound calls, a newer probe or embedding for older ones. A crash
  empties all of it and leaves the rows. `fn_watchdog` runs inside the first
  claim and may find any row old enough. OAuth, embedding and probe rows take
  the same path in tables of their own.
* `OutboundCalls` is what that promises: a row is queued, claimed, and done or
  lost for good, and its request leaves at most once, before or after the row is
  written off.
* `HttpTransport`: one thread and a clock. `deadline` and `until` are the ends of
  a wait of `CancellableTransport` and of the slice it is in. ureq and the peer
  are external: ureq passes what is left of `HTTP_TIMEOUT` to each wait, and a
  write that times out may have handed over a part.
* `SpiWorker`: `row` is what other sessions see and `seen` what the worker sees;
  they differ while a subtransaction is left open (`stuck`), because then
  nothing of the worker's commits. `timer` is the timer of
  `enable_timeout_after`, `signal` an interrupt that is noticed at the next
  opportunity, inside a subtransaction or outside any.
* `FunctionBuilds`: a body is a version number, `installed` the version of the
  last `CREATE OR REPLACE` that compiled, `at` the worker's place in the pumps
  of functions and procedures. A build of a body that compiles may still fail (a
  missing role, a cancel, a lock it cannot get); a failed build is not retried
  until the next edit, so the row then stays failed.
* `WebWorker`: connections, their threads and the slot counter; `rpc()` as an
  entry in `inbox` with a wait; the runtime worker serves the inbox between pumps.
  There is no clock: requests are served one after the other, and the statements
  of a request, of a pump and of what is harvested take any time, so a wait may
  run out at any moment. `answering` is a thread inside `respond()`, whose write
  has no timeout (`web.rs:242`): only its client ends it. `executed` and `cut`
  record what was committed and why a wait ended, for `AnswerMatchesEffect`.

### How Boundaries corresponds to the code

`TextCodec` and `RequestRead` take a turn of each loop of the code as a step;
`Boundaries` puts them and the analysis of a statement side by side, one of them
at work at a time.

* Text is a sequence of characters. For `percent_decode` and the decoder inside
  `parse_form_body`, which are the same loop, a character is a byte; `Decode` is
  one turn of it and `NextPiece` one piece that `split('&')` yields. What
  `from_utf8_lossy` does to bytes that are no UTF-8 is left out, here and where a
  request is parsed: what clients mean to send is text. `ByteOf` is what `from_str_radix` makes of two characters.
* `Requests` is what clients send, together with what they mean: each character
  in one of its spellings, and where in the text each spelling and each field
  begins. The percent-encoding of clients and of `send_form`, and PostgreSQL's
  scanner (`ReadQuoted`), are external and written from what the code relies on.
* `dollar_quote` is `FirstTag`, `PushX` for each time the tag clashes with the
  body, and `Quote`, which puts a line break on either side of the body: "exactly
  `body`, verbatim" (`function_exec.rs:52`) is meant up to these two, and
  `TextReadsBack` says so. `truncate_utf8` is `Truncate`, `StepBack` and `Cut` over a
  text whose bytes begin a character or continue one.
* `RequestRead`: `GiveUp`, `ReadPiece`, `ReadEnd` and `ReadFails` are the turns of
  the loop of `read_http_request`; a read takes up to `ReadTimeout` ticks and
  brings up to `Buffer` bytes, an end or an error. The header grammar is
  abstracted to the length that is announced, any `usize`. The sum it is compared
  in is one of `usize`: it wraps at `Word`, or panics where overflow is checked.
* `Analyze` is one step. A parse tree is a list of statements with relations,
  calls, CTEs and a literal, printed as `nodeToString` prints them. `Escaped` is
  what `outToken` escapes and `Delimiters` what `read_token` stops at; names may
  hold either, double quotes and the words the reader looks for.

## Runs

| Run | Instance | Shows |
|---|---|---|
| `engine_calls` | 1 agent, 2 tasks in 1 or 2 sessions, 2 call rows, cap 1 or 2, `max_steps` 2, `max_retries` 1 | calls and tasks stay in step, limits hold, finished is final, approvals and the cap |
| `engine_delegation` | 2 agents, 4 tasks, depth 2, `max_steps` 3 | bounded acyclic delegation; wake-ups; the session closes exactly with its last task |
| `engine_progress` | 2 agents, two tasks of two sessions or a parent and a child, caps that move, fair worker | sessions close, claims resolve, running tasks advance |
| `schedules` | 1 schedule changed at will, 2 sessions, `fn_pump` called at any time or never | limits, no bursts, costs |
| `schedules_worker` | the same with the worker's own loop and nobody calling `fn_pump` | *violation*: it stays due |
| `pool` | 3 calls of 3 tables, 1 thread, capacity 2, 1 crash | count, flags, at most once, refinement, stops of connected threads, resolution |
| `transport` | 2 jobs, timeout 7, slice 2, requests in 2 parts | waits end neither early nor too late, stops are noticed, jobs end |
| `spi` | a query, a build and a call, 2 cancels | rows end once and in the end; statements are bounded |
| `builds` | a function and a procedure, 3 versions, 2 calls, 2 crashes | what is built and called is current, and the row settles as built or failed |
| `web` | 3 connections, 2 threads, room for 2 calls in the socket, 1 crash or failed accept | threads, slots, truthful answers, and the end of every connection whose client takes its answer |
| `close` | 2 connections, 2 more turns, 2 delegations | what statement-level races and rollbacks cannot break, and what a transaction alone puts right |
| `boundaries` | bodies of up to 6 characters, texts of up to 9 bytes, requests of up to 3 fields, trees with up to 2 statements, clients that cut as they like | both sides of each conversion agree |

Bounds. Task and call identities are taken in order, as an INSERT would. Two
call rows suffice for one task, because a reply frees one row while it takes the
other; a late answer to a lost call is the second. `max_steps` 2 lets a turn end
in each way after an earlier one; `engine_delegation` needs 3 for a parent to
delegate twice and then wait. Four tasks are the smallest instance with a chain
of depth 2 and a follow-up turn. `MaxRaises` bounds the replies that throw; the
code has no such bound, and a model that throws for ever keeps its turn.
`Toggled` names the agents an operator deactivates, in `engine_calls` only. Two sessions of a schedule
are a firing and its successor; the clock reaches past a date, an interval and a
missed interval. Three calls for one thread fill the capacity, leave one job in
the channel and one row unclaimed; one crash is enough because it empties
everything. A timeout of 7 is no multiple of the slice 2, and its second half is
several slices long. Three connections for two threads leave one to be refused;
two rounds of an event stream are a first and a repeated call; a `Backlog` of 2
makes the third call wait for room, and one fault (`MaxFaults`) is a crash or a
failed accept at any point. The read of a request has a limit of 9 bytes for pieces of up to 3, and a deadline of 5 for
read timeouts of 2, so that either comes first; `Word` is 32, so that among its
lengths some fit, one exceeds the limit and one wraps; a body of 6 characters can hold both `$t$` and `$tx$`, so that the tag grows twice.

Deadlock checking is off where the system may stop because the instance is used
up: all jobs done (`transport`), all rows ended (`spi`), edits and calls used up
(`builds`), input converted (`boundaries`).

### Fairness

* `engine_progress`: the worker's loop calls the dispatcher, the claims and the
  watchdog on every tick, a request ends within `HTTP_TIMEOUT`, and deadlines
  pass: weak fairness of each of these per row. Operators, models and crashes are
  free. Replies that throw are bounded. `RunningAdvances` has the premise that
  from some moment on no agent holds more tasks than its cap, and `SessionsClose`
  that no task of an agent without `max_turn_seconds` waits for a slot for ever;
  see the disagreements below.
* `schedules_worker` assumes that the clock and the worker's loop go on, and not
  that someone calls `fn_pump`, which the repository nowhere does.
* `pool`: the loop and every thread go on. `EveryClaimResolved` adds peers that
  end within `HTTP_TIMEOUT` and a loop that comes to its sweep again and again;
  `CancelReaches`, for a thread that has its connection, holds with a silent peer
  and adds only that a lookup of the lost
  rows that can succeed again and again does succeed.
* `transport`: the thread and the clock go on; nothing is assumed of the peer.
* `spi`: the loop, the timer and the postmaster's restart go on.
  `EveryRowEnds` assumes that no build runs for ever, since builds have no timer,
  and that from some moment on no subtransaction is left open; see the
  disagreements below. Other statements need not return.
* `builds`, `web`: the worker's loop, the accept loop and the threads go on, and
  their statements end; crashes are free and bounded. Nothing makes a web client
  take its answer: `EveryConnectionEnds` speaks of the clients that do.

### Disagreements between code and comments

Where a comment or a document says more than the code does, the modules state
the sentence as a property marked *does not hold*, or a run leaves the case out
by a premise or by its instance. `schedules_worker` is kept as a run; the others
are reproduced as the third column says, and TLC finds each of them.

| What the code does | What is said | To reproduce |
|---|---|---|
| `fn_run_schedules` is called by `fn_pump` and `fn_pump` by nobody; the worker calls the watchdog, the dispatcher and the claims itself | every tick fires due schedules (`docs/task-orchestration.md`) | `schedules_worker` |
| The slot check counts the *other* active tasks also for a running task, so after a cap is lowered below the number running, none goes on (`control_plane.sql:6226`) | a running task "already holds" its slot (6223) | `RunningAdvances` without its premise, `engine_progress.cfg` |
| A waiting parent holds its slot and a queued child has none: two parents can wait for each other's slot for ever | "a stuck child is caught by the max_turn_seconds sweep" (7636) | `NoWaitCycle`, two sessions, two agents with cap 1 and four tasks; `SessionsClose` without its premise |
| A request that ends without an answer, a time-out included, is handed in with status 0 (`outbound.rs:453`) and fed back to the agent as an error, also when it mutates (`control_plane.sql:6919`), and the agent may send it again | such a call that never came back "pauses the task for a human to confirm instead of letting the agent retry blindly" (7342, `docs/security.md:155`) | `LostWritePauses` without its third conjunct, `engine_calls.cfg` |
| A reply that throws rolls its step back and the turn repeats (7166) | "max_steps bounds a runaway *loop*" (399) | `TurnsWithinMaxSteps`, `engine_calls.cfg` |
| One pump claims up to twice `HTTP_THREADS` calls (`runtime_worker.rs:333`) | "the maximum number of calls claimed per pump" (`lib.rs:45`) | `ClaimsWithinThreads`, `pool.cfg` with two rows of one table |
| A stop is not seen while a thread resolves a name or connects (`outbound.rs:166`) | "a "stop" click lands well under a second" (179) | `CancelReachesConnecting`, `pool.cfg` |
| Past its deadline a wait goes on once more, unsliced, for the caller's timeout (`outbound.rs:239`, 262) | a stop is "noticed promptly" (183) | `StopsPromptly`, `transport.cfg` |
| A slice that runs out inside a write is retried with the whole buffer (`outbound.rs:241`) | the transport delegates every write (183). What ureq has handed over by then is an assumption | `SentVerbatim`, `transport.cfg` |
| The age of a row counts from its claim, so it can be written off while its request waits or runs (`runtime_worker.rs:126`) | the watchdog's limit has a margin above `HTTP_TIMEOUT` (`control_plane.sql:7461`) | `OverBeforeWriteOff`, `transport.cfg` |
| A build arms no timer (`function_exec.rs:73`) | it is "bounded by `SQL_STATEMENT_TIMEOUT_MS`" (119) | `EveryRowEnds` without its first premise, `spi.cfg` |
| A body that raises leaves its timer armed; it later ends another statement or the worker (`function_exec.rs:166`) | an error does not end the worker (`sandbox.rs:49`) | `SurvivesErrors`, `spi.cfg` |
| A cancel that arrives outside the statement ends the worker (`operator_accounts_and_chat.sql:107`) | "the worker surviving via run_in_subtransaction" (97) | `SurvivesCancel`, `spi.cfg` |
| A closure that returns `Err` leaves its subtransaction open, and later work of the worker is not committed (`sandbox.rs:121`) | the row is picked up by `fn_watchdog` (228) | `EveryRowEnds` without its second premise, `spi.cfg` |
| From an edit until its build ends nothing is callable (`control_plane.sql:6528`) | "The previous build stays live and callable" (`operator_runtime_and_integrations.sql:871`) | `PreviousBuildCallable`, `builds.cfg` |
| A finished build is fenced by the status, not by the body (`control_plane.sql:6482`); two workers can confuse bodies | a stale result "is simply ignored" (6478) | `BuiltMatchesBody`, `builds.cfg` with `Workers = {w1, w2}` |
| A handler that panics keeps its slot (`web.rs:657`) | the bound is on threads (4) | `RefusedOnlyWhenFull`, `web.cfg` |
| A procedure's LLM request blocks the thread that serves the dashboard (`lib.rs:308`) | "a slow LLM can never stall the dashboard" (5) | the steps `GiveUp` of `WebWorker` while the worker pumps |
| Two follow-up messages at once open two turns (`operator_runtime_and_integrations.sql:90`) | the second "is rejected outright" (`docs/chat-and-models.md:54`) | `OneTurnAtATime`, `close.cfg` |
| A stop misses a task committed after its cursor's snapshot (`operator_accounts_and_chat.sql:157`) | it "cancels every open task" (`KNOWN_ISSUES.md:346`) | `ClosedMeansDone`, `close.cfg` |
| Two connections that end the last two tasks each see the other's as open; the session stays open (`control_plane.sql:2770`) | the last end completes the session (`selftest.sql:2848`) | the same |
| `h + want` wraps for lengths near the top of `usize`, and the read ends early (`http_protocol.rs:136`) | the loop reads until the announced body is there | `WholeBodyAlways`, `boundaries.cfg` |
| `outToken` leaves carriage returns, form feeds and inner double quotes of a name alone; `read_token` and the reader of strings stop at them. A name ending in a field's name is taken for the field (`sql_parser.rs:86`) | the reader takes the "whitespace bytes `outToken` treats specially" (56) to be every ASCII whitespace | `AllNamesExact`, `boundaries.cfg` |

## Proofs

Every safety invariant and action property that a passing run checks is proved
for every value of the constants, except `AnalysisExact` of `Boundaries`. A property is seldom inductive as it stands; what
follows says what it had to be joined with.

`TaskEngine`, for any sets of agents, sessions and calls, any finite set of
tasks and any limits within `RowsAssumption` and `LimitsAssumption` (identities
are distinct from the null references, limits are naturals; `max_steps`, the caps
and `max_session_tasks` are positive, which the tables check):

* `TypesHold`, `TypeCorrect`: every reachable state is well typed. `TypeOK` is not
  inductive, because handlers follow references; `TypeInv` adds that the session
  and the agent of an existing task, and the agent of an existing session, are
  not null, that a call row that is not free belongs to an existing task, and
  that the worker holds only calls that are in flight or written off. `Touch(t)`
  says what a piece of a handler may change, so that each handler is a
  combination of touched task and harvested call.
* `StepEffect` lists what any step does to tasks, sessions and approvals: it moves
  one task, inserts a root, hands over to a child, cancels a session, or writes
  none of them. The theorems that only look at these rows go through its cases
  and not through the actions.
* `ResumesAreReasoned`, `ApprovalsRelease`: from those cases. `ApprovalReleases` is
  inductive together with the types.
* `SessionsTrackTasks`: `SessionInv` adds what `maybe_complete_session` relies on:
  the root and the final answer of a session are completed tasks of that session,
  or null.
* `CallsSafe`: `CallsInStep`. Its two halves need each other: that two calls of a
  task never coexist rests on a task being answered only while it runs, and that
  a call follows its task rests on the harvested call having been the only one.
* `TerminalIsFinal` and `LostWritesPause`, action properties, one step per
  action. The second rests on `CallsSafe`: a lost mutating call can be found only
  on a running task. It is about calls that are written off with nothing handed
  in; `ResumesAreReasoned` says what lets the task go on.
* `TurnsAreBounded`: `BudgetInv` relates turns to steps. Without a model request
  outstanding a task has had no more turns than steps and throws together, with
  one outstanding at most one more; a request is outstanding only below
  `max_steps`, any other call and any wait at most at it. `CallsSafe` supplies that
  the answer belongs to the only request.
* `GrowthIsCapped`: the tasks that hold a slot grow only by the one that is
  dispatched, whose slot was counted in the same step.
* `ChainsAreSound`: `ChainInv` adds `Forest`: an absent row is blank, so nobody
  has it as a parent, a parent exists, and every session with a task has a root.
  `Ancestors` is a least closed set, and a new leaf changes nobody's but its own.
  The root is the one task by which delegations stay below `max_session_tasks`.

`Schedules`, for any set of schedules, any finite set of sessions and any
intervals, limits and costs within `ScheduleAssumption` (positive intervals and
limits, a clock of naturals):

* `BudgetsHold`: a step that leaves the limits of a schedule alone never leaves it
  active with its runs or its money used up, if it had some of both before. Both
  writes of `is_active` look at the row they leave behind.
* `NeverRunsPastLimit`: only the sweep and `run_now` add to `run_count`, each after
  the check.
* `NeverBursts`: from `NextAfterSweep`, which says that `next_run_at` is no earlier
  than the last firing plus the interval of that firing. It is inductive because
  an edit leaves `next_run_at` alone and a failed firing only moves it forward.
  `ScheduleInv` joins it with the types.
* `CostsAreConserved`: `CostInv` adds that a session names a schedule that is there
  and that an absent schedule has spent nothing. The sum over a set is a fold that
  picks an element at a time. That it exists, and what an added or changed element
  does to it (`CostExists`, `CostSplits`), is shown by taking a smallest
  counterexample (`LeastSet`), which needs no induction rule with a parameter.

`HttpPool`, for any finite sets of rows and threads and any number of crashes
(`PoolAssumption`):

* `CountIsExact`, `SentOnce`, `FlagsAreOwned`: from `PoolInv`, which joins the exact
  count with `OnePlace` (a call is in the batch, in one channel or with one
  thread, and its row is in flight or lost), `NotYetSent` (what has not reached a
  write has not been sent) and `FlagInv` (the map holds the flags of the calls
  being performed, and a set flag or a remembered id means a lost row). The count
  is about cardinalities of disjoint sets and needs `OnePlace` for each move.
* `LateAnswersChangeNothing`: an action property; a row that is done or lost does
  not change. It and `SentOnce` are what `OutboundCalls` promises; the run checks
  them through the refinement.
* `PoolImplementsOutboundCalls`: `Init` maps to the abstract `Init`, and under
  `PoolInv` each action maps to an abstract step or a stutter, with `pending`
  mapped to the places a request may still leave from.

`HttpTransport`, for any timeout, any slice no longer than it and any number of
jobs and pieces (`TransportAssumption`):

* `WaitsAreBounded`: `TransportInv` says where the deadline of a wait lies between
  the start of the call and twice `HTTP_TIMEOUT` (`DeadlineInv`), that a slice ends
  no later than the deadline and the unsliced rest exactly at the deadline plus
  the caller's timeout (`InnerInv`), and that a slice that began before the flag
  was set ends within `CANCEL_POLL_INTERVAL` of it (`FlagInv`).

`FunctionBuilds`, for any number of objects, versions, calls and crashes, under
`SingleWorker`, which the second-worker disagreement above shows to be needed:

* `BuiltIsCurrent` and `CallsAreConsistent`: from `BuildsInv`. While the row says
  'building', the version in the worker's hands is the row's body, nobody else
  marks the row built, and a claimed call finds its version installed.

`SpiWorker`, for any set of calls of any kinds (`SpiAssumption`):

* `NothingTwice`: that an end stays rests on `SpiInv`: the worker sees what is
  committed unless a subtransaction left open keeps its own writes from being
  committed. That a statement runs once rests on
  `ClaimedFirst`: a statement that was never claimed has not run, one that is
  claimed has not run yet, and a claim in hand is on record as in flight or lost.
* `SpiImplementsCalls`: with `pending` mapped to the claim in hand, every step of
  the worker and of the sessions around it is a step of `OutboundCalls` or a
  stutter, builds apart, which are claimed again by design. This, and that
  nothing runs twice, is said of behaviours in which no subtransaction is left
  open; the disagreement above is about the others.

`RequestRead`, for any head, limits, deadlines and buffer (`ReadAssumption`):

* `RequestsAreReadWell`: `ReadInv` adds that while the loop goes on the request is
  not complete and within `MAX_REQUEST_BYTES`, from which the last read is all that
  can come on top. That the body is whole is proved for lengths whose sum with
  the head is below `Word`, that the thread is freed and the memory bounded for all.

`TextCodec`, for texts, tags, requests and limits of any length
(`CodecAssumption`: `&` and `=` are no hex digits, a tag has neither a dollar nor a
line break, a character takes at most four bytes, and requests are what
`Joined` says):

* `TextIsReadBack`, for `dollar_quote`: `QuoteInv` says that the tag stays free of
  dollars and line breaks, however often it grows. The scanner then reads exactly
  the delimiter (`DelimiterFacts`), and between the two delimiters there is no
  third: inside the body the loop has excluded it, and across an edge it would
  have to contain a line break (`QuotedFacts`).
* `TextIsReadBack`, for queries and forms: `FieldInv` says at each step which field
  has been reached and what was collected from those before it (`Past`), and
  that the decoder has produced a prefix of the text meant and stands at the
  start of the next character's spelling (`Decoding`). The argument goes through
  what a spelling looks like: none holds `&` or `=` (`Clean`), so that a piece is a
  field and its first `=` the one between name and value (`FieldFacts`), and one
  turn of the decoder consumes exactly one (`Step`).
* `TruncationKeepsCharacters`: `TruncateInv` says that nothing between the cut and
  the limit is a boundary and that the cut is within three bytes of it.

None of this needs an induction over data: the loops are steps of the
specification, so that what they compute follows from an invariant, and the one
place that counts along a text, in which spelling a position lies (`Between`),
takes the least number of a set (`LeastNat`).

`WebWorker`, for any finite set of connections and any bounds (`WebAssumption`),
from one invariant, `WebInv`:

* `SlotsAreReturned`: `WEB_THREADS` is the number of slots held, those of handlers
  that panicked included (`SlotInv`).
* `AnswersAreTrue`: what is still in the socket was not executed, the reply under
  way says whether its call was, and a call whose thread has gone is there only
  because the wait was cut (`EffectInv`); a connection asks for its action once
  (`StageInv`).

`SessionClose`, for any finite set of connections and any set of tasks
(`CloseAssumption`):

* `EndsAreKept`: from `CloseInv`: a draft exists only under a lock, a task with a
  draft has not ended, and the session with a closing draft is open.
* `StopsTakeHold`: `StopInv` says that each task a stop's cursor found and has
  come to is locked by it, and cancelled or ended for it; and likewise the session
  once its own update is done. Nobody else can write such a row before the commit.
* `TurnsAreBounded`: a turn is checked, then inserted. `TurnCount` says that open
  turns and turns on their way together are at most one for each connection:
  a check passes only while none is open, and each connection has one on its way
  at most.
* `LoneTransactionsRepair`: `LoneInv` says of a transaction that has been alone
  that all others are idle, so that what its statements see is what its commit
  leaves, and for each statement it can be at what its drafts and the committed
  rows make together. Nothing is assumed of what earlier races committed.

Only model-checked:

* all liveness: `SessionsClose`, `ClaimsResolve`, `RunningAdvances`, `DueIsServed`,
  `CancelReaches`, `EveryClaimResolved`, `JobsEnd`, `EveryRowEnds`,
  `LastBodySettles` and `EveryConnectionEnds`. Liveness under fairness is out of
  the prover's reach;
* `AnalysisExact`: `analyze_dump` descends into nested text, and its model,
  `SqlAnalysis`, uses recursive operators, which the prover does not support.

## Not modelled

* Without a state machine, or pure input and output: seed data, configuration
  and environment variables, mock endpoints, the dashboard page, host statistics,
  the dispatch table of `dashboard_rpc`, the CSRF and exposure checks, the
  address guard of outbound calls (`GuardedResolver` and the range tests).
* Small state that is left out: the rate windows, the lockout and the event
  tickets of the web worker; accounts and web sessions; what memory, compaction,
  policies, proposals, fixes and experiments write. `TaskEngine` sees those
  writes as replies that are `noted` and operators that change caps.
* OAuth, embeddings and probes are modelled as rows of the pool, not by what is
  stored from their answers.
* Start: the registration of workers, the socket file and the orderly shutdown.
  Death and restart are actions of `HttpPool`, `SpiWorker`, `FunctionBuilds` and
  `WebWorker`.
* A panic of an HTTP thread: nothing on its path is meant to panic, and the pool
  has no code for it.
* Left to others: `fn_complete_outbound` and `fn_cancel_session` lock calls and
  tasks in opposite orders, which PostgreSQL's deadlock detector resolves; an
  answer to a client that takes nothing ends when TCP does.
