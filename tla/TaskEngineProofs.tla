-------------------------- MODULE TaskEngineProofs --------------------------
(***************************************************************************)
(* The safety of the task engine, proved for every instance: the inductive *)
(* invariant that ties call rows to the tasks they belong to and what      *)
(* follows from it, the budget of a task's turns, chains of delegation and *)
(* the caps on what runs at once.                                          *)
(***************************************************************************)
EXTENDS TaskEngineTypes

\* The two facts hold each other up: a harvested call was its task's only
\* one, so the task may leave 'running'; a task that is not running has no
\* call that a new one could be added to.
CallInv == OnePendingCall /\ CallsFollowTask

\* No call becomes pending, and a pending one keeps its task and kind.
Quiet ==
    \A c \in Call : calls'[c].st \in Pending =>
        /\ calls[c].st \in Pending /\ calls'[c].task = calls[c].task
        /\ calls'[c].kind = calls[c].kind

\* Every pending call's task is still in order after the step.
Followed ==
    \A c \in Call : calls'[c].st \in Pending =>
        \/ tasks'[calls'[c].task].status = tasks[calls'[c].task].status
        \/ tasks'[calls'[c].task].status = "running"
        \/ calls'[c].kind = "body" /\ tasks'[calls'[c].task].status \in Terminal

\* A step that adds no pending call and leaves the tasks of the others as
\* they need to be keeps CallInv.
LEMMA QuietCallInv ==
    ASSUME CallInv, Quiet, Followed
    PROVE  CallInv'
  <1>1. OnePendingCall'
    BY DEF CallInv, OnePendingCall, Quiet
  <1>2. CallsFollowTask'
    BY DEF CallInv, CallsFollowTask, Quiet, Followed
  <1> QED
    BY <1>1, <1>2 DEF CallInv

\* Harvesting adds no pending call.
LEMMA HarvestQuiet ==
    ASSUME TypeInv, NEW c \in Call, Harvest(c)
    PROVE  /\ Quiet
           /\ \A d \in Call : calls'[d].st \in Pending => d # c
  BY NullFacts DEF TypeInv, TypeOK, Harvest, Quiet, Pending

\* A task whose only pending call is harvested may change as it likes.
LEMMA HarvestCallInv ==
    ASSUME TypeInv, CallInv, NEW c \in Call, calls[c].st = "in_flight", Harvest(c),
           \A x \in Task : (x # calls[c].task /\ tasks[x].status # "absent") => tasks'[x] = tasks[x]
    PROVE  CallInv'
  <1>1. ASSUME NEW d \in Call, calls'[d].st \in Pending
        PROVE  calls'[d].task \in Task /\ calls'[d].task # calls[c].task
               /\ tasks[calls'[d].task].status # "absent"
    <2>1. d # c /\ calls[d].st \in Pending /\ calls'[d].task = calls[d].task
      BY <1>1, HarvestQuiet DEF Quiet
    <2>2. calls[d].task # calls[c].task
      BY <2>1 DEF CallInv, OnePendingCall, Pending
    <2> QED
      BY <2>1, <2>2 DEF TypeInv, References, Pending
  <1>2. Followed
    BY <1>1 DEF Followed
  <1> QED
    BY <1>2, HarvestQuiet, QuietCallInv

\* A task without a pending call may change as it likes.
LEMMA IdleCallInv ==
    ASSUME TypeInv, CallInv, NEW t \in Task, ~PendingCall(t), UNCHANGED calls,
           \A x \in Task : x # t => tasks'[x] = tasks[x]
    PROVE  CallInv'
  <1>1. Quiet
    BY DEF Quiet
  <1>2. Followed
    BY DEF Followed, PendingCall, TypeInv, References, Pending
  <1> QED
    BY <1>1, <1>2, QuietCallInv

-----------------------------------------------------------------------------
\* A waiting or queued task has no call outstanding.
LEMMA WaitingIdle ==
    ASSUME CallInv, NEW t \in Task, tasks[t].status \in {"queued", "waiting_human", "waiting_children"}
    PROVE  ~PendingCall(t)
  BY DEF CallInv, CallsFollowTask, PendingCall, Terminal

\* Every operator function keeps CallInv; a cancel loses the calls it strands.
LEMMA OperatorCallInv ==
    ASSUME TypeInv, CallInv, OperatorStep
    PROVE  CallInv'
  <1>1. ASSUME NEW t \in Task, tasks[t].status = "absent", UNCHANGED calls,
               \A x \in Task : x # t => tasks'[x] = tasks[x]
        PROVE  CallInv'
    <2>1. ~PendingCall(t)
      BY <1>1 DEF PendingCall, TypeInv, References, Pending
    <2> QED
      BY <1>1, <2>1, IdleCallInv
  <1>2. ASSUME NEW s \in Session, NEW t \in Task, NEW a \in Agent, CreateSession(s, t, a)
        PROVE  CallInv'
    <2>1. tasks[t].status = "absent" /\ UNCHANGED calls /\ \A x \in Task : x # t => tasks'[x] = tasks[x]
      BY <1>2 DEF CreateSession, NextTask, NextSession, TypeInv, TypeOK
    <2> QED
      BY <1>1, <2>1
  <1>3. ASSUME NEW s \in Session, NEW t \in Task, ContinueSession(s, t)
        PROVE  CallInv'
    <2>1. tasks[t].status = "absent" /\ UNCHANGED calls /\ \A x \in Task : x # t => tasks'[x] = tasks[x]
      BY <1>3 DEF ContinueSession, NextTask, TypeInv, TypeOK
    <2> QED
      BY <1>1, <2>1
  <1>4. ASSUME NEW s \in Session, CancelSession(s)
        PROVE  CallInv'
    <2>1. Quiet
      BY <1>4, NullFacts DEF CancelSession, Lost, Quiet, Pending, TypeInv, TypeOK, CallRow
    <2>2. ASSUME NEW c \in Call, calls'[c].st \in Pending
          PROVE  calls[c].kind = "body" \/ tasks[calls[c].task].sess # s
      BY <1>4, <2>2, NullFacts DEF CancelSession, Lost, Pending, TypeInv, TypeOK, CallRow
    <2>3. ASSUME NEW x \in Task
          PROVE  \/ tasks'[x].status = tasks[x].status
                 \/ tasks[x].sess = s /\ tasks'[x].status = "cancelled"
      BY <1>4 DEF CancelSession, TypeInv, TypeOK, TaskRow
    <2>4. ASSUME NEW c \in Call, calls'[c].st \in Pending
          PROVE  /\ calls'[c].task \in Task /\ calls'[c].task = calls[c].task
                 /\ calls'[c].kind = calls[c].kind
      BY <2>1, <2>4 DEF Quiet, TypeInv, References, Pending
    <2>5. Followed
      BY <2>2, <2>3, <2>4 DEF Followed, Terminal
    <2> QED
      BY <2>1, <2>5, QuietCallInv
  <1>5. ASSUME NEW t \in Task, NEW accept \in BOOLEAN, DecideApproval(t, accept)
        PROVE  CallInv'
    <2>1. CASE tasks[t].status = "waiting_human"
      <3>1. UNCHANGED calls /\ \A x \in Task : x # t => tasks'[x] = tasks[x]
        BY <1>5 DEF DecideApproval, TypeInv, TypeOK
      <3> QED
        BY <2>1, <3>1, WaitingIdle, IdleCallInv
    <2>2. CASE tasks[t].status # "waiting_human"
      BY <1>5, <2>2 DEF DecideApproval, CallInv, OnePendingCall, CallsFollowTask
    <2> QED
      BY <2>1, <2>2
  <1>6. ASSUME UNCHANGED <<tasks, calls>> PROVE CallInv'
    BY <1>6 DEF CallInv, OnePendingCall, CallsFollowTask
  <1> QED
    BY <1>2, <1>3, <1>4, <1>5, <1>6 DEF OperatorStep, SetAgentActive, SetPolicy

\* fn_submit_result and fn_next_step write to no task but their own.
LEMMA OnlyItsTask ==
    ASSUME TypeInv, NEW t \in Task, NEW x \in Task, x # t,
           \/ Fail(t, 0) \/ Fail(t, 1) \/ SubmitError(t) \/ Advance(t) \/ Reject(t)
    PROVE  tasks'[x] = tasks[x]
  BY DEF Fail, SubmitError, Advance, Reject, TypeInv, TypeOK

\* Handing in a result keeps CallInv: the call it queues replaces the one
\* it answers.
LEMMA CompleteCallInv ==
    ASSUME TypeInv, CallInv, NEW c \in Call, CompleteStep(c)
    PROVE  CallInv'
  <1> DEFINE t == calls[c].task
             Alone == \A x \in Task : (x # t /\ tasks[x].status # "absent") => tasks'[x] = tasks[x]
  <1>0. c \in jobs /\ t \in Task
    BY JobTask DEF CompleteStep, ReplyStep, CompleteStale, CompleteSkipped, CompleteInactive,
         CompleteError, CompleteResult, ReplyRejected, ReplyNoted, ReplyRaises, ReplyFinal,
         ReplyCall, ReplyDelegate, ReplyDelegateRefused, ReplyAwaitHuman, ReplyAwaitChildren,
         Reply, Answered
  <1>1. CASE CompleteStale(c)
    <2>1. Followed
      BY <1>1 DEF CompleteStale, Followed
    <2> QED
      BY <1>1, <2>1, HarvestQuiet, QuietCallInv DEF CompleteStale
  <1>2. CASE CompleteSkipped(c)
    BY <1>2, HarvestCallInv DEF CompleteSkipped
  <1>3. CASE \/ CompleteInactive(c) \/ CompleteError(c) \/ CompleteResult(c)
             \/ ReplyRejected(c) \/ ReplyNoted(c)
             \/ \E b \in Agent : ReplyDelegateRefused(c, b)
    <2>1. /\ Fail(t, 0) \/ SubmitError(t) \/ Advance(t) \/ Reject(t)
          /\ Harvest(c) /\ calls[c].st = "in_flight"
      BY <1>3 DEF CompleteInactive, FailInactive, CompleteError, CompleteResult, ReplyRejected,
            ReplyNoted, ReplyDelegateRefused, Reply, Answered
    <2>2. Alone
      BY <1>0, <2>1, OnlyItsTask
    <2> QED
      BY <2>1, <2>2, HarvestCallInv
  <1>4. CASE ReplyRaises(c) \/ ReplyFinal(c) \/ ReplyAwaitHuman(c) \/ ReplyAwaitChildren(c)
    <2>1. Harvest(c) /\ calls[c].st = "in_flight"
      BY <1>4 DEF ReplyRaises, ReplyFinal, ReplyAwaitHuman, ReplyAwaitChildren, Reply, Answered
    <2>2. Alone
      BY <1>0, <1>4 DEF ReplyRaises, ReplyFinal, ReplyAwaitHuman, ReplyAwaitChildren, Reject,
            TypeInv, TypeOK
    <2> QED
      BY <2>1, <2>2, HarvestCallInv
  <1>5. ASSUME NEW x \in Task, NEW b \in Agent, NEW wait \in BOOLEAN, ReplyDelegate(c, x, b, wait)
        PROVE  CallInv'
    <2>1. Harvest(c) /\ calls[c].st = "in_flight" /\ tasks[x].status = "absent"
      BY <1>5 DEF ReplyDelegate, Reply, Answered, NextTask
    <2>2. Alone
      BY <1>0, <1>5, <2>1 DEF ReplyDelegate, TypeInv, TypeOK
    <2> QED
      BY <2>1, <2>2, HarvestCallInv
  <1>6. ASSUME NEW d \in Call, NEW k \in Kind, ReplyCall(c, d, k)
        PROVE  CallInv'
    <2>1. /\ calls[c].st = "in_flight" /\ tasks[t].status = "running" /\ Advance(t)
          /\ calls[d] = NoCall
          /\ calls' = [calls EXCEPT ![c] = NoCall, ![d] = [st |-> "queued", task |-> t, kind |-> k]]
      BY <1>6 DEF ReplyCall, Reply, Answered, NextCall
    <2>2. /\ c # d /\ calls'[d].task = t /\ calls'[c].st = "free"
          /\ \A x \in Call : x \notin {c, d} => calls'[x] = calls[x]
      BY <2>1, NullFacts DEF TypeInv, TypeOK
    <2>3. \A x \in Call \ {c, d} : calls[x].st \in Pending => calls[x].task # t
      BY <2>1 DEF CallInv, OnePendingCall, Pending
    <2>4. \A x \in Task : tasks'[x].status = tasks[x].status
      BY <1>0, <2>1, AdvanceTouches DEF Touch
    <2>5. OnePendingCall'
      BY <2>2, <2>3 DEF CallInv, OnePendingCall, Pending
    <2>6. CallsFollowTask'
      <3> SUFFICES ASSUME NEW x \in Call, calls'[x].st \in Pending
                   PROVE  \/ tasks'[calls'[x].task].status = "running"
                          \/ calls'[x].kind = "body" /\ tasks'[calls'[x].task].status \in Terminal
        BY DEF CallsFollowTask
      <3>1. CASE x = d
        BY <1>0, <2>1, <2>2, <2>4, <3>1
      <3>2. CASE x \notin {c, d}
        BY <2>2, <2>4, <3>2 DEF CallInv, CallsFollowTask, TypeInv, References, Pending
      <3> QED
        BY <2>2, <3>1, <3>2 DEF Pending
    <2> QED
      BY <2>5, <2>6 DEF CallInv
  <1> QED
    BY <1>1, <1>2, <1>3, <1>4, <1>5, <1>6 DEF CompleteStep, ReplyStep

\* Every step of the worker keeps CallInv.
LEMMA WorkerCallInv ==
    ASSUME TypeInv, CallInv, WorkerStep
    PROVE  CallInv'
  <1>1. ASSUME NEW t \in Task, NextStepStops(t) \/ DispatchFails(t)
        PROVE  CallInv'
    <2>1. ~PendingCall(t) /\ UNCHANGED calls /\ (Fail(t, 0) \/ SubmitError(t))
      BY <1>1 DEF NextStepStops, DispatchFails, Dispatchable
    <2> QED
      BY <2>1, OnlyItsTask, IdleCallInv
  <1>2. ASSUME NEW t \in Task, NEW c \in Call, DispatchLlm(t, c)
        PROVE  CallInv'
    <2>1. /\ \A d \in Call : calls[d].st \in Pending => calls[d].task # t
          /\ calls'[c].task = t /\ \A d \in Call : d # c => calls'[d] = calls[d]
      BY <1>2 DEF DispatchLlm, Dispatchable, PendingCall, TypeInv, TypeOK
    <2>2. tasks'[t].status = "running" /\ \A x \in Task : x # t => tasks'[x] = tasks[x]
      BY <1>2 DEF DispatchLlm, TypeInv, TypeOK, TaskRow
    <2>3. OnePendingCall'
      BY <2>1 DEF CallInv, OnePendingCall
    <2>4. CallsFollowTask'
      BY <2>1, <2>2 DEF CallInv, CallsFollowTask, TypeInv, References, Pending
    <2> QED
      BY <2>3, <2>4 DEF CallInv
  <1>3. ASSUME NEW c \in Call, Claim(c) PROVE CallInv'
    <2>1. Quiet /\ Followed
      BY <1>3 DEF Claim, Quiet, Followed, Pending, TypeInv, TypeOK, CallRow
    <2> QED
      BY <2>1, QuietCallInv
  <1>4. ASSUME NEW c \in Call, SubmitAbandoned(c) PROVE CallInv'
    <2>1. Quiet /\ Followed
      BY <1>4, NullFacts DEF SubmitAbandoned, Quiet, Followed, Pending, TypeInv, TypeOK
    <2> QED
      BY <2>1, QuietCallInv
  <1>5. CASE WorkerCrash
    <2>1. Quiet /\ Followed
      BY <1>5, NullFacts DEF WorkerCrash, Quiet, Followed, Pending, TypeInv, TypeOK
    <2> QED
      BY <2>1, QuietCallInv
  <1>6. ASSUME NEW c \in Call, CallTimeout(c) PROVE CallInv'
    <2> DEFINE t == calls[c].task
    <2>1. t \in Task /\ calls[c].st = "in_flight"
      BY <1>6, JobTask DEF CallTimeout
    <2>2. \A x \in Task : x # t => tasks'[x] = tasks[x]
      BY <1>6, <2>1, OnlyItsTask DEF CallTimeout, FailInactive, TypeInv, TypeOK
    <2>3. /\ Quiet /\ calls'[c].st \notin Pending
      BY <1>6, NullFacts DEF CallTimeout, Lost, Quiet, Pending, TypeInv, TypeOK, CallRow
    <2>4. \A d \in Call : calls'[d].st \in Pending => calls'[d].task \in Task /\ calls'[d].task # t
      BY <2>1, <2>3 DEF Quiet, CallInv, OnePendingCall, TypeInv, References, Pending
    <2>5. Followed
      BY <2>2, <2>4 DEF Followed
    <2> QED
      BY <2>3, <2>5, QuietCallInv
  <1>7. ASSUME NEW t \in Task, ExpireApproval(t) PROVE CallInv'
    <2>1. CASE tasks[t].status = "waiting_human"
      <3>1. UNCHANGED calls /\ \A x \in Task : x # t => tasks'[x] = tasks[x]
        BY <1>7 DEF ExpireApproval, TypeInv, TypeOK
      <3> QED
        BY <2>1, <3>1, WaitingIdle, IdleCallInv
    <2>2. CASE tasks[t].status # "waiting_human"
      BY <1>7, <2>2 DEF ExpireApproval, CallInv, OnePendingCall, CallsFollowTask
    <2> QED
      BY <2>1, <2>2
  <1>8. ASSUME NEW t \in Task, TurnTimeout(t) PROVE CallInv'
    <2>1. tasks'[t].status = "failed" /\ \A x \in Task : x # t => tasks'[x] = tasks[x]
      BY <1>8, FailTouches, OnlyItsTask DEF TurnTimeout
    <2>2. /\ Quiet
          /\ \A c \in Call : calls'[c].st \in Pending => calls[c].kind = "body" \/ calls[c].task # t
      BY <1>8, NullFacts DEF TurnTimeout, Lost, Quiet, Pending, TypeInv, TypeOK, CallRow
    <2>3. Followed
      BY <2>1, <2>2 DEF Quiet, Followed, TypeInv, References, Pending, Terminal
    <2> QED
      BY <2>2, <2>3, QuietCallInv
  <1>9. ASSUME NEW t \in Task, WakeParent(t) PROVE CallInv'
    <2>1. UNCHANGED calls /\ \A x \in Task : x # t => tasks'[x] = tasks[x]
      BY <1>9 DEF WakeParent, TypeInv, TypeOK
    <2> QED
      BY <1>9, <2>1, WaitingIdle, IdleCallInv DEF WakeParent
  <1> QED
    BY <1>1, <1>2, <1>3, <1>4, <1>5, <1>6, <1>7, <1>8, <1>9, CompleteCallInv
       DEF WorkerStep, DispatchStep, WatchdogStep

\* No task ever has two requests outstanding, and none outlives the turn it
\* belongs to.
THEOREM CallsSafe == Spec => []CallsInStep
  <1>1. Init => CallInv
    BY NullFacts DEF Init, CallInv, OnePendingCall, CallsFollowTask, Pending
  <1>2. TypeInv /\ CallInv /\ [Next]_vars => CallInv'
    <2>1. CASE UNCHANGED vars
      BY <2>1 DEF vars, CallInv, OnePendingCall, CallsFollowTask
    <2> QED
      BY <2>1, OperatorCallInv, WorkerCallInv DEF Next
  <1> QED
    BY <1>1, <1>2, TypeCorrect, PTL DEF Spec, CallInv, CallsInStep

\* A completed, failed or cancelled task never changes again, whatever
\* arrives late.
THEOREM TerminalIsFinal == Spec => TerminalFinal
  <1>1. TypeInv /\ [Next]_vars =>
          [\A t \in Task : tasks[t].status \in Terminal => tasks'[t] = tasks[t]]_vars
    BY FinishedStep
  <1> QED
    BY <1>1, TypeCorrect, PTL DEF Spec, TerminalFinal

\* A mutating request in flight is lost only together with its task's turn.
LEMMA StepLostWrite ==
    ASSUME TypeInv, CallInv, Next, NEW c \in Call,
           calls[c].kind = "http_write", calls[c].st = "in_flight",
           calls'[c].st # "in_flight", c \in jobs => c \in jobs'
    PROVE  tasks'[calls[c].task].status \notin {"queued", "running"}
  <1> DEFINE t == calls[c].task
  <1>0. t \in Task /\ tasks[t].status = "running" /\ calls[c] # NoCall
    BY NullFacts DEF TypeInv, References, CallInv, CallsFollowTask, Pending
  <1>1. ASSUME NEW d \in Call, CompleteStep(d) \/ SubmitAbandoned(d) PROVE FALSE
    <2>1. /\ d \in jobs /\ d \notin jobs'
          /\ \A e \in Call \ {d} : calls[e] # NoCall => calls'[e] = calls[e]
      BY <1>1 DEF CompleteStep, ReplyStep, CompleteStale, CompleteSkipped, CompleteInactive,
           CompleteError, CompleteResult, ReplyRejected, ReplyNoted, ReplyRaises, ReplyFinal,
           ReplyCall, ReplyDelegate, ReplyDelegateRefused, ReplyAwaitHuman, ReplyAwaitChildren,
           Reply, Answered, Harvest, SubmitAbandoned, NextCall, TypeInv, TypeOK
    <2> QED
      BY <1>0, <2>1
  <1>2. ASSUME UNCHANGED calls PROVE FALSE
    BY <1>2
  <1>3. ASSUME NEW x \in Task, NEW d \in Call, DispatchLlm(x, d) PROVE FALSE
    BY <1>0, <1>3 DEF DispatchLlm, NextCall, TypeInv, TypeOK
  <1>4. ASSUME NEW d \in Call, Claim(d) PROVE FALSE
    BY <1>4 DEF Claim, TypeInv, TypeOK
  <1>5. ASSUME WorkerCrash PROVE FALSE
    BY <1>5 DEF WorkerCrash, TypeInv, TypeOK
  <1>6. ASSUME NEW s \in Session, CancelSession(s) PROVE tasks'[t].status = "cancelled"
    <2>1. tasks[t].sess = s
      BY <1>6 DEF CancelSession, TypeInv, TypeOK
    <2> QED
      BY <1>0, <1>6, <2>1 DEF CancelSession, TypeInv, TypeOK, TaskRow, Open
  <1>7. ASSUME NEW d \in Call, CallTimeout(d) PROVE tasks'[t].status = "waiting_human"
    <2>1. d = c
      BY <1>7 DEF CallTimeout, TypeInv, TypeOK
    <2> QED
      BY <1>0, <1>7, <2>1 DEF CallTimeout, TypeInv, TypeOK, TaskRow
  <1>8. ASSUME NEW x \in Task, TurnTimeout(x) PROVE tasks'[t].status = "failed"
    <2>1. x = t
      BY <1>8 DEF TurnTimeout, TypeInv, TypeOK
    <2> QED
      BY <1>8, <2>1, FailTouches DEF TurnTimeout
  <1> QED
    BY <1>1, <1>2, <1>3, <1>4, <1>5, <1>6, <1>7, <1>8
       DEF Next, OperatorStep, WorkerStep, WatchdogStep, DispatchStep, CreateSession,
         ContinueSession, DecideApproval, SetAgentActive, SetPolicy, NextStepStops, DispatchFails,
         ExpireApproval, WakeParent

\* A mutating HTTP request that is written off, nothing having been handed in
\* for it, leaves its task stopped: it may have taken effect.
THEOREM LostWritesPause == Spec => LostWritePauses
  <1>1. TypeInv /\ CallInv /\ [Next]_vars =>
          [\A c \in Call :
              /\ calls[c].kind = "http_write" /\ calls[c].st = "in_flight"
              /\ calls'[c].st # "in_flight"
              /\ c \in jobs => c \in jobs'
              => tasks'[calls[c].task].status \notin {"queued", "running"}]_vars
    BY StepLostWrite
  <1> QED
    BY <1>1, TypeCorrect, CallsSafe, PTL DEF Spec, LostWritePauses, CallInv, CallsInStep

-----------------------------------------------------------------------------
(* Turns and steps.                                                        *)

\* A question to the model of task t is outstanding.
Asked(t) == \E c \in Call : calls[c].task = t /\ calls[c].st \in Pending /\ calls[c].kind = "llm"

\* Turns, steps and what is outstanding move together: a turn is asked for
\* only below max_steps, and its answer is a step, unless its handling threw.
Budget(t) ==
    /\ tasks[t].turns <= MaxSteps + tasks[t].raises
    /\ tasks[t].steps <= MaxSteps + 2
    /\ tasks[t].status \in Open =>
           /\ tasks[t].steps <= MaxSteps + 1
           /\ tasks[t].turns <= tasks[t].steps + tasks[t].raises + 1
           /\ ~Asked(t) => tasks[t].turns <= tasks[t].steps + tasks[t].raises
    /\ tasks[t].status \in {"waiting_human", "waiting_children"} => tasks[t].steps <= MaxSteps
    /\ \A c \in Call :
           /\ calls[c].task = t /\ calls[c].st \in Pending /\ tasks[t].status = "running"
           => tasks[t].steps <= MaxSteps /\ (calls[c].kind = "llm" => tasks[t].steps < MaxSteps)
\* The inductive invariant of TurnBudget.
BudgetInv == \A t \in Task : Budget(t)

\* The calls of task t that are outstanding stay so, and no other joins them.
SameCalls(t) ==
    \A c \in Call :
        /\ (calls'[c].task = t /\ calls'[c].st \in Pending) <=> (calls[c].task = t /\ calls[c].st \in Pending)
        /\ calls[c].task = t /\ calls[c].st \in Pending => calls'[c].kind = calls[c].kind

\* A step that does not concern an open task keeps its budget, and a closed
\* task only has its totals.
LEMMA SameBudget ==
    ASSUME NEW t \in Task, Budget(t), tasks'[t] = tasks[t], tasks[t].status \in Open => SameCalls(t)
    PROVE  Budget(t)'
  <1>1. CASE tasks[t].status \in Open
    <2>1. Asked(t)' <=> Asked(t)
      BY <1>1 DEF SameCalls, Asked
    <2> QED
      BY <1>1, <2>1 DEF SameCalls, Budget
  <1>2. CASE tasks[t].status \notin Open
    BY <1>2 DEF Budget, Open
  <1> QED
    BY <1>1, <1>2

\* A step of task t concerns no other task's budget.
LEMMA OthersBudget ==
    ASSUME BudgetInv, NEW t \in Task, Only(t), Budget(t)',
           \A x \in Task \ {t} : tasks[x].status \in Open => SameCalls(x)
    PROVE  BudgetInv'
  <1>1. ASSUME NEW x \in Task, x # t PROVE Budget(x)'
    BY <1>1, SameBudget DEF BudgetInv, Only
  <1> QED
    BY <1>1 DEF BudgetInv

\* The budget of a task that is left without an outstanding call.
LEMMA IdleBudget ==
    ASSUME TypeInv, NEW t \in Task, NEW st, NEW n \in {0, 1}, NEW r \in {0, 1}, Moves(t, st, n, 0, r),
           ~PendingCall(t)',
           tasks[t].turns <= MaxSteps + tasks[t].raises + r,
           tasks[t].steps + n <= MaxSteps + 2,
           st \in Open => /\ tasks[t].steps + n <= MaxSteps + 1
                          /\ tasks[t].turns <= tasks[t].steps + n + tasks[t].raises + r,
           st \in {"waiting_human", "waiting_children"} => tasks[t].steps + n <= MaxSteps
    PROVE  Budget(t)'
  <1>1. tasks[t].steps \in Nat /\ tasks[t].turns \in Nat /\ tasks[t].raises \in Nat
    BY DEF TypeInv, TypeOK, TaskRow
  <1>2. /\ tasks'[t].status = st /\ tasks'[t].steps = tasks[t].steps + n
        /\ tasks'[t].turns = tasks[t].turns /\ tasks'[t].raises = tasks[t].raises + r
    BY <1>1 DEF Moves
  <1>3. \A c \in Call : ~(calls'[c].task = t /\ calls'[c].st \in Pending)
    BY DEF PendingCall
  <1>4. tasks'[t].turns <= MaxSteps + tasks'[t].raises /\ tasks'[t].steps <= MaxSteps + 2
    BY <1>1, <1>2, LimitsAssumption
  <1>5. st \in Open => /\ tasks'[t].steps <= MaxSteps + 1
                       /\ tasks'[t].turns <= tasks'[t].steps + tasks'[t].raises + 1
                       /\ tasks'[t].turns <= tasks'[t].steps + tasks'[t].raises
    BY <1>1, <1>2, LimitsAssumption
  <1> QED
    BY <1>2, <1>3, <1>4, <1>5 DEF Budget

\* The answer to the outstanding call of a running task is within its budget.
LEMMA AnswerBudget ==
    ASSUME TypeInv, CallInv, BudgetInv, NEW t \in Task, NEW c \in Call, tasks[t].status = "running",
           calls[c].task = t, calls[c].st = "in_flight", ~PendingCall(t)',
           \/ Moves(t, "failed", 0, 0, 0)
           \/ \E st \in {"running", "failed"} : Moves(t, st, 1, 0, 0)
           \/ calls[c].kind = "llm" /\ Moves(t, "running", 0, 0, 1)
           \/ calls[c].kind = "llm" /\ \E st \in Open \cup Terminal : Moves(t, st, 1, 0, 0)
           \/ calls[c].kind # "llm" /\ Moves(t, "waiting_human", 0, 0, 0)
    PROVE  Budget(t)'
  <1>1. /\ tasks[t].steps \in Nat /\ tasks[t].turns \in Nat /\ tasks[t].raises \in Nat
        /\ MaxSteps \in Nat
    BY LimitsAssumption DEF TypeInv, TypeOK, TaskRow
  <1>2. /\ tasks[t].turns <= MaxSteps + tasks[t].raises
        /\ tasks[t].turns <= tasks[t].steps + tasks[t].raises + 1 /\ tasks[t].steps <= MaxSteps
        /\ calls[c].kind = "llm" => tasks[t].steps < MaxSteps
    BY DEF BudgetInv, Budget, Open, Pending
  <1>3. calls[c].kind # "llm" => tasks[t].turns <= tasks[t].steps + tasks[t].raises
    <2>1. calls[c].kind # "llm" => ~Asked(t)
      BY DEF CallInv, OnePendingCall, Asked, Pending
    <2> QED
      BY <2>1 DEF BudgetInv, Budget, Open
  <1>4. CASE Moves(t, "failed", 0, 0, 0)
    BY <1>1, <1>2, <1>4, IdleBudget DEF Open
  <1>5. ASSUME NEW st \in {"running", "failed"}, Moves(t, st, 1, 0, 0) PROVE Budget(t)'
    BY <1>1, <1>2, <1>5, IdleBudget
  <1>6. CASE calls[c].kind = "llm" /\ Moves(t, "running", 0, 0, 1)
    BY <1>1, <1>2, <1>6, IdleBudget
  <1>7. ASSUME calls[c].kind = "llm", NEW st \in Open \cup Terminal, Moves(t, st, 1, 0, 0) PROVE Budget(t)'
    BY <1>1, <1>2, <1>7, IdleBudget
  <1>8. CASE calls[c].kind # "llm" /\ Moves(t, "waiting_human", 0, 0, 0)
    BY <1>1, <1>2, <1>3, <1>8, IdleBudget
  <1> QED
    BY <1>4, <1>5, <1>6, <1>7, <1>8

\* A task that leaves a wait has its step within the budget.
LEMMA WaitedBudget ==
    ASSUME TypeInv, CallInv, BudgetInv, NEW t \in Task, UNCHANGED calls,
           tasks[t].status \in {"waiting_human", "waiting_children"},
           Moves(t, "queued", 1, 0, 0) \/ Moves(t, "failed", 1, 0, 0)
    PROVE  Budget(t)'
  <1>1. /\ tasks[t].steps \in Nat /\ tasks[t].turns \in Nat /\ tasks[t].raises \in Nat
        /\ MaxSteps \in Nat
    BY LimitsAssumption DEF TypeInv, TypeOK, TaskRow
  <1>2. ~PendingCall(t) /\ ~Asked(t) /\ ~PendingCall(t)'
    BY WaitingIdle DEF PendingCall, Asked
  <1>3. /\ tasks[t].turns <= MaxSteps + tasks[t].raises /\ tasks[t].steps <= MaxSteps
        /\ tasks[t].turns <= tasks[t].steps + tasks[t].raises
    BY <1>2 DEF BudgetInv, Budget, Open
  <1>4. /\ tasks[t].turns <= MaxSteps + tasks[t].raises + 0 /\ tasks[t].steps + 1 <= MaxSteps + 1
        /\ tasks[t].steps + 1 <= MaxSteps + 2
        /\ tasks[t].turns <= tasks[t].steps + 1 + tasks[t].raises + 0
    BY <1>1, <1>3
  <1>5. CASE Moves(t, "queued", 1, 0, 0)
    BY <1>2, <1>4, <1>5, IdleBudget
  <1>6. CASE Moves(t, "failed", 1, 0, 0)
    BY <1>2, <1>4, <1>6, IdleBudget DEF Open
  <1> QED
    BY <1>5, <1>6

\* Answering or losing the one call of a task leaves it with none.
LEMMA EndedCall ==
    ASSUME TypeInv, CallInv, NEW c \in Call, calls[c].st = "in_flight",
           Harvest(c) \/ calls' = [calls EXCEPT ![c] = Lost(c)]
    PROVE  \E t \in Task : /\ t = calls[c].task /\ ~PendingCall(t)'
                          /\ \A x \in Task \ {t} : SameCalls(x)
  <1>1. calls'[c].st \notin Pending /\ \A d \in Call \ {c} : calls'[d] = calls[d]
    BY NullFacts DEF Harvest, Lost, Pending, TypeInv, TypeOK, CallRow
  <1>2. PICK t \in Task : t = calls[c].task
    BY JobTask
  <1>3. \A d \in Call \ {c} : calls[d].st \in Pending => calls[d].task # t
    BY <1>2 DEF CallInv, OnePendingCall, Pending
  <1>4. ~PendingCall(t)'
    BY <1>1, <1>3 DEF PendingCall
  <1>5. \A x \in Task \ {t} : SameCalls(x)
    BY <1>1, <1>2 DEF SameCalls
  <1> QED
    BY <1>2, <1>4, <1>5

\* A task that has just been inserted has spent nothing.
LEMMA FreshBudget ==
    ASSUME TypeInv, NEW x \in Task, tasks[x].status = "absent", NEW s, NEW a, NEW p, NEW d,
           tasks'[x] = NewTask(s, a, p, d), Quiet
    PROVE  Budget(x)'
  <1>1. ~PendingCall(x)'
    BY DEF PendingCall, Quiet, TypeInv, References, Pending
  <1>2. /\ tasks'[x].status = "queued" /\ tasks'[x].steps = 0 /\ tasks'[x].turns = 0
        /\ tasks'[x].raises = 0
    BY DEF NewTask, NoTaskRow
  <1> QED
    BY <1>1, <1>2, LimitsAssumption DEF Budget, PendingCall

\* Handing in a result keeps the budget of every task.
LEMMA CompleteBudget ==
    ASSUME TypeInv, CallInv, BudgetInv, NEW c \in Call, CompleteStep(c)
    PROVE  BudgetInv'
  <1>1. CASE CompleteStale(c)
    <2>1. calls[c].st = "lost"
      BY <1>1 DEF CompleteStale, TypeInv, References
    <2>2. \A x \in Task : SameCalls(x)
      BY <1>1, <2>1, NullFacts DEF CompleteStale, Harvest, SameCalls, Pending, TypeInv, TypeOK
    <2> QED
      BY <1>1, <2>2, SameBudget DEF CompleteStale, BudgetInv
  <1>2. CASE CompleteSkipped(c)
    <2>1. PICK t \in Task : t = calls[c].task /\ \A x \in Task \ {t} : SameCalls(x)
      BY <1>2, EndedCall DEF CompleteSkipped
    <2>2. tasks[t].status \notin Open
      BY <1>2, <2>1 DEF CompleteSkipped, CallInv, CallsFollowTask, Pending, Terminal, Open
    <2>3. UNCHANGED tasks
      BY <1>2 DEF CompleteSkipped
    <2> QED
      BY <2>1, <2>2, <2>3, SameBudget DEF BudgetInv
  <1>3. ASSUME Answered(c), Harvest(c), NEW t \in Task, t = calls[c].task,
               \/ Moves(t, "failed", 0, 0, 0)
               \/ \E st \in {"running", "failed"} : Moves(t, st, 1, 0, 0)
               \/ calls[c].kind = "llm" /\ Moves(t, "running", 0, 0, 1)
               \/ calls[c].kind = "llm" /\ \E st \in Open \cup Terminal : Moves(t, st, 1, 0, 0)
        PROVE  BudgetInv'
    <2>1. calls[c].st = "in_flight" /\ tasks[t].status = "running"
      BY <1>3 DEF Answered
    <2>2. ~PendingCall(t)' /\ \A x \in Task \ {t} : SameCalls(x)
      BY <1>3, <2>1, EndedCall
    <2>3. Budget(t)'
      BY <1>3, <2>1, <2>2, AnswerBudget
    <2>4. Only(t)
      BY <1>3 DEF Moves
    <2> QED
      BY <2>2, <2>3, <2>4, OthersBudget
  <1>4. ASSUME Answered(c) PROVE calls[c].task \in Task
    BY <1>4, JobTask DEF Answered
  <1>5. CASE \/ CompleteInactive(c) \/ CompleteError(c) \/ CompleteResult(c)
             \/ ReplyRejected(c) \/ ReplyNoted(c)
             \/ \E b \in Agent : ReplyDelegateRefused(c, b)
    <2>1. /\ Answered(c) /\ Harvest(c)
          /\ \/ Fail(calls[c].task, 0) \/ SubmitError(calls[c].task)
             \/ Advance(calls[c].task) \/ Reject(calls[c].task)
      BY <1>5 DEF CompleteInactive, CompleteError, CompleteResult, ReplyRejected, ReplyNoted,
           ReplyDelegateRefused, Reply, FailInactive
    <2>2. PICK t \in Task : t = calls[c].task
      BY <1>4, <2>1
    <2>3. \/ Moves(t, "failed", 0, 0, 0)
          \/ \E st \in {"running", "failed"} : Moves(t, st, 1, 0, 0)
      <3>1. tasks[t].status = "running"
        BY <2>1, <2>2 DEF Answered
      <3> QED
        BY <2>1, <2>2, <3>1, FailMoves, ErrorMoves, AdvanceMoves
    <2> QED
      BY <1>3, <2>1, <2>2, <2>3
  <1>6. CASE ReplyRaises(c) \/ ReplyFinal(c) \/ ReplyAwaitHuman(c) \/ ReplyAwaitChildren(c)
    <2>1. Answered(c) /\ Harvest(c) /\ calls[c].kind = "llm"
      BY <1>6 DEF ReplyRaises, ReplyFinal, ReplyAwaitHuman, ReplyAwaitChildren, Reply
    <2>2. PICK t \in Task : t = calls[c].task /\ tasks[t].status = "running"
      BY <1>4, <2>1 DEF Answered
    <2>3. \/ Moves(t, "running", 0, 0, 1)
          \/ \E st \in Open \cup Terminal : Moves(t, st, 1, 0, 0)
      BY <1>6, <2>2, RaiseMoves, StatusMoves, AdvanceMoves
         DEF ReplyRaises, ReplyFinal, ReplyAwaitHuman, ReplyAwaitChildren, Open, Terminal
    <2> QED
      BY <1>3, <2>1, <2>2, <2>3
  <1>7. ASSUME NEW x \in Task, NEW b \in Agent, NEW wait \in BOOLEAN, ReplyDelegate(c, x, b, wait)
        PROVE  BudgetInv'
    <2>1. Answered(c) /\ Harvest(c) /\ calls[c].kind = "llm"
      BY <1>7 DEF ReplyDelegate, Reply
    <2>2. PICK t \in Task : t = calls[c].task /\ Hands(t, x, b, wait)
      BY <1>7, DelegateEffect
    <2>3. calls[c].st = "in_flight" /\ tasks[t].status = "running" /\ x # t
      BY <2>1, <2>2 DEF Answered, Hands
    <2>4. ~PendingCall(t)' /\ \A y \in Task \ {t} : SameCalls(y)
      BY <2>1, <2>2, <2>3, EndedCall
    <2>5. Budget(x)'
      BY <2>1, <2>2, HarvestQuiet, FreshBudget DEF Hands
    <2>6. Budget(t)'
      <3>1. /\ tasks[t].steps \in Nat /\ tasks[t].turns \in Nat /\ tasks[t].raises \in Nat
            /\ MaxSteps \in Nat /\ tasks[t] \in TaskRow
        BY LimitsAssumption DEF TypeInv, TypeOK, TaskRow
      <3>2. /\ tasks'[t].steps = tasks[t].steps + 1 /\ tasks'[t].turns = tasks[t].turns
            /\ tasks'[t].raises = tasks[t].raises /\ tasks'[t].status \in {"running", "completed"}
        BY <2>2, <3>1 DEF Hands, TaskRow
      <3>3. /\ tasks[t].turns <= MaxSteps + tasks[t].raises /\ tasks[t].steps < MaxSteps
            /\ tasks[t].turns <= tasks[t].steps + tasks[t].raises + 1
        BY <2>1, <2>2, <2>3 DEF BudgetInv, Budget, Open, Pending
      <3>4. /\ tasks'[t].turns <= MaxSteps + tasks'[t].raises /\ tasks'[t].steps <= MaxSteps + 2
            /\ tasks'[t].steps <= MaxSteps + 1 /\ tasks'[t].steps <= MaxSteps
            /\ tasks'[t].turns <= tasks'[t].steps + tasks'[t].raises + 1
            /\ tasks'[t].turns <= tasks'[t].steps + tasks'[t].raises
        BY <3>1, <3>2, <3>3
      <3> QED
        BY <2>4, <3>4 DEF Budget, PendingCall
    <2>7. ASSUME NEW y \in Task \ {t, x} PROVE Budget(y)'
      BY <2>2, <2>4, SameBudget DEF Hands, BudgetInv
    <2> QED
      BY <2>5, <2>6, <2>7 DEF BudgetInv
  <1>8. ASSUME NEW d \in Call, NEW k \in Kind, ReplyCall(c, d, k)
        PROVE  BudgetInv'
    <2>1. PICK t \in Task : /\ t = calls[c].task /\ calls[c].st = "in_flight"
                            /\ tasks[t].status = "running" /\ calls[c].kind = "llm"
                            /\ k # "llm" /\ Advance(t)
      BY <1>4, <1>8 DEF ReplyCall, Reply, Answered, CallReply
    <2>2. /\ calls[d] = NoCall
          /\ calls' = [calls EXCEPT ![c] = NoCall, ![d] = [st |-> "queued", task |-> t, kind |-> k]]
      BY <1>8, <2>1 DEF ReplyCall, NextCall
    <2>3. /\ c # d /\ calls'[d].task = t /\ calls'[d].kind = k /\ calls'[c].st = "free"
          /\ calls[d].st = "free" /\ \A e \in Call : e \notin {c, d} => calls'[e] = calls[e]
      BY <2>1, <2>2, NullFacts DEF TypeInv, TypeOK
    <2>4. \A e \in Call \ {c, d} : calls[e].st \in Pending => calls[e].task # t
      BY <2>1 DEF CallInv, OnePendingCall, Pending
    <2>5. \A x \in Task \ {t} : SameCalls(x)
      BY <2>1, <2>3 DEF SameCalls, Pending
    <2>6. ASSUME NEW e \in Call, calls'[e].task = t, calls'[e].st \in Pending
          PROVE  calls'[e].kind # "llm"
      BY <2>1, <2>3, <2>4, <2>6 DEF Pending
    <2>7. Moves(t, "running", 1, 0, 0)
      BY <2>1, AdvanceMoves
    <2>8. Budget(t)'
      <3>1. /\ tasks[t].steps \in Nat /\ tasks[t].turns \in Nat /\ tasks[t].raises \in Nat
            /\ MaxSteps \in Nat
        BY LimitsAssumption DEF TypeInv, TypeOK, TaskRow
      <3>2. /\ tasks'[t].steps = tasks[t].steps + 1 /\ tasks'[t].turns = tasks[t].turns
            /\ tasks'[t].raises = tasks[t].raises /\ tasks'[t].status = "running"
        BY <2>7, <3>1 DEF Moves
      <3>3. /\ tasks[t].turns <= MaxSteps + tasks[t].raises /\ tasks[t].steps < MaxSteps
            /\ tasks[t].turns <= tasks[t].steps + tasks[t].raises + 1
        BY <2>1 DEF BudgetInv, Budget, Open, Pending
      <3>4. /\ tasks'[t].turns <= MaxSteps + tasks'[t].raises /\ tasks'[t].steps <= MaxSteps + 2
            /\ tasks'[t].steps <= MaxSteps + 1 /\ tasks'[t].steps <= MaxSteps
            /\ tasks'[t].turns <= tasks'[t].steps + tasks'[t].raises + 1
            /\ tasks'[t].turns <= tasks'[t].steps + tasks'[t].raises
        BY <3>1, <3>2, <3>3
      <3> QED
        BY <2>6, <3>4 DEF Budget
    <2> QED
      BY <2>5, <2>7, <2>8, OthersBudget DEF Moves
  <1> QED
    BY <1>1, <1>2, <1>5, <1>6, <1>7, <1>8 DEF CompleteStep, ReplyStep

\* New tasks start with nothing spent, and a cancelled task has no question
\* outstanding.
LEMMA OperatorBudget ==
    ASSUME TypeInv, CallInv, BudgetInv, OperatorStep
    PROVE  BudgetInv'
  <1>0. tasks \in [Task -> TaskRow]
    BY DEF TypeInv, TypeOK
  <1>1. ASSUME NEW x \in Task, tasks[x].status = "absent", NEW s, NEW a,
               tasks' = [tasks EXCEPT ![x] = NewTask(s, a, NoTask, 0)], UNCHANGED calls
        PROVE  BudgetInv'
    <2>1. Quiet /\ \A y \in Task : SameCalls(y)
      BY <1>1 DEF Quiet, SameCalls
    <2>2. Budget(x)'
      BY <1>0, <1>1, <2>1, FreshBudget
    <2> QED
      BY <1>0, <1>1, <2>1, <2>2, OthersBudget DEF Only
  <1>2. ASSUME NEW s \in Session, NEW t \in Task, NEW a \in Agent, CreateSession(s, t, a)
        PROVE  BudgetInv'
    BY <1>1, <1>2 DEF CreateSession, NextTask
  <1>3. ASSUME NEW s \in Session, NEW t \in Task, ContinueSession(s, t)
        PROVE  BudgetInv'
    BY <1>1, <1>3 DEF ContinueSession, NextTask
  <1>4. ASSUME NEW s \in Session, CancelSession(s), NEW t \in Task PROVE Budget(t)'
    <2>1. CASE /\ tasks[t].status \in Open
               /\ tasks'[t] = [tasks[t] EXCEPT !.status = "cancelled", !.steps = @ + 1]
      <3>1. /\ tasks[t].steps \in Nat /\ tasks[t].turns \in Nat /\ tasks[t].raises \in Nat
            /\ MaxSteps \in Nat
        BY <1>0, LimitsAssumption DEF TaskRow
      <3>2. /\ tasks'[t].steps = tasks[t].steps + 1 /\ tasks'[t].turns = tasks[t].turns
            /\ tasks'[t].raises = tasks[t].raises /\ tasks'[t].status = "cancelled"
        BY <1>0, <2>1 DEF TaskRow
      <3>3. tasks[t].steps <= MaxSteps + 1 /\ tasks[t].turns <= MaxSteps + tasks[t].raises
        BY <2>1 DEF BudgetInv, Budget
      <3> QED
        BY <3>1, <3>2, <3>3 DEF Budget, Open
    <2>2. CASE tasks'[t] = tasks[t] /\ tasks[t].status \notin Open
      BY <2>2, SameBudget DEF BudgetInv
    <2>3. CASE tasks'[t] = tasks[t] /\ tasks[t].sess # s
      <3>1. ASSUME NEW c \in Call
            PROVE  calls'[c] = calls[c] \/ (calls'[c].st \notin Pending /\ calls[c].task # t)
        BY <1>4, <2>3, NullFacts DEF CancelSession, Lost, Pending, TypeInv, TypeOK, CallRow
      <3>2. SameCalls(t)
        BY <3>1 DEF SameCalls
      <3> QED
        BY <2>3, <3>2, SameBudget DEF BudgetInv
    <2> QED
      BY <1>4, <2>1, <2>2, <2>3, CancelEffect
  <1>5. ASSUME NEW t \in Task, NEW accept \in BOOLEAN, DecideApproval(t, accept)
        PROVE  BudgetInv'
    <2>1. \A x \in Task : SameCalls(x)
      BY <1>5 DEF DecideApproval, SameCalls
    <2>2. CASE UNCHANGED tasks
      BY <2>1, <2>2, SameBudget DEF BudgetInv
    <2>3. CASE tasks[t].status = "waiting_human"
      <3>1. Moves(t, "queued", 1, 0, 0) \/ Moves(t, "failed", 1, 0, 0)
        BY <1>5, <2>3, StatusMoves DEF DecideApproval
      <3>2. Budget(t)'
        BY <1>5, <2>3, <3>1, WaitedBudget DEF DecideApproval
      <3> QED
        BY <2>1, <3>1, <3>2, OthersBudget DEF Moves
    <2> QED
      BY <1>5, <2>2, <2>3 DEF DecideApproval
  <1>6. ASSUME UNCHANGED <<tasks, calls>> PROVE BudgetInv'
    <2>1. \A x \in Task : SameCalls(x)
      BY <1>6 DEF SameCalls
    <2> QED
      BY <1>6, <2>1, SameBudget DEF BudgetInv
  <1> QED
    BY <1>2, <1>3, <1>4, <1>5, <1>6 DEF OperatorStep, SetAgentActive, SetPolicy, BudgetInv

\* A turn is asked for only below max_steps.
LEMMA DispatchBudget ==
    ASSUME TypeInv, CallInv, BudgetInv, NEW t \in Task, DispatchStep(t)
    PROVE  BudgetInv'
  <1>1. Dispatchable(t)
    BY DEF DispatchStep, NextStepStops, DispatchLlm, DispatchFails
  <1>2. /\ ~PendingCall(t) /\ ~Asked(t) /\ tasks[t].status \in Open
        /\ tasks[t].status \notin {"waiting_human", "waiting_children"}
    BY <1>1 DEF Dispatchable, PendingCall, Asked, Open
  <1>3. /\ tasks[t].steps \in Nat /\ tasks[t].turns \in Nat /\ tasks[t].raises \in Nat
        /\ MaxSteps \in Nat
    BY LimitsAssumption DEF TypeInv, TypeOK, TaskRow
  <1>4. /\ tasks[t].turns <= MaxSteps + tasks[t].raises /\ tasks[t].steps <= MaxSteps + 1
        /\ tasks[t].turns <= tasks[t].steps + tasks[t].raises
    BY <1>2 DEF BudgetInv, Budget
  <1>5. CASE NextStepStops(t) \/ DispatchFails(t)
    <2>1. UNCHANGED calls
      BY <1>5 DEF NextStepStops, DispatchFails
    <2>2. ~PendingCall(t)' /\ \A x \in Task : SameCalls(x)
      BY <1>2, <2>1 DEF PendingCall, SameCalls
    <2>3. \/ Moves(t, "failed", 0, 0, 0)
          \/ tasks[t].steps < MaxSteps /\ (Moves(t, "failed", 1, 0, 0) \/ Moves(t, "running", 1, 0, 0))
      BY <1>5, FailMoves, ErrorMoves DEF NextStepStops, DispatchFails
    <2>4. Budget(t)'
      BY <1>3, <1>4, <2>2, <2>3, IdleBudget DEF Open
    <2> QED
      BY <2>2, <2>3, <2>4, OthersBudget DEF Moves
  <1>6. ASSUME NEW c \in Call, DispatchLlm(t, c) PROVE BudgetInv'
    <2>1. Moves(t, "running", 0, 1, 0) /\ tasks[t].steps < MaxSteps
      BY <1>6, DispatchMoves DEF DispatchLlm
    <2>2. /\ calls'[c].task = t /\ calls'[c].st = "queued" /\ calls'[c].kind = "llm"
          /\ calls[c].st = "free" /\ \A d \in Call \ {c} : calls'[d] = calls[d]
      BY <1>6, NullFacts DEF DispatchLlm, NextCall, TypeInv, TypeOK
    <2>3. \A x \in Task \ {t} : SameCalls(x)
      BY <2>2 DEF SameCalls, Pending
    <2>4. Asked(t)'
      BY <2>2 DEF Asked, Pending
    <2>5. /\ tasks'[t].steps = tasks[t].steps /\ tasks'[t].turns = tasks[t].turns + 1
          /\ tasks'[t].raises = tasks[t].raises /\ tasks'[t].status = "running"
      BY <1>3, <2>1 DEF Moves
    <2>6. Budget(t)'
      BY <1>3, <1>4, <2>1, <2>4, <2>5 DEF Budget
    <2> QED
      BY <2>1, <2>3, <2>6, OthersBudget DEF Moves
  <1> QED
    BY <1>5, <1>6 DEF DispatchStep

\* A call that the watchdog ends is a step of its task, and a task that it
\* wakes has no call.
LEMMA WatchdogBudget ==
    ASSUME TypeInv, CallInv, BudgetInv, WatchdogStep
    PROVE  BudgetInv'
  <1>1. ASSUME NEW c \in Call, CallTimeout(c) PROVE BudgetInv'
    <2>1. calls[c].st = "in_flight"
      BY <1>1 DEF CallTimeout
    <2>2. PICK t \in Task : /\ t = calls[c].task /\ ~PendingCall(t)'
                            /\ \A x \in Task \ {t} : SameCalls(x)
      BY <1>1, <2>1, EndedCall DEF CallTimeout
    <2>3. CASE tasks[t].status # "running"
      <3>1. tasks[t].status \notin Open
        BY <2>1, <2>2, <2>3 DEF CallInv, CallsFollowTask, Pending, Terminal, Open
      <3>2. UNCHANGED tasks
        BY <1>1, <2>2, <2>3 DEF CallTimeout
      <3> QED
        BY <2>2, <3>1, <3>2, SameBudget DEF BudgetInv
    <2>4. CASE tasks[t].status = "running"
      <3>1. \/ Moves(t, "failed", 0, 0, 0)
            \/ \E st \in {"running", "failed"} : Moves(t, st, 1, 0, 0)
            \/ calls[c].kind # "llm" /\ Moves(t, "waiting_human", 0, 0, 0)
        BY <1>1, <2>2, <2>4, FailMoves, ErrorMoves, HoldMoves DEF CallTimeout, FailInactive
      <3>2. Budget(t)'
        BY <2>1, <2>2, <2>4, <3>1, AnswerBudget
      <3> QED
        BY <2>2, <3>1, <3>2, OthersBudget DEF Moves
    <2> QED
      BY <2>3, <2>4
  <1>2. ASSUME NEW t \in Task, ExpireApproval(t) \/ WakeParent(t) PROVE BudgetInv'
    <2>1. UNCHANGED calls /\ \A x \in Task : SameCalls(x)
      BY <1>2 DEF ExpireApproval, WakeParent, SameCalls
    <2>2. CASE UNCHANGED tasks
      BY <2>1, <2>2, SameBudget DEF BudgetInv
    <2>3. CASE tasks[t].status \in {"waiting_human", "waiting_children"} /\ ~UNCHANGED tasks
      <3>1. Moves(t, "queued", 1, 0, 0) \/ Moves(t, "failed", 1, 0, 0)
        BY <1>2, <2>3, StatusMoves DEF ExpireApproval, WakeParent
      <3>2. Budget(t)'
        BY <2>1, <2>3, <3>1, WaitedBudget
      <3> QED
        BY <2>1, <3>1, <3>2, OthersBudget DEF Moves
    <2> QED
      BY <1>2, <2>2, <2>3 DEF ExpireApproval, WakeParent
  <1>3. ASSUME NEW t \in Task, TurnTimeout(t) PROVE BudgetInv'
    <2>1. Moves(t, "failed", 1, 0, 0) /\ tasks[t].status \in Open
      BY <1>3, FailMoves DEF TurnTimeout, Holding, Open
    <2>2. ASSUME NEW c \in Call
          PROVE  calls'[c] = calls[c] \/ (calls'[c].st \notin Pending /\ calls[c].task = t)
      BY <1>3, NullFacts DEF TurnTimeout, Lost, Pending, TypeInv, TypeOK, CallRow
    <2>3. \A x \in Task \ {t} : SameCalls(x)
      BY <2>2 DEF SameCalls
    <2>4. /\ tasks[t].steps \in Nat /\ tasks[t].turns \in Nat /\ tasks[t].raises \in Nat
          /\ MaxSteps \in Nat
      BY LimitsAssumption DEF TypeInv, TypeOK, TaskRow
    <2>5. /\ tasks'[t].steps = tasks[t].steps + 1 /\ tasks'[t].turns = tasks[t].turns
          /\ tasks'[t].raises = tasks[t].raises /\ tasks'[t].status = "failed"
      BY <2>1, <2>4 DEF Moves
    <2>6. tasks[t].steps <= MaxSteps + 1 /\ tasks[t].turns <= MaxSteps + tasks[t].raises
      BY <2>1 DEF BudgetInv, Budget
    <2>7. Budget(t)'
      BY <2>4, <2>5, <2>6 DEF Budget, Open
    <2> QED
      BY <2>1, <2>3, <2>7, OthersBudget DEF Moves
  <1> QED
    BY <1>1, <1>2, <1>3 DEF WatchdogStep

\* The jobs of the worker change no outstanding call.
LEMMA JobsBudget ==
    ASSUME TypeInv, BudgetInv, WorkerCrash \/ \E c \in Call : Claim(c) \/ SubmitAbandoned(c)
    PROVE  BudgetInv'
  <1>1. \A x \in Task : SameCalls(x)
    <2>1. CASE WorkerCrash
      BY <2>1, NullFacts DEF WorkerCrash, SameCalls, Pending, TypeInv, TypeOK
    <2>2. ASSUME NEW c \in Call, Claim(c) PROVE \A x \in Task : SameCalls(x)
      BY <2>2 DEF Claim, SameCalls, Pending, TypeInv, TypeOK, CallRow
    <2>3. ASSUME NEW c \in Call, SubmitAbandoned(c) PROVE \A x \in Task : SameCalls(x)
      BY <2>3, NullFacts DEF SubmitAbandoned, SameCalls, Pending, TypeInv, TypeOK
    <2> QED
      BY <2>1, <2>2, <2>3
  <1>2. UNCHANGED tasks
    BY DEF WorkerCrash, Claim, SubmitAbandoned
  <1> QED
    BY <1>1, <1>2, SameBudget DEF BudgetInv

\* A task asks its model at most max_steps times, not counting the answers
\* whose handling threw: the throw undoes the step that the answer had been.
THEOREM TurnsAreBounded == Spec => []TurnBudget
  <1>1. Init => BudgetInv
    BY NullFacts, LimitsAssumption
       DEF Init, BudgetInv, Budget, NoTaskRow, Open
  <1>2. TypeInv /\ CallInv /\ BudgetInv /\ [Next]_vars => BudgetInv'
    <2>1. ASSUME BudgetInv, UNCHANGED vars PROVE BudgetInv'
      <3>1. \A x \in Task : SameCalls(x) /\ tasks'[x] = tasks[x]
        BY <2>1 DEF vars, SameCalls
      <3> QED
        BY <2>1, <3>1, SameBudget DEF BudgetInv
    <2> QED
      BY <2>1, OperatorBudget, DispatchBudget, WatchdogBudget, CompleteBudget, JobsBudget
         DEF Next, WorkerStep
  <1>3. BudgetInv => TurnBudget
    BY DEF BudgetInv, Budget, TurnBudget
  <1> QED
    BY <1>1, <1>2, <1>3, TypeCorrect, CallsSafe, PTL DEF Spec, CallInv, CallsInStep

-----------------------------------------------------------------------------
(* Chains of delegation.                                                   *)

\* The row was inserted.
Exists(t) == tasks[t].status # "absent"
\* The tasks of session s that were delegated.
DelegatedIn(s) == {t \in Task : tasks[t].sess = s /\ tasks[t].parent # NoTask}

\* The forest of parents: a row that was never inserted is blank, a parent
\* exists, and the session of a task has a root.
Forest ==
    /\ \A t \in Task : ~Exists(t) => tasks[t] = NoTaskRow
    /\ \A t \in Task : tasks[t].parent # NoTask => tasks[t].parent \in Task /\ Exists(tasks[t].parent)
    /\ \A t \in Task : Exists(t) => \E r \in Task : tasks[r].sess = tasks[t].sess /\ tasks[r].parent = NoTask

\* What fn_submit_result checked when it inserted a child still holds of it.
Linked ==
    \A t \in Task : tasks[t].parent # NoTask =>
        /\ tasks[t].depth = tasks[tasks[t].parent].depth + 1
        /\ tasks[t].depth <= MaxDepth
        /\ tasks[t].sess = tasks[tasks[t].parent].sess
        /\ \A x \in Ancestors(t) \ {t} : tasks[x].agent # tasks[t].agent
\* A session's delegated tasks leave room for its root.
Few == \A s \in Session : Cardinality(DelegatedIn(s)) < MaxSessionTasks

\* The inductive invariant of DelegationChain.
ChainInv == Forest /\ Linked /\ Few

\* The task keeps its place, and is there as before.
Stays(t) ==
    /\ Fixed(t) /\ (tasks'[t].status = "absent" <=> tasks[t].status = "absent")
    /\ tasks[t].status = "absent" => tasks'[t] = tasks[t]

\* A step that inserts nothing keeps every ancestor.
LEMMA StaysChain ==
    ASSUME ChainInv, \A t \in Task : Stays(t)
    PROVE  ChainInv'
  <1>1. \A t \in Task : /\ tasks'[t].sess = tasks[t].sess /\ tasks'[t].agent = tasks[t].agent
                        /\ tasks'[t].parent = tasks[t].parent /\ tasks'[t].depth = tasks[t].depth
                        /\ tasks'[t].status = "absent" <=> tasks[t].status = "absent"
    BY DEF Stays, Fixed
  <1>2. \A S \in SUBSET Task : AncestorClosed(S)' <=> AncestorClosed(S)
    BY <1>1 DEF AncestorClosed
  <1>3. \A t \in Task : Ancestors(t)' = Ancestors(t)
    BY <1>2 DEF Ancestors
  <1>4. Forest'
    BY <1>1 DEF ChainInv, Forest, Stays, Exists
  <1>5. Linked'
    <2> SUFFICES ASSUME NEW t \in Task, tasks'[t].parent # NoTask
                 PROVE  /\ tasks'[t].depth = tasks'[tasks'[t].parent].depth + 1
                        /\ tasks'[t].depth <= MaxDepth
                        /\ tasks'[t].sess = tasks'[tasks'[t].parent].sess
                        /\ \A x \in Ancestors(t)' \ {t} : tasks'[x].agent # tasks'[t].agent
      BY DEF Linked
    <2>1. PICK p \in Task : p = tasks[t].parent
      BY <1>1 DEF ChainInv, Forest
    <2>2. \A x \in Ancestors(t) : x \in Task
      BY DEF Ancestors
    <2> QED
      BY <1>1, <1>3, <2>1, <2>2 DEF ChainInv, Linked
  <1>6. \A s \in Session : DelegatedIn(s)' = DelegatedIn(s)
    BY <1>1 DEF DelegatedIn
  <1> QED
    BY <1>4, <1>5, <1>6 DEF ChainInv, Few

\* Ancestors are closed under parents, hold the task itself, and exist.
LEMMA AncestorFacts ==
    ASSUME Forest, NEW t \in Task
    PROVE  /\ t \in Ancestors(t) /\ Ancestors(t) \subseteq Task /\ AncestorClosed(Ancestors(t))
           /\ Exists(t) => \A x \in Ancestors(t) : Exists(x)
  <1>1. t \in Ancestors(t) /\ Ancestors(t) \subseteq Task
    BY DEF Ancestors
  <1>2. ASSUME NEW x \in Ancestors(t), tasks[x].parent # NoTask
        PROVE  tasks[x].parent \in Ancestors(t)
    <2>1. tasks[x].parent \in Task
      BY <1>2, <1>1 DEF Forest
    <2>2. ASSUME NEW S \in SUBSET Task, t \in S, AncestorClosed(S) PROVE tasks[x].parent \in S
      BY <1>2, <2>2 DEF Ancestors, AncestorClosed
    <2> QED
      BY <2>1, <2>2 DEF Ancestors
  <1>3. ASSUME Exists(t), NEW x \in Ancestors(t) PROVE Exists(x)
    <2> DEFINE E == {y \in Task : Exists(y)}
    <2>1. E \in SUBSET Task /\ t \in E /\ AncestorClosed(E)
      BY <1>3 DEF AncestorClosed, Forest
    <2>2. x \in E
      BY <2>1 DEF Ancestors
    <2> QED
      BY <2>2
  <1> QED
    BY <1>1, <1>2, <1>3 DEF AncestorClosed

\* Inserting x adds no ancestor to a task that was there.
LEMMA OldAncestors ==
    ASSUME Forest, NEW x \in Task, ~Exists(x), NEW y \in Task, y # x,
           \A z \in Task \ {x} : tasks'[z].parent = tasks[z].parent
    PROVE  Ancestors(y)' \subseteq Ancestors(y)
  <1> SUFFICES ASSUME NEW z \in Ancestors(y)', NEW S \in SUBSET Task, y \in S, AncestorClosed(S)
               PROVE  z \in S
    BY DEF Ancestors
  <1> DEFINE R == S \ {x}
  <1>1. R \in SUBSET Task /\ y \in R
    OBVIOUS
  <1>2. ASSUME NEW w \in R, tasks'[w].parent # NoTask PROVE tasks'[w].parent \in R
    <2>1. w \in Task \ {x} /\ w \in S /\ tasks'[w].parent = tasks[w].parent
      OBVIOUS
    <2>2. tasks[w].parent \in S /\ Exists(tasks[w].parent)
      BY <1>2, <2>1 DEF AncestorClosed, Forest
    <2> QED
      BY <2>1, <2>2
  <1>3. AncestorClosed(R)'
    BY <1>2 DEF AncestorClosed
  <1> HIDE DEF R
  <1>4. z \in R
    BY <1>1, <1>3 DEF Ancestors
  <1> QED
    BY <1>4 DEF R

\* The ancestors of a delegated task are itself and those of its parent.
LEMMA NewAncestors ==
    ASSUME Forest, NEW x \in Task, ~Exists(x), NEW t \in Task, Exists(t),
           tasks'[x].parent = t, \A z \in Task \ {x} : tasks'[z].parent = tasks[z].parent
    PROVE  Ancestors(x)' \subseteq {x} \cup Ancestors(t)
  <1>0. PICK A \in SUBSET Task : A = Ancestors(t)
    BY AncestorFacts
  <1> DEFINE R == {x} \cup A
  <1>1. R \in SUBSET Task /\ x \in R
    OBVIOUS
  <1>2. ASSUME NEW w \in R, tasks'[w].parent # NoTask PROVE tasks'[w].parent \in R
    <2>1. CASE w = x
      BY <1>0, <2>1, AncestorFacts
    <2>2. CASE w # x
      BY <1>0, <1>2, <2>2, AncestorFacts DEF AncestorClosed
    <2> QED
      BY <2>1, <2>2
  <1>3. AncestorClosed(R)'
    BY <1>2 DEF AncestorClosed
  <1> HIDE DEF R
  <1>4. Ancestors(x)' \subseteq R
    BY <1>1, <1>3 DEF Ancestors
  <1> QED
    BY <1>0, <1>4 DEF R

\* Task x appears; every other task keeps its place.
Appears(x) == ~Exists(x) /\ tasks'[x].status # "absent" /\ \A y \in Task \ {x} : Stays(y)

\* What was linked stays linked when a task appears.
LEMMA AppearsKeeps ==
    ASSUME ChainInv, NEW x \in Task, Appears(x), NEW t \in Task, t # x, tasks'[t].parent # NoTask
    PROVE  /\ tasks'[t].parent \in Task /\ tasks'[tasks'[t].parent].status # "absent"
           /\ tasks'[t].depth = tasks'[tasks'[t].parent].depth + 1
           /\ tasks'[t].depth <= MaxDepth
           /\ tasks'[t].sess = tasks'[tasks'[t].parent].sess
           /\ \A z \in Ancestors(t)' \ {t} : tasks'[z].agent # tasks'[t].agent
  <1>1. \A y \in Task \ {x} :
           /\ tasks'[y].sess = tasks[y].sess /\ tasks'[y].agent = tasks[y].agent
           /\ tasks'[y].parent = tasks[y].parent /\ tasks'[y].depth = tasks[y].depth
           /\ tasks'[y].status = "absent" <=> tasks[y].status = "absent"
    BY DEF Appears, Stays, Fixed
  <1>2. PICK p \in Task : p = tasks[t].parent /\ Exists(p)
    BY <1>1 DEF ChainInv, Forest
  <1>3. p # x /\ tasks'[t].parent = p
    BY <1>1, <1>2 DEF Appears
  <1>4. /\ tasks[t].depth = tasks[p].depth + 1 /\ tasks[t].depth <= MaxDepth
        /\ tasks[t].sess = tasks[p].sess
        /\ \A z \in Ancestors(t) \ {t} : tasks[z].agent # tasks[t].agent
    BY <1>1, <1>2 DEF ChainInv, Linked
  <1>5. Exists(t)
    BY <1>1, NullFacts DEF ChainInv, Forest, NoTaskRow
  <1>6. Ancestors(t)' \subseteq Ancestors(t)
    BY <1>1, OldAncestors DEF Appears, ChainInv
  <1>7. \A z \in Ancestors(t) : z \in Task \ {x}
    BY <1>5, AncestorFacts DEF Appears, ChainInv
  <1>8. \A z \in Ancestors(t)' \ {t} : tasks'[z].agent # tasks'[t].agent
    BY <1>1, <1>4, <1>6, <1>7
  <1> QED
    BY <1>1, <1>2, <1>3, <1>4, <1>8 DEF Exists

\* The forest stays one when x appears in a session that has a root.
LEMMA AppearsForest ==
    ASSUME TypeInv, ChainInv, NEW x \in Task, Appears(x),
           tasks'[x].parent # NoTask => tasks'[x].parent \in Task \ {x} /\ Exists(tasks'[x].parent),
           \E r \in Task : tasks'[r].sess = tasks'[x].sess /\ tasks'[r].parent = NoTask
    PROVE  Forest'
  <1>1. \A y \in Task \ {x} :
           /\ tasks'[y].sess = tasks[y].sess /\ tasks'[y].parent = tasks[y].parent
           /\ tasks'[y].status = "absent" <=> tasks[y].status = "absent"
           /\ tasks[y].status = "absent" => tasks'[y] = tasks[y]
    BY DEF Appears, Stays, Fixed
  <1>2. \A t \in Task : tasks'[t].status = "absent" => tasks'[t] = NoTaskRow
    BY <1>1 DEF Appears, ChainInv, Forest, Exists
  <1>3. ASSUME NEW t \in Task, tasks'[t].parent # NoTask
        PROVE  tasks'[t].parent \in Task /\ tasks'[tasks'[t].parent].status # "absent"
    <2>1. CASE t # x
      BY <1>3, <2>1, AppearsKeeps
    <2>2. CASE t = x
      BY <1>1, <1>3, <2>2 DEF Exists
    <2> QED
      BY <2>1, <2>2
  <1>4. ASSUME NEW t \in Task, tasks'[t].status # "absent"
        PROVE  \E r \in Task : tasks'[r].sess = tasks'[t].sess /\ tasks'[r].parent = NoTask
    <2>1. CASE t # x
      <3>1. Exists(t) /\ tasks[t].sess \in Session /\ tasks'[t].sess = tasks[t].sess
        BY <1>1, <1>4, <2>1 DEF Exists, TypeInv, References
      <3>2. PICK r \in Task : tasks[r].sess = tasks[t].sess /\ tasks[r].parent = NoTask
        BY <3>1 DEF ChainInv, Forest
      <3>3. tasks[x].sess = NoSession
        BY DEF Appears, ChainInv, Forest, NoTaskRow
      <3>4. r # x
        BY <3>1, <3>2, <3>3, RowsAssumption
      <3> QED
        BY <1>1, <3>1, <3>2, <3>4
    <2> QED
      BY <2>1
  <1> QED
    BY <1>2, <1>3, <1>4 DEF Forest, Exists

\* A new root is the end of its chain.
LEMMA InsertChain ==
    ASSUME TypeInv, ChainInv, Inserted
    PROVE  ChainInv'
  <1>1. PICK s \in Session, x \in Task, a \in Agent :
            tasks[x].status = "absent" /\ tasks' = [tasks EXCEPT ![x] = NewTask(s, a, NoTask, 0)]
    BY DEF Inserted
  <1>2. /\ tasks'[x] = NewTask(s, a, NoTask, 0) /\ tasks'[x].parent = NoTask
        /\ tasks'[x].status = "queued" /\ \A y \in Task \ {x} : tasks'[y] = tasks[y]
    BY <1>1 DEF TypeInv, TypeOK, NewTask, NoTaskRow
  <1>3. Appears(x)
    BY <1>1, <1>2 DEF Appears, Exists, Stays, Fixed
  <1>4. Forest'
    BY <1>2, <1>3, AppearsForest
  <1>5. Linked'
    BY <1>2, <1>3, AppearsKeeps DEF Linked
  <1>6. tasks[x].parent = NoTask
    BY <1>1 DEF ChainInv, Forest, Exists, NoTaskRow
  <1>7. \A z \in Session : DelegatedIn(z)' = DelegatedIn(z)
    BY <1>2, <1>6 DEF DelegatedIn
  <1> QED
    BY <1>4, <1>5, <1>7 DEF ChainInv, Few

-----------------------------------------------------------------------------
(* What counts tasks: slots, and the size of a session.                    *)
INSTANCE FiniteSetTheorems

\* The active tasks of an agent grow only by a task that is dispatched while
\* a slot is free.
LEMMA HoldingStep ==
    ASSUME TypeInv, Next, NEW a \in Agent
    PROVE  \/ HoldingOf(a)' \subseteq HoldingOf(a)
           \/ \E t \in Task : /\ tasks[t].agent = a /\ Dispatchable(t) /\ UNCHANGED cap
                              /\ HoldingOf(a)' \subseteq (HoldingOf(a) \ {t}) \cup {t}
  <1> USE DEF HoldingOf
  <1>1. tasks \in [Task -> TaskRow]
    BY DEF TypeInv, TypeOK
  <1>2. CASE Rests
    BY <1>2 DEF Rests
  <1>3. CASE Inserted
    BY <1>1, <1>3 DEF Inserted, NewTask, NoTaskRow, Holding
  <1>4. CASE Delegated
    <2>1. PICK c \in Call, x \in Task, b \in Agent, wait \in BOOLEAN, t \in Task : Hands(t, x, b, wait)
      BY <1>4, DelegateEffect DEF Delegated
    <2>2. /\ tasks[t].status \in Holding /\ tasks'[t].agent = tasks[t].agent
          /\ tasks'[x].status \notin Holding /\ \A y \in Task \ {t, x} : tasks'[y] = tasks[y]
      BY <1>1, <2>1 DEF Hands, NewTask, NoTaskRow, Holding, TaskRow
    <2> QED
      BY <2>2
  <1>5. ASSUME NEW s \in Session, CancelSession(s) PROVE HoldingOf(a)' \subseteq HoldingOf(a)
    <2>1. ASSUME NEW t \in Task, tasks'[t].status \in Holding PROVE tasks'[t] = tasks[t]
      BY <1>1, <1>5, <2>1, CancelStays DEF Holding
    <2> QED
      BY <2>1
  <1>6. ASSUME NEW t \in Task, Moved(t)
        PROVE  \/ HoldingOf(a)' \subseteq HoldingOf(a)
               \/ /\ tasks[t].agent = a /\ Dispatchable(t) /\ UNCHANGED cap
                  /\ HoldingOf(a)' \subseteq (HoldingOf(a) \ {t}) \cup {t}
    <2>1. (\A x \in Task \ {t} : tasks'[x] = tasks[x]) /\ tasks'[t].agent = tasks[t].agent
      BY <1>6 DEF Moved, Only, Fixed
    <2>2. tasks'[t].status \in Holding =>
              tasks[t].status \in Holding \/ (Dispatchable(t) /\ UNCHANGED cap)
      BY <1>6 DEF Moved
    <2> QED
      BY <2>1, <2>2
  <1> QED
    BY <1>2, <1>3, <1>4, <1>5, <1>6, StepEffect

\* When an agent gets one more active task, it is within its cap.
LEMMA CapStep ==
    ASSUME TypeInv, Next, NEW a \in Agent,
           Cardinality(HoldingOf(a)') > Cardinality(HoldingOf(a))
    PROVE  Cardinality(HoldingOf(a)') <= cap'[a]
  <1>1. IsFiniteSet(HoldingOf(a)) /\ IsFiniteSet(HoldingOf(a)')
    BY RowsAssumption, FS_Subset DEF HoldingOf
  <1>2. Cardinality(HoldingOf(a)) \in Nat /\ Cardinality(HoldingOf(a)') \in Nat
    BY <1>1, FS_CardinalityType
  <1>3. ~(HoldingOf(a)' \subseteq HoldingOf(a))
    BY <1>1, <1>2, FS_Subset
  <1>4. PICK t \in Task : /\ tasks[t].agent = a /\ Dispatchable(t) /\ UNCHANGED cap
                          /\ HoldingOf(a)' \subseteq (HoldingOf(a) \ {t}) \cup {t}
    BY <1>3, HoldingStep
  <1> DEFINE S == HoldingOf(a) \ {t}
  <1>5. IsFiniteSet(S) /\ Cardinality(S) \in Nat
    BY <1>1, FS_RemoveElement, FS_CardinalityType
  <1>6. IsFiniteSet(S \cup {t}) /\ Cardinality(S \cup {t}) = Cardinality(S) + 1
    BY <1>5, FS_AddElement
  <1>7. Cardinality(HoldingOf(a)') <= Cardinality(S) + 1
    <2>1. HoldingOf(a)' \subseteq S \cup {t}
      BY <1>4
    <2> HIDE DEF S
    <2>2. Cardinality(HoldingOf(a)') <= Cardinality(S \cup {t})
      BY <1>6, <2>1, FS_Subset
    <2> QED
      BY <1>6, <2>2
  <1>8. Cardinality(S) < cap[a] /\ cap[a] \in Nat
    <2>1. Cardinality(S) < cap[a]
      BY <1>4 DEF Dispatchable, SlotFree
    <2>2. cap[a] \in Nat
      BY LimitsAssumption DEF TypeInv, TypeOK
    <2> QED
      BY <2>1, <2>2
  <1>9. cap'[a] = cap[a]
    BY <1>4
  <1> HIDE DEF S
  <1> QED
    BY <1>2, <1>5, <1>7, <1>8, <1>9

\* An agent gets a further active task only within max_concurrent_tasks: the
\* slot that fn_dispatch_tasks counted is still free when the task starts.
THEOREM GrowthIsCapped == Spec => CapOnGrowth
  <1>1. TypeInv /\ [Next]_vars =>
          [\A a \in Agent : Cardinality(HoldingOf(a)') > Cardinality(HoldingOf(a))
              => Cardinality(HoldingOf(a)') <= cap'[a]]_vars
    BY CapStep
  <1> QED
    BY <1>1, TypeCorrect, PTL DEF Spec, CapOnGrowth

\* A session whose tasks are fewer than max_session_tasks has a root among
\* them, so one more delegated task is still within the bound.
LEMMA RoomForOne ==
    ASSUME ChainInv, NEW s \in Session, NEW x \in Task, NEW r \in Task,
           tasks[r].sess = s, tasks[r].parent = NoTask,
           Cardinality({z \in Task : tasks[z].sess = s}) < MaxSessionTasks
    PROVE  Cardinality(DelegatedIn(s) \cup {x}) < MaxSessionTasks
  <1> DEFINE A == {z \in Task : tasks[z].sess = s}
             D == DelegatedIn(s)
  <1>1. IsFiniteSet(A) /\ IsFiniteSet(D)
    BY RowsAssumption, FS_Subset DEF DelegatedIn
  <1>2. Cardinality(A) \in Nat /\ Cardinality(D) \in Nat
    BY <1>1, FS_CardinalityType
  <1>3. r \notin D /\ D \cup {r} \in SUBSET A
    BY DEF DelegatedIn
  <1> HIDE DEF A, D
  <1>4. Cardinality(D \cup {r}) = Cardinality(D) + 1
    BY <1>1, <1>3, FS_AddElement
  <1>5. Cardinality(D) + 1 <= Cardinality(A)
    BY <1>1, <1>3, <1>4, FS_Subset
  <1>6. Cardinality(D \cup {x}) \in {Cardinality(D), Cardinality(D) + 1}
    BY <1>1, FS_AddElement
  <1>7. Cardinality(A) < MaxSessionTasks
    BY DEF A
  <1>8. Cardinality(D \cup {x}) < MaxSessionTasks
    BY <1>2, <1>5, <1>6, <1>7, LimitsAssumption
  <1> QED
    BY <1>8 DEF D

\* A delegation extends a chain within its bounds: MayDelegate looked at the
\* ancestors, the depth and the size of the session.
LEMMA DelegateChain ==
    ASSUME TypeInv, ChainInv, Delegated
    PROVE  ChainInv'
  <1>1. PICK c \in Call, x \in Task, b \in Agent, wait \in BOOLEAN : ReplyDelegate(c, x, b, wait)
    BY DEF Delegated
  <1>2. PICK t \in Task : t = calls[c].task /\ Hands(t, x, b, wait)
    BY <1>1, DelegateEffect
  <1>3. MayDelegate(t, b)
    BY <1>1, <1>2 DEF ReplyDelegate
  <1>4. tasks[t] \in TaskRow /\ tasks[t].sess \in Session /\ Exists(t) /\ ~Exists(x) /\ x # t
    BY <1>2 DEF Hands, TypeInv, TypeOK, References, Exists
  <1>5. /\ tasks'[x].status = "queued" /\ tasks'[x].sess = tasks[t].sess /\ tasks'[x].agent = b
        /\ tasks'[x].parent = t /\ tasks'[x].depth = tasks[t].depth + 1
    BY <1>2 DEF Hands, NewTask, NoTaskRow
  <1>6. Fixed(t) /\ tasks'[t].status # "absent"
    BY <1>2, <1>4 DEF Hands, Fixed, TaskRow
  <1>7. Appears(x)
    BY <1>2, <1>4, <1>5, <1>6 DEF Hands, Appears, Stays, Fixed, Exists
  <1>8. PICK r \in Task : tasks[r].sess = tasks[t].sess /\ tasks[r].parent = NoTask
    BY <1>4 DEF ChainInv, Forest
  <1>9. r # x
    BY <1>4, <1>8, RowsAssumption DEF ChainInv, Forest, NoTaskRow
  <1>10. tasks'[r].sess = tasks'[x].sess /\ tasks'[r].parent = NoTask
    BY <1>5, <1>7, <1>8, <1>9 DEF Appears, Stays, Fixed
  <1>11. Forest'
    BY <1>4, <1>5, <1>7, <1>10, AppearsForest
  <1>12. \A z \in Task \ {x} : tasks'[z].parent = tasks[z].parent /\ tasks'[z].agent = tasks[z].agent
    BY <1>7 DEF Appears, Stays, Fixed
  <1>13. Ancestors(x)' \subseteq {x} \cup Ancestors(t)
    BY <1>4, <1>5, <1>12, NewAncestors DEF ChainInv
  <1>14. \A z \in Ancestors(t) : z \in Task \ {x} /\ tasks[z].agent # b
    BY <1>3, <1>4, AncestorFacts DEF ChainInv, MayDelegate
  <1>15. \A z \in Ancestors(x)' \ {x} : tasks'[z].agent # tasks'[x].agent
    BY <1>5, <1>12, <1>13, <1>14
  <1>16. /\ tasks'[x].depth = tasks'[tasks'[x].parent].depth + 1
         /\ tasks'[x].depth <= MaxDepth /\ tasks'[x].sess = tasks'[tasks'[x].parent].sess
    BY <1>3, <1>5, <1>6 DEF Fixed, MayDelegate
  <1>17. Linked'
    BY <1>7, <1>15, <1>16, AppearsKeeps DEF Linked
  <1>18. ASSUME NEW s \in Session PROVE Cardinality(DelegatedIn(s)') < MaxSessionTasks
    <2>1. \A z \in Task \ {x} : tasks'[z].parent = tasks[z].parent /\ tasks'[z].sess = tasks[z].sess
      BY <1>7 DEF Appears, Stays, Fixed
    <2>2. tasks[x].parent = NoTask /\ t # NoTask
      BY <1>4, RowsAssumption DEF ChainInv, Forest, NoTaskRow
    <2>3. CASE s # tasks[t].sess
      <3>1. DelegatedIn(s)' = DelegatedIn(s)
        BY <1>5, <2>1, <2>2, <2>3 DEF DelegatedIn
      <3> QED
        BY <3>1 DEF ChainInv, Few
    <2>4. CASE s = tasks[t].sess
      <3>1. DelegatedIn(s)' = DelegatedIn(s) \cup {x}
        BY <1>5, <2>1, <2>2, <2>4 DEF DelegatedIn
      <3>2. Cardinality({z \in Task : tasks[z].sess = s}) < MaxSessionTasks
        BY <1>3, <2>4 DEF MayDelegate
      <3> QED
        BY <1>8, <2>4, <3>1, <3>2, RoomForOne
    <2> QED
      BY <2>3, <2>4
  <1> QED
    BY <1>11, <1>17, <1>18 DEF ChainInv, Few

\* Every step keeps the chains.
LEMMA ChainStep ==
    ASSUME TypeInv, ChainInv, Next
    PROVE  ChainInv'
  <1>1. CASE Rests
    <2>1. \A t \in Task : Stays(t)
      BY <1>1 DEF Rests, Stays, Fixed
    <2> QED
      BY <2>1, StaysChain
  <1>2. ASSUME NEW s \in Session, CancelSession(s) PROVE ChainInv'
    <2>1. ASSUME NEW t \in Task PROVE Stays(t)
      BY <1>2, CancelStays DEF Stays, Open
    <2> QED
      BY <2>1, StaysChain
  <1>3. ASSUME NEW t \in Task, Moved(t) PROVE ChainInv'
    <2>1. ASSUME NEW x \in Task PROVE Stays(x)
      BY <1>3 DEF Moved, Only, Stays, Fixed, Open
    <2> QED
      BY <2>1, StaysChain
  <1> QED
    BY <1>1, <1>2, <1>3, InsertChain, DelegateChain, StepEffect

\* Delegation chains stay within their session, depth and size, and visit no
\* agent twice.
THEOREM ChainsAreSound == Spec => []DelegationChain
  <1>1. Init => ChainInv
    <2> SUFFICES ASSUME Init PROVE ChainInv
      OBVIOUS
    <2>1. \A t \in Task : tasks[t] = NoTaskRow
      BY DEF Init
    <2>2. \A t \in Task : tasks[t].parent = NoTask /\ ~Exists(t)
      BY <2>1 DEF Exists, NoTaskRow
    <2>4. Forest /\ Linked
      BY <2>1, <2>2 DEF Forest, Linked
    <2>3. \A s \in Session : DelegatedIn(s) = {}
      BY <2>2 DEF DelegatedIn
    <2> QED
      BY <2>3, <2>4, FS_EmptySet, LimitsAssumption DEF ChainInv, Few
  <1>2. TypeInv /\ ChainInv /\ [Next]_vars => ChainInv'
    <2>1. ASSUME ChainInv, UNCHANGED vars PROVE ChainInv'
      <3>1. \A t \in Task : Stays(t)
        BY <2>1 DEF vars, Stays, Fixed
      <3> QED
        BY <2>1, <3>1, StaysChain
    <2> QED
      BY <2>1, ChainStep
  <1>3. ChainInv => DelegationChain
    BY DEF ChainInv, Linked, Few, DelegatedIn, DelegationChain
  <1> QED
    BY <1>1, <1>2, <1>3, TypeCorrect, PTL DEF Spec
=============================================================================
