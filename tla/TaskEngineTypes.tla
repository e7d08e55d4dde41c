--------------------------- MODULE TaskEngineTypes ---------------------------
(***************************************************************************)
(* TaskEngine for every number of agents, sessions, tasks and calls and    *)
(* every value of the policy limits: type correctness and the references   *)
(* that handlers follow, what a step writes to tasks, sessions and         *)
(* approvals, and what follows from that alone.                            *)
(***************************************************************************)
EXTENDS TaskEngine, TLAPS

\* The references handlers follow: sessions and agents are not null, and an
\* outstanding call belongs to an existing task.
References ==
    /\ \A t \in Task : tasks[t].status # "absent" =>
          tasks[t].sess \in Session /\ tasks[t].agent \in Agent
    /\ \A c \in Call : calls[c].st # "free" =>
          /\ calls[c].task \in Task /\ calls[c].kind \in Kind
          /\ tasks[calls[c].task].status # "absent"
    /\ \A s \in Session : sessions[s].status # "absent" => sessions[s].agent \in Agent
    /\ \A c \in jobs : calls[c].st \in {"in_flight", "lost"}

TypeInv == TypeOK /\ References

-----------------------------------------------------------------------------
\* An absent row has the type of its table.
LEMMA NullFacts ==
    /\ NoTaskRow \in TaskRow /\ NoSessionRow \in SessionRow /\ NoCall \in CallRow
    /\ NoTaskRow.status = "absent" /\ NoSessionRow.status = "absent" /\ NoCall.st = "free"
  BY DEF NoTaskRow, NoSessionRow, NoCall, TaskRow, SessionRow, CallRow

\* The empty tables are well typed.
LEMMA InitTypeInv == Init => TypeInv
  BY NullFacts DEF Init, TypeInv, TypeOK, References

\* maybe_complete_session only touches the status and final answer of s.
LEMMA MaybeCompleteType ==
    ASSUME NEW s, NEW tk, NEW ss \in [Session -> SessionRow]
    PROVE  /\ MaybeComplete(s, tk, ss) \in [Session -> SessionRow]
           /\ \A x \in Session :
                /\ MaybeComplete(s, tk, ss)[x].agent = ss[x].agent
                /\ MaybeComplete(s, tk, ss)[x].root = ss[x].root
                /\ MaybeComplete(s, tk, ss)[x].status = "absent" <=> ss[x].status = "absent"
                /\ x # s => MaybeComplete(s, tk, ss)[x] = ss[x]
  <1> DEFINE R == MaybeComplete(s, tk, ss)
             failed == [ss EXCEPT ![s].status = "failed"]
             done == [ss EXCEPT ![s].status = "completed",
                        ![s].final = IF ss[s].root = NoTask THEN @ ELSE ss[s].root]
  <1>1. R = ss \/ (ss[s].status = "open" /\ (R = failed \/ R = done))
    BY Zenon DEF MaybeComplete
  <1> HIDE DEF R
  <1>2. R \in [Session -> SessionRow]
    BY <1>1 DEF SessionRow
  <1>3. ASSUME NEW x \in Session
        PROVE  R[x].agent = ss[x].agent /\ R[x].root = ss[x].root
    BY <1>1 DEF SessionRow
  <1>4. ASSUME NEW x \in Session
        PROVE  R[x].status = "absent" <=> ss[x].status = "absent"
    BY <1>1 DEF SessionRow
  <1>5. ASSUME NEW x \in Session, x # s
        PROVE  R[x] = ss[x]
    BY <1>1, <1>5 DEF SessionRow
  <1> QED
    BY <1>2, <1>3, <1>4, <1>5 DEF R

\* A step of one existing task t and its session: what no such step changes.
Touch(t) ==
    /\ tasks' \in [Task -> TaskRow] /\ sessions' \in [Session -> SessionRow]
    /\ \A x \in Task : x # t => tasks'[x] = tasks[x]
    /\ tasks'[t].status # "absent"
    /\ tasks'[t].sess = tasks[t].sess /\ tasks'[t].agent = tasks[t].agent
    /\ \A s \in Session : /\ sessions'[s].agent = sessions[s].agent
                          /\ sessions'[s].status = "absent" <=> sessions[s].status = "absent"

\* Counting a step and setting the status writes one well-typed row.
LEMMA StatusStep ==
    ASSUME tasks \in [Task -> TaskRow], NEW t \in Task, NEW st \in Open \union Terminal,
           tasks' = [tasks EXCEPT ![t].status = st, ![t].steps = @ + 1]
    PROVE  /\ tasks' \in [Task -> TaskRow] /\ \A x \in Task : x # t => tasks'[x] = tasks[x]
           /\ tasks'[t].status = st
           /\ tasks'[t].sess = tasks[t].sess /\ tasks'[t].agent = tasks[t].agent
  <1>1. PICK old \in TaskRow : old = tasks[t]
    OBVIOUS
  <1> DEFINE mid == [old EXCEPT !.status = st]
             new == [mid EXCEPT !.steps = old.steps + 1]
  <1>2. mid \in TaskRow /\ mid.status = st /\ mid.sess = old.sess /\ mid.agent = old.agent
    BY DEF TaskRow
  <1>3. tasks' = [tasks EXCEPT ![t] = new]
    BY <1>1 DEF TaskRow
  <1>4. old.steps + 1 \in Nat
    BY DEF TaskRow
  <1> HIDE DEF mid
  <1>5. new \in TaskRow /\ new.status = st /\ new.sess = old.sess /\ new.agent = old.agent
    BY <1>2, <1>4 DEF TaskRow
  <1> HIDE DEF new
  <1> QED
    BY <1>1, <1>3, <1>5

\* Failing a task touches no other task, and only its own session.
LEMMA FailTouches ==
    ASSUME TypeInv, NEW t \in Task, NEW n \in {0, 1}, Fail(t, n)
    PROVE  Touch(t) /\ tasks'[t].status = "failed"
  <1>1. /\ tasks' \in [Task -> TaskRow]
        /\ \A x \in Task : x # t => tasks'[x] = tasks[x]
        /\ tasks'[t].status = "failed" /\ tasks'[t].sess = tasks[t].sess
        /\ tasks'[t].agent = tasks[t].agent
    BY DEF TypeInv, TypeOK, Fail, TaskRow, Terminal
  <1>2. QED
    BY <1>1, MaybeCompleteType DEF TypeInv, TypeOK, Fail, Touch

\* An error payload touches no other task, and only its own session.
LEMMA SubmitErrorTouches ==
    ASSUME TypeInv, NEW t \in Task, SubmitError(t)
    PROVE  Touch(t) /\ tasks'[t].status \in {"running", "failed"}
  <1>1. CASE Fail(t, 1)
    BY <1>1, FailTouches
  <1>2. CASE ~Fail(t, 1)
    <2>1. /\ tasks' = [tasks EXCEPT ![t].status = "running",
                                    ![t].steps = @ + 1, ![t].errs = @ + 1]
          /\ sessions' = sessions
      BY <1>2 DEF SubmitError
    <2>2. QED
      BY <2>1 DEF TypeInv, TypeOK, TaskRow, Touch, Open
  <1> QED
    BY <1>1, <1>2

\* A reply that leaves the task running touches nothing but the task.
LEMMA AdvanceTouches ==
    ASSUME TypeInv, NEW t \in Task, tasks[t].status # "absent", Advance(t) \/ Reject(t)
    PROVE  Touch(t) /\ tasks'[t].status = tasks[t].status
  <1>1. CASE Advance(t)
    BY <1>1 DEF Advance, TypeInv, TypeOK, TaskRow, Touch
  <1>2. CASE Reject(t)
    BY <1>2 DEF Reject, TypeInv, TypeOK, TaskRow, Touch
  <1> QED
    BY <1>1, <1>2

\* Touching one task and moving calls keeps the references.
LEMMA TouchReferences ==
    ASSUME TypeInv, NEW t \in Task, tasks[t].status # "absent", Touch(t),
           calls' \in [Call -> CallRow], jobs' \in SUBSET Call,
           \A c \in Call : calls'[c].st # "free" =>
              \/ /\ calls[c].st # "free" /\ calls'[c].task = calls[c].task
                 /\ calls'[c].kind = calls[c].kind
              \/ calls'[c].task = t /\ calls'[c].kind \in Kind,
           \A c \in jobs' : calls'[c].st \in {"in_flight", "lost"}
    PROVE  References'
  <1>1. /\ \A x \in Task : tasks[x].status # "absent" => tasks'[x].status # "absent"
        /\ \A x \in Task : tasks'[x].status # "absent" => tasks[x].status # "absent"
        /\ \A x \in Task : tasks'[x].sess = tasks[x].sess /\ tasks'[x].agent = tasks[x].agent
    BY DEF Touch
  <1>2. \A x \in Task : tasks'[x].status # "absent" =>
          tasks'[x].sess \in Session /\ tasks'[x].agent \in Agent
    BY <1>1 DEF TypeInv, References
  <1>3. \A c \in Call : calls'[c].st # "free" =>
          /\ calls'[c].task \in Task /\ calls'[c].kind \in Kind
          /\ tasks'[calls'[c].task].status # "absent"
    BY <1>1 DEF TypeInv, References
  <1>4. \A s \in Session : sessions'[s].status # "absent" => sessions'[s].agent \in Agent
    BY DEF TypeInv, References, Touch
  <1> QED
    BY <1>2, <1>3, <1>4 DEF References

\* Harvesting a call frees its row and no other.
LEMMA HarvestCalls ==
    ASSUME TypeInv, NEW c \in Call, Harvest(c)
    PROVE  /\ calls' \in [Call -> CallRow] /\ jobs' \in SUBSET Call
           /\ \A d \in Call : calls'[d].st # "free" => calls'[d] = calls[d]
           /\ \A d \in jobs' : calls'[d].st \in {"in_flight", "lost"}
  BY NullFacts DEF TypeInv, TypeOK, References, Harvest

\* A call in flight or lost belongs to an existing task.
LEMMA JobTask ==
    ASSUME TypeInv, NEW c \in Call, calls[c].st # "free" \/ c \in jobs
    PROVE  calls[c].task \in Task /\ tasks[calls[c].task].status # "absent"
  BY DEF TypeInv, References

\* Harvesting a call while its task is touched keeps the tables well typed.
LEMMA HarvestTypeInv ==
    ASSUME TypeInv, NEW c \in Call, c \in jobs, Harvest(c), Touch(calls[c].task),
           approvals' \in [Task -> Nat], active' \in [Agent -> BOOLEAN],
           cap' \in [Agent -> Caps]
    PROVE  TypeInv'
  <1>1. References'
    BY JobTask, HarvestCalls, TouchReferences
  <1> QED
    BY <1>1, HarvestCalls DEF TypeInv, TypeOK, Touch

-----------------------------------------------------------------------------
\* A task that is inserted is a well-typed row.
LEMMA NewTaskType ==
    ASSUME NEW s \in Session, NEW a \in Agent, NEW p \in Task \union {NoTask}, NEW d \in Nat
    PROVE  /\ NewTask(s, a, p, d) \in TaskRow
           /\ NewTask(s, a, p, d).status = "queued" /\ NewTask(s, a, p, d).sess = s
           /\ NewTask(s, a, p, d).agent = a /\ NewTask(s, a, p, d).parent = p
           /\ NewTask(s, a, p, d).depth = d
           /\ NewTask(s, a, p, d).steps = 0 /\ NewTask(s, a, p, d).turns = 0
           /\ NewTask(s, a, p, d).raises = 0
  BY DEF NewTask, NoTaskRow, TaskRow, Open

\* So is a root task.
LEMMA RootTaskType ==
    ASSUME NEW s \in Session, NEW a \in Agent
    PROVE  /\ NewTask(s, a, NoTask, 0) \in TaskRow
           /\ NewTask(s, a, NoTask, 0).status = "queued"
           /\ NewTask(s, a, NoTask, 0).sess = s /\ NewTask(s, a, NoTask, 0).agent = a
  <1>1. NoTask \in Task \union {NoTask} /\ 0 \in Nat
    OBVIOUS
  <1> QED
    BY <1>1, NewTaskType

\* fn_cancel_session writes well-typed rows.
LEMMA CancelledRow ==
    ASSUME NEW r \in TaskRow
    PROVE  [r EXCEPT !.status = "cancelled", !.steps = @ + 1] \in TaskRow
  <1>1. r.steps + 1 \in Nat /\ "cancelled" \in Open \union Terminal
    BY DEF TaskRow, Terminal
  <1> QED
    BY <1>1 DEF TaskRow

\* The INSERT of a root task, once its session row is written.
LEMMA InsertTypeInv ==
    ASSUME TypeInv, NEW t \in Task, NEW r \in TaskRow,
           r.status # "absent" /\ r.sess \in Session /\ r.agent \in Agent,
           tasks' = [tasks EXCEPT ![t] = r],
           sessions' \in [Session -> SessionRow],
           \A x \in Session : sessions'[x].status # "absent" => sessions'[x].agent \in Agent,
           UNCHANGED <<approvals, calls, jobs, active, cap>>
    PROVE  TypeInv'
  <1>1. TypeOK'
    BY DEF TypeInv, TypeOK
  <1>2. References'
    BY DEF TypeInv, TypeOK, References
  <1> QED
    BY <1>1, <1>2 DEF TypeInv

\* Every operator function keeps the tables well typed.
LEMMA OperatorTypeInv == TypeInv /\ OperatorStep => TypeInv'
  <1> SUFFICES ASSUME TypeInv, OperatorStep PROVE TypeInv'
    OBVIOUS
  <1>1. ASSUME NEW s \in Session, NEW t \in Task, NEW a \in Agent, CreateSession(s, t, a)
        PROVE  TypeInv'
    <2>1. sessions \in [Session -> SessionRow]
      BY DEF TypeInv, TypeOK
    <2>4. PICK old \in SessionRow : old = sessions[s]
      BY <2>1
    <2> DEFINE mid == [old EXCEPT !.status = "open"]
               new == [mid EXCEPT !.agent = a]
    <2>5. mid \in SessionRow
      BY DEF SessionRow
    <2>6. sessions' = [sessions EXCEPT ![s] = new]
      BY <1>1, <2>1, <2>4 DEF CreateSession, SessionRow
    <2> HIDE DEF mid
    <2>7. new \in SessionRow /\ new.agent = a
      BY <2>5 DEF SessionRow
    <2> HIDE DEF new
    <2>2. sessions' \in [Session -> SessionRow]
      BY <2>1, <2>6, <2>7
    <2>3. \A x \in Session : sessions'[x].status # "absent" => sessions'[x].agent \in Agent
      BY <2>1, <2>6, <2>7 DEF TypeInv, References
    <2> QED
      <3> DEFINE r == NewTask(s, a, NoTask, 0)
      <3>0. r \in TaskRow /\ r.status = "queued" /\ r.sess = s /\ r.agent = a
        BY RootTaskType
      <3>1. r \in TaskRow /\ r.status # "absent" /\ r.sess \in Session /\ r.agent \in Agent
        BY <3>0
      <3>2. tasks' = [tasks EXCEPT ![t] = r] /\ UNCHANGED <<approvals, calls, jobs, active, cap>>
        BY <1>1 DEF CreateSession
      <3> HIDE DEF r
      <3> QED
        BY <2>2, <2>3, <3>1, <3>2, InsertTypeInv
  <1>2. ASSUME NEW s \in Session, NEW t \in Task, ContinueSession(s, t)
        PROVE  TypeInv'
    <2>1. sessions[s].agent \in Agent
      BY <1>2 DEF ContinueSession, TypeInv, References
    <2>3. PICK old \in SessionRow : old = sessions[s]
      BY DEF TypeInv, TypeOK
    <2> DEFINE new == [old EXCEPT !.status = "open"]
    <2>4. new \in SessionRow /\ new.agent = old.agent
      BY DEF SessionRow
    <2>5. sessions' = [sessions EXCEPT ![s] = new] /\ sessions \in [Session -> SessionRow]
      BY <1>2, <2>3 DEF ContinueSession, TypeInv, TypeOK
    <2> HIDE DEF new
    <2>2. /\ sessions' \in [Session -> SessionRow]
          /\ \A x \in Session : sessions'[x].status # "absent" => sessions'[x].agent \in Agent
      BY <2>1, <2>3, <2>4, <2>5 DEF TypeInv, References
    <2> QED
      <3>a. PICK a \in Agent : a = sessions[s].agent
        BY <2>1
      <3> DEFINE r == NewTask(s, a, NoTask, 0)
      <3>0. r \in TaskRow /\ r.status = "queued" /\ r.sess = s /\ r.agent = a
        BY RootTaskType
      <3>1. r \in TaskRow /\ r.status # "absent" /\ r.sess \in Session /\ r.agent \in Agent
        BY <3>0
      <3>2. tasks' = [tasks EXCEPT ![t] = r] /\ UNCHANGED <<approvals, calls, jobs, active, cap>>
        BY <1>2, <3>a DEF ContinueSession
      <3> HIDE DEF r
      <3> QED
        BY <2>2, <3>1, <3>2, InsertTypeInv
  <1>3. ASSUME NEW s \in Session, CancelSession(s)
        PROVE  TypeInv'
    <2>0. tasks \in [Task -> TaskRow]
      BY DEF TypeInv, TypeOK
    <2>1. /\ tasks' \in [Task -> TaskRow]
          /\ \A t \in Task : tasks'[t].sess = tasks[t].sess /\ tasks'[t].agent = tasks[t].agent
      BY <1>3, <2>0, CancelledRow DEF CancelSession, TaskRow
    <2>6. \A t \in Task : tasks'[t].status = "absent" <=> tasks[t].status = "absent"
      BY <1>3, <2>0 DEF CancelSession, TaskRow, Open
    <2>2. /\ calls' \in [Call -> CallRow]
          /\ \A c \in Call : calls'[c].st # "free" =>
                /\ calls[c].st # "free" /\ calls'[c].task = calls[c].task
                /\ calls'[c].kind = calls[c].kind
          /\ \A c \in jobs : calls'[c].st \in {"in_flight", "lost"}
      <3>0. calls \in [Call -> CallRow] /\ jobs \subseteq Call
        BY DEF TypeInv, TypeOK
      <3>1. \A c \in Call : calls'[c] \in {calls[c], Lost(c)}
        BY <1>3 DEF CancelSession
      <3>2. ASSUME NEW c \in Call
            PROVE  /\ Lost(c) \in CallRow
                   /\ Lost(c).st # "free" => Lost(c).task = calls[c].task /\ Lost(c).kind = calls[c].kind
                   /\ IF c \in jobs THEN Lost(c).st = "lost" ELSE Lost(c).st = "free"
        <4>1. CASE c \in jobs
          BY <3>0, <4>1 DEF Lost, CallRow
        <4>2. CASE c \notin jobs
          BY <4>2, NullFacts DEF Lost
        <4> QED
          BY <4>1, <4>2
      <3>3. \A c \in jobs : calls[c].st \in {"in_flight", "lost"}
        BY DEF TypeInv, References
      <3>4. calls' \in [Call -> CallRow]
        BY <1>3, <3>0, <3>2 DEF CancelSession
      <3> QED
        BY <3>0, <3>1, <3>2, <3>3, <3>4
    <2>3. /\ sessions' \in [Session -> SessionRow]
          /\ \A x \in Session : /\ sessions'[x].agent = sessions[x].agent
                                /\ sessions'[x].status = "absent" <=> sessions[x].status = "absent"
      <3>0. sessions \in [Session -> SessionRow]
        BY DEF TypeInv, TypeOK
      <3>1. CASE sessions' = sessions
        BY <3>0, <3>1
      <3>2. CASE sessions[s].status = "open" /\ sessions' = [sessions EXCEPT ![s].status = "cancelled"]
        BY <3>0, <3>2 DEF SessionRow
      <3> QED
        BY <1>3, <3>1, <3>2, Zenon DEF CancelSession
    <2>4. approvals' \in [Task -> Nat] /\ UNCHANGED <<jobs, active, cap>>
      BY <1>3 DEF CancelSession, TypeInv, TypeOK
    <2>5. QED
      BY <2>1, <2>2, <2>3, <2>4, <2>6 DEF TypeInv, TypeOK, References
  <1>4. ASSUME NEW t \in Task, NEW accept \in BOOLEAN, DecideApproval(t, accept)
        PROVE  TypeInv'
    <2>1. approvals' \in [Task -> Nat] /\ UNCHANGED <<calls, jobs, active, cap>>
      BY <1>4 DEF DecideApproval, TypeInv, TypeOK
    <2>2. CASE UNCHANGED <<tasks, sessions>>
      BY <2>1, <2>2 DEF TypeInv, TypeOK, References
    <2>3. CASE ~UNCHANGED <<tasks, sessions>>
      <3>1. /\ tasks[t].status # "absent"
            /\ \/ /\ tasks' = [tasks EXCEPT ![t].status = "queued", ![t].steps = @ + 1]
                  /\ UNCHANGED sessions
               \/ /\ tasks' = [tasks EXCEPT ![t].status = "failed", ![t].steps = @ + 1]
                  /\ sessions' = MaybeComplete(tasks[t].sess, tasks', sessions)
        BY <1>4, <2>3 DEF DecideApproval
      <3>2. Touch(t)
        BY <3>1, MaybeCompleteType DEF Touch, TypeInv, TypeOK, TaskRow, Open, Terminal
      <3> QED
        BY <2>1, <3>1, <3>2, TouchReferences DEF Touch, TypeInv, TypeOK, References
    <2> QED
      BY <2>2, <2>3
  <1>5. ASSUME NEW a \in Toggled, NEW b \in BOOLEAN, SetAgentActive(a, b)
        PROVE  TypeInv'
    BY <1>5 DEF SetAgentActive, TypeInv, TypeOK, References
  <1>6. ASSUME NEW a \in Agent, NEW n \in Caps, SetPolicy(a, n)
        PROVE  TypeInv'
    BY <1>6 DEF SetPolicy, TypeInv, TypeOK, References
  <1> QED
    BY <1>1, <1>2, <1>3, <1>4, <1>5, <1>6 DEF OperatorStep

\* A delegation inserts a child whose session and parent exist.
LEMMA DelegateTypeInv ==
    ASSUME TypeInv, NEW c \in Call, NEW x \in Task, NEW b \in Agent, NEW wait \in BOOLEAN,
           ReplyDelegate(c, x, b, wait)
    PROVE  TypeInv'
  <1> DEFINE t == calls[c].task
             s == tasks[t].sess
  <1>1. /\ t \in Task /\ tasks[t].status = "running" /\ tasks[x].status = "absent" /\ x # t
        /\ s \in Session /\ c \in jobs
    BY JobTask DEF ReplyDelegate, Reply, Answered, NextTask, TypeInv, References
  <1>2. tasks[t].depth + 1 \in Nat /\ tasks[t].steps + 1 \in Nat
    BY <1>1 DEF TypeInv, TypeOK, TaskRow
  <1>3. PICK child \in TaskRow :
           /\ child = NewTask(s, b, t, tasks[t].depth + 1)
           /\ child.status = "queued" /\ child.sess = s /\ child.agent = b
    BY <1>1, <1>2, NewTaskType
  <1>4. tasks' = [tasks EXCEPT ![x] = child, ![t].steps = @ + 1,
                     ![t].status = IF wait THEN "running" ELSE "completed"]
    BY <1>3 DEF ReplyDelegate
  <1>5. tasks \in [Task -> TaskRow] /\ sessions \in [Session -> SessionRow]
    BY DEF TypeInv, TypeOK
  <1>q. PICK q \in TaskRow :
           /\ q = [tasks[t] EXCEPT !.steps = @ + 1, !.status = IF wait THEN "running" ELSE "completed"]
           /\ q.sess = tasks[t].sess /\ q.agent = tasks[t].agent
           /\ q.status \in {"running", "completed"}
    <2>1. PICK r \in TaskRow : r = tasks[t]
      BY <1>1, <1>5
    <2>2. PICK n \in Nat : n = r.steps + 1
      BY <1>2, <2>1
    <2>3. PICK w \in {"running", "completed"} : w = IF wait THEN "running" ELSE "completed"
      OBVIOUS
    <2>4. w \in Open \union Terminal
      BY DEF Open, Terminal
    <2>5. [r EXCEPT !.steps = n, !.status = w] \in TaskRow
      BY <2>4 DEF TaskRow
    <2>6. PICK q \in TaskRow : q = [r EXCEPT !.steps = n, !.status = w]
      BY <2>5
    <2>7. q.sess = r.sess /\ q.agent = r.agent /\ q.status = w
      BY <2>6 DEF TaskRow
    <2>8. q = [tasks[t] EXCEPT !.steps = @ + 1, !.status = IF wait THEN "running" ELSE "completed"]
      BY <2>1, <2>2, <2>3, <2>6
    <2> QED
      BY <2>1, <2>7, <2>8
  <1>u. tasks' = [tasks EXCEPT ![x] = child, ![t] = q]
    BY <1>1, <1>4, <1>5, <1>q DEF TaskRow
  <1>g. PICK g \in Task \union {NoTask} : sessions' = [sessions EXCEPT ![s].root = g]
    <2>1. PICK g : /\ g = IF ~wait /\ tasks[t].parent = NoTask THEN NoTask ELSE sessions[s].root
                   /\ sessions' = [sessions EXCEPT ![s].root = g]
      BY DEF ReplyDelegate
    <2>2. g \in Task \union {NoTask}
      BY <1>1, <1>5, <2>1 DEF SessionRow
    <2> QED
      BY <2>1, <2>2
  <1> HIDE DEF s, t
  <1>6. /\ tasks' \in [Task -> TaskRow] /\ tasks'[x] = child
        /\ \A y \in Task : y \notin {x, t} => tasks'[y] = tasks[y]
        /\ tasks'[t].sess = tasks[t].sess /\ tasks'[t].agent = tasks[t].agent
        /\ tasks'[t].status \in {"running", "completed"}
    BY <1>1, <1>5, <1>q, <1>u
  <1>7. /\ sessions' \in [Session -> SessionRow]
        /\ \A y \in Session : /\ sessions'[y].agent = sessions[y].agent
                              /\ sessions'[y].status = sessions[y].status
    BY <1>5, <1>g DEF SessionRow
  <1>8. /\ calls' \in [Call -> CallRow] /\ jobs' \in SUBSET Call
        /\ \A d \in Call : calls'[d].st # "free" => calls'[d] = calls[d]
        /\ \A d \in jobs' : calls'[d].st \in {"in_flight", "lost"}
    BY HarvestCalls DEF ReplyDelegate
  <1>9. UNCHANGED <<approvals, active, cap>>
    BY DEF ReplyDelegate
  <1>10. References'
    <2>1. \A y \in Task : /\ tasks[y].status # "absent" => tasks'[y].status # "absent"
                          /\ tasks'[y].status # "absent" =>
                               tasks'[y].sess \in Session /\ tasks'[y].agent \in Agent
      BY <1>1, <1>3, <1>6 DEF s, TypeInv, References
    <2> QED
      BY <1>7, <1>8, <2>1 DEF TypeInv, TypeOK, References
  <1> QED
    BY <1>6, <1>7, <1>8, <1>9, <1>10 DEF TypeInv, TypeOK

\* The watchdog's sweep of overdue calls keeps the tables well typed.
LEMMA CallTimeoutTypeInv ==
    ASSUME TypeInv, NEW c \in Call, CallTimeout(c)
    PROVE  TypeInv'
  <1> DEFINE t == calls[c].task
  <1>1. t \in Task /\ tasks[t].status # "absent"
    BY JobTask DEF CallTimeout
  <1>2. /\ calls' \in [Call -> CallRow]
        /\ \A d \in Call : calls'[d].st # "free" =>
              /\ calls[d].st # "free" /\ calls'[d].task = calls[d].task
              /\ calls'[d].kind = calls[d].kind
        /\ \A d \in jobs : calls'[d].st \in {"in_flight", "lost"}
        /\ UNCHANGED <<jobs, active, cap>>
    BY NullFacts DEF CallTimeout, Lost, TypeInv, TypeOK, References, CallRow, Pending
  <1>3. CASE UNCHANGED <<tasks, sessions, approvals>>
    BY <1>2, <1>3 DEF TypeInv, TypeOK, References
  <1>4. CASE tasks' = [tasks EXCEPT ![t].status = "waiting_human"]
             /\ approvals' = [approvals EXCEPT ![t] = @ + 1] /\ UNCHANGED sessions
    <2>1. Touch(t) /\ approvals' \in [Task -> Nat]
      BY <1>1, <1>4 DEF Touch, TypeInv, TypeOK, TaskRow, Open
    <2> QED
      BY <1>1, <1>2, <2>1, TouchReferences DEF Touch, TypeInv, TypeOK
  <1>5. CASE (FailInactive(t) \/ SubmitError(t)) /\ UNCHANGED approvals
    <2>1. Touch(t)
      BY <1>1, <1>5, FailTouches, SubmitErrorTouches DEF FailInactive
    <2> QED
      BY <1>1, <1>2, <1>5, <2>1, TouchReferences DEF Touch, TypeInv, TypeOK
  <1> QED
    BY <1>3, <1>4, <1>5 DEF CallTimeout

\* Handing in a result keeps the tables well typed, whatever the reply.
LEMMA CompleteTypeInv ==
    ASSUME TypeInv, NEW c \in Call, CompleteStep(c)
    PROVE  TypeInv'
  <1> DEFINE t == calls[c].task
  <1>1. CASE CompleteStale(c) \/ CompleteSkipped(c)
    BY <1>1, HarvestCalls DEF CompleteStale, CompleteSkipped, TypeInv, TypeOK, References
  <1>2. CASE CompleteInactive(c)
    BY <1>2, JobTask, FailTouches, HarvestTypeInv
       DEF CompleteInactive, Answered, FailInactive, TypeInv, TypeOK
  <1>3. CASE CompleteError(c)
    BY <1>3, JobTask, SubmitErrorTouches, HarvestTypeInv
       DEF CompleteError, Answered, TypeInv, TypeOK
  <1>4. CASE CompleteResult(c)
    BY <1>4, JobTask, AdvanceTouches, HarvestTypeInv
       DEF CompleteResult, Answered, TypeInv, TypeOK
  <1>5. CASE ReplyRejected(c)
    BY <1>5, JobTask, AdvanceTouches, HarvestTypeInv
       DEF ReplyRejected, Reply, Answered, TypeInv, TypeOK
  <1>6. CASE ReplyNoted(c)
    BY <1>6, JobTask, AdvanceTouches, HarvestTypeInv
       DEF ReplyNoted, Reply, Answered, TypeInv, TypeOK
  <1>7. CASE ReplyRaises(c)
    <2>1. Touch(t)
      <3>1. /\ tasks' = [tasks EXCEPT ![t].raises = @ + 1] /\ UNCHANGED sessions
            /\ t \in Task /\ tasks[t].status # "absent"
        BY <1>7, JobTask DEF ReplyRaises, Reply, Answered
      <3> QED
        BY <3>1 DEF TypeInv, TypeOK, TaskRow, Touch
    <2> QED
      BY <1>7, <2>1, HarvestTypeInv DEF ReplyRaises, Reply, Answered, TypeInv, TypeOK
  <1>8. CASE ReplyFinal(c)
    <2>1. t \in Task /\ tasks[t].status # "absent"
      BY <1>8, JobTask DEF ReplyFinal, Reply, Answered
    <2>2. /\ tasks' = [tasks EXCEPT ![t].status = "completed", ![t].steps = @ + 1]
          /\ Harvest(c) /\ c \in jobs /\ UNCHANGED <<approvals, active, cap>>
      BY <1>8 DEF ReplyFinal, Reply, Answered
    <2>4. sessions \in [Session -> SessionRow] /\ tasks \in [Task -> TaskRow]
      BY DEF TypeInv, TypeOK
    <2>s. PICK s \in Session : s = tasks[t].sess
      BY <2>1 DEF TypeInv, References
    <2>g. PICK g \in Task \union {NoTask} :
                 g = IF tasks[t].parent = NoTask THEN t ELSE sessions[s].root
      BY <2>1, <2>4 DEF SessionRow
    <2>f. PICK f \in Task : f = t
      BY <2>1
    <2>r. PICK ss : ss = [sessions EXCEPT ![s].final = f, ![s].root = g]
      OBVIOUS
    <2>3. sessions' = MaybeComplete(s, tasks', ss)
      BY <1>8, <2>s, <2>g, <2>f, <2>r DEF ReplyFinal
    <2>5. /\ ss \in [Session -> SessionRow]
          /\ \A x \in Session : ss[x].agent = sessions[x].agent /\ ss[x].status = sessions[x].status
      <3>1. PICK old \in SessionRow : old = sessions[s]
        BY <2>4
      <3> DEFINE mid == [old EXCEPT !.final = f]
                 new == [mid EXCEPT !.root = g]
      <3>2. mid \in SessionRow /\ mid.agent = old.agent /\ mid.status = old.status
        BY DEF SessionRow
      <3>3. ss = [sessions EXCEPT ![s] = new]
        BY <2>4, <2>r, <3>1 DEF SessionRow
      <3> HIDE DEF mid
      <3>4. new \in SessionRow /\ new.agent = old.agent /\ new.status = old.status
        BY <3>2 DEF SessionRow
      <3> HIDE DEF new
      <3> QED
        BY <2>4, <3>1, <3>3, <3>4
    <2>6. /\ tasks' \in [Task -> TaskRow] /\ \A x \in Task : x # t => tasks'[x] = tasks[x]
          /\ tasks'[t].status = "completed"
          /\ tasks'[t].sess = tasks[t].sess /\ tasks'[t].agent = tasks[t].agent
      <3>1. "completed" \in Open \union Terminal
        BY DEF Terminal
      <3> QED
        BY <2>1, <2>2, <2>4, <3>1, StatusStep
    <2>7. Touch(t)
      <3>1. /\ sessions' \in [Session -> SessionRow]
            /\ \A x \in Session : /\ sessions'[x].agent = ss[x].agent
                                  /\ sessions'[x].status = "absent" <=> ss[x].status = "absent"
        BY <2>3, <2>5, MaybeCompleteType
      <3> QED
        BY <2>5, <2>6, <3>1 DEF Touch
    <2> QED
      BY <2>2, <2>7, HarvestTypeInv DEF TypeInv, TypeOK
  <1>9. ASSUME NEW d \in Call, NEW k \in Kind, ReplyCall(c, d, k)
        PROVE  TypeInv'
    <2>1. t \in Task /\ tasks[t].status # "absent" /\ Touch(t)
      BY <1>9, JobTask, AdvanceTouches DEF ReplyCall, Reply, Answered
    <2>2. /\ calls' = [calls EXCEPT ![c] = NoCall, ![d] = [st |-> "queued", task |-> t, kind |-> k]]
          /\ jobs' = jobs \ {c} /\ calls[d] = NoCall /\ UNCHANGED <<approvals, active, cap>>
      BY <1>9 DEF ReplyCall, NextCall
    <2>3. d \notin jobs
      BY <2>2, NullFacts DEF TypeInv, References
    <2>4. /\ calls' \in [Call -> CallRow] /\ jobs' \in SUBSET Call
          /\ \A x \in Call : x \notin {c, d} => calls'[x] = calls[x]
          /\ calls'[d].task = t /\ calls'[d].kind = k
          /\ c # d => calls'[c].st = "free"
      BY <2>1, <2>2, NullFacts DEF TypeInv, TypeOK, CallRow, Pending
    <2>5. References'
      <3>1. \A x \in Call : calls'[x].st # "free" =>
              \/ /\ calls[x].st # "free" /\ calls'[x].task = calls[x].task
                 /\ calls'[x].kind = calls[x].kind
              \/ calls'[x].task = t /\ calls'[x].kind \in Kind
        BY <2>4
      <3>2. \A x \in jobs' : calls'[x].st \in {"in_flight", "lost"}
        BY <2>2, <2>3, <2>4 DEF TypeInv, References
      <3> QED
        BY <2>1, <2>4, <3>1, <3>2, TouchReferences
    <2> QED
      BY <2>1, <2>2, <2>4, <2>5 DEF TypeInv, TypeOK, Touch
  <1>10. ASSUME NEW b \in Agent, ReplyDelegateRefused(c, b)
         PROVE  TypeInv'
    BY <1>10, JobTask, AdvanceTouches, HarvestTypeInv
       DEF ReplyDelegateRefused, Reply, Answered, TypeInv, TypeOK
  <1>11. CASE ReplyAwaitHuman(c)
    <2>1. Touch(t)
      <3>1. /\ t \in Task
            /\ tasks' = [tasks EXCEPT ![t].status = "waiting_human", ![t].steps = @ + 1]
            /\ UNCHANGED sessions
        BY <1>11, JobTask DEF ReplyAwaitHuman, Reply, Answered
      <3>2. "waiting_human" \in Open \union Terminal /\ tasks \in [Task -> TaskRow]
        BY DEF Open, TypeInv, TypeOK
      <3>3. /\ tasks' \in [Task -> TaskRow] /\ \A x \in Task : x # t => tasks'[x] = tasks[x]
            /\ tasks'[t].status = "waiting_human"
            /\ tasks'[t].sess = tasks[t].sess /\ tasks'[t].agent = tasks[t].agent
        BY <3>1, <3>2, StatusStep
      <3>4. sessions' = sessions /\ sessions \in [Session -> SessionRow]
        BY <3>1 DEF TypeInv, TypeOK
      <3> QED
        BY <3>3, <3>4 DEF Touch
    <2>2. approvals' \in [Task -> Nat]
      BY <1>11, JobTask DEF ReplyAwaitHuman, Reply, Answered, TypeInv, TypeOK
    <2> QED
      BY <1>11, <2>1, <2>2, HarvestTypeInv DEF ReplyAwaitHuman, Reply, Answered, TypeInv, TypeOK
  <1>12. CASE ReplyAwaitChildren(c)
    <2>1. Touch(t)
      BY <1>12, JobTask, AdvanceTouches
         DEF ReplyAwaitChildren, Reply, Answered, TypeInv, TypeOK, TaskRow, Touch, Open
    <2> QED
      BY <1>12, <2>1, HarvestTypeInv DEF ReplyAwaitChildren, Reply, Answered, TypeInv, TypeOK
  <1>13. ASSUME NEW x \in Task, NEW b \in Agent, NEW wait \in BOOLEAN,
                ReplyDelegate(c, x, b, wait)
         PROVE  TypeInv'
    BY <1>13, DelegateTypeInv
  <1> QED
    BY <1>1, <1>2, <1>3, <1>4, <1>5, <1>6, <1>7, <1>8, <1>9, <1>10, <1>11, <1>12, <1>13
       DEF CompleteStep, ReplyStep

\* Every step of the worker keeps the tables well typed.
LEMMA WorkerTypeInv == TypeInv /\ WorkerStep => TypeInv'
  <1> SUFFICES ASSUME TypeInv, WorkerStep PROVE TypeInv'
    OBVIOUS
  <1>1. ASSUME NEW t \in Task, NextStepStops(t) PROVE TypeInv'
    BY <1>1, FailTouches, TouchReferences
       DEF NextStepStops, Dispatchable, Touch, TypeInv, TypeOK, References
  <1>2. ASSUME NEW t \in Task, NEW c \in Call, DispatchLlm(t, c) PROVE TypeInv'
    <2>1. tasks[t].status # "absent" /\ Touch(t)
      BY <1>2 DEF DispatchLlm, Dispatchable, Touch, TypeInv, TypeOK, TaskRow, Open
    <2>2. /\ calls' \in [Call -> CallRow] /\ jobs' = jobs /\ c \notin jobs
          /\ \A d \in Call : d # c => calls'[d] = calls[d]
          /\ calls'[c].task = t /\ calls'[c].kind \in Kind
      BY <1>2, NullFacts
         DEF DispatchLlm, NextCall, TypeInv, TypeOK, References, CallRow, Pending, Kind
    <2>3. References'
      BY <2>1, <2>2, TouchReferences DEF TypeInv, TypeOK, References
    <2> QED
      BY <1>2, <2>1, <2>2, <2>3 DEF DispatchLlm, Touch, TypeInv, TypeOK
  <1>3. ASSUME NEW t \in Task, DispatchFails(t) PROVE TypeInv'
    BY <1>3, SubmitErrorTouches, TouchReferences
       DEF DispatchFails, Dispatchable, Touch, TypeInv, TypeOK, References
  <1>4. ASSUME NEW c \in Call, Claim(c) PROVE TypeInv'
    BY <1>4 DEF Claim, TypeInv, TypeOK, References, CallRow, Pending
  <1>5. ASSUME NEW c \in Call, SubmitAbandoned(c) PROVE TypeInv'
    BY <1>5, NullFacts DEF SubmitAbandoned, TypeInv, TypeOK, References
  <1>6. CASE WorkerCrash
    BY <1>6, NullFacts DEF WorkerCrash, TypeInv, TypeOK, References
  <1>7. ASSUME NEW c \in Call, CallTimeout(c) PROVE TypeInv'
    BY <1>7, CallTimeoutTypeInv
  <1>8. ASSUME NEW t \in Task, ExpireApproval(t) PROVE TypeInv'
    <2>1. approvals' \in [Task -> Nat] /\ UNCHANGED <<calls, jobs, active, cap>>
      BY <1>8 DEF ExpireApproval, TypeInv, TypeOK
    <2>2. CASE UNCHANGED <<tasks, sessions>>
      BY <2>1, <2>2 DEF TypeInv, TypeOK, References
    <2>3. CASE ~UNCHANGED <<tasks, sessions>>
      <3>1. /\ tasks[t].status # "absent"
            /\ tasks' = [tasks EXCEPT ![t].status = "failed", ![t].steps = @ + 1]
            /\ sessions' = MaybeComplete(tasks[t].sess, tasks', sessions)
        BY <1>8, <2>3 DEF ExpireApproval
      <3>2. Touch(t)
        BY <3>1, MaybeCompleteType DEF Touch, TypeInv, TypeOK, TaskRow, Open, Terminal
      <3> QED
        BY <2>1, <3>1, <3>2, TouchReferences DEF Touch, TypeInv, TypeOK, References
    <2> QED
      BY <2>2, <2>3
  <1>9. ASSUME NEW t \in Task, TurnTimeout(t) PROVE TypeInv'
    <2>1. tasks[t].status # "absent" /\ Touch(t)
      BY <1>9, FailTouches DEF TurnTimeout, Holding
    <2>2. /\ calls' \in [Call -> CallRow]
          /\ \A c \in Call : calls'[c].st # "free" =>
                /\ calls[c].st # "free" /\ calls'[c].task = calls[c].task
                /\ calls'[c].kind = calls[c].kind
          /\ \A c \in jobs : calls'[c].st \in {"in_flight", "lost"}
      BY <1>9, NullFacts DEF TurnTimeout, Lost, TypeInv, TypeOK, References, CallRow, Pending
    <2>3. UNCHANGED <<approvals, jobs, active, cap>>
      BY <1>9 DEF TurnTimeout
    <2>4. References'
      BY <2>1, <2>2, <2>3, TouchReferences DEF TypeInv, TypeOK
    <2> QED
      BY <2>1, <2>2, <2>3, <2>4 DEF Touch, TypeInv, TypeOK
  <1>10. ASSUME NEW t \in Task, WakeParent(t) PROVE TypeInv'
    <2>1. tasks[t].status # "absent" /\ Touch(t)
      BY <1>10 DEF WakeParent, Touch, TypeInv, TypeOK, TaskRow, Open
    <2> QED
      BY <1>10, <2>1, TouchReferences DEF WakeParent, Touch, TypeInv, TypeOK, References
  <1> QED
    BY <1>1, <1>2, <1>3, <1>4, <1>5, <1>6, <1>7, <1>8, <1>9, <1>10, CompleteTypeInv
       DEF WorkerStep, DispatchStep, WatchdogStep

\* Every state has the shape the tables declare, and the references that
\* handlers follow hold.
THEOREM TypeCorrect == Spec => []TypeInv
  <1>1. TypeInv /\ [Next]_vars => TypeInv'
    <2>1. CASE UNCHANGED vars
      BY <2>1 DEF vars, TypeInv, TypeOK, References
    <2> QED
      BY <2>1, OperatorTypeInv, WorkerTypeInv DEF Next
  <1> QED
    BY <1>1, InitTypeInv, PTL DEF Spec

\* The columns keep their types through every handler, for any number of
\* rows and any limits.
THEOREM TypesHold == Spec => []TypeOK
  BY TypeCorrect, PTL DEF TypeInv

-----------------------------------------------------------------------------
(* What a step writes to tasks, sessions and approvals.                    *)

\* What a handler may write to a task that exists: its status and counters,
\* never its place in the session.
Fixed(t) ==
    /\ tasks'[t].sess = tasks[t].sess /\ tasks'[t].agent = tasks[t].agent
    /\ tasks'[t].parent = tasks[t].parent /\ tasks'[t].depth = tasks[t].depth
\* No task but t changes.
Only(t) == \A x \in Task : x # t => tasks'[x] = tasks[x]
\* Task t alone moves to status st, and its counters by what is given.
Moves(t, st, steps, turns, raises) ==
    /\ Only(t) /\ Fixed(t) /\ tasks'[t].status = st
    /\ tasks'[t].steps = tasks[t].steps + steps
    /\ tasks'[t].turns = tasks[t].turns + turns
    /\ tasks'[t].raises = tasks[t].raises + raises

\* The writes that handlers share.
LEMMA FailMoves ==
    ASSUME TypeInv, NEW t \in Task, NEW n \in {0, 1}, Fail(t, n)
    PROVE  Moves(t, "failed", n, 0, 0)
  BY DEF TypeInv, TypeOK, TaskRow, Fail, Moves, Only, Fixed

\* A step of the task that ends in status st.
LEMMA StatusMoves ==
    ASSUME TypeInv, NEW t \in Task, NEW st,
           tasks' = [tasks EXCEPT ![t].status = st, ![t].steps = @ + 1]
    PROVE  Moves(t, st, 1, 0, 0)
  BY DEF TypeInv, TypeOK, TaskRow, Moves, Only, Fixed

\* A failed answer fails the task or leaves it running, one step further.
LEMMA ErrorMoves ==
    ASSUME TypeInv, NEW t \in Task, SubmitError(t)
    PROVE  Moves(t, "failed", 1, 0, 0) \/ Moves(t, "running", 1, 0, 0)
  <1>1. CASE Fail(t, 1)
    BY <1>1, FailMoves
  <1>2. CASE tasks' = [tasks EXCEPT ![t].status = "running", ![t].steps = @ + 1, ![t].errs = @ + 1]
    BY <1>2 DEF TypeInv, TypeOK, TaskRow, Moves, Only, Fixed
  <1> QED
    BY <1>1, <1>2 DEF SubmitError

\* An answer that keeps the task running, and one that is refused, are a step.
LEMMA AdvanceMoves ==
    ASSUME TypeInv, NEW t \in Task, Advance(t) \/ Reject(t)
    PROVE  Moves(t, tasks[t].status, 1, 0, 0)
  <1>1. CASE Advance(t)
    BY <1>1 DEF Advance, TypeInv, TypeOK, TaskRow, Moves, Only, Fixed
  <1>2. CASE Reject(t)
    BY <1>2 DEF Reject, TypeInv, TypeOK, TaskRow, Moves, Only, Fixed
  <1> QED
    BY <1>1, <1>2

\* A dispatch takes a turn.
LEMMA DispatchMoves ==
    ASSUME TypeInv, NEW t \in Task, NEW c \in Call, DispatchLlm(t, c)
    PROVE  Moves(t, "running", 0, 1, 0)
  BY DEF DispatchLlm, TypeInv, TypeOK, TaskRow, Moves, Only, Fixed

\* An answer whose handling threw leaves only a count of it.
LEMMA RaiseMoves ==
    ASSUME TypeInv, NEW t \in Task, tasks' = [tasks EXCEPT ![t].raises = @ + 1]
    PROVE  Moves(t, tasks[t].status, 0, 0, 1)
  BY DEF TypeInv, TypeOK, TaskRow, Moves, Only, Fixed

\* A change of status that is not a step.
LEMMA HoldMoves ==
    ASSUME TypeInv, NEW t \in Task, NEW st, tasks' = [tasks EXCEPT ![t].status = st]
    PROVE  Moves(t, st, 0, 0, 0)
  BY DEF TypeInv, TypeOK, TaskRow, Moves, Only, Fixed

-----------------------------------------------------------------------------
\* What a step does to the approvals of the task it moves.
Releases(t) ==
    \/ /\ UNCHANGED approvals
       /\ tasks'[t].status = "waiting_human" => tasks[t].status = "waiting_human"
       /\ tasks[t].status = "waiting_human" => tasks'[t].status \in {"waiting_human", "failed"}
    \/ /\ tasks[t].status = "running" /\ tasks'[t].status = "waiting_human"
       /\ approvals' = [approvals EXCEPT ![t] = @ + 1]
    \/ /\ tasks[t].status = "waiting_human" /\ tasks'[t].status # "waiting_human"
       /\ approvals[t] > 0 /\ approvals' = [approvals EXCEPT ![t] = @ - 1]

\* What it does to the session: nothing while the task stays open; a task that
\* ends has maybe_complete_session look at it.
Settles(t) ==
    \/ tasks'[t].status \in Open /\ UNCHANGED sessions
    \/ /\ tasks'[t].status = "failed"
       /\ sessions' = MaybeComplete(tasks[t].sess, tasks', sessions)
    \/ /\ tasks'[t].status = "completed"
       /\ sessions' = MaybeComplete(tasks[t].sess, tasks',
             [sessions EXCEPT ![tasks[t].sess].final = t,
                              ![tasks[t].sess].root = IF tasks[t].parent = NoTask THEN t ELSE @])

\* A step that writes to one task: the task is open, keeps its place, takes a
\* slot only when it is dispatched and leaves a wait only for its reason.
Moved(t) ==
    /\ Only(t) /\ Fixed(t) /\ tasks[t].status \in Open /\ tasks'[t].status # "absent"
    /\ tasks'[t].status \in Holding =>
           tasks[t].status \in Holding \/ (Dispatchable(t) /\ UNCHANGED cap)
    /\ tasks[t].status = "waiting_children" /\ tasks'[t].status \in {"queued", "running"} =>
           ~OpenChild(t)
    /\ Releases(t) /\ Settles(t)

\* A step that writes to no task.
Rests ==
    /\ UNCHANGED <<tasks, sessions>>
    /\ \/ UNCHANGED approvals
       \/ \E t \in Task : /\ approvals[t] > 0 /\ tasks[t].status # "waiting_human"
                          /\ approvals' = [approvals EXCEPT ![t] = @ - 1]

\* A root task is inserted.
Inserted ==
    \E s \in Session, t \in Task, a \in Agent :
        /\ tasks[t].status = "absent" /\ tasks' = [tasks EXCEPT ![t] = NewTask(s, a, NoTask, 0)]
        /\ sessions'[s].status = "open"
        /\ sessions'[s].final = sessions[s].final /\ sessions'[s].root = sessions[s].root
        /\ \A z \in Session \ {s} : sessions'[z] = sessions[z]
        /\ UNCHANGED approvals

\* A task hands over to a child of its own.
Delegated == \E c \in Call, x \in Task, b \in Agent, wait \in BOOLEAN : ReplyDelegate(c, x, b, wait)

\* What an answer that neither completes, waits nor delegates does to its task
\* and session.
LEMMA WriteSettles ==
    ASSUME TypeInv, NEW t \in Task, tasks[t].status \in {"queued", "running"},
           \/ Fail(t, 0) \/ Fail(t, 1) \/ SubmitError(t)
           \/ tasks[t].status = "running" /\ (Advance(t) \/ Reject(t))
    PROVE  /\ Only(t) /\ Fixed(t) /\ tasks'[t].status \in {"failed", "running"}
           /\ Settles(t)
  <1>1. ASSUME NEW n \in {0, 1}, Fail(t, n)
        PROVE  Moves(t, "failed", n, 0, 0) /\ Settles(t)
    BY <1>1, FailMoves DEF Fail, Moves, Settles
  <1>2. CASE SubmitError(t)
    <2>1. CASE Fail(t, 1)
      BY <1>1, <2>1 DEF Moves
    <2>2. CASE ~Fail(t, 1)
      <3>1. tasks'[t].status = "running" /\ UNCHANGED sessions
        BY <1>2, <2>2 DEF SubmitError, TypeInv, TypeOK, TaskRow
      <3> QED
        BY <1>2, <3>1, ErrorMoves DEF Moves, Settles, Open
    <2> QED
      BY <2>1, <2>2
  <1>3. CASE tasks[t].status = "running" /\ (Advance(t) \/ Reject(t))
    <2>1. UNCHANGED sessions
      BY <1>3 DEF Advance, Reject
    <2> QED
      BY <1>3, <2>1, AdvanceMoves DEF Moves, Settles, Open
  <1> QED
    BY <1>1, <1>2, <1>3 DEF Moves

\* A handler that answers call c writes to the call's task only.
LEMMA CompleteEffect ==
    ASSUME TypeInv, NEW c \in Call, CompleteStep(c)
    PROVE  Rests \/ Delegated \/ \E t \in Task : Moved(t)
  <1>1. CASE CompleteStale(c) \/ CompleteSkipped(c)
    BY <1>1 DEF CompleteStale, CompleteSkipped, Rests
  <1>2. ASSUME NEW x \in Task, NEW b \in Agent, NEW wait \in BOOLEAN, ReplyDelegate(c, x, b, wait)
        PROVE  Delegated
    BY <1>2 DEF Delegated
  <1>3. ASSUME Answered(c) PROVE calls[c].task \in Task /\ tasks[calls[c].task].status = "running"
    BY <1>3, JobTask DEF Answered
  <1>4. ASSUME NEW t \in Task, tasks[t].status = "running", UNCHANGED approvals,
               \/ Fail(t, 0) \/ SubmitError(t) \/ Advance(t) \/ Reject(t)
        PROVE  Moved(t)
    <2>1. Only(t) /\ Fixed(t) /\ tasks'[t].status \in {"failed", "running"} /\ Settles(t)
      BY <1>4, WriteSettles
    <2> QED
      BY <1>4, <2>1 DEF Moved, Releases, Holding, Open
  <1>5. CASE \/ CompleteInactive(c) \/ CompleteError(c) \/ CompleteResult(c)
             \/ ReplyRejected(c) \/ ReplyNoted(c)
             \/ \E d \in Call, k \in Kind : ReplyCall(c, d, k)
             \/ \E b \in Agent : ReplyDelegateRefused(c, b)
    <2>1. /\ Answered(c) /\ UNCHANGED approvals
          /\ \/ Fail(calls[c].task, 0) \/ SubmitError(calls[c].task)
             \/ Advance(calls[c].task) \/ Reject(calls[c].task)
      BY <1>5 DEF CompleteInactive, CompleteError, CompleteResult, ReplyRejected, ReplyNoted,
           ReplyCall, ReplyDelegateRefused, Reply, FailInactive
    <2> QED
      BY <1>3, <1>4, <2>1
  <1>6. CASE ReplyRaises(c) \/ ReplyFinal(c) \/ ReplyAwaitHuman(c) \/ ReplyAwaitChildren(c)
    <2>1. PICK t \in Task : t = calls[c].task /\ tasks[t].status = "running"
      BY <1>3, <1>6 DEF ReplyRaises, ReplyFinal, ReplyAwaitHuman, ReplyAwaitChildren, Reply
    <2>2. CASE ReplyRaises(c)
      <3>1. Moves(t, "running", 0, 0, 1) /\ UNCHANGED <<approvals, sessions>>
        BY <2>1, <2>2, RaiseMoves DEF ReplyRaises
      <3> QED
        BY <2>1, <3>1 DEF Moves, Moved, Releases, Settles, Holding, Open
    <2>3. CASE ReplyFinal(c)
      <3>1. Moves(t, "completed", 1, 0, 0) /\ UNCHANGED approvals
        BY <2>1, <2>3, StatusMoves DEF ReplyFinal
      <3>2. sessions' = MaybeComplete(tasks[t].sess, tasks',
               [sessions EXCEPT ![tasks[t].sess].final = t,
                                ![tasks[t].sess].root = IF tasks[t].parent = NoTask THEN t ELSE @])
        BY <2>1, <2>3, Zenon DEF ReplyFinal
      <3> QED
        BY <2>1, <3>1, <3>2 DEF Moves, Moved, Releases, Settles, Holding, Open
    <2>4. CASE ReplyAwaitHuman(c)
      <3>1. /\ Moves(t, "waiting_human", 1, 0, 0) /\ approvals' = [approvals EXCEPT ![t] = @ + 1]
            /\ UNCHANGED sessions
        BY <2>1, <2>4, StatusMoves DEF ReplyAwaitHuman
      <3> QED
        BY <2>1, <3>1 DEF Moves, Moved, Releases, Settles, Holding, Open
    <2>5. CASE ReplyAwaitChildren(c)
      <3>1. /\ Moves(t, "waiting_children", 1, 0, 0) \/ Moves(t, "running", 1, 0, 0)
            /\ UNCHANGED <<approvals, sessions>>
        BY <2>1, <2>5, StatusMoves, AdvanceMoves DEF ReplyAwaitChildren, Reject
      <3> QED
        BY <2>1, <3>1 DEF Moves, Moved, Releases, Settles, Holding, Open
    <2> QED
      BY <1>6, <2>2, <2>3, <2>4, <2>5
  <1> QED
    BY <1>1, <1>2, <1>5, <1>6 DEF CompleteStep, ReplyStep

\* So do the sweeps and the operators, except when they insert or cancel.
LEMMA StepEffect ==
    ASSUME TypeInv, Next
    PROVE  \/ Rests \/ Inserted \/ Delegated \/ \E s \in Session : CancelSession(s)
           \/ \E t \in Task : Moved(t)
  <1>1. ASSUME NEW s \in Session, NEW t \in Task, NEW a \in Agent, CreateSession(s, t, a)
        PROVE  Inserted
    BY <1>1 DEF CreateSession, NextTask, Inserted, TypeInv, TypeOK, SessionRow
  <1>2. ASSUME NEW s \in Session, NEW t \in Task, ContinueSession(s, t) PROVE Inserted
    <2>1. sessions[s] \in SessionRow /\ sessions[s].agent \in Agent
      BY <1>2 DEF ContinueSession, TypeInv, TypeOK, References
    <2>2. /\ sessions'[s].status = "open" /\ sessions'[s].final = sessions[s].final
          /\ sessions'[s].root = sessions[s].root /\ \A z \in Session \ {s} : sessions'[z] = sessions[z]
      BY <1>2, <2>1 DEF ContinueSession, TypeInv, TypeOK, SessionRow
    <2>3. /\ tasks[t].status = "absent" /\ UNCHANGED approvals
          /\ tasks' = [tasks EXCEPT ![t] = NewTask(s, sessions[s].agent, NoTask, 0)]
      BY <1>2 DEF ContinueSession, NextTask
    <2> QED
      BY <2>1, <2>2, <2>3 DEF Inserted
  <1>3. ASSUME NEW t \in Task, NEW accept \in BOOLEAN, DecideApproval(t, accept) \/ ExpireApproval(t)
        PROVE  Rests \/ Moved(t)
    <2>1. approvals[t] > 0 /\ approvals' = [approvals EXCEPT ![t] = @ - 1]
      BY <1>3 DEF DecideApproval, ExpireApproval
    <2>2. CASE tasks[t].status # "waiting_human"
      <3>1. UNCHANGED <<tasks, sessions>>
        BY <1>3, <2>2 DEF DecideApproval, ExpireApproval
      <3> QED
        BY <2>1, <2>2, <3>1 DEF Rests
    <2>3. CASE tasks[t].status = "waiting_human"
      <3>1. \/ Moves(t, "queued", 1, 0, 0) /\ UNCHANGED sessions
            \/ /\ Moves(t, "failed", 1, 0, 0)
               /\ sessions' = MaybeComplete(tasks[t].sess, tasks', sessions)
        BY <1>3, <2>3, StatusMoves DEF DecideApproval, ExpireApproval
      <3> QED
        BY <2>1, <2>3, <3>1 DEF Moves, Moved, Releases, Settles, Holding, Open
    <2> QED
      BY <2>2, <2>3
  <1>4. ASSUME NEW t \in Task, DispatchStep(t) PROVE Moved(t)
    <2>1. Dispatchable(t) /\ UNCHANGED <<approvals, cap>>
      BY <1>4 DEF DispatchStep, NextStepStops, DispatchLlm, DispatchFails
    <2>2. /\ Only(t) /\ Fixed(t) /\ tasks'[t].status \in {"failed", "running"}
          /\ Settles(t)
      <3>1. CASE Fail(t, 0) \/ SubmitError(t)
        BY <2>1, <3>1, WriteSettles DEF Dispatchable
      <3>2. ASSUME NEW c \in Call, DispatchLlm(t, c)
            PROVE  Moves(t, "running", 0, 1, 0) /\ UNCHANGED sessions
        BY <3>2, DispatchMoves DEF DispatchLlm
      <3> QED
        BY <1>4, <3>1, <3>2 DEF DispatchStep, NextStepStops, DispatchFails, Moves, Settles, Open
    <2> QED
      BY <2>1, <2>2 DEF Moved, Releases, Holding, Open, Dispatchable
  <1>5. ASSUME NEW c \in Call, CallTimeout(c) PROVE Rests \/ \E t \in Task : Moved(t)
    <2>1. PICK t \in Task : t = calls[c].task
      BY <1>5, JobTask DEF CallTimeout
    <2>2. CASE tasks[t].status # "running"
      BY <1>5, <2>1, <2>2 DEF CallTimeout, Rests
    <2>3. CASE tasks[t].status = "running" /\ calls[c].kind = "http_write"
      <3>1. /\ Moves(t, "waiting_human", 0, 0, 0) /\ approvals' = [approvals EXCEPT ![t] = @ + 1]
            /\ UNCHANGED sessions
        BY <1>5, <2>1, <2>3, HoldMoves DEF CallTimeout
      <3> QED
        BY <2>3, <3>1 DEF Moves, Moved, Releases, Settles, Holding, Open
    <2>4. CASE tasks[t].status = "running" /\ calls[c].kind # "http_write"
      <3>1. /\ Only(t) /\ Fixed(t) /\ tasks'[t].status \in {"failed", "running"} /\ Settles(t)
            /\ UNCHANGED approvals
        BY <1>5, <2>1, <2>4, WriteSettles DEF CallTimeout, FailInactive
      <3> QED
        BY <2>4, <3>1 DEF Moved, Releases, Holding, Open
    <2> QED
      BY <2>2, <2>3, <2>4
  <1>6. ASSUME NEW t \in Task, TurnTimeout(t) PROVE Moved(t)
    <2>1. /\ Moves(t, "failed", 1, 0, 0) /\ tasks[t].status \in Holding /\ UNCHANGED approvals
          /\ sessions' = MaybeComplete(tasks[t].sess, tasks', sessions)
      BY <1>6, FailMoves DEF TurnTimeout, Fail
    <2> QED
      BY <2>1 DEF Moves, Moved, Releases, Settles, Holding, Open
  <1>7. ASSUME NEW t \in Task, WakeParent(t) PROVE Moved(t)
    <2>1. /\ Moves(t, "queued", 1, 0, 0) /\ tasks[t].status = "waiting_children"
          /\ ~OpenChild(t) /\ UNCHANGED <<approvals, sessions>>
      BY <1>7, StatusMoves DEF WakeParent
    <2> QED
      BY <2>1 DEF Moves, Moved, Releases, Settles, Holding, Open
  <1>8. ASSUME UNCHANGED <<tasks, sessions, approvals>> PROVE Rests
    BY <1>8 DEF Rests
  <1> QED
    BY <1>1, <1>2, <1>3, <1>4, <1>5, <1>6, <1>7, <1>8, CompleteEffect
       DEF Next, OperatorStep, WorkerStep, WatchdogStep, SetAgentActive, SetPolicy, Claim,
         SubmitAbandoned, WorkerCrash

\* A delegation: running task t goes on or completes, and queued task x appears.
Hands(t, x, b, wait) ==
    /\ x # t /\ tasks[t].status = "running" /\ tasks[x].status = "absent"
    /\ tasks'[t] = [tasks[t] EXCEPT !.steps = @ + 1,
                        !.status = IF wait THEN "running" ELSE "completed"]
    /\ tasks'[x] = NewTask(tasks[t].sess, b, t, tasks[t].depth + 1)
    /\ \A y \in Task \ {t, x} : tasks'[y] = tasks[y]
    /\ UNCHANGED <<approvals, cap>>

\* A delegation inserts the child below the task whose call was answered.
LEMMA DelegateEffect ==
    ASSUME TypeInv, NEW c \in Call, NEW x \in Task, NEW b \in Agent, NEW wait \in BOOLEAN,
           ReplyDelegate(c, x, b, wait)
    PROVE  \E t \in Task : t = calls[c].task /\ Hands(t, x, b, wait)
  <1>1. calls[c].task \in Task /\ tasks[calls[c].task].status = "running"
    BY JobTask DEF ReplyDelegate, Reply, Answered
  <1>2. tasks \in [Task -> TaskRow]
    BY DEF TypeInv, TypeOK
  <1> QED
    BY <1>1, <1>2 DEF ReplyDelegate, NextTask, Hands

\* A cancel closes the open tasks of a session and touches no other.
LEMMA CancelEffect ==
    ASSUME TypeInv, NEW s \in Session, CancelSession(s), NEW t \in Task
    PROVE  /\ \/ tasks[t].sess = s /\ tasks[t].status \in Open /\ approvals'[t] = 0
                 /\ tasks'[t] = [tasks[t] EXCEPT !.status = "cancelled", !.steps = @ + 1]
              \/ tasks'[t] = tasks[t] /\ tasks[t].status \notin Open
                 /\ approvals'[t] \in {0, approvals[t]}
              \/ tasks'[t] = tasks[t] /\ tasks[t].sess # s /\ approvals'[t] = approvals[t]
           /\ UNCHANGED cap
    BY DEF CancelSession

\* In short: a task stays as it is, or is cancelled in its place.
LEMMA CancelStays ==
    ASSUME TypeInv, NEW s \in Session, CancelSession(s), NEW t \in Task
    PROVE  /\ Fixed(t)
           /\ \/ tasks'[t] = tasks[t]
              \/ tasks[t].status \in Open /\ tasks'[t].status = "cancelled"
           /\ tasks[t].sess = s => tasks'[t].status \notin Open
           /\ tasks[t].sess # s => tasks'[t] = tasks[t]
  <1>1. tasks[t] \in TaskRow
    BY DEF TypeInv, TypeOK
  <1>2. CASE tasks'[t] = tasks[t] /\ (tasks[t].status \notin Open \/ tasks[t].sess # s)
    BY <1>2 DEF Fixed
  <1>3. CASE /\ tasks[t].sess = s /\ tasks[t].status \in Open
             /\ tasks'[t] = [tasks[t] EXCEPT !.status = "cancelled", !.steps = @ + 1]
    BY <1>1, <1>3 DEF Fixed, Open, TaskRow
  <1> QED
    BY <1>2, <1>3, CancelEffect

\* Approvals and the wait for them move together in every step.
LEMMA ApprovalStep ==
    ASSUME TypeInv, ApprovalReleases, Next PROVE ApprovalReleases'
  <1> USE DEF ApprovalReleases
  <1>1. approvals \in [Task -> Nat]
    BY DEF TypeInv, TypeOK
  <1>2. CASE Rests
    BY <1>1, <1>2 DEF Rests
  <1>3. CASE Inserted
    <2>1. PICK s \in Session, t \in Task, a \in Agent :
              /\ tasks[t].status = "absent" /\ tasks' = [tasks EXCEPT ![t] = NewTask(s, a, NoTask, 0)]
              /\ UNCHANGED approvals
      BY <1>3 DEF Inserted
    <2>2. approvals[t] = 0
      BY <1>1, <2>1
    <2>3. tasks'[t].status = "queued" /\ \A x \in Task \ {t} : tasks'[x] = tasks[x]
      BY <2>1 DEF NewTask, NoTaskRow, TypeInv, TypeOK
    <2> QED
      BY <1>1, <2>1, <2>2, <2>3
  <1>4. CASE Delegated
    <2>1. PICK c \in Call, x \in Task, b \in Agent, wait \in BOOLEAN : ReplyDelegate(c, x, b, wait)
      BY <1>4 DEF Delegated
    <2>2. PICK t \in Task : Hands(t, x, b, wait)
      BY <2>1, DelegateEffect
    <2>3. /\ tasks[t].status = "running" /\ tasks[x].status = "absent" /\ UNCHANGED approvals
          /\ tasks'[t].status \in {"running", "completed"} /\ tasks'[x].status = "queued"
          /\ \A y \in Task \ {t, x} : tasks'[y] = tasks[y]
      BY <2>2 DEF Hands, NewTask, NoTaskRow, TypeInv, TypeOK, TaskRow
    <2> QED
      BY <1>1, <2>3
  <1>5. ASSUME NEW s \in Session, CancelSession(s) PROVE ApprovalReleases'
    <2> SUFFICES ASSUME NEW t \in Task
                 PROVE  /\ approvals'[t] <= 1
                        /\ tasks'[t].status = "waiting_human" => approvals'[t] = 1
                        /\ approvals'[t] = 1 => tasks'[t].status \in {"waiting_human", "failed"}
      OBVIOUS
    <2>1. CASE tasks'[t] = tasks[t] /\ approvals'[t] = approvals[t]
      BY <2>1
    <2>2. CASE tasks'[t] = tasks[t] /\ tasks[t].status \notin Open /\ approvals'[t] = 0
      BY <2>2 DEF Open
    <2>3. CASE /\ approvals'[t] = 0
               /\ tasks'[t] = [tasks[t] EXCEPT !.status = "cancelled", !.steps = @ + 1]
      <3>1. tasks'[t].status = "cancelled"
        BY <2>3 DEF TypeInv, TypeOK, TaskRow
      <3> QED
        BY <2>3, <3>1
    <2> QED
      BY <1>5, <2>1, <2>2, <2>3, CancelEffect
  <1>6. ASSUME NEW t \in Task, Moved(t) PROVE ApprovalReleases'
    <2>1. \A x \in Task \ {t} : tasks'[x] = tasks[x]
      BY <1>6 DEF Moved, Only
    <2>2. tasks[t].status \in Open
      BY <1>6 DEF Moved
    <2> QED
      BY <1>1, <1>6, <2>1, <2>2 DEF Moved, Releases, Open
  <1> QED
    BY <1>2, <1>3, <1>4, <1>5, <1>6, StepEffect

\* No step resumes a waiting task without its reason.
LEMMA ResumeStep ==
    ASSUME TypeInv, Next, NEW t \in Task, tasks'[t].status \in {"queued", "running"}
    PROVE  /\ tasks[t].status = "waiting_human" => approvals'[t] < approvals[t]
           /\ tasks[t].status = "waiting_children" => ~OpenChild(t)
  <1>1. approvals \in [Task -> Nat] /\ tasks \in [Task -> TaskRow]
    BY DEF TypeInv, TypeOK
  <1>2. CASE Rests
    BY <1>2 DEF Rests
  <1>3. CASE Inserted
    BY <1>1, <1>3 DEF Inserted
  <1>4. CASE Delegated
    <2>1. PICK c \in Call, x \in Task, b \in Agent, wait \in BOOLEAN : ReplyDelegate(c, x, b, wait)
      BY <1>4 DEF Delegated
    <2>2. PICK y \in Task : Hands(y, x, b, wait)
      BY <2>1, DelegateEffect
    <2>3. /\ tasks[y].status = "running" /\ tasks[x].status = "absent"
          /\ \A z \in Task \ {y, x} : tasks'[z] = tasks[z]
      BY <2>2 DEF Hands
    <2> QED
      BY <2>3
  <1>5. ASSUME NEW s \in Session, CancelSession(s) PROVE tasks'[t] = tasks[t]
    BY <1>1, <1>5, CancelStays
  <1>6. ASSUME NEW x \in Task, Moved(x), x # t PROVE tasks'[t] = tasks[t]
    BY <1>6 DEF Moved, Only
  <1>7. CASE Moved(t)
    BY <1>1, <1>7 DEF Moved, Releases
  <1> QED
    BY <1>2, <1>3, <1>4, <1>5, <1>6, <1>7, StepEffect

\* No step writes to a finished task.
LEMMA FinishedStep ==
    ASSUME TypeInv, Next, NEW t \in Task, tasks[t].status \in Terminal
    PROVE  tasks'[t] = tasks[t]
  <1>1. tasks \in [Task -> TaskRow] /\ tasks[t].status \notin Open \cup {"absent"}
    BY DEF TypeInv, TypeOK, Terminal, Open
  <1>2. CASE Rests
    BY <1>2 DEF Rests
  <1>3. CASE Inserted
    BY <1>1, <1>3 DEF Inserted
  <1>4. CASE Delegated
    <2>1. PICK c \in Call, x \in Task, b \in Agent, wait \in BOOLEAN : ReplyDelegate(c, x, b, wait)
      BY <1>4 DEF Delegated
    <2>2. PICK y \in Task : Hands(y, x, b, wait)
      BY <2>1, DelegateEffect
    <2>3. /\ tasks[y].status = "running" /\ tasks[x].status = "absent"
          /\ \A z \in Task \ {y, x} : tasks'[z] = tasks[z]
      BY <2>2 DEF Hands
    <2> QED
      BY <1>1, <2>3 DEF Open
  <1>5. ASSUME NEW s \in Session, CancelSession(s) PROVE tasks'[t] = tasks[t]
    BY <1>1, <1>5, CancelStays
  <1>6. ASSUME NEW x \in Task, Moved(x) PROVE tasks'[t] = tasks[t]
    BY <1>1, <1>6 DEF Moved, Only
  <1> QED
    BY <1>2, <1>3, <1>4, <1>5, <1>6, StepEffect

-----------------------------------------------------------------------------
(* Approvals and waits.                                                    *)

\* A task waiting for a human goes on only with an approval settled, and one
\* waiting for its children only when none of them is open.
THEOREM ResumesAreReasoned == Spec => ResumesForReason
  <1>1. TypeInv /\ [Next]_vars =>
          [\A t \in Task : tasks'[t].status \in {"queued", "running"} =>
              /\ tasks[t].status = "waiting_human" => approvals'[t] < approvals[t]
              /\ tasks[t].status = "waiting_children" => ~OpenChild(t)]_vars
    BY ResumeStep
  <1> QED
    BY <1>1, TypeCorrect, PTL DEF Spec, ResumesForReason

\* A task has at most one approval pending; it waits for a human exactly while
\* it has one, but for a failed task whose approval is left behind.
THEOREM ApprovalsRelease == Spec => []ApprovalReleases
  <1>1. Init => ApprovalReleases
    BY DEF Init, ApprovalReleases, NoTaskRow
  <1>2. TypeInv /\ ApprovalReleases /\ [Next]_vars => ApprovalReleases'
    <2>1. CASE UNCHANGED vars
      BY <2>1 DEF vars, ApprovalReleases
    <2> QED
      BY <2>1, ApprovalStep
  <1> QED
    BY <1>1, <1>2, TypeCorrect, PTL DEF Spec

-----------------------------------------------------------------------------
(* Sessions and the answers they show.                                     *)

\* In the tasks tk, session s has an open task, and q is an answer of its.
OpenIn(tk, s) == \E t \in Task : tk[t].sess = s /\ tk[t].status \in Open
AnswerIn(tk, q, s) == q # NoTask => q \in Task /\ tk[q].sess = s /\ tk[q].status = "completed"

\* A session and the answers it holds: what it shows, and the root's answer
\* that maybe_complete_session would show, are those of completed tasks of its.
SessionOK(s) ==
    /\ sessions[s].status = "open" <=> OpenIn(tasks, s)
    /\ AnswerIn(tasks, sessions[s].final, s) /\ AnswerIn(tasks, sessions[s].root, s)
    /\ sessions[s].status = "completed" => sessions[s].final # NoTask
\* The inductive invariant of SessionTracksTasks.
SessionInv == \A s \in Session : SessionOK(s)

\* The open row is left open, or closed by what its tasks came to.
Decided(tk, s, row, new) ==
    \/ OpenIn(tk, s) /\ new = row
    \/ /\ ~OpenIn(tk, s) /\ new.status = "failed" /\ new.root = row.root
       /\ new.final = row.final
    \/ /\ ~OpenIn(tk, s) /\ new.status = "completed" /\ new.root = row.root
       /\ \/ row.root # NoTask /\ new.final = row.root
          \/ /\ row.root = NoTask /\ new.final = row.final
             /\ ~\E x \in Task : tk[x].sess = s /\ tk[x].status = "failed"

\* What maybe_complete_session decides for an open session.
LEMMA Closing ==
    ASSUME NEW s \in Session, NEW tk, NEW ss \in [Session -> SessionRow], ss[s].status = "open"
    PROVE  Decided(tk, s, ss[s], MaybeComplete(s, tk, ss)[s])
  <1> DEFINE failed == [ss EXCEPT ![s].status = "failed"]
             done == [ss EXCEPT ![s].status = "completed",
                        ![s].final = IF ss[s].root = NoTask THEN @ ELSE ss[s].root]
             M == MaybeComplete(s, tk, ss)
  <1>1. CASE OpenIn(tk, s)
    <2>1. M = ss
      BY <1>1 DEF MaybeComplete, OpenIn
    <2> QED
      BY <1>1, <2>1 DEF Decided
  <1>2. CASE ~OpenIn(tk, s) /\ ss[s].root = NoTask /\ \E x \in Task : tk[x].sess = s /\ tk[x].status = "failed"
    <2>1. M = failed
      BY <1>2, Zenon DEF MaybeComplete, OpenIn
    <2>2. failed[s].status = "failed" /\ failed[s].root = ss[s].root /\ failed[s].final = ss[s].final
      BY DEF SessionRow
    <2> QED
      BY <1>2, <2>1, <2>2 DEF Decided
  <1>3. CASE ~OpenIn(tk, s) /\ ~(ss[s].root = NoTask /\ \E x \in Task : tk[x].sess = s /\ tk[x].status = "failed")
    <2>1. M = done
      BY <1>3, Zenon DEF MaybeComplete, OpenIn
    <2>2. /\ done[s].status = "completed" /\ done[s].root = ss[s].root
          /\ done[s].final = IF ss[s].root = NoTask THEN ss[s].final ELSE ss[s].root
      BY DEF SessionRow
    <2> QED
      BY <1>3, <2>1, <2>2 DEF Decided
  <1> QED
    BY <1>1, <1>2, <1>3

\* Completed tasks do not change, so an answer stays one.
LEMMA AnswersStay ==
    ASSUME TypeInv, Next, NEW s, NEW q, AnswerIn(tasks, q, s)
    PROVE  AnswerIn(tasks', q, s)
  BY FinishedStep DEF AnswerIn, Terminal

\* A session that a step does not concern.
LEMMA SessionStays ==
    ASSUME TypeInv, Next, NEW s \in Session, SessionOK(s), sessions'[s] = sessions[s],
           OpenIn(tasks', s) <=> OpenIn(tasks, s)
    PROVE  SessionOK(s)'
  BY AnswersStay DEF SessionOK

\* A task that fails, or answers, may close its session.
LEMMA MovedSession ==
    ASSUME TypeInv, Next, SessionInv, NEW t \in Task, Moved(t)
    PROVE  SessionInv'
  <1> SUFFICES ASSUME NEW s \in Session PROVE SessionOK(s)'
    BY DEF SessionInv
  <1>1. /\ \A x \in Task \ {t} : tasks'[x] = tasks[x]
        /\ tasks'[t].sess = tasks[t].sess /\ tasks[t].status \in Open
    BY DEF Moved, Only, Fixed
  <1>2. tasks[t].sess \in Session /\ sessions \in [Session -> SessionRow]
    BY <1>1 DEF TypeInv, TypeOK, References, Open
  <1>3. SessionOK(s)
    BY DEF SessionInv
  <1>4. CASE s # tasks[t].sess
    <2>1. OpenIn(tasks', s) <=> OpenIn(tasks, s)
      BY <1>1, <1>4 DEF OpenIn
    <2>2. sessions'[s] = sessions[s]
      <3> DEFINE z == tasks[t].sess
                 S == [sessions EXCEPT ![z].final = t,
                                       ![z].root = IF tasks[t].parent = NoTask THEN t ELSE @]
      <3>1. S \in [Session -> SessionRow] /\ S[s] = sessions[s]
        BY <1>2, <1>4 DEF SessionRow
      <3>2. ASSUME NEW ss \in [Session -> SessionRow] PROVE MaybeComplete(z, tasks', ss)[s] = ss[s]
        BY <1>4, MaybeCompleteType
      <3>3. \/ UNCHANGED sessions \/ sessions' = MaybeComplete(z, tasks', sessions)
            \/ sessions' = MaybeComplete(z, tasks', S)
        BY Zenon DEF Moved, Settles
      <3> HIDE DEF S, z
      <3> QED
        BY <1>2, <3>1, <3>2, <3>3
    <2> QED
      BY <1>3, <2>1, <2>2, SessionStays
  <1>5. CASE s = tasks[t].sess /\ tasks'[t].status \in Open
    <2>1. OpenIn(tasks', s) /\ OpenIn(tasks, s)
      BY <1>1, <1>5 DEF OpenIn
    <2>2. sessions'[s] = sessions[s]
      BY <1>5 DEF Moved, Settles, Open
    <2> QED
      BY <1>3, <2>1, <2>2, SessionStays
  <1>6. sessions[tasks[t].sess].status = "open"
    BY <1>1, <1>2 DEF SessionInv, SessionOK, OpenIn
  <1>7. CASE s = tasks[t].sess /\ tasks'[t].status = "failed"
    <2>1. sessions'[s] = MaybeComplete(s, tasks', sessions)[s]
      BY <1>7 DEF Moved, Settles, Open
    <2>2. \E x \in Task : tasks'[x].sess = s /\ tasks'[x].status = "failed"
      BY <1>1, <1>7
    <2>3. AnswerIn(tasks', sessions[s].final, s) /\ AnswerIn(tasks', sessions[s].root, s)
      BY <1>3, AnswersStay DEF SessionOK
    <2>4. sessions[s].status = "open"
      BY <1>6, <1>7
    <2>5. \/ OpenIn(tasks', s) /\ sessions'[s] = sessions[s]
          \/ /\ ~OpenIn(tasks', s) /\ sessions'[s].root = sessions[s].root
             /\ sessions'[s].status = "failed" /\ sessions'[s].final = sessions[s].final
          \/ /\ ~OpenIn(tasks', s) /\ sessions'[s].root = sessions[s].root
             /\ sessions'[s].status = "completed"
             /\ sessions[s].root # NoTask /\ sessions'[s].final = sessions[s].root
      <3>1. Decided(tasks', s, sessions[s], sessions'[s])
        BY <1>2, <2>1, <2>4, Closing
      <3> QED
        BY <2>2, <3>1 DEF Decided
    <2> QED
      BY <2>3, <2>4, <2>5 DEF SessionOK
  <1>8. CASE s = tasks[t].sess /\ tasks'[t].status = "completed"
    <2>1. PICK ss \in [Session -> SessionRow] :
              /\ sessions'[s] = MaybeComplete(s, tasks', ss)[s]
              /\ ss[s].status = "open" /\ ss[s].final = t /\ ss[s].root \in {t, sessions[s].root}
      <3> DEFINE S == [sessions EXCEPT ![s].final = t,
                                       ![s].root = IF tasks[t].parent = NoTask THEN t ELSE @]
      <3>1. sessions' = MaybeComplete(s, tasks', S)
        BY <1>8, Zenon DEF Moved, Settles, Open
      <3>2. /\ S \in [Session -> SessionRow]
            /\ S[s].status = "open" /\ S[s].final = t /\ S[s].root \in {t, sessions[s].root}
        BY <1>2, <1>6, <1>8 DEF SessionRow
      <3> QED
        BY <3>1, <3>2
    <2>2. AnswerIn(tasks', t, s)
      BY <1>1, <1>8 DEF AnswerIn
    <2>3. AnswerIn(tasks', sessions[s].root, s)
      BY <1>3, AnswersStay DEF SessionOK
    <2>4. t # NoTask
      BY RowsAssumption
    <2>5. \/ OpenIn(tasks', s) /\ sessions'[s] = ss[s]
          \/ /\ ~OpenIn(tasks', s) /\ sessions'[s].status \in {"failed", "completed"}
             /\ sessions'[s].root = ss[s].root
             /\ sessions'[s].final = ss[s].final \/ (ss[s].root # NoTask /\ sessions'[s].final = ss[s].root)
      <3>1. Decided(tasks', s, ss[s], sessions'[s])
        BY <2>1, Closing
      <3> QED
        BY <3>1 DEF Decided
    <2> QED
      BY <2>1, <2>2, <2>3, <2>4, <2>5 DEF SessionOK
  <1> QED
    BY <1>4, <1>5, <1>7, <1>8 DEF Moved, Settles

\* An insert opens the session, or finds it open; a delegation finds it open.
LEMMA InsertedSession ==
    ASSUME TypeInv, Next, SessionInv, Inserted
    PROVE  SessionInv'
  <1>1. PICK s \in Session, t \in Task, a \in Agent :
            /\ tasks[t].status = "absent" /\ tasks' = [tasks EXCEPT ![t] = NewTask(s, a, NoTask, 0)]
            /\ sessions'[s].status = "open"
            /\ sessions'[s].final = sessions[s].final /\ sessions'[s].root = sessions[s].root
            /\ \A z \in Session \ {s} : sessions'[z] = sessions[z]
    BY DEF Inserted
  <1>2. /\ tasks'[t].sess = s /\ tasks'[t].status \in Open
        /\ \A x \in Task \ {t} : tasks'[x] = tasks[x]
    BY <1>1 DEF TypeInv, TypeOK, NewTask, NoTaskRow, Open
  <1>3. SessionOK(s)'
    <2>1. OpenIn(tasks', s)
      BY <1>2 DEF OpenIn
    <2>2. AnswerIn(tasks', sessions[s].final, s) /\ AnswerIn(tasks', sessions[s].root, s)
      BY AnswersStay DEF SessionInv, SessionOK
    <2> QED
      BY <1>1, <2>1, <2>2 DEF SessionOK
  <1>4. ASSUME NEW z \in Session \ {s} PROVE SessionOK(z)'
    <2>1. OpenIn(tasks', z) <=> OpenIn(tasks, z)
      BY <1>1, <1>2 DEF OpenIn, Open
    <2> QED
      BY <1>1, <2>1, SessionStays DEF SessionInv
  <1> QED
    BY <1>3, <1>4 DEF SessionInv

\* A delegation leaves the session open: the child is.
LEMMA DelegatedSession ==
    ASSUME TypeInv, Next, SessionInv, Delegated
    PROVE  SessionInv'
  <1>1. PICK c \in Call, x \in Task, b \in Agent, wait \in BOOLEAN : ReplyDelegate(c, x, b, wait)
    BY DEF Delegated
  <1>2. PICK t \in Task : t = calls[c].task /\ Hands(t, x, b, wait)
    BY <1>1, DelegateEffect
  <1>3. PICK s \in Session : s = tasks[t].sess
    BY <1>2 DEF Hands, TypeInv, References
  <1>4. /\ tasks'[x].sess = s /\ tasks'[x].status \in Open /\ tasks[x].status \notin Open
        /\ tasks'[t].sess = s /\ tasks[t].status \in Open
        /\ \A y \in Task \ {t, x} : tasks'[y] = tasks[y]
    BY <1>2, <1>3 DEF Hands, NewTask, NoTaskRow, Open, TypeInv, TypeOK, TaskRow
  <1>5. /\ sessions'[s].status = sessions[s].status /\ sessions'[s].final = sessions[s].final
        /\ sessions'[s].root \in {NoTask, sessions[s].root}
        /\ \A z \in Session \ {s} : sessions'[z] = sessions[z]
    BY <1>1, <1>2, <1>3 DEF ReplyDelegate, TypeInv, TypeOK, SessionRow
  <1>6. SessionOK(s)'
    <2>1. OpenIn(tasks, s) /\ OpenIn(tasks', s)
      BY <1>3, <1>4 DEF OpenIn
    <2>2. AnswerIn(tasks', sessions[s].final, s) /\ AnswerIn(tasks', sessions[s].root, s)
      BY AnswersStay DEF SessionInv, SessionOK
    <2>3. AnswerIn(tasks', NoTask, s)
      BY DEF AnswerIn
    <2> QED
      BY <1>5, <2>1, <2>2, <2>3 DEF SessionInv, SessionOK
  <1>7. ASSUME NEW z \in Session \ {s} PROVE SessionOK(z)'
    <2>1. OpenIn(tasks', z) <=> OpenIn(tasks, z)
      BY <1>3, <1>4 DEF OpenIn
    <2> QED
      BY <1>5, <2>1, SessionStays DEF SessionInv
  <1> QED
    BY <1>6, <1>7 DEF SessionInv

\* A cancel leaves no open task in the session it closes.
LEMMA CancelledSession ==
    ASSUME TypeInv, Next, SessionInv, NEW s \in Session, CancelSession(s)
    PROVE  SessionInv'
  <1>1. ASSUME NEW t \in Task
        PROVE  /\ tasks'[t].sess = tasks[t].sess
               /\ tasks[t].sess = s => tasks'[t].status \notin Open
               /\ tasks[t].sess # s => tasks'[t] = tasks[t]
    BY CancelStays DEF Fixed
  <1>2. /\ sessions'[s].status # "open" /\ sessions'[s].final = sessions[s].final
        /\ sessions'[s].root = sessions[s].root
        /\ sessions'[s].status = "completed" => sessions[s].status = "completed"
        /\ \A z \in Session \ {s} : sessions'[z] = sessions[z]
    BY DEF CancelSession, TypeInv, TypeOK, SessionRow
  <1>3. SessionOK(s)'
    <2>1. ~OpenIn(tasks', s)
      BY <1>1 DEF OpenIn
    <2>2. AnswerIn(tasks', sessions[s].final, s) /\ AnswerIn(tasks', sessions[s].root, s)
      BY AnswersStay DEF SessionInv, SessionOK
    <2> QED
      BY <1>2, <2>1, <2>2 DEF SessionInv, SessionOK
  <1>4. ASSUME NEW z \in Session \ {s} PROVE SessionOK(z)'
    <2>1. OpenIn(tasks', z) <=> OpenIn(tasks, z)
      BY <1>1 DEF OpenIn
    <2> QED
      BY <1>2, <2>1, SessionStays DEF SessionInv
  <1> QED
    BY <1>3, <1>4 DEF SessionInv

\* A session is open exactly while one of its tasks is, and one reported as
\* completed shows the answer of a completed task of its own.
THEOREM SessionsTrackTasks == Spec => []SessionTracksTasks
  <1>1. Init => SessionInv
    BY DEF Init, SessionInv, SessionOK, OpenIn, AnswerIn, NoTaskRow, NoSessionRow, Open
  <1>2. TypeInv /\ SessionInv /\ [Next]_vars => SessionInv'
    <2>1. CASE UNCHANGED vars
      BY <2>1 DEF vars, SessionInv, SessionOK
    <2>2. ASSUME TypeInv, SessionInv, Next, Rests PROVE SessionInv'
      BY <2>2 DEF Rests, SessionInv, SessionOK
    <2> QED
      BY <2>1, <2>2, StepEffect, MovedSession, InsertedSession, DelegatedSession, CancelledSession
  <1>3. SessionInv => SessionTracksTasks
    BY DEF SessionInv, SessionOK, OpenIn, AnswerIn, SessionTracksTasks
  <1> QED
    BY <1>1, <1>2, <1>3, TypeCorrect, PTL DEF Spec
=============================================================================
