---------------------------- MODULE SessionClose ----------------------------
(* One session and its tasks, with every statement a step of its own: what   *)
(* is left of the rules of TaskEngine, whose steps are whole transactions,   *)
(* when the worker and operators with connections of their own act at the    *)
(* same time under READ COMMITTED.  A statement sees what was committed when *)
(* it began and its own transaction's writes; an update waits for the row's  *)
(* lock and then tests its condition on the newest version.                  *)
EXTENDS Naturals, FiniteSets

CONSTANTS
    Backends,       \* the worker's SPI thread and the operators' connections
    First,          \* the session's first root task
    Roots,          \* root tasks that fn_continue_session may add
    Children        \* tasks that delegations may add

ASSUME CloseAssumption ==
    /\ First \notin Roots /\ Roots \cap Children = {} /\ First \notin Children
    /\ IsFiniteSet(Backends) /\ Backends # {} /\ "none" \notin Backends
    /\ "session" \notin {First} \cup Roots \cup Children

VARIABLES
    task,           \* committed status: "none", "open" or how the task ended
    session,        \* committed status: "open", "closed" or "cancelled"
    lock,           \* which transaction holds each row
    draft,          \* value its transaction has written to a locked row
    tx,             \* the statement each backend is at
    did             \* history: what each open transaction is, the tasks its
                    \* cursor found, whether it has been the only one open

vars == <<task, session, lock, draft, tx, did>>

Tasks == {First} \cup Roots \cup Children
Session == "session"
Rows == Tasks \cup {Session}
None == "none"
Idle == [pc |-> "idle"]
Ends == {"completed", "failed"}
Nothing == [kind |-> "none", found |-> {}, alone |-> FALSE]

Init ==
    /\ task = [t \in Tasks |-> IF t = First THEN "open" ELSE "none"]
    /\ session = "open"
    /\ lock = [r \in Rows |-> None] /\ draft = [r \in Rows |-> None]
    /\ tx = [b \in Backends |-> Idle]
    /\ did = [b \in Backends |-> Nothing]

Committed(r) == IF r = Session THEN session ELSE task[r]

\* What a statement of b sees in a row, and which tasks it sees as open.
Sees(b, r) == IF lock[r] = b /\ draft[r] # None THEN draft[r] ELSE Committed(r)
SeesOpen(b) == {t \in Tasks : Sees(b, t) = "open"}

\* b's lock on row r, waited for, and the value it leaves there if any.
Write(b, r, value) ==
    /\ lock[r] \in {None, b}
    /\ lock' = [lock EXCEPT ![r] = b]
    /\ draft' = [draft EXCEPT ![r] = IF value = None THEN @ ELSE value]

At(b, state) == tx' = [tx EXCEPT ![b] = state]

\* b's transaction begins; those already open are no longer alone.
Begins(b, kind, found) ==
    did' = [d \in Backends |->
               IF d = b
               THEN [kind |-> kind, found |-> found, alone |-> \A x \in Backends : tx[x] = Idle]
               ELSE [did[d] EXCEPT !.alone = FALSE]]

\* COMMIT publishes the drafts; an exception drops them. Both free the rows.
Release(b) ==
    /\ lock' = [r \in Rows |-> IF lock[r] = b THEN None ELSE lock[r]]
    /\ draft' = [r \in Rows |-> IF lock[r] = b THEN None ELSE draft[r]]
    /\ At(b, Idle)
    /\ did' = [did EXCEPT ![b] = Nothing]

Commit(b) ==
    /\ tx[b].pc = "commit"
    /\ task' = [t \in Tasks |-> Sees(b, t)]
    /\ session' = Sees(b, Session)
    /\ Release(b)

\* A raised exception, a deadlock PostgreSQL breaks, a lost connection.
Rollback(b) ==
    /\ tx[b] # Idle
    /\ UNCHANGED <<task, session>>
    /\ Release(b)

-----------------------------------------------------------------------------
(* A task ends: fn_submit_result's final_answer, or a failure as in          *)
(* fn_decide_approval, max_steps or an inactive agent.                       *)

\* Mutant: the status the caller read earlier is trusted.
EndTaskTrusting(b, t, how) ==
    /\ tx[b] = Idle /\ task[t] # "none"
    /\ Write(b, t, how)
    /\ At(b, [pc |-> IF how = "completed" THEN "answer" ELSE "count"])
    /\ Begins(b, "end", {})
    /\ UNCHANGED <<task, session>>

\* SELECT ... FOR UPDATE and the test of the status, then the update.
EndTask(b, t, how) ==
    /\ tx[b] = Idle /\ task[t] = "open"
    /\ Write(b, t, how)
    /\ At(b, [pc |-> IF how = "completed" THEN "answer" ELSE "count"])
    /\ Begins(b, "end", {})
    /\ UNCHANGED <<task, session>>

\* UPDATE sessions SET final_answer, which locks the session before the count.
StoreAnswer(b) ==
    /\ tx[b].pc = "answer"
    /\ Write(b, Session, None)
    /\ At(b, [pc |-> "count"])
    /\ UNCHANGED <<task, session, did>>

\* Mutant: the tasks are counted before the last one is updated.
CountBefore(b) ==
    /\ tx[b].pc = "count"
    /\ At(b, [pc |-> IF \E t \in Tasks : task[t] = "open" THEN "commit" ELSE "close"])
    /\ UNCHANGED <<task, session, lock, draft, did>>

\* maybe_complete_session: the first SELECT.
Count(b) ==
    /\ tx[b].pc = "count"
    /\ At(b, [pc |-> IF SeesOpen(b) # {} THEN "commit" ELSE "close"])
    /\ UNCHANGED <<task, session, lock, draft, did>>

\* The update of an open session. Whether it counts as completed or failed
\* depends on answers, which this module leaves to TaskEngine.
Close(b) ==
    /\ tx[b].pc = "close"
    /\ Write(b, Session, IF Sees(b, Session) = "open" THEN "closed" ELSE None)
    /\ At(b, [pc |-> "commit"])
    /\ UNCHANGED <<task, session, did>>

\* fn_submit_result's delegate without wait: the child is inserted and the
\* parent ends in the same transaction, with no look at the session.
Delegate(b, t, c) ==
    /\ tx[b] = Idle /\ task[t] = "open" /\ lock[t] = None
    /\ task[c] = "none" /\ lock[c] = None
    /\ lock' = [lock EXCEPT ![t] = b, ![c] = b]
    /\ draft' = [draft EXCEPT ![t] = "handed_over", ![c] = "open"]
    /\ At(b, [pc |-> "commit"])
    /\ Begins(b, "delegate", {})
    /\ UNCHANGED <<task, session>>

-----------------------------------------------------------------------------
(* fn_continue_session.                                                      *)

\* Mutant: the check is left to the caller.
CheckTurnSkipped(b) ==
    /\ tx[b] = Idle
    /\ At(b, [pc |-> "reopen"])
    /\ Begins(b, "turn", {})
    /\ UNCHANGED <<task, session, lock, draft>>

\* No root task may be open. (The rows left to insert are the bound.)
CheckTurn(b) ==
    /\ tx[b] = Idle /\ SeesOpen(b) \subseteq Children
    /\ At(b, [pc |-> "reopen"])
    /\ Begins(b, "turn", {})
    /\ UNCHANGED <<task, session, lock, draft>>

Reopen(b) ==
    /\ tx[b].pc = "reopen"
    /\ Write(b, Session, "open")
    /\ At(b, [pc |-> "insert"])
    /\ UNCHANGED <<task, session, did>>

InsertTurn(b, n) ==
    /\ tx[b].pc = "insert" /\ task[n] = "none" /\ lock[n] = None
    /\ Write(b, n, "open")
    /\ At(b, [pc |-> "commit"])
    /\ UNCHANGED <<task, session, did>>

-----------------------------------------------------------------------------
(* fn_cancel_session.                                                        *)

\* The cursor's snapshot of the open tasks.
FindOpen(b) ==
    /\ tx[b] = Idle
    /\ At(b, [pc |-> "cancel", todo |-> SeesOpen(b)])
    /\ Begins(b, "stop", SeesOpen(b))
    /\ UNCHANGED <<task, session, lock, draft>>

\* Mutant: FOR UPDATE SKIP LOCKED, as where the dispatcher takes a task.
CancelTaskSkipLocked(b, t) ==
    /\ tx[b].pc = "cancel" /\ t \in tx[b].todo
    /\ \/ Write(b, t, IF Sees(b, t) = "open" THEN "cancelled" ELSE None)
       \/ lock[t] \notin {None, b} /\ UNCHANGED <<lock, draft>>
    /\ At(b, [pc |-> "cancel", todo |-> tx[b].todo \ {t}])
    /\ UNCHANGED <<task, session, did>>

\* FOR UPDATE waits for the row, tests its status again and updates it.
CancelTask(b, t) ==
    /\ tx[b].pc = "cancel" /\ t \in tx[b].todo
    /\ Write(b, t, IF Sees(b, t) = "open" THEN "cancelled" ELSE None)
    /\ At(b, [pc |-> "cancel", todo |-> tx[b].todo \ {t}])
    /\ UNCHANGED <<task, session, did>>

CloseCancelled(b) ==
    /\ tx[b].pc = "cancel" /\ tx[b].todo = {}
    /\ Write(b, Session, IF Sees(b, Session) = "open" THEN "cancelled" ELSE None)
    /\ At(b, [pc |-> "commit"])
    /\ UNCHANGED <<task, session, did>>

-----------------------------------------------------------------------------
Next ==
    \E b \in Backends :
        \/ \E t \in Tasks : \/ \E how \in Ends : EndTask(b, t, how)
                            \/ \E c \in Children : Delegate(b, t, c)
                            \/ CancelTask(b, t)
        \/ StoreAnswer(b) \/ Count(b) \/ Close(b)
        \/ CheckTurn(b) \/ Reopen(b) \/ \E n \in Roots : InsertTurn(b, n)
        \/ FindOpen(b) \/ CloseCancelled(b)
        \/ Commit(b) \/ Rollback(b)

Spec == Init /\ [][Next]_vars

-----------------------------------------------------------------------------
Open == {t \in Tasks : task[t] = "open"}

\* Whatever interleaves, a task that ended keeps its end, and a closed session
\* changes only by being reopened: the tests made under the row's lock suffice.
EndsStay ==
    [][/\ \A t \in Tasks : task[t] \notin {"none", "open"} => task'[t] = task[t]
       /\ session # "open" => session' \in {session, "open"}]_vars

\* Whatever interleaves, when fn_cancel_session commits no task that was open
\* when its cursor began is open, and neither is the session: what a stop can
\* miss is a task committed after it began to look.
StopTakesHold ==
    [][\A b \in Backends :
          Commit(b) /\ did[b].kind = "stop"
              => session' # "open" /\ \A t \in did[b].found : task'[t] # "open"]_vars

\* Whatever interleaves, no more turns are open than there are connections:
\* follow-up messages that race each other pass fn_continue_session's check
\* together, but none passes it after one of them has committed.
TurnsBounded == Cardinality(Open \ Children) <= Cardinality(Backends)

\* Whatever earlier races have left (a session open with no open task, one
\* cancelled with a task that goes on, several turns), a transaction that had
\* the session to itself puts it right when it commits: it leaves no session
\* open without a task; a stop leaves no task open; and a follow-up message is
\* the one turn that is open.
LoneTransactionRepairs ==
    [][\A b \in Backends :
          Commit(b) /\ did[b].alone
              => /\ Open' = {} => session' # "open"
                 /\ did[b].kind = "stop" => Open' = {}
                 /\ did[b].kind = "turn" => \E n \in Roots : Open' \ Children = {n}]_vars

\* Does not hold (README, Disagreements): with nothing under way, a session is
\* open exactly when one of its tasks is.
ClosedMeansDone ==
    (\A b \in Backends : tx[b] = Idle) => (session = "open" <=> Open # {})

\* Does not hold (README, Disagreements): a session has one turn at a time.
OneTurnAtATime == Cardinality(Open \ Children) <= 1
=============================================================================
