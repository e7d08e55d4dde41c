------------------------- MODULE SessionCloseProofs -------------------------
(* Proofs for any number of connections and tasks, under any interleaving of *)
(* their statements: ended tasks and closed sessions stay as they are, a stop *)
(* takes hold of all it found, racing follow-up messages open no more turns   *)
(* than there are connections, and a transaction that had the session to      *)
(* itself leaves session and tasks in agreement whatever came before.         *)
EXTENDS SessionClose, TLAPS

Shape ==
    /\ DOMAIN task = Tasks
    /\ lock \in [Rows -> Backends \cup {None}]
    /\ DOMAIN draft = Rows
    /\ DOMAIN tx = Backends

\* A draft exists only under a lock, a task with a draft has not ended, and a
\* session with a closing draft is open. The last needs to know that only the
\* tail of fn_continue_session has reopened the session without committing.
CloseInv ==
    /\ Shape
    /\ \A r \in Rows : lock[r] = None => draft[r] = None
    /\ \A t \in Tasks : draft[t] # None => task[t] \in {"none", "open"}
    /\ draft[Session] \in {None, "open"} \/ session = "open"
    /\ draft[Session] = "open" => tx[lock[Session]].pc \in {"insert", "commit"}

\* What EndsStay says of one step.
Kept ==
    /\ \A t \in Tasks : task[t] \notin {"none", "open"} => task'[t] = task[t]
    /\ session # "open" => session' \in {session, "open"}

\* The session is a row of its own, and nobody is not a connection.
LEMMA RowFacts == Session \in Rows /\ Tasks \subseteq Rows /\ Session \notin Tasks /\ None \notin Backends
BY CloseAssumption DEF Rows, Session, Tasks, None

\* A new session satisfies the invariant.
LEMMA InitCloses == Init => CloseInv
<1> SUFFICES ASSUME Init PROVE CloseInv
    OBVIOUS
<1>1. Shape
    BY RowFacts DEF Init, Shape
<1>2. \A r \in Rows : draft[r] = None
    BY DEF Init
<1> QED
    BY <1>1, <1>2, RowFacts DEF CloseInv, None

\* A statement that writes a task under its lock, if the task has not ended,
\* keeps the invariant as long as the transaction is not a reopened session's.
LEMMA TaskWrite ==
    ASSUME CloseInv, NEW b \in Backends, NEW t \in Tasks, NEW value, NEW state,
           Write(b, t, value), At(b, state), UNCHANGED <<task, session>>,
           value # None => task[t] \in {"none", "open"},
           tx[b].pc \in {"insert", "commit"} => state.pc \in {"insert", "commit"}
    PROVE  CloseInv' /\ Kept
<1> USE RowFacts DEF Write, At
<1>1. Shape'
    BY DEF CloseInv, Shape
<1>2. \A r \in Rows : lock'[r] = None => draft'[r] = None
    BY DEF CloseInv, Shape
<1>3. \A u \in Tasks : draft'[u] # None => task'[u] \in {"none", "open"}
    BY DEF CloseInv, Shape
<1>4. draft'[Session] = draft[Session] /\ lock'[Session] = lock[Session]
    BY DEF CloseInv, Shape
<1>5. draft'[Session] = "open" => tx'[lock'[Session]].pc \in {"insert", "commit"}
  <2> SUFFICES ASSUME draft[Session] = "open"
               PROVE  tx'[lock[Session]].pc \in {"insert", "commit"}
      BY <1>4
  <2>1. tx[lock[Session]].pc \in {"insert", "commit"} /\ lock[Session] \in Backends
      BY DEF CloseInv, Shape, None
  <2> QED
      BY <2>1 DEF CloseInv, Shape
<1> QED
    BY <1>1, <1>2, <1>3, <1>4, <1>5 DEF CloseInv, Kept

\* A statement that writes nothing.
LEMMA ReadOnly ==
    ASSUME CloseInv, NEW b \in Backends, NEW state, At(b, state),
           UNCHANGED <<task, session, lock, draft>>,
           tx[b].pc \notin {"insert", "commit"}
    PROVE  CloseInv' /\ Kept
<1> USE RowFacts DEF At
<1>1. draft'[Session] = "open" => tx'[lock'[Session]].pc \in {"insert", "commit"}
  <2> SUFFICES ASSUME draft[Session] = "open"
               PROVE  tx'[lock[Session]].pc \in {"insert", "commit"}
      OBVIOUS
  <2>1. tx[lock[Session]].pc \in {"insert", "commit"} /\ lock[Session] \in Backends
      BY DEF CloseInv, Shape, None
  <2> QED
      BY <2>1 DEF CloseInv, Shape
<1> QED
    BY <1>1 DEF CloseInv, Kept, Shape

\* A statement that writes the session under its lock: it reopens it, leaves it
\* alone, or closes what is committed as open.
LEMMA SessionWrite ==
    ASSUME CloseInv, NEW b \in Backends, NEW value, NEW state,
           Write(b, Session, value), At(b, state), UNCHANGED <<task, session>>,
           tx[b].pc \notin {"insert", "commit"},
           value \in {None, "open"} \/ session = "open",
           value = "open" => state.pc = "insert"
    PROVE  CloseInv' /\ Kept
<1> USE RowFacts DEF Write, At
<1>1. Shape'
    BY DEF CloseInv, Shape
<1>2. \A r \in Rows : lock'[r] = None => draft'[r] = None
    BY DEF CloseInv, Shape
<1>3. \A u \in Tasks : draft'[u] # None => task'[u] \in {"none", "open"}
    BY DEF CloseInv, Shape
<1>4. draft[Session] # "open"
    BY DEF CloseInv, Shape, None
<1>5. draft'[Session] = IF value = None THEN draft[Session] ELSE value
    BY DEF CloseInv, Shape
<1>6. lock'[Session] = b /\ tx'[b] = state
    BY DEF CloseInv, Shape
<1>7. draft'[Session] \in {None, "open"} \/ session' = "open"
    BY <1>5 DEF CloseInv
<1>8. draft'[Session] = "open" => tx'[lock'[Session]].pc \in {"insert", "commit"}
    BY <1>4, <1>5, <1>6
<1> QED
    BY <1>1, <1>2, <1>3, <1>7, <1>8 DEF CloseInv, Kept

\* A committed draft replaces a value that had not ended.
LEMMA CommitKeeps ==
    ASSUME CloseInv, NEW b \in Backends, Commit(b)
    PROVE  CloseInv' /\ Kept
<1> USE RowFacts
<1>1. Shape'
    BY DEF CloseInv, Shape, Commit, Release, At
<1>2. \A r \in Rows : lock'[r] = None => draft'[r] = None
    BY DEF CloseInv, Shape, Commit, Release
<1>3. Kept
  <2>1. \A t \in Tasks : task'[t] = Sees(b, t)
      BY DEF Commit
  <2>2. \A t \in Tasks : task[t] \notin {"none", "open"} => task'[t] = task[t]
      BY <2>1 DEF Sees, Committed, CloseInv
  <2>3. session' = Sees(b, Session)
      BY DEF Commit
  <2>4. session # "open" => session' \in {session, "open"}
      BY <2>3 DEF Sees, Committed, CloseInv
  <2> QED
      BY <2>2, <2>4 DEF Kept
<1>4. \A t \in Tasks : draft'[t] # None => task'[t] \in {"none", "open"}
  <2> SUFFICES ASSUME NEW t \in Tasks, draft'[t] # None PROVE task'[t] \in {"none", "open"}
      OBVIOUS
  <2>1. lock[t] # b /\ draft[t] # None
      BY DEF Commit, Release
  <2>2. task'[t] = task[t]
      BY <2>1 DEF Commit, Sees, Committed
  <2> QED
      BY <2>1, <2>2 DEF CloseInv
<1>5. CASE lock[Session] = b
  <2>1. draft'[Session] = None
      BY <1>5 DEF Commit, Release
  <2> QED
      BY <1>1, <1>2, <1>3, <1>4, <2>1 DEF CloseInv, None
<1>6. CASE lock[Session] # b
  <2>1. draft'[Session] = draft[Session] /\ lock'[Session] = lock[Session]
      BY <1>6 DEF Commit, Release
  <2>2. session' = session
      BY <1>6 DEF Commit, Sees, Committed
  <2>3. draft[Session] = "open" => lock[Session] \in Backends /\ tx'[lock[Session]] = tx[lock[Session]]
      BY <1>6 DEF Commit, Release, At, CloseInv, Shape, None
  <2> QED
      BY <1>1, <1>2, <1>3, <1>4, <2>1, <2>2, <2>3 DEF CloseInv
<1> QED
    BY <1>5, <1>6

\* A rollback frees rows and publishes nothing.
LEMMA RollbackKeeps ==
    ASSUME CloseInv, NEW b \in Backends, Rollback(b)
    PROVE  CloseInv' /\ Kept
<1> USE RowFacts
<1>1. Shape'
    BY DEF CloseInv, Shape, Rollback, Release, At
<1>2. \A r \in Rows : /\ lock'[r] = None => draft'[r] = None
                      /\ draft'[r] # None => draft'[r] = draft[r] /\ lock'[r] = lock[r] /\ lock[r] # b
    BY DEF CloseInv, Shape, Rollback, Release
<1>3. task' = task /\ session' = session
    BY DEF Rollback
<1>4. draft[Session] = "open" /\ lock[Session] # b
          => lock[Session] \in Backends /\ tx'[lock[Session]] = tx[lock[Session]]
    BY DEF Rollback, Release, At, CloseInv, Shape, None
<1>5. /\ draft'[Session] \in {None, "open"} \/ session' = "open"
      /\ draft'[Session] = "open" => tx'[lock'[Session]].pc \in {"insert", "commit"}
    BY <1>2, <1>3, <1>4 DEF CloseInv, None
<1>6. \A t \in Tasks : draft'[t] # None => task'[t] \in {"none", "open"}
    BY <1>2, <1>3 DEF CloseInv
<1> QED
    BY <1>1, <1>2, <1>3, <1>5, <1>6 DEF CloseInv, Kept

\* The child row appears and its parent ends under their locks.
LEMMA DelegateKeeps ==
    ASSUME CloseInv, NEW b \in Backends, NEW t \in Tasks, NEW c \in Children, Delegate(b, t, c)
    PROVE  CloseInv' /\ Kept
<1> USE RowFacts
<1>0. c \in Tasks /\ tx[b].pc = "idle"
    BY DEF Tasks, Delegate, Idle
<1>1. Shape'
    BY <1>0 DEF CloseInv, Shape, Delegate, At
<1>2. \A r \in Rows : lock'[r] = None => draft'[r] = None
    BY <1>0 DEF CloseInv, Shape, Delegate
<1>3. \A u \in Tasks : draft'[u] # None => task'[u] \in {"none", "open"}
    BY <1>0 DEF CloseInv, Shape, Delegate
<1>4. /\ draft'[Session] = draft[Session] /\ lock'[Session] = lock[Session]
      /\ task' = task /\ session' = session
    BY <1>0 DEF CloseInv, Shape, Delegate
<1>5. draft[Session] = "open" => lock[Session] \in Backends /\ tx'[lock[Session]] = tx[lock[Session]]
    BY <1>0 DEF Delegate, At, CloseInv, Shape, None
<1> QED
    BY <1>1, <1>2, <1>3, <1>4, <1>5 DEF CloseInv, Kept

\* Every statement keeps the invariant and the ends it guards.
LEMMA StepKeeps == CloseInv /\ [Next]_vars => CloseInv' /\ Kept
<1> SUFFICES ASSUME CloseInv, [Next]_vars PROVE CloseInv' /\ Kept
    OBVIOUS
<1> USE RowFacts
<1>1. ASSUME NEW b \in Backends, NEW t \in Tasks, NEW how \in Ends, EndTask(b, t, how)
      PROVE  CloseInv' /\ Kept
  <2>1. tx[b].pc = "idle" /\ task[t] = "open"
      BY <1>1 DEF EndTask, Idle
  <2> QED
      BY <1>1, <2>1, TaskWrite DEF EndTask
<1>2. ASSUME NEW b \in Backends, NEW t \in Tasks, NEW c \in Children, Delegate(b, t, c)
      PROVE  CloseInv' /\ Kept
    BY <1>2, DelegateKeeps
<1>3. ASSUME NEW b \in Backends, NEW t \in Tasks, CancelTask(b, t)
      PROVE  CloseInv' /\ Kept
  <2> DEFINE value == IF Sees(b, t) = "open" THEN "cancelled" ELSE None
  <2>1. value # None => task[t] \in {"none", "open"}
      BY DEF Sees, Committed, CloseInv
  <2>2. tx[b].pc = "cancel" /\ Write(b, t, value) /\ UNCHANGED <<task, session>>
      BY <1>3 DEF CancelTask
  <2>3. PICK state : At(b, state)
      BY <1>3 DEF CancelTask
  <2> HIDE DEF value
  <2> QED
      BY <2>1, <2>2, <2>3, TaskWrite
<1>4. ASSUME NEW b \in Backends, StoreAnswer(b) PROVE CloseInv' /\ Kept
  <2>1. /\ tx[b].pc = "answer" /\ Write(b, Session, None)
        /\ At(b, [pc |-> "count"]) /\ UNCHANGED <<task, session>>
      BY <1>4 DEF StoreAnswer
  <2>2. None # "open" /\ None \in {None, "open"}
      BY DEF None
  <2> QED
      BY <2>1, <2>2, SessionWrite
<1>5. ASSUME NEW b \in Backends, Count(b) PROVE CloseInv' /\ Kept
    BY <1>5, ReadOnly DEF Count
<1>6. ASSUME NEW b \in Backends, Close(b) PROVE CloseInv' /\ Kept
  <2> DEFINE value == IF Sees(b, Session) = "open" THEN "closed" ELSE None
  <2>1. /\ tx[b].pc = "close" /\ Write(b, Session, value)
        /\ At(b, [pc |-> "commit"]) /\ UNCHANGED <<task, session>>
      BY <1>6 DEF Close
  <2>2. value \in {None, "open"} \/ session = "open"
      BY <2>1 DEF Sees, Committed, CloseInv
  <2>3. value # "open"
      BY DEF None
  <2> HIDE DEF value
  <2> QED
      BY <2>1, <2>2, <2>3, SessionWrite
<1>7. ASSUME NEW b \in Backends, CheckTurn(b) \/ FindOpen(b) PROVE CloseInv' /\ Kept
  <2>1. tx[b].pc = "idle" /\ UNCHANGED <<task, session, lock, draft>>
      BY <1>7 DEF CheckTurn, FindOpen, Idle
  <2>2. PICK state : At(b, state)
      BY <1>7 DEF CheckTurn, FindOpen
  <2> QED
      BY <2>1, <2>2, ReadOnly
<1>8. ASSUME NEW b \in Backends, Reopen(b) PROVE CloseInv' /\ Kept
  <2>1. /\ tx[b].pc = "reopen" /\ Write(b, Session, "open")
        /\ At(b, [pc |-> "insert"]) /\ UNCHANGED <<task, session>>
      BY <1>8 DEF Reopen
  <2> QED
      BY <2>1, SessionWrite
<1>9. ASSUME NEW b \in Backends, NEW n \in Roots, InsertTurn(b, n) PROVE CloseInv' /\ Kept
  <2>1. n \in Tasks
      BY DEF Tasks
  <2>2. /\ task[n] = "none" /\ Write(b, n, "open")
        /\ At(b, [pc |-> "commit"]) /\ UNCHANGED <<task, session>>
      BY <1>9 DEF InsertTurn
  <2> QED
      BY <2>1, <2>2, TaskWrite
<1>10. ASSUME NEW b \in Backends, CloseCancelled(b) PROVE CloseInv' /\ Kept
  <2> DEFINE value == IF Sees(b, Session) = "open" THEN "cancelled" ELSE None
  <2>1. /\ tx[b].pc = "cancel" /\ Write(b, Session, value)
        /\ At(b, [pc |-> "commit"]) /\ UNCHANGED <<task, session>>
      BY <1>10 DEF CloseCancelled
  <2>2. value \in {None, "open"} \/ session = "open"
      BY <2>1 DEF Sees, Committed, CloseInv
  <2>3. value # "open"
      BY DEF None
  <2> HIDE DEF value
  <2> QED
      BY <2>1, <2>2, <2>3, SessionWrite
<1>11. ASSUME NEW b \in Backends, Commit(b) PROVE CloseInv' /\ Kept
    BY <1>11, CommitKeeps
<1>12. ASSUME NEW b \in Backends, Rollback(b) PROVE CloseInv' /\ Kept
    BY <1>12, RollbackKeeps
<1>13. CASE UNCHANGED vars
    BY <1>13 DEF vars, CloseInv, Shape, Kept
<1> QED
    BY <1>1, <1>2, <1>3, <1>4, <1>5, <1>6, <1>7, <1>8, <1>9, <1>10, <1>11, <1>12, <1>13 DEF Next

\* Whatever interleaves, a task that ended keeps its end and a closed session
\* changes only by being reopened, for any number of connections and tasks:
\* the tests that fn_submit_result, fn_cancel_session and
\* maybe_complete_session make under the row's lock suffice.
THEOREM EndsAreKept == Spec => EndsStay
<1>1. Spec => []CloseInv
    BY InitCloses, StepKeeps, PTL DEF Spec
<1>2. CloseInv /\ [Next]_vars => [Kept]_vars
    BY StepKeeps
<1> QED
    BY <1>1, <1>2, PTL DEF Spec, EndsStay, Kept

-----------------------------------------------------------------------------
(* The history: what each open transaction is.                               *)

Acts(b) ==
    \/ \E t \in Tasks : \/ \E how \in Ends : EndTask(b, t, how)
                        \/ \E c \in Children : Delegate(b, t, c)
                        \/ CancelTask(b, t)
    \/ StoreAnswer(b) \/ Count(b) \/ Close(b)
    \/ CheckTurn(b) \/ Reopen(b) \/ \E n \in Roots : InsertTurn(b, n)
    \/ FindOpen(b) \/ CloseCancelled(b)
    \/ Commit(b) \/ Rollback(b)

Kinds == {"none", "end", "delegate", "turn", "stop"}

\* The statements each kind of transaction is made of.
Fits(pc, kind) ==
    \/ kind = "none" /\ pc = "idle"
    \/ kind = "end" /\ pc \in {"answer", "count", "close", "commit"}
    \/ kind = "delegate" /\ pc = "commit"
    \/ kind = "turn" /\ pc \in {"reopen", "insert", "commit"}
    \/ kind = "stop" /\ pc \in {"cancel", "commit"}

History ==
    /\ did \in [Backends -> [kind : Kinds, found : SUBSET Tasks, alone : BOOLEAN]]
    /\ \A b \in Backends : Fits(tx[b].pc, did[b].kind)
    /\ \A b \in Backends : tx[b].pc = "idle" => tx[b] = Idle
    /\ \A r \in Rows : lock[r] # None => tx[lock[r]] # Idle

\* A statement that begins a transaction of b.
LEMMA BeginsHistory ==
    ASSUME CloseInv, History, NEW b \in Backends, tx[b] = Idle,
           NEW kind \in Kinds, NEW found \in SUBSET Tasks, Begins(b, kind, found),
           NEW state, At(b, state), state.pc # "idle", Fits(state.pc, kind),
           \A r \in Rows : lock'[r] \in {lock[r], b}
    PROVE  /\ History'
           /\ did'[b] = [kind |-> kind, found |-> found, alone |-> \A x \in Backends : tx[x] = Idle]
           /\ \A d \in Backends \ {b} : /\ did'[d].kind = did[d].kind /\ did'[d].found = did[d].found
                                        /\ did'[d].alone = FALSE
<1>1. tx'[b] = state /\ \A d \in Backends \ {b} : tx'[d] = tx[d]
    BY DEF At, CloseInv, Shape
<1>2. (\A x \in Backends : tx[x] = Idle) \in BOOLEAN
    OBVIOUS
<1>3. /\ did'[b] = [kind |-> kind, found |-> found, alone |-> \A x \in Backends : tx[x] = Idle]
      /\ \A d \in Backends \ {b} : did'[d] = [did[d] EXCEPT !.alone = FALSE]
    BY DEF Begins
<1>4. did' \in [Backends -> [kind : Kinds, found : SUBSET Tasks, alone : BOOLEAN]]
  <2> DEFINE a == \A x \in Backends : tx[x] = Idle
  <2>0. a \in BOOLEAN
      BY <1>2
  <2>1. did'[b] = [kind |-> kind, found |-> found, alone |-> a]
      BY <1>3, Zenon
  <2> HIDE DEF a
  <2>2. did'[b] \in [kind : Kinds, found : SUBSET Tasks, alone : BOOLEAN]
      BY <2>0, <2>1
  <2>3. ASSUME NEW d \in Backends \ {b}
        PROVE  did'[d] \in [kind : Kinds, found : SUBSET Tasks, alone : BOOLEAN]
    <3>1. did[d] \in [kind : Kinds, found : SUBSET Tasks, alone : BOOLEAN]
        BY DEF History
    <3>2. did'[d] = [did[d] EXCEPT !.alone = FALSE]
        BY <1>3
    <3> QED
        BY <3>1, <3>2
  <2>4. DOMAIN did' = Backends /\ did' = [d \in Backends |-> did'[d]]
      BY DEF Begins
  <2> QED
      BY <2>2, <2>3, <2>4
<1>5. \A d \in Backends \ {b} : /\ did'[d].kind = did[d].kind /\ did'[d].found = did[d].found
                                /\ did'[d].alone = FALSE
    BY <1>3 DEF History
<1>6. did'[b].kind = kind
    BY <1>3
<1>7. \A d \in Backends : Fits(tx'[d].pc, did'[d].kind) /\ (tx'[d].pc = "idle" => tx'[d] = Idle)
    BY <1>1, <1>5, <1>6 DEF History
<1>8. \A r \in Rows : lock'[r] # None => tx'[lock'[r]] # Idle
  <2> SUFFICES ASSUME NEW r \in Rows, lock'[r] # None PROVE tx'[lock'[r]] # Idle
      OBVIOUS
  <2>1. CASE lock'[r] = b
      BY <1>1, <2>1 DEF Idle
  <2>2. CASE lock'[r] = lock[r] /\ lock[r] # b
      BY <1>1, <2>2 DEF History, CloseInv, Shape
  <2> QED
      BY <2>1, <2>2
<1> QED
    BY <1>3, <1>4, <1>5, <1>7, <1>8 DEF History

\* A later statement of it.
LEMMA GoesOnHistory ==
    ASSUME CloseInv, History, NEW b \in Backends, did' = did,
           NEW state, At(b, state), state.pc # "idle", Fits(state.pc, did[b].kind),
           \A r \in Rows : lock'[r] \in {lock[r], b}
    PROVE  History'
<1>1. tx'[b] = state /\ \A d \in Backends \ {b} : tx'[d] = tx[d]
    BY DEF At, CloseInv, Shape
<1>2. \A d \in Backends : Fits(tx'[d].pc, did'[d].kind) /\ (tx'[d].pc = "idle" => tx'[d] = Idle)
    BY <1>1 DEF History
<1>3. \A r \in Rows : lock'[r] # None => tx'[lock'[r]] # Idle
  <2> SUFFICES ASSUME NEW r \in Rows, lock'[r] # None PROVE tx'[lock'[r]] # Idle
      OBVIOUS
  <2>1. CASE lock'[r] = b
      BY <1>1, <2>1 DEF Idle
  <2>2. CASE lock'[r] = lock[r] /\ lock[r] # b
      BY <1>1, <2>2 DEF History, CloseInv, Shape
  <2> QED
      BY <2>1, <2>2
<1> QED
    BY <1>2, <1>3 DEF History

\* Its end.
LEMMA ReleaseHistory ==
    ASSUME CloseInv, History, NEW b \in Backends, Release(b)
    PROVE  /\ History' /\ did'[b] = Nothing /\ tx'[b] = Idle
           /\ \A d \in Backends \ {b} : tx'[d] = tx[d] /\ did'[d] = did[d]
<1>1. tx'[b] = Idle /\ \A d \in Backends \ {b} : tx'[d] = tx[d]
    BY DEF Release, At, CloseInv, Shape
<1>2. did'[b] = Nothing /\ \A d \in Backends \ {b} : did'[d] = did[d]
    BY DEF Release, History
<1>3. did' \in [Backends -> [kind : Kinds, found : SUBSET Tasks, alone : BOOLEAN]]
    BY DEF Release, History, Nothing, Kinds
<1>4. \A d \in Backends : Fits(tx'[d].pc, did'[d].kind) /\ (tx'[d].pc = "idle" => tx'[d] = Idle)
    BY <1>1, <1>2 DEF History, Fits, Nothing, Idle
<1>5. \A r \in Rows : lock'[r] # None => lock'[r] = lock[r] /\ lock[r] # b
    BY DEF Release
<1>6. \A r \in Rows : lock'[r] # None => tx'[lock'[r]] # Idle
    BY <1>1, <1>5 DEF History, CloseInv, Shape
<1> QED
    BY <1>1, <1>2, <1>3, <1>4, <1>6 DEF History

\* Every statement fits its transaction.
LEMMA ActsHistory ==
    ASSUME CloseInv, History, NEW b \in Backends, Acts(b)
    PROVE  History'
<1>0. Fits(tx[b].pc, did[b].kind)
    BY DEF History
<1>1. ASSUME NEW t \in Tasks, NEW how \in Ends, EndTask(b, t, how) PROVE History'
  <2>1. PICK state : /\ state = [pc |-> IF how = "completed" THEN "answer" ELSE "count"]
                     /\ At(b, state) /\ tx[b] = Idle /\ Begins(b, "end", {}) /\ Write(b, t, how)
      BY <1>1 DEF EndTask
  <2>2. state.pc # "idle" /\ Fits(state.pc, "end") /\ "end" \in Kinds /\ {} \in SUBSET Tasks
      BY <2>1 DEF Fits, Kinds
  <2>3. \A r \in Rows : lock'[r] \in {lock[r], b}
      BY <2>1 DEF Write, CloseInv, Shape
  <2> QED
      BY <2>1, <2>2, <2>3, BeginsHistory
<1>2. ASSUME NEW t \in Tasks, NEW c \in Children, Delegate(b, t, c) PROVE History'
  <2>1. PICK state : state = [pc |-> "commit"] /\ At(b, state) /\ tx[b] = Idle /\ Begins(b, "delegate", {})
      BY <1>2 DEF Delegate
  <2>2. state.pc # "idle" /\ Fits(state.pc, "delegate") /\ "delegate" \in Kinds /\ {} \in SUBSET Tasks
      BY <2>1 DEF Fits, Kinds
  <2>3. \A r \in Rows : lock'[r] \in {lock[r], b}
      BY <1>2 DEF Delegate, CloseInv, Shape
  <2> QED
      BY <2>1, <2>2, <2>3, BeginsHistory
<1>3. CASE CheckTurn(b)
  <2>1. PICK state : state = [pc |-> "reopen"] /\ At(b, state) /\ tx[b] = Idle /\ Begins(b, "turn", {})
      BY <1>3 DEF CheckTurn
  <2>2. state.pc # "idle" /\ Fits(state.pc, "turn") /\ "turn" \in Kinds /\ {} \in SUBSET Tasks
      BY <2>1 DEF Fits, Kinds
  <2>3. \A r \in Rows : lock'[r] \in {lock[r], b}
      BY <1>3 DEF CheckTurn
  <2> QED
      BY <2>1, <2>2, <2>3, BeginsHistory
<1>4. CASE FindOpen(b)
  <2>1. PICK state : /\ state = [pc |-> "cancel", todo |-> SeesOpen(b)] /\ At(b, state)
                     /\ tx[b] = Idle /\ Begins(b, "stop", SeesOpen(b))
      BY <1>4 DEF FindOpen
  <2>2. state.pc # "idle" /\ Fits(state.pc, "stop") /\ "stop" \in Kinds /\ SeesOpen(b) \in SUBSET Tasks
      BY <2>1 DEF Fits, Kinds, SeesOpen
  <2>3. \A r \in Rows : lock'[r] \in {lock[r], b}
      BY <1>4 DEF FindOpen
  <2> QED
      BY <2>1, <2>2, <2>3, BeginsHistory
<1>5. ASSUME NEW r \in Rows, NEW value, Write(b, r, value) PROVE \A q \in Rows : lock'[q] \in {lock[q], b}
    BY <1>5 DEF Write, CloseInv, Shape
<1>6. ASSUME NEW t \in Tasks, CancelTask(b, t) PROVE History'
  <2>1. PICK state : /\ state = [pc |-> "cancel", todo |-> tx[b].todo \ {t}] /\ At(b, state)
                     /\ tx[b].pc = "cancel" /\ did' = did /\ \E value : Write(b, t, value)
      BY <1>6 DEF CancelTask
  <2>2. state.pc = "cancel"
      BY <2>1
  <2>3. \A q \in Rows : lock'[q] \in {lock[q], b}
      BY <1>5, <2>1, RowFacts
  <2> QED
      BY <1>0, <2>1, <2>2, <2>3, GoesOnHistory DEF Fits
<1>7. CASE StoreAnswer(b)
  <2>1. PICK state : /\ state = [pc |-> "count"] /\ At(b, state)
                     /\ tx[b].pc = "answer" /\ did' = did /\ Write(b, Session, None)
      BY <1>7 DEF StoreAnswer
  <2>2. state.pc # "idle" /\ Fits(state.pc, did[b].kind)
      BY <1>0, <2>1 DEF Fits
  <2> QED
      BY <1>5, <2>1, <2>2, GoesOnHistory, RowFacts
<1>8. CASE Count(b)
  <2>1. PICK state : /\ state = [pc |-> IF SeesOpen(b) # {} THEN "commit" ELSE "close"] /\ At(b, state)
                     /\ tx[b].pc = "count" /\ did' = did /\ lock' = lock
      BY <1>8 DEF Count
  <2>2. state.pc # "idle" /\ Fits(state.pc, did[b].kind)
      BY <1>0, <2>1 DEF Fits
  <2> QED
      BY <2>1, <2>2, GoesOnHistory
<1>9. CASE Close(b) \/ CloseCancelled(b)
  <2>1. PICK state : /\ state = [pc |-> "commit"] /\ At(b, state)
                     /\ tx[b].pc \in {"close", "cancel"} /\ did' = did /\ \E value : Write(b, Session, value)
      BY <1>9 DEF Close, CloseCancelled
  <2>2. state.pc # "idle" /\ Fits(state.pc, did[b].kind)
      BY <1>0, <2>1 DEF Fits
  <2>3. \A q \in Rows : lock'[q] \in {lock[q], b}
      BY <1>5, <2>1, RowFacts
  <2> QED
      BY <2>1, <2>2, <2>3, GoesOnHistory
<1>10. CASE Reopen(b)
  <2>1. PICK state : /\ state = [pc |-> "insert"] /\ At(b, state)
                     /\ tx[b].pc = "reopen" /\ did' = did /\ Write(b, Session, "open")
      BY <1>10 DEF Reopen
  <2>2. state.pc # "idle" /\ Fits(state.pc, did[b].kind)
      BY <1>0, <2>1 DEF Fits
  <2> QED
      BY <1>5, <2>1, <2>2, GoesOnHistory, RowFacts
<1>11. ASSUME NEW n \in Roots, InsertTurn(b, n) PROVE History'
  <2>1. PICK state : /\ state = [pc |-> "commit"] /\ At(b, state)
                     /\ tx[b].pc = "insert" /\ did' = did /\ Write(b, n, "open")
      BY <1>11 DEF InsertTurn
  <2>2. state.pc # "idle" /\ Fits(state.pc, did[b].kind) /\ n \in Rows
      BY <1>0, <2>1 DEF Fits, Rows, Tasks
  <2> QED
      BY <1>5, <2>1, <2>2, GoesOnHistory
<1>12. CASE Commit(b) \/ Rollback(b)
    BY <1>12, ReleaseHistory DEF Commit, Rollback
<1> QED
    BY <1>1, <1>2, <1>3, <1>4, <1>6, <1>7, <1>8, <1>9, <1>10, <1>11, <1>12 DEF Acts

\* A statement of b leaves the others where they are, their locks theirs and
\* what they hold untouched.
LEMMA OthersKept ==
    ASSUME CloseInv, History, NEW b \in Backends, Acts(b), NEW d \in Backends \ {b}
    PROVE  /\ tx'[d] = tx[d]
           /\ did'[d].kind = did[d].kind /\ did'[d].found = did[d].found
           /\ did[d].alone = FALSE => did'[d].alone = FALSE
           /\ \A r \in Rows : lock'[r] = d <=> lock[r] = d
           /\ lock[Session] = d => session' = session
           /\ \A r \in Rows : lock[r] = d => draft'[r] = draft[r] /\ (r = Session \/ task'[r] = task[r])
<1>0. None \notin Backends
    BY RowFacts
<1>1. ASSUME NEW r \in Rows, NEW value, Write(b, r, value), UNCHANGED <<task, session>>
      PROVE  /\ \A q \in Rows : lock'[q] = d <=> lock[q] = d
             /\ lock[Session] = d => session' = session
             /\ \A q \in Rows : lock[q] = d => draft'[q] = draft[q] /\ (q = Session \/ task'[q] = task[q])
    BY <1>0, <1>1 DEF Write, CloseInv, Shape
<1>2. ASSUME UNCHANGED <<task, session, lock, draft>>
      PROVE  /\ \A q \in Rows : lock'[q] = d <=> lock[q] = d
             /\ lock[Session] = d => session' = session
             /\ \A q \in Rows : lock[q] = d => draft'[q] = draft[q] /\ (q = Session \/ task'[q] = task[q])
    BY <1>2
<1>3. ASSUME NEW t \in Tasks, NEW c \in Children, Delegate(b, t, c)
      PROVE  /\ \A q \in Rows : lock'[q] = d <=> lock[q] = d
             /\ lock[Session] = d => session' = session
             /\ \A q \in Rows : lock[q] = d => draft'[q] = draft[q] /\ (q = Session \/ task'[q] = task[q])
    BY <1>0, <1>3 DEF Delegate, CloseInv, Shape
<1>4. ASSUME Commit(b) \/ Rollback(b)
      PROVE  /\ \A q \in Rows : lock'[q] = d <=> lock[q] = d
             /\ lock[Session] = d => session' = session
             /\ \A q \in Rows : lock[q] = d => draft'[q] = draft[q] /\ (q = Session \/ task'[q] = task[q])
  <2>1. /\ \A q \in Rows : lock'[q] = d <=> lock[q] = d
        /\ \A q \in Rows : lock[q] = d => draft'[q] = draft[q]
      BY <1>0, <1>4 DEF Commit, Rollback, Release
  <2>2. /\ lock[Session] = d => session' = session
        /\ \A q \in Rows : lock[q] = d => (q = Session \/ task'[q] = task[q])
    <3>1. CASE Commit(b)
      <4>1. session' = Sees(b, Session) /\ \A t \in Tasks : task'[t] = Sees(b, t)
          BY <3>1 DEF Commit
      <4>2. \A q \in Rows : lock[q] = d => Sees(b, q) = Committed(q)
          BY DEF Sees
      <4> QED
          BY <4>1, <4>2, RowFacts DEF Committed, Rows
    <3>2. CASE Rollback(b)
        BY <3>2 DEF Rollback
    <3> QED
        BY <1>4, <3>1, <3>2
  <2> QED
      BY <2>1, <2>2
<1>5. /\ \A q \in Rows : lock'[q] = d <=> lock[q] = d
      /\ lock[Session] = d => session' = session
      /\ \A q \in Rows : lock[q] = d => draft'[q] = draft[q] /\ (q = Session \/ task'[q] = task[q])
  <2>1. ASSUME \/ \E t \in Tasks : \/ \E how \in Ends : EndTask(b, t, how)
                                  \/ CancelTask(b, t)
               \/ StoreAnswer(b) \/ Close(b) \/ Reopen(b) \/ CloseCancelled(b)
               \/ \E n \in Roots : InsertTurn(b, n)
        PROVE  UNCHANGED <<task, session>> /\ \E r \in Rows : \E value : Write(b, r, value)
      BY <2>1, RowFacts DEF EndTask, CancelTask, StoreAnswer, Close, Reopen, CloseCancelled, InsertTurn, Tasks
  <2>2. ASSUME Count(b) \/ CheckTurn(b) \/ FindOpen(b) PROVE UNCHANGED <<task, session, lock, draft>>
      BY <2>2 DEF Count, CheckTurn, FindOpen
  <2> QED
      BY <1>1, <1>2, <1>3, <1>4, <2>1, <2>2 DEF Acts
<1>6. \/ \E kind, found : Begins(b, kind, found)
      \/ did' = did
      \/ did' = [did EXCEPT ![b] = Nothing]
    BY DEF Acts, EndTask, Delegate, CancelTask, StoreAnswer, Count, Close, CheckTurn, Reopen, InsertTurn,
           FindOpen, CloseCancelled, Commit, Rollback, Release
<1>7. did'[d] = did[d] \/ did'[d] = [did[d] EXCEPT !.alone = FALSE]
    BY <1>6 DEF Begins, History
<1>8. did[d] \in [kind : Kinds, found : SUBSET Tasks, alone : BOOLEAN]
    BY DEF History
<1>9. /\ did'[d].kind = did[d].kind /\ did'[d].found = did[d].found
      /\ did[d].alone = FALSE => did'[d].alone = FALSE
    BY <1>7, <1>8
<1>10. \E state : At(b, state)
    BY DEF Acts, EndTask, Delegate, CancelTask, StoreAnswer, Count, Close, CheckTurn, Reopen, InsertTurn,
           FindOpen, CloseCancelled, Commit, Rollback, Release
<1>11. tx'[d] = tx[d]
    BY <1>10 DEF At, CloseInv, Shape
<1> QED
    BY <1>5, <1>9, <1>11

LEMMA HistoryInvariance == Spec => [](CloseInv /\ History)
<1>1. Init => History
  <2> SUFFICES ASSUME Init PROVE History
      OBVIOUS
  <2>1. /\ \A b \in Backends : tx[b] = Idle /\ did[b] = Nothing
        /\ \A r \in Rows : lock[r] = None
      BY DEF Init
  <2>2. did \in [Backends -> [kind : Kinds, found : SUBSET Tasks, alone : BOOLEAN]]
      BY DEF Init, Nothing, Kinds
  <2> QED
      BY <2>1, <2>2 DEF History, Fits, Idle, Nothing
<1>2. CloseInv /\ History /\ [Next]_vars => History'
  <2>1. ASSUME CloseInv, History, Next PROVE History'
      BY <2>1, ActsHistory DEF Next, Acts
  <2>2. ASSUME History, UNCHANGED vars PROVE History'
      BY <2>2 DEF vars, History
  <2> QED
      BY <2>1, <2>2
<1> QED
    BY <1>1, <1>2, InitCloses, StepKeeps, PTL DEF Spec

-----------------------------------------------------------------------------
(* A stop holds every row its cursor has come to until it commits.           *)

\* The row is b's, and not open for it.
Stopped(b, r) == lock[r] = b /\ Sees(b, r) # "open"

StopPlan(b) ==
    did[b].kind = "stop" =>
        /\ tx[b].pc = "cancel" => \A t \in did[b].found \ tx[b].todo : Stopped(b, t)
        /\ tx[b].pc = "commit" => Stopped(b, Session) /\ \A t \in did[b].found : Stopped(b, t)

StopInv == \A b \in Backends : StopPlan(b)

\* A row b has stopped stays so while b writes others.
LEMMA WriteStops ==
    ASSUME CloseInv, NEW b \in Backends, NEW r \in Rows,
           Write(b, r, IF Sees(b, r) = "open" THEN "cancelled" ELSE None), UNCHANGED <<task, session>>
    PROVE  Stopped(b, r)' /\ \A q \in Rows : Stopped(b, q) => Stopped(b, q)'
<1> DEFINE value == IF Sees(b, r) = "open" THEN "cancelled" ELSE None
<1>1. /\ lock'[r] = b /\ draft'[r] = IF value = None THEN draft[r] ELSE value
      /\ \A q \in Rows \ {r} : lock'[q] = lock[q] /\ draft'[q] = draft[q]
      /\ lock[r] \in {None, b}
    BY DEF Write, CloseInv, Shape
<1>2. \A q \in Rows : Committed(q)' = Committed(q)
    BY DEF Committed
<1>3. \A q \in Rows \ {r} : Stopped(b, q) => Stopped(b, q)'
    BY <1>1, <1>2 DEF Stopped, Sees
<1>4. Stopped(b, r)'
  <2>1. CASE Sees(b, r) = "open"
      BY <1>1, <2>1 DEF Stopped, Sees, None
  <2>2. CASE Sees(b, r) # "open"
      BY <1>1, <1>2, <2>2 DEF Stopped, Sees, CloseInv
  <2> QED
      BY <2>1, <2>2
<1> QED
    BY <1>3, <1>4

\* Another connection's statement leaves what a stop holds.
LEMMA OthersStop ==
    ASSUME CloseInv, History, NEW b \in Backends, Acts(b), NEW d \in Backends \ {b}, StopPlan(d)
    PROVE  StopPlan(d)'
<1>1. /\ tx'[d] = tx[d] /\ did'[d].kind = did[d].kind /\ did'[d].found = did[d].found
      /\ \A r \in Rows : lock'[r] = d <=> lock[r] = d
      /\ lock[Session] = d => session' = session
      /\ \A r \in Rows : lock[r] = d => draft'[r] = draft[r] /\ (r = Session \/ task'[r] = task[r])
    BY OthersKept
<1>2. \A r \in Rows : Stopped(d, r) => Stopped(d, r)'
    BY <1>1 DEF Stopped, Sees, Committed
<1>3. did[d].found \subseteq Rows /\ Session \in Rows
    BY RowFacts DEF History
<1> QED
    BY <1>1, <1>2, <1>3 DEF StopPlan

\* Each statement of a stop takes hold of one more row.
LEMMA ActsStops ==
    ASSUME CloseInv, History, StopInv, NEW b \in Backends, Acts(b)
    PROVE  StopInv'
<1> SUFFICES StopPlan(b)'
    BY OthersStop DEF StopInv
<1>1. CASE did'[b].kind # "stop"
    BY <1>1 DEF StopPlan
<1>2. StopPlan(b) /\ did[b].found \subseteq Rows
    BY RowFacts DEF StopInv, History
<1>3. ASSUME NEW t \in Tasks, CancelTask(b, t) PROVE StopPlan(b)'
  <2>1. /\ tx[b].pc = "cancel" /\ did' = did /\ UNCHANGED <<task, session>>
        /\ Write(b, t, IF Sees(b, t) = "open" THEN "cancelled" ELSE None)
      BY <1>3 DEF CancelTask
  <2>2. Stopped(b, t)' /\ \A q \in Rows : Stopped(b, q) => Stopped(b, q)'
      BY <2>1, WriteStops, RowFacts
  <2>3. PICK state : state = [pc |-> "cancel", todo |-> tx[b].todo \ {t}] /\ tx'[b] = state
      BY <1>3 DEF CancelTask, At, CloseInv, Shape
  <2>4. tx'[b].pc = "cancel" /\ tx'[b].todo = tx[b].todo \ {t}
      BY <2>3
  <2> QED
      BY <1>2, <2>1, <2>2, <2>4 DEF StopPlan
<1>4. CASE CloseCancelled(b)
  <2>1. /\ tx[b].pc = "cancel" /\ tx[b].todo = {} /\ did' = did /\ UNCHANGED <<task, session>>
        /\ Write(b, Session, IF Sees(b, Session) = "open" THEN "cancelled" ELSE None)
      BY <1>4 DEF CloseCancelled
  <2>2. Stopped(b, Session)' /\ \A q \in Rows : Stopped(b, q) => Stopped(b, q)'
      BY <2>1, WriteStops, RowFacts
  <2>3. tx'[b] = [pc |-> "commit"]
      BY <1>4 DEF CloseCancelled, At, CloseInv, Shape
  <2>4. tx'[b].pc = "commit"
      BY <2>3
  <2>5. did[b].kind = "stop" => \A t \in did[b].found : Stopped(b, t)'
      BY <1>2, <2>1, <2>2 DEF StopPlan
  <2> QED
      BY <2>1, <2>2, <2>4, <2>5 DEF StopPlan
<1>5. CASE FindOpen(b)
  <2>1. tx'[b] = [pc |-> "cancel", todo |-> SeesOpen(b)] /\ Begins(b, "stop", SeesOpen(b))
      BY <1>5 DEF FindOpen, At, CloseInv, Shape
  <2>2. did'[b].found = SeesOpen(b)
      BY <2>1 DEF Begins
  <2>3. tx'[b].pc = "cancel" /\ tx'[b].todo = SeesOpen(b)
      BY <2>1
  <2> QED
      BY <2>2, <2>3 DEF StopPlan
<1>6. CASE ~FindOpen(b) /\ ~CloseCancelled(b) /\ ~(\E t \in Tasks : CancelTask(b, t))
  <2>1. ASSUME NEW kind, NEW found, Begins(b, kind, found), kind # "stop" PROVE did'[b].kind # "stop"
      BY <2>1 DEF Begins
  <2>2. ASSUME Release(b) PROVE did'[b].kind # "stop"
      BY <2>2 DEF Release, History, Nothing
  <2>3. ASSUME StoreAnswer(b) \/ Count(b) \/ Close(b) \/ Reopen(b) \/ \E n \in Roots : InsertTurn(b, n)
        PROVE  did'[b].kind # "stop"
    <3>1. did' = did /\ tx[b].pc \in {"answer", "count", "close", "reopen", "insert"}
        BY <2>3 DEF StoreAnswer, Count, Close, Reopen, InsertTurn
    <3> QED
        BY <3>1 DEF History, Fits
  <2>4. did'[b].kind # "stop"
      BY <1>6, <2>1, <2>2, <2>3 DEF Acts, EndTask, Delegate, CheckTurn, Commit, Rollback
  <2> QED
      BY <2>4 DEF StopPlan
<1> QED
    BY <1>3, <1>4, <1>5, <1>6

\* A stop takes hold of every task its cursor found, for any number of
\* connections and tasks: it keeps the row locks of fn_cancel_session's loop
\* until it commits, and tests each status under the lock.
THEOREM StopsTakeHold == Spec => StopTakesHold
<1>1. Init => StopInv
    BY DEF Init, StopInv, StopPlan, Nothing
<1>2. CloseInv /\ History /\ StopInv /\ [Next]_vars => StopInv'
  <2>1. ASSUME CloseInv, History, StopInv, Next PROVE StopInv'
      BY <2>1, ActsStops DEF Next, Acts
  <2>2. ASSUME StopInv, UNCHANGED vars PROVE StopInv'
      BY <2>2 DEF vars, StopInv, StopPlan, Stopped, Sees, Committed
  <2> QED
      BY <2>1, <2>2
<1>3. ASSUME StopInv, NEW b \in Backends, Commit(b), did[b].kind = "stop", History
      PROVE  session' # "open" /\ \A t \in did[b].found : task'[t] # "open"
  <2>1. Stopped(b, Session) /\ \A t \in did[b].found : Stopped(b, t)
      BY <1>3 DEF StopInv, StopPlan, Commit
  <2>2. session' = Sees(b, Session) /\ \A t \in Tasks : task'[t] = Sees(b, t)
      BY <1>3 DEF Commit
  <2>3. did[b].found \subseteq Tasks
      BY <1>3 DEF History
  <2> QED
      BY <2>1, <2>2, <2>3 DEF Stopped
<1>4. StopInv /\ History /\ [Next]_vars
          => [\A b \in Backends :
                 Commit(b) /\ did[b].kind = "stop"
                     => session' # "open" /\ \A t \in did[b].found : task'[t] # "open"]_vars
    BY <1>3
<1>5. Spec => []StopInv
    BY <1>1, <1>2, HistoryInvariance, PTL DEF Spec
<1> QED
    BY <1>4, <1>5, HistoryInvariance, PTL DEF Spec, StopTakesHold

-----------------------------------------------------------------------------
(* Turns: each transaction past fn_continue_session's check adds one.        *)
INSTANCE FiniteSetTheorems

OpenTurns == Open \ Children

Turning == {b \in Backends : did[b].kind = "turn"}

\* A root row that waits to be published belongs to a transaction of
\* fn_continue_session at its COMMIT, which has no other.
TurnDrafts ==
    /\ \A r \in Tasks \ Children :
           draft[r] = "open" => did[lock[r]].kind = "turn" /\ tx[lock[r]].pc = "commit"
    /\ \A r, q \in Tasks \ Children :
           draft[r] = "open" /\ draft[q] = "open" /\ lock[r] = lock[q] => r = q

\* The turns that are open and those to come.
TurnCount ==
    /\ IsFiniteSet(OpenTurns)
    /\ Cardinality(OpenTurns) + Cardinality(Turning) <= Cardinality(Backends)

\* A statement other than a transaction's last comes before its COMMIT.
LEMMA NotYetCommit ==
    ASSUME NEW b \in Backends, Acts(b), ~Commit(b), ~Rollback(b)
    PROVE  tx[b].pc # "commit"
<1>1. \/ tx[b] = Idle
      \/ tx[b].pc \in {"answer", "count", "close", "reopen", "insert", "cancel"}
    BY DEF Acts, EndTask, Delegate, CancelTask, StoreAnswer, Count, Close, CheckTurn, Reopen, InsertTurn,
           FindOpen, CloseCancelled
<1> QED
    BY <1>1 DEF Idle

\* Where a root's draft comes from.
LEMMA DraftsComeFrom ==
    ASSUME CloseInv, NEW b \in Backends, Acts(b), NEW r \in Tasks \ Children, draft'[r] = "open"
    PROVE  \/ draft[r] = "open" /\ lock'[r] = lock[r]
           \/ r \in Roots /\ InsertTurn(b, r)
<1>0. r \in Rows /\ Session \in Rows /\ r # Session /\ None # "open" /\ Tasks \subseteq Rows
    BY RowFacts DEF None
<1>1. ASSUME NEW q \in Rows, NEW value, Write(b, q, value), value # "open"
      PROVE  draft[r] = "open" /\ lock'[r] = lock[r]
  <2>1. draft[r] = "open"
      BY <1>0, <1>1 DEF Write, CloseInv, Shape
  <2>2. lock[r] # None
      BY <1>0, <2>1 DEF CloseInv
  <2> QED
      BY <1>0, <1>1, <2>1, <2>2 DEF Write, CloseInv, Shape
<1>2. ASSUME NEW t \in Tasks, NEW how \in Ends, EndTask(b, t, how)
      PROVE  draft[r] = "open" /\ lock'[r] = lock[r]
  <2>1. how # "open" /\ t \in Rows /\ Write(b, t, how)
      BY <1>0, <1>2 DEF EndTask, Ends
  <2> QED
      BY <1>1, <2>1
<1>3. ASSUME NEW t \in Tasks, NEW c \in Children, Delegate(b, t, c)
      PROVE  draft[r] = "open" /\ lock'[r] = lock[r]
  <2>1. draft[r] = "open" /\ r # t /\ r # c
      BY <1>0, <1>3 DEF Delegate, CloseInv, Shape
  <2> QED
      BY <1>0, <1>3, <2>1 DEF Delegate, CloseInv, Shape
<1>4. ASSUME NEW t \in Tasks, CancelTask(b, t) PROVE draft[r] = "open" /\ lock'[r] = lock[r]
  <2> DEFINE value == IF Sees(b, t) = "open" THEN "cancelled" ELSE None
  <2>1. value # "open" /\ t \in Rows /\ Write(b, t, value)
      BY <1>0, <1>4 DEF CancelTask
  <2> HIDE DEF value
  <2> QED
      BY <1>1, <2>1
<1>5. ASSUME StoreAnswer(b) \/ Close(b) \/ CloseCancelled(b) \/ Reopen(b)
      PROVE  draft[r] = "open" /\ lock'[r] = lock[r]
  <2>1. PICK value : Write(b, Session, value)
      BY <1>5 DEF StoreAnswer, Close, CloseCancelled, Reopen
  <2> QED
      BY <1>0, <2>1 DEF Write, CloseInv, Shape
<1>6. ASSUME Count(b) \/ CheckTurn(b) \/ FindOpen(b) PROVE draft[r] = "open" /\ lock'[r] = lock[r]
    BY <1>6 DEF Count, CheckTurn, FindOpen
<1>7. ASSUME NEW n \in Roots, InsertTurn(b, n), n # r PROVE draft[r] = "open" /\ lock'[r] = lock[r]
    BY <1>0, <1>7 DEF InsertTurn, Write, CloseInv, Shape
<1>8. ASSUME Commit(b) \/ Rollback(b) PROVE draft[r] = "open" /\ lock'[r] = lock[r]
  <2>1. Release(b)
      BY <1>8 DEF Commit, Rollback
  <2> QED
      BY <1>0, <2>1 DEF Release
<1> QED
    BY <1>2, <1>3, <1>4, <1>5, <1>6, <1>7, <1>8 DEF Acts

\* TurnDrafts is inductive.
LEMMA TurnDraftsKept ==
    ASSUME CloseInv, CloseInv', History, History', TurnDrafts, NEW b \in Backends, Acts(b)
    PROVE  TurnDrafts'
<1>0. \A r \in Tasks \ Children : r \in Rows /\ lock[r] \in Backends \cup {None} /\ (draft[r] = "open" => lock[r] # None)
    BY RowFacts DEF CloseInv, Shape, None
<1>1. \A r \in Tasks \ Children : draft'[r] = "open" =>
          \/ draft[r] = "open" /\ lock'[r] = lock[r]
          \/ r \in Roots /\ InsertTurn(b, r)
    BY DraftsComeFrom
<1>2. \A d \in Backends \ {b} : tx'[d] = tx[d] /\ did'[d].kind = did[d].kind
    BY OthersKept
<1>3. CASE Commit(b) \/ Rollback(b)
  <2>1. Release(b)
      BY <1>3 DEF Commit, Rollback
  <2>2. \A r \in Tasks \ Children : lock'[r] # b
      BY <1>0, <2>1, RowFacts DEF Release
  <2>3. \A r \in Tasks \ Children : draft'[r] = "open" => draft[r] = "open" /\ lock'[r] = lock[r] /\ lock[r] # b
      BY <1>0, <2>1, <2>2 DEF Release, None
  <2> QED
      BY <1>0, <1>2, <2>3 DEF TurnDrafts
<1>4. CASE ~Commit(b) /\ ~Rollback(b)
  <2>1. \A r \in Tasks \ Children : draft[r] = "open" => lock[r] \in Backends \ {b}
      BY <1>0, <1>4, NotYetCommit DEF TurnDrafts
  <2>2. ASSUME NEW r \in Roots, InsertTurn(b, r)
        PROVE  tx'[b].pc = "commit" /\ did'[b].kind = "turn" /\ lock'[r] = b
    <3>1. tx'[b] = [pc |-> "commit"] /\ did' = did /\ tx[b].pc = "insert"
        BY <2>2 DEF InsertTurn, At, CloseInv, Shape
    <3>2. lock'[r] = b
        BY <2>2, RowFacts DEF InsertTurn, Write, CloseInv, Shape, Tasks
    <3> QED
        BY <3>1, <3>2 DEF History, Fits
  <2>3. ASSUME NEW r \in Roots, NEW q \in Roots, InsertTurn(b, r), InsertTurn(b, q), r # q PROVE FALSE
    <3>1. r \in Rows /\ q \in Rows /\ lock[q] = None
        BY <2>3, RowFacts DEF InsertTurn, Tasks
    <3>2. lock'[q] = b /\ lock'[q] = lock[q]
        BY <2>3, <3>1 DEF InsertTurn, Write, CloseInv, Shape
    <3> QED
        BY <3>1, <3>2, RowFacts
  <2>4. \A r \in Tasks \ Children : draft'[r] = "open" => did'[lock'[r]].kind = "turn" /\ tx'[lock'[r]].pc = "commit"
      BY <1>1, <1>2, <2>1, <2>2 DEF TurnDrafts
  <2>5. \A r, q \in Tasks \ Children : draft'[r] = "open" /\ draft'[q] = "open" /\ lock'[r] = lock'[q] => r = q
      BY <1>1, <2>1, <2>2, <2>3 DEF TurnDrafts
  <2> QED
      BY <2>4, <2>5 DEF TurnDrafts
<1> QED
    BY <1>3, <1>4

\* How many they are.
LEMMA Finite ==
    /\ \A S \in SUBSET Backends : IsFiniteSet(S) /\ Cardinality(S) \in Nat /\ Cardinality(S) <= Cardinality(Backends)
    /\ Cardinality(Backends) \in Nat /\ Cardinality(Backends) >= 1
<1>1. \A S \in SUBSET Backends : IsFiniteSet(S) /\ Cardinality(S) \in Nat /\ Cardinality(S) <= Cardinality(Backends)
    BY CloseAssumption, FS_Subset, FS_CardinalityType
<1>2. PICK b : b \in Backends
    BY CloseAssumption
<1>3. Cardinality({b}) = 1 /\ {b} \in SUBSET Backends
    BY <1>2, FS_Singleton
<1>4. Cardinality(Backends) \in Nat
    BY CloseAssumption, FS_CardinalityType
<1> QED
    BY <1>1, <1>3, <1>4

LEMMA AddOne ==
    ASSUME NEW S, IsFiniteSet(S), NEW x
    PROVE  /\ IsFiniteSet(S \cup {x}) /\ Cardinality(S \cup {x}) \in Nat
           /\ Cardinality(S \cup {x}) <= Cardinality(S) + 1
<1>1. IsFiniteSet(S \cup {x}) /\ Cardinality(S) \in Nat
    BY FS_AddElement, FS_CardinalityType
<1>2. Cardinality(S \cup {x}) = Cardinality(S) \/ Cardinality(S \cup {x}) = Cardinality(S) + 1
    BY FS_AddElement
<1> QED
    BY <1>1, <1>2, FS_CardinalityType

\* A check that passes finds no turn open, and each COMMIT trades the place of
\* its transaction for at most one turn.
LEMMA TurnCountKept ==
    ASSUME CloseInv, History, TurnDrafts, TurnCount, NEW b \in Backends, Acts(b)
    PROVE  TurnCount'
<1> DEFINE O == OpenTurns
           T == Turning
           N == Cardinality(Backends)
<1>0. /\ T \in SUBSET Backends /\ T' \in SUBSET Backends
      /\ IsFiniteSet(O) /\ Cardinality(O) \in Nat /\ Cardinality(O) + Cardinality(T) <= N
    BY FS_CardinalityType DEF Turning, TurnCount
<1>1. /\ Cardinality(T) \in Nat /\ IsFiniteSet(T) /\ Cardinality(T') \in Nat /\ Cardinality(T') <= N /\ N \in Nat
    BY <1>0, Finite
<1>2. \A d \in Backends \ {b} : did'[d].kind = did[d].kind
    BY OthersKept
<1>3. CASE CheckTurn(b)
  <2>1. SeesOpen(b) \subseteq Children /\ tx[b] = Idle /\ task' = task
      BY <1>3 DEF CheckTurn
  <2>2. \A t \in Tasks : Sees(b, t) = task[t]
    <3>1. \A r \in Rows : lock[r] # b
        BY <2>1, RowFacts DEF History
    <3> QED
        BY <3>1, RowFacts DEF Sees, Committed
  <2>3. O = {} /\ O' = {}
      BY <2>1, <2>2 DEF OpenTurns, Open, SeesOpen
  <2>4. IsFiniteSet(O') /\ Cardinality(O') = 0
      BY <2>3, FS_EmptySet
  <2> QED
      BY <1>1, <2>4 DEF TurnCount
<1>4. CASE Commit(b)
  <2>1. Release(b) /\ \A t \in Tasks : task'[t] = Sees(b, t)
      BY <1>4 DEF Commit
  <2>2. did'[b].kind = "none"
      BY <2>1, ReleaseHistory DEF Nothing
  <2>3. T' = T \ {b}
      BY <1>2, <2>2 DEF Turning
  <2>4. \A t \in O' : t \in O \/ (t \in Tasks \ Children /\ lock[t] = b /\ draft[t] = "open")
      BY <2>1, RowFacts DEF OpenTurns, Open, Sees, Committed
  <2>5. CASE b \notin T
    <3>1. O' \subseteq O
        BY <2>4, <2>5 DEF TurnDrafts, Turning
    <3>2. IsFiniteSet(O') /\ Cardinality(O') <= Cardinality(O) /\ Cardinality(O') \in Nat
        BY <1>0, <3>1, FS_Subset, FS_CardinalityType
    <3>3. T' = T
        BY <2>3, <2>5
    <3> QED
        BY <1>0, <1>1, <3>2, <3>3 DEF TurnCount
  <2>6. CASE b \in T
    <3>1. PICK n : O' \subseteq O \cup {n}
      <4>1. CASE \E n \in Tasks \ Children : lock[n] = b /\ draft[n] = "open"
          BY <2>4, <4>1 DEF TurnDrafts
      <4>2. CASE ~\E n \in Tasks \ Children : lock[n] = b /\ draft[n] = "open"
          BY <2>4, <4>2
      <4> QED
          BY <4>1, <4>2
    <3>2. IsFiniteSet(O \cup {n}) /\ Cardinality(O \cup {n}) \in Nat /\ Cardinality(O \cup {n}) <= Cardinality(O) + 1
        BY <1>0, AddOne
    <3>3. IsFiniteSet(O') /\ Cardinality(O') <= Cardinality(O \cup {n}) /\ Cardinality(O') \in Nat
        BY <3>1, <3>2, FS_Subset, FS_CardinalityType
    <3>4. Cardinality(T') = Cardinality(T) - 1
        BY <1>1, <2>3, <2>6, FS_RemoveElement
    <3> QED
        BY <1>0, <1>1, <3>2, <3>3, <3>4 DEF TurnCount
  <2> QED
      BY <2>5, <2>6
<1>5. CASE ~CheckTurn(b) /\ ~Commit(b)
  <2>1. task' = task
      BY <1>5 DEF Acts, EndTask, Delegate, CancelTask, StoreAnswer, Count, Close, Reopen, InsertTurn,
             FindOpen, CloseCancelled, Rollback
  <2>2. O' = O
      BY <2>1 DEF OpenTurns, Open
  <2>3. ASSUME NEW kind, NEW found, Begins(b, kind, found), kind # "turn" PROVE did'[b].kind # "turn"
      BY <2>3 DEF Begins
  <2>4. ASSUME Rollback(b) PROVE did'[b].kind # "turn"
      BY <2>4, ReleaseHistory DEF Rollback, Nothing
  <2>5. did' = did \/ did'[b].kind # "turn"
      BY <1>5, <2>3, <2>4 DEF Acts, EndTask, Delegate, CancelTask, StoreAnswer, Count, Close, Reopen, InsertTurn,
             FindOpen, CloseCancelled
  <2>6. T' \subseteq T
      BY <1>2, <2>5 DEF Turning
  <2>7. Cardinality(T') <= Cardinality(T)
      BY <1>1, <2>6, FS_Subset
  <2> QED
      BY <1>0, <1>1, <2>2, <2>7 DEF TurnCount
<1> QED
    BY <1>3, <1>4, <1>5

\* No more turns are open than there are connections, for any number of them:
\* fn_continue_session's check, though it takes no lock, fails once a turn has
\* been committed, so only messages whose checks all came before can race.
THEOREM TurnsAreBounded == Spec => []TurnsBounded
<1> DEFINE TurnInv == TurnDrafts /\ TurnCount
<1>1. Init => TurnInv
  <2> SUFFICES ASSUME Init PROVE TurnInv
      OBVIOUS
  <2>1. OpenTurns = {First} /\ Turning = {}
      BY CloseAssumption DEF Init, OpenTurns, Open, Tasks, Turning, Nothing
  <2>2. Cardinality(OpenTurns) = 1 /\ IsFiniteSet(OpenTurns) /\ Cardinality(Turning) = 0
      BY <2>1, FS_Singleton, FS_EmptySet
  <2>3. TurnDrafts
      BY RowFacts DEF Init, TurnDrafts, None
  <2> QED
      BY <2>2, <2>3, Finite DEF TurnCount
<1>2. CloseInv /\ CloseInv' /\ History /\ History' /\ TurnInv /\ [Next]_vars => TurnInv'
  <2>1. ASSUME CloseInv, CloseInv', History, History', TurnInv, Next PROVE TurnInv'
      BY <2>1, TurnDraftsKept, TurnCountKept DEF Next, Acts
  <2>2. ASSUME TurnInv, UNCHANGED vars PROVE TurnInv'
      BY <2>2 DEF vars, TurnDrafts, TurnCount, OpenTurns, Open, Turning
  <2> QED
      BY <2>1, <2>2
<1>3. TurnInv => TurnsBounded
  <2> SUFFICES ASSUME TurnInv PROVE TurnsBounded
      OBVIOUS
  <2>1. Cardinality(OpenTurns) \in Nat /\ Turning \in SUBSET Backends
      BY FS_CardinalityType DEF TurnCount, Turning
  <2>2. Cardinality(Turning) \in Nat /\ Cardinality(Backends) \in Nat
      BY <2>1, Finite
  <2> QED
      BY <2>1, <2>2 DEF TurnCount, TurnsBounded, OpenTurns
<1> QED
    BY <1>1, <1>2, <1>3, HistoryInvariance, PTL DEF Spec

-----------------------------------------------------------------------------
(* A transaction that has the session to itself.                             *)

\* A row as the only transaction under way sees it.
View(r) == IF draft[r] # None THEN draft[r] ELSE Committed(r)

ViewOpen == {t \in Tasks : View(t) = "open"}

\* What each statement leaves for the next of its transaction.
Plan(p, kind) ==
    /\ kind = "end" /\ p.pc = "close" => ViewOpen = {}
    /\ kind = "end" /\ p.pc = "commit" => (ViewOpen = {} => View(Session) # "open")
    /\ kind = "delegate" => ViewOpen # {}
    /\ kind = "turn" /\ p.pc \in {"reopen", "insert"} => ViewOpen \subseteq Children
    /\ kind = "turn" /\ p.pc = "commit" => \E n \in Roots : ViewOpen \ Children = {n}
    /\ kind = "stop" /\ p.pc = "cancel" => p.todo = ViewOpen
    /\ kind = "stop" /\ p.pc = "commit" => ViewOpen = {} /\ View(Session) # "open"

OthersIdle(b) == \A d \in Backends \ {b} : tx[d] = Idle

LoneInv == \A b \in Backends : did[b].alone = TRUE => OthersIdle(b) /\ Plan(tx[b], did[b].kind)

\* While b is alone, its statements see the view.
LEMMA LoneSees ==
    ASSUME CloseInv, NEW b \in Backends, \A r \in Rows : lock[r] \in {None, b}
    PROVE  /\ \A r \in Rows : Sees(b, r) = View(r)
           /\ SeesOpen(b) = ViewOpen
<1>1. \A r \in Rows : Sees(b, r) = View(r)
    BY RowFacts DEF CloseInv, Sees, View
<1> QED
    BY <1>1, RowFacts DEF SeesOpen, ViewOpen

\* A write of the session shows in the view and nowhere else.
LEMMA SessionView ==
    ASSUME CloseInv, NEW b \in Backends, NEW value, Write(b, Session, value), UNCHANGED <<task, session>>
    PROVE  /\ View(Session)' = IF value # None THEN value ELSE View(Session)
           /\ ViewOpen' = ViewOpen
<1> USE RowFacts
<1>1. View(Session)' = IF value # None THEN value ELSE View(Session)
    BY DEF CloseInv, Shape, Write, View, Committed
<1>2. \A t \in Tasks : View(t)' = View(t)
    BY DEF CloseInv, Shape, Write, View, Committed
<1> QED
    BY <1>1, <1>2 DEF ViewOpen

\* So does a write of a task.
LEMMA TaskView ==
    ASSUME CloseInv, NEW b \in Backends, NEW t \in Tasks, NEW value, value # None, Write(b, t, value),
           UNCHANGED <<task, session>>
    PROVE  /\ View(Session)' = View(Session)
           /\ value = "open" => ViewOpen' = ViewOpen \cup {t}
           /\ value # "open" => ViewOpen' = ViewOpen \ {t}
<1> USE RowFacts
<1>1. View(Session)' = View(Session)
    BY DEF CloseInv, Shape, Write, View, Committed
<1>2. View(t)' = value /\ \A u \in Tasks \ {t} : View(u)' = View(u)
    BY DEF CloseInv, Shape, Write, View, Committed
<1>3. CASE value = "open"
    BY <1>1, <1>2, <1>3 DEF ViewOpen
<1>4. CASE value # "open"
    BY <1>1, <1>2, <1>4 DEF ViewOpen
<1> QED
    BY <1>3, <1>4

\* Nobody else is alone once b acts: either its transaction was open already,
\* or it begins one.
LEMMA NoneElseAlone ==
    ASSUME CloseInv, History, LoneInv, NEW b \in Backends, Acts(b), NEW d \in Backends \ {b}
    PROVE  did'[d].alone # TRUE
<1>1. did[d].alone \in BOOLEAN
    BY DEF History
<1>2. CASE did[d].alone = FALSE
  <2>1. did'[d].alone = FALSE
      BY <1>2, OthersKept
  <2> QED
      BY <2>1
<1>3. CASE did[d].alone = TRUE
  <2>1. tx[b] = Idle
      BY <1>3 DEF LoneInv, OthersIdle
  <2>2. tx[b].pc = "idle"
      BY <2>1 DEF Idle
  <2>3. \E kind, found : Begins(b, kind, found)
      BY <2>1, <2>2 DEF Acts, EndTask, Delegate, CancelTask, StoreAnswer, Count, Close, CheckTurn, Reopen,
             InsertTurn, FindOpen, CloseCancelled, Commit, Rollback
  <2>4. did'[d] = [did[d] EXCEPT !.alone = FALSE]
      BY <2>3 DEF Begins
  <2>5. did[d] \in [kind : Kinds, found : SUBSET Tasks, alone : BOOLEAN]
      BY DEF History
  <2>6. did'[d].alone = FALSE
      BY <2>4, <2>5
  <2> QED
      BY <2>6
<1> QED
    BY <1>1, <1>2, <1>3

\* A transaction is alone after its statement only if it was the only one
\* before it, and then every lock is its own.
LEMMA AloneBefore ==
    ASSUME CloseInv, History, LoneInv, NEW b \in Backends, Acts(b), did'[b].alone = TRUE
    PROVE  /\ OthersIdle(b) /\ OthersIdle(b)'
           /\ \A r \in Rows : lock[r] \in {None, b}
           /\ did' = did => Plan(tx[b], did[b].kind)
           /\ ~Commit(b) /\ ~Rollback(b)
<1>1. ~Commit(b) /\ ~Rollback(b)
  <2>1. ASSUME Release(b) PROVE FALSE
    <3>1. did'[b].alone = FALSE
        BY <2>1, ReleaseHistory DEF Nothing
    <3> QED
        BY <3>1
  <2> QED
      BY <2>1 DEF Commit, Rollback
<1>2. ASSUME NEW kind, NEW found, Begins(b, kind, found) PROVE OthersIdle(b)
  <2> DEFINE a == \A x \in Backends : tx[x] = Idle
  <2>1. did'[b] = [kind |-> kind, found |-> found, alone |-> a]
      BY <1>2 DEF Begins
  <2> HIDE DEF a
  <2>2. did'[b].alone = a
      BY <2>1
  <2>3. a
      BY <2>2
  <2> QED
      BY <2>3 DEF a, OthersIdle
<1>3. ASSUME did' = did PROVE OthersIdle(b) /\ Plan(tx[b], did[b].kind)
    BY <1>3 DEF LoneInv
<1>4. did' = did \/ \E kind, found : Begins(b, kind, found)
    BY <1>1 DEF Acts, EndTask, Delegate, CancelTask, StoreAnswer, Count, Close, CheckTurn, Reopen,
             InsertTurn, FindOpen, CloseCancelled
<1>5. OthersIdle(b)
    BY <1>2, <1>3, <1>4
<1>6. OthersIdle(b)'
    BY <1>5, OthersKept DEF OthersIdle
<1>7. \A r \in Rows : lock[r] \in {None, b}
    BY <1>5 DEF OthersIdle, History, CloseInv, Shape
<1> QED
    BY <1>1, <1>3, <1>5, <1>6, <1>7

\* Each statement of the only transaction under way follows its plan.
LEMMA LoneNext ==
    ASSUME CloseInv, History, LoneInv, NEW b \in Backends, Acts(b), did'[b].alone = TRUE
    PROVE  Plan(tx[b], did[b].kind)'
<1>0. /\ \A r \in Rows : lock[r] \in {None, b}
      /\ did' = did => Plan(tx[b], did[b].kind)
      /\ ~Commit(b) /\ ~Rollback(b)
    BY AloneBefore
<1>1. /\ \A r \in Rows : Sees(b, r) = View(r)
      /\ SeesOpen(b) = ViewOpen
    BY <1>0, LoneSees
<1>2. ASSUME NEW kind, NEW found, Begins(b, kind, found) PROVE did'[b].kind = kind
    BY <1>2 DEF Begins
<1>3. ASSUME NEW state, At(b, state) PROVE tx'[b] = state
    BY <1>3 DEF At, CloseInv, Shape
<1>4. Fits(tx[b].pc, did[b].kind)
    BY DEF History
<1>5. ASSUME UNCHANGED <<task, session, lock, draft>>
      PROVE  View(Session)' = View(Session) /\ ViewOpen' = ViewOpen
    BY <1>5 DEF View, ViewOpen, Committed
<1>6. Session \in Rows /\ Tasks \subseteq Rows
    BY RowFacts
<1>11. ASSUME NEW t \in Tasks, NEW how \in Ends, EndTask(b, t, how) PROVE Plan(tx[b], did[b].kind)'
  <2>1. tx'[b] = [pc |-> IF how = "completed" THEN "answer" ELSE "count"] /\ did'[b].kind = "end"
      BY <1>2, <1>3, <1>11 DEF EndTask
  <2>2. tx'[b].pc \in {"answer", "count"}
      BY <2>1
  <2> QED
      BY <2>1, <2>2 DEF Plan
<1>12. ASSUME NEW t \in Tasks, NEW c \in Children, Delegate(b, t, c) PROVE Plan(tx[b], did[b].kind)'
  <2>1. did'[b].kind = "delegate" /\ draft' = [draft EXCEPT ![t] = "handed_over", ![c] = "open"]
      BY <1>2, <1>12 DEF Delegate
  <2>2. c \in Tasks /\ c \in Rows
      BY <1>6 DEF Tasks
  <2>3. c \in ViewOpen'
      BY <2>1, <2>2 DEF ViewOpen, View, CloseInv, Shape, None
  <2> QED
      BY <2>1, <2>3 DEF Plan
<1>13. ASSUME NEW t \in Tasks, CancelTask(b, t) PROVE Plan(tx[b], did[b].kind)'
  <2>1. /\ did' = did /\ tx[b].pc = "cancel" /\ t \in tx[b].todo
        /\ tx'[b] = [pc |-> "cancel", todo |-> tx[b].todo \ {t}]
      BY <1>3, <1>13 DEF CancelTask
  <2>2. did[b].kind = "stop" /\ tx[b].todo = ViewOpen
      BY <1>0, <1>4, <2>1 DEF Fits, Plan
  <2>3. Sees(b, t) = "open"
      BY <1>1, <1>6, <2>1, <2>2 DEF ViewOpen
  <2>4. Write(b, t, "cancelled") /\ UNCHANGED <<task, session>>
      BY <1>13, <2>3 DEF CancelTask
  <2>5. ViewOpen' = ViewOpen \ {t}
      BY <2>4, TaskView DEF None
  <2>6. tx'[b].pc = "cancel" /\ tx'[b].todo = ViewOpen' /\ did'[b].kind = "stop"
      BY <2>1, <2>2, <2>5
  <2> QED
      BY <2>6 DEF Plan
<1>14. CASE StoreAnswer(b)
  <2>1. did' = did /\ tx[b].pc = "answer" /\ tx'[b] = [pc |-> "count"]
      BY <1>3, <1>14 DEF StoreAnswer
  <2>2. tx'[b].pc = "count" /\ did'[b].kind = "end"
      BY <1>4, <2>1 DEF Fits
  <2> QED
      BY <2>2 DEF Plan
<1>15. CASE Count(b)
  <2>1. /\ did' = did /\ tx[b].pc = "count" /\ UNCHANGED <<task, session, lock, draft>>
        /\ tx'[b] = [pc |-> IF ViewOpen # {} THEN "commit" ELSE "close"]
      BY <1>1, <1>3, <1>15 DEF Count
  <2>2. tx'[b].pc = (IF ViewOpen # {} THEN "commit" ELSE "close") /\ did'[b].kind = "end"
      BY <1>4, <2>1 DEF Fits
  <2>3. ViewOpen' = ViewOpen
      BY <1>5, <2>1
  <2> QED
      BY <2>2, <2>3 DEF Plan
<1>16. CASE Close(b)
  <2>1. /\ did' = did /\ tx[b].pc = "close" /\ UNCHANGED <<task, session>> /\ tx'[b] = [pc |-> "commit"]
      BY <1>3, <1>16 DEF Close
  <2>2. tx'[b].pc = "commit" /\ did'[b].kind = "end"
      BY <1>4, <2>1 DEF Fits
  <2>3. PICK value : value = (IF View(Session) = "open" THEN "closed" ELSE None) /\ Write(b, Session, value)
      BY <1>1, <1>6, <1>16 DEF Close
  <2>4. View(Session)' # "open"
      BY <2>1, <2>3, SessionView DEF None
  <2> QED
      BY <2>2, <2>4 DEF Plan
<1>17. CASE CheckTurn(b)
  <2>1. /\ did'[b].kind = "turn" /\ ViewOpen \subseteq Children /\ UNCHANGED <<task, session, lock, draft>>
        /\ tx'[b] = [pc |-> "reopen"]
      BY <1>1, <1>2, <1>3, <1>17 DEF CheckTurn
  <2>2. tx'[b].pc = "reopen" /\ ViewOpen' = ViewOpen
      BY <1>5, <2>1
  <2> QED
      BY <2>1, <2>2 DEF Plan
<1>18. CASE Reopen(b)
  <2>1. /\ did' = did /\ tx[b].pc = "reopen" /\ tx'[b] = [pc |-> "insert"]
        /\ Write(b, Session, "open") /\ UNCHANGED <<task, session>>
      BY <1>3, <1>18 DEF Reopen
  <2>2. tx'[b].pc = "insert" /\ did'[b].kind = "turn" /\ ViewOpen \subseteq Children
      BY <1>0, <1>4, <2>1 DEF Fits, Plan
  <2>3. ViewOpen' = ViewOpen
      BY <2>1, SessionView
  <2> QED
      BY <2>2, <2>3 DEF Plan
<1>19. ASSUME NEW n \in Roots, InsertTurn(b, n) PROVE Plan(tx[b], did[b].kind)'
  <2>1. /\ did' = did /\ tx[b].pc = "insert" /\ tx'[b] = [pc |-> "commit"]
        /\ Write(b, n, "open") /\ UNCHANGED <<task, session>>
      BY <1>3, <1>19 DEF InsertTurn
  <2>2. tx'[b].pc = "commit" /\ did'[b].kind = "turn" /\ ViewOpen \subseteq Children
      BY <1>0, <1>4, <2>1 DEF Fits, Plan
  <2>3. ViewOpen' = ViewOpen \cup {n}
      BY <2>1, TaskView DEF None, Tasks
  <2>4. ViewOpen' \ Children = {n}
      BY <2>2, <2>3, CloseAssumption
  <2> QED
      BY <2>2, <2>4 DEF Plan
<1>20. CASE FindOpen(b)
  <2>1. /\ did'[b].kind = "stop" /\ UNCHANGED <<task, session, lock, draft>>
        /\ tx'[b] = [pc |-> "cancel", todo |-> ViewOpen]
      BY <1>1, <1>2, <1>3, <1>20 DEF FindOpen
  <2>2. tx'[b].pc = "cancel" /\ tx'[b].todo = ViewOpen /\ ViewOpen' = ViewOpen
      BY <1>5, <2>1
  <2> QED
      BY <2>1, <2>2 DEF Plan
<1>21. CASE CloseCancelled(b)
  <2>1. /\ did' = did /\ tx[b].pc = "cancel" /\ tx[b].todo = {} /\ tx'[b] = [pc |-> "commit"]
        /\ UNCHANGED <<task, session>>
      BY <1>3, <1>21 DEF CloseCancelled
  <2>2. tx'[b].pc = "commit" /\ did'[b].kind = "stop" /\ ViewOpen = {}
      BY <1>0, <1>4, <2>1 DEF Fits, Plan
  <2>3. PICK value : value = (IF View(Session) = "open" THEN "cancelled" ELSE None) /\ Write(b, Session, value)
      BY <1>1, <1>6, <1>21 DEF CloseCancelled
  <2>4. View(Session)' # "open" /\ ViewOpen' = ViewOpen
      BY <2>1, <2>3, SessionView DEF None
  <2> QED
      BY <2>2, <2>4 DEF Plan
<1> QED
    BY <1>0, <1>11, <1>12, <1>13, <1>14, <1>15, <1>16, <1>17, <1>18, <1>19, <1>20, <1>21 DEF Acts

\* What a lone transaction publishes is what it saw.
LEMMA LoneCommit ==
    ASSUME CloseInv, History, LoneInv, NEW b \in Backends, Commit(b), did[b].alone = TRUE
    PROVE  /\ Open' = {} => session' # "open"
           /\ did[b].kind = "stop" => Open' = {}
           /\ did[b].kind = "turn" => \E n \in Roots : Open' \ Children = {n}
<1>1. OthersIdle(b) /\ Plan(tx[b], did[b].kind) /\ tx[b].pc = "commit"
    BY DEF LoneInv, Commit
<1>2. \A r \in Rows : lock[r] \in {None, b}
    BY <1>1 DEF OthersIdle, History, CloseInv, Shape
<1>3. \A r \in Rows : Sees(b, r) = View(r)
    BY <1>2, LoneSees
<1>4. session' = View(Session) /\ \A t \in Tasks : task'[t] = View(t)
    BY <1>3, RowFacts DEF Commit
<1>5. Open' = ViewOpen
    BY <1>4 DEF Open, ViewOpen
<1>6. did[b].kind \in {"end", "delegate", "turn", "stop"}
    BY <1>1 DEF History, Fits
<1>7. ASSUME did[b].kind = "turn" PROVE \E n \in Roots : ViewOpen \ Children = {n}
    BY <1>1, <1>7 DEF Plan
<1>8. ViewOpen = {} => View(Session) # "open"
  <2>1. CASE did[b].kind = "turn"
      BY <1>7, <2>1
  <2>2. CASE did[b].kind # "turn"
      BY <1>1, <1>6, <2>2 DEF Plan
  <2> QED
      BY <2>1, <2>2
<1> QED
    BY <1>1, <1>4, <1>5, <1>7, <1>8 DEF Plan

\* A transaction that had the session to itself leaves session and tasks in
\* agreement, for any number of connections and tasks and whatever races came
\* before it: the counts and checks of maybe_complete_session,
\* fn_cancel_session and fn_continue_session look at the rows, never at what an
\* earlier transaction concluded.
THEOREM LoneTransactionsRepair == Spec => LoneTransactionRepairs
<1>1. Init => LoneInv
  <2> SUFFICES ASSUME Init, NEW b \in Backends PROVE did[b].alone # TRUE
      BY DEF LoneInv
  <2>1. did[b].alone = FALSE
      BY DEF Init, Nothing
  <2> QED
      BY <2>1
<1>2. CloseInv /\ History /\ LoneInv /\ [Next]_vars => LoneInv'
  <2>1. ASSUME CloseInv, History, LoneInv, Next PROVE LoneInv'
    <3>1. PICK b \in Backends : Acts(b)
        BY <2>1 DEF Next, Acts
    <3>2. \A d \in Backends \ {b} : did'[d].alone # TRUE
        BY <2>1, <3>1, NoneElseAlone
    <3>3. ASSUME did'[b].alone = TRUE PROVE OthersIdle(b)' /\ Plan(tx[b], did[b].kind)'
        BY <2>1, <3>1, <3>3, AloneBefore, LoneNext
    <3> QED
        BY <3>2, <3>3 DEF LoneInv
  <2>2. ASSUME LoneInv, UNCHANGED vars PROVE LoneInv'
      BY <2>2 DEF vars, LoneInv, OthersIdle, Plan, View, ViewOpen, Committed
  <2> QED
      BY <2>1, <2>2
<1>3. CloseInv /\ History /\ LoneInv /\ [Next]_vars
          => [\A b \in Backends :
                 Commit(b) /\ did[b].alone
                     => /\ Open' = {} => session' # "open"
                        /\ did[b].kind = "stop" => Open' = {}
                        /\ did[b].kind = "turn" => \E n \in Roots : Open' \ Children = {n}]_vars
  <2> SUFFICES ASSUME CloseInv, History, LoneInv, NEW b \in Backends, Commit(b), did[b].alone
               PROVE  /\ Open' = {} => session' # "open"
                      /\ did[b].kind = "stop" => Open' = {}
                      /\ did[b].kind = "turn" => \E n \in Roots : Open' \ Children = {n}
      OBVIOUS
  <2>1. did[b].alone = TRUE
    <3>1. did[b].alone \in BOOLEAN
        BY DEF History
    <3> QED
        BY <3>1
  <2> QED
      BY <2>1, LoneCommit
<1>4. Spec => []LoneInv
    BY <1>1, <1>2, HistoryInvariance, PTL DEF Spec
<1> QED
    BY <1>3, <1>4, HistoryInvariance, PTL DEF Spec, LoneTransactionRepairs
=============================================================================
