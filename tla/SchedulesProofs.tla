-------------------------- MODULE SchedulesProofs --------------------------
(* Budgets, firing times and costs of schedules, proved for every instance. *)
EXTENDS Schedules, TLAPS

\* After the sweep fired, next_run_at is the row's interval away from that moment:
\* nothing but the sweep and the creation of the row moves it.
NextAfterSweep ==
    \A s \in Schedule : sched[s].present /\ swept[s].n > 0 =>
        sched[s].next >= swept[s].at + swept[s].gap

ScheduleInv == TypeOK /\ NextAfterSweep

\* The empty tables satisfy the invariant.
LEMMA InitScheduleInv == Init => ScheduleInv
  BY ScheduleAssumption
     DEF Init, ScheduleInv, TypeOK, NextAfterSweep, NoRow, NoRun, NotSwept,
         Row, RunRow

\* A firing leaves a well-typed row that is active only with budget left.
LEMMA FiredRowFacts ==
  ASSUME TypeOK, NEW s \in Schedule, sched[s].present
  PROVE  /\ FiredRow(s) \in Row
         /\ FiredRow(s).present /\ FiredRow(s).interval = sched[s].interval
         /\ FiredRow(s).next = sched[s].next
         /\ FiredRow(s).on => /\ ~RunsOut(FiredRow(s), FiredRow(s).count)
                              /\ ~CostOut(FiredRow(s))
  <1>1. PICK row \in Row : row = sched[s]
    BY DEF TypeOK
  <1>2. PICK b \in BOOLEAN : b = ~Stopped(sched[s], sched[s].count + 1)
    BY DEF Stopped, RunsOut, Ended, CostOut
  <1> DEFINE mid == [row EXCEPT !.count = row.count + 1]
  <1>m. /\ mid \in Row /\ mid.present = row.present /\ mid.interval = row.interval
        /\ mid.next = row.next /\ mid.count = row.count + 1
        /\ mid.maxRuns = row.maxRuns /\ mid.maxCost = row.maxCost /\ mid.spent = row.spent
    BY DEF Row
  <1>3. FiredRow(s) = [mid EXCEPT !.on = b]
    BY <1>1, <1>2 DEF FiredRow, Row
  <1> HIDE DEF mid
  <1>4. /\ FiredRow(s) \in Row
        /\ FiredRow(s).present = row.present
        /\ FiredRow(s).interval = row.interval
        /\ FiredRow(s).next = row.next
    BY <1>3, <1>m DEF Row
  <1>5. /\ FiredRow(s).on = b /\ FiredRow(s).count = row.count + 1
        /\ FiredRow(s).maxRuns = row.maxRuns
        /\ FiredRow(s).maxCost = row.maxCost /\ FiredRow(s).spent = row.spent
    BY <1>3, <1>m DEF Row
  <1>6. b => ~RunsOut(sched[s], sched[s].count + 1) /\ ~CostOut(sched[s])
    BY <1>2 DEF Stopped
  <1>7. FiredRow(s).on => /\ ~RunsOut(FiredRow(s), FiredRow(s).count)
                          /\ ~CostOut(FiredRow(s))
    BY <1>1, <1>5, <1>6 DEF RunsOut, CostOut
  <1>8. FiredRow(s).present
    BY <1>1, <1>4
  <1> QED
    BY <1>1, <1>4, <1>7, <1>8

\* A new session row is well typed.
LEMMA SpawnType ==
  ASSUME TypeOK, NEW s \in Schedule, NEW r \in Run, Spawn(r, s)
  PROVE  runs' \in [Run -> RunRow]
  BY DEF TypeOK, Spawn, NoRun, RunRow

\* An answer's cost leaves a well-typed row that is active only with money
\* left and with as many runs as before.
LEMMA ChargedFacts ==
  ASSUME NEW row \in Row, NEW c \in Nat
  PROVE  /\ Charged(row, c) \in Row
         /\ Charged(row, c).present = row.present
         /\ Charged(row, c).interval = row.interval
         /\ Charged(row, c).next = row.next
         /\ Charged(row, c).count = row.count
         /\ Charged(row, c).maxRuns = row.maxRuns
         /\ Charged(row, c).spent = row.spent + c
         /\ Charged(row, c).on => row.on /\ ~CostOut(Charged(row, c))
  <1> DEFINE new == [row EXCEPT !.spent = row.spent + c]
  <1>1. new \in Row /\ new.on = row.on /\ new.spent = row.spent + c
    BY DEF Row
  <1>2. PICK b \in BOOLEAN : b = (new.on /\ ~CostOut(new))
    OBVIOUS
  <1>3. Charged(row, c) = [new EXCEPT !.on = b]
    BY <1>2 DEF Charged
  <1>4. /\ Charged(row, c) \in Row
        /\ Charged(row, c).present = row.present
        /\ Charged(row, c).interval = row.interval
        /\ Charged(row, c).next = row.next
        /\ Charged(row, c).count = row.count
        /\ Charged(row, c).maxRuns = row.maxRuns
        /\ Charged(row, c).on = b
        /\ Charged(row, c).maxCost = new.maxCost /\ Charged(row, c).spent = new.spent
    BY <1>1, <1>3 DEF Row
  <1>5. b => row.on /\ ~CostOut(new)
    BY <1>1, <1>2
  <1> QED
    BY <1>1, <1>4, <1>5 DEF CostOut

\* Writing one row keeps the invariant when that row satisfies it.
LEMMA RowUpdate ==
  ASSUME ScheduleInv, NEW s \in Schedule, NEW row \in Row,
         sched' = [sched EXCEPT ![s] = row],
         row.present => row.interval \in Intervals,
         row.present /\ swept'[s].n > 0 => row.next >= swept'[s].at + swept'[s].gap,
         swept' \in [Schedule -> [n : Nat, at : Nat, gap : Nat]],
         \A x \in Schedule \ {s} : swept'[x] = swept[x],
         runs' \in [Run -> RunRow], ready' \in [Schedule -> BOOLEAN], now' \in Nat
  PROVE  ScheduleInv'
  <1>1. sched \in [Schedule -> Row]
    BY DEF ScheduleInv, TypeOK
  <1>2. /\ sched' \in [Schedule -> Row] /\ sched'[s] = row
        /\ \A x \in Schedule \ {s} : sched'[x] = sched[x]
    BY <1>1
  <1>3. TypeOK'
    BY <1>2 DEF ScheduleInv, TypeOK
  <1>4. NextAfterSweep'
    BY <1>2 DEF ScheduleInv, NextAfterSweep
  <1> QED
    BY <1>3, <1>4 DEF ScheduleInv

\* Creating, editing, pausing, deleting and firing by hand keep the
\* invariant.
LEMMA OperatorKeepsInv == ScheduleInv /\ OperatorStep => ScheduleInv'
  <1> SUFFICES ASSUME ScheduleInv, OperatorStep PROVE ScheduleInv'
    OBVIOUS
  <1>0. TypeOK
    BY DEF ScheduleInv
  <1>1. ASSUME NEW s \in Schedule, NEW i \in Intervals, NEW mr \in RunLimits \union {NoLimit},
               NEW e \in Dates \union {NoLimit}, NEW mc \in CostLimits \union {NoLimit},
               NEW start \in Dates, CreateSchedule(s, i, mr, e, mc, start)
        PROVE  ScheduleInv'
    <2> DEFINE row == [NoRow EXCEPT !.present = TRUE, !.on = TRUE, !.interval = i,
                          !.next = start, !.maxRuns = mr, !.ends = e, !.maxCost = mc]
    <2>1. /\ row \in Row /\ row.interval = i /\ row.count = 0 /\ row.spent = 0
          /\ row.maxRuns = mr /\ row.maxCost = mc
      BY ScheduleAssumption DEF NoRow, Row
    <2>3. /\ swept' \in [Schedule -> [n : Nat, at : Nat, gap : Nat]] /\ swept'[s].n = 0
          /\ \A x \in Schedule \ {s} : swept'[x] = swept[x]
      BY <1>0, <1>1 DEF CreateSchedule, NotSwept, TypeOK
    <2>4. /\ sched' = [sched EXCEPT ![s] = row]
          /\ runs' \in [Run -> RunRow] /\ ready' \in [Schedule -> BOOLEAN] /\ now' \in Nat
      BY <1>0, <1>1 DEF CreateSchedule, TypeOK
    <2>5. /\ row.present => row.interval \in Intervals
          /\ row.present /\ swept'[s].n > 0
               => row.next >= swept'[s].at + swept'[s].gap
          /\ row \in Row
      BY <2>1, <2>3
    <2> HIDE DEF row
    <2> QED
      BY <2>3, <2>4, <2>5, RowUpdate
  <1>2. ASSUME NEW s \in Schedule, NEW i \in Intervals, NEW on \in BOOLEAN,
               NEW mr \in RunLimits \union {NoLimit}, NEW e \in Dates \union {NoLimit},
               NEW mc \in CostLimits \union {NoLimit}, SetSchedule(s, i, on, mr, e, mc)
        PROVE  ScheduleInv'
    <2>1. PICK old \in Row : old = sched[s]
      BY <1>0 DEF TypeOK
    <2> DEFINE row == [old EXCEPT !.interval = i, !.on = on, !.maxRuns = mr, !.ends = e,
                                  !.maxCost = mc]
    <2>2. row \in Row /\ row.interval = i /\ row.next = old.next /\ row.present = old.present
      BY ScheduleAssumption DEF Row
    <2>3. sched' = [sched EXCEPT ![s] = row]
      BY <1>2, <2>1 DEF SetSchedule
    <2>4. /\ swept' = swept /\ swept \in [Schedule -> [n : Nat, at : Nat, gap : Nat]]
          /\ runs' \in [Run -> RunRow] /\ ready' \in [Schedule -> BOOLEAN] /\ now' \in Nat
      BY <1>0, <1>2 DEF SetSchedule, TypeOK
    <2>5. sched[s].present
      BY <1>2 DEF SetSchedule
    <2>6. swept'[s].n > 0 => row.next >= swept'[s].at + swept'[s].gap
      BY <2>1, <2>2, <2>4, <2>5 DEF ScheduleInv, NextAfterSweep
    <2>7. /\ row.present => row.interval \in Intervals
          /\ row.present /\ swept'[s].n > 0
               => row.next >= swept'[s].at + swept'[s].gap
          /\ row \in Row
      BY <2>2, <2>6
    <2> HIDE DEF row
    <2> QED
      BY <2>3, <2>4, <2>7, RowUpdate
  <1>3. ASSUME NEW s \in Schedule, DeleteSchedule(s)
        PROVE  ScheduleInv'
    <2>1. NoRow \in Row /\ NoRow.present = FALSE /\ NoRow.on = FALSE
      BY DEF NoRow, Row
    <2>2. runs' \in [Run -> RunRow]
      <3>1. ASSUME NEW r \in Run
            PROVE  [runs[r] EXCEPT !.of = NoSchedule] \in RunRow /\ runs[r] \in RunRow
        BY <1>0 DEF TypeOK, RunRow
      <3> QED
        BY <1>3, <3>1 DEF DeleteSchedule
    <2>3. /\ swept' = swept /\ swept \in [Schedule -> [n : Nat, at : Nat, gap : Nat]]
          /\ ready' \in [Schedule -> BOOLEAN] /\ now' \in Nat
          /\ sched' = [sched EXCEPT ![s] = NoRow]
      BY <1>0, <1>3 DEF DeleteSchedule, TypeOK
    <2> QED
      BY <2>1, <2>2, <2>3, RowUpdate
  <1>4. ASSUME NEW s \in Schedule, NEW b \in BOOLEAN, SetReady(s, b)
        PROVE  ScheduleInv'
    BY <1>4 DEF SetReady, ScheduleInv, TypeOK, NextAfterSweep
  <1>5. ASSUME NEW s \in Schedule, NEW r \in Run, RunScheduleNow(s, r)
        PROVE  ScheduleInv'
    <2>1. sched[s].present /\ Spawn(r, s)
      BY <1>5 DEF RunScheduleNow
    <2>2. runs' \in [Run -> RunRow]
      BY <1>0, <2>1, SpawnType
    <2>3. PICK row \in Row : row = FiredRow(s)
      BY <1>0, <2>1, FiredRowFacts
    <2>4. /\ row.present => row.interval \in Intervals
          /\ row.next = sched[s].next
          /\ row.on => ~RunsOut(row, row.count) /\ ~CostOut(row)
      BY <1>0, <2>1, <2>3, FiredRowFacts DEF TypeOK
    <2>5. /\ swept' = swept /\ swept \in [Schedule -> [n : Nat, at : Nat, gap : Nat]]
          /\ ready' \in [Schedule -> BOOLEAN] /\ now' \in Nat
          /\ sched' = [sched EXCEPT ![s] = row]
      BY <1>0, <1>5, <2>3 DEF RunScheduleNow, TypeOK
    <2>6. swept'[s].n > 0 => row.next >= swept'[s].at + swept'[s].gap
      BY <2>1, <2>4, <2>5 DEF ScheduleInv, NextAfterSweep
    <2> QED
      BY <2>2, <2>4, <2>5, <2>6, RowUpdate
  <1> QED
    BY <1>1, <1>2, <1>3, <1>4, <1>5 DEF OperatorStep

\* The sweep keeps the invariant; a firing puts next_run_at an interval
\* after it.
LEMMA SweepKeepsInv ==
  ASSUME ScheduleInv, NEW s \in Schedule, Sweep(s)
  PROVE  ScheduleInv'
  <1>0. TypeOK
    BY DEF ScheduleInv
  <1>1. PICK old \in Row : old = sched[s]
    BY <1>0 DEF TypeOK
  <1>2. sched[s].present /\ old.present /\ old.interval \in Intervals /\ now \in Nat
    BY <1>0, <1>1 DEF Sweep, SweepStops, SweepFails, SweepFires, Due, TypeOK
  <1>3. CASE SweepStops(s)
    <2> DEFINE row == [old EXCEPT !.on = FALSE]
    <2>1. /\ row \in Row /\ row.interval = old.interval /\ row.next = old.next
          /\ row.on = FALSE
      BY DEF Row
    <2>2. /\ sched' = [sched EXCEPT ![s] = row] /\ swept' = swept
          /\ swept \in [Schedule -> [n : Nat, at : Nat, gap : Nat]]
          /\ runs' \in [Run -> RunRow] /\ ready' \in [Schedule -> BOOLEAN] /\ now' \in Nat
      BY <1>0, <1>1, <1>3 DEF SweepStops, TypeOK
    <2>3. /\ row.present => row.interval \in Intervals
      BY <1>2, <2>1
    <2>4. row.present /\ swept'[s].n > 0
               => row.next >= swept'[s].at + swept'[s].gap
      BY <1>1, <1>2, <2>1, <2>2 DEF ScheduleInv, NextAfterSweep
    <2> HIDE DEF row
    <2> QED
      BY <2>1, <2>2, <2>3, <2>4, RowUpdate
  <1>4. CASE SweepFails(s)
    <2> DEFINE row == [old EXCEPT !.next = now + old.interval]
    <2>1. /\ row \in Row /\ row.interval = old.interval /\ row.next = now + old.interval
          /\ row.on = old.on /\ row.count = old.count /\ row.maxRuns = old.maxRuns
          /\ row.spent = old.spent /\ row.maxCost = old.maxCost
      BY <1>2 DEF Row
    <2>2. /\ sched' = [sched EXCEPT ![s] = row] /\ swept' = swept
          /\ swept \in [Schedule -> [n : Nat, at : Nat, gap : Nat]]
          /\ runs' \in [Run -> RunRow] /\ ready' \in [Schedule -> BOOLEAN] /\ now' \in Nat
      BY <1>0, <1>1, <1>4 DEF SweepFails, TypeOK
    <2>3. /\ row.present => row.interval \in Intervals
      BY <1>1, <1>2, <2>1
    <2>4. row.present /\ swept'[s].n > 0
               => row.next >= swept'[s].at + swept'[s].gap
      <3>1. sched[s].next <= now
        BY <1>4 DEF SweepFails, Due
      <3>2. swept[s].n > 0 => sched[s].next >= swept[s].at + swept[s].gap
        BY <1>2 DEF ScheduleInv, NextAfterSweep
      <3>3. row.next >= sched[s].next /\ swept[s].at \in Nat /\ sched[s].next \in Nat
        BY <1>1, <1>2, <2>1, <2>2, <3>1, ScheduleAssumption DEF Row
      <3> QED
        BY <2>1, <2>2, <3>2, <3>3, ScheduleAssumption DEF Row
    <2> HIDE DEF row
    <2> QED
      BY <2>1, <2>2, <2>3, <2>4, RowUpdate
  <1>5. ASSUME NEW r \in Run, SweepFires(s, r)
        PROVE  ScheduleInv'
    <2>1. PICK fired \in Row : fired = FiredRow(s)
      BY <1>0, <1>2, FiredRowFacts
    <2>2. /\ fired.interval \in Intervals
          /\ fired.on => ~RunsOut(fired, fired.count) /\ ~CostOut(fired)
      BY <1>0, <1>1, <1>2, <2>1, FiredRowFacts
    <2> DEFINE row == [fired EXCEPT !.next = now + old.interval]
    <2>3. /\ row \in Row /\ row.interval = fired.interval /\ row.next = now + old.interval
          /\ row.on = fired.on /\ row.count = fired.count /\ row.maxRuns = fired.maxRuns
          /\ row.spent = fired.spent /\ row.maxCost = fired.maxCost
      BY <1>2 DEF Row
    <2>4. runs' \in [Run -> RunRow]
      BY <1>0, <1>5, SpawnType DEF SweepFires
    <2>5. /\ sched' = [sched EXCEPT ![s] = row]
          /\ ready' \in [Schedule -> BOOLEAN] /\ now' \in Nat
      BY <1>0, <1>1, <1>5, <2>1 DEF SweepFires, TypeOK
    <2>6. /\ swept' \in [Schedule -> [n : Nat, at : Nat, gap : Nat]]
          /\ swept'[s].at = now /\ swept'[s].gap = old.interval
          /\ \A x \in Schedule \ {s} : swept'[x] = swept[x]
      BY <1>0, <1>1, <1>2, <1>5, ScheduleAssumption DEF SweepFires, TypeOK
    <2>7. /\ row.present => row.interval \in Intervals
      BY <2>2, <2>3
    <2>8. row.next >= swept'[s].at + swept'[s].gap
      BY <1>2, <2>3, <2>6, ScheduleAssumption
    <2> HIDE DEF row
    <2> QED
      BY <2>3, <2>4, <2>5, <2>6, <2>7, <2>8, RowUpdate
  <1> QED
    BY <1>3, <1>4, <1>5 DEF Sweep

\* An answer's cost goes to one row or to none.
LEMMA AnswerKeepsInv ==
  ASSUME ScheduleInv, NEW r \in Run, NEW c \in Costs \union {NoLimit}, Answer(r, c)
  PROVE  ScheduleInv'
  <1>0. TypeOK
    BY DEF ScheduleInv
  <1>1. /\ swept' = swept /\ swept \in [Schedule -> [n : Nat, at : Nat, gap : Nat]]
        /\ ready' \in [Schedule -> BOOLEAN] /\ now' \in Nat
    BY <1>0 DEF Answer, TypeOK
  <1>2. runs' \in [Run -> RunRow]
    <2>1. PICK k \in Nat : k = IF c = NoLimit THEN runs[r].cost ELSE runs[r].cost + c
      BY <1>0, ScheduleAssumption DEF TypeOK, RunRow
    <2>2. PICK g \in RunRow : g = runs[r]
      BY <1>0 DEF TypeOK
    <2> DEFINE h == [g EXCEPT !.answers = g.answers + 1]
    <2>h. h \in RunRow
      BY DEF RunRow
    <2>4. runs' = [runs EXCEPT ![r] = [h EXCEPT !.cost = k]]
      BY <2>1, <2>2 DEF Answer, RunRow
    <2> HIDE DEF h
    <2>3. [h EXCEPT !.cost = k] \in RunRow
      BY <2>h DEF RunRow
    <2> QED
      BY <1>0, <2>3, <2>4 DEF TypeOK
  <1>3. CASE c = NoLimit \/ runs[r].of = NoSchedule
    <2>1. sched' = sched
      BY <1>3 DEF Answer
    <2> QED
      BY <1>1, <1>2, <2>1
         DEF ScheduleInv, TypeOK, NextAfterSweep
  <1>4. CASE ~(c = NoLimit \/ runs[r].of = NoSchedule)
    <2>1. c \in Nat /\ runs[r].of \in Schedule
      BY <1>0, <1>4, ScheduleAssumption DEF TypeOK, RunRow
    <2>2. PICK s \in Schedule : s = runs[r].of
      BY <2>1
    <2>3. PICK old \in Row : old = sched[s]
      BY <1>0 DEF TypeOK
    <2>4. PICK row \in Row : row = Charged(old, c)
      BY <2>1, ChargedFacts
    <2>5. /\ row.present = old.present /\ row.interval = old.interval /\ row.next = old.next
          /\ row.count = old.count /\ row.maxRuns = old.maxRuns
          /\ row.on => old.on /\ ~CostOut(row)
      BY <2>1, <2>4, ChargedFacts
    <2>6. sched' = [sched EXCEPT ![s] = row]
      BY <1>4, <2>2, <2>3, <2>4 DEF Answer
    <2>7. row.present => row.interval \in Intervals
      BY <1>0, <2>3, <2>5 DEF TypeOK
    <2>8. row.present /\ swept'[s].n > 0
               => row.next >= swept'[s].at + swept'[s].gap
      BY <1>1, <2>3, <2>5 DEF ScheduleInv, NextAfterSweep
    <2> QED
      BY <1>1, <1>2, <2>6, <2>7, <2>8, RowUpdate
  <1> QED
    BY <1>3, <1>4

\* Every step keeps the invariant.
LEMMA NextKeepsInv == ScheduleInv /\ [Next]_vars => ScheduleInv'
  <1> SUFFICES ASSUME ScheduleInv, [Next]_vars PROVE ScheduleInv'
    OBVIOUS
  <1>1. CASE Tick
    BY <1>1 DEF Tick, ScheduleInv, TypeOK, NextAfterSweep
  <1>2. CASE UNCHANGED vars
    BY <1>2 DEF vars, ScheduleInv, TypeOK, NextAfterSweep
  <1> QED
    BY <1>1, <1>2, OperatorKeepsInv, SweepKeepsInv, AnswerKeepsInv
       DEF Next, PumpStep, WorkerStep

\* The invariant holds in every reachable state.
THEOREM ScheduleInvHolds == Spec => []ScheduleInv
  BY InitScheduleInv, NextKeepsInv, PTL DEF Spec

\* A step that leaves the limits of an active row with budget alone leaves
\* it with budget or switches it off.
LEMMA StepActiveHasBudget ==
  ASSUME ScheduleInv, [Next]_vars, NEW s \in Schedule,
         sched[s].on, HasBudget(sched[s]),
         sched'[s].maxRuns = sched[s].maxRuns, sched'[s].maxCost = sched[s].maxCost,
         sched'[s].on
  PROVE  HasBudget(sched'[s])
  <1>0. TypeOK /\ sched \in [Schedule -> Row]
    BY DEF ScheduleInv, TypeOK
  <1>1. PICK old \in Row : old = sched[s]
    BY <1>0
  <1>2. sched'[s].count = old.count /\ sched'[s].spent = old.spent => HasBudget(sched'[s])
    BY <1>1 DEF HasBudget, RunsOut, CostOut
  <1>3. ASSUME NEW x \in Schedule, NEW i \in Intervals, NEW mr \in RunLimits \union {NoLimit},
               NEW e \in Dates \union {NoLimit}, NEW mc \in CostLimits \union {NoLimit},
               NEW start \in Dates, CreateSchedule(x, i, mr, e, mc, start)
        PROVE  HasBudget(sched'[s])
    <2>1. CASE x = s
      <3> DEFINE row == [NoRow EXCEPT !.present = TRUE, !.on = TRUE, !.interval = i,
                            !.next = start, !.maxRuns = mr, !.ends = e, !.maxCost = mc]
      <3>1. row.count = 0 /\ row.spent = 0 /\ row.maxRuns = mr /\ row.maxCost = mc
        BY DEF NoRow
      <3>2. sched'[s] = row
        BY <1>0, <1>3, <2>1 DEF CreateSchedule
      <3>3. /\ mr # NoLimit => mr \in Nat /\ mr > 0
            /\ mc # NoLimit => mc \in Nat /\ mc > 0
        BY ScheduleAssumption
      <3> HIDE DEF row
      <3> QED
        BY <3>1, <3>2, <3>3 DEF HasBudget, RunsOut, CostOut
    <2> QED
      BY <1>0, <1>1, <1>2, <1>3, <2>1 DEF CreateSchedule
  <1>4. ASSUME NEW x \in Schedule, NEW i \in Intervals, NEW on \in BOOLEAN,
               NEW mr \in RunLimits \union {NoLimit}, NEW e \in Dates \union {NoLimit},
               NEW mc \in CostLimits \union {NoLimit}, SetSchedule(x, i, on, mr, e, mc)
        PROVE  HasBudget(sched'[s])
    BY <1>0, <1>1, <1>2, <1>4 DEF SetSchedule, Row
  <1>5. ASSUME NEW x \in Schedule, DeleteSchedule(x)
        PROVE  HasBudget(sched'[s])
    BY <1>0, <1>1, <1>2, <1>5 DEF DeleteSchedule, NoRow
  <1>6. ASSUME NEW x \in Schedule, SweepStops(x) \/ SweepFails(x)
        PROVE  HasBudget(sched'[s])
    BY <1>0, <1>1, <1>2, <1>6 DEF SweepStops, SweepFails, Row
  <1>7. ASSUME NEW x \in Schedule, NEW r \in Run, RunScheduleNow(x, r) \/ SweepFires(x, r)
        PROVE  HasBudget(sched'[s])
    <2>0. sched[x].present
      BY <1>7 DEF RunScheduleNow, SweepFires, Due
    <2>1. PICK fired \in Row : fired = FiredRow(x)
      BY <1>0, <2>0, FiredRowFacts
    <2>2. fired.on => HasBudget(fired)
      BY <1>0, <2>0, <2>1, FiredRowFacts DEF HasBudget
    <2>3. CASE x = s
      <3>1. /\ sched'[s].on = fired.on /\ sched'[s].count = fired.count
            /\ sched'[s].spent = fired.spent /\ sched'[s].maxRuns = fired.maxRuns
            /\ sched'[s].maxCost = fired.maxCost
        <4>1. \/ sched'[s] = fired
              \/ sched'[s] = [fired EXCEPT !.next = now + sched[s].interval]
          BY <1>0, <1>7, <2>1, <2>3 DEF RunScheduleNow, SweepFires
        <4> QED
          BY <4>1 DEF Row
      <3> QED
        BY <2>2, <3>1 DEF HasBudget, RunsOut, CostOut
    <2> QED
      BY <1>0, <1>1, <1>2, <1>7, <2>3 DEF RunScheduleNow, SweepFires
  <1>8. ASSUME NEW r \in Run, NEW c \in Costs \union {NoLimit}, Answer(r, c)
        PROVE  HasBudget(sched'[s])
    <2>1. CASE c = NoLimit \/ runs[r].of = NoSchedule \/ runs[r].of # s
      BY <1>0, <1>1, <1>2, <1>8, <2>1 DEF Answer
    <2>2. CASE c # NoLimit /\ runs[r].of = s
      <3>1. c \in Nat /\ sched'[s] = Charged(old, c)
        BY <1>0, <1>1, <1>8, <2>2, ScheduleAssumption DEF Answer
      <3>2. /\ Charged(old, c).count = old.count /\ Charged(old, c).maxRuns = old.maxRuns
            /\ Charged(old, c).on => ~CostOut(Charged(old, c))
        BY <3>1, ChargedFacts
      <3> QED
        BY <1>1, <3>1, <3>2 DEF HasBudget, RunsOut
    <2> QED
      BY <1>0, <2>1, <2>2
  <1>9. CASE Tick \/ UNCHANGED vars \/ \E x \in Schedule, b \in BOOLEAN : SetReady(x, b)
    BY <1>1, <1>2, <1>9 DEF Tick, vars, SetReady
  <1> QED
    BY <1>3, <1>4, <1>5, <1>6, <1>7, <1>8, <1>9
       DEF Next, OperatorStep, PumpStep, Sweep, WorkerStep

\* An active schedule keeps runs and money left until an edit changes its
\* limits: both budgets switch it off in the transaction that exhausts them.
THEOREM BudgetsHold == Spec => ActiveHasBudget
  <1>1. ScheduleInv /\ [Next]_vars =>
          [\A s \in Schedule :
              /\ sched[s].on /\ HasBudget(sched[s])
              /\ sched'[s].maxRuns = sched[s].maxRuns /\ sched'[s].maxCost = sched[s].maxCost
              => (sched'[s].on => HasBudget(sched'[s]))]_vars
    BY StepActiveHasBudget
  <1> QED
    BY <1>1, ScheduleInvHolds, PTL DEF Spec, ActiveHasBudget

\* Only the two firing actions add to run_count, and both have checked the
\* stop conditions on the row they fire.
LEMMA StepNoRunPastLimit ==
  ASSUME ScheduleInv, [Next]_vars, NEW s \in Schedule, sched'[s].count > sched[s].count
  PROVE  ~RunsOut(sched[s], sched[s].count) /\ ~Ended(sched[s]) /\ ~CostOut(sched[s])
  <1>0. /\ TypeOK /\ sched \in [Schedule -> Row]
        /\ \A x \in Schedule : sched[x].count \in Nat
    BY DEF ScheduleInv, TypeOK, Row
  <1>1. ASSUME NEW x \in Schedule, NEW r \in Run, RunScheduleNow(x, r) \/ SweepFires(x, r)
        PROVE  x = s
    BY <1>0, <1>1 DEF RunScheduleNow, SweepFires
  <1>2. ASSUME NEW x \in Schedule, NEW i \in Intervals, NEW mr \in RunLimits \union {NoLimit},
               NEW e \in Dates \union {NoLimit}, NEW mc \in CostLimits \union {NoLimit},
               NEW start \in Dates, CreateSchedule(x, i, mr, e, mc, start)
        PROVE  FALSE
    BY <1>0, <1>2 DEF CreateSchedule, NoRow
  <1>3. ASSUME NEW x \in Schedule, NEW i \in Intervals, NEW on \in BOOLEAN,
               NEW mr \in RunLimits \union {NoLimit}, NEW e \in Dates \union {NoLimit},
               NEW mc \in CostLimits \union {NoLimit}, SetSchedule(x, i, on, mr, e, mc)
        PROVE  FALSE
    BY <1>0, <1>3 DEF SetSchedule, Row
  <1>4. ASSUME NEW x \in Schedule,
               DeleteSchedule(x) \/ SweepStops(x) \/ SweepFails(x)
        PROVE  FALSE
    BY <1>0, <1>4 DEF DeleteSchedule, SweepStops, SweepFails, NoRow, Row
  <1>5. ASSUME NEW r \in Run, NEW c \in Costs \union {NoLimit}, Answer(r, c)
        PROVE  FALSE
    <2>1. CASE c = NoLimit \/ runs[r].of = NoSchedule
      BY <1>0, <1>5, <2>1 DEF Answer
    <2>2. CASE ~(c = NoLimit \/ runs[r].of = NoSchedule)
      <3>1. c \in Nat /\ runs[r].of \in Schedule
        BY <1>0, <2>2, ScheduleAssumption DEF TypeOK, RunRow
      <3>2. Charged(sched[runs[r].of], c).count = sched[runs[r].of].count
        BY <1>0, <3>1, ChargedFacts
      <3> QED
        BY <1>0, <1>5, <2>2, <3>1, <3>2 DEF Answer
    <2> QED
      BY <2>1, <2>2
  <1>6. CASE Tick \/ UNCHANGED vars \/ \E x \in Schedule, b \in BOOLEAN : SetReady(x, b)
    BY <1>0, <1>6 DEF Tick, vars, SetReady
  <1>7. ASSUME NEW r \in Run, RunScheduleNow(s, r) \/ SweepFires(s, r)
        PROVE  ~Stopped(sched[s], sched[s].count)
    BY <1>7 DEF RunScheduleNow, SweepFires
  <1> QED
    BY <1>1, <1>2, <1>3, <1>4, <1>5, <1>6, <1>7, ScheduleAssumption
       DEF Next, OperatorStep, PumpStep, Sweep, WorkerStep, Stopped

\* No run starts past a stop condition, by the sweep or by hand.
THEOREM NeverRunsPastLimit == Spec => NoRunPastLimit
  <1>1. ScheduleInv /\ [Next]_vars =>
          [\A s \in Schedule : sched'[s].count > sched[s].count =>
              /\ ~RunsOut(sched[s], sched[s].count)
              /\ ~Ended(sched[s]) /\ ~CostOut(sched[s])]_vars
    BY StepNoRunPastLimit
  <1> QED
    BY <1>1, ScheduleInvHolds, PTL DEF Spec, NoRunPastLimit

\* Only the sweep's firing moves the observed time, and only when the row is
\* due.
LEMMA StepNoBurst ==
  ASSUME ScheduleInv, [Next]_vars, NEW s \in Schedule, swept'[s].n > swept[s].n, swept[s].n > 0
  PROVE  swept'[s].at >= swept[s].at + swept[s].gap
  <1>0. /\ swept \in [Schedule -> [n : Nat, at : Nat, gap : Nat]]
        /\ sched[s].next \in Nat /\ now \in Nat
    BY DEF ScheduleInv, TypeOK, Row
  <1>1. PICK r \in Run : SweepFires(s, r)
    <2>1. swept' # swept
      BY <1>0
    <2>2. ASSUME NEW x \in Schedule, swept' = [swept EXCEPT ![x] = NotSwept]
          PROVE  FALSE
      BY <1>0, <2>2 DEF NotSwept
    <2>3. ASSUME NEW x \in Schedule, NEW r \in Run, SweepFires(x, r)
          PROVE  x = s
      BY <1>0, <2>3 DEF SweepFires
    <2> QED
      BY <2>1, <2>2, <2>3
         DEF Next, OperatorStep, PumpStep, Sweep, WorkerStep, CreateSchedule, SetSchedule,
             DeleteSchedule, SetReady, RunScheduleNow, SweepStops, SweepFails, Answer, Tick, vars
  <1>2. swept'[s].at = now /\ sched[s].present /\ sched[s].next <= now
    BY <1>0, <1>1 DEF SweepFires, Due
  <1>3. sched[s].next >= swept[s].at + swept[s].gap
    BY <1>2 DEF ScheduleInv, NextAfterSweep
  <1> QED
    BY <1>0, <1>2, <1>3, ScheduleAssumption

\* Two firings of the sweep are the row's interval apart: no burst after
\* downtime.
THEOREM NeverBursts == Spec => NoBurst
  <1>1. ScheduleInv /\ [Next]_vars =>
          [\A s \in Schedule : swept'[s].n > swept[s].n /\ swept[s].n > 0
              => swept'[s].at >= swept[s].at + swept[s].gap]_vars
    BY StepNoBurst
  <1> QED
    BY <1>1, ScheduleInvHolds, PTL DEF Spec, NoBurst

-----------------------------------------------------------------------------
(* The sum of a set of sessions' costs.  MapThenSumSet takes the elements in *)
(* an order of its own; that the order is of no matter is an induction over  *)
(* finite sets, each done on a least counterexample.                         *)
INSTANCE FiniteSetTheorems

\* The order in which the fold takes the elements of a set, and a function that
\* satisfies its recursion.
Pick(s) == CHOOSE x \in s : TRUE
Adds(g, rows, S) ==
    g = [s \in SUBSET S |-> IF s = {} THEN 0 ELSE rows[Pick(s)].cost + g[s \ {Pick(s)}]]

\* Of the sets with a property one is least: it has no proper subset among them.
LEMMA LeastSet ==
  ASSUME NEW S, IsFiniteSet(S), NEW Bad \in SUBSET (SUBSET S), Bad # {}
  PROVE  \E T \in Bad : \A U \in Bad : U \subseteq T => U = T
  <1> DEFINE N == {Cardinality(T) : T \in Bad}
  <1>1. \A T \in Bad : IsFiniteSet(T) /\ Cardinality(T) \in Nat
    BY FS_Subset, FS_CardinalityType
  <1>2. N \subseteq Nat /\ N # {}
    BY <1>1
  <1> HIDE DEF N
  <1>3. PICK n \in N : \A m \in N : ~(<<m, n>> \in OpToRel(<, Nat))
    BY <1>2, NatLessThanWellFounded, WFMin
  <1>4. \A m \in N : ~(m < n)
    BY <1>2, <1>3 DEF OpToRel
  <1>5. PICK T \in Bad : n = Cardinality(T)
    BY <1>3 DEF N
  <1>6. ASSUME NEW U \in Bad, U \subseteq T, U # T PROVE FALSE
    <2>1. Cardinality(U) < Cardinality(T)
      BY <1>1, <1>6, FS_Subset
    <2> QED
      BY <1>4, <1>5, <2>1 DEF N
  <1> QED
    BY <1>6

\* The fold is the recursion's value, where the recursion has a solution.
LEMMA CostUnfolds ==
  ASSUME NEW rows, NEW S, \E g : Adds(g, rows, S)
  PROVE  \E g : Adds(g, rows, S) /\ CostOf(rows, S) = g[S]
  <1> DEFINE it == CHOOSE g : Adds(g, rows, S)
  <1>1. Adds(it, rows, S)
    OBVIOUS
  <1>2. CostOf(rows, S) = it[S]
    BY DEF CostOf, MapThenSumSet, MapThenFoldSet, Adds, Pick
  <1> QED
    BY <1>1, <1>2

\* Solutions agree wherever both are defined.
LEMMA CostUnique ==
  ASSUME NEW rows, NEW S, IsFiniteSet(S), NEW g, Adds(g, rows, S), NEW T, NEW h, Adds(h, rows, T)
  PROVE  \A U \in SUBSET S : U \in SUBSET T => g[U] = h[U]
  <1> DEFINE Bad == {U \in SUBSET S : U \in SUBSET T /\ g[U] # h[U]}
  <1> SUFFICES ASSUME Bad # {} PROVE FALSE
    OBVIOUS
  <1>0. Bad \in SUBSET (SUBSET S)
    OBVIOUS
  <1> HIDE DEF Bad
  <1>1. PICK U \in Bad : \A V \in Bad : V \subseteq U => V = U
    BY <1>0, LeastSet
  <1> USE DEF Bad
  <1>2. U # {}
    BY <1>1 DEF Adds
  <1>3. PICK p \in U : p = Pick(U)
    BY <1>2 DEF Pick
  <1>4. g[U \ {p}] = h[U \ {p}]
    BY <1>1, <1>3
  <1>5. g[U] = rows[p].cost + g[U \ {p}] /\ h[U] = rows[p].cost + h[U \ {p}]
    BY <1>1, <1>2, <1>3 DEF Adds
  <1> QED
    BY <1>1, <1>4, <1>5

\* The recursion equation of the fold, on a set whose subsets have solutions.
LEMMA CostEquation ==
  ASSUME NEW rows, NEW S, IsFiniteSet(S), \A T \in SUBSET S : \E g : Adds(g, rows, T)
  PROVE  CostOf(rows, S) = IF S = {} THEN 0
                         ELSE rows[Pick(S)].cost + CostOf(rows, S \ {Pick(S)})
  <1>1. PICK g : Adds(g, rows, S) /\ CostOf(rows, S) = g[S]
    BY CostUnfolds
  <1>2. CASE S = {}
    BY <1>1, <1>2 DEF Adds
  <1>3. CASE S # {}
    <2>1. PICK T \in SUBSET S : T = S \ {Pick(S)}
      OBVIOUS
    <2>2. PICK h : Adds(h, rows, T) /\ CostOf(rows, T) = h[T]
      BY CostUnfolds
    <2>3. g[T] = h[T]
      BY <1>1, <2>2, CostUnique
    <2>4. g[S] = rows[Pick(S)].cost + g[T]
      BY <1>1, <1>3, <2>1 DEF Adds
    <2> QED
      BY <1>1, <1>3, <2>1, <2>2, <2>3, <2>4
  <1> QED
    BY <1>2, <1>3

\* The recursion has a solution on every finite set.
LEMMA CostExists ==
  ASSUME NEW rows, NEW S, IsFiniteSet(S)
  PROVE  \A T \in SUBSET S : \E g : Adds(g, rows, T)
  <1> DEFINE Bad == {T \in SUBSET S : ~\E g : Adds(g, rows, T)}
  <1> SUFFICES ASSUME Bad # {} PROVE FALSE
    OBVIOUS
  <1>0. Bad \in SUBSET (SUBSET S)
    OBVIOUS
  <1> HIDE DEF Bad
  <1>1. PICK T \in Bad : \A U \in Bad : U \subseteq T => U = T
    BY <1>0, LeastSet
  <1> USE DEF Bad
  <1>2. \A U \in SUBSET T : U # T => \E g : Adds(g, rows, U)
    BY <1>1
  <1>3. ASSUME NEW U \in SUBSET T, U # T
        PROVE  CostOf(rows, U) = IF U = {} THEN 0
                               ELSE rows[Pick(U)].cost + CostOf(rows, U \ {Pick(U)})
    <2>1. IsFiniteSet(U)
      BY FS_Subset
    <2>2. \A V \in SUBSET U : \E g : Adds(g, rows, V)
      BY <1>2, <1>3
    <2> QED
      BY <2>1, <2>2, CostEquation
  <1> DEFINE whole == IF T = {} THEN 0 ELSE rows[Pick(T)].cost + CostOf(rows, T \ {Pick(T)})
             g == [U \in SUBSET T |-> IF U = T THEN whole ELSE CostOf(rows, U)]
  <1>4. ASSUME NEW U \in SUBSET T
        PROVE  g[U] = IF U = {} THEN 0 ELSE rows[Pick(U)].cost + g[U \ {Pick(U)}]
    <2>1. U # {} => Pick(U) \in U
      BY DEF Pick
    <2>2. U # {} => U \ {Pick(U)} # T /\ U \ {Pick(U)} \in SUBSET T
      BY <2>1
    <2>3. U # {} => g[U \ {Pick(U)}] = CostOf(rows, U \ {Pick(U)})
      BY <2>2
    <2>4. CASE U = T
      BY <2>3, <2>4
    <2>5. CASE U # T
      BY <1>3, <2>3, <2>5
    <2> QED
      BY <2>4, <2>5
  <1>5. Adds(g, rows, T)
    <2> DEFINE f == [U \in SUBSET T |-> IF U = {} THEN 0 ELSE rows[Pick(U)].cost + g[U \ {Pick(U)}]]
    <2>1. \A U \in SUBSET T : f[U] = g[U]
      BY <1>4
    <2>2. f = g
      BY <2>1
    <2> QED
      BY <2>2 DEF Adds
  <1> QED
    BY <1>1, <1>5

\* What the sum of a finite set of runs is made of.
LEMMA CostStep ==
  ASSUME NEW rows, NEW S, IsFiniteSet(S)
  PROVE  CostOf(rows, S) = IF S = {} THEN 0
                         ELSE rows[Pick(S)].cost + CostOf(rows, S \ {Pick(S)})
  BY CostExists, CostEquation

\* No runs cost nothing.
LEMMA CostOfNone == ASSUME NEW rows PROVE CostOf(rows, {}) = 0
  BY CostStep, FS_EmptySet

\* Two tables that charge the same for the runs of a set have the same sum.
LEMMA CostSame ==
  ASSUME NEW rows, NEW other, NEW S, IsFiniteSet(S), \A r \in S : rows[r].cost = other[r].cost
  PROVE  CostOf(rows, S) = CostOf(other, S)
  <1> DEFINE Bad == {T \in SUBSET S : CostOf(rows, T) # CostOf(other, T)}
  <1> SUFFICES ASSUME Bad # {} PROVE FALSE
    OBVIOUS
  <1>0. Bad \in SUBSET (SUBSET S)
    OBVIOUS
  <1> HIDE DEF Bad
  <1>1. PICK T \in Bad : \A U \in Bad : U \subseteq T => U = T
    BY <1>0, LeastSet
  <1>2. T \in SUBSET S /\ IsFiniteSet(T) /\ CostOf(rows, T) # CostOf(other, T)
    BY <1>1, FS_Subset DEF Bad
  <1>3. T # {}
    BY <1>2, CostOfNone
  <1>4. PICK p \in T : p = Pick(T)
    BY <1>3 DEF Pick
  <1>5. CostOf(rows, T \ {p}) = CostOf(other, T \ {p})
    BY <1>1, <1>2, <1>4 DEF Bad
  <1>6. /\ CostOf(rows, T) = rows[p].cost + CostOf(rows, T \ {p})
        /\ CostOf(other, T) = other[p].cost + CostOf(other, T \ {p})
    BY <1>2, <1>3, <1>4, CostStep
  <1>7. rows[p].cost = other[p].cost
    BY <1>2, <1>4
  <1> QED
    BY <1>2, <1>5, <1>6, <1>7

\* The sum of costs is a cost.
LEMMA CostType ==
  ASSUME NEW rows, NEW S, IsFiniteSet(S), \A r \in S : rows[r].cost \in Nat
  PROVE  CostOf(rows, S) \in Nat
  <1> DEFINE Bad == {T \in SUBSET S : CostOf(rows, T) \notin Nat}
  <1> SUFFICES ASSUME Bad # {} PROVE FALSE
    OBVIOUS
  <1>0. Bad \in SUBSET (SUBSET S)
    OBVIOUS
  <1> HIDE DEF Bad
  <1>1. PICK T \in Bad : \A U \in Bad : U \subseteq T => U = T
    BY <1>0, LeastSet
  <1>2. T \in SUBSET S /\ IsFiniteSet(T) /\ CostOf(rows, T) \notin Nat
    BY <1>1, FS_Subset DEF Bad
  <1>3. T # {}
    BY <1>2, CostOfNone
  <1>4. PICK p \in T : p = Pick(T)
    BY <1>3 DEF Pick
  <1>5. CostOf(rows, T \ {p}) \in Nat /\ rows[p].cost \in Nat
    BY <1>1, <1>2, <1>4 DEF Bad
  <1>6. CostOf(rows, T) = rows[p].cost + CostOf(rows, T \ {p})
    BY <1>2, <1>3, <1>4, CostStep
  <1> QED
    BY <1>2, <1>5, <1>6

\* Any run can be taken out of the sum, whatever the order of the fold.
LEMMA CostSplits ==
  ASSUME NEW rows, NEW S, IsFiniteSet(S), \A r \in S : rows[r].cost \in Nat, NEW x \in S
  PROVE  CostOf(rows, S) = rows[x].cost + CostOf(rows, S \ {x})
  <1> DEFINE Bad == {T \in SUBSET S : \E y \in T : CostOf(rows, T) # rows[y].cost + CostOf(rows, T \ {y})}
  <1> SUFFICES ASSUME Bad # {} PROVE FALSE
    OBVIOUS
  <1>0. Bad \in SUBSET (SUBSET S)
    OBVIOUS
  <1> HIDE DEF Bad
  <1>1. PICK T \in Bad : \A U \in Bad : U \subseteq T => U = T
    BY <1>0, LeastSet
  <1>2. T \in SUBSET S /\ IsFiniteSet(T)
    BY <1>1, FS_Subset DEF Bad
  <1>3. PICK y \in T : CostOf(rows, T) # rows[y].cost + CostOf(rows, T \ {y})
    BY <1>1 DEF Bad
  <1>4. PICK p \in T : p = Pick(T)
    BY <1>3 DEF Pick
  <1>5. CostOf(rows, T) = rows[p].cost + CostOf(rows, T \ {p})
    BY <1>2, <1>4, CostStep
  <1>6. p # y
    BY <1>3, <1>5
  <1>7. T \ {p} \notin Bad /\ T \ {y} \notin Bad
    BY <1>1, <1>3, <1>4
  <1>8. PICK U : U = (T \ {p}) \ {y} /\ U = (T \ {y}) \ {p}
    OBVIOUS
  <1>9. CostOf(rows, T \ {p}) = rows[y].cost + CostOf(rows, U)
    BY <1>2, <1>3, <1>6, <1>7, <1>8 DEF Bad
  <1>10. CostOf(rows, T \ {y}) = rows[p].cost + CostOf(rows, U)
    BY <1>2, <1>4, <1>6, <1>7, <1>8 DEF Bad
  <1>11. CostOf(rows, U) \in Nat /\ rows[p].cost \in Nat /\ rows[y].cost \in Nat
    <2>1. IsFiniteSet(U) /\ \A r \in U : rows[r].cost \in Nat
      BY <1>2, <1>8, FS_Subset
    <2> QED
      BY <1>2, <2>1, CostType
  <1>12. CostOf(rows, T) = rows[p].cost + (rows[y].cost + CostOf(rows, U))
    BY <1>5, <1>9
  <1>13. CostOf(rows, T) # rows[y].cost + (rows[p].cost + CostOf(rows, U))
    BY <1>3, <1>10
  <1> QED
    BY <1>11, <1>12, <1>13

-----------------------------------------------------------------------------
\* The sessions of a schedule.
RunsOf(s) == {r \in Run : runs[r].of = s}

\* The inductive invariant of CostConserved: it also holds of a schedule that
\* is not there, whose total is zero and which has no session.
CostInv ==
    /\ \A r \in Run : ~runs[r].present => runs[r].of = NoSchedule
    /\ \A r \in Run : runs[r].of \in Schedule => sched[runs[r].of].present
    /\ \A s \in Schedule : ~sched[s].present => sched[s].spent = 0
    /\ \A s \in Schedule : sched[s].spent = CostOf(runs, RunsOf(s))

\* A step that writes neither a cost nor what a session belongs to.
LEMMA CostRests ==
  ASSUME CostInv, UNCHANGED runs,
         \A s \in Schedule : /\ sched'[s].spent = sched[s].spent
                             /\ sched[s].present => sched'[s].present
  PROVE  CostInv'
  BY DEF CostInv, RunsOf

\* A new session has cost nothing.
LEMMA CostSpawns ==
  ASSUME ScheduleInv, CostInv, NEW s \in Schedule, NEW r \in Run, NextRun(r), Spawn(r, s),
         sched[s].present,
         \A x \in Schedule : sched'[x].spent = sched[x].spent /\ sched'[x].present = sched[x].present
  PROVE  CostInv'
  <1>1. /\ runs'[r].of = s /\ runs'[r].cost = 0 /\ runs'[r].present
        /\ runs \in [Run -> RunRow] /\ \A q \in Run \ {r} : runs'[q] = runs[q]
    BY DEF Spawn, NoRun, ScheduleInv, TypeOK
  <1>2. runs[r].of = NoSchedule
    BY DEF NextRun, CostInv
  <1>3. ASSUME NEW x \in Schedule PROVE sched'[x].spent = CostOf(runs', RunsOf(x)')
    <2>1. IsFiniteSet(RunsOf(x)) /\ IsFiniteSet(RunsOf(x)')
      BY ScheduleAssumption, FS_Subset DEF RunsOf
    <2>2. CostOf(runs', RunsOf(x)) = CostOf(runs, RunsOf(x))
      <3>1. \A q \in RunsOf(x) : runs'[q].cost = runs[q].cost
        BY <1>1, <1>2, ScheduleAssumption DEF RunsOf
      <3> QED
        BY <2>1, <3>1, CostSame
    <2>3. CASE x # s
      <3>1. RunsOf(x)' = RunsOf(x)
        BY <1>1, <1>2, <2>3, ScheduleAssumption DEF RunsOf
      <3> QED
        BY <2>2, <3>1 DEF CostInv
    <2>4. CASE x = s
      <3>1. r \in RunsOf(x)' /\ RunsOf(x)' \ {r} = RunsOf(x)
        BY <1>1, <1>2, <2>4, ScheduleAssumption DEF RunsOf
      <3>2. \A q \in RunsOf(x)' : runs'[q].cost \in Nat
        BY <1>1 DEF RunsOf, RunRow
      <3>3. CostOf(runs', RunsOf(x)') = runs'[r].cost + CostOf(runs', RunsOf(x))
        <4>1. PICK new, old : new = RunsOf(x)' /\ old = RunsOf(x)
          OBVIOUS
        <4>2. CostOf(runs', new) = runs'[r].cost + CostOf(runs', new \ {r})
          BY <2>1, <3>1, <3>2, <4>1, CostSplits
        <4> QED
          BY <3>1, <4>1, <4>2
      <3>4. CostOf(runs', RunsOf(x)) \in Nat
        BY <2>1, <3>1, <3>2, CostType
      <3> QED
        BY <1>1, <2>2, <3>1, <3>3, <3>4 DEF CostInv
    <2> QED
      BY <2>3, <2>4
  <1> QED
    BY <1>1, <1>3 DEF CostInv

\* A deleted schedule has no sessions, and they leave no other.
LEMMA CostDeletes ==
  ASSUME ScheduleInv, CostInv, NEW s \in Schedule, DeleteSchedule(s)
  PROVE  CostInv'
  <1>1. \A r \in Run : /\ runs'[r].cost = runs[r].cost /\ runs'[r].present = runs[r].present
                       /\ runs'[r].of = IF runs[r].of = s THEN NoSchedule ELSE runs[r].of
    BY DEF DeleteSchedule, ScheduleInv, TypeOK, RunRow
  <1>2. /\ ~sched'[s].present /\ sched'[s].spent = 0
        /\ \A x \in Schedule \ {s} : sched'[x] = sched[x]
    BY DEF DeleteSchedule, NoRow, ScheduleInv, TypeOK
  <1>3. RunsOf(s)' = {}
    BY <1>1, ScheduleAssumption DEF RunsOf
  <1>4. ASSUME NEW x \in Schedule, x # s PROVE sched'[x].spent = CostOf(runs', RunsOf(x)')
    <2>1. RunsOf(x)' = RunsOf(x) /\ IsFiniteSet(RunsOf(x))
      BY <1>1, <1>4, ScheduleAssumption, FS_Subset DEF RunsOf
    <2>2. CostOf(runs', RunsOf(x)) = CostOf(runs, RunsOf(x))
      BY <1>1, <2>1, CostSame DEF RunsOf
    <2> QED
      BY <1>2, <1>4, <2>1, <2>2 DEF CostInv
  <1>5. CostOf(runs', {}) = 0
    BY CostOfNone
  <1>6. \A r \in Run : runs'[r].of \in Schedule => sched'[runs'[r].of].present
    BY <1>1, <1>2, ScheduleAssumption DEF CostInv
  <1> QED
    BY <1>1, <1>2, <1>3, <1>4, <1>5, <1>6 DEF CostInv

\* An answer adds its cost to one session and to that session's schedule.
LEMMA CostAnswers ==
  ASSUME ScheduleInv, CostInv, NEW r \in Run, NEW c \in Costs \union {NoLimit}, Answer(r, c)
  PROVE  CostInv'
  <1>0. sched \in [Schedule -> Row] /\ runs \in [Run -> RunRow]
    BY DEF ScheduleInv, TypeOK
  <1>1. PICK k \in Nat : k = IF c = NoLimit THEN 0 ELSE c
    BY ScheduleAssumption
  <1>2. /\ runs'[r].cost = runs[r].cost + k /\ runs[r].cost \in Nat
        /\ \A q \in Run \ {r} : runs'[q] = runs[q]
    BY <1>0, <1>1, ScheduleAssumption DEF Answer, RunRow
  <1>3. \A q \in Run : runs'[q].of = runs[q].of /\ runs'[q].present = runs[q].present
    BY <1>0 DEF Answer, RunRow
  <1>4. ASSUME NEW x \in Schedule
        PROVE  /\ sched'[x].present = sched[x].present
               /\ sched'[x].spent = IF runs[r].of = x THEN sched[x].spent + k ELSE sched[x].spent
    <2>1. CASE c = NoLimit \/ runs[r].of = NoSchedule
      BY <1>0, <1>1, <2>1, ScheduleAssumption DEF Answer, Row
    <2>2. CASE ~(c = NoLimit \/ runs[r].of = NoSchedule)
      <3>1. PICK s \in Schedule : s = runs[r].of
        BY <1>0, <2>2 DEF RunRow
      <3>2. sched' = [sched EXCEPT ![s] = Charged(sched[s], k)]
        BY <1>1, <2>2, <3>1 DEF Answer
      <3>3. /\ Charged(sched[s], k).present = sched[s].present
            /\ Charged(sched[s], k).spent = sched[s].spent + k
        <4>1. PICK old \in Row : old = sched[s]
          BY <1>0
        <4>2. Charged(old, k).present = old.present /\ Charged(old, k).spent = old.spent + k
          BY ChargedFacts
        <4> QED
          BY <4>1, <4>2
      <3> QED
        BY <1>0, <3>1, <3>2, <3>3
    <2> QED
      BY <2>1, <2>2
  <1>5. \A x \in Schedule : RunsOf(x)' = RunsOf(x)
    BY <1>3 DEF RunsOf
  <1>6. ASSUME NEW x \in Schedule PROVE sched'[x].spent = CostOf(runs', RunsOf(x))
    <2>1. IsFiniteSet(RunsOf(x)) /\ IsFiniteSet(RunsOf(x) \ {r})
      BY ScheduleAssumption, FS_Subset DEF RunsOf
    <2>2. \A q \in RunsOf(x) : runs[q].cost \in Nat /\ runs'[q].cost \in Nat
      BY <1>0, <1>2 DEF RunsOf, RunRow
    <2>3. CostOf(runs', RunsOf(x) \ {r}) = CostOf(runs, RunsOf(x) \ {r})
      BY <1>2, <2>1, CostSame DEF RunsOf
    <2>4. CASE runs[r].of # x
      <3>1. RunsOf(x) \ {r} = RunsOf(x)
        BY <2>4 DEF RunsOf
      <3> QED
        BY <1>4, <2>3, <2>4, <3>1 DEF CostInv
    <2>5. CASE runs[r].of = x
      <3>1. r \in RunsOf(x)
        BY <2>5 DEF RunsOf
      <3>2. /\ CostOf(runs, RunsOf(x)) = runs[r].cost + CostOf(runs, RunsOf(x) \ {r})
            /\ CostOf(runs', RunsOf(x)) = runs'[r].cost + CostOf(runs', RunsOf(x) \ {r})
        BY <2>1, <2>2, <3>1, CostSplits
      <3>3. CostOf(runs, RunsOf(x) \ {r}) \in Nat
        BY <2>1, <2>2, CostType
      <3>4. sched'[x].spent = CostOf(runs, RunsOf(x)) + k
        BY <1>4, <2>5 DEF CostInv
      <3>5. PICK a \in Nat, b \in Nat : a = CostOf(runs, RunsOf(x) \ {r}) /\ b = runs[r].cost
        BY <1>2, <3>3
      <3>6. CostOf(runs, RunsOf(x)) = b + a /\ CostOf(runs', RunsOf(x)) = (b + k) + a
        BY <1>2, <2>3, <3>2, <3>5
      <3> QED
        BY <3>4, <3>5, <3>6
    <2> QED
      BY <2>4, <2>5
  <1> QED
    BY <1>3, <1>4, <1>5, <1>6 DEF CostInv

\* Every step keeps totals and costs together.
LEMMA CostStepKept == ScheduleInv /\ CostInv /\ [Next]_vars => CostInv'
  <1> SUFFICES ASSUME ScheduleInv, CostInv, [Next]_vars PROVE CostInv'
    OBVIOUS
  <1>0. sched \in [Schedule -> Row]
    BY DEF ScheduleInv, TypeOK
  <1>1. ASSUME NEW s \in Schedule, NEW i \in Intervals, NEW mr \in RunLimits \union {NoLimit},
               NEW e \in Dates \union {NoLimit}, NEW mc \in CostLimits \union {NoLimit},
               NEW start \in Dates, CreateSchedule(s, i, mr, e, mc, start)
        PROVE  CostInv'
    <2>1. /\ sched'[s].present /\ sched'[s].spent = 0 /\ sched[s].spent = 0
          /\ \A x \in Schedule \ {s} : sched'[x] = sched[x]
      BY <1>0, <1>1 DEF CreateSchedule, NoRow, CostInv
    <2>2. UNCHANGED runs
      BY <1>1 DEF CreateSchedule
    <2> QED
      BY <2>1, <2>2, CostRests
  <1>2. ASSUME NEW s \in Schedule, NEW i, NEW on, NEW mr, NEW e, NEW mc,
               SetSchedule(s, i, on, mr, e, mc)
        PROVE  CostInv'
    <2>1. \A x \in Schedule : sched'[x].spent = sched[x].spent /\ sched'[x].present = sched[x].present
      BY <1>0, <1>2 DEF SetSchedule, Row
    <2>2. UNCHANGED runs
      BY <1>2 DEF SetSchedule
    <2> QED
      BY <2>1, <2>2, CostRests
  <1>3. ASSUME NEW s \in Schedule, NEW r \in Run, RunScheduleNow(s, r) \/ SweepFires(s, r)
        PROVE  CostInv'
    <2>1. NextRun(r) /\ Spawn(r, s) /\ sched[s].present
      BY <1>3 DEF RunScheduleNow, SweepFires, Due
    <2>2. \A x \in Schedule : sched'[x].spent = sched[x].spent /\ sched'[x].present = sched[x].present
      <3>1. FiredRow(s).spent = sched[s].spent /\ FiredRow(s).present = sched[s].present
        BY <1>0 DEF FiredRow, Row
      <3>2. CASE RunScheduleNow(s, r)
        BY <1>0, <3>1, <3>2 DEF RunScheduleNow
      <3>3. CASE SweepFires(s, r)
        BY <1>0, <3>1, <3>3 DEF SweepFires, FiredRow, Row
      <3> QED
        BY <1>3, <3>2, <3>3
    <2> QED
      BY <2>1, <2>2, CostSpawns
  <1>4. ASSUME NEW s \in Schedule, SweepStops(s) \/ SweepFails(s) PROVE CostInv'
    <2>1. \A x \in Schedule : sched'[x].spent = sched[x].spent /\ sched'[x].present = sched[x].present
      BY <1>0, <1>4 DEF SweepStops, SweepFails, Row
    <2>2. UNCHANGED runs
      BY <1>4 DEF SweepStops, SweepFails
    <2> QED
      BY <2>1, <2>2, CostRests
  <1>5. ASSUME NEW s \in Schedule, NEW b, SetReady(s, b) PROVE CostInv'
    BY <1>5, CostRests DEF SetReady
  <1>6. CASE Tick \/ UNCHANGED vars
    BY <1>6, CostRests DEF Tick, vars
  <1>7. OperatorStep => CostInv'
    BY <1>1, <1>2, <1>3, <1>5, CostDeletes DEF OperatorStep
  <1>8. PumpStep => CostInv'
    BY <1>3, <1>4 DEF PumpStep, Sweep
  <1> QED
    BY <1>6, <1>7, <1>8, CostAnswers DEF Next, WorkerStep

\* A schedule's total is what its sessions' calls cost, for any number of
\* schedules, sessions and answers: creation, firing, deletion and an answer
\* that comes after the schedule was paused each keep both sides in step.
THEOREM CostsAreConserved == Spec => []CostConserved
  <1>1. Init => CostInv
    <2> SUFFICES ASSUME Init PROVE CostInv
      OBVIOUS
    <2>1. \A s \in Schedule : RunsOf(s) = {} /\ sched[s].spent = 0
      BY ScheduleAssumption DEF Init, RunsOf, NoRun, NoRow
    <2>2. CostOf(runs, {}) = 0
      BY CostOfNone
    <2>3. \A r \in Run : runs[r].of = NoSchedule
      BY DEF Init, NoRun
    <2> QED
      BY <2>1, <2>2, <2>3, ScheduleAssumption DEF CostInv
  <1>2. CostInv => CostConserved
    BY DEF CostInv, CostConserved, RunsOf
  <1> QED
    BY <1>1, <1>2, CostStepKept, ScheduleInvHolds, PTL DEF Spec
=============================================================================
