--------------------------- MODULE HttpPoolProofs ---------------------------
(* Safety of the HTTP pool and its implementation of OutboundCalls, proved   *)
(* for any number of rows, threads and crashes.                              *)
EXTENDS HttpPool, FiniteSetTheorems, TLAPS

\* A thread at a place where its call is unsent, or its flag in the map.
UnsentAt(c) == {At("taken", c), At("connecting", c), At("connected", c)}
GuardedAt(c) == {At("connecting", c), At("connected", c), At("waiting", c)}

USE DEF UnsentAt, GuardedAt, Unsent, Guarded

\* A call of the process is at one place: being handed over, in one of the two
\* channels, or with one thread; and its row is in flight or written off.
OnePlace ==
    /\ \A t, u \in Threads, c \in Calls : Holding(t, c) /\ Holding(u, c) => t = u
    /\ \A t \in Threads, c \in Calls : Holding(t, c) => c \notin batch \cup jobs \cup results
    /\ batch \cap jobs = {} /\ batch \cap results = {} /\ jobs \cap results = {}
    /\ \A c \in batch \cup jobs \cup results : row[c] \in {"in_flight", "lost"}
    /\ \A t \in Threads, c \in Calls : Holding(t, c) => row[c] \in {"in_flight", "lost"}
    /\ batch # {} => pc \in Queues

\* What has not been written yet has not been sent.
NotYetSent ==
    /\ AtMostOnceSent
    /\ \A c \in Calls : row[c] \in {"none", "queued"} => sends[c] = 0
    /\ \A c \in batch \cup jobs : sends[c] = 0
    /\ \A t \in Threads, c \in Calls :
           thr[t] \in UnsentAt(c) => sends[c] = 0

\* The flags of the map and the threads that own them.
FlagInv ==
    /\ \A c \in Calls : flags[c] # "absent" <=>
           \E t \in Threads : thr[t] \in GuardedAt(c)
    /\ \A c \in Calls : flags[c] = "set" => row[c] = "lost"
    /\ \A c \in lost : row[c] = "lost"

PoolInv == TypeOK /\ InFlightExact /\ OnePlace /\ NotYetSent /\ FlagInv

-----------------------------------------------------------------------------
\* Where a thread is determines its place and its call.
LEMMA AtFacts ==
    /\ \A p, q, c, d : At(p, c) = At(q, d) => p = q /\ c = d
    /\ \A p, c : At(p, c) # IdleThread
  <1>1. \A p, q, c, d : At(p, c) = At(q, d) => p = q /\ c = d
    BY DEF At
  <1>2. \A p, c : At(p, c) # IdleThread
    BY DEF At, IdleThread
  <1> QED BY <1>1, <1>2

\* The three sets behind the count are finite.
LEMMA FiniteParts ==
  ASSUME TypeOK
  PROVE  /\ IsFiniteSet(jobs) /\ IsFiniteSet(results) /\ IsFiniteSet(batch) /\ IsFiniteSet(Busy)
         /\ Cardinality(jobs) \in Nat /\ Cardinality(results) \in Nat
         /\ Cardinality(batch) \in Nat /\ Cardinality(Busy) \in Nat /\ Capacity \in Nat
  <1>1. jobs \in SUBSET Calls /\ results \in SUBSET Calls /\ batch \in SUBSET Calls
    BY DEF TypeOK
  <1>2. Busy \in SUBSET Threads
    BY DEF Busy
  <1>3. IsFiniteSet(jobs) /\ IsFiniteSet(results) /\ IsFiniteSet(batch) /\ IsFiniteSet(Busy)
    BY <1>1, <1>2, PoolAssumption, FS_Subset
  <1>4. Cardinality(Threads) \in Nat
    BY PoolAssumption, FS_CardinalityType
  <1> QED BY <1>3, <1>4, FS_CardinalityType DEF Capacity

\* The empty tables and the fresh process satisfy the invariant.
LEMMA InitPoolInv == Init => PoolInv
  <1> SUFFICES ASSUME Init PROVE PoolInv OBVIOUS
  <1>1. TypeOK
    BY PoolAssumption DEF Init, TypeOK, ThreadState, Queues
  <1>2. Busy = {}
    BY DEF Init, Busy
  <1>3. Cardinality(Threads) \in Nat
    BY PoolAssumption, FS_CardinalityType
  <1>4. InFlightExact
    BY <1>2, <1>3, FS_EmptySet DEF Init, InFlightExact, Capacity
  <1>5. OnePlace /\ NotYetSent /\ FlagInv
    BY AtFacts DEF Init, OnePlace, NotYetSent, AtMostOnceSent, FlagInv, Holding
  <1> QED BY <1>1, <1>4, <1>5 DEF PoolInv

\* Next, taken apart into its actions.
LEMMA Steps ==
  ASSUME Next
  PROVE  \/ \E c \in Calls : Enqueue(c) \/ Cancel(c) \/ SendJob(c)
         \/ \E c \in Calls, d \in BOOLEAN : Harvest(c, d)
         \/ HarvestedAll \/ ReadIds \/ SetFlags \/ Pump \/ Crash
         \/ \E d \in BOOLEAN : CheckLost(d)
         \/ \E S, W \in SUBSET Calls : Claim(S, W)
         \/ ClaimSkipped
         \/ \E t \in Threads, c \in Calls :
                \/ Take(t, c) \/ Register(t, c) \/ Connect(t, c) \/ Transmit(t, c)
                \/ SendResult(t, c)
                \/ thr[t] \in GuardedAt(c) /\ Return(t, c)
  BY PoolAssumption DEF Next, SpiNext, Queued, Sweepable, ThreadNext, PeerNext, Refuse, Respond, Abort

\* Every step keeps the types.
LEMMA TypeStep ==
  ASSUME TypeOK, Next
  PROVE  TypeOK'
  <1> USE PoolAssumption DEF TypeOK, Queues
  <1>1. ASSUME NEW c \in Calls, Enqueue(c) \/ Cancel(c) \/ SendJob(c) PROVE TypeOK'
    BY <1>1 DEF Enqueue, Cancel, SendJob, spi, pool, ClaimSteps
  <1>2. ASSUME NEW c \in Calls, NEW d \in BOOLEAN, Harvest(c, d) PROVE TypeOK'
    BY <1>2 DEF Harvest, spi
  <1>3. CASE HarvestedAll \/ ReadIds \/ Pump
    BY <1>3 DEF HarvestedAll, ReadIds, Pump, pool, Registered
  <1>4. CASE SetFlags
    BY <1>4 DEF SetFlags
  <1>5. CASE Crash
    BY <1>5 DEF Crash, ThreadState
  <1>6. ASSUME NEW d \in BOOLEAN, CheckLost(d) PROVE TypeOK'
    BY <1>6 DEF CheckLost, pool
  <1>7. ASSUME NEW S \in SUBSET Calls, NEW W \in SUBSET Calls, Claim(S, W)
        PROVE TypeOK'
    BY <1>7 DEF Claim, pool, ClaimSteps
  <1>8. ASSUME ClaimSkipped PROVE TypeOK'
    BY <1>8 DEF ClaimSkipped, pool, ClaimSteps
  <1>9. ASSUME NEW t \in Threads, NEW c \in Calls,
               \/ Take(t, c) \/ Register(t, c) \/ Connect(t, c) \/ Transmit(t, c)
               \/ SendResult(t, c)
               \/ Return(t, c)
        PROVE TypeOK'
    BY <1>9 DEF Take, Register, Connect, Transmit, SendResult, Return, ThreadState, Places, spi
  <1> QED
    BY Steps, <1>1, <1>2, <1>3, <1>4, <1>5, <1>6, <1>7, <1>8, <1>9

\* The count follows every job from the batch through the channels and back.
LEMMA CountStep ==
  ASSUME PoolInv, Next
  PROVE  InFlightExact'
  <1>f. /\ IsFiniteSet(jobs) /\ IsFiniteSet(results) /\ IsFiniteSet(batch) /\ IsFiniteSet(Busy)
        /\ Cardinality(jobs) \in Nat /\ Cardinality(results) \in Nat
        /\ Cardinality(batch) \in Nat /\ Cardinality(Busy) \in Nat /\ Capacity \in Nat
        /\ in_flight \in Nat
    BY FiniteParts DEF PoolInv, TypeOK
  <1>i. /\ in_flight = Cardinality(jobs) + Cardinality(Busy) + Cardinality(results)
        /\ in_flight + Cardinality(batch) <= Capacity
    BY DEF PoolInv, InFlightExact
  <1>a. ASSUME UNCHANGED <<jobs, results, batch, in_flight>>, Busy' = Busy PROVE InFlightExact'
    BY <1>i, <1>a DEF InFlightExact, Capacity
  <1>b. ASSUME thr' = thr PROVE Busy' = Busy
    BY <1>b DEF Busy
  <1>1. ASSUME NEW c \in Calls, Enqueue(c) \/ Cancel(c) PROVE InFlightExact'
    BY <1>1, <1>a, <1>b DEF Enqueue, Cancel, spi, pool
  <1>2. ASSUME NEW c \in Calls, NEW d \in BOOLEAN, Harvest(c, d) PROVE InFlightExact'
    <2>1. /\ c \in results /\ results' = results \ {c} /\ UNCHANGED <<jobs, batch>>
          /\ Busy' = Busy
          /\ in_flight' = IF in_flight > 0 THEN in_flight - 1 ELSE 0
      BY <1>2, <1>b DEF Harvest, spi
    <2>2. Cardinality(results') = Cardinality(results) - 1 /\ Cardinality(results) # 0
      BY <2>1, <1>f, FS_RemoveElement, FS_EmptySet
    <2> QED BY <2>1, <2>2, <1>f, <1>i DEF InFlightExact, Capacity
  <1>3. ASSUME HarvestedAll \/ ReadIds \/ Pump \/ SetFlags PROVE InFlightExact'
    BY <1>3, <1>a, <1>b DEF HarvestedAll, ReadIds, Pump, SetFlags, pool
  <1>4. ASSUME NEW d \in BOOLEAN, CheckLost(d) PROVE InFlightExact'
    BY <1>4, <1>a, <1>b DEF CheckLost, pool
  <1>5. ASSUME ClaimSkipped PROVE InFlightExact'
    BY <1>5, <1>a, <1>b DEF ClaimSkipped, pool
  <1>6. ASSUME NEW S \in SUBSET Calls, NEW W \in SUBSET Calls, Claim(S, W)
        PROVE InFlightExact'
    <2>1. /\ batch' = S /\ UNCHANGED <<jobs, results, in_flight>> /\ Busy' = Busy
          /\ Cardinality(S) <= Capacity - in_flight
      BY <1>6, <1>b DEF Claim, pool
    <2>2. Cardinality(S) \in Nat
      BY PoolAssumption, FS_Subset, FS_CardinalityType
    <2> QED BY <2>1, <2>2, <1>f, <1>i DEF InFlightExact, Capacity
  <1>7. ASSUME NEW c \in Calls, SendJob(c) PROVE InFlightExact'
    <2>1. /\ c \in batch /\ batch' = batch \ {c} /\ jobs' = jobs \cup {c}
          /\ in_flight' = in_flight + 1 /\ results' = results /\ Busy' = Busy
      BY <1>7, <1>b DEF SendJob
    <2>2. c \notin jobs
      BY <2>1 DEF PoolInv, OnePlace
    <2>3. /\ Cardinality(batch') = Cardinality(batch) - 1
          /\ Cardinality(jobs') = Cardinality(jobs) + 1
      BY <2>1, <2>2, <1>f, FS_AddElement, FS_RemoveElement
    <2> QED BY <2>1, <2>3, <1>f, <1>i DEF InFlightExact, Capacity
  <1>8. ASSUME NEW t \in Threads, NEW c \in Calls, Take(t, c) PROVE InFlightExact'
    <2>1. /\ c \in jobs /\ jobs' = jobs \ {c} /\ UNCHANGED <<results, batch, in_flight>>
          /\ thr[t] = IdleThread /\ thr' = [thr EXCEPT ![t] = At("taken", c)]
      BY <1>8 DEF Take, spi
    <2>2. t \notin Busy /\ Busy' = Busy \cup {t}
      BY <2>1, AtFacts DEF Busy, PoolInv, TypeOK
    <2>3. /\ Cardinality(jobs') = Cardinality(jobs) - 1
          /\ Cardinality(Busy') = Cardinality(Busy) + 1
      BY <2>1, <2>2, <1>f, FS_AddElement, FS_RemoveElement
    <2> QED BY <2>1, <2>3, <1>f, <1>i DEF InFlightExact, Capacity
  <1>9. ASSUME NEW t \in Threads, NEW c \in Calls,
               \/ Register(t, c) \/ Connect(t, c) \/ Transmit(t, c)
               \/ thr[t] \in GuardedAt(c) /\ Return(t, c)
        PROVE InFlightExact'
    <2>1. /\ UNCHANGED <<jobs, results, batch, in_flight>>
          /\ \E p \in Places : thr[t] = At(p, c)
          /\ \E p \in Places : thr' = [thr EXCEPT ![t] = At(p, c)]
      BY <1>9 DEF Register, Connect, Transmit, Return, Places, spi
    <2>2. Busy' = Busy
      BY <2>1, AtFacts DEF Busy, PoolInv, TypeOK
    <2> QED BY <2>1, <2>2, <1>a
  <1>10. ASSUME NEW t \in Threads, NEW c \in Calls, SendResult(t, c) PROVE InFlightExact'
    <2>1. /\ results' = results \cup {c} /\ UNCHANGED <<jobs, batch, in_flight>>
          /\ thr[t] = At("returning", c) /\ thr' = [thr EXCEPT ![t] = IdleThread]
      BY <1>10 DEF SendResult, spi
    <2>2. c \notin results
      BY <2>1 DEF PoolInv, OnePlace, Holding, Places
    <2>3. t \in Busy /\ Busy' = Busy \ {t}
      BY <2>1, AtFacts DEF Busy, PoolInv, TypeOK
    <2>4. /\ Cardinality(results') = Cardinality(results) + 1
          /\ Cardinality(Busy') = Cardinality(Busy) - 1
      BY <2>1, <2>2, <2>3, <1>f, FS_AddElement, FS_RemoveElement
    <2> QED BY <2>1, <2>4, <1>f, <1>i DEF InFlightExact, Capacity
  <1>11. CASE Crash
    <2>1. /\ jobs' = {} /\ results' = {} /\ batch' = {} /\ in_flight' = 0 /\ Busy' = {}
      BY <1>11 DEF Crash, Busy
    <2> QED BY <2>1, <1>f, FS_EmptySet DEF InFlightExact, Capacity
  <1> QED
    BY Steps, <1>1, <1>2, <1>3, <1>4, <1>5, <1>6, <1>7, <1>8, <1>9, <1>10, <1>11

\* A thread that moves on holds its call and nothing else; the others are as before.
LEMMA MoveFacts ==
  ASSUME TypeOK, NEW t \in Threads, NEW c \in Calls, NEW p \in Places,
         thr' = [thr EXCEPT ![t] = At(p, c)]
  PROVE  \A u \in Threads, d \in Calls : Holding(u, d)' <=> (IF u = t THEN d = c ELSE Holding(u, d))
  BY AtFacts DEF Holding, TypeOK

\* No call is ever at two places.
LEMMA PlaceStep ==
  ASSUME PoolInv, Next
  PROVE  OnePlace'
  <1> USE DEF PoolInv
  <1>0. TypeOK /\ OnePlace
    OBVIOUS
  <1>h. ASSUME thr' = thr PROVE \A t, c : Holding(t, c)' <=> Holding(t, c)
    BY <1>h DEF Holding
  <1>1. ASSUME NEW c \in Calls, Enqueue(c) \/ Cancel(c) PROVE OnePlace'
    <2>1. /\ UNCHANGED <<batch, jobs, results, pc>> /\ \A t, e : Holding(t, e)' <=> Holding(t, e)
          /\ \A e \in Calls : row[e] \in {"in_flight", "lost"} => row'[e] \in {"in_flight", "lost"}
      BY <1>1, <1>h DEF Enqueue, Cancel, spi, pool, TypeOK
    <2> QED BY <2>1, <1>0 DEF OnePlace, TypeOK
  <1>2. ASSUME NEW c \in Calls, NEW d \in BOOLEAN, Harvest(c, d) PROVE OnePlace'
    <2>1. /\ c \in results /\ results' = results \ {c} /\ UNCHANGED <<batch, jobs, pc>>
          /\ \A t, e : Holding(t, e)' <=> Holding(t, e)
          /\ \A e \in Calls : e # c => row'[e] = row[e]
      BY <1>2, <1>h DEF Harvest, spi, TypeOK
    <2> QED BY <2>1, <1>0 DEF OnePlace, TypeOK
  <1>3. ASSUME HarvestedAll \/ ReadIds \/ Pump \/ SetFlags PROVE OnePlace'
    <2>1. /\ UNCHANGED <<row, batch, jobs, results>> /\ \A t, e : Holding(t, e)' <=> Holding(t, e)
          /\ pc \notin Queues
      BY <1>3, <1>h DEF HarvestedAll, ReadIds, Pump, SetFlags, pool, Queues
    <2> QED BY <2>1, <1>0 DEF OnePlace
  <1>4. ASSUME NEW d \in BOOLEAN, CheckLost(d) PROVE OnePlace'
    <2>1. /\ UNCHANGED <<row, batch, jobs, results>> /\ \A t, e : Holding(t, e)' <=> Holding(t, e)
          /\ pc \notin Queues
      BY <1>4, <1>h DEF CheckLost, pool, Queues
    <2> QED BY <2>1, <1>0 DEF OnePlace
  <1>5. ASSUME ClaimSkipped PROVE OnePlace'
    <2>1. /\ UNCHANGED <<row, batch, jobs, results>> /\ \A t, e : Holding(t, e)' <=> Holding(t, e)
          /\ batch = {}
      BY <1>5, <1>h DEF ClaimSkipped, pool
    <2> QED BY <2>1, <1>0 DEF OnePlace
  <1>6. ASSUME NEW S \in SUBSET Calls, NEW W \in SUBSET Calls, Claim(S, W)
        PROVE OnePlace'
    <2>1. /\ batch = {} /\ batch' = S /\ UNCHANGED <<jobs, results>>
          /\ \A t, e : Holding(t, e)' <=> Holding(t, e)
          /\ \A e \in S : row[e] = "queued" /\ row'[e] = "in_flight"
          /\ \A e \in Calls \ S : row'[e] \in {row[e], "lost"}
          /\ S # {} => pc' \in Queues
      BY <1>6, <1>h DEF Claim, pool, TypeOK, Queued
    <2> QED BY <2>1, <1>0 DEF OnePlace, TypeOK
  <1>7. ASSUME NEW c \in Calls, SendJob(c) PROVE OnePlace'
    <2>1. /\ c \in batch /\ batch' = batch \ {c} /\ jobs' = jobs \cup {c}
          /\ UNCHANGED <<row, results>> /\ \A t, e : Holding(t, e)' <=> Holding(t, e)
          /\ batch' # {} => pc' \in Queues
      BY <1>7, <1>h DEF SendJob
    <2> QED BY <2>1, <1>0 DEF OnePlace, TypeOK
  <1>8. ASSUME NEW t \in Threads, NEW c \in Calls, Take(t, c) PROVE OnePlace'
    <2>1. /\ c \in jobs /\ jobs' = jobs \ {c} /\ UNCHANGED <<row, results, batch, pc>>
          /\ thr' = [thr EXCEPT ![t] = At("taken", c)]
      BY <1>8 DEF Take, spi
    <2>2. \A u \in Threads, d \in Calls : Holding(u, d)' <=> (IF u = t THEN d = c ELSE Holding(u, d))
      BY <2>1, <1>0, MoveFacts DEF Places
    <2> QED BY <2>1, <2>2, <1>0 DEF OnePlace, TypeOK
  <1>9. ASSUME NEW t \in Threads, NEW c \in Calls,
               \/ Register(t, c) \/ Connect(t, c) \/ Transmit(t, c)
               \/ thr[t] \in GuardedAt(c) /\ Return(t, c)
        PROVE OnePlace'
    <2>1. /\ UNCHANGED <<row, jobs, results, batch, pc>>
          /\ Holding(t, c)
          /\ \E p \in Places : thr' = [thr EXCEPT ![t] = At(p, c)]
      BY <1>9 DEF Register, Connect, Transmit, Return, Places, spi, Holding
    <2>2. \A u \in Threads, d \in Calls : Holding(u, d)' <=> (IF u = t THEN d = c ELSE Holding(u, d))
      BY <2>1, <1>0, MoveFacts
    <2> QED BY <2>1, <2>2, <1>0 DEF OnePlace, TypeOK
  <1>10. ASSUME NEW t \in Threads, NEW c \in Calls, SendResult(t, c) PROVE OnePlace'
    <2>1. /\ results' = results \cup {c} /\ UNCHANGED <<row, jobs, batch, pc>>
          /\ Holding(t, c)
          /\ \A u \in Threads, d \in Calls : Holding(u, d)' <=> u # t /\ Holding(u, d)
      BY <1>10, AtFacts DEF SendResult, spi, Holding, Places, TypeOK
    <2> QED BY <2>1, <1>0 DEF OnePlace, TypeOK
  <1>11. CASE Crash
    <2>1. /\ jobs' = {} /\ results' = {} /\ batch' = {}
          /\ \A t \in Threads, c \in Calls : ~Holding(t, c)'
      BY <1>11, AtFacts DEF Crash, Holding
    <2> QED BY <2>1 DEF OnePlace
  <1> QED
    BY Steps, <1>1, <1>2, <1>3, <1>4, <1>5, <1>6, <1>7, <1>8, <1>9, <1>10, <1>11

\* Only a thread that holds an unsent call sends it, and it goes on at once.
LEMMA SentStep ==
  ASSUME PoolInv, Next
  PROVE  NotYetSent'
  <1>0. TypeOK /\ OnePlace /\ NotYetSent
    BY DEF PoolInv
  <1>1. ASSUME NEW c \in Calls, Enqueue(c) \/ Cancel(c) PROVE NotYetSent'
    BY <1>1, <1>0 DEF Enqueue, Cancel, spi, pool, NotYetSent, AtMostOnceSent, TypeOK
  <1>2. ASSUME NEW c \in Calls, NEW d \in BOOLEAN, Harvest(c, d) PROVE NotYetSent'
    BY <1>2, <1>0 DEF Harvest, spi, NotYetSent, AtMostOnceSent, TypeOK
  <1>3. ASSUME HarvestedAll \/ ReadIds \/ Pump \/ SetFlags PROVE NotYetSent'
    BY <1>3, <1>0 DEF HarvestedAll, ReadIds, Pump, SetFlags, pool, NotYetSent, AtMostOnceSent
  <1>4. ASSUME NEW d \in BOOLEAN, CheckLost(d) PROVE NotYetSent'
    BY <1>4, <1>0 DEF CheckLost, pool, NotYetSent, AtMostOnceSent
  <1>5. ASSUME ClaimSkipped PROVE NotYetSent'
    BY <1>5, <1>0 DEF ClaimSkipped, pool, NotYetSent, AtMostOnceSent
  <1>6. ASSUME NEW S \in SUBSET Calls, NEW W \in SUBSET Calls, Claim(S, W)
        PROVE NotYetSent'
    BY <1>6, <1>0 DEF Claim, pool, NotYetSent, AtMostOnceSent, TypeOK, Queued
  <1>7. ASSUME NEW c \in Calls, SendJob(c) PROVE NotYetSent'
    BY <1>7, <1>0 DEF SendJob, NotYetSent, AtMostOnceSent, TypeOK
  <1>8. ASSUME NEW t \in Threads, NEW c \in Calls, Take(t, c) PROVE NotYetSent'
    BY <1>8, <1>0, AtFacts DEF Take, spi, NotYetSent, AtMostOnceSent, TypeOK
  <1>9. ASSUME NEW t \in Threads, NEW c \in Calls,
               \/ Register(t, c) \/ Connect(t, c)
               \/ thr[t] \in GuardedAt(c) /\ Return(t, c)
        PROVE NotYetSent'
    BY <1>9, <1>0, AtFacts DEF Register, Connect, Return, spi, NotYetSent, AtMostOnceSent, TypeOK
  <1>10. ASSUME NEW t \in Threads, NEW c \in Calls, Transmit(t, c) PROVE NotYetSent'
    <2>1. /\ UNCHANGED <<row, batch, jobs>> /\ thr[t] = At("connected", c)
          /\ thr' = [thr EXCEPT ![t] = At("waiting", c)]
          /\ sends' = [sends EXCEPT ![c] = @ + 1]
      BY <1>10 DEF Transmit, spi
    <2>2. sends[c] = 0 /\ Holding(t, c)
      BY <2>1, <1>0 DEF NotYetSent, Holding, Places
    <2>3. sends'[c] = 1 /\ \A d \in Calls : d # c => sends'[d] = sends[d]
      BY <2>1, <2>2, <1>0 DEF TypeOK
    <2>4. c \notin batch' \cup jobs' /\ row'[c] \notin {"none", "queued"}
      BY <2>1, <2>2, <1>0 DEF OnePlace
    <2>5. \A u \in Threads : thr'[u] \notin UnsentAt(c)
      <3> SUFFICES ASSUME NEW u \in Threads, u # t, thr[u] \in UnsentAt(c)
                   PROVE FALSE
        BY <2>1, <1>0, AtFacts DEF TypeOK
      <3>1. Holding(u, c)
        BY DEF Holding, Places
      <3> QED BY <3>1, <2>2, <1>0 DEF OnePlace
    <2>6. \A u \in Threads, d \in Calls : d # c /\ thr'[u] \in UnsentAt(d)
             => thr[u] \in UnsentAt(d)
      BY <2>1, <1>0, AtFacts DEF TypeOK
    <2> QED BY <2>1, <2>3, <2>4, <2>5, <2>6, <1>0 DEF NotYetSent, AtMostOnceSent, TypeOK
  <1>11. ASSUME NEW t \in Threads, NEW c \in Calls, SendResult(t, c) PROVE NotYetSent'
    BY <1>11, <1>0, AtFacts DEF SendResult, spi, NotYetSent, AtMostOnceSent, TypeOK
  <1>12. CASE Crash
    BY <1>12, <1>0, AtFacts DEF Crash, NotYetSent, AtMostOnceSent
  <1> QED
    BY Steps, <1>1, <1>2, <1>3, <1>4, <1>5, <1>6, <1>7, <1>8, <1>9, <1>10, <1>11, <1>12

\* The flag map changes with the thread that owns the entry.
LEMMA FlagStep ==
  ASSUME PoolInv, Next
  PROVE  FlagInv'
  <1>0. TypeOK /\ OnePlace /\ FlagInv
    BY DEF PoolInv
  <1>1. ASSUME NEW c \in Calls, Enqueue(c) \/ Cancel(c) PROVE FlagInv'
    BY <1>1, <1>0 DEF Enqueue, Cancel, spi, pool, FlagInv, TypeOK
  <1>2. ASSUME NEW c \in Calls, NEW d \in BOOLEAN, Harvest(c, d) PROVE FlagInv'
    BY <1>2, <1>0 DEF Harvest, spi, FlagInv, TypeOK
  <1>3. ASSUME HarvestedAll \/ ReadIds \/ Pump PROVE FlagInv'
    BY <1>3, <1>0 DEF HarvestedAll, ReadIds, Pump, pool, FlagInv
  <1>4. CASE SetFlags
    BY <1>4, <1>0 DEF SetFlags, FlagInv, TypeOK, Registered
  <1>5. ASSUME NEW d \in BOOLEAN, CheckLost(d) PROVE FlagInv'
    BY <1>5, <1>0 DEF CheckLost, pool, FlagInv
  <1>6. ASSUME ClaimSkipped PROVE FlagInv'
    BY <1>6, <1>0 DEF ClaimSkipped, pool, FlagInv
  <1>7. ASSUME NEW S \in SUBSET Calls, NEW W \in SUBSET Calls, Claim(S, W)
        PROVE FlagInv'
    BY <1>7, <1>0 DEF Claim, pool, FlagInv, TypeOK, Queued, Sweepable
  <1>8. ASSUME NEW c \in Calls, SendJob(c) PROVE FlagInv'
    BY <1>8, <1>0 DEF SendJob, FlagInv
  <1>9. ASSUME NEW t \in Threads, NEW c \in Calls, Take(t, c) PROVE FlagInv'
    <2>1. \A u \in Threads, d \in Calls :
             thr'[u] \in GuardedAt(d)
                 <=> thr[u] \in GuardedAt(d)
      BY <1>9, <1>0, AtFacts DEF Take, TypeOK
    <2> QED BY <1>9, <2>1, <1>0 DEF Take, spi, FlagInv
  <1>10. ASSUME NEW t \in Threads, NEW c \in Calls, Register(t, c) PROVE FlagInv'
    BY <1>10, <1>0, AtFacts DEF Register, spi, FlagInv, TypeOK
  <1>11. ASSUME NEW t \in Threads, NEW c \in Calls, Connect(t, c) \/ Transmit(t, c)
         PROVE FlagInv'
    BY <1>11, <1>0, AtFacts DEF Connect, Transmit, spi, FlagInv, TypeOK
  <1>12. ASSUME NEW t \in Threads, NEW c \in Calls,
                thr[t] \in GuardedAt(c), Return(t, c)
         PROVE FlagInv'
    <2>1. \A u \in Threads : thr[u] \in GuardedAt(c) => u = t
      BY <1>12, <1>0 DEF OnePlace, Holding, Places
    <2> QED BY <1>12, <2>1, <1>0, AtFacts DEF Return, spi, FlagInv, TypeOK
  <1>13. ASSUME NEW t \in Threads, NEW c \in Calls, SendResult(t, c) PROVE FlagInv'
    <2>1. \A u \in Threads, d \in Calls :
             thr'[u] \in GuardedAt(d)
                 <=> thr[u] \in GuardedAt(d)
      BY <1>13, <1>0, AtFacts DEF SendResult, TypeOK
    <2> QED BY <1>13, <2>1, <1>0 DEF SendResult, spi, FlagInv
  <1>14. CASE Crash
    BY <1>14, <1>0, AtFacts DEF Crash, FlagInv
  <1> QED
    BY Steps, <1>1, <1>2, <1>3, <1>4, <1>5, <1>6, <1>7, <1>8, <1>9, <1>10, <1>11, <1>12,
       <1>13, <1>14

\* Every step keeps the invariant.
LEMMA PoolInvStep == PoolInv /\ [Next]_vars => PoolInv'
  <1>1. ASSUME PoolInv, Next PROVE PoolInv'
    BY <1>1, TypeStep, CountStep, PlaceStep, SentStep, FlagStep DEF PoolInv
  <1>2. ASSUME PoolInv, UNCHANGED vars PROVE PoolInv'
    <2>1. TypeOK'
      BY <1>2 DEF vars, spi, pool, PoolInv, TypeOK
    <2>2. InFlightExact'
      BY <1>2, Zenon DEF vars, spi, pool, PoolInv, InFlightExact, Busy
    <2>3. OnePlace'
      BY <1>2 DEF vars, spi, pool, PoolInv, OnePlace, Holding
    <2>4. NotYetSent'
      BY <1>2 DEF vars, spi, pool, PoolInv, NotYetSent, AtMostOnceSent
    <2>5. FlagInv'
      BY <1>2 DEF vars, spi, pool, PoolInv, FlagInv
    <2> QED
      BY <2>1, <2>2, <2>3, <2>4, <2>5 DEF PoolInv
  <1> QED BY <1>1, <1>2

\* The invariant holds in every state of the worker.
LEMMA PoolInvariance == Spec => []PoolInv
  BY InitPoolInv, PoolInvStep, PTL DEF Spec

-----------------------------------------------------------------------------
\* The loop's count equals the jobs outstanding and stays within the capacity,
\* for any number of threads and calls.
THEOREM CountIsExact == Spec => []InFlightExact
  <1>1. PoolInv => InFlightExact
    BY DEF PoolInv
  <1> QED BY <1>1, PoolInvariance, PTL

\* No request leaves the machine twice, whatever crashes, cancels and write-offs do.
THEOREM SentOnce == Spec => []AtMostOnceSent
  <1>1. PoolInv => AtMostOnceSent
    BY DEF PoolInv, NotYetSent
  <1> QED BY <1>1, PoolInvariance, PTL

\* The flag map holds exactly the calls being performed, each with one thread,
\* and a flag is raised only for a row that was written off.
THEOREM FlagsAreOwned == Spec => []FlagsMatchThreads
  <1>1. ASSUME PoolInv PROVE FlagsMatchThreads
    <2>1. Registered = HeldAt(Guarded)
      BY <1>1 DEF PoolInv, FlagInv, Registered, HeldAt
    <2> QED BY <1>1, <2>1 DEF PoolInv, FlagInv, OnePlace, FlagsMatchThreads
  <1> QED BY <1>1, PoolInvariance, PTL

\* An answer that is late never changes a row that was finished or written off.
THEOREM LateAnswersChangeNothing == Spec => LostIsFinal
  <1> DEFINE Final == \A c \in Calls : row[c] \in {"lost", "done"} => row'[c] = row[c]
  <1>1. ASSUME PoolInv, Next PROVE Final
    <2> SUFFICES ASSUME NEW c \in Calls, row[c] \in {"lost", "done"} PROVE row'[c] = row[c]
      OBVIOUS
    <2>0. TypeOK
      BY <1>1 DEF PoolInv
    <2>1. ASSUME NEW d \in Calls, Enqueue(d) \/ Cancel(d) \/ SendJob(d) PROVE row'[c] = row[c]
      BY <2>0, <2>1 DEF Enqueue, Cancel, SendJob, TypeOK
    <2>2. ASSUME NEW d \in Calls, NEW b \in BOOLEAN, Harvest(d, b) PROVE row'[c] = row[c]
      BY <2>0, <2>2 DEF Harvest, TypeOK
    <2>3. ASSUME HarvestedAll \/ ReadIds \/ SetFlags \/ Pump \/ Crash PROVE row'[c] = row[c]
      BY <2>3 DEF HarvestedAll, ReadIds, SetFlags, Pump, Crash
    <2>4. ASSUME NEW b \in BOOLEAN, CheckLost(b) PROVE row'[c] = row[c]
      BY <2>4 DEF CheckLost
    <2>5. ASSUME NEW S \in SUBSET Calls, NEW W \in SUBSET Calls, Claim(S, W)
          PROVE row'[c] = row[c]
      BY <2>0, <2>5 DEF Claim, TypeOK, Queued, Sweepable
    <2>6. ASSUME ClaimSkipped PROVE row'[c] = row[c]
      BY <2>6 DEF ClaimSkipped
    <2>7. ASSUME NEW t \in Threads, NEW d \in Calls,
                 \/ Take(t, d) \/ Register(t, d) \/ Connect(t, d) \/ Transmit(t, d)
                 \/ SendResult(t, d)
                 \/ Return(t, d)
          PROVE row'[c] = row[c]
      BY <2>7 DEF Take, Register, Connect, Transmit, SendResult, Return
    <2> QED BY <1>1, Steps, <2>1, <2>2, <2>3, <2>4, <2>5, <2>6, <2>7
  <1>2. PoolInv /\ [Next]_vars => [Final]_vars
    BY <1>1
  <1> QED BY <1>2, PoolInvariance, PTL DEF Spec, LostIsFinal

-----------------------------------------------------------------------------
Pending == batch \cup jobs \cup HeldAt(Unsent)

\* A thread that holds an unsent call, or stops holding one.
LEMMA UnsentHeld ==
  ASSUME TypeOK, NEW t \in Threads, NEW r \in ThreadState, thr' = [thr EXCEPT ![t] = r]
  PROVE  \A d \in Calls : d \in HeldAt(Unsent)' <=>
            \/ r \in UnsentAt(d)
            \/ \E u \in Threads \ {t} : thr[u] \in UnsentAt(d)
  BY DEF TypeOK, HeldAt

\* The calls of threads that have not written yet, thread by thread.
LEMMA UnsentNow ==
  \A d \in Calls : d \in HeldAt(Unsent) <=>
      \E u \in Threads : thr[u] \in UnsentAt(d)
  BY DEF HeldAt

\* Every step of the worker is a step of OutboundCalls, or one it does not see.
LEMMA PoolRefinesStep ==
  ASSUME PoolInv, Next
  PROVE  Abstract!Next \/ UNCHANGED <<row, Pending, sends>>
  <1>0. TypeOK /\ OnePlace /\ NotYetSent
    BY DEF PoolInv
  <1>h. ASSUME thr' = thr PROVE HeldAt(Unsent)' = HeldAt(Unsent)
    BY <1>h DEF HeldAt
  <1>1. ASSUME NEW c \in Calls, Enqueue(c) PROVE Abstract!Next
    <2>1. Abstract!Queue(c)
      BY <1>1, <1>h DEF Enqueue, spi, pool, Abstract!Queue
    <2> QED BY <2>1 DEF Abstract!Next
  <1>2. ASSUME NEW c \in Calls, Cancel(c) PROVE Abstract!Next
    <2>1. Abstract!WriteOff(c)
      BY <1>2, <1>h DEF Cancel, spi, pool, Abstract!WriteOff
    <2> QED BY <2>1 DEF Abstract!Next
  <1>3. ASSUME NEW c \in Calls, NEW d \in BOOLEAN, Harvest(c, d)
        PROVE  Abstract!Next \/ UNCHANGED <<row, Pending, sends>>
    <2>1. CASE d /\ row[c] = "in_flight"
      <3>1. Abstract!Finish(c)
        BY <1>3, <2>1, <1>h DEF Harvest, spi, Abstract!Finish
      <3> QED BY <3>1 DEF Abstract!Next
    <2>2. CASE ~(d /\ row[c] = "in_flight")
      BY <1>3, <2>2, <1>h DEF Harvest, spi, Pending
    <2> QED BY <2>1, <2>2
  <1>4. ASSUME HarvestedAll \/ ReadIds \/ SetFlags \/ Pump PROVE UNCHANGED <<row, Pending, sends>>
    BY <1>4, <1>h DEF HarvestedAll, ReadIds, SetFlags, Pump, pool, Pending
  <1>5. ASSUME NEW d \in BOOLEAN, CheckLost(d) PROVE UNCHANGED <<row, Pending, sends>>
    BY <1>5, <1>h DEF CheckLost, pool, Pending
  <1>6. ASSUME ClaimSkipped PROVE UNCHANGED <<row, Pending, sends>>
    BY <1>6, <1>h DEF ClaimSkipped, pool, Pending
  <1>7. ASSUME NEW S \in SUBSET Calls, NEW W \in SUBSET Calls, Claim(S, W)
        PROVE Abstract!Next
    <2>1. Abstract!Claim(S, W)
      BY <1>7, <1>h DEF Claim, pool, Queued, Sweepable, Abstract!Claim, Abstract!In
    <2> QED BY <2>1 DEF Abstract!Next, Abstract!Claim
  <1>8. ASSUME NEW c \in Calls, SendJob(c) PROVE UNCHANGED <<row, Pending, sends>>
    BY <1>8, <1>h DEF SendJob, Pending
  <1>9. ASSUME NEW t \in Threads, NEW c \in Calls, Take(t, c)
        PROVE UNCHANGED <<row, Pending, sends>>
    <2>1. At("taken", c) \in ThreadState
      BY DEF ThreadState, Places
    <2>2. \A d \in Calls : d \in HeldAt(Unsent)' <=>
             d = c \/ d \in HeldAt(Unsent)
      <3>1. \A d \in Calls : d \in HeldAt(Unsent)' <=>
               \/ At("taken", c) \in UnsentAt(d)
               \/ \E u \in Threads \ {t} : thr[u] \in UnsentAt(d)
        BY <1>9, <1>0, <2>1, UnsentHeld DEF Take
      <3> QED BY <1>9, <3>1, UnsentNow, AtFacts DEF Take
    <2>3. Pending' = Pending
      BY <1>9, <1>0, <2>2 DEF Take, spi, Pending, HeldAt, TypeOK
    <2> QED BY <1>9, <2>3 DEF Take
  <1>10. ASSUME NEW t \in Threads, NEW c \in Calls, Register(t, c) \/ Connect(t, c)
         PROVE UNCHANGED <<row, Pending, sends>>
    <2>0. PICK r \in UnsentAt(c) : thr[t] \in UnsentAt(c) /\ thr' = [thr EXCEPT ![t] = r]
      BY <1>10 DEF Register, Connect
    <2>1. r \in ThreadState
      BY <2>0 DEF ThreadState, Places
    <2>2. \A d \in Calls : d \in HeldAt(Unsent)' <=> d \in HeldAt(Unsent)
      <3>1. \A d \in Calls : d \in HeldAt(Unsent)' <=>
               \/ r \in UnsentAt(d)
               \/ \E u \in Threads \ {t} : thr[u] \in UnsentAt(d)
        BY <1>0, <2>0, <2>1, UnsentHeld
      <3> QED BY <2>0, <3>1, UnsentNow, AtFacts
    <2>3. Pending' = Pending
      BY <1>10, <1>0, <2>2 DEF Register, Connect, spi, Pending, HeldAt, TypeOK
    <2> QED BY <1>10, <2>3 DEF Register, Connect
  <1>11. ASSUME NEW t \in Threads, NEW c \in Calls, NEW r \in ThreadState,
                thr[t] \in GuardedAt(c),
                r \in {At("waiting", c), At("returning", c)},
                thr' = [thr EXCEPT ![t] = r], UNCHANGED <<batch, jobs>>
         PROVE /\ Pending' = Pending \ {c}
               /\ thr[t] \in UnsentAt(c) => c \in Pending
    <2>1. \A d \in Calls : d \in HeldAt(Unsent)' <=>
             d # c /\ d \in HeldAt(Unsent)
      <3>1. \A u \in Threads \ {t} : thr[u] \notin UnsentAt(c)
        BY <1>11, <1>0 DEF OnePlace, Holding, Places
      <3>2. \A d \in Calls : d \in HeldAt(Unsent)' <=>
               \/ r \in UnsentAt(d)
               \/ \E u \in Threads \ {t} : thr[u] \in UnsentAt(d)
        BY <1>11, <1>0, UnsentHeld
      <3> QED BY <1>11, <3>1, <3>2, UnsentNow, AtFacts
    <2>2. c \notin batch \cup jobs
      BY <1>11, <1>0 DEF OnePlace, Holding, Places
    <2>3. Pending' = Pending \ {c}
      BY <1>11, <2>1, <2>2, <1>0 DEF Pending, HeldAt, TypeOK
    <2> QED BY <1>11, <2>3 DEF Pending, HeldAt
  <1>12. ASSUME NEW t \in Threads, NEW c \in Calls, Transmit(t, c) PROVE Abstract!Next
    <2>1. At("waiting", c) \in ThreadState
      BY DEF ThreadState, Places
    <2>2. Pending' = Pending \ {c} /\ c \in Pending
      BY <1>11, <1>12, <2>1 DEF Transmit, spi
    <2>3. sends[c] = 0
      BY <1>12, <1>0 DEF Transmit, NotYetSent
    <2>4. Abstract!Send(c)
      BY <1>12, <1>0, <2>2, <2>3 DEF Transmit, Abstract!Send, Pending, TypeOK
    <2> QED BY <2>4 DEF Abstract!Next
  <1>13. ASSUME NEW t \in Threads, NEW c \in Calls,
                thr[t] \in GuardedAt(c), Return(t, c)
         PROVE Abstract!Next
    <2>1. At("returning", c) \in ThreadState
      BY DEF ThreadState, Places
    <2>2. Pending' = Pending \ {c}
      BY <1>11, <1>13, <2>1 DEF Return, spi
    <2>3. Abstract!Forget({c})
      BY <1>13, <2>2 DEF Return, Abstract!Forget, Pending
    <2> QED BY <2>3 DEF Abstract!Next
  <1>14. ASSUME NEW t \in Threads, NEW c \in Calls, SendResult(t, c)
         PROVE UNCHANGED <<row, Pending, sends>>
    <2>1. IdleThread \in ThreadState
      BY DEF ThreadState
    <2>2. \A d \in Calls : d \in HeldAt(Unsent)' <=> d \in HeldAt(Unsent)
      <3>1. \A d \in Calls : d \in HeldAt(Unsent)' <=>
               \/ IdleThread \in UnsentAt(d)
               \/ \E u \in Threads \ {t} : thr[u] \in UnsentAt(d)
        BY <1>14, <1>0, <2>1, UnsentHeld DEF SendResult
      <3> QED BY <1>14, <3>1, UnsentNow, AtFacts DEF SendResult
    <2>3. Pending' = Pending
      BY <1>14, <1>0, <2>2 DEF SendResult, spi, Pending, HeldAt, TypeOK
    <2> QED BY <1>14, <2>3 DEF SendResult
  <1>15. CASE Crash
    <2>1. Pending' = {}
      BY <1>15, AtFacts DEF Crash, Pending, HeldAt
    <2>2. Pending \in SUBSET Calls
      BY <1>0 DEF TypeOK, Pending, HeldAt
    <2>3. Abstract!Forget(Pending)
      BY <1>15, <2>1 DEF Crash, Abstract!Forget, Pending
    <2> QED BY <2>2, <2>3 DEF Abstract!Next
  <1> QED
    BY Steps, <1>1, <1>2, <1>3, <1>4, <1>5, <1>6, <1>7, <1>8, <1>9, <1>10, <1>12, <1>13,
       <1>14, <1>15

\* The worker with its pool, flags and crashes implements the abstract life of a call.
THEOREM PoolImplementsOutboundCalls == Spec => ImplementsOutboundCalls
  <1>1. Init => Abstract!Init
    BY AtFacts DEF Init, Abstract!Init, HeldAt
  <1>2. PoolInv /\ [Next]_vars => [Abstract!Next]_(Abstract!vars)
    <2>1. ASSUME PoolInv, Next PROVE Abstract!Next \/ UNCHANGED Abstract!vars
      BY <2>1, PoolRefinesStep DEF Abstract!vars, Pending
    <2>2. ASSUME UNCHANGED vars PROVE UNCHANGED Abstract!vars
      BY <2>2 DEF vars, spi, pool, Abstract!vars, HeldAt
    <2> QED BY <2>1, <2>2
  <1> QED BY <1>1, <1>2, PoolInvariance, PTL DEF Spec, ImplementsOutboundCalls, Abstract!Spec

=============================================================================
