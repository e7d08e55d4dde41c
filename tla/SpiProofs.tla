----------------------------- MODULE SpiProofs -----------------------------
(* What the runtime worker executes in the database itself, through SPI.     *)
(* FunctionBuilds: with one worker, whatever the number of functions,        *)
(* procedures, calls, versions and crashes, "built" means that the object in *)
(* the schema is the body in the row, and a call runs the version it was     *)
(* claimed for.  SpiWorker: what cancels, deaths and restarts never repeat,  *)
(* for every set of calls.                                                   *)
EXTENDS FunctionBuilds, SpiWorker, TLAPS

SingleWorker == \A u, w \in Workers : u = w

\* What the worker holds agrees with the row for as long as the row says
\* 'building', and nobody marks the row built in the meantime.
BuildInv ==
    \A w \in Workers, o \in Objects, v \in Versions, end \in Outcomes :
        /\ at[w] = Building(o, v) =>
               /\ status[o] # "built"
               /\ status[o] = "building" => body[o] = v
        /\ at[w] = Built(o, v, end) =>
               /\ status[o] # "built"
               /\ status[o] = "building" /\ end = "built" => body[o] = v /\ installed[o] = v

\* A claimed call finds the version it was claimed for.
CallInv ==
    \A w \in Workers, c \in BodyCalls, v \in Versions :
        at[w] = Calling(c, v) => installed[TargetOf[c]] = v

BuildsInv ==
    /\ TypeOK /\ BuiltMatchesBody /\ CallsRunWhatWasClaimed
    /\ BuildInv /\ CallInv

-----------------------------------------------------------------------------
\* The values of "at" are told apart by their pc, and by their fields.
LEMMA Distinct ==
    ASSUME NEW o, NEW v, NEW end, NEW o2, NEW v2, NEW c, NEW c2
    PROVE  /\ Idle # Building(o, v) /\ Idle # Built(o, v, end)
           /\ Idle # Calling(c, v) /\ Idle # Called(c)
           /\ Building(o, v) # Built(o2, v2, end) /\ Building(o, v) # Calling(c, v2)
           /\ Building(o, v) # Called(c) /\ Built(o, v, end) # Calling(c, v2)
           /\ Built(o, v, end) # Called(c) /\ Calling(c, v) # Called(c2)
<1>1. /\ Idle.pc = "idle" /\ Building(o, v).pc = "build" /\ Built(o, v, end).pc = "built"
      /\ Built(o2, v2, end).pc = "built" /\ Calling(c, v).pc = "call"
      /\ Calling(c, v2).pc = "call" /\ Called(c).pc = "called" /\ Called(c2).pc = "called"
  BY DEF Idle, Building, Built, Calling, Called
<1> QED BY <1>1

\* What a worker is doing determines what it does it to: a build under way,
LEMMA SameBuilding ==
    ASSUME NEW o, NEW v, NEW o2, NEW v2, Building(o, v) = Building(o2, v2)
    PROVE  o = o2 /\ v = v2
<1>1. /\ Building(o, v).obj = o /\ Building(o, v).version = v
      /\ Building(o2, v2).obj = o2 /\ Building(o2, v2).version = v2
  BY DEF Building
<1> QED BY <1>1

\* a build whose statement has run,
LEMMA SameBuilt ==
    ASSUME NEW o, NEW v, NEW end, NEW o2, NEW v2, NEW end2, Built(o, v, end) = Built(o2, v2, end2)
    PROVE  o = o2 /\ v = v2 /\ end = end2
<1>1. /\ Built(o, v, end).obj = o /\ Built(o, v, end).version = v /\ Built(o, v, end).end = end
      /\ Built(o2, v2, end2).obj = o2 /\ Built(o2, v2, end2).version = v2
      /\ Built(o2, v2, end2).end = end2
  BY DEF Built
<1> QED BY <1>1

\* and a call under way.
LEMMA SameCalling ==
    ASSUME NEW c, NEW v, NEW c2, NEW v2, Calling(c, v) = Calling(c2, v2)
    PROVE  c = c2 /\ v = v2
<1>1. /\ Calling(c, v).call = c /\ Calling(c, v).version = v
      /\ Calling(c2, v2).call = c2 /\ Calling(c2, v2).version = v2
  BY DEF Calling
<1> QED BY <1>1

\* What a worker may be doing.
LEMMA DoingValues ==
    /\ Idle \in Doing
    /\ \A o \in Objects, v \in Versions : Building(o, v) \in Doing
    /\ \A o \in Objects, v \in Versions, end \in Outcomes : Built(o, v, end) \in Doing
    /\ \A c \in BodyCalls, v \in Versions : Calling(c, v) \in Doing
    /\ \A c \in BodyCalls : Called(c) \in Doing
BY DEF Doing

\* The empty tables satisfy the invariant.
LEMMA InitBuilds == BuildInit => BuildsInv
<1> SUFFICES ASSUME BuildInit PROVE BuildsInv OBVIOUS
<1>1. TypeOK
  BY DoingValues, BuildAssumption DEF BuildInit, TypeOK, Versions, NotRun
<1>2. BuiltMatchesBody BY DEF BuildInit, BuiltMatchesBody
<1>3. CallsRunWhatWasClaimed BY DEF BuildInit, CallsRunWhatWasClaimed, NotRun
<1>4. BuildInv
  <2> SUFFICES ASSUME NEW w \in Workers, NEW o \in Objects, NEW v \in Versions, NEW end \in Outcomes
               PROVE  at[w] # Building(o, v) /\ at[w] # Built(o, v, end)
    BY DEF BuildInv
  <2> QED BY Distinct DEF BuildInit
<1>5. CallInv
  <2> SUFFICES ASSUME NEW w \in Workers, NEW c \in BodyCalls, NEW v \in Versions
               PROVE  at[w] # Calling(c, v)
    BY DEF CallInv
  <2> QED BY Distinct DEF BuildInit
<1> QED BY <1>1, <1>2, <1>3, <1>4, <1>5 DEF BuildsInv

-----------------------------------------------------------------------------
\* A step that leaves "at" and "installed" alone and takes nothing to 'built',
\* nor to 'building', keeps what the worker holds in agreement with the rows.
LEMMA RowsOnly ==
    ASSUME BuildInv, CallInv, UNCHANGED <<at, installed>>,
           \A o \in Objects :
               /\ status'[o] = "built" => status[o] = "built"
               /\ status'[o] = "building" => status[o] = "building" /\ body'[o] = body[o]
    PROVE  BuildInv' /\ CallInv'
<1>1. BuildInv'
  <2> SUFFICES ASSUME NEW w \in Workers, NEW o \in Objects, NEW v \in Versions, NEW end \in Outcomes
               PROVE  /\ at[w] = Building(o, v) =>
                             /\ status'[o] # "built"
                             /\ status'[o] = "building" => body'[o] = v
                      /\ at[w] = Built(o, v, end) =>
                             /\ status'[o] # "built"
                             /\ status'[o] = "building" /\ end = "built" => body'[o] = v /\ installed[o] = v
    BY DEF BuildInv
  <2> QED BY DEF BuildInv
<1>2. CallInv' BY DEF CallInv
<1> QED BY <1>1, <1>2

\* A worker that holds neither a build nor a call agrees with any rows.
LEMMA NothingHeld ==
    ASSUME SingleWorker, NEW w \in Workers,
           \A o \in Objects, v \in Versions : at'[w] # Building(o, v),
           \A o \in Objects, v \in Versions, end \in Outcomes : at'[w] # Built(o, v, end),
           \A c \in BodyCalls, v \in Versions : at'[w] # Calling(c, v)
    PROVE  BuildInv' /\ CallInv'
<1>1. \A u \in Workers : u = w BY DEF SingleWorker
<1>2. BuildInv' BY <1>1 DEF BuildInv
<1>3. CallInv' BY <1>1 DEF CallInv
<1> QED BY <1>2, <1>3

\* A new body makes the row pending, whatever is being built.
LEMMA EditStep ==
    ASSUME BuildsInv, NEW o \in Objects, Edit(o)
    PROVE  BuildsInv'
<1> USE DEF BuildsInv
<1>1. TypeOK' BY BuildAssumption DEF TypeOK, Edit, Versions
<1>2. BuiltMatchesBody' BY DEF BuiltMatchesBody, Edit, TypeOK
<1>3. CallsRunWhatWasClaimed' BY DEF CallsRunWhatWasClaimed, Edit
<1>4. \A q \in Objects : /\ status'[q] = "built" => status[q] = "built"
                         /\ status'[q] = "building" => status[q] = "building" /\ body'[q] = body[q]
  BY DEF Edit, TypeOK
<1>5. BuildInv' /\ CallInv' BY <1>4, RowsOnly DEF Edit
<1> QED BY <1>1, <1>2, <1>3, <1>5

\* A queued call holds nothing yet.
LEMMA QueueStep ==
    ASSUME BuildsInv, NEW c \in BodyCalls, QueueCall(c)
    PROVE  BuildsInv'
<1> USE DEF BuildsInv
<1>1. TypeOK' BY DEF TypeOK, QueueCall
<1>2. BuiltMatchesBody' BY DEF BuiltMatchesBody, QueueCall
<1>3. CallsRunWhatWasClaimed' BY DEF CallsRunWhatWasClaimed, QueueCall
<1>5. BuildInv' /\ CallInv' BY RowsOnly DEF QueueCall
<1> QED BY <1>1, <1>2, <1>3, <1>5

\* The build reads the body that the row has when it is claimed.
LEMMA ClaimBuildStep ==
    ASSUME SingleWorker, BuildsInv, NEW w \in Workers, NEW o \in Objects, ClaimBuild(w, o)
    PROVE  BuildsInv'
<1> USE DEF BuildsInv
<1>1. body[o] \in Versions BY DEF TypeOK
<1>2. TypeOK'
  <2>1. at' \in [Workers -> Doing] BY <1>1, DoingValues DEF TypeOK, ClaimBuild
  <2>2. status' \in [Objects -> {"pending", "building", "built", "failed"}]
    BY DEF TypeOK, ClaimBuild
  <2> QED BY <2>1, <2>2 DEF TypeOK, ClaimBuild
<1>3. BuiltMatchesBody' BY DEF BuiltMatchesBody, ClaimBuild, TypeOK
<1>4. CallsRunWhatWasClaimed' BY DEF CallsRunWhatWasClaimed, ClaimBuild
<1>5. at'[w] = Building(o, body[o]) BY DEF ClaimBuild, TypeOK
<1>6. \A u \in Workers : u = w BY DEF SingleWorker
<1>7. BuildInv'
  <2> SUFFICES ASSUME NEW q \in Objects, NEW v \in Versions, NEW end \in Outcomes
               PROVE  /\ at'[w] = Building(q, v) =>
                             status'[q] # "built" /\ body'[q] = v
                      /\ at'[w] # Built(q, v, end)
    BY <1>6 DEF BuildInv
  <2>1. at'[w] = Building(q, v) => q = o /\ v = body[o] BY <1>5, SameBuilding
  <2>2. at'[w] # Built(q, v, end) BY <1>5, Distinct
  <2>3. status'[o] = "building" /\ body' = body BY DEF ClaimBuild, TypeOK
  <2> QED BY <2>1, <2>2, <2>3
<1>8. CallInv'
  <2> SUFFICES ASSUME NEW c \in BodyCalls, NEW v \in Versions PROVE at'[w] # Calling(c, v)
    BY <1>6 DEF CallInv
  <2> QED BY <1>5, Distinct
<1> QED BY <1>2, <1>3, <1>4, <1>7, <1>8

\* What is installed is the version that was read.
LEMMA RunBuildStep ==
    ASSUME SingleWorker, BuildsInv, NEW w \in Workers, NEW o \in Objects, RunBuild(w, o)
    PROVE  BuildsInv'
<1> USE DEF BuildsInv
<1>1. PICK v \in Versions, k \in Outcomes :
        /\ at[w] = Building(o, v)
        /\ installed' = IF k = "built" THEN [installed EXCEPT ![o] = v] ELSE installed
        /\ at' = [at EXCEPT ![w] = Built(o, v, k)]
        /\ UNCHANGED <<body, status, call, ran, crashes>>
  BY DEF RunBuild
<1>2. TypeOK'
  <2>1. at' \in [Workers -> Doing] BY <1>1, DoingValues DEF TypeOK
  <2>2. v \in 0..MaxVersion BY DEF Versions
  <2>3. installed' \in [Objects -> 0..MaxVersion] BY <1>1, <2>2 DEF TypeOK
  <2> QED BY <2>1, <2>3, <1>1 DEF TypeOK
<1>3. status[o] # "built" /\ (status[o] = "building" => body[o] = v)
  BY <1>1 DEF BuildInv, Outcomes
<1>4. BuiltMatchesBody' BY <1>1, <1>3 DEF BuiltMatchesBody, TypeOK
<1>5. CallsRunWhatWasClaimed' BY <1>1 DEF CallsRunWhatWasClaimed
<1>6. \A u \in Workers : u = w BY DEF SingleWorker
<1>7. at'[w] = Built(o, v, k) BY <1>1 DEF TypeOK
<1>8. BuildInv'
  <2> SUFFICES ASSUME NEW q \in Objects, NEW x \in Versions, NEW end \in Outcomes
               PROVE  /\ at'[w] # Building(q, x)
                      /\ at'[w] = Built(q, x, end) =>
                             /\ status'[q] # "built"
                             /\ status'[q] = "building" /\ end = "built" => body'[q] = x /\ installed'[q] = x
    BY <1>6 DEF BuildInv
  <2>1. at'[w] # Building(q, x) BY <1>7, Distinct
  <2>2. at'[w] = Built(q, x, end) => q = o /\ x = v /\ end = k
    <3>1. Built(o, v, k) = Built(q, x, end) => o = q /\ v = x /\ k = end BY SameBuilt
    <3> QED BY <1>7, <3>1
  <2>3. k = "built" => installed'[o] = v BY <1>1 DEF TypeOK
  <2> QED BY <1>1, <1>3, <2>1, <2>2, <2>3
<1>9. CallInv'
  <2> SUFFICES ASSUME NEW c \in BodyCalls, NEW x \in Versions PROVE at'[w] # Calling(c, x)
    BY <1>6 DEF CallInv
  <2> QED BY <1>7, Distinct
<1> QED BY <1>2, <1>4, <1>5, <1>8, <1>9

\* A result for a body that has been edited since is not taken.
LEMMA SubmitBuildStep ==
    ASSUME SingleWorker, BuildsInv, NEW w \in Workers, NEW o \in Objects, SubmitBuild(w, o)
    PROVE  BuildsInv'
<1> USE DEF BuildsInv
<1>1. PICK v \in Versions, end \in Outcomes :
        /\ at[w] = Built(o, v, end)
        /\ status' = IF status[o] = "building"
                     THEN [status EXCEPT ![o] = end]
                     ELSE status
        /\ at' = [at EXCEPT ![w] = Idle]
        /\ UNCHANGED <<body, installed, call, ran, crashes>>
  BY DEF SubmitBuild
<1>2. TypeOK'
  <2>1. at' \in [Workers -> Doing] BY <1>1, DoingValues DEF TypeOK
  <2>2. status' \in [Objects -> {"pending", "building", "built", "failed"}]
    BY <1>1 DEF TypeOK, Outcomes
  <2> QED BY <2>1, <2>2, <1>1 DEF TypeOK
<1>3. status[o] = "building" /\ end = "built" => body[o] = v /\ installed[o] = v BY <1>1 DEF BuildInv
<1>4. BuiltMatchesBody' BY <1>1, <1>3 DEF BuiltMatchesBody, TypeOK, Outcomes
<1>5. CallsRunWhatWasClaimed' BY <1>1 DEF CallsRunWhatWasClaimed
<1>6. at'[w] = Idle BY <1>1 DEF TypeOK
<1>7. BuildInv' /\ CallInv'
  <2>1. \A q \in Objects, x \in Versions : at'[w] # Building(q, x) BY <1>6, Distinct
  <2>2. \A q \in Objects, x \in Versions, k \in Outcomes : at'[w] # Built(q, x, k) BY <1>6, Distinct
  <2>3. \A c \in BodyCalls, x \in Versions : at'[w] # Calling(c, x) BY <1>6, Distinct
  <2> QED BY <2>1, <2>2, <2>3, NothingHeld
<1> QED BY <1>2, <1>4, <1>5, <1>7

\* A call is claimed for an object that is built, and for what is installed.
LEMMA ClaimCallStep ==
    ASSUME SingleWorker, BuildsInv, NEW w \in Workers, NEW c \in BodyCalls, ClaimCall(w, c)
    PROVE  BuildsInv'
<1> USE DEF BuildsInv
<1> DEFINE v == body[TargetOf[c]]
<1>1. TargetOf[c] \in Objects BY BuildAssumption
<1>2. v \in Versions /\ installed[TargetOf[c]] = v
  BY <1>1 DEF TypeOK, ClaimCall, Callable, BuiltMatchesBody
<1>3. at' = [at EXCEPT ![w] = Calling(c, v)] BY DEF ClaimCall
<1> HIDE DEF v
<1>4. TypeOK'
  <2>1. at' \in [Workers -> Doing] BY <1>2, <1>3, DoingValues DEF TypeOK
  <2>2. call' \in [BodyCalls -> {"none", "queued", "in_flight", "done", "lost"}]
    BY DEF TypeOK, ClaimCall
  <2> QED BY <2>1, <2>2 DEF TypeOK, ClaimCall
<1>5. BuiltMatchesBody' BY DEF BuiltMatchesBody, ClaimCall
<1>6. CallsRunWhatWasClaimed' BY DEF CallsRunWhatWasClaimed, ClaimCall
<1>7. at'[w] = Calling(c, v) BY <1>3 DEF TypeOK
<1>8. \A u \in Workers : u = w BY DEF SingleWorker
<1>9. BuildInv'
  <2> SUFFICES ASSUME NEW q \in Objects, NEW x \in Versions, NEW end \in Outcomes
               PROVE  at'[w] # Building(q, x) /\ at'[w] # Built(q, x, end)
    BY <1>8 DEF BuildInv
  <2> QED BY <1>7, Distinct
<1>10. CallInv'
  <2> SUFFICES ASSUME NEW d \in BodyCalls, NEW x \in Versions, at'[w] = Calling(d, x)
               PROVE  installed'[TargetOf[d]] = x
    BY <1>8 DEF CallInv
  <2>1. d = c /\ x = v BY <1>7, SameCalling
  <2> QED BY <2>1, <1>2 DEF ClaimCall
<1> QED BY <1>4, <1>5, <1>6, <1>9, <1>10

\* The worker puts down what it held.
LEMMA PutDown ==
    ASSUME SingleWorker, NEW w \in Workers, NEW c \in BodyCalls, at'[w] \in {Idle, Called(c)}
    PROVE  BuildInv' /\ CallInv'
<1>1. \A q \in Objects, x \in Versions : at'[w] # Building(q, x) BY Distinct
<1>2. \A q \in Objects, x \in Versions, k \in Outcomes : at'[w] # Built(q, x, k) BY Distinct
<1>3. \A d \in BodyCalls, x \in Versions : at'[w] # Calling(d, x) BY Distinct
<1> QED BY <1>1, <1>2, <1>3, NothingHeld

\* Nothing was built between the claim and the call.
LEMMA RunCallStep ==
    ASSUME SingleWorker, BuildsInv, NEW w \in Workers, NEW c \in BodyCalls, RunCall(w, c)
    PROVE  BuildsInv'
<1> USE DEF BuildsInv
<1>1. PICK v \in Versions :
        /\ at[w] = Calling(c, v)
        /\ ran' = [ran EXCEPT ![c] = [meant |-> v, got |-> installed[TargetOf[c]]]]
        /\ at' = [at EXCEPT ![w] = Called(c)]
        /\ UNCHANGED <<body, status, installed, call, crashes>>
  BY DEF RunCall
<1>2. installed[TargetOf[c]] = v BY <1>1 DEF CallInv
<1>3. TypeOK'
  <2>1. at' \in [Workers -> Doing] BY <1>1, DoingValues DEF TypeOK
  <2>2. v \in 0..MaxVersion BY DEF Versions
  <2>3. ran' \in [BodyCalls -> [meant : 0..MaxVersion, got : 0..MaxVersion]]
    BY <1>1, <1>2, <2>2 DEF TypeOK
  <2> QED BY <2>1, <2>3, <1>1 DEF TypeOK
<1>4. BuiltMatchesBody' BY <1>1 DEF BuiltMatchesBody
<1>5. CallsRunWhatWasClaimed'
  <2>1. ran' = [ran EXCEPT ![c] = [meant |-> v, got |-> v]] BY <1>1, <1>2
  <2> QED BY <2>1 DEF CallsRunWhatWasClaimed, TypeOK
<1>6. at'[w] = Called(c) BY <1>1 DEF TypeOK
<1>7. BuildInv' /\ CallInv' BY <1>6, PutDown
<1> QED BY <1>3, <1>4, <1>5, <1>7

\* A result leaves the builds alone.
LEMMA SubmitCallStep ==
    ASSUME SingleWorker, BuildsInv, NEW w \in Workers, NEW c \in BodyCalls, SubmitCall(w, c)
    PROVE  BuildsInv'
<1> USE DEF BuildsInv
<1>1. TypeOK'
  <2>1. at' \in [Workers -> Doing] BY DoingValues DEF TypeOK, SubmitCall
  <2>2. call' \in [BodyCalls -> {"none", "queued", "in_flight", "done", "lost"}]
    BY DEF TypeOK, SubmitCall
  <2> QED BY <2>1, <2>2 DEF TypeOK, SubmitCall
<1>2. BuiltMatchesBody' BY DEF BuiltMatchesBody, SubmitCall
<1>3. CallsRunWhatWasClaimed' BY DEF CallsRunWhatWasClaimed, SubmitCall
<1>4. at'[w] = Idle BY DEF TypeOK, SubmitCall
<1>5. BuildInv' /\ CallInv' BY <1>4, PutDown
<1> QED BY <1>1, <1>2, <1>3, <1>5

\* What is in flight while the worker is idle belongs to nobody.
LEMMA WatchdogStep ==
    ASSUME BuildsInv, NEW w \in Workers, BuildWatchdog(w)
    PROVE  BuildsInv'
<1> USE DEF BuildsInv
<1>1. PICK redo \in SUBSET {o \in Objects : status[o] = "building"},
           lost \in SUBSET {c \in BodyCalls : call[c] = "in_flight"} :
        /\ status' = [o \in Objects |-> IF o \in redo THEN "pending" ELSE status[o]]
        /\ call' = [c \in BodyCalls |-> IF c \in lost THEN "lost" ELSE call[c]]
        /\ UNCHANGED <<body, installed, at, ran, crashes>>
  BY DEF BuildWatchdog
<1>2. TypeOK' BY <1>1 DEF TypeOK
<1>3. BuiltMatchesBody' BY <1>1 DEF BuiltMatchesBody
<1>4. CallsRunWhatWasClaimed' BY <1>1 DEF CallsRunWhatWasClaimed
<1>5. \A q \in Objects : /\ status'[q] = "built" => status[q] = "built"
                         /\ status'[q] = "building" => status[q] = "building" /\ body'[q] = body[q]
  BY <1>1
<1>6. BuildInv' /\ CallInv' BY <1>1, <1>5, RowsOnly
<1> QED BY <1>2, <1>3, <1>4, <1>6

\* A restarted worker holds nothing.
LEMMA CrashStep ==
    ASSUME SingleWorker, BuildsInv, NEW w \in Workers, Crash(w)
    PROVE  BuildsInv'
<1> USE DEF BuildsInv
<1>1. TypeOK'
  <2>1. at' \in [Workers -> Doing] BY DoingValues DEF TypeOK, Crash
  <2>2. crashes' \in 0..MaxCrashes BY BuildAssumption DEF TypeOK, Crash
  <2> QED BY <2>1, <2>2 DEF TypeOK, Crash
<1>2. BuiltMatchesBody' BY DEF BuiltMatchesBody, Crash
<1>3. CallsRunWhatWasClaimed' BY DEF CallsRunWhatWasClaimed, Crash
<1>4. at'[w] = Idle BY DEF TypeOK, Crash
<1>5. BuildInv' /\ CallInv'
  <2>1. \A q \in Objects, x \in Versions : at'[w] # Building(q, x) BY <1>4, Distinct
  <2>2. \A q \in Objects, x \in Versions, k \in Outcomes : at'[w] # Built(q, x, k) BY <1>4, Distinct
  <2>3. \A c \in BodyCalls, x \in Versions : at'[w] # Calling(c, x) BY <1>4, Distinct
  <2> QED BY <2>1, <2>2, <2>3, NothingHeld
<1> QED BY <1>1, <1>2, <1>3, <1>5

\* Every step keeps the invariant.
LEMMA BuildsStep ==
    ASSUME SingleWorker, BuildsInv, [BuildNext]_buildVars
    PROVE  BuildsInv'
<1>1. CASE UNCHANGED buildVars
  BY <1>1 DEF buildVars, BuildsInv, TypeOK, BuiltMatchesBody, CallsRunWhatWasClaimed, BuildInv, CallInv
<1>2. ASSUME NEW o \in Objects, Edit(o) PROVE BuildsInv' BY <1>2, EditStep
<1>3. ASSUME NEW c \in BodyCalls, QueueCall(c) PROVE BuildsInv' BY <1>3, QueueStep
<1>4. ASSUME NEW w \in Workers, BuildWatchdog(w) PROVE BuildsInv' BY <1>4, WatchdogStep
<1>5. ASSUME NEW w \in Workers, Crash(w) PROVE BuildsInv' BY <1>5, CrashStep
<1>6. ASSUME NEW w \in Workers, Pump(w) PROVE BuildsInv'
  <2>1. \/ \E o \in Objects : ClaimBuild(w, o) \/ RunBuild(w, o) \/ SubmitBuild(w, o)
        \/ \E c \in BodyCalls : ClaimCall(w, c) \/ RunCall(w, c) \/ SubmitCall(w, c)
    BY <1>6 DEF Pump, PumpFunctionBuilds, PumpFunctionCalls, PumpProcedureBuilds,
                PumpProcedureCalls, Objects
  <2>2. ASSUME NEW o \in Objects, ClaimBuild(w, o) \/ RunBuild(w, o) \/ SubmitBuild(w, o)
        PROVE  BuildsInv'
    BY <2>2, ClaimBuildStep, RunBuildStep, SubmitBuildStep
  <2>3. ASSUME NEW c \in BodyCalls, ClaimCall(w, c) \/ RunCall(w, c) \/ SubmitCall(w, c)
        PROVE  BuildsInv'
    BY <2>3, ClaimCallStep, RunCallStep, SubmitCallStep
  <2> QED BY <2>1, <2>2, <2>3
<1> QED BY <1>1, <1>2, <1>3, <1>4, <1>5, <1>6 DEF BuildNext

-----------------------------------------------------------------------------
\* With one worker "built" always means that the object in the schema is the
\* body in the row, however edits, builds, crashes and sweeps interleave.
THEOREM BuiltIsCurrent == ASSUME SingleWorker PROVE BuildSpec => []BuiltMatchesBody
<1>1. BuildsInv /\ [BuildNext]_buildVars => BuildsInv' BY BuildsStep
<1>2. BuildsInv => BuiltMatchesBody BY DEF BuildsInv
<1> QED BY <1>1, <1>2, InitBuilds, PTL DEF BuildSpec

\* With one worker a call runs the version it was claimed for.
THEOREM CallsAreConsistent == ASSUME SingleWorker PROVE BuildSpec => []CallsRunWhatWasClaimed
<1>1. BuildsInv /\ [BuildNext]_buildVars => BuildsInv' BY BuildsStep
<1>2. BuildsInv => CallsRunWhatWasClaimed BY DEF BuildsInv
<1> QED BY <1>1, <1>2, InitBuilds, PTL DEF BuildSpec

-----------------------------------------------------------------------------
(* SpiWorker.                                                                *)

Working == {"claimed", "running", "submit"}

SpiTypes ==
    /\ row \in [Calls -> {"none", "queued", "in_flight", "done", "lost"}]
    /\ seen \in [Calls -> {"none", "queued", "in_flight", "done", "lost"}]
    /\ stuck \in BOOLEAN
    /\ pc \in Working \cup {"idle", "down"}
    /\ pc \in Working => job \in Calls
    /\ runs \in [Calls -> Nat]

\* The worker sees what is committed unless a subtransaction keeps its writes
\* from being committed.
SeenCommitted == ~stuck => seen = row

SpiInv == SpiTypes /\ SeenCommitted

\* What the claim's own transaction buys: a statement that was never claimed
\* has not run, one that is claimed has not run yet, and a claim in hand is
\* on record, as in flight or, after a cancel, as lost.
ClaimedFirst ==
    /\ \A c \in Once : row[c] \in {"none", "queued"} => runs[c] = 0
    /\ pc = "claimed" /\ job \in Once => runs[job] = 0
    /\ pc \in Working /\ job \in Once => row[job] \in {"in_flight", "lost"}
    /\ \A c \in Once : runs[c] <= 1

\* Nothing is queued, committed or hidden at the start.
LEMMA InitSpi == Init => SpiInv /\ ClaimedFirst
  <1> SUFFICES ASSUME Init PROVE SpiInv /\ ClaimedFirst
    OBVIOUS
  <1>1. SpiTypes
    BY DEF Init, SpiTypes, Working
  <1>2. SeenCommitted
    BY DEF Init, SeenCommitted
  <1>3. ClaimedFirst
    BY DEF Init, ClaimedFirst, Working, Once
  <1> QED BY <1>1, <1>2, <1>3 DEF SpiInv

\* A row the worker writes changes in its own view, and in the table unless a
\* subtransaction is open.
LEMMA WriteRowFacts ==
  ASSUME SpiInv, NEW c \in Calls,
         NEW s \in {"none", "queued", "in_flight", "done", "lost"},
         WriteRow(c, s), UNCHANGED stuck
  PROVE  /\ row' \in [Calls -> {"none", "queued", "in_flight", "done", "lost"}]
         /\ seen' \in [Calls -> {"none", "queued", "in_flight", "done", "lost"}]
         /\ SeenCommitted'
         /\ stuck => row' = row
         /\ ~stuck => row' = [row EXCEPT ![c] = s]
  BY DEF SpiInv, SpiTypes, SeenCommitted, WriteRow

\* A row another backend writes changes in both.
LEMMA WriteOutsideFacts ==
  ASSUME SpiInv, NEW c \in Calls,
         NEW s \in {"none", "queued", "in_flight", "done", "lost"},
         WriteOutside(c, s), UNCHANGED stuck
  PROVE  /\ row' \in [Calls -> {"none", "queued", "in_flight", "done", "lost"}]
         /\ seen' \in [Calls -> {"none", "queued", "in_flight", "done", "lost"}]
         /\ SeenCommitted'
         /\ row' = [row EXCEPT ![c] = s]
  BY DEF SpiInv, SpiTypes, SeenCommitted, WriteOutside

\* Types, and the worker's view, under every step.
LEMMA SpiStep == SpiInv /\ [Next]_vars => SpiInv'
  <1> SUFFICES ASSUME SpiInv, [Next]_vars PROVE SpiInv'
    OBVIOUS
  <1> USE DEF Working
  <1>1. ASSUME NEW c \in Calls, Enqueue(c) PROVE SpiInv'
    <2>1. WriteOutside(c, "queued") /\ UNCHANGED <<stuck, pc, job, runs>>
      BY <1>1 DEF Enqueue, worker
    <2> QED BY <2>1, WriteOutsideFacts DEF SpiInv, SpiTypes
  <1>2. ASSUME NEW c \in Calls, CancelSession(c) PROVE SpiInv'
    <2>1. WriteOutside(c, "lost") /\ UNCHANGED <<stuck, pc, job, runs>>
      BY <1>2 DEF CancelSession, worker
    <2> QED BY <2>1, WriteOutsideFacts DEF SpiInv, SpiTypes
  <1>3. ASSUME NEW c \in Calls, Claim(c) PROVE SpiInv'
    <2>1. /\ WriteRow(c, "in_flight") /\ UNCHANGED <<stuck, runs>>
          /\ pc' = "claimed" /\ job' = c
      BY <1>3 DEF Claim
    <2> QED BY <2>1, WriteRowFacts DEF SpiInv, SpiTypes
  <1>4. ASSUME NEW c \in Calls, Watchdog(c) PROVE SpiInv'
    <2>1. UNCHANGED <<stuck, pc, job, runs>>
      BY <1>4 DEF Watchdog, worker
    <2>2. PICK s \in {"queued", "lost"} : WriteRow(c, s)
      BY <1>4 DEF Watchdog
    <2> QED BY <2>1, <2>2, WriteRowFacts DEF SpiInv, SpiTypes
  <1>5. CASE Begin
    <2>1. runs' \in [Calls -> Nat]
      BY <1>5 DEF Begin, Started, SpiInv, SpiTypes
    <2> QED BY <1>5, <2>1 DEF Begin, SpiInv, SpiTypes, SeenCommitted
  <1>6. CASE BeginFails \/ Finish \/ Raise \/ CancelCaught \/ TimerFires
    BY <1>6 DEF BeginFails, Finish, Raise, CancelCaught, TimerFires, worker,
                SpiInv, SpiTypes, SeenCommitted
  <1>7. ASSUME NEW d \in DropOutcomes, Submit(d) PROVE SpiInv'
    <2>1. /\ job \in Calls /\ pc' = "idle" /\ UNCHANGED <<stuck, runs>>
      BY <1>7 DEF Submit, SpiInv, SpiTypes
    <2>2. CASE WriteRow(job, "done")
      BY <2>1, <2>2, WriteRowFacts DEF SpiInv, SpiTypes
    <2>3. CASE UNCHANGED <<row, seen>>
      BY <2>1, <2>3 DEF SpiInv, SpiTypes, SeenCommitted
    <2> QED BY <1>7, <2>2, <2>3 DEF Submit
  <1>8. CASE Die \/ Restart
    BY <1>8 DEF Die, Restart, SpiInv, SpiTypes, SeenCommitted
  <1>9. CASE UNCHANGED vars
    BY <1>9 DEF vars, worker, SpiInv, SpiTypes, SeenCommitted
  <1> QED BY <1>1, <1>2, <1>3, <1>4, <1>5, <1>6, <1>7, <1>8, <1>9 DEF Next

\* The worker's view is the committed one, or a subtransaction is open.
LEMMA SpiInvariance == Spec => []SpiInv
  <1>1. Init => SpiInv
    BY InitSpi
  <1> QED BY <1>1, SpiStep, PTL DEF Spec

\* The claim stays ahead of the run as long as no subtransaction is left open.
LEMMA ClaimedFirstStep ==
  ASSUME SpiInv, ClaimedFirst, ~stuck, ~stuck', [Next]_vars
  PROVE  ClaimedFirst'
  <1> USE DEF Working
  <1>1. seen = row
    BY DEF SpiInv, SeenCommitted
  <1>2. ASSUME NEW c \in Calls, Enqueue(c) PROVE ClaimedFirst'
    <2>1. /\ row' = [row EXCEPT ![c] = "queued"] /\ row[c] = "none"
          /\ UNCHANGED <<pc, job, runs>>
      BY <1>2 DEF Enqueue, WriteOutside, worker
    <2> QED BY <2>1 DEF ClaimedFirst, SpiInv, SpiTypes, Once
  <1>3. ASSUME NEW c \in Calls, CancelSession(c) PROVE ClaimedFirst'
    <2>1. row' = [row EXCEPT ![c] = "lost"] /\ UNCHANGED <<pc, job, runs>>
      BY <1>3 DEF CancelSession, WriteOutside, worker
    <2> QED BY <2>1 DEF ClaimedFirst, SpiInv, SpiTypes, Once
  <1>4. ASSUME NEW c \in Calls, Claim(c) PROVE ClaimedFirst'
    <2>1. /\ row' = [row EXCEPT ![c] = "in_flight"] /\ row[c] = "queued"
          /\ pc' = "claimed" /\ job' = c /\ runs' = runs
      BY <1>1, <1>4 DEF Claim, WriteRow
    <2> QED BY <2>1 DEF ClaimedFirst, SpiInv, SpiTypes, Once
  <1>5. ASSUME NEW c \in Calls, Watchdog(c) PROVE ClaimedFirst'
    <2>1. /\ row[c] = "in_flight" /\ pc = "idle" /\ UNCHANGED <<pc, job, runs>>
          /\ row' = [row EXCEPT ![c] = IF KindOf[c] = "build" THEN "queued" ELSE "lost"]
      BY <1>1, <1>5 DEF Watchdog, WriteRow, worker
    <2> QED BY <2>1 DEF ClaimedFirst, SpiInv, SpiTypes, Once
  <1>6. CASE Begin
    <2>1. /\ pc = "claimed" /\ pc' = "running" /\ UNCHANGED <<row, job>>
          /\ runs' = [runs EXCEPT ![job] = IF @ < 2 THEN @ + 1 ELSE @] /\ job \in Calls
      BY <1>6 DEF Begin, Started, SpiInv, SpiTypes
    <2> QED BY <2>1 DEF ClaimedFirst, SpiInv, SpiTypes, Once
  <1>7. CASE BeginFails
    BY <1>7 DEF BeginFails
  <1>8. CASE Finish \/ Raise \/ CancelCaught \/ TimerFires
    BY <1>8 DEF Finish, Raise, CancelCaught, TimerFires, worker, ClaimedFirst
  <1>9. ASSUME NEW d \in DropOutcomes, Submit(d) PROVE ClaimedFirst'
    <2>1. pc = "submit" /\ pc' = "idle" /\ runs' = runs /\ job \in Calls
      BY <1>9 DEF Submit, SpiInv, SpiTypes
    <2>2. row' = row \/ row' = [row EXCEPT ![job] = "done"]
      BY <1>1, <1>9 DEF Submit, WriteRow
    <2> QED BY <2>1, <2>2 DEF ClaimedFirst, SpiInv, SpiTypes, Once
  <1>10. CASE Die \/ Restart
    BY <1>10 DEF Die, Restart, ClaimedFirst
  <1>11. CASE UNCHANGED vars
    BY <1>11 DEF vars, worker, ClaimedFirst
  <1> QED BY <1>2, <1>3, <1>4, <1>5, <1>6, <1>7, <1>8, <1>9, <1>10, <1>11 DEF Next

\* A committed end is not taken back, whether a subtransaction is open or not.
LEMMA EndsStep ==
  ASSUME SpiInv, [Next]_vars, NEW c \in Calls, row[c] \in {"done", "lost"}
  PROVE  row'[c] = row[c]
  <1>1. ASSUME NEW k \in Calls, Enqueue(k) \/ CancelSession(k) PROVE row'[c] = row[c]
    BY <1>1 DEF Enqueue, CancelSession, WriteOutside, SpiInv, SpiTypes
  <1>2. ASSUME NEW k \in Calls, Claim(k) \/ Watchdog(k) PROVE row'[c] = row[c]
    BY <1>2 DEF Claim, Watchdog, WriteRow, SpiInv, SpiTypes, SeenCommitted
  <1>3. ASSUME NEW d \in DropOutcomes, Submit(d) PROVE row'[c] = row[c]
    BY <1>3 DEF Submit, WriteRow, SpiInv, SpiTypes, SeenCommitted
  <1>4. CASE \/ Begin \/ BeginFails \/ Finish \/ Raise \/ CancelCaught \/ TimerFires
             \/ Die \/ Restart \/ UNCHANGED vars
    BY <1>4 DEF Begin, BeginFails, Finish, Raise, CancelCaught, TimerFires, Die,
                Restart, vars
  <1> QED BY <1>1, <1>2, <1>3, <1>4 DEF Next

\* As long as no subtransaction is left open, the claim stays ahead of the run.
LEMMA ClaimsComeFirst == Spec => ([]~stuck => []ClaimedFirst)
  <1>1. Init => ClaimedFirst
    BY InitSpi
  <1>2. SpiInv /\ ClaimedFirst /\ ~stuck /\ (~stuck)' /\ [Next]_vars => ClaimedFirst'
    BY ClaimedFirstStep
  <1> QED BY <1>1, <1>2, SpiInvariance, PTL DEF Spec

\* Whatever is cancelled, times out, raises or dies, and however often the worker
\* restarts: no statement of a call is started twice as long as no subtransaction
\* is left open, and no committed end of a row is ever taken back.
THEOREM NothingTwice == Spec => OnceOnly
  <1>1. ClaimedFirst => \A c \in Calls : KindOf[c] # "build" => runs[c] <= 1
    BY DEF ClaimedFirst, Once
  <1>2. Spec => RunsOnce
    BY <1>1, ClaimsComeFirst, PTL DEF RunsOnce
  <1>3. SpiInv /\ [Next]_vars
          => [\A c \in Calls : row[c] \in {"done", "lost"} => row'[c] = row[c]]_vars
    BY EndsStep
  <1>4. Spec => EndsOnce
    BY <1>3, SpiInvariance, PTL DEF Spec, EndsOnce
  <1> QED BY <1>2, <1>4 DEF OnceOnly

-----------------------------------------------------------------------------
(* The refinement. Status, Pending and Sent are what the mapping substitutes *)
(* for the variables of OutboundCalls.                                       *)

Status == [c \in Once |-> row[c]]
Pending == {c \in Once : pc = "claimed" /\ job = c}
Sent == [c \in Once |-> runs[c]]

\* A step that changes neither a call's row nor its runs, and takes nothing in
\* hand, is at most a request given up.
LEMMA QuietSpiStep ==
  ASSUME UNCHANGED <<row, runs>>, pc' # "claimed" \/ UNCHANGED <<pc, job>>
  PROVE  Abstract!Next \/ UNCHANGED <<Status, Pending, Sent>>
  <1>1. CASE UNCHANGED <<pc, job>>
    BY <1>1 DEF Status, Pending, Sent
  <1>2. CASE pc' # "claimed"
    <2>1. Pending' = {} /\ Pending \subseteq Once
      BY <1>2 DEF Pending
    <2>2. Status' = Status /\ Sent' = Sent
      BY DEF Status, Sent
    <2>3. PICK S \in SUBSET Once : S = Pending
      BY <2>1
    <2>4. Abstract!Forget(S)
      BY <2>1, <2>2, <2>3 DEF Abstract!Forget, Status, Pending, Sent
    <2> QED BY <2>4 DEF Abstract!Next
  <1> QED BY <1>1, <1>2

\* A row that another state is written to, of a build or of a call.
LEMMA StatusOf ==
  ASSUME SpiInv, NEW c \in Calls, NEW s, row' = [row EXCEPT ![c] = s]
  PROVE  /\ c \notin Once => Status' = Status
         /\ c \in Once => Status' = [Status EXCEPT ![c] = s]
  BY DEF Status, SpiInv, SpiTypes, Once

\* Every step of the worker with no subtransaction left open is a step of the
\* abstract life of a call, or changes nothing of it.
LEMMA SpiRefinesStep ==
  ASSUME SpiInv, ClaimedFirst, ~stuck, ~stuck', [Next]_vars
  PROVE  Abstract!Next \/ UNCHANGED <<Status, Pending, Sent>>
  <1>1. seen = row
    BY DEF SpiInv, SeenCommitted
  <1>2. ASSUME NEW c \in Calls, Enqueue(c)
        PROVE  Abstract!Next \/ UNCHANGED <<Status, Pending, Sent>>
    <2>1. /\ row' = [row EXCEPT ![c] = "queued"] /\ row[c] = "none"
          /\ UNCHANGED <<pc, job, runs>>
      BY <1>2 DEF Enqueue, WriteOutside, worker
    <2>2. UNCHANGED <<Pending, Sent>>
      BY <2>1 DEF Pending, Sent
    <2>3. CASE c \in Once
      <3>1. Abstract!Queue(c)
        BY <2>1, <2>2, <2>3, StatusOf DEF Abstract!Queue, Status, Pending, Sent
      <3> QED BY <2>3, <3>1 DEF Abstract!Next
    <2> QED BY <2>1, <2>2, <2>3, StatusOf
  <1>3. ASSUME NEW c \in Calls, CancelSession(c)
        PROVE  Abstract!Next \/ UNCHANGED <<Status, Pending, Sent>>
    <2>1. /\ row' = [row EXCEPT ![c] = "lost"] /\ row[c] \in {"queued", "in_flight"}
          /\ UNCHANGED <<pc, job, runs>>
      BY <1>3 DEF CancelSession, WriteOutside, worker
    <2>2. UNCHANGED <<Pending, Sent>>
      BY <2>1 DEF Pending, Sent
    <2>3. CASE c \in Once
      <3>1. Abstract!WriteOff(c)
        BY <2>1, <2>2, <2>3, StatusOf DEF Abstract!WriteOff, Status, Pending, Sent
      <3> QED BY <2>3, <3>1 DEF Abstract!Next
    <2> QED BY <2>1, <2>2, <2>3, StatusOf
  <1>4. ASSUME NEW c \in Calls, Claim(c)
        PROVE  Abstract!Next \/ UNCHANGED <<Status, Pending, Sent>>
    <2>1. /\ row' = [row EXCEPT ![c] = "in_flight"] /\ row[c] = "queued"
          /\ pc = "idle" /\ pc' = "claimed" /\ job' = c /\ runs' = runs
      BY <1>1, <1>4 DEF Claim, WriteRow
    <2>2. UNCHANGED Sent
      BY <2>1 DEF Sent
    <2>3. CASE c \in Once
      <3>1. Pending = {} /\ Pending' = {c}
        BY <2>1, <2>3 DEF Pending
      <3>2. {c} \in SUBSET Abstract!In("queued") /\ {} \in SUBSET Abstract!In("in_flight")
        BY <2>1, <2>3 DEF Abstract!In
      <3>3. Status' = [k \in Once |-> IF k \in {c} THEN "in_flight"
                                      ELSE IF k \in {} THEN "lost" ELSE Status[k]]
        <4>1. Status' = [Status EXCEPT ![c] = "in_flight"]
          BY <2>1, <2>3, StatusOf
        <4> QED BY <4>1 DEF Status
      <3>4. Abstract!Claim({c}, {})
        BY <2>2, <3>1, <3>2, <3>3 DEF Abstract!Claim, Status, Pending, Sent
      <3> QED BY <3>2, <3>4 DEF Abstract!Next
    <2>4. CASE c \notin Once
      <3>1. Pending = {} /\ Pending' = {}
        BY <2>1, <2>4 DEF Pending
      <3> QED BY <2>1, <2>2, <2>4, <3>1, StatusOf
    <2> QED BY <2>3, <2>4
  <1>5. ASSUME NEW c \in Calls, Watchdog(c)
        PROVE  Abstract!Next \/ UNCHANGED <<Status, Pending, Sent>>
    <2>1. /\ row[c] = "in_flight" /\ UNCHANGED <<pc, job, runs>>
          /\ row' = [row EXCEPT ![c] = IF KindOf[c] = "build" THEN "queued" ELSE "lost"]
      BY <1>1, <1>5 DEF Watchdog, WriteRow, worker
    <2>2. UNCHANGED <<Pending, Sent>>
      BY <2>1 DEF Pending, Sent
    <2>3. CASE c \in Once
      <3>1. row' = [row EXCEPT ![c] = "lost"]
        BY <2>1, <2>3 DEF Once
      <3>2. Abstract!WriteOff(c)
        BY <2>1, <2>2, <2>3, <3>1, StatusOf DEF Abstract!WriteOff, Status, Pending, Sent
      <3> QED BY <2>3, <3>2 DEF Abstract!Next
    <2> QED BY <2>1, <2>2, <2>3, StatusOf
  <1>6. CASE Begin
    <2>1. /\ pc = "claimed" /\ pc' = "running" /\ UNCHANGED <<row, job>>
          /\ runs' = [runs EXCEPT ![job] = IF @ < 2 THEN @ + 1 ELSE @] /\ job \in Calls
      BY <1>6 DEF Begin, Started, SpiInv, SpiTypes, Working
    <2>2. Status' = Status /\ Pending' = {}
      BY <2>1 DEF Status, Pending
    <2>3. CASE job \in Once
      <3>1. Pending = {job}
        BY <2>1, <2>3 DEF Pending
      <3>2. runs[job] = 0
        BY <2>1, <2>3 DEF ClaimedFirst
      <3>3. runs' = [runs EXCEPT ![job] = 1]
        BY <2>1, <3>2 DEF SpiInv, SpiTypes
      <3>4. Sent' = [Sent EXCEPT ![job] = 1] /\ Sent[job] = 0
        BY <2>3, <3>2, <3>3 DEF Sent, SpiInv, SpiTypes, Once
      <3>5. PICK c \in Once : c = job
        BY <2>3
      <3>6. Abstract!Send(c)
        BY <2>2, <3>1, <3>4, <3>5 DEF Abstract!Send, Status, Pending, Sent
      <3> QED BY <3>6 DEF Abstract!Next
    <2>4. CASE job \notin Once
      <3>1. Pending = {} /\ Sent' = Sent
        BY <2>1, <2>4 DEF Pending, Sent, SpiInv, SpiTypes
      <3> QED BY <2>2, <3>1
    <2> QED BY <2>3, <2>4
  <1>7. ASSUME NEW d \in DropOutcomes, Submit(d)
        PROVE  Abstract!Next \/ UNCHANGED <<Status, Pending, Sent>>
    <2>1. pc = "submit" /\ pc' = "idle" /\ runs' = runs /\ job \in Calls
      BY <1>7 DEF Submit, SpiInv, SpiTypes, Working
    <2>2. UNCHANGED <<Pending, Sent>>
      BY <2>1 DEF Pending, Sent
    <2>3. CASE row' = row
      BY <2>2, <2>3 DEF Status
    <2>4. CASE row[job] = "in_flight" /\ row' = [row EXCEPT ![job] = "done"]
      <3>1. CASE job \in Once
        <4>1. PICK c \in Once : c = job
          BY <3>1
        <4>2. Status' = [Status EXCEPT ![c] = "done"]
          BY <2>1, <2>4, <4>1, StatusOf
        <4>3. Abstract!Finish(c)
          BY <2>2, <2>4, <4>1, <4>2 DEF Abstract!Finish, Status, Pending, Sent
        <4> QED BY <4>3 DEF Abstract!Next
      <3>2. CASE job \notin Once
        BY <2>1, <2>2, <2>4, <3>2, StatusOf
      <3> QED BY <3>1, <3>2
    <2> QED BY <1>1, <1>7, <2>3, <2>4 DEF Submit, WriteRow
  <1>8. CASE Finish \/ Raise \/ CancelCaught \/ TimerFires \/ Die \/ Restart
    BY <1>8, QuietSpiStep DEF Finish, Raise, CancelCaught, TimerFires, Die, Restart, worker
  <1>9. CASE BeginFails
    BY <1>9 DEF BeginFails
  <1>10. CASE UNCHANGED vars
    BY <1>10, QuietSpiStep DEF vars, worker
  <1> QED BY <1>2, <1>3, <1>4, <1>5, <1>6, <1>7, <1>8, <1>9, <1>10 DEF Next

\* The SPI thread keeps the promise that the HTTP pool keeps, for its own
\* queues: with no subtransaction left open, every behaviour of claims, runs,
\* cancels, timeouts, deaths and restarts is a behaviour of OutboundCalls.
THEOREM SpiImplementsCalls == Spec => ImplementsCalls
  <1>1. Init => Abstract!Init
    BY DEF Init, Abstract!Init, Once
  <1>2. SpiInv /\ ClaimedFirst /\ ~stuck /\ (~stuck)' /\ [Next]_vars
          => [Abstract!Next]_(Abstract!vars)
    BY SpiRefinesStep DEF Abstract!vars, Status, Pending, Sent
  <1> QED BY <1>1, <1>2, SpiInvariance, ClaimsComeFirst, PTL
          DEF Spec, ImplementsCalls, Abstract!Spec
=============================================================================
