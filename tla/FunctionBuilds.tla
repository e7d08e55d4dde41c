--------------------------- MODULE FunctionBuilds ---------------------------
(* PL/pgSQL functions and procedures: an operator edits the body, the worker *)
(* builds it with CREATE OR REPLACE and runs the calls of agents             *)
(* (src/src/function_exec.rs, procedure_exec.rs, sql/control_plane.sql).     *)
(* A body is a version number; what is installed is the version of the last  *)
(* build that compiled. Each transaction is one step.                        *)
EXTENDS Naturals

CONSTANTS
    Functions, Procedures,  \* the rows of the two tables
    Compiles,               \* versions whose body PostgreSQL accepts
    MaxVersion,             \* bound: edits of a body
    BodyCalls, TargetOf,    \* agents' calls, and what each calls
    Workers,                \* runtime workers
    MaxCrashes              \* bound: deaths of workers

Objects == Functions \cup Procedures
Versions == 1..MaxVersion

ASSUME BuildAssumption ==
    /\ Compiles \subseteq Versions
    /\ TargetOf \in [BodyCalls -> Objects]
    /\ MaxVersion \in Nat \ {0} /\ MaxCrashes \in Nat

VARIABLES
    body,       \* version in the row
    status,     \* build_status: "pending", "building", "built", "failed"
    installed,  \* version of the object in schema allgres_functions, 0 if none
    call,       \* status of each call row
    at,         \* what each worker is doing
    ran,        \* history: [meant, got] versions of a call that was run
    crashes

buildVars == <<body, status, installed, call, at, ran, crashes>>

Outcomes == {"built", "failed"}
Idle == [pc |-> "idle"]
Building(o, v) == [pc |-> "build", obj |-> o, version |-> v]
Built(o, v, end) == [pc |-> "built", obj |-> o, version |-> v, end |-> end]
Calling(c, v) == [pc |-> "call", call |-> c, version |-> v]
Called(c) == [pc |-> "called", call |-> c]
NotRun == [meant |-> 0, got |-> 0]

\* fn_create_function and fn_create_procedure insert the row as pending.
BuildInit ==
    /\ body = [o \in Objects |-> 1]
    /\ status = [o \in Objects |-> "pending"]
    /\ installed = [o \in Objects |-> 0]
    /\ call = [c \in BodyCalls |-> "none"]
    /\ at = [w \in Workers |-> Idle]
    /\ ran = [c \in BodyCalls |-> NotRun]
    /\ crashes = 0

-----------------------------------------------------------------------------
\* fn_update_function, fn_set_procedure with a body
Edit(o) ==
    /\ body[o] < MaxVersion
    /\ body' = [body EXCEPT ![o] = @ + 1]
    /\ status' = [status EXCEPT ![o] = "pending"]
    /\ UNCHANGED <<installed, call, at, ran, crashes>>

Callable(o) == status[o] = "built"

\* fn_submit_result queues a call only on an object that is built.
QueueCall(c) ==
    /\ call[c] = "none" /\ Callable(TargetOf[c])
    /\ call' = [call EXCEPT ![c] = "queued"]
    /\ UNCHANGED <<body, status, installed, at, ran, crashes>>

-----------------------------------------------------------------------------
\* fn_claim_function_builds, fn_claim_procedure_builds
ClaimBuild(w, o) ==
    /\ at[w] = Idle /\ status[o] = "pending"
    /\ status' = [status EXCEPT ![o] = "building"]
    /\ at' = [at EXCEPT ![w] = Building(o, body[o])]
    /\ UNCHANGED <<body, installed, call, ran, crashes>>

\* CREATE OR REPLACE in a subtransaction, which any error rolls back: a body
\* that does not compile, a role that is not there, a cancel or a timer that
\* fires during the statement.
RunBuild(w, o) ==
    \E v \in Versions, end \in Outcomes :
        /\ at[w] = Building(o, v)
        /\ end = "built" => v \in Compiles
        /\ installed' = IF end = "built" THEN [installed EXCEPT ![o] = v] ELSE installed
        /\ at' = [at EXCEPT ![w] = Built(o, v, end)]
        /\ UNCHANGED <<body, status, call, ran, crashes>>

\* Mutant: the result is stored without looking at the status.
SubmitBuildUnfenced(w, o) ==
    \E v \in Versions, end \in Outcomes :
        /\ at[w] = Built(o, v, end)
        /\ status' = [status EXCEPT ![o] = end]
        /\ at' = [at EXCEPT ![w] = Idle]
        /\ UNCHANGED <<body, installed, call, ran, crashes>>

\* fn_complete_function_build, fn_complete_procedure_build: fenced on 'building'.
SubmitBuild(w, o) ==
    \E v \in Versions, end \in Outcomes :
        /\ at[w] = Built(o, v, end)
        /\ status' = IF status[o] = "building"
                     THEN [status EXCEPT ![o] = end]
                     ELSE status
        /\ at' = [at EXCEPT ![w] = Idle]
        /\ UNCHANGED <<body, installed, call, ran, crashes>>

\* Mutant: a queued call is taken whatever the state of the build.
ClaimCallAnyway(w, c) ==
    /\ at[w] = Idle /\ call[c] = "queued"
    /\ call' = [call EXCEPT ![c] = "in_flight"]
    /\ at' = [at EXCEPT ![w] = Calling(c, body[TargetOf[c]])]
    /\ UNCHANGED <<body, status, installed, ran, crashes>>

\* fn_claim_function_calls, fn_claim_procedure_calls
ClaimCall(w, c) ==
    /\ at[w] = Idle /\ call[c] = "queued" /\ Callable(TargetOf[c])
    /\ call' = [call EXCEPT ![c] = "in_flight"]
    /\ at' = [at EXCEPT ![w] = Calling(c, body[TargetOf[c]])]
    /\ UNCHANGED <<body, status, installed, ran, crashes>>

\* The statement runs whatever is installed at that moment.
RunCall(w, c) ==
    \E v \in Versions :
        /\ at[w] = Calling(c, v)
        /\ ran' = [ran EXCEPT ![c] = [meant |-> v, got |-> installed[TargetOf[c]]]]
        /\ at' = [at EXCEPT ![w] = Called(c)]
        /\ UNCHANGED <<body, status, installed, call, crashes>>

\* fn_complete_function_call, fn_complete_procedure_call
SubmitCall(w, c) ==
    /\ at[w] = Called(c)
    /\ call' = IF call[c] = "in_flight" THEN [call EXCEPT ![c] = "done"] ELSE call
    /\ at' = [at EXCEPT ![w] = Idle]
    /\ UNCHANGED <<body, status, installed, ran, crashes>>

\* The four pumps of the loop.
PumpFunctionBuilds(w) ==
    \E o \in Functions : ClaimBuild(w, o) \/ RunBuild(w, o) \/ SubmitBuild(w, o)
PumpProcedureBuilds(w) ==
    \E o \in Procedures : ClaimBuild(w, o) \/ RunBuild(w, o) \/ SubmitBuild(w, o)
PumpFunctionCalls(w) ==
    \E c \in BodyCalls : /\ TargetOf[c] \in Functions
                         /\ ClaimCall(w, c) \/ RunCall(w, c) \/ SubmitCall(w, c)
PumpProcedureCalls(w) ==
    \E c \in BodyCalls : /\ TargetOf[c] \in Procedures
                         /\ ClaimCall(w, c) \/ RunCall(w, c) \/ SubmitCall(w, c)

\* Mutant: builds are not swept.
WatchdogCallsOnly(w) ==
    \E lost \in SUBSET {c \in BodyCalls : call[c] = "in_flight"} :
        /\ at[w] = Idle /\ lost # {}
        /\ call' = [c \in BodyCalls |-> IF c \in lost THEN "lost" ELSE call[c]]
        /\ UNCHANGED <<body, status, installed, at, ran, crashes>>

\* fn_watchdog, over the rows that are old enough: a build becomes pending
\* again, a call is written off.
BuildWatchdog(w) ==
    \E redo \in SUBSET {o \in Objects : status[o] = "building"},
       lost \in SUBSET {c \in BodyCalls : call[c] = "in_flight"} :
        /\ at[w] = Idle /\ redo \cup lost # {}
        /\ status' = [o \in Objects |-> IF o \in redo THEN "pending" ELSE status[o]]
        /\ call' = [c \in BodyCalls |-> IF c \in lost THEN "lost" ELSE call[c]]
        /\ UNCHANGED <<body, installed, at, ran, crashes>>

\* A worker dies, or a submission is skipped because the privilege drop failed.
Crash(w) ==
    /\ crashes < MaxCrashes /\ at[w] # Idle
    /\ crashes' = crashes + 1
    /\ at' = [at EXCEPT ![w] = Idle]
    /\ UNCHANGED <<body, status, installed, call, ran>>

Pump(w) ==
    \/ PumpFunctionBuilds(w) \/ PumpFunctionCalls(w)
    \/ PumpProcedureBuilds(w) \/ PumpProcedureCalls(w)

BuildNext ==
    \/ \E o \in Objects : Edit(o)
    \/ \E c \in BodyCalls : QueueCall(c)
    \/ \E w \in Workers : Pump(w) \/ BuildWatchdog(w) \/ Crash(w)

BuildSpec == BuildInit /\ [][BuildNext]_buildVars

\* The loop of every worker goes on, and each of its pumps comes up again.
BuildLiveSpec ==
    BuildSpec /\ \A w \in Workers : WF_buildVars(Pump(w)) /\ WF_buildVars(BuildWatchdog(w))

-----------------------------------------------------------------------------
Doing ==
    {Idle} \cup {Building(o, v) : o \in Objects, v \in Versions}
           \cup {Built(o, v, end) : o \in Objects, v \in Versions, end \in Outcomes}
           \cup {Calling(c, v) : c \in BodyCalls, v \in Versions}
           \cup {Called(c) : c \in BodyCalls}

TypeOK ==
    /\ body \in [Objects -> Versions]
    /\ status \in [Objects -> {"pending", "building", "built", "failed"}]
    /\ installed \in [Objects -> 0..MaxVersion]
    /\ call \in [BodyCalls -> {"none", "queued", "in_flight", "done", "lost"}]
    /\ at \in [Workers -> Doing]
    /\ ran \in [BodyCalls -> [meant : 0..MaxVersion, got : 0..MaxVersion]]
    /\ crashes \in 0..MaxCrashes

\* An object marked built is the body in its row, although the operator may edit
\* the row at any moment of a build (the fence of fn_complete_function_build).
BuiltMatchesBody == \A o \in Objects : status[o] = "built" => installed[o] = body[o]

\* A call runs the version that was built when it was claimed: no edit, failed
\* build or restart in between gives it another one, or none.
CallsRunWhatWasClaimed == \A c \in BodyCalls : ran[c].meant = ran[c].got

\* Once the operator stops editing, the row settles: its last body is built, and
\* can be, or its build failed. No interrupted build leaves it pending or
\* building, and no late result of an earlier body replaces the outcome.
LastBodySettles ==
    \A o \in Objects :
        \/ <>[](status[o] = "built" /\ body[o] \in Compiles)
        \/ <>[](status[o] = "failed")

\* Does not hold (README, Disagreements): "The previous build stays live and
\* callable until the new one actually finishes" (fn_update_function).
PreviousBuildCallable ==
    \A o \in Objects : installed[o] # 0 /\ status[o] \in {"pending", "building"} => Callable(o)
=============================================================================
