----------------------------- MODULE WebWorker -----------------------------
(* The dashboard's path: the web worker gives each HTTP connection a thread, *)
(* the thread forwards an API request over the unix socket, and the runtime  *)
(* worker serves it on its SPI thread between the statements of its pump     *)
(* (src/src/web.rs, rpc.rs, runtime_worker.rs). Everything that thread does   *)
(* takes time, so a wait of rpc() may run out at any moment.                 *)
EXTENDS Naturals, FiniteSets, Sequences

CONSTANTS
    Conns,          \* HTTP connections
    Requests,       \* what the client of each connection may send
    MaxThreads,     \* MAX_WEB_THREADS
    Backlog,        \* connections that the unix socket keeps waiting
    Rounds,         \* snapshots of one event stream
    MaxFaults       \* bound: deaths of the runtime worker and accepts that fail

\* What handle_web_connection answers without the runtime worker: method and
\* route, cross-origin check, lockout, token, ticket, and missing action. The
\* mock endpoints of test setups answer as "health" does.
Direct ==
    [limited |-> "429", options |-> "405", health |-> "200",
     page |-> "200", unknown |-> "404", foreign |-> "403", locked |-> "429",
     denied |-> "401", ticket |-> "200", ticketGet |-> "405", noRoute |-> "404",
     noAction |-> "400"]

\* "action" and "events" go to the runtime worker. "notObject" is a JSON body
\* that is neither an object nor null, on a route that assigns b["action"].
Kinds == DOMAIN Direct \cup {"unread", "action", "events", "notObject"}

ASSUME WebAssumption ==
    /\ Requests \in [Conns -> SUBSET Kinds]
    /\ MaxThreads \in Nat \ {0} /\ Backlog \in Nat \ {0} /\ Rounds \in Nat \ {0}
    /\ MaxFaults \in Nat /\ IsFiniteSet(Conns)

VARIABLES
    pc,         \* of each connection
    request,    \* kind of its request
    answer,     \* status code it was answered with
    threads,    \* WEB_THREADS
    round,      \* number of calls of rpc() the connection has made
    inbox,      \* accepted order of the unix socket: <<connection, round>>
    spi,        \* SPI thread: "serving", "replying", "pumping" or "down"
    reply,      \* what it is about to write: [to, status]
    executed,   \* history: rounds of each connection whose action committed
    cut,        \* history: why the wait for an answer ended early, if it did
    faults

web == <<pc, request, answer, threads, round>>
runtime == <<spi, reply, faults>>
vars == <<web, runtime, inbox, executed, cut>>

NoReply == [to |-> <<>>, status |-> "none"]

Init ==
    /\ pc = [c \in Conns |-> "backlog"] /\ request = [c \in Conns |-> "none"]
    /\ answer = [c \in Conns |-> "none"] /\ threads = 0
    /\ round = [c \in Conns |-> 0]
    /\ inbox = <<>> /\ spi = "serving" /\ reply = NoReply
    /\ executed = [c \in Conns |-> {}] /\ cut = [c \in Conns |-> "no"] /\ faults = 0

Move(c, to) == pc' = [pc EXCEPT ![c] = to]
Answer(c, status) == answer' = [answer EXCEPT ![c] = status]

-----------------------------------------------------------------------------
(* The accept loop. A connection is in the backlog until the loop comes to   *)
(* it, so the moment at which the client connects makes no difference.       *)

Full == threads >= MaxThreads

\* The few hundred bytes of the 503 fit the empty send buffer of the socket.
Refuse(c) ==
    /\ pc[c] = "backlog" /\ Full
    /\ Answer(c, "503") /\ Move(c, "closed")
    /\ UNCHANGED <<request, threads, round, runtime, inbox, executed, cut>>

Accept(c) ==
    /\ pc[c] = "backlog" /\ ~Full
    /\ threads' = threads + 1
    /\ Move(c, "handling")
    /\ UNCHANGED <<request, answer, round, runtime, inbox, executed, cut>>

\* The thread cannot be created: its slot is given back, the socket is dropped.
SpawnFails(c) ==
    /\ pc[c] = "backlog" /\ ~Full
    /\ Move(c, "closed")
    /\ UNCHANGED <<request, answer, threads, round, runtime, inbox, executed, cut>>

-----------------------------------------------------------------------------
(* The thread of a connection.                                               *)

\* handle_web_connection up to respond() or the first call of rpc(). A request
\* that cannot be read is not answered.
Handle(c) ==
    \E k \in Requests[c] :
        /\ pc[c] = "handling"
        /\ request' = [request EXCEPT ![c] = k]
        /\ CASE k = "unread" -> UNCHANGED answer /\ Move(c, "leaving")
             [] k \in DOMAIN Direct -> Answer(c, Direct[k]) /\ Move(c, "answering")
             [] k = "notObject" -> UNCHANGED answer /\ Move(c, "panicked")
             [] k = "action" -> UNCHANGED answer /\ Move(c, "rpc")
             [] k = "events" -> Answer(c, "200") /\ Move(c, "rpc")
        /\ UNCHANGED <<threads, round, runtime, inbox, executed, cut>>

\* What the thread does with the outcome of rpc(): an action is answered, the
\* stream sends it as a frame, an error too.
Resume(c, status) ==
    IF request[c] = "events" THEN UNCHANGED answer /\ Move(c, "frame")
                             ELSE Answer(c, status) /\ Move(c, "answering")

\* rpc(): connect, which waits for room in the socket's queue, write and shut
\* down the sending side.
Call(c) ==
    /\ pc[c] = "rpc" /\ spi # "down" /\ Len(inbox) < Backlog
    /\ round' = [round EXCEPT ![c] = @ + 1]
    /\ inbox' = Append(inbox, <<c, round[c] + 1>>)
    /\ Move(c, "waiting")
    /\ UNCHANGED <<request, answer, threads, runtime, executed, cut>>

CallRefused(c) ==
    /\ pc[c] = "rpc" /\ spi = "down"
    /\ round' = [round EXCEPT ![c] = @ + 1]
    /\ Resume(c, "400")
    /\ UNCHANGED <<request, threads, runtime, inbox, executed, cut>>

\* Mutant: rpc() tries again after a timeout.
GiveUpRetrying(c) ==
    /\ pc[c] = "waiting"
    /\ cut' = [cut EXCEPT ![c] = "timeout"]
    /\ Move(c, "rpc")
    /\ UNCHANGED <<request, answer, threads, round, runtime, inbox, executed>>

\* The read times out, while the worker pumps, serves others or harvests; the
\* request stays with it.
GiveUp(c) ==
    /\ pc[c] = "waiting"
    /\ cut' = [cut EXCEPT ![c] = "timeout"]
    /\ Resume(c, "400")
    /\ UNCHANGED <<request, threads, round, runtime, inbox, executed>>

\* Mutant: the deadline of the stream starts anew with every snapshot.
FrameAnew(c) ==
    /\ pc[c] = "frame"
    /\ \/ Move(c, "rpc") /\ round' = [round EXCEPT ![c] = 0]
       \/ Move(c, "leaving") /\ UNCHANGED round
    /\ UNCHANGED <<request, answer, threads, runtime, inbox, executed, cut>>

\* stream_events: another snapshot, or the end of the stream, or a client that
\* has gone or has not read for the five seconds of the write timeout.
Frame(c) ==
    /\ pc[c] = "frame"
    /\ \/ round[c] < Rounds /\ Move(c, "rpc")
       \/ Move(c, "leaving")
    /\ UNCHANGED <<request, answer, threads, round, runtime, inbox, executed, cut>>

\* respond() returns: its client took the answer or closed the connection. The
\* write has no timeout.
Taken(c) ==
    /\ pc[c] = "answering"
    /\ Move(c, "leaving")
    /\ UNCHANGED <<request, answer, threads, round, runtime, inbox, executed, cut>>

\* Mutant: the slot is not given back.
LeaveKeepingSlot(c) ==
    /\ pc[c] = "leaving"
    /\ Move(c, "closed")
    /\ UNCHANGED <<request, answer, threads, round, runtime, inbox, executed, cut>>

Leave(c) ==
    /\ pc[c] = "leaving"
    /\ threads' = threads - 1
    /\ Move(c, "closed")
    /\ UNCHANGED <<request, answer, round, runtime, inbox, executed, cut>>

\* A panic unwinds past the fetch_sub that follows the handler.
Unwind(c) ==
    /\ pc[c] = "panicked"
    /\ Move(c, "closed")
    /\ UNCHANGED <<request, answer, threads, round, runtime, inbox, executed, cut>>

-----------------------------------------------------------------------------
(* The runtime worker.                                                       *)

\* handle_rpc_stream and dashboard_rpc. A refused request (extension missing,
\* privileges not dropped, an error inside) commits nothing. The client may be
\* gone: what it wrote is still there to be read.
Serve(done) ==
    /\ spi = "serving" /\ inbox # <<>>
    /\ LET c == Head(inbox)[1]
           n == Head(inbox)[2]
       IN executed' = IF done THEN [executed EXCEPT ![c] = @ \cup {n}] ELSE executed
    /\ reply' = [to |-> Head(inbox), status |-> IF done THEN "200" ELSE "400"]
    /\ spi' = "replying"
    /\ inbox' = Tail(inbox)
    /\ UNCHANGED <<web, faults, cut>>

\* The reply reaches a client that still waits for this very call.
Waits(entry) == pc[entry[1]] = "waiting" /\ round[entry[1]] = entry[2]

Reply ==
    /\ spi = "replying"
    /\ IF Waits(reply.to) THEN Resume(reply.to[1], reply.status)
                          ELSE UNCHANGED <<pc, answer>>
    /\ spi' = "serving" /\ reply' = NoReply
    /\ UNCHANGED <<request, threads, round, inbox, faults, executed, cut>>

\* The accept loop of the socket has drained it; the rest of the loop runs.
Pump ==
    /\ spi = "serving" /\ inbox = <<>>
    /\ spi' = "pumping"
    /\ UNCHANGED <<web, reply, faults, inbox, executed, cut>>

\* An error of accept() ends the drain with connections still waiting.
AcceptFails ==
    /\ spi = "serving" /\ faults < MaxFaults
    /\ spi' = "pumping" /\ faults' = faults + 1
    /\ UNCHANGED <<web, reply, inbox, executed, cut>>

PumpEnds ==
    /\ spi = "pumping"
    /\ spi' = "serving"
    /\ UNCHANGED <<web, reply, faults, inbox, executed, cut>>

\* Connections that were not answered yet are reset.
Crash ==
    /\ spi # "down" /\ faults < MaxFaults
    /\ spi' = "down" /\ reply' = NoReply /\ faults' = faults + 1
    /\ inbox' = <<>>
    /\ LET reset == {c \in Conns : pc[c] = "waiting"}
           answered == {c \in reset : request[c] # "events"}
       IN /\ pc' = [c \in Conns |-> IF c \in answered THEN "answering"
                                    ELSE IF c \in reset THEN "frame" ELSE pc[c]]
          /\ answer' = [c \in Conns |-> IF c \in answered THEN "400" ELSE answer[c]]
          /\ cut' = [c \in Conns |-> IF c \in reset THEN "reset" ELSE cut[c]]
    /\ UNCHANGED <<request, threads, round, executed>>

Restart ==
    /\ spi = "down"
    /\ spi' = "serving"
    /\ UNCHANGED <<web, reply, faults, inbox, executed, cut>>

-----------------------------------------------------------------------------
AcceptLoop(c) == Refuse(c) \/ Accept(c) \/ SpawnFails(c)
Thread(c) ==
    Handle(c) \/ Call(c) \/ CallRefused(c) \/ GiveUp(c) \/ Frame(c) \/ Leave(c) \/ Unwind(c)
Serving == (\E done \in BOOLEAN : Serve(done)) \/ Reply
Runtime == Serving \/ Pump \/ AcceptFails \/ PumpEnds \/ Crash \/ Restart

Next == (\E c \in Conns : AcceptLoop(c) \/ Thread(c) \/ Taken(c)) \/ Runtime

Spec == Init /\ [][Next]_vars

\* Both loops go on, every thread runs, statements end, and the postmaster
\* restarts the worker. Nothing makes a client take its answer.
LiveSpec ==
    /\ Spec
    /\ \A c \in Conns : WF_vars(AcceptLoop(c)) /\ WF_vars(Thread(c))
    /\ WF_vars(Serving)
    /\ WF_vars(PumpEnds) /\ WF_vars(Restart)

-----------------------------------------------------------------------------
Live ==
    {c \in Conns :
        pc[c] \in {"handling", "rpc", "waiting", "frame", "answering", "leaving", "panicked"}}

\* However connections come and go, no more threads run than MAX_WEB_THREADS,
\* and WEB_THREADS is their number whenever no handler panics, so that every
\* slot comes back.
SlotsComeBack ==
    /\ Cardinality(Live) <= MaxThreads
    /\ (\A c \in Conns : request[c] # "notObject") => threads = Cardinality(Live)

\* A client that is told 200 had its action committed; one that is told 400
\* had not, unless its wait was cut short by the timeout or by a crash. No
\* action commits twice.
AnswerMatchesEffect ==
    \A c \in Conns : request[c] = "action" =>
        /\ answer[c] = "200" => executed[c] = {1}
        /\ answer[c] = "400" /\ executed[c] # {} => cut[c] # "no"
        /\ executed[c] \subseteq {1}

\* A connection whose client does not leave respond() waiting for ever is closed
\* in the end and its thread is gone, whatever the clients of the others do and
\* whenever the runtime worker dies, is late or cannot accept.
EveryConnectionEnds ==
    \A c \in Conns : []<>(pc[c] # "answering") => <>(pc[c] = "closed")

\* Does not hold (README, Disagreements): "one thread per connection, bounded"
\* (lib.rs, web.rs): a connection is turned away only while that many threads
\* are running.
RefusedOnlyWhenFull ==
    [][\A c \in Conns : answer'[c] = "503" /\ answer[c] # "503"
            => Cardinality(Live) = MaxThreads]_vars
=============================================================================
