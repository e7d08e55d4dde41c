-------------------------- MODULE WebWorkerProofs --------------------------
(* Slots and truthful answers of the dashboard's path, proved for any number *)
(* of connections, threads, snapshots and faults.                            *)
EXTENDS WebWorker, TLAPS

Entries == Conns \X (Nat \ {0})
LivePcs == {"handling", "rpc", "waiting", "frame", "answering", "leaving", "panicked"}
Pcs == LivePcs \cup {"backlog", "closed"}
Codes == {"none", "200", "400", "401", "403", "404", "405", "429", "503"}

Types ==
    /\ pc \in [Conns -> Pcs]
    /\ request \in [Conns -> Kinds \cup {"none"}]
    /\ answer \in [Conns -> Codes] /\ cut \in [Conns -> {"no", "timeout", "reset"}]
    /\ threads \in Nat /\ round \in [Conns -> Nat]
    /\ inbox \in Seq(Entries)
    /\ spi = "replying" => reply.to \in Entries /\ reply.status \in {"200", "400"}
    /\ executed \in [Conns -> SUBSET Nat]

\* The slots in use: those of running threads, and those that a panic has kept.
Kept == {c \in Conns : pc[c] = "closed" /\ request[c] = "notObject"}
Held == Live \cup Kept

SlotInv ==
    /\ threads = Cardinality(Held) /\ threads <= MaxThreads
    /\ \A c \in Conns :
           /\ request[c] = "notObject" => pc[c] \in {"panicked", "closed"}
           /\ pc[c] = "panicked" => request[c] = "notObject"

\* A call of rpc() is in the socket once, or being answered, and in neither
\* place once its answer was written.
InboxInv ==
    /\ \A i \in 1..Len(inbox) : inbox[i][2] <= round[inbox[i][1]]
    /\ \A i, j \in 1..Len(inbox) : inbox[i] = inbox[j] => i = j
    /\ spi = "replying" =>
           /\ reply.to[2] <= round[reply.to[1]]
           /\ \A i \in 1..Len(inbox) : inbox[i] # reply.to

\* A connection asks for its action once, and until it is answered nothing has
\* been said about it.
Stage(c) ==
    /\ pc[c] \in {"backlog", "handling"} =>
           request[c] = "none" /\ round[c] = 0 /\ answer[c] = "none"
    /\ request[c] = "action" =>
           /\ pc[c] \in {"rpc", "waiting", "answering", "leaving", "closed"}
           /\ round[c] <= 1
           /\ pc[c] = "rpc" => round[c] = 0
           /\ pc[c] \in {"rpc", "waiting"} => answer[c] = "none"

StageInv == \A c \in Conns : Stage(c)

\* The runtime worker has a call of the connection, in the socket or served.
Asked(c) ==
    \/ \E i \in 1..Len(inbox) : inbox[i][1] = c
    \/ spi = "replying" /\ reply.to[1] = c

\* A call whose thread has gone is there only because the thread's wait was cut.
Expected(c) == Asked(c) /\ request[c] = "action" => pc[c] = "waiting" \/ cut[c] # "no"

\* What AnswerMatchesEffect says of one connection.
Truthful(c) ==
    request[c] = "action" =>
        /\ answer[c] = "200" => executed[c] = {1}
        /\ answer[c] = "400" /\ executed[c] # {} => cut[c] # "no"
        /\ executed[c] \subseteq {1}

\* What was executed was asked for; what is in the socket was not executed, and
\* the reply under way says whether its call was.
EffectInv ==
    /\ \A c \in Conns : executed[c] \subseteq 1..round[c] /\ Truthful(c) /\ Expected(c)
    /\ \A i \in 1..Len(inbox) : inbox[i][2] \notin executed[inbox[i][1]]
    /\ spi = "replying" => (reply.status = "200" <=> reply.to[2] \in executed[reply.to[1]])

WebInv == Types /\ SlotInv /\ InboxInv /\ StageInv /\ EffectInv

-----------------------------------------------------------------------------
\* What the socket's order looks like after a call and after it is taken.
LEMMA AppendFacts ==
    ASSUME NEW e \in Entries, inbox \in Seq(Entries), inbox' = Append(inbox, e)
    PROVE  /\ inbox' \in Seq(Entries) /\ Len(inbox) \in Nat /\ Len(inbox') = Len(inbox) + 1
           /\ \A i \in 1..Len(inbox) : inbox'[i] = inbox[i]
           /\ inbox'[Len(inbox) + 1] = e
OBVIOUS

\* The call at the head is taken and the others move up.
LEMMA TailFacts ==
    ASSUME inbox \in Seq(Entries), inbox # <<>>, inbox' = Tail(inbox)
    PROVE  /\ inbox' \in Seq(Entries) /\ Len(inbox) \in Nat \ {0} /\ Len(inbox') = Len(inbox) - 1
           /\ \A i \in 1..Len(inbox') : inbox'[i] = inbox[i + 1]
           /\ Head(inbox) = inbox[1] /\ Head(inbox) \in Entries
OBVIOUS

\* An entry is a connection and the number of one of its calls.
LEMMA EntryFacts ==
    ASSUME NEW e \in Entries
    PROVE  e[1] \in Conns /\ e[2] \in Nat /\ e[2] > 0 /\ e = <<e[1], e[2]>>
BY DEF Entries

\* What is assumed of the constants.
LEMMA Constants == MaxThreads \in Nat /\ IsFiniteSet(Conns)
BY WebAssumption

-----------------------------------------------------------------------------
\* A thread's place and a connection's answer change for that connection only.
LEMMA MoveFacts ==
    ASSUME Types, NEW c \in Conns, NEW to \in Pcs, Move(c, to)
    PROVE  /\ pc' \in [Conns -> Pcs] /\ pc'[c] = to
           /\ \A d \in Conns : d # c => pc'[d] = pc[d]
BY DEF Types, Move

\* The same of the answer.
LEMMA AnswerFacts ==
    ASSUME Types, NEW c \in Conns, NEW status \in Codes, Answer(c, status)
    PROVE  /\ answer' \in [Conns -> Codes] /\ answer'[c] = status
           /\ \A d \in Conns : d # c => answer'[d] = answer[d]
BY DEF Types, Answer

\* The places, statuses and kinds that the actions name.
LEMMA Literals ==
    /\ {"backlog", "handling", "rpc", "waiting", "frame", "answering", "leaving",
        "panicked", "closed"} \subseteq Pcs
    /\ {"none", "200", "400", "503"} \subseteq Codes
    /\ \A k \in DOMAIN Direct : Direct[k] \in Codes
    /\ \A k \in Kinds : k \in DOMAIN Direct \/ k \in {"unread", "action", "events", "notObject"}
    /\ {"unread", "action", "events", "notObject", "none"} \cap DOMAIN Direct = {}
BY DEF Pcs, LivePcs, Codes, Direct, Kinds

\* The outcomes of handle_web_connection up to respond() or the first rpc().
LEMMA HandleFacts ==
    ASSUME Types, NEW c \in Conns, Handle(c)
    PROVE  /\ pc[c] = "handling" /\ request' \in [Conns -> Kinds \cup {"none"}]
           /\ \A d \in Conns : d # c => request'[d] = request[d]
           /\ \/ request'[c] \in DOMAIN Direct /\ Answer(c, Direct[request'[c]]) /\ Move(c, "answering")
              \/ request'[c] = "unread" /\ UNCHANGED answer /\ Move(c, "leaving")
              \/ request'[c] = "notObject" /\ UNCHANGED answer /\ Move(c, "panicked")
              \/ request'[c] = "action" /\ UNCHANGED answer /\ Move(c, "rpc")
              \/ request'[c] = "events" /\ Answer(c, "200") /\ Move(c, "rpc")
           /\ UNCHANGED <<threads, round, runtime, inbox, executed, cut>>
<1>1. PICK k \in Requests[c] :
          /\ pc[c] = "handling"
          /\ request' = [request EXCEPT ![c] = k]
          /\ CASE k = "unread" -> UNCHANGED answer /\ Move(c, "leaving")
               [] k \in DOMAIN Direct -> Answer(c, Direct[k]) /\ Move(c, "answering")
               [] k = "notObject" -> UNCHANGED answer /\ Move(c, "panicked")
               [] k = "action" -> UNCHANGED answer /\ Move(c, "rpc")
               [] k = "events" -> Answer(c, "200") /\ Move(c, "rpc")
          /\ UNCHANGED <<threads, round, runtime, inbox, executed, cut>>
    BY Zenon DEF Handle
<1>2. k \in Kinds
    BY WebAssumption
<1>3. request'[c] = k /\ request' \in [Conns -> Kinds \cup {"none"}]
      /\ \A d \in Conns : d # c => request'[d] = request[d]
    BY <1>1, <1>2 DEF Types
<1>4. \/ k \in DOMAIN Direct /\ Answer(c, Direct[k]) /\ Move(c, "answering")
      \/ k = "unread" /\ UNCHANGED answer /\ Move(c, "leaving")
      \/ k = "notObject" /\ UNCHANGED answer /\ Move(c, "panicked")
      \/ k = "action" /\ UNCHANGED answer /\ Move(c, "rpc")
      \/ k = "events" /\ Answer(c, "200") /\ Move(c, "rpc")
    BY <1>1, <1>2, Literals, Zenon
<1> QED
    BY <1>1, <1>3, <1>4

\* What the thread does with the outcome of rpc().
LEMMA ResumeFacts ==
    ASSUME Types, NEW c \in Conns, NEW status \in {"200", "400"}, Resume(c, status)
    PROVE  /\ pc' \in [Conns -> Pcs] /\ answer' \in [Conns -> Codes]
           /\ \A d \in Conns : d # c => pc'[d] = pc[d] /\ answer'[d] = answer[d]
           /\ request[c] = "events" => pc'[c] = "frame" /\ answer' = answer
           /\ request[c] # "events" => pc'[c] = "answering" /\ answer'[c] = status
<1>1. CASE request[c] = "events"
    BY <1>1, Literals, MoveFacts DEF Resume, Types
<1>2. CASE request[c] # "events"
    BY <1>2, Literals, MoveFacts, AnswerFacts DEF Resume
<1> QED
    BY <1>1, <1>2

-----------------------------------------------------------------------------
\* A connection that has not called rpc() has nothing with the runtime worker.
LEMMA NothingAsked ==
    ASSUME Types, InboxInv, NEW c \in Conns, round[c] = 0
    PROVE  ~Asked(c)
<1>1. \A i \in 1..Len(inbox) : inbox[i] \in Entries
    BY DEF Types
<1>2. \A e \in Entries : e[1] = c => ~(e[2] <= round[e[1]])
    BY EntryFacts
<1> QED
    BY <1>1, <1>2 DEF InboxInv, Types, Asked

\* If nothing is executed, asked or answered for anyone but c, and c keeps its
\* promises, then all do.
LEMMA EffectOf ==
    ASSUME EffectInv, NEW c \in Conns,
           UNCHANGED <<inbox, spi, reply, executed>>,
           \A d \in Conns : d # c => /\ pc'[d] = pc[d] /\ request'[d] = request[d]
                                   /\ answer'[d] = answer[d] /\ cut'[d] = cut[d]
                                   /\ round'[d] = round[d],
           executed[c] \subseteq 1..round'[c], Truthful(c)', Expected(c)'
    PROVE  EffectInv'
<1>1. ASSUME NEW d \in Conns PROVE executed'[d] \subseteq 1..round'[d] /\ Truthful(d)' /\ Expected(d)'
  <2>1. CASE d = c
      BY <2>1
  <2>2. CASE d # c
      BY <1>1, <2>2 DEF EffectInv, Truthful, Expected, Asked
  <2> QED
      BY <2>1, <2>2
<1> QED
    BY <1>1 DEF EffectInv

\* Every step keeps what clients were told true.
LEMMA EffectKept ==
    ASSUME Types, InboxInv, StageInv, EffectInv, Next
    PROVE  EffectInv'
<1>a. \A c \in Conns : Stage(c) /\ executed[c] \subseteq 1..round[c] /\ Truthful(c) /\ Expected(c)
    BY DEF StageInv, EffectInv
<1>1. ASSUME NEW c \in Conns, Refuse(c) \/ SpawnFails(c) \/ Accept(c) PROVE EffectInv'
  <2>1. /\ pc[c] = "backlog" /\ UNCHANGED <<request, round, inbox, spi, reply, executed, cut>>
        /\ \A d \in Conns : d # c => pc'[d] = pc[d] /\ answer'[d] = answer[d]
      BY <1>1, MoveFacts, AnswerFacts, Literals DEF Refuse, SpawnFails, Accept, runtime
  <2>2. request[c] = "none"
      BY <1>a, <2>1 DEF Stage
  <2>3. Truthful(c)' /\ Expected(c)'
      BY <2>1, <2>2 DEF Truthful, Expected
  <2> QED
      BY <1>a, <2>1, <2>3, EffectOf
<1>2. ASSUME NEW c \in Conns, Handle(c) PROVE EffectInv'
  <2>1. /\ pc[c] = "handling" /\ UNCHANGED <<round, inbox, spi, reply, executed, cut>>
        /\ \A d \in Conns : d # c => request'[d] = request[d] /\ pc'[d] = pc[d] /\ answer'[d] = answer[d]
      BY <1>2, HandleFacts, MoveFacts, AnswerFacts, Literals DEF runtime
  <2>2. request'[c] = "action" => answer' = answer
      BY <1>2, HandleFacts, Literals, Zenon
  <2>3. round[c] = 0 /\ answer[c] = "none"
      BY <1>a, <2>1 DEF Stage
  <2>4. ~Asked(c) /\ executed[c] = {}
      BY <1>a, <2>3, NothingAsked
  <2>5. Truthful(c)' /\ Expected(c)'
      BY <2>1, <2>2, <2>3, <2>4 DEF Truthful, Expected, Asked
  <2> QED
      BY <1>a, <2>1, <2>5, EffectOf, Zenon
<1>3. ASSUME NEW c \in Conns, Frame(c) \/ Taken(c) \/ Leave(c) \/ Unwind(c) PROVE EffectInv'
  <2>1. /\ pc[c] # "waiting" /\ UNCHANGED <<request, answer, round, inbox, spi, reply, executed, cut>>
        /\ \A d \in Conns : d # c => pc'[d] = pc[d]
      BY <1>3, MoveFacts, Literals DEF Frame, Taken, Leave, Unwind, runtime
  <2>2. Truthful(c)' /\ Expected(c)'
      BY <1>a, <2>1 DEF Truthful, Expected, Asked
  <2> QED
      BY <1>a, <2>1, <2>2, EffectOf
<1>4. ASSUME NEW c \in Conns, CallRefused(c) PROVE EffectInv'
  <2>1. /\ pc[c] = "rpc" /\ UNCHANGED <<request, inbox, spi, reply, executed, cut>>
        /\ request[c] = "action" => answer'[c] = "400"
        /\ \A d \in Conns : d # c => pc'[d] = pc[d] /\ answer'[d] = answer[d]
      BY <1>4, ResumeFacts DEF CallRefused, runtime
  <2>2. /\ round[c] \in Nat /\ round'[c] = round[c] + 1
        /\ \A d \in Conns : d # c => round'[d] = round[d]
      BY <1>4 DEF CallRefused, Types
  <2>3. request[c] = "action" => ~Asked(c) /\ executed[c] = {}
      BY <1>a, <2>1, NothingAsked DEF Stage
  <2>4. Truthful(c)' /\ Expected(c)'
      BY <2>1, <2>3 DEF Truthful, Expected, Asked
  <2>5. executed[c] \subseteq 1..round'[c]
      BY <1>a, <2>2
  <2> QED
      BY <2>1, <2>2, <2>4, <2>5, EffectOf
<1>5. ASSUME NEW c \in Conns, GiveUp(c) PROVE EffectInv'
  <2>1. /\ UNCHANGED <<request, round, inbox, spi, reply, executed>>
        /\ request[c] = "action" => answer'[c] = "400"
        /\ \A d \in Conns : d # c => pc'[d] = pc[d] /\ answer'[d] = answer[d]
      BY <1>5, ResumeFacts DEF GiveUp, runtime
  <2>2. cut'[c] = "timeout" /\ \A d \in Conns : d # c => cut'[d] = cut[d]
      BY <1>5 DEF GiveUp, Types
  <2>3. Truthful(c)' /\ Expected(c)'
      BY <1>a, <2>1, <2>2, Zenon DEF Truthful, Expected
  <2> QED
      BY <1>a, <2>1, <2>2, <2>3, EffectOf
<1>6. ASSUME NEW c \in Conns, Call(c) PROVE EffectInv'
  <2>1. <<c, round[c] + 1>> \in Entries
      BY DEF Entries, Types
  <2>2. /\ Len(inbox) \in Nat /\ Len(inbox') = Len(inbox) + 1
        /\ \A i \in 1..Len(inbox) : inbox'[i] = inbox[i]
        /\ inbox'[Len(inbox) + 1] = <<c, round[c] + 1>>
      BY <1>6, <2>1, AppendFacts DEF Call, Types
  <2>3. /\ round[c] \in Nat /\ round'[c] = round[c] + 1 /\ pc'[c] = "waiting"
        /\ \A d \in Conns : d # c => round'[d] = round[d] /\ pc'[d] = pc[d]
        /\ UNCHANGED <<spi, reply, request, answer, executed, cut>>
      BY <1>6, MoveFacts, Literals DEF Call, Types, runtime
  <2>4. \A i \in 1..Len(inbox') : i \in 1..Len(inbox) \/ i = Len(inbox) + 1
      BY <2>2
  <2>5. ASSUME NEW d \in Conns PROVE executed'[d] \subseteq 1..round'[d] /\ Truthful(d)' /\ Expected(d)'
    <3>1. executed[d] \subseteq 1..round'[d]
        BY <1>a, <2>3
    <3>2. Truthful(d)'
        BY <1>a, <2>3 DEF Truthful
    <3>3. d # c => (Asked(d)' => Asked(d))
        BY <2>2, <2>3, <2>4 DEF Asked
    <3>4. Expected(d)'
        BY <1>a, <2>3, <3>3 DEF Expected
    <3> QED
        BY <2>3, <3>1, <3>2, <3>4
  <2>6. round[c] + 1 \notin executed[c]
      BY <1>a, <2>3
  <2>7. \A i \in 1..Len(inbox') : inbox'[i][2] \notin executed'[inbox'[i][1]]
      BY <2>2, <2>3, <2>4, <2>6 DEF EffectInv
  <2> QED
      BY <2>3, <2>5, <2>7, Zenon DEF EffectInv
<1>7. ASSUME NEW done \in BOOLEAN, Serve(done) PROVE EffectInv'
  <2> DEFINE c == inbox[1][1]
             n == inbox[1][2]
  <2>1. /\ Len(inbox) \in Nat \ {0} /\ Len(inbox') = Len(inbox) - 1
        /\ \A i \in 1..Len(inbox') : inbox'[i] = inbox[i + 1]
        /\ Head(inbox) = inbox[1] /\ inbox[1] \in Entries
      BY <1>7, TailFacts DEF Serve, Types
  <2>2. /\ 1 \in 1..Len(inbox) /\ c \in Conns /\ n \in Nat /\ n > 0
        /\ \A i \in 1..Len(inbox') : i + 1 \in 1..Len(inbox) /\ i + 1 # 1
      BY <2>1, EntryFacts
  <2>3. /\ reply'.to = inbox[1] /\ reply'.status = (IF done THEN "200" ELSE "400")
        /\ spi = "serving" /\ spi' = "replying"
        /\ UNCHANGED <<pc, request, answer, round, cut>>
      BY <1>7, <2>1 DEF Serve, web
  <2>4. /\ executed'[c] = IF done THEN executed[c] \cup {n} ELSE executed[c]
        /\ \A d \in Conns : d # c => executed'[d] = executed[d]
      BY <1>7, <2>1, <2>2, Zenon DEF Serve, Types
  <2>5. n <= round[c] /\ n \notin executed[c] /\ round[c] \in Nat
      BY <2>2 DEF InboxInv, EffectInv, Types
  <2>6. \A d \in Conns : Asked(d)' => Asked(d)
      BY <2>1, <2>2, <2>3 DEF Asked
  <2>7. Asked(c)
      BY <2>2 DEF Asked
  <2>8. ASSUME NEW d \in Conns PROVE executed'[d] \subseteq 1..round'[d] /\ Truthful(d)' /\ Expected(d)'
    <3>1. executed'[d] \subseteq 1..round[d]
        BY <1>a, <2>2, <2>4, <2>5
    <3>2. Expected(d)'
        BY <1>a, <2>3, <2>6 DEF Expected
    <3>3. CASE d # c
        BY <1>a, <2>3, <2>4, <3>1, <3>2, <3>3, Zenon DEF Truthful
    <3>4. CASE d = c /\ request[c] = "action"
      <4>1. n = 1 /\ executed[c] = {}
          BY <1>a, <2>2, <2>5, <3>4 DEF Stage, Truthful
      <4>2. executed'[c] \subseteq {1} /\ answer[c] # "200"
          BY <1>a, <2>4, <3>4, <4>1 DEF Truthful
      <4>3. answer[c] = "400" => cut[c] # "no"
          BY <1>a, <2>7, <3>4 DEF Expected, Stage
      <4> QED
          BY <2>3, <3>1, <3>2, <3>4, <4>2, <4>3 DEF Truthful
    <3>5. CASE d = c /\ request[c] # "action"
        BY <2>3, <3>1, <3>2, <3>5 DEF Truthful
    <3> QED
        BY <3>3, <3>4, <3>5
  <2>9. ASSUME NEW i \in 1..Len(inbox') PROVE inbox'[i][2] \notin executed'[inbox'[i][1]]
    <3>1. /\ inbox'[i] = inbox[i + 1] /\ inbox[i + 1] # inbox[1]
          /\ inbox[i + 1] \in Entries /\ inbox[i + 1][2] \notin executed[inbox[i + 1][1]]
        BY <2>1, <2>2 DEF InboxInv, EffectInv, Types
    <3>2. inbox[i + 1][1] \in Conns /\ (inbox[i + 1][1] = c => inbox[i + 1][2] # n)
        BY <2>1, <3>1, EntryFacts
    <3> QED
        BY <2>4, <3>1, <3>2
  <2>10. reply'.status = "200" <=> reply'.to[2] \in executed'[reply'.to[1]]
      BY <2>3, <2>4, <2>5
  <2> QED
      BY <2>8, <2>9, <2>10 DEF EffectInv
<1>8. CASE Reply
  <2>0. reply.to[1] \in Conns /\ reply.to[2] \in Nat /\ reply.to[2] > 0
        /\ reply.to = <<reply.to[1], reply.to[2]>> /\ reply.status \in {"200", "400"}
      BY <1>8, EntryFacts DEF Reply, Types
  <2> PICK c \in Conns, n \in Nat : c = reply.to[1] /\ n = reply.to[2] /\ n > 0 /\ reply.to = <<c, n>>
      BY <2>0
  <2>1. /\ reply.status \in {"200", "400"}
        /\ UNCHANGED <<request, round, inbox, executed, cut>>
        /\ spi = "replying" /\ spi' = "serving"
      BY <1>8, <2>0 DEF Reply
  <2>2. \A d \in Conns : Asked(d)' => Asked(d) /\ \E i \in 1..Len(inbox) : inbox[i][1] = d
      BY <2>1 DEF Asked
  <2>3. CASE Waits(reply.to)
    <3>1. /\ pc[c] = "waiting" /\ round[c] = n
          /\ request[c] = "action" => answer'[c] = reply.status
          /\ \A d \in Conns : d # c => pc'[d] = pc[d] /\ answer'[d] = answer[d]
        BY <1>8, <2>1, <2>3, ResumeFacts DEF Reply, Waits
    <3>2. request[c] = "action" => n = 1
        BY <1>a, <2>1, <3>1 DEF Stage
    <3>3. Truthful(c)'
        BY <1>a, <2>1, <3>1, <3>2 DEF Truthful, EffectInv
    <3>4. request[c] = "action" => ~Asked(c)'
      <4> SUFFICES ASSUME request[c] = "action", NEW i \in 1..Len(inbox), inbox[i][1] = c PROVE FALSE
          BY <2>2
      <4>1. /\ inbox[i] # reply.to /\ inbox[i] = <<c, inbox[i][2]>>
            /\ inbox[i][2] \in Nat /\ inbox[i][2] > 0 /\ inbox[i][2] <= round[c]
        <5>1. inbox[i] \in Entries
            BY DEF Types
        <5>2. inbox[i] # reply.to /\ inbox[i][2] <= round[c]
            BY <2>1 DEF InboxInv
        <5> QED
            BY <5>1, <5>2, EntryFacts
      <4> QED
          BY <2>1, <3>1, <3>2, <4>1
    <3>5. ASSUME NEW d \in Conns PROVE executed'[d] \subseteq 1..round'[d] /\ Truthful(d)' /\ Expected(d)'
      <4>1. CASE d = c
          BY <1>a, <2>1, <3>3, <3>4, <4>1 DEF Expected
      <4>2. CASE d # c
          BY <1>a, <2>1, <2>2, <3>1, <4>2 DEF Truthful, Expected
      <4> QED
          BY <4>1, <4>2
    <3> QED
        BY <2>1, <3>5 DEF EffectInv
  <2>4. CASE ~Waits(reply.to)
    <3>1. UNCHANGED <<pc, answer>>
        BY <1>8, <2>4 DEF Reply
    <3>2. \A d \in Conns : executed'[d] \subseteq 1..round'[d] /\ Truthful(d)' /\ Expected(d)'
        BY <1>a, <2>1, <2>2, <3>1 DEF Truthful, Expected
    <3> QED
        BY <2>1, <3>2 DEF EffectInv
  <2> QED
      BY <2>3, <2>4
<1>9. CASE Crash
  <2>1. /\ UNCHANGED <<request, round, executed>> /\ inbox' = <<>> /\ spi' = "down"
        /\ \A d \in Conns : \/ cut'[d] = "reset" /\ pc[d] = "waiting"
                            \/ answer'[d] = answer[d] /\ cut'[d] = cut[d]
      BY <1>9 DEF Crash, Types
  <2>2. \A d \in Conns : pc[d] = "waiting" /\ request[d] = "action" => answer'[d] = "400"
      BY <1>9 DEF Crash, Types
  <2>3. \A d \in Conns : ~Asked(d)'
      BY <2>1 DEF Asked
  <2>4. \A d \in Conns : executed'[d] \subseteq 1..round'[d] /\ Truthful(d)' /\ Expected(d)'
      BY <1>a, <2>1, <2>2, <2>3, Zenon DEF Truthful, Expected
  <2> QED
      BY <2>1, <2>4 DEF EffectInv
<1>10. CASE Pump \/ AcceptFails \/ PumpEnds \/ Restart
  <2>1. /\ UNCHANGED <<pc, request, answer, round, inbox, executed, cut>> /\ spi' # "replying"
      BY <1>10 DEF Pump, AcceptFails, PumpEnds, Restart, web
  <2>2. \A d \in Conns : Asked(d)' => Asked(d)
      BY <2>1 DEF Asked
  <2> QED
      BY <1>a, <2>1, <2>2, Zenon DEF EffectInv, Truthful, Expected
<1> QED
    BY <1>1, <1>2, <1>3, <1>4, <1>5, <1>6, <1>7, <1>8, <1>9, <1>10
       DEF Next, AcceptLoop, Thread, Runtime, Serving

-----------------------------------------------------------------------------
\* A connection goes through its stages in order.
LEMMA StageKept ==
    ASSUME Types, StageInv, Next
    PROVE  StageInv'
<1>a. ASSUME NEW c \in Conns, Stage(c)',
             \A d \in Conns : d # c => /\ pc'[d] = pc[d] /\ request'[d] = request[d]
                                     /\ round'[d] = round[d] /\ answer'[d] = answer[d]
      PROVE  StageInv'
  <2>1. ASSUME NEW d \in Conns, d # c PROVE Stage(d)'
      BY <1>a, <2>1 DEF Stage, StageInv
  <2> QED
      BY <1>a, <2>1 DEF StageInv
<1>b. \A c \in Conns : Stage(c)
    BY DEF StageInv
<1>1. ASSUME NEW c \in Conns, Refuse(c) \/ SpawnFails(c) \/ Accept(c) PROVE StageInv'
  <2>1. /\ pc[c] = "backlog" /\ pc'[c] \in {"closed", "handling"}
        /\ pc'[c] = "handling" => answer' = answer
        /\ UNCHANGED <<request, round>>
        /\ \A d \in Conns : d # c => pc'[d] = pc[d] /\ answer'[d] = answer[d]
      BY <1>1, MoveFacts, AnswerFacts, Literals DEF Refuse, SpawnFails, Accept
  <2> QED
      BY <1>a, <1>b, <2>1 DEF Stage
<1>2. ASSUME NEW c \in Conns, Handle(c) PROVE StageInv'
  <2>1. /\ pc[c] = "handling" /\ round' = round
        /\ \A d \in Conns : d # c => request'[d] = request[d] /\ pc'[d] = pc[d] /\ answer'[d] = answer[d]
      BY <1>2, HandleFacts, MoveFacts, AnswerFacts, Literals
  <2>2. /\ pc'[c] \in {"answering", "leaving", "panicked", "rpc"}
        /\ request'[c] = "action" => pc'[c] = "rpc" /\ answer' = answer
      BY <1>2, HandleFacts, MoveFacts, Literals
  <2> QED
      BY <1>a, <1>b, <2>1, <2>2 DEF Stage
<1>3. ASSUME NEW c \in Conns, Frame(c) \/ Taken(c) \/ Leave(c) \/ Unwind(c) PROVE StageInv'
  <2>1. UNCHANGED <<request, round, answer>>
      BY <1>3 DEF Frame, Taken, Leave, Unwind
  <2>2. CASE Frame(c)
    <3>1. /\ pc[c] = "frame" /\ pc'[c] \in {"rpc", "leaving"}
          /\ \A d \in Conns : d # c => pc'[d] = pc[d]
        BY <2>2, MoveFacts, Literals DEF Frame
    <3> QED
        BY <1>a, <1>b, <2>1, <3>1 DEF Stage
  <2>3. CASE Taken(c) \/ Leave(c) \/ Unwind(c)
    <3>1. /\ pc[c] \in {"answering", "leaving", "panicked"} /\ pc'[c] \in {"leaving", "closed"}
          /\ \A d \in Conns : d # c => pc'[d] = pc[d]
        BY <2>3, MoveFacts, Literals DEF Taken, Leave, Unwind
    <3> QED
        BY <1>a, <1>b, <2>1, <3>1 DEF Stage
  <2> QED
      BY <1>3, <2>2, <2>3
<1>4. ASSUME NEW c \in Conns, Call(c) PROVE StageInv'
  <2>1. /\ pc[c] = "rpc" /\ pc'[c] = "waiting" /\ UNCHANGED <<request, answer>>
        /\ round'[c] = round[c] + 1
        /\ \A d \in Conns : d # c => pc'[d] = pc[d] /\ round'[d] = round[d]
      BY <1>4, MoveFacts, Literals DEF Call, Types
  <2> QED
      BY <1>a, <1>b, <2>1 DEF Stage
<1>5. ASSUME NEW c \in Conns, CallRefused(c) PROVE StageInv'
  <2>1. /\ pc[c] = "rpc" /\ pc'[c] \in {"frame", "answering"} /\ request' = request
        /\ request[c] = "action" => pc'[c] = "answering"
        /\ \A d \in Conns : d # c => pc'[d] = pc[d] /\ answer'[d] = answer[d]
      BY <1>5, ResumeFacts DEF CallRefused
  <2>2. round'[c] = round[c] + 1 /\ \A d \in Conns : d # c => round'[d] = round[d]
      BY <1>5 DEF CallRefused, Types
  <2> QED
      BY <1>a, <1>b, <2>1, <2>2 DEF Stage
<1>6. ASSUME NEW c \in Conns, NEW status \in {"200", "400"},
             pc[c] = "waiting", Resume(c, status), UNCHANGED <<request, round>>
      PROVE  StageInv'
  <2>1. /\ pc'[c] \in {"frame", "answering"}
        /\ request[c] = "action" => pc'[c] = "answering"
        /\ \A d \in Conns : d # c => pc'[d] = pc[d] /\ answer'[d] = answer[d]
      BY <1>6, ResumeFacts
  <2> QED
      BY <1>6, <1>a, <1>b, <2>1 DEF Stage
<1>7. ASSUME NEW c \in Conns, GiveUp(c) PROVE StageInv'
    BY <1>6, <1>7 DEF GiveUp
<1>8. CASE Reply
  <2>1. reply.to[1] \in Conns /\ reply.status \in {"200", "400"} /\ UNCHANGED <<request, round>>
      BY <1>8, EntryFacts DEF Reply, Types
  <2>2. CASE Waits(reply.to)
      BY <1>6, <1>8, <2>1, <2>2, Zenon DEF Reply, Waits
  <2>3. CASE ~Waits(reply.to)
      BY <1>8, <2>1, <2>3, Zenon DEF Reply, StageInv, Stage
  <2> QED
      BY <2>2, <2>3
<1>9. CASE Crash
  <2>1. /\ UNCHANGED <<request, round>>
        /\ \A c \in Conns : \/ pc[c] = "waiting" /\ request[c] = "events" /\ pc'[c] = "frame"
                            \/ pc[c] = "waiting" /\ request[c] # "events" /\ pc'[c] = "answering"
                            \/ pc'[c] = pc[c] /\ answer'[c] = answer[c]
      BY <1>9 DEF Crash, Types
  <2> QED
      BY <1>b, <2>1 DEF Stage, StageInv
<1>10. CASE (\E done \in BOOLEAN : Serve(done)) \/ Pump \/ AcceptFails \/ PumpEnds \/ Restart
    BY <1>10 DEF Serve, Pump, AcceptFails, PumpEnds, Restart, web, StageInv, Stage
<1> QED
    BY <1>1, <1>2, <1>3, <1>4, <1>5, <1>7, <1>8, <1>9, <1>10
       DEF Next, AcceptLoop, Thread, Runtime, Serving

-----------------------------------------------------------------------------
\* An entry that was asked for is not the next one, and stays asked for.
LEMMA NotTheNext ==
    ASSUME Types, NEW c \in Conns, NEW e \in Entries, e[2] <= round[e[1]],
           round'[c] = round[c] + 1, \A d \in Conns : d # c => round'[d] = round[d]
    PROVE  e # <<c, round[c] + 1>> /\ e[2] <= round'[e[1]]
<1>1. e[1] \in Conns /\ e[2] \in Nat /\ round[e[1]] \in Nat /\ round[c] \in Nat
    BY EntryFacts DEF Types
<1>2. ASSUME e = <<c, round[c] + 1>> PROVE FALSE
  <2>1. e[1] = c /\ e[2] = round[c] + 1
      BY <1>2
  <2> QED
      BY <1>1, <2>1
<1>3. e[2] <= round'[e[1]]
  <2>1. CASE e[1] = c
      BY <1>1, <2>1
  <2>2. CASE e[1] # c
      BY <1>1, <2>2
  <2> QED
      BY <2>1, <2>2
<1> QED
    BY <1>2, <1>3

\* A call is on the socket at most once, and only while its thread waits or gave up.
LEMMA InboxKept ==
    ASSUME Types, InboxInv, Next
    PROVE  InboxInv'
<1>1. CASE UNCHANGED <<inbox, round, spi, reply>>
    BY <1>1 DEF InboxInv
<1>2. ASSUME NEW c \in Conns, Call(c) PROVE InboxInv'
  <2>1. <<c, round[c] + 1>> \in Entries
      BY DEF Entries, Types
  <2>2. /\ Len(inbox) \in Nat /\ Len(inbox') = Len(inbox) + 1
        /\ \A i \in 1..Len(inbox) : inbox'[i] = inbox[i]
        /\ inbox'[Len(inbox) + 1] = <<c, round[c] + 1>>
      BY <1>2, <2>1, AppendFacts DEF Call, Types
  <2>3. /\ round'[c] = round[c] + 1 /\ \A d \in Conns : d # c => round'[d] = round[d]
        /\ UNCHANGED <<spi, reply>> /\ round[c] \in Nat
      BY <1>2 DEF Call, Types, runtime
  <2>4. \A i \in 1..Len(inbox) : inbox[i] \in Entries
      BY DEF Types
  <2>5. \A i \in 1..Len(inbox) : inbox[i] # <<c, round[c] + 1>> /\ inbox[i][2] <= round'[inbox[i][1]]
      BY <2>3, <2>4, NotTheNext DEF InboxInv
  <2>6. spi = "replying" =>
            /\ reply.to[2] <= round'[reply.to[1]]
            /\ reply.to # <<c, round[c] + 1>>
      BY <2>3, NotTheNext, Zenon DEF InboxInv, Types
  <2>7. \A i \in 1..Len(inbox') : i \in 1..Len(inbox) \/ i = Len(inbox) + 1
      BY <2>2
  <2>8. \A i \in 1..Len(inbox') : inbox'[i][2] <= round'[inbox'[i][1]]
      BY <2>2, <2>3, <2>5, <2>7
  <2>9. \A i, j \in 1..Len(inbox') : inbox'[i] = inbox'[j] => i = j
      BY <2>2, <2>5, <2>7 DEF InboxInv
  <2>10. spi = "replying" => \A i \in 1..Len(inbox') : inbox'[i] # reply.to
      BY <2>2, <2>6, <2>7 DEF InboxInv
  <2> QED
      BY <2>3, <2>6, <2>8, <2>9, <2>10 DEF InboxInv
<1>3. ASSUME NEW c \in Conns, CallRefused(c) PROVE InboxInv'
  <2>1. /\ UNCHANGED <<inbox, spi, reply>> /\ spi # "replying"
        /\ \A d \in Conns : round[d] <= round'[d] /\ round[d] \in Nat /\ round'[d] \in Nat
      BY <1>3 DEF CallRefused, runtime, Types
  <2>2. \A i \in 1..Len(inbox) : inbox[i][2] <= round'[inbox[i][1]]
    <3> SUFFICES ASSUME NEW i \in 1..Len(inbox) PROVE inbox[i][2] <= round'[inbox[i][1]]
        OBVIOUS
    <3>1. inbox[i][1] \in Conns /\ inbox[i][2] \in Nat /\ inbox[i][2] <= round[inbox[i][1]]
        BY EntryFacts DEF InboxInv, Types
    <3> QED
        BY <2>1, <3>1
  <2> QED
      BY <2>1, <2>2 DEF InboxInv
<1>4. ASSUME NEW done \in BOOLEAN, Serve(done) PROVE InboxInv'
  <2>1. /\ Len(inbox) \in Nat \ {0} /\ Len(inbox') = Len(inbox) - 1
        /\ \A i \in 1..Len(inbox') : inbox'[i] = inbox[i + 1]
        /\ Head(inbox) = inbox[1] /\ reply'.to = inbox[1] /\ round' = round
      BY <1>4, TailFacts DEF Serve, Types, web
  <2>2. \A i \in 1..Len(inbox') : i + 1 \in 1..Len(inbox) /\ i + 1 # 1
      BY <2>1
  <2>3. 1 \in 1..Len(inbox)
      BY <2>1
  <2>4. \A i, j \in 1..Len(inbox') : i + 1 = j + 1 => i = j
      BY <2>1
  <2>5. \A i \in 1..Len(inbox') : inbox'[i][2] <= round'[inbox'[i][1]]
      BY <2>1, <2>2 DEF InboxInv
  <2>6. \A i, j \in 1..Len(inbox') : inbox'[i] = inbox'[j] => i = j
      BY <2>1, <2>2, <2>4 DEF InboxInv
  <2>7. reply'.to[2] <= round'[reply'.to[1]]
      BY <2>1, <2>3 DEF InboxInv
  <2>8. \A i \in 1..Len(inbox') : inbox'[i] # reply'.to
      BY <2>1, <2>2, <2>3 DEF InboxInv
  <2> QED
      BY <2>5, <2>6, <2>7, <2>8 DEF InboxInv
<1>5. CASE Reply \/ Pump \/ AcceptFails \/ PumpEnds \/ Restart
    BY <1>5 DEF Reply, Pump, AcceptFails, PumpEnds, Restart, web, InboxInv
<1>6. CASE Crash
  <2>1. inbox' = <<>> /\ spi' = "down"
      BY <1>6, Zenon DEF Crash
  <2>2. ~(\E i \in 1..Len(inbox') : TRUE) /\ spi' # "replying"
      BY <2>1
  <2> QED
      BY <2>2, Zenon DEF InboxInv
<1>7. ASSUME NEW c \in Conns,
             Refuse(c) \/ Accept(c) \/ SpawnFails(c) \/ Handle(c) \/ GiveUp(c) \/ Frame(c)
               \/ Taken(c) \/ Leave(c) \/ Unwind(c)
      PROVE  UNCHANGED <<inbox, round, spi, reply>>
    BY <1>7, Zenon DEF Refuse, Accept, SpawnFails, Handle, GiveUp, Frame, Taken, Leave,
                         Unwind, runtime
<1> QED
    BY <1>1, <1>2, <1>3, <1>4, <1>5, <1>6, <1>7
       DEF Next, AcceptLoop, Thread, Runtime, Serving

-----------------------------------------------------------------------------
(* Slots: how many connections hold one.                                     *)
INSTANCE FiniteSetTheorems

\* Every step keeps the types.
LEMMA TypesKept ==
    ASSUME Types, SlotInv, Next
    PROVE  Types'
<1>1. ASSUME NEW c \in Conns, Refuse(c) PROVE Types'
  <2>1. pc' \in [Conns -> Pcs] /\ answer' \in [Conns -> Codes]
      BY <1>1, MoveFacts, AnswerFacts, Literals DEF Refuse
  <2> QED
      BY <1>1, <2>1 DEF Refuse, Types, runtime
<1>2. ASSUME NEW c \in Conns, Accept(c) \/ SpawnFails(c) PROVE Types'
  <2>1. pc' \in [Conns -> Pcs]
      BY <1>2, MoveFacts, Literals DEF Accept, SpawnFails
  <2> QED
      BY <1>2, <2>1 DEF Accept, SpawnFails, Types, runtime
<1>3. ASSUME NEW c \in Conns, Handle(c) PROVE Types'
  <2>1. pc' \in [Conns -> Pcs] /\ answer' \in [Conns -> Codes]
      BY <1>3, HandleFacts, MoveFacts, AnswerFacts, Literals DEF Types
  <2> QED
      BY <1>3, <2>1, HandleFacts DEF Types, runtime
<1>4. ASSUME NEW c \in Conns, Call(c) PROVE Types'
  <2>1. <<c, round[c] + 1>> \in Entries
      BY <1>4 DEF Entries, Types
  <2>2. inbox' \in Seq(Entries) /\ pc' \in [Conns -> Pcs]
      BY <1>4, <2>1, AppendFacts, MoveFacts, Literals DEF Call, Types
  <2>3. round' \in [Conns -> Nat]
      BY <1>4 DEF Call, Types
  <2> QED
      BY <1>4, <2>2, <2>3 DEF Call, runtime, Types
<1>5. ASSUME NEW c \in Conns, CallRefused(c) \/ GiveUp(c) PROVE Types'
  <2>1. pc' \in [Conns -> Pcs] /\ answer' \in [Conns -> Codes]
      BY <1>5, ResumeFacts DEF CallRefused, GiveUp
  <2>2. round' \in [Conns -> Nat]
    <3>1. CASE CallRefused(c)
        BY <3>1 DEF CallRefused, Types
    <3>2. CASE GiveUp(c)
        BY <3>2 DEF GiveUp, Types
    <3> QED
        BY <1>5, <3>1, <3>2
  <2>3. cut' \in [Conns -> {"no", "timeout", "reset"}]
      BY <1>5, Zenon DEF CallRefused, GiveUp, Types
  <2> QED
      BY <1>5, <2>1, <2>2, <2>3 DEF CallRefused, GiveUp, Types, runtime
<1>6. ASSUME NEW c \in Conns, Frame(c) \/ Taken(c) \/ Unwind(c) PROVE Types'
  <2>1. pc' \in [Conns -> Pcs]
      BY <1>6, MoveFacts, Literals DEF Frame, Taken, Unwind
  <2> QED
      BY <1>6, <2>1 DEF Frame, Taken, Unwind, Types, runtime
<1>7. ASSUME NEW c \in Conns, Leave(c) PROVE Types'
  <2>1. c \in Held
      BY <1>7 DEF Leave, Held, Live
  <2>2. IsFiniteSet(Held) /\ Cardinality(Held) # 0
      BY <2>1, Constants, FS_Subset, FS_EmptySet DEF Held, Live, Kept
  <2>3. threads - 1 \in Nat
      BY <2>2 DEF SlotInv, Types
  <2>4. pc' \in [Conns -> Pcs]
      BY <1>7, MoveFacts, Literals DEF Leave
  <2> QED
      BY <1>7, <2>3, <2>4 DEF Leave, Types, runtime
<1>8. ASSUME NEW done \in BOOLEAN, Serve(done) PROVE Types'
  <2>1. inbox' \in Seq(Entries) /\ Head(inbox) \in Entries
      BY <1>8, TailFacts DEF Serve, Types
  <2>2. reply'.to \in Entries /\ reply'.status \in {"200", "400"}
      BY <1>8, <2>1 DEF Serve
  <2>3. executed' \in [Conns -> SUBSET Nat]
      BY <1>8, <2>1, EntryFacts DEF Serve, Types
  <2> QED
      BY <1>8, <2>1, <2>2, <2>3 DEF Serve, Types, web
<1>9. CASE Reply
  <2>1. reply.to[1] \in Conns /\ reply.status \in {"200", "400"}
      BY <1>9, EntryFacts DEF Reply, Types
  <2>2. pc' \in [Conns -> Pcs] /\ answer' \in [Conns -> Codes]
      BY <1>9, <2>1, ResumeFacts DEF Reply, Types
  <2> QED
      BY <1>9, <2>2 DEF Reply, Types
<1>10. CASE Pump \/ AcceptFails \/ PumpEnds \/ Restart
  <2>1. spi' # "replying"
      BY <1>10 DEF Pump, AcceptFails, PumpEnds, Restart
  <2>2. UNCHANGED <<pc, request, answer, threads, round, inbox, executed, cut>>
      BY <1>10 DEF Pump, AcceptFails, PumpEnds, Restart, web
  <2> QED
      BY <2>1, <2>2 DEF Types
<1>11. CASE Crash
  <2>1. pc' \in [Conns -> Pcs]
      BY <1>11, Literals DEF Crash, Types
  <2>2. answer' \in [Conns -> Codes] /\ cut' \in [Conns -> {"no", "timeout", "reset"}]
      BY <1>11, Literals DEF Crash, Types
  <2>3. inbox' \in Seq(Entries) /\ spi' # "replying"
      BY <1>11 DEF Crash, Types
  <2> QED
      BY <1>11, <2>1, <2>2, <2>3 DEF Crash, Types
<1> QED
    BY <1>1, <1>2, <1>3, <1>4, <1>5, <1>6, <1>7, <1>8, <1>9, <1>10, <1>11
       DEF Next, AcceptLoop, Thread, Runtime, Serving

-----------------------------------------------------------------------------
\* A connection enters or leaves the set of held slots by itself.
LEMMA SlotTaken ==
    ASSUME NEW c \in Conns \ Held, Held' = Held \cup {c}
    PROVE  Cardinality(Held') = Cardinality(Held) + 1
<1>1. IsFiniteSet(Held)
    BY Constants, FS_Subset DEF Held, Live, Kept
<1> QED
    BY <1>1, FS_AddElement, Zenon

\* The count goes down by one.
LEMMA SlotReturned ==
    ASSUME NEW c \in Held, Held' = Held \ {c}
    PROVE  Cardinality(Held') = Cardinality(Held) - 1
<1>1. IsFiniteSet(Held)
    BY Constants, FS_Subset DEF Held, Live, Kept
<1> QED
    BY <1>1, FS_RemoveElement

\* Whether a connection holds a slot.
Holds(p, k) == p \in LivePcs \/ (p = "closed" /\ k = "notObject")

\* The slots held, by place and request.
LEMMA HeldIs == Held = {c \in Conns : Holds(pc[c], request[c])}
BY DEF Held, Live, Kept, Holds, LivePcs

\* The connections other than c keep their place and their request.
Others(c) == \A d \in Conns : d # c => pc'[d] = pc[d] /\ request'[d] = request[d]

\* Every step keeps WEB_THREADS equal to the slots held.
LEMMA SlotsKept ==
    ASSUME Types, StageInv, SlotInv, Next
    PROVE  SlotInv'
<1> DEFINE Panics(c) == /\ request[c] = "notObject" => pc[c] \in {"panicked", "closed"}
                        /\ pc[c] = "panicked" => request[c] = "notObject"
<1>a. Held' = {c \in Conns : Holds(pc'[c], request'[c])}
    BY DEF Held, Live, Kept, Holds, LivePcs
<1>b. ASSUME NEW c \in Conns, Others(c), Panics(c)', Holds(pc'[c], request'[c]) <=> Holds(pc[c], request[c]),
             threads' = threads
      PROVE  SlotInv'
  <2>1. Held' = Held
      BY <1>a, <1>b, HeldIs DEF Others
  <2> QED
      BY <1>b, <2>1 DEF SlotInv, Others
<1>1. ASSUME NEW c \in Conns, Refuse(c) \/ SpawnFails(c) PROVE SlotInv'
  <2>1. pc[c] = "backlog" /\ pc'[c] = "closed" /\ request' = request /\ threads' = threads /\ Others(c)
      BY <1>1, MoveFacts, Literals DEF Refuse, SpawnFails, Others
  <2>2. request[c] = "none"
      BY <2>1 DEF StageInv, Stage
  <2> QED
      BY <1>b, <2>1, <2>2 DEF Holds, LivePcs
<1>2. ASSUME NEW c \in Conns, Accept(c) PROVE SlotInv'
  <2>1. pc[c] = "backlog" /\ pc'[c] = "handling" /\ request' = request /\ Others(c)
      BY <1>2, MoveFacts, Literals DEF Accept, Others
  <2>2. c \notin Held /\ Held' = Held \cup {c}
      BY <1>a, <2>1, HeldIs DEF Holds, LivePcs, Others
  <2>3. threads' = threads + 1 /\ threads + 1 <= MaxThreads
      BY <1>2, Constants DEF Accept, Full, Types
  <2>4. threads' = Cardinality(Held')
      BY <2>2, <2>3, SlotTaken DEF SlotInv
  <2> QED
      BY <2>1, <2>3, <2>4 DEF SlotInv, Others
<1>3. ASSUME NEW c \in Conns, Handle(c) PROVE SlotInv'
  <2>1. pc[c] = "handling" /\ threads' = threads /\ Others(c)
      BY <1>3, HandleFacts, MoveFacts, Literals DEF Others
  <2>2. \/ request'[c] = "notObject" /\ pc'[c] = "panicked"
        \/ request'[c] # "notObject" /\ pc'[c] \in {"answering", "leaving", "rpc"}
      BY <1>3, HandleFacts, MoveFacts, Literals
  <2> QED
      BY <1>b, <2>1, <2>2 DEF Holds, LivePcs
<1>4. ASSUME NEW c \in Conns, Call(c) \/ Frame(c) \/ Taken(c) PROVE SlotInv'
  <2>1. /\ pc[c] \in {"rpc", "frame", "answering"} /\ pc'[c] \in {"waiting", "rpc", "leaving"}
        /\ request' = request /\ threads' = threads /\ Others(c)
      BY <1>4, MoveFacts, Literals DEF Call, Frame, Taken, Others
  <2> QED
      BY <1>b, <2>1 DEF Holds, LivePcs, SlotInv
<1>5. ASSUME NEW c \in Conns, CallRefused(c) \/ GiveUp(c) PROVE SlotInv'
  <2>1. /\ pc[c] \in {"rpc", "waiting"} /\ pc'[c] \in {"frame", "answering"}
        /\ request' = request /\ threads' = threads /\ Others(c)
      BY <1>5, ResumeFacts DEF CallRefused, GiveUp, Others
  <2> QED
      BY <1>b, <2>1 DEF Holds, LivePcs, SlotInv
<1>6. ASSUME NEW c \in Conns, Unwind(c) PROVE SlotInv'
  <2>1. /\ pc[c] = "panicked" /\ pc'[c] = "closed" /\ request[c] = "notObject"
        /\ request' = request /\ threads' = threads /\ Others(c)
      BY <1>6, MoveFacts, Literals DEF Unwind, Others, SlotInv
  <2> QED
      BY <1>b, <2>1 DEF Holds, LivePcs
<1>7. ASSUME NEW c \in Conns, Leave(c) PROVE SlotInv'
  <2>1. /\ pc[c] = "leaving" /\ pc'[c] = "closed" /\ request[c] # "notObject"
        /\ request' = request /\ threads' = threads - 1 /\ Others(c)
      BY <1>7, MoveFacts, Literals DEF Leave, Others, SlotInv
  <2>2. c \in Held /\ Held' = Held \ {c}
      BY <1>a, <2>1, HeldIs DEF Holds, LivePcs, Others
  <2>3. threads' = Cardinality(Held')
      BY <2>1, <2>2, SlotReturned DEF SlotInv
  <2>4. threads' <= MaxThreads
      BY <2>1, Constants DEF SlotInv, Types
  <2> QED
      BY <2>1, <2>3, <2>4 DEF SlotInv, Others
<1>8. CASE Reply
  <2>1. CASE ~Waits(reply.to)
      BY <1>8, <2>1 DEF Reply, SlotInv, Held, Live, Kept
  <2>2. CASE Waits(reply.to)
    <3>1. reply.to[1] \in Conns /\ reply.status \in {"200", "400"} /\ pc[reply.to[1]] = "waiting"
        BY <1>8, <2>2, EntryFacts DEF Reply, Types, Waits
    <3>2. /\ pc'[reply.to[1]] \in {"frame", "answering"}
          /\ request' = request /\ threads' = threads /\ Others(reply.to[1])
        BY <1>8, <2>2, <3>1, ResumeFacts DEF Reply, Others
    <3> QED
        BY <1>b, <3>1, <3>2 DEF Holds, LivePcs, SlotInv
  <2> QED
      BY <2>1, <2>2
<1>9. CASE Crash
  <2>1. \A c \in Conns :
            \/ pc[c] = "waiting" /\ pc'[c] \in {"frame", "answering"}
            \/ pc'[c] = pc[c]
      BY <1>9 DEF Crash, Types
  <2>2. Held' = Held
      BY <1>9, <1>a, <2>1, HeldIs DEF Crash, Holds, LivePcs
  <2> QED
      BY <1>9, <2>1, <2>2 DEF Crash, SlotInv
<1>10. CASE (\E done \in BOOLEAN : Serve(done)) \/ Pump \/ AcceptFails \/ PumpEnds \/ Restart
    BY <1>10, Zenon DEF Serve, Pump, AcceptFails, PumpEnds, Restart, web, SlotInv, Held, Live, Kept
<1> QED
    BY <1>1, <1>2, <1>3, <1>4, <1>5, <1>6, <1>7, <1>8, <1>9, <1>10
       DEF Next, AcceptLoop, Thread, Runtime, Serving

\* The worker starts with no connection.
LEMMA InitWeb == Init => WebInv
<1> SUFFICES ASSUME Init PROVE WebInv
    OBVIOUS
<1>1. Types
    BY DEF Init, Types, Pcs, Codes, Entries
<1>2. Held = {}
    BY DEF Init, Held, Live, Kept
<1>3. SlotInv
    BY <1>2, Constants, FS_EmptySet DEF Init, SlotInv
<1>4. InboxInv
    BY DEF Init, InboxInv
<1>6. StageInv
    BY DEF Init, StageInv, Stage
<1>7. EffectInv
    BY DEF Init, EffectInv, Truthful, Expected, Asked
<1> QED
    BY <1>1, <1>3, <1>4, <1>6, <1>7 DEF WebInv

-----------------------------------------------------------------------------
\* Every step keeps the invariant.
LEMMA NextKeeps == WebInv /\ [Next]_vars => WebInv'
<1>1. ASSUME WebInv, Next PROVE WebInv'
    BY <1>1, TypesKept, SlotsKept, InboxKept, StageKept, EffectKept DEF WebInv
<1>2. ASSUME WebInv, UNCHANGED vars PROVE WebInv'
  <2> USE <1>2 DEF WebInv, vars, web, runtime
  <2>1. Types' /\ InboxInv' /\ StageInv'
      BY Zenon DEF Types, InboxInv, StageInv, Stage
  <2>2. SlotInv'
      BY Zenon DEF SlotInv, Held, Live, Kept
  <2>3. EffectInv'
      BY Zenon DEF EffectInv, Truthful, Expected, Asked
  <2> QED
      BY <2>1, <2>2, <2>3
<1> QED
    BY <1>1, <1>2

\* The invariant holds in every reachable state.
LEMMA WebInvariance == Spec => []WebInv
BY InitWeb, NextKeeps, PTL DEF Spec

\* However many connections come, no more threads run than MAX_WEB_THREADS, and
\* WEB_THREADS counts them exactly as long as no handler panics.
THEOREM SlotsAreReturned == Spec => []SlotsComeBack
<1>1. WebInv => SlotsComeBack
  <2> SUFFICES ASSUME WebInv PROVE SlotsComeBack
      OBVIOUS
  <2>1. IsFiniteSet(Held) /\ Live \subseteq Held
      BY Constants, FS_Subset DEF Held, Live, Kept
  <2>2. Cardinality(Live) <= Cardinality(Held) /\ Cardinality(Live) \in Nat
      BY <2>1, FS_Subset, FS_CardinalityType
  <2>3. Cardinality(Live) <= MaxThreads
      BY <2>2, Constants DEF WebInv, SlotInv, Types
  <2>4. (\A c \in Conns : request[c] # "notObject") => Held = Live
      BY DEF Held, Kept
  <2> QED
      BY <2>3, <2>4 DEF WebInv, SlotInv, SlotsComeBack
<1> QED
    BY <1>1, WebInvariance, PTL

\* A client is told the truth about its action, and no action commits twice,
\* whatever times out, crashes or is answered late.
THEOREM AnswersAreTrue == Spec => []AnswerMatchesEffect
<1>1. WebInv => AnswerMatchesEffect
    BY DEF WebInv, EffectInv, Truthful, AnswerMatchesEffect
<1> QED
    BY <1>1, WebInvariance, PTL
=============================================================================
