--------------------------- MODULE BoundaryProofs ---------------------------
(* Where foreign bytes come in and go out.  HttpTransport: the bounds on the *)
(* waits of an HTTP thread, for every timeout, slice, number of jobs and     *)
(* behaviour of the peer.  RequestRead: the bounds on one request, for every *)
(* limit and every client.  TextCodec: what is quoted, decoded or truncated  *)
(* is what was meant, for every text.                                        *)
EXTENDS HttpTransport, RequestRead, TextCodec, TLAPS

ClockTypes ==
    /\ now \in Nat /\ start \in Nat /\ after \in Nat /\ deadline \in Nat
    /\ until \in Nat \cup {NoWait} /\ cancel \in Nat \cup {NoCancel}
    /\ last \in BOOLEAN /\ pc \in Sliced \cup Ended \cup {"connect"}

\* The connection wait ends at HTTP_TIMEOUT. A sliced wait that was entered with
\* time left has its deadline there; one that was entered later, after the peer
\* took the last part in a final wait, has nothing left and ends where it began.
DeadlineInv ==
    /\ start <= now
    /\ pc = "connect" => until = start + HttpTimeout /\ now <= until
    /\ pc \in Sliced =>
           /\ start + HttpTimeout <= deadline
           /\ deadline + after <= start + 2 * HttpTimeout

\* Between two inner waits, and inside a slice, the deadline has not passed; a
\* final wait begins at the deadline.
InnerInv ==
    pc \in Sliced =>
        /\ until = NoWait => now <= deadline
        /\ until # NoWait /\ ~last => now <= until /\ until <= deadline
        /\ until # NoWait /\ last => now <= until /\ until = deadline + after

\* A slice begins with the flag clear, so it ends within a slice of the flag.
FlagInv ==
    pc \in Sliced /\ until # NoWait /\ ~last =>
        IF cancel = NoCancel THEN until <= now + Poll ELSE until <= cancel + Poll

TransportInv == ClockTypes /\ DeadlineInv /\ InnerInv /\ FlagInv /\ NoEarlyTimeout

\* The deadline and the poll interval are positive.
LEMMA Constants == HttpTimeout \in Nat /\ HttpTimeout > 0 /\ Poll \in Nat /\ Poll > 0
BY TransportAssumption

\* The first moment of a job satisfies the invariant.
LEMMA InitTransport == Init => TransportInv
<1> SUFFICES ASSUME Init PROVE TransportInv
    OBVIOUS
<1>1. ClockTypes
    BY Constants, Zenon DEF Init, ClockTypes, NoWait, NoCancel, Sliced, Ended
<1>2. pc \notin Sliced /\ pc # "timeout"
    BY DEF Init, Sliced
<1>3. DeadlineInv
    BY <1>2, Constants DEF Init, DeadlineInv
<1> QED
    BY <1>1, <1>2, <1>3 DEF TransportInv, InnerInv, FlagInv, NoEarlyTimeout

\* What ureq hands to a wait that is entered within the bounds.
LEMMA RemainingFacts ==
    ASSUME now \in Nat, start \in Nat, start <= now, now <= start + 2 * HttpTimeout
    PROVE  /\ Remaining(start) \in Nat
           /\ start + HttpTimeout <= now + Remaining(start)
           /\ now + Remaining(start) + Remaining(start) <= start + 2 * HttpTimeout
BY Constants DEF Remaining

\* Inside a call no more than twice the timeout has passed.
LEMMA WithinTwice == ASSUME TransportInv PROVE EndsWithinTwice
<1>1. pc \in Sliced \cup {"connect"} => now <= start + 2 * HttpTimeout
    BY Constants DEF TransportInv, ClockTypes, DeadlineInv, InnerInv, NoWait
<1> QED
    BY <1>1 DEF TransportInv, ClockTypes, EndsWithinTwice

\* The next wait is entered within the bounds.
LEMMA EnterKeeps ==
    ASSUME TransportInv, pc \in Sliced \cup {"connect"}, NEW op \in Sliced,
           Enter(op), UNCHANGED <<now, start, cancel>>
    PROVE  TransportInv'
<1>1. now <= start + 2 * HttpTimeout
    BY WithinTwice DEF EndsWithinTwice, Sliced, Ended
<1>2. /\ after' = Remaining(start) /\ deadline' = now + Remaining(start)
      /\ until' = NoWait /\ last' = FALSE /\ pc' = op
    BY DEF Enter
<1>3. /\ Remaining(start) \in Nat
      /\ start + HttpTimeout <= now + Remaining(start)
      /\ now + Remaining(start) + Remaining(start) <= start + 2 * HttpTimeout
    BY <1>1, RemainingFacts DEF TransportInv, ClockTypes, DeadlineInv
<1>4. ClockTypes'
  <2>1. now + Remaining(start) \in Nat
      BY <1>3 DEF TransportInv, ClockTypes
  <2> QED
      BY <2>1, <1>2, <1>3, Zenon DEF TransportInv, ClockTypes
<1>5. DeadlineInv'
    BY <1>2, <1>3, Constants DEF TransportInv, DeadlineInv, ClockTypes, Sliced
<1>6. InnerInv' /\ FlagInv' /\ NoEarlyTimeout'
    BY <1>2, <1>3, Constants DEF TransportInv, InnerInv, FlagInv, NoEarlyTimeout, ClockTypes, Sliced
<1> QED
    BY <1>4, <1>5, <1>6 DEF TransportInv

\* A call that ends leaves nothing to keep but the truth of its timeout.
LEMMA EndKeeps ==
    ASSUME TransportInv, NEW how \in Ended, End(how),
           how = "timeout" => now >= start + HttpTimeout
    PROVE  TransportInv'
<1>1. /\ pc' = how /\ until' = NoWait /\ last' = FALSE
      /\ UNCHANGED <<now, start, after, deadline, cancel>>
    BY DEF End
<1>2. pc' \notin Sliced \cup {"connect"}
    BY <1>1 DEF Ended, Sliced
<1>3. ClockTypes'
    BY <1>1, Zenon DEF TransportInv, ClockTypes
<1> QED
    BY <1>1, <1>2, <1>3 DEF TransportInv, DeadlineInv, InnerInv, FlagInv, NoEarlyTimeout

\* Every step keeps the invariant.
LEMMA NextKeeps == TransportInv /\ [Next]_vars => TransportInv'
<1> SUFFICES ASSUME TransportInv, [Next]_vars PROVE TransportInv'
    OBVIOUS
<1>1. CASE Connected
    BY <1>1, EnterKeeps DEF Connected, Sliced
<1>2. CASE CheckCancelled
    BY <1>2, EndKeeps DEF CheckCancelled, Ended
<1>3. CASE Slice
  <2> DEFINE span == IF deadline - now < Poll THEN deadline - now ELSE Poll
  <2>1. /\ pc \in Sliced /\ cancel = NoCancel /\ now < deadline
        /\ until' = now + span /\ last' = FALSE
        /\ UNCHANGED <<now, pc, start, after, deadline, cancel>>
      BY <1>3 DEF Slice, WaitInner
  <2>2. span \in Nat /\ span <= Poll /\ now + span <= deadline /\ now + span \in Nat
      BY <2>1, Constants DEF TransportInv, ClockTypes
  <2> HIDE DEF span
  <2>3. ClockTypes'
      BY <2>1, <2>2, Zenon DEF TransportInv, ClockTypes
  <2>4. DeadlineInv' /\ NoEarlyTimeout'
      BY <2>1 DEF TransportInv, DeadlineInv, NoEarlyTimeout, Sliced
  <2>5. InnerInv' /\ FlagInv'
      BY <2>1, <2>2, Constants DEF TransportInv, ClockTypes, InnerInv, FlagInv, NoWait
  <2> QED
      BY <2>3, <2>4, <2>5 DEF TransportInv
<1>4. CASE FinalWait
  <2>1. /\ pc \in Sliced /\ until = NoWait /\ now >= deadline
        /\ until' = now + after /\ last' = TRUE
        /\ UNCHANGED <<now, pc, start, after, deadline, cancel>>
      BY <1>4 DEF FinalWait, WaitInner
  <2>2. now = deadline /\ now + after \in Nat
      BY <2>1 DEF TransportInv, ClockTypes, InnerInv
  <2>3. ClockTypes'
      BY <2>1, <2>2, Zenon DEF TransportInv, ClockTypes
  <2>4. DeadlineInv' /\ NoEarlyTimeout'
      BY <2>1 DEF TransportInv, DeadlineInv, NoEarlyTimeout, Sliced
  <2>5. InnerInv' /\ FlagInv'
      BY <2>1, <2>2 DEF TransportInv, ClockTypes, InnerInv, FlagInv, NoWait
  <2> QED
      BY <2>3, <2>4, <2>5 DEF TransportInv
<1>5. CASE TimesOut
  <2>1. CASE last \/ pc = "connect"
    <3>1. now >= start + HttpTimeout
        BY <1>5, <2>1, Constants
           DEF TimesOut, TransportInv, ClockTypes, DeadlineInv, InnerInv, NoWait
    <3> QED
        BY <1>5, <2>1, <3>1, EndKeeps DEF TimesOut, Ended
  <2>2. CASE ~(last \/ pc = "connect")
    <3>1. /\ pc \in Sliced /\ now = until /\ until # NoWait /\ until' = NoWait
          /\ UNCHANGED <<now, pc, start, after, deadline, last, cancel>>
        BY <1>5, <2>2 DEF TimesOut
    <3>2. ClockTypes' /\ DeadlineInv' /\ NoEarlyTimeout' /\ FlagInv'
        BY <2>2, <3>1 DEF TransportInv, ClockTypes, DeadlineInv, NoEarlyTimeout, FlagInv
    <3>3. InnerInv'
        BY <2>2, <3>1 DEF TransportInv, InnerInv
    <3> QED
        BY <3>2, <3>3 DEF TransportInv
  <2> QED
      BY <2>1, <2>2
<1>6. CASE TakeNext
  <2>1. /\ pc' = "connect" /\ start' = now /\ now' = now /\ until' = now + HttpTimeout
        /\ after' = HttpTimeout /\ deadline' = now + HttpTimeout
        /\ last' = FALSE /\ cancel' = NoCancel
      BY <1>6 DEF TakeNext, Begin
  <2>2. now + HttpTimeout \in Nat /\ now <= now + HttpTimeout
      BY Constants DEF TransportInv, ClockTypes
  <2>3. ClockTypes'
      BY <2>1, <2>2, Constants, Zenon DEF TransportInv, ClockTypes
  <2>4. pc' \notin Sliced /\ pc' # "timeout"
      BY <2>1 DEF Sliced
  <2> QED
      BY <2>1, <2>2, <2>3, <2>4
         DEF TransportInv, ClockTypes, DeadlineInv, InnerInv, FlagInv, NoEarlyTimeout
<1>7. CASE Accept
  <2>1. CASE wrote + 1 = Pieces
      BY <1>7, <2>1, EnterKeeps DEF Accept, Sliced
  <2>2. CASE wrote + 1 # Pieces
      BY <1>7, <2>2
         DEF Accept, TransportInv, ClockTypes, DeadlineInv, InnerInv, FlagInv, NoEarlyTimeout
  <2> QED
      BY <2>1, <2>2
<1>8. CASE Respond \/ Fail
    BY <1>8, EndKeeps DEF Respond, Fail, Ended
<1>9. CASE Cancel
  <2>1. /\ cancel = NoCancel /\ cancel' = now
        /\ UNCHANGED <<now, pc, start, after, deadline, until, last>>
      BY <1>9 DEF Cancel
  <2>2. ClockTypes' /\ DeadlineInv' /\ NoEarlyTimeout' /\ InnerInv'
      BY <2>1 DEF TransportInv, ClockTypes, DeadlineInv, NoEarlyTimeout, InnerInv
  <2>3. FlagInv'
      BY <2>1 DEF TransportInv, ClockTypes, FlagInv, NoCancel
  <2> QED
      BY <2>2, <2>3 DEF TransportInv
<1>10. CASE Tick
  <2>1. /\ until # NoWait /\ now < until /\ now' = now + 1
        /\ UNCHANGED <<pc, start, after, deadline, until, last, cancel>>
      BY <1>10 DEF Tick
  <2>2. ClockTypes' /\ DeadlineInv'
      BY <2>1, Constants DEF TransportInv, ClockTypes, DeadlineInv, NoWait
  <2>3. NoEarlyTimeout' /\ InnerInv'
      BY <2>1, Constants DEF TransportInv, ClockTypes, NoEarlyTimeout, InnerInv, NoWait
  <2>4. FlagInv'
      BY <2>1, Constants DEF TransportInv, ClockTypes, FlagInv, NoWait, NoCancel
  <2> QED
      BY <2>2, <2>3, <2>4 DEF TransportInv
<1>11. CASE UNCHANGED vars
    BY <1>11 DEF vars, TransportInv, ClockTypes, DeadlineInv, InnerInv, FlagInv, NoEarlyTimeout
<1> QED
    BY <1>1, <1>2, <1>3, <1>4, <1>5, <1>6, <1>7, <1>8, <1>9, <1>10, <1>11
       DEF Next, Thread, Peer

-----------------------------------------------------------------------------
\* For every timeout, slice, request and number of jobs: a slice's timeout never
\* surfaces early, a thread is never held longer than twice HTTP_TIMEOUT, and
\* while the deadline is ahead a stop is noticed within a slice.
THEOREM WaitsAreBounded == Spec => []WaitBounds
<1>1. TransportInv => SliceBoundsStop
    BY Constants DEF TransportInv, ClockTypes, InnerInv, FlagInv, SliceBoundsStop, NoWait, NoCancel
<1>2. TransportInv => WaitBounds
    BY <1>1, WithinTwice DEF WaitBounds, TransportInv
<1> QED
    BY <1>2, InitTransport, NextKeeps, PTL DEF Spec

-----------------------------------------------------------------------------
(* RequestRead: one read.                                                    *)

\* The announced request has not arrived, or is too long for a usize.
Incomplete == HeadBytes + length < Word => data < HeadBytes + length

\* While the loop goes on, the deadline has been missed by at most the last
\* read, the request is not complete, and what was kept is within the limit.
ReadInv ==
    /\ elapsed \in Nat /\ data \in Nat /\ length \in Nat /\ shut \in BOOLEAN
    /\ reader \in {"loop", "parsed", "dropped"}
    /\ reader = "loop" => Incomplete /\ data <= MaxBytes
    /\ RequestReadWell

\* A sum that fits does not wrap.
LEMMA SmallRemainder ==
  ASSUME NEW n \in Nat, NEW w \in Nat, n < w
  PROVE  n % w = n
  OBVIOUS

\* Before the first read nothing is kept and no time has passed.
LEMMA ReadInvInit == ReadInit => ReadInv
  <1> SUFFICES ASSUME ReadInit PROVE ReadInv
    OBVIOUS
  <1>1. length \in Nat
    BY ReadAssumption DEF ReadInit
  <1>2. Incomplete /\ data <= MaxBytes
    BY <1>1, ReadAssumption DEF ReadInit, Incomplete
  <1>3. RequestReadWell
    BY <1>1, ReadAssumption
       DEF ReadInit, RequestReadWell, ThreadFreed, WholeBody, MemoryBounded
  <1> QED BY <1>1, <1>2, <1>3, Zenon DEF ReadInit, ReadInv

\* A piece either ends the loop or leaves the request incomplete and small.
LEMMA ReadPieceInv ==
  ASSUME ReadInv, NEW gap \in 0..ReadTimeout, NEW n \in 1..Buffer, ReadPiece(gap, n)
  PROVE  ReadInv'
  <1>1. /\ elapsed' \in Nat /\ data' \in Nat /\ length' = length /\ shut' = shut
        /\ data' = data + n /\ elapsed' = elapsed + gap /\ elapsed <= Deadline
        /\ Incomplete /\ data <= MaxBytes
    BY ReadAssumption DEF ReadInv, ReadPiece, Expired
  <1>a. HeadBytes + length < Word => (HeadBytes + length) % Word = HeadBytes + length
    BY SmallRemainder, ReadAssumption DEF ReadInv
  <1>2. /\ data' > MaxBytes => reader' = "dropped"
        /\ reader' = "parsed" => data' >= HeadBytes
        /\ HeadBytes + length < Word /\ data' <= MaxBytes =>
              reader' = IF data' >= HeadBytes + length THEN "parsed" ELSE "loop"
    BY <1>1, <1>a, ReadAssumption
       DEF ReadInv, ReadPiece, TooLarge, Complete, Overflows, Parsed, HeadEnd
  <1>3. reader' \in {"loop", "parsed", "dropped"}
    BY DEF ReadPiece, Parsed
  <1>4. ThreadFreed'
    BY <1>1, ReadAssumption DEF ThreadFreed, ReadInv
  <1>5. WholeBody' /\ MemoryBounded'
    BY <1>1, <1>2, ReadAssumption DEF WholeBody, MemoryBounded, ReadInv, Incomplete
  <1>6. reader' = "loop" => Incomplete' /\ data' <= MaxBytes
    BY <1>1, <1>2, ReadAssumption DEF ReadInv, Incomplete
  <1> QED BY <1>1, <1>3, <1>4, <1>5, <1>6 DEF ReadInv, RequestReadWell

\* Every turn of the loop keeps it.
LEMMA ReadInvStep == ReadInv /\ [ReadNext]_readVars => ReadInv'
  <1> SUFFICES ASSUME ReadInv, [ReadNext]_readVars PROVE ReadInv'
    OBVIOUS
  <1> USE ReadAssumption DEF ReadInv, Incomplete, RequestReadWell, ThreadFreed, WholeBody, MemoryBounded
  <1>1. CASE GiveUp
    BY <1>1 DEF GiveUp
  <1>2. ASSUME NEW gap \in 0..ReadTimeout, ReadEnd(gap) PROVE ReadInv'
    BY <1>2 DEF ReadEnd, Expired, Parsed, HeadEnd
  <1>3. ASSUME NEW gap \in 0..ReadTimeout, ReadFails(gap) PROVE ReadInv'
    BY <1>3 DEF ReadFails, Expired
  <1>4. CASE UNCHANGED readVars
    BY <1>4 DEF readVars
  <1> QED BY <1>1, <1>2, <1>3, <1>4, ReadPieceInv DEF ReadNext

\* However a client cuts and delays its request, announces what it does not send
\* or sends more: the thread is free one read timeout after the deadline, what
\* is kept stays within the limit and one buffer, and a request whose length
\* does not overflow a usize is handed over whole or after its client shut the
\* connection.
THEOREM RequestsAreReadWell == ReadSpec => []RequestReadWell
  <1>1. ReadInv => RequestReadWell
    BY DEF ReadInv
  <1> QED BY <1>1, ReadInvInit, ReadInvStep, PTL DEF ReadSpec

-----------------------------------------------------------------------------
(* Numbers.                                                                  *)
INSTANCE WellFoundedInduction

\* Every set of numbers has a least one: induction, for sets.
LEMMA LeastNat ==
  ASSUME NEW T, T \subseteq Nat, T # {}
  PROVE  \E n \in T : \A m \in T : n <= m
  <1>1. PICK n \in T : \A m \in T : <<m, n>> \notin OpToRel(<, Nat)
    BY NatLessThanWellFounded, WFMin, Zenon
  <1>2. \A m \in T : ~(m < n)
    BY <1>1, Zenon DEF OpToRel
  <1> QED BY <1>2

\* Positions that begin at or before k and end after it have a pair of
\* neighbours with k between them.
LEMMA Between ==
  ASSUME NEW n \in Nat, NEW s \in [1..(n + 1) -> Nat], NEW k \in Nat,
         s[1] <= k, k < s[n + 1]
  PROVE  \E i \in 1..n : s[i] <= k /\ k < s[i + 1]
  <1> DEFINE T == {i \in 1..n : k < s[i + 1]}
  <1>1. T # {} /\ T \subseteq Nat
    <2>1. n # 0
      OBVIOUS
    <2>2. n \in T
      BY <2>1
    <2>3. T \subseteq 1..n /\ 1..n \subseteq Nat
      OBVIOUS
    <2> QED BY <2>2, <2>3, Zenon
  <1> HIDE DEF T
  <1>2. PICK i \in T : \A j \in T : i <= j
    BY <1>1, LeastNat, Zenon
  <1> USE DEF T
  <1>3. s[i] <= k
    <2>1. CASE i = 1
      BY <2>1, Zenon
    <2>2. CASE i # 1
      <3>1. i - 1 \in 1..n /\ i - 1 \notin T
        BY <1>2, <2>2
      <3> QED BY <3>1
    <2> QED BY <2>1, <2>2, Zenon
  <1> QED BY <1>2, <1>3, Zenon

-----------------------------------------------------------------------------
(* TextCodec: truncating.                                                    *)

\* No step changes what was given.
LEMMA InputStays == [CodecNext]_codecVars => input' = input
  BY Zenon DEF CodecNext, FirstTag, PushX, Quote, Truncate, StepBack, Cut, NextPiece,
               NoMorePieces, Decode, NameDecoded, ValueDecoded, codecVars

\* The loop goes back while no boundary has been passed, and a character has at
\* most four bytes.
TruncateInv ==
    input.kind = "truncate" =>
        /\ step \in {"truncate", "cut", "done"}
        /\ step = "cut" =>
              /\ output \in Nat /\ output <= input.max /\ input.max < Len(input.str)
              /\ \A n \in (output + 1)..input.max : ~Boundary(input.str, n)
              /\ output + 3 >= input.max
        /\ TruncatedWell

\* What the input of a truncation is.
LEMMA TruncateInput ==
  ASSUME input \in Inputs, input.kind = "truncate"
  PROVE  /\ input.str \in Utf8 /\ input.str \in Seq({"first", "rest"})
         /\ Len(input.str) \in Nat /\ input.max \in Nat
  BY CodecAssumption DEF Inputs, Utf8

\* Four bytes in a row hold the beginning of a character or the end of the text.
LEMMA StepBackFar ==
  ASSUME NEW str \in Utf8, NEW max \in Nat, max < Len(str), NEW cut \in Nat,
         cut > 0, cut <= max, cut + 3 >= max, \A n \in cut..max : ~Boundary(str, n)
  PROVE  cut - 1 + 3 >= max
  <1>1. Len(str) \in Nat
    BY DEF Utf8
  <1>2. SUFFICES ASSUME cut + 3 = max PROVE FALSE
    OBVIOUS
  <1>3. PICK j \in (cut + 1)..(cut + 4) : j > Len(str) \/ str[j] = "first"
    <2>1. cut + 1 \in 1..Len(str)
      BY <1>1, <1>2
    <2> QED BY <2>1 DEF Utf8
  <1>4. j - 1 \in cut..max /\ j - 1 < Len(str) /\ (j - 1) + 1 = j
    BY <1>1, <1>2, <1>3
  <1>5. ~Boundary(str, j - 1)
    BY <1>4, Zenon
  <1> QED BY <1>1, <1>2, <1>3, <1>4, <1>5 DEF Boundary

\* Each step of a conversion keeps it.
LEMMA TruncateStep ==
  ASSUME input \in Inputs, TruncateInv, [CodecNext]_codecVars
  PROVE  TruncateInv'
  <1>1. input' = input
    BY InputStays, Zenon
  <1> SUFFICES ASSUME input.kind = "truncate" PROVE TruncateInv'
    BY <1>1, Zenon DEF TruncateInv
  <1>2. step \in {"truncate", "cut", "done"}
    BY Zenon DEF TruncateInv
  <1> DEFINE str == input.str
             max == input.max
  <1>3. /\ str \in Utf8 /\ Len(str) \in Nat /\ max \in Nat
    BY TruncateInput, Zenon
  <1>4. CASE Truncate
    <2>1. CASE Len(str) <= max
      <3>1. output' = Len(str) /\ step' = "done"
        BY <1>4, <2>1, Zenon DEF Truncate
      <3>2. Boundary(str, Len(str)) /\ \A n \in (Len(str) + 1)..max : ~Boundary(str, n)
        BY <1>3 DEF Boundary
      <3> QED BY <1>1, <1>3, <2>1, <3>1, <3>2, Zenon DEF TruncateInv, TruncatedWell, Done
    <2>2. CASE ~(Len(str) <= max)
      <3>1. output' = max /\ step' = "cut"
        BY <1>4, <2>2, Zenon DEF Truncate
      <3> QED BY <1>1, <1>3, <2>2, <3>1 DEF TruncateInv, TruncatedWell, Done
    <2> QED BY <2>1, <2>2, Zenon
  <1>5. CASE StepBack
    <2>1. /\ step = "cut" /\ step' = "cut" /\ output \in Nat /\ output > 0
          /\ output' = output - 1 /\ ~Boundary(str, output)
          /\ output <= max /\ max < Len(str) /\ output + 3 >= max
          /\ \A n \in (output + 1)..max : ~Boundary(str, n)
      BY <1>5, Zenon DEF StepBack, TruncateInv
    <2>2. \A n \in output..max : ~Boundary(str, n)
      BY <2>1, <1>3
    <2>3. output - 1 + 3 >= max
      BY <1>3, <2>1, <2>2, StepBackFar, Zenon
    <2>4. \A n \in (output' + 1)..max : ~Boundary(str, n)
      BY <2>1, <2>2
    <2> QED BY <1>1, <1>3, <2>1, <2>3, <2>4 DEF TruncateInv, TruncatedWell, Done
  <1>6. CASE Cut
    <2>1. /\ step = "cut" /\ step' = "done" /\ output' = output
          /\ output = 0 \/ Boundary(str, output)
      BY <1>6 DEF Cut, TruncateInv
    <2>2. Boundary(str, output)
      BY <2>1, Zenon DEF Boundary
    <2> QED BY <1>1, <1>3, <2>1, <2>2, Zenon DEF TruncateInv, TruncatedWell, Done
  <1>7. CASE UNCHANGED codecVars
    BY <1>7, Zenon DEF codecVars, TruncateInv, TruncatedWell, Done
  <1> QED
    BY <1>2, <1>4, <1>5, <1>6, <1>7, Zenon
       DEF CodecNext, FirstTag, PushX, Quote, NextPiece, NoMorePieces, Decode,
           NameDecoded, ValueDecoded

-----------------------------------------------------------------------------
(* TextCodec: quoting.                                                       *)

TagChar == Char \ {"$", "\n"}

\* A concatenation, position by position.
LEMMA JoinFacts ==
  ASSUME NEW s \in Seq(Char), NEW t \in Seq(Char)
  PROVE  /\ s \o t \in Seq(Char) /\ Len(s) \in Nat /\ Len(t) \in Nat
         /\ Len(s \o t) = Len(s) + Len(t)
         /\ \A i \in 1..Len(s) : (s \o t)[i] = s[i]
         /\ \A i \in 1..Len(t) : (s \o t)[Len(s) + i] = t[i]
  <1>1. /\ s \o t \in Seq(Char) /\ Len(s \o t) = Len(s) + Len(t)
        /\ \A i \in 1..(Len(s) + Len(t)) :
              (s \o t)[i] = IF i <= Len(s) THEN s[i] ELSE t[i - Len(s)]
    OBVIOUS
  <1>2. Len(s) \in Nat /\ Len(t) \in Nat
    OBVIOUS
  <1>3. ASSUME NEW i \in 1..Len(t) PROVE (s \o t)[Len(s) + i] = t[i]
    <2>1. Len(s) + i \in 1..(Len(s) + Len(t)) /\ ~(Len(s) + i <= Len(s)) /\ Len(s) + i - Len(s) = i
      BY <1>2
    <2> QED BY <1>1, <2>1
  <1>4. ASSUME NEW i \in 1..Len(s) PROVE (s \o t)[i] = s[i]
    BY <1>1, <1>2
  <1> QED BY <1>1, <1>2, <1>3, <1>4, Zenon

\* A delimiter is a dollar, the tag and a dollar, and holds no line break.
LEMMA DelimiterFacts ==
  ASSUME NEW tag \in Seq(TagChar)
  PROVE  LET d == Delimiter(tag)
         IN  /\ d \in Seq(Char) /\ Len(d) = Len(tag) + 2 /\ Len(tag) \in Nat
             /\ d[1] = "$" /\ d[Len(d)] = "$"
             /\ \A k \in 2..(Len(d) - 1) : d[k] = tag[k - 1] /\ d[k] # "$"
             /\ \A k \in 1..Len(d) : d[k] # "\n"
  <1> DEFINE dollar == <<"$">>
  <1>1. dollar \in Seq(Char) /\ Len(dollar) = 1 /\ dollar[1] = "$"
    BY CodecAssumption
  <1>2. tag \in Seq(Char) /\ Len(tag) \in Nat /\ \A k \in 1..Len(tag) : tag[k] \in TagChar
    BY DEF TagChar
  <1> HIDE DEF dollar
  <1> DEFINE head == dollar \o tag
             d == head \o dollar
  <1>3. /\ head \in Seq(Char) /\ Len(head) = Len(dollar) + Len(tag)
        /\ \A k \in 1..Len(dollar) : head[k] = dollar[k]
        /\ \A k \in 1..Len(tag) : head[Len(dollar) + k] = tag[k]
    BY <1>1, <1>2, JoinFacts, Zenon
  <1> HIDE DEF head
  <1>31. /\ Len(head) = Len(tag) + 1 /\ head[1] = "$"
         /\ \A k \in 2..(Len(tag) + 1) : head[k] = tag[k - 1]
    <2>1. Len(head) = Len(tag) + 1
      BY <1>1, <1>2, <1>3
    <2>2. head[1] = "$"
      <3>1. 1 \in 1..Len(dollar)
        BY <1>1
      <3> QED BY <1>1, <1>3, <3>1, Zenon
    <2>3. ASSUME NEW k \in 2..(Len(tag) + 1) PROVE head[k] = tag[k - 1]
      <3>1. k - 1 \in 1..Len(tag) /\ Len(dollar) + (k - 1) = k
        BY <1>1, <1>2
      <3> QED BY <1>3, <3>1, Zenon
    <2> QED BY <2>1, <2>2, <2>3, Zenon
  <1>32. /\ d \in Seq(Char) /\ Len(d) = Len(head) + Len(dollar)
         /\ \A k \in 1..Len(head) : d[k] = head[k]
         /\ \A k \in 1..Len(dollar) : d[Len(head) + k] = dollar[k]
    BY <1>1, <1>3, JoinFacts, Zenon
  <1>4. /\ d \in Seq(Char) /\ Len(d) = Len(tag) + 2
        /\ \A k \in 1..(Len(tag) + 1) : d[k] = head[k]
        /\ d[Len(tag) + 2] = "$"
    <2> HIDE DEF d
    <2>1. 1 \in 1..Len(dollar) /\ Len(head) + 1 = Len(tag) + 2
      BY <1>1, <1>2, <1>31
    <2>2. d[Len(head) + 1] = "$"
      BY <1>1, <1>32, <2>1, Zenon
    <2> QED BY <1>1, <1>2, <1>31, <1>32, <2>1, <2>2, Zenon
  <1>5. d = Delimiter(tag)
    BY Zenon DEF d, head, dollar, Delimiter
  <1> HIDE DEF d
  <1>6. d[1] = "$" /\ \A k \in 2..(Len(tag) + 1) : d[k] = tag[k - 1]
    BY <1>2, <1>31, <1>4
  <1>7. \A k \in 2..(Len(d) - 1) : d[k] = tag[k - 1] /\ d[k] # "$" /\ d[k] # "\n"
    BY <1>2, <1>4, <1>6 DEF TagChar
  <1>8. \A k \in 1..Len(d) : d[k] # "\n"
    BY <1>2, <1>4, <1>6, <1>7
  <1> QED BY <1>2, <1>4, <1>5, <1>6, <1>7, <1>8, Zenon

Framed(d, body) == d \o <<"\n">> \o body \o <<"\n">> \o d

\* The quoted text, position by position.
LEMMA QuotedFacts ==
  ASSUME NEW d \in Seq(Char), NEW body \in Seq(Char)
  PROVE  LET t == Framed(d, body)
         IN  /\ Len(d) \in Nat /\ Len(body) \in Nat
             /\ t \in Seq(Char) /\ Len(t) = 2 * Len(d) + Len(body) + 2
             /\ \A k \in 1..Len(d) : t[k] = d[k] /\ t[Len(d) + Len(body) + 2 + k] = d[k]
             /\ t[Len(d) + 1] = "\n" /\ t[Len(d) + Len(body) + 2] = "\n"
             /\ \A k \in 1..Len(body) : t[Len(d) + 1 + k] = body[k]
  <1> DEFINE nl == <<"\n">>
             t1 == d \o nl
             t2 == t1 \o body
             t3 == t2 \o nl
             t == t3 \o d
  <1>1. nl \in Seq(Char) /\ Len(nl) = 1 /\ nl[1] = "\n"
    BY CodecAssumption
  <1>2. t = Framed(d, body)
    BY Zenon DEF Framed
  <1>3. Len(d) \in Nat /\ Len(body) \in Nat
    OBVIOUS
  <1> HIDE DEF nl
  <1>4. /\ t1 \in Seq(Char) /\ Len(t1) = Len(d) + 1 /\ t1[Len(d) + 1] = "\n"
        /\ \A k \in 1..Len(d) : t1[k] = d[k]
    <2>1. Len(t1) = Len(d) + Len(nl) /\ t1 \in Seq(Char) /\ \A k \in 1..Len(d) : t1[k] = d[k]
      BY <1>1, JoinFacts, Zenon
    <2>2. 1 \in 1..Len(nl)
      BY <1>1
    <2>3. t1[Len(d) + 1] = nl[1]
      BY <1>1, <2>2, JoinFacts, ZenonT(30)
    <2> QED BY <1>1, <1>3, <2>1, <2>3, Zenon
  <1> HIDE DEF t1
  <1>5. /\ t2 \in Seq(Char) /\ Len(t2) = Len(d) + 1 + Len(body)
        /\ \A k \in 1..(Len(d) + 1) : t2[k] = t1[k]
        /\ \A k \in 1..Len(body) : t2[Len(d) + 1 + k] = body[k]
    <2>1. /\ t2 \in Seq(Char) /\ Len(t2) = Len(t1) + Len(body)
          /\ \A k \in 1..Len(t1) : t2[k] = t1[k]
          /\ \A k \in 1..Len(body) : t2[Len(t1) + k] = body[k]
      BY <1>4, JoinFacts, Zenon
    <2> QED BY <1>3, <1>4, <2>1, Zenon
  <1> HIDE DEF t2
  <1>6. /\ t3 \in Seq(Char) /\ Len(t3) = Len(d) + Len(body) + 2
        /\ \A k \in 1..(Len(d) + 1 + Len(body)) : t3[k] = t2[k]
        /\ t3[Len(d) + Len(body) + 2] = "\n"
    <2>1. /\ t3 \in Seq(Char) /\ Len(t3) = Len(t2) + Len(nl)
          /\ \A k \in 1..Len(t2) : t3[k] = t2[k]
          /\ \A k \in 1..Len(nl) : t3[Len(t2) + k] = nl[k]
      BY <1>1, <1>5, JoinFacts, Zenon
    <2>2. 1 \in 1..Len(nl)
      BY <1>1
    <2>3. t3[Len(t2) + 1] = nl[1]
      BY <2>1, <2>2, Zenon
    <2>4. Len(t2) + 1 = Len(d) + Len(body) + 2
      BY <1>3, <1>5
    <2> QED BY <1>1, <1>3, <1>5, <2>1, <2>3, <2>4, Zenon
  <1> HIDE DEF t3
  <1>7. /\ t \in Seq(Char) /\ Len(t) = 2 * Len(d) + Len(body) + 2
        /\ \A k \in 1..(Len(d) + Len(body) + 2) : t[k] = t3[k]
        /\ \A k \in 1..Len(d) : t[Len(d) + Len(body) + 2 + k] = d[k]
    <2>1. /\ t \in Seq(Char) /\ Len(t) = Len(t3) + Len(d)
          /\ \A k \in 1..Len(t3) : t[k] = t3[k]
          /\ \A k \in 1..Len(d) : t[Len(t3) + k] = d[k]
      BY <1>6, JoinFacts, Zenon
    <2> QED BY <1>3, <1>6, <2>1
  <1> HIDE DEF t
  <1>8. \A k \in 1..Len(d) : t[k] = d[k]
    BY <1>3, <1>4, <1>5, <1>6, <1>7
  <1>9. t[Len(d) + 1] = "\n" /\ t[Len(d) + Len(body) + 2] = "\n"
    <2>1. /\ Len(d) + 1 \in 1..(Len(d) + 1) /\ Len(d) + 1 \in 1..(Len(d) + 1 + Len(body))
          /\ Len(d) + 1 \in 1..(Len(d) + Len(body) + 2)
          /\ Len(d) + Len(body) + 2 \in 1..(Len(d) + Len(body) + 2)
      BY <1>3
    <2> QED BY <2>1, <1>4, <1>5, <1>6, <1>7, Zenon
  <1>10. \A k \in 1..Len(body) : t[Len(d) + 1 + k] = body[k]
    <2> TAKE k \in 1..Len(body)
    <2>1. Len(d) + 1 + k \in 1..(Len(d) + 1 + Len(body))
      BY <1>3
    <2>2. Len(d) + 1 + k \in 1..(Len(d) + Len(body) + 2)
      BY <1>3
    <2> QED BY <2>1, <2>2, <1>5, <1>6, <1>7, Zenon
  <1> QED BY <1>2, <1>3, <1>7, <1>8, <1>9, <1>10, Zenon

\* What a search finds.
LEMMA FirstIs ==
  ASSUME NEW text, Len(text) \in Nat, NEW c, NEW i \in Nat, NEW j \in i..Len(text),
         text[j] = c, \A k \in i..(j - 1) : text[k] # c
  PROVE  First(text, c, i) = j
  <1>1. ASSUME NEW m \in i..Len(text), text[m] = c, \A k \in i..(m - 1) : text[k] # c
        PROVE  m = j
    <2>1. ~(m < j) /\ ~(j < m)
      BY <1>1
    <2> QED BY <2>1
  <1> QED BY <1>1, Zenon DEF First

LEMMA FirstAtIs ==
  ASSUME NEW word, NEW text, Len(text) \in Nat, NEW i \in Nat, NEW j \in i..Len(text),
         Occurs(word, text, j), \A k \in i..(j - 1) : ~Occurs(word, text, k)
  PROVE  FirstAt(word, text, i) = j
  <1>1. ASSUME NEW m \in i..Len(text), Occurs(word, text, m),
               \A k \in i..(m - 1) : ~Occurs(word, text, k)
        PROVE  m = j
    <2>1. ~(m < j) /\ ~(j < m)
      BY <1>1
    <2> QED BY <2>1
  <1> QED BY <1>1, Zenon DEF FirstAt

\* The body between two line breaks, position by position.
LEMMA LinesFacts ==
  ASSUME NEW body \in Seq(Char)
  PROVE  LET s == <<"\n">> \o body \o <<"\n">>
         IN  /\ s \in Seq(Char) /\ Len(s) = Len(body) + 2
             /\ s[1] = "\n" /\ s[Len(body) + 2] = "\n"
             /\ \A k \in 1..Len(body) : s[k + 1] = body[k]
  <1> DEFINE nl == <<"\n">>
             t1 == nl \o body
             t2 == t1 \o nl
  <1>1. nl \in Seq(Char) /\ Len(nl) = 1 /\ nl[1] = "\n" /\ 1 \in 1..Len(nl)
    BY CodecAssumption
  <1>2. t2 = <<"\n">> \o body \o <<"\n">> /\ Len(body) \in Nat
    OBVIOUS
  <1> HIDE DEF nl
  <1>3. /\ t1 \in Seq(Char) /\ Len(t1) = Len(nl) + Len(body)
        /\ \A k \in 1..Len(nl) : t1[k] = nl[k]
        /\ \A k \in 1..Len(body) : t1[Len(nl) + k] = body[k]
    BY <1>1, JoinFacts, Zenon
  <1> HIDE DEF t1
  <1>4. /\ t2 \in Seq(Char) /\ Len(t2) = Len(t1) + Len(nl)
        /\ \A k \in 1..Len(t1) : t2[k] = t1[k]
        /\ \A k \in 1..Len(nl) : t2[Len(t1) + k] = nl[k]
    BY <1>1, <1>3, JoinFacts, Zenon
  <1> HIDE DEF t2
  <1>5. Len(t1) = Len(body) + 1 /\ Len(t2) = Len(body) + 2
    BY <1>1, <1>2, <1>3, <1>4
  <1>6. t2[1] = "\n"
    <2>1. 1 \in 1..Len(t1)
      BY <1>2, <1>5
    <2> QED BY <1>1, <1>3, <1>4, <2>1, Zenon
  <1>7. t2[Len(body) + 2] = "\n"
    <2>1. t2[Len(t1) + 1] = nl[1]
      BY <1>1, <1>4, Zenon
    <2>2. Len(t1) + 1 = Len(body) + 2
      BY <1>2, <1>5
    <2> QED BY <1>1, <2>1, <2>2, Zenon
  <1>8. ASSUME NEW k \in 1..Len(body) PROVE t2[k + 1] = body[k]
    <2>1. k + 1 \in 1..Len(t1) /\ k + 1 = Len(nl) + k
      BY <1>1, <1>2, <1>5
    <2> QED BY <1>3, <1>4, <2>1, Zenon
  <1> QED BY <1>2, <1>4, <1>5, <1>6, <1>7, <1>8, Zenon

\* A part of a text, position by position.
LEMMA PartFacts ==
  ASSUME NEW s \in Seq(Char), NEW m \in Nat \ {0}, NEW n \in Nat,
         m <= n + 1, n <= Len(s)
  PROVE  /\ SubSeq(s, m, n) \in Seq(Char) /\ Len(SubSeq(s, m, n)) = n - m + 1
         /\ \A k \in 1..(n - m + 1) : SubSeq(s, m, n)[k] = s[m + k - 1]
  OBVIOUS

LEMMA SameText ==
  ASSUME NEW s \in Seq(Char), NEW t \in Seq(Char), Len(s) = Len(t),
         \A k \in 1..Len(s) : s[k] = t[k]
  PROVE  s = t
  OBVIOUS

\* If the tag does not occur in the body, the scanner reads the body back.
LEMMA QuoteReadBack ==
  ASSUME NEW body \in Seq(Char), NEW tag \in Seq(TagChar), ~Clashes(body, tag)
  PROVE  ReadQuoted(DollarQuote(body, tag))
           = [string |-> <<"\n">> \o body \o <<"\n">>, rest |-> <<>>]
  <1> DEFINE d == Delimiter(tag)
             D == Len(d)
             B == Len(body)
             t == DollarQuote(body, tag)
             end == D + B + 3
  <1>1. /\ d \in Seq(Char) /\ Len(d) = Len(tag) + 2 /\ Len(tag) \in Nat
        /\ d[1] = "$" /\ d[Len(d)] = "$"
        /\ \A k \in 2..(Len(d) - 1) : d[k] = tag[k - 1] /\ d[k] # "$"
        /\ \A k \in 1..Len(d) : d[k] # "\n"
    BY DelimiterFacts, Zenon
  <1>2. ~\E i \in 1..B : Occurs(d, body, i)
    BY Zenon DEF Clashes
  <1>3. t = Framed(d, body)
    BY Zenon DEF DollarQuote, Framed
  <1>4. tag \in Seq(Char)
    BY DEF TagChar
  <1> HIDE DEF d, t
  <1>5. /\ D \in Nat /\ B \in Nat /\ t \in Seq(Char) /\ Len(t) = 2 * D + B + 2
        /\ \A k \in 1..D : t[k] = d[k] /\ t[D + B + 2 + k] = d[k]
        /\ t[D + 1] = "\n" /\ t[D + B + 2] = "\n"
        /\ \A k \in 1..B : t[D + 1 + k] = body[k]
    <2> DEFINE f == Framed(d, body)
    <2>1. /\ D \in Nat /\ B \in Nat /\ f \in Seq(Char) /\ Len(f) = 2 * D + B + 2
          /\ \A k \in 1..D : f[k] = d[k] /\ f[D + B + 2 + k] = d[k]
          /\ f[D + 1] = "\n" /\ f[D + B + 2] = "\n"
          /\ \A k \in 1..B : f[D + 1 + k] = body[k]
      BY <1>1, QuotedFacts, ZenonT(30)
    <2> QED BY <1>3, <2>1, Zenon
  <1>6. First(t, "$", 2) = D
    <2>1. D \in 2..Len(t) /\ t[D] = "$" /\ Len(t) \in Nat
      BY <1>1, <1>5
    <2>2. ASSUME NEW k \in 2..(D - 1) PROVE t[k] # "$"
      <3>1. k \in 1..D
        BY <1>5
      <3>2. t[k] = d[k]
        BY <1>5, <3>1, Zenon
      <3> QED BY <1>1, <3>2, Zenon
    <2> QED BY <2>1, <2>2, FirstIs, Zenon
  <1>7. SubSeq(t, 2, D - 1) = tag
    <2> DEFINE s == SubSeq(t, 2, D - 1)
    <2>1. /\ s \in Seq(Char) /\ Len(s) = D - 2
          /\ \A k \in 1..(D - 2) : s[k] = t[k + 1]
      <3> DEFINE n == D - 1
      <3>1. n \in Nat /\ 2 <= n + 1 /\ n <= Len(t) /\ n - 2 + 1 = D - 2 /\ t \in Seq(Char)
        BY <1>1, <1>5
      <3>2. 2 \in Nat \ {0} /\ s = SubSeq(t, 2, n)
        OBVIOUS
      <3> HIDE DEF n, s, D
      <3>3. /\ s \in Seq(Char) /\ Len(s) = n - 2 + 1
            /\ \A k \in 1..(n - 2 + 1) : s[k] = t[2 + k - 1]
        BY <3>1, <3>2, PartFacts
      <3>4. \A k \in 1..(D - 2) : 2 + k - 1 = k + 1
        OBVIOUS
      <3> QED BY <3>1, <3>3, <3>4, Zenon
    <2> HIDE DEF s
    <2>2. \A k \in 1..(D - 2) : s[k] = tag[k]
      <3> TAKE k \in 1..(D - 2)
      <3>1. k + 1 \in 2..(D - 1) /\ k + 1 \in 1..D /\ (k + 1) - 1 = k
        BY <1>5
      <3>2. s[k] = t[k + 1] /\ t[k + 1] = d[k + 1]
        BY <1>5, <2>1, <3>1, Zenon
      <3>3. d[k + 1] = tag[(k + 1) - 1]
        BY <1>1, <3>1, Zenon
      <3> QED BY <3>1, <3>2, <3>3, Zenon
    <2>3. s = tag
      BY <1>1, <1>4, <2>1, <2>2, SameText
    <2> QED BY <2>3, Zenon DEF s
  <1>8. Occurs(d, t, end)
    <2>1. end + D - 1 <= Len(t)
      BY <1>5
    <2>2. \A k \in 1..D : t[end + k - 1] = d[k]
      <3> TAKE k \in 1..D
      <3>1. end + k - 1 = D + B + 2 + k
        BY <1>5
      <3> QED BY <1>5, <3>1, Zenon
    <2> QED BY <2>1, <2>2, Zenon DEF Occurs
  <1>9. ASSUME NEW j \in (D + 1)..(end - 1), Occurs(d, t, j) PROVE FALSE
    <2>1. \A k \in 1..D : t[j + k - 1] = d[k]
      BY <1>9, Zenon DEF Occurs
    <2>2. CASE j = D + 1
      <3>1. 1 \in 1..D /\ j + 1 - 1 = D + 1
        BY <1>1, <1>5, <2>2
      <3> QED BY <1>1, <1>5, <2>1, <3>1, Zenon
    <2>3. CASE j + D - 1 >= D + B + 2
      <3>1. D + B + 3 - j \in 1..D /\ j + (D + B + 3 - j) - 1 = D + B + 2
        BY <1>5, <2>3
      <3>2. t[D + B + 2] = d[D + B + 3 - j]
        BY <2>1, <3>1, Zenon
      <3> QED BY <1>1, <1>5, <3>1, <3>2, Zenon
    <2>4. CASE j # D + 1 /\ j + D - 1 < D + B + 2
      <3> DEFINE i == j - D - 1
      <3>1. i \in 1..B /\ i + D - 1 <= B
        BY <1>1, <1>5, <2>4
      <3>2. \A k \in 1..D : body[i + k - 1] = d[k]
        <4> TAKE k \in 1..D
        <4>1. i + k - 1 \in 1..B /\ D + 1 + (i + k - 1) = j + k - 1
          BY <1>5, <3>1
        <4> QED BY <1>5, <2>1, <4>1, Zenon
      <3> QED BY <1>2, <3>1, <3>2, Zenon DEF Occurs
    <2> QED BY <1>5, <2>2, <2>3, <2>4
  <1>10. FirstAt(d, t, D + 1) = end
    <2>1. end \in (D + 1)..Len(t) /\ Len(t) \in Nat /\ D + 1 \in Nat
      BY <1>1, <1>5
    <2>2. \A k \in (D + 1)..(end - 1) : ~Occurs(d, t, k)
      BY <1>9, Zenon
    <2> HIDE DEF end, D
    <2> QED BY <1>8, <2>1, <2>2, FirstAtIs, Zenon
  <1>11. SubSeq(t, D + 1, end - 1) = <<"\n">> \o body \o <<"\n">>
    <2> DEFINE s == SubSeq(t, D + 1, end - 1)
               u == <<"\n">> \o body \o <<"\n">>
    <2>1. /\ u \in Seq(Char) /\ Len(u) = B + 2 /\ u[1] = "\n" /\ u[B + 2] = "\n"
          /\ \A k \in 1..B : u[k + 1] = body[k]
      BY LinesFacts, Zenon
    <2>2. /\ s \in Seq(Char) /\ Len(s) = B + 2 /\ \A k \in 1..(B + 2) : s[k] = t[D + k]
      <3>1. D + 1 \in Nat \ {0} /\ end - 1 \in Nat /\ D + 1 <= end - 1 + 1 /\ end - 1 <= Len(t)
        BY <1>1, <1>5
      <3>2. /\ s \in Seq(Char) /\ Len(s) = end - 1 - (D + 1) + 1
            /\ \A k \in 1..(end - 1 - (D + 1) + 1) : s[k] = t[(D + 1) + k - 1]
        BY <1>5, <3>1, PartFacts, Zenon
      <3>3. end - 1 - (D + 1) + 1 = B + 2 /\ \A k \in 1..(B + 2) : (D + 1) + k - 1 = D + k
        BY <1>5
      <3> HIDE DEF s, end, D, B
      <3> QED BY <3>2, <3>3, Zenon
    <2> HIDE DEF s, u
    <2>3. \A k \in 1..(B + 2) : s[k] = u[k]
      <3> TAKE k \in 1..(B + 2)
      <3>1. CASE k = 1
        BY <1>5, <2>1, <2>2, <3>1, Zenon
      <3>2. CASE k = B + 2
        <4>1. D + (B + 2) = D + B + 2
          BY <1>5
        <4> QED BY <1>5, <2>1, <2>2, <3>2, <4>1, Zenon
      <3>3. CASE k \in 2..(B + 1)
        <4>1. k - 1 \in 1..B /\ (k - 1) + 1 = k /\ D + 1 + (k - 1) = D + k
          BY <1>5, <3>3
        <4> QED BY <1>5, <2>1, <2>2, <4>1, ZenonT(30)
      <3> QED BY <1>5, <3>1, <3>2, <3>3
    <2>4. s = u
      BY <2>1, <2>2, <2>3, SameText, Zenon
    <2> QED BY <2>4, Zenon DEF s, u
  <1>12. SubSeq(t, end + D, Len(t)) = <<>>
    <2>1. end + D = Len(t) + 1 /\ Len(t) \in Nat
      BY <1>5
    <2> QED BY <1>5, <2>1
  <1> QED
    <2>1. ReadQuoted(t) =
            [string |-> SubSeq(t, D + 1, end - 1), rest |-> SubSeq(t, end + D, Len(t))]
      BY <1>6, <1>7, <1>10, Zenon DEF ReadQuoted, d
    <2> QED BY <1>11, <1>12, <2>1, Zenon DEF t

QuoteInv ==
    input.kind = "quote" =>
        /\ step \in {"quote", "tag", "done"}
        /\ step = "tag" => output \in Seq(TagChar)
        /\ QuotedReadsBack

\* Each step of a conversion keeps it.
LEMMA QuoteStep ==
  ASSUME input \in Inputs, QuoteInv, [CodecNext]_codecVars
  PROVE  QuoteInv'
  <1>1. input' = input
    BY InputStays, Zenon
  <1> SUFFICES ASSUME input.kind = "quote" PROVE QuoteInv'
    BY <1>1, Zenon DEF QuoteInv
  <1>2. step \in {"quote", "tag", "done"}
    BY Zenon DEF QuoteInv
  <1>3. input.body \in Seq(Char) /\ input.tag \in Seq(TagChar)
    BY CodecAssumption, Zenon DEF Inputs, TagChar
  <1>4. CASE FirstTag
    BY <1>1, <1>3, <1>4, Zenon DEF FirstTag, QuoteInv, QuotedReadsBack, Done
  <1>5. CASE PushX
    <2>1. step = "tag" /\ step' = "tag" /\ output' = Append(output, "x") /\ output \in Seq(TagChar)
      BY <1>5, Zenon DEF PushX, QuoteInv
    <2>2. "x" \in TagChar
      BY CodecAssumption, Zenon DEF TagChar
    <2>3. output' \in Seq(TagChar)
      BY <2>1, <2>2
    <2> QED BY <1>1, <2>1, <2>3, Zenon DEF QuoteInv, QuotedReadsBack, Done
  <1>6. CASE Quote
    <2>1. /\ step' = "done" /\ output \in Seq(TagChar) /\ ~Clashes(input.body, output)
          /\ output' = ReadQuoted(DollarQuote(input.body, output))
      BY <1>6, Zenon DEF Quote, QuoteInv
    <2>2. output' = [string |-> <<"\n">> \o input.body \o <<"\n">>, rest |-> <<>>]
      BY <1>3, <2>1, QuoteReadBack, Zenon
    <2> QED BY <1>1, <2>1, <2>2, Zenon DEF QuoteInv, QuotedReadsBack, Done
  <1>7. CASE UNCHANGED codecVars
    BY <1>7, Zenon DEF codecVars, QuoteInv, QuotedReadsBack, Done
  <1> QED
    BY <1>2, <1>4, <1>5, <1>6, <1>7, Zenon
       DEF CodecNext, Truncate, StepBack, Cut, NextPiece, NoMorePieces, Decode,
           NameDecoded, ValueDecoded

-----------------------------------------------------------------------------
(* TextCodec: queries and forms.                                             *)

Clean(p) == \A k \in 1..Len(p) : p[k] # "&" /\ p[k] # "="

\* What a spelling looks like.
LEMMA SpellingFacts ==
  ASSUME NEW c \in Char, NEW p \in Spellings(c)
  PROVE  /\ p \in Seq(Char) /\ Len(p) \in Nat /\ Clean(p)
         /\ \/ /\ Len(p) = 3 /\ p[1] = "%"
               /\ \E h \in DOMAIN ByteOf :
                     ByteOf[h] = c /\ h \in Seq(Char) /\ Len(h) = 2 /\ p[2] = h[1] /\ p[3] = h[2]
            \/ Len(p) = 1 /\ p[1] = c /\ c \notin Special
            \/ Len(p) = 1 /\ p[1] = "+" /\ c = " "
  <1>1. CASE p \in Escapes(c)
    <2>1. PICK h \in DOMAIN ByteOf : p = <<"%">> \o h /\ ByteOf[h] = c
      BY <1>1, Zenon DEF Escapes
    <2>2. h \in Seq(Char \ {"&", "="}) /\ Len(h) = 2 /\ "%" \in Char
      BY CodecAssumption, Zenon DEF Special
    <2>3. h \in Seq(Char) /\ \A k \in 1..2 : h[k] # "&" /\ h[k] # "="
      <3> DEFINE S == Char \ {"&", "="}
      <3>0. h \in Seq(S)
        BY <2>2, Zenon
      <3> HIDE DEF S
      <3>01. \A k \in 1..Len(h) : h[k] \in S
        BY <3>0
      <3>1. \A k \in 1..Len(h) : h[k] \in Char \ {"&", "="}
        BY <3>01, Zenon DEF S
      <3>2. h \in Seq(Char)
        BY <2>2
      <3>3. 1..Len(h) = 1..2
        BY <2>2, Zenon
      <3> QED BY <3>1, <3>2, <3>3, Zenon
    <2> DEFINE q == <<"%">>
    <2>4. q \in Seq(Char) /\ Len(q) = 1 /\ q[1] = "%" /\ 1 \in 1..Len(q)
      BY <2>2
    <2>5. p = q \o h
      BY <2>1, Zenon
    <2> HIDE DEF q
    <2>6. /\ p \in Seq(Char) /\ Len(p) = Len(q) + Len(h)
          /\ \A k \in 1..Len(q) : p[k] = q[k]
          /\ \A k \in 1..Len(h) : p[Len(q) + k] = h[k]
      BY <2>3, <2>4, <2>5, JoinFacts, Zenon
    <2>7. Len(p) = 3 /\ p[1] = "%"
      BY <2>2, <2>4, <2>6
    <2>8. p[2] = h[1] /\ p[3] = h[2]
      <3>1. 1 \in 1..Len(h) /\ 2 \in 1..Len(h) /\ Len(q) + 1 = 2 /\ Len(q) + 2 = 3
        BY <2>2, <2>4
      <3> QED BY <2>6, <3>1, Zenon
    <2>9. Clean(p)
      <3> SUFFICES ASSUME NEW k \in 1..3 PROVE p[k] # "&" /\ p[k] # "="
        BY <2>7, Zenon DEF Clean
      <3> QED BY <2>3, <2>7, <2>8
    <2> QED BY <2>1, <2>2, <2>3, <2>6, <2>7, <2>8, <2>9
  <1>2. CASE p = <<c>> /\ c \notin Special
    <2>0. c # "&" /\ c # "="
      BY <1>2, Zenon DEF Special
    <2>1. p \in Seq(Char) /\ Len(p) = 1 /\ p[1] = c
      BY <1>2
    <2>2. Clean(p)
      BY <2>0, <2>1 DEF Clean
    <2> QED BY <1>2, <2>1, <2>2, Zenon
  <1>3. CASE p = <<"+">> /\ c = " "
    <2>0. "+" \in Char
      BY CodecAssumption, Zenon DEF Special
    <2>1. p \in Seq(Char) /\ Len(p) = 1 /\ p[1] = "+"
      <3>1. <<"+">> \in Seq(Char) /\ Len(<<"+">>) = 1 /\ <<"+">>[1] = "+"
        BY <2>0
      <3> QED BY <1>3, <3>1, Zenon
    <2>2. Clean(p)
      BY <2>1 DEF Clean
    <2> QED BY <1>3, <2>1, <2>2, Zenon
  <1> QED BY <1>1, <1>2, <1>3, Zenon DEF Spellings

\* One turn of the decoder at the beginning of a character's spelling.
Step(coded, a, b, c) ==
    /\ a < b /\ b <= Len(coded) + 1
    /\ \A k \in a..(b - 1) : coded[k] # "&" /\ coded[k] # "="
    /\ LET hex == SubSeq(coded, a + 1, a + 2)
       IN  IF coded[a] = "%" /\ a + 2 <= Len(coded) /\ hex \in DOMAIN ByteOf
           THEN ByteOf[hex] = c /\ b = a + 3
           ELSE (IF coded[a] = "+" THEN " " ELSE coded[a]) = c /\ b = a + 1

LEMMA DecodesOne ==
  ASSUME NEW coded \in Seq(Char), NEW a \in Nat \ {0}, NEW b \in Nat, b <= Len(coded) + 1,
         NEW c \in Char, SubSeq(coded, a, b - 1) \in Spellings(c)
  PROVE  Step(coded, a, b, c)
  <1> DEFINE p == SubSeq(coded, a, b - 1)
  <1>1. Len(coded) \in Nat
    OBVIOUS
  <1>2. a < b
    <2> SUFFICES ASSUME b <= a PROVE FALSE
      OBVIOUS
    <2>1. Len(p) = 0
      BY <1>1
    <2>2. Len(p) = 1 \/ Len(p) = 3
      <3> HIDE DEF p
      <3>1. p \in Spellings(c)
        BY Zenon DEF p
      <3> QED BY <3>1, SpellingFacts, Zenon
    <2> QED BY <2>1, <2>2
  <1>3. /\ Len(p) = b - a /\ \A k \in 1..(b - a) : p[k] = coded[a + k - 1]
    <2>1. b - 1 \in Nat /\ a <= b - 1 + 1 /\ b - 1 <= Len(coded) /\ b - 1 - a + 1 = b - a
      BY <1>1, <1>2
    <2>2. /\ Len(p) = b - 1 - a + 1 /\ \A k \in 1..(b - 1 - a + 1) : p[k] = coded[a + k - 1]
      BY <2>1, PartFacts, Zenon
    <2> QED BY <2>1, <2>2, Zenon
  <1> HIDE DEF p
  <1>4. p \in Spellings(c) /\ Clean(p)
    <2>1. p \in Spellings(c)
      BY Zenon DEF p
    <2> QED BY <2>1, SpellingFacts, Zenon
  <1>41. Len(p) = b - a
    BY <1>3, Zenon
  <1>5. ASSUME NEW k \in a..(b - 1) PROVE coded[k] # "&" /\ coded[k] # "="
    <2>1. k - a + 1 \in 1..(b - a) /\ a + (k - a + 1) - 1 = k
      BY <1>2
    <2>2. coded[k] = p[k - a + 1]
      BY <1>3, <2>1, Zenon
    <2>3. k - a + 1 \in 1..Len(p)
      BY <1>41, <2>1, Zenon
    <2> QED BY <1>4, <2>2, <2>3, Zenon DEF Clean
  <1>6. 1 \in 1..(b - a) /\ a + 1 - 1 = a
    BY <1>2
  <1>7. coded[a] = p[1]
    BY <1>3, <1>6, Zenon
  <1> DEFINE hex == SubSeq(coded, a + 1, a + 2)
  <1>8. ASSUME Len(p) = 3, p[1] = "%",
               NEW h \in DOMAIN ByteOf, ByteOf[h] = c, h \in Seq(Char), Len(h) = 2,
               p[2] = h[1], p[3] = h[2]
        PROVE  coded[a] = "%" /\ a + 2 <= Len(coded) /\ hex \in DOMAIN ByteOf /\ ByteOf[hex] = c
               /\ b = a + 3
    <2>1. b = a + 3 /\ a + 2 <= Len(coded)
      <3>1. b - a = 3
        BY <1>41, <1>8, Zenon
      <3> QED BY <1>1, <3>1
    <2>2. coded[a + 1] = h[1] /\ coded[a + 2] = h[2]
      <3>1. 2 \in 1..(b - a) /\ 3 \in 1..(b - a) /\ a + 2 - 1 = a + 1 /\ a + 3 - 1 = a + 2
        BY <2>1
      <3> QED BY <1>3, <1>8, <3>1, Zenon
    <2>3. hex \in Seq(Char) /\ Len(hex) = 2 /\ hex[1] = coded[a + 1] /\ hex[2] = coded[a + 2]
      <3> DEFINE m == a + 1
                 n == a + 2
      <3>1. m \in Nat \ {0} /\ n \in Nat /\ m <= n + 1 /\ n <= Len(coded) /\ n - m + 1 = 2
            /\ m + 1 - 1 = m /\ m + 2 - 1 = n
        BY <2>1
      <3> HIDE DEF m, n
      <3>2. /\ SubSeq(coded, m, n) \in Seq(Char) /\ Len(SubSeq(coded, m, n)) = n - m + 1
            /\ \A k \in 1..(n - m + 1) : SubSeq(coded, m, n)[k] = coded[m + k - 1]
        BY <3>1, PartFacts, Zenon
      <3>3. /\ Len(SubSeq(coded, m, n)) = 2 /\ SubSeq(coded, m, n)[1] = coded[m]
            /\ SubSeq(coded, m, n)[2] = coded[n]
        BY <3>1, <3>2
      <3> QED BY <3>2, <3>3, Zenon DEF m, n
    <2> HIDE DEF hex
    <2>4. hex = h
      <3>1. \A k \in 1..Len(hex) : hex[k] = h[k]
        BY <2>2, <2>3
      <3> QED BY <1>8, <2>3, <3>1, SameText, Zenon
    <2> QED BY <1>7, <1>8, <2>1, <2>4, Zenon
  <1>9. ASSUME Len(p) = 1, p[1] = c, c \notin Special
        PROVE  coded[a] = c /\ c # "%" /\ c # "+" /\ b = a + 1
    <2>1. b - a = 1
      BY <1>41, <1>9, Zenon
    <2>2. b = a + 1
      BY <2>1
    <2> QED BY <1>7, <1>9, <2>2, Zenon DEF Special
  <1>10. ASSUME Len(p) = 1, p[1] = "+", c = " "
         PROVE  coded[a] = "+" /\ b = a + 1
    <2>1. b - a = 1
      BY <1>41, <1>10, Zenon
    <2>2. b = a + 1
      BY <2>1
    <2> QED BY <1>7, <1>10, <2>2, Zenon
  <1>11. IF coded[a] = "%" /\ a + 2 <= Len(coded) /\ hex \in DOMAIN ByteOf
         THEN ByteOf[hex] = c /\ b = a + 3
         ELSE (IF coded[a] = "+" THEN " " ELSE coded[a]) = c /\ b = a + 1
    <2> HIDE DEF hex
    <2>1. \/ /\ Len(p) = 3 /\ p[1] = "%"
             /\ \E h \in DOMAIN ByteOf :
                   ByteOf[h] = c /\ h \in Seq(Char) /\ Len(h) = 2 /\ p[2] = h[1] /\ p[3] = h[2]
          \/ Len(p) = 1 /\ p[1] = c /\ c \notin Special
          \/ Len(p) = 1 /\ p[1] = "+" /\ c = " "
      BY <1>4, SpellingFacts, Zenon
    <2>2. CASE /\ Len(p) = 3 /\ p[1] = "%"
               /\ \E h \in DOMAIN ByteOf :
                   ByteOf[h] = c /\ h \in Seq(Char) /\ Len(h) = 2 /\ p[2] = h[1] /\ p[3] = h[2]
      BY <1>8, <2>2, Zenon
    <2>3. CASE Len(p) = 1 /\ p[1] = c /\ c \notin Special
      BY <1>9, <2>3, Zenon
    <2>4. CASE Len(p) = 1 /\ p[1] = "+" /\ c = " "
      BY <1>10, <2>4, Zenon
    <2> QED BY <2>1, <2>2, <2>3, <2>4, Zenon
  <1> QED BY <1>2, <1>5, <1>11, Zenon DEF Step

\* From the beginning of one spelling the decoder reaches the next.
LEMMA SpelledSteps ==
  ASSUME NEW w, Spelled(w)
  PROVE  /\ Len(w.text) \in Nat /\ Len(w.coded) \in Nat
         /\ \A i \in 1..(Len(w.text) + 1) : w.starts[i] \in 1..(Len(w.coded) + 1)
         /\ \A i \in 1..Len(w.text) :
               Step(w.coded, w.starts[i], w.starts[i + 1], w.text[i])
  <1> DEFINE text == w.text
             coded == w.coded
             starts == w.starts
  <1>1. /\ text \in Seq(Char) /\ coded \in Seq(Char)
        /\ starts \in [1..(Len(text) + 1) -> 1..(Len(coded) + 1)]
        /\ \A i \in 1..Len(text) :
              SubSeq(coded, starts[i], starts[i + 1] - 1) \in Spellings(text[i])
    BY Zenon DEF Spelled
  <1> HIDE DEF text, coded, starts
  <1>2. Len(text) \in Nat /\ Len(coded) \in Nat
    BY <1>1
  <1>3. ASSUME NEW i \in 1..(Len(text) + 1) PROVE starts[i] \in 1..(Len(coded) + 1)
    BY <1>1, Zenon
  <1>4. ASSUME NEW i \in 1..Len(text)
        PROVE  Step(coded, starts[i], starts[i + 1], text[i])
    <2>1. i \in 1..(Len(text) + 1) /\ i + 1 \in 1..(Len(text) + 1)
      BY <1>2
    <2>2. starts[i] \in 1..(Len(coded) + 1) /\ starts[i + 1] \in 1..(Len(coded) + 1)
      BY <1>3, <2>1, Zenon
    <2>3. /\ starts[i] \in Nat \ {0} /\ starts[i + 1] \in Nat
          /\ starts[i + 1] <= Len(coded) + 1
      BY <1>2, <2>2
    <2>4. text[i] \in Char
      BY <1>1
    <2> QED BY <1>1, <2>3, <2>4, DecodesOne, Zenon
  <1> QED BY <1>2, <1>3, <1>4, Zenon DEF text, coded, starts

\* No separator is left in what has been spelled.
LEMMA SpelledClean ==
  ASSUME NEW w, Spelled(w)
  PROVE  Clean(w.coded)
  <1> DEFINE n == Len(w.text)
             s == w.starts
             coded == w.coded
  <1>1. /\ n \in Nat /\ Len(coded) \in Nat
        /\ \A i \in 1..(n + 1) : s[i] \in 1..(Len(coded) + 1)
        /\ \A i \in 1..n : Step(coded, s[i], s[i + 1], w.text[i])
    BY SpelledSteps, Zenon
  <1>2. s[1] = 1 /\ s[n + 1] = Len(coded) + 1 /\ s \in [1..(n + 1) -> 1..(Len(coded) + 1)]
    BY Zenon DEF Spelled
  <1> HIDE DEF n, s, coded
  <1>3. s \in [1..(n + 1) -> Nat]
    BY <1>1, <1>2
  <1> SUFFICES ASSUME NEW k \in 1..Len(coded) PROVE coded[k] # "&" /\ coded[k] # "="
    BY Zenon DEF Clean, coded
  <1>4. s[1] <= k /\ k < s[n + 1] /\ k \in Nat
    BY <1>1, <1>2
  <1>5. PICK i \in 1..n : s[i] <= k /\ k < s[i + 1]
    BY <1>1, <1>3, <1>4, Between, Zenon
  <1>6. s[i] \in Nat /\ s[i + 1] \in Nat
    BY <1>1, <1>3
  <1>7. k \in s[i]..(s[i + 1] - 1)
    BY <1>4, <1>5, <1>6
  <1> QED BY <1>1, <1>7, Zenon DEF Step

\* split_once gives back name and value, and finds nothing to split in a field
\* that is sent alone.
LEMMA FieldFacts ==
  ASSUME NEW f, Spelled(f.name), Spelled(f.value), f.bare \in BOOLEAN
  PROVE  LET p == FieldText(f)
         IN  /\ p \in Seq(Char) /\ \A k \in 1..Len(p) : p[k] # "&"
             /\ Has(p, "=") <=> ~f.bare
             /\ ~f.bare => Pair(p) = [name |-> f.name.coded, value |-> f.value.coded]
  <1> DEFINE a == f.name.coded
             b == f.value.coded
             q == <<"=">>
             aq == a \o q
             p == aq \o b
  <1>1. a \in Seq(Char) /\ b \in Seq(Char) /\ Len(a) \in Nat /\ Len(b) \in Nat
    <2>1. a \in Seq(Char) /\ b \in Seq(Char)
      BY Zenon DEF Spelled
    <2> HIDE DEF a, b
    <2> QED BY <2>1
  <1>2. Clean(a) /\ Clean(b)
    BY SpelledClean, Zenon
  <1>3. q \in Seq(Char) /\ Len(q) = 1 /\ q[1] = "=" /\ 1 \in 1..Len(q)
    <2>1. "=" \in Char
      BY CodecAssumption, Zenon DEF Special
    <2> QED BY <2>1
  <1>4. f.bare => FieldText(f) = a
    BY Zenon DEF FieldText
  <1>5. ~f.bare => FieldText(f) = p
    BY Zenon DEF FieldText
  <1> HIDE DEF a, b, q
  <1>6. /\ aq \in Seq(Char) /\ Len(aq) = Len(a) + Len(q)
        /\ \A k \in 1..Len(a) : aq[k] = a[k]
        /\ \A k \in 1..Len(q) : aq[Len(a) + k] = q[k]
    BY <1>1, <1>3, JoinFacts, Zenon
  <1>7. Len(aq) = Len(a) + 1 /\ aq[Len(a) + 1] = "="
    BY <1>1, <1>3, <1>6, Zenon
  <1> HIDE DEF aq
  <1>8. /\ p \in Seq(Char) /\ Len(p) = Len(aq) + Len(b)
        /\ \A k \in 1..Len(aq) : p[k] = aq[k]
        /\ \A k \in 1..Len(b) : p[Len(aq) + k] = b[k]
    BY <1>1, <1>6, JoinFacts, Zenon
  <1> HIDE DEF p
  <1>9. Len(p) = Len(a) + 1 + Len(b) /\ p[Len(a) + 1] = "="
    <2>1. Len(a) + 1 \in 1..Len(aq)
      BY <1>1, <1>7
    <2> QED BY <1>1, <1>7, <1>8, <2>1, Zenon
  <1>10. ASSUME NEW k \in 1..Len(a) PROVE p[k] = a[k]
    <2>1. k \in 1..Len(aq)
      BY <1>1, <1>7
    <2> QED BY <1>6, <1>8, <2>1, Zenon
  <1>11. ASSUME NEW k \in 1..Len(b) PROVE p[Len(a) + 1 + k] = b[k]
    BY <1>7, <1>8, Zenon
  <1>12. ASSUME NEW k \in 1..Len(p) PROVE p[k] # "&"
    <2>1. CASE k \in 1..Len(a)
      BY <1>2, <1>10, <2>1, Zenon DEF Clean
    <2>2. CASE k = Len(a) + 1
      BY <1>9, <2>2, Zenon
    <2>3. CASE k - Len(a) - 1 \in 1..Len(b)
      <3>1. Len(a) + 1 + (k - Len(a) - 1) = k
        BY <1>1, <1>9
      <3>2. p[k] = b[k - Len(a) - 1]
        BY <1>11, <2>3, <3>1, Zenon
      <3> QED BY <1>2, <2>3, <3>2, Zenon DEF Clean
    <2> QED BY <1>1, <1>9, <2>1, <2>2, <2>3
  <1>13. First(p, "=", 1) = Len(a) + 1
    <2>1. Len(a) + 1 \in 1..Len(p) /\ Len(p) \in Nat /\ 1 \in Nat
      BY <1>1, <1>9
    <2>2. ASSUME NEW k \in 1..(Len(a) + 1 - 1) PROVE p[k] # "="
      <3>1. k \in 1..Len(a)
        BY <1>1
      <3> QED BY <1>2, <1>10, <3>1, Zenon DEF Clean
    <2> QED BY <1>9, <2>1, <2>2, FirstIs
  <1>14. SubSeq(p, 1, First(p, "=", 1) - 1) = a
    <2> DEFINE m == Len(a)
               u == SubSeq(p, 1, m)
    <2>1. 1 \in Nat \ {0} /\ m \in Nat /\ 1 <= m + 1 /\ m <= Len(p) /\ m - 1 + 1 = m
      BY <1>1, <1>9
    <2> HIDE DEF m
    <2>2. /\ u \in Seq(Char) /\ Len(u) = m - 1 + 1
          /\ \A k \in 1..(m - 1 + 1) : u[k] = p[1 + k - 1]
      BY <1>8, <2>1, PartFacts, Zenon
    <2> HIDE DEF u
    <2>3. \A k \in 1..m : 1 + k - 1 = k
      OBVIOUS
    <2>4. Len(u) = m /\ \A k \in 1..m : u[k] = p[k]
      BY <2>1, <2>2, <2>3, Zenon
    <2>5. u = a
      BY <1>1, <1>10, <2>2, <2>4, SameText, Zenon DEF m
    <2>6. First(p, "=", 1) - 1 = m
      BY <1>1, <1>13 DEF m
    <2> QED BY <2>5, <2>6, Zenon DEF u
  <1>15. SubSeq(p, First(p, "=", 1) + 1, Len(p)) = b
    <2> DEFINE m == First(p, "=", 1) + 1
               n == Len(p)
               u == SubSeq(p, m, n)
    <2>1. /\ m \in Nat \ {0} /\ n \in Nat /\ m <= n + 1 /\ n <= Len(p) /\ n - m + 1 = Len(b)
          /\ \A k \in 1..Len(b) : m + k - 1 = Len(a) + 1 + k
      BY <1>1, <1>9, <1>13
    <2> HIDE DEF m, n
    <2>2. /\ u \in Seq(Char) /\ Len(u) = n - m + 1
          /\ \A k \in 1..(n - m + 1) : u[k] = p[m + k - 1]
      BY <1>8, <2>1, PartFacts, Zenon
    <2> HIDE DEF u
    <2>4. Len(u) = Len(b) /\ \A k \in 1..Len(b) : u[k] = p[Len(a) + 1 + k]
      BY <2>1, <2>2, Zenon
    <2>5. u = b
      BY <1>1, <1>11, <2>2, <2>4, SameText, Zenon
    <2> QED BY <2>5, Zenon DEF u, m, n
  <1>16. CASE f.bare
    BY <1>1, <1>2, <1>4, <1>16, Zenon DEF Clean, Has
  <1>17. CASE ~f.bare
    <2>1. Has(p, "=")
      <3>1. Len(a) + 1 \in 1..Len(p)
        BY <1>1, <1>9
      <3> QED BY <1>9, <3>1, Zenon DEF Has
    <2>2. Pair(p) = [name |-> a, value |-> b]
      BY <1>14, <1>15, Zenon DEF Pair
    <2> QED BY <1>5, <1>8, <1>12, <1>17, <2>1, <2>2, Zenon DEF a, b
  <1> QED BY <1>16, <1>17, Zenon

\* split('&') finds the fields one after the other.
LEMMA PieceFacts ==
  ASSUME NEW r, Joined(r), NEW i \in 1..Len(r.fields)
  PROVE  /\ Len(r.fields) \in Nat /\ Len(r.text) \in Nat
         /\ r.starts[i] \in Nat /\ r.starts[i] <= Len(r.text) + 1
         /\ SubSeq(r.text, r.starts[i], PieceEnd(r.text, r.starts[i])) = FieldText(r.fields[i])
         /\ PieceEnd(r.text, r.starts[i]) + 2 = r.starts[i + 1]
  <1> DEFINE n == Len(r.fields)
             text == r.text
             starts == r.starts
             p == FieldText(r.fields[i])
             a == starts[i]
             e == starts[i + 1] - 2
  <1>1. /\ n \in Nat /\ text \in Seq(Char) /\ Len(text) \in Nat
        /\ starts \in [1..(n + 1) -> 1..(Len(text) + 2)] /\ starts[n + 1] = Len(text) + 2
        /\ \A j \in 1..n : starts[j] < starts[j + 1]
        /\ SubSeq(text, starts[i], starts[i + 1] - 2) = p
        /\ \A j \in 1..n : j > 1 => text[starts[j] - 1] = "&"
    <2>1. /\ n \in Nat \ {0} /\ text \in Seq(Char)
          /\ starts \in [1..(n + 1) -> 1..(Len(text) + 2)] /\ starts[n + 1] = Len(text) + 2
          /\ \A j \in 1..n : starts[j] < starts[j + 1]
          /\ SubSeq(text, starts[i], starts[i + 1] - 2) = p
          /\ \A j \in 1..n : j > 1 => text[starts[j] - 1] = "&"
      BY Zenon DEF Joined
    <2> HIDE DEF n, text, starts, p
    <2>2. Len(text) \in Nat /\ n \in Nat
      BY <2>1
    <2> QED BY <2>1, <2>2, Zenon
  <1>2. p \in Seq(Char) /\ \A k \in 1..Len(p) : p[k] # "&"
    BY FieldFacts, Zenon DEF Joined
  <1>3. i \in 1..n
    BY Zenon
  <1> HIDE DEF n, text, starts, p
  <1>4. i \in 1..(n + 1) /\ i + 1 \in 1..(n + 1)
    BY <1>1, <1>3
  <1>5. /\ a \in 1..(Len(text) + 2) /\ starts[i + 1] \in 1..(Len(text) + 2)
        /\ a < starts[i + 1]
    BY <1>1, <1>3, <1>4, Zenon
  <1>51. \A x, y \in 1..(Len(text) + 2) :
            x < y => /\ x \in Nat \ {0} /\ y - 2 \in Nat /\ x <= y - 2 + 1 /\ y - 2 <= Len(text)
                     /\ y - 2 + 2 = y /\ x <= Len(text) + 1
    BY <1>1
  <1>6. /\ a \in Nat \ {0} /\ e \in Nat /\ a <= e + 1 /\ e <= Len(text)
        /\ e + 2 = starts[i + 1] /\ a <= Len(text) + 1
    BY <1>5, <1>51, Zenon
  <1>7. SubSeq(text, a, e) = p
    BY <1>1, Zenon
  <1> HIDE DEF a, e
  <1>8. Len(p) = e - a + 1 /\ \A k \in 1..(e - a + 1) : p[k] = text[a + k - 1]
    <2>1. /\ Len(SubSeq(text, a, e)) = e - a + 1
          /\ \A k \in 1..(e - a + 1) : SubSeq(text, a, e)[k] = text[a + k - 1]
      BY <1>1, <1>6, PartFacts, Zenon
    <2> QED BY <1>7, <2>1, Zenon
  <1>9. ASSUME NEW k \in a..e PROVE text[k] # "&"
    <2>1. k - a + 1 \in 1..(e - a + 1) /\ a + (k - a + 1) - 1 = k
      BY <1>6
    <2>2. p[k - a + 1] = text[k]
      BY <1>8, <2>1, Zenon
    <2> QED BY <1>2, <1>8, <2>1, <2>2, Zenon
  <1>10. PieceEnd(text, a) = e
    <2>1. CASE i = n
      <3>1. e = Len(text)
        <4>1. e + 2 = Len(text) + 2
          BY <1>1, <1>6, <2>1, Zenon
        <4> QED BY <1>1, <1>6, <4>1
      <3>2. ~\E j \in a..Len(text) : text[j] = "&"
        BY <1>9, <3>1, Zenon
      <3> QED BY <3>1, <3>2, Zenon DEF PieceEnd
    <2>2. CASE i # n
      <3>1. i + 1 \in 1..n /\ i + 1 > 1 /\ (i + 1) + 1 \in 1..(n + 1)
        BY <1>1, <1>3, <2>2
      <3>2. text[starts[i + 1] - 1] = "&"
        BY <1>1, <3>1, Zenon
      <3>3. starts[i + 1] < starts[(i + 1) + 1] /\ starts[(i + 1) + 1] \in 1..(Len(text) + 2)
        BY <1>1, <3>1, Zenon
      <3>4. e + 1 \in a..Len(text) /\ text[e + 1] = "&"
        <4>1. starts[i + 1] - 1 = e + 1
          BY <1>6
        <4>2. starts[i + 1] \in Nat /\ starts[i + 1] < Len(text) + 2
          <5>1. \A x, y \in 1..(Len(text) + 2) : x < y => x \in Nat /\ x < Len(text) + 2
            BY <1>1
          <5> QED BY <1>5, <3>3, <5>1, Zenon
        <4>3. e + 1 \in a..Len(text)
          BY <1>1, <1>6, <4>2
        <4> QED BY <3>2, <4>1, <4>3, Zenon
      <3>5. \A k \in a..((e + 1) - 1) : text[k] # "&"
        BY <1>6, <1>9
      <3>6. First(text, "&", a) = e + 1
        BY <1>1, <1>6, <3>4, <3>5, FirstIs, Zenon
      <3> QED BY <1>6, <3>4, <3>6 DEF PieceEnd
    <2> QED BY <2>1, <2>2, Zenon
  <1>11. /\ n \in Nat /\ Len(text) \in Nat /\ a \in Nat /\ a <= Len(text) + 1
         /\ SubSeq(text, a, PieceEnd(text, a)) = p /\ PieceEnd(text, a) + 2 = starts[i + 1]
    BY <1>1, <1>6, <1>7, <1>10, ZenonT(30)
  <1> QED BY <1>11, Zenon DEF n, text, starts, p, a

\* The places where the pieces begin.
LEMMA JoinedStarts ==
  ASSUME NEW r, Joined(r)
  PROVE  /\ Len(r.fields) \in Nat /\ Len(r.text) \in Nat
         /\ r.starts[1] = 1 /\ r.starts[Len(r.fields) + 1] = Len(r.text) + 2
  BY DEF Joined

\* The decoder stands at a character of w and has pushed the ones before it.
Decoding(w) ==
    \E m \in 1..(Len(w.text) + 1) : at = w.starts[m] /\ out = SubSeq(w.text, 1, m - 1)

LEMMA DecodingStarts ==
  ASSUME NEW w, Spelled(w), at = 1, out = <<>>
  PROVE  Decoding(w)
  <1>1. Len(w.text) \in Nat /\ w.text \in Seq(Char) /\ w.starts[1] = 1
    BY DEF Spelled
  <1>2. 1 \in 1..(Len(w.text) + 1) /\ SubSeq(w.text, 1, 1 - 1) = <<>>
    BY <1>1
  <1> QED BY <1>1, <1>2, Zenon DEF Decoding

\* A turn of the loop decodes the next character.
LEMMA DecodingStep ==
  ASSUME NEW w, Spelled(w), Decoding(w), Decode, Coded = w.coded
  PROVE  Decoding(w)'
  <1> DEFINE text == w.text
             coded == w.coded
             n == Len(text)
             s == w.starts
  <1>1. PICK m \in 1..(n + 1) : at = s[m] /\ out = SubSeq(text, 1, m - 1)
    BY Zenon DEF Decoding
  <1>2. /\ n \in Nat /\ Len(coded) \in Nat
        /\ \A i \in 1..(n + 1) : s[i] \in 1..(Len(coded) + 1)
        /\ \A i \in 1..n : Step(coded, s[i], s[i + 1], text[i])
    BY SpelledSteps, Zenon
  <1>3. text \in Seq(Char) /\ s[n + 1] = Len(coded) + 1
    BY Zenon DEF Spelled
  <1>4. /\ at <= Len(coded)
        /\ LET hex == SubSeq(coded, at + 1, at + 2)
           IN  IF coded[at] = "%" /\ at + 2 <= Len(coded) /\ hex \in DOMAIN ByteOf
               THEN out' = Append(out, ByteOf[hex]) /\ at' = at + 3
               ELSE out' = Append(out, IF coded[at] = "+" THEN " " ELSE coded[at]) /\ at' = at + 1
    BY Zenon DEF Decode
  <1> HIDE DEF text, coded, n, s
  <1>5. m \in 1..n
    <2>1. ASSUME m = n + 1 PROVE FALSE
      <3>1. at = Len(coded) + 1
        BY <1>1, <1>3, <2>1, Zenon
      <3>2. at <= Len(coded)
        BY <1>4, Zenon
      <3> QED BY <1>2, <3>1, <3>2
    <2> QED BY <1>2, <2>1
  <1>6. Step(coded, at, s[m + 1], text[m])
    BY <1>1, <1>2, <1>5, Zenon
  <1>7. at' = s[m + 1] /\ out' = Append(out, text[m])
    BY <1>4, <1>6, Zenon DEF Step
  <1>8. out' = SubSeq(text, 1, m)
    <2>1. Append(SubSeq(text, 1, m - 1), text[m]) = SubSeq(text, 1, m)
      BY <1>2, <1>3, <1>5 DEF n
    <2> QED BY <1>1, <1>7, <2>1, Zenon
  <1>9. m + 1 \in 1..(n + 1) /\ (m + 1) - 1 = m
    BY <1>2, <1>5
  <1> QED BY <1>7, <1>8, <1>9, Zenon DEF Decoding, text, n, s

\* At the end of the coded text all of it has been decoded.
LEMMA DecodingEnds ==
  ASSUME NEW w, Spelled(w), Decoding(w), at > Len(w.coded)
  PROVE  out = w.text
  <1> DEFINE text == w.text
             coded == w.coded
             n == Len(text)
             s == w.starts
  <1>1. PICK m \in 1..(n + 1) : at = s[m] /\ out = SubSeq(text, 1, m - 1)
    BY Zenon DEF Decoding
  <1>2. /\ n \in Nat /\ Len(coded) \in Nat
        /\ \A i \in 1..(n + 1) : s[i] \in 1..(Len(coded) + 1)
        /\ \A i \in 1..n : Step(coded, s[i], s[i + 1], text[i])
    BY SpelledSteps, Zenon
  <1>3. text \in Seq(Char) /\ at > Len(coded)
    BY Zenon DEF Spelled
  <1> HIDE DEF coded, s
  <1>4. m = n + 1
    <2> SUFFICES ASSUME m \in 1..n PROVE FALSE
      BY <1>2
    <2>1. m + 1 \in 1..(n + 1) /\ m \in 1..(n + 1)
      BY <1>2
    <2>2. s[m] < s[m + 1] /\ s[m] \in Nat /\ s[m + 1] \in Nat /\ s[m + 1] <= Len(coded) + 1
      <3>1. s[m] \in 1..(Len(coded) + 1) /\ s[m + 1] \in 1..(Len(coded) + 1)
        BY <1>2, <2>1, Zenon
      <3>2. s[m] < s[m + 1]
        BY <1>2, Zenon DEF Step
      <3> QED BY <1>2, <3>1, <3>2
    <2> QED BY <1>1, <1>2, <1>3, <2>2
  <1>5. SubSeq(text, 1, n) = text /\ m - 1 = n
    BY <1>2, <1>3, <1>4
  <1> QED BY <1>1, <1>5, Zenon

-----------------------------------------------------------------------------
\* The map holds the first m fields.
Collected(map, m) ==
    LET f == input.sent.fields
    IN  /\ DOMAIN map = {f[i].name.text : i \in {j \in 1..m : ~f[j].bare}}
        /\ \A k \in DOMAIN map :
              \E i \in 1..m : /\ Named(k, i) /\ \A j \in (i + 1)..m : ~Named(k, j)
                              /\ map[k] = f[i].value.text

\* What the first m fields come to: no match yet, or the map.
Past(m) ==
    IF input.kind = "query" THEN \A j \in 1..m : ~Match(j) ELSE Collected(output, m)

\* The field in hand is the i-th.
InHand(i) ==
    LET f == input.sent.fields[i]
    IN  /\ from = input.sent.starts[i + 1] /\ ~f.bare /\ Past(i - 1)
        /\ part = [name |-> f.name.coded, value |-> f.value.coded]
        /\ IF input.kind = "query" THEN Match(i)
           ELSE step = "value" => name = f.name.text
        /\ Decoding(IF step = "name" THEN f.name ELSE f.value)

FieldInv ==
    input.kind \in {"query", "form"} =>
        /\ step \in {input.kind, "value", "done"}
                    \cup (IF input.kind = "form" THEN {"name"} ELSE {})
        /\ step = input.kind =>
              /\ at = 1 /\ out = <<>>
              /\ \E i \in 1..(Len(input.sent.fields) + 1) :
                    from = input.sent.starts[i] /\ Past(i - 1)
        /\ step \in {"name", "value"} => \E i \in 1..Len(input.sent.fields) : InHand(i)
        /\ QueryReadsBack /\ FormReadsBack

LEMMA FieldInit ==
  ASSUME CodecInit
  PROVE  FieldInv
  <1> SUFFICES ASSUME input.kind \in {"query", "form"} PROVE FieldInv
    BY Zenon DEF FieldInv
  <1>1. step = input.kind /\ output = <<>> /\ from = 1 /\ at = 1 /\ out = <<>> /\ Joined(input.sent)
    BY CodecAssumption, Zenon DEF CodecInit, Inputs
  <1>2. 1 \in 1..(Len(input.sent.fields) + 1) /\ input.sent.starts[1] = from
    BY <1>1, JoinedStarts
  <1>3. Past(1 - 1)
    <2>1. CASE input.kind = "query"
      BY <2>1 DEF Past
    <2>2. CASE input.kind # "query"
      <3>1. DOMAIN output = {}
        BY <1>1
      <3>2. Collected(output, 1 - 1)
        BY <3>1 DEF Collected
      <3> QED BY <2>2, <3>2, Zenon DEF Past
    <2> QED BY <2>1, <2>2, Zenon
  <1>4. QueryReadsBack /\ FormReadsBack
    BY <1>1, Zenon DEF QueryReadsBack, FormReadsBack, Done
  <1> QED BY <1>1, <1>2, <1>3, <1>4, Zenon DEF FieldInv

\* One more field in the map.
LEMMA PutField ==
  ASSUME NEW map, NEW i \in Nat \ {0}, Collected(map, i - 1),
         ~input.sent.fields[i].bare
  PROVE  LET f == input.sent.fields[i] IN Collected(Put(map, f.name.text, f.value.text), i)
  <1> DEFINE f == input.sent.fields
             new == Put(map, f[i].name.text, f[i].value.text)
  <1>1. DOMAIN new = DOMAIN map \cup {f[i].name.text}
    BY Zenon DEF Put
  <1>2. 1..i = (1..(i - 1)) \cup {i}
    OBVIOUS
  <1>3. DOMAIN new = {f[j].name.text : j \in {k \in 1..i : ~f[k].bare}}
    <2>1. DOMAIN map = {f[j].name.text : j \in {k \in 1..(i - 1) : ~f[k].bare}}
      BY Zenon DEF Collected
    <2> QED BY <1>1, <1>2, <2>1, ZenonT(30)
  <1>4. ASSUME NEW k \in DOMAIN new
        PROVE  \E j \in 1..i : /\ Named(k, j) /\ \A l \in (j + 1)..i : ~Named(k, l)
                               /\ new[k] = f[j].value.text
    <2>1. CASE k = f[i].name.text
      <3>1. new[k] = f[i].value.text
        BY <1>1, <2>1, ZenonT(30) DEF Put
      <3>2. Named(k, i) /\ i \in 1..i /\ \A l \in (i + 1)..i : ~Named(k, l)
        BY <2>1 DEF Named
      <3> QED BY <3>1, <3>2, Zenon
    <2>2. CASE k # f[i].name.text
      <3>1. k \in DOMAIN map /\ new[k] = map[k]
        BY <1>1, <2>2, Zenon DEF Put
      <3>2. PICK j \in 1..(i - 1) : /\ Named(k, j) /\ \A l \in (j + 1)..(i - 1) : ~Named(k, l)
                                    /\ map[k] = f[j].value.text
        BY <3>1, Zenon DEF Collected
      <3>3. ~Named(k, i)
        BY <2>2, Zenon DEF Named
      <3>4. j \in 1..i /\ \A l \in (j + 1)..i : l = i \/ l \in (j + 1)..(i - 1)
        OBVIOUS
      <3> QED BY <3>1, <3>2, <3>3, <3>4, Zenon
    <2> QED BY <2>1, <2>2, Zenon
  <1> HIDE DEF new
  <1>5. Collected(new, i)
    BY <1>3, <1>4, ZenonT(30) DEF Collected
  <1> QED BY <1>5, Zenon DEF new

\* A field without a value changes nothing.
LEMMA SkipField ==
  ASSUME NEW map, NEW i \in Nat \ {0}, Collected(map, i - 1), input.sent.fields[i].bare
  PROVE  Collected(map, i)
  <1> DEFINE f == input.sent.fields
  <1>1. 1..i = (1..(i - 1)) \cup {i}
    OBVIOUS
  <1>2. DOMAIN map = {f[j].name.text : j \in {k \in 1..i : ~f[k].bare}}
    BY <1>1, Zenon DEF Collected
  <1>3. ASSUME NEW k \in DOMAIN map
        PROVE  \E j \in 1..i : /\ Named(k, j) /\ \A l \in (j + 1)..i : ~Named(k, l)
                               /\ map[k] = f[j].value.text
    <2>1. PICK j \in 1..(i - 1) : /\ Named(k, j) /\ \A l \in (j + 1)..(i - 1) : ~Named(k, l)
                                  /\ map[k] = f[j].value.text
      BY Zenon DEF Collected
    <2>2. ~Named(k, i)
      BY Zenon DEF Named
    <2>3. j \in 1..i /\ \A l \in (j + 1)..i : l = i \/ l \in (j + 1)..(i - 1)
      OBVIOUS
    <2> QED BY <2>1, <2>2, <2>3, Zenon
  <1> QED BY <1>2, <1>3, Zenon DEF Collected

\* What the input of a query or a form is.
LEMMA FieldInput ==
  ASSUME input \in Inputs, input.kind \in {"query", "form"}
  PROVE  /\ Joined(input.sent) /\ Len(input.sent.fields) \in Nat
         /\ \A i \in 1..Len(input.sent.fields) :
               /\ Spelled(input.sent.fields[i].name) /\ Spelled(input.sent.fields[i].value)
               /\ input.sent.fields[i].bare \in BOOLEAN
  <1>1. Joined(input.sent)
    BY CodecAssumption, Zenon DEF Inputs
  <1> QED BY <1>1, Zenon DEF Joined

\* Taking a piece.
LEMMA NextPieceInv ==
  ASSUME input \in Inputs, input.kind \in {"query", "form"}, FieldInv, NextPiece
  PROVE  FieldInv'
  <1> DEFINE r == input.sent
             n == Len(r.fields)
  <1>1. /\ Joined(r) /\ n \in Nat
        /\ \A i \in 1..n : /\ Spelled(r.fields[i].name) /\ Spelled(r.fields[i].value)
                           /\ r.fields[i].bare \in BOOLEAN
    BY FieldInput, Zenon
  <1>2. /\ input' = input /\ output' = output /\ at' = at /\ out' = out /\ name' = name
        /\ step \in {"query", "form"} /\ from <= Len(r.text) + 1
    BY Zenon DEF NextPiece
  <1>3. step = input.kind
    BY <1>2, Zenon DEF FieldInv
  <1>4. PICK i \in 1..(n + 1) : from = r.starts[i] /\ Past(i - 1)
    BY <1>3, Zenon DEF FieldInv
  <1>5. at = 1 /\ out = <<>>
    BY <1>3, Zenon DEF FieldInv
  <1>6. i \in 1..n
    <2>1. Len(r.text) \in Nat /\ r.starts[n + 1] = Len(r.text) + 2
      BY <1>1, JoinedStarts, Zenon
    <2>2. ASSUME i = n + 1 PROVE FALSE
      <3>1. from = Len(r.text) + 2
        BY <1>4, <2>1, <2>2, Zenon
      <3> QED BY <1>2, <2>1, <3>1
    <2> QED BY <1>1, <2>2
  <1> DEFINE f == r.fields[i]
             p == FieldText(f)
             coded == [name |-> f.name.coded, value |-> f.value.coded]
  <1>7. /\ SubSeq(r.text, from, PieceEnd(r.text, from)) = p
        /\ PieceEnd(r.text, from) + 2 = r.starts[i + 1]
    BY <1>1, <1>4, <1>6, PieceFacts, Zenon
  <1>8. (Has(p, "=") <=> ~f.bare) /\ (~f.bare => Pair(p) = coded)
    BY <1>1, <1>6, FieldFacts, Zenon
  <1>9. /\ from' = r.starts[i + 1]
        /\ IF Has(p, "=") /\ (step = "query" => Pair(p).name = input.key)
           THEN part' = Pair(p) /\ step' = IF step = "query" THEN "value" ELSE "name"
           ELSE UNCHANGED <<part, step>>
    BY <1>7, Zenon DEF NextPiece
  <1>10. i + 1 \in 1..(n + 1) /\ (i + 1) - 1 = i /\ i \in Nat \ {0}
    <2>1. n \in Nat
      BY <1>1, ZenonT(30)
    <2> HIDE DEF n
    <2> QED BY <1>6, <2>1
  <1>11. \A m : Past(m)' <=> Past(m)
    BY <1>2 DEF Past, Match, Collected, Named
  <1>12. (QueryReadsBack /\ FormReadsBack)'
    <2>1. step' # "done"
      BY <1>2, <1>9, Zenon
    <2> QED BY <2>1, Zenon DEF QueryReadsBack, FormReadsBack, Done
  <1>13. CASE Has(p, "=") /\ (step = "query" => Pair(p).name = input.key)
    <2>1. ~f.bare /\ part' = coded /\ step' = IF input.kind = "query" THEN "value" ELSE "name"
      BY <1>3, <1>8, <1>9, <1>13, ZenonT(30)
    <2>2. input.kind = "query" => Match(i)
      BY <1>3, <1>8, <1>13 DEF Match
    <2> DEFINE w == IF step' = "name" THEN f.name ELSE f.value
    <2>3. Spelled(w)
      BY <1>1, <1>6, Zenon
    <2>4. Decoding(w)
      <3> HIDE DEF w
      <3> QED BY <1>5, <2>3, DecodingStarts, Zenon
    <2>5. (Decoding(IF step = "name" THEN f.name ELSE f.value))'
      BY <1>2, <2>4, ZenonT(30) DEF Decoding
    <2>6. InHand(i)'
      <3>1. Match(i)' <=> Match(i)
        BY <1>2 DEF Match
      <3>2. Past(i - 1)' /\ from' = input.sent.starts[i + 1]
        BY <1>4, <1>9, <1>11, ZenonT(30)
      <3> QED BY <1>2, <2>1, <2>2, <2>5, <3>1, <3>2, ZenonT(30) DEF InHand
    <2> QED BY <1>2, <1>6, <1>12, <2>1, <2>6, Zenon DEF FieldInv
  <1>14. CASE ~(Has(p, "=") /\ (step = "query" => Pair(p).name = input.key))
    <2>1. step' = step /\ part' = part
      BY <1>9, <1>14, Zenon
    <2>2. Past(i)
      <3>1. CASE input.kind = "query"
        <4>1. ~Match(i)
          BY <1>3, <1>8, <1>14, <3>1 DEF Match
        <4>2. \A j \in 1..(i - 1) : ~Match(j)
          BY <1>4, <3>1, Zenon DEF Past
        <4>3. \A j \in 1..i : j = i \/ j \in 1..(i - 1)
          BY <1>10
        <4> QED BY <3>1, <4>1, <4>2, <4>3, ZenonT(30) DEF Past
      <3>2. CASE input.kind # "query"
        <4>1. f.bare
          BY <1>1, <1>3, <1>6, <1>8, <1>14, <3>2, Zenon
        <4> QED BY <1>4, <1>10, <3>2, <4>1, SkipField, Zenon DEF Past
      <3> QED BY <3>1, <3>2, Zenon
    <2>3. from' = r.starts[i + 1] /\ Past((i + 1) - 1)'
      BY <1>9, <1>10, <1>11, <2>2, Zenon
    <2> QED BY <1>2, <1>3, <1>5, <1>10, <1>12, <2>1, <2>3 DEF FieldInv
  <1> QED BY <1>13, <1>14, Zenon

\* No piece is left: all the fields are behind.
LEMMA NoMorePiecesInv ==
  ASSUME input \in Inputs, input.kind \in {"query", "form"}, FieldInv, NoMorePieces
  PROVE  FieldInv'
  <1> DEFINE r == input.sent
             n == Len(r.fields)
  <1>1. Joined(r) /\ n \in Nat
    BY FieldInput, Zenon
  <1>2. /\ input' = input /\ step' = "done" /\ from > Len(r.text) + 1
        /\ step \in {"query", "form"} /\ output' = IF step = "query" THEN "none" ELSE output
    BY Zenon DEF NoMorePieces
  <1>3. step = input.kind
    BY <1>2, Zenon DEF FieldInv
  <1>4. PICK i \in 1..(n + 1) : from = r.starts[i] /\ Past(i - 1)
    BY <1>3, Zenon DEF FieldInv
  <1>5. i = n + 1
    <2>1. ASSUME i \in 1..n PROVE FALSE
      <3>1. Len(r.text) \in Nat /\ r.starts[i] \in Nat /\ r.starts[i] <= Len(r.text) + 1
        BY <1>1, <2>1, PieceFacts, Zenon
      <3> QED BY <1>2, <1>4, <3>1
    <2> QED BY <1>1, <2>1
  <1>6. Past(n)
    <2>1. i - 1 = n
      BY <1>1, <1>5
    <2> QED BY <1>4, <2>1, Zenon
  <1>7. QueryReadsBack'
    <2> SUFFICES ASSUME input.kind = "query"
                 PROVE  output' = "none" /\ \A j \in 1..n : ~Match(j)'
      BY <1>2, Zenon DEF QueryReadsBack, Done
    <2> QED BY <1>2, <1>3, <1>6, Zenon DEF Past, Match
  <1>8. FormReadsBack'
    <2> SUFFICES ASSUME input.kind = "form"
                 PROVE  FormReadsBack'
      BY <1>2, Zenon DEF FormReadsBack, Done
    <2>1. output' = output /\ Collected(output, n)
      BY <1>2, <1>3, <1>6, Zenon DEF Past
    <2>2. ASSUME NEW k, k \in DOMAIN output
          PROVE  \E j \in 1..n : /\ Named(k, j) /\ \A l \in (j + 1)..n : ~Named(k, l)
                                 /\ output[k] = r.fields[j].value.text
      BY <2>1, <2>2, Zenon DEF Collected
    <2>3. ASSUME NEW k, k \notin DOMAIN output, NEW j \in 1..n PROVE ~Named(k, j)
      <3>1. DOMAIN output = {r.fields[l].name.text : l \in {m \in 1..n : ~r.fields[m].bare}}
        BY <2>1, Zenon DEF Collected
      <3>2. ~r.fields[j].bare => r.fields[j].name.text \in DOMAIN output
        BY <3>1, Zenon
      <3> QED BY <2>3, <3>2, Zenon DEF Named
    <2>4. \A k, j : Named(k, j)' <=> Named(k, j)
      BY <1>2 DEF Named
    <2> QED BY <1>2, <2>1, <2>2, <2>3, <2>4, ZenonT(30) DEF FormReadsBack
  <1> QED BY <1>2, <1>7, <1>8, Zenon DEF FieldInv

\* The text that is being decoded.
LEMMA InHandFacts ==
  ASSUME input \in Inputs, input.kind \in {"query", "form"}, FieldInv, step \in {"name", "value"}
  PROVE  \E i \in 1..Len(input.sent.fields) :
            LET f == input.sent.fields[i]
                w == IF step = "name" THEN f.name ELSE f.value
            IN  InHand(i) /\ Spelled(w) /\ Coded = w.coded /\ Decoding(w)
  <1>1. PICK i \in 1..Len(input.sent.fields) : InHand(i)
    BY Zenon DEF FieldInv
  <1> DEFINE f == input.sent.fields[i]
  <1>2. Spelled(f.name) /\ Spelled(f.value)
    BY FieldInput, Zenon
  <1>3. part = [name |-> f.name.coded, value |-> f.value.coded]
        /\ Decoding(IF step = "name" THEN f.name ELSE f.value)
    BY <1>1, Zenon DEF InHand
  <1>4. Coded = (IF step = "name" THEN f.name ELSE f.value).coded
    BY <1>3, Zenon DEF Coded
  <1> QED BY <1>1, <1>2, <1>3, <1>4, Zenon

LEMMA DecodeInv ==
  ASSUME input \in Inputs, input.kind \in {"query", "form"}, FieldInv, Decode
  PROVE  FieldInv'
  <1>1. /\ step \in {"name", "value"} /\ step' = step /\ input' = input /\ output' = output
        /\ from' = from /\ part' = part /\ name' = name
    BY ZenonT(30) DEF Decode
  <1>2. PICK i \in 1..Len(input.sent.fields) :
            LET f == input.sent.fields[i]
                w == IF step = "name" THEN f.name ELSE f.value
            IN  InHand(i) /\ Spelled(w) /\ Coded = w.coded /\ Decoding(w)
    BY <1>1, InHandFacts, Zenon
  <1> DEFINE f == input.sent.fields[i]
             w == IF step = "name" THEN f.name ELSE f.value
  <1>3. Decoding(w)'
    <2> DEFINE v == w
    <2>1. PICK u : u = v
      BY Zenon
    <2>2. Spelled(u) /\ Coded = u.coded /\ Decoding(u)
      BY <1>2, <2>1, Zenon
    <2>3. Decoding(u)'
      BY <2>2, DecodingStep, Zenon
    <2>4. w' = u
      BY <1>1, <2>1, Zenon
    <2> HIDE DEF v, w
    <2> QED BY <2>3, <2>4, Zenon DEF Decoding
  <1>4. InHand(i)'
    <2>1. Past(i - 1)' <=> Past(i - 1)
      BY <1>1 DEF Past, Match, Collected, Named
    <2>2. Match(i)' <=> Match(i)
      BY <1>1, Zenon DEF Match
    <2>3. (Decoding(IF step = "name" THEN f.name ELSE f.value))'
      BY <1>3, Zenon
    <2>4. InHand(i)
      BY <1>2, Zenon
    <2> QED BY <1>1, <2>1, <2>2, <2>3, <2>4, ZenonT(30) DEF InHand
  <1>5. (QueryReadsBack /\ FormReadsBack)'
    BY <1>1, Zenon DEF QueryReadsBack, FormReadsBack, Done
  <1> QED BY <1>1, <1>4, <1>5, Zenon DEF FieldInv

LEMMA NameDecodedInv ==
  ASSUME input \in Inputs, input.kind \in {"query", "form"}, FieldInv, NameDecoded
  PROVE  FieldInv'
  <1>1. /\ step = "name" /\ step' = "value" /\ input' = input /\ output' = output
        /\ from' = from /\ part' = part /\ name' = out /\ at' = 1 /\ out' = <<>>
        /\ at > Len(part.name)
    BY Zenon DEF NameDecoded
  <1>2. PICK i \in 1..Len(input.sent.fields) : InHand(i)
    BY <1>1, Zenon DEF FieldInv
  <1> DEFINE f == input.sent.fields[i]
  <1>3. Spelled(f.name) /\ Spelled(f.value)
    BY FieldInput, Zenon
  <1>4. /\ from = input.sent.starts[i + 1] /\ ~f.bare /\ Past(i - 1)
        /\ part = [name |-> f.name.coded, value |-> f.value.coded]
        /\ Decoding(f.name) /\ input.kind = "form"
    BY <1>1, <1>2, ZenonT(30) DEF InHand, FieldInv
  <1>5. name' = f.name.text
    <2>1. at > Len(f.name.coded)
      BY <1>1, <1>4, Zenon
    <2> QED BY <1>1, <1>3, <1>4, <2>1, DecodingEnds, Zenon
  <1>6. (Decoding(f.value))'
    <2>1. PICK u : u = f.value
      BY Zenon
    <2>2. Len(u.text) \in Nat /\ u.text \in Seq(Char) /\ u.starts[1] = 1
      <3>1. Spelled(u)
        BY <1>3, <2>1, Zenon
      <3> QED BY <3>1 DEF Spelled
    <2>3. 1 \in 1..(Len(u.text) + 1) /\ SubSeq(u.text, 1, 1 - 1) = <<>>
      BY <2>2
    <2>4. Decoding(u)'
      BY <1>1, <2>2, <2>3, ZenonT(30) DEF Decoding
    <2> QED BY <1>1, <2>1, <2>4, Zenon DEF Decoding
  <1>7. Past(i - 1)' <=> Past(i - 1)
    BY <1>1 DEF Past, Match, Collected, Named
  <1>8. InHand(i)'
    BY <1>1, <1>4, <1>5, <1>6, <1>7, Zenon DEF InHand
  <1>9. (QueryReadsBack /\ FormReadsBack)'
    BY <1>1, Zenon DEF QueryReadsBack, FormReadsBack, Done
  <1> QED BY <1>1, <1>8, <1>9, Zenon DEF FieldInv

LEMMA ValueDecodedInv ==
  ASSUME input \in Inputs, input.kind \in {"query", "form"}, FieldInv, ValueDecoded
  PROVE  FieldInv'
  <1>1. /\ step = "value" /\ input' = input /\ from' = from /\ part' = part /\ name' = name
        /\ at' = 1 /\ out' = <<>> /\ at > Len(part.value)
        /\ IF input.kind = "query"
           THEN output' = out /\ step' = "done"
           ELSE output' = Put(output, name, out) /\ step' = "form"
    BY Zenon DEF ValueDecoded
  <1>2. PICK i \in 1..Len(input.sent.fields) : InHand(i)
    BY <1>1, Zenon DEF FieldInv
  <1> DEFINE f == input.sent.fields[i]
             n == Len(input.sent.fields)
  <1>3. Spelled(f.value) /\ n \in Nat
    BY FieldInput, Zenon
  <1>4. /\ from = input.sent.starts[i + 1] /\ ~f.bare /\ Past(i - 1)
        /\ part = [name |-> f.name.coded, value |-> f.value.coded]
        /\ IF input.kind = "query" THEN Match(i) ELSE name = f.name.text
        /\ Decoding(f.value)
    BY <1>1, <1>2, Zenon DEF InHand
  <1>5. out = f.value.text
    <2>1. at > Len(f.value.coded)
      BY <1>1, <1>4, Zenon
    <2> QED BY <1>3, <1>4, <2>1, DecodingEnds, Zenon
  <1>6. i \in Nat \ {0} /\ i + 1 \in 1..(n + 1) /\ (i + 1) - 1 = i
    BY <1>3
  <1>7. CASE input.kind = "query"
    <2>1. step' = "done" /\ output' = f.value.text
      BY <1>1, <1>5, <1>7, Zenon
    <2>2. Match(i) /\ \A j \in 1..(i - 1) : ~Match(j)
      BY <1>4, <1>7, Zenon DEF Past
    <2>3. QueryReadsBack'
      BY <1>1, <2>1, <2>2, Zenon DEF QueryReadsBack, Match
    <2>4. FormReadsBack'
      BY <1>1, <1>7, Zenon DEF FormReadsBack, Done
    <2> QED BY <1>1, <1>7, <2>1, <2>3, <2>4, Zenon DEF FieldInv
  <1>8. CASE input.kind # "query"
    <2>1. step' = "form" /\ output' = Put(output, f.name.text, f.value.text) /\ input.kind = "form"
      BY <1>1, <1>4, <1>5, <1>8, ZenonT(30)
    <2>2. Collected(Put(output, f.name.text, f.value.text), i)
      BY <1>4, <1>6, <1>8, PutField, Zenon DEF Past
    <2>3. Past((i + 1) - 1)'
      <3> DEFINE new == Put(output, f.name.text, f.value.text)
      <3>1. output' = new /\ Collected(new, i)
        BY <2>1, <2>2, Zenon
      <3> HIDE DEF new
      <3>2. Collected(output, i)'
        <4>1. \A k, j : Named(k, j)' <=> Named(k, j)
          BY <1>1, Zenon DEF Named
        <4>2. PICK g : g = new
          BY Zenon
        <4>3. output' = g /\ Collected(g, i)
          BY <3>1, <4>2, Zenon
        <4> QED BY <1>1, <4>1, <4>3, Zenon DEF Collected
      <3> QED BY <1>1, <1>6, <1>8, <3>2, Zenon DEF Past
    <2>4. (QueryReadsBack /\ FormReadsBack)'
      BY <2>1, Zenon DEF QueryReadsBack, FormReadsBack, Done
    <2> QED BY <1>1, <1>4, <1>6, <2>1, <2>3, <2>4, ZenonT(30) DEF FieldInv
  <1> QED BY <1>7, <1>8, Zenon

\* Each step of a conversion keeps it.
LEMMA FieldStep ==
  ASSUME input \in Inputs, FieldInv, [CodecNext]_codecVars
  PROVE  FieldInv'
  <1>1. input' = input
    BY InputStays, Zenon
  <1> SUFFICES ASSUME input.kind \in {"query", "form"} PROVE FieldInv'
    BY <1>1, Zenon DEF FieldInv
  <1>2. step \in {"query", "form", "name", "value", "done"}
    BY Zenon DEF FieldInv
  <1>3. CASE UNCHANGED codecVars
    <2>1. UNCHANGED <<step, input, output, from, part, at, out, name>>
      BY <1>3, ZenonT(30) DEF codecVars
    <2>2. \A m : Past(m)' <=> Past(m)
      BY <2>1 DEF Past, Match, Collected, Named
    <2>3. \A i : InHand(i)' <=> InHand(i)
      BY <2>1, <2>2, ZenonT(30) DEF InHand, Decoding, Match
    <2>4. (QueryReadsBack /\ FormReadsBack)' <=> QueryReadsBack /\ FormReadsBack
      BY <2>1 DEF QueryReadsBack, FormReadsBack, Done, Match, Named
    <2> QED BY <2>1, <2>2, <2>3, <2>4, Zenon DEF FieldInv
  <1> QED
    BY <1>2, <1>3, NextPieceInv, NoMorePiecesInv, DecodeInv, NameDecodedInv, ValueDecodedInv
       DEF CodecNext, FirstTag, PushX, Quote, Truncate, StepBack, Cut

-----------------------------------------------------------------------------
(* TextCodec: the invariant and what follows.                                *)

\* All the conversions together.
LEMMA CodecInvariance ==
  CodecSpec => [](input \in Inputs /\ QuoteInv /\ TruncateInv /\ FieldInv)
  <1>1. CodecInit => input \in Inputs /\ QuoteInv /\ TruncateInv /\ FieldInv
    <2> SUFFICES ASSUME CodecInit PROVE input \in Inputs /\ QuoteInv /\ TruncateInv /\ FieldInv
      BY Zenon
    <2>1. input \in Inputs /\ step = input.kind
      BY Zenon DEF CodecInit
    <2>2. QuoteInv /\ TruncateInv
      BY <2>1, Zenon DEF QuoteInv, TruncateInv, QuotedReadsBack, TruncatedWell, Done
    <2> QED BY <2>1, <2>2, FieldInit, Zenon
  <1>2. input \in Inputs /\ [CodecNext]_codecVars => input' = input
    BY InputStays, Zenon
  <1>3. input \in Inputs /\ QuoteInv /\ TruncateInv /\ FieldInv /\ [CodecNext]_codecVars
          => (input \in Inputs /\ QuoteInv /\ TruncateInv /\ FieldInv)'
    BY <1>2, QuoteStep, TruncateStep, FieldStep, Zenon
  <1> QED BY <1>1, <1>3, PTL DEF CodecSpec

\* Whatever characters, bodies, tags, keys and requests there are: a quoted body
\* reads back as itself, a query gives the value of the first field with its key,
\* a form the last value of each name, decoded as they were before coding.
THEOREM TextIsReadBack == CodecSpec => []TextReadsBack
  <1>1. input \in Inputs /\ QuoteInv /\ TruncateInv /\ FieldInv => TextReadsBack
    BY Zenon
       DEF QuoteInv, FieldInv, TextReadsBack, QuotedReadsBack, QueryReadsBack, FormReadsBack, Done
  <1> QED BY <1>1, CodecInvariance, PTL

\* Whatever text and limit: truncate_utf8 cuts between characters, within the
\* limit, and drops at most three bytes that would have fitted.
THEOREM TruncationKeepsCharacters == CodecSpec => []TruncatedWell
  <1>1. input \in Inputs /\ QuoteInv /\ TruncateInv /\ FieldInv => TruncatedWell
    BY Zenon DEF TruncateInv, TruncatedWell, Done
  <1> QED BY <1>1, CodecInvariance, PTL
=============================================================================
