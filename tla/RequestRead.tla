---------------------------- MODULE RequestRead ----------------------------
(* read_http_request (src/src/http_protocol.rs): one web thread reads a      *)
(* request that its client sends in pieces, at its own pace, or abandons.    *)
(* A request is a head of HeadBytes bytes, the blank line included, and the  *)
(* body it announces; the client may send more or less.                      *)
EXTENDS Naturals

CONSTANTS
    HeadBytes,      \* bytes of the head, its end marker included
    MaxBytes,       \* MAX_REQUEST_BYTES
    Deadline,       \* REQUEST_DEADLINE, in ticks
    ReadTimeout,    \* set_read_timeout, in ticks
    Buffer,         \* the most one read returns
    Word,           \* how many values a usize has
    Lengths         \* the lengths that clients announce

ASSUME ReadAssumption ==
    /\ HeadBytes \in Nat \ {0, 1} /\ MaxBytes \in Nat /\ Deadline \in Nat \ {0}
    /\ ReadTimeout \in Nat \ {0} /\ Buffer \in Nat \ {0}
    /\ Word \in Nat \ {0} /\ Lengths \subseteq 0..(Word - 1)

VARIABLES
    reader,         \* "loop", or how the read ended: "parsed" or "dropped"
    elapsed,        \* ticks since the deadline was set
    data,           \* bytes kept so far
    length,         \* the length this client announces
    shut            \* the client shut its side, and the reader has seen it

readVars == <<reader, elapsed, data, length, shut>>

ReadInit ==
    /\ reader = "loop" /\ elapsed = 0 /\ data = 0
    /\ length \in Lengths /\ shut = FALSE

\* The end of the head is looked for in all the data, and the length in the
\* head; a head without one, or with one that is no usize, announces 0.
HeadEnd(bytes) == IF bytes >= HeadBytes THEN HeadBytes ELSE 0

\* Mutant: only a head has to arrive in time.
ExpiredHead == elapsed > Deadline /\ HeadEnd(data) = 0
Expired == elapsed > Deadline

TooLarge(bytes) == bytes > MaxBytes

\* h + want is a sum of usize: a release build wraps, one with overflow checks
\* panics.
Complete(bytes) == HeadEnd(bytes) > 0 /\ bytes >= (HeadEnd(bytes) + length) % Word
Overflows(bytes) == HeadEnd(bytes) > 0 /\ HeadEnd(bytes) + length >= Word

\* parse_http_request needs the end of the head.
Parsed(bytes) == IF HeadEnd(bytes) > 0 THEN "parsed" ELSE "dropped"

-----------------------------------------------------------------------------
\* One turn of the loop: the deadline, then a read, which brings bytes, the end
\* of the stream or an error, a timeout being the last of these.
GiveUp ==
    /\ reader = "loop" /\ Expired
    /\ reader' = "dropped"
    /\ UNCHANGED <<elapsed, data, length, shut>>

ReadPiece(gap, n) ==
    /\ reader = "loop" /\ ~Expired
    /\ elapsed' = elapsed + gap /\ data' = data + n
    /\ \/ reader' = IF TooLarge(data') THEN "dropped"
                    ELSE IF Complete(data') THEN Parsed(data') ELSE "loop"
       \/ Overflows(data') /\ reader' = "dropped"
    /\ UNCHANGED <<length, shut>>

ReadEnd(gap) ==
    /\ reader = "loop" /\ ~Expired
    /\ elapsed' = elapsed + gap /\ shut' = TRUE
    /\ reader' = Parsed(data)
    /\ UNCHANGED <<data, length>>

ReadFails(gap) ==
    /\ reader = "loop" /\ ~Expired
    /\ elapsed' = elapsed + gap
    /\ reader' = "dropped"
    /\ UNCHANGED <<data, length, shut>>

ReadNext ==
    \/ GiveUp
    \/ \E gap \in 0..ReadTimeout :
          \/ \E n \in 1..Buffer : ReadPiece(gap, n)
          \/ ReadEnd(gap) \/ ReadFails(gap)

ReadSpec == ReadInit /\ [][ReadNext]_readVars

-----------------------------------------------------------------------------
\* However a client dribbles, its thread is free one read timeout after
\* REQUEST_DEADLINE at the latest: each piece restarts the first, none the
\* second.
ThreadFreed == elapsed <= Deadline + ReadTimeout

\* What is handed over has its whole head, and, if head and announced length
\* add up to a usize, its whole body, however the pieces were cut, unless its
\* client shut the connection before; what is handed over beyond the announced
\* length came with the last read.
WholeBody ==
    reader = "parsed" =>
        /\ data >= HeadBytes
        /\ HeadBytes + length < Word =>
              /\ data >= HeadBytes + length \/ shut
              /\ data < HeadBytes + length + Buffer

\* What is kept of a client, whatever length it announces, stays within
\* MAX_REQUEST_BYTES and one read, and what is handed over within the former.
MemoryBounded ==
    /\ data <= MaxBytes + Buffer
    /\ reader = "parsed" => data <= MaxBytes

\* All three: a client gets neither more time nor more memory by the way it
\* cuts its request, and no request is cut short by it.
RequestReadWell == ThreadFreed /\ WholeBody /\ MemoryBounded

\* Does not hold (README, Disagreements): the body is whole for every length.
WholeBodyAlways == reader = "parsed" => data >= HeadBytes + length \/ shut
=============================================================================
