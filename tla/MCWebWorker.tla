---------------------------- MODULE MCWebWorker ----------------------------
(* Three connections for two threads.                                        *)
EXTENDS WebWorker

CONSTANTS c1, c2, c3

\* The first may stream events, the second may send what cannot be read, the
\* third asks for what is answered without the runtime worker or makes its
\* thread panic. (The request kinds of Direct differ in their status code only.)
MCRequests ==
    [c \in Conns |-> CASE c = c1 -> {"action", "events"}
                       [] c = c2 -> {"action", "unread"}
                       [] OTHER -> {"action", "denied", "notObject"}]
=============================================================================
