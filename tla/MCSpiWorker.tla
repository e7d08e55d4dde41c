---------------------------- MODULE MCSpiWorker ----------------------------
(* The SPI thread with one call of each kind.                                *)
EXTENDS SpiWorker

CONSTANTS c1, c2, c3

OneOfEach == [c \in Calls |-> CASE c = c1 -> "sql" [] c = c2 -> "build" [] OTHER -> "body"]
=============================================================================
