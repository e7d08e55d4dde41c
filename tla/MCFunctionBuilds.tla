-------------------------- MODULE MCFunctionBuilds --------------------------
(* One function and one procedure, each called once.                         *)
EXTENDS FunctionBuilds

CONSTANTS f, p, c1, c2

MCTargetOf == [c \in BodyCalls |-> IF c = c1 THEN f ELSE p]
=============================================================================
