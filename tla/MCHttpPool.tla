----------------------------- MODULE MCHttpPool -----------------------------
(* The pool on a small instance.                                             *)
EXTENDS HttpPool

CONSTANTS c1, c2, c3

\* A call of an agent, a token request and an embedding.
OneOfEach == [c \in Calls |-> CASE c = c1 -> "outbound" [] c = c2 -> "oauth"
                               [] OTHER -> "embedding"]
=============================================================================
