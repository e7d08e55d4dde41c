--------------------------- MODULE MCSessionClose ---------------------------
(* One session, two connections.                                             *)
EXTENDS SessionClose, TLC

\* Connections are interchangeable, and so are rows that are not yet there.
CloseSymmetry ==
    Permutations(Backends) \cup Permutations(Roots) \cup Permutations(Children)
=============================================================================
