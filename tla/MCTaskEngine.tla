---------------------------- MODULE MCTaskEngine ----------------------------
(* TaskEngine on small instances.                                          *)
EXTENDS TaskEngine, TLC

\* Agents are interchangeable where an instance treats them alike.
AgentSymmetry == Permutations(Agent)

\* Delegation permissions: everyone to everyone.
MutualPermission == Agent \X Agent
=============================================================================
