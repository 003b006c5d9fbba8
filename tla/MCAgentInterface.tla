-------------------------- MODULE MCAgentInterface --------------------------
(***************************************************************************)
(* Instances of AgentInterface: the clients are interchangeable, which the *)
(* run without liveness makes use of.                                      *)
(***************************************************************************)
EXTENDS AgentInterface

Symmetry == Permutations(Clients)
=============================================================================
