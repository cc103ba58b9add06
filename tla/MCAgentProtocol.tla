--------------------------- MODULE MCAgentProtocol ---------------------------
(***************************************************************************)
(* AgentProtocol for TLC, with its refinement of RemoteWorkers.            *)
(***************************************************************************)
EXTENDS AgentProtocolInv, TLC

Symmetry == Permutations(Agents) \cup Permutations(Tasks)
=============================================================================
