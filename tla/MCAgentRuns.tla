---------------------------- MODULE MCAgentRuns ----------------------------
(* AgentRuns on small instances.                                            *)
EXTENDS AgentRuns, TLC

Symmetry == Permutations(Run) \cup Permutations(Claim) \cup Permutations(Handler)
=============================================================================
