----------------------------- MODULE MCJobQueue -----------------------------
(* The print queue on instances small enough for TLC.                      *)
EXTENDS JobQueue, TLC

AgentSymmetry == Permutations(Agents)
=============================================================================
