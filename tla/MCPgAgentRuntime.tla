-------------------------- MODULE MCPgAgentRuntime --------------------------
(* Instances of PgAgentRuntime for TLC. *)
EXTENDS PgAgentRuntime, TLC

TaskSymmetry == Permutations(Task)
=============================================================================
