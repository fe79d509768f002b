---------------------------- MODULE MCAgentTurn ----------------------------
(* Small instances of AgentTurn for TLC: what the .cfg files cannot spell. *)
EXTENDS AgentTurn, TLC

CONSTANTS t1, t2, k1

OneThread      == t1 :> k1
SameConnection == (t1 :> k1) @@ (t2 :> k1)
Symmetric      == Permutations(Calls) \cup Permutations(Turns) \cup Permutations(Threads)
=============================================================================
