------------------------------ MODULE MCSqlRun ------------------------------
(* Small instances of SqlRun for TLC. *)
EXTENDS SqlRun, TLC

Symmetric == Permutations(Runs) \cup Permutations(Cancels) \cup Permutations(Sessions) \cup Permutations(RunIds)
=============================================================================
