-------------------------- MODULE MCDriverRegistry --------------------------
(* Small instances of DriverRegistry for TLC. *)
EXTENDS DriverRegistry, TLC

Symmetric == Permutations(Ops) \cup Permutations(Conns)
=============================================================================
