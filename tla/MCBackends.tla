----------------------------- MODULE MCBackends -----------------------------
(* TLC instances of Backends. *)
EXTENDS Backends

MCPayloadSize == [j \in Jobs |-> j]

ProcSymmetry == Permutations(Procs)
=============================================================================
