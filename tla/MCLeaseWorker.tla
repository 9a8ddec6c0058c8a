--------------------------- MODULE MCLeaseWorker ---------------------------
(***************************************************************************)
(* Instances of LeaseWorker for TLC.  Every worker is a process of its     *)
(* own, so that leases are contended across processes.                     *)
(***************************************************************************)
EXTENDS LeaseWorker, TLC

\* Worker k belongs to service k.
MCServiceOf == [w \in Workers |-> w]

\* All clocks agree.
MCNoOffset == [s \in Services |-> 0]

\* The clock of service 2 runs one tick ahead.
MCSkewed == [s \in Services |-> IF s = 2 THEN 1 ELSE 0]

\* Every job has the one registered capability.
MCCapOf == [j \in Jobs |-> CHOOSE c \in Capabilities : TRUE]

MCMaxAttempts == [c \in Capabilities |-> 2]

MCSymmetry == Permutations(Jobs)
=============================================================================
