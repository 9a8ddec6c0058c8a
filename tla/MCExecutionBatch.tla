-------------------------- MODULE MCExecutionBatch --------------------------
(***************************************************************************)
(* Instances of ExecutionBatch for TLC.                                    *)
(***************************************************************************)
EXTENDS ExecutionBatch, TLC

\* Job 2 exceeds a batch of two bytes by itself.
MCPayloadSize == [j \in Jobs |-> IF j = 2 THEN 3 ELSE 1]

\* Payloads of one byte.
MCSmallPayload == [j \in Jobs |-> 1]

MCSymmetry == Permutations(Workers)
=============================================================================
