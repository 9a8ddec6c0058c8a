------------------------------ MODULE MCReplay ------------------------------
(* TLC instances of Replay. *)
EXTENDS Replay

CONSTANTS t1, t2, k1, c0

MCSnapshots == {<<t1, t2>>, <<t2>>}

MCPast == [k \in {k1} |-> [job |-> 1, fp |-> c0]]

MCUses == {[calls |-> {"put", "batch"}, jobs |-> 3],
           [calls |-> {"put", "host"}, jobs |-> 3],
           [calls |-> {"event", "fanout"}, jobs |-> 4],
           [calls |-> {"replay"}, jobs |-> 4]}

MCSymmetry == Permutations(Procs) \cup Permutations(Contents)
                  \cup Permutations(RequestKeys) \cup Permutations(BusinessKeys)
=============================================================================
