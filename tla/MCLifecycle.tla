---------------------------- MODULE MCLifecycle ----------------------------
(* Instances of Lifecycle for TLC. *)
EXTENDS Lifecycle, TLC

CONSTANTS r1, r2, w1, w2, d1, g1, g2, c1, c2

\* g1 registers two single handlers, g2 a batch handler; both want c1.
MCRegCaps == g1 :> {c1, c2} @@ g2 :> {c1}
MCOneReg == g1 :> {c1}

=============================================================================
