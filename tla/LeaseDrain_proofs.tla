--------------------------- MODULE LeaseDrain_proofs ---------------------------
(***************************************************************************)
(* What BeginDrain guarantees of the workers of its service, proved.  The  *)
(* argument is local: only ClaimStart enters a claim and only admission    *)
(* enters a handler, and both look at the drain signal in the same step.   *)
(***************************************************************************)
EXTENDS LeaseWorker_proofs

\* Worker w enters a claim or a handler only while its service is not draining.
EntersOpen(w) ==
    pc'[w] \in {"claiming", "handling"} /\ pc'[w] # pc[w] => ~drain[ServiceOf[w]]

\* Each action of a worker, in turn.
LEMMA EntersOnlyOpen ==
    ASSUME TypeOK, NEW w \in Workers, WorkerStep(w)
    PROVE  EntersOpen(w)
<1> DEFINE Fcn(f) == f = [u \in Workers |-> f[u]]
<1>0. /\ Fcn(pc) /\ Fcn(tok) /\ Fcn(ledger) /\ Fcn(earliest) /\ Fcn(ctx)
      /\ Fcn(hb) /\ Fcn(seen) /\ Fcn(call) /\ Fcn(cur) /\ Fcn(fin) /\ Fcn(err)
  BY DEF TypeOK
<1> USE <1>0 DEF EntersOpen, Goto, Done, managerVars, jobVars
<1>1. CASE DbExec(w)
  BY <1>1 DEF DbExec
<1>2. CASE ClaimStart(w)
  BY <1>2 DEF ClaimStart
<1>3. CASE ClaimReturn(w)
  BY <1>3 DEF ClaimReturn, NoCall
<1>4. CASE ClaimEmpty(w)
  BY <1>4 DEF ClaimEmpty, LeaveBatch, NoCall, NoFin, NoLedger
<1>5. CASE ClaimCancelled(w)
  BY <1>5 DEF ClaimCancelled
<1>6. CASE ClaimFail(w)
  BY <1>6 DEF ClaimFail, Die, LeaveBatch, NoCall, NoFin, NoLedger
<1>7. CASE CleanupReturn(w)
  BY <1>7 DEF CleanupReturn, Die, LeaveBatch, NoCall, NoFin, NoLedger
<1>8. CASE HbTick(w)
  BY <1>8 DEF HbTick
<1>9. CASE HbExtended(w)
  BY <1>9 DEF HbExtended, NoCall
<1>10. CASE HbFail(w)
  BY <1>10 DEF HbFail, NoCall
<1>11. CASE AdmitRefused(w)
  BY <1>11 DEF AdmitRefused
<1>12. CASE AdmitExtended(w)
  BY <1>12 DEF AdmitExtended, NoCall, Start
<1>13. CASE AdmitFail(w)
  BY <1>13 DEF AdmitFail, NoCall
<1>14. CASE HandlerCancelled(w)
  BY <1>14 DEF HandlerCancelled
<1>15. CASE HandlerExit(w)
  BY <1>15 DEF HandlerExit
<1>16. CASE FinalizeTimeout(w)
  BY <1>16 DEF FinalizeTimeout, FinalError
<1>17. CASE FinalizeLocked(w)
  BY <1>17 DEF FinalizeLocked, FinalError, SendFinal
<1>18. CASE FinalExtended(w)
  BY <1>18 DEF FinalExtended, SendFinal
<1>19. CASE FinalExtendFail(w)
  BY <1>19 DEF FinalExtendFail, FinalError, NoCall
<1>20. CASE FinalConfirmed(w)
  BY <1>20 DEF FinalConfirmed, NoCall, NoFin, NoLedger
<1>21. CASE FinalFail(w)
  BY <1>21 DEF FinalFail, FinalError, NoCall
<1>22. CASE Forget(w)
  BY <1>22 DEF Forget, NoFin, NoLedger
<1>23. CASE Stop(w)
  BY <1>23 DEF Stop, Conclude, Die, LeaveBatch, NoFin, NoLedger
<1>24. CASE Released(w)
  BY <1>24 DEF Released, Conclude, Die, LeaveBatch, NoCall, NoFin, NoLedger
<1>25. CASE ReleaseFail(w)
  BY <1>25 DEF ReleaseFail, Conclude, Die, LeaveBatch, NoCall, NoFin, NoLedger
<1>26. CASE Unwind(w)
  BY <1>26 DEF Unwind, LeaveBatch, NoFin, NoLedger
<1>27. CASE WorkerExit(w)
  BY <1>27 DEF WorkerExit
<1>28. ASSUME NEW j \in Out(w), Admit(w, j) PROVE EntersOpen(w)
  BY <1>28 DEF Admit, Start, Send, Out
<1>29. ASSUME NEW o \in Outcomes, NEW d \in Delays, HandlerReturn(w, o, d)
       PROVE  EntersOpen(w)
  BY <1>29, SMTT(60) DEF HandlerReturn, Finalize
<1> QED
  BY <1>1, <1>2, <1>3, <1>4, <1>5, <1>6, <1>7, <1>8, <1>9, <1>10, <1>11,
     <1>12, <1>13, <1>14, <1>15, <1>16, <1>17, <1>18, <1>19, <1>20, <1>21,
     <1>22, <1>23, <1>24, <1>25, <1>26, <1>27, <1>28, <1>29, SMTT(60) DEF WorkerStep

\* A worker step leaves the drain signals alone.
LEMMA DrainKept ==
    ASSUME NEW w \in Workers, WorkerStep(w)
    PROVE  UNCHANGED drain
BY Zenon DEF WorkerStep, serviceVars, DbExec, ClaimStart, ClaimReturn, ClaimEmpty,
       ClaimCancelled, ClaimFail, CleanupReturn, HbTick, HbExtended, HbFail,
       AdmitRefused, AdmitExtended, AdmitFail, Admit, HandlerCancelled,
       HandlerExit, HandlerReturn, FinalizeTimeout, FinalizeLocked,
       FinalExtended, FinalExtendFail, FinalConfirmed, FinalFail, Forget, Stop,
       Released, ReleaseFail, Unwind, WorkerExit

\* A host step moves a worker to "idle" or "dead" or not at all.
LEMMA HostMoves ==
    ASSUME TypeOK, NEW s \in Services, HostStep(s), NEW w \in Workers
    PROVE  pc'[w] \in {pc[w], "idle", "dead"}
BY SMTT(60) DEF HostStep, CancelRun, BeginDrain, Run, Crash, TypeOK

\* The drain signal of a service closes only when none of its claims is in
\* flight, and opens again only in a new process.
LEMMA HostDrain ==
    ASSUME TypeOK, NEW s \in Services, HostStep(s), NEW w \in Workers,
           drain'[ServiceOf[w]]
    PROVE  drain[ServiceOf[w]] \/ pc[w] # "claiming"
BY ConstantsAssumption
   DEF HostStep, CancelRun, BeginDrain, Run, Crash, TypeOK, WorkersOf

(***************************************************************************)
(* BeginDrain closes the claim boundary: once it has returned no claim of  *)
(* the service is in flight.                                               *)
(***************************************************************************)
THEOREM DrainCloses == Spec => []DrainBoundary
<1>1. Init => DrainBoundary
  BY DEF Init, DrainBoundary
<1>2. TypeOK /\ DrainBoundary /\ [Next]_vars => DrainBoundary'
  <2> SUFFICES ASSUME TypeOK, DrainBoundary, [Next]_vars, NEW w \in Workers,
                      drain'[ServiceOf[w]]
               PROVE  pc'[w] # "claiming"
    BY DEF DrainBoundary
  <2>1. ASSUME NEW v \in Workers, WorkerStep(v) PROVE pc'[w] # "claiming"
    <3>1. UNCHANGED drain
      BY <2>1, DrainKept
    <3>2. CASE v = w
      BY <2>1, <3>1, <3>2, EntersOnlyOpen DEF EntersOpen, DrainBoundary
    <3>3. CASE v # w
      BY <2>1, <3>1, <3>3, Frame DEF Same, DrainBoundary
    <3> QED
      BY <3>2, <3>3
  <2>2. ASSUME NEW s \in Services, HostStep(s) PROVE pc'[w] # "claiming"
    BY <2>2, HostMoves, HostDrain, SMTT(60) DEF DrainBoundary
  <2>3. ASSUME \/ Tick
               \/ \E j \in Jobs, d \in Delays : Put(j, d)
               \/ \E r \in orphans : OrphanExec(r)
               \/ UNCHANGED vars
        PROVE  pc'[w] # "claiming"
    BY <2>3 DEF Tick, Put, OrphanExec, vars, serviceVars, DrainBoundary
  <2> QED
    BY <2>1, <2>2, <2>3 DEF Next
<1> QED
  BY <1>1, <1>2, TypeCorrect, PTL DEF Spec

(***************************************************************************)
(* No handler starts after BeginDrain has returned, even when admission    *)
(* was waiting for a lease extension at that moment.                       *)
(***************************************************************************)
THEOREM DrainStopsStarts == Spec => NoStartAfterDrain
<1>1. TypeOK /\ [Next]_vars =>
        [\A w \in Workers :
           drain[ServiceOf[w]] /\ pc[w] # "handling" => pc'[w] # "handling"]_vars
  <2> SUFFICES ASSUME TypeOK, Next, NEW w \in Workers, drain[ServiceOf[w]],
                      pc[w] # "handling"
               PROVE  pc'[w] # "handling"
    OBVIOUS
  <2>1. ASSUME NEW v \in Workers, WorkerStep(v) PROVE pc'[w] # "handling"
    <3>1. CASE v = w
      BY <2>1, <3>1, EntersOnlyOpen DEF EntersOpen
    <3>2. CASE v # w
      BY <2>1, <3>2, Frame DEF Same
    <3> QED
      BY <3>1, <3>2
  <2>2. ASSUME NEW s \in Services, HostStep(s) PROVE pc'[w] # "handling"
    BY <2>2, HostMoves
  <2>3. ASSUME \/ Tick
               \/ \E j \in Jobs, d \in Delays : Put(j, d)
               \/ \E r \in orphans : OrphanExec(r)
        PROVE  pc'[w] # "handling"
    BY <2>3 DEF Tick, Put, OrphanExec
  <2> QED
    BY <2>1, <2>2, <2>3 DEF Next
<1> QED
  BY <1>1, TypeCorrect, PTL DEF Spec, NoStartAfterDrain
=============================================================================
