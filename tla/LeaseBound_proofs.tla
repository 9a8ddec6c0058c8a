------------------------- MODULE LeaseBound_proofs -------------------------
(***************************************************************************)
(* No lease lasts for ever, proved.  The table holds only deadlines that   *)
(* statements brought there, so the argument bounds the deadlines of       *)
(* statements, whether their callers still wait for them or not, by the    *)
(* clock they were computed from, and time never runs backwards.           *)
(***************************************************************************)
EXTENDS LeaseManager_proofs

\* Only claims and extensions set a deadline.
Grants(r) == r.kind \in {"claim", "extend"}

\* The deadline r would set is within the horizon.
Near(r) == Grants(r) => r.until <= now + Horizon

\* What worker w has sent and what it may send when it finalizes.
SendsIn(w) ==
    /\ call[w].phase = "sent" => Near(call[w].req)
    /\ fin[w].kind \notin {"claim", "extend"}
    /\ fin[w].deadline <= now + MaxOffset + FinalTimeout

BoundInv ==
    /\ LeaseBounded
    /\ \A w \in Workers : SendsIn(w)
    /\ \A r \in orphans : Near(r)

\* The deadlines the code computes from the clock of w.
LEMMA Deadlines ==
    ASSUME TypeOK, NEW w \in Workers
    PROVE  /\ now + Horizon \in Nat /\ 0 <= now + MaxOffset + FinalTimeout
           /\ Now(w) + ReserveFor <= now + Horizon
           /\ Now(w) + ReserveFor + 1 <= now + Horizon
           /\ Now(w) + FinalTimeout <= now + MaxOffset + FinalTimeout
           /\ fin[w].deadline <= now + MaxOffset + FinalTimeout =>
                 fin[w].deadline + FinalMargin + ReserveFor + 1 <= now + Horizon
<1>1. ServiceOf[w] \in Services /\ now \in Nat /\ fin[w].deadline \in Nat
  BY ConstantsAssumption, Zenon DEF TypeOK
<1>2. /\ Offset[ServiceOf[w]] \in Nat /\ Offset[ServiceOf[w]] <= MaxOffset
      /\ MaxOffset \in Nat /\ ReserveFor \in Nat /\ FinalTimeout \in Nat /\ FinalMargin \in Nat
  BY <1>1, ConstantsAssumption
<1> QED
  BY <1>1, <1>2 DEF Now, Horizon

\* A worker with nothing in flight and nothing to finalize is within it.
LEMMA NothingSent ==
    ASSUME TypeOK, NEW w \in Workers
    PROVE  /\ call[w] = NoCall /\ fin[w] = NoFin => SendsIn(w)
           /\ now' = now /\ call'[w] = NoCall /\ fin'[w] = NoFin => SendsIn(w)'
<1>1. NoCall.phase # "sent" /\ NoFin.kind \notin {"claim", "extend"} /\ NoFin.deadline = 0
  BY DEF NoCall, NoFin, NoTime
<1> QED
  BY <1>1, Deadlines, Zenon DEF SendsIn

\* Every step of w keeps what it sends within the horizon.
LEMMA SendsStep ==
    ASSUME TypeOK, NEW w \in Workers, SendsIn(w), WorkerStep(w)
    PROVE  SendsIn(w)'
<1> DEFINE Fcn(f) == f = [u \in Workers |-> f[u]]
<1>0. /\ Fcn(pc) /\ Fcn(tok) /\ Fcn(ledger) /\ Fcn(earliest) /\ Fcn(ctx)
      /\ Fcn(hb) /\ Fcn(seen) /\ Fcn(call) /\ Fcn(cur) /\ Fcn(fin) /\ Fcn(err)
  BY Zenon DEF TypeOK
<1>u. now' = now
  BY SharedStep, Zenon DEF Shared
<1> DEFINE last == now + MaxOffset + FinalTimeout
           top  == now + Horizon
<1>s. /\ SendsIn(w) <=> /\ call[w].phase = "sent" /\ call[w].req.kind \in {"claim", "extend"} =>
                              call[w].req.until <= top
                        /\ fin[w].kind \notin {"claim", "extend"} /\ fin[w].deadline <= last
      /\ SendsIn(w)' <=> /\ call'[w].phase = "sent" /\ call'[w].req.kind \in {"claim", "extend"} =>
                               call'[w].req.until <= top
                         /\ fin'[w].kind \notin {"claim", "extend"} /\ fin'[w].deadline <= last
  BY <1>u, Zenon DEF SendsIn, Near, Grants
<1>d. /\ 0 <= last
      /\ Now(w) + ReserveFor <= top /\ Now(w) + ReserveFor + 1 <= top
      /\ Now(w) + FinalTimeout <= last
      /\ fin[w].deadline <= last => fin[w].deadline + FinalMargin + ReserveFor + 1 <= top
  BY Deadlines, Zenon
<1> HIDE DEF last, top
<1>f. fin' = fin \/ fin'[w] = NoFin =>
         fin'[w].kind \notin {"claim", "extend"} /\ fin'[w].deadline <= last
  <2>1. NoFin.kind \notin {"claim", "extend"} /\ NoFin.deadline <= last
    BY <1>d DEF NoFin
  <2> QED
    BY <1>s, <2>1, Zenon
<1>x. ASSUME NEW kind, NEW token, NEW ids, NEW until, Send(w, kind, token, ids, until),
             kind \in {"claim", "extend"} => until <= top, fin' = fin
      PROVE  SendsIn(w)'
  <2>1. call'[w].req.kind = kind /\ call'[w].req.until = until
    BY <1>x, SendEffect, Zenon
  <2> QED
    BY <1>x, <1>f, <1>s, <2>1, Zenon
<1> USE <1>0, <1>s, <1>d DEF Goto, Done, managerVars, jobVars, NoCall
<1>1. CASE DbExec(w)
  BY <1>1, ExecEffect, Zenon DEF DbExec
<1>2. CASE ClaimStart(w)
  BY <1>2, Zenon DEF ClaimStart, Send
<1>3. CASE ClaimReturn(w)
  BY <1>3, Zenon DEF ClaimReturn, NoCall
<1>4. CASE ClaimEmpty(w)
  BY <1>4, Zenon DEF ClaimEmpty, LeaveBatch, NoCall, NoFin, NoLedger
<1>5. CASE ClaimCancelled(w)
  BY <1>5, Zenon DEF ClaimCancelled, Send
<1>6. CASE ClaimFail(w)
  BY <1>6, Zenon DEF ClaimFail, Die, GiveUp, LeaveBatch, NoCall, NoFin, NoLedger
<1>7. CASE CleanupReturn(w)
  BY <1>7, Zenon DEF CleanupReturn, Die, GiveUp, LeaveBatch, NoCall, NoFin, NoLedger
<1>8. CASE HbTick(w)
  <2>1. /\ fin' = fin
        /\ \/ UNCHANGED call
           \/ \E ids : Send(w, "extend", tok[w], ids, Now(w) + ReserveFor + 1)
    BY <1>8, Zenon DEF HbTick
  <2>2. CASE UNCHANGED call
    BY <1>f, <2>1, <2>2, Zenon
  <2> QED
    BY <1>x, <2>1, <2>2, Zenon
<1>9. CASE HbExtended(w)
  BY <1>9, Zenon DEF HbExtended, NoCall
<1>10. CASE HbFail(w)
  BY <1>10, Zenon DEF HbFail, GiveUp, NoCall
<1>11. CASE AdmitRefused(w)
  BY <1>11, Zenon DEF AdmitRefused
<1>12. CASE AdmitExtended(w)
  BY <1>12, Zenon DEF AdmitExtended, NoCall, Start
<1>13. CASE AdmitFail(w)
  BY <1>13, Zenon DEF AdmitFail, GiveUp, NoCall
<1>14. CASE HandlerCancelled(w)
  BY <1>14, Zenon DEF HandlerCancelled
<1>15. CASE HandlerExit(w)
  BY <1>15, Zenon DEF HandlerExit
<1>16. CASE FinalizeTimeout(w)
  BY <1>16, Zenon DEF FinalizeTimeout, FinalError
<1>17. CASE FinalizeLocked(w)
  <2>1. fin' = fin
    BY <1>17, FinalizeEffect, Zenon
  <2>2. \/ UNCHANGED call
        \/ Send(w, "extend", tok[w], NeedExtension(w, fin[w].deadline + FinalMargin),
                fin[w].deadline + FinalMargin + ReserveFor + 1)
        \/ \E until : Send(w, fin[w].kind, tok[w], {cur[w]}, until)
    BY <1>17, FinalizeEffect, Zenon
  <2>3. CASE UNCHANGED call
    BY <1>f, <2>1, <2>3, Zenon
  <2> QED
    BY <1>x, <2>1, <2>2, <2>3, Zenon
<1>18. CASE FinalExtended(w)
  BY <1>18, Zenon DEF FinalExtended, Send, SendFinal
<1>19. CASE FinalExtendFail(w)
  BY <1>19, Zenon DEF FinalExtendFail, FinalError, GiveUp, NoCall
<1>20. CASE FinalConfirmed(w)
  BY <1>20, Zenon DEF FinalConfirmed, NoCall, NoFin, NoLedger, Remove
<1>21. CASE FinalFail(w)
  BY <1>21, Zenon DEF FinalFail, FinalError, GiveUp, NoCall
<1>22. CASE Forget(w)
  BY <1>22, Zenon DEF Forget, NoFin, NoLedger, Remove
<1>23. CASE Stop(w)
  <2>1. /\ fin' = fin \/ fin'[w] = NoFin
        /\ UNCHANGED call \/ Send(w, "release", tok[w], Out(w), NoTime)
    BY <1>23, Zenon DEF Stop, Conclude, LeaveBatch
  <2>2. call'[w].req.kind \notin {"claim", "extend"} \/ UNCHANGED call
    BY <2>1, SendEffect
  <2> QED
    BY <1>f, <2>1, <2>2, Zenon
<1>24. CASE Released(w)
  BY <1>24, Zenon DEF Released, Conclude, Die, LeaveBatch, NoCall, NoFin, NoLedger
<1>25. CASE ReleaseFail(w)
  BY <1>25, Zenon DEF ReleaseFail, Conclude, Die, GiveUp, LeaveBatch, NoCall, NoFin,
               NoLedger
<1>26. CASE Unwind(w)
  BY <1>26, Zenon DEF Unwind, LeaveBatch, NoFin, NoLedger
<1>27. CASE WorkerExit(w)
  BY <1>27, Zenon DEF WorkerExit
<1>28. ASSUME NEW j \in Out(w), Admit(w, j) PROVE SendsIn(w)'
  <2>1. /\ fin' = fin
        /\ \/ UNCHANGED call
           \/ \E ids : Send(w, "extend", tok[w], ids, Now(w) + ReserveFor + 1)
    BY <1>28, Zenon DEF Admit, Start
  <2>2. CASE UNCHANGED call
    BY <1>f, <2>1, <2>2, Zenon
  <2> QED
    BY <1>x, <2>1, <2>2, Zenon
<1>29. ASSUME NEW o \in Outcomes, NEW d \in Delays, HandlerReturn(w, o, d)
       PROVE  SendsIn(w)'
  <2>1. /\ UNCHANGED call
        /\ fin' = fin \/ \E kind \in {"ack", "dlq", "defer", "retry"} : \E at : Finalize(w, kind, at)
    BY <1>29, Zenon DEF HandlerReturn
  <2>2. CASE fin' = fin
    BY <2>1, <2>2, Zenon
  <2>3. ASSUME NEW kind \in {"ack", "dlq", "defer", "retry"}, NEW at, Finalize(w, kind, at)
        PROVE  SendsIn(w)'
    <3>1. fin'[w].kind = kind /\ fin'[w].deadline = Now(w) + FinalTimeout
      BY <2>3, Zenon DEF Finalize
    <3> QED
      BY <2>1, <3>1
  <2> QED
    BY <2>1, <2>2, <2>3, Zenon
<1> QED
  BY <1>1, <1>2, <1>3, <1>4, <1>5, <1>6, <1>7, <1>8, <1>9, <1>10, <1>11,
     <1>12, <1>13, <1>14, <1>15, <1>16, <1>17, <1>18, <1>19, <1>20, <1>21,
     <1>22, <1>23, <1>24, <1>25, <1>26, <1>27, <1>28, <1>29, ZenonT(60) DEF WorkerStep

\* A statement leaves a row's deadline, clears it, or sets its own.
LEMMA DeadlineAfter ==
    ASSUME row \in Table, NEW r \in Request, NEW S, NEW j \in Jobs
    PROVE  LET after == Apply(row, r, S)[j].until
           IN after \in {row[j].until, NoTime} \/ (Grants(r) /\ after = r.until)
<1>1. row[j] \in Row /\ r.kind \in Kinds
  BY Zenon DEF Table, Request
<1> USE <1>1 DEF Apply, Row, Grants
<1>2. CASE r.kind = "claim"
  BY <1>2, Zenon DEF Reserve
<1>3. CASE r.kind = "extend"
  BY <1>3, Zenon DEF ExtendLeases
<1>4. CASE r.kind = "release"
  BY <1>4, Zenon DEF ReleaseUnstarted
<1>5. CASE r.kind = "retry"
  BY <1>5, Zenon DEF Reschedule
<1>6. CASE r.kind = "defer"
  BY <1>6, Zenon DEF Defer
<1>7. CASE r.kind \in {"ack", "dlq"}
  BY <1>7, Zenon DEF DeleteJobs
<1> QED
  BY <1>2, <1>3, <1>4, <1>5, <1>6, <1>7, Zenon DEF Kinds

\* A statement within the horizon keeps the table within it.
LEMMA ExecBounded ==
    ASSUME TypeOK, LeaseBounded, NEW r \in Request, Near(r), NEW S,
           row' = Apply(row, r, S), now' = now
    PROVE  LeaseBounded'
<1>1. now + Horizon \in Nat /\ row \in Table
  <2>1. now \in Nat /\ row \in Table
    BY Zenon DEF TypeOK
  <2> QED
    BY <2>1, ConstantsAssumption DEF Horizon
<1>2. ASSUME NEW j \in Jobs PROVE row'[j].until <= now + Horizon
  <2>1. NoTime <= now + Horizon
    BY <1>1 DEF NoTime
  <2> QED
    BY <1>1, <2>1, DeadlineAfter, Zenon DEF LeaseBounded, Near
<1> QED
  BY <1>2, Zenon DEF LeaseBounded, Horizon

(***************************************************************************)
(* No lease lasts for ever: whatever a service leaves reserved, by a       *)
(* crash, a drain or a failed release, becomes claimable again within the  *)
(* horizon.                                                                *)
(***************************************************************************)
THEOREM LeasesEnd == Spec => []LeaseBounded
<1>1. Init => BoundInv
  <2> SUFFICES ASSUME Init PROVE BoundInv
    BY Zenon
  <2>1. TypeOK
    BY InitType, Zenon
  <2>2. ASSUME NEW w \in Workers PROVE SendsIn(w)
    <3>1. call[w] = NoCall /\ fin[w] = NoFin
      BY Zenon DEF Init
    <3> QED
      BY <2>1, <3>1, NothingSent, Zenon
  <2>3. LeaseBounded
    <3>1. now + Horizon \in Nat
      BY ConstantsAssumption DEF Init, Horizon
    <3> QED
      BY <3>1 DEF Init, LeaseBounded, NoRow, NoTime
  <2> QED
    BY <2>2, <2>3, Zenon DEF BoundInv, Init
<1>2. TypeOK /\ BoundInv /\ [Next]_vars => BoundInv'
  <2> SUFFICES ASSUME TypeOK, BoundInv, [Next]_vars PROVE BoundInv'
    BY Zenon
  <2>1. ASSUME NEW w \in Workers, WorkerStep(w) PROVE BoundInv'
    <3>1. Shared(w) /\ SendsIn(w)'
      BY <2>1, SharedStep, SendsStep, Zenon DEF BoundInv
    <3>2. ASSUME NEW v \in Workers PROVE SendsIn(v)'
      BY <2>1, <3>1, Frame, Zenon DEF Same, Shared, BoundInv, SendsIn, Near
    <3>3. (\A r \in orphans : Near(r))'
      <4>1. ASSUME NEW r \in orphans' PROVE Near(r)
        <5>1. r \in orphans \/ (r = call[w].req /\ call[w].phase = "sent")
          BY <3>1, <4>1, Zenon DEF Shared
        <5>2. CASE r = call[w].req /\ call[w].phase = "sent"
          <6>1. Near(call[w].req)
            BY <5>2, Zenon DEF BoundInv, SendsIn
          <6> QED
            BY <5>2, <6>1, Zenon DEF Near, Grants
        <5> QED
          BY <5>1, <5>2, Zenon DEF BoundInv
      <4> QED
        BY <3>1, <4>1, Zenon DEF Shared, Near, Grants, Horizon
    <3>4. LeaseBounded'
      <4>1. CASE DbExec(w)
        <5>1. call[w].req \in Request /\ Near(call[w].req)
          BY <4>1, ExecEffect, Zenon DEF TypeOK, BoundInv, SendsIn
        <5> QED
          BY <3>1, <4>1, <5>1, ExecEffect, ExecBounded, Zenon DEF Execute, Shared, BoundInv
      <4>2. CASE UNCHANGED tableVars
        BY <3>1, <4>2, Zenon DEF tableVars, Shared, BoundInv, LeaseBounded
      <4> QED
        BY <3>1, <4>1, <4>2, Zenon DEF Shared
    <3> QED
      BY <3>2, <3>3, <3>4, Zenon DEF BoundInv
  <2>2. ASSUME NEW s \in Services, HostStep(s) PROVE BoundInv'
    <3>1. /\ UNCHANGED <<row, now>>
          /\ \A r \in orphans' : r \in orphans \/
                \E w \in Workers : call[w].phase = "sent" /\ r = call[w].req
      BY <2>2, ZenonT(60) DEF HostStep, CancelRun, BeginDrain, Run, Crash, tableVars, WorkersOf
    <3>2. ASSUME NEW w \in Workers
          PROVE  \/ call'[w] = call[w] /\ fin'[w] = fin[w]
                 \/ call'[w] = NoCall /\ fin'[w] = NoFin
      BY <2>2, ZenonT(60) DEF HostStep, CancelRun, BeginDrain, Run, Crash, jobVars
    <3>3. ASSUME NEW w \in Workers PROVE SendsIn(w)'
      <4>1. CASE call'[w] = call[w] /\ fin'[w] = fin[w]
        BY <3>1, <4>1, Zenon DEF BoundInv, SendsIn, Near
      <4>2. CASE call'[w] = NoCall /\ fin'[w] = NoFin
        BY <3>1, <4>2, NothingSent, Zenon
      <4> QED
        BY <3>2, <4>1, <4>2, Zenon
    <3> QED
      BY <3>1, <3>3, Zenon DEF BoundInv, LeaseBounded, SendsIn, Near
  <2>3. CASE Tick
    <3>1. /\ UNCHANGED <<row, orphans, call, fin>> /\ now' = now + 1
          /\ now \in Nat /\ Horizon \in Nat /\ MaxOffset + FinalTimeout \in Nat
          /\ MaxOffset \in Nat /\ FinalTimeout \in Nat
      BY <2>3, ConstantsAssumption DEF Tick, tableVars, jobVars, TypeOK, Horizon
    <3>2. \A n \in Nat : /\ n <= now + Horizon => n <= now' + Horizon
                         /\ n <= now + MaxOffset + FinalTimeout =>
                               n <= now' + MaxOffset + FinalTimeout
      BY <3>1
    <3>3. /\ \A j \in Jobs : row[j].until \in Nat
          /\ \A w \in Workers : fin[w].deadline \in Nat /\ call[w].req.until \in Nat
          /\ \A r \in orphans : r.until \in Nat
      BY Zenon DEF TypeOK, Table, Row, Request
    <3> QED
      BY <3>1, <3>2, <3>3, ZenonT(60) DEF BoundInv, LeaseBounded, SendsIn, Near, Grants, Horizon
  <2>4. ASSUME NEW k \in Jobs, NEW d \in Delays, Put(k, d) PROVE BoundInv'
    <3>1. UNCHANGED <<now, orphans, call, fin>> /\ row' = CreateJob(row, k, now + d)
      BY <2>4, Zenon DEF Put, jobVars
    <3>2. ASSUME NEW j \in Jobs PROVE row'[j].until \in {row[j].until, NoTime}
      BY <3>1, Zenon DEF CreateJob, TypeOK, Table
    <3>3. NoTime <= now + Horizon
      <4>1. now \in Nat
        BY Zenon DEF TypeOK
      <4> QED
        BY <4>1, ConstantsAssumption DEF Horizon, NoTime
    <3> QED
      BY <3>1, <3>2, <3>3, Zenon DEF BoundInv, LeaseBounded, SendsIn, Near
  <2>5. ASSUME NEW r \in orphans, OrphanExec(r) PROVE BoundInv'
    <3>1. /\ UNCHANGED <<now, call, fin>> /\ orphans' \subseteq orphans
          /\ r \in Request /\ Near(r) /\ LeaseBounded
      BY <2>5, Zenon DEF OrphanExec, jobVars, TypeOK, BoundInv
    <3>2. PICK S : row' = Apply(row, r, S)
      BY <2>5, Zenon DEF OrphanExec, Execute
    <3> QED
      BY <3>1, <3>2, ExecBounded, Zenon DEF BoundInv, SendsIn, Near
  <2>6. CASE UNCHANGED vars
    BY <2>6, Zenon DEF vars, tableVars, jobVars, BoundInv, LeaseBounded, SendsIn, Near
  <2> QED
    BY <2>1, <2>2, <2>3, <2>4, <2>5, <2>6, Zenon DEF Next
<1>3. BoundInv => LeaseBounded
  BY Zenon DEF BoundInv
<1> QED
  BY <1>1, <1>2, <1>3, TypeCorrect, PTL DEF Spec
=============================================================================
