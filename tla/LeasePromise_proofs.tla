------------------------- MODULE LeasePromise_proofs -------------------------
(***************************************************************************)
(* A ledger entry is a promise of the table, and the proof follows the     *)
(* promises through the steps of the workers: a claim and a confirmed      *)
(* extension make one, the fence and the ready test of other statements    *)
(* keep it, and the worker's own outcome ends it.                          *)
(***************************************************************************)
EXTENDS LeaseManager_proofs

\* The times that statements carry lie in the past of the fastest clock.
ClockIn ==
    /\ \A w \in Workers : call[w].phase = "sent" => call[w].req.now <= now + MaxOffset
    /\ \A r \in orphans : r.now <= now + MaxOffset

\* While deadline u lies ahead on every clock, j is reserved for w until u.
Covered(w, j, u) ==
    now + MaxOffset < u => Holds(w, j) /\ row[j].until >= u

\* What the worker may rely on: the answer of its claim, the deadlines in its
\* ledger, and the extension the database has confirmed.
LeaseIn(w) ==
    /\ pc[w] = "claiming" /\ call[w].phase = "done" =>
          \A j \in call[w].aff : Covered(w, j, call[w].req.until)
    /\ ctx[w] # "lease" => \A j \in Jobs : ~Settling(w, j) =>
          /\ ledger[w][j] # NoTime => Covered(w, j, ledger[w][j])
          /\ /\ call[w].phase = "done" /\ call[w].req.kind = "extend"
             /\ j \in call[w].aff
             => Covered(w, j, call[w].req.until)

\* Removed rows are accounted for, and a late acknowledgement has its
\* handler's success behind it.
TableIn ==
    /\ \A j \in dlq : ~row[j].live /\ row[j].tok # NoToken
    /\ RemovalJustified
    /\ \A r \in orphans : r.kind = "ack" =>
          \A j \in r.ids : <<j, r.tok>> \in succeeded

\* The token of worker w stays, is dropped, or is the next unused one.
TokenMoves(w) ==
    \/ tok'[w] \in {tok[w], NoToken}
    \/ tok'[w] = nextTok /\ nextTok' = nextTok + 1

\* A statement carries a time its sender has read.
ClockReads(w) == call[w].phase = "sent" => call[w].req.now <= now + MaxOffset

\* Every step of w moves its token as stated.
LEMMA TokenStep ==
    ASSUME TypeOK, NEW w \in Workers, LocalIn(w), WorkerStep(w)
    PROVE  TokenMoves(w)
<1> DEFINE Fcn(f) == f = [u \in Workers |-> f[u]]
<1>0. /\ Fcn(pc) /\ Fcn(tok) /\ Fcn(ledger) /\ Fcn(earliest) /\ Fcn(ctx)
      /\ Fcn(hb) /\ Fcn(seen) /\ Fcn(call) /\ Fcn(cur) /\ Fcn(fin) /\ Fcn(err)
  BY Zenon DEF TypeOK
<1> USE <1>0 DEF TokenMoves, Goto, Done, managerVars, jobVars
<1>1. CASE DbExec(w)
  BY <1>1, Zenon DEF DbExec
<1>2. CASE ClaimStart(w)
  BY <1>2, Zenon DEF ClaimStart
<1>3. CASE ClaimReturn(w)
  BY <1>3, Zenon DEF ClaimReturn, NoCall
<1>4. CASE ClaimEmpty(w)
  BY <1>4, Zenon DEF ClaimEmpty, LeaveBatch, NoCall, NoFin, NoLedger
<1>5. CASE ClaimCancelled(w)
  BY <1>5, Zenon DEF ClaimCancelled
<1>6. CASE ClaimFail(w)
  BY <1>6, Zenon DEF ClaimFail, Die, GiveUp, LeaveBatch, NoCall, NoFin, NoLedger
<1>7. CASE CleanupReturn(w)
  BY <1>7, Zenon DEF CleanupReturn, Die, GiveUp, LeaveBatch, NoCall, NoFin, NoLedger
<1>8. CASE HbTick(w)
  BY <1>8, Zenon DEF HbTick
<1>9. CASE HbExtended(w)
  BY <1>9, Zenon DEF HbExtended, NoCall
<1>10. CASE HbFail(w)
  BY <1>10, Zenon DEF HbFail, GiveUp, NoCall
<1>11. CASE AdmitRefused(w)
  BY <1>11, Zenon DEF AdmitRefused
<1>12. CASE AdmitExtended(w)
  BY <1>12, Zenon DEF AdmitExtended, NoCall, Start
<1>13. CASE AdmitFail(w)
  BY <1>13, Zenon DEF AdmitFail, GiveUp, NoCall
<1>14. CASE HandlerCancelled(w)
  BY <1>14, Zenon DEF HandlerCancelled
<1>15. CASE HandlerExit(w)
  BY <1>15, Zenon DEF HandlerExit
<1>16. CASE FinalizeTimeout(w)
  BY <1>16, Zenon DEF FinalizeTimeout, FinalError
<1>17. CASE FinalizeLocked(w)
  BY <1>17, Zenon DEF FinalizeLocked, FinalError, SendFinal
<1>18. CASE FinalExtended(w)
  BY <1>18, Zenon DEF FinalExtended, SendFinal
<1>19. CASE FinalExtendFail(w)
  BY <1>19, Zenon DEF FinalExtendFail, FinalError, GiveUp, NoCall
<1>20. CASE FinalConfirmed(w)
  BY <1>20, Zenon DEF FinalConfirmed, NoCall, NoFin, NoLedger, Remove
<1>21. CASE FinalFail(w)
  BY <1>21, Zenon DEF FinalFail, FinalError, GiveUp, NoCall
<1>22. CASE Forget(w)
  BY <1>22, Zenon DEF Forget, NoFin, NoLedger, Remove
<1>23. CASE Stop(w)
  BY <1>23, Zenon DEF Stop, Conclude, Die, LeaveBatch, NoFin, NoLedger
<1>24. CASE Released(w)
  BY <1>24, Zenon DEF Released, Conclude, Die, LeaveBatch, NoCall, NoFin, NoLedger
<1>25. CASE ReleaseFail(w)
  BY <1>25, Zenon DEF ReleaseFail, Conclude, Die, GiveUp, LeaveBatch, NoCall, NoFin,
               NoLedger
<1>26. CASE Unwind(w)
  BY <1>26, Zenon DEF Unwind, LeaveBatch, NoFin, NoLedger
<1>27. CASE WorkerExit(w)
  BY <1>27, Zenon DEF WorkerExit
<1>28. ASSUME NEW j \in Out(w), Admit(w, j) PROVE TokenMoves(w)
  BY <1>28, Zenon DEF Admit, Start, Send, Out
<1>29. ASSUME NEW o \in Outcomes, NEW d \in Delays, HandlerReturn(w, o, d)
       PROVE  TokenMoves(w)
  BY <1>29, Zenon DEF HandlerReturn, Finalize
<1> QED
  BY <1>1, <1>2, <1>3, <1>4, <1>5, <1>6, <1>7, <1>8, <1>9, <1>10, <1>11,
     <1>12, <1>13, <1>14, <1>15, <1>16, <1>17, <1>18, <1>19, <1>20, <1>21,
     <1>22, <1>23, <1>24, <1>25, <1>26, <1>27, <1>28, <1>29, ZenonT(60) DEF WorkerStep

\* Every step of w sends a time it has just read.
LEMMA ClockStep ==
    ASSUME TypeOK, NEW w \in Workers, LocalIn(w), ClockReads(w), WorkerStep(w)
    PROVE  ClockReads(w)'
<1> DEFINE Fcn(f) == f = [u \in Workers |-> f[u]]
<1>0. /\ Fcn(pc) /\ Fcn(tok) /\ Fcn(ledger) /\ Fcn(earliest) /\ Fcn(ctx)
      /\ Fcn(hb) /\ Fcn(seen) /\ Fcn(call) /\ Fcn(cur) /\ Fcn(fin) /\ Fcn(err)
  BY Zenon DEF TypeOK
<1>u. Now(w) <= now + MaxOffset /\ now' = now
  <2>1. ServiceOf[w] \in Services /\ now \in Nat
    BY ConstantsAssumption, Zenon DEF TypeOK
  <2>2. Offset[ServiceOf[w]] \in Nat /\ Offset[ServiceOf[w]] <= MaxOffset /\ MaxOffset \in Nat
    BY <2>1, ConstantsAssumption, Zenon
  <2> QED
    BY <2>1, <2>2, SharedStep DEF Now, Shared
<1> USE <1>0, <1>u DEF ClockReads, Goto, Done, managerVars, jobVars, NoCall
<1>1. CASE DbExec(w)
  BY <1>1, ExecEffect, Zenon
<1>2. CASE ClaimStart(w)
  BY <1>2, Zenon DEF ClaimStart, Send
<1>3. CASE ClaimReturn(w)
  BY <1>3, Zenon DEF ClaimReturn, NoCall
<1>4. CASE ClaimEmpty(w)
  BY <1>4, Zenon DEF ClaimEmpty, LeaveBatch, NoCall, NoFin, NoLedger
<1>5. CASE ClaimCancelled(w)
  BY <1>5, Zenon DEF ClaimCancelled, Send
<1>6. CASE ClaimFail(w)
  BY <1>6, Zenon DEF ClaimFail, Die, GiveUp, LeaveBatch, NoCall, NoFin, NoLedger
<1>7. CASE CleanupReturn(w)
  BY <1>7, Zenon DEF CleanupReturn, Die, GiveUp, LeaveBatch, NoCall, NoFin, NoLedger
<1>8. CASE HbTick(w)
  BY <1>8 DEF HbTick, Send
<1>9. CASE HbExtended(w)
  BY <1>9, Zenon DEF HbExtended, NoCall
<1>10. CASE HbFail(w)
  BY <1>10, Zenon DEF HbFail, GiveUp, NoCall
<1>11. CASE AdmitRefused(w)
  BY <1>11, Zenon DEF AdmitRefused
<1>12. CASE AdmitExtended(w)
  BY <1>12, Zenon DEF AdmitExtended, NoCall, Start
<1>13. CASE AdmitFail(w)
  BY <1>13, Zenon DEF AdmitFail, GiveUp, NoCall
<1>14. CASE HandlerCancelled(w)
  BY <1>14, Zenon DEF HandlerCancelled
<1>15. CASE HandlerExit(w)
  BY <1>15, Zenon DEF HandlerExit
<1>16. CASE FinalizeTimeout(w)
  BY <1>16, Zenon DEF FinalizeTimeout, FinalError
<1>17. CASE FinalizeLocked(w)
  BY <1>17 DEF FinalizeLocked, FinalError, Send, SendFinal
<1>18. CASE FinalExtended(w)
  BY <1>18, Zenon DEF FinalExtended, Send, SendFinal
<1>19. CASE FinalExtendFail(w)
  BY <1>19, Zenon DEF FinalExtendFail, FinalError, GiveUp, NoCall
<1>20. CASE FinalConfirmed(w)
  BY <1>20, Zenon DEF FinalConfirmed, NoCall, NoFin, NoLedger, Remove
<1>21. CASE FinalFail(w)
  BY <1>21, Zenon DEF FinalFail, FinalError, GiveUp, NoCall
<1>22. CASE Forget(w)
  BY <1>22, Zenon DEF Forget, NoFin, NoLedger, Remove
<1>23. CASE Stop(w)
  BY <1>23 DEF Stop, Conclude, Die, LeaveBatch, NoFin, NoLedger, Send
<1>24. CASE Released(w)
  BY <1>24, Zenon DEF Released, Conclude, Die, LeaveBatch, NoCall, NoFin, NoLedger
<1>25. CASE ReleaseFail(w)
  BY <1>25, Zenon DEF ReleaseFail, Conclude, Die, GiveUp, LeaveBatch, NoCall, NoFin,
               NoLedger
<1>26. CASE Unwind(w)
  BY <1>26, Zenon DEF Unwind, LeaveBatch, NoFin, NoLedger
<1>27. CASE WorkerExit(w)
  BY <1>27, Zenon DEF WorkerExit
<1>28. ASSUME NEW j \in Out(w), Admit(w, j) PROVE ClockReads(w)'
  BY <1>28 DEF Admit, Start, Send, Out
<1>29. ASSUME NEW o \in Outcomes, NEW d \in Delays, HandlerReturn(w, o, d)
       PROVE  ClockReads(w)'
  BY <1>29, Zenon DEF HandlerReturn, Finalize
<1> QED
  BY <1>1, <1>2, <1>3, <1>4, <1>5, <1>6, <1>7, <1>8, <1>9, <1>10, <1>11,
     <1>12, <1>13, <1>14, <1>15, <1>16, <1>17, <1>18, <1>19, <1>20, <1>21,
     <1>22, <1>23, <1>24, <1>25, <1>26, <1>27, <1>28, <1>29, ZenonT(60) DEF WorkerStep

\* A statement leaves the rows it does not touch alone; the ones it touches
\* are live, are not reserved under another token when it carries a fence, and
\* are not reserved any more when it is a claim.
LEMMA RowsTouched ==
    ASSUME row \in Table, NEW r \in Request, NEW n,
           NEW S \in Affectable(row, r, n), NEW j \in Jobs
    PROVE  /\ j \notin S => Apply(row, r, S)[j] = row[j]
           /\ j \in S => row[j].live
           /\ j \in S /\ r.kind = "claim" => row[j].until <= r.now
           /\ j \in S /\ r.kind # "claim" => row[j].tok = r.tok
<1>1. r.kind \in Kinds
  BY Zenon DEF Request
<1>2. j \notin S => Apply(row, r, S)[j] = row[j]
  BY <1>1, Zenon DEF Apply, Kinds, Reserve, ExtendLeases, ReleaseUnstarted,
              Reschedule,
              Defer, DeleteJobs
<1>3. CASE r.kind = "claim"
  <2>1. S \subseteq Ready(row, r.now)
    BY <1>3, Zenon DEF Affectable
  <2> QED
    BY <1>2, <1>3, <2>1, Zenon DEF Ready
<1>4. CASE r.kind # "claim"
  <2>1. S \subseteq Fenced(row, r.ids, r.tok, r.now)
    BY <1>4, Zenon DEF Affectable
  <2> QED
    BY <1>2, <1>4, <2>1, Zenon DEF Fenced
<1> QED
  BY <1>3, <1>4, Zenon

\* What a claim, an extension and the other statements do to a touched row.
LEMMA RowsAfter ==
    ASSUME row \in Table, NEW r \in Request, NEW S \in SUBSET Jobs,
           NEW j \in S
    PROVE  LET after == Apply(row, r, S)[j]
           IN  /\ r.kind = "claim" => /\ after.live = row[j].live
                                      /\ after.tok = r.tok /\ after.until = r.until
               /\ r.kind = "extend" => /\ after.live = row[j].live
                                       /\ after.tok = row[j].tok
                                       /\ after.until = r.until
               /\ r.kind \in {"ack", "dlq"} => after.tok = row[j].tok /\ ~after.live
               /\ r.kind \notin {"ack", "dlq"} => after.live = row[j].live
<1>1. row[j] \in Row /\ r.kind \in Kinds
  BY Zenon DEF Table, Request
<1> USE <1>1 DEF Apply, Row
<1>2. CASE r.kind = "claim"
  BY <1>2, Zenon DEF Reserve
<1>3. CASE r.kind = "extend"
  BY <1>3, Zenon DEF ExtendLeases
<1>4. CASE r.kind = "release"
  BY <1>4, Zenon DEF ReleaseUnstarted
<1>5. CASE r.kind = "retry"
  BY <1>5, Zenon DEF Reschedule
<1>6. CASE r.kind = "defer"
  BY <1>6, Zenon DEF Defer
<1>7. CASE r.kind \in {"ack", "dlq"}
  BY <1>7, Zenon DEF DeleteJobs
<1> QED
  BY <1>2, <1>3, <1>4, <1>5, <1>6, <1>7, Zenon DEF Kinds

\* A promise to w stands when a statement runs that carries another token or
\* does not name the job: a claim finds the row reserved, a fence fails.
LEMMA PromiseStands ==
    ASSUME TypeOK, NEW r \in Request, NEW S \in Affectable(row, r, BatchSize),
           row' = Apply(row, r, S), UNCHANGED <<now, tok>>,
           r.now <= now + MaxOffset,
           NEW w \in Workers, NEW j \in Jobs, NEW u \in Nat,
           r.tok # tok[w] \/ j \notin r.ids,
           Covered(w, j, u)
    PROVE  Covered(w, j, u)'
<1>1. row \in Table /\ now \in Nat /\ MaxOffset \in Nat /\ r.now \in Nat
  BY ConstantsAssumption, Zenon DEF TypeOK, Request
<1>2. row[j].until \in Nat
  BY <1>1, Zenon DEF Table, Row
<1>3. CASE now + MaxOffset < u
  <2>1. row[j].tok = tok[w] /\ row[j].until >= u
    BY <1>3, Zenon DEF Covered, Holds
  <2>2. ~(row[j].until <= r.now)
    BY <1>1, <1>2, <1>3, <2>1
  <2>3. j \notin S
    BY <1>1, <2>1, <2>2, RowsTouched, AffectableSubset, Zenon
  <2>4. row'[j] = row[j]
    BY <1>1, <2>3, RowsTouched, Zenon
  <2> QED
    BY <2>4, Zenon DEF Covered, Holds
<1>4. CASE ~(now + MaxOffset < u)
  BY <1>4, Zenon DEF Covered
<1> QED
  BY <1>3, <1>4, Zenon

\* The database runs the statement of w: what is promised to w afterwards.
LEMMA LeaseExec ==
    ASSUME TypeOK, NEW w \in Workers, LocalIn(w), CallIn(w), LeaseIn(w),
           DbExec(w)
    PROVE  LeaseIn(w)'
<1> DEFINE r == call[w].req
           S == call'[w].aff
<1>1. /\ call[w].phase = "sent" /\ call'[w].phase = "done" /\ r' = r
      /\ S \in Affectable(row, r, BatchSize) /\ S \subseteq r.ids
      /\ row' = Apply(row, r, S)
  BY ExecEffect, Zenon DEF Execute
<1>2. UNCHANGED <<now, pc, tok, ledger, ctx, hb, cur>>
  BY Zenon DEF DbExec, managerVars, jobVars
<1>3. row \in Table /\ r \in Request /\ r.ids \subseteq Jobs /\ r.tok = tok[w]
  BY <1>1, Zenon DEF TypeOK, CallIn, Request
<1>4. ledger[w] \in [Jobs -> Nat] /\ r.until \in Nat /\ now + MaxOffset \in Nat
  BY <1>3, ConstantsAssumption DEF TypeOK, Request
<1> HIDE DEF r, S
<1>5. \A j \in Jobs : /\ j \notin S => row'[j] = row[j]
                      /\ j \in S => row[j].live
                      /\ j \in S /\ r.kind # "claim" => row[j].tok = r.tok
  BY <1>1, <1>3, RowsTouched
<1>6. \A j \in S : /\ r.kind = "claim" => /\ row'[j].live = row[j].live
                                          /\ row'[j].tok = r.tok
                                          /\ row'[j].until = r.until
                   /\ r.kind = "extend" => /\ row'[j].live = row[j].live
                                           /\ row'[j].tok = row[j].tok
                                           /\ row'[j].until = r.until
  BY <1>1, <1>3, RowsAfter
<1>7. /\ \/ r.kind = "extend" /\ pc[w] # "claiming"
         \/ r.kind = "claim" /\ pc[w] = "claiming"
         \/ /\ r.kind \in {"release", "ack", "dlq", "retry", "defer"}
            /\ pc[w] # "claiming"
      /\ pc[w] = "claiming" => ledger[w] = NoLedger
      /\ r.kind = "extend" => \A j \in r.ids : ledger[w][j] # NoTime /\ ledger[w][j] < r.until
  BY <1>1, Zenon DEF CallIn, LocalIn, FinalKinds, Managing, MuHeld, r
<1>8. \A j \in Jobs : ~Settling(w, j)' => ~Settling(w, j)
  BY <1>1, <1>2, Zenon DEF Settling
<1>9. ctx[w] # "lease" => \A j \in Jobs : ~Settling(w, j) /\ ledger[w][j] # NoTime =>
        Covered(w, j, ledger[w][j])
  BY Zenon DEF LeaseIn
<1>10. CASE r.kind = "claim"
  <2>1. \A j \in S : Covered(w, j, r.until)'
    BY <1>1, <1>2, <1>3, <1>4, <1>5, <1>6, <1>10 DEF Covered, Holds
  <2>2. \A j \in Jobs : ledger'[w][j] = NoTime
    BY <1>2, <1>7, <1>10, Zenon DEF NoLedger
  <2> QED
    BY <1>1, <1>10, <2>1, <2>2, Zenon DEF LeaseIn, S, r
<1>11. CASE r.kind = "extend"
  <2>1. ASSUME ctx[w] # "lease", NEW j \in Jobs, ~Settling(w, j)'
        PROVE  /\ ledger[w][j] # NoTime => Covered(w, j, ledger[w][j])'
               /\ j \in S => Covered(w, j, r.until)'
    <3>1. CASE j \in S
      <4>1. row'[j].live /\ row'[j].tok = tok'[w] /\ row'[j].until = r.until
        BY <1>2, <1>3, <1>5, <1>6, <1>11, <3>1, Zenon
      <4>2. ledger[w][j] < r.until
        BY <1>1, <1>7, <1>11, <3>1, Zenon
      <4> QED
        BY <1>1, <1>2, <1>4, <4>1, <4>2 DEF Covered, Holds
    <3>2. CASE j \notin S
      BY <1>2, <1>5, <1>8, <1>9, <2>1, <3>2, Zenon DEF Covered, Holds
    <3> QED
      BY <3>1, <3>2, Zenon
  <2> QED
    BY <1>1, <1>2, <1>7, <1>11, <2>1, Zenon DEF LeaseIn, S, r
<1>12. CASE r.kind \in {"release", "ack", "dlq", "retry", "defer"}
  <2>1. \A j \in S : Settling(w, j)'
    BY <1>1, <1>12, Zenon DEF Settling, S, r
  <2>2. ASSUME ctx[w] # "lease", NEW j \in Jobs, ~Settling(w, j)', ledger[w][j] # NoTime
        PROVE  Covered(w, j, ledger[w][j])'
    BY <1>2, <1>5, <1>8, <1>9, <2>1, <2>2, Zenon DEF Covered, Holds
  <2>3. pc[w] # "claiming" /\ r.kind # "extend"
    BY <1>7, <1>12, Zenon
  <2> QED
    BY <1>1, <1>2, <2>2, <2>3, Zenon DEF LeaseIn, S, r
<1> QED
  BY <1>7, <1>10, <1>11, <1>12, Zenon

\* A worker that keeps its batch keeps the promises, provided that it records
\* only deadlines the database has confirmed.
LEMMA LeaseKept ==
    ASSUME NEW w \in Workers, LeaseIn(w), UNCHANGED <<row, now>>,
           tok'[w] = tok[w], pc'[w] # "claiming",
           ctx'[w] # "lease" => ctx[w] # "lease",
           \A j \in Jobs : ~Settling(w, j)' /\ ledger'[w][j] # NoTime =>
               /\ ~Settling(w, j)
               /\ \/ ledger'[w][j] = ledger[w][j]
                  \/ /\ call[w].phase = "done" /\ call[w].req.kind = "extend"
                     /\ j \in call[w].aff /\ ledger'[w][j] = call[w].req.until,
           \/ call'[w].phase # "done"
           \/ /\ call'[w] = call[w]
              /\ \A j \in Jobs : ~Settling(w, j)' => ~Settling(w, j)
    PROVE  LeaseIn(w)'
<1>1. ASSUME ctx'[w] # "lease", NEW j \in Jobs, ~Settling(w, j)', ledger'[w][j] # NoTime
      PROVE  Covered(w, j, ledger[w][j])'
  <2>1. Covered(w, j, ledger'[w][j])
    BY <1>1, Zenon DEF LeaseIn
  <2> QED
    BY <2>1, Zenon DEF Covered, Holds
<1>2. ASSUME ctx'[w] # "lease", NEW j \in Jobs, ~Settling(w, j)',
             call'[w].phase = "done", call'[w].req.kind = "extend", j \in call'[w].aff
      PROVE  Covered(w, j, call[w].req.until)'
  <2>1. Covered(w, j, call'[w].req.until)
    BY <1>2, Zenon DEF LeaseIn
  <2> QED
    BY <2>1, Zenon DEF Covered, Holds
<1> QED
  BY <1>1, <1>2, Zenon DEF LeaseIn

\* A worker that manages no lease and has no answer relies on no promise.
LEMMA LeaseNone ==
    ASSUME NEW w \in Workers, ledger'[w] = NoLedger, call'[w].phase # "done"
    PROVE  LeaseIn(w)'
BY Zenon DEF LeaseIn, NoLedger

\* Every step of w keeps what w may rely on.
LEMMA LeaseStep ==
    ASSUME TypeOK, NEW w \in Workers, LocalIn(w), CallIn(w), LeaseIn(w),
           WorkerStep(w)
    PROVE  LeaseIn(w)'
<1> DEFINE Fcn(f) == f = [u \in Workers |-> f[u]]
<1>0. /\ Fcn(pc) /\ Fcn(tok) /\ Fcn(ledger) /\ Fcn(earliest) /\ Fcn(ctx)
      /\ Fcn(hb) /\ Fcn(seen) /\ Fcn(call) /\ Fcn(cur) /\ Fcn(fin) /\ Fcn(err)
  BY Zenon DEF TypeOK
<1> USE <1>0 DEF Goto, Done, managerVars, jobVars, LocalIn, CallIn, Managing,
                 MuHeld, FinalKinds, NoCall, tableVars, Settling
<1>1. CASE DbExec(w)
  BY <1>1, LeaseExec, Zenon
<1>2. CASE ClaimStart(w)
  <2>1. ledger'[w] = NoLedger /\ call'[w].phase # "done"
    BY <1>2, Zenon DEF ClaimStart, Send
  <2> QED
    BY <2>1, LeaseNone, Zenon
<1>3. CASE ClaimReturn(w)
  <2>1. /\ pc[w] = "claiming" /\ call[w].phase = "done" /\ pc'[w] = "next"
        /\ call'[w].phase = "none" /\ UNCHANGED <<row, now, tok>>
        /\ ledger'[w] = [j \in Jobs |-> IF j \in call[w].aff THEN call[w].req.until
                                                            ELSE NoTime]
    BY <1>3, Zenon DEF ClaimReturn
  <2>2. \A j \in call[w].aff : Covered(w, j, call[w].req.until)
    BY <2>1, Zenon DEF LeaseIn
  <2>3. \A j \in Jobs : ledger'[w][j] # NoTime => Covered(w, j, ledger'[w][j])
    BY <2>1, <2>2, Zenon
  <2>4. \A j \in Jobs : ledger'[w][j] # NoTime => Covered(w, j, ledger[w][j])'
    BY <2>1, <2>3, ZenonT(60) DEF Covered, Holds
  <2> QED
    BY <2>1, <2>4, Zenon DEF LeaseIn
<1>4. CASE ClaimEmpty(w)
  <2>1. ledger'[w] = NoLedger /\ call'[w].phase # "done"
    BY <1>4, Zenon DEF ClaimEmpty, LeaveBatch, NoCall, NoFin, NoLedger
  <2> QED
    BY <2>1, LeaseNone, Zenon
<1>5. CASE ClaimCancelled(w)
  <2>1. ledger'[w] = NoLedger /\ call'[w].phase # "done"
    BY <1>5, Zenon DEF ClaimCancelled, Send
  <2> QED
    BY <2>1, LeaseNone, Zenon
<1>6. CASE ClaimFail(w)
  <2>1. ledger'[w] = NoLedger /\ call'[w].phase # "done"
    BY <1>6, Zenon DEF ClaimFail, Die, GiveUp, LeaveBatch, NoCall, NoFin, NoLedger
  <2> QED
    BY <2>1, LeaseNone, Zenon
<1>7. CASE CleanupReturn(w)
  <2>1. ledger'[w] = NoLedger /\ call'[w].phase # "done"
    BY <1>7, Zenon DEF CleanupReturn, Die, GiveUp, LeaveBatch, NoCall, NoFin,
                NoLedger
  <2> QED
    BY <2>1, LeaseNone, Zenon
<1>8. CASE HbTick(w)
  <2>1. /\ UNCHANGED <<row, now, tok, ledger, pc, cur>> /\ pc[w] # "claiming"
        /\ ctx'[w] # "lease" => ctx[w] # "lease"
    BY <1>8, HbTickEffect, Zenon DEF HbTick
  <2>2. call[w].phase = "none" /\ call'[w].phase # "done"
    BY <1>8, HbTickEffect, ZenonT(60) DEF TypeOK
  <2> QED
    BY <2>1, <2>2, LeaseKept, ZenonT(60)
<1>9. CASE HbExtended(w)
  <2>1. /\ UNCHANGED <<row, now, tok, ctx>> /\ pc'[w] # "claiming"
        /\ call[w].phase = "done" /\ call[w].req.kind = "extend"
        /\ call[w].aff = call[w].req.ids
    BY <1>9, Zenon DEF HbExtended, ExtensionHolds
  <2>2. call'[w].phase # "done"
    BY <1>9, DoneEffect, SendEffect, Zenon DEF HbExtended
  <2>3. \A j \in Jobs : ledger'[w][j] = IF j \in call[w].req.ids
                                        THEN call[w].req.until ELSE ledger[w][j]
    BY <1>9, RecordEffect, Zenon DEF HbExtended
  <2>4. \A j \in Jobs : Settling(w, j) => Settling(w, j)'
    BY <1>9, <2>1, Zenon DEF HbExtended
  <2> QED
    BY <2>1, <2>2, <2>3, <2>4, LeaseKept, ZenonT(60)
<1>10. CASE HbFail(w)
  <2>1. ctx'[w] = "lease" /\ pc'[w] # "claiming"
    BY <1>10, Zenon DEF HbFail, FailLease, FinalError
  <2> QED
    BY <2>1, Zenon DEF LeaseIn
<1>11. CASE AdmitRefused(w)
  <2>1. /\ UNCHANGED <<row, now, tok, ledger, call>> /\ pc'[w] # "claiming"
        /\ ctx'[w] # "lease" => ctx[w] # "lease"
        /\ pc[w] = "next"
    BY <1>11, ZenonT(60) DEF AdmitRefused, FailLease
  <2> QED
    BY <2>1, LeaseKept, Zenon
<1>12. CASE AdmitExtended(w)
  <2>1. /\ UNCHANGED <<row, now, tok, ctx>> /\ pc'[w] # "claiming"
        /\ call[w].phase = "done" /\ call[w].req.kind = "extend"
        /\ call[w].aff = call[w].req.ids
    BY <1>12, Zenon DEF AdmitExtended, ExtensionHolds, Start
  <2>2. call'[w].phase # "done"
    BY <1>12, DoneEffect, SendEffect, ZenonT(60) DEF AdmitExtended
  <2>3. \A j \in Jobs : ledger'[w][j] = IF j \in call[w].req.ids
                                        THEN call[w].req.until ELSE ledger[w][j]
    BY <1>12, RecordEffect, Zenon DEF AdmitExtended
  <2>4. \A j \in Jobs : Settling(w, j) => Settling(w, j)'
    BY <1>12, <2>1, Zenon DEF AdmitExtended
  <2> QED
    BY <2>1, <2>2, <2>3, <2>4, LeaseKept, Zenon
<1>13. CASE AdmitFail(w)
  <2>1. ctx'[w] = "lease" /\ pc'[w] # "claiming"
    BY <1>13, Zenon DEF AdmitFail, FailLease, FinalError
  <2> QED
    BY <2>1, Zenon DEF LeaseIn
<1>14. CASE HandlerCancelled(w)
  <2>1. /\ UNCHANGED <<row, now, tok, ledger, call>> /\ pc'[w] # "claiming"
        /\ ctx'[w] # "lease" => ctx[w] # "lease"
        /\ pc[w] \in {"handling", "finalizing"}
    BY <1>14, Zenon DEF HandlerCancelled
  <2> QED
    BY <2>1, LeaseKept, Zenon
<1>15. CASE HandlerExit(w)
  <2>1. /\ UNCHANGED <<row, now, tok, ledger, call>> /\ pc'[w] # "claiming"
        /\ ctx'[w] # "lease" => ctx[w] # "lease"
        /\ pc[w] \in {"handling", "finalizing"}
    BY <1>15, Zenon DEF HandlerExit
  <2> QED
    BY <2>1, LeaseKept, Zenon
<1>16. CASE FinalizeTimeout(w)
  <2>1. /\ UNCHANGED <<row, now, tok, ledger, call>> /\ pc'[w] # "claiming"
        /\ ctx'[w] # "lease" => ctx[w] # "lease"
        /\ pc[w] \in {"handling", "finalizing"}
    BY <1>16, Zenon DEF FinalizeTimeout, FinalError
  <2> QED
    BY <2>1, LeaseKept, Zenon
<1>17. CASE FinalizeLocked(w)
  <2>1. /\ UNCHANGED <<row, now, tok, ledger>> /\ pc'[w] # "claiming"
        /\ ctx'[w] # "lease" => ctx[w] # "lease"
        /\ pc[w] = "finalizing" /\ hb[w] # "call"
    BY <1>17, FinalizeEffect, Zenon DEF FinalizeLocked
  <2>2. call[w].phase = "none"
    BY <2>1, Zenon DEF TypeOK
  <2>3. call'[w].phase # "done"
    BY <1>17, <2>2, FinalizeEffect, SendEffect, ZenonT(60)
  <2> QED
    BY <2>1, <2>2, <2>3, LeaseKept, Zenon
<1>18. CASE FinalExtended(w)
  <2>1. /\ UNCHANGED <<row, now, tok, ctx>> /\ pc'[w] # "claiming"
        /\ call[w].phase = "done" /\ call[w].req.kind = "extend"
        /\ call[w].aff = call[w].req.ids
    BY <1>18, Zenon DEF FinalExtended, ExtensionHolds, SendFinal
  <2>2. call'[w].phase # "done"
    BY <1>18, DoneEffect, SendEffect, Zenon DEF FinalExtended, SendFinal
  <2>3. \A j \in Jobs : ledger'[w][j] = IF j \in call[w].req.ids
                                        THEN call[w].req.until ELSE ledger[w][j]
    BY <1>18, RecordEffect, Zenon DEF FinalExtended
  <2>4. \A j \in Jobs : Settling(w, j) => Settling(w, j)'
    BY <1>18, <2>1, Zenon DEF FinalExtended
  <2> QED
    BY <2>1, <2>2, <2>3, <2>4, LeaseKept, Zenon
<1>19. CASE FinalExtendFail(w)
  <2>1. ctx'[w] = "lease" /\ pc'[w] # "claiming"
    BY <1>19, Zenon DEF FinalExtendFail, FailLease, FinalError
  <2> QED
    BY <2>1, Zenon DEF LeaseIn
<1>20. CASE FinalConfirmed(w)
  <2>1. UNCHANGED <<row, now, tok, ctx>> /\ pc'[w] # "claiming"
    BY <1>20, Zenon DEF FinalConfirmed
  <2>2. /\ ledger'[w][cur[w]] = NoTime
        /\ \A j \in Jobs \ {cur[w]} : ledger'[w][j] = ledger[w][j]
    BY <1>20, RemoveEffect, Zenon DEF FinalConfirmed, Busy
  <2>3. call'[w].phase # "done" /\ \A j \in Jobs \ {cur[w]} : ~Settling(w, j)
    BY <1>20, DoneEffect, Zenon DEF FinalConfirmed, TypeOK
  <2> QED
    BY <2>1, <2>2, <2>3, LeaseKept, ZenonT(60)
<1>21. CASE FinalFail(w)
  <2>1. /\ UNCHANGED <<row, now, tok, ctx, ledger, cur>>
        /\ pc[w] = "finalCalling" /\ pc'[w] = "forgetting"
    BY <1>21, Zenon DEF FinalFail, FinalError
  <2>2. call'[w].phase # "done" /\ \A j \in Jobs \ {cur[w]} : ~Settling(w, j)
    BY <1>21, <2>1, DoneEffect, ZenonT(60) DEF FinalFail, GiveUp
  <2> QED
    BY <2>1, <2>2, LeaseKept, Zenon
<1>22. CASE Forget(w)
  <2>1. UNCHANGED <<row, now, tok, ctx>> /\ pc'[w] # "claiming"
    BY <1>22, Zenon DEF Forget
  <2>2. /\ ledger'[w][cur[w]] = NoTime
        /\ \A j \in Jobs \ {cur[w]} : ledger'[w][j] = ledger[w][j]
    BY <1>22, RemoveEffect, Zenon DEF Forget, Busy
  <2>3. call'[w].phase # "done" /\ \A j \in Jobs \ {cur[w]} : ~Settling(w, j)
    BY <1>22, DoneEffect, Zenon DEF Forget, TypeOK
  <2> QED
    BY <2>1, <2>2, <2>3, LeaseKept, Zenon
<1>23. CASE Stop(w)
  <2>1. CASE Out(w) = {}
    <3>1. ledger'[w] = NoLedger /\ call'[w] = call[w] /\ call[w].phase = "none"
      BY <1>23, <2>1, ZenonT(60) DEF Stop, Conclude, LeaveBatch, TypeOK
    <3> QED
      BY <3>1, LeaseNone, Zenon
  <2>2. CASE Out(w) # {}
    <3>1. /\ UNCHANGED <<row, now, tok, ctx, ledger>> /\ pc'[w] = "releasing"
          /\ pc[w] \in {"next", "stopping"} /\ hb[w] # "call"
          /\ call'[w].phase = "sent"
      BY <1>23, <2>2, SendEffect, Zenon DEF Stop
    <3>2. call[w].phase = "none"
      BY <3>1, ZenonT(60) DEF TypeOK
    <3> QED
      BY <3>1, <3>2, LeaseKept, Zenon
  <2> QED
    BY <2>1, <2>2, Zenon
<1>24. CASE Released(w)
  <2>1. ledger'[w] = NoLedger /\ call'[w].phase # "done"
    BY <1>24, Zenon DEF Released, Conclude, Die, LeaveBatch, NoCall, NoFin, NoLedger
  <2> QED
    BY <2>1, LeaseNone, Zenon
<1>25. CASE ReleaseFail(w)
  <2>1. ledger'[w] = NoLedger /\ call'[w].phase # "done"
    BY <1>25, Zenon DEF ReleaseFail, Conclude, Die, GiveUp, LeaveBatch, NoCall,
                 NoFin, NoLedger
  <2> QED
    BY <2>1, LeaseNone, Zenon
<1>26. CASE Unwind(w)
  <2>1. ledger'[w] = NoLedger /\ call'[w].phase # "done"
    BY <1>26, Zenon DEF Unwind, LeaveBatch, NoFin, NoLedger
  <2> QED
    BY <2>1, LeaseNone, Zenon
<1>27. CASE WorkerExit(w)
  <2>1. /\ UNCHANGED <<row, now, tok, ctx, ledger, call>>
        /\ pc'[w] # "claiming" /\ pc[w] = "idle"
    BY <1>27, Zenon DEF WorkerExit
  <2> QED
    BY <2>1, LeaseKept, Zenon
<1>28. ASSUME NEW j \in Out(w), Admit(w, j) PROVE LeaseIn(w)'
  <2>1. /\ UNCHANGED <<row, now, tok, ctx, ledger>> /\ pc'[w] # "claiming"
        /\ pc[w] = "next" /\ hb[w] # "call"
    BY <1>28, Zenon DEF Admit, Start
  <2>2. call[w].phase = "none"
    BY <2>1, Zenon DEF TypeOK
  <2>3. call'[w].phase # "done"
    BY <1>28, <2>2, SendEffect, Zenon DEF Admit
  <2> QED
    BY <2>1, <2>2, <2>3, LeaseKept, ZenonT(60)
<1>29. ASSUME NEW o \in Outcomes, NEW d \in Delays, HandlerReturn(w, o, d)
       PROVE  LeaseIn(w)'
  <2>1. /\ UNCHANGED <<row, now, tok, ledger, call>> /\ pc'[w] # "claiming"
        /\ ctx'[w] # "lease" => ctx[w] # "lease"
        /\ pc[w] \in {"handling", "finalizing"}
    BY <1>29, Zenon DEF HandlerReturn, Finalize
  <2> QED
    BY <2>1, LeaseKept, Zenon
<1> QED
  BY <1>1, <1>2, <1>3, <1>4, <1>5, <1>6, <1>7, <1>8, <1>9, <1>10, <1>11,
     <1>12, <1>13, <1>14, <1>15, <1>16, <1>17, <1>18, <1>19, <1>20, <1>21,
     <1>22, <1>23, <1>24, <1>25, <1>26, <1>27, <1>28, <1>29, ZenonT(60) DEF WorkerStep

\* A request in flight carries a token no other worker has.
LEMMA OwnToken ==
    ASSUME LocalInv, TokenIn, NEW w \in Workers, CallIn(w),
           call[w].phase # "none"
    PROVE  /\ call[w].req.tok = tok[w] /\ tok[w] # NoToken
           /\ \A v \in Workers : tok[v] = tok[w] => v = w
<1>1. call[w].req.tok = tok[w] /\ pc[w] \notin {"dead", "idle"}
  BY Zenon DEF CallIn, LocalInv, LocalIn, Managing, MuHeld
<1>2. tok[w] # NoToken
  BY <1>1, Zenon DEF LocalInv, LocalIn
<1> QED
  BY <1>1, <1>2, Zenon DEF TokenIn

\* The tokens in use stay distinct, and below the next one.
LEMMA TokenNext ==
    ASSUME TypeOK, LocalInv, TokenIn, NEW w \in Workers, CallIn(w),
           WorkerStep(w)
    PROVE  TokenIn'
<1>1. /\ nextTok \in Nat /\ nextTok' \in {nextTok, nextTok + 1} /\ nextTok > NoToken
      /\ \A v \in Workers : tok[v] \in Nat /\ tok[v] < nextTok
  BY SharedStep, Zenon DEF Shared, TypeOK, TokenIn
<1>2. TokenMoves(w)
  BY TokenStep, Zenon DEF LocalInv
<1>3. \A v \in Workers : v # w => tok'[v] = tok[v]
  BY Frame, Zenon DEF Same
<1>4. nextTok' > NoToken /\ \A v \in Workers : tok'[v] < nextTok'
  BY <1>1, <1>2, <1>3 DEF TokenMoves, NoToken
<1>5. ASSUME NEW u \in Workers, NEW v \in Workers, tok'[u] # NoToken, tok'[u] = tok'[v]
      PROVE  u = v
  BY <1>1, <1>2, <1>3, <1>5 DEF TokenMoves, TokenIn
<1>6. ASSUME NEW r \in orphans' PROVE NoToken < r.tok /\ r.tok < nextTok'
  <2>1. CASE r \in orphans
    <3>1. r.tok \in Nat /\ NoToken < r.tok /\ r.tok < nextTok
      BY <2>1, Zenon DEF TypeOK, Request, TokenIn
    <3> QED
      BY <1>1, <3>1
  <2>2. CASE r \notin orphans
    <3>1. r = call[w].req /\ call[w].phase = "sent"
      BY <2>2, SharedStep, Zenon DEF Shared
    <3>2. r.tok = tok[w] /\ tok[w] # NoToken
      BY <3>1, OwnToken, Zenon
    <3> QED
      BY <1>1, <3>2 DEF NoToken
  <2> QED
    BY <2>1, <2>2, Zenon
<1> QED
  BY <1>4, <1>5, <1>6, Zenon DEF TokenIn

\* What the manager's ledger, its cached bound and its calls satisfy.
PartIn(w) == CallIn(w) /\ AckIn(w) /\ BoundIn(w) /\ OrphanIn(w)

\* The same, of every worker.
PartInv == \A w \in Workers : PartIn(w)

\* They are about the worker's own state; of the shared state only more late
\* statements with the worker's token could disturb them.
LEMMA PartSame ==
    ASSUME NEW v \in Workers, PartIn(v), Same(v), succeeded \subseteq succeeded',
           \A r \in orphans' : r \in orphans \/ r.tok # tok[v]
    PROVE  PartIn(v)'
<1>1. CallIn(v)'
  BY ZenonT(60) DEF Same, PartIn, CallIn
<1>2. AckIn(v)'
  BY ZenonT(60) DEF Same, PartIn, AckIn
<1>3. BoundIn(v)'
  BY ZenonT(60) DEF Same, PartIn, BoundIn, Low
<1>4. OrphanIn(v)'
  BY ZenonT(60) DEF Same, PartIn, OrphanIn
<1> QED
  BY <1>1, <1>2, <1>3, <1>4, ZenonT(60) DEF PartIn

\* A step of one worker keeps the calls, bounds and tokens of all workers.
LEMMA PartNext ==
    ASSUME TypeOK, LocalInv, PartInv, TokenIn, NEW w \in Workers,
           WorkerStep(w)
    PROVE  PartInv'
<1> SUFFICES ASSUME NEW v \in Workers PROVE PartIn(v)'
  BY Zenon DEF PartInv
<1>1. CASE v = w
  BY <1>1, CallStep, AckStep, BoundStep, OrphanStep, Zenon
  DEF PartInv, PartIn, LocalInv
<1>2. CASE v # w
  <2>1. Same(v)
    BY <1>2, Frame, Zenon
  <2>2. \A r \in orphans' : r \in orphans \/ r.tok # tok[v]
    BY <1>2, SharedStep, OwnToken DEF Shared, PartInv, PartIn
  <2>3. succeeded \subseteq succeeded'
    BY SharedStep, Zenon DEF Shared
  <2> QED
    BY <2>1, <2>2, <2>3, PartSame, Zenon DEF PartInv
<1> QED
  BY <1>1, <1>2, Zenon

\* The times statements carry stay in the past of the fastest clock.
LEMMA ClockNext ==
    ASSUME TypeOK, LocalInv, ClockIn, NEW w \in Workers, WorkerStep(w)
    PROVE  ClockIn'
<1>1. ASSUME NEW v \in Workers PROVE ClockReads(v)'
  <2>1. CASE v = w
    BY <2>1, ClockStep, Zenon DEF ClockIn, ClockReads, LocalInv
  <2>2. CASE v # w
    BY <2>2, Frame, SharedStep, Zenon DEF Same, Shared, ClockIn, ClockReads
  <2> QED
    BY <2>1, <2>2, Zenon
<1>2. \A r \in orphans' : r.now <= now' + MaxOffset
  BY SharedStep, Zenon DEF Shared, ClockIn
<1> QED
  BY <1>1, <1>2, Zenon DEF ClockIn, ClockReads

\* The same, of every worker.
LeaseInv == \A w \in Workers : LeaseIn(w)

\* The promises to v stand when a statement runs that is not v's own.
LEMMA LeaseOther ==
    ASSUME TypeOK, NEW r \in Request, NEW S \in Affectable(row, r, BatchSize),
           row' = Apply(row, r, S), now' = now, r.now <= now + MaxOffset,
           NEW v \in Workers, LeaseIn(v), CallIn(v), OrphanIn(v),
           UNCHANGED tok, Same(v), r.tok # tok[v] \/ r \in orphans
    PROVE  LeaseIn(v)'
<1>1. /\ ledger[v] \in [Jobs -> Nat] /\ call[v].req.until \in Nat
      /\ call[v].aff \subseteq Jobs
  BY Zenon DEF TypeOK, Request
<1>2. \A j \in Jobs : Settling(v, j)' = Settling(v, j)
  BY Zenon DEF Same, Settling
<1>3. ASSUME NEW j \in Jobs, NEW u \in Nat, r.tok # tok[v] \/ j \notin r.ids,
             Covered(v, j, u)
      PROVE  now' + MaxOffset < u => Holds(v, j)' /\ row'[j].until >= u
  <2>1. Covered(v, j, u)'
    BY <1>3, PromiseStands, Zenon
  <2> QED
    BY <2>1, Zenon DEF Covered
<1>4. ASSUME pc[v] = "claiming", call[v].phase = "done", NEW j \in call[v].aff
      PROVE  Covered(v, j, call[v].req.until)'
  <2>1. r.tok # tok[v] /\ Covered(v, j, call[v].req.until)
    BY <1>4, Zenon DEF OrphanIn, LeaseIn
  <2> QED
    BY <1>1, <1>3, <2>1, Zenon DEF Same, Covered
<1>5. ASSUME ctx[v] # "lease", NEW j \in Jobs, ~Settling(v, j), ledger[v][j] # NoTime
      PROVE  r.tok # tok[v] \/ j \notin r.ids
  BY <1>5 DEF OrphanIn, Settling
<1>6. ASSUME ctx[v] # "lease", NEW j \in Jobs, ~Settling(v, j), ledger[v][j] # NoTime
      PROVE  Covered(v, j, ledger[v][j])'
  <2>1. Covered(v, j, ledger[v][j])
    BY <1>6, Zenon DEF LeaseIn
  <2> QED
    BY <1>1, <1>3, <1>5, <1>6, <2>1, ZenonT(60) DEF Same, Covered
<1>7. ASSUME ctx[v] # "lease", NEW j \in Jobs, ~Settling(v, j),
             call[v].phase = "done", call[v].req.kind = "extend", j \in call[v].aff
      PROVE  Covered(v, j, call[v].req.until)'
  <2>1. Covered(v, j, call[v].req.until) /\ ledger[v][j] # NoTime
    BY <1>7, Zenon DEF LeaseIn, CallIn
  <2> QED
    BY <1>1, <1>3, <1>5, <1>7, <2>1, Zenon DEF Same, Covered
<1> QED
  BY <1>2, <1>4, <1>6, <1>7, ZenonT(60) DEF LeaseIn, Same

\* A step of one worker breaks no promise to any worker.
LEMMA LeaseNext ==
    ASSUME TypeOK, LocalInv, PartInv, TokenIn, ClockIn, LeaseInv,
           NEW w \in Workers, WorkerStep(w)
    PROVE  LeaseInv'
<1> SUFFICES ASSUME NEW v \in Workers PROVE LeaseIn(v)'
  BY Zenon DEF LeaseInv
<1>0. LocalIn(w) /\ CallIn(w) /\ LeaseIn(w) /\ CallIn(v) /\ OrphanIn(v) /\ LeaseIn(v)
  BY Zenon DEF LocalInv, PartInv, PartIn, LeaseInv
<1>1. CASE v = w
  BY <1>0, <1>1, LeaseStep, Zenon
<1>2. CASE v # w /\ DbExec(w)
  <2> DEFINE r == call[w].req
             S == call'[w].aff
  <2>1. /\ S \in Affectable(row, r, BatchSize) /\ row' = Apply(row, r, S)
        /\ call[w].phase = "sent"
    BY <1>2, ExecEffect, ZenonT(60) DEF Execute
  <2>2. r \in Request /\ now' = now /\ UNCHANGED tok /\ r.now <= now + MaxOffset
    BY <1>2, <2>1, Zenon DEF TypeOK, DbExec, ClockIn
  <2>3. r.tok # tok[v]
    BY <1>0, <1>2, <2>1, OwnToken, Zenon
  <2>4. Same(v)
    BY <1>2, Frame, Zenon
  <2> HIDE DEF r, S
  <2> QED
    BY <1>0, <2>1, <2>2, <2>3, <2>4, LeaseOther, Zenon
<1>3. CASE v # w /\ ~DbExec(w)
  <2>1. Same(v) /\ UNCHANGED <<row, now>>
    BY <1>3, Frame, SharedStep, Zenon DEF Shared, tableVars
  <2> QED
    BY <1>0, <2>1, ZenonT(60) DEF LeaseIn, Covered, Holds, Settling, Same
<1> QED
  BY <1>1, <1>2, <1>3, Zenon

\* What the database runs removes a job only as an outcome of its lease.
LEMMA TableExec ==
    ASSUME TypeOK, TableIn, NEW r \in Request,
           NEW S \in Affectable(row, r, BatchSize), Execute(r, S),
           r.tok # NoToken, UNCHANGED succeeded,
           r.kind = "ack" => \A j \in r.ids : <<j, r.tok>> \in succeeded,
           orphans' \subseteq orphans
    PROVE  TableIn'
<1>1. row \in Table /\ S \subseteq Jobs /\ S \subseteq r.ids
  BY AffectableSubset, Zenon DEF TypeOK
<1>2. /\ row' = Apply(row, r, S)
      /\ dlq' = IF r.kind = "dlq" THEN dlq \cup S ELSE dlq
  BY Zenon DEF Execute
<1>3. ASSUME NEW j \in Jobs
      PROVE  /\ j \notin S => row'[j] = row[j]
             /\ j \in S => row[j].live
             /\ j \in S /\ r.kind # "claim" => row[j].tok = r.tok
  BY <1>1, <1>2, RowsTouched
<1>4. ASSUME NEW j \in S
      PROVE  /\ r.kind \in {"ack", "dlq"} => row'[j].tok = row[j].tok /\ ~row'[j].live
             /\ r.kind \notin {"ack", "dlq"} => row'[j].live = row[j].live
  BY <1>1, <1>2, <1>4, RowsAfter
<1>5. \A j \in dlq' : ~row'[j].live /\ row'[j].tok # NoToken
  BY <1>1, <1>2, <1>3, <1>4, ZenonT(60) DEF TableIn, TypeOK
<1>6. RemovalJustified'
  <2> SUFFICES ASSUME NEW j \in Jobs, ~row'[j].live, row'[j].tok # NoToken, j \notin dlq'
               PROVE  <<j, row'[j].tok>> \in succeeded'
    BY Zenon DEF RemovalJustified
  <2>1. CASE j \in S
    <3>1. r.kind = "ack" /\ row'[j].tok = r.tok
      BY <1>2, <1>3, <1>4, <2>1, ZenonT(60)
    <3> QED
      BY <1>1, <2>1, <3>1, Zenon
  <2>2. CASE j \notin S
    BY <1>2, <1>3, <2>2, Zenon DEF TableIn, RemovalJustified
  <2> QED
    BY <2>1, <2>2, Zenon
<1> QED
  BY <1>5, <1>6, Zenon DEF TableIn

\* A step of one worker removes jobs only as it may.
LEMMA TableNext ==
    ASSUME TypeOK, LocalInv, PartInv, TokenIn, TableIn, NEW w \in Workers,
           WorkerStep(w)
    PROVE  TableIn'
<1>0. CallIn(w) /\ AckIn(w)
  BY Zenon DEF PartInv, PartIn
<1>1. CASE DbExec(w)
  <2> DEFINE r == call[w].req
             S == call'[w].aff
  <2>1. /\ S \in Affectable(row, r, BatchSize) /\ Execute(r, S)
        /\ call[w].phase = "sent" /\ r \in Request
    BY <1>1, ExecEffect, Zenon DEF TypeOK
  <2>2. r.tok # NoToken
    BY <1>0, <2>1, OwnToken, ZenonT(60)
  <2>3. r.kind = "ack" => \A j \in r.ids : <<j, r.tok>> \in succeeded
    BY <1>0, <2>1 DEF AckIn
  <2>4. UNCHANGED <<succeeded, orphans>>
    BY <1>1, Zenon DEF DbExec, history
  <2> HIDE DEF r, S
  <2> QED
    BY <2>1, <2>2, <2>3, <2>4, TableExec, ZenonT(60)
<1>2. CASE ~DbExec(w)
  <2>1. /\ UNCHANGED <<row, dlq>> /\ succeeded \subseteq succeeded'
        /\ \A r \in orphans' : r \in orphans \/ (r = call[w].req /\ call[w].phase = "sent")
    <3>1. Shared(w)
      BY SharedStep, Zenon
    <3>2. UNCHANGED <<row, dlq>> /\ succeeded \subseteq succeeded'
      BY <1>2, <3>1, Zenon DEF Shared, tableVars
    <3>3. \A r \in orphans' : r \in orphans \/ (r = call[w].req /\ call[w].phase = "sent")
      BY <3>1, Zenon DEF Shared
    <3> QED
      BY <3>2, <3>3, Zenon
  <2> QED
    BY <1>0, <2>1, Zenon DEF TableIn, RemovalJustified, AckIn
<1> QED
  BY <1>1, <1>2, Zenon

=============================================================================
