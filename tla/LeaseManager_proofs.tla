-------------------------- MODULE LeaseManager_proofs --------------------------
(***************************************************************************)
(* The lease manager of one worker: what its call in flight, its ledger,   *)
(* its cached bound and its late statements satisfy, and that every step   *)
(* of the worker keeps it so.                                              *)
(***************************************************************************)
EXTENDS LeaseWorker_proofs

\* The outcomes finalize may be asked for.
FinalKinds == {"ack", "dlq", "retry", "defer"}

\* The call in flight belongs to the step its worker is at, carries the
\* batch's token, and an extension names rows of the ledger only, to raise
\* their deadlines.
CallIn(w) ==
    LET r == call[w].req
    IN  /\ pc[w] \in {"finalizing", "finalExtending"} => fin[w].kind \in FinalKinds
        /\ call[w].phase = "done" => call[w].aff \subseteq r.ids
        /\ call[w].phase # "none" =>
             /\ r.tok = tok[w]
             /\ \/ hb[w] = "call" /\ r.kind = "extend"
                \/ pc[w] \in {"admitting", "finalExtending"} /\ r.kind = "extend"
                \/ pc[w] = "claiming" /\ r.kind = "claim"
                \/ pc[w] \in {"cleanup", "releasing"} /\ r.kind = "release"
                \/ /\ pc[w] = "finalCalling" /\ r.kind \in FinalKinds
                   /\ r.ids = {cur[w]}
        /\ call[w].phase # "none" /\ r.kind = "extend" =>
             \A j \in r.ids : ledger[w][j] # NoTime /\ ledger[w][j] < r.until

\* An acknowledgement is under way only for a job whose handler returned nil.
AckIn(w) ==
    /\ pc[w] \in {"finalizing", "finalExtending"} /\ fin[w].kind = "ack" =>
         <<cur[w], tok[w]>> \in succeeded
    /\ call[w].phase = "sent" /\ call[w].req.kind = "ack" =>
         \A j \in call[w].req.ids : <<j, call[w].req.tok>> \in succeeded

\* m is positive and bounds the deadlines in the ledger of w from below.
Low(w, m) == \A j \in Jobs : ledger[w][j] # NoTime =>
                NoTime < m /\ m <= ledger[w][j]

\* The cached bound is a lower bound, and while an outcome is being written
\* every deadline in the ledger lies beyond its budget and margin.
BoundIn(w) ==
    /\ Low(w, earliest[w])
    /\ pc[w] = "finalCalling" =>
          \A j \in Jobs : ledger[w][j] # NoTime =>
             ledger[w][j] >= fin[w].deadline + FinalMargin
    /\ pc[w] = "finalExtending" =>
          /\ call[w].req.until >= fin[w].deadline + FinalMargin
          /\ \A j \in Jobs \ call[w].req.ids : ledger[w][j] # NoTime =>
                ledger[w][j] >= fin[w].deadline + FinalMargin

\* A late statement under the token of w is harmless to w: w has given up its
\* leases, or the rows it names have left the ledger or are leaving it.
OrphanIn(w) ==
    \A r \in orphans : r.tok = tok[w] =>
        /\ pc[w] # "claiming"
        /\ \/ ctx[w] = "lease"
           \/ \A j \in r.ids : ledger[w][j] # NoTime =>
                pc[w] = "forgetting" /\ j = cur[w]

\* Tokens are fresh: no two workers share one, and none lies ahead.
TokenIn ==
    /\ nextTok > NoToken
    /\ \A w \in Workers : tok[w] < nextTok
    /\ \A w, v \in Workers : tok[w] # NoToken /\ tok[w] = tok[v] => w = v
    /\ \A r \in orphans : NoToken < r.tok /\ r.tok < nextTok

\* ensureLeasesLocked extends rows of the ledger that fall short.
LEMMA NeedFacts ==
    ASSUME TypeOK, NEW w \in Workers, NEW n
    PROVE  \A j \in NeedExtension(w, n) :
              j \in Jobs /\ ledger[w][j] # NoTime /\ ledger[w][j] < n
BY Zenon DEF NeedExtension, Out

\* The call of w after the database has run it.
LEMMA ExecEffect ==
    ASSUME TypeOK, NEW w \in Workers, DbExec(w)
    PROVE  /\ call[w].phase = "sent" /\ call'[w].phase = "done"
           /\ call'[w].req = call[w].req
           /\ call'[w].aff \in Affectable(row, call[w].req, BatchSize)
           /\ call'[w].aff \subseteq call[w].req.ids
           /\ Execute(call[w].req, call'[w].aff)
<1>1. call \in [Workers -> Calls] /\ row \in Table
  BY Zenon DEF TypeOK, Calls
<1>2. PICK S \in Affectable(row, call[w].req, BatchSize) :
        /\ Execute(call[w].req, S)
        /\ call' = [call EXCEPT ![w] = [call[w] EXCEPT !.phase = "done", !.aff = S]]
  BY Zenon DEF DbExec
<1>3. call'[w].phase = "done" /\ call'[w].req = call[w].req /\ call'[w].aff = S
  BY <1>1, <1>2, Zenon DEF Calls
<1>4. S \subseteq call[w].req.ids
  BY <1>1, AffectableSubset, Zenon DEF Calls
<1> QED
  BY <1>2, <1>3, <1>4, Zenon DEF DbExec

\* The call of w after w has sent a statement.
LEMMA SendEffect ==
    ASSUME TypeOK, NEW w \in Workers, NEW kind, NEW token, NEW ids, NEW until,
           Send(w, kind, token, ids, until)
    PROVE  /\ call'[w].phase = "sent"
           /\ call'[w].req.kind = kind /\ call'[w].req.tok = token
           /\ call'[w].req.ids = ids /\ call'[w].req.until = until
           /\ call'[w].req.now = Now(w)
BY Zenon DEF Send, TypeOK

\* After an answer or an error no call of w is in flight.
LEMMA DoneEffect ==
    ASSUME TypeOK, NEW w \in Workers
    PROVE  /\ Done(w) => call'[w].phase = "none"
           /\ GiveUp(w) => call'[w].phase = "none"
BY DEF Done, GiveUp, TypeOK, NoCall

\* A heartbeat tick either leaves the call alone or sends an extension.
LEMMA HbTickEffect ==
    ASSUME TypeOK, NEW w \in Workers, HbTick(w)
    PROVE  /\ UNCHANGED <<pc, tok, ledger, seen, cur, fin, err, orphans, succeeded>>
           /\ hb[w] = "on" /\ pc[w] \in Managing \ MuHeld
           /\ UNCHANGED ctx \/ ctx'[w] = "lease"
           /\ \/ UNCHANGED earliest
              \/ earliest'[w] = Gathered(w, Now(w) + ReserveFor)
           /\ \/ hb'[w] # "call" /\ UNCHANGED call
              \/ /\ hb'[w] = "call" /\ call'[w].phase = "sent"
                 /\ call'[w].req.kind = "extend" /\ call'[w].req.tok = tok[w]
                 /\ \A j \in call'[w].req.ids :
                       ledger[w][j] # NoTime /\ ledger[w][j] < call'[w].req.until
<1> DEFINE target == Now(w) + ReserveFor
           need == NeedExtension(w, target)
<1>1. \/ UNCHANGED call /\ hb'[w] # "call"
      \/ hb'[w] = "call" /\ Send(w, "extend", tok[w], need, target + 1)
  BY ZenonT(60) DEF HbTick, TypeOK
<1>2. target \in Nat
  BY BlockTypes, ConstantsAssumption
<1>3. \A j \in need : ledger[w][j] \in Nat /\ ledger[w][j] # NoTime /\ ledger[w][j] < target
  BY NeedFacts DEF TypeOK
<1>4. UNCHANGED ctx \/ ctx'[w] = "lease"
  BY Zenon DEF HbTick, FailLease, TypeOK
<1>5. UNCHANGED earliest \/ earliest'[w] = Gathered(w, target)
  BY Zenon DEF HbTick, TypeOK
<1>6. /\ UNCHANGED <<pc, tok, ledger, seen, cur, fin, err, orphans, succeeded>>
      /\ hb[w] = "on" /\ pc[w] \in Managing \ MuHeld
  BY Zenon DEF HbTick, jobVars, history
<1> HIDE DEF target, need
<1>7. \A j \in need : ledger[w][j] # NoTime /\ ledger[w][j] < target + 1
  BY <1>2, <1>3
<1>8. Send(w, "extend", tok[w], need, target + 1) =>
        /\ call'[w].phase = "sent"
        /\ call'[w].req.kind = "extend" /\ call'[w].req.tok = tok[w]
        /\ \A j \in call'[w].req.ids :
              ledger[w][j] # NoTime /\ ledger[w][j] < call'[w].req.until
  BY <1>7, SendEffect
<1> QED
  BY <1>1, <1>4, <1>5, <1>6, <1>8, Zenon DEF target

\* The three ways finalize goes on once it holds the mutex.
LEMMA FinalizeEffect ==
    ASSUME TypeOK, NEW w \in Workers, FinalizeLocked(w)
    PROVE  LET required == fin[w].deadline + FinalMargin
               need == NeedExtension(w, required)
           IN /\ UNCHANGED <<tok, ledger, hb, seen, cur, fin, orphans, succeeded>>
              /\ pc[w] = "finalizing" /\ hb[w] # "call"
              /\ \/ /\ pc'[w] = "forgetting" /\ UNCHANGED <<call, earliest>>
                    /\ ctx'[w] = "lease"
                 \/ /\ pc'[w] = "finalExtending" /\ UNCHANGED ctx
                    /\ earliest'[w] = Gathered(w, required)
                    /\ Send(w, "extend", tok[w], need, required + ReserveFor + 1)
                 \/ /\ pc'[w] = "finalCalling" /\ UNCHANGED ctx /\ need = {}
                    /\ earliest'[w] = Gathered(w, required)
                    /\ \E until : Send(w, fin[w].kind, tok[w], {cur[w]}, until)
BY Zenon DEF FinalizeLocked, FinalError, FailLease, SendFinal, Goto, history, TypeOK

\* A lower bound stays one, and what needs no extension reaches far enough.
LEMMA GatheredBound ==
    ASSUME TypeOK, NEW w \in Workers, Low(w, earliest[w]), NEW n \in Nat
    PROVE  /\ Low(w, Gathered(w, n)) /\ Low(w, Checked(w))
           /\ \A j \in Jobs \ NeedExtension(w, n) :
                 ledger[w][j] # NoTime => ledger[w][j] >= n
<1>1. ledger[w] \in [Jobs -> Nat]
  BY Zenon DEF TypeOK
<1>2. Low(w, MinDeadline(ledger[w]))
  BY <1>1, MinDeadlineBound, Zenon DEF Low
<1>3. Low(w, Checked(w)) /\ Low(w, Gathered(w, n))
  BY <1>2, Zenon DEF Checked, Gathered
<1>4. ASSUME NEW j \in Jobs, j \notin NeedExtension(w, n), ledger[w][j] # NoTime
      PROVE  ledger[w][j] >= n
  <2>1. Checked(w) \in Nat /\ Checked(w) <= ledger[w][j] /\ ledger[w][j] \in Nat
    BY <1>1, <1>3, <1>4, BlockTypes, Zenon DEF Low
  <2>2. Checked(w) >= n \/ ~(ledger[w][j] < n)
    BY <1>4, Zenon DEF NeedExtension, Out
  <2> QED
    BY <2>1, <2>2
<1> QED
  BY <1>3, <1>4, Zenon

\* A recorded extension moves the extended deadlines and nothing else.
LEMMA RecordEffect ==
    ASSUME TypeOK, NEW w \in Workers, RecordExtension(w)
    PROVE  /\ \A j \in Jobs : ledger'[w][j] = IF j \in call[w].req.ids
                                              THEN call[w].req.until ELSE ledger[w][j]
           /\ Low(w, earliest[w])'
<1>1. Extended(w) \in [Jobs -> Nat]
  BY BlockTypes, Zenon
<1>2. ledger'[w] = Extended(w) /\ earliest'[w] = MinDeadline(Extended(w))
  BY Zenon DEF RecordExtension, TypeOK
<1>3. \A j \in Jobs : ledger'[w][j] = IF j \in call[w].req.ids
                                      THEN call[w].req.until ELSE ledger[w][j]
  BY <1>2, Zenon DEF Extended
<1>4. Low(w, earliest[w])'
  BY <1>1, <1>2, MinDeadlineBound, Zenon DEF Low
<1> QED
  BY <1>3, <1>4, Zenon

\* delete(m.outstanding, jobID) removes one deadline, and keeps the bound.
LEMMA RemoveEffect ==
    ASSUME TypeOK, NEW w \in Workers, NEW k \in Jobs, Remove(w, k)
    PROVE  /\ ledger'[w][k] = NoTime
           /\ \A j \in Jobs \ {k} : ledger'[w][j] = ledger[w][j]
           /\ Low(w, earliest[w]) => Low(w, earliest[w])'
<1>1. ledger'[w] = [ledger[w] EXCEPT ![k] = NoTime] /\ ledger[w] \in [Jobs -> Nat]
  BY Zenon DEF Remove, TypeOK
<1>2. \/ earliest'[w] = earliest[w]
      \/ ledger'[w] = NoLedger
  BY <1>1, Zenon DEF Remove, TypeOK
<1>3. /\ ledger'[w][k] = NoTime
      /\ \A j \in Jobs \ {k} : ledger'[w][j] = ledger[w][j]
  BY <1>1, Zenon
<1> QED
  BY <1>2, <1>3, Zenon DEF Low, NoLedger

\* Every step of w keeps its call in line with where w is.
LEMMA CallStep ==
    ASSUME TypeOK, NEW w \in Workers, LocalIn(w), CallIn(w), WorkerStep(w)
    PROVE  CallIn(w)'
<1> DEFINE Fcn(f) == f = [u \in Workers |-> f[u]]
<1>0. /\ Fcn(pc) /\ Fcn(tok) /\ Fcn(ledger) /\ Fcn(earliest) /\ Fcn(ctx)
      /\ Fcn(hb) /\ Fcn(seen) /\ Fcn(call) /\ Fcn(cur) /\ Fcn(fin) /\ Fcn(err)
  BY Zenon DEF TypeOK
<1> USE <1>0 DEF CallIn, Goto, Done, managerVars, jobVars, LocalIn, Managing,
                 MuHeld, FinalKinds, NoCall
<1>1. CASE DbExec(w)
  BY <1>1, ExecEffect, Zenon DEF DbExec
<1>2. CASE ClaimStart(w)
  BY <1>2, Zenon DEF ClaimStart, Send
<1>3. CASE ClaimReturn(w)
  BY <1>3, Zenon DEF ClaimReturn, NoCall
<1>4. CASE ClaimEmpty(w)
  BY <1>4, Zenon DEF ClaimEmpty, LeaveBatch, NoCall, NoFin, NoLedger
<1>5. CASE ClaimCancelled(w)
  BY <1>5, Zenon DEF ClaimCancelled, Send
<1>6. CASE ClaimFail(w)
  BY <1>6, Zenon DEF ClaimFail, Die, GiveUp, LeaveBatch, NoCall, NoFin, NoLedger
<1>7. CASE CleanupReturn(w)
  BY <1>7, ZenonT(60) DEF CleanupReturn, Die, GiveUp, LeaveBatch, NoCall, NoFin, NoLedger
<1>8. CASE HbTick(w)
  BY <1>8, HbTickEffect
<1>9. CASE HbExtended(w)
  BY <1>9, Zenon DEF HbExtended, NoCall, RecordExtension
<1>10. CASE HbFail(w)
  BY <1>10, Zenon DEF HbFail, GiveUp, NoCall
<1>11. CASE AdmitRefused(w)
  BY <1>11, Zenon DEF AdmitRefused
<1>12. CASE AdmitExtended(w)
  BY <1>12, Zenon DEF AdmitExtended, NoCall, RecordExtension, Start
<1>13. CASE AdmitFail(w)
  BY <1>13, Zenon DEF AdmitFail, GiveUp, NoCall
<1>14. CASE HandlerCancelled(w)
  BY <1>14, Zenon DEF HandlerCancelled
<1>15. CASE HandlerExit(w)
  BY <1>15, Zenon DEF HandlerExit
<1>16. CASE FinalizeTimeout(w)
  BY <1>16, ZenonT(60) DEF FinalizeTimeout, FinalError
<1>17. CASE FinalizeLocked(w)
  <2> DEFINE required == fin[w].deadline + FinalMargin
             until == required + ReserveFor + 1
             need == NeedExtension(w, required)
  <2>1. \A j \in need : ledger[w][j] # NoTime /\ ledger[w][j] < until
    <3>1. required \in Nat /\ until \in Nat /\ required < until
      BY ConstantsAssumption DEF TypeOK
    <3> HIDE DEF required, until
    <3> QED
      BY <3>1, NeedFacts, SMTT(60) DEF TypeOK
  <2>2. /\ UNCHANGED <<tok, ledger, hb, cur, fin>>
        /\ pc[w] = "finalizing" /\ hb[w] # "call"
        /\ \/ pc'[w] = "forgetting" /\ UNCHANGED call
           \/ /\ pc'[w] = "finalExtending"
              /\ Send(w, "extend", tok[w], need, until)
           \/ /\ pc'[w] = "finalCalling"
              /\ \E at : Send(w, fin[w].kind, tok[w], {cur[w]}, at)
    BY <1>17, FinalizeEffect, Zenon
  <2> HIDE DEF required, until, need
  <2> QED
    BY <2>1, <2>2, SendEffect, SMTT(60)
<1>18. CASE FinalExtended(w)
  <2>1. /\ UNCHANGED <<tok, hb, fin, cur>>
        /\ pc[w] = "finalExtending" /\ SendFinal(w)
    BY <1>18, Zenon DEF FinalExtended
  <2> QED
    BY <2>1, Zenon DEF Send, SendFinal
<1>19. CASE FinalExtendFail(w)
  BY <1>19, Zenon DEF FinalExtendFail, FinalError, GiveUp, NoCall
<1>20. CASE FinalConfirmed(w)
  BY <1>20, Zenon DEF FinalConfirmed, NoCall, NoFin, NoLedger, Remove
<1>21. CASE FinalFail(w)
  BY <1>21, Zenon DEF FinalFail, FinalError, GiveUp, NoCall
<1>22. CASE Forget(w)
  BY <1>22, ZenonT(60) DEF Forget, NoFin, NoLedger, Remove
<1>23. CASE Stop(w)
  BY <1>23 DEF Stop, Conclude, Die, LeaveBatch, NoFin, NoLedger, Send
<1>24. CASE Released(w)
  BY <1>24, Zenon DEF Released, Conclude, Die, LeaveBatch, NoCall, NoFin, NoLedger
<1>25. CASE ReleaseFail(w)
  BY <1>25, Zenon DEF ReleaseFail, Conclude, Die, GiveUp, LeaveBatch, NoCall, NoFin,
               NoLedger
<1>26. CASE Unwind(w)
  BY <1>26, Zenon DEF Unwind, LeaveBatch, NoFin, NoLedger
<1>27. CASE WorkerExit(w)
  BY <1>27, ZenonT(60) DEF WorkerExit
<1>28. ASSUME NEW j \in Out(w), Admit(w, j) PROVE CallIn(w)'
  <2> DEFINE target == Now(w) + ReserveFor
             need == NeedExtension(w, target)
  <2>1. /\ UNCHANGED <<tok, ledger, hb, fin>> /\ pc[w] = "next" /\ hb[w] # "call"
        /\ \/ UNCHANGED call /\ pc'[w] = "handling"
           \/ pc'[w] = "admitting" /\ Send(w, "extend", tok[w], need, target + 1)
    BY <1>28, ZenonT(60) DEF Admit, Start
  <2>2. \A k \in need : ledger[w][k] # NoTime /\ ledger[w][k] < target + 1
    <3>1. target \in Nat
      BY BlockTypes, ConstantsAssumption, SMTT(60)
    <3> HIDE DEF target
    <3> QED
      BY <3>1, NeedFacts, SMTT(60) DEF TypeOK
  <2> HIDE DEF target, need
  <2> QED
    BY <2>1, <2>2, SendEffect
<1>29. ASSUME NEW o \in Outcomes, NEW d \in Delays, HandlerReturn(w, o, d)
       PROVE  CallIn(w)'
  BY <1>29 DEF HandlerReturn, Finalize
<1> QED
  BY <1>1, <1>2, <1>3, <1>4, <1>5, <1>6, <1>7, <1>8, <1>9, <1>10, <1>11,
     <1>12, <1>13, <1>14, <1>15, <1>16, <1>17, <1>18, <1>19, <1>20, <1>21,
     <1>22, <1>23, <1>24, <1>25, <1>26, <1>27, <1>28, <1>29, ZenonT(60) DEF WorkerStep

\* Every step of w acknowledges successful jobs only.
LEMMA AckStep ==
    ASSUME TypeOK, NEW w \in Workers, LocalIn(w), CallIn(w), AckIn(w),
           WorkerStep(w)
    PROVE  AckIn(w)'
<1> DEFINE Fcn(f) == f = [u \in Workers |-> f[u]]
<1>0. /\ Fcn(pc) /\ Fcn(tok) /\ Fcn(ledger) /\ Fcn(earliest) /\ Fcn(ctx)
      /\ Fcn(hb) /\ Fcn(seen) /\ Fcn(call) /\ Fcn(cur) /\ Fcn(fin) /\ Fcn(err)
  BY Zenon DEF TypeOK
<1> USE <1>0 DEF AckIn, Goto, Done, managerVars, jobVars, LocalIn, CallIn,
                 Managing, MuHeld, FinalKinds, NoCall
<1>1. CASE DbExec(w)
  BY <1>1, ExecEffect, Zenon DEF DbExec, history
<1>2. CASE ClaimStart(w)
  BY <1>2, Zenon DEF ClaimStart, Send
<1>3. CASE ClaimReturn(w)
  BY <1>3, Zenon DEF ClaimReturn, NoCall
<1>4. CASE ClaimEmpty(w)
  BY <1>4, Zenon DEF ClaimEmpty, LeaveBatch, NoCall, NoFin, NoLedger
<1>5. CASE ClaimCancelled(w)
  BY <1>5, Zenon DEF ClaimCancelled, Send
<1>6. CASE ClaimFail(w)
  BY <1>6, Zenon DEF ClaimFail, Die, GiveUp, LeaveBatch, NoCall, NoFin, NoLedger
<1>7. CASE CleanupReturn(w)
  BY <1>7, ZenonT(60) DEF CleanupReturn, Die, GiveUp, LeaveBatch, NoCall, NoFin, NoLedger
<1>8. CASE HbTick(w)
  BY <1>8, HbTickEffect
<1>9. CASE HbExtended(w)
  BY <1>9, DoneEffect, Zenon DEF HbExtended, history
<1>10. CASE HbFail(w)
  BY <1>10, DoneEffect, Zenon DEF HbFail, history
<1>11. CASE AdmitRefused(w)
  BY <1>11, Zenon DEF AdmitRefused
<1>12. CASE AdmitExtended(w)
  BY <1>12, Zenon DEF AdmitExtended, NoCall, Start
<1>13. CASE AdmitFail(w)
  BY <1>13, Zenon DEF AdmitFail, GiveUp, NoCall
<1>14. CASE HandlerCancelled(w)
  BY <1>14, Zenon DEF HandlerCancelled
<1>15. CASE HandlerExit(w)
  BY <1>15, Zenon DEF HandlerExit
<1>16. CASE FinalizeTimeout(w)
  BY <1>16, ZenonT(60) DEF FinalizeTimeout, FinalError
<1>17. CASE FinalizeLocked(w)
  <2>1. /\ UNCHANGED <<tok, cur, fin, succeeded>> /\ pc[w] = "finalizing"
        /\ \/ pc'[w] = "forgetting" /\ UNCHANGED call
           \/ \E ids, until : Send(w, "extend", tok[w], ids, until)
           \/ /\ pc'[w] = "finalCalling"
              /\ \E until : Send(w, fin[w].kind, tok[w], {cur[w]}, until)
    BY <1>17, FinalizeEffect, Zenon
  <2>2. hb[w] # "call" /\ call[w].phase = "none"
    BY <1>17, ZenonT(60) DEF FinalizeLocked
  <2> QED
    BY <2>1, <2>2, SendEffect
<1>18. CASE FinalExtended(w)
  <2>1. /\ UNCHANGED <<tok, cur, fin, succeeded>> /\ pc[w] = "finalExtending"
        /\ pc'[w] = "finalCalling"
        /\ \E until : Send(w, fin[w].kind, tok[w], {cur[w]}, until)
    BY <1>18, Zenon DEF FinalExtended, SendFinal, history
  <2> QED
    BY <2>1, SendEffect
<1>19. CASE FinalExtendFail(w)
  BY <1>19, Zenon DEF FinalExtendFail, FinalError, GiveUp, NoCall
<1>20. CASE FinalConfirmed(w)
  BY <1>20, Zenon DEF FinalConfirmed, NoCall, NoFin, NoLedger, Remove
<1>21. CASE FinalFail(w)
  BY <1>21, Zenon DEF FinalFail, FinalError, GiveUp, NoCall
<1>22. CASE Forget(w)
  BY <1>22, ZenonT(60) DEF Forget, NoFin, NoLedger, Remove
<1>23. CASE Stop(w)
  BY <1>23 DEF Stop, Conclude, Die, LeaveBatch, NoFin, NoLedger, Send
<1>24. CASE Released(w)
  BY <1>24, Zenon DEF Released, Conclude, Die, LeaveBatch, NoCall, NoFin, NoLedger
<1>25. CASE ReleaseFail(w)
  BY <1>25, Zenon DEF ReleaseFail, Conclude, Die, GiveUp, LeaveBatch, NoCall, NoFin,
               NoLedger
<1>26. CASE Unwind(w)
  BY <1>26, Zenon DEF Unwind, LeaveBatch, NoFin, NoLedger
<1>27. CASE WorkerExit(w)
  BY <1>27, ZenonT(60) DEF WorkerExit
<1>28. ASSUME NEW j \in Out(w), Admit(w, j) PROVE AckIn(w)'
  BY <1>28, SMTT(60) DEF Admit, Start, Send, Out
<1>29. ASSUME NEW o \in Outcomes, NEW d \in Delays, HandlerReturn(w, o, d)
       PROVE  AckIn(w)'
  BY <1>29 DEF HandlerReturn, Finalize
<1> QED
  BY <1>1, <1>2, <1>3, <1>4, <1>5, <1>6, <1>7, <1>8, <1>9, <1>10, <1>11,
     <1>12, <1>13, <1>14, <1>15, <1>16, <1>17, <1>18, <1>19, <1>20, <1>21,
     <1>22, <1>23, <1>24, <1>25, <1>26, <1>27, <1>28, <1>29, ZenonT(60) DEF WorkerStep

\* Every step of w keeps the cached bound and the tail of the batch.
LEMMA BoundStep ==
    ASSUME TypeOK, NEW w \in Workers, LocalIn(w), CallIn(w), BoundIn(w),
           WorkerStep(w)
    PROVE  BoundIn(w)'
<1> DEFINE Fcn(f) == f = [u \in Workers |-> f[u]]
<1>0. /\ Fcn(pc) /\ Fcn(tok) /\ Fcn(ledger) /\ Fcn(earliest) /\ Fcn(ctx)
      /\ Fcn(hb) /\ Fcn(seen) /\ Fcn(call) /\ Fcn(cur) /\ Fcn(fin) /\ Fcn(err)
  BY Zenon DEF TypeOK
<1> USE <1>0 DEF BoundIn, Goto, Done, managerVars, jobVars, LocalIn, CallIn,
                 Managing, MuHeld, FinalKinds, NoCall, Low
<1>1. CASE DbExec(w)
  BY <1>1, ExecEffect, Zenon DEF DbExec
<1>2. CASE ClaimStart(w)
  BY <1>2, ZenonT(60) DEF ClaimStart, Send
<1>3. CASE ClaimReturn(w)
  <2>1. call[w].req.until \in Nat /\ Now(w) \in Nat /\ Now(w) < call[w].req.until
    BY <1>3, BlockTypes, Zenon DEF ClaimReturn, TypeOK, Request
  <2> QED
    BY <1>3, <2>1 DEF ClaimReturn, NoTime
<1>4. CASE ClaimEmpty(w)
  BY <1>4, Zenon DEF ClaimEmpty, LeaveBatch, NoCall, NoFin, NoLedger
<1>5. CASE ClaimCancelled(w)
  BY <1>5, Zenon DEF ClaimCancelled, Send
<1>6. CASE ClaimFail(w)
  BY <1>6, Zenon DEF ClaimFail, Die, GiveUp, LeaveBatch, NoCall, NoFin, NoLedger
<1>7. CASE CleanupReturn(w)
  BY <1>7, Zenon DEF CleanupReturn, Die, GiveUp, LeaveBatch, NoCall, NoFin, NoLedger
<1>8. CASE HbTick(w)
  <2>1. Low(w, earliest'[w])
    <3>1. Now(w) + ReserveFor \in Nat
      BY BlockTypes, ConstantsAssumption
    <3> HIDE DEF Low
    <3> QED
      BY <1>8, <3>1, HbTickEffect, GatheredBound, Zenon
  <2> QED
    BY <1>8, <2>1, HbTickEffect, ZenonT(60)
<1>9. CASE HbExtended(w)
  <2>1. Low(w, earliest[w])'
    BY <1>9, RecordEffect, Zenon DEF HbExtended
  <2>2. pc'[w] \notin {"finalCalling", "finalExtending"}
    BY <1>9, Zenon DEF HbExtended
  <2> QED
    BY <2>1, <2>2, Zenon
<1>10. CASE HbFail(w)
  BY <1>10, Zenon DEF HbFail, GiveUp, NoCall
<1>11. CASE AdmitRefused(w)
  BY <1>11, Zenon DEF AdmitRefused
<1>12. CASE AdmitExtended(w)
  <2>1. Low(w, earliest[w])'
    BY <1>12, RecordEffect, Zenon DEF AdmitExtended
  <2>2. pc'[w] \notin {"finalCalling", "finalExtending"}
    BY <1>12, Zenon DEF AdmitExtended, Start
  <2> QED
    BY <2>1, <2>2, Zenon
<1>13. CASE AdmitFail(w)
  BY <1>13, Zenon DEF AdmitFail, GiveUp, NoCall
<1>14. CASE HandlerCancelled(w)
  BY <1>14, Zenon DEF HandlerCancelled
<1>15. CASE HandlerExit(w)
  BY <1>15, Zenon DEF HandlerExit
<1>16. CASE FinalizeTimeout(w)
  BY <1>16, Zenon DEF FinalizeTimeout, FinalError
<1>17. CASE FinalizeLocked(w)
  <2> DEFINE required == fin[w].deadline + FinalMargin
             need == NeedExtension(w, required)
             until == required + ReserveFor + 1
  <2>1. required \in Nat /\ until \in Nat /\ until >= required
    <3>1. fin \in [Workers -> [kind: Kinds, avail: Nat, deadline: Nat]]
      BY Zenon DEF TypeOK
    <3>2. fin[w].deadline \in Nat
      BY <3>1
    <3> QED
      BY <3>2, ConstantsAssumption
  <2>2. /\ Low(w, Gathered(w, required))
        /\ \A j \in Jobs \ need : ledger[w][j] # NoTime => ledger[w][j] >= required
    <3> HIDE DEF Low, required
    <3> QED
      BY <2>1, GatheredBound, Zenon
  <2>3. /\ UNCHANGED <<ledger, fin>>
        /\ \/ /\ pc'[w] = "forgetting" /\ UNCHANGED earliest
           \/ /\ pc'[w] = "finalExtending"
              /\ earliest'[w] = Gathered(w, required)
              /\ Send(w, "extend", tok[w], need, until)
           \/ /\ pc'[w] = "finalCalling" /\ need = {}
              /\ earliest'[w] = Gathered(w, required)
    BY <1>17, FinalizeEffect, Zenon
  <2>4. Low(w, earliest[w])'
    BY <2>2, <2>3, ZenonT(60)
  <2>5. pc'[w] = "finalExtending" => call'[w].req.ids = need /\ call'[w].req.until = until
    BY <2>3, SendEffect
  <2> HIDE DEF need, until
  <2> QED
    BY <2>1, <2>2, <2>3, <2>4, <2>5, ZenonT(60)
<1>18. CASE FinalExtended(w)
  <2>1. Low(w, earliest[w])'
    BY <1>18, RecordEffect, Zenon DEF FinalExtended
  <2>2. \A j \in Jobs : ledger'[w][j] = IF j \in call[w].req.ids
                                        THEN call[w].req.until ELSE ledger[w][j]
    BY <1>18, RecordEffect, Zenon DEF FinalExtended
  <2>3. pc[w] = "finalExtending" /\ pc'[w] = "finalCalling" /\ UNCHANGED fin
    BY <1>18, Zenon DEF FinalExtended, SendFinal
  <2> QED
    BY <2>1, <2>2, <2>3, Zenon
<1>19. CASE FinalExtendFail(w)
  BY <1>19, Zenon DEF FinalExtendFail, FinalError, GiveUp, NoCall
<1>20. CASE FinalConfirmed(w)
  <2>1. Low(w, earliest[w])'
    BY <1>20, RemoveEffect, Zenon DEF FinalConfirmed, Busy
  <2>2. pc'[w] \notin {"finalCalling", "finalExtending"}
    BY <1>20, Zenon DEF FinalConfirmed
  <2> QED
    BY <2>1, <2>2, Zenon
<1>21. CASE FinalFail(w)
  BY <1>21, Zenon DEF FinalFail, FinalError, GiveUp, NoCall
<1>22. CASE Forget(w)
  <2>1. Low(w, earliest[w])'
    BY <1>22, RemoveEffect, Zenon DEF Forget, Busy
  <2>2. pc'[w] \notin {"finalCalling", "finalExtending"}
    BY <1>22, ZenonT(60) DEF Forget
  <2> QED
    BY <2>1, <2>2, Zenon
<1>23. CASE Stop(w)
  BY <1>23 DEF Stop, Conclude, Die, LeaveBatch, NoFin, NoLedger, Send
<1>24. CASE Released(w)
  BY <1>24, Zenon DEF Released, Conclude, Die, LeaveBatch, NoCall, NoFin, NoLedger
<1>25. CASE ReleaseFail(w)
  BY <1>25, Zenon DEF ReleaseFail, Conclude, Die, GiveUp, LeaveBatch, NoCall, NoFin,
               NoLedger
<1>26. CASE Unwind(w)
  BY <1>26, Zenon DEF Unwind, LeaveBatch, NoFin, NoLedger
<1>27. CASE WorkerExit(w)
  BY <1>27, Zenon DEF WorkerExit
<1>28. ASSUME NEW j \in Out(w), Admit(w, j) PROVE BoundIn(w)'
  <2>1. Low(w, earliest'[w])
    <3>1. Now(w) + ReserveFor \in Nat
      BY BlockTypes, ConstantsAssumption
    <3>2. earliest'[w] \in {Checked(w), Gathered(w, Now(w) + ReserveFor)}
      BY <1>28, Zenon DEF Admit
    <3> HIDE DEF Low
    <3> QED
      BY <3>1, <3>2, GatheredBound, ZenonT(60)
  <2>2. pc'[w] \notin {"finalCalling", "finalExtending"} /\ UNCHANGED ledger
    BY <1>28, Zenon DEF Admit, Start
  <2> QED
    BY <2>1, <2>2, Zenon
<1>29. ASSUME NEW o \in Outcomes, NEW d \in Delays, HandlerReturn(w, o, d)
       PROVE  BoundIn(w)'
  BY <1>29, Zenon DEF HandlerReturn, Finalize
<1> QED
  BY <1>1, <1>2, <1>3, <1>4, <1>5, <1>6, <1>7, <1>8, <1>9, <1>10, <1>11,
     <1>12, <1>13, <1>14, <1>15, <1>16, <1>17, <1>18, <1>19, <1>20, <1>21,
     <1>22, <1>23, <1>24, <1>25, <1>26, <1>27, <1>28, <1>29, ZenonT(60) DEF WorkerStep

\* Every step of w keeps late statements of its own harmless.
LEMMA OrphanStep ==
    ASSUME TypeOK, NEW w \in Workers, LocalIn(w), CallIn(w), OrphanIn(w),
           TokenIn, WorkerStep(w)
    PROVE  OrphanIn(w)'
<1> DEFINE Fcn(f) == f = [u \in Workers |-> f[u]]
<1>0. /\ Fcn(pc) /\ Fcn(tok) /\ Fcn(ledger) /\ Fcn(earliest) /\ Fcn(ctx)
      /\ Fcn(hb) /\ Fcn(seen) /\ Fcn(call) /\ Fcn(cur) /\ Fcn(fin) /\ Fcn(err)
  BY Zenon DEF TypeOK
<1>u. \A r \in orphans : r.tok # NoToken
  BY DEF TokenIn, TypeOK, Request, NoToken
<1> USE <1>0, <1>u DEF OrphanIn, Goto, Done, managerVars, jobVars, LocalIn,
                       CallIn, Managing, MuHeld, FinalKinds, NoCall
<1>1. CASE DbExec(w)
  BY <1>1, ZenonT(60) DEF DbExec
<1>2. CASE ClaimStart(w)
  <2>1. tok'[w] = nextTok /\ UNCHANGED orphans
    BY <1>2, Zenon DEF ClaimStart, TypeOK
  <2>2. \A r \in orphans : r.tok # nextTok
    BY DEF TokenIn, TypeOK, Request
  <2> QED
    BY <2>1, <2>2, Zenon
<1>3. CASE ClaimReturn(w)
  BY <1>3, Zenon DEF ClaimReturn, NoCall
<1>4. CASE ClaimEmpty(w)
  BY <1>4, Zenon DEF ClaimEmpty, LeaveBatch, NoCall, NoFin, NoLedger
<1>5. CASE ClaimCancelled(w)
  BY <1>5, ZenonT(60) DEF ClaimCancelled, Send
<1>6. CASE ClaimFail(w)
  BY <1>6, SMTT(60) DEF ClaimFail, Die, GiveUp, LeaveBatch, NoCall, NoFin, NoLedger
<1>7. CASE CleanupReturn(w)
  BY <1>7 DEF CleanupReturn, Die, GiveUp, LeaveBatch, NoCall, NoFin, NoLedger
<1>8. CASE HbTick(w)
  BY <1>8, HbTickEffect
<1>9. CASE HbExtended(w)
  <2>1. \A j \in Jobs : ledger'[w][j] # NoTime => ledger[w][j] # NoTime
    <3>1. call[w].phase # "none" /\ call[w].req.kind = "extend"
      BY <1>9, Zenon DEF HbExtended, ExtensionHolds
    <3> QED
      BY <1>9, <3>1, RecordEffect, Zenon DEF HbExtended
  <2>2. /\ UNCHANGED <<tok, orphans, ctx, pc, cur>>
        /\ pc'[w] # "claiming"
    BY <1>9, Zenon DEF HbExtended
  <2>3. \A r \in orphans : r.ids \subseteq Jobs
    BY Zenon DEF TypeOK, Request
  <2> QED
    BY <2>1, <2>2, <2>3, Zenon
<1>10. CASE HbFail(w)
  <2>1. ctx'[w] = "lease" /\ UNCHANGED tok
    BY <1>10, Zenon DEF HbFail, FailLease
  <2>2. pc[w] # "claiming" /\ pc'[w] # "claiming"
    BY <1>10, Zenon DEF HbFail, FinalError
  <2> QED
    BY <2>1, <2>2, Zenon
<1>11. CASE AdmitRefused(w)
  <2>1. /\ UNCHANGED <<tok, orphans, ledger>>
        /\ pc[w] = "next" /\ pc'[w] = "stopping"
        /\ UNCHANGED ctx \/ ctx'[w] = "lease"
    BY <1>11, Zenon DEF AdmitRefused, FailLease
  <2> QED
    BY <2>1, Zenon
<1>12. CASE AdmitExtended(w)
  <2>1. \A j \in Jobs : ledger'[w][j] # NoTime => ledger[w][j] # NoTime
    <3>1. call[w].phase # "none" /\ call[w].req.kind = "extend"
      BY <1>12, Zenon DEF AdmitExtended, ExtensionHolds
    <3> QED
      BY <1>12, <3>1, RecordEffect, Zenon DEF AdmitExtended
  <2>2. /\ UNCHANGED <<tok, orphans, ctx>>
        /\ pc[w] \notin {"claiming", "forgetting"} /\ pc'[w] # "claiming"
    BY <1>12, ZenonT(60) DEF AdmitExtended, Start
  <2>3. \A r \in orphans : r.ids \subseteq Jobs
    BY Zenon DEF TypeOK, Request
  <2> QED
    BY <2>1, <2>2, <2>3, Zenon
<1>13. CASE AdmitFail(w)
  <2>1. ctx'[w] = "lease" /\ UNCHANGED tok
    BY <1>13, Zenon DEF AdmitFail, FailLease
  <2>2. pc[w] # "claiming" /\ pc'[w] # "claiming"
    BY <1>13, Zenon DEF AdmitFail, FinalError
  <2> QED
    BY <2>1, <2>2, Zenon
<1>14. CASE HandlerCancelled(w)
  BY <1>14, Zenon DEF HandlerCancelled
<1>15. CASE HandlerExit(w)
  BY <1>15, Zenon DEF HandlerExit
<1>16. CASE FinalizeTimeout(w)
  BY <1>16, Zenon DEF FinalizeTimeout, FinalError
<1>17. CASE FinalizeLocked(w)
  <2>1. /\ UNCHANGED <<tok, orphans, ledger>>
        /\ pc[w] = "finalizing" /\ pc'[w] # "claiming"
        /\ UNCHANGED ctx \/ ctx'[w] = "lease"
    BY <1>17, FinalizeEffect, Zenon
  <2> QED
    BY <2>1, Zenon
<1>18. CASE FinalExtended(w)
  <2>1. \A j \in Jobs : ledger'[w][j] # NoTime => ledger[w][j] # NoTime
    <3>1. call[w].phase # "none" /\ call[w].req.kind = "extend"
      BY <1>18, Zenon DEF FinalExtended, ExtensionHolds
    <3> QED
      BY <1>18, <3>1, RecordEffect, Zenon DEF FinalExtended
  <2>2. /\ UNCHANGED <<tok, orphans, ctx>>
        /\ pc[w] \notin {"claiming", "forgetting"} /\ pc'[w] # "claiming"
    BY <1>18, Zenon DEF FinalExtended, SendFinal
  <2>3. \A r \in orphans : r.ids \subseteq Jobs
    BY Zenon DEF TypeOK, Request
  <2> QED
    BY <2>1, <2>2, <2>3, Zenon
<1>19. CASE FinalExtendFail(w)
  <2>1. ctx'[w] = "lease" /\ UNCHANGED tok
    BY <1>19, Zenon DEF FinalExtendFail, FailLease
  <2>2. pc[w] # "claiming" /\ pc'[w] # "claiming"
    BY <1>19, ZenonT(60) DEF FinalExtendFail, FinalError
  <2> QED
    BY <2>1, <2>2, Zenon
<1>20. CASE FinalConfirmed(w)
  BY <1>20, SMTT(60) DEF FinalConfirmed, NoCall, NoFin, NoLedger, Remove
<1>21. CASE FinalFail(w)
  BY <1>21 DEF FinalFail, FinalError, GiveUp, NoCall
<1>22. CASE Forget(w)
  <2>1. /\ ledger'[w][cur[w]] = NoTime
        /\ \A j \in Jobs \ {cur[w]} : ledger'[w][j] = ledger[w][j]
    BY <1>22, RemoveEffect, Zenon DEF Forget, Busy
  <2>2. UNCHANGED <<tok, orphans, ctx>> /\ pc[w] = "forgetting" /\ pc'[w] # "claiming"
    BY <1>22, ZenonT(60) DEF Forget
  <2>3. \A r \in orphans : r.ids \subseteq Jobs
    BY Zenon DEF TypeOK, Request
  <2> QED
    BY <2>1, <2>2, <2>3
<1>23. CASE Stop(w)
  BY <1>23 DEF Stop, Conclude, Die, LeaveBatch, NoFin, NoLedger, Send
<1>24. CASE Released(w)
  BY <1>24, ZenonT(60) DEF Released, Conclude, Die, LeaveBatch, NoCall, NoFin, NoLedger
<1>25. CASE ReleaseFail(w)
  BY <1>25 DEF ReleaseFail, Conclude, Die, GiveUp, LeaveBatch, NoCall, NoFin,
               NoLedger
<1>26. CASE Unwind(w)
  BY <1>26, Zenon DEF Unwind, LeaveBatch, NoFin, NoLedger
<1>27. CASE WorkerExit(w)
  BY <1>27, Zenon DEF WorkerExit
<1>28. ASSUME NEW j \in Out(w), Admit(w, j) PROVE OrphanIn(w)'
  BY <1>28, Zenon DEF Admit, Start, Send, Out
<1>29. ASSUME NEW o \in Outcomes, NEW d \in Delays, HandlerReturn(w, o, d)
       PROVE  OrphanIn(w)'
  BY <1>29, Zenon DEF HandlerReturn, Finalize
<1> QED
  BY <1>1, <1>2, <1>3, <1>4, <1>5, <1>6, <1>7, <1>8, <1>9, <1>10, <1>11,
     <1>12, <1>13, <1>14, <1>15, <1>16, <1>17, <1>18, <1>19, <1>20, <1>21,
     <1>22, <1>23, <1>24, <1>25, <1>26, <1>27, <1>28, <1>29, ZenonT(60) DEF WorkerStep
=============================================================================
