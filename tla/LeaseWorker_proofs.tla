------------------------- MODULE LeaseWorker_proofs -------------------------
(***************************************************************************)
(* Type correctness of LeaseWorker, and the facts about one step of one    *)
(* worker that the other proof modules build on.                           *)
(***************************************************************************)
EXTENDS LeaseWorker, WellFoundedInduction, TLAPS

\* A nonempty set of naturals has a least element, which Min returns.
LEMMA MinExists ==
    ASSUME NEW S \in SUBSET Nat, S # {}
    PROVE  /\ Min(S) \in S
           /\ \A x \in S : Min(S) <= x
<1> DEFINE R == {ss \in Nat \X Nat : ss[1] < ss[2]}
<1>1. OpToRel(<, Nat) = R
  BY Zenon DEF OpToRel
<1>2. IsWellFoundedOn(R, Nat)
  BY <1>1, NatLessThanWellFounded, Zenon
<1>3. PICK m \in S : \A y \in S : ~(<<y, m>> \in R)
  <2> HIDE DEF R
  <2> QED
    BY <1>2, WFMin, Zenon
<1>4. ASSUME NEW y \in S PROVE m <= y
  <2>1. y \in Nat /\ m \in Nat /\ <<y, m>> \in Nat \X Nat
    BY Zenon
  <2>2. ~(<<y, m>>[1] < <<y, m>>[2])
    BY <1>3, <2>1, Zenon
  <2>3. <<y, m>>[1] = y /\ <<y, m>>[2] = m
    BY Zenon
  <2> QED
    BY <2>1, <2>2, <2>3
<1> QED
  BY <1>4, Zenon DEF Min

\* recomputeEarliestLocked returns a lower bound of the deadlines in force.
LEMMA MinDeadlineBound ==
    ASSUME NEW l \in [Jobs -> Nat]
    PROVE  /\ MinDeadline(l) \in Nat
           /\ \A j \in Jobs : l[j] # NoTime =>
                 NoTime < MinDeadline(l) /\ MinDeadline(l) <= l[j]
<1> DEFINE D == {l[j] : j \in Jobs} \ {NoTime}
<1>1. D \in SUBSET Nat /\ NoTime \notin D
  BY Zenon
<1>2. \A j \in Jobs : l[j] # NoTime => l[j] \in D
  BY Zenon
<1>3. MinDeadline(l) = IF D = {} THEN NoTime ELSE Min(D)
  BY Zenon DEF MinDeadline
<1> HIDE DEF D
<1>4. CASE D = {}
  BY <1>2, <1>3, <1>4 DEF NoTime
<1>5. CASE D # {}
  <2>1. Min(D) \in D /\ \A x \in D : Min(D) <= x
    BY <1>1, <1>5, MinExists, Zenon
  <2>2. MinDeadline(l) = Min(D)
    BY <1>3, <1>5, Zenon
  <2>3. Min(D) \in Nat /\ Min(D) # NoTime
    BY <1>1, <2>1, Zenon
  <2> QED
    BY <1>2, <2>1, <2>2, <2>3 DEF NoTime
<1> QED
  BY <1>4, <1>5, Zenon

\* A request touches rows it names; it gives an attempt back only to a row
\* that has one counted.
LEMMA AffectableSubset ==
    ASSUME NEW t \in Table, NEW r \in Request, NEW n,
           NEW S \in Affectable(t, r, n)
    PROVE  /\ S \subseteq r.ids
           /\ S \subseteq Jobs
           /\ r.kind \in {"release", "defer"} => \A j \in S : t[j].attempts > 0
BY Zenon DEF Affectable, Request, Fenced, Ready, Kinds

\* Every statement maps a table to a table.
LEMMA ApplyType ==
    ASSUME NEW t \in Table, NEW r \in Request, NEW S \in SUBSET Jobs,
           r.kind \in {"release", "defer"} => \A j \in S : t[j].attempts > 0
    PROVE  Apply(t, r, S) \in Table
<1>1. \A j \in Jobs : /\ t[j] \in Row
                      /\ t[j].attempts \in Nat
                      /\ t[j].attempts + 1 \in Nat
                      /\ t[j].attempts > 0 => t[j].attempts - 1 \in Nat
  BY DEF Table, Row
<1>2. r.tok \in Nat /\ r.until \in Nat /\ r.kind \in Kinds
  BY Zenon DEF Request
<1> USE DEF Table, Row, NoToken, NoTime
<1>3. CASE r.kind = "claim"
  <2>1. Reserve(t, S, r.tok, r.until) \in Table
    BY <1>1, <1>2, Zenon DEF Reserve
  <2> QED
    BY <1>3, <2>1, Zenon DEF Apply
<1>4. CASE r.kind = "extend"
  BY <1>2, <1>4, Zenon DEF Apply, ExtendLeases
<1>5. CASE r.kind = "release"
  <2>1. ReleaseUnstarted(t, S) \in Table
    BY <1>1, <1>2, <1>5, Zenon DEF ReleaseUnstarted
  <2> QED
    BY <1>5, <2>1, Zenon DEF Apply
<1>6. CASE r.kind = "retry"
  BY <1>2, <1>6, Zenon DEF Apply, Reschedule
<1>7. CASE r.kind = "defer"
  <2>1. Defer(t, S, r.until) \in Table
    BY <1>1, <1>2, <1>7, Zenon DEF Defer
  <2> QED
    BY <1>7, <2>1, Zenon DEF Apply
<1>8. CASE r.kind \in {"ack", "dlq"}
  BY <1>8, ZenonT(60) DEF Apply, DeleteJobs
<1> QED
  BY <1>2, <1>3, <1>4, <1>5, <1>6, <1>7, <1>8, Zenon DEF Kinds

\* The type of a call.
Calls == [phase: {"none", "sent", "done"}, aff: SUBSET Jobs, req: Request]

\* What the building blocks of the actions do to the types.
LEMMA BlockTypes ==
    ASSUME TypeOK, NEW w \in Workers
    PROVE  /\ Now(w) \in Nat
           /\ Out(w) \subseteq Jobs
           /\ Checked(w) \in Nat
           /\ \A n \in Nat : /\ NeedExtension(w, n) \subseteq Jobs
                             /\ Gathered(w, n) \in Nat
           /\ Extended(w) \in [Jobs -> Nat]
           /\ Unpaused(w) \in [Capabilities -> Nat]
<1> USE ConstantsAssumption DEF TypeOK
<1>1. Now(w) \in Nat
  BY DEF Now
<1>2. Out(w) \subseteq Jobs
  BY Zenon DEF Out
<1>3. ledger[w] \in [Jobs -> Nat] /\ earliest[w] \in Nat
  BY Zenon
<1>4. MinDeadline(ledger[w]) \in Nat
  BY <1>3, MinDeadlineBound, Zenon
<1>5. Checked(w) \in Nat
  BY <1>3, <1>4, Zenon DEF Checked
<1>6. \A n \in Nat : NeedExtension(w, n) \subseteq Jobs
  BY <1>2, Zenon DEF NeedExtension
<1>7. \A n \in Nat : Gathered(w, n) \in Nat
  BY <1>4, <1>5, Zenon DEF Gathered
<1>8. Extended(w) \in [Jobs -> Nat]
  BY DEF Extended, Request
<1>9. Unpaused(w) \in [Capabilities -> Nat]
  <2>1. paused[ServiceOf[w]] \in [Capabilities -> Nat]
    BY Zenon
  <2> QED
    BY <2>1, Zenon DEF Unpaused, NoTime
<1> QED
  BY <1>1, <1>2, <1>5, <1>6, <1>7, <1>8, <1>9, Zenon

\* Sending a statement keeps the types.
LEMMA SendType ==
    ASSUME TypeOK, NEW w \in Workers, NEW kind \in Kinds, NEW token \in Nat,
           NEW ids \in SUBSET Jobs, NEW until \in Nat,
           Send(w, kind, token, ids, until)
    PROVE  call' \in [Workers -> Calls]
<1>1. Now(w) \in Nat
  BY BlockTypes, Zenon
<1>2. [kind |-> kind, tok |-> token, ids |-> ids, now |-> Now(w),
       until |-> until] \in Request
  BY <1>1, Zenon DEF Request
<1> QED
  BY <1>2, Zenon DEF Send, TypeOK, Calls

\* Giving a call up keeps the types.
LEMMA GiveUpType ==
    ASSUME TypeOK, NEW w \in Workers
    PROVE  /\ Done(w) => call' \in [Workers -> Calls]
           /\ GiveUp(w) => call' \in [Workers -> Calls] /\ orphans' \subseteq Request
<1>1. NoCall \in Calls
  BY Zenon DEF NoCall, Calls, Request, Kinds, NoToken
<1>2. call \in [Workers -> Calls] /\ orphans \subseteq Request
  BY Zenon DEF TypeOK, Calls
<1>3. call[w].req \in Request
  BY <1>2, Zenon DEF Calls
<1>4. Done(w) => call' \in [Workers -> Calls]
  BY <1>1, <1>2, Zenon DEF Done
<1> QED
  BY <1>2, <1>3, <1>4, Zenon DEF GiveUp

\* Recording an extension, and removing a job, keep the types.
LEMMA RecordType ==
    ASSUME TypeOK, NEW w \in Workers
    PROVE  /\ RecordExtension(w) => /\ ledger' \in [Workers -> [Jobs -> Nat]]
                                    /\ earliest' \in [Workers -> Nat]
           /\ \A j \in Jobs : Remove(w, j) =>
                 /\ ledger' \in [Workers -> [Jobs -> Nat]]
                 /\ earliest' \in [Workers -> Nat]
<1>1. Extended(w) \in [Jobs -> Nat] /\ MinDeadline(Extended(w)) \in Nat
  BY BlockTypes, MinDeadlineBound, Zenon
<1>2. RecordExtension(w) => /\ ledger' \in [Workers -> [Jobs -> Nat]]
                            /\ earliest' \in [Workers -> Nat]
  BY <1>1 DEF RecordExtension, TypeOK
<1>3. \A j \in Jobs : Remove(w, j) =>
                 /\ ledger' \in [Workers -> [Jobs -> Nat]]
                 /\ earliest' \in [Workers -> Nat]
  BY DEF Remove, TypeOK, NoTime
<1> QED
  BY <1>2, <1>3, Zenon

\* Leaving a batch keeps the types.
LEMMA LeaveType ==
    ASSUME TypeOK, NEW w \in Workers, LeaveBatch(w)
    PROVE  /\ tok' \in [Workers -> Nat]
           /\ ledger' \in [Workers -> [Jobs -> Nat]]
           /\ earliest' \in [Workers -> Nat]
           /\ seen' \in [Workers -> [Jobs -> Nat]]
           /\ cur' \in [Workers -> Jobs \cup {NoJob}]
           /\ ctx' \in [Workers -> {"ok", "lease", "stop"}]
           /\ hb' \in [Workers -> {"off", "on", "call", "exited"}]
           /\ fin' \in [Workers -> [kind: Kinds, avail: Nat, deadline: Nat]]
           /\ err' \in [Workers -> {"none", "drain", "error"}]
BY Zenon DEF TypeOK, LeaveBatch, NoToken, NoTime, NoLedger, NoFin, Kinds

\* Steps at which the worker is busy with one job of its batch.
Busy == {"admitting", "handling", "forgetting", "finalizing",
         "finalExtending", "finalCalling"}

(***************************************************************************)
(* Where a worker is determines what it has: a current job while it is     *)
(* busy with one, a lease token while it claims or works on a batch, an    *)
(* empty ledger and no heartbeat outside a batch; the heartbeat holds the  *)
(* mutex only while the worker does not.                                   *)
(***************************************************************************)
LocalIn(w) ==
    /\ pc[w] \in Busy => cur[w] \in Jobs
    /\ pc[w] \in {"dead", "idle"} <=> tok[w] = NoToken
    /\ hb[w] = "call" => pc[w] \in Managing \ MuHeld
    /\ pc[w] \notin Managing => hb[w] = "off" /\ ledger[w] = NoLedger

\* The same, of every worker.
LocalInv ==
    /\ nextTok > NoToken
    /\ \A w \in Workers : LocalIn(w)

\* Every step keeps the types, given that busy workers have a current job.
LEMMA TypeStep == TypeOK /\ LocalInv /\ [Next]_vars => TypeOK'
<1> SUFFICES ASSUME TypeOK, LocalInv, [Next]_vars PROVE TypeOK'
  BY Zenon
<1> USE ConstantsAssumption DEF TypeOK, tableVars, serviceVars, managerVars,
        jobVars, history, Goto
<1>1. ASSUME NEW w \in Workers, ClaimReturn(w) PROVE TypeOK'
  <2>1. call' \in [Workers -> Calls]
    BY <1>1, GiveUpType, Zenon DEF ClaimReturn
  <2>2. call[w].req.until \in Nat
    BY Zenon DEF Request
  <2>3. ledger' \in [Workers -> [Jobs -> Nat]]
    BY <1>1, <2>2, Zenon DEF ClaimReturn, NoTime
  <2>4. earliest' \in [Workers -> Nat]
    BY <1>1, <2>2, Zenon DEF ClaimReturn
  <2> QED
    BY <1>1, <2>1, <2>3, <2>4, Zenon DEF ClaimReturn, Calls, PCs
<1>2. ASSUME NEW w \in Workers, ClaimEmpty(w) PROVE TypeOK'
  <2>1. call' \in [Workers -> Calls]
    BY <1>2, GiveUpType, Zenon DEF ClaimEmpty
  <2>2. LeaveBatch(w)
    BY <1>2, Zenon DEF ClaimEmpty
  <2> QED
    BY <1>2, <2>1, <2>2, LeaveType, ZenonT(60) DEF ClaimEmpty, PCs, Calls
<1>3. ASSUME NEW w \in Workers, ClaimFail(w) PROVE TypeOK'
  <2>1. call' \in [Workers -> Calls] /\ orphans' \subseteq Request
    BY <1>3, GiveUpType, Zenon DEF ClaimFail
  <2>2. LeaveBatch(w)
    BY <1>3, Zenon DEF ClaimFail
  <2> QED
    BY <1>3, <2>1, <2>2, LeaveType, ZenonT(60) DEF ClaimFail, Die, PCs, Calls
<1>4. ASSUME NEW w \in Workers, CleanupReturn(w) PROVE TypeOK'
  <2>1. call' \in [Workers -> Calls] /\ orphans' \subseteq Request
    BY <1>4, GiveUpType, Zenon DEF CleanupReturn
  <2>2. LeaveBatch(w)
    BY <1>4, Zenon DEF CleanupReturn
  <2> QED
    BY <1>4, <2>1, <2>2, LeaveType, ZenonT(60) DEF CleanupReturn, Die, PCs, Calls
<1>5. ASSUME NEW w \in Workers, HbFail(w) PROVE TypeOK'
  <2>1. call' \in [Workers -> Calls] /\ orphans' \subseteq Request
    BY <1>5, GiveUpType, Zenon DEF HbFail
  <2> QED
    BY <1>5, <2>1, ZenonT(60) DEF HbFail, FailLease, Calls
<1>6. ASSUME NEW w \in Workers, AdmitRefused(w) PROVE TypeOK'
  BY <1>6, ZenonT(60) DEF AdmitRefused, FailLease, PCs
<1>7. ASSUME NEW w \in Workers, AdmitFail(w) PROVE TypeOK'
  <2>1. call' \in [Workers -> Calls] /\ orphans' \subseteq Request
    BY <1>7, GiveUpType, Zenon DEF AdmitFail
  <2> QED
    BY <1>7, <2>1, Zenon DEF AdmitFail, FailLease, PCs, Calls
<1>8. ASSUME NEW w \in Workers, HandlerCancelled(w) PROVE TypeOK'
  BY <1>8, Zenon DEF HandlerCancelled, PCs
<1>9. ASSUME NEW w \in Workers, HandlerExit(w) PROVE TypeOK'
  BY <1>9, Zenon DEF HandlerExit, PCs
<1>10. ASSUME NEW w \in Workers, FinalizeTimeout(w) PROVE TypeOK'
  BY <1>10, Zenon DEF FinalizeTimeout, FinalError, PCs
<1>11. ASSUME NEW w \in Workers, FinalExtendFail(w) PROVE TypeOK'
  <2>1. call' \in [Workers -> Calls] /\ orphans' \subseteq Request
    BY <1>11, GiveUpType, Zenon DEF FinalExtendFail
  <2> QED
    BY <1>11, <2>1, ZenonT(60) DEF FinalExtendFail, FailLease, FinalError, PCs, Calls
<1>12. ASSUME NEW w \in Workers, FinalFail(w) PROVE TypeOK'
  <2>1. call' \in [Workers -> Calls] /\ orphans' \subseteq Request
    BY <1>12, GiveUpType, Zenon DEF FinalFail
  <2> QED
    BY <1>12, <2>1, ZenonT(60) DEF FinalFail, FinalError, PCs, Calls
<1>13. ASSUME NEW w \in Workers, Unwind(w) PROVE TypeOK'
  <2>1. LeaveBatch(w)
    BY <1>13, Zenon DEF Unwind
  <2> QED
    BY <1>13, <2>1, LeaveType, ZenonT(60) DEF Unwind, PCs, Calls
<1>14. ASSUME NEW w \in Workers, WorkerExit(w) PROVE TypeOK'
  BY <1>14, Zenon DEF WorkerExit, PCs
<1>15. ASSUME NEW w \in Workers, ClaimStart(w) PROVE TypeOK'
  <2>1. Unpaused(w) \in [Capabilities -> Nat] /\ Now(w) \in Nat
    BY BlockTypes, Zenon
  <2>2. Now(w) + ReserveFor \in Nat /\ nextTok \in Nat /\ nextTok + 1 \in Nat
    BY <2>1, SMTT(60)
  <2>3. PICK ids \in SUBSET Jobs :
          Send(w, "claim", nextTok, ids, Now(w) + ReserveFor)
    BY <1>15, Zenon DEF ClaimStart
  <2>4. call' \in [Workers -> Calls]
    BY <2>2, <2>3, SendType, ZenonT(60) DEF Kinds
  <2>5. paused' \in [Services -> [Capabilities -> Nat]]
    BY <1>15, <2>1, Zenon DEF ClaimStart
  <2>6. pc' \in [Workers -> PCs] /\ tok' \in [Workers -> Nat]
    BY <1>15, Zenon DEF ClaimStart, PCs
  <2> QED
    BY <1>15, <2>2, <2>4, <2>5, <2>6, Zenon DEF ClaimStart, Calls
<1>16. ASSUME NEW w \in Workers, ClaimCancelled(w) PROVE TypeOK'
  <2>1. Send(w, "release", tok[w], call[w].aff, NoTime)
    BY <1>16, Zenon DEF ClaimCancelled
  <2>2. tok[w] \in Nat /\ call[w].aff \in SUBSET Jobs
    BY Zenon
  <2>3. call' \in [Workers -> Calls]
    BY <2>1, <2>2, SendType, Zenon DEF Kinds, NoTime
  <2> QED
    BY <1>16, <2>3, ZenonT(60) DEF ClaimCancelled, Calls, PCs
<1>17. ASSUME NEW w \in Workers, HbTick(w) PROVE TypeOK'
  <2> DEFINE target == Now(w) + ReserveFor
             need == NeedExtension(w, target)
  <2>1. /\ target \in Nat /\ target + 1 \in Nat
        /\ need \in SUBSET Jobs /\ Gathered(w, target) \in Nat
    BY BlockTypes, SMTT(30)
  <2>2. /\ \/ UNCHANGED call
           \/ Send(w, "extend", tok[w], need, target + 1)
        /\ \/ UNCHANGED earliest
           \/ earliest' = [earliest EXCEPT ![w] = Gathered(w, target)]
    BY <1>17, Zenon DEF HbTick
  <2>3. /\ \/ UNCHANGED hb
           \/ hb' = [hb EXCEPT ![w] = "exited"]
           \/ hb' = [hb EXCEPT ![w] = "call"]
        /\ \/ UNCHANGED ctx
           \/ ctx' = [ctx EXCEPT ![w] = "lease"]
    BY <1>17, Zenon DEF HbTick, FailLease
  <2> HIDE DEF target, need
  <2>4. call' \in [Workers -> Calls]
    <3>1. tok[w] \in Nat /\ call \in [Workers -> Calls]
      BY Zenon DEF Calls
    <3> QED
      BY <2>1, <2>2, <3>1, SendType, ZenonT(60) DEF Kinds
  <2>5. earliest' \in [Workers -> Nat]
    BY <2>1, <2>2, Zenon
  <2>6. hb' \in [Workers -> {"off", "on", "call", "exited"}]
    BY <2>3, Zenon
  <2>7. ctx' \in [Workers -> {"ok", "lease", "stop"}]
    BY <2>3, Zenon
  <2> QED
    BY <1>17, <2>4, <2>5, <2>6, <2>7, ZenonT(60) DEF HbTick, Calls
<1>18. ASSUME NEW w \in Workers, HbExtended(w) PROVE TypeOK'
  <2>1. call' \in [Workers -> Calls]
    BY <1>18, GiveUpType, Zenon DEF HbExtended
  <2>2. ledger' \in [Workers -> [Jobs -> Nat]] /\ earliest' \in [Workers -> Nat]
    BY <1>18, RecordType, Zenon DEF HbExtended
  <2> QED
    BY <1>18, <2>1, <2>2, Zenon DEF HbExtended, Calls
<1>19. ASSUME NEW w \in Workers, NEW j \in Out(w), Admit(w, j) PROVE TypeOK'
  <2> DEFINE target == Now(w) + ReserveFor
             headroom == Now(w) + (ReserveFor \div 3)
             need == IF Checked(w) >= headroom THEN {}
                                               ELSE NeedExtension(w, target)
             bound == IF Checked(w) >= headroom THEN Checked(w)
                                                ELSE Gathered(w, target)
  <2>1. /\ target \in Nat /\ target + 1 \in Nat /\ j \in Jobs
        /\ need \in SUBSET Jobs /\ bound \in Nat
    BY BlockTypes, SMTT(30)
  <2>2. /\ earliest' = [earliest EXCEPT ![w] = bound]
        /\ \/ Start(w, j) /\ UNCHANGED call
           \/ /\ Send(w, "extend", tok[w], need, target + 1)
              /\ cur' = [cur EXCEPT ![w] = j]
              /\ Goto(w, "admitting")
              /\ UNCHANGED started
    BY <1>19, Zenon DEF Admit
  <2> HIDE DEF target, headroom, need, bound
  <2>3. call' \in [Workers -> Calls]
    <3>1. tok[w] \in Nat /\ call \in [Workers -> Calls]
      BY ZenonT(60) DEF Calls
    <3> QED
      BY <2>1, <2>2, <3>1, SendType, Zenon DEF Kinds
  <2>4. earliest' \in [Workers -> Nat]
    BY <2>1, <2>2, Zenon
  <2>5. cur' \in [Workers -> Jobs \cup {NoJob}]
    BY <2>1, <2>2, ZenonT(60) DEF Start
  <2>6. pc' \in [Workers -> PCs]
    BY <2>2, ZenonT(60) DEF Start, PCs
  <2>7. started' \subseteq Jobs \X Nat
    BY <2>1, <2>2 DEF Start
  <2> QED
    BY <1>19, <2>3, <2>4, <2>5, <2>6, <2>7, ZenonT(60) DEF Admit, Calls
<1>20. ASSUME NEW w \in Workers, AdmitExtended(w) PROVE TypeOK'
  <2>1. cur[w] \in Jobs
    BY <1>20, Zenon DEF AdmitExtended, LocalInv, LocalIn, Busy
  <2>2. call' \in [Workers -> Calls]
    BY <1>20, GiveUpType, Zenon DEF AdmitExtended
  <2>3. ledger' \in [Workers -> [Jobs -> Nat]] /\ earliest' \in [Workers -> Nat]
    BY <1>20, RecordType, Zenon DEF AdmitExtended
  <2>4. \/ /\ Goto(w, "stopping") /\ UNCHANGED started
           /\ cur' = [cur EXCEPT ![w] = NoJob]
           /\ err' = [err EXCEPT ![w] = "drain"]
        \/ Start(w, cur[w]) /\ UNCHANGED err
    BY <1>20, Zenon DEF AdmitExtended
  <2>5. pc' \in [Workers -> PCs]
    BY <2>4, ZenonT(60) DEF Start, PCs
  <2>6. cur' \in [Workers -> Jobs \cup {NoJob}]
    BY <2>1, <2>4, ZenonT(60) DEF Start
  <2>7. started' \subseteq Jobs \X Nat
    BY <2>1, <2>4 DEF Start
  <2>8. err' \in [Workers -> {"none", "drain", "error"}]
    BY <2>4, Zenon
  <2> QED
    BY <1>20, <2>2, <2>3, <2>5, <2>6, <2>7, <2>8, Zenon DEF AdmitExtended, Calls
<1>21. ASSUME NEW w \in Workers, NEW o \in Outcomes, NEW d \in Delays,
              HandlerReturn(w, o, d)
       PROVE  TypeOK'
  <2>0. cur[w] \in Jobs
    BY <1>21, Zenon DEF HandlerReturn, LocalInv, LocalIn, Busy
  <2>1. /\ cur[w] \in Jobs /\ Now(w) \in Nat
        /\ Now(w) + d \in Nat /\ Now(w) + FinalTimeout \in Nat
    <3>1. Now(w) \in Nat
      BY BlockTypes, Zenon
    <3>2. d \in Nat /\ FinalTimeout \in Nat
      BY ConstantsAssumption, <1>21, Zenon
    <3> HIDE DEF TypeOK
    <3> QED
      BY <2>0, <3>1, <3>2
  <2>2. /\ \/ \E kind \in {"ack", "dlq", "defer", "retry"},
                 at \in {NoTime, Now(w) + d} : Finalize(w, kind, at)
           \/ Goto(w, "forgetting") /\ UNCHANGED fin
        /\ \/ succeeded' = succeeded \cup {<<cur[w], tok[w]>>}
           \/ UNCHANGED succeeded
        /\ \/ UNCHANGED err
           \/ err' = [err EXCEPT ![w] = IF o = "fail" THEN "none" ELSE "error"]
    <3> HIDE DEF TypeOK
    <3> QED
      BY <1>21, ZenonT(60) DEF HandlerReturn
  <2>3. fin' \in [Workers -> [kind: Kinds, avail: Nat, deadline: Nat]]
    BY <2>1, <2>2, SMTT(30) DEF Finalize, Kinds, NoTime
  <2>4. pc' \in [Workers -> PCs]
    BY <2>2, ZenonT(60) DEF Finalize, PCs
  <2>5. succeeded' \subseteq Jobs \X Nat
    BY <2>1, <2>2
  <2>6. err' \in [Workers -> {"none", "drain", "error"}]
    BY <2>2, ZenonT(60)
  <2> QED
    BY <1>21, <2>3, <2>4, <2>5, <2>6, ZenonT(60) DEF HandlerReturn
<1>22. ASSUME NEW w \in Workers, SendFinal(w), cur[w] \in Jobs
       PROVE  call' \in [Workers -> Calls] /\ pc' \in [Workers -> PCs]
  <2> DEFINE at == IF fin[w].avail > Now(w) THEN fin[w].avail ELSE Now(w)
  <2>1. /\ at \in Nat /\ tok[w] \in Nat
        /\ {cur[w]} \in SUBSET Jobs /\ fin[w].kind \in Kinds
    BY <1>22, BlockTypes, Zenon
  <2>2. Send(w, fin[w].kind, tok[w], {cur[w]}, at)
    BY <1>22, Zenon DEF SendFinal
  <2> HIDE DEF at
  <2>3. call' \in [Workers -> Calls]
    BY <2>1, <2>2, SendType, Zenon
  <2> QED
    BY <1>22, <2>3, Zenon DEF SendFinal, PCs
<1>23. ASSUME NEW w \in Workers, FinalizeLocked(w) PROVE TypeOK'
  <2> DEFINE required == fin[w].deadline + FinalMargin
             need == NeedExtension(w, required)
  <2>1. /\ required \in Nat /\ required + ReserveFor + 1 \in Nat
        /\ need \in SUBSET Jobs /\ Gathered(w, required) \in Nat
    BY BlockTypes, SMTT(30)
  <2>2. cur[w] \in Jobs
    BY <1>23, Zenon DEF FinalizeLocked, LocalInv, LocalIn, Busy
  <2>3. \/ FailLease(w) /\ FinalError(w) /\ UNCHANGED <<earliest, call>>
        \/ /\ earliest' = [earliest EXCEPT ![w] = Gathered(w, required)]
           /\ \/ SendFinal(w)
              \/ /\ Send(w, "extend", tok[w], need, required + ReserveFor + 1)
                 /\ Goto(w, "finalExtending")
           /\ UNCHANGED <<ctx, err>>
    BY <1>23, Zenon DEF FinalizeLocked
  <2> HIDE DEF required, need
  <2>4. call' \in [Workers -> Calls]
    <3>1. tok[w] \in Nat /\ call \in [Workers -> Calls]
      BY Zenon DEF Calls
    <3> QED
      BY <1>22, <2>1, <2>2, <2>3, <3>1, SendType, Zenon DEF Kinds
  <2>5. pc' \in [Workers -> PCs]
    BY <1>22, <2>2, <2>3, Zenon DEF FinalError, PCs
  <2>6. earliest' \in [Workers -> Nat]
    BY <2>1, <2>3, ZenonT(60)
  <2>7. ctx' \in [Workers -> {"ok", "lease", "stop"}]
    BY <2>3, Zenon DEF FailLease
  <2>8. err' \in [Workers -> {"none", "drain", "error"}]
    BY <2>3, Zenon DEF FinalError
  <2> QED
    BY <1>23, <2>4, <2>5, <2>6, <2>7, <2>8, ZenonT(60) DEF FinalizeLocked, Calls
<1>24. ASSUME NEW w \in Workers, FinalExtended(w) PROVE TypeOK'
  <2>1. cur[w] \in Jobs
    BY <1>24, Zenon DEF FinalExtended, LocalInv, LocalIn, Busy
  <2>2. call' \in [Workers -> Calls] /\ pc' \in [Workers -> PCs]
    BY <1>22, <1>24, <2>1, Zenon DEF FinalExtended
  <2>3. ledger' \in [Workers -> [Jobs -> Nat]] /\ earliest' \in [Workers -> Nat]
    BY <1>24, RecordType, Zenon DEF FinalExtended
  <2> QED
    BY <1>24, <2>2, <2>3, Zenon DEF FinalExtended, Calls
<1>25. ASSUME NEW w \in Workers, FinalConfirmed(w) PROVE TypeOK'
  <2>1. cur[w] \in Jobs /\ call[w].req.until \in Nat
    BY <1>25, Zenon DEF FinalConfirmed, LocalInv, LocalIn, Busy, Request
  <2>2. call' \in [Workers -> Calls]
    BY <1>25, GiveUpType, Zenon DEF FinalConfirmed
  <2>3. ledger' \in [Workers -> [Jobs -> Nat]] /\ earliest' \in [Workers -> Nat]
    BY <1>25, <2>1, RecordType, Zenon DEF FinalConfirmed
  <2>4. paused' \in [Services -> [Capabilities -> Nat]]
    <3> DEFINE s == ServiceOf[w]
               c == CapOf[cur[w]]
               n == IF call[w].req.until > paused[s][c] THEN call[w].req.until
                                                        ELSE paused[s][c]
    <3>1. \/ UNCHANGED paused
          \/ paused' = [paused EXCEPT ![s][c] = n]
      BY <1>25, Zenon DEF FinalConfirmed
    <3>2. s \in Services /\ c \in Capabilities
      BY <2>1, ZenonT(60)
    <3>3. n \in Nat
      BY <2>1, <3>2, SMTT(60)
    <3> HIDE DEF s, c, n
    <3>4. [paused[s] EXCEPT ![c] = n] \in [Capabilities -> Nat]
      BY <3>2, <3>3, Zenon
    <3> QED
      BY <3>1, <3>2, <3>4, Zenon
  <2> QED
    BY <1>25, <2>2, <2>3, <2>4, Zenon DEF FinalConfirmed, Calls, NoFin, Kinds, PCs
<1>26. ASSUME NEW w \in Workers, Forget(w) PROVE TypeOK'
  <2>1. cur[w] \in Jobs
    BY <1>26, Zenon DEF Forget, LocalInv, LocalIn, Busy
  <2>2. ledger' \in [Workers -> [Jobs -> Nat]] /\ earliest' \in [Workers -> Nat]
    BY <1>26, <2>1, RecordType, Zenon DEF Forget
  <2> QED
    BY <1>26, <2>2, Zenon DEF Forget, NoFin, Kinds, PCs
<1>27. ASSUME NEW w \in Workers, NEW b, Conclude(w, b)
       PROVE  pc' \in [Workers -> PCs] /\ runc' \in [Services -> BOOLEAN]
  BY <1>27, ZenonT(60) DEF Conclude, Die, PCs
<1>28. ASSUME NEW w \in Workers, Stop(w) PROVE TypeOK'
  <2>1. CASE Conclude(w, TRUE) /\ UNCHANGED call
    <3>1. LeaveBatch(w)
      BY <2>1, Zenon DEF Conclude
    <3> QED
      BY <1>27, <1>28, <2>1, <3>1, LeaveType, ZenonT(60) DEF Stop
  <2>2. CASE /\ Send(w, "release", tok[w], Out(w), NoTime)
             /\ hb' = [hb EXCEPT ![w] = "off"]
             /\ Goto(w, "releasing")
             /\ UNCHANGED <<runc, tok, ledger, earliest, ctx, seen, jobVars>>
    <3>1. tok[w] \in Nat /\ Out(w) \in SUBSET Jobs
      BY BlockTypes, Zenon
    <3>2. call' \in [Workers -> Calls]
      BY <2>2, <3>1, SendType, Zenon DEF Kinds, NoTime
    <3> QED
      BY <1>28, <2>2, <3>2, Zenon DEF Stop, Calls, PCs
  <2> QED
    BY <1>28, <2>1, <2>2, Zenon DEF Stop
<1>29. ASSUME NEW w \in Workers, Released(w) PROVE TypeOK'
  <2>1. LeaveBatch(w) /\ Conclude(w, TRUE)
    BY <1>29, Zenon DEF Released, Conclude
  <2>2. call' \in [Workers -> Calls]
    BY <1>29, GiveUpType, Zenon DEF Released
  <2> QED
    BY <1>27, <1>29, <2>1, <2>2, LeaveType, Zenon DEF Released, Calls
<1>30. ASSUME NEW w \in Workers, ReleaseFail(w) PROVE TypeOK'
  <2>1. LeaveBatch(w) /\ Conclude(w, FALSE)
    BY <1>30, Zenon DEF ReleaseFail, Conclude
  <2>2. call' \in [Workers -> Calls] /\ orphans' \subseteq Request
    BY <1>30, GiveUpType, Zenon DEF ReleaseFail
  <2> QED
    BY <1>27, <1>30, <2>1, <2>2, LeaveType, ZenonT(60) DEF ReleaseFail, Calls
<1>31. ASSUME NEW r \in Request, NEW S \in Affectable(row, r, BatchSize),
              Execute(r, S)
       PROVE  row' \in Table /\ dlq' \subseteq Jobs /\ deferred' \subseteq Jobs \X Nat
  <2>1. row \in Table /\ r.tok \in Nat
    BY Zenon DEF Request
  <2>2. /\ S \subseteq Jobs
        /\ r.kind \in {"release", "defer"} => \A j \in S : row[j].attempts > 0
    BY <2>1, AffectableSubset, Zenon
  <2>3. Apply(row, r, S) \in Table
    BY <2>1, <2>2, ApplyType, ZenonT(60)
  <2> QED
    BY <1>31, <2>1, <2>2, <2>3, Zenon DEF Execute
<1>32. ASSUME NEW w \in Workers, DbExec(w) PROVE TypeOK'
  <2>1. call[w].req \in Request
    BY Zenon
  <2>2. PICK S \in Affectable(row, call[w].req, BatchSize) :
          /\ Execute(call[w].req, S)
          /\ call' = [call EXCEPT ![w] = [call[w] EXCEPT !.phase = "done", !.aff = S]]
          /\ \/ seen' = seen
             \/ seen' = [seen EXCEPT ![w] =
                  [j \in Jobs |-> IF j \in S THEN row[j].attempts + 1 ELSE 0]]
    BY <1>32, ZenonT(60) DEF DbExec
  <2>3. S \subseteq Jobs
    BY <2>1, AffectableSubset, Zenon
  <2>4. row' \in Table /\ dlq' \subseteq Jobs /\ deferred' \subseteq Jobs \X Nat
    BY <1>31, <2>1, <2>2, Zenon
  <2>5. call' \in [Workers -> Calls]
    <3>1. call[w] \in Calls /\ call \in [Workers -> Calls]
      BY Zenon DEF Calls
    <3>2. [call[w] EXCEPT !.phase = "done", !.aff = S] \in Calls
      BY <2>3, <3>1, Zenon DEF Calls
    <3> QED
      BY <2>2, <3>1, <3>2, Zenon
  <2>6. seen' \in [Workers -> [Jobs -> Nat]]
    <3>1. \A j \in Jobs : row[j].attempts + 1 \in Nat
      BY SMTT(60) DEF Table, Row
    <3>2. [j \in Jobs |-> IF j \in S THEN row[j].attempts + 1 ELSE 0]
             \in [Jobs -> Nat]
      BY <3>1, Zenon
    <3> QED
      BY <2>2, <3>2, ZenonT(60)
  <2> QED
    BY <1>32, <2>4, <2>5, <2>6, Zenon DEF DbExec, Calls
<1>33. ASSUME NEW r \in orphans, OrphanExec(r) PROVE TypeOK'
  <2>1. row' \in Table /\ dlq' \subseteq Jobs /\ deferred' \subseteq Jobs \X Nat
    BY <1>31, <1>33, Zenon DEF OrphanExec
  <2> QED
    BY <1>33, <2>1, Zenon DEF OrphanExec
<1>34. ASSUME NEW j \in Jobs, NEW d \in Delays, Put(j, d) PROVE TypeOK'
  <2>1. now + d \in Nat
    BY SMTT(30)
  <2>2. row' \in Table
    BY <1>34, <2>1, ZenonT(60) DEF Put, CreateJob, Table, Row, NoTime, NoToken
  <2> QED
    BY <1>34, <2>2, ZenonT(60) DEF Put
<1>35. CASE Tick
  BY <1>35, SMTT(30) DEF Tick
<1>36. ASSUME NEW s \in Services, HostStep(s) PROVE TypeOK'
  <2>1. CASE CancelRun(s)
    BY <2>1, Zenon DEF CancelRun
  <2>2. CASE BeginDrain(s)
    BY <2>2, Zenon DEF BeginDrain
  <2>3. CASE Run(s)
    <3>1. pc' \in [Workers -> PCs]
      BY <2>3, Zenon DEF Run, PCs
    <3>2. runc' \in [Services -> BOOLEAN]
      BY <2>3, Zenon DEF Run
    <3> QED
      BY <2>3, <3>1, <3>2, Zenon DEF Run
  <2>4. CASE Crash(s)
    <3>1. call' \in [Workers -> Calls]
      <4>1. NoCall \in Calls
        BY Zenon DEF NoCall, Calls, Request, Kinds, NoToken
      <4>2. call \in [Workers -> Calls]
        BY ZenonT(60) DEF Calls
      <4>3. call' = [w \in Workers |-> IF w \in WorkersOf(s) THEN NoCall
                                                              ELSE call[w]]
        BY <2>4, Zenon DEF Crash
      <4> QED
        BY <4>1, <4>2, <4>3, Zenon
    <3>2. orphans' \subseteq Request
      BY <2>4, SMTT(60) DEF Crash, WorkersOf
    <3>3. /\ ledger' \in [Workers -> [Jobs -> Nat]]
          /\ earliest' \in [Workers -> Nat]
          /\ tok' \in [Workers -> Nat]
      BY <2>4, Zenon DEF Crash, NoLedger, NoTime, NoToken
    <3>4. /\ seen' \in [Workers -> [Jobs -> Nat]]
          /\ fin' \in [Workers -> [kind: Kinds, avail: Nat, deadline: Nat]]
          /\ err' \in [Workers -> {"none", "drain", "error"}]
      BY <2>4, Zenon DEF Crash, NoFin, Kinds
    <3>5. /\ pc' \in [Workers -> PCs]
          /\ cur' \in [Workers -> Jobs \cup {NoJob}]
          /\ ctx' \in [Workers -> {"ok", "lease", "stop"}]
          /\ hb' \in [Workers -> {"off", "on", "call", "exited"}]
      BY <2>4, Zenon DEF Crash, PCs
    <3>6. /\ drain' \in [Services -> BOOLEAN]
          /\ runc' \in [Services -> BOOLEAN]
          /\ paused' \in [Services -> [Capabilities -> Nat]]
      BY <2>4, Zenon DEF Crash, NoTime
    <3> QED
      BY <2>4, <3>1, <3>2, <3>3, <3>4, <3>5, <3>6, ZenonT(60) DEF Crash, Calls
  <2> QED
    BY <1>36, <2>1, <2>2, <2>3, <2>4, Zenon DEF HostStep
<1>37. CASE UNCHANGED vars
  BY <1>37, Zenon DEF vars
<1> HIDE DEF TypeOK
<1> QED
  BY <1>1, <1>2, <1>3, <1>4, <1>5, <1>6, <1>7, <1>8, <1>9, <1>10, <1>11,
     <1>12, <1>13, <1>14, <1>15, <1>16, <1>17, <1>18, <1>19, <1>20, <1>21,
     <1>23, <1>24, <1>25, <1>26, <1>28, <1>29, <1>30, <1>32, <1>33, <1>34,
     <1>35, <1>36, <1>37, ZenonT(60)
  DEF Next, WorkerStep

\* The variables of worker v keep their values.
Same(v) ==
    /\ pc'[v] = pc[v] /\ tok'[v] = tok[v]
    /\ ledger'[v] = ledger[v] /\ earliest'[v] = earliest[v]
    /\ ctx'[v] = ctx[v] /\ hb'[v] = hb[v]
    /\ seen'[v] = seen[v] /\ call'[v] = call[v]
    /\ cur'[v] = cur[v] /\ fin'[v] = fin[v] /\ err'[v] = err[v]

\* A step of worker w leaves the variables of every other worker alone.
LEMMA Frame ==
    ASSUME TypeOK, NEW w \in Workers, WorkerStep(w),
           NEW v \in Workers, v # w
    PROVE  Same(v)
<1> DEFINE Fcn(f) == f = [u \in Workers |-> f[u]]
<1>0. /\ Fcn(pc) /\ Fcn(tok) /\ Fcn(ledger) /\ Fcn(earliest) /\ Fcn(ctx)
      /\ Fcn(hb) /\ Fcn(seen) /\ Fcn(call) /\ Fcn(cur) /\ Fcn(fin) /\ Fcn(err)
  BY Zenon DEF TypeOK
<1> USE <1>0 DEF Same, Goto, Done, managerVars, jobVars
<1>1. CASE DbExec(w)
  BY <1>1, Zenon DEF DbExec
<1>2. CASE ClaimStart(w)
  BY <1>2, Zenon DEF ClaimStart, Send
<1>3. CASE ClaimReturn(w)
  BY <1>3, Zenon DEF ClaimReturn
<1>4. CASE ClaimEmpty(w)
  BY <1>4, Zenon DEF ClaimEmpty, LeaveBatch
<1>5. CASE ClaimCancelled(w)
  BY <1>5, Zenon DEF ClaimCancelled, Send
<1>6. CASE ClaimFail(w)
  BY <1>6, Zenon DEF ClaimFail, Die, GiveUp, LeaveBatch
<1>7. CASE CleanupReturn(w)
  BY <1>7, Zenon DEF CleanupReturn, Die, GiveUp, LeaveBatch
<1>8. CASE HbTick(w)
  BY <1>8, Zenon DEF HbTick, FailLease, Send
<1>9. CASE HbExtended(w)
  BY <1>9, Zenon DEF HbExtended, RecordExtension
<1>10. CASE HbFail(w)
  BY <1>10, Zenon DEF HbFail, FailLease, GiveUp
<1>11. CASE AdmitRefused(w)
  BY <1>11, Zenon DEF AdmitRefused, FailLease
<1>12. CASE AdmitExtended(w)
  BY <1>12, Zenon DEF AdmitExtended, RecordExtension, Start
<1>13. CASE AdmitFail(w)
  BY <1>13, Zenon DEF AdmitFail, FailLease, GiveUp
<1>14. CASE HandlerCancelled(w)
  BY <1>14, Zenon DEF HandlerCancelled
<1>15. CASE HandlerExit(w)
  BY <1>15, Zenon DEF HandlerExit
<1>16. CASE FinalizeTimeout(w)
  BY <1>16, Zenon DEF FinalizeTimeout, FinalError
<1>17. CASE FinalizeLocked(w)
  BY <1>17, Zenon DEF FinalizeLocked, FailLease, FinalError, Send, SendFinal
<1>18. CASE FinalExtended(w)
  BY <1>18, Zenon DEF FinalExtended, RecordExtension, Send, SendFinal
<1>19. CASE FinalExtendFail(w)
  BY <1>19, Zenon DEF FinalExtendFail, FailLease, FinalError, GiveUp
<1>20. CASE FinalConfirmed(w)
  BY <1>20, Zenon DEF FinalConfirmed, Remove
<1>21. CASE FinalFail(w)
  BY <1>21, Zenon DEF FinalFail, FinalError, GiveUp
<1>22. CASE Forget(w)
  BY <1>22, Zenon DEF Forget, Remove
<1>23. CASE Stop(w)
  BY <1>23, Zenon DEF Stop, Conclude, Die, LeaveBatch, Send
<1>24. CASE Released(w)
  BY <1>24, Zenon DEF Released, Conclude, Die, LeaveBatch
<1>25. CASE ReleaseFail(w)
  BY <1>25, Zenon DEF ReleaseFail, Conclude, Die, GiveUp, LeaveBatch
<1>26. CASE Unwind(w)
  BY <1>26, Zenon DEF Unwind, LeaveBatch
<1>27. CASE WorkerExit(w)
  BY <1>27, Zenon DEF WorkerExit
<1>28. ASSUME NEW j \in Out(w), Admit(w, j) PROVE Same(v)
  BY <1>28, Zenon DEF Admit, Start, Send
<1>29. ASSUME NEW o \in Outcomes, NEW d \in Delays, HandlerReturn(w, o, d)
       PROVE  Same(v)
  BY <1>29, Zenon DEF HandlerReturn, Finalize
<1> QED
  BY <1>1, <1>2, <1>3, <1>4, <1>5, <1>6, <1>7, <1>8, <1>9, <1>10, <1>11,
     <1>12, <1>13, <1>14, <1>15, <1>16, <1>17, <1>18, <1>19, <1>20, <1>21,
     <1>22, <1>23, <1>24, <1>25, <1>26, <1>27, <1>28, <1>29, ZenonT(60) DEF WorkerStep

\* What a step of a worker does to the variables it shares with the others.
Shared(w) ==
    /\ now' = now
    /\ nextTok' \in {nextTok, nextTok + 1}
    /\ DbExec(w) \/ UNCHANGED tableVars
    /\ started \subseteq started' /\ succeeded \subseteq succeeded'
    /\ orphans' = orphans \/ /\ orphans' = orphans \cup {call[w].req}
                             /\ call[w].phase = "sent"

\* Each action of a worker, in turn.
LEMMA SharedStep ==
    ASSUME NEW w \in Workers, WorkerStep(w)
    PROVE  Shared(w)
<1> USE DEF Shared, tableVars, history
<1>1. CASE DbExec(w)
  BY <1>1, Zenon DEF DbExec
<1>2. CASE ClaimStart(w)
  BY <1>2, Zenon DEF ClaimStart
<1>3. CASE ClaimReturn(w)
  BY <1>3, Zenon DEF ClaimReturn
<1>4. CASE ClaimEmpty(w)
  BY <1>4, ZenonT(60) DEF ClaimEmpty
<1>5. CASE ClaimCancelled(w)
  BY <1>5 DEF ClaimCancelled
<1>6. CASE ClaimFail(w)
  BY <1>6, Zenon DEF ClaimFail, GiveUp
<1>7. CASE CleanupReturn(w)
  BY <1>7, Zenon DEF CleanupReturn, GiveUp
<1>8. CASE HbTick(w)
  BY <1>8, Zenon DEF HbTick
<1>9. CASE HbExtended(w)
  BY <1>9, Zenon DEF HbExtended
<1>10. CASE HbFail(w)
  BY <1>10, Zenon DEF HbFail, GiveUp
<1>11. CASE AdmitRefused(w)
  BY <1>11, Zenon DEF AdmitRefused
<1>12. CASE AdmitExtended(w)
  BY <1>12, Zenon DEF AdmitExtended, Start
<1>13. CASE AdmitFail(w)
  BY <1>13, Zenon DEF AdmitFail, GiveUp
<1>14. CASE HandlerCancelled(w)
  BY <1>14, Zenon DEF HandlerCancelled
<1>15. CASE HandlerExit(w)
  BY <1>15, Zenon DEF HandlerExit
<1>16. CASE FinalizeTimeout(w)
  BY <1>16, Zenon DEF FinalizeTimeout
<1>17. CASE FinalizeLocked(w)
  BY <1>17, Zenon DEF FinalizeLocked
<1>18. CASE FinalExtended(w)
  BY <1>18, Zenon DEF FinalExtended
<1>19. CASE FinalExtendFail(w)
  BY <1>19, Zenon DEF FinalExtendFail, GiveUp
<1>20. CASE FinalConfirmed(w)
  BY <1>20, Zenon DEF FinalConfirmed
<1>21. CASE FinalFail(w)
  BY <1>21, Zenon DEF FinalFail, GiveUp
<1>22. CASE Forget(w)
  BY <1>22, Zenon DEF Forget
<1>23. CASE Stop(w)
  BY <1>23, Zenon DEF Stop
<1>24. CASE Released(w)
  BY <1>24, Zenon DEF Released
<1>25. CASE ReleaseFail(w)
  BY <1>25, Zenon DEF ReleaseFail, GiveUp
<1>26. CASE Unwind(w)
  BY <1>26, Zenon DEF Unwind
<1>27. CASE WorkerExit(w)
  BY <1>27, Zenon DEF WorkerExit
<1>28. ASSUME NEW j \in Out(w), Admit(w, j) PROVE Shared(w)
  BY <1>28, Zenon DEF Admit, Start
<1>29. ASSUME NEW o \in Outcomes, NEW d \in Delays, HandlerReturn(w, o, d)
      PROVE  Shared(w)
  BY <1>29, Zenon DEF HandlerReturn
<1> QED
  BY <1>1, <1>2, <1>3, <1>4, <1>5, <1>6, <1>7, <1>8, <1>9, <1>10, <1>11,
     <1>12, <1>13, <1>14, <1>15, <1>16, <1>17, <1>18, <1>19, <1>20, <1>21,
     <1>22, <1>23, <1>24, <1>25, <1>26, <1>27, <1>28, <1>29, ZenonT(60) DEF WorkerStep

\* A step of worker w keeps its own part of the invariant.
LEMMA LocalStep ==
    ASSUME TypeOK, LocalInv, NEW w \in Workers, WorkerStep(w)
    PROVE  LocalIn(w)'
<1> DEFINE Fcn(f) == f = [u \in Workers |-> f[u]]
<1>0. /\ Fcn(pc) /\ Fcn(tok) /\ Fcn(ledger) /\ Fcn(earliest) /\ Fcn(ctx)
      /\ Fcn(hb) /\ Fcn(seen) /\ Fcn(call) /\ Fcn(cur) /\ Fcn(fin) /\ Fcn(err)
  BY Zenon DEF TypeOK
<1> USE <1>0 DEF LocalIn, Goto, Done, managerVars, jobVars, LocalInv, Busy,
                 NoToken, Managing, MuHeld
<1>1. CASE DbExec(w)
  BY <1>1, Zenon DEF DbExec
<1>2. CASE ClaimStart(w)
  BY <1>2 DEF ClaimStart
<1>3. CASE ClaimReturn(w)
  BY <1>3, Zenon DEF ClaimReturn, NoCall
<1>4. CASE ClaimEmpty(w)
  BY <1>4, Zenon DEF ClaimEmpty, LeaveBatch, NoCall, NoFin, NoLedger
<1>5. CASE ClaimCancelled(w)
  BY <1>5, Zenon DEF ClaimCancelled
<1>6. CASE ClaimFail(w)
  BY <1>6, Zenon DEF ClaimFail, Die, LeaveBatch, NoCall, NoFin, NoLedger
<1>7. CASE CleanupReturn(w)
  BY <1>7, Zenon DEF CleanupReturn, Die, LeaveBatch, NoCall, NoFin, NoLedger
<1>8. CASE HbTick(w)
  BY <1>8, Zenon DEF HbTick
<1>9. CASE HbExtended(w)
  BY <1>9, Zenon DEF HbExtended, NoCall
<1>10. CASE HbFail(w)
  BY <1>10, Zenon DEF HbFail, NoCall
<1>11. CASE AdmitRefused(w)
  BY <1>11, Zenon DEF AdmitRefused
<1>12. CASE AdmitExtended(w)
  BY <1>12, Zenon DEF AdmitExtended, NoCall, Start
<1>13. CASE AdmitFail(w)
  BY <1>13, Zenon DEF AdmitFail, NoCall
<1>14. CASE HandlerCancelled(w)
  BY <1>14, Zenon DEF HandlerCancelled
<1>15. CASE HandlerExit(w)
  BY <1>15, Zenon DEF HandlerExit
<1>16. CASE FinalizeTimeout(w)
  BY <1>16, Zenon DEF FinalizeTimeout, FinalError
<1>17. CASE FinalizeLocked(w)
  BY <1>17, Zenon DEF FinalizeLocked, FinalError, SendFinal
<1>18. CASE FinalExtended(w)
  BY <1>18, Zenon DEF FinalExtended, SendFinal
<1>19. CASE FinalExtendFail(w)
  BY <1>19, Zenon DEF FinalExtendFail, FinalError, NoCall
<1>20. CASE FinalConfirmed(w)
  BY <1>20, Zenon DEF FinalConfirmed, NoCall, NoFin, NoLedger, Remove
<1>21. CASE FinalFail(w)
  BY <1>21, Zenon DEF FinalFail, FinalError, NoCall
<1>22. CASE Forget(w)
  BY <1>22, Zenon DEF Forget, NoFin, NoLedger, Remove
<1>23. CASE Stop(w)
  BY <1>23, ZenonT(60) DEF Stop, Conclude, Die, LeaveBatch, NoFin, NoLedger
<1>24. CASE Released(w)
  BY <1>24, ZenonT(60) DEF Released, Conclude, Die, LeaveBatch, NoCall, NoFin, NoLedger
<1>25. CASE ReleaseFail(w)
  BY <1>25, Zenon DEF ReleaseFail, Conclude, Die, LeaveBatch, NoCall, NoFin, NoLedger
<1>26. CASE Unwind(w)
  BY <1>26, Zenon DEF Unwind, LeaveBatch, NoFin, NoLedger
<1>27. CASE WorkerExit(w)
  BY <1>27, Zenon DEF WorkerExit
<1>28. ASSUME NEW j \in Out(w), Admit(w, j) PROVE LocalIn(w)'
  BY <1>28, Zenon DEF Admit, Start, Send, Out
<1>29. ASSUME NEW o \in Outcomes, NEW d \in Delays, HandlerReturn(w, o, d)
       PROVE  LocalIn(w)'
  BY <1>29, Zenon DEF HandlerReturn, Finalize
<1> QED
  BY <1>1, <1>2, <1>3, <1>4, <1>5, <1>6, <1>7, <1>8, <1>9, <1>10, <1>11,
     <1>12, <1>13, <1>14, <1>15, <1>16, <1>17, <1>18, <1>19, <1>20, <1>21,
     <1>22, <1>23, <1>24, <1>25, <1>26, <1>27, <1>28, <1>29, ZenonT(60) DEF WorkerStep

\* Every step keeps the local invariant of all workers.
LEMMA LocalNext == TypeOK /\ LocalInv /\ [Next]_vars => LocalInv'
<1> SUFFICES ASSUME TypeOK, LocalInv, [Next]_vars PROVE LocalInv'
  BY Zenon
<1>1. ASSUME NEW w \in Workers, WorkerStep(w) PROVE LocalInv'
  <2>1. nextTok' > NoToken
    <3>1. nextTok \in Nat /\ nextTok > NoToken
      BY Zenon DEF TypeOK, LocalInv
    <3>2. nextTok' \in {nextTok, nextTok + 1}
      BY <1>1, SharedStep, Zenon DEF Shared
    <3> QED
      BY <3>1, <3>2 DEF NoToken
  <2>2. ASSUME NEW v \in Workers PROVE LocalIn(v)'
    <3>1. CASE v = w
      BY <1>1, <3>1, LocalStep, Zenon
    <3>2. CASE v # w
      <4>1. Same(v)
        BY <1>1, <3>2, Frame, Zenon
      <4> QED
        BY <4>1, Zenon DEF Same, LocalInv, LocalIn
    <3> QED
      BY <3>1, <3>2, Zenon
  <2> QED
    BY <2>1, <2>2, Zenon DEF LocalInv
<1>2. ASSUME NEW s \in Services, HostStep(s) PROVE LocalInv'
  <2>1. CASE CancelRun(s) \/ BeginDrain(s)
    BY <2>1, Zenon DEF CancelRun, BeginDrain, LocalInv, LocalIn, managerVars, jobVars
  <2>2. CASE Run(s)
    BY <2>2, Zenon DEF Run, LocalInv, LocalIn, managerVars, jobVars, Busy, Managing
  <2>3. CASE Crash(s)
    BY <2>3, Zenon DEF Crash, LocalInv, LocalIn, Busy, Managing
  <2> QED
    BY <1>2, <2>1, <2>2, <2>3, Zenon DEF HostStep
<1>3. CASE \/ Tick
           \/ \E j \in Jobs, d \in Delays : Put(j, d)
           \/ \E r \in orphans : OrphanExec(r)
           \/ UNCHANGED vars
  BY <1>3, Zenon DEF Tick, Put, OrphanExec, vars, LocalInv, LocalIn, managerVars,
              jobVars
<1> QED
  BY <1>1, <1>2, <1>3, Zenon DEF Next

\* The initial state is well typed.
LEMMA InitType == Init => TypeOK /\ LocalInv
<1> SUFFICES ASSUME Init PROVE TypeOK /\ LocalInv
  BY Zenon
<1>1. NoCall \in Calls
  BY Zenon DEF NoCall, Calls, Request, Kinds, NoToken
<1>2. NoFin \in [kind: Kinds, avail: Nat, deadline: Nat]
  BY Zenon DEF NoFin, Kinds
<1>3. row \in Table
  BY Zenon DEF Init, Table, Row, NoRow, NoTime, NoToken
<1>4. TypeOK
  BY <1>1, <1>2, <1>3, Zenon DEF Init, TypeOK, Calls, NoLedger, NoTime, NoToken, PCs
<1>5. LocalInv
  BY DEF Init, LocalInv, LocalIn, Busy, Managing, NoToken
<1> QED
  BY <1>4, <1>5, Zenon

(***************************************************************************)
(* Every reachable state is well typed, for every number of jobs, workers, *)
(* services and capabilities, every clock skew and every lease duration;   *)
(* in particular the attempts counter never falls below zero and no        *)
(* handler is started without a job.                                       *)
(***************************************************************************)
THEOREM TypeCorrect == Spec => []TypeOK
<1>1. TypeOK /\ LocalInv /\ [Next]_vars => (TypeOK /\ LocalInv)'
  BY TypeStep, LocalNext, Zenon
<1> QED
  BY InitType, <1>1, PTL DEF Spec
=============================================================================
