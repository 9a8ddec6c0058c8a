-------------------------- MODULE LeaseSafety_proofs --------------------------
(***************************************************************************)
(* The safety of leases between workers.  Inv is the inductive invariant;  *)
(* time, producers, late statements and hosts keep it as the workers do.   *)
(* The theorems at the end read their property off it.                     *)
(***************************************************************************)
EXTENDS LeasePromise_proofs

\* The invariant: none of its parts is inductive without the others.
Inv ==
    /\ TypeOK /\ LocalInv /\ PartInv /\ TokenIn /\ ClockIn /\ LeaseInv /\ TableIn

\* Time passes: promises expire, none is broken.
LEMMA TickInv ==
    ASSUME Inv, Tick
    PROVE  PartInv' /\ TokenIn' /\ ClockIn' /\ LeaseInv' /\ TableIn'
<1>1. /\ UNCHANGED <<row, dlq, nextTok, orphans, pc, tok, ledger, earliest, ctx, hb,
                     seen, cur, fin, err, call, succeeded>>
      /\ now \in Nat /\ now' = now + 1 /\ MaxOffset \in Nat
  BY ConstantsAssumption, Zenon DEF Inv, TypeOK, Tick, tableVars, managerVars,
                             jobVars, history
<1>2. TokenIn' /\ TableIn'
  BY <1>1, Zenon DEF Inv, TokenIn, TableIn, RemovalJustified
<1>3. PartInv'
  <2>1. ASSUME NEW v \in Workers PROVE Same(v)
    BY <1>1, Zenon DEF Same
  <2> QED
    BY <1>1, <2>1, PartSame, Zenon DEF Inv, PartInv
<1>4. ClockIn'
  <2>1. \A w \in Workers : call[w].req.now \in Nat
    BY Zenon DEF Inv, TypeOK, Request
  <2>2. \A r \in orphans : r.now \in Nat
    BY Zenon DEF Inv, TypeOK, Request
  <2> QED
    <3>1. ClockIn
      BY Zenon DEF Inv
    <3> QED
      BY <1>1, <2>1, <2>2, <3>1, SMTT(60) DEF ClockIn
<1>5. LeaseInv'
  <2>1. ASSUME NEW w \in Workers, NEW j \in Jobs, NEW u \in Nat, Covered(w, j, u)
        PROVE  now' + MaxOffset < u => Holds(w, j)' /\ row'[j].until >= u
    BY <1>1, <2>1 DEF Covered, Holds
  <2>2. \A w \in Workers : /\ ledger[w] \in [Jobs -> Nat] /\ call[w].req.until \in Nat
                           /\ call[w].aff \subseteq Jobs
    BY Zenon DEF Inv, TypeOK, Request
  <2>3. ASSUME NEW w \in Workers PROVE LeaseIn(w)'
    <3>1. LeaseIn(w) /\ \A j \in Jobs : Settling(w, j)' = Settling(w, j)
      BY <1>1, Zenon DEF Inv, LeaseInv, Settling
    <3> QED
      BY <1>1, <2>1, <2>2, <3>1, Zenon DEF LeaseIn, Covered
  <2> QED
    BY <2>3, Zenon DEF LeaseInv
<1> QED
  BY <1>2, <1>3, <1>4, <1>5, Zenon

\* A producer writes only a row that no lease and no removal has touched.
LEMMA PutInv ==
    ASSUME Inv, NEW k \in Jobs, NEW d \in Delays, Put(k, d)
    PROVE  PartInv' /\ TokenIn' /\ ClockIn' /\ LeaseInv' /\ TableIn'
<1>1. /\ UNCHANGED <<dlq, now, nextTok, orphans, pc, tok, ledger, earliest, ctx, hb,
                     seen, cur, fin, err, call, succeeded>>
      /\ row \in Table /\ dlq \subseteq Jobs
  BY Zenon DEF Inv, TypeOK, Put, managerVars, jobVars, history
<1>2. /\ ~row[k].live /\ row[k].tok = NoToken /\ row'[k].live
      /\ \A j \in Jobs : j # k => row'[j] = row[j]
  BY <1>1, Zenon DEF Put, CreateJob, Table
<1>3. TokenIn' /\ ClockIn'
  BY <1>1, Zenon DEF Inv, TokenIn, ClockIn
<1>4. PartInv'
  <2>1. ASSUME NEW v \in Workers PROVE Same(v)
    BY <1>1, Zenon DEF Same
  <2> QED
    BY <1>1, <2>1, PartSame, Zenon DEF Inv, PartInv
<1>5. TableIn'
  BY <1>1, <1>2, Zenon DEF Inv, TableIn, RemovalJustified
<1>6. LeaseInv'
  <2>1. ASSUME NEW w \in Workers, NEW j \in Jobs, NEW u, Covered(w, j, u)
        PROVE  now + MaxOffset < u => Holds(w, j)' /\ row'[j].until >= u
    BY <1>1, <1>2, <2>1, Zenon DEF Covered, Holds
  <2>2. \A w \in Workers : call[w].aff \subseteq Jobs
    BY Zenon DEF Inv, TypeOK
  <2>3. ASSUME NEW w \in Workers PROVE LeaseIn(w)'
    <3>1. LeaseIn(w) /\ \A j \in Jobs : Settling(w, j)' = Settling(w, j)
      BY <1>1, Zenon DEF Inv, LeaseInv, Settling
    <3> QED
      BY <1>1, <2>1, <2>2, <3>1, Zenon DEF LeaseIn, Covered
  <2> QED
    BY <2>3, Zenon DEF LeaseInv
<1> QED
  BY <1>3, <1>4, <1>5, <1>6, Zenon

\* A late statement breaks no promise its worker still relies on.
LEMMA OrphanInv ==
    ASSUME Inv, NEW r \in orphans, OrphanExec(r)
    PROVE  PartInv' /\ TokenIn' /\ ClockIn' /\ LeaseInv' /\ TableIn'
<1>1. /\ UNCHANGED <<now, nextTok, pc, tok, ledger, earliest, ctx, hb, seen,
                     cur, fin, err, call, succeeded>>
      /\ orphans' \subseteq orphans
  BY Zenon DEF OrphanExec, managerVars, jobVars, history
<1>2. PICK S \in Affectable(row, r, BatchSize) : Execute(r, S)
  BY Zenon DEF OrphanExec
<1>3. r \in Request /\ r.tok # NoToken /\ r.now <= now + MaxOffset
  BY DEF Inv, TypeOK, Request, TokenIn, ClockIn, NoToken
<1>4. TokenIn' /\ ClockIn'
  BY <1>1, Zenon DEF Inv, TokenIn, ClockIn
<1>5. PartInv'
  <2>1. ASSUME NEW v \in Workers PROVE Same(v)
    BY <1>1, Zenon DEF Same
  <2> QED
    BY <1>1, <2>1, PartSame, Zenon DEF Inv, PartInv
<1>6. TableIn'
  <2>1. r.kind = "ack" => \A j \in r.ids : <<j, r.tok>> \in succeeded
    BY Zenon DEF Inv, TableIn
  <2> QED
    BY <1>1, <1>2, <1>3, <2>1, TableExec, Zenon DEF Inv
<1>7. LeaseInv'
  <2>1. ASSUME NEW v \in Workers PROVE LeaseIn(v)'
    <3>1. Same(v) /\ row' = Apply(row, r, S)
      BY <1>1, <1>2, Zenon DEF Same, Execute
    <3>2. LeaseIn(v) /\ CallIn(v) /\ OrphanIn(v) /\ TypeOK
      BY Zenon DEF Inv, LeaseInv, PartInv, PartIn
    <3> QED
      BY <1>1, <1>3, <3>1, <3>2, LeaseOther, Zenon
  <2> QED
    BY <2>1, Zenon DEF LeaseInv
<1> QED
  BY <1>4, <1>5, <1>6, <1>7, Zenon

\* Cancelling, draining and starting a service touch no lease; a crash drops
\* the ones of its workers and leaves their statements behind.
LEMMA HostInv ==
    ASSUME Inv, NEW s \in Services, HostStep(s)
    PROVE  PartInv' /\ TokenIn' /\ ClockIn' /\ LeaseInv' /\ TableIn'
<1>1. CASE CancelRun(s) \/ BeginDrain(s) \/ Run(s)
  <2>1. UNCHANGED <<row, dlq, now, nextTok, orphans, tok, ledger, earliest, ctx, hb,
                    cur, fin, call, succeeded>>
    BY <1>1, Zenon DEF CancelRun, BeginDrain, Run, tableVars, managerVars, jobVars,
                history
  <2>2. TokenIn' /\ ClockIn' /\ TableIn'
    BY <2>1, Zenon DEF Inv, TokenIn, ClockIn, TableIn, RemovalJustified
  <2>3. ASSUME NEW w \in Workers PROVE PartIn(w)' /\ LeaseIn(w)'
    <3>1. PartIn(w) /\ LeaseIn(w) /\ LocalIn(w)
      BY Zenon DEF Inv, PartInv, LeaseInv, LocalInv
    <3>2. CASE pc'[w] = pc[w]
      <4>1. CallIn(w)' /\ AckIn(w)' /\ BoundIn(w)' /\ OrphanIn(w)'
        BY <2>1, <3>1, <3>2, ZenonT(60) DEF PartIn, CallIn, AckIn, BoundIn, Low, OrphanIn
      <4>2. LeaseIn(w)'
        BY <2>1, <3>1, <3>2, Zenon DEF LeaseIn, Covered, Holds, Settling
      <4> QED
        BY <4>1, <4>2, Zenon DEF PartIn
    <3>3. CASE pc'[w] # pc[w]
      <4>1. pc[w] = "dead" /\ pc'[w] = "idle"
        BY <1>1, <3>3 DEF CancelRun, BeginDrain, Run, Inv, TypeOK
      <4>2. call[w].phase = "none" /\ ledger[w] = NoLedger
        BY <3>1, <4>1, Zenon DEF PartIn, CallIn, LocalIn, Managing, MuHeld, Inv,
                          TypeOK
      <4> QED
        BY <2>1, <3>1, <4>1, <4>2, Zenon
        DEF PartIn, CallIn, AckIn, BoundIn, Low, OrphanIn,
                                      LeaseIn, NoLedger
    <3> QED
      BY <3>2, <3>3, Zenon
  <2> QED
    BY <2>2, <2>3, Zenon DEF PartInv, LeaseInv
<1>2. CASE Crash(s)
  <2>1. UNCHANGED <<row, dlq, now, nextTok, succeeded>>
    BY <1>2, Zenon DEF Crash, tableVars, history
  <2>2. ASSUME NEW w \in Workers
        PROVE  \/ Same(w) /\ w \notin WorkersOf(s)
               \/ /\ w \in WorkersOf(s) /\ pc'[w] = "dead" /\ tok'[w] = NoToken
                  /\ ledger'[w] = NoLedger /\ call'[w] = NoCall /\ fin'[w] = NoFin
    BY <1>2, Zenon DEF Crash, Same, WorkersOf
  <2>3. ASSUME NEW r \in orphans'
        PROVE  \/ r \in orphans
               \/ \E w \in WorkersOf(s) : r = call[w].req /\ call[w].phase = "sent"
    BY <1>2, Zenon DEF Crash
  <2>4. ASSUME NEW w \in Workers, call[w].phase # "none"
        PROVE  /\ call[w].req.tok = tok[w] /\ tok[w] # NoToken
               /\ \A v \in Workers : tok[v] = tok[w] => v = w
    BY <2>4, OwnToken, Zenon DEF Inv, PartInv, PartIn
  <2>5. TokenIn'
    <3>1. \A w \in Workers : tok[w] \in Nat /\ tok[w] < nextTok
      BY Zenon DEF Inv, TokenIn, TypeOK
    <3>2. \A r \in orphans' : NoToken < r.tok /\ r.tok < nextTok
      BY <2>3, <2>4, <3>1 DEF Inv, TokenIn, NoToken, WorkersOf
    <3>3. nextTok > NoToken /\ \A w \in Workers : tok'[w] \in {tok[w], NoToken}
      BY <2>2, Zenon DEF Same, Inv, TokenIn
    <3>4. nextTok' = nextTok /\ nextTok \in Nat
      BY <2>1, Zenon DEF Inv, TypeOK
    <3>5. \A w \in Workers : tok'[w] < nextTok'
      BY <3>1, <3>3, <3>4, Zenon DEF NoToken
    <3>6. \A w, v \in Workers : tok'[w] # NoToken /\ tok'[w] = tok'[v] => w = v
      BY <3>3, Zenon DEF Inv, TokenIn
    <3> QED
      BY <3>2, <3>3, <3>4, <3>5, <3>6, Zenon DEF TokenIn
  <2>6. ClockIn'
    <3>1. \A r \in orphans' : r.now <= now + MaxOffset
      BY <2>3, Zenon DEF Inv, ClockIn, WorkersOf
    <3> QED
      BY <2>1, <2>2, <3>1, SMTT(30) DEF Inv, ClockIn, Same, NoCall
  <2>7. TableIn'
    <3>1. \A r \in orphans' : r.kind = "ack" => \A j \in r.ids : <<j, r.tok>> \in succeeded
      BY <2>3, ZenonT(60) DEF Inv, TableIn, PartInv, PartIn, AckIn, WorkersOf
    <3> QED
      BY <2>1, <3>1, Zenon DEF Inv, TableIn, RemovalJustified
  <2>8. ASSUME NEW w \in Workers, w \in WorkersOf(s)
        PROVE  PartIn(w)' /\ LeaseIn(w)'
    <3>1. /\ pc'[w] = "dead" /\ tok'[w] = NoToken /\ ledger'[w] = NoLedger
          /\ call'[w] = NoCall
      BY <2>2, <2>8, Zenon
    <3>2. \A r \in orphans' : r.tok # NoToken
      BY <2>5 DEF TokenIn, NoToken, Inv, TypeOK, Request
    <3>3. CallIn(w)' /\ AckIn(w)'
      <4>1. call'[w].phase = "none"
        BY <3>1 DEF NoCall
      <4> QED
        BY <3>1, <4>1, ZenonT(60) DEF CallIn, AckIn
    <3>4. BoundIn(w)' /\ OrphanIn(w)'
      BY <3>1, <3>2, Zenon DEF BoundIn, Low, OrphanIn, NoLedger
    <3>5. LeaseIn(w)'
      <4>1. call'[w].phase = "none" /\ \A j \in Jobs : ledger'[w][j] = NoTime
        BY <3>1 DEF NoCall, NoLedger
      <4> QED
        BY <3>1, <4>1, ZenonT(60) DEF LeaseIn
    <3> QED
      BY <3>3, <3>4, <3>5, Zenon DEF PartIn
  <2>9. ASSUME NEW w \in Workers, w \notin WorkersOf(s)
        PROVE  PartIn(w)' /\ LeaseIn(w)'
    <3>1. Same(w) /\ PartIn(w) /\ LeaseIn(w)
      BY <2>2, <2>9, Zenon DEF Inv, PartInv, LeaseInv
    <3>2. \A r \in orphans' : r \in orphans \/ r.tok # tok[w]
      BY <2>3, <2>4, <2>9 DEF WorkersOf
    <3>3. CallIn(w)' /\ AckIn(w)' /\ BoundIn(w)'
      BY <2>1, <3>1, ZenonT(60) DEF Same, PartIn, CallIn, AckIn, BoundIn, Low
    <3>4. OrphanIn(w)'
      BY <3>1, <3>2, Zenon DEF Same, PartIn, OrphanIn
    <3>5. LeaseIn(w)'
      BY <2>1, <3>1, ZenonT(60) DEF Same, LeaseIn, Covered, Holds, Settling
    <3> QED
      BY <3>3, <3>4, <3>5, Zenon DEF PartIn
  <2> QED
    BY <2>5, <2>6, <2>7, <2>8, <2>9, Zenon DEF PartInv, LeaseInv
<1> QED
  BY <1>1, <1>2, Zenon DEF HostStep

\* The invariant holds initially,
LEMMA InvInit == Init => Inv
<1> SUFFICES ASSUME Init PROVE Inv
  BY Zenon
<1>1. TypeOK /\ LocalInv
  BY InitType, Zenon
<1>2. ASSUME NEW w \in Workers
      PROVE  /\ pc[w] = "idle" /\ call[w] = NoCall /\ ledger[w] = NoLedger
             /\ tok[w] = NoToken
  BY Zenon DEF Init
<1>3. orphans = {} /\ dlq = {} /\ nextTok = 1 /\ \A j \in Jobs : row[j] = NoRow
  BY Zenon DEF Init
<1>4. PartInv
  <2>1. ASSUME NEW w \in Workers PROVE PartIn(w)
    <3>1. call[w].phase = "none" /\ \A j \in Jobs : ledger[w][j] = NoTime
      BY <1>2 DEF NoCall, NoLedger
    <3> QED
      BY <1>2, <1>3, <3>1, ZenonT(60)
      DEF PartIn, CallIn, AckIn, BoundIn, Low, OrphanIn
  <2> QED
    BY <2>1, Zenon DEF PartInv
<1>5. LeaseInv
  <2>1. ASSUME NEW w \in Workers PROVE LeaseIn(w)
    <3>1. call[w].phase = "none" /\ \A j \in Jobs : ledger[w][j] = NoTime
      BY <1>2 DEF NoCall, NoLedger
    <3> QED
      BY <1>2, <3>1, ZenonT(60) DEF LeaseIn
  <2> QED
    BY <2>1, Zenon DEF LeaseInv
<1>6. TokenIn /\ ClockIn
  BY <1>2, <1>3, SMTT(30) DEF TokenIn, ClockIn, NoCall, NoToken
<1>7. TableIn
  BY <1>3 DEF TableIn, RemovalJustified, NoRow
<1> QED
  BY <1>1, <1>4, <1>5, <1>6, <1>7, Zenon DEF Inv

\* every step keeps it,
LEMMA InvNext == Inv /\ [Next]_vars => Inv'
<1> SUFFICES ASSUME Inv, [Next]_vars PROVE Inv'
  BY Zenon
<1>1. TypeOK' /\ LocalInv'
  BY TypeStep, LocalNext, Zenon DEF Inv
<1> DEFINE Rest == PartInv' /\ TokenIn' /\ ClockIn' /\ LeaseInv' /\ TableIn'
<1>2. ASSUME Tick PROVE Rest
  BY <1>2, TickInv, Zenon
<1>3. ASSUME NEW j \in Jobs, NEW d \in Delays, Put(j, d) PROVE Rest
  BY <1>3, PutInv, Zenon
<1>4. ASSUME NEW r \in orphans, OrphanExec(r) PROVE Rest
  BY <1>4, OrphanInv, Zenon
<1>5. ASSUME NEW w \in Workers, WorkerStep(w) PROVE Rest
  <2>1. CallIn(w)
    BY Zenon DEF Inv, PartInv, PartIn
  <2>2. PartInv' /\ TokenIn'
    BY <1>5, <2>1, PartNext, TokenNext, Zenon DEF Inv
  <2>3. ClockIn' /\ LeaseInv' /\ TableIn'
    BY <1>5, ClockNext, LeaseNext, TableNext, Zenon DEF Inv
  <2> QED
    BY <2>2, <2>3, Zenon
<1>6. ASSUME NEW s \in Services, HostStep(s) PROVE Rest
  BY <1>6, HostInv, Zenon
<1>7. ASSUME UNCHANGED vars PROVE Rest
  <2>1. UNCHANGED <<row, dlq, now, nextTok, orphans, pc, tok, ledger, earliest, ctx, hb,
                    seen, cur, fin, err, call, succeeded>>
    BY <1>7, Zenon DEF vars, tableVars, managerVars, jobVars, history
  <2>2. PartInv'
    <3>1. ASSUME NEW v \in Workers PROVE Same(v)
      BY <2>1, Zenon DEF Same
    <3> QED
      BY <2>1, <3>1, PartSame, Zenon DEF Inv, PartInv
  <2>3. TokenIn' /\ ClockIn' /\ TableIn'
    BY <2>1, Zenon DEF Inv, TokenIn, ClockIn, TableIn, RemovalJustified
  <2>4. LeaseInv'
    <3>1. ASSUME NEW v \in Workers PROVE LeaseIn(v)'
      BY <2>1, ZenonT(60) DEF Inv, LeaseInv, LeaseIn, Covered, Holds, Settling
    <3> QED
      BY <3>1, Zenon DEF LeaseInv
  <2> QED
    BY <2>2, <2>3, <2>4, Zenon
<1> HIDE DEF Rest
<1>8. Rest
  BY <1>2, <1>3, <1>4, <1>5, <1>6, <1>7, Zenon DEF Next
<1> QED
  BY <1>1, <1>8, Zenon DEF Inv, Rest

\* and so it always holds.
LEMMA Invariance == Spec => []Inv
BY InvInit, InvNext, PTL DEF Spec

(***************************************************************************)
(* The lease manager never trusts a lease the table does not grant it:     *)
(* LedgerSound holds for every number of workers and services, every skew  *)
(* bounded by MaxOffset, and whatever calls fail, hang or run late.        *)
(***************************************************************************)
THEOREM LedgerIsSound == Spec => []LedgerSound
<1>1. Inv => LedgerSound
  <2> SUFFICES ASSUME Inv, NEW w \in Workers, NEW j \in Jobs, ledger[w][j] # NoTime,
                      ctx[w] # "lease", ledger[w][j] > now + MaxOffset, ~Settling(w, j)
               PROVE  Holds(w, j) /\ row[j].until >= ledger[w][j]
    BY Zenon DEF LedgerSound, Out
  <2>1. Covered(w, j, ledger[w][j])
    BY Zenon DEF Inv, LeaseInv, LeaseIn
  <2>2. now + MaxOffset \in Nat /\ ledger[w][j] \in Nat
    <3>1. now \in Nat /\ ledger \in [Workers -> [Jobs -> Nat]]
      BY Zenon DEF Inv, TypeOK
    <3> QED
      BY <3>1, ConstantsAssumption
  <2> QED
    BY <2>1, <2>2, Zenon DEF Covered
<1> QED
  BY <1>1, Invariance, PTL

(***************************************************************************)
(* At most one handler runs on a job within its lease: two workers cannot  *)
(* both be inside processBatchJob's handler for the same job while both    *)
(* deadlines lie ahead and neither manager has declared its leases lost.   *)
(***************************************************************************)
THEOREM HandlersExclude == Spec => []HandlerExclusion
<1>1. Inv => HandlerExclusion
  <2> SUFFICES ASSUME Inv, NEW w \in Workers, NEW v \in Workers, NEW j \in Jobs,
                      Running(w, j), Running(v, j)
               PROVE  w = v
    BY Zenon DEF HandlerExclusion
  <2>1. ASSUME NEW u \in Workers, Running(u, j)
        PROVE  row[j].tok = tok[u] /\ tok[u] # NoToken
    <3>1. /\ pc[u] = "handling" /\ cur[u] = j /\ ctx[u] # "lease"
          /\ ledger[u][j] > now + MaxOffset
      BY <2>1, Zenon DEF Running
    <3>2. now + MaxOffset \in Nat /\ ledger[u][j] \in Nat
      <4>1. now \in Nat /\ ledger \in [Workers -> [Jobs -> Nat]]
        BY Zenon DEF Inv, TypeOK
      <4> QED
        BY <4>1, ConstantsAssumption
    <3>3. ~Settling(u, j)
      BY <3>1, Zenon DEF Settling, Inv, PartInv, PartIn, CallIn, LocalInv, LocalIn,
                  FinalKinds
    <3>4. Covered(u, j, ledger[u][j])
      BY <3>1, <3>2, <3>3, SMTT(30) DEF Inv, LeaseInv, LeaseIn, NoTime
    <3>5. tok[u] # NoToken
      BY <3>1, Zenon DEF Inv, LocalInv, LocalIn
    <3> QED
      BY <3>1, <3>2, <3>4, <3>5, Zenon DEF Covered, Holds
  <2> QED
    BY <2>1, Zenon DEF Inv, TokenIn
<1> QED
  BY <1>1, Invariance, PTL

(***************************************************************************)
(* No job is lost: a job leaves the jobs table only into jobs_failed or    *)
(* after a handler run under the removing lease returned nil.              *)
(***************************************************************************)
THEOREM RemovalIsJustified == Spec => []RemovalJustified
<1>1. Inv => RemovalJustified
  BY Zenon DEF Inv, TableIn
<1> QED
  BY <1>1, Invariance, PTL

(***************************************************************************)
(* dlqBatch moves a job: it is never in jobs and in jobs_failed at once.   *)
(***************************************************************************)
THEOREM DlqIsExclusive == Spec => []DlqExclusive
<1>1. Inv => DlqExclusive
  BY Zenon DEF Inv, TableIn, DlqExclusive
<1> QED
  BY <1>1, Invariance, PTL

(***************************************************************************)
(* finalize protects the tail: until the budget of an outcome plus the     *)
(* margin is over, the unstarted jobs of the batch stay reserved for it on *)
(* every clock.                                                            *)
(***************************************************************************)
THEOREM TailIsProtected == Spec => []TailProtected
<1>1. Inv => TailProtected
  <2> SUFFICES ASSUME Inv, NEW w \in Workers, pc[w] = "finalCalling", ctx[w] # "lease",
                      now + MaxOffset < fin[w].deadline + FinalMargin,
                      NEW j \in Jobs, ledger[w][j] # NoTime, j # cur[w]
               PROVE  Holds(w, j) /\ row[j].until > now + MaxOffset
    BY Zenon DEF TailProtected, Out
  <2>1. /\ now + MaxOffset \in Nat /\ ledger[w][j] \in Nat
        /\ fin[w].deadline + FinalMargin \in Nat /\ row[j].until \in Nat
    <3>1. /\ now \in Nat /\ ledger \in [Workers -> [Jobs -> Nat]] /\ row \in Table
          /\ fin \in [Workers -> [kind: Kinds, avail: Nat, deadline: Nat]]
      BY Zenon DEF Inv, TypeOK
    <3> QED
      BY <3>1, ConstantsAssumption DEF Table, Row
  <2>2. ledger[w][j] >= fin[w].deadline + FinalMargin
    BY Zenon DEF Inv, PartInv, PartIn, BoundIn
  <2>3. ~Settling(w, j)
    BY Zenon DEF Settling, Inv, PartInv, PartIn, CallIn, LocalInv, LocalIn, MuHeld
  <2>4. Covered(w, j, ledger[w][j])
    BY <2>3, Zenon DEF Inv, LeaseInv, LeaseIn
  <2> QED
    BY <2>1, <2>2, <2>4 DEF Covered
<1> QED
  BY <1>1, Invariance, PTL

(***************************************************************************)
(* The cached earliestUntil never hides an expired lease: it is positive   *)
(* and at most every deadline in the ledger.                               *)
(***************************************************************************)
THEOREM EarliestBounds == Spec => []EarliestIsLowerBound
<1>1. Inv => EarliestIsLowerBound
  BY Zenon DEF Inv, PartInv, PartIn, BoundIn, Low, EarliestIsLowerBound, Out
<1> QED
  BY <1>1, Invariance, PTL
=============================================================================
