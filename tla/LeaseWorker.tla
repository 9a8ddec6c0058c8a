---------------------------- MODULE LeaseWorker ----------------------------
(***************************************************************************)
(* The sequential execution path of an outbox worker: claim a batch of     *)
(* jobs under one lease token, keep the leases alive from a heartbeat, run *)
(* one handler at a time, and finalize every outcome behind the fence of   *)
(* the lease (src/outbox/service_batch.go, service_claim.go, service.go).  *)
(*                                                                         *)
(* Several services, each with its own workers, share one jobs table.      *)
(* Every repository call is two steps, the statement in the database and   *)
(* its answer at the caller; between them time passes and other workers    *)
(* act.  A caller that gives up does not know whether its statement ran:   *)
(* the statement may have run, may be lost, or may run later ("orphans").  *)
(* A crash may fall between any two steps.                                 *)
(*                                                                         *)
(* The lease manager's mutex is not a variable: it is held exactly while   *)
(* the heartbeat has a call in flight (hb[w] = "call") or the worker is at *)
(* a step of MuHeld.                                                       *)
(***************************************************************************)
EXTENDS JobsRepo, FiniteSetsExt

CONSTANTS
    Workers,        \* worker goroutines, of all services
    Services,       \* service instances (processes)
    ServiceOf,      \* ServiceOf[w]: the service worker w belongs to
    Offset,         \* Offset[s]: how far the clock of s runs ahead
    MaxOffset,      \* bound on Offset
    Capabilities,   \* registered (name, schemaVersion) pairs
    CapOf,          \* CapOf[j]: the capability of job j
    MaxAttempts,    \* MaxAttempts[c]: handler.MaxAttempts() of capability c
    BatchSize,      \* reservationBatchSize
    ReserveFor,     \* lease duration; the heartbeat period is a third of it
    FinalTimeout,   \* leaseFinalizationTimeout
    FinalMargin,    \* batchFinalizationMargin
    Delays,         \* retry and defer delays handlers ask for
    Outcomes,       \* handler outcomes of this instance
    HostEvents,     \* what the host does to a service in this instance
    MaxTime, MaxToken, MaxOrphans,   \* bounds of the instance
    NoJob

AllOutcomes ==
    {"ok", "permanent", "defer", "retry", "fail", "policyerr", "goexit"}

ASSUME ConstantsAssumption ==
    /\ ServiceOf \in [Workers -> Services]
    /\ Offset \in [Services -> Nat]
    /\ MaxOffset \in Nat
    /\ \A s \in Services : Offset[s] <= MaxOffset
    /\ CapOf \in [Jobs -> Capabilities]
    /\ MaxAttempts \in [Capabilities -> Nat]
    /\ BatchSize \in Nat \ {0}
    /\ ReserveFor \in Nat \ {0}
    /\ FinalTimeout \in Nat \ {0}
    /\ FinalMargin \in Nat
    /\ Delays \subseteq Nat
    /\ Outcomes \subseteq AllOutcomes
    /\ HostEvents \subseteq {"cancel", "drain", "crash"}
    /\ MaxTime \in Nat /\ MaxToken \in Nat /\ MaxOrphans \in Nat
    /\ NoJob \notin Jobs

VARIABLES
    row,        \* the active jobs table
    dlq,        \* jobs with a row in jobs_failed
    now,        \* global time
    nextTok,    \* the next unused lease token
    orphans,    \* requests whose caller gave up and that may still run
    drain,      \* drain[s]: the drain channel of s is closed
    runc,       \* runc[s]: the Run context of s is cancelled
    paused,     \* paused[s][c]: batchPaused, NoTime when absent
    pc,         \* pc[w]: where worker w is
    tok,        \* tok[w]: lease token of the batch w works on
    ledger,     \* ledger[w][j]: manager.outstanding, NoTime when absent
    earliest,   \* earliest[w]: manager.earliestUntil
    seen,       \* seen[w][j]: job.Attempts as the claim returned it
    cur,        \* cur[w]: the job being processed
    ctx,        \* ctx[w]: "ok", "lease" (failLeaseLocked) or "stop"
    hb,         \* hb[w]: heartbeat goroutine: "off", "on", "call", "exited"
    fin,        \* fin[w]: the finalization chosen for cur[w]
    err,        \* err[w]: processErr
    call,       \* call[w]: the repository call in flight
    started,    \* history: <<j, t>>: a handler ran on j under token t
    succeeded,  \* history: <<j, t>>: that handler returned nil
    deferred    \* history: <<j, t>>: that run was deferred in the table

tableVars   == <<row, dlq, deferred>>
serviceVars == <<drain, runc, paused>>
managerVars == <<ledger, earliest, ctx, hb>>
jobVars     == <<cur, fin, err>>
history     == <<started, succeeded>>
vars == <<tableVars, now, nextTok, orphans, serviceVars, pc, tok, managerVars,
          seen, jobVars, call, history>>

-----------------------------------------------------------------------------
Now(w) == now + Offset[ServiceOf[w]]

Out(w) == {j \in Jobs : ledger[w][j] # NoTime}

\* Steps of the worker that hold the lease manager's mutex.
MuHeld == {"admitting", "finalExtending", "finalCalling", "releasing"}

\* Steps of the worker during which its lease manager exists.
Managing == {"next", "admitting", "handling", "forgetting", "finalizing",
             "finalExtending", "finalCalling", "stopping", "releasing",
             "unwinding"}

PCs == {"dead", "idle", "claiming", "cleanup",
        "next", "admitting", "handling", "forgetting", "finalizing",
        "finalExtending", "finalCalling", "stopping", "releasing",
        "unwinding"}

NoCall == [phase |-> "none", aff |-> {},
           req |-> [kind |-> "claim", tok |-> NoToken, ids |-> {},
                    now |-> 0, until |-> 0]]

NoFin == [kind |-> "ack", avail |-> 0, deadline |-> 0]

NoLedger == [j \in Jobs |-> NoTime]

\* The batch context of w is cancelled, by its own manager or through Run's.
Cancelled(w) == ctx[w] # "ok" \/ runc[ServiceOf[w]]

\* recomputeEarliestLocked on ledger l: the least deadline, zero if none.
MinDeadline(l) ==
    LET D == {l[j] : j \in Jobs} \ {NoTime}
    IN  IF D = {} THEN NoTime ELSE Min(D)

\* checkLeasesLocked: a deadline is only looked at past the cached bound.
LeaseExpired(w) ==
    /\ Now(w) >= earliest[w]
    /\ \E j \in Out(w) : ledger[w][j] <= Now(w)

\* checkLeasesLocked, no lease expired: the cached bound afterwards.
Checked(w) == IF Now(w) < earliest[w] THEN earliest[w] ELSE MinDeadline(ledger[w])

\* Mutant of NeedExtension: only the job being processed is extended.
NeedCurrent(w, required) == {j \in Out(w) \cap {cur[w]} : ledger[w][j] < required}

\* The rows ensureLeasesLocked must extend to reach requiredUntil.
NeedExtension(w, required) ==
    IF Checked(w) >= required THEN {}
    ELSE {j \in Out(w) : ledger[w][j] < required}

\* The cached bound after ensureLeasesLocked has looked for those rows.
Gathered(w, required) ==
    IF Checked(w) >= required THEN Checked(w) ELSE MinDeadline(ledger[w])

Send(w, kind, token, ids, until) ==
    call' = [call EXCEPT ![w] =
               [phase |-> "sent", aff |-> {},
                req |-> [kind |-> kind, tok |-> token, ids |-> ids,
                         now |-> Now(w), until |-> until]]]

\* The statement and its answer are over for the caller.
Done(w) == call' = [call EXCEPT ![w] = NoCall]

\* The caller gives up; a statement that has not run yet may still run later.
GiveUp(w) ==
    /\ Done(w)
    /\ \/ orphans' = orphans
       \/ /\ call[w].phase = "sent"
          /\ Cardinality(orphans) < MaxOrphans
          /\ orphans' = orphans \cup {call[w].req}

Goto(w, label) == pc' = [pc EXCEPT ![w] = label]

Die(w) ==
    /\ Goto(w, "dead")
    /\ runc' = [runc EXCEPT ![ServiceOf[w]] = TRUE]

\* failLeaseLocked: the heartbeat's error is recorded, the batch cancelled.
FailLease(w) == ctx' = [ctx EXCEPT ![w] = "lease"]

\* Mutant of ExtensionHolds: the number of extended rows is not compared.
ExtensionAnswered(w) == call[w].phase = "done" /\ Now(w) < earliest[w]

\* The extension in flight reached every row before the earliest deadline.
ExtensionHolds(w) ==
    /\ call[w].phase = "done"
    /\ call[w].aff = call[w].req.ids
    /\ Now(w) < earliest[w]

Extended(w) ==
    [j \in Jobs |-> IF j \in call[w].req.ids THEN call[w].req.until
                                              ELSE ledger[w][j]]

RecordExtension(w) ==
    /\ ledger' = [ledger EXCEPT ![w] = Extended(w)]
    /\ earliest' = [earliest EXCEPT ![w] = MinDeadline(Extended(w))]

LeaveBatch(w) ==
    /\ tok' = [tok EXCEPT ![w] = NoToken]
    /\ ledger' = [ledger EXCEPT ![w] = NoLedger]
    /\ earliest' = [earliest EXCEPT ![w] = NoTime]
    /\ seen' = [seen EXCEPT ![w] = [j \in Jobs |-> 0]]
    /\ cur' = [cur EXCEPT ![w] = NoJob]
    /\ ctx' = [ctx EXCEPT ![w] = "ok"]
    /\ hb' = [hb EXCEPT ![w] = "off"]
    /\ fin' = [fin EXCEPT ![w] = NoFin]
    /\ err' = [err EXCEPT ![w] = "none"]

-----------------------------------------------------------------------------
Init ==
    /\ row = [j \in Jobs |-> NoRow]
    /\ dlq = {}
    /\ now = 1
    /\ nextTok = 1
    /\ orphans = {}
    /\ drain = [s \in Services |-> FALSE]
    /\ runc = [s \in Services |-> FALSE]
    /\ paused = [s \in Services |-> [c \in Capabilities |-> NoTime]]
    /\ pc = [w \in Workers |-> "idle"]
    /\ tok = [w \in Workers |-> NoToken]
    /\ ledger = [w \in Workers |-> NoLedger]
    /\ earliest = [w \in Workers |-> NoTime]
    /\ seen = [w \in Workers |-> [j \in Jobs |-> 0]]
    /\ cur = [w \in Workers |-> NoJob]
    /\ ctx = [w \in Workers |-> "ok"]
    /\ hb = [w \in Workers |-> "off"]
    /\ fin = [w \in Workers |-> NoFin]
    /\ err = [w \in Workers |-> "none"]
    /\ call = [w \in Workers |-> NoCall]
    /\ started = {} /\ succeeded = {} /\ deferred = {}

-----------------------------------------------------------------------------
(* The environment: producers, time, and the database. *)

\* A producer enqueues job j, to be available after delay d.
Put(j, d) ==
    /\ ~row[j].live /\ row[j].tok = NoToken
    /\ row' = CreateJob(row, j, now + d)
    /\ UNCHANGED <<dlq, deferred, now, nextTok, orphans, serviceVars, pc, tok,
                   managerVars, seen, jobVars, call, history>>

Tick ==
    /\ now < MaxTime
    /\ now' = now + 1
    /\ UNCHANGED <<tableVars, nextTok, orphans, serviceVars, pc, tok,
                   managerVars, seen, jobVars, call, history>>

\* Mutant of Execute: the jobs_failed rows stay when the delete matches none.
ExecuteApart(r, S) ==
    /\ row' = Apply(row, r, S)
    /\ dlq' = IF r.kind = "dlq" THEN dlq \cup r.ids ELSE dlq
    /\ deferred' = IF r.kind = "defer" THEN deferred \cup (S \X {r.tok})
                                       ELSE deferred

\* The database runs request r on the rows S.  A dead-letter transaction
\* inserts the jobs_failed rows and deletes the jobs rows, or does neither.
Execute(r, S) ==
    /\ row' = Apply(row, r, S)
    /\ dlq' = IF r.kind = "dlq" THEN dlq \cup S ELSE dlq
    /\ deferred' = IF r.kind = "defer" THEN deferred \cup (S \X {r.tok})
                                       ELSE deferred

DbExec(w) ==
    /\ call[w].phase = "sent"
    /\ \E S \in Affectable(row, call[w].req, BatchSize) :
         /\ Execute(call[w].req, S)
         /\ call' = [call EXCEPT ![w] = [@ EXCEPT !.phase = "done", !.aff = S]]
         /\ seen' = IF call[w].req.kind = "claim"
                    THEN [seen EXCEPT ![w] = [j \in Jobs |->
                            IF j \in S THEN row[j].attempts + 1 ELSE 0]]
                    ELSE seen
    /\ UNCHANGED <<now, nextTok, orphans, serviceVars, pc, tok, managerVars,
                   jobVars, history>>

\* A statement whose caller has given up runs after all.
OrphanExec(r) ==
    /\ \E S \in Affectable(row, r, BatchSize) : Execute(r, S)
    /\ orphans' = orphans \ {r}
    /\ UNCHANGED <<now, nextTok, serviceVars, pc, tok, managerVars, seen,
                   jobVars, call, history>>

-----------------------------------------------------------------------------
(* Claiming: claimBatch, claimJobsWithLease, releaseCancelledClaim. *)

\* batchCapabilityPaused, for every capability: expired pauses are forgotten.
Unpaused(w) ==
    [c \in Capabilities |->
        IF paused[ServiceOf[w]][c] > Now(w) THEN paused[ServiceOf[w]][c]
                                            ELSE NoTime]

\* The read lock of claimMu is held from here to the claim's return.
ClaimStart(w) ==
    LET s == ServiceOf[w]
        eligible == {c \in Capabilities : Unpaused(w)[c] = NoTime}
    IN  /\ pc[w] = "idle"
        /\ ~drain[s]
        /\ nextTok <= MaxToken
        /\ eligible # {}
        /\ paused' = [paused EXCEPT ![s] = Unpaused(w)]
        /\ nextTok' = nextTok + 1
        /\ tok' = [tok EXCEPT ![w] = nextTok]
        /\ Send(w, "claim", nextTok, {j \in Jobs : CapOf[j] \in eligible},
                Now(w) + ReserveFor)
        /\ Goto(w, "claiming")
        /\ UNCHANGED <<tableVars, now, orphans, drain, runc, managerVars, seen,
                       jobVars, history>>

\* Rows came back while the claim context was live: newBatchLeaseManager.
ClaimReturn(w) ==
    LET until == call[w].req.until
    IN  /\ pc[w] = "claiming"
        /\ call[w].phase = "done"
        /\ call[w].aff # {}
        /\ Now(w) < until
        /\ ~runc[ServiceOf[w]]
        /\ ledger' = [ledger EXCEPT ![w] =
                        [j \in Jobs |-> IF j \in call[w].aff THEN until
                                                             ELSE NoTime]]
        /\ earliest' = [earliest EXCEPT ![w] = until]
        /\ hb' = [hb EXCEPT ![w] = "on"]
        /\ Done(w)
        /\ Goto(w, "next")
        /\ UNCHANGED <<tableVars, now, nextTok, orphans, serviceVars, tok, ctx,
                       seen, jobVars, history>>

\* ErrNoJobs
ClaimEmpty(w) ==
    /\ pc[w] = "claiming"
    /\ call[w].phase = "done"
    /\ call[w].aff = {}
    /\ LeaveBatch(w)
    /\ Done(w)
    /\ Goto(w, "idle")
    /\ UNCHANGED <<tableVars, now, nextTok, orphans, serviceVars, history>>

\* The Run context was cancelled during the claim: the rows go back.
ClaimCancelled(w) ==
    /\ pc[w] = "claiming"
    /\ call[w].phase = "done"
    /\ call[w].aff # {}
    /\ Now(w) < call[w].req.until
    /\ runc[ServiceOf[w]]
    /\ Send(w, "release", tok[w], call[w].aff, NoTime)
    /\ Goto(w, "cleanup")
    /\ UNCHANGED <<tableVars, now, nextTok, orphans, serviceVars, tok,
                   managerVars, seen, jobVars, history>>

\* The claim's deadline passed (its rows are left to expire) or the call
\* failed: the error ends the worker and, through the errgroup, the Run.
ClaimFail(w) ==
    /\ pc[w] = "claiming"
    /\ GiveUp(w)
    /\ LeaveBatch(w)
    /\ Die(w)
    /\ UNCHANGED <<tableVars, now, nextTok, drain, paused, history>>

\* The release of a cancelled claim succeeded, failed or fell short.
CleanupReturn(w) ==
    /\ pc[w] = "cleanup"
    /\ GiveUp(w)
    /\ LeaveBatch(w)
    /\ Die(w)
    /\ UNCHANGED <<tableVars, now, nextTok, drain, paused, history>>

-----------------------------------------------------------------------------
(* The heartbeat: run, extend, ensureLeasesLocked. *)

HbTick(w) ==
    LET target == Now(w) + ReserveFor
        need == NeedExtension(w, target)
    IN  /\ hb[w] = "on"
        /\ pc[w] \in Managing \ MuHeld
        /\ \/ /\ LeaseExpired(w)
              /\ FailLease(w)
              /\ hb' = [hb EXCEPT ![w] = "exited"]
              /\ UNCHANGED <<earliest, call>>
           \/ /\ ~LeaseExpired(w)
              /\ earliest' = [earliest EXCEPT ![w] = Gathered(w, target)]
              /\ IF need = {}
                 THEN UNCHANGED <<call, hb>>
                 ELSE /\ Send(w, "extend", tok[w], need, target + 1)
                      /\ hb' = [hb EXCEPT ![w] = "call"]
              /\ UNCHANGED ctx
        /\ UNCHANGED <<tableVars, now, nextTok, orphans, serviceVars, pc, tok,
                       ledger, seen, jobVars, history>>

HbExtended(w) ==
    /\ hb[w] = "call"
    /\ ExtensionHolds(w)
    /\ ~Cancelled(w)
    /\ RecordExtension(w)
    /\ Done(w)
    /\ hb' = [hb EXCEPT ![w] = "on"]
    /\ UNCHANGED <<tableVars, now, nextTok, orphans, serviceVars, pc, tok, ctx,
                   seen, jobVars, history>>

\* A database error, a missed row, a passed deadline or a cancelled context.
HbFail(w) ==
    /\ hb[w] = "call"
    /\ FailLease(w)
    /\ GiveUp(w)
    /\ hb' = [hb EXCEPT ![w] = "exited"]
    /\ UNCHANGED <<tableVars, now, nextTok, serviceVars, pc, tok, ledger,
                   earliest, seen, jobVars, history>>

-----------------------------------------------------------------------------
(* Admission: processBatchJob up to the handler, admit, batchStartError. *)

\* executeJob begins: the handler of j runs under the lease.
Start(w, j) ==
    /\ cur' = [cur EXCEPT ![w] = j]
    /\ started' = started \cup {<<j, tok[w]>>}
    /\ Goto(w, "handling")

AdmitRefused(w) ==
    LET s == ServiceOf[w]
    IN  /\ pc[w] = "next"
        /\ Out(w) # {}
        /\ hb[w] # "call"
        /\ \/ /\ Cancelled(w)
              /\ err' = [err EXCEPT ![w] = "error"]
              /\ UNCHANGED ctx
           \/ /\ ~Cancelled(w) /\ drain[s]
              /\ err' = [err EXCEPT ![w] = "drain"]
              /\ UNCHANGED ctx
           \/ /\ ~Cancelled(w) /\ ~drain[s] /\ LeaseExpired(w)
              /\ err' = [err EXCEPT ![w] = "error"]
              /\ FailLease(w)
        /\ Goto(w, "stopping")
        /\ UNCHANGED <<tableVars, now, nextTok, orphans, serviceVars, tok,
                       ledger, earliest, hb, seen, cur, fin, call, history>>

\* A third of the lease must be left, or every lease is extended first.
Admit(w, j) ==
    LET headroom == Now(w) + (ReserveFor \div 3)
        target == Now(w) + ReserveFor
        need == IF Checked(w) >= headroom THEN {} ELSE NeedExtension(w, target)
    IN  /\ pc[w] = "next"
        /\ hb[w] # "call"
        /\ ~Cancelled(w)
        /\ ~drain[ServiceOf[w]]
        /\ ~LeaseExpired(w)
        /\ earliest' = [earliest EXCEPT ![w] =
                          IF Checked(w) >= headroom THEN Checked(w)
                                                    ELSE Gathered(w, target)]
        /\ \/ /\ need = {}
              /\ Start(w, j)
              /\ UNCHANGED call
           \/ /\ need # {}
              /\ Send(w, "extend", tok[w], need, target + 1)
              /\ cur' = [cur EXCEPT ![w] = j]
              /\ Goto(w, "admitting")
              /\ UNCHANGED started
        /\ UNCHANGED <<tableVars, now, nextTok, orphans, serviceVars, tok,
                       ledger, ctx, hb, seen, fin, err, succeeded>>

\* Mutant of AdmitExtended: the drain signal is not looked at again.
AdmitUnchecked(w) ==
    /\ pc[w] = "admitting"
    /\ ExtensionHolds(w)
    /\ ~Cancelled(w)
    /\ RecordExtension(w)
    /\ Done(w)
    /\ Start(w, cur[w])
    /\ UNCHANGED <<tableVars, now, nextTok, orphans, serviceVars, tok, ctx, hb,
                   seen, fin, err, succeeded>>

\* The drain signal is looked at again after the extension.
AdmitExtended(w) ==
    /\ pc[w] = "admitting"
    /\ ExtensionHolds(w)
    /\ ~Cancelled(w)
    /\ RecordExtension(w)
    /\ Done(w)
    /\ \/ /\ drain[ServiceOf[w]]
          /\ err' = [err EXCEPT ![w] = "drain"]
          /\ cur' = [cur EXCEPT ![w] = NoJob]
          /\ Goto(w, "stopping")
          /\ UNCHANGED started
       \/ /\ ~drain[ServiceOf[w]]
          /\ Start(w, cur[w])
          /\ UNCHANGED err
    /\ UNCHANGED <<tableVars, now, nextTok, orphans, serviceVars, tok, ctx, hb,
                   seen, fin, succeeded>>

AdmitFail(w) ==
    /\ pc[w] = "admitting"
    /\ FailLease(w)
    /\ GiveUp(w)
    /\ err' = [err EXCEPT ![w] = "error"]
    /\ cur' = [cur EXCEPT ![w] = NoJob]
    /\ Goto(w, "stopping")
    /\ UNCHANGED <<tableVars, now, nextTok, serviceVars, tok, ledger, earliest,
                   hb, seen, fin, history>>

-----------------------------------------------------------------------------
(* The handler returns: processBatchJob from executeJob on. *)

\* The batch was cancelled while the handler ran: its result is dropped.
HandlerCancelled(w) ==
    /\ pc[w] = "handling"
    /\ Cancelled(w)
    /\ err' = [err EXCEPT ![w] = "error"]
    /\ Goto(w, "forgetting")
    /\ UNCHANGED <<tableVars, now, nextTok, orphans, serviceVars, tok,
                   managerVars, seen, cur, fin, call, history>>

\* finalize is entered; its budget starts now.
Finalize(w, kind, availableAt) ==
    /\ fin' = [fin EXCEPT ![w] = [kind |-> kind, avail |-> availableAt,
                                  deadline |-> Now(w) + FinalTimeout]]
    /\ Goto(w, "finalizing")

Exhausted(w) == seen[w][cur[w]] >= MaxAttempts[CapOf[cur[w]]]

HandlerReturn(w, outcome, delay) ==
    /\ pc[w] = "handling"
    /\ ~Cancelled(w)
    /\ \/ /\ outcome = "ok"
          /\ Finalize(w, "ack", NoTime)
          /\ succeeded' = succeeded \cup {<<cur[w], tok[w]>>}
          /\ UNCHANGED err
       \/ /\ \/ outcome = "permanent"
             \/ outcome \in {"retry", "fail", "policyerr"} /\ Exhausted(w)
          /\ Finalize(w, "dlq", NoTime)
          /\ UNCHANGED <<succeeded, err>>
       \/ /\ outcome = "defer"
          /\ Finalize(w, "defer", Now(w) + delay)
          /\ UNCHANGED <<succeeded, err>>
       \/ /\ outcome = "retry" /\ ~Exhausted(w)
          /\ Finalize(w, "retry", Now(w) + delay)
          /\ UNCHANGED <<succeeded, err>>
       \/ /\ outcome \in {"fail", "policyerr"} /\ ~Exhausted(w)
          /\ err' = [err EXCEPT ![w] =
                       IF outcome = "fail" THEN "none" ELSE "error"]
          /\ Goto(w, "forgetting")
          /\ UNCHANGED <<succeeded, fin>>
    /\ UNCHANGED <<tableVars, now, nextTok, orphans, serviceVars, tok,
                   managerVars, seen, cur, call, started>>

\* The handler calls runtime.Goexit: only deferred functions run from here.
HandlerExit(w) ==
    /\ pc[w] = "handling"
    /\ "goexit" \in Outcomes
    /\ runc' = [runc EXCEPT ![ServiceOf[w]] = TRUE]
    /\ Goto(w, "unwinding")
    /\ UNCHANGED <<tableVars, now, nextTok, orphans, drain, paused, tok,
                   managerVars, seen, jobVars, call, history>>

-----------------------------------------------------------------------------
(* Finalization: finalize, ackBatch, dlqBatch, deferLeased,               *)
(* rescheduleLeased, forget.                                               *)

\* The statement of the chosen outcome; available_at is never in the past.
SendFinal(w) ==
    /\ Send(w, fin[w].kind, tok[w], {cur[w]},
            IF fin[w].avail > Now(w) THEN fin[w].avail ELSE Now(w))
    /\ Goto(w, "finalCalling")

\* finalize returned an error for a started job.
FinalError(w) ==
    /\ err' = [err EXCEPT ![w] = "error"]
    /\ Goto(w, "forgetting")

\* LockContext gave up: the heartbeat held the mutex past the budget.
FinalizeTimeout(w) ==
    /\ pc[w] = "finalizing"
    /\ Now(w) >= fin[w].deadline
    /\ FinalError(w)
    /\ ctx' = [ctx EXCEPT ![w] = IF @ = "ok" THEN "stop" ELSE @]
    /\ UNCHANGED <<tableVars, now, nextTok, orphans, serviceVars, tok, ledger,
                   earliest, hb, seen, cur, fin, call, history>>

\* Every outstanding lease must outlive the budget by the margin.
FinalizeLocked(w) ==
    LET required == fin[w].deadline + FinalMargin
        need == NeedExtension(w, required)
    IN  /\ pc[w] = "finalizing"
        /\ hb[w] # "call"
        /\ Now(w) < fin[w].deadline
        /\ \/ /\ LeaseExpired(w)
              /\ FailLease(w)
              /\ FinalError(w)
              /\ UNCHANGED <<earliest, call>>
           \/ /\ ~LeaseExpired(w)
              /\ earliest' = [earliest EXCEPT ![w] = Gathered(w, required)]
              /\ \/ /\ need = {}
                    /\ SendFinal(w)
                 \/ /\ need # {}
                    /\ Send(w, "extend", tok[w], need, required + ReserveFor + 1)
                    /\ Goto(w, "finalExtending")
              /\ UNCHANGED <<ctx, err>>
        /\ UNCHANGED <<tableVars, now, nextTok, orphans, serviceVars, tok,
                       ledger, hb, seen, cur, fin, history>>

\* finalizeCtx is detached from the batch context: only its own deadline
\* counts.
FinalExtended(w) ==
    /\ pc[w] = "finalExtending"
    /\ ExtensionHolds(w)
    /\ Now(w) < fin[w].deadline
    /\ RecordExtension(w)
    /\ SendFinal(w)
    /\ UNCHANGED <<tableVars, now, nextTok, orphans, serviceVars, tok, ctx, hb,
                   seen, jobVars, history>>

FinalExtendFail(w) ==
    /\ pc[w] = "finalExtending"
    /\ FailLease(w)
    /\ GiveUp(w)
    /\ FinalError(w)
    /\ UNCHANGED <<tableVars, now, nextTok, serviceVars, tok, ledger, earliest,
                   hb, seen, cur, fin, history>>

\* Mutant of Remove: the bound is reset while jobs are outstanding.
RemoveReset(w, j) ==
    /\ ledger' = [ledger EXCEPT ![w][j] = NoTime]
    /\ earliest' = [earliest EXCEPT ![w] = NoTime]

\* delete(m.outstanding, jobID), also in forget.
Remove(w, j) ==
    LET rest == [ledger[w] EXCEPT ![j] = NoTime]
    IN  /\ ledger' = [ledger EXCEPT ![w] = rest]
        /\ earliest' = [earliest EXCEPT ![w] = IF rest = NoLedger THEN NoTime
                                                                  ELSE @]

\* The outcome is confirmed; a confirmed defer pauses the capability.
FinalConfirmed(w) ==
    LET until == call[w].req.until
    IN  /\ pc[w] = "finalCalling"
        /\ call[w].phase = "done"
        /\ call[w].aff = {cur[w]}
        /\ Remove(w, cur[w])
        /\ paused' = IF call[w].req.kind = "defer"
                     THEN [paused EXCEPT ![ServiceOf[w]][CapOf[cur[w]]] =
                             IF until > @ THEN until ELSE @]
                     ELSE paused
        /\ Done(w)
        /\ cur' = [cur EXCEPT ![w] = NoJob]
        /\ fin' = [fin EXCEPT ![w] = NoFin]
        /\ Goto(w, "next")
        /\ UNCHANGED <<tableVars, now, nextTok, orphans, drain, runc, tok, ctx,
                       hb, seen, err, history>>

\* No row matched the fence, or the outcome of the statement is unknown.
FinalFail(w) ==
    /\ pc[w] = "finalCalling"
    /\ GiveUp(w)
    /\ FinalError(w)
    /\ UNCHANGED <<tableVars, now, nextTok, serviceVars, tok, managerVars, seen,
                   cur, fin, history>>

\* Mutant of Forget: the started job stays outstanding.
ForgetNothing(w) ==
    /\ pc[w] = "forgetting"
    /\ hb[w] # "call"
    /\ cur' = [cur EXCEPT ![w] = NoJob]
    /\ fin' = [fin EXCEPT ![w] = NoFin]
    /\ Goto(w, IF err[w] = "none" THEN "next" ELSE "stopping")
    /\ UNCHANGED <<tableVars, now, nextTok, orphans, serviceVars, tok,
                   managerVars, seen, err, call, history>>

\* A started job leaves the ledger without having been finalized.
Forget(w) ==
    /\ pc[w] = "forgetting"
    /\ hb[w] # "call"
    /\ Remove(w, cur[w])
    /\ cur' = [cur EXCEPT ![w] = NoJob]
    /\ fin' = [fin EXCEPT ![w] = NoFin]
    /\ Goto(w, IF err[w] = "none" THEN "next" ELSE "stopping")
    /\ UNCHANGED <<tableVars, now, nextTok, orphans, serviceVars, tok, ctx, hb,
                   seen, err, call, history>>

-----------------------------------------------------------------------------
(* The end of a batch: stopAndWait, releaseUnstarted, runWorker. *)

\* findAndProcessBatch returns.  A draining worker ends without an error, also
\* when the release of its unstarted jobs or the heartbeat failed.
Conclude(w, released) ==
    /\ LeaveBatch(w)
    /\ IF \/ err[w] = "drain"
          \/ err[w] = "none" /\ ctx[w] # "lease" /\ released
       THEN Goto(w, "idle") /\ UNCHANGED runc
       ELSE Die(w)

Stop(w) ==
    /\ \/ pc[w] = "stopping"
       \/ pc[w] = "next" /\ Out(w) = {}
    /\ hb[w] # "call"
    /\ \/ /\ Out(w) = {}
          /\ Conclude(w, TRUE)
          /\ UNCHANGED call
       \/ /\ Out(w) # {}
          /\ Send(w, "release", tok[w], Out(w), NoTime)
          /\ hb' = [hb EXCEPT ![w] = "off"]
          /\ Goto(w, "releasing")
          /\ UNCHANGED <<runc, tok, ledger, earliest, ctx, seen, jobVars>>
    /\ UNCHANGED <<tableVars, now, nextTok, orphans, drain, paused, history>>

Released(w) ==
    /\ pc[w] = "releasing"
    /\ call[w].phase = "done"
    /\ call[w].aff = call[w].req.ids
    /\ Done(w)
    /\ Conclude(w, TRUE)
    /\ UNCHANGED <<tableVars, now, nextTok, orphans, drain, paused, history>>

ReleaseFail(w) ==
    /\ pc[w] = "releasing"
    /\ GiveUp(w)
    /\ Conclude(w, FALSE)
    /\ UNCHANGED <<tableVars, now, nextTok, drain, paused, history>>

\* The deferred functions of a worker whose handler called Goexit have run.
Unwind(w) ==
    /\ pc[w] = "unwinding"
    /\ hb[w] # "call"
    /\ LeaveBatch(w)
    /\ Goto(w, "dead")
    /\ UNCHANGED <<tableVars, now, nextTok, orphans, serviceVars, call, history>>

WorkerExit(w) ==
    /\ pc[w] = "idle"
    /\ runc[ServiceOf[w]] \/ drain[ServiceOf[w]]
    /\ Goto(w, "dead")
    /\ UNCHANGED <<tableVars, now, nextTok, orphans, serviceVars, tok,
                   managerVars, seen, jobVars, call, history>>

-----------------------------------------------------------------------------
(* The host: Run, BeginDrain, cancellation, and crashes of the process. *)

WorkersOf(s) == {w \in Workers : ServiceOf[w] = s}

CancelRun(s) ==
    /\ "cancel" \in HostEvents
    /\ ~runc[s]
    /\ runc' = [runc EXCEPT ![s] = TRUE]
    /\ UNCHANGED <<tableVars, now, nextTok, orphans, drain, paused, pc, tok,
                   managerVars, seen, jobVars, call, history>>

\* Mutant of BeginDrain: the claim boundary is not awaited.
DrainAtOnce(s) ==
    /\ "drain" \in HostEvents
    /\ ~drain[s]
    /\ drain' = [drain EXCEPT ![s] = TRUE]
    /\ UNCHANGED <<tableVars, now, nextTok, orphans, runc, paused, pc, tok,
                   managerVars, seen, jobVars, call, history>>

\* The write lock of claimMu waits for the claims in flight.
BeginDrain(s) ==
    /\ "drain" \in HostEvents
    /\ ~drain[s]
    /\ \A w \in WorkersOf(s) : pc[w] # "claiming"
    /\ drain' = [drain EXCEPT ![s] = TRUE]
    /\ UNCHANGED <<tableVars, now, nextTok, orphans, runc, paused, pc, tok,
                   managerVars, seen, jobVars, call, history>>

\* Run starts the workers, again or in a new process.
Run(s) ==
    /\ \A w \in WorkersOf(s) : pc[w] = "dead"
    /\ pc' = [w \in Workers |-> IF w \in WorkersOf(s) THEN "idle" ELSE pc[w]]
    /\ runc' = [runc EXCEPT ![s] = FALSE]
    /\ UNCHANGED <<tableVars, now, nextTok, orphans, drain, paused, tok,
                   managerVars, seen, jobVars, call, history>>

\* The process of s dies; its memory is gone, its statements may still run.
Crash(s) ==
    LET Reset(f, v) == [w \in Workers |-> IF w \in WorkersOf(s) THEN v
                                                                 ELSE f[w]]
        sent == {call[w].req : w \in {v \in WorkersOf(s) : call[v].phase = "sent"}}
    IN  /\ "crash" \in HostEvents
        /\ \E late \in SUBSET sent :
             /\ late = {} \/ Cardinality(orphans \cup late) <= MaxOrphans
             /\ orphans' = orphans \cup late
        /\ drain' = [drain EXCEPT ![s] = FALSE]
        /\ runc' = [runc EXCEPT ![s] = TRUE]
        /\ paused' = [paused EXCEPT ![s] = [c \in Capabilities |-> NoTime]]
        /\ pc' = Reset(pc, "dead")
        /\ tok' = Reset(tok, NoToken)
        /\ ledger' = Reset(ledger, NoLedger)
        /\ earliest' = Reset(earliest, NoTime)
        /\ seen' = Reset(seen, [j \in Jobs |-> 0])
        /\ cur' = Reset(cur, NoJob)
        /\ ctx' = Reset(ctx, "ok")
        /\ hb' = Reset(hb, "off")
        /\ fin' = Reset(fin, NoFin)
        /\ err' = Reset(err, "none")
        /\ call' = Reset(call, NoCall)
        /\ UNCHANGED <<tableVars, now, nextTok, history>>

-----------------------------------------------------------------------------
WorkerStep(w) ==
    \/ DbExec(w)
    \/ ClaimStart(w) \/ ClaimReturn(w) \/ ClaimEmpty(w) \/ ClaimCancelled(w)
    \/ ClaimFail(w) \/ CleanupReturn(w)
    \/ HbTick(w) \/ HbExtended(w) \/ HbFail(w)
    \/ AdmitRefused(w) \/ AdmitExtended(w) \/ AdmitFail(w)
    \/ \E j \in Out(w) : Admit(w, j)
    \/ HandlerCancelled(w) \/ HandlerExit(w)
    \/ \E outcome \in Outcomes, delay \in Delays : HandlerReturn(w, outcome, delay)
    \/ FinalizeTimeout(w) \/ FinalizeLocked(w) \/ FinalExtended(w)
    \/ FinalExtendFail(w) \/ FinalConfirmed(w) \/ FinalFail(w) \/ Forget(w)
    \/ Stop(w) \/ Released(w) \/ ReleaseFail(w) \/ Unwind(w) \/ WorkerExit(w)

HostStep(s) == CancelRun(s) \/ BeginDrain(s) \/ Run(s) \/ Crash(s)

Next ==
    \/ Tick
    \/ \E j \in Jobs, d \in Delays : Put(j, d)
    \/ \E r \in orphans : OrphanExec(r)
    \/ \E w \in Workers : WorkerStep(w)
    \/ \E s \in Services : HostStep(s)

Spec == Init /\ [][Next]_vars

-----------------------------------------------------------------------------
(* Properties. *)

\* Every variable has its type.
TypeOK ==
    /\ row \in Table
    /\ dlq \subseteq Jobs
    /\ now \in Nat /\ nextTok \in Nat
    /\ orphans \subseteq Request
    /\ drain \in [Services -> BOOLEAN]
    /\ runc \in [Services -> BOOLEAN]
    /\ paused \in [Services -> [Capabilities -> Nat]]
    /\ pc \in [Workers -> PCs]
    /\ tok \in [Workers -> Nat]
    /\ ledger \in [Workers -> [Jobs -> Nat]]
    /\ earliest \in [Workers -> Nat]
    /\ seen \in [Workers -> [Jobs -> Nat]]
    /\ cur \in [Workers -> Jobs \cup {NoJob}]
    /\ ctx \in [Workers -> {"ok", "lease", "stop"}]
    /\ hb \in [Workers -> {"off", "on", "call", "exited"}]
    /\ fin \in [Workers -> [kind: Kinds, avail: Nat, deadline: Nat]]
    /\ err \in [Workers -> {"none", "drain", "error"}]
    /\ call \in [Workers -> [phase: {"none", "sent", "done"},
                             aff: SUBSET Jobs, req: Request]]
    /\ started \subseteq Jobs \X Nat
    /\ succeeded \subseteq Jobs \X Nat
    /\ deferred \subseteq Jobs \X Nat

\* Worker w has itself already settled job j in the table (finalized it or
\* given it back), or does not know whether it has.
Settling(w, j) ==
    \/ call[w].phase = "done" /\ j \in call[w].aff
         /\ call[w].req.kind \in {"ack", "dlq", "retry", "defer", "release"}
    \/ pc[w] = "forgetting" /\ j = cur[w]

\* The row of j is reserved for the batch of w.
Holds(w, j) == row[j].live /\ row[j].tok = tok[w]

(***************************************************************************)
(* The deadline ledger of the lease manager never promises more than the   *)
(* table: while the manager has not declared the leases lost, an           *)
(* outstanding job whose ledger deadline lies ahead (on the fastest clock) *)
(* is still reserved under the batch's token, at least until that          *)
(* deadline, whatever calls failed, arrived late, or ran after a crash.    *)
(***************************************************************************)
LedgerSound ==
    \A w \in Workers : \A j \in Out(w) :
        ctx[w] # "lease" /\ ledger[w][j] > now + MaxOffset /\ ~Settling(w, j)
            => Holds(w, j) /\ row[j].until >= ledger[w][j]

(***************************************************************************)
(* Two handlers run on the same job at the same time only when one of them *)
(* has outlived its lease: its manager has declared the leases lost or the *)
(* deadline in its ledger has passed on the fastest clock.                 *)
(***************************************************************************)
Running(w, j) ==
    /\ pc[w] = "handling" /\ cur[w] = j
    /\ ctx[w] # "lease" /\ ledger[w][j] > now + MaxOffset

HandlerExclusion ==
    \A w, v \in Workers : \A j \in Jobs :
        Running(w, j) /\ Running(v, j) => w = v

(***************************************************************************)
(* No job is lost: a job leaves the jobs table only into jobs_failed, or   *)
(* after a handler run under the very lease that removed it returned nil   *)
(* (ackBatch), and never because of a stale worker or a late statement.    *)
(***************************************************************************)
RemovalJustified ==
    \A j \in Jobs :
        ~row[j].live /\ row[j].tok # NoToken /\ j \notin dlq
            => <<j, row[j].tok>> \in succeeded

\* dlqBatch moves: a job is never both in jobs and in jobs_failed.
DlqExclusive == \A j \in dlq : ~row[j].live

(***************************************************************************)
(* Attempts are never undercounted: a job has been counted at least once   *)
(* per lease a handler was started under, runs that were deferred apart.   *)
(* releaseUnstarted must therefore never give back a started job.          *)
(***************************************************************************)
StartsCounted ==
    \A j \in Jobs :
        Cardinality({t \in 1..MaxToken : <<j, t>> \in started \ deferred})
            <= row[j].attempts

(***************************************************************************)
(* finalize keeps the tail of the batch safe: while the statement of one   *)
(* outcome is in flight, up to the end of its budget plus the margin, the  *)
(* jobs of the batch that have not started yet stay reserved for it, and   *)
(* no claim, on whatever clock, can match them.                            *)
(***************************************************************************)
TailProtected ==
    \A w \in Workers :
        /\ pc[w] = "finalCalling" /\ ctx[w] # "lease"
        /\ now + MaxOffset < fin[w].deadline + FinalMargin
        => \A j \in Out(w) \ {cur[w]} :
              Holds(w, j) /\ row[j].until > now + MaxOffset

\* earliestUntil is what its comment says, "a conservative lower bound" on
\* the ledger's deadlines, so skipping the scan never hides an expired lease.
EarliestIsLowerBound ==
    \A w \in Workers : \A j \in Out(w) :
        NoTime < earliest[w] /\ earliest[w] <= ledger[w][j]

(***************************************************************************)
(* BeginDrain closes the claim boundary: once it has returned no claim of  *)
(* the service is in flight, and no claim starts, even in a worker that    *)
(* looked at the drain signal before it closed.                            *)
(***************************************************************************)
DrainBoundary ==
    \A w \in Workers : drain[ServiceOf[w]] => pc[w] # "claiming"

(***************************************************************************)
(* No lease lasts for ever: whatever a service that stops, drains, crashes *)
(* or fails to release leaves reserved becomes claimable again.  However   *)
(* the heartbeat, admission and finalization renew a lease, and however    *)
(* late a renewal reaches the table, its deadline is at most one           *)
(* finalization budget and one lease duration away.                        *)
(***************************************************************************)
Horizon == MaxOffset + FinalTimeout + FinalMargin + ReserveFor + 1

LeaseBounded == \A j \in Jobs : row[j].until <= now + Horizon

\* No handler starts after BeginDrain has returned, even when admission was
\* waiting for a lease extension at that moment.
NoStartAfterDrain ==
    [][\A w \in Workers :
         drain[ServiceOf[w]] /\ pc[w] # "handling" => pc'[w] # "handling"]_vars

=============================================================================
