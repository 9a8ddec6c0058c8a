--------------------------- MODULE ExecutionBatch ---------------------------
(***************************************************************************)
(* True handler batches (src/outbox/service_execution_batch.go): a worker  *)
(* claims jobs of one capability, fills the batch with further claims      *)
(* under the same token until it is full or the fill window closes, hands  *)
(* all of it to one HandleBatch call and applies all outcomes in one       *)
(* fenced transaction.                                                     *)
(*                                                                         *)
(* One service with several workers and one capability.  As in LeaseWorker *)
(* a repository call is a statement and an answer, a caller that gives up  *)
(* does not know whether its statement ran, and the lease manager's mutex  *)
(* is held while the heartbeat has a call in flight or the worker is at a  *)
(* step of MuHeld.  The fill claims run outside the mutex, next to the     *)
(* heartbeat's call.  Rows are only ever added to the ledger before        *)
(* finalizeAll clears it, so the cached earliestUntil is its minimum.      *)
(***************************************************************************)
EXTENDS BatchRepo

CONSTANTS
    Workers,
    MaxMessages, MaxBytes,   \* BatchConfig
    MaxWait,                 \* the fill window
    MaxAttempts,
    ReserveFor, FinalTimeout, FinalMargin,
    DlqAllowance,            \* added to the budget per dead letter
    RetryBase, RetryMaximum, \* batchRetryBase, batchRetryMaximum
    Delays,                  \* retry and defer delays handlers ask for
    TopOutcomes, ItemOutcomes,   \* handler outcomes of this instance
    HostEvents,
    MaxTime, MaxToken, MaxOrphans

AllTop == {"result", "fail", "defer", "permanent", "panic", "invalid", "goexit"}
AllItems == {"ok", "permanent", "defer", "retry", "fail", "policyerr"}

ASSUME ExecutionBatchAssumption ==
    /\ MaxMessages \in Nat \ {0} /\ MaxBytes \in Nat \ {0}
    /\ MaxWait \in Nat \ {0} /\ MaxAttempts \in Nat
    /\ ReserveFor \in Nat \ {0} /\ FinalTimeout \in Nat \ {0}
    /\ FinalMargin \in Nat /\ DlqAllowance \in Nat
    /\ RetryBase \in Nat \ {0} /\ RetryMaximum \in Nat \ {0}
    /\ Delays \subseteq Nat
    /\ TopOutcomes \subseteq AllTop /\ ItemOutcomes \subseteq AllItems
    /\ HostEvents \subseteq {"cancel", "drain", "crash"}
    /\ MaxTime \in Nat /\ MaxToken \in Nat /\ MaxOrphans \in Nat

VARIABLES
    row, dlq,      \* the tables
    now, nextTok,
    orphans,       \* requests whose caller gave up and that may still run
    drain, runc,   \* the drain channel is closed; the Run context is cancelled
    paused,        \* batchPaused, NoTime when absent
    streak,        \* batchStreak
    pc, tok,       \* pc[w], tok[w]
    ledger,        \* ledger[w][j]: manager.outstanding, NoTime when absent
    seen,          \* seen[w][j]: job.Attempts as the claim returned it
    fillBy,        \* fillBy[w]: end of the fill window
    ctx,           \* ctx[w]: "ok", "lease" or "stop"
    hb,            \* hb[w]: "off", "on", "call", "exited"
    fin,           \* fin[w]: the outcomes to apply and the budget's end
    err,           \* err[w]: the error the batch ends with
    call, hcall,   \* calls in flight of the worker and of the heartbeat
    started,       \* history: <<j, t>>: HandleBatch saw j under token t
    succeeded,     \* history: <<j, t>>: and reported success for it
    deferred,      \* history: <<j, t>>: the attempt was given back
    applied        \* history: <<j, t>>: an outcome was applied under t

tableVars   == <<row, dlq, deferred, applied>>
serviceVars == <<drain, runc, paused, streak>>
batchVars   == <<tok, ledger, seen, fillBy, ctx, hb, fin, err>>
calls       == <<call, hcall>>
history     == <<started, succeeded>>
vars == <<tableVars, now, nextTok, orphans, serviceVars, pc, batchVars, calls,
          history>>

-----------------------------------------------------------------------------
BatchRequest == [kind: {"claim", "extend", "release", "apply"}, tok: Nat,
            ids: SUBSET Jobs, now: Nat, until: Nat,
            messages: Nat, bytes: Nat, plan: Plan]

Ask(kind, token, ids, until) ==
    [kind |-> kind, tok |-> token, ids |-> ids, now |-> now, until |-> until,
     messages |-> 0, bytes |-> 0, plan |-> NoPlan]

AskClaim(token, messages, bytes) ==
    [Ask("claim", token, {}, now + ReserveFor)
        EXCEPT !.messages = messages, !.bytes = bytes]

NoCall == [phase |-> "none", aff |-> {},
           req |-> [kind |-> "claim", tok |-> NoToken, ids |-> {}, now |-> 0,
                    until |-> 0, messages |-> 0, bytes |-> 0, plan |-> NoPlan]]

NoFin == [plan |-> NoPlan, deadline |-> 0]

NoLedger == [j \in Jobs |-> NoTime]

MuHeld == {"admitting", "finalExtending", "applying", "releasing"}

\* The worker's manager exists.
Managing == {"filling", "fillClaiming", "adding", "polling", "fillCleanup",
             "tailing", "admit", "handling", "forgetting", "finalizing",
             "stopping", "unwinding"} \cup MuHeld

Out(w) == {j \in Jobs : ledger[w][j] # NoTime}

Cancelled(w) == ctx[w] # "ok" \/ runc

\* The loop condition of fillExecutionBatch.
Full(w) == Cardinality(Out(w)) >= MaxMessages \/ Bytes(Out(w)) >= MaxBytes

LeaseExpired(w) == \E j \in Out(w) : ledger[w][j] <= now

NeedExtension(w, required) == {j \in Out(w) : ledger[w][j] < required}

MinDeadline(w) == Min({ledger[w][j] : j \in Out(w)})

Goto(w, label) == pc' = [pc EXCEPT ![w] = label]

Send(w, r) == call' = [call EXCEPT ![w] = [phase |-> "sent", aff |-> {}, req |-> r]]

Done(w) == call' = [call EXCEPT ![w] = NoCall]

\* A statement its caller gave up on may still run later.
Orphan(c) ==
    \/ orphans' = orphans
    \/ /\ c.phase = "sent"
       /\ Cardinality(orphans) < MaxOrphans
       /\ orphans' = orphans \cup {c.req}

GiveUp(w) == Done(w) /\ Orphan(call[w])

FailLease(w) == ctx' = [ctx EXCEPT ![w] = "lease"]

SetErr(w, e) == err' = [err EXCEPT ![w] = e]

\* The extension c reached every row before the earliest deadline.
ExtensionHolds(w, c) ==
    c.phase = "done" /\ c.aff = c.req.ids /\ now < MinDeadline(w)

RecordExtension(w, c) ==
    ledger' = [ledger EXCEPT ![w] = [j \in Jobs |->
                  IF j \in c.req.ids THEN c.req.until ELSE @[j]]]

LeaveBatch(w) ==
    /\ tok' = [tok EXCEPT ![w] = NoToken]
    /\ ledger' = [ledger EXCEPT ![w] = NoLedger]
    /\ seen' = [seen EXCEPT ![w] = [j \in Jobs |-> 0]]
    /\ fillBy' = [fillBy EXCEPT ![w] = 0]
    /\ ctx' = [ctx EXCEPT ![w] = "ok"]
    /\ hb' = [hb EXCEPT ![w] = "off"]
    /\ fin' = [fin EXCEPT ![w] = NoFin]
    /\ err' = [err EXCEPT ![w] = "none"]

\* The worker returns an error: the errgroup cancels the Run.
Die(w) == Goto(w, "dead") /\ runc' = TRUE

Init ==
    /\ row = [j \in Jobs |-> NoRow] /\ dlq = {}
    /\ now = 1 /\ nextTok = 1 /\ orphans = {}
    /\ drain = FALSE /\ runc = FALSE /\ paused = NoTime /\ streak = 0
    /\ pc = [w \in Workers |-> "idle"]
    /\ tok = [w \in Workers |-> NoToken]
    /\ ledger = [w \in Workers |-> NoLedger]
    /\ seen = [w \in Workers |-> [j \in Jobs |-> 0]]
    /\ fillBy = [w \in Workers |-> 0]
    /\ ctx = [w \in Workers |-> "ok"]
    /\ hb = [w \in Workers |-> "off"]
    /\ fin = [w \in Workers |-> NoFin]
    /\ err = [w \in Workers |-> "none"]
    /\ call = [w \in Workers |-> NoCall]
    /\ hcall = [w \in Workers |-> NoCall]
    /\ started = {} /\ succeeded = {} /\ deferred = {} /\ applied = {}

-----------------------------------------------------------------------------
(* The environment: producers, time, and the database. *)

Put(j) ==
    /\ ~row[j].live /\ row[j].tok = NoToken
    /\ row' = CreateJob(row, j, now)
    /\ UNCHANGED <<dlq, deferred, applied, now, nextTok, orphans, serviceVars, pc,
                   batchVars, calls, history>>

Tick ==
    /\ now < MaxTime
    /\ now' = now + 1
    /\ UNCHANGED <<tableVars, nextTok, orphans, serviceVars, pc, batchVars, calls,
                   history>>

\* The rows request r may touch; a claim skips rows others hold locked.
AffectableBy(r) ==
    CASE r.kind = "claim" -> {Bounded(row, U, r.messages, r.bytes) :
                                  U \in SUBSET Ready(row, r.now)}
      [] r.kind = "extend" -> {Fenced(row, r.ids, r.tok, r.now)}
      [] r.kind = "release" ->
           {{j \in Fenced(row, r.ids, r.tok, r.now) : row[j].attempts > 0}}
      [] r.kind = "apply" -> {Settled(row, r.plan, r.tok, r.now)}

OfKind(plan, S, kind) == {j \in S : plan[j].kind = kind}

\* Mutant of Execute: the jobs_failed rows survive the rollback.
ExecuteApart(r, S) ==
    /\ row' = CASE r.kind = "claim"   -> Reserve(row, S, r.tok, r.until)
                [] r.kind = "extend"  -> ExtendLeases(row, S, r.until)
                [] r.kind = "release" -> ReleaseUnstarted(row, S)
                [] r.kind = "apply"   -> ApplyOutcomes(row, r.plan, S)
    /\ dlq' = dlq \cup OfKind(r.plan, Jobs, "dlq")
    /\ deferred' = deferred \cup (OfKind(r.plan, S, "defer") \X {r.tok})
    /\ applied' = IF r.kind = "apply" THEN applied \cup (S \X {r.tok}) ELSE applied

\* The database runs request r on the rows S.  "apply" is one transaction:
\* createExecutionBatchDLQRecords and ApplyBatchJobOutcomes.
Execute(r, S) ==
    /\ row' = CASE r.kind = "claim"   -> Reserve(row, S, r.tok, r.until)
                [] r.kind = "extend"  -> ExtendLeases(row, S, r.until)
                [] r.kind = "release" -> ReleaseUnstarted(row, S)
                [] r.kind = "apply"   -> ApplyOutcomes(row, r.plan, S)
    /\ dlq' = dlq \cup OfKind(r.plan, S, "dlq")
    /\ deferred' = deferred \cup (OfKind(r.plan, S, "defer") \X {r.tok})
    /\ applied' = IF r.kind = "apply" THEN applied \cup (S \X {r.tok}) ELSE applied

DbExec(w) ==
    /\ call[w].phase = "sent"
    /\ \E S \in AffectableBy(call[w].req) :
         /\ Execute(call[w].req, S)
         /\ call' = [call EXCEPT ![w].phase = "done", ![w].aff = S]
         /\ seen' = IF call[w].req.kind = "claim"
                    THEN [seen EXCEPT ![w] = [j \in Jobs |->
                            IF j \in S THEN row[j].attempts + 1 ELSE @[j]]]
                    ELSE seen
    /\ UNCHANGED <<now, nextTok, orphans, serviceVars, pc, tok, ledger, fillBy, ctx,
                   hb, fin, err, hcall, history>>

HbExec(w) ==
    /\ hcall[w].phase = "sent"
    /\ \E S \in AffectableBy(hcall[w].req) :
         /\ Execute(hcall[w].req, S)
         /\ hcall' = [hcall EXCEPT ![w].phase = "done", ![w].aff = S]
    /\ UNCHANGED <<now, nextTok, orphans, serviceVars, pc, batchVars, call, history>>

\* A statement whose caller has given up runs after all.
OrphanExec(r) ==
    /\ \E S \in AffectableBy(r) : Execute(r, S)
    /\ orphans' = orphans \ {r}
    /\ UNCHANGED <<now, nextTok, serviceVars, pc, batchVars, calls, history>>

-----------------------------------------------------------------------------
(* The first claim: processOneAvailableBatch, claimInitialExecutionBatch,  *)
(* claimJobsWithLease, releaseCancelledClaim.                              *)

\* A claimed batch passes validateClaimedExecutionBatch and
\* validateBoundedExecutionBatchPayload.
Acceptable(c) ==
    /\ c.phase = "done" /\ c.aff # {}
    /\ Cardinality(c.aff) <= c.req.messages
    /\ Bytes(c.aff) <= c.req.bytes \/ Cardinality(c.aff) = 1

\* The read lock of claimMu is held from here to the claim's return.
ClaimStart(w) ==
    /\ pc[w] = "idle"
    /\ paused <= now
    /\ ~drain
    /\ nextTok <= MaxToken
    /\ paused' = NoTime
    /\ nextTok' = nextTok + 1
    /\ tok' = [tok EXCEPT ![w] = nextTok]
    /\ Send(w, AskClaim(nextTok, MaxMessages, MaxBytes))
    /\ Goto(w, "claiming")
    /\ UNCHANGED <<tableVars, now, orphans, drain, runc, streak, ledger, seen,
                   fillBy, ctx, hb, fin, err, hcall, history>>

\* newBatchLeaseManager; fillExecutionBatch opens the window.
ClaimReturn(w) ==
    /\ pc[w] = "claiming"
    /\ Acceptable(call[w])
    /\ now < call[w].req.until
    /\ ~runc
    /\ ledger' = [ledger EXCEPT ![w] = [j \in Jobs |->
                     IF j \in call[w].aff THEN call[w].req.until ELSE NoTime]]
    /\ hb' = [hb EXCEPT ![w] = "on"]
    /\ fillBy' = [fillBy EXCEPT ![w] = now + MaxWait]
    /\ Done(w)
    /\ Goto(w, "filling")
    /\ UNCHANGED <<tableVars, now, nextTok, orphans, serviceVars, tok, seen, ctx,
                   fin, err, hcall, history>>

\* ErrNoJobs
ClaimEmpty(w) ==
    /\ pc[w] = "claiming"
    /\ call[w].phase = "done" /\ call[w].aff = {}
    /\ LeaveBatch(w)
    /\ Done(w)
    /\ Goto(w, "idle")
    /\ UNCHANGED <<tableVars, now, nextTok, orphans, serviceVars, hcall, history>>

\* The Run context was cancelled during the claim: the rows go back.
ClaimCancelled(w) ==
    /\ pc[w] = "claiming"
    /\ call[w].phase = "done" /\ call[w].aff # {}
    /\ now < call[w].req.until
    /\ runc
    /\ Send(w, Ask("release", tok[w], call[w].aff, NoTime))
    /\ Goto(w, "cleanup")
    /\ UNCHANGED <<tableVars, now, nextTok, orphans, serviceVars, batchVars, hcall,
                   history>>

\* The claim failed, or its rows are refused or expired and left alone; or the
\* release of a cancelled claim came to its end, whatever it was.
ClaimFail(w) ==
    /\ pc[w] \in {"claiming", "cleanup"}
    /\ GiveUp(w)
    /\ LeaveBatch(w)
    /\ Die(w)
    /\ UNCHANGED <<tableVars, now, nextTok, drain, paused, streak, hcall, history>>

-----------------------------------------------------------------------------
(* Filling: fillExecutionBatch, claimExecutionBatchWithinFillWindow,       *)
(* selectBatchPayloadLimitWithUsed, add, releaseClaimedBatchTail.          *)

\* The batch ends before its handler: the gathered rows will be released.
Abandon(w, e) == SetErr(w, e) /\ Goto(w, "stopping")

\* The batch is full, or the window has closed.
FillFlush(w) ==
    /\ pc[w] = "filling"
    /\ Full(w) \/ now >= fillBy[w]
    /\ Goto(w, "admit")
    /\ UNCHANGED <<tableVars, now, nextTok, orphans, serviceVars, batchVars, calls,
                   history>>

\* A further claim under the same token, for what still fits.
FillClaim(w) ==
    /\ pc[w] = "filling"
    /\ ~Full(w) /\ now < fillBy[w]
    /\ \/ /\ drain
          /\ Abandon(w, IF Cancelled(w) THEN "error" ELSE "drain")
          /\ UNCHANGED call
       \/ /\ ~drain
          /\ Send(w, AskClaim(tok[w], MaxMessages - Cardinality(Out(w)),
                              MaxBytes - Bytes(Out(w))))
          /\ Goto(w, "fillClaiming")
          /\ UNCHANGED err
    /\ UNCHANGED <<tableVars, now, nextTok, orphans, serviceVars, tok, ledger, seen,
                   fillBy, ctx, hb, fin, hcall, history>>

FillReturn(w) ==
    /\ pc[w] = "fillClaiming"
    /\ Acceptable(call[w])
    /\ now < fillBy[w] /\ now < call[w].req.until
    /\ ~Cancelled(w)
    /\ Goto(w, "adding")
    /\ UNCHANGED <<tableVars, now, nextTok, orphans, serviceVars, batchVars, calls,
                   history>>

\* ErrNoJobs: wait for the poll interval, unless the window has closed.
FillEmpty(w) ==
    /\ pc[w] = "fillClaiming"
    /\ call[w].phase = "done" /\ call[w].aff = {}
    /\ ~Cancelled(w)
    /\ Goto(w, IF now < fillBy[w] THEN "polling" ELSE "admit")
    /\ Done(w)
    /\ UNCHANGED <<tableVars, now, nextTok, orphans, serviceVars, batchVars, hcall,
                   history>>

\* Rows came back after the window or the batch context ended: they go back.
FillLate(w) ==
    /\ pc[w] = "fillClaiming"
    /\ call[w].phase = "done" /\ call[w].aff # {}
    /\ now < call[w].req.until
    /\ now >= fillBy[w] \/ Cancelled(w)
    /\ Send(w, Ask("release", tok[w], call[w].aff, NoTime))
    /\ Goto(w, "fillCleanup")
    /\ UNCHANGED <<tableVars, now, nextTok, orphans, serviceVars, batchVars, hcall,
                   history>>

\* The claim ended with an error: at the end of the window the batch is
\* flushed without it, before that the error ends the batch.
FillFail(w) ==
    /\ pc[w] = "fillClaiming"
    /\ GiveUp(w)
    /\ \/ /\ now >= fillBy[w] /\ ~Cancelled(w)
          /\ Goto(w, "admit")
          /\ UNCHANGED err
       \/ /\ now < fillBy[w] \/ Cancelled(w)
          /\ Abandon(w, "error")
    /\ UNCHANGED <<tableVars, now, nextTok, serviceVars, tok, ledger, seen, fillBy,
                   ctx, hb, fin, hcall, history>>

\* The late rows were released, or not all of them.
FillCleaned(w) ==
    /\ pc[w] = "fillCleanup"
    /\ \/ /\ call[w].phase = "done" /\ call[w].aff = call[w].req.ids
          /\ ~Cancelled(w)
          /\ Done(w)
          /\ Goto(w, "admit")
          /\ UNCHANGED <<orphans, err>>
       \/ /\ GiveUp(w)
          /\ Abandon(w, "error")
    /\ UNCHANGED <<tableVars, now, nextTok, serviceVars, tok, ledger, seen, fillBy,
                   ctx, hb, fin, hcall, history>>

\* The poll timer, the end of the batch context or the drain signal.
FillPoll(w) ==
    /\ pc[w] = "polling"
    /\ \/ Goto(w, "filling") /\ UNCHANGED err
       \/ Cancelled(w) /\ Abandon(w, "error")
       \/ drain /\ Abandon(w, "drain")
    /\ UNCHANGED <<tableVars, now, nextTok, orphans, serviceVars, tok, ledger, seen,
                   fillBy, ctx, hb, fin, calls, history>>

\* Mutant of Selected: every claimed row is taken.
SelectedAll(w) == call[w].aff

\* selectBatchPayloadLimitWithUsed: the claimed rows, in order, while they fit.
Selected(w) ==
    {j \in call[w].aff :
        Bytes(Out(w)) + Bytes(Ahead(row, call[w].aff, j) \cup {j}) <= MaxBytes}

\* manager.add, and the release of the rows that did not fit.  A row that is
\* already outstanding, or a lease that has run out, ends the batch; the rows
\* before the duplicate have been added.
FillAdd(w) ==
    LET until == call[w].req.until
        tail == call[w].aff \ Selected(w)
        Add(S) == ledger' = [ledger EXCEPT ![w] =
                               [j \in Jobs |-> IF j \in S THEN until ELSE @[j]]]
    IN  /\ pc[w] = "adding"
        /\ hb[w] # "call"
        /\ \/ /\ now >= until /\ Selected(w) # {}
              /\ Abandon(w, "error")
              /\ Done(w)
              /\ UNCHANGED ledger
           \/ /\ now < until /\ Selected(w) \cap Out(w) # {}
              /\ \E S \in SUBSET (Selected(w) \ Out(w)) : Add(S)
              /\ Abandon(w, "error")
              /\ Done(w)
           \/ /\ now < until \/ Selected(w) = {}
              /\ Selected(w) \cap Out(w) = {}
              /\ Add(Selected(w))
              /\ IF tail = {} THEN Goto(w, "filling") /\ Done(w)
                 ELSE /\ Send(w, Ask("release", tok[w], tail, NoTime))
                      /\ Goto(w, "tailing")
              /\ UNCHANGED err
        /\ UNCHANGED <<tableVars, now, nextTok, orphans, serviceVars, tok, seen,
                       fillBy, ctx, hb, fin, hcall, history>>

\* A row that did not fit ends the filling.
TailReleased(w) ==
    /\ pc[w] = "tailing"
    /\ \/ /\ call[w].phase = "done" /\ call[w].aff = call[w].req.ids
          /\ Done(w)
          /\ Goto(w, "admit")
          /\ UNCHANGED <<orphans, err>>
       \/ /\ GiveUp(w)
          /\ Abandon(w, "error")
    /\ UNCHANGED <<tableVars, now, nextTok, serviceVars, tok, ledger, seen, fillBy,
                   ctx, hb, fin, hcall, history>>

-----------------------------------------------------------------------------
(* The heartbeat: run, extend, ensureLeasesLocked. *)

HbTick(w) ==
    LET target == now + ReserveFor
        need == NeedExtension(w, target)
    IN  /\ hb[w] = "on"
        /\ pc[w] \in Managing \ MuHeld
        /\ \/ /\ LeaseExpired(w)
              /\ FailLease(w)
              /\ hb' = [hb EXCEPT ![w] = "exited"]
              /\ UNCHANGED hcall
           \/ /\ ~LeaseExpired(w) /\ need # {}
              /\ hcall' = [hcall EXCEPT ![w] =
                             [phase |-> "sent", aff |-> {},
                              req |-> Ask("extend", tok[w], need, target + 1)]]
              /\ hb' = [hb EXCEPT ![w] = "call"]
              /\ UNCHANGED ctx
        /\ UNCHANGED <<tableVars, now, nextTok, orphans, serviceVars, pc, tok,
                       ledger, seen, fillBy, fin, err, call, history>>

HbExtended(w) ==
    /\ hb[w] = "call"
    /\ ExtensionHolds(w, hcall[w])
    /\ ~Cancelled(w)
    /\ RecordExtension(w, hcall[w])
    /\ hcall' = [hcall EXCEPT ![w] = NoCall]
    /\ hb' = [hb EXCEPT ![w] = "on"]
    /\ UNCHANGED <<tableVars, now, nextTok, orphans, serviceVars, pc, tok, seen,
                   fillBy, ctx, fin, err, call, history>>

\* A database error, a missed row, a passed deadline or a cancelled context.
HbFail(w) ==
    /\ hb[w] = "call"
    /\ FailLease(w)
    /\ hcall' = [hcall EXCEPT ![w] = NoCall]
    /\ Orphan(hcall[w])
    /\ hb' = [hb EXCEPT ![w] = "exited"]
    /\ UNCHANGED <<tableVars, now, nextTok, serviceVars, pc, tok, ledger, seen,
                   fillBy, fin, err, call, history>>

-----------------------------------------------------------------------------
(* Admission: admit, batchStartError.  The batch is admitted as a whole.    *)

Start(w) ==
    /\ started' = started \cup (Out(w) \X {tok[w]})
    /\ Goto(w, "handling")

AdmitRefused(w) ==
    /\ pc[w] = "admit"
    /\ hb[w] # "call"
    /\ \/ /\ Cancelled(w)
          /\ Abandon(w, "error")
          /\ UNCHANGED ctx
       \/ /\ ~Cancelled(w) /\ drain
          /\ Abandon(w, "drain")
          /\ UNCHANGED ctx
       \/ /\ ~Cancelled(w) /\ ~drain /\ LeaseExpired(w)
          /\ Abandon(w, "error")
          /\ FailLease(w)
    /\ UNCHANGED <<tableVars, now, nextTok, orphans, serviceVars, tok, ledger, seen,
                   fillBy, hb, fin, calls, history>>

\* A third of the lease must be left, or the leases are extended first.
Admit(w) ==
    LET target == now + ReserveFor
        need == IF MinDeadline(w) >= now + (ReserveFor \div 3)
                THEN {} ELSE NeedExtension(w, target)
    IN  /\ pc[w] = "admit"
        /\ hb[w] # "call"
        /\ ~Cancelled(w) /\ ~drain /\ ~LeaseExpired(w)
        /\ \/ /\ need = {}
              /\ Start(w)
              /\ UNCHANGED call
           \/ /\ need # {}
              /\ Send(w, Ask("extend", tok[w], need, target + 1))
              /\ Goto(w, "admitting")
              /\ UNCHANGED started
        /\ UNCHANGED <<tableVars, now, nextTok, orphans, serviceVars, batchVars,
                       hcall, succeeded>>

\* Mutant of AdmitExtended: the drain signal is not looked at again.
AdmitUnchecked(w) ==
    /\ pc[w] = "admitting"
    /\ ExtensionHolds(w, call[w])
    /\ ~Cancelled(w)
    /\ RecordExtension(w, call[w])
    /\ Done(w)
    /\ Start(w)
    /\ UNCHANGED <<tableVars, now, nextTok, orphans, serviceVars, tok, seen, fillBy,
                   ctx, hb, fin, err, hcall, succeeded>>

\* The drain signal is looked at again after the extension.
AdmitExtended(w) ==
    /\ pc[w] = "admitting"
    /\ ExtensionHolds(w, call[w])
    /\ ~Cancelled(w)
    /\ RecordExtension(w, call[w])
    /\ Done(w)
    /\ \/ drain /\ Abandon(w, "drain") /\ UNCHANGED started
       \/ ~drain /\ Start(w) /\ UNCHANGED err
    /\ UNCHANGED <<tableVars, now, nextTok, orphans, serviceVars, tok, seen, fillBy,
                   ctx, hb, fin, hcall, succeeded>>

AdmitFail(w) ==
    /\ pc[w] = "admitting"
    /\ FailLease(w)
    /\ GiveUp(w)
    /\ Abandon(w, "error")
    /\ UNCHANGED <<tableVars, now, nextTok, serviceVars, tok, ledger, seen, fillBy,
                   hb, fin, hcall, history>>

-----------------------------------------------------------------------------
(* HandleBatch returns: executeBatchHandler, finishExecutionBatch,         *)
(* topLevelBatchRetryTime, batchAttemptBackoff.                            *)

\* The batch was cancelled meanwhile: whatever the handler returned is dropped.
HandlerCancelled(w) ==
    /\ pc[w] = "handling"
    /\ Cancelled(w)
    /\ SetErr(w, "error")
    /\ Goto(w, "forgetting")
    /\ UNCHANGED <<tableVars, now, nextTok, orphans, serviceVars, tok, ledger, seen,
                   fillBy, ctx, hb, fin, calls, history>>

\* A panic, a permanent top-level error or a result that does not name every
\* job once stops the service; the leases are left to expire.
HandlerBroken(w) ==
    /\ pc[w] = "handling"
    /\ ~Cancelled(w)
    /\ TopOutcomes \cap {"panic", "permanent", "invalid"} # {}
    /\ SetErr(w, "error")
    /\ Goto(w, "forgetting")
    /\ UNCHANGED <<tableVars, now, nextTok, orphans, serviceVars, tok, ledger, seen,
                   fillBy, ctx, hb, fin, calls, history>>

\* batchAttemptBackoff
Backoff(attempt) == Min({RetryBase * 2^(attempt - 1), RetryMaximum})

\* Mutant of Pause: the last pause wins.
PauseLast(until) == paused' = until

\* pauseBatchCapability: the pause that ends later stays.
Pause(until) == paused' = IF until > paused THEN until ELSE paused

\* applyExecutionBatchOutcomes is entered; its budget starts now.
Finalize(w, plan) ==
    /\ fin' = [fin EXCEPT ![w] =
                 [plan |-> plan,
                  deadline |-> now + FinalTimeout
                      + DlqAllowance * Cardinality(OfKind(plan, Jobs, "dlq"))]]
    /\ Goto(w, "finalizing")

\* Every job of the batch goes back, with its attempt, until availableAt.
DeferAll(w, availableAt) ==
    Finalize(w, [j \in Jobs |-> IF j \in Out(w)
                                THEN [kind |-> "defer", avail |-> availableAt]
                                ELSE NoPlan[j]])

\* A transient top-level error: retry or defer at a time the handler names,
\* or an ordinary error or timeout, which lengthens the streak.
HandlerError(w, outcome, delay) ==
    /\ pc[w] = "handling"
    /\ ~Cancelled(w)
    /\ \/ /\ outcome = "defer"
          /\ DeferAll(w, now + delay)
          /\ Pause(now + delay)
          /\ UNCHANGED streak
       \/ /\ outcome = "fail"
          /\ streak' = streak + 1
          /\ DeferAll(w, now + Backoff(streak'))
          /\ Pause(now + Backoff(streak'))
    /\ UNCHANGED <<tableVars, now, nextTok, orphans, drain, runc, tok, ledger, seen,
                   fillBy, ctx, hb, err, calls, history>>

\* The outcome of job j when its item carries result o.
ItemOutcome(w, j, o, delay) ==
    CASE o = "ok" -> [kind |-> "success", avail |-> 0]
      [] o = "permanent" \/ (o # "defer" /\ seen[w][j] >= MaxAttempts) ->
           [kind |-> "dlq", avail |-> 0]
      [] o = "defer" -> [kind |-> "defer", avail |-> now + delay]
      [] o = "retry" -> [kind |-> "retry", avail |-> now + delay]
      [] OTHER -> [kind |-> "retry", avail |-> now + Backoff(seen[w][j])]

\* A valid result resets the streak; deferred items pause the capability
\* before anything is applied.  A retry policy that fails ends the batch, the
\* items before it having paused the capability or not.
HandlerResult(w, items, delay) ==
    LET plan == [j \in Jobs |-> IF j \in Out(w)
                                THEN ItemOutcome(w, j, items[j], delay)
                                ELSE NoPlan[j]]
        broken == \E j \in Out(w) : items[j] = "policyerr" /\ plan[j].kind = "retry"
        someDefer == OfKind(plan, Jobs, "defer") # {}
    IN  /\ pc[w] = "handling"
        /\ "result" \in TopOutcomes
        /\ ~Cancelled(w)
        /\ streak' = 0
        /\ \/ someDefer /\ Pause(now + delay)
           \/ (~someDefer \/ broken) /\ UNCHANGED paused
        /\ succeeded' = succeeded
              \cup ({j \in Out(w) : items[j] = "ok"} \X {tok[w]})
        /\ \/ broken /\ SetErr(w, "error") /\ Goto(w, "forgetting") /\ UNCHANGED fin
           \/ ~broken /\ Finalize(w, plan) /\ UNCHANGED err
        /\ UNCHANGED <<tableVars, now, nextTok, orphans, drain, runc, tok, ledger,
                       seen, fillBy, ctx, hb, calls, started>>

\* The handler calls runtime.Goexit: only deferred functions run from here.
HandlerExit(w) ==
    /\ pc[w] = "handling"
    /\ "goexit" \in TopOutcomes
    /\ runc' = TRUE
    /\ Goto(w, "unwinding")
    /\ UNCHANGED <<tableVars, now, nextTok, orphans, drain, paused, streak,
                   batchVars, calls, history>>

-----------------------------------------------------------------------------
(* Finalization: applyExecutionBatchOutcomes, finalizeAll, forgetAll.      *)

\* finalizeAll returned an error after the handler ran.
FinalError(w) == SetErr(w, "error") /\ Goto(w, "forgetting")

SendApply(w) ==
    /\ Send(w, [Ask("apply", tok[w], Out(w), NoTime) EXCEPT !.plan = fin[w].plan])
    /\ Goto(w, "applying")

\* LockContext gave up: the heartbeat held the mutex past the budget.
FinalizeTimeout(w) ==
    /\ pc[w] = "finalizing"
    /\ now >= fin[w].deadline
    /\ FinalError(w)
    /\ ctx' = [ctx EXCEPT ![w] = IF @ = "ok" THEN "stop" ELSE @]
    /\ UNCHANGED <<tableVars, now, nextTok, orphans, serviceVars, tok, ledger, seen,
                   fillBy, hb, fin, calls, history>>

\* Every lease must outlive the budget by the margin.
FinalizeLocked(w) ==
    LET required == fin[w].deadline + FinalMargin
        need == NeedExtension(w, required)
    IN  /\ pc[w] = "finalizing"
        /\ hb[w] # "call"
        /\ now < fin[w].deadline
        /\ \/ /\ LeaseExpired(w)
              /\ FailLease(w)
              /\ FinalError(w)
              /\ UNCHANGED call
           \/ /\ ~LeaseExpired(w)
              /\ \/ need = {} /\ SendApply(w)
                 \/ /\ need # {}
                    /\ Send(w, Ask("extend", tok[w], need, required + 1))
                    /\ Goto(w, "finalExtending")
              /\ UNCHANGED <<ctx, err>>
        /\ UNCHANGED <<tableVars, now, nextTok, orphans, serviceVars, tok, ledger,
                       seen, fillBy, hb, fin, hcall, history>>

\* finalizeCtx is detached from the batch context: only its deadline counts.
FinalExtended(w) ==
    /\ pc[w] = "finalExtending"
    /\ ExtensionHolds(w, call[w])
    /\ now < fin[w].deadline
    /\ RecordExtension(w, call[w])
    /\ SendApply(w)
    /\ UNCHANGED <<tableVars, now, nextTok, orphans, serviceVars, tok, seen, fillBy,
                   ctx, hb, fin, err, hcall, history>>

FinalExtendFail(w) ==
    /\ pc[w] = "finalExtending"
    /\ FailLease(w)
    /\ GiveUp(w)
    /\ FinalError(w)
    /\ UNCHANGED <<tableVars, now, nextTok, serviceVars, tok, ledger, seen, fillBy,
                   hb, fin, hcall, history>>

\* Every outcome was applied.
FinalConfirmed(w) ==
    /\ pc[w] = "applying"
    /\ call[w].phase = "done" /\ call[w].aff = call[w].req.ids
    /\ ledger' = [ledger EXCEPT ![w] = NoLedger]
    /\ fin' = [fin EXCEPT ![w] = NoFin]
    /\ Done(w)
    /\ Goto(w, "stopping")
    /\ UNCHANGED <<tableVars, now, nextTok, orphans, serviceVars, tok, seen, fillBy,
                   ctx, hb, err, hcall, history>>

\* A lease was missing and nothing was applied, or the outcome is unknown.
FinalFail(w) ==
    /\ pc[w] = "applying"
    /\ GiveUp(w)
    /\ FinalError(w)
    /\ UNCHANGED <<tableVars, now, nextTok, serviceVars, tok, ledger, seen, fillBy,
                   ctx, hb, fin, hcall, history>>

\* Mutant of ForgetAll: the started jobs stay outstanding.
ForgetNothing(w) ==
    /\ pc[w] = "forgetting"
    /\ hb[w] # "call"
    /\ fin' = [fin EXCEPT ![w] = NoFin]
    /\ Goto(w, "stopping")
    /\ UNCHANGED <<tableVars, now, nextTok, orphans, serviceVars, tok, ledger, seen,
                   fillBy, ctx, hb, err, calls, history>>

\* The started jobs leave the ledger without having been finalized.
ForgetAll(w) ==
    /\ pc[w] = "forgetting"
    /\ hb[w] # "call"
    /\ ledger' = [ledger EXCEPT ![w] = NoLedger]
    /\ fin' = [fin EXCEPT ![w] = NoFin]
    /\ Goto(w, "stopping")
    /\ UNCHANGED <<tableVars, now, nextTok, orphans, serviceVars, tok, seen, fillBy,
                   ctx, hb, err, calls, history>>

-----------------------------------------------------------------------------
(* The end of a batch: stopAndWait, releaseUnstarted, runWorker.           *)

\* findAndProcessExecutionBatch returns; a draining worker has no error.
Conclude(w, released) ==
    /\ LeaveBatch(w)
    /\ IF \/ err[w] = "drain"
          \/ err[w] = "none" /\ ctx[w] # "lease" /\ released
       THEN Goto(w, "idle") /\ UNCHANGED runc
       ELSE Die(w)

Stop(w) ==
    /\ pc[w] = "stopping"
    /\ hb[w] # "call"
    /\ \/ /\ Out(w) = {}
          /\ Conclude(w, TRUE)
          /\ UNCHANGED call
       \/ /\ Out(w) # {}
          /\ Send(w, Ask("release", tok[w], Out(w), NoTime))
          /\ hb' = [hb EXCEPT ![w] = "off"]
          /\ Goto(w, "releasing")
          /\ UNCHANGED <<runc, tok, ledger, seen, fillBy, ctx, fin, err>>
    /\ UNCHANGED <<tableVars, now, nextTok, orphans, drain, paused, streak, hcall,
                   history>>

Released(w) ==
    /\ pc[w] = "releasing"
    /\ \/ /\ call[w].phase = "done" /\ call[w].aff = call[w].req.ids
          /\ Done(w) /\ UNCHANGED orphans
          /\ Conclude(w, TRUE)
       \/ GiveUp(w) /\ Conclude(w, FALSE)
    /\ UNCHANGED <<tableVars, now, nextTok, drain, paused, streak, hcall, history>>

\* The deferred functions of a worker whose handler called Goexit have run.
Unwind(w) ==
    /\ pc[w] = "unwinding"
    /\ hb[w] # "call"
    /\ LeaveBatch(w)
    /\ Goto(w, "dead")
    /\ UNCHANGED <<tableVars, now, nextTok, orphans, serviceVars, calls, history>>

WorkerExit(w) ==
    /\ pc[w] = "idle"
    /\ runc \/ drain
    /\ Goto(w, "dead")
    /\ UNCHANGED <<tableVars, now, nextTok, orphans, serviceVars, batchVars, calls,
                   history>>

-----------------------------------------------------------------------------
(* The host: Run, BeginDrain, cancellation, and a crash of the process.    *)

CancelRun ==
    /\ "cancel" \in HostEvents
    /\ ~runc
    /\ runc' = TRUE
    /\ UNCHANGED <<tableVars, now, nextTok, orphans, drain, paused, streak, pc,
                   batchVars, calls, history>>

\* The write lock of claimMu waits for the claims in flight.
BeginDrain ==
    /\ "drain" \in HostEvents
    /\ ~drain
    /\ \A w \in Workers : pc[w] \notin {"claiming", "fillClaiming"}
    /\ drain' = TRUE
    /\ UNCHANGED <<tableVars, now, nextTok, orphans, runc, paused, streak, pc,
                   batchVars, calls, history>>

\* Run starts the workers, again or in a new process.
Run ==
    /\ \A w \in Workers : pc[w] = "dead"
    /\ pc' = [w \in Workers |-> "idle"]
    /\ runc' = FALSE
    /\ UNCHANGED <<tableVars, now, nextTok, orphans, drain, paused, streak,
                   batchVars, calls, history>>

\* The process dies: its memory is gone, its statements may still run.
Crash ==
    LET sent == {c.req : c \in {d \in {call[w] : w \in Workers}
                                   \cup {hcall[w] : w \in Workers} :
                                d.phase = "sent"}}
    IN  /\ "crash" \in HostEvents
        /\ \E late \in SUBSET sent :
             /\ late = {} \/ Cardinality(orphans \cup late) <= MaxOrphans
             /\ orphans' = orphans \cup late
        /\ drain' = FALSE /\ runc' = TRUE /\ paused' = NoTime /\ streak' = 0
        /\ pc' = [w \in Workers |-> "dead"]
        /\ tok' = [w \in Workers |-> NoToken]
        /\ ledger' = [w \in Workers |-> NoLedger]
        /\ seen' = [w \in Workers |-> [j \in Jobs |-> 0]]
        /\ fillBy' = [w \in Workers |-> 0]
        /\ ctx' = [w \in Workers |-> "ok"]
        /\ hb' = [w \in Workers |-> "off"]
        /\ fin' = [w \in Workers |-> NoFin]
        /\ err' = [w \in Workers |-> "none"]
        /\ call' = [w \in Workers |-> NoCall]
        /\ hcall' = [w \in Workers |-> NoCall]
        /\ UNCHANGED <<tableVars, now, nextTok, history>>

-----------------------------------------------------------------------------
WorkerStep(w) ==
    \/ DbExec(w) \/ HbExec(w)
    \/ ClaimStart(w) \/ ClaimReturn(w) \/ ClaimEmpty(w) \/ ClaimCancelled(w)
    \/ ClaimFail(w)
    \/ FillFlush(w) \/ FillClaim(w) \/ FillReturn(w) \/ FillEmpty(w)
    \/ FillLate(w) \/ FillFail(w) \/ FillCleaned(w) \/ FillPoll(w)
    \/ FillAdd(w) \/ TailReleased(w)
    \/ HbTick(w) \/ HbExtended(w) \/ HbFail(w)
    \/ AdmitRefused(w) \/ Admit(w) \/ AdmitExtended(w) \/ AdmitFail(w)
    \/ HandlerCancelled(w) \/ HandlerBroken(w) \/ HandlerExit(w)
    \/ \E outcome \in TopOutcomes, delay \in Delays : HandlerError(w, outcome, delay)
    \/ \E items \in [Out(w) -> ItemOutcomes], delay \in Delays :
           HandlerResult(w, items, delay)
    \/ FinalizeTimeout(w) \/ FinalizeLocked(w) \/ FinalExtended(w)
    \/ FinalExtendFail(w) \/ FinalConfirmed(w) \/ FinalFail(w) \/ ForgetAll(w)
    \/ Stop(w) \/ Released(w) \/ Unwind(w) \/ WorkerExit(w)

Next ==
    \/ Tick
    \/ \E j \in Jobs : Put(j)
    \/ \E r \in orphans : OrphanExec(r)
    \/ \E w \in Workers : WorkerStep(w)
    \/ CancelRun \/ BeginDrain \/ Run \/ Crash

Spec == Init /\ [][Next]_vars

-----------------------------------------------------------------------------
(* Properties. *)

\* Worker w has itself settled its jobs in the table (applied or released
\* them), or does not know whether it has.
Settling(w) ==
    \/ call[w].phase = "done" /\ call[w].req.kind = "apply"
    \/ pc[w] = "releasing" /\ call[w].phase = "done"
    \/ pc[w] = "forgetting"

(***************************************************************************)
(* The deadline ledger of a batch that is still being filled never         *)
(* promises more than the table: until the manager declares the leases     *)
(* lost, an outstanding job whose deadline lies ahead is reserved under    *)
(* the batch's token at least until then, although fill claims, the        *)
(* heartbeat and releases of rows that did not fit run side by side.       *)
(***************************************************************************)
LedgerSound ==
    \A w \in Workers : \A j \in Out(w) :
        ctx[w] # "lease" /\ ledger[w][j] > now /\ ~Settling(w)
            => /\ row[j].live /\ row[j].tok = tok[w]
               /\ row[j].until >= ledger[w][j]

(***************************************************************************)
(* HandleBatch never sees more than MaxMessages jobs or, unless it is a    *)
(* single oversized job, more than MaxBytes of payload, however many fill  *)
(* claims the batch was gathered from.                                     *)
(***************************************************************************)
BatchBounded ==
    \A w \in Workers :
        pc[w] = "handling" =>
            /\ Out(w) # {} /\ Cardinality(Out(w)) <= MaxMessages
            /\ Bytes(Out(w)) <= MaxBytes \/ Cardinality(Out(w)) = 1

(***************************************************************************)
(* The outcomes of a batch are applied together or not at all, and only    *)
(* once: what was ever applied under a token is nothing, or everything a   *)
(* handler saw under it, whatever leases were lost on the way.             *)
(***************************************************************************)
AllOrNothing ==
    \A t \in 1..MaxToken :
        {j \in Jobs : <<j, t>> \in applied}
            \in {{}, {j \in Jobs : <<j, t>> \in started}}

(***************************************************************************)
(* A job leaves the jobs table only into jobs_failed, or after HandleBatch *)
(* reported success for it under the very lease that removed it, and is    *)
(* never in both tables: createExecutionBatchDLQRecords shares the         *)
(* transaction of the outcomes.                                            *)
(***************************************************************************)
RemovalJustified ==
    \A j \in Jobs :
        /\ ~row[j].live /\ row[j].tok # NoToken /\ j \notin dlq
               => <<j, row[j].tok>> \in succeeded
        /\ j \in dlq => ~row[j].live

(***************************************************************************)
(* Attempts are never undercounted: a job has been counted at least once   *)
(* per lease HandleBatch saw it under, deferred runs apart.                *)
(***************************************************************************)
StartsCounted ==
    \A j \in Jobs :
        Cardinality({t \in 1..MaxToken : <<j, t>> \in started \ deferred})
            <= row[j].attempts

\* No HandleBatch call starts after BeginDrain has returned, also not for a
\* batch whose fill window or admission was open at that moment.
NoStartAfterDrain ==
    [][\A w \in Workers :
         drain /\ pc[w] # "handling" => pc'[w] # "handling"]_vars

\* A pause ends by time only: another worker's result, success or shorter
\* pause never cuts it short within a process.
PauseKept ==
    [][paused' < paused => paused <= now \/ pc' = [w \in Workers |-> "dead"]]_vars

=============================================================================
