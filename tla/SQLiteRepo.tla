----------------------------- MODULE SQLiteRepo -----------------------------
(***************************************************************************)
(* The SQLite repository, statement by statement.  One connection writes   *)
(* at a time: a claim takes the write lock with BEGIN IMMEDIATE on a       *)
(* connection of its own, a RunInTx transaction with its first writing     *)
(* statement, and a statement outside a transaction for as long as it      *)
(* runs.  Times are stored and compared in milliseconds.                   *)
(***************************************************************************)
EXTENDS RepoClient

Sq(p, pc) == backend = "sqlite" /\ proc[p].pc = pc

SqCreate(j) ==
    /\ backend = "sqlite" /\ writer = None /\ Enqueueable(j)
    /\ jobs' = CreateJob(jobs, j, Col(now))
    /\ UNCHANGED <<backend, failed, tx, writer, now, nextTok, proc, granted, succeeded>>

SqCall(p) ==
    /\ backend = "sqlite"
    /\ \/ \E kind \in {"claim", "bounded"} : CallClaim(p, kind, "begin")
       \/ \E kind \in {"extend", "release"} :
             CallLeased(p, kind, proc[p].held, NoPlan, "statement")
       \/ \E j \in proc[p].held :
             \/ \E kind \in {"ack", "retry"} : CallLeased(p, kind, {j}, NoPlan, "statement")
             \/ CallLeased(p, "dlq", {j}, OneOutcome({j}, "dlq", 0), "insert")
             \/ CallLeased(p, "defer", {j}, OneOutcome({j}, "defer", now + Delay), "delete")
       \/ \E plan \in Plans(proc[p].held) : CallLeased(p, "apply", proc[p].held, plan, "insert")

\* BEGIN IMMEDIATE waits for the write lock.
SqBegin(p) ==
    /\ Sq(p, "begin") /\ writer = None
    /\ writer' = p
    /\ proc' = [proc EXCEPT ![p].pc = "pick"]
    /\ UNCHANGED <<backend, jobs, failed, tx, now, nextTok, granted, succeeded>>

\* Mutant of SqBeginFailed: the connection goes back to the pool as it is.
SqBeginKept(p) ==
    /\ Sq(p, "begin")
    /\ proc' = [proc EXCEPT ![p] = Idle]
    /\ writer' = IF writer = None THEN p ELSE writer
    /\ UNCHANGED <<backend, jobs, failed, tx, now, nextTok, granted, succeeded>>

\* BEGIN reports an error, for instance a cancellation, although the
\* transaction may have been opened: the connection is discarded.
SqBeginFailed(p) ==
    /\ Sq(p, "begin")
    /\ proc' = [proc EXCEPT ![p] = Idle]
    /\ UNCHANGED <<backend, jobs, failed, tx, writer, now, nextTok, granted, succeeded>>

\* The rows the SELECT of the claim finds.
SqSelected(p) ==
    LET U == Ready(jobs, Col(proc[p].now))
    IN IF proc[p].kind = "bounded" THEN Bounded(jobs, U, Limit, MaxBytes)
       ELSE FirstOf(jobs, U, Limit)

(***************************************************************************)
(* findAndReserveBatchWithExecutor and its bounded form: the selected rows *)
(* are updated by id alone.  With none the transaction is rolled back.     *)
(***************************************************************************)
SqPick(p) ==
    LET S == SqSelected(p)
    IN /\ Sq(p, "pick")
       /\ \/ /\ S = {}
             /\ writer' = None
             /\ proc' = [proc EXCEPT ![p] = Idle]
             /\ UNCHANGED tx
          \/ /\ S # {}
             /\ proc' = [proc EXCEPT ![p].pc = "commit"]
             /\ tx' = [tx EXCEPT ![p] =
                          Staged(p, Reserve(jobs, S, proc[p].tok, Col(proc[p].until)), S)]
             /\ UNCHANGED writer
       /\ UNCHANGED <<backend, jobs, failed, now, nextTok, granted, succeeded>>

\* The plain claim answers with the deadline it was given, the bounded one
\* with the deadline it reads back.
SqDeadline(p) ==
    IF proc[p].kind = "bounded" THEN Col(proc[p].until) * Ticks ELSE proc[p].until

SqClaimCommit(p) ==
    /\ Sq(p, "commit") /\ proc[p].kind \in {"claim", "bounded"}
    /\ Claimed(p, tx[p].lock, SqDeadline(p))
    /\ Committed(p)
    /\ writer' = None
    /\ UNCHANGED <<backend, now, nextTok, succeeded>>

SqFenced(p) == Fenced(View(p), proc[p].ids, proc[p].tok, Col(proc[p].now))

\* A statement of its own that turns the rows S into those of t.
SqStatement(p, kind, S, t) ==
    /\ Sq(p, "statement") /\ proc[p].kind = kind
    /\ writer = None
    /\ jobs' = t
    /\ Returned(p, S)
    /\ UNCHANGED <<backend, failed, tx, writer, now, nextTok, granted, succeeded>>

SqExtend(p) ==
    SqStatement(p, "extend", SqFenced(p), ExtendLeases(jobs, SqFenced(p), Col(proc[p].until)))

SqRelease(p) ==
    LET S == Counted(jobs, SqFenced(p))
    IN SqStatement(p, "release", S, ReleaseUnstarted(jobs, S))

SqDelete(p) == SqStatement(p, "ack", SqFenced(p), DeleteJobs(jobs, SqFenced(p)))

SqReschedule(p) ==
    SqStatement(p, "retry", SqFenced(p), Reschedule(jobs, SqFenced(p), Col(proc[p].until)))

-----------------------------------------------------------------------------
\* Inserts into jobs_failed; the first takes the write lock.  The caller
\* reads the clock for the fence after them.
SqDlqInsert(p) ==
    LET D == PlannedAs(p, {"dlq"})
    IN /\ Sq(p, "insert")
       /\ \/ D = {} /\ UNCHANGED writer
          \/ D # {} /\ writer = None /\ writer' = p
       /\ \A j \in D : failed[j] = 0
       /\ tx' = [tx EXCEPT ![p].ins = D]
       /\ proc' = [proc EXCEPT ![p].pc = "delete", ![p].now = now]
       /\ UNCHANGED <<backend, jobs, failed, now, nextTok, granted, succeeded>>

\* deleteBatchTerminalOutcomes, and DeleteJobWithLease inside dlqBatch
SqApplyDelete(p) ==
    LET S == SqFenced(p) \cap PlannedAs(p, {"success", "dlq"})
    IN /\ Sq(p, "delete")
       /\ writer \in {None, p} /\ writer' = p
       /\ tx' = [tx EXCEPT ![p] = Staged(p, DeleteJobs(View(p), S), S)]
       /\ proc' = [proc EXCEPT ![p].pc = IF proc[p].kind = "dlq" THEN "settle" ELSE "update"]
       /\ UNCHANGED <<backend, jobs, failed, now, nextTok, granted, succeeded>>

\* sqliteBatchOutcomeInput: the new available_at in milliseconds.
SqInput(plan) == [j \in Jobs |-> [plan[j] EXCEPT !.avail = Col(@)]]

\* updateBatchRetryOutcomes
SqApplyUpdate(p) ==
    LET S == Counted(View(p), SqFenced(p) \cap PlannedAs(p, {"retry", "defer"}))
    IN /\ Sq(p, "update")
       /\ tx' = [tx EXCEPT ![p] = Staged(p, ApplyOutcomes(View(p), SqInput(proc[p].plan), S), S)]
       /\ proc' = [proc EXCEPT ![p].pc = "settle"]
       /\ UNCHANGED <<backend, jobs, failed, writer, now, nextTok, granted, succeeded>>

\* Every outcome of the call found its row.
SqWhole(p) == tx[p].lock = proc[p].ids

\* RunInTx commits when every outcome was applied, and rolls back otherwise.
SqSettle(p) ==
    /\ Sq(p, "settle")
    /\ Returned(p, tx[p].lock)
    /\ \/ SqWhole(p) /\ Committed(p)
       \/ ~SqWhole(p) /\ tx' = [tx EXCEPT ![p] = NoTx] /\ UNCHANGED <<jobs, failed>>
    /\ writer' = None
    /\ UNCHANGED <<backend, now, nextTok, granted, succeeded>>

SqNext ==
    \/ \E j \in Jobs : SqCreate(j)
    \/ \E p \in Procs :
          \/ SqCall(p) \/ SqBegin(p) \/ SqBeginFailed(p) \/ SqPick(p) \/ SqClaimCommit(p)
          \/ SqExtend(p) \/ SqRelease(p) \/ SqDelete(p) \/ SqReschedule(p)
          \/ SqDlqInsert(p) \/ SqApplyDelete(p) \/ SqApplyUpdate(p) \/ SqSettle(p)
=============================================================================
