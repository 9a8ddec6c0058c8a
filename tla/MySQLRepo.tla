----------------------------- MODULE MySQLRepo -----------------------------
(***************************************************************************)
(* The MySQL repository, statement by statement.  A claim selects its      *)
(* candidates outside any transaction, reserves those that are still free  *)
(* in a READ COMMITTED transaction and starts over when none is left.  A   *)
(* statement waits for rows another transaction has changed; it then sees  *)
(* their latest committed version.  RowsAffected counts changed rows.      *)
(***************************************************************************)
EXTENDS RepoClient

My(p, pc) == backend = "mysql" /\ proc[p].pc = pc

\* No statement of p on the rows S has to wait for another transaction.
MyLockable(p, S) == S \cap LockedOut(p) = {}

MyCreate(j) ==
    /\ backend = "mysql" /\ Enqueueable(j)
    /\ jobs' = CreateJob(jobs, j, now)
    /\ UNCHANGED <<backend, failed, tx, writer, now, nextTok, proc, granted, succeeded>>

MyCall(p) ==
    /\ backend = "mysql"
    /\ \/ \E kind \in {"claim", "bounded"} : CallClaim(p, kind, "select")
       \/ \E kind \in {"extend", "release"} :
             CallLeased(p, kind, proc[p].held, NoPlan, "statement")
       \/ \E j \in proc[p].held :
             \/ \E kind \in {"ack", "retry"} : CallLeased(p, kind, {j}, NoPlan, "statement")
             \/ CallLeased(p, "dlq", {j}, OneOutcome({j}, "dlq", 0), "insert")
             \/ CallLeased(p, "defer", {j}, OneOutcome({j}, "defer", now + Delay), "delete")
       \/ \E plan \in Plans(proc[p].held) : CallLeased(p, "apply", proc[p].held, plan, "insert")

\* findBatchCandidateIDs, findBoundedBatchCandidateIDs
MySelected(p) ==
    LET U == Ready(jobs, proc[p].now)
    IN IF proc[p].kind = "bounded" THEN Bounded(jobs, U, Limit, MaxBytes)
       ELSE FirstOf(jobs, U, Limit)

MySelect(p) ==
    /\ My(p, "select")
    /\ proc' = [proc EXCEPT ![p] = IF MySelected(p) = {} THEN Idle
                                   ELSE [@ EXCEPT !.pc = "reserve", !.ids = MySelected(p)]]
    /\ UNCHANGED <<backend, jobs, failed, tx, writer, now, nextTok, granted, succeeded>>

\* Mutant of MyFree: the candidates are reserved as they were selected.
MyFreeUnchecked(p) == proc[p].ids

\* The UPDATE's own WHERE clause on the candidates.
MyFree(p) == Ready(View(p), proc[p].now) \cap proc[p].ids

\* reserveBatchCandidates: reserve, or roll back and select again.
MyReserve(p) ==
    /\ My(p, "reserve")
    /\ MyLockable(p, proc[p].ids)
    /\ \/ /\ MyFree(p) = {}
          /\ proc' = [proc EXCEPT ![p].pc = "select", ![p].ids = {}]
          /\ UNCHANGED tx
       \/ /\ MyFree(p) # {}
          /\ proc' = [proc EXCEPT ![p].pc = "commit"]
          /\ tx' = [tx EXCEPT ![p] =
                       Staged(p, Reserve(View(p), MyFree(p), proc[p].tok, proc[p].until), MyFree(p))]
    /\ UNCHANGED <<backend, jobs, failed, writer, now, nextTok, granted, succeeded>>

\* It returns the rows it loaded by their new token, with the stored deadline.
MyClaimCommit(p) ==
    /\ My(p, "commit") /\ proc[p].kind \in {"claim", "bounded"}
    /\ Claimed(p, tx[p].lock, proc[p].until)
    /\ Committed(p)
    /\ UNCHANGED <<backend, writer, now, nextTok, succeeded>>

\* A statement of its own that turns the rows S into those of t.
MyStatement(p, kind, S, t) ==
    /\ My(p, "statement") /\ proc[p].kind = kind
    /\ MyLockable(p, proc[p].ids)
    /\ jobs' = t
    /\ Returned(p, {j \in S : t[j] # jobs[j]})
    /\ UNCHANGED <<backend, failed, tx, writer, now, nextTok, granted, succeeded>>

MyFenced(p) == Fenced(View(p), proc[p].ids, proc[p].tok, proc[p].now)

MyExtend(p) ==
    MyStatement(p, "extend", MyFenced(p), ExtendLeases(jobs, MyFenced(p), proc[p].until))

MyRelease(p) ==
    LET S == Counted(jobs, MyFenced(p))
    IN MyStatement(p, "release", S, ReleaseUnstarted(jobs, S))

MyDelete(p) == MyStatement(p, "ack", MyFenced(p), DeleteJobs(jobs, MyFenced(p)))

MyReschedule(p) ==
    MyStatement(p, "retry", MyFenced(p), Reschedule(jobs, MyFenced(p), proc[p].until))

-----------------------------------------------------------------------------
(***************************************************************************)
(* The inserts into jobs_failed come first, in the transaction; job_id is  *)
(* unique there, so a second insert waits for a first and then fails.  The *)
(* caller reads the clock for the fence after them.                        *)
(***************************************************************************)
MyDlqInsert(p) ==
    LET D == PlannedAs(p, {"dlq"})
    IN /\ My(p, "insert")
       /\ \A j \in D : failed[j] = 0 /\ \A q \in Procs \ {p} : j \notin tx[q].ins
       /\ tx' = [tx EXCEPT ![p].ins = D]
       /\ proc' = [proc EXCEPT ![p].pc = "delete", ![p].now = now]
       /\ UNCHANGED <<backend, jobs, failed, writer, now, nextTok, granted, succeeded>>

\* deleteBatchTerminalOutcomes, and DeleteJobWithLease inside dlqBatch
MyApplyDelete(p) ==
    LET S == MyFenced(p) \cap PlannedAs(p, {"success", "dlq"})
    IN /\ My(p, "delete")
       /\ MyLockable(p, PlannedAs(p, {"success", "dlq"}))
       /\ tx' = [tx EXCEPT ![p] = Staged(p, DeleteJobs(View(p), S), S)]
       /\ proc' = [proc EXCEPT ![p].pc = IF proc[p].kind = "dlq" THEN "settle" ELSE "update"]
       /\ UNCHANGED <<backend, jobs, failed, writer, now, nextTok, granted, succeeded>>

\* updateBatchRetryOutcomes
MyApplyUpdate(p) ==
    LET S == Counted(View(p), MyFenced(p) \cap PlannedAs(p, {"retry", "defer"}))
    IN /\ My(p, "update")
       /\ MyLockable(p, PlannedAs(p, {"retry", "defer"}))
       /\ tx' = [tx EXCEPT ![p] = Staged(p, ApplyOutcomes(View(p), proc[p].plan, S), S)]
       /\ proc' = [proc EXCEPT ![p].pc = "settle"]
       /\ UNCHANGED <<backend, jobs, failed, writer, now, nextTok, granted, succeeded>>

\* Mutant of MyWhole: the number of affected rows is not compared.
MyWholeUnchecked(p) == TRUE

\* Every outcome of the call found its row.
MyWhole(p) == tx[p].lock = proc[p].ids

\* RunInTx commits when every outcome was applied, and rolls back otherwise.
MySettle(p) ==
    /\ My(p, "settle")
    /\ Returned(p, tx[p].lock)
    /\ \/ MyWhole(p) /\ Committed(p)
       \/ ~MyWhole(p) /\ tx' = [tx EXCEPT ![p] = NoTx] /\ UNCHANGED <<jobs, failed>>
    /\ UNCHANGED <<backend, writer, now, nextTok, granted, succeeded>>

MyNext ==
    \/ \E j \in Jobs : MyCreate(j)
    \/ \E p \in Procs :
          \/ MyCall(p) \/ MySelect(p) \/ MyReserve(p) \/ MyClaimCommit(p)
          \/ MyExtend(p) \/ MyRelease(p) \/ MyDelete(p) \/ MyReschedule(p)
          \/ MyDlqInsert(p) \/ MyApplyDelete(p) \/ MyApplyUpdate(p) \/ MySettle(p)
=============================================================================
