---------------------------- MODULE PicodataRepo ----------------------------
(***************************************************************************)
(* The Picodata repository, statement by statement.  It has no             *)
(* transactions: RunInTx of its BestEffortRunner only calls its argument,  *)
(* so every statement takes effect at once.  A claim is of one row: it     *)
(* selects candidates and tries to reserve them one by one, comparing      *)
(* attempts with what it read; available_at is not compared again.         *)
(***************************************************************************)
EXTENDS RepoClient

Pico(p, pc) == backend = "picodata" /\ proc[p].pc = pc

PicoCreate(j) ==
    /\ backend = "picodata" /\ Enqueueable(j)
    /\ jobs' = CreateJob(jobs, j, now)
    /\ UNCHANGED <<backend, failed, tx, writer, now, nextTok, proc, granted, succeeded>>

PicoCall(p) ==
    /\ backend = "picodata"
    /\ \/ CallClaim(p, "claim", "select")
       \/ \E kind \in {"extend", "release", "ack", "retry", "defer"} :
             CallLeased(p, kind, proc[p].held, NoPlan, "statement")
       \/ CallLeased(p, "dlq", proc[p].held, NoPlan, "insert")

\* Up to ten candidates in durable order, each with the attempts it had.
PicoSelect(p) ==
    LET U == Ready(jobs, proc[p].now)
        ordered == SetToSortSeq(FirstOf(jobs, U, 10), LAMBDA i, j : Before(jobs, i, j))
    IN /\ Pico(p, "select")
       /\ proc' = [proc EXCEPT ![p] =
              IF U = {} THEN Idle
              ELSE [@ EXCEPT !.pc = "cas",
                             !.cand = [i \in DOMAIN ordered |->
                                         [job |-> ordered[i], attempts |-> jobs[ordered[i]].attempts]]]]
       /\ UNCHANGED <<backend, jobs, failed, tx, writer, now, nextTok, granted, succeeded>>

\* Mutant of PicoMatches: nothing but the id and attempts is compared.
PicoMatchesAttempts(p, c) ==
    jobs[c.job].live /\ jobs[c.job].attempts = c.attempts

\* The WHERE clause of the reservation.
PicoMatches(p, c) ==
    /\ jobs[c.job].live /\ jobs[c.job].attempts = c.attempts
    /\ jobs[c.job].until <= proc[p].now

\* One candidate is tried; the next one if it is gone, until none is left.
PicoCas(p) ==
    LET c == Head(proc[p].cand)
    IN /\ Pico(p, "cas")
       /\ \/ /\ PicoMatches(p, c)
             /\ jobs' = Reserve(jobs, {c.job}, proc[p].tok, proc[p].until)
             /\ Claimed(p, {c.job}, proc[p].until)
          \/ /\ ~PicoMatches(p, c)
             /\ proc' = [proc EXCEPT ![p] = IF Len(@.cand) = 1 THEN Idle
                                            ELSE [@ EXCEPT !.cand = Tail(@)]]
             /\ UNCHANGED <<jobs, granted>>
       /\ UNCHANGED <<backend, failed, tx, writer, now, nextTok, succeeded>>

PicoFenced(p) == Fenced(jobs, proc[p].ids, proc[p].tok, proc[p].now)

PicoStatement(p, kind, S, t) ==
    /\ Pico(p, "statement") /\ proc[p].kind = kind
    /\ jobs' = t
    /\ Returned(p, S)
    /\ UNCHANGED <<backend, failed, tx, writer, now, nextTok, granted, succeeded>>

PicoExtend(p) ==
    PicoStatement(p, "extend", PicoFenced(p), ExtendLeases(jobs, PicoFenced(p), proc[p].until))

PicoRelease(p) ==
    LET S == Counted(jobs, PicoFenced(p))
    IN PicoStatement(p, "release", S, ReleaseUnstarted(jobs, S))

PicoReschedule(p) ==
    PicoStatement(p, "retry", PicoFenced(p), Reschedule(jobs, PicoFenced(p), proc[p].until))

PicoDefer(p) ==
    LET S == Counted(jobs, PicoFenced(p))
    IN PicoStatement(p, "defer", S, Defer(jobs, S, proc[p].until))

PicoDelete(p) == PicoStatement(p, "ack", PicoFenced(p), DeleteJobs(jobs, PicoFenced(p)))

\* Mutant of PicoDlqInsert: the row is removed before its dead letter is written.
PicoDlqSkipped(p) ==
    /\ Pico(p, "insert")
    /\ proc' = [proc EXCEPT ![p].pc = "remove", ![p].now = now]
    /\ UNCHANGED <<backend, jobs, failed, tx, writer, now, nextTok, granted, succeeded>>

\* The dead letter is committed at once; the fence's clock is read after it.
PicoDlqInsert(p) ==
    /\ Pico(p, "insert")
    /\ failed' = [j \in Jobs |-> IF j \in proc[p].ids THEN failed[j] + 1 ELSE failed[j]]
    /\ proc' = [proc EXCEPT ![p].pc = "remove", ![p].now = now]
    /\ UNCHANGED <<backend, jobs, tx, writer, now, nextTok, granted, succeeded>>

\* DeleteJobWithLease inside dlqBatch: if the lease is gone, the dead letter stays.
PicoDlqDelete(p) ==
    /\ Pico(p, "remove")
    /\ jobs' = DeleteJobs(jobs, PicoFenced(p))
    /\ Returned(p, PicoFenced(p))
    /\ UNCHANGED <<backend, failed, tx, writer, now, nextTok, granted, succeeded>>

PicoNext ==
    \/ \E j \in Jobs : PicoCreate(j)
    \/ \E p \in Procs :
          \/ PicoCall(p) \/ PicoSelect(p) \/ PicoCas(p)
          \/ PicoExtend(p) \/ PicoRelease(p) \/ PicoReschedule(p) \/ PicoDefer(p) \/ PicoDelete(p)
          \/ PicoDlqInsert(p) \/ PicoDlqDelete(p)
=============================================================================
