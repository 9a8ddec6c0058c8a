----------------------------- MODULE RepoClient -----------------------------
(***************************************************************************)
(* The state the three other backends share, and the calls a worker makes. *)
(*                                                                         *)
(* JobsRepo takes a repository call as one step.  MySQLRepo, SQLiteRepo    *)
(* and PicodataRepo take it apart into the statements the code issues, and *)
(* this module has what these have in common: committed tables, the        *)
(* changes an open transaction has staged and the rows it keeps locked,    *)
(* and for every worker process the call it is in and the rows it believes *)
(* it holds.  A process makes one call at a time.  It may fail at any      *)
(* point (crash, cancelled context, lost connection, deadlock victim, lock *)
(* wait timeout): its open transaction is rolled back, what it committed   *)
(* stays, and it forgets the rows it held.                                 *)
(***************************************************************************)
EXTENDS BatchRepo, SequencesExt

CONSTANTS
    Procs,         \* worker processes
    Backends,      \* the databases to start from
    Limit,         \* limit of a claim, MaxMessages of a bounded one
    MaxBytes,      \* MaxBytes of a bounded claim
    ReserveFor,    \* how long a lease lasts
    BatchKinds,    \* the outcomes the rows of a batch get
    Delay,         \* how far a retry or a defer puts a row off
    Ticks,         \* clock ticks per SQLite millisecond
    MaxTime,       \* bound on the clock
    MaxToken       \* bound on the lease tokens handed out

None == "none"

VARIABLES
    backend,       \* the database this behaviour runs on
    jobs,          \* committed rows of jobs
    failed,        \* failed[j]: committed rows of jobs_failed for job j
    tx,            \* tx[p]: what p's open transaction has staged
    writer,        \* SQLite: the process whose connection has the write lock
    now,           \* wall clock
    nextTok,       \* the next lease token
    proc,          \* proc[p]: p's call in progress and what p holds
    granted,       \* tokens some row was ever claimed under
    succeeded      \* jobs a process ever reported as done

vars == <<backend, jobs, failed, tx, writer, now, nextTok, proc, granted, succeeded>>

NoTx == [lock |-> {}, new |-> [j \in Jobs |-> NoRow], ins |-> {}]

Idle == [pc |-> "idle", kind |-> None, ids |-> {}, now |-> 0, until |-> 0,
         plan |-> NoPlan, cand |-> <<>>, tok |-> NoToken, held |-> {}, due |-> 0]

\* A time as the columns of the database keep it: SQLite truncates to milliseconds.
Col(t) == IF backend = "sqlite" THEN t \div Ticks ELSE t

Init ==
    /\ backend \in Backends
    /\ jobs = [j \in Jobs |-> NoRow]
    /\ failed = [j \in Jobs |-> 0]
    /\ tx = [p \in Procs |-> NoTx]
    /\ writer = None
    /\ now = Ticks
    /\ nextTok = 1
    /\ proc = [p \in Procs |-> Idle]
    /\ granted = {}
    /\ succeeded = {}

Tick ==
    /\ now < MaxTime
    /\ now' = now + 1
    /\ UNCHANGED <<backend, jobs, failed, tx, writer, nextTok, proc, granted, succeeded>>

-----------------------------------------------------------------------------
\* Transactions.

\* The table as p's statements see it.
View(p) == [j \in Jobs |-> IF j \in tx[p].lock THEN tx[p].new[j] ELSE jobs[j]]

\* The rows other transactions keep locked.
LockedOut(p) == UNION {tx[q].lock : q \in Procs \ {p}}

\* p's transaction after a statement turned the rows S of its view into those of t.
Staged(p, t, S) ==
    LET L == tx[p].lock \cup S
    IN [tx[p] EXCEPT !.lock = L, !.new = [j \in Jobs |-> IF j \in L THEN t[j] ELSE NoRow]]

Committed(p) ==
    /\ jobs' = View(p)
    /\ failed' = [j \in Jobs |-> IF j \in tx[p].ins THEN failed[j] + 1 ELSE failed[j]]
    /\ tx' = [tx EXCEPT ![p] = NoTx]

-----------------------------------------------------------------------------
\* Jobs are numbered in the order they are created in.
Enqueueable(j) == jobs[j] = NoRow /\ \A i \in Jobs : i < j => jobs[i] # NoRow

\* Calls of a process and how they end.

\* A claim reads the clock and draws a new token before it calls the repository.
CallClaim(p, kind, first) ==
    /\ proc[p] = Idle
    /\ nextTok <= MaxToken
    /\ proc' = [proc EXCEPT ![p] = [Idle EXCEPT !.pc = first, !.kind = kind, !.now = now,
                                               !.until = now + ReserveFor, !.tok = nextTok]]
    /\ nextTok' = nextTok + 1
    /\ UNCHANGED <<backend, jobs, failed, tx, writer, now, granted, succeeded>>

\* A call on held rows; plan gives every row of a batch its outcome.  Times are
\* kept only where the call uses them.
CallLeased(p, kind, ids, plan, first) ==
    /\ proc[p].pc = "idle"
    /\ ids # {} /\ ids \subseteq proc[p].held
    /\ proc' = [proc EXCEPT ![p].pc = first, ![p].kind = kind, ![p].ids = ids, ![p].plan = plan,
                            ![p].now = IF first = "insert" THEN 0 ELSE now,
                            ![p].until = CASE kind = "extend" -> now + ReserveFor
                                           [] kind \in {"retry", "defer"} -> now + Delay
                                           [] OTHER -> 0]
    /\ succeeded' = succeeded \cup {j \in ids : kind = "ack" \/ plan[j].kind = "success"}
    /\ UNCHANGED <<backend, jobs, failed, tx, writer, now, nextTok, granted>>

\* The process after its call, believing in the rows "held" until "due".
Holding(p, held, due) ==
    IF held = {} THEN Idle
    ELSE [Idle EXCEPT !.tok = proc[p].tok, !.held = held, !.due = due]

\* A claim has returned the rows S with the deadline due.
Claimed(p, S, due) ==
    /\ proc' = [proc EXCEPT ![p] = Holding(p, S, due)]
    /\ granted' = IF S = {} THEN granted ELSE granted \cup {proc[p].tok}

(***************************************************************************)
(* A call on held rows has returned after affecting the rows S.  An        *)
(* extension that did not affect every row fails the lease; after any      *)
(* other call the process is done with the rows, affected or not.          *)
(***************************************************************************)
Returned(p, S) ==
    proc' = [proc EXCEPT ![p] =
        IF proc[p].kind = "extend"
        THEN Holding(p, IF S = proc[p].ids THEN proc[p].held ELSE {}, proc[p].until)
        ELSE Holding(p, proc[p].held \ proc[p].ids, proc[p].due)]

Fail(p) ==
    /\ proc[p] # Idle
    /\ proc' = [proc EXCEPT ![p] = Idle]
    /\ tx' = [tx EXCEPT ![p] = NoTx]
    /\ writer' = IF writer = p THEN None ELSE writer
    /\ UNCHANGED <<backend, jobs, failed, now, nextTok, granted, succeeded>>

-----------------------------------------------------------------------------
\* The first n rows of U in durable order.
FirstOf(t, U, n) == {j \in U : Cardinality(Ahead(t, U, j)) < n}

\* The rows whose attempt a statement can give back.
Counted(t, S) == {j \in S : t[j].attempts > 0}

OneOutcome(ids, kind, at) ==
    [j \in Jobs |-> IF j \in ids THEN [kind |-> kind, avail |-> at] ELSE NoPlan[j]]

\* The rows of p's call that get an outcome of one of the kinds.
PlannedAs(p, kinds) == {j \in proc[p].ids : proc[p].plan[j].kind \in kinds}

\* The outcomes a batch of rows may get.
Plans(ids) ==
    {[j \in Jobs |-> IF j \notin ids THEN NoPlan[j]
                     ELSE [kind |-> f[j], avail |-> IF f[j] \in {"retry", "defer"} THEN now + Delay ELSE 0]] :
        f \in [ids -> BatchKinds]}
=============================================================================
